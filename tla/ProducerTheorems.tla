-------------------------- MODULE ProducerTheorems --------------------------
(***************************************************************************)
(* Every step keeps XInv, and what is proved of Producer from OInv and     *)
(* XInv, for every number of partitions, batches, retries and faults.      *)
(***************************************************************************)
EXTENDS ProducerProofs, ProducerLog, ProducerExact, ProducerPromise

----------------------------------------------------------------------------
(* Every step *)

LEMMA InitExact == Init => XInv
<1> SUFFICES ASSUME Init PROVE XInv
  OBVIOUS
<1>1. Pending = {} /\ \A p \in Partitions : log[p] = << >>
  BY DEF Init, Pending
<1>2. \A b \in Batches : ~Sent(b)
  <2>1. \A z : ~IsCopy(z)
    BY DEF Init, IsCopy, Range
  <2> QED
    BY <2>1, <1>1 DEF Init, Sent, Copied
<1>3. Smooth
  BY <1>1, ConfigAssumption DEF Init, Smooth, Batches
<1>4. Stamped /\ WrittenFirst
  BY <1>2 DEF Init, Stamped, WrittenFirst
<1>5. Gapless
  BY <1>1 DEF Init, Gapless, SequenceNumber
<1> QED
  BY <1>3, <1>4, <1>5 DEF XInv

LEMMA NextExact ==
    Forgiving /\ IInv /\ OInv /\ XInv /\ [Next]_vars
        => XInv'
<1> SUFFICES ASSUME Forgiving, IInv, OInv, XInv, [Next]_vars PROVE XInv'
  BY Zenon
<1> USE DEF batchVars, accVars, senderVars, tmVars, envVars
<1>0. /\ clock = 0 /\ now = 0 /\ expired = {} /\ ~needsReset /\ faults \in Nat
      /\ \A b \in handling : reply[b] # "none"
  BY DEF XInv, Smooth, IInv, TypeOK
<1>s. ASSUME UNCHANGED <<created, tp, count, final, bpid, bseq, attempts, log, zombies, sequence,
                         producerId, clock, inFlight, expired, drained, handling,
                         requests, reply, faults>>, now' = 0, ~needsReset'
      PROVE  XInv'
  <2>1. Pending' = Pending
    BY <1>s DEF Pending
  <2> QED
    BY <1>s, <2>1, <1>0, StillExact
<1>1. ASSUME NEW p \in Partitions, AppendToBatch(p) PROVE XInv'
  BY <1>1, AppendToBatchExact
<1>2. ASSUME NEW p \in Partitions, AppendNewBatch(p) PROVE XInv'
  BY <1>2, AppendNewBatchExact
<1>3. ~Tick
  BY ForgivingGuarantees DEF Tick
<1>4. CASE InitProducerId
  <2>1. /\ UNCHANGED <<created, tp, count, final, bpid, bseq, attempts, log, zombies, sequence, clock,
                       now, inFlight, expired, needsReset, drained, handling, requests, reply, faults>>
        /\ producerId = NoPid
    BY <1>4 DEF InitProducerId
  <2>2. Pending' = Pending /\ \A b : Sent(b)' <=> Sent(b)
    BY <2>1, SameCopies, Zenon DEF Pending, Sent
  <2>3. \A b \in Batches : ~Sent(b)
    BY <2>1 DEF XInv, Stamped
  <2>4. Smooth' /\ Stamped'
    BY <2>1, <2>2, <2>3, Zenon DEF XInv, Smooth, Stamped
  <2>5. Gapless' /\ WrittenFirst'
    BY <2>1, SameCopies, Zenon DEF XInv, Gapless, WrittenFirst, SequenceNumber
  <2> QED
    BY <2>1, <2>4, <2>5 DEF XInv
<1>5. ~InitProducerIdFails
  BY DEF InitProducerIdFails, Forgiving
<1>6. CASE RunOnceFatal \/ EndPoll
  BY <1>6, <1>0, <1>s DEF RunOnceFatal, EndPoll
<1>7. ASSUME NEW P \in SUBSET Partitions, Drain(P) PROVE XInv'
  BY <1>7, DrainExact
<1>8. ASSUME NEW p \in Partitions, ExpireQueued(p) PROVE XInv'
  <2>1. batches[p] \in Seq(Batches) /\ batches[p] # << >> /\ Head(batches[p]) <= 0
    BY <1>8, <1>0, Zenon DEF ExpireQueued, IInv, TypeOK
  <2>2. Head(batches[p]) \in Batches
    BY <2>1, TailRange
  <2> QED
    BY <2>1, <2>2 DEF Batches
<1>9. CASE ExpireInFlight
  <2>1. \A b \in inFlight : ~HasReachedDeliveryTimeout(b)
    BY <1>0 DEF HasReachedDeliveryTimeout, IInv, TypeOK, Batches
  <2>2. {b \in inFlight : HasReachedDeliveryTimeout(b)} = {}
    BY <2>1
  <2>3. inFlight' = inFlight \ {} /\ expired' = expired \cup {} /\ now' = 0
    BY <2>2, <1>9, Zenon DEF ExpireInFlight
  <2>4. needsReset' = (needsReset \/ \E b \in {} : ResetsOnExpiry(b))
    BY <2>2, <1>9 DEF ExpireInFlight
  <2>5. ~needsReset'
    BY <2>4, <1>0, Zenon
  <2>6. inFlight' = inFlight /\ expired' = expired
    BY <2>3
  <2> QED
    BY <2>3, <2>5, <2>6, <1>9, <1>s, Zenon DEF ExpireInFlight
<1>10. ASSUME NEW b \in Batches, FailExpired(b) PROVE XInv'
  BY <1>10, <1>0 DEF FailExpired
<1>11. ~ResetProducerId
  BY <1>0 DEF ResetProducerId
<1>12. ASSUME NEW leader \in [Partitions -> Nodes], Send(leader) PROVE XInv'
  <2>1. /\ UNCHANGED <<created, tp, count, attempts, final, bpid, bseq, handling, reply, zombies, log,
                       sequence, producerId, clock, now, inFlight, expired, needsReset, faults>>
        /\ drained' = {}
        /\ requests' = requests \cup
              {{b \in drained : leader[tp[b]] = n} : n \in {leader[tp[b]] : b \in drained}}
    BY <1>12 DEF Send
  <2>2. Pending' = Pending
    <3>1. UNION requests' = (UNION requests) \cup drained
      <4>1. \A b \in drained : b \in {c \in drained : leader[tp[c]] = leader[tp[b]]}
        OBVIOUS
      <4>2. \A R \in requests' : R \in requests \/ R \subseteq drained
        BY <2>1
      <4>3. \A b \in drained : {c \in drained : leader[tp[c]] = leader[tp[b]]} \in requests'
        BY <2>1
      <4>4. requests \subseteq requests'
        BY <2>1
      <4> QED
        BY <4>1, <4>2, <4>3, <4>4, Zenon
    <3> QED
      BY <3>1, <2>1, Zenon DEF Pending
  <2> QED
    BY <2>1, <2>2, <1>0, StillExact
<1>13. ASSUME NEW b \in Batches, CompleteBatch(b) PROVE XInv'
  <2>1. CASE reply[b] = "ok"
    <3>1. Succeed(b)
      BY <1>13, <2>1 DEF CompleteBatch, Retried
    <3> QED
      BY <3>1, <2>1, <1>13, SucceedExact, Zenon
  <2>2. CASE reply[b] # "ok"
    <3>1. Retried(b)
      BY <2>2, <1>13, RetriedExact, Zenon
    <3>2. Reenqueue(b)
      BY <3>1, <2>2, <1>13, Zenon DEF CompleteBatch
    <3> QED
      BY <3>1, <3>2, <1>13, ReenqueueExact
  <2> QED
    BY <2>1, <2>2
<1>14. ASSUME NEW S \in requests, Response(S) PROVE XInv'
  <2>1. /\ UNCHANGED <<created, tp, count, attempts, final, bpid, bseq, drained, reply, zombies, log,
                       sequence, producerId, clock, now, inFlight, expired, needsReset, faults>>
        /\ handling = {} /\ handling' = S /\ requests' = requests \ {S}
        /\ \A b \in S : reply[b] # "none"
    BY <1>14 DEF Response
  <2>2. Pending' = Pending
    <3>1. handling' \cup UNION requests' = handling \cup UNION requests
      BY <2>1
    <3> QED
      BY <3>1, <2>1 DEF Pending
  <2> QED
    BY <2>1, <2>2, <1>0, StillExact
<1>15. ASSUME NEW S \in requests, FailedProduce(S) PROVE XInv'
  BY <1>15, FailedProduceExact
<1>16. ASSUME NEW b \in Batches, BrokerAppend(b) PROVE XInv'
  <2>1. /\ UNCHANGED <<created, tp, count, attempts, final, bpid, bseq, drained, handling,
                       requests, sequence, producerId, clock, now, expired, needsReset,
                       inFlight, faults, zombies>>
        /\ log' = LogAfter(Copy(b)) /\ b \in UNION requests
        /\ reply' = [reply EXCEPT ![b] = IF IsDuplicate(Copy(b)) \/ InSequence(Copy(b))
                                         THEN "ok" ELSE "outOfOrder"]
    BY <1>16, Zenon DEF BrokerAppend
  <2>2. b \in Pending /\ b <= created /\ Sent(b) /\ Copy(b).batch = b
    BY <2>1 DEF Pending, Sent, IInv, Placed, Copy
  <2>3. Copy(b) \in Copies
    BY <2>2, CopyType, Zenon DEF IInv
  <2>4. IsDuplicate(Copy(b)) \/ InSequence(Copy(b))
    BY <2>2, <2>3, BrokerDecides, Zenon DEF Accepts
  <2>5. \A c \in Batches : reply'[c] = reply[c] \/ (c = Copy(b).batch /\ reply'[c] = "ok")
    BY <2>1, <2>2, <2>4, Zenon DEF IInv, TypeOK
  <2> QED
    BY <2>1, <2>2, <2>3, <2>5, BrokerExact, Zenon
<1>17. ASSUME NEW z \in zombies, BrokerAppendLate(z) PROVE XInv'
  <2>1. /\ UNCHANGED <<created, tp, count, attempts, final, bpid, bseq, drained, handling,
                       requests, sequence, producerId, clock, now, expired, needsReset,
                       inFlight, faults, reply>>
        /\ log' = LogAfter(z) /\ zombies' \subseteq zombies
    BY <1>17, Zenon DEF BrokerAppendLate
  <2>2. z \in Copies /\ IsCopy(z) /\ Copied(z.batch)
    BY DEF IInv, TypeOK, IsCopy, Copied
  <2>3. z = Copy(z.batch) /\ Sent(z.batch)
    BY <2>2, Zenon DEF OInv, Faithful, Sent
  <2> QED
    BY <2>1, <2>2, <2>3, BrokerExact, Zenon
<1>18. ASSUME NEW b \in Batches, NEW e \in ErrorKinds, BrokerRefuse(b, e) PROVE XInv'
  <2>1. /\ UNCHANGED <<created, tp, count, attempts, final, bpid, bseq, drained, handling, requests,
                       zombies, log, sequence, producerId, clock, now, expired, needsReset, inFlight>>
        /\ reply' = [reply EXCEPT ![b] = e] /\ faults' = faults + 1
    BY <1>18 DEF BrokerRefuse
  <2>2. e = "retriable"
    BY Zenon DEF Forgiving
  <2>3. \A c \in Batches : reply'[c] = reply[c] \/ (reply'[c] = "retriable" /\ faults < faults')
    BY <2>1, <2>2, <1>0 DEF IInv, TypeOK
  <2>4. \A c \in handling' : reply'[c] # "none"
    BY <2>1, <2>3, <1>0, Zenon DEF IInv, TypeOK
  <2>5. Pending' = Pending
    BY <2>1, Zenon DEF Pending
  <2> QED
    BY <2>1, <2>3, <2>4, <2>5, <1>0, StillExact
<1>19. CASE UNCHANGED vars
  BY <1>19, <1>0, <1>s DEF vars
<1> QED
  BY <1>1, <1>2, <1>3, <1>4, <1>5, <1>6, <1>7, <1>8, <1>9, <1>10, <1>11, <1>12, <1>13,
     <1>14, <1>15, <1>16, <1>17, <1>18, <1>19, Zenon DEF Next, RunOnce, Network

\* OInv is inductive relative to IInv.
THEOREM OrderInvariance == Spec => [](IInv /\ OInv)
<1>1. Init => IInv /\ OInv
  BY InitIInv, InitOInv
<1>2. IInv /\ OInv /\ [Next]_vars => (IInv /\ OInv)'
  BY NextIInv, NextOInv
<1> QED
  BY <1>1, <1>2, PTL DEF Spec

\* With the message order guaranteed every deque is in creation order and what
\* is in flight precedes it, so that reenqueue at the front keeps the order.
THEOREM QueueStaysInOrder == Spec => []QueueInOrder
<1>1. IInv /\ OInv => QueueInOrder
  BY DEF OInv
<1> QED
  BY <1>1, OrderInvariance, PTL

\* The idempotent producer: whatever was lost, repeated or delayed, and however
\* often batches expired and producer ids were reset, the broker writes no batch
\* twice.  A copy always carries the producer id and sequence of the first send.
THEOREM NothingWrittenTwice == Spec => []NoDuplicates
<1>1. IInv /\ OInv => NoDuplicates
  BY DEF OInv
<1> QED
  BY <1>1, OrderInvariance, PTL

\* Without idempotence a batch reported as sent is in the log of its partition.
\* (With it the broker may take a batch for an expired one: see the README.)
THEOREM ReportedIsWritten == Spec => [](~Idempotent => AckedWritten)
<1>1. IInv /\ OInv => (~Idempotent => AckedWritten)
  BY Zenon DEF OInv, Answered, AckedWritten, IsDuplicate
<1> QED
  BY <1>1, OrderInvariance, PTL

----------------------------------------------------------------------------
(* Refinement of OrderedDelivery *)

LEMMA PromiseStutters ==
    ASSUME UNCHANGED <<created, tp, final, log>>
    PROVE  UNCHANGED Promise!dvars
BY Zenon DEF Promise!dvars, accepted, stream, acked

\* What the state shows of a partition.
LEMMA PromiseShown ==
    ASSUME IInv, NEW p \in Partitions
    PROVE  /\ accepted[p] = {b \in Batches : b <= created /\ tp[b] = p}
           /\ acked[p] = {b \in Batches : b <= created /\ tp[b] = p /\ final[b] = "SUCCEEDED"}
           /\ Len(stream[p]) = Len(log[p])
           /\ \A i \in 1 .. Len(log[p]) : stream[p][i] = log[p][i].batch
<1>1. created \in Nat /\ created <= MaxBatches /\ Len(log[p]) \in Nat
  BY DEF IInv, TypeOK
<1>2. accepted[p] = {b \in Batches : b <= created /\ tp[b] = p}
  BY <1>1, ConfigNumbers DEF accepted, Batches
<1>3. acked[p] = {b \in Batches : b <= created /\ tp[b] = p /\ final[b] = "SUCCEEDED"}
  BY <1>2 DEF acked
<1>4. stream[p] = [i \in 1 .. Len(log[p]) |-> log[p][i].batch]
  BY DEF stream
<1>5. Len(stream[p]) = Len(log[p])
  BY <1>1, <1>4
<1> QED
  BY <1>2, <1>3, <1>4, <1>5, Zenon

LEMMA PromiseInit == Init => Promise!DInit
<1> SUFFICES ASSUME Init PROVE Promise!DInit
  OBVIOUS
<1>1. created = 0 /\ \A p \in Partitions : log[p] = << >>
  BY DEF Init
<1>2. \A p \in Partitions : [i \in 1 .. Len(log[p]) |-> log[p][i].batch] = << >>
  BY <1>1
<1>3. stream = [p \in Partitions |-> << >>]
  BY <1>2 DEF stream
<1>4. accepted = [p \in Partitions |-> {}]
  BY <1>1 DEF accepted
<1>5. acked = [p \in Partitions |-> {}]
  BY <1>4 DEF acked
<1> QED
  BY <1>3, <1>4, <1>5 DEF Promise!DInit

\* RecordAccumulator.append opens a batch: the partition accepts its number.
LEMMA PromiseAccept ==
    ASSUME IInv, NEW p \in Partitions, AppendNewBatch(p)
    PROVE  Promise!DNext
<1>0. PICK n \in Nat : n = created + 1
  BY DEF IInv, TypeOK
<1>1. /\ created \in Nat /\ created' = n /\ n = created + 1 /\ n \in Batches
      /\ tp' = [tp EXCEPT ![n] = p] /\ DOMAIN tp = Batches
      /\ UNCHANGED <<final, log>> /\ final[n] # "SUCCEEDED"
      /\ 1 .. n \subseteq Batches
  <2>1. /\ created \in Nat /\ created < MaxBatches /\ created' = created + 1
        /\ UNCHANGED <<final, log>> /\ DOMAIN tp = Batches
    BY ConfigNumbers DEF AppendNewBatch, envVars, IInv, TypeOK
  <2>2. n \in Batches /\ 1 .. n \subseteq Batches
    BY <1>0, <2>1, ConfigNumbers DEF Batches
  <2>3. final[n] # "SUCCEEDED"
    BY <1>0, <2>1, <2>2 DEF IInv, Placed
  <2> QED
    BY <1>0, <2>1, <2>2, <2>3, Zenon DEF AppendNewBatch
<1>2. \A q \in Partitions : accepted'[q] = IF q = p THEN accepted[q] \cup {n} ELSE accepted[q]
  <2> SUFFICES ASSUME NEW q \in Partitions, NEW b
               PROVE  b \in accepted'[q] <=> b \in accepted[q] \/ (q = p /\ b = n)
    BY Zenon
  <2>1. b \in accepted[q] <=> b \in 1 .. created /\ tp[b] = q
    BY DEF accepted
  <2>2. b \in accepted'[q] <=> b \in 1 .. n /\ tp'[b] = q
    BY <1>1 DEF accepted
  <2>3. b \in 1 .. n <=> b \in 1 .. created \/ b = n
    BY <1>1
  <2> QED
    BY <2>1, <2>2, <2>3, <1>1
<1>3. accepted' = [accepted EXCEPT ![p] = @ \cup {n}]
  <2>1. /\ accepted = [q \in Partitions |-> accepted[q]]
        /\ accepted' = [q \in Partitions |-> accepted'[q]]
    BY DEF accepted
  <2> QED
    BY <1>2, <2>1
<1>4. acked' = acked
  <2>1. \A q \in Partitions : acked'[q] = {b \in accepted'[q] : final[b] = "SUCCEEDED"}
    BY <1>1 DEF acked
  <2>2. \A q \in Partitions : acked[q] = {b \in accepted[q] : final[b] = "SUCCEEDED"}
    BY DEF acked
  <2>3. ASSUME NEW q \in Partitions PROVE acked'[q] = acked[q]
    <3>1. \A b : b \in accepted'[q] /\ b # n <=> b \in accepted[q] /\ b # n
      BY <1>2, Zenon
    <3>2. \A b : b \in acked'[q] <=> b \in acked[q]
      BY <3>1, <2>1, <2>2, <1>1
    <3> QED
      BY <3>2, <2>1, <2>2, Zenon
  <2> QED
    BY <2>3 DEF acked
<1>5. stream' = stream
  BY <1>1 DEF stream
<1>6. \A q \in Partitions : \A y \in accepted[q] : y < n
  BY <1>1 DEF accepted
<1>7. Promise!Accept(p, n)
  BY <1>3, <1>4, <1>5, <1>6 DEF Promise!Accept
<1> QED
  BY <1>1, <1>7, Zenon DEF Promise!DNext

\* The broker writes a copy of the first batch of the partition that is not in
\* its log, or nothing.
LEMMA PromiseWrite ==
    ASSUME Forgiving, IInv, OInv, XInv, NEW z \in Copies, z = Copy(z.batch), Sent(z.batch),
           log' = LogAfter(z), UNCHANGED <<created, tp, final>>
    PROVE  [Promise!DNext]_(Promise!dvars)
<1>1. PICK p \in Partitions : p = z.tp /\ p = tp[z.batch]
  BY BrokerDecides
<1>2. PICK x \in Batches : x = z.batch
  BY DEF Copies
<1>3. CASE x \in Written(p)
  <2>1. log' = log
    BY <1>1, <1>2, <1>3, BrokerDecides, Zenon DEF LogAfter, Accepts
  <2> QED
    BY <2>1, PromiseStutters, Zenon
<1>4. CASE x \notin Written(p)
  <2>1. log' = [log EXCEPT ![p] = Append(@, z)]
    BY <1>1, <1>2, <1>4, BrokerDecides, Zenon DEF LogAfter
  <2>2. UNCHANGED <<accepted, acked>>
    BY DEF accepted, acked
  <2>3. \A y : y \in Promise!Unwritten(p) <=> y \in accepted[p] /\ y \notin Written(p)
    BY PromiseShown DEF Promise!Unwritten, Written
  <2>4. x \in Promise!Unwritten(p)
    <3>1. x <= created
      BY <1>2, SentCreated, Zenon
    <3> QED
      BY <2>3, <3>1, <1>1, <1>2, <1>4, PromiseShown
  <2>5. \A y \in Promise!Unwritten(p) : x <= y
    <3> SUFFICES ASSUME NEW y \in Promise!Unwritten(p) PROVE ~(y < x)
      BY <2>3, PromiseShown DEF Batches
    <3>1. y \in Batches /\ tp[y] = p /\ y \notin Written(p)
      BY <2>3, PromiseShown
    <3>2. final[y] # "SUCCEEDED"
      BY <3>1 DEF XInv, WrittenFirst
    <3> QED
      BY <3>1, <3>2, <1>1, <1>2, OldersSucceeded, Zenon
  <2>6. stream' = [stream EXCEPT ![p] = Append(@, x)]
    <3> DEFINE W(q) == [i \in 1 .. Len(log[q]) |-> log[q][i].batch]
    <3>1. \A q \in Partitions : q # p => log'[q] = log[q]
      BY <2>1, Zenon DEF IInv, TypeOK
    <3>2. PICK n \in Nat : n = Len(log[p])
      BY DEF IInv, TypeOK
    <3>3. Len(log'[p]) = n + 1 /\ log'[p][n + 1] = z /\ \A i \in 1 .. n : log'[p][i] = log[p][i]
      <4>1. log'[p] = Append(log[p], z) /\ log[p] \in Seq(Copies)
        BY <2>1, Zenon DEF IInv, TypeOK
      <4>2. z \in Copies
        OBVIOUS
      <4>3. /\ Len(Append(log[p], z)) = Len(log[p]) + 1 /\ Append(log[p], z)[Len(log[p]) + 1] = z
            /\ \A i \in 1 .. Len(log[p]) : Append(log[p], z)[i] = log[p][i]
        BY <4>1, <4>2, AppendEntries, Zenon
      <4> QED
        BY <4>1, <4>3, <3>2, Zenon
    <3>4. W(p) = [i \in 1 .. n |-> log[p][i].batch] /\ W(p) \in Seq(Batches) /\ Len(W(p)) = n
      <4>1. \A i \in 1 .. n : log[p][i].batch \in Batches
        BY <3>2, LogEntry, Zenon
      <4>2. W(p) = [i \in 1 .. n |-> log[p][i].batch]
        BY <3>2, Zenon
      <4> QED
        BY <4>1, <4>2
    <3>5. Append(W(p), x) = [i \in 1 .. n + 1 |-> IF i = n + 1 THEN x ELSE W(p)[i]]
      BY <3>4
    <3>6. W(p)' = [i \in 1 .. n + 1 |-> log'[p][i].batch]
      BY <3>3, Zenon
    <3>7. W(p)' = Append(W(p), x)
      <4>1. \A i \in 1 .. n + 1 : i # n + 1 => i \in 1 .. n
        OBVIOUS
      <4>2. \A i \in 1 .. n : W(p)[i] = log[p][i].batch
        BY <3>4
      <4>3. \A i \in 1 .. n + 1 : log'[p][i].batch = IF i = n + 1 THEN x ELSE W(p)[i]
        BY <3>3, <4>1, <4>2, <1>2, Zenon
      <4> HIDE DEF W
      <4> QED
        BY <3>5, <3>6, <4>3, Zenon
    <3>8. \A q \in Partitions : q # p => W(q)' = W(q)
      BY <3>1, Zenon
    <3>9. stream = [q \in Partitions |-> W(q)] /\ stream' = [q \in Partitions |-> W(q)']
      BY DEF stream
    <3> HIDE DEF W
    <3> QED
      BY <3>7, <3>8, <3>9, Zenon
  <2>7. Promise!Write(p, x)
    BY <2>2, <2>4, <2>5, <2>6, Zenon DEF Promise!Write
  <2> QED
    BY <2>7, Zenon DEF Promise!DNext
<1> QED
  BY <1>3, <1>4, Zenon

\* _complete_batch reports a batch as sent: it is the last one in the log of
\* its partition, and all before it are reported.
LEMMA PromiseAck ==
    ASSUME Forgiving, IInv, OInv, XInv, NEW b \in Batches, CompleteBatch(b),
           reply[b] = "ok", Succeed(b)
    PROVE  Promise!DNext
<1>1. UNCHANGED <<created, tp, log>> /\ b \in Pending
  BY CompleteBatchCopies
<1>2. PICK p \in Partitions : p = tp[b]
  BY CompleteBatchFacts, Zenon
<1>3. final[b] = "none" /\ b <= created
  BY CompleteBatchFacts, Zenon DEF XInv, Smooth, IInv, TypeOK, FinalStates
<1>4. \A c \in Batches : final'[c] = IF c = b THEN "SUCCEEDED" ELSE final[c]
  BY <1>3, Zenon DEF Succeed, FinalAfter, Done, IInv, TypeOK
<1>5. PICK n \in Nat : n = Len(log[p])
  BY DEF IInv, TypeOK
<1>6. n \in 1 .. n /\ log[p][n].batch = b
  <2>1. b \in Written(p)
    BY <1>2, Zenon DEF XInv, WrittenFirst
  <2>2. PICK i \in 1 .. n : log[p][i].batch = b
    BY <2>1, <1>5, Zenon DEF Written
  <2>3. i = n
    BY <2>2, <1>3, <1>5, Zenon DEF XInv, Gapless
  <2> QED
    BY <2>2, <2>3, Zenon
<1>7. Len(stream[p]) = n /\ \A i \in 1 .. n : stream[p][i] = log[p][i].batch
  BY <1>5, PromiseShown, Zenon
<1>8. b \notin acked[p] /\ b \in accepted[p]
  BY <1>2, <1>3, PromiseShown, Zenon
<1>9. ASSUME NEW j \in 1 .. n - 1 PROVE stream[p][j] \in acked[p]
  <2>1. j \in 1 .. n /\ j # n
    OBVIOUS
  <2>2. /\ log[p][j].batch \in Batches /\ log[p][j].batch <= created
        /\ tp[log[p][j].batch] = p
    BY <2>1, <1>5, LogEntry, Zenon
  <2>3. final[log[p][j].batch] = "SUCCEEDED"
    BY <2>1, <1>5, Zenon DEF XInv, Gapless
  <2> QED
    <3>1. log[p][j].batch \in acked[p]
      BY <2>2, <2>3, PromiseShown
    <3> QED
      BY <2>1, <3>1, <1>7, Zenon
<1>10. UNCHANGED <<accepted, stream>>
  BY <1>1, Zenon DEF accepted, stream
<1>11. acked' = [acked EXCEPT ![p] = @ \cup {b}]
  <2>1. \A q \in Partitions : /\ acked'[q] = {c \in accepted[q] : final'[c] = "SUCCEEDED"}
                              /\ acked[q] = {c \in accepted[q] : final[c] = "SUCCEEDED"}
    BY <1>10, Zenon DEF acked
  <2>2. \A q \in Partitions : accepted[q] \subseteq Batches /\ (b \in accepted[q] <=> q = p)
    BY <1>2, <1>3, PromiseShown
  <2>3. ASSUME NEW q \in Partitions
        PROVE  acked'[q] = IF q = p THEN acked[q] \cup {b} ELSE acked[q]
    <3>1. \A c : c \in acked'[q] <=> c \in acked[q] \/ (q = p /\ c = b)
      BY <2>1, <2>2, <1>4
    <3> QED
      BY <3>1, Zenon
  <2>4. /\ acked = [q \in Partitions |-> acked[q]]
        /\ acked' = [q \in Partitions |-> acked'[q]]
    BY Zenon DEF acked
  <2> QED
    BY <2>3, <2>4
<1>12. stream[p][n] = b
  BY <1>6, <1>7, Zenon
<1>13. Promise!Ack(p, n)
  BY <1>8, <1>9, <1>10, <1>11, <1>12, Zenon DEF Promise!Ack
<1> QED
  BY <1>6, <1>7, <1>13, Zenon DEF Promise!DNext

\* Every other step leaves what the promise shows alone.
LEMMA PromiseNext ==
    Forgiving /\ IInv /\ OInv /\ XInv /\ [Next]_vars => [Promise!DNext]_(Promise!dvars)
<1> SUFFICES ASSUME Forgiving, IInv, OInv, XInv, [Next]_vars
             PROVE  [Promise!DNext]_(Promise!dvars)
  OBVIOUS
<1> DEFINE Still == UNCHANGED <<created, tp, final, log>>
<1> USE DEF batchVars, accVars, senderVars, tmVars, envVars
<1>0. clock = 0 /\ now = 0 /\ expired = {} /\ ~needsReset
  BY Zenon DEF XInv, Smooth
<1>1. ASSUME NEW p \in Partitions, AppendToBatch(p) PROVE Still
  BY <1>1 DEF AppendToBatch
<1>2. ASSUME NEW p \in Partitions, AppendNewBatch(p) PROVE Promise!DNext
  BY <1>2, PromiseAccept, Zenon
<1>3. CASE Tick \/ InitProducerId \/ InitProducerIdFails \/ RunOnceFatal \/ EndPoll
  BY <1>3, PromiseStutters DEF Tick, InitProducerId, InitProducerIdFails, RunOnceFatal, EndPoll
<1>4. ASSUME NEW P \in SUBSET Partitions, Drain(P) PROVE Still
  BY <1>4, Zenon DEF Drain
<1>5. ASSUME NEW p \in Partitions, ExpireQueued(p) PROVE FALSE
  <2>1. batches[p] \in Seq(Batches) /\ batches[p] # << >> /\ Head(batches[p]) <= 0
    BY <1>5, <1>0, Zenon DEF ExpireQueued, IInv, TypeOK
  <2>2. Head(batches[p]) \in Batches
    BY <2>1, TailRange
  <2> QED
    BY <2>1, <2>2 DEF Batches
<1>6. CASE ExpireInFlight \/ ResetProducerId
  BY <1>6, PromiseStutters, Zenon DEF ExpireInFlight, ResetProducerId
<1>7. ASSUME NEW b \in Batches, FailExpired(b) PROVE FALSE
  BY <1>7, <1>0 DEF FailExpired
<1>8. ASSUME NEW leader, Send(leader) PROVE Still
  BY <1>8, Zenon DEF Send
<1>9. ASSUME NEW b \in Batches, CompleteBatch(b) PROVE Promise!DNext \/ Still
  <2>1. CASE reply[b] = "ok"
    <3>1. Succeed(b)
      BY <1>9, <2>1 DEF CompleteBatch, Retried
    <3> QED
      BY <3>1, <2>1, <1>9, PromiseAck, Zenon
  <2>2. CASE reply[b] # "ok"
    <3>1. Retried(b)
      BY <2>2, <1>9, RetriedExact
    <3>2. Reenqueue(b)
      BY <3>1, <2>2, <1>9 DEF CompleteBatch
    <3> QED
      BY <3>2, <1>9, Zenon DEF CompleteBatch, Reenqueue
  <2> QED
    BY <2>1, <2>2
<1>10. ASSUME NEW S \in requests, Response(S) \/ FailedProduce(S) PROVE Still
  BY <1>10, Zenon DEF Response, FailedProduce
<1>11. ASSUME NEW b \in Batches, BrokerAppend(b) PROVE [Promise!DNext]_(Promise!dvars)
  <2>1. log' = LogAfter(Copy(b)) /\ UNCHANGED <<created, tp, final>> /\ b \in UNION requests
    BY <1>11, Zenon DEF BrokerAppend
  <2>2. b \in Pending /\ b <= created /\ Sent(b) /\ Copy(b).batch = b
    BY <2>1, Zenon DEF Pending, Sent, IInv, Placed, Copy
  <2>3. Copy(b) \in Copies
    BY <2>2, CopyType DEF IInv
  <2> QED
    BY <2>1, <2>2, <2>3, PromiseWrite, Zenon
<1>12. ASSUME NEW z \in zombies, BrokerAppendLate(z) PROVE [Promise!DNext]_(Promise!dvars)
  <2>1. log' = LogAfter(z) /\ UNCHANGED <<created, tp, final>>
    BY <1>12, Zenon DEF BrokerAppendLate
  <2>2. z \in Copies /\ IsCopy(z) /\ Copied(z.batch)
    BY DEF IInv, TypeOK, IsCopy, Copied
  <2>3. z = Copy(z.batch) /\ Sent(z.batch)
    BY <2>2, Zenon DEF OInv, Faithful, Sent
  <2> QED
    BY <2>1, <2>2, <2>3, PromiseWrite, Zenon
<1>13. ASSUME NEW b \in Batches, NEW e \in ErrorKinds, BrokerRefuse(b, e) PROVE Still
  BY <1>13, Zenon DEF BrokerRefuse
<1>14. CASE UNCHANGED vars
  BY <1>14, PromiseStutters DEF vars
<1> QED
  BY <1>1, <1>2, <1>3, <1>4, <1>5, <1>6, <1>7, <1>8, <1>9, <1>10, <1>11, <1>12, <1>13,
     <1>14, PromiseStutters, Zenon DEF Next, RunOnce, Network

\* XInv is inductive relative to IInv and OInv, if the retries last for the
\* faults.
THEOREM ExactInvariance == ASSUME Forgiving PROVE Spec => [](IInv /\ OInv /\ XInv)
<1>1. Init => IInv /\ OInv /\ XInv
  BY InitIInv, InitOInv, InitExact, Zenon
<1>2. IInv /\ OInv /\ XInv /\ [Next]_vars => (IInv /\ OInv /\ XInv)'
  BY NextIInv, NextOInv, NextExact
<1> QED
  BY <1>1, <1>2, PTL DEF Spec

\* Refinement: whatever requests and responses are lost, repeated or delayed,
\* the batches of a partition are written once and in the order of creation,
\* and acknowledged in that order, if the retries last for the faults.
THEOREM PromiseKept == ASSUME Forgiving PROVE Spec => ImplementsOrderedDelivery
<1>1. Init => Promise!DInit
  BY PromiseInit
<1>2. IInv /\ OInv /\ XInv /\ [Next]_vars => [Promise!DNext]_(Promise!dvars)
  BY PromiseNext
<1>3. Spec => [](IInv /\ OInv /\ XInv)
  BY ExactInvariance
<1> QED
  BY <1>1, <1>2, <1>3, PTL DEF Spec, ImplementsOrderedDelivery, Promise!DSpec

\* Under the same conditions a batch reported as sent is in its partition's log.
THEOREM ReportedIsWrittenExactly == ASSUME Forgiving PROVE Spec => []AckedWritten
<1>1. IInv /\ OInv /\ XInv => AckedWritten
  BY DEF XInv, WrittenFirst, AckedWritten
<1>2. Spec => [](IInv /\ OInv /\ XInv)
  BY ExactInvariance
<1> QED
  BY <1>1, <1>2, PTL

LOCAL INSTANCE WellFoundedInduction

\* Every non-empty set of numbers has a least element.
LEMMA LeastNumber ==
    ASSUME NEW T \in SUBSET Nat, T # {}
    PROVE  \E m \in T : \A k \in T : m <= k
<1> DEFINE less == {ss \in Nat \X Nat : ss[1] < ss[2]}
<1>1. IsWellFoundedOn(less, Nat)
  BY NatLessThanWellFounded, Zenon DEF OpToRel
<1>2. \A k, m \in Nat : <<k, m>> \in less <=> k < m
  OBVIOUS
<1> HIDE DEF less
<1>3. T \subseteq Nat
  OBVIOUS
<1>4. \E m \in T : \A k \in T : ~(<<k, m>> \in less)
  BY <1>1, <1>3, WFMin, Zenon
<1>5. PICK m \in T : \A k \in T : ~(<<k, m>> \in less)
  BY <1>4
<1>6. m \in Nat /\ \A k \in T : k \in Nat /\ ~(k < m)
  BY <1>2, <1>3, <1>5, Zenon
<1>7. \A k \in T : m <= k
  BY <1>6
<1> QED
  BY <1>7

LEMMA FirstWriteIsFirst ==
    ASSUME IInv, NEW p \in Partitions, NEW b \in Written(p), tp[b] = p
    PROVE  /\ FirstWrite(b) \in 1 .. Len(log[p])
           /\ log[p][FirstWrite(b)].batch = b
           /\ \A j \in 1 .. FirstWrite(b) - 1 : log[p][j].batch # b
<1> DEFINE T == {i \in 1 .. Len(log[p]) : log[p][i].batch = b}
<1>1. Len(log[p]) \in Nat
  BY DEF IInv, TypeOK
<1>2. T # {} /\ T \in SUBSET Nat
  BY <1>1 DEF Written
<1>3. PICK m \in T : \A k \in T : m <= k
  BY <1>2, LeastNumber, Zenon
<1>4. /\ m \in 1 .. Len(log[tp[b]]) /\ log[tp[b]][m].batch = b
      /\ \A j \in 1 .. m - 1 : log[tp[b]][j].batch # b
  BY <1>1, <1>3
<1> QED
  BY <1>4, Zenon DEF FirstWrite

\* With the message order guaranteed, two acknowledged batches of a partition
\* are in its log in the order in which their records were sent, whatever
\* failed, expired or was retried between them, with or without idempotence.
THEOREM AcknowledgedInOrder == Spec => []AckedInOrder
<1>1. IInv /\ OInv => AckedInOrder
  <2> SUFFICES ASSUME IInv, OInv, GuaranteeOrder, NEW p \in Partitions,
                      NEW b \in Written(p), NEW c \in Written(p),
                      final[b] = "SUCCEEDED", b < c
               PROVE  FirstWrite(b) < FirstWrite(c)
    BY Zenon DEF AckedInOrder
  <2>1. tp[b] = p /\ tp[c] = p
    <3> SUFFICES ASSUME NEW e \in Written(p) PROVE tp[e] = p
      OBVIOUS
    <3>1. PICK z \in Range(log[p]) : z.batch = e
      BY WrittenCopies, Zenon DEF IInv
    <3>2. z = Copy(e) /\ z.tp = p
      BY <3>1, WrittenCopies, Zenon DEF IInv, OInv, Faithful, IsCopy
    <3> QED
      BY <3>2, Zenon DEF Copy
  <2>2. /\ FirstWrite(b) \in 1 .. Len(log[p])
        /\ \A j \in 1 .. FirstWrite(b) - 1 : log[p][j].batch # b
    BY <2>1, FirstWriteIsFirst, Zenon
  <2>3. FirstWrite(c) \in 1 .. Len(log[p]) /\ log[p][FirstWrite(c)].batch = c
    BY <2>1, FirstWriteIsFirst, Zenon
  <2>4. PICK i \in 1 .. FirstWrite(c) - 1 : log[p][i].batch = b
    BY <2>3, Zenon DEF OInv, Ordered
  <2>5. Len(log[p]) \in Nat
    BY DEF IInv, TypeOK
  <2> QED
    BY <2>2, <2>3, <2>4, <2>5
<1> QED
  BY <1>1, OrderInvariance, PTL

=============================================================================
