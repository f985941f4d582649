---------------------------- MODULE ProducerLog -----------------------------
(***************************************************************************)
(* What the broker writes and answers keeps OInv.                          *)
(***************************************************************************)
EXTENDS ProducerOrder

\* The broker handles the copy z of a batch and appends it to its log, unless
\* it knows it already or it is not the next in sequence.
LEMMA BrokerOrder ==
    ASSUME IInv, OInv, NEW z \in Copies, z = Copy(z.batch), Sent(z.batch),
           \A p \in Partitions : z.batch \in Queued(p) => attempts[z.batch] > 0,
           log' = LogAfter(z), zombies' \subseteq zombies,
           UNCHANGED <<created, tp, count, attempts, final, bpid, bseq, batches, drained, handling,
                       requests>>,
           \A b \in Batches : reply'[b] # "none" => b \in handling \cup UNION requests,
           \A b \in Batches : reply'[b] = "ok" =>
               reply[b] = "ok" \/ (b = z.batch /\ (IsDuplicate(z) \/ InSequence(z)))
    PROVE  OInv'
<1> DEFINE p == z.tp
           n == Len(log[p])
<1> USE DEF OInv
<1>1. /\ p \in Partitions /\ log[p] \in Seq(Copies) /\ n \in Nat /\ z.batch \in Batches
      /\ p = tp[z.batch]
  <2>1. z.batch \in Batches
    BY DEF Copies
  <2>2. Copy(z.batch).tp = tp[z.batch]
    BY DEF Copy
  <2> QED
    BY <2>1, <2>2, LogAfterCopy DEF IInv
<1>2. Accepts(z) => /\ Len(log'[p]) = n + 1 /\ log'[p][n + 1] = z
                    /\ \A i \in 1 .. n : log'[p][i] = log[p][i]
  BY LogAfterCopy DEF IInv
<1>3. \A q \in Partitions : q # p \/ ~Accepts(z) => log'[q] = log[q]
  BY LogAfterCopy DEF IInv
<1>4. \A q \in Partitions : /\ Range(log[q]) \subseteq Range(log'[q])
                            /\ Range(log'[q]) \subseteq Range(log[q]) \cup {z}
                            /\ q # p => Range(log'[q]) = Range(log[q])
  BY LogAfterCopy, Zenon DEF IInv
<1>5. \A c : IsCopy(c)' => IsCopy(c) \/ c = z
  BY LogAfterCopy DEF IInv
<1>6. \A b : Copied(b)' => Copied(b) \/ b = z.batch
  BY LogAfterCopy DEF IInv
<1>7. \A b : Copy(b)' = Copy(b)
  BY DEF Copy
<1>8. \A c \in Copies : IsDuplicate(c) => IsDuplicate(c)'
  <2> SUFFICES ASSUME NEW c \in Copies, IsDuplicate(c) PROVE IsDuplicate(c)'
    OBVIOUS
  <2>1. c.tp \in Partitions
    BY Zenon DEF Copies
  <2> QED
    BY <2>1, <1>4 DEF IsDuplicate
<1>9. \A q \in Partitions : \A b : b \in Written(q)' <=>
          b \in Written(q) \/ (q = p /\ Accepts(z) /\ b = z.batch)
  BY LogAfterCopy DEF IInv
<1>10. QueueInOrder'
  BY DEF QueueInOrder, Queued, Pending
<1>11. Faithful'
  <2>1. ASSUME NEW c \in Copies, IsCopy(c)' PROVE c.batch <= created' /\ c = Copy(c.batch)'
    BY <2>1, <1>1, <1>5, <1>7, SentCreated DEF Faithful
  <2>2. \A q \in Partitions : \A c \in Range(log'[q]) : c.tp = q
    BY <1>4 DEF Faithful
  <2> QED
    BY <2>1, <2>2, Zenon DEF Faithful
<1>12. Closed'
  BY <1>6 DEF Closed, Queued
<1>13. OldersSettled'
  <2>1. \A b : Sent(b)' => Sent(b)
    BY <1>6 DEF Sent, Pending
  <2> QED
    BY <2>1 DEF OldersSettled, Queued, Pending
<1>14. Answered'
  <2>1. ASSUME NEW b \in Batches, reply'[b] = "ok" \/ final[b] = "SUCCEEDED"
        PROVE  b \in Written(tp[b])' \/ IsDuplicate(Copy(b))'
    <3>1. b <= created /\ tp[b] \in Partitions /\ Copy(b) \in Copies
      <4>1. b <= created
        BY <2>1, <1>1, SentCreated DEF Answered, Pending, IInv, Placed
      <4>2. tp[b] \in Partitions
        BY <4>1 DEF IInv, Placed, Batches
      <4> QED
        BY <4>1, <4>2, CopyType, Zenon DEF IInv
    <3>2. CASE reply[b] = "ok" \/ final[b] = "SUCCEEDED"
      BY <3>1, <3>2, <1>7, <1>8, <1>9, Zenon DEF Answered
    <3>3. CASE b = z.batch /\ (IsDuplicate(z) \/ InSequence(z))
      BY <3>1, <3>3, <1>1, <1>7, <1>8, <1>9, Zenon DEF Accepts
    <3> QED
      BY <2>1, <3>2, <3>3
  <2> QED
    BY <2>1 DEF Answered
<1>15. \A k \in 1 .. n : log[p][k].batch = z.batch => ~Idempotent \/ ~Accepts(z)
  <2> SUFFICES ASSUME NEW k \in 1 .. n, log[p][k].batch = z.batch, Idempotent PROVE ~Accepts(z)
    OBVIOUS
  <2>1. log[p][k] \in Range(log[p]) /\ log[p][k] \in Copies
    BY <1>1, SeqRange
  <2>2. log[p][k] = z
    BY <2>1, <1>1, Zenon DEF Faithful, IsCopy
  <2> QED
    BY <2>1, <2>2 DEF Accepts, IsDuplicate
<1> HIDE DEF p, n
<1>16. NoDuplicates'
  <2> SUFFICES ASSUME Idempotent, NEW q \in Partitions,
                      NEW i \in 1 .. Len(log'[q]), NEW j \in 1 .. Len(log'[q]),
                      log'[q][i].batch = log'[q][j].batch
               PROVE  i = j
    BY DEF NoDuplicates
  <2>1. CASE q # p \/ ~Accepts(z)
    <3>1. log'[q] = log[q]
      BY <2>1, <1>3, Zenon
    <3> QED
      BY <3>1 DEF NoDuplicates
  <2>2. CASE q = p /\ Accepts(z)
    <3>1. i \in 1 .. n \/ i = n + 1
      BY <2>2, <1>1, <1>2, EarlierIndex, Zenon
    <3>2. j \in 1 .. n \/ j = n + 1
      BY <2>2, <1>1, <1>2, EarlierIndex, Zenon
    <3>3. \A k, l \in 1 .. n : log[p][k].batch = log[p][l].batch => k = l
      BY <1>1, Zenon DEF NoDuplicates, n
    <3>4. \A k \in 1 .. n : log'[p][k].batch # z.batch
      BY <2>2, <1>2, <1>15, Zenon
    <3> QED
      BY <2>2, <3>1, <3>2, <3>3, <3>4, <1>2, Zenon
  <2> QED
    BY <2>1, <2>2, Zenon
<1>17. Ordered'
  <2> SUFFICES ASSUME GuaranteeOrder, NEW q \in Partitions,
                      NEW j \in 1 .. Len(log'[q]), NEW b \in Written(q)',
                      b < log'[q][j].batch, final[b] = "SUCCEEDED"
               PROVE  \E i \in 1 .. j - 1 : log'[q][i].batch = b
    BY DEF Ordered
  <2>1. CASE q # p \/ ~Accepts(z)
    <3>1. log'[q] = log[q] /\ b \in Written(q)
      BY <2>1, <1>3, <1>9, Zenon
    <3> QED
      BY <3>1 DEF Ordered
  <2>2. CASE q = p /\ Accepts(z)
    <3>1. b \in Batches /\ b \in Written(p)
      <4>1. b \in Batches
        BY <1>1, <1>9, WrittenCopies, Zenon DEF IInv
      <4>2. ASSUME b = z.batch PROVE b \in Written(p)
        BY <2>2, <4>1, <4>2, <1>1, Zenon DEF Answered, Accepts
      <4> QED
        BY <2>2, <4>1, <4>2, <1>9
    <3>2. j \in 1 .. n \/ j = n + 1
      BY <2>2, <1>1, <1>2
    <3>3. CASE j \in 1 .. n
      <4>1. b < log[p][j].batch /\ Len(log[p]) = n
        BY <2>2, <3>3, <1>2, Zenon DEF n
      <4>2. PICK i \in 1 .. j - 1 : log[p][i].batch = b
        BY <3>1, <3>3, <4>1, <1>1 DEF Ordered
      <4>3. i \in 1 .. n
        BY <3>3, <1>1
      <4> QED
        BY <2>2, <4>2, <4>3, <1>2, Zenon
    <3>4. CASE j = n + 1
      <4>1. PICK i \in 1 .. n : log[p][i].batch = b
        BY <3>1 DEF Written, n
      <4>2. i \in 1 .. j - 1
        BY <3>4, <1>1
      <4> QED
        BY <2>2, <4>1, <4>2, <1>2, Zenon
    <3> QED
      BY <3>2, <3>3, <3>4, Zenon
  <2> QED
    BY <2>1, <2>2, Zenon
<1> QED
  BY <1>10, <1>11, <1>12, <1>13, <1>14, <1>16, <1>17, Zenon

----------------------------------------------------------------------------
(* Responses *)

\* A batch is acknowledged while no younger one of its partition was copied.
LEMMA SucceedOrder ==
    ASSUME IInv, OInv, NEW b \in Batches, CompleteBatch(b), reply[b] = "ok", Succeed(b)
    PROVE  OInv'
<1> USE DEF OInv
<1>1. /\ UNCHANGED <<created, tp, count, bpid, bseq, zombies, log, attempts, batches>>
      /\ Pending' = Pending \ {b} /\ b \in Pending
      /\ \A c \in Batches : /\ reply'[c] = IF c = b THEN "none" ELSE reply[c]
                            /\ reply'[c] # "none" => c \in handling' \cup UNION requests'
      /\ \A c : Copied(c)' <=> Copied(c)
      /\ \A q : Written(q)' = Written(q)
      /\ NoDuplicates' /\ Faithful'
      /\ \A c : Copy(c)' = Copy(c) /\ (IsDuplicate(Copy(c))' <=> IsDuplicate(Copy(c)))
  BY CompleteBatchCopies, Zenon DEF Succeed
<1>2. \A c \in Batches : final'[c] = "SUCCEEDED" => c = b \/ final[c] = "SUCCEEDED"
  BY DEF Succeed, FinalAfter, IInv, TypeOK
<1>3. \A q : Queued(q)' = Queued(q)
  BY <1>1, Zenon DEF Queued
<1>4. QueueInOrder'
  BY <1>1, Zenon DEF QueueInOrder, Queued
<1>5. Closed' /\ OldersSettled'
  BY <1>1, <1>3, Zenon DEF Closed, OldersSettled, Sent
<1>6. Answered'
  BY <1>1, <1>2, Zenon DEF Answered
<1>7. Ordered'
  <2> SUFFICES ASSUME GuaranteeOrder, NEW p \in Partitions, NEW j \in 1 .. Len(log[p]),
                      NEW c \in Written(p), c < log[p][j].batch, final'[c] = "SUCCEEDED"
               PROVE  \E i \in 1 .. j - 1 : log[p][i].batch = c
    BY <1>1 DEF Ordered
  <2>1. c # b
    <3> SUFFICES ASSUME c = b PROVE FALSE
      BY Zenon
    <3> DEFINE d == log[p][j].batch
    <3>1. \A e \in Written(p) : e \in Batches /\ Copied(e) /\ tp[e] = p
      <4> SUFFICES ASSUME NEW e \in Written(p) PROVE e \in Batches /\ Copied(e) /\ tp[e] = p
        BY Zenon
      <4>1. PICK z \in Range(log[p]) : z.batch = e
        BY WrittenCopies, Zenon DEF IInv
      <4>2. z = Copy(e) /\ z.tp = p
        BY <4>1, WrittenCopies, Zenon DEF IInv, Faithful, IsCopy
      <4>3. tp[e] = p
        BY <4>2, Zenon DEF Copy
      <4> QED
        BY <4>3, WrittenCopies, Zenon DEF IInv
    <3>2. d \in Written(p)
      BY DEF Written
    <3> HIDE DEF d
    <3>3. c < d
      BY DEF d
    <3> QED
      BY <3>1, <3>2, <3>3, <1>1 DEF OldersSettled, Sent
  <2>2. c \in Batches
    BY WrittenCopies, Zenon DEF IInv
  <2> QED
    BY <2>1, <2>2, <1>2, Zenon DEF Ordered
<1> QED
  BY <1>1, <1>4, <1>5, <1>6, <1>7

\* A batch that is retried is older than all that wait behind it.
LEMMA ReenqueueOrder ==
    ASSUME IInv, OInv, NEW b \in Batches, CompleteBatch(b), Reenqueue(b)
    PROVE  OInv'
<1> DEFINE Q(q) == Range(batches[q])
           R(q) == Range(batches'[q])
<1> USE DEF OInv
<1>1. /\ UNCHANGED <<created, tp, count, bpid, bseq, zombies, log, final>>
      /\ Pending' = Pending \ {b} /\ b \in Pending
      /\ \A c \in Batches : /\ reply'[c] = IF c = b THEN "none" ELSE reply[c]
                            /\ reply'[c] # "none" => c \in handling' \cup UNION requests'
      /\ \A c : Copied(c)' <=> Copied(c)
      /\ \A q : Written(q)' = Written(q)
      /\ NoDuplicates' /\ Faithful'
      /\ \A c : Copy(c)' = Copy(c) /\ (IsDuplicate(Copy(c))' <=> IsDuplicate(Copy(c)))
  BY CompleteBatchCopies, Zenon DEF Reenqueue
<1>2. b <= created /\ tp[b] \in Partitions
  BY CompleteBatchFacts, Zenon
<1>3. /\ \A c \in Batches : attempts'[c] = IF c = b THEN attempts[c] + 1 ELSE attempts[c]
      /\ attempts'[b] > 0
  <2>1. attempts[b] \in Nat
    BY Zenon DEF IInv, TypeOK
  <2> QED
    BY <2>1 DEF Reenqueue, IInv, TypeOK
<1>4. \A q \in Partitions : batches[q] \in Seq(Batches)
  BY Zenon DEF IInv, TypeOK
<1>5. /\ batches'[tp[b]] = <<b>> \o batches[tp[b]]
      /\ \A q \in Partitions : q # tp[b] => batches'[q] = batches[q]
  BY <1>2, Zenon DEF Reenqueue, IInv, TypeOK
<1>6. \A q \in Partitions : \A c : c \in R(q) <=> c \in Q(q) \/ (q = tp[b] /\ c = b)
  <2>1. Range(<<b>> \o batches[tp[b]]) = Q(tp[b]) \cup {b}
    <3>1. batches[tp[b]] \in Seq(Batches)
      BY <1>2, <1>4, Zenon
    <3> QED
      BY <3>1, ConsBatch, Zenon
  <2> QED
    BY <2>1, <1>5, Zenon
<1>7. QueueInOrder'
  <2> SUFFICES ASSUME GuaranteeOrder, NEW q \in Partitions
               PROVE  /\ Increasing(batches'[q])
                      /\ \A d \in Pending', c \in R(q) : tp'[d] = q => d < c
    BY QueueOrderNext, Zenon
  <2>1. Increasing(batches[q]) /\ \A d \in Pending, c \in Q(q) : tp[d] = q => d < c
    BY QueueOrder, Zenon
  <2>2. Increasing(batches'[q])
    <3>1. CASE q = tp[b]
      <4>1. batches[q] \in Seq(Batches) /\ \A c \in Q(q) : b < c
        BY <3>1, <2>1, <1>1, <1>4, Zenon
      <4>2. Increasing(<<b>> \o batches[q])
        BY <4>1, <2>1, ConsIncreasing, Zenon
      <4> QED
        BY <3>1, <4>2, <1>5, Zenon
    <3>2. CASE q # tp[b]
      BY <3>2, <2>1, <1>5
    <3> QED
      BY <3>1, <3>2
  <2>3. ASSUME NEW d \in Pending', NEW c \in R(q), tp[d] = q PROVE d < c
    <3>1. q # tp[b]
      BY <2>3, <1>1, Zenon DEF IInv, OneInFlight
    <3> QED
      BY <3>1, <2>1, <2>3, <1>1, <1>6, Zenon
  <2> HIDE DEF R
  <2> QED
    BY <2>2, <2>3, <1>1, Zenon
<1>8. Closed'
  <2>1. \A q \in Partitions : \A c \in R(q) : Copied(c) => attempts'[c] > 0
    <3> SUFFICES ASSUME NEW q \in Partitions, NEW c \in R(q), Copied(c) PROVE attempts'[c] > 0
      BY Zenon
    <3>1. CASE c = b
      BY <3>1, <1>3, Zenon
    <3>2. CASE c # b
      <4>1. c \in Q(q)
        BY <3>2, <1>6
      <4>2. c \in Batches /\ attempts[c] > 0
        BY <4>1, <1>4, SeqRange, Zenon DEF Closed, Queued
      <4> QED
        BY <3>2, <4>2, <1>3, Zenon
    <3> QED
      BY <3>1, <3>2
  <2> QED
    BY <2>1, <1>1, Zenon DEF Closed, Queued
<1>9. OldersSettled'
  <2>1. \A c \in Batches : attempts'[c] > 0 => c <= created'
    BY <1>1, <1>2, <1>3 DEF OldersSettled
  <2>2. \A c \in Batches : Sent(c)' => Sent(c)
    BY <1>1, <1>3, Zenon DEF Sent
  <2>3. ASSUME GuaranteeOrder, NEW a \in Batches, NEW c \in Batches, a < c, tp[a] = tp[c], Sent(c)
        PROVE  a \notin R(tp[a]) /\ a \notin Pending
    <3>1. a \notin Q(tp[a]) /\ a \notin Pending /\ tp[a] \in Partitions
      BY <2>3, SentCreated, Zenon DEF OldersSettled, Queued
    <3> QED
      BY <3>1, <1>1, <1>6, Zenon
  <2> HIDE DEF R
  <2> QED
    BY <2>1, <2>2, <2>3, <1>1, Zenon DEF OldersSettled, Queued, R
<1>10. Answered'
  BY <1>1, Zenon DEF Answered
<1>11. Ordered'
  BY <1>1, OrderedKept, Zenon
<1> QED
  BY <1>1, <1>7, <1>8, <1>9, <1>10, <1>11, Zenon

LEMMA CompleteBatchOrder ==
    ASSUME IInv, OInv, NEW b \in Batches, CompleteBatch(b)
    PROVE  OInv'
<1>1. CASE reply[b] = "ok" /\ Succeed(b)
  BY <1>1, SucceedOrder
<1>2. CASE Reenqueue(b)
  BY <1>2, ReenqueueOrder
<1>3. CASE FailBatch(b, reply[b]) /\ UNCHANGED <<attempts, batches>>
  <2>1. /\ UNCHANGED <<created, tp, count, bpid, bseq, zombies, log>>
        /\ Pending' \subseteq Pending
        /\ \A c \in Batches : /\ reply'[c] = "ok" => reply[c] = "ok"
                              /\ reply'[c] # "none" => c \in handling' \cup UNION requests'
    BY CompleteBatchCopies, Zenon
  <2>2. \A c \in Batches : final'[c] = "SUCCEEDED" => final[c] = "SUCCEEDED"
    BY <1>3 DEF FailBatch, FinalAfter, IInv, TypeOK
  <2> QED
    BY <1>3, <2>1, <2>2, StillStep, Zenon
<1> QED
  BY <1>1, <1>2, <1>3 DEF CompleteBatch

----------------------------------------------------------------------------
(* The theorems *)

LEMMA InitOInv == Init => OInv
<1> SUFFICES ASSUME Init PROVE OInv
  OBVIOUS
<1>1. /\ drained = {} /\ handling = {} /\ requests = {} /\ zombies = {}
      /\ \A b \in Batches : final[b] = "none" /\ attempts[b] = 0 /\ reply[b] = "none"
      /\ \A p \in Partitions : batches[p] = << >> /\ log[p] = << >>
  BY Zenon DEF Init
<1>2. Pending = {}
  BY <1>1 DEF Pending
<1>3. \A s : s = << >> => Range(s) = {} /\ Len(s) = 0
  <2>1. << >> \in Seq({}) /\ Len(<< >>) = 0
    OBVIOUS
  <2>2. Range(<< >>) = {}
    BY <2>1, SeqRange, Zenon
  <2> QED
    BY <2>1, <2>2
<1>4. \A p \in Partitions : /\ Queued(p) = {} /\ Range(log[p]) = {}
                            /\ Len(batches[p]) = 0 /\ Len(log[p]) = 0
  BY <1>1, <1>3, Zenon DEF Queued
<1>5. \A z : ~IsCopy(z)
  BY <1>1, <1>4 DEF IsCopy
<1>6. \A b : ~Copied(b)
  BY <1>5, Zenon DEF Copied
<1>7. QueueInOrder /\ NoDuplicates /\ Ordered
  BY <1>2, <1>4 DEF QueueInOrder, NoDuplicates, Ordered
<1>8. Faithful /\ Closed
  BY <1>4, <1>5 DEF Faithful, Closed
<1>9. OldersSettled /\ Answered
  <2>1. ~(0 > 0)
    OBVIOUS
  <2>2. \A b \in Batches : ~Sent(b)
    BY <2>1, <1>1, <1>2, <1>6, Zenon DEF Sent
  <2> QED
    BY <2>1, <2>2, <1>1, Zenon DEF OldersSettled, Answered
<1> QED
  BY <1>7, <1>8, <1>9 DEF OInv

LEMMA NextOInv == IInv /\ OInv /\ [Next]_vars => OInv'
<1> SUFFICES ASSUME IInv, OInv, [Next]_vars PROVE OInv'
  OBVIOUS
<1> USE DEF batchVars, accVars, senderVars, tmVars, envVars
<1>0. ASSUME UNCHANGED <<created, tp, count, attempts, final, bpid, bseq, batches, drained,
                         handling, requests, reply, zombies, log>>
      PROVE  OInv'
  <2>1. \A b \in Batches : reply'[b] # "none" => b \in handling' \cup UNION requests'
    BY <1>0, Zenon DEF OInv, Answered
  <2>2. Pending' = Pending
    BY <1>0 DEF Pending
  <2> QED
    BY <1>0, <2>1, <2>2, StillStep, Zenon
<1>1. ASSUME NEW p \in Partitions, AppendToBatch(p) PROVE OInv'
  BY <1>1, AppendToBatchOrder
<1>2. ASSUME NEW p \in Partitions, AppendNewBatch(p) PROVE OInv'
  BY <1>2, AppendNewBatchOrder, Zenon
<1>3. CASE Tick
  BY <1>0, <1>3, Zenon DEF Tick
<1>4. CASE InitProducerId \/ InitProducerIdFails \/ RunOnceFatal
  BY <1>0, <1>4 DEF InitProducerId, InitProducerIdFails, RunOnceFatal
<1>5. ASSUME NEW P \in SUBSET Partitions, Drain(P) PROVE OInv'
  BY <1>5, DrainOrder
<1>6. ASSUME NEW p \in Partitions, ExpireQueued(p) PROVE OInv'
  BY <1>6, ExpireQueuedOrder
<1>7. CASE ExpireInFlight \/ EndPoll
  BY <1>0, <1>7, Zenon DEF ExpireInFlight, EndPoll
<1>8. ASSUME NEW b \in Batches, FailExpired(b) PROVE OInv'
  <2>1. /\ UNCHANGED <<created, tp, count, attempts, bpid, bseq, batches, drained, handling,
                       requests, reply, zombies, log>>
        /\ Pending' = Pending
    BY <1>8, Zenon DEF FailExpired, Pending
  <2>2. \A c \in Batches : final'[c] = "SUCCEEDED" => final[c] = "SUCCEEDED"
    BY <1>8 DEF FailExpired, FailBatch, FinalAfter, IInv, TypeOK
  <2>3. \A c \in Batches : reply'[c] # "none" => c \in handling' \cup UNION requests'
    BY <2>1, Zenon DEF OInv, Answered
  <2> QED
    BY <2>1, <2>2, <2>3, StillStep, Zenon
<1>9. CASE ResetProducerId
  <2>1. /\ UNCHANGED <<created, tp, count, attempts, final, bpid, bseq, batches, handling,
                       requests, reply, zombies, log>>
        /\ Pending' \subseteq Pending
    BY <1>9 DEF ResetProducerId, Pending
  <2>2. \A c \in Batches : reply'[c] # "none" => c \in handling' \cup UNION requests'
    BY <2>1, Zenon DEF OInv, Answered
  <2> QED
    BY <2>1, <2>2, StillStep, Zenon
<1>10. ASSUME NEW leader, Send(leader) PROVE OInv'
  <2>1. /\ UNCHANGED <<created, tp, count, attempts, final, bpid, bseq, batches, handling,
                       reply, zombies, log>>
        /\ requests \subseteq requests' /\ drained' = {}
        /\ \A S \in requests' : S \in requests \/ S \subseteq drained
    BY <1>10, Zenon DEF Send
  <2>2. Pending' \subseteq Pending
    BY <2>1, Zenon DEF Pending
  <2>3. \A c \in Batches : reply'[c] # "none" => c \in handling' \cup UNION requests'
    BY <2>1 DEF OInv, Answered
  <2> QED
    BY <2>1, <2>2, <2>3, StillStep, Zenon
<1>11. ASSUME NEW b \in Batches, CompleteBatch(b) PROVE OInv'
  BY <1>11, CompleteBatchOrder, Zenon
<1>12. ASSUME NEW S \in requests, Response(S) PROVE OInv'
  <2>1. /\ UNCHANGED <<created, tp, count, attempts, final, bpid, bseq, batches, drained,
                       reply, zombies, log>>
        /\ handling = {} /\ handling' = S /\ requests' = requests \ {S}
    BY <1>12 DEF Response
  <2>2. handling' \cup UNION requests' = handling \cup UNION requests
    BY <2>1
  <2>3. Pending' = Pending
    BY <2>1, <2>2, Zenon DEF Pending
  <2>4. \A c \in Batches : reply'[c] # "none" => c \in handling' \cup UNION requests'
    BY <2>1, <2>2 DEF OInv, Answered
  <2> QED
    BY <2>1, <2>3, <2>4, StillStep, Zenon
<1>13. ASSUME NEW S \in requests, FailedProduce(S) PROVE OInv'
  BY <1>13, FailedProduceOrder
<1>14. ASSUME NEW b \in Batches, BrokerAppend(b) PROVE OInv'
  <2>1. /\ UNCHANGED <<created, tp, count, attempts, final, bpid, bseq, batches, drained,
                       handling, requests, zombies>>
        /\ log' = LogAfter(Copy(b)) /\ b \in UNION requests
        /\ reply' = [reply EXCEPT ![b] = IF IsDuplicate(Copy(b)) \/ InSequence(Copy(b))
                                         THEN "ok" ELSE "outOfOrder"]
    BY <1>14, Zenon DEF BrokerAppend
  <2>2. b \in Pending /\ b <= created /\ Sent(b) /\ Copy(b).batch = b
    BY <2>1 DEF Pending, Sent, IInv, Placed, Copy
  <2>3. Copy(b) \in Copies /\ \A p \in Partitions : b \notin Queued(p)
    BY <2>2, CopyType, Zenon DEF IInv, Separate
  <2>4. \A c \in Batches : reply'[c] # "none" => c \in handling \cup UNION requests
    BY <2>1, Zenon DEF OInv, Answered, IInv, TypeOK
  <2>5. \A c \in Batches : reply'[c] = "ok" =>
            reply[c] = "ok" \/ (c = b /\ (IsDuplicate(Copy(b)) \/ InSequence(Copy(b))))
    BY <2>1 DEF IInv, TypeOK
  <2> QED
    BY <2>1, <2>2, <2>3, <2>4, <2>5, BrokerOrder, Zenon
<1>15. ASSUME NEW z \in zombies, BrokerAppendLate(z) PROVE OInv'
  <2>1. /\ UNCHANGED <<created, tp, count, attempts, final, bpid, bseq, batches, drained,
                       handling, requests, reply>>
        /\ log' = LogAfter(z) /\ zombies' \subseteq zombies
    BY <1>15, Zenon DEF BrokerAppendLate
  <2>2. z \in Copies /\ IsCopy(z) /\ Copied(z.batch)
    BY DEF IInv, TypeOK, IsCopy, Copied
  <2>3. z = Copy(z.batch) /\ Sent(z.batch)
    BY <2>2, Zenon DEF OInv, Faithful, Sent
  <2>4. \A p \in Partitions : z.batch \in Queued(p) => attempts[z.batch] > 0
    BY <2>2 DEF OInv, Closed
  <2>5. \A c \in Batches : reply'[c] # "none" => c \in handling \cup UNION requests
    BY <2>1, Zenon DEF OInv, Answered
  <2> QED
    BY <2>1, <2>2, <2>3, <2>4, <2>5, BrokerOrder, Zenon
<1>16. ASSUME NEW b \in Batches, NEW e \in ErrorKinds, BrokerRefuse(b, e) PROVE OInv'
  <2>1. /\ UNCHANGED <<created, tp, count, attempts, final, bpid, bseq, batches, drained,
                       handling, requests, zombies, log>>
        /\ reply' = [reply EXCEPT ![b] = e] /\ b \in UNION requests
        /\ Pending' = Pending
    BY <1>16 DEF BrokerRefuse, Pending
  <2>2. e # "ok"
    BY ConfigAssumption, Zenon DEF AllErrors
  <2>3. \A c \in Batches : /\ reply'[c] # "none" => c \in handling' \cup UNION requests'
                           /\ reply'[c] = "ok" => reply[c] = "ok"
    BY <2>1, <2>2, Zenon DEF OInv, Answered, IInv, TypeOK
  <2> QED
    BY <2>1, <2>3, StillStep, Zenon
<1>17. CASE UNCHANGED vars
  BY <1>0, <1>17 DEF vars
<1> QED
  BY <1>1, <1>2, <1>3, <1>4, <1>5, <1>6, <1>7, <1>8, <1>9, <1>10, <1>11, <1>12, <1>13,
     <1>14, <1>15, <1>16, <1>17, Zenon DEF Next, RunOnce, Network

=============================================================================
