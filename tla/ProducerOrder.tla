--------------------------- MODULE ProducerOrder ----------------------------
(***************************************************************************)
(* What the application and the sender do keeps OInv: the deques, and what *)
(* a partition's log holds, are in the order of creation.                  *)
(***************************************************************************)
EXTENDS ProducerTypes

----------------------------------------------------------------------------
(* Deques in creation order *)

Increasing(s) == \A i, j \in 1 .. Len(s) : i < j => s[i] < s[j]

LEMMA TailIncreasing ==
    ASSUME NEW s \in Seq(Batches), s # << >>, Increasing(s)
    PROVE  Increasing(Tail(s)) /\ \A c \in Range(Tail(s)) : Head(s) < c
<1> DEFINE t == Tail(s)
<1>1. /\ t \in Seq(Batches) /\ Len(t) = Len(s) - 1 /\ Len(s) \in Nat \ {0}
      /\ \A i \in 1 .. Len(s) - 1 : t[i] = s[i + 1]
      /\ Head(s) = s[1]
  OBVIOUS
<1> HIDE DEF t
<1>2. Increasing(t)
  BY <1>1 DEF Increasing
<1>3. \A x : x \in Range(t) <=> \E i \in 1 .. Len(t) : t[i] = x
  BY <1>1, SeqRange
<1>4. \A i \in 1 .. Len(s) - 1 : s[1] < s[i + 1]
  BY <1>1 DEF Increasing
<1> QED
  BY <1>1, <1>2, <1>3, <1>4 DEF t

LEMMA AppendIncreasing ==
    ASSUME NEW s \in Seq(Batches), NEW x \in Batches, Increasing(s),
           \A c \in Range(s) : c < x
    PROVE  Increasing(Append(s, x))
<1> DEFINE t == Append(s, x)
<1>1. /\ t \in Seq(Batches) /\ Len(t) = Len(s) + 1 /\ Len(s) \in Nat
      /\ \A i \in 1 .. Len(s) : t[i] = s[i]
      /\ t[Len(s) + 1] = x
  OBVIOUS
<1> HIDE DEF t
<1>2. \A i \in 1 .. Len(s) : s[i] < x
  BY SeqRange
<1>3. Increasing(t)
  BY <1>1, <1>2 DEF Increasing
<1> QED
  BY <1>3 DEF t

LEMMA ConsIncreasing ==
    ASSUME NEW s \in Seq(Batches), NEW x \in Batches, Increasing(s),
           \A c \in Range(s) : x < c
    PROVE  Increasing(<<x>> \o s)
<1> DEFINE t == <<x>> \o s
<1>1. /\ t \in Seq(Batches) /\ Len(t) = Len(s) + 1 /\ Len(s) \in Nat
      /\ \A i \in 2 .. Len(s) + 1 : t[i] = s[i - 1]
      /\ t[1] = x
  OBVIOUS
<1> HIDE DEF t
<1>2. \A i \in 1 .. Len(s) : x < s[i]
  BY SeqRange
<1>3. ASSUME NEW i \in 1 .. Len(t), NEW j \in 1 .. Len(t), i < j PROVE t[i] < t[j]
  <2>1. j - 1 \in 1 .. Len(s) /\ t[j] = s[j - 1]
    BY <1>1, <1>3
  <2>2. CASE i = 1
    BY <1>1, <1>2, <2>1, <2>2
  <2>3. CASE i # 1
    <3>1. i - 1 \in 1 .. Len(s) /\ t[i] = s[i - 1] /\ i - 1 < j - 1
      BY <1>1, <1>3, <2>3
    <3> QED
      BY <2>1, <3>1 DEF Increasing
  <2> QED
    BY <2>2, <2>3
<1> QED
  BY <1>3 DEF t, Increasing

\* The order of the deques and of the batch in flight, without indices.
LEMMA QueueOrder ==
    QueueInOrder <=> (GuaranteeOrder => \A p \in Partitions :
        /\ Increasing(batches[p])
        /\ \A b \in Pending, c \in Range(batches[p]) : tp[b] = p => b < c)
BY DEF QueueInOrder, Increasing, Queued

LEMMA QueueOrderNext ==
    QueueInOrder' <=> (GuaranteeOrder => \A p \in Partitions :
        /\ Increasing(batches'[p])
        /\ \A b \in Pending', c \in Range(batches'[p]) : tp'[b] = p => b < c)
BY DEF QueueInOrder, Increasing, Queued

LEMMA OrderedKept ==
    ASSUME Ordered, UNCHANGED <<log, final>>
    PROVE  Ordered'
BY DEF Ordered, Written

----------------------------------------------------------------------------
(* Steps that copy nothing and queue nothing *)

\* Time, expiry of what is in flight, requests sent and responses received.
LEMMA StillStep ==
    ASSUME IInv, OInv,
           UNCHANGED <<created, tp, count, attempts, bpid, bseq, batches, zombies, log>>,
           Pending' \subseteq Pending,
           \A b \in Batches : reply'[b] = "ok" => reply[b] = "ok",
           \A b \in Batches : reply'[b] # "none" => b \in handling' \cup UNION requests',
           \A b \in Batches : final'[b] = "SUCCEEDED" => final[b] = "SUCCEEDED"
    PROVE  OInv'
<1> USE DEF OInv
<1>1. /\ \A z : IsCopy(z)' <=> IsCopy(z)
      /\ \A b : Copied(b)' <=> Copied(b)
      /\ \A p : Written(p)' = Written(p)
      /\ NoDuplicates'
  BY SameCopies
<1>2. \A b : Copy(b)' = Copy(b) /\ (IsDuplicate(Copy(b))' <=> IsDuplicate(Copy(b)))
  BY SameCopy
<1>3. \A p : Queued(p)' = Queued(p)
  BY DEF Queued
<1>4. QueueInOrder'
  BY DEF QueueInOrder, Queued
<1>5. Faithful'
  BY <1>1, <1>2 DEF Faithful
<1>6. Closed'
  BY <1>1, <1>3 DEF Closed
<1>7. OldersSettled'
  BY <1>1, <1>3 DEF OldersSettled, Sent
<1>8. Answered'
  BY <1>1, <1>2 DEF Answered
<1>9. Ordered'
  <2>1. \A p \in Partitions : Written(p) \subseteq Batches
    BY WrittenCopies DEF IInv
  <2> QED
    BY <2>1, <1>1 DEF Ordered
<1> QED
  BY <1>1, <1>4, <1>5, <1>6, <1>7, <1>8, <1>9

\* Records join the open batch of a partition, which was never sent.
LEMMA AppendToBatchOrder ==
    ASSUME IInv, OInv, NEW p \in Partitions, AppendToBatch(p)
    PROVE  OInv'
<1> DEFINE last == batches[p][Len(batches[p])]
<1> USE DEF OInv
<1>1. /\ last \in Batches /\ last \in Queued(p) /\ attempts[last] = 0
      /\ count' = [count EXCEPT ![last] = @ + 1]
  <2>1. batches[p] \in Seq(Batches) /\ batches[p] # << >> /\ attempts[last] = 0
    BY DEF IInv, TypeOK, AppendToBatch, HasOpenBatch, TryAppend
  <2>2. Len(batches[p]) \in 1 .. Len(batches[p])
    BY <2>1
  <2> QED
    BY <2>1, <2>2, SeqRange DEF AppendToBatch, Queued
<1>2. UNCHANGED <<created, tp, attempts, final, bpid, bseq, batches, drained, handling, requests,
                  reply, zombies, log>>
  BY DEF AppendToBatch, accVars, senderVars, envVars
<1> HIDE DEF last
<1>3. /\ ~Copied(last) /\ last \notin Pending /\ final[last] = "none" /\ reply[last] = "none"
      /\ last \notin Written(tp[last])
  <2>1. ~Copied(last) /\ last \notin Pending /\ final[last] = "none"
    BY <1>1 DEF Closed, IInv, Separate, NothingLost
  <2>2. reply[last] = "none"
    BY <1>1, <2>1 DEF Answered, Pending
  <2>3. tp[last] \in Partitions
    BY <1>1 DEF IInv, NothingLost
  <2>4. last \notin Written(tp[last])
    BY <2>1, <2>3, WrittenCopies DEF IInv
  <2> QED
    BY <2>1, <2>2, <2>4
<1>4. /\ \A z : IsCopy(z)' <=> IsCopy(z)
      /\ \A b : Copied(b)' <=> Copied(b)
      /\ \A q : Written(q)' = Written(q)
      /\ NoDuplicates'
  BY <1>2, SameCopies
<1>5. \A b \in Batches : b # last =>
          Copy(b)' = Copy(b) /\ (IsDuplicate(Copy(b))' <=> IsDuplicate(Copy(b)))
  <2> SUFFICES ASSUME NEW b \in Batches, b # last
               PROVE  Copy(b)' = Copy(b) /\ (IsDuplicate(Copy(b))' <=> IsDuplicate(Copy(b)))
    OBVIOUS
  <2>1. count'[b] = count[b]
    BY <1>1 DEF IInv, TypeOK
  <2> QED
    BY <2>1, <1>2, SameCopy
<1>6. (\A q : Queued(q)' = Queued(q)) /\ Pending' = Pending
  BY <1>2 DEF Queued, Pending
<1>7. QueueInOrder'
  BY <1>2, <1>6, Zenon DEF QueueInOrder, Queued
<1>8. Faithful'
  <2>1. ASSUME NEW z \in Copies, IsCopy(z) PROVE z.batch <= created /\ z = Copy(z.batch)'
    <3>1. z.batch \in Batches /\ z.batch # last
      BY <2>1, <1>3 DEF Copied, Copies
    <3> QED
      BY <2>1, <3>1, <1>5 DEF Faithful
  <2> QED
    BY <2>1, <1>2, <1>4 DEF Faithful
<1>9. Closed' /\ OldersSettled'
  BY <1>2, <1>4, <1>6, Zenon DEF Closed, OldersSettled, Sent
<1>10. Answered'
  BY <1>2, <1>3, <1>4, <1>5 DEF Answered
<1>11. Ordered'
  BY <1>2, OrderedKept
<1> QED
  BY <1>4, <1>7, <1>8, <1>9, <1>10, <1>11

----------------------------------------------------------------------------
(* Steps that fill and empty the deques *)

\* The batches whose outcome matters are in no deque.
LEMMA AnsweredNotQueued ==
    ASSUME IInv, OInv, NEW b \in Batches, reply[b] # "none" \/ final[b] # "none",
           NEW p \in Partitions
    PROVE  b \notin Queued(p)
<1>1. CASE reply[b] # "none"
  BY <1>1 DEF IInv, OInv, Answered, Separate, Pending
<1>2. CASE final[b] # "none"
  BY <1>2 DEF IInv, NothingLost
<1> QED
  BY <1>1, <1>2, Zenon

LEMMA AppendNewBatchOrder ==
    ASSUME IInv, OInv, NEW p \in Partitions, AppendNewBatch(p)
    PROVE  OInv'
<1> DEFINE n == created + 1
           Q(q) == Range(batches[q])
           R(q) == Range(batches'[q])
<1> USE DEF OInv
<1>1. /\ n \in Batches /\ created \in Nat /\ created' = n
      /\ tp' = [tp EXCEPT ![n] = p] /\ count' = [count EXCEPT ![n] = 1]
      /\ \A b \in Batches : b \in Nat /\ (b <= created => b < n)
  <2>1. created \in Nat /\ created < MaxBatches /\ created' = created + 1
    BY ConfigNumbers DEF AppendNewBatch, IInv, TypeOK
  <2>2. n \in Batches /\ \A b \in Batches : b \in Nat /\ (b <= created => b < n)
    BY <2>1, ConfigNumbers DEF Batches
  <2> QED
    BY <2>1, <2>2 DEF AppendNewBatch
<1>2. UNCHANGED <<attempts, final, bpid, bseq, drained, handling, requests, reply, zombies, log>>
  BY DEF AppendNewBatch, senderVars, envVars
<1>3. Pending' = Pending /\ Pending \subseteq Batches
  BY <1>2 DEF Pending, IInv, TypeOK
<1>4. \A b \in Batches : Sent(b) => b < n /\ b <= created
  BY <1>1, SentCreated
<1>5. /\ n \notin Pending /\ final[n] = "none" /\ reply[n] = "none" /\ ~Copied(n) /\ ~Sent(n)
  <2>1. ~(n < n) /\ ~(n <= created)
    BY <1>1
  <2>2. ~Sent(n)
    BY <1>1, <1>4, <2>1
  <2>3. n \notin Pending /\ ~Copied(n)
    BY <2>2 DEF Sent
  <2>4. reply[n] = "none" /\ final[n] = "none"
    BY <1>1, <2>1, <2>3, Zenon DEF Answered, Pending, IInv, Placed
  <2> QED
    BY <2>2, <2>3, <2>4
<1>6. \A b \in Batches : b # n => tp'[b] = tp[b] /\ count'[b] = count[b]
  BY <1>1 DEF IInv, TypeOK
<1>7. tp'[n] = p
  BY <1>1 DEF IInv, TypeOK
<1>8. \A q \in Partitions : /\ batches[q] \in Seq(Batches)
                            /\ \A b \in Q(q) : b \in Batches /\ b < n /\ tp[b] = q
  <2>1. \A q \in Partitions : batches[q] \in Seq(Batches)
    BY DEF IInv, TypeOK
  <2> QED
    BY <2>1, <1>1, SeqRange, Zenon DEF IInv, Placed, Queued
<1>9. /\ batches'[p] = Append(batches[p], n)
      /\ \A q \in Partitions : q # p => batches'[q] = batches[q]
  BY DEF AppendNewBatch, IInv, TypeOK
<1>10. \A q \in Partitions : \A b : b \in R(q) <=> b \in Q(q) \/ (q = p /\ b = n)
  <2>1. Range(Append(batches[p], n)) = Q(p) \cup {n}
    BY <1>1, <1>8, AppendRange
  <2> QED
    BY <2>1, <1>9, Zenon
<1> HIDE DEF n
<1>11. /\ \A z : IsCopy(z)' <=> IsCopy(z)
       /\ \A b : Copied(b)' <=> Copied(b)
       /\ \A q : Written(q)' = Written(q)
       /\ NoDuplicates'
  BY <1>2, SameCopies, Zenon
<1>12. \A b \in Batches : b # n =>
           Copy(b)' = Copy(b) /\ (IsDuplicate(Copy(b))' <=> IsDuplicate(Copy(b)))
  BY <1>2, <1>6, SameCopy
<1>13. QueueInOrder'
  <2> SUFFICES ASSUME GuaranteeOrder, NEW q \in Partitions
               PROVE  /\ Increasing(batches'[q])
                      /\ \A b \in Pending', c \in R(q) : tp'[b] = q => b < c
    BY QueueOrderNext, Zenon
  <2>1. Increasing(batches[q]) /\ \A b \in Pending, c \in Q(q) : tp[b] = q => b < c
    BY QueueOrder
  <2>2. Increasing(batches'[q])
    <3>1. CASE q = p
      BY <3>1, <2>1, <1>1, <1>8, <1>9, AppendIncreasing
    <3>2. CASE q # p
      BY <3>2, <2>1, <1>9
    <3> QED
      BY <3>1, <3>2, Zenon
  <2>3. ASSUME NEW b \in Pending', NEW c \in R(q), tp'[b] = q PROVE b < c
    <3>1. b \in Batches /\ b \in Pending /\ b # n /\ b < n /\ tp[b] = q
      BY <2>3, <1>3, <1>4, <1>5, <1>6, Zenon DEF Sent
    <3> QED
      BY <3>1, <2>1, <2>3, <1>10, Zenon
  <2> HIDE DEF R
  <2> QED
    BY <2>2, <2>3, Zenon
<1>14. Faithful'
  <2>1. ASSUME NEW z \in Copies, IsCopy(z) PROVE z.batch <= created' /\ z = Copy(z.batch)'
    <3>1. z.batch \in Batches /\ z.batch # n /\ z.batch <= created
      BY <2>1, <1>5 DEF Copied, Copies, Faithful
    <3>2. z.batch <= created'
      BY <3>1, <1>1 DEF n
    <3> QED
      BY <2>1, <3>1, <3>2, <1>12, Zenon DEF Faithful
  <2> QED
    BY <2>1, <1>2, <1>11, Zenon DEF Faithful
<1>15. Closed'
  <2>1. \A q \in Partitions : \A b \in R(q) : Copied(b) => attempts[b] > 0
    BY <1>5, <1>10, Zenon DEF Closed, Queued
  <2> QED
    BY <2>1, <1>2, <1>11, Zenon DEF Closed, Queued
<1>16. OldersSettled'
  <2>1. \A b \in Batches : attempts'[b] > 0 => b <= created'
    <3> SUFFICES ASSUME NEW b \in Batches, attempts[b] > 0 PROVE b <= created'
      BY <1>2
    <3>1. b < n
      BY <1>4, Zenon DEF Sent
    <3> QED
      BY <3>1, <1>1
  <2>2. ASSUME GuaranteeOrder, NEW a \in Batches, NEW b \in Batches, a < b, tp'[a] = tp'[b],
               b \in Pending \/ attempts[b] > 0 \/ Copied(b)
        PROVE  a \notin R(tp'[a]) /\ a \notin Pending
    <3>1. Sent(b) /\ b < n /\ a # n /\ b # n
      <4>1. Sent(b) /\ b < n
        BY <2>2, <1>4, Zenon DEF Sent
      <4> QED
        BY <4>1, <2>2, <1>1
    <3>2. tp[a] = tp[b] /\ tp'[a] = tp[b] /\ tp[b] \in Partitions
      BY <3>1, <2>2, <1>6, SentCreated, Zenon
    <3>3. a \notin Q(tp[a]) /\ a \notin Pending
      BY <2>2, <3>1, <3>2, Zenon DEF OldersSettled, Queued
    <3> QED
      BY <3>1, <3>2, <3>3, <1>10
  <2> QED
    BY <2>1, <2>2, <1>2, <1>3, <1>11 DEF OldersSettled, Sent, Queued
<1>17. Answered'
  BY <1>2, <1>5, <1>6, <1>11, <1>12, Zenon DEF Answered
<1>18. Ordered'
  BY <1>2, OrderedKept
<1> QED
  BY <1>11, <1>13, <1>14, <1>15, <1>16, <1>17, <1>18

\* Batches leave a deque at its head: by expiry, or into the next requests.
LEMMA ExpireQueuedOrder ==
    ASSUME IInv, OInv, NEW p \in Partitions, ExpireQueued(p)
    PROVE  OInv'
<1> DEFINE Q(q) == Range(batches[q])
           R(q) == Range(batches'[q])
<1> USE DEF OInv
<1>1. UNCHANGED <<created, tp, count, attempts, final, bpid, bseq, drained, handling, requests,
                  reply, zombies, log>>
  BY Zenon DEF ExpireQueued, batchVars, envVars
<1>2. batches'[p] = Tail(batches[p]) /\ \A q \in Partitions : q # p => batches'[q] = batches[q]
  BY Zenon DEF ExpireQueued, IInv, TypeOK
<1>3. batches[p] \in Seq(Batches) /\ batches[p] # << >>
  BY DEF ExpireQueued, IInv, TypeOK
<1>4. \A q \in Partitions : R(q) \subseteq Q(q)
  BY <1>2, <1>3, TailRange
<1>5. /\ \A z : IsCopy(z)' <=> IsCopy(z)
      /\ \A b : Copied(b)' <=> Copied(b)
      /\ \A q : Written(q)' = Written(q)
      /\ NoDuplicates' /\ Pending' = Pending
  BY <1>1, SameCopies, Zenon DEF Pending
<1>6. \A b : Copy(b)' = Copy(b) /\ (IsDuplicate(Copy(b))' <=> IsDuplicate(Copy(b)))
  BY <1>1, SameCopy
<1>7. QueueInOrder'
  <2> SUFFICES ASSUME GuaranteeOrder, NEW q \in Partitions
               PROVE  /\ Increasing(batches'[q])
                      /\ \A b \in Pending', c \in R(q) : tp'[b] = q => b < c
    BY QueueOrderNext
  <2>1. Increasing(batches[q]) /\ \A b \in Pending, c \in Q(q) : tp[b] = q => b < c
    BY QueueOrder
  <2>2. Increasing(batches'[q])
    BY <2>1, <1>2, <1>3, TailIncreasing, Zenon
  <2> QED
    BY <2>1, <2>2, <1>1, <1>4, <1>5, Zenon
<1>8. Faithful' /\ Answered'
  BY <1>1, <1>5, <1>6 DEF Faithful, Answered
<1>9. Closed'
  BY <1>1, <1>4, <1>5, Zenon DEF Closed, Queued
<1>10. OldersSettled'
  <2>1. ASSUME GuaranteeOrder, NEW a \in Batches, NEW b \in Batches, a < b, tp[a] = tp[b], Sent(b)
        PROVE  a \notin R(tp[a]) /\ a \notin Pending
    BY <2>1, <1>4, SentCreated DEF OldersSettled, Queued
  <2> QED
    <3>1. \A b : Sent(b)' <=> Sent(b)
      BY <1>1, <1>5, Zenon DEF Sent
    <3> QED
      BY <2>1, <3>1, <1>1, <1>5, Zenon DEF OldersSettled, Queued
<1>11. Ordered'
  BY <1>1, OrderedKept, Zenon
<1> QED
  BY <1>5, <1>7, <1>8, <1>9, <1>10, <1>11, Zenon

\* Draining takes the oldest batch of partitions that have none in flight, and
\* stamps it only if it was never sent.
LEMMA DrainOrder ==
    ASSUME IInv, OInv, NEW P \in SUBSET Partitions, Drain(P)
    PROVE  OInv'
<1> DEFINE taken == {Head(batches[q]) : q \in P}
           Q(q) == Range(batches[q])
           R(q) == Range(batches'[q])
<1> USE DEF OInv
<1>1. /\ UNCHANGED <<created, tp, count, attempts, final, handling, requests, reply, zombies, log>>
      /\ drained' = taken
      /\ \A q \in Partitions : batches'[q] = IF q \in P THEN Tail(batches[q]) ELSE batches[q]
      /\ \A q \in P : q \notin muted /\ batches[q] # << >>
  BY Zenon DEF Drain, envVars, Drainable
<1>2. \A b \in Batches : ~(b \in taken /\ attempts[b] = 0) => bpid'[b] = bpid[b] /\ bseq'[b] = bseq[b]
  BY Zenon DEF Drain, SetsProducerState
<1>3. \A q \in Partitions : batches[q] \in Seq(Batches)
  BY Zenon DEF IInv, TypeOK
<1>4. \A q \in P : /\ Head(batches[q]) \in Batches /\ Head(batches[q]) \in Q(q)
                   /\ R(q) \subseteq Q(q)
                   /\ Q(q) = R(q) \cup {Head(batches[q])}
  BY <1>1, <1>3, TailRange, Zenon
<1>5. \A q \in Partitions : R(q) \subseteq Q(q)
  BY <1>1, <1>4, Zenon
<1>6. \A q \in Partitions : \A b \in Q(q) : b \in Batches /\ tp[b] = q
  BY <1>3, SeqRange DEF IInv, Placed, Queued
<1>7. \A b \in taken : /\ b \in Batches /\ tp[b] \in P /\ b = Head(batches[tp[b]]) /\ b \in Q(tp[b])
  <2>1. \A q \in P : tp[Head(batches[q])] = q
    BY <1>4, <1>6, Zenon
  <2>2. ASSUME NEW q \in P, NEW b, b = Head(batches[q])
        PROVE  b \in Batches /\ tp[b] \in P /\ b = Head(batches[tp[b]]) /\ b \in Q(tp[b])
    BY <2>1, <2>2, <1>4, Zenon
  <2> QED
    BY <2>2, Zenon
<1>8. Pending' = Pending \cup taken
  <2>1. drained = {}
    BY Zenon DEF IInv, Phases, Drain, AtLoop
  <2> QED
    BY <2>1, <1>1, Zenon DEF Pending
<1> HIDE DEF taken
<1>9. \A b \in taken : GuaranteeOrder => \A c \in Pending : tp[c] # tp[b]
  BY <1>1, <1>7, Zenon DEF IInv, OneInFlight
<1>10. /\ \A z : IsCopy(z)' <=> IsCopy(z)
       /\ \A b : Copied(b)' <=> Copied(b)
       /\ \A q : Written(q)' = Written(q)
       /\ NoDuplicates'
  BY <1>1, SameCopies, Zenon
<1>11. \A b \in Batches : ~(b \in taken /\ attempts[b] = 0) =>
           Copy(b)' = Copy(b) /\ (IsDuplicate(Copy(b))' <=> IsDuplicate(Copy(b)))
  BY <1>1, <1>2, SameCopy, Zenon
<1>12. \A b \in taken : Copied(b) => attempts[b] > 0
  BY <1>7, Zenon DEF Closed, Queued
<1>13. QueueInOrder'
  <2> SUFFICES ASSUME GuaranteeOrder, NEW q \in Partitions
               PROVE  /\ Increasing(batches'[q])
                      /\ \A b \in Pending', c \in R(q) : tp'[b] = q => b < c
    BY QueueOrderNext
  <2>1. Increasing(batches[q]) /\ \A b \in Pending, c \in Q(q) : tp[b] = q => b < c
    BY QueueOrder, Zenon
  <2>2. CASE q \in P
    <3>1. Increasing(batches'[q]) /\ \A c \in R(q) : Head(batches[q]) < c
      BY <2>1, <2>2, <1>1, <1>3, TailIncreasing, Zenon
    <3>2. ASSUME NEW b \in Pending', NEW c \in R(q), tp[b] = q PROVE b < c
      <4>1. CASE b \in taken
        BY <4>1, <3>1, <3>2, <1>7, Zenon
      <4>2. CASE b \in Pending
        BY <4>2, <3>2, <2>1, <1>5
      <4> QED
        BY <4>1, <4>2, <1>8, Zenon
    <3> HIDE DEF R
    <3> QED
      BY <3>1, <3>2, <1>1
  <2>3. CASE q \notin P
    <3>1. batches'[q] = batches[q]
      BY <2>3, <1>1, Zenon
    <3>2. ASSUME NEW b \in Pending', NEW c \in R(q), tp[b] = q PROVE b < c
      BY <3>1, <3>2, <2>1, <2>3, <1>7, <1>8, Zenon
    <3> HIDE DEF R
    <3> QED
      BY <3>1, <3>2, <2>1, <1>1, Zenon
  <2> QED
    BY <2>2, <2>3, Zenon
<1>14. Faithful'
  <2>1. ASSUME NEW z \in Copies, IsCopy(z) PROVE z = Copy(z.batch)'
    <3>1. z.batch \in Batches /\ Copied(z.batch)
      BY <2>1, Zenon DEF Copied, Copies
    <3>2. ~(z.batch \in taken /\ attempts[z.batch] = 0)
      BY <3>1, <1>12
    <3> QED
      BY <2>1, <3>1, <3>2, <1>11, Zenon DEF Faithful
  <2> QED
    BY <2>1, <1>1, <1>10, Zenon DEF Faithful
<1>15. Closed'
  BY <1>1, <1>5, <1>10, Zenon DEF Closed, Queued
<1>16. OldersSettled'
  <2>1. ASSUME GuaranteeOrder, NEW a \in Batches, NEW b \in Batches, a < b, tp[a] = tp[b],
               Sent(b) \/ b \in taken
        PROVE  a \notin R(tp[a]) /\ a \notin Pending /\ a \notin taken
    <3>1. CASE Sent(b)
      <4>1. tp[a] \in Partitions /\ a \notin Q(tp[a]) /\ a \notin Pending
        BY <2>1, <3>1, SentCreated, Zenon DEF OldersSettled, Queued
      <4> QED
        BY <4>1, <1>5, <1>7, Zenon
    <3>2. CASE b \in taken
      <4>1. /\ tp[a] \in P /\ tp[a] \in Partitions /\ b = Head(batches[tp[a]])
        BY <2>1, <3>2, <1>7, Zenon
      <4>2. \A c \in R(tp[a]) : b < c
        <5>1. Increasing(batches[tp[a]])
          BY <2>1, <4>1, QueueOrder, Zenon
        <5> QED
          BY <5>1, <4>1, <1>1, <1>3, TailIncreasing, Zenon
      <4>3. a \notin R(tp[a])
        BY <4>2, <2>1 DEF Batches
      <4>4. a \notin taken
        <5>1. a # b
          BY <2>1 DEF Batches
        <5> QED
          BY <5>1, <4>1, <1>7, Zenon
      <4> QED
        BY <4>3, <4>4, <2>1, <3>2, <1>9, Zenon
    <3> QED
      BY <2>1, <3>1, <3>2, Zenon
  <2> HIDE DEF R
  <2>2. \A b \in Batches : Sent(b)' => Sent(b) \/ b \in taken
    BY <1>1, <1>8, <1>10, Zenon DEF Sent
  <2>3. \A b \in Batches : attempts'[b] > 0 => b <= created'
    BY <1>1 DEF OldersSettled
  <2>4. ASSUME GuaranteeOrder, NEW a \in Batches, NEW b \in Batches, a < b, tp'[a] = tp'[b], Sent(b)'
        PROVE  a \notin R(tp'[a]) /\ a \notin Pending'
    BY <2>1, <2>2, <2>4, <1>1, <1>8, Zenon
  <2> QED
    BY <2>3, <2>4, Zenon DEF OldersSettled, Queued, R
<1>17. Answered'
  <2>1. ASSUME NEW b \in Batches, reply[b] = "ok" \/ final[b] = "SUCCEEDED" PROVE b \notin taken
    BY <2>1, <1>7, AnsweredNotQueued, Zenon DEF Queued
  <2> QED
    BY <2>1, <1>1, <1>10, <1>11, Zenon DEF Answered
<1>18. Ordered'
  BY <1>1, OrderedKept
<1> QED
  BY <1>10, <1>13, <1>14, <1>15, <1>16, <1>17, <1>18, Zenon

----------------------------------------------------------------------------
(* Steps that make copies *)

\* A failed request may still reach the broker.
LEMMA FailedProduceOrder ==
    ASSUME IInv, OInv, NEW S \in requests, FailedProduce(S)
    PROVE  OInv'
<1> DEFINE K == {c \in S : reply[c] = "none"}
<1> USE DEF OInv
<1>1. /\ UNCHANGED <<created, tp, count, attempts, final, bpid, bseq, batches, drained, log>>
      /\ zombies' = zombies \cup {Copy(b) : b \in K}
      /\ reply' = [b \in Batches |-> IF b \in S THEN "retriable" ELSE reply[b]]
      /\ handling = {} /\ handling' = S /\ requests' = requests \ {S}
  BY Zenon DEF FailedProduce, batchVars, accVars
<1>2. handling' \cup UNION requests' = handling \cup UNION requests /\ Pending' = Pending
  <2>1. handling' \cup UNION requests' = handling \cup UNION requests
    BY <1>1
  <2> QED
    BY <2>1, <1>1, Zenon DEF Pending
<1>3. K \subseteq Pending /\ \A b \in K : b \in Batches /\ b <= created /\ Copy(b) \in Copies
  <2>1. K \subseteq Pending
    BY Zenon DEF Pending
  <2>2. \A b \in K : b \in Batches /\ b <= created
    BY <2>1, Zenon DEF IInv, Placed, TypeOK
  <2> QED
    BY <2>1, <2>2, CopyType DEF IInv
<1> HIDE DEF K
<1>4. \A z : IsCopy(z)' <=> IsCopy(z) \/ \E b \in K : z = Copy(b)
  BY <1>1, Zenon DEF IsCopy
<1>5. \A b \in K : Copy(b).batch = b
  BY DEF Copy
<1>6. \A b : Copied(b)' <=> Copied(b) \/ b \in K
  BY <1>3, <1>4, <1>5, Zenon DEF Copied
<1>7. \A p : Written(p)' = Written(p) /\ Queued(p)' = Queued(p)
  BY <1>1 DEF Written, Queued
<1>8. \A b : Copy(b)' = Copy(b) /\ (IsDuplicate(Copy(b))' <=> IsDuplicate(Copy(b)))
  BY <1>1, SameCopy, Zenon
<1>9. QueueInOrder' /\ NoDuplicates'
  BY <1>1, <1>2, Zenon DEF QueueInOrder, NoDuplicates, Queued
<1>10. Faithful'
  <2>1. ASSUME NEW z \in Copies, IsCopy(z)' PROVE z.batch <= created' /\ z = Copy(z.batch)'
    BY <2>1, <1>1, <1>3, <1>4, <1>5, <1>8, Zenon DEF Faithful
  <2> QED
    BY <2>1, <1>1, Zenon DEF Faithful
<1>11. Closed'
  <2>1. \A p \in Partitions : \A b \in Queued(p) : b \notin K
    BY <1>3 DEF IInv, Separate
  <2> QED
    BY <2>1, <1>1, <1>6, <1>7 DEF Closed
<1>12. OldersSettled'
  <2>1. \A b : Sent(b)' <=> Sent(b)
    BY <1>1, <1>2, <1>3, <1>6, Zenon DEF Sent
  <2> QED
    BY <2>1, <1>1, <1>2, <1>7, Zenon DEF OldersSettled
<1>13. Answered'
  <2>1. \A b \in Batches : reply'[b] # "none" => b \in handling' \cup UNION requests'
    BY <1>1, <1>2, Zenon DEF Answered
  <2>2. \A b \in Batches : reply'[b] = "ok" => reply[b] = "ok"
    BY <1>1, Zenon
  <2> QED
    BY <2>1, <2>2, <1>1, <1>7, <1>8, Zenon DEF Answered
<1>14. Ordered'
  BY <1>1, OrderedKept
<1> QED
  BY <1>9, <1>10, <1>11, <1>12, <1>13, <1>14, Zenon

=============================================================================
