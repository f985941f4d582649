--------------------------- MODULE ProducerExact ----------------------------
(***************************************************************************)
(* Without expiry XInv is kept: a partition's log holds its batches in the *)
(* order of creation, none twice with idempotence and none missing.        *)
(***************************************************************************)
EXTENDS ProducerTypes

LEMMA SequenceMovesOn ==
    ASSUME NEW p, sequence[p] \in Nat, NEW k \in Nat, sequence'[p] = sequence[p] + k
    PROVE  SequenceNumber(p)' = SequenceNumber(p) + k
  BY DEF SequenceNumber, NoSeq

LEMMA ForgivingGuarantees ==
    ASSUME Forgiving
    PROVE  Idempotent /\ GuaranteeOrder /\ ~Expiry /\ MaxFaults <= Retries
           /\ MaxFaults \in Nat /\ Retries \in Nat
BY ConfigAssumption DEF Forgiving

----------------------------------------------------------------------------
(* The batches of a partition are sent one after the other *)

LEMMA OldersSucceeded ==
    ASSUME Forgiving, IInv, OInv, XInv, NEW a \in Batches, NEW b \in Batches,
           a < b, tp[a] = tp[b], Sent(b)
    PROVE  final[a] = "SUCCEEDED"
<1>1. b <= created /\ tp[b] \in Partitions
  BY SentCreated
<1>2. a <= created /\ a \in Nat
  BY <1>1 DEF Batches, IInv, TypeOK
<1>3. a \notin Queued(tp[a]) /\ a \notin Pending
  BY ForgivingGuarantees DEF OInv, OldersSettled
<1>4. a \notin incomplete
  BY <1>3 DEF IInv, NothingLost, XInv, Smooth
<1>5. final[a] # "none"
  BY <1>2, <1>4 DEF IInv, NothingLost
<1> QED
  BY <1>5 DEF XInv, Smooth, IInv, TypeOK, FinalStates

LEMMA OneUnsettled ==
    ASSUME Forgiving, IInv, OInv, XInv, NEW a \in Batches, NEW b \in Batches,
           tp[a] = tp[b], Sent(a), Sent(b), final[a] # "SUCCEEDED", final[b] # "SUCCEEDED"
    PROVE  a = b
<1>1. a \in Int /\ b \in Int
  BY DEF Batches
<1>2. ~(a < b) /\ ~(b < a)
  BY OldersSucceeded
<1> QED
  BY <1>1, <1>2

\* What the log says of a batch in it.
LEMMA LogEntry ==
    ASSUME IInv, OInv, NEW p \in Partitions, NEW i \in 1 .. Len(log[p])
    PROVE  LET c == log[p][i] IN
           /\ c \in Copies /\ c \in Range(log[p]) /\ c = Copy(c.batch) /\ c.tp = p
           /\ c.batch \in Batches /\ c.batch <= created /\ c.batch \in Written(p)
           /\ tp[c.batch] = p /\ c.pid = bpid[c.batch]
           /\ c.seq = bseq[c.batch] /\ c.count = count[c.batch]
           /\ c.seq \in Int /\ c.count \in Nat
           /\ Sent(c.batch)
<1> DEFINE c == log[p][i]
<1>1. log[p] \in Seq(Copies)
  BY DEF IInv, TypeOK
<1>2. c \in Copies /\ c \in Range(log[p])
  BY <1>1, SeqRange
<1>3. IsCopy(c) /\ c.batch \in Written(p)
  BY <1>2 DEF IsCopy, Written
<1> HIDE DEF c
<1>4. c = Copy(c.batch) /\ c.tp = p /\ c.batch <= created
  BY <1>2, <1>3 DEF OInv, Faithful
<1>5. /\ c.tp = tp[c.batch] /\ c.pid = bpid[c.batch]
      /\ c.seq = bseq[c.batch] /\ c.count = count[c.batch]
  BY <1>4 DEF Copy
<1>6. c.batch \in Batches /\ c.seq \in Int /\ c.count \in Nat
  BY <1>2 DEF Copies
<1>7. Sent(c.batch)
  BY <1>2, <1>3 DEF Sent, Copied
<1> QED
  BY <1>2, <1>3, <1>4, <1>5, <1>6, <1>7, Zenon DEF c

----------------------------------------------------------------------------
(* Steps that send nothing new, settle nothing and write nothing *)

LEMMA StampsKept ==
    ASSUME IInv, OInv, XInv,
           UNCHANGED <<final, bpid, bseq, log, sequence, producerId>>,
           \A b \in Batches : Sent(b)' => Sent(b),
           \A b \in Batches : Sent(b) \/ final[b] # "none" \/ reply[b] # "none" => tp'[b] = tp[b],
           \A b \in Batches : reply'[b] = "ok" => reply[b] = "ok"
    PROVE  Stamped' /\ Gapless' /\ WrittenFirst'
<1> USE DEF XInv
<1>1. \A p : SequenceNumber(p)' = SequenceNumber(p) /\ Written(p)' = Written(p)
  BY DEF SequenceNumber, Written
<1>2. Stamped'
  BY <1>1 DEF Stamped
<1>3. Gapless'
  BY <1>1 DEF Gapless
<1>4. WrittenFirst'
  BY <1>1 DEF WrittenFirst
<1> QED
  BY <1>2, <1>3, <1>4

\* The sender goes on, and requests are sent and answered.
LEMMA StillExact ==
    ASSUME Forgiving, IInv, OInv, XInv,
           UNCHANGED <<created, tp, count, final, bpid, bseq, attempts, log, zombies, sequence,
                       producerId, clock, inFlight, expired>>,
           now' = 0, ~needsReset', faults' \in Nat, faults <= faults',
           Pending' = Pending,
           \A b \in handling' : reply'[b] # "none",
           \A b \in Batches : reply'[b] = reply[b] \/ (reply'[b] = "retriable" /\ faults < faults')
    PROVE  XInv'
<1>1. Smooth'
  <2>1. \A b \in Batches : attempts[b] \in Nat
    BY DEF IInv, TypeOK
  <2>2. faults \in Nat
    BY DEF IInv, TypeOK
  <2> QED
    BY <2>1, <2>2 DEF XInv, Smooth
<1>2. \A b \in Batches : Sent(b)' => Sent(b)
  BY SameCopies DEF Sent
<1>3. Stamped' /\ Gapless' /\ WrittenFirst'
  BY <1>2, StampsKept
<1> QED
  BY <1>1, <1>3 DEF XInv

\* Records join the open batch.
LEMMA AppendToBatchExact ==
    ASSUME Forgiving, IInv, OInv, XInv, NEW p \in Partitions, AppendToBatch(p)
    PROVE  XInv'
<1>1. /\ UNCHANGED <<created, tp, attempts, final, bpid, bseq, batches, drained, handling, requests,
                     reply, zombies, log, sequence, producerId, clock, now, expired, needsReset,
                     inFlight, faults>>
      /\ \E b : count' = [count EXCEPT ![b] = @ + 1]
  BY Zenon DEF AppendToBatch, accVars, senderVars, envVars, tmVars
<1>2. Pending' = Pending
  BY <1>1 DEF Pending
<1>3. \A b \in Batches : count[b] \in Nat /\ (count[b] > 0 => count'[b] > 0)
  BY <1>1, ConfigAssumption DEF IInv, TypeOK
<1>4. Smooth'
  BY <1>1, <1>2, <1>3, Zenon DEF XInv, Smooth
<1>5. \A b \in Batches : Sent(b)' => Sent(b)
  BY <1>1, <1>2, SameCopies, Zenon DEF Sent
<1>6. Stamped' /\ Gapless' /\ WrittenFirst'
  BY <1>1, <1>5, StampsKept
<1> QED
  BY <1>1, <1>4, <1>6 DEF XInv

\* A new batch is accepted behind all that were.
LEMMA AppendNewBatchExact ==
    ASSUME Forgiving, IInv, OInv, XInv, NEW p \in Partitions, AppendNewBatch(p)
    PROVE  XInv'
<1>0. PICK n \in Nat : n = created + 1
  BY DEF IInv, TypeOK
<1>1. /\ n \in Batches /\ created \in Nat /\ created' = n /\ n = created + 1
      /\ tp' = [tp EXCEPT ![n] = p] /\ count' = [count EXCEPT ![n] = 1]
  <2>1. created \in Nat /\ created < MaxBatches /\ created' = created + 1
    BY ConfigNumbers DEF AppendNewBatch, IInv, TypeOK
  <2>2. n \in Batches
    BY <1>0, <2>1, ConfigNumbers DEF Batches
  <2> QED
    BY <1>0, <2>1, <2>2, Zenon DEF AppendNewBatch
<1>2. UNCHANGED <<attempts, final, bpid, bseq, drained, handling, requests,
                  reply, zombies, log, sequence, producerId, clock, now, expired, needsReset,
                  inFlight, faults>>
  BY DEF AppendNewBatch, senderVars, envVars, tmVars
<1>3. Pending' = Pending
  BY <1>2 DEF Pending
<1>4. \A b \in Batches : b \in Nat /\ (b # n => tp'[b] = tp[b] /\ count'[b] = count[b])
                         /\ (b <= n /\ b # n => b <= created)
  BY <1>1 DEF IInv, TypeOK, Batches
<1>5. tp'[n] = p /\ count'[n] = 1
  BY <1>1 DEF IInv, TypeOK
<1>6. ~Sent(n) /\ final[n] = "none" /\ reply[n] = "none"
  <2>1. ~(n <= created)
    BY <1>1
  <2>2. ~Sent(n) /\ final[n] = "none"
    BY <2>1, <1>1, SentCreated DEF IInv, Placed
  <2>3. reply[n] = "none"
    BY <2>2, <1>1 DEF OInv, Answered, Sent, Pending
  <2> QED
    BY <2>2, <2>3
<1>7. Smooth'
  BY <1>1, <1>2, <1>3, <1>4, <1>5 DEF XInv, Smooth
<1>8. \A b \in Batches : Sent(b)' => Sent(b)
  BY <1>2, <1>3, SameCopies DEF Sent
<1>9. Stamped' /\ Gapless' /\ WrittenFirst'
  BY <1>2, <1>4, <1>6, <1>8, StampsKept
<1> QED
  BY <1>7, <1>9 DEF XInv

----------------------------------------------------------------------------
(* Batches are drained, their requests fail *)

\* A batch is stamped with the sequence its partition stands at when it is
\* first drained, and keeps it when it is drained again.
LEMMA DrainExact ==
    ASSUME Forgiving, IInv, OInv, XInv, NEW P \in SUBSET Partitions, Drain(P)
    PROVE  XInv'
<1> DEFINE taken == {Head(batches[q]) : q \in P}
<1> USE DEF XInv
<1>1. /\ UNCHANGED <<created, tp, count, attempts, final, handling, requests, reply, zombies, log,
                     clock, faults, producerId, expired, needsReset>>
      /\ drained' = taken /\ now' = clock /\ inFlight' = inFlight \cup taken
      /\ producerId # NoPid
  BY ForgivingGuarantees DEF Drain, envVars
<1>2. /\ taken \subseteq Batches
      /\ \A b \in taken : tp[b] \in Partitions
  <2> SUFFICES ASSUME NEW q \in P
               PROVE  Head(batches[q]) \in Batches /\ tp[Head(batches[q])] \in Partitions
    BY Zenon
  <2>1. batches[q] \in Seq(Batches) /\ batches[q] # << >>
    BY DEF IInv, TypeOK, Drain, Drainable
  <2>2. Head(batches[q]) \in Batches /\ Head(batches[q]) \in Queued(q)
    BY <2>1, TailRange, Zenon DEF Queued
  <2> QED
    BY <2>2 DEF IInv, Placed
<1>3. \A b \in Batches :
          /\ b \in taken /\ attempts[b] = 0 => bpid'[b] = producerId /\ bseq'[b] = SequenceNumber(tp[b])
          /\ ~(b \in taken /\ attempts[b] = 0) => bpid'[b] = bpid[b] /\ bseq'[b] = bseq[b]
  BY ForgivingGuarantees, Zenon DEF Drain, SetsProducerState
<1>4. \A q \in Partitions : sequence'[q] = SequenceNumber(q) \/ sequence'[q] = sequence[q]
  BY Zenon DEF Drain
<1>5. \A q \in Partitions : SequenceNumber(q)' = SequenceNumber(q)
  BY <1>4 DEF SequenceNumber, NoSeq
<1>6. Pending' = Pending \cup taken
  <2>1. drained = {}
    BY Zenon DEF IInv, Phases, Drain, AtLoop
  <2> QED
    BY <2>1, <1>1, Zenon DEF Pending
<1> HIDE DEF taken
<1>7. Smooth'
  BY <1>1, <1>6 DEF Smooth
<1>8. \A b : /\ Copied(b)' <=> Copied(b)
             /\ Written(b)' = Written(b)
  BY <1>1, SameCopies, Zenon
<1>9. Stamped'
  <2> SUFFICES ASSUME NEW b \in Batches, Sent(b)'
               PROVE  /\ bpid'[b] = producerId /\ producerId # NoPid
                      /\ final[b] = "none" => bseq'[b] = SequenceNumber(tp[b])'
    BY <1>1, Zenon DEF Stamped
  <2>1. tp[b] \in Partitions
    <3>1. CASE b \in taken
      BY <3>1, <1>2
    <3>2. CASE b \notin taken
      BY <3>2, <1>1, <1>6, <1>8, SentCreated DEF Sent
    <3> QED
      BY <3>1, <3>2
  <2>2. SequenceNumber(tp[b])' = SequenceNumber(tp[b])
    BY <2>1, <1>1, <1>5, Zenon
  <2>3. CASE b \in taken /\ attempts[b] = 0
    BY <2>2, <2>3, <1>1, <1>3, Zenon
  <2>4. CASE ~(b \in taken /\ attempts[b] = 0)
    <3>1. attempts[b] \in Nat
      BY DEF IInv, TypeOK
    <3>2. Sent(b)
      BY <3>1, <2>4, <1>1, <1>6, <1>8 DEF Sent
    <3> QED
      BY <3>2, <2>2, <2>4, <1>1, <1>3, Zenon DEF Stamped
  <2> QED
    BY <2>3, <2>4
<1>10. Gapless'
  BY <1>1, <1>5, Zenon DEF Gapless
<1>11. WrittenFirst'
  BY <1>1, <1>8 DEF WrittenFirst
<1> QED
  BY <1>1, <1>7, <1>9, <1>10, <1>11, Zenon

\* A request fails: its batches may be retried once more for this fault.
LEMMA FailedProduceExact ==
    ASSUME Forgiving, IInv, OInv, XInv, NEW S \in requests, FailedProduce(S)
    PROVE  XInv'
<1> DEFINE K == {c \in S : reply[c] = "none"}
<1> USE DEF XInv
<1>1. /\ UNCHANGED <<created, tp, count, attempts, final, bpid, bseq, drained, log, sequence,
                     producerId, clock, now, expired, needsReset, inFlight>>
      /\ zombies' = zombies \cup {Copy(b) : b \in K}
      /\ reply' = [b \in Batches |-> IF b \in S THEN "retriable" ELSE reply[b]]
      /\ handling = {} /\ handling' = S /\ requests' = requests \ {S}
      /\ faults' = faults + 1
  BY Zenon DEF FailedProduce, batchVars, accVars, tmVars
<1>2. Pending' = Pending
  <2>1. handling' \cup UNION requests' = handling \cup UNION requests
    BY <1>1
  <2> QED
    BY <2>1, <1>1 DEF Pending
<1>3. K \subseteq Pending
  BY Zenon DEF Pending
<1> HIDE DEF K
<1>4. \A b : Copied(b)' => Copied(b) \/ b \in K
  <2>1. \A b \in K : Copy(b).batch = b
    BY Zenon DEF Copy
  <2> QED
    BY <2>1, <1>1, Zenon DEF Copied, IsCopy
<1>5. \A b \in Batches : Sent(b)' => Sent(b)
  BY <1>1, <1>2, <1>3, <1>4, Zenon DEF Sent
<1>6. \A b \in Batches : reply'[b] = "ok" => reply[b] = "ok"
  BY <1>1
<1>7. Stamped' /\ Gapless' /\ WrittenFirst'
  BY <1>1, <1>5, <1>6, StampsKept, Zenon
<1>8. Smooth'
  <2>1. faults \in Nat /\ S \subseteq Batches /\ \A b \in Batches : attempts[b] \in Nat
    BY DEF IInv, TypeOK
  <2> QED
    BY <2>1, <1>1, <1>2 DEF Smooth
<1> QED
  BY <1>1, <1>7, <1>8

----------------------------------------------------------------------------
(* The broker *)

\* A copy of a batch that is not in the log is next in sequence, and all before
\* it are acknowledged; a copy of one that is in the log is a duplicate.
LEMMA BrokerDecides ==
    ASSUME Forgiving, IInv, OInv, XInv, NEW z \in Copies, z = Copy(z.batch), Sent(z.batch)
    PROVE  LET p == z.tp IN
           /\ p \in Partitions /\ p = tp[z.batch]
           /\ z.batch \in Written(p) => IsDuplicate(z)
           /\ z.batch \notin Written(p) =>
                 /\ Accepts(z) /\ final[z.batch] = "none"
                 /\ \A i \in 1 .. Len(log[p]) :
                        /\ final[log[p][i].batch] = "SUCCEEDED"
                        /\ log[p][i].seq + log[p][i].count <= z.seq
<1> DEFINE p == z.tp
           n == Len(log[p])
<1> USE DEF XInv
<1>1. /\ p \in Partitions /\ z.batch \in Batches /\ p = tp[z.batch]
      /\ z.pid = bpid[z.batch] /\ z.seq = bseq[z.batch] /\ z.seq \in Int
  <2>1. z.tp \in Partitions /\ z.batch \in Batches /\ z.seq \in Int
    BY DEF Copies
  <2>2. z.tp = tp[z.batch] /\ z.pid = bpid[z.batch] /\ z.seq = bseq[z.batch]
    BY DEF Copy
  <2> QED
    BY <2>1, <2>2
<1>2. log[p] \in Seq(Copies) /\ n \in Nat
  BY <1>1 DEF IInv, TypeOK
<1>3. \A c : c \in Range(log[p]) <=> \E i \in 1 .. n : log[p][i] = c
  BY <1>2, SeqRange, Zenon
<1> HIDE DEF p, n
<1>4. ASSUME z.batch \in Written(p) PROVE IsDuplicate(z)
  <2>1. PICK i \in 1 .. n : log[p][i].batch = z.batch
    BY <1>4, Zenon DEF Written, n
  <2>2. log[p][i] = z
    BY <2>1, <1>1, LogEntry DEF n
  <2> QED
    BY <2>2, <1>3, ForgivingGuarantees DEF IsDuplicate, p
<1>5. ASSUME z.batch \notin Written(p)
      PROVE  /\ Accepts(z) /\ final[z.batch] = "none"
             /\ \A i \in 1 .. n : final[log[p][i].batch] = "SUCCEEDED"
                                  /\ log[p][i].seq + log[p][i].count <= z.seq
  <2>1. final[z.batch] = "none"
    BY <1>1, <1>5, Zenon DEF WrittenFirst, Smooth, IInv, TypeOK, FinalStates
  <2>2. z.pid = producerId /\ z.seq = SequenceNumber(p)
    BY <2>1, <1>1 DEF Stamped
  <2>3. \A i \in 1 .. n : final[log[p][i].batch] = "SUCCEEDED"
    <3> SUFFICES ASSUME NEW i \in 1 .. n, final[log[p][i].batch] # "SUCCEEDED" PROVE FALSE
      OBVIOUS
    <3>1. /\ log[p][i].batch \in Batches /\ tp[log[p][i].batch] = p
          /\ Sent(log[p][i].batch) /\ log[p][i].batch \in Written(p)
      BY <1>1, LogEntry, Zenon DEF n
    <3>2. log[p][i].batch = z.batch
      BY <3>1, <1>1, <2>1, OneUnsettled, Zenon
    <3> QED
      BY <3>1, <3>2, <1>5
  <2>4. \A i \in 1 .. n : /\ log[p][i].seq \in Int /\ log[p][i].count \in Nat
                          /\ log[p][i].count > 0
    <3> SUFFICES ASSUME NEW i \in 1 .. n
                 PROVE  /\ log[p][i].seq \in Int /\ log[p][i].count \in Nat
                        /\ log[p][i].count > 0
      BY Zenon
    <3>1. /\ log[p][i].batch \in Batches /\ log[p][i].batch <= created
          /\ log[p][i].count = count[log[p][i].batch]
          /\ log[p][i].seq \in Int /\ log[p][i].count \in Nat
      BY <1>1, LogEntry, Zenon DEF n
    <3> QED
      BY <3>1 DEF Smooth
  <2>5. n = 0 => z.seq = 0
    BY <2>2, <1>1 DEF Gapless, n
  <2>6. n # 0 => n \in 1 .. n /\ z.seq = log[p][n].seq + log[p][n].count
    <3>1. n # 0 => n \in 1 .. n /\ n > 0
      BY <1>2
    <3> QED
      BY <2>2, <2>3, <3>1, <1>1, Zenon DEF Gapless, n
  <2>7. \A i, j \in 1 .. n : i < j => log[p][i].seq + log[p][i].count <= log[p][j].seq
    BY <1>1, Zenon DEF Gapless, n
  <2>8. ASSUME NEW i \in 1 .. n
        PROVE  log[p][i].seq + log[p][i].count <= z.seq /\ log[p][i].seq < z.seq
    <3>1. i = n \/ i < n
      BY <1>2
    <3>2. CASE i = n
      BY <3>2, <2>4, <2>6
    <3>3. CASE i < n
      <4>1. log[p][i].seq + log[p][i].count <= log[p][n].seq
        BY <3>3, <2>6, <2>7
      <4>2. /\ log[p][i].seq \in Int /\ log[p][i].count \in Nat /\ log[p][i].count > 0
            /\ log[p][n].seq \in Int /\ log[p][n].count \in Nat
            /\ z.seq = log[p][n].seq + log[p][n].count
        BY <3>3, <2>4, <2>6
      <4> QED
        BY <4>1, <4>2
    <3> QED
      BY <3>1, <3>2, <3>3
  <2>9. ~IsDuplicate(z)
    <3>1. \A c \in Range(log[p]) : c.seq # z.seq
      <4>1. \A a, c \in Int : a < c => a # c
        OBVIOUS
      <4>2. \A i \in 1 .. n : log[p][i].seq # z.seq
        BY <1>1, <2>4, <2>8, <4>1, Zenon
      <4> QED
        BY <1>3, <4>2, Zenon
    <3> QED
      BY <3>1 DEF IsDuplicate, p
  <2>10. InSequence(z)
    <3> DEFINE ends == {c.seq + c.count : c \in {d \in Range(log[z.tp]) : d.pid = z.pid}}
    <3>1. \A e \in ends : e <= z.seq
      BY <1>3, <2>8, Zenon DEF p
    <3>2. CASE n = 0
      BY <3>1, <3>2, <2>5, Zenon DEF InSequence
    <3>3. CASE n # 0
      <4>1. /\ log[p][n] \in Range(log[p]) /\ log[p][n].batch \in Batches
            /\ log[p][n].pid = bpid[log[p][n].batch] /\ Sent(log[p][n].batch)
        BY <3>3, <2>6, <1>1, LogEntry, Zenon DEF n
      <4>2. log[p][n].pid = producerId
        BY <4>1, Zenon DEF Stamped
      <4>3. z.seq \in ends
        BY <4>1, <4>2, <2>2, <2>6, <3>3, Zenon DEF p
      <4> QED
        BY <3>1, <4>3 DEF InSequence
    <3> QED
      BY <3>2, <3>3, Zenon
  <2> QED
    BY <2>1, <2>3, <2>8, <2>9, <2>10, Zenon DEF Accepts
<1> QED
  BY <1>1, <1>4, <1>5, Zenon DEF p, n

\* The broker writes the first batch of the partition that is not written.
LEMMA BrokerExact ==
    ASSUME Forgiving, IInv, OInv, XInv, NEW z \in Copies, z = Copy(z.batch), Sent(z.batch),
           log' = LogAfter(z), zombies' \subseteq zombies,
           UNCHANGED <<created, tp, count, attempts, final, bpid, bseq, drained, handling,
                       requests, sequence, producerId, clock, now, expired, needsReset,
                       inFlight, faults>>,
           \A b \in Batches : reply'[b] = reply[b] \/ (b = z.batch /\ reply'[b] = "ok")
    PROVE  XInv'
<1> USE DEF XInv
<1>0. PICK p \in Partitions : p = z.tp /\ p = tp[z.batch]
  BY BrokerDecides, Zenon
<1>1. PICK n \in Nat : n = Len(log[p])
  <2>1. log[p] \in Seq(Copies)
    BY Zenon DEF IInv, TypeOK
  <2> QED
    BY <2>1, LogLength, Zenon
<1>2. log[p] \in Seq(Copies) /\ z.batch \in Batches /\ z.batch <= created
  BY SentCreated, Zenon DEF IInv, TypeOK, Copies
<1>3. Accepts(z) <=> z.batch \notin Written(p)
  BY <1>0, BrokerDecides, Zenon DEF Accepts
<1>4. z.batch \notin Written(p) =>
          /\ final[z.batch] = "none"
          /\ \A i \in 1 .. n : final[log[p][i].batch] = "SUCCEEDED"
                               /\ log[p][i].seq + log[p][i].count <= z.seq
  <2>1. z.batch \notin Written(z.tp) =>
            /\ final[z.batch] = "none"
            /\ \A i \in 1 .. Len(log[z.tp]) :
                   /\ final[log[z.tp][i].batch] = "SUCCEEDED"
                   /\ log[z.tp][i].seq + log[z.tp][i].count <= z.seq
    BY BrokerDecides, Zenon
  <2> QED
    BY <2>1, <1>0, <1>1, Zenon
<1>5. z.batch \notin Written(p) =>
          /\ Len(log'[p]) = n + 1 /\ log'[p][n + 1] = z
          /\ \A i \in 1 .. n : log'[p][i] = log[p][i]
  <2>1. Accepts(z) => /\ Len(log'[z.tp]) = Len(log[z.tp]) + 1
                      /\ log'[z.tp][Len(log[z.tp]) + 1] = z
                      /\ \A i \in 1 .. Len(log[z.tp]) : log'[z.tp][i] = log[z.tp][i]
    BY LogAfterCopy, Zenon DEF IInv
  <2> QED
    BY <2>1, <1>0, <1>1, <1>3, Zenon
<1>6. \A q \in Partitions : q # p \/ z.batch \in Written(p) => log'[q] = log[q]
  <2>1. \A q \in Partitions : q # z.tp \/ ~Accepts(z) => log'[q] = log[q]
    BY LogAfterCopy, Zenon DEF IInv
  <2> QED
    BY <2>1, <1>0, <1>3, Zenon
<1>7. Pending' = Pending /\ \A q : SequenceNumber(q)' = SequenceNumber(q)
  BY Zenon DEF Pending, SequenceNumber
<1>8. \A b \in Batches : Sent(b)' => Sent(b)
  <2>1. \A b : Copied(b)' => Copied(b) \/ b = z.batch
    BY LogAfterCopy, Zenon DEF IInv
  <2> QED
    BY <2>1, <1>7, Zenon DEF Sent
<1>9. Stamped'
  BY <1>7, <1>8, Zenon DEF Stamped
<1>10. Smooth'
  <2>1. handling \subseteq Batches
    BY Zenon DEF IInv, TypeOK
  <2> QED
    BY <2>1, <1>7, Zenon DEF Smooth
<1>11. \A q \in Partitions : \A b : b \in Written(q)' <=> b \in Written(q) \/ (q = p /\ b = z.batch)
  <2>1. \A q \in Partitions : \A b : b \in Written(q)' <=>
            b \in Written(q) \/ (q = z.tp /\ Accepts(z) /\ b = z.batch)
    BY LogAfterCopy, Zenon DEF IInv
  <2> QED
    BY <2>1, <1>0, <1>3, Zenon
<1>12. WrittenFirst'
  <2> SUFFICES ASSUME NEW b \in Batches, reply'[b] = "ok" \/ final[b] = "SUCCEEDED"
               PROVE  b \in Written(tp[b])'
    BY Zenon DEF WrittenFirst
  <2>1. CASE b = z.batch
    BY <2>1, <1>0, <1>11, Zenon
  <2>2. CASE b # z.batch
    <3>1. b \in Written(tp[b])
      BY <2>2, Zenon DEF WrittenFirst
    <3>2. tp[b] \in Partitions
      <4>1. b <= created
        <5>1. CASE final[b] = "SUCCEEDED"
          BY <5>1, Zenon DEF IInv, Placed
        <5>2. CASE reply[b] = "ok"
          BY <5>2 DEF OInv, Answered, IInv, Placed, Pending
        <5> QED
          BY <5>1, <5>2, <2>2, Zenon
      <4> QED
        BY <4>1 DEF IInv, Placed, Batches, TypeOK
    <3> QED
      BY <3>1, <3>2, <1>11, Zenon
  <2> QED
    BY <2>1, <2>2, Zenon
<1>13. Gapless'
  <2> DEFINE G(q) == LET m == Len(log[q]) IN
        /\ \A i, j \in 1 .. m : i < j => log[q][i].seq + log[q][i].count <= log[q][j].seq
        /\ \A i \in 1 .. m : i # m => final[log[q][i].batch] = "SUCCEEDED"
        /\ m = 0 => SequenceNumber(q) = 0
        /\ m > 0 /\ final[log[q][m].batch] = "SUCCEEDED"
               => SequenceNumber(q) = log[q][m].seq + log[q][m].count
  <2>1. \A q \in Partitions : G(q)
    BY Zenon DEF Gapless
  <2> SUFFICES ASSUME NEW q \in Partitions PROVE G(q)'
    BY Zenon DEF Gapless
  <2>2. CASE q # p \/ z.batch \in Written(p)
    <3>1. log'[q] = log[q]
      BY <2>2, <1>6, Zenon
    <3> QED
      BY <3>1, <2>1, <1>7, Zenon
  <2>3. CASE q = p /\ z.batch \notin Written(p)
    <3> SUFFICES G(p)'
      BY <2>3, Zenon
    <3>1. /\ Len(log'[p]) = n + 1 /\ log'[p][n + 1] = z
          /\ \A i \in 1 .. n : log'[p][i] = log[p][i]
      BY <2>3, <1>5, Zenon
    <3>2. \A i, j \in 1 .. n + 1 : i < j => log'[p][i].seq + log'[p][i].count <= log'[p][j].seq
      <4> SUFFICES ASSUME NEW i \in 1 .. n + 1, NEW j \in 1 .. n + 1, i < j
                   PROVE  log'[p][i].seq + log'[p][i].count <= log'[p][j].seq
        BY Zenon
      <4>1. i \in 1 .. n
        BY EarlierIndex, Zenon
      <4>2. CASE j = n + 1
        BY <4>1, <4>2, <3>1, <2>3, <1>4, Zenon
      <4>3. CASE j # n + 1
        <5>1. j \in 1 .. n
          BY <4>3, EarlierIndex, Zenon
        <5>2. \A k, l \in 1 .. n : k < l => log[p][k].seq + log[p][k].count <= log[p][l].seq
          BY <2>1, <1>1, Zenon
        <5> QED
          BY <5>1, <5>2, <4>1, <3>1, Zenon
      <4> QED
        BY <4>2, <4>3, Zenon
    <3>3. \A i \in 1 .. n + 1 : i # n + 1 => final[log'[p][i].batch] = "SUCCEEDED"
      <4>1. \A i \in 1 .. n + 1 : i # n + 1 => i \in 1 .. n
        BY EarlierIndex, Zenon
      <4>2. \A i \in 1 .. n : final[log'[p][i].batch] = "SUCCEEDED"
        BY <3>1, <2>3, <1>4, Zenon
      <4> QED
        BY <4>1, <4>2, Zenon
    <3>4. final[log'[p][n + 1].batch] = "none"
      BY <3>1, <2>3, <1>4, Zenon
    <3>5. n + 1 # 0
      BY EarlierIndex, Zenon
    <3> QED
      BY <3>1, <3>2, <3>3, <3>4, <3>5, Zenon
  <2> QED
    BY <2>2, <2>3, Zenon
<1> QED
  BY <1>9, <1>10, <1>12, <1>13, Zenon

----------------------------------------------------------------------------
(* The outcome of a batch *)

\* The batch that is acknowledged is the last one of its partition's log.
LEMMA SucceedExact ==
    ASSUME Forgiving, IInv, OInv, XInv, NEW b \in Batches, CompleteBatch(b),
           reply[b] = "ok", Succeed(b)
    PROVE  XInv'
<1> USE DEF XInv
<1>1. /\ UNCHANGED <<created, tp, count, bpid, bseq, zombies, log, attempts>>
      /\ Pending' = Pending \ {b} /\ b \in Pending
      /\ \A c \in Batches : reply'[c] = IF c = b THEN "none" ELSE reply[c]
      /\ \A c : Copied(c)' <=> Copied(c)
      /\ \A q : Written(q)' = Written(q)
  BY CompleteBatchCopies, Zenon DEF Succeed
<1>2. PICK p \in Partitions : p = tp[b]
  BY CompleteBatchFacts, Zenon
<1>3. final[b] = "none" /\ b <= created
  BY CompleteBatchFacts, Zenon DEF Smooth, IInv, TypeOK, FinalStates
<1>4. \A c \in Batches : final'[c] = IF c = b THEN "SUCCEEDED" ELSE final[c]
  BY <1>3, Zenon DEF Succeed, FinalAfter, Done, IInv, TypeOK
<1>5. /\ UNCHANGED <<clock, now, expired, needsReset, faults, producerId>>
      /\ inFlight' = inFlight \ {b} /\ handling' = handling \ {b} /\ handling \subseteq Batches
  BY <1>3, Zenon DEF CompleteBatch, Succeed, Release, Done, IInv, TypeOK
<1>6. Sent(b)
  BY <1>1, Zenon DEF Sent
<1>7. /\ bpid[b] = producerId /\ producerId # NoPid /\ bseq[b] = SequenceNumber(p)
      /\ count[b] \in Nat /\ sequence[p] \in Nat
  <2>1. bpid[b] = producerId /\ producerId # NoPid /\ bseq[b] = SequenceNumber(p)
    BY <1>2, <1>3, <1>6 DEF Stamped
  <2>2. sequence[p] # NoSeq /\ sequence[p] >= NoSeq /\ sequence[p] \in Int
    <3>1. sequence[p] \in Int
      BY Zenon DEF IInv, TypeOK
    <3> QED
      BY <3>1, <2>1, <1>2, ForgivingGuarantees, Zenon DEF IInv, Sequenced
  <2>3. count[b] \in Nat
    BY ConfigAssumption DEF IInv, TypeOK
  <2> QED
    BY <2>1, <2>2, <2>3, SequenceIsNumber, Zenon
<1>8. /\ SequenceNumber(p)' = SequenceNumber(p) + count[b]
      /\ \A q \in Partitions : q # p => SequenceNumber(q)' = SequenceNumber(q)
  <2>1. sequence' = [sequence EXCEPT ![p] = @ + count[b]]
    BY <1>2, <1>7, ForgivingGuarantees, Zenon DEF Succeed, Match
  <2>2. sequence'[p] = sequence[p] + count[b]
        /\ \A q \in Partitions : q # p => sequence'[q] = sequence[q]
    BY <2>1 DEF IInv, TypeOK
  <2>3. SequenceNumber(p)' = SequenceNumber(p) + count[b]
    BY <2>2, <1>7, SequenceMovesOn, Zenon
  <2> QED
    BY <2>2, <2>3, Zenon DEF SequenceNumber
<1>9. PICK n \in Nat : n = Len(log[p])
  BY DEF IInv, TypeOK
<1>10. n > 0 /\ n # 0 /\ n \in 1 .. n /\ log[p][n].batch = b
  <2>1. b \in Written(p)
    BY <1>2, Zenon DEF WrittenFirst
  <2>2. PICK i \in 1 .. n : log[p][i].batch = b
    BY <2>1, <1>9 DEF Written
  <2>3. i = n
    BY <2>2, <1>3, <1>9, Zenon DEF Gapless
  <2>4. \A m \in Nat : m \in 1 .. m => m > 0 /\ m # 0
    OBVIOUS
  <2> QED
    BY <2>2, <2>3, <2>4, Zenon
<1>11. Smooth'
  BY <1>1, <1>4, <1>5, Zenon DEF Smooth
<1>12. Stamped'
  <2> SUFFICES ASSUME NEW c \in Batches, Sent(c)'
               PROVE  /\ bpid[c] = producerId /\ producerId # NoPid
                      /\ final'[c] = "none" => bseq[c] = SequenceNumber(tp[c])'
    BY <1>1, <1>5, Zenon DEF Stamped
  <2>1. Sent(c)
    BY <1>1, Zenon DEF Sent
  <2>2. ASSUME final'[c] = "none" PROVE SequenceNumber(tp[c])' = SequenceNumber(tp[c]) /\ final[c] = "none"
    <3>1. c # b /\ final[c] = "none"
      BY <2>2, <1>4, Zenon
    <3>2. tp[c] # p
      BY <3>1, <2>1, <1>2, <1>3, <1>6, OneUnsettled, Zenon
    <3>3. tp[c] \in Partitions
      BY <2>1, SentCreated, Zenon
    <3> QED
      BY <3>1, <3>2, <3>3, <1>1, <1>8, Zenon
  <2> QED
    BY <2>1, <2>2, Zenon DEF Stamped
<1>13. WrittenFirst'
  BY <1>1, <1>4, Zenon DEF WrittenFirst
<1>14. \A q \in Partitions : \A i \in 1 .. Len(log[q]) :
           /\ log[q][i].batch \in Batches /\ tp[log[q][i].batch] = q
           /\ q # p => log[q][i].batch # b
           /\ final[log[q][i].batch] = "SUCCEEDED" => final'[log[q][i].batch] = "SUCCEEDED"
           /\ q # p => final'[log[q][i].batch] = final[log[q][i].batch]
  <2> SUFFICES ASSUME NEW q \in Partitions, NEW i \in 1 .. Len(log[q])
               PROVE  /\ log[q][i].batch \in Batches /\ tp[log[q][i].batch] = q
                      /\ q # p => log[q][i].batch # b
                      /\ final[log[q][i].batch] = "SUCCEEDED" => final'[log[q][i].batch] = "SUCCEEDED"
                      /\ q # p => final'[log[q][i].batch] = final[log[q][i].batch]
    BY Zenon
  <2>1. log[q][i].batch \in Batches /\ tp[log[q][i].batch] = q
    BY LogEntry
  <2>2. q # p => log[q][i].batch # b
    BY <2>1, <1>2, Zenon
  <2> QED
    BY <2>1, <2>2, <1>4
<1>15. Gapless'
  <2> DEFINE G(q) == LET m == Len(log[q]) IN
        /\ \A i, j \in 1 .. m : i < j => log[q][i].seq + log[q][i].count <= log[q][j].seq
        /\ \A i \in 1 .. m : i # m => final[log[q][i].batch] = "SUCCEEDED"
        /\ m = 0 => SequenceNumber(q) = 0
        /\ m > 0 /\ final[log[q][m].batch] = "SUCCEEDED"
               => SequenceNumber(q) = log[q][m].seq + log[q][m].count
  <2>1. \A q \in Partitions : G(q)
    BY Zenon DEF Gapless
  <2> SUFFICES ASSUME NEW q \in Partitions PROVE G(q)'
    BY Zenon DEF Gapless
  <2>2. Len(log[q]) \in Nat
    BY DEF IInv, TypeOK
  <2>3. CASE q # p
    <3>1. SequenceNumber(q)' = SequenceNumber(q)
      BY <2>3, <1>8
    <3>2. Len(log[q]) > 0 => Len(log[q]) \in 1 .. Len(log[q])
      BY <2>2
    <3>3. \A i \in 1 .. Len(log[q]) : final'[log[q][i].batch] = final[log[q][i].batch]
      BY <2>3, <1>14, Zenon
    <3> QED
      BY <3>1, <3>2, <3>3, <2>1, <1>1, Zenon
  <2>4. CASE q = p
    <3> SUFFICES G(p)'
      BY <2>4, Zenon
    <3>1. log[p][n].seq = bseq[b] /\ log[p][n].count = count[b]
      BY <1>9, <1>10, LogEntry, Zenon
    <3>2. SequenceNumber(p)' = log[p][n].seq + log[p][n].count
      BY <3>1, <1>7, <1>8, Zenon
    <3>3. \A i \in 1 .. n : i # n => final'[log[p][i].batch] = "SUCCEEDED"
      <4>1. \A i \in 1 .. n : i # n => final[log[p][i].batch] = "SUCCEEDED"
        BY <2>1, <1>9, Zenon
      <4>2. \A i \in 1 .. n : final[log[p][i].batch] = "SUCCEEDED"
                             => final'[log[p][i].batch] = "SUCCEEDED"
        BY <1>9, <1>14, Zenon
      <4> QED
        BY <4>1, <4>2, Zenon
    <3>4. \A i, j \in 1 .. n : i < j => log[p][i].seq + log[p][i].count <= log[p][j].seq
      BY <2>1, <1>9, Zenon
    <3>5. log' = log /\ Len(log[p]) = n /\ n # 0
      BY <1>1, <1>9, <1>10, Zenon
    <3> QED
      BY <3>2, <3>3, <3>4, <3>5, Zenon
  <2> QED
    BY <2>3, <2>4, Zenon
<1> QED
  BY <1>11, <1>12, <1>13, <1>15, Zenon

\* Any other outcome is an error that is retried.
LEMMA RetriedExact ==
    ASSUME Forgiving, IInv, OInv, XInv, NEW b \in Batches, CompleteBatch(b), reply[b] # "ok"
    PROVE  Retried(b)
<1>1. b \in handling /\ b \in Pending
  BY Zenon DEF CompleteBatch, Pending
<1>2. reply[b] = "retriable" /\ attempts[b] < faults
  BY <1>1, Zenon DEF XInv, Smooth
<1>3. attempts[b] < Retries
  BY <1>2, ForgivingGuarantees DEF IInv, TypeOK
<1>4. final[b] = "none"
  BY CompleteBatchFacts, Zenon DEF XInv, Smooth, IInv, TypeOK, FinalStates
<1>5. ~HasReachedDeliveryTimeout(b)
  BY DEF XInv, Smooth, HasReachedDeliveryTimeout, Batches
<1>6. Match(b)
  BY <1>1, Zenon DEF XInv, Stamped, Sent, Match
<1> QED
  BY <1>2, <1>3, <1>4, <1>5, <1>6, Zenon DEF Retried, CanRetry

LEMMA ReenqueueExact ==
    ASSUME Forgiving, IInv, OInv, XInv, NEW b \in Batches, CompleteBatch(b),
           Retried(b), Reenqueue(b)
    PROVE  XInv'
<1> USE DEF XInv
<1>1. /\ UNCHANGED <<created, tp, count, bpid, bseq, zombies, log>>
      /\ Pending' = Pending \ {b} /\ b \in Pending
      /\ \A c \in Batches : reply'[c] = IF c = b THEN "none" ELSE reply[c]
      /\ \A c : Copied(c)' <=> Copied(c)
  BY CompleteBatchCopies, Zenon
<1>2. /\ UNCHANGED <<clock, now, expired, needsReset, faults, producerId, sequence, final>>
      /\ inFlight' = inFlight \ {b} /\ handling' = handling \ {b} /\ handling \subseteq Batches
  BY Zenon DEF CompleteBatch, Reenqueue, tmVars, IInv, TypeOK
<1>3. \A c \in Batches : /\ attempts'[c] = IF c = b THEN attempts[c] + 1 ELSE attempts[c]
                         /\ attempts[c] \in Nat
  BY Zenon DEF Reenqueue, IInv, TypeOK
<1>4. attempts[b] < faults /\ faults \in Nat
  BY DEF Smooth, Retried, IInv, TypeOK
<1>5. Smooth'
  BY <1>1, <1>2, <1>3, <1>4 DEF Smooth
<1>6. \A c \in Batches : Sent(c)' => Sent(c)
  BY <1>1, <1>3, Zenon DEF Sent
<1>7. Stamped' /\ Gapless' /\ WrittenFirst'
  BY <1>1, <1>2, <1>6, StampsKept, Zenon
<1> QED
  BY <1>1, <1>2, <1>5, <1>7, Zenon

=============================================================================
