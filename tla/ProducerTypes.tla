--------------------------- MODULE ProducerTypes ----------------------------
(***************************************************************************)
(* The inductive invariant of Producer, its first part: the type invariant *)
(* and what the outcome of a batch is, for every number of partitions,     *)
(* batches, retries and faults and for every setting of idempotence and    *)
(* ordering; and the steps that fill the deques.                           *)
(***************************************************************************)
EXTENDS ProducerInvariants, TLAPS

----------------------------------------------------------------------------
(* What the operations on a deque do to its elements *)

LEMMA SeqRange ==
    ASSUME NEW S, NEW s \in Seq(S)
    PROVE  /\ \A x : x \in Range(s) <=> \E i \in 1 .. Len(s) : s[i] = x
           /\ Range(s) \subseteq S
           /\ IsInjective(s) <=> \A i, j \in 1 .. Len(s) : s[i] = s[j] => i = j
BY DEF Range, IsInjective

LEMMA TailRange ==
    ASSUME NEW S, NEW s \in Seq(S), s # << >>
    PROVE  /\ Tail(s) \in Seq(S) /\ Head(s) \in S /\ Head(s) \in Range(s)
           /\ Range(Tail(s)) \subseteq Range(s)
           /\ Range(s) = Range(Tail(s)) \cup {Head(s)}
           /\ IsInjective(s) => IsInjective(Tail(s)) /\ Head(s) \notin Range(Tail(s))
<1> DEFINE t == Tail(s)
<1>1. /\ t \in Seq(S) /\ Len(t) = Len(s) - 1 /\ Len(s) \in Nat \ {0}
      /\ \A i \in 1 .. Len(s) - 1 : t[i] = s[i + 1]
      /\ Head(s) = s[1] /\ Head(s) \in S
  OBVIOUS
<1> HIDE DEF t
<1>2. \A x : x \in Range(t) <=> \E i \in 1 .. Len(s) - 1 : s[i + 1] = x
  <2>1. \A x : x \in Range(t) <=> \E i \in 1 .. Len(t) : t[i] = x
    BY <1>1, SeqRange
  <2> QED
    BY <1>1, <2>1, Zenon
<1>3. \A x : x \in Range(s) <=> \E i \in 1 .. Len(s) : s[i] = x
  BY SeqRange
<1>4. Head(s) \in Range(s)
  BY <1>1, <1>3
<1>5. Range(t) \subseteq Range(s)
  BY <1>1, <1>2, <1>3
<1>6. Range(s) \subseteq Range(t) \cup {Head(s)}
  <2> SUFFICES ASSUME NEW x \in Range(s), x # Head(s) PROVE x \in Range(t)
    OBVIOUS
  <2>1. PICK i \in 1 .. Len(s) : s[i] = x
    BY <1>3
  <2>2. i # 1 /\ i - 1 \in 1 .. Len(s) - 1 /\ s[(i - 1) + 1] = x
    BY <1>1, <2>1
  <2> QED
    BY <1>2, <2>2, Zenon
<1>7. ASSUME IsInjective(s) PROVE IsInjective(t) /\ Head(s) \notin Range(t)
  <2>1. \A i, j \in 1 .. Len(s) : s[i] = s[j] => i = j
    BY <1>7, SeqRange
  <2>2. \A i, j \in 1 .. Len(t) : t[i] = t[j] => i = j
    BY <1>1, <2>1
  <2>3. IsInjective(t)
    BY <1>1, <2>2, SeqRange, Zenon
  <2>4. \A i \in 1 .. Len(s) - 1 : s[i + 1] # s[1]
    BY <1>1, <2>1
  <2> QED
    BY <1>1, <1>2, <2>3, <2>4
<1> QED
  BY <1>1, <1>4, <1>5, <1>6, <1>7 DEF t

LEMMA AppendRange ==
    ASSUME NEW S, NEW s \in Seq(S), NEW x \in S
    PROVE  /\ Append(s, x) \in Seq(S)
           /\ Range(Append(s, x)) = Range(s) \cup {x}
           /\ IsInjective(s) /\ x \notin Range(s) => IsInjective(Append(s, x))
<1> DEFINE c == Append(s, x)
<1>1. /\ c \in Seq(S) /\ Len(c) = Len(s) + 1 /\ Len(s) \in Nat
      /\ \A i \in 1 .. Len(s) : c[i] = s[i]
      /\ c[Len(s) + 1] = x
  OBVIOUS
<1> HIDE DEF c
<1>2. \A y : y \in Range(c) <=> \E i \in 1 .. Len(s) + 1 : c[i] = y
  BY <1>1, SeqRange
<1>3. \A y : y \in Range(s) <=> \E i \in 1 .. Len(s) : s[i] = y
  BY SeqRange
<1>4. Range(c) = Range(s) \cup {x}
  BY <1>1, <1>2, <1>3
<1>5. ASSUME IsInjective(s), x \notin Range(s) PROVE IsInjective(c)
  <2>1. \A i, j \in 1 .. Len(s) : s[i] = s[j] => i = j
    BY <1>5, SeqRange
  <2>2. \A i, j \in 1 .. Len(c) : c[i] = c[j] => i = j
    BY <1>1, <1>3, <1>5, <2>1
  <2> QED
    BY <1>1, <2>2, SeqRange
<1> QED
  BY <1>1, <1>4, <1>5 DEF c

LEMMA ConsRange ==
    ASSUME NEW S, NEW s \in Seq(S), NEW x \in S
    PROVE  /\ <<x>> \o s \in Seq(S)
           /\ Range(<<x>> \o s) = Range(s) \cup {x}
           /\ IsInjective(s) /\ x \notin Range(s) => IsInjective(<<x>> \o s)
<1> DEFINE c == <<x>> \o s
<1>1. /\ c \in Seq(S) /\ Len(c) = Len(s) + 1 /\ Len(s) \in Nat
      /\ \A i \in 1 .. Len(s) : c[i + 1] = s[i]
      /\ c[1] = x
  OBVIOUS
<1> HIDE DEF c
<1>2. \A y : y \in Range(c) <=> \E i \in 1 .. Len(s) + 1 : c[i] = y
  BY <1>1, SeqRange
<1>3. \A y : y \in Range(s) <=> \E i \in 1 .. Len(s) : s[i] = y
  BY SeqRange
<1>4. \A i \in 2 .. Len(s) + 1 : i - 1 \in 1 .. Len(s) /\ c[i] = s[i - 1]
  BY <1>1
<1>5. Range(c) = Range(s) \cup {x}
  <2>1. Range(c) \subseteq Range(s) \cup {x}
    <3> SUFFICES ASSUME NEW y \in Range(c), y # x PROVE y \in Range(s)
      OBVIOUS
    <3>1. PICK i \in 1 .. Len(s) + 1 : c[i] = y
      BY <1>2, Zenon
    <3>2. i \in 2 .. Len(s) + 1
      BY <1>1, <3>1
    <3> QED
      BY <1>3, <1>4, <3>1, <3>2, Zenon
  <2>2. Range(s) \cup {x} \subseteq Range(c)
    <3>1. 1 \in 1 .. Len(s) + 1 /\ \A i \in 1 .. Len(s) : i + 1 \in 1 .. Len(s) + 1
      BY <1>1
    <3> QED
      BY <1>1, <1>2, <1>3, <3>1, Zenon
  <2> QED
    BY <2>1, <2>2
<1>6. ASSUME IsInjective(s), x \notin Range(s) PROVE IsInjective(c)
  <2>1. \A i, j \in 1 .. Len(s) : s[i] = s[j] => i = j
    BY <1>6, SeqRange
  <2>2. \A i \in 2 .. Len(s) + 1 : c[i] # c[1]
    BY <1>1, <1>3, <1>4, <1>6, Zenon
  <2>3. \A i, j \in 2 .. Len(s) + 1 : c[i] = c[j] => i = j
    BY <1>4, <2>1
  <2>4. \A i, j \in 1 .. Len(c) : c[i] = c[j] => i = j
    BY <1>1, <2>2, <2>3
  <2> QED
    BY <1>1, <2>4, SeqRange
<1> QED
  BY <1>1, <1>5, <1>6 DEF c

----------------------------------------------------------------------------
(* Type correctness *)

LEMMA InitTypeOK == Init => TypeOK
<1> SUFFICES ASSUME Init PROVE TypeOK
  OBVIOUS
<1> USE DEF Init
<1>1. 0 \in 0 .. MaxBatches /\ 0 \in 0 .. MaxFaults /\ 0 \in 0 .. BatchSize
  BY ConfigAssumption
<1>2. NoSeq \in Int /\ NoPid \in Nat /\ "none" \in FinalStates /\ "none" \in Replies
  BY DEF NoSeq, NoPid, FinalStates, Replies
<1>3. << >> \in Seq(Batches) /\ << >> \in Seq(Copies)
  OBVIOUS
<1>4. /\ created \in 0 .. MaxBatches /\ now \in 0 .. MaxBatches /\ clock \in 0 .. MaxBatches
      /\ faults \in 0 .. MaxFaults /\ lastPid \in Nat /\ producerId \in Nat
  BY <1>1, <1>2
<1>5. /\ tp \in [Batches -> Partitions \cup {NoPartition}] /\ count \in [Batches -> 0 .. BatchSize]
      /\ attempts \in [Batches -> Nat] /\ final \in [Batches -> FinalStates]
      /\ bpid \in [Batches -> Nat] /\ bseq \in [Batches -> Int]
      /\ reply \in [Batches -> Replies]
  BY <1>1, <1>2
<1>6. /\ batches \in [Partitions -> Seq(Batches)] /\ log \in [Partitions -> Seq(Copies)]
      /\ sequence \in [Partitions -> Int]
  BY <1>2, <1>3
<1> QED
  BY <1>4, <1>5, <1>6, Zenon DEF TypeOK

LEMMA FailBatchFrame ==
    ASSUME TypeOK, NEW b \in Batches, NEW error, FailBatch(b, error)
    PROVE  /\ fatal' \in BOOLEAN /\ final' \in [Batches -> FinalStates]
           /\ inFlight' \subseteq Batches /\ incomplete' \subseteq Batches
<1>1. fatal' \in BOOLEAN
  BY DEF FailBatch
<1>2. "FAILED" \in FinalStates /\ final \in [Batches -> FinalStates]
  BY DEF FinalStates, TypeOK
<1>3. final' \in [Batches -> FinalStates]
  BY <1>2 DEF FailBatch, FinalAfter
<1>4. inFlight' \subseteq Batches /\ incomplete' \subseteq Batches
  BY Zenon DEF FailBatch, Release, TypeOK
<1> QED
  BY <1>1, <1>3, <1>4

LEMMA FailBatchTypes ==
    ASSUME TypeOK, NEW b \in Batches, NEW error, FailBatch(b, error)
    PROVE  /\ producerId' \in Nat /\ sequence' \in [Partitions -> Int] /\ fatal' \in BOOLEAN
           /\ final' \in [Batches -> FinalStates]
           /\ inFlight' \subseteq Batches /\ incomplete' \subseteq Batches
<1>1. CASE FailResets(b, error)
  <2>1. producerId' = NoPid /\ sequence' = [p \in Partitions |-> NoSeq]
    BY <1>1 DEF FailBatch
  <2> QED
    BY <2>1, FailBatchFrame DEF NoPid, NoSeq
<1>2. CASE ~FailResets(b, error)
  <2>1. producerId' = producerId /\ sequence' = sequence
    BY <1>2 DEF FailBatch
  <2> QED
    BY <2>1, FailBatchFrame, Zenon DEF TypeOK
<1> QED
  BY <1>1, <1>2

LEMMA ConfigNumbers ==
    /\ MaxBatches \in Nat /\ MaxFaults \in Nat /\ BatchSize \in Nat /\ 1 \in 0 .. BatchSize
    /\ ErrorKinds \subseteq Replies
BY ConfigAssumption DEF Replies

LEMMA QueueTypes ==
    ASSUME TypeOK, NEW p \in Partitions, batches[p] # << >>
    PROVE  /\ Head(batches[p]) \in Batches /\ Head(batches[p]) \in Queued(p)
           /\ Tail(batches[p]) \in Seq(Batches)
           /\ batches[p][Len(batches[p])] \in Batches
<1>1. batches[p] \in Seq(Batches)
  BY DEF TypeOK
<1> QED
  BY <1>1, TailRange DEF Queued

\* ConsRange for a batch that goes back to the front of its queue
LEMMA ConsBatch ==
    \A s \in Seq(Batches), b \in Batches :
        /\ Range(<<b>> \o s) = Range(s) \cup {b}
        /\ IsInjective(s) /\ b \notin Range(s) => IsInjective(<<b>> \o s)
<1> SUFFICES ASSUME NEW s \in Seq(Batches), NEW b \in Batches
             PROVE  /\ Range(<<b>> \o s) = Range(s) \cup {b}
                    /\ IsInjective(s) /\ b \notin Range(s) => IsInjective(<<b>> \o s)
  BY Zenon
<1> QED
  BY ConsRange

\* What the broker's append does to a log
LEMMA AppendEntries ==
    \A s \in Seq(Copies), z \in Copies :
        /\ Len(Append(s, z)) = Len(s) + 1 /\ Append(s, z)[Len(s) + 1] = z
        /\ \A i \in 1 .. Len(s) : Append(s, z)[i] = s[i]
OBVIOUS

LEMMA LogLength == \A s \in Seq(Copies) : Len(s) \in Nat
OBVIOUS

LEMMA EarlierIndex ==
    \A n \in Nat : /\ n + 1 # 0
                   /\ \A i \in 1 .. n + 1 : i # n + 1 => i \in 1 .. n
                   /\ \A i, j \in 1 .. n + 1 : i < j => i \in 1 .. n
OBVIOUS

LEMMA SequenceIsNumber == \A m \in Int : m # NoSeq /\ m >= NoSeq => m \in Nat /\ m >= 0
  BY DEF NoSeq

LEMMA AppendTypeOK ==
    ASSUME TypeOK, NEW p \in Partitions, AppendToBatch(p) \/ AppendNewBatch(p)
    PROVE  TypeOK'
<1>1. CASE AppendToBatch(p)
  <2> DEFINE last == batches[p][Len(batches[p])]
  <2>1. last \in Batches /\ count[last] < BatchSize
    BY <1>1, QueueTypes DEF AppendToBatch, HasOpenBatch, TryAppend
  <2>2. count[last] + 1 \in 0 .. BatchSize
    <3>1. count[last] \in 0 .. BatchSize
      BY <2>1, Zenon DEF TypeOK
    <3>2. \A m \in 0 .. BatchSize : m < BatchSize => m + 1 \in 0 .. BatchSize
      BY ConfigNumbers
    <3> QED
      BY <2>1, <3>1, <3>2, Zenon
  <2>3. count' = [count EXCEPT ![last] = @ + 1]
    BY <1>1 DEF AppendToBatch
  <2>4. count' \in [Batches -> 0 .. BatchSize]
    BY <2>1, <2>2, <2>3 DEF TypeOK
  <2> QED
    BY <1>1, <2>4, Zenon DEF AppendToBatch, TypeOK, accVars, senderVars, tmVars, envVars
<1>2. CASE AppendNewBatch(p)
  <2>1. created + 1 \in Batches /\ created' \in 0 .. MaxBatches
    BY <1>2, ConfigNumbers DEF AppendNewBatch, Batches, TypeOK
  <2>2. batches' \in [Partitions -> Seq(Batches)]
    <3>1. Append(batches[p], created + 1) \in Seq(Batches)
      BY <2>1 DEF TypeOK
    <3> QED
      BY <3>1, <1>2 DEF AppendNewBatch, TypeOK
  <2>3. /\ tp' \in [Batches -> Partitions \cup {NoPartition}]
        /\ count' \in [Batches -> 0 .. BatchSize] /\ incomplete' \subseteq Batches
    BY <1>2, <2>1, ConfigNumbers, Zenon DEF AppendNewBatch, TypeOK
  <2> QED
    BY <1>2, <2>1, <2>2, <2>3, Zenon DEF AppendNewBatch, TypeOK, senderVars, tmVars, envVars
<1> QED
  BY <1>1, <1>2

LEMMA DrainTypeOK ==
    ASSUME TypeOK, Placed, NEW P \in SUBSET Partitions, Drain(P)
    PROVE  TypeOK'
<1>1. \A p \in P : Head(batches[p]) \in Batches /\ Tail(batches[p]) \in Seq(Batches)
  BY QueueTypes DEF Drain, Drainable
<1>2. batches' \in [Partitions -> Seq(Batches)]
  BY <1>1 DEF Drain, TypeOK
<1>3. \A p \in Partitions : SequenceNumber(p) \in Int
  BY DEF SequenceNumber, TypeOK
<1>4. sequence' \in [Partitions -> Int]
  <2>1. \A p \in Partitions : sequence[p] \in Int
    BY Zenon DEF TypeOK
  <2>2. PICK T : sequence' = [p \in Partitions |->
                                 IF \E b \in T : tp[b] = p THEN SequenceNumber(p) ELSE sequence[p]]
    BY Zenon DEF Drain
  <2> QED
    BY <1>3, <2>1, <2>2, Zenon
<1>5. \A p \in P : tp[Head(batches[p])] = p
  BY QueueTypes DEF Placed, Drain, Drainable
<1>6. bpid' \in [Batches -> Nat] /\ bseq' \in [Batches -> Int]
  <2>1. producerId \in Nat /\ \A b \in Batches : bpid[b] \in Nat /\ bseq[b] \in Int
    BY Zenon DEF TypeOK
  <2> DEFINE stamped == {b \in {Head(batches[p]) : p \in P} : SetsProducerState(b)}
  <2>2. \A b \in stamped : SequenceNumber(tp[b]) \in Int
    BY <1>3, <1>5, Zenon
  <2>3. /\ bpid' = [b \in Batches |-> IF b \in stamped THEN producerId ELSE bpid[b]]
        /\ bseq' = [b \in Batches |-> IF b \in stamped THEN SequenceNumber(tp[b]) ELSE bseq[b]]
    BY Zenon DEF Drain
  <2> HIDE DEF stamped
  <2> QED
    BY <2>1, <2>2, <2>3, Zenon
<1>7. inFlight' \subseteq Batches /\ drained' \subseteq Batches
  <2>1. {Head(batches[p]) : p \in P} \subseteq Batches
    BY <1>1
  <2>2. drained' = {Head(batches[p]) : p \in P} /\ inFlight' = inFlight \cup drained'
    BY Zenon DEF Drain
  <2> QED
    BY <2>1, <2>2 DEF TypeOK
<1>8. muted' \subseteq Partitions
  BY DEF Drain, TypeOK
<1> QED
  BY <1>2, <1>4, <1>6, <1>7, <1>8, Zenon DEF Drain, TypeOK, envVars

LEMMA ExpireTypeOK ==
    ASSUME TypeOK,
           \/ \E p \in Partitions : ExpireQueued(p)
           \/ ExpireInFlight
           \/ \E b \in Batches : FailExpired(b)
    PROVE  TypeOK'
<1>1. ASSUME NEW p \in Partitions, ExpireQueued(p) PROVE TypeOK'
  <2>1. Head(batches[p]) \in Batches /\ Tail(batches[p]) \in Seq(Batches)
    BY <1>1, QueueTypes DEF ExpireQueued
  <2>2. batches' \in [Partitions -> Seq(Batches)] /\ expired' \subseteq Batches
    BY <1>1, <2>1, Zenon DEF ExpireQueued, TypeOK
  <2>3. needsReset' \in BOOLEAN
    BY <1>1, Zenon DEF ExpireQueued
  <2> QED
    BY <1>1, <2>2, <2>3, Zenon DEF ExpireQueued, TypeOK, batchVars, tmVars, envVars
<1>2. CASE ExpireInFlight
  <2>1. needsReset' \in BOOLEAN /\ raised' \in BOOLEAN
    BY <1>2, Zenon DEF ExpireInFlight
  <2> QED
    BY <1>2, <2>1, ConfigNumbers DEF ExpireInFlight, TypeOK, batchVars, accVars, tmVars, envVars
<1>3. ASSUME NEW b \in Batches, FailExpired(b) PROVE TypeOK'
  <2>1. raised' \in BOOLEAN
    BY <1>3 DEF FailExpired
  <2> QED
    BY <1>3, <2>1, FailBatchTypes, Zenon DEF FailExpired, TypeOK, envVars
<1> QED
  BY <1>1, <1>2, <1>3

LEMMA CompleteBatchTypeOK ==
    ASSUME TypeOK, Placed, NEW b \in Batches, CompleteBatch(b)
    PROVE  TypeOK'
<1>1. tp[b] \in Partitions
  BY DEF Placed, Pending, CompleteBatch, TypeOK, Batches
<1>2. raised' \in BOOLEAN /\ muted' \subseteq Partitions /\ handling' \subseteq Batches
  BY DEF CompleteBatch, TypeOK, Unmute
<1>3. reply' \in [Batches -> Replies]
  BY DEF CompleteBatch, TypeOK, Replies
<1>4. /\ producerId' \in Nat /\ sequence' \in [Partitions -> Int] /\ fatal' \in BOOLEAN
      /\ final' \in [Batches -> FinalStates]
      /\ inFlight' \subseteq Batches /\ incomplete' \subseteq Batches
      /\ attempts' \in [Batches -> Nat] /\ batches' \in [Partitions -> Seq(Batches)]
  <2>1. CASE reply[b] = "ok" /\ Succeed(b)
    <3>1. final' \in [Batches -> FinalStates] /\ inFlight' \subseteq Batches /\ incomplete' \subseteq Batches
      BY <2>1, Zenon DEF Succeed, FinalAfter, Release, TypeOK, FinalStates
    <3>2. sequence' \in [Partitions -> Int]
      BY <2>1, <1>1, ConfigNumbers DEF Succeed, TypeOK
    <3> QED
      BY <2>1, <3>1, <3>2, Zenon DEF Succeed, TypeOK
  <2>2. CASE Reenqueue(b)
    <3>1. <<b>> \o batches[tp[b]] \in Seq(Batches)
      BY <1>1 DEF TypeOK
    <3> QED
      <4>1. batches' \in [Partitions -> Seq(Batches)]
        BY <2>2, <3>1, Zenon DEF Reenqueue, TypeOK
      <4>2. attempts' \in [Batches -> Nat]
        BY <2>2 DEF Reenqueue, TypeOK
      <4> QED
        BY <2>2, <4>1, <4>2, Zenon DEF Reenqueue, TypeOK, tmVars
  <2>3. CASE FailBatch(b, reply[b]) /\ UNCHANGED <<attempts, batches>>
    BY <2>3, FailBatchTypes, Zenon DEF TypeOK
  <2> QED
    BY <2>1, <2>2, <2>3 DEF CompleteBatch
<1> QED
  BY <1>2, <1>3, <1>4, Zenon DEF CompleteBatch, TypeOK

LEMMA CopyType ==
    ASSUME TypeOK, Placed, NEW b \in Batches, b <= created
    PROVE  Copy(b) \in Copies
<1>1. tp[b] \in Partitions
  BY DEF Placed, TypeOK, Batches
<1>2. count[b] \in Nat /\ bpid[b] \in Nat /\ bseq[b] \in Int
  BY ConfigNumbers DEF TypeOK
<1> QED
  BY <1>1, <1>2 DEF Copy, Copies

LEMMA BrokerTypeOK ==
    ASSUME TypeOK, NEW z \in Copies, NEW l, l = LogAfter(z)
    PROVE  l \in [Partitions -> Seq(Copies)]
<1>1. z.tp \in Partitions
  BY DEF Copies
<1>2. Append(log[z.tp], z) \in Seq(Copies)
  BY <1>1 DEF TypeOK
<1> QED
  BY <1>1, <1>2 DEF LogAfter, TypeOK

LEMMA NextTypeOK == TypeOK /\ Placed /\ [Next]_vars => TypeOK'
<1> SUFFICES ASSUME TypeOK, Placed, [Next]_vars PROVE TypeOK'
  OBVIOUS
<1> USE DEF batchVars, accVars, senderVars, tmVars, envVars
<1>1. ASSUME NEW p \in Partitions, AppendToBatch(p) \/ AppendNewBatch(p) PROVE TypeOK'
  BY <1>1, AppendTypeOK, Zenon
<1>2. CASE Tick
  BY <1>2, ConfigNumbers DEF Tick, TypeOK
<1>3. CASE InitProducerId
  BY <1>3 DEF InitProducerId, TypeOK
<1>4. CASE InitProducerIdFails
  BY <1>4, ConfigNumbers DEF InitProducerIdFails, AfterFatal, TypeOK
<1>5. CASE RunOnceFatal
  BY <1>5, Zenon DEF RunOnceFatal, AfterFatal, TypeOK
<1>6. ASSUME NEW P \in SUBSET Partitions, Drain(P) PROVE TypeOK'
  BY <1>6, DrainTypeOK
<1>7. CASE (\E p \in Partitions : ExpireQueued(p)) \/ ExpireInFlight \/ \E b \in Batches : FailExpired(b)
  BY <1>7, ExpireTypeOK
<1>8. CASE ResetProducerId
  <2>1. sequence' \in [Partitions -> Int] /\ producerId' \in Nat
    BY <1>8 DEF ResetProducerId, NoSeq, NoPid
  <2> QED
    BY <1>8, <2>1, Zenon DEF ResetProducerId, TypeOK
<1>9. ASSUME NEW leader, Send(leader) PROVE TypeOK'
  BY <1>9 DEF Send, TypeOK
<1>10. ASSUME NEW b \in Batches, CompleteBatch(b) PROVE TypeOK'
  BY <1>10, CompleteBatchTypeOK
<1>11. CASE EndPoll
  BY <1>11, Zenon DEF EndPoll, TypeOK
<1>12. ASSUME NEW R \in requests, Response(R) PROVE TypeOK'
  BY <1>12, Zenon DEF Response, TypeOK
<1>13. ASSUME NEW R \in requests, FailedProduce(R) PROVE TypeOK'
  <2>1. \A b \in R : b \in Batches /\ b <= created
    BY DEF Placed, Pending, TypeOK
  <2>2. \A b \in R : Copy(b) \in Copies
    BY <2>1, CopyType, Zenon
  <2>3. zombies' \subseteq Copies
    BY <1>13, <2>2 DEF FailedProduce, TypeOK
  <2> QED
    BY <1>13, <2>3, ConfigNumbers DEF FailedProduce, TypeOK, Replies, AllErrors
<1>14. ASSUME NEW b \in Batches, BrokerAppend(b) PROVE TypeOK'
  <2>1. b <= created
    BY <1>14 DEF BrokerAppend, Placed, Pending
  <2>2. log' \in [Partitions -> Seq(Copies)]
    BY <1>14, <2>1, CopyType, BrokerTypeOK, Zenon DEF BrokerAppend
  <2>3. reply' \in [Batches -> Replies]
    BY <1>14, Zenon DEF BrokerAppend, TypeOK, Replies
  <2> QED
    BY <1>14, <2>2, <2>3, Zenon DEF BrokerAppend, TypeOK
<1>15. ASSUME NEW z \in zombies, BrokerAppendLate(z) PROVE TypeOK'
  <2>1. z \in Copies
    BY DEF TypeOK
  <2>2. log' \in [Partitions -> Seq(Copies)]
    BY <1>15, <2>1, BrokerTypeOK, Zenon DEF BrokerAppendLate
  <2> QED
    BY <1>15, <2>2, Zenon DEF BrokerAppendLate, TypeOK
<1>16. ASSUME NEW b \in Batches, NEW e \in ErrorKinds, BrokerRefuse(b, e) PROVE TypeOK'
  <2>1. e \in Replies
    BY ConfigNumbers
  <2> QED
    BY <1>16, <2>1, ConfigNumbers DEF BrokerRefuse, TypeOK
<1>17. CASE UNCHANGED vars
  BY <1>17, Zenon DEF vars, TypeOK
<1> QED
  BY <1>1, <1>2, <1>3, <1>4, <1>5, <1>6, <1>7, <1>8, <1>9, <1>10, <1>11, <1>12, <1>13,
     <1>14, <1>15, <1>16, <1>17 DEF Next, RunOnce, Network

----------------------------------------------------------------------------
(* The outcome of a batch *)

\* What _complete_batch may rely on: the batch belongs to its partition, which
\* is muted if the order is guaranteed, and it was not acknowledged before.  If
\* its future is not completed it is in the in-flight heap and nowhere else.
LEMMA CompleteBatchFacts ==
    ASSUME IInv, NEW b \in Batches, CompleteBatch(b)
    PROVE  /\ b \in Pending /\ b <= created /\ tp[b] \in Partitions
           /\ pc \in {"loop", "poll"} /\ drained = {} /\ expired = {} /\ ~needsReset
           /\ \A q \in Partitions : b \notin Queued(q)
           /\ b \notin UNION requests
           /\ final[b] # "SUCCEEDED"
           /\ final[b] = "none" => b \in incomplete /\ b \in inFlight
           /\ final[b] # "none" => b \notin incomplete /\ b \notin inFlight
           /\ ~CompleteBatchRaises(b)
<1> USE DEF IInv
<1>1. b \in handling /\ b \in Pending
  BY DEF CompleteBatch, Pending
<1>2. pc \in {"loop", "poll"}
  BY <1>1 DEF Phases, TypeOK
<1>3. drained = {} /\ expired = {} /\ ~needsReset
  BY <1>2 DEF Phases
<1>4. b <= created /\ tp[b] \in Partitions
  BY <1>1 DEF Placed, Batches
<1>5. (\A q \in Partitions : b \notin Queued(q)) /\ b \notin UNION requests
  BY <1>1 DEF Separate
<1>6. final[b] # "SUCCEEDED"
  BY <1>1, Zenon DEF SucceededIsSettled
<1>7. /\ final[b] = "none" => b \in incomplete /\ b \in inFlight
      /\ final[b] # "none" => b \notin incomplete /\ b \notin inFlight
  BY <1>3, <1>4, <1>5 DEF NothingLost
<1>8. ~CompleteBatchRaises(b)
  <2>1. GuaranteeOrder => tp[b] \in muted
    BY <1>1 DEF OneInFlight
  <2>2. Idempotent /\ Match(b) => sequence[tp[b]] # NoSeq
    BY <1>1 DEF Sequenced, Match
  <2> QED
    BY <2>1, <2>2, <1>6 DEF CompleteBatchRaises, DoneRaises
<1> QED
  BY <1>1, <1>2, <1>3, <1>4, <1>5, <1>6, <1>7, <1>8

LEMMA CompleteBatchFrame ==
    ASSUME IInv, NEW b \in Batches, CompleteBatch(b)
    PROVE  /\ Phases' /\ NeverRaises' /\ OneInFlight'
           /\ Pending' = Pending \ {b}
           /\ UNCHANGED <<created, tp, bpid, pc, drained, expired, needsReset, requests, lastPid>>
           /\ drained' = {} /\ expired' = {}
<1> USE DEF IInv
<1>1. /\ UNCHANGED <<created, tp, bpid, pc, drained, expired, needsReset, requests, lastPid>>
      /\ raised' = (raised \/ CompleteBatchRaises(b)) /\ handling' = handling \ {b}
      /\ muted' = IF GuaranteeOrder THEN muted \ {tp[b]} ELSE muted
  BY DEF CompleteBatch, Unmute
<1>2. b \in Pending /\ b \notin UNION requests /\ drained = {} /\ expired = {} /\ ~CompleteBatchRaises(b)
      /\ pc \in {"loop", "poll"}
  BY CompleteBatchFacts
<1>3. Pending' = Pending \ {b}
  BY <1>1, <1>2 DEF Pending
<1>4. Phases' /\ NeverRaises'
  BY <1>1, <1>2, Zenon DEF Phases, NeverRaises
<1>5. OneInFlight'
  BY <1>1, <1>2, <1>3 DEF OneInFlight
<1> QED
  BY <1>1, <1>2, <1>3, <1>4, <1>5, Zenon

----------------------------------------------------------------------------
(* Copies of batches, in the logs and under way *)

LEMMA WrittenCopies ==
    ASSUME TypeOK, NEW p \in Partitions
    PROVE  /\ Written(p) \subseteq Batches
           /\ \A b : b \in Written(p) <=> \E z \in Range(log[p]) : z.batch = b
           /\ \A b \in Written(p) : Copied(b)
           /\ Range(log[p]) \subseteq Copies
<1>1. log[p] \in Seq(Copies)
  BY DEF TypeOK
<1>2. \A z : z \in Range(log[p]) <=> \E i \in 1 .. Len(log[p]) : log[p][i] = z
  BY <1>1, SeqRange
<1>3. Range(log[p]) \subseteq Copies
  BY <1>1, SeqRange
<1>4. \A b : b \in Written(p) <=> \E z \in Range(log[p]) : z.batch = b
  BY <1>2 DEF Written
<1>5. Written(p) \subseteq Batches
  BY <1>3, <1>4 DEF Copies
<1>6. \A b \in Written(p) : Copied(b)
  BY <1>3, <1>4 DEF Copied, IsCopy
<1> QED
  BY <1>3, <1>4, <1>5, <1>6

\* What the broker's log gains when it handles the copy z of a batch.
LEMMA LogAfterCopy ==
    ASSUME TypeOK, NEW z \in Copies, log' = LogAfter(z), zombies' \subseteq zombies
    PROVE  LET p == z.tp  n == Len(log[p]) IN
           /\ p \in Partitions /\ log[p] \in Seq(Copies) /\ n \in Nat
           /\ Accepts(z) => /\ Len(log'[p]) = n + 1 /\ log'[p][n + 1] = z
                            /\ \A i \in 1 .. n : log'[p][i] = log[p][i]
           /\ \A q \in Partitions : q # p \/ ~Accepts(z) => log'[q] = log[q]
           /\ \A q \in Partitions : /\ Range(log[q]) \subseteq Range(log'[q])
                                    /\ Range(log'[q]) \subseteq Range(log[q]) \cup {z}
                                    /\ q # p => Range(log'[q]) = Range(log[q])
           /\ \A b : Copied(b)' => Copied(b) \/ b = z.batch
           /\ \A c : IsCopy(c)' => IsCopy(c) \/ c = z
           /\ \A q \in Partitions : \A b : b \in Written(q)' <=>
                  b \in Written(q) \/ (q = p /\ Accepts(z) /\ b = z.batch)
<1> DEFINE p == z.tp
           n == Len(log[p])
           longer == Append(log[p], z)
<1>1. p \in Partitions
  BY DEF Copies
<1>2. log[p] \in Seq(Copies) /\ n \in Nat
  BY <1>1 DEF TypeOK
<1>3. Len(longer) = n + 1 /\ longer[n + 1] = z /\ \A i \in 1 .. n : longer[i] = log[p][i]
  BY <1>2
<1>4. Range(longer) = Range(log[p]) \cup {z}
  BY <1>2, AppendRange
<1>5. /\ Accepts(z) => log'[p] = longer
      /\ \A q \in Partitions : q # p \/ ~Accepts(z) => log'[q] = log[q]
  BY <1>1, Zenon DEF LogAfter, TypeOK
<1> HIDE DEF longer, p, n
<1>6. \A q \in Partitions : /\ Range(log[q]) \subseteq Range(log'[q])
                            /\ Range(log'[q]) \subseteq Range(log[q]) \cup {z}
                            /\ q # p => Range(log'[q]) = Range(log[q])
  BY <1>4, <1>5, Zenon
<1>7. \A c : IsCopy(c)' => IsCopy(c) \/ c = z
  BY <1>6 DEF IsCopy
<1>8. \A b : Copied(b)' => Copied(b) \/ b = z.batch
  BY <1>7 DEF Copied
<1>9. ASSUME Accepts(z), NEW b PROVE b \in Written(p)' <=> b \in Written(p) \/ b = z.batch
  <2>1. n + 1 \in 1 .. n + 1 /\ \A i \in 1 .. n + 1 : i \in 1 .. n \/ i = n + 1
    BY <1>2
  <2>2. \A i \in 1 .. n : i \in 1 .. n + 1
    BY <1>2
  <2>3. Len(log'[p]) = n + 1 /\ log'[p][n + 1] = z /\ \A i \in 1 .. n : log'[p][i] = log[p][i]
    BY <1>3, <1>5, <1>9, Zenon
  <2>4. /\ \A i \in 1 .. n + 1 : log'[p][i].batch = b
                => (\E j \in 1 .. n : log[p][j].batch = b) \/ b = z.batch
        /\ \A i \in 1 .. n : log[p][i].batch = b => log'[p][i].batch = b
        /\ b = z.batch => log'[p][n + 1].batch = b
    BY <2>1, <2>3, Zenon
  <2> HIDE DEF n
  <2>5. /\ b \in Written(p)' <=> \E i \in 1 .. n + 1 : log'[p][i].batch = b
        /\ b \in Written(p) <=> \E i \in 1 .. n : log[p][i].batch = b
    BY <2>3, Zenon DEF Written, n
  <2> QED
    BY <2>1, <2>2, <2>4, <2>5, Zenon
<1>10. \A q \in Partitions : q # p \/ ~Accepts(z) => Written(q)' = Written(q)
  BY <1>5 DEF Written
<1> QED
  BY <1>1, <1>2, <1>3, <1>5, <1>6, <1>7, <1>8, <1>9, <1>10, Zenon DEF p, n

\* What a step that leaves log and zombies alone does not change.
LEMMA SameCopies ==
    ASSUME UNCHANGED <<zombies, log>>
    PROVE  /\ \A z : IsCopy(z)' <=> IsCopy(z)
           /\ \A b : Copied(b)' <=> Copied(b)
           /\ \A p : Written(p)' = Written(p)
           /\ NoDuplicates' <=> NoDuplicates
<1>1. \A z : IsCopy(z)' <=> IsCopy(z)
  BY DEF IsCopy
<1>2. \A b : Copied(b)' <=> Copied(b)
  BY <1>1 DEF Copied
<1>3. \A p : Written(p)' = Written(p)
  BY DEF Written
<1>4. NoDuplicates' <=> NoDuplicates
  BY Zenon DEF NoDuplicates
<1> QED
  BY <1>1, <1>2, <1>3, <1>4

\* A batch whose header and partition stay as they are.
LEMMA SameCopy ==
    ASSUME NEW b, tp'[b] = tp[b], count'[b] = count[b], bpid'[b] = bpid[b], bseq'[b] = bseq[b]
    PROVE  Copy(b)' = Copy(b) /\ (log' = log => (IsDuplicate(Copy(b))' <=> IsDuplicate(Copy(b))))
<1>1. Copy(b)' = Copy(b)
  BY Zenon DEF Copy
<1>2. ASSUME log' = log PROVE IsDuplicate(Copy(b))' <=> IsDuplicate(Copy(b))
  BY <1>1, <1>2 DEF IsDuplicate
<1> QED
  BY <1>1, <1>2, Zenon

LEMMA SentCreated ==
    ASSUME IInv, OInv, NEW b \in Batches, Sent(b)
    PROVE  b <= created /\ tp[b] \in Partitions
<1>1. b <= created
  BY Zenon DEF IInv, OInv, Sent, Placed, OldersSettled, Copied, Faithful
<1>2. tp[b] \in Partitions
  BY <1>1 DEF IInv, Placed, Batches, TypeOK
<1> QED
  BY <1>1, <1>2, Zenon

\* What the steps of _complete_batch have in common.
LEMMA CompleteBatchCopies ==
    ASSUME IInv, OInv, NEW b \in Batches, CompleteBatch(b)
    PROVE  /\ UNCHANGED <<created, tp, count, bpid, bseq, zombies, log>>
           /\ Pending' = Pending \ {b} /\ b \in Pending
           /\ \A c \in Batches : /\ reply'[c] = IF c = b THEN "none" ELSE reply[c]
                                 /\ reply'[c] # "none" => c \in handling' \cup UNION requests'
           /\ \A c : Copied(c)' <=> Copied(c)
           /\ \A q : Written(q)' = Written(q)
           /\ NoDuplicates' /\ Faithful'
           /\ \A c : Copy(c)' = Copy(c) /\ (IsDuplicate(Copy(c))' <=> IsDuplicate(Copy(c)))
<1> USE DEF OInv
<1>1. /\ UNCHANGED <<created, tp, count, bpid, bseq, zombies, log, requests>>
      /\ handling' = handling \ {b} /\ reply' = [reply EXCEPT ![b] = "none"]
  BY DEF CompleteBatch
<1>2. Pending' = Pending \ {b} /\ b \in Pending
  BY CompleteBatchFacts, CompleteBatchFrame, Zenon
<1>3. \A c \in Batches : reply'[c] = IF c = b THEN "none" ELSE reply[c]
  BY <1>1 DEF IInv, TypeOK
<1>4. \A c \in Batches : reply'[c] # "none" => c \in handling' \cup UNION requests'
  BY <1>1, <1>3, Zenon DEF Answered
<1>5. /\ \A z : IsCopy(z)' <=> IsCopy(z)
      /\ \A c : Copied(c)' <=> Copied(c)
      /\ \A q : Written(q)' = Written(q)
      /\ NoDuplicates'
  BY <1>1, SameCopies
<1>6. \A c : Copy(c)' = Copy(c) /\ (IsDuplicate(Copy(c))' <=> IsDuplicate(Copy(c)))
  BY <1>1, SameCopy, Zenon
<1>7. Faithful'
  BY <1>1, <1>5, <1>6, Zenon DEF Faithful
<1> QED
  BY <1>1, <1>2, <1>3, <1>4, <1>5, <1>6, <1>7, Zenon

----------------------------------------------------------------------------
(* The rest of the invariant: steps that move no batch or make one *)

\* Steps that move no batch: time, the broker, a record that joins a batch,
\* and the steps of run_once that send nothing.
LEMMA FrameStep ==
    ASSUME IInv,
           UNCHANGED <<created, tp, attempts, final, bpid, batches, incomplete, muted, inFlight,
                       drained, expired, needsReset, handling, raised, producerId, sequence,
                       requests, lastPid>>,
           pc' = pc \/ (pc \in {"loop", "poll"} /\ pc' \in {"loop", "poll"})
    PROVE  Rest'
<1> USE DEF IInv, Rest
<1>1. Pending' = Pending /\ (\A p \in Partitions : Queued(p)' = Queued(p))
  BY Zenon DEF Pending, Queued
<1>2. Placed'
  BY <1>1 DEF Placed
<1>3. Phases' /\ NeverRaises'
  BY Zenon DEF Phases, NeverRaises
<1>4. Separate'
  BY <1>1, Zenon DEF Separate
<1>5. NothingLost'
  BY Zenon DEF NothingLost, Queued
<1>6. OneInFlight' /\ SucceededIsSettled'
  BY <1>1, Zenon DEF OneInFlight, SucceededIsSettled
<1>7. Sequenced'
  BY <1>1, Zenon DEF Sequenced
<1> QED
  BY <1>2, <1>3, <1>4, <1>5, <1>6, <1>7, Zenon

LEMMA InitProducerIdStep ==
    ASSUME IInv, InitProducerId
    PROVE  Rest'
<1> USE DEF IInv, Rest, batchVars, accVars, senderVars, InitProducerId
<1>1. Pending' = Pending /\ (\A p \in Partitions : Queued(p)' = Queued(p))
  BY Zenon DEF Pending, Queued
<1>2. Placed'
  BY <1>1, Zenon DEF Placed
<1>3. Phases' /\ NeverRaises'
  BY DEF Phases, NeverRaises
<1>4. Separate'
  BY <1>1, Zenon DEF Separate
<1>5. NothingLost'
  BY Zenon DEF NothingLost, Queued
<1>6. OneInFlight' /\ SucceededIsSettled'
  BY <1>1, Zenon DEF OneInFlight, SucceededIsSettled
<1>7. Sequenced'
  <2>1. \A b \in Batches : bpid[b] \in Nat /\ lastPid \in Nat
    BY Zenon DEF TypeOK
  <2>2. \A m \in Nat : m <= lastPid => m <= lastPid + 1 /\ m # lastPid + 1
    BY <2>1 DEF TypeOK
  <2>3. lastPid + 1 <= lastPid + 1
    BY DEF TypeOK
  <2> QED
    BY <1>1, <2>1, <2>2, <2>3, Zenon DEF Sequenced
<1> QED
  BY <1>2, <1>3, <1>4, <1>5, <1>6, <1>7, Zenon

LEMMA AppendNewBatchStep ==
    ASSUME IInv, NEW p \in Partitions, AppendNewBatch(p)
    PROVE  Rest'
<1> DEFINE n == created + 1
           Q(q) == Range(batches[q])
           R(q) == Range(batches'[q])
<1> USE DEF IInv
<1>1. /\ n \in Batches /\ created \in Nat /\ created' = n
      /\ tp' = [tp EXCEPT ![n] = p] /\ incomplete' = incomplete \cup {n}
      /\ \A b \in Batches : b \in Nat /\ (b <= n <=> b <= created \/ b = n)
      /\ \A b \in 1 .. n : b \in Batches /\ (b <= created \/ b = n)
  <2>1. created \in Nat /\ created < MaxBatches /\ created' = created + 1
    <3>1. created < MaxBatches /\ created' = created + 1 /\ created \in 0 .. MaxBatches
      BY Zenon DEF AppendNewBatch, TypeOK
    <3> QED
      BY <3>1
  <2>2. /\ n \in Batches
        /\ \A b \in Batches : b \in Nat /\ (b <= n <=> b <= created \/ b = n)
        /\ \A b \in 1 .. n : b \in Batches /\ (b <= created \/ b = n)
    BY <2>1, ConfigNumbers DEF Batches
  <2> QED
    BY <2>1, <2>2 DEF AppendNewBatch
<1>2. UNCHANGED <<attempts, final, bpid, muted, inFlight, pc, drained, expired, needsReset,
                  handling, raised, producerId, sequence, requests, lastPid>>
  BY Zenon DEF AppendNewBatch, senderVars, tmVars, envVars
<1>3. Pending' = Pending /\ Pending \subseteq Batches
  BY <1>2, Zenon DEF Pending, TypeOK
<1>4. \A b \in Batches : b <= created => b # n /\ tp'[b] = tp[b] /\ tp[b] \in Partitions
  BY <1>1 DEF TypeOK, Batches, Placed
<1>5. tp'[n] = p
  BY <1>1, Zenon DEF TypeOK
<1>6. /\ n \notin Pending /\ n \notin incomplete /\ n \notin inFlight /\ n \notin expired
      /\ final[n] = "none"
  BY <1>1, <1>4, Zenon DEF Placed, NothingLost
<1>7. \A q \in Partitions : batches[q] \in Seq(Batches) /\ IsInjective(batches[q])
  BY Zenon DEF TypeOK, NothingLost
<1>8. \A q \in Partitions : Q(q) \subseteq Batches /\ \A b \in Q(q) : b <= created /\ tp[b] = q /\ b \in incomplete
  BY <1>7, SeqRange, Zenon DEF Placed, Queued, NothingLost
<1>9. \A q \in Partitions : /\ IsInjective(batches'[q])
                            /\ \A b : b \in R(q) <=> b \in Q(q) \/ (q = p /\ b = n)
  <2> DEFINE longer == Append(batches[p], n)
  <2>1. n \notin Q(p)
    BY <1>1, <1>4, <1>8, Zenon
  <2>2. Range(longer) = Q(p) \cup {n} /\ IsInjective(longer)
    BY <2>1, <1>1, <1>7, AppendRange
  <2>3. batches'[p] = longer /\ \A q \in Partitions : q # p => batches'[q] = batches[q]
    BY Zenon DEF AppendNewBatch, TypeOK
  <2> HIDE DEF longer
  <2>4. IsInjective(batches'[p]) /\ \A b : b \in R(p) <=> b \in Q(p) \/ b = n
    BY <2>2, <2>3, Zenon
  <2>5. ASSUME NEW q \in Partitions, q # p PROVE IsInjective(batches'[q]) /\ R(q) = Q(q)
    BY <2>3, <2>5, <1>7, Zenon
  <2> QED
    BY <2>4, <2>5, Zenon
<1>10. \A q : Queued(q) = Q(q)
  BY Zenon DEF Queued
<1> HIDE DEF n, Q, R
<1>11. Placed'
  <2>1. \A b \in 1 .. created' : tp'[b] \in Partitions
    BY <1>1, <1>4, <1>5, Zenon
  <2>2. \A q \in Partitions : \A b \in R(q) : b <= created' /\ tp'[b] = q
    BY <1>1, <1>4, <1>5, <1>8, <1>9
  <2>3. \A b \in Pending' : b <= created'
    BY <1>1, <1>2, <1>3, Zenon DEF Placed
  <2>4. \A b \in Batches : final'[b] # "none" => b <= created'
    BY <1>1, <1>2, Zenon DEF Placed
  <2> QED
    BY <2>1, <2>2, <2>3, <2>4 DEF Placed, Queued, R
<1>12. Phases' /\ NeverRaises'
  BY <1>2, Zenon DEF Phases, NeverRaises
<1>13. Separate'
  <2>1. \A q \in Partitions : R(q) \cap Pending' = {}
    BY <1>3, <1>6, <1>9, <1>10 DEF Separate
  <2> QED
    BY <2>1, <1>2, Zenon DEF Separate, Queued, R
<1>14. NothingLost'
  <2>1. \A b \in Batches : b \in incomplete' <=> b <= created' /\ final'[b] = "none"
    BY <1>1, <1>2, <1>6, Zenon DEF NothingLost
  <2>2. ASSUME NEW b \in incomplete'
        PROVE  \/ b \in R(tp'[b]) /\ b \notin inFlight' /\ b \notin expired'
               \/ b \notin R(tp'[b]) /\ b \in inFlight' /\ b \notin expired'
               \/ b \notin R(tp'[b]) /\ b \notin inFlight' /\ b \in expired'
    <3>1. CASE b = n
      BY <3>1, <1>2, <1>5, <1>6, <1>9, Zenon
    <3>2. CASE b # n
      <4>1. b \in incomplete /\ b \in Batches /\ b <= created
        BY <3>2, <1>1, Zenon DEF NothingLost, TypeOK
      <4>2. b \in R(tp'[b]) <=> b \in Queued(tp[b])
        BY <3>2, <4>1, <1>4, <1>9, <1>10, Zenon
      <4> QED
        BY <4>1, <4>2, <1>2 DEF NothingLost
    <3> QED
      BY <3>1, <3>2
  <2>3. inFlight' \cup expired' \subseteq incomplete'
    BY <1>1, <1>2, Zenon DEF NothingLost
  <2>4. \A q \in Partitions : \A b \in R(q) : b \in incomplete' /\ tp'[b] = q
    BY <1>1, <1>4, <1>5, <1>8, <1>9
  <2> QED
    BY <2>1, <2>2, <2>3, <2>4, <1>9, Zenon DEF NothingLost, Queued, R
<1>15. OneInFlight' /\ SucceededIsSettled'
  <2>1. \A b \in Pending : b \in Batches /\ tp'[b] = tp[b]
    BY <1>3, <1>4, Zenon DEF Placed
  <2>2. OneInFlight'
    BY <1>2, <1>3, <2>1, Zenon DEF OneInFlight
  <2>3. SucceededIsSettled'
    BY <1>2, <1>3, Zenon DEF SucceededIsSettled
  <2> QED
    BY <2>2, <2>3
<1>16. Sequenced'
  BY <1>1, <1>2, <1>3, <1>4 DEF Sequenced
<1> QED
  BY <1>11, <1>12, <1>13, <1>14, <1>15, <1>16, Zenon DEF Rest

=============================================================================
