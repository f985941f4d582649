--------------------------- MODULE ProducerProofs ---------------------------
(***************************************************************************)
(* The actions that drain, expire, send and complete batches keep the      *)
(* inductive invariant of Producer, and the theorems that follow.          *)
(***************************************************************************)
EXTENDS ProducerTypes

LEMMA DrainStep ==
    ASSUME IInv, NEW P \in SUBSET Partitions, Drain(P)
    PROVE  Rest'
<1> DEFINE taken == {Head(batches[p]) : p \in P}
           stamped == {b \in taken : SetsProducerState(b)}
           Q(q) == Range(batches[q])
           R(q) == Range(batches'[q])
<1> USE DEF IInv
<1>1. /\ UNCHANGED <<created, tp, attempts, final, incomplete, expired, needsReset, handling,
                     raised, producerId, requests, lastPid>>
      /\ drained' = taken /\ inFlight' = inFlight \cup taken /\ pc' = "expireQueued"
      /\ muted' = IF GuaranteeOrder THEN muted \cup P ELSE muted
      /\ handling = {} /\ pc = "loop" /\ (Idempotent => producerId # NoPid)
  BY DEF Drain, AtLoop, envVars
<1>2. drained = {} /\ expired = {}
  BY <1>1 DEF Phases
<1>3. Pending' = taken \cup Pending
  BY <1>1, <1>2 DEF Pending
<1>4. \A q : Queued(q) = Q(q)
  BY DEF Queued
<1>5. \A q \in Partitions : batches[q] \in Seq(Batches) /\ IsInjective(batches[q])
  BY DEF TypeOK, NothingLost
<1>6. \A q \in Partitions : Q(q) \subseteq Batches /\ \A b \in Q(q) : b <= created /\ tp[b] = q /\ b \in incomplete
  BY <1>5, SeqRange DEF Placed, Queued, NothingLost
<1>7. ASSUME NEW q \in P
      PROVE  /\ Head(batches[q]) \in Q(q) /\ q \notin muted
             /\ IsInjective(batches'[q])
             /\ \A b : b \in R(q) <=> b \in Q(q) /\ b # Head(batches[q])
  <2> DEFINE rest == Tail(batches[q])
  <2>1. batches[q] # << >> /\ q \notin muted /\ q \in Partitions /\ batches'[q] = rest
    BY DEF Drain, Drainable
  <2>2. /\ Head(batches[q]) \in Q(q) /\ IsInjective(rest) /\ Q(q) = Range(rest) \cup {Head(batches[q])}
        /\ Head(batches[q]) \notin Range(rest)
    BY <2>1, <1>5, TailRange
  <2> HIDE DEF rest
  <2> QED
    BY <2>1, <2>2
<1>8. \A q \in Partitions : q \notin P => batches'[q] = batches[q]
  BY DEF Drain
<1>9. \A b \in taken : /\ tp[b] \in P /\ b \in Q(tp[b]) /\ b = Head(batches[tp[b]])
                       /\ b \in Batches /\ b <= created /\ b \in incomplete
                       /\ tp[b] \notin muted /\ b \notin Pending
  <2>1. \A q \in P : q \in Partitions /\ Head(batches[q]) \in Q(q) /\ q \notin muted
    BY <1>7
  <2>2. \A q \in P : tp[Head(batches[q])] = q
    BY <2>1, <1>6
  <2>3. \A b \in taken : tp[b] \in P /\ b \in Q(tp[b]) /\ b = Head(batches[tp[b]])
    BY <2>1, <2>2
  <2> QED
    BY <2>1, <2>3, <1>4, <1>6 DEF Separate
<1>10. \A q \in Partitions : /\ IsInjective(batches'[q])
                             /\ \A b : b \in R(q) <=> b \in Q(q) /\ b \notin taken
  <2>1. ASSUME NEW q \in P, NEW b PROVE b \in R(q) <=> b \in Q(q) /\ b \notin taken
    <3>1. b \in Q(q) => tp[b] = q
      BY <1>6, Zenon
    <3>2. Head(batches[q]) \in taken
      OBVIOUS
    <3> QED
      BY <3>1, <3>2, <1>7, <1>9, Zenon
  <2>2. ASSUME NEW q \in Partitions, q \notin P
        PROVE IsInjective(batches'[q]) /\ \A b : b \in R(q) <=> b \in Q(q) /\ b \notin taken
    <3>1. R(q) = Q(q) /\ IsInjective(batches'[q])
      BY <2>2, <1>5, <1>8
    <3>2. \A b \in Q(q) : b \notin taken
      BY <2>2, <1>6, <1>9
    <3> QED
      BY <3>1, <3>2
  <2> QED
    BY <2>1, <2>2, <1>7
<1>11. /\ \A b \in Batches : bpid'[b] = IF b \in stamped THEN producerId ELSE bpid[b]
       /\ \A q \in Partitions : sequence'[q] = IF \E b \in stamped : tp[b] = q THEN SequenceNumber(q)
                                               ELSE sequence[q]
  BY DEF Drain
<1>12. stamped \subseteq taken /\ \A b \in taken : b \in stamped \/ ~Idempotent \/ attempts[b] # 0
  BY DEF SetsProducerState
<1> HIDE DEF taken, stamped, Q, R
<1>13. Placed'
  <2>1. \A q \in Partitions : \A b \in R(q) : b <= created /\ tp[b] = q
    BY <1>6, <1>10
  <2>2. \A b \in Pending' : b <= created
    BY <1>3, <1>9 DEF Placed
  <2> QED
    BY <2>1, <2>2, <1>1, Zenon DEF Placed, Queued, R
<1>14. Phases' /\ NeverRaises'
  BY <1>1 DEF Phases, NeverRaises
<1>15. Separate'
  <2>1. \A q \in Partitions : R(q) \cap Pending' = {}
    BY <1>3, <1>4, <1>10 DEF Separate
  <2>2. drained' \cap UNION requests = {}
    BY <1>1, <1>9 DEF Pending
  <2> QED
    BY <2>1, <2>2, <1>1 DEF Separate, Queued, R
<1>16. NothingLost'
  <2>1. ASSUME NEW b \in incomplete'
        PROVE  \/ b \in R(tp[b]) /\ b \notin inFlight' /\ b \notin expired'
               \/ b \notin R(tp[b]) /\ b \in inFlight' /\ b \notin expired'
               \/ b \notin R(tp[b]) /\ b \notin inFlight' /\ b \in expired'
    <3>1. b \in incomplete /\ b \in Batches /\ b <= created
      BY <1>1 DEF NothingLost, TypeOK
    <3>2. tp[b] \in Partitions
      BY <3>1 DEF Placed, Batches
    <3>3. CASE b \in taken
      BY <3>2, <3>3, <1>1, <1>2, <1>10, Zenon
    <3>4. CASE b \notin taken
      BY <3>1, <3>2, <3>4, <1>1, <1>4, <1>10, Zenon DEF NothingLost
    <3> QED
      BY <3>3, <3>4
  <2>2. inFlight' \cup expired' \subseteq incomplete'
    BY <1>1, <1>9, Zenon DEF NothingLost
  <2>3. \A q \in Partitions : \A b \in R(q) : b \in incomplete /\ tp[b] = q
    BY <1>6, <1>10
  <2> QED
    BY <2>1, <2>2, <2>3, <1>1, <1>10 DEF NothingLost, Queued, R
<1>17. OneInFlight' /\ SucceededIsSettled'
  <2>1. \A b \in taken : final[b] # "SUCCEEDED"
    BY <1>9 DEF NothingLost
  <2>2. SucceededIsSettled'
    BY <2>1, <1>1, <1>3 DEF SucceededIsSettled
  <2>3. \A b, c \in taken : tp[b] = tp[c] => b = c
    BY <1>9
  <2> QED
    BY <2>2, <2>3, <1>1, <1>3, <1>9, Zenon DEF OneInFlight
<1>18. Sequenced'
  <2> SUFFICES ASSUME Idempotent PROVE Sequenced'
    BY DEF Sequenced
  <2>1. \A b \in Batches : b <= created => tp[b] \in Partitions
    BY DEF Placed, Batches
  <2>2. \A q \in Partitions : SequenceNumber(q) >= 0 /\ sequence[q] \in Int /\ sequence[q] >= NoSeq
    BY DEF SequenceNumber, Sequenced, TypeOK, NoSeq
  <2>3. \A q \in Partitions : sequence'[q] >= NoSeq /\ (sequence[q] # NoSeq => sequence'[q] # NoSeq)
    BY <2>2, <1>11 DEF SequenceNumber, NoSeq
  <2>4. \A b \in Batches : bpid'[b] <= lastPid /\ (bpid'[b] # NoPid => b <= created)
    BY <1>9, <1>11, <1>12, Zenon DEF Sequenced
  <2>5. \A b \in Pending' : bpid'[b] # NoPid
    <3>1. Pending \subseteq Batches /\ \A b \in Batches : attempts[b] \in Nat
      BY Zenon DEF Pending, TypeOK
    <3> QED
      BY <3>1, <1>1, <1>3, <1>9, <1>11, <1>12 DEF Sequenced
  <2>6. \A b \in Batches : attempts[b] > 0 => bpid'[b] # NoPid
    BY <1>1, <1>11 DEF Sequenced
  <2>7. \A b \in Batches : bpid'[b] = producerId => sequence'[tp[b]] # NoSeq
    <3> SUFFICES ASSUME NEW b \in Batches, bpid'[b] = producerId PROVE sequence'[tp[b]] # NoSeq
      OBVIOUS
    <3>1. CASE b \in stamped
      <4>1. tp[b] \in Partitions /\ sequence'[tp[b]] = SequenceNumber(tp[b])
        BY <3>1, <2>1, <1>9, <1>11, <1>12, Zenon
      <4> QED
        BY <4>1, <2>2 DEF NoSeq
    <3>2. CASE b \notin stamped
      BY <3>2, <2>1, <2>3, <1>1, <1>11 DEF Sequenced
    <3> QED
      BY <3>1, <3>2
  <2> QED
    BY <2>3, <2>4, <2>5, <2>6, <2>7, <1>1, Zenon DEF Sequenced
<1> QED
  BY <1>13, <1>14, <1>15, <1>16, <1>17, <1>18 DEF Rest

LEMMA ExpireQueuedStep ==
    ASSUME IInv, NEW p \in Partitions, ExpireQueued(p)
    PROVE  Rest'
<1> DEFINE h == Head(batches[p])
           Q(q) == Range(batches[q])
           R(q) == Range(batches'[q])
<1> USE DEF IInv
<1>1. /\ UNCHANGED <<created, tp, attempts, final, bpid, incomplete, muted, inFlight, pc, drained,
                     handling, raised, producerId, sequence, requests, lastPid>>
      /\ expired' = expired \cup {h} /\ pc = "expireQueued"
  BY DEF ExpireQueued, batchVars, tmVars, envVars
<1>2. Pending' = Pending /\ \A q : Queued(q) = Q(q)
  BY <1>1 DEF Pending, Queued
<1>3. \A q \in Partitions : batches[q] \in Seq(Batches) /\ IsInjective(batches[q])
  BY DEF TypeOK, NothingLost
<1>4. \A q \in Partitions : \A b \in Q(q) : b <= created /\ tp[b] = q /\ b \in incomplete
  BY Zenon DEF Placed, Queued, NothingLost
<1>5. h \in Q(p) /\ \A q \in Partitions : /\ IsInjective(batches'[q])
                                          /\ \A b : b \in R(q) <=> b \in Q(q) /\ b # h
  <2> DEFINE rest == Tail(batches[p])
  <2>1. batches[p] # << >> /\ batches' = [batches EXCEPT ![p] = rest]
    BY DEF ExpireQueued
  <2>2. /\ h \in Q(p) /\ IsInjective(rest) /\ Q(p) = Range(rest) \cup {h}
        /\ h \notin Range(rest)
    BY <2>1, <1>3, TailRange
  <2> HIDE DEF rest, h
  <2>3. batches'[p] = rest /\ \A q \in Partitions : q # p => batches'[q] = batches[q]
    BY <2>1 DEF TypeOK
  <2>4. IsInjective(batches'[p]) /\ \A b : b \in R(p) <=> b \in Q(p) /\ b # h
    BY <2>2, <2>3
  <2>5. ASSUME NEW q \in Partitions, q # p
        PROVE  IsInjective(batches'[q]) /\ \A b : b \in R(q) <=> b \in Q(q) /\ b # h
    <3>1. R(q) = Q(q) /\ IsInjective(batches'[q])
      BY <2>3, <2>5, <1>3, Zenon
    <3> QED
      BY <3>1, <2>2, <2>5, <1>4
  <2> QED
    BY <2>2, <2>4, <2>5, Zenon
<1> HIDE DEF h, Q, R
<1>6. Placed'
  <2>1. \A q \in Partitions : \A b \in R(q) : b <= created /\ tp[b] = q
    BY <1>4, <1>5, Zenon
  <2> QED
    BY <2>1, <1>1, <1>2 DEF Placed, Queued, R
<1>7. Phases' /\ NeverRaises' /\ OneInFlight' /\ SucceededIsSettled' /\ Sequenced'
  BY <1>1, <1>2 DEF Phases, NeverRaises, OneInFlight, SucceededIsSettled, Sequenced
<1>8. Separate'
  <2>1. \A q \in Partitions : R(q) \cap Pending = {}
    BY <1>2, <1>5 DEF Separate
  <2> QED
    BY <2>1, <1>1, <1>2, Zenon DEF Separate, Queued, R
<1>9. NothingLost'
  <2>1. h \in incomplete /\ tp[h] = p /\ h \notin inFlight
    BY <1>2, <1>4, <1>5 DEF NothingLost
  <2>2. ASSUME NEW b \in incomplete
        PROVE  \/ b \in R(tp[b]) /\ b \notin inFlight /\ b \notin expired'
               \/ b \notin R(tp[b]) /\ b \in inFlight /\ b \notin expired'
               \/ b \notin R(tp[b]) /\ b \notin inFlight /\ b \in expired'
    <3>1. tp[b] \in Partitions
      BY DEF NothingLost, Placed, Batches, TypeOK
    <3>2. CASE b = h
      BY <3>1, <3>2, <2>1, <1>1, <1>5, Zenon
    <3>3. CASE b # h
      BY <3>1, <3>3, <1>1, <1>2, <1>5, Zenon DEF NothingLost
    <3> QED
      BY <3>2, <3>3, Zenon
  <2>3. inFlight \cup expired' \subseteq incomplete
    BY <1>1, <2>1, Zenon DEF NothingLost
  <2>4. \A q \in Partitions : \A b \in R(q) : b \in incomplete /\ tp[b] = q
    BY <1>4, <1>5
  <2> QED
    BY <2>2, <2>3, <2>4, <1>1, <1>5, Zenon DEF NothingLost, Queued, R
<1> QED
  BY <1>6, <1>7, <1>8, <1>9 DEF Rest

LEMMA ExpireInFlightStep ==
    ASSUME IInv, ExpireInFlight
    PROVE  Rest'
<1> DEFINE old == {b \in inFlight : HasReachedDeliveryTimeout(b)}
<1> USE DEF IInv
<1>1. /\ UNCHANGED <<created, tp, attempts, final, bpid, batches, incomplete, muted, drained,
                     handling, producerId, sequence, requests, lastPid>>
      /\ inFlight' = inFlight \ old /\ expired' = expired \cup old
      /\ raised' = (raised \/ \E b \in old : final[b] # "none")
      /\ pc = "expireQueued" /\ pc' = "fail" /\ old \subseteq inFlight
  BY DEF ExpireInFlight, batchVars, accVars, tmVars, envVars
<1> HIDE DEF old
<1>2. Pending' = Pending /\ \A q : Queued(q)' = Queued(q)
  BY <1>1 DEF Pending, Queued
<1>3. Placed'
  BY <1>1, <1>2, Zenon DEF Placed, Queued
<1>4. Phases' /\ OneInFlight' /\ SucceededIsSettled' /\ Sequenced'
  BY <1>1, <1>2 DEF Phases, OneInFlight, SucceededIsSettled, Sequenced
<1>5. Separate'
  BY <1>1, <1>2 DEF Separate, Queued
<1>6. NeverRaises'
  <2>1. \A b \in old : final[b] = "none"
    BY <1>1, Zenon DEF NothingLost, TypeOK
  <2> QED
    BY <2>1, <1>1, Zenon DEF NeverRaises
<1>7. NothingLost'
  <2>1. ASSUME NEW b \in incomplete
        PROVE  \/ b \in Queued(tp[b]) /\ b \notin inFlight' /\ b \notin expired'
               \/ b \notin Queued(tp[b]) /\ b \in inFlight' /\ b \notin expired'
               \/ b \notin Queued(tp[b]) /\ b \notin inFlight' /\ b \in expired'
    BY <1>1, Zenon DEF NothingLost
  <2>2. inFlight' \cup expired' \subseteq incomplete
    BY <1>1 DEF NothingLost
  <2> QED
    BY <2>1, <2>2, <1>1, Zenon DEF NothingLost, Queued
<1> QED
  BY <1>3, <1>4, <1>5, <1>6, <1>7, Zenon DEF Rest

LEMMA FailExpiredStep ==
    ASSUME IInv, NEW b \in Batches, FailExpired(b)
    PROVE  Rest'
<1> USE DEF IInv
<1>1. b \in expired /\ b \in incomplete /\ final[b] = "none"
  BY Zenon DEF FailExpired, NothingLost
<1>2. /\ UNCHANGED <<created, tp, attempts, bpid, batches, muted, pc, drained, needsReset,
                     handling, producerId, sequence, requests, lastPid>>
      /\ final' = [final EXCEPT ![b] = "FAILED"] /\ inFlight' = inFlight \ {b}
      /\ incomplete' = incomplete \ {b} /\ expired' = expired \ {b} /\ raised' = raised
      /\ pc = "fail"
  <2>1. ~FailResets(b, "timeout") /\ Done(b) /\ ~DoneRaises(b)
    BY <1>1 DEF FailResets, Done, DoneRaises
  <2> QED
    BY <2>1 DEF FailExpired, FailBatch, FinalAfter, Release, envVars, TypeOK
<1>3. Pending' = Pending /\ \A q : Queued(q)' = Queued(q)
  BY <1>2 DEF Pending, Queued
<1>4. \A c \in Batches : final'[c] = IF c = b THEN "FAILED" ELSE final[c]
  BY <1>2, Zenon DEF TypeOK
<1>5. Placed'
  <2>1. \A c \in Batches : final'[c] # "none" => c <= created
    BY <1>1, <1>4, Zenon DEF Placed, NothingLost
  <2> QED
    BY <2>1, <1>2, <1>3 DEF Placed, Queued
<1>6. Phases' /\ NeverRaises' /\ OneInFlight' /\ Sequenced'
  BY <1>2, <1>3, Zenon DEF Phases, NeverRaises, OneInFlight, Sequenced
<1>7. Separate'
  BY <1>2, <1>3 DEF Separate, Queued
<1>8. SucceededIsSettled'
  <2>1. Pending \subseteq Batches
    BY DEF Pending, TypeOK
  <2> QED
    BY <2>1, <1>3, <1>4, Zenon DEF SucceededIsSettled
<1>9. NothingLost'
  <2>1. \A c \in Batches : c \in incomplete' <=> c <= created /\ final'[c] = "none"
    BY <1>1, <1>2, <1>4 DEF NothingLost
  <2>2. ASSUME NEW c \in incomplete'
        PROVE  \/ c \in Queued(tp[c]) /\ c \notin inFlight' /\ c \notin expired'
               \/ c \notin Queued(tp[c]) /\ c \in inFlight' /\ c \notin expired'
               \/ c \notin Queued(tp[c]) /\ c \notin inFlight' /\ c \in expired'
    BY <1>2 DEF NothingLost
  <2>3. inFlight' \cup expired' \subseteq incomplete'
    BY <1>2, Zenon DEF NothingLost
  <2>4. \A q \in Partitions : \A c \in Queued(q) : c \in incomplete' /\ tp[c] = q
    BY <1>1, <1>2 DEF NothingLost
  <2> QED
    BY <2>1, <2>2, <2>3, <2>4, <1>2, Zenon DEF NothingLost, Queued
<1> QED
  BY <1>5, <1>6, <1>7, <1>8, <1>9, Zenon DEF Rest

LEMMA ResetProducerIdStep ==
    ASSUME IInv, ResetProducerId
    PROVE  Rest'
<1> USE DEF IInv
<1>1. /\ UNCHANGED <<created, tp, attempts, final, bpid, batches, incomplete, muted, inFlight,
                     expired, handling, raised, requests, lastPid>>
      /\ producerId' = NoPid /\ sequence' = [q \in Partitions |-> NoSeq]
      /\ ~needsReset' /\ drained' = {} /\ pc' = "poll" /\ expired = {} /\ pc = "fail"
  BY DEF ResetProducerId, batchVars, accVars, envVars
<1>2. Pending' \subseteq Pending /\ \A q : Queued(q)' = Queued(q)
  BY <1>1, Zenon DEF Pending, Queued
<1>3. Placed'
  BY <1>1, <1>2, Zenon DEF Placed, Queued
<1>4. Phases' /\ NeverRaises' /\ OneInFlight' /\ SucceededIsSettled'
  BY <1>1, <1>2, Zenon DEF Phases, NeverRaises, OneInFlight, SucceededIsSettled
<1>5. Separate'
  BY <1>1, <1>2, Zenon DEF Separate, Queued
<1>6. NothingLost'
  BY <1>1, Zenon DEF NothingLost, Queued
<1>7. Sequenced'
  <2>1. lastPid \in Nat
    BY DEF TypeOK
  <2> QED
    BY <2>1, <1>1, <1>2 DEF Sequenced, NoPid, NoSeq
<1> QED
  BY <1>3, <1>4, <1>5, <1>6, <1>7 DEF Rest

LEMMA SendStep ==
    ASSUME IInv, NEW leader, Send(leader)
    PROVE  Rest'
<1> DEFINE group(n) == {b \in drained : leader[tp[b]] = n}
           sent == {group(n) : n \in {leader[tp[b]] : b \in drained}}
<1> USE DEF IInv
<1>1. /\ UNCHANGED <<created, tp, attempts, final, bpid, batches, incomplete, muted, inFlight,
                     expired, needsReset, handling, raised, producerId, sequence, lastPid>>
      /\ requests' = requests \cup sent
      /\ ~needsReset /\ drained' = {} /\ pc' = "poll" /\ expired = {} /\ pc = "fail"
  BY Zenon DEF Send, batchVars, accVars, tmVars
<1>2. handling = {}
  BY <1>1 DEF Phases
<1>3. /\ \A S \in sent : S \subseteq drained
      /\ \A b \in drained : \E S \in sent : b \in S
      /\ \A S, T \in sent : S # T => S \cap T = {}
  <2>1. \A b \in drained : b \in group(leader[tp[b]]) /\ group(leader[tp[b]]) \in sent
    OBVIOUS
  <2>2. ASSUME NEW S \in sent, NEW T \in sent, NEW b \in S, b \in T PROVE S = T
    <3>1. S = group(leader[tp[b]]) /\ T = group(leader[tp[b]])
      BY <2>2
    <3> QED
      BY <3>1
  <2>3. \A S \in sent : S \subseteq drained
    OBVIOUS
  <2> HIDE DEF sent, group
  <2> QED
    BY <2>1, <2>2, <2>3
<1> HIDE DEF sent
<1>4. \A b : b \in UNION requests' <=> b \in UNION requests \/ b \in drained
  BY <1>1, <1>3
<1>5. Pending' = Pending /\ \A q : Queued(q)' = Queued(q)
  BY <1>1, <1>2, <1>4, Zenon DEF Pending, Queued
<1>6. Placed'
  BY <1>1, <1>5, Zenon DEF Placed, Queued
<1>7. Phases' /\ NeverRaises' /\ OneInFlight' /\ SucceededIsSettled' /\ Sequenced'
  BY <1>1, <1>5, Zenon DEF Phases, NeverRaises, OneInFlight, SucceededIsSettled, Sequenced
<1>8. Separate'
  <2>1. \A S \in requests, T \in sent : S \cap T = {}
    BY <1>3, Zenon DEF Separate
  <2>2. \A S, T \in requests' : S # T => S \cap T = {}
    BY <2>1, <1>1, <1>3, Zenon DEF Separate
  <2> QED
    BY <2>2, <1>1, <1>2, <1>5 DEF Separate, Queued
<1>9. NothingLost'
  BY <1>1 DEF NothingLost, Queued
<1> QED
  BY <1>6, <1>7, <1>8, <1>9, Zenon DEF Rest

\* A response arrives, or its request fails: the batches move from a request
\* to the response being handled.
LEMMA ResponseStep ==
    ASSUME IInv, NEW S \in requests, Response(S) \/ FailedProduce(S)
    PROVE  Rest'
<1> USE DEF IInv
<1>1. /\ UNCHANGED <<created, tp, attempts, final, bpid, batches, incomplete, muted, inFlight, pc,
                     drained, expired, needsReset, raised, producerId, sequence, lastPid>>
      /\ requests' = requests \ {S} /\ handling' = S /\ handling = {}
      /\ pc \in {"loop", "poll"}
  BY DEF Response, FailedProduce, Polling, batchVars, accVars, tmVars
<1>2. \A T \in requests' : T \in requests /\ T \cap S = {}
  BY <1>1 DEF Separate
<1>3. Pending' = Pending /\ \A q : Queued(q)' = Queued(q)
  BY <1>1, Zenon DEF Pending, Queued
<1>4. Placed'
  <2>1. S \subseteq Pending
    BY Zenon DEF Pending
  <2> QED
    BY <2>1, <1>1, <1>3, Zenon DEF Placed, Queued
<1>5. Phases' /\ NeverRaises' /\ OneInFlight' /\ SucceededIsSettled' /\ Sequenced'
  BY <1>1, <1>3, Zenon DEF Phases, NeverRaises, OneInFlight, SucceededIsSettled, Sequenced
<1>6. Separate'
  <2>1. drained = {}
    BY <1>1, Zenon DEF Phases
  <2> QED
    BY <2>1, <1>1, <1>2, <1>3, Zenon DEF Separate, Queued
<1>7. NothingLost'
  BY <1>1 DEF NothingLost, Queued
<1> QED
  BY <1>4, <1>5, <1>6, <1>7, Zenon DEF Rest

\* The batch succeeds or fails: done(), and release if that was the first call.
LEMMA SettleStep ==
    ASSUME IInv, NEW b \in Batches, CompleteBatch(b), NEW state \in {"SUCCEEDED", "FAILED"},
           final' = FinalAfter(b, state), inFlight' = Release(b, inFlight),
           incomplete' = Release(b, incomplete), UNCHANGED <<attempts, batches>>
    PROVE  Placed' /\ Separate' /\ NothingLost' /\ SucceededIsSettled'
<1> USE DEF IInv
<1>1. /\ b \in Pending /\ b <= created /\ Pending' = Pending \ {b} /\ expired' = {} /\ expired = {}
      /\ drained' = {}
      /\ UNCHANGED <<created, tp, requests>>
  BY CompleteBatchFacts, CompleteBatchFrame, Zenon
<1>2. /\ final[b] = "none" => b \in incomplete /\ b \in inFlight
      /\ final[b] # "none" => b \notin incomplete /\ b \notin inFlight
      /\ \A q \in Partitions : b \notin Queued(q)
  BY CompleteBatchFacts
<1>3. inFlight' = inFlight \ {b} /\ incomplete' = incomplete \ {b}
  BY <1>2, Zenon DEF Release, Done
<1>4. /\ \A c \in Batches : c # b => final'[c] = final[c]
      /\ final'[b] # "none"
  BY Zenon DEF FinalAfter, Done, TypeOK
<1>5. Placed'
  <2>1. \A c \in Batches : final'[c] # "none" => c <= created
    BY <1>1, <1>4, Zenon DEF Placed
  <2> QED
    BY <2>1, <1>1, Zenon DEF Placed, Queued
<1>6. Separate'
  <2>1. handling' \subseteq handling
    BY DEF CompleteBatch
  <2> QED
    BY <2>1, <1>1, Zenon DEF Separate, Queued
<1>7. SucceededIsSettled'
  <2>1. Pending \subseteq Batches
    BY Zenon DEF Pending, TypeOK
  <2> QED
    BY <2>1, <1>1, <1>4 DEF SucceededIsSettled
<1>8. NothingLost'
  <2>1. \A c \in Batches : c \in incomplete' <=> c <= created /\ final'[c] = "none"
    BY <1>3, <1>4, Zenon DEF NothingLost
  <2>2. ASSUME NEW c \in incomplete'
        PROVE  \/ c \in Queued(tp[c]) /\ c \notin inFlight' /\ c \notin expired'
               \/ c \notin Queued(tp[c]) /\ c \in inFlight' /\ c \notin expired'
               \/ c \notin Queued(tp[c]) /\ c \notin inFlight' /\ c \in expired'
    BY <1>1, <1>3, Zenon DEF NothingLost
  <2>3. inFlight' \cup expired' \subseteq incomplete'
    BY <1>1, <1>3, Zenon DEF NothingLost
  <2>4. \A q \in Partitions : \A c \in Queued(q) : c \in incomplete' /\ tp[c] = q
    BY <1>2, <1>3 DEF NothingLost
  <2> QED
    BY <2>1, <2>2, <2>3, <2>4, <1>1, Zenon DEF NothingLost, Queued
<1> QED
  BY <1>5, <1>6, <1>7, <1>8, Zenon

\* The batch goes back to the front of its deque.
LEMMA ReenqueueStep ==
    ASSUME IInv, NEW b \in Batches, CompleteBatch(b), Retried(b), Reenqueue(b)
    PROVE  Placed' /\ Separate' /\ NothingLost' /\ SucceededIsSettled'
<1> DEFINE Q(q) == Range(batches[q])
           R(q) == Range(batches'[q])
<1> USE DEF IInv
<1>1. /\ b \in Pending /\ b <= created /\ Pending' = Pending \ {b} /\ expired' = {} /\ expired = {}
      /\ drained' = {} /\ tp[b] \in Partitions
      /\ UNCHANGED <<created, tp, requests, final, incomplete>>
      /\ inFlight' = inFlight \ {b}
  BY CompleteBatchFacts, CompleteBatchFrame, Zenon DEF Reenqueue
<1>2. final[b] = "none" /\ b \in incomplete
  BY CompleteBatchFacts DEF Retried, CanRetry
<1>3. \A q : Queued(q) = Q(q)
  BY DEF Queued
<1>4. \A q \in Partitions : batches[q] \in Seq(Batches) /\ IsInjective(batches[q])
  BY Zenon DEF TypeOK, NothingLost
<1>5. \A q \in Partitions : b \notin Q(q) /\ \A c \in Q(q) : c <= created /\ tp[c] = q /\ c \in incomplete
  BY CompleteBatchFacts, Zenon DEF Placed, Queued, NothingLost
<1>6. \A q \in Partitions : /\ IsInjective(batches'[q])
                            /\ \A c : c \in R(q) <=> c \in Q(q) \/ (q = tp[b] /\ c = b)
  <2> DEFINE longer == <<b>> \o batches[tp[b]]
  <2>1. batches' = [batches EXCEPT ![tp[b]] = longer]
    BY Zenon DEF Reenqueue
  <2>2. Range(longer) = Q(tp[b]) \cup {b} /\ IsInjective(longer)
    <3>1. tp[b] \in Partitions
      BY <1>1
    <3>2. /\ batches[tp[b]] \in Seq(Batches) /\ IsInjective(batches[tp[b]])
          /\ b \notin Range(batches[tp[b]])
      BY <3>1, <1>4, <1>5, Zenon
    <3> QED
      BY <3>2, ConsBatch, Zenon
  <2> HIDE DEF longer
  <2>3. batches'[tp[b]] = longer /\ \A q \in Partitions : q # tp[b] => batches'[q] = batches[q]
    BY <2>1, <1>1, Zenon DEF TypeOK
  <2>4. IsInjective(batches'[tp[b]]) /\ \A c : c \in R(tp[b]) <=> c \in Q(tp[b]) \/ c = b
    BY <2>2, <2>3, Zenon
  <2>5. ASSUME NEW q \in Partitions, q # tp[b] PROVE IsInjective(batches'[q]) /\ R(q) = Q(q)
    BY <2>3, <2>5, <1>4, Zenon
  <2> QED
    BY <2>4, <2>5, Zenon
<1> HIDE DEF Q, R
<1>7. Placed'
  <2>1. \A q \in Partitions : \A c \in R(q) : c <= created /\ tp[c] = q
    BY <1>1, <1>5, <1>6, Zenon
  <2> QED
    BY <2>1, <1>1, Zenon DEF Placed, Queued, R
<1>8. Separate'
  <2>1. handling' \subseteq handling
    BY Zenon DEF CompleteBatch
  <2>2. \A q \in Partitions : R(q) \cap Pending' = {}
    BY <1>1, <1>3, <1>6, Zenon DEF Separate
  <2> QED
    BY <2>1, <2>2, <1>1, Zenon DEF Separate, Queued, R
<1>9. SucceededIsSettled'
  BY <1>1 DEF SucceededIsSettled
<1>10. NothingLost'
  <2>1. ASSUME NEW c \in incomplete
        PROVE  \/ c \in R(tp[c]) /\ c \notin inFlight' /\ c \notin expired'
               \/ c \notin R(tp[c]) /\ c \in inFlight' /\ c \notin expired'
               \/ c \notin R(tp[c]) /\ c \notin inFlight' /\ c \in expired'
    <3>1. tp[c] \in Partitions
      BY DEF NothingLost, Placed, Batches, TypeOK
    <3>2. CASE c = b
      BY <3>1, <3>2, <1>1, <1>6, Zenon
    <3>3. CASE c # b
      BY <3>1, <3>3, <1>1, <1>3, <1>6, Zenon DEF NothingLost
    <3> QED
      BY <3>2, <3>3, Zenon
  <2>2. inFlight' \cup expired' \subseteq incomplete
    BY <1>1, Zenon DEF NothingLost
  <2>3. \A q \in Partitions : \A c \in R(q) : c \in incomplete /\ tp[c] = q
    BY <1>2, <1>5, <1>6, Zenon
  <2> QED
    BY <2>1, <2>2, <2>3, <1>1, <1>6, Zenon DEF NothingLost, Queued, R
<1> QED
  BY <1>7, <1>8, <1>9, <1>10, Zenon

LEMMA CompleteBatchStep ==
    ASSUME IInv, NEW b \in Batches, CompleteBatch(b)
    PROVE  Rest'
<1> USE DEF IInv
<1>1. /\ Phases' /\ NeverRaises' /\ OneInFlight' /\ Pending' = Pending \ {b}
      /\ b \in Pending /\ tp[b] \in Partitions
      /\ UNCHANGED <<created, tp, bpid, lastPid>>
  BY CompleteBatchFacts, CompleteBatchFrame, Zenon
<1>2. /\ producerId \in Nat /\ lastPid \in Nat /\ count[b] \in Nat /\ attempts[b] \in Nat
      /\ \A q \in Partitions : sequence[q] \in Int
  BY DEF TypeOK
<1>3. CASE reply[b] = "ok" /\ Succeed(b)
  <2>1. Placed' /\ Separate' /\ NothingLost' /\ SucceededIsSettled'
    BY <1>3, SettleStep, Zenon DEF Succeed
  <2>2. Sequenced'
    <3> SUFFICES ASSUME Idempotent PROVE Sequenced'
      BY Zenon DEF Sequenced
    <3>1. \A q \in Partitions : /\ sequence'[q] >= NoSeq
                                /\ sequence[q] # NoSeq => sequence'[q] # NoSeq
      <4>1. ASSUME Match(b) PROVE sequence[tp[b]] >= 0
        <5>1. sequence[tp[b]] # NoSeq /\ sequence[tp[b]] >= NoSeq
          BY <4>1, <1>1, Zenon DEF Match, Sequenced
        <5> QED
          BY <5>1, <1>1, <1>2, SequenceIsNumber, Zenon
      <4>2. \A q \in Partitions : sequence'[q] = IF Match(b) /\ q = tp[b]
                                                 THEN sequence[q] + count[b] ELSE sequence[q]
        BY <1>1, <1>3 DEF Succeed, TypeOK
      <4> QED
        BY <4>1, <4>2, <1>2 DEF Sequenced, NoSeq
    <3>2. UNCHANGED <<producerId, attempts>>
      BY <1>3, Zenon DEF Succeed
    <3>3. \A c \in Batches : bpid[c] # NoPid => tp[c] \in Partitions
      <4>1. \A c \in Batches : bpid[c] # NoPid => c <= created
        BY Zenon DEF Sequenced
      <4>2. \A c \in Batches : c <= created => c \in 1 .. created
        <5>1. created \in Nat
          BY DEF TypeOK
        <5> QED
          BY <5>1 DEF Batches
      <4>3. \A c \in 1 .. created : tp[c] \in Partitions
        BY Zenon DEF Placed
      <4> QED  BY <4>1, <4>2, <4>3
    <3> QED
      BY <3>1, <3>2, <3>3, <1>1, Zenon DEF Sequenced
  <2> QED
    BY <2>1, <2>2, <1>1, Zenon DEF Rest
<1>4. CASE Retried(b) /\ Reenqueue(b)
  <2>1. Placed' /\ Separate' /\ NothingLost' /\ SucceededIsSettled'
    BY <1>4, ReenqueueStep
  <2>2. Sequenced'
    <3>1. UNCHANGED <<producerId, sequence>> /\ \A c \in Batches : c # b => attempts'[c] = attempts[c]
      BY <1>4, Zenon DEF Reenqueue, tmVars, TypeOK
    <3> QED
      BY <3>1, <1>1, Zenon DEF Sequenced
  <2> QED
    BY <2>1, <2>2, <1>1, Zenon DEF Rest
<1>5. CASE FailBatch(b, reply[b]) /\ UNCHANGED <<attempts, batches>>
  <2>1. Placed' /\ Separate' /\ NothingLost' /\ SucceededIsSettled'
    BY <1>5, SettleStep DEF FailBatch
  <2>2. Sequenced'
    <3>1. CASE FailResets(b, reply[b])
      <4>1. producerId' = NoPid /\ sequence' = [q \in Partitions |-> NoSeq]
        BY <3>1, <1>5, Zenon DEF FailBatch
      <4>2. /\ NoPid <= lastPid /\ NoSeq >= NoSeq
            /\ \A q \in Partitions : sequence'[q] = NoSeq
        BY <4>1, <1>2 DEF NoPid, NoSeq
      <4> QED
        BY <4>1, <4>2, <1>1, <1>5, Zenon DEF Sequenced
    <3>2. CASE ~FailResets(b, reply[b])
      <4>1. UNCHANGED <<producerId, sequence>>
        BY <3>2, <1>5 DEF FailBatch
      <4> QED
        BY <4>1, <1>1, <1>5, Zenon DEF Sequenced
    <3> QED
      BY <3>1, <3>2, Zenon
  <2> QED
    BY <2>1, <2>2, <1>1 DEF Rest
<1> QED
  BY <1>3, <1>4, <1>5, Zenon DEF CompleteBatch

----------------------------------------------------------------------------
(* The theorems *)

LEMMA InitIInv == Init => IInv
<1> SUFFICES ASSUME Init PROVE IInv
  OBVIOUS
<1>1. TypeOK
  BY InitTypeOK, Zenon
<1>2. /\ created = 0 /\ drained = {} /\ handling = {} /\ requests = {}
      /\ incomplete = {} /\ inFlight = {} /\ expired = {} /\ ~needsReset /\ ~raised
      /\ pc = "loop" /\ producerId = NoPid /\ lastPid = NoPid
      /\ \A b \in Batches : final[b] = "none" /\ attempts[b] = 0 /\ bpid[b] = NoPid
      /\ \A p \in Partitions : batches[p] = << >> /\ sequence[p] = NoSeq
  BY Zenon DEF Init
<1>3. Pending = {}
  BY <1>2 DEF Pending
<1>4. \A p \in Partitions : Queued(p) = {} /\ IsInjective(batches[p])
  <2>1. << >> \in Seq(Batches)
    OBVIOUS
  <2>2. Len(<< >>) = 0
    OBVIOUS
  <2>3. ASSUME NEW s \in Seq(Batches), Len(s) = 0 PROVE Range(s) = {} /\ IsInjective(s)
    <3>1. \A x : x \in Range(s) <=> \E i \in 1 .. Len(s) : s[i] = x
      BY SeqRange
    <3>2. IsInjective(s) <=> \A i, j \in 1 .. Len(s) : s[i] = s[j] => i = j
      BY SeqRange, Zenon
    <3> QED
      BY <2>3, <3>1, <3>2
  <2> QED
    BY <2>1, <2>2, <2>3, <1>2, Zenon DEF Queued
<1>5. Placed /\ Separate
  BY <1>2, <1>3, <1>4 DEF Placed, Separate
<1>6. Phases /\ OneInFlight /\ SucceededIsSettled /\ NeverRaises
  BY <1>2, <1>3, Zenon DEF Phases, OneInFlight, SucceededIsSettled, NeverRaises
<1>7. NothingLost
  <2>1. \A b \in Batches : ~(b <= created)
    BY <1>2 DEF Batches
  <2> QED
    BY <2>1, <1>2, <1>4, Zenon DEF NothingLost
<1>8. Sequenced
  BY <1>2, <1>3 DEF Sequenced, NoPid, NoSeq
<1> QED
  BY <1>1, <1>5, <1>6, <1>7, <1>8 DEF IInv

LEMMA NextIInv == IInv /\ [Next]_vars => IInv'
<1> SUFFICES ASSUME IInv, [Next]_vars PROVE Rest'
  BY NextTypeOK, Zenon DEF IInv, Rest
<1> USE DEF batchVars, accVars, senderVars, tmVars, envVars
<1>1. ASSUME NEW p \in Partitions, AppendToBatch(p) PROVE Rest'
  BY <1>1, FrameStep DEF AppendToBatch
<1>2. ASSUME NEW p \in Partitions, AppendNewBatch(p) PROVE Rest'
  BY <1>2, AppendNewBatchStep, Zenon
<1>3. CASE Tick
  BY <1>3, FrameStep DEF Tick
<1>4. CASE InitProducerId
  BY <1>4, InitProducerIdStep, Zenon
<1>5. CASE InitProducerIdFails
  BY <1>5, FrameStep, Zenon DEF InitProducerIdFails, AtLoop, AfterFatal
<1>6. CASE RunOnceFatal
  BY <1>6, FrameStep DEF RunOnceFatal, AtLoop, AfterFatal
<1>7. ASSUME NEW P \in SUBSET Partitions, Drain(P) PROVE Rest'
  BY <1>7, DrainStep
<1>8. ASSUME NEW p \in Partitions, ExpireQueued(p) PROVE Rest'
  BY <1>8, ExpireQueuedStep
<1>9. CASE ExpireInFlight
  BY <1>9, ExpireInFlightStep
<1>10. ASSUME NEW b \in Batches, FailExpired(b) PROVE Rest'
  BY <1>10, FailExpiredStep
<1>11. CASE ResetProducerId
  BY <1>11, ResetProducerIdStep
<1>12. ASSUME NEW leader, Send(leader) PROVE Rest'
  BY <1>12, SendStep, Zenon
<1>13. ASSUME NEW b \in Batches, CompleteBatch(b) PROVE Rest'
  BY <1>13, CompleteBatchStep
<1>14. CASE EndPoll
  BY <1>14, FrameStep DEF EndPoll
<1>15. ASSUME NEW S \in requests, Response(S) \/ FailedProduce(S) PROVE Rest'
  BY <1>15, ResponseStep, Zenon
<1>16. ASSUME NEW b \in Batches, BrokerAppend(b) PROVE Rest'
  BY <1>16, FrameStep, Zenon DEF BrokerAppend
<1>17. ASSUME NEW z \in zombies, BrokerAppendLate(z) PROVE Rest'
  BY <1>17, FrameStep, Zenon DEF BrokerAppendLate
<1>18. ASSUME NEW b \in Batches, NEW e \in ErrorKinds, BrokerRefuse(b, e) PROVE Rest'
  BY <1>18, FrameStep, Zenon DEF BrokerRefuse
<1>19. CASE UNCHANGED vars
  BY <1>19, FrameStep DEF vars
<1> QED
  BY <1>1, <1>2, <1>3, <1>4, <1>5, <1>6, <1>7, <1>8, <1>9, <1>10, <1>11, <1>12, <1>13,
     <1>14, <1>15, <1>16, <1>17, <1>18, <1>19, Zenon DEF Next, RunOnce, Network

\* IInv is an invariant: the inductive strengthening the theorems below use.
THEOREM Invariance == Spec => []IInv
BY InitIInv, NextIInv, PTL DEF Spec

\* Every variable of the producer keeps its type, in particular the records of
\* a batch stay within batch_size (ProducerBatch.try_append).
THEOREM TypeCorrect == Spec => []TypeOK
<1>1. IInv => TypeOK
  BY DEF IInv
<1> QED
  BY <1>1, Invariance, PTL

\* No accepted record is lost inside the producer or kept in two places, for
\* any number of partitions, batches, retries and faults: the deques, the
\* in-flight heap and the expired list of the sender partition _incomplete.
THEOREM NothingIsLost == Spec => []NothingLost
<1>1. IInv => NothingLost
  BY DEF IInv
<1> QED
  BY <1>1, Invariance, PTL

\* With the message order guaranteed, a partition has at most one batch whose
\* outcome is unknown, and is muted while it has one (drain, muted and the
\* unmuting in _complete_batch).
THEOREM OrderGuaranteed == Spec => []OneInFlight
<1>1. IInv => OneInFlight
  BY DEF IInv
<1> QED
  BY <1>1, Invariance, PTL

\* The internal-consistency exceptions of done, _get_expired_inflight_batches,
\* increment_sequence_number and muted.remove are never raised.
THEOREM ChecksNeverFire == Spec => []NeverRaises
<1>1. IInv => NeverRaises
  BY DEF IInv
<1> QED
  BY <1>1, Invariance, PTL

=============================================================================
