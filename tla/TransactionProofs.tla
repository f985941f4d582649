------------------------- MODULE TransactionProofs --------------------------
(***************************************************************************)
(* The safety properties of the transactional producer, for any partitions *)
(* and any number of sends, transactions and faults: RInv for the requests *)
(* of TransactionManager, BInv for what they have to do with the batches,  *)
(* and the theorems that follow from the two.                              *)
(***************************************************************************)
EXTENDS Transactions, TLAPS

\* Requests that look a coordinator up.
Find == {"FindGroup", "FindTransaction"}

\* The requests in a queue.
Elements(q) == {q[i] : i \in 1 .. Len(q)}

\* The heap: requests in the order of their priority, with one at most that the
\* application waits for.
Sorted(q) == \A i, j \in 1 .. Len(q) : i <= j => Priority(q[i]) <= Priority(q[j])
Owned(q) == \A i, j \in 1 .. Len(q) : OwnsResult(q[i]) /\ OwnsResult(q[j]) => i = j
Heap(q) == q \in Seq(Handlers) /\ Sorted(q) /\ Owned(q)

LEMMA PriorityType == \A h \in Handlers : Priority(h) \in 0 .. 3
  BY DEF Handlers, Kinds, Priority

LEMMA EndTxnHasLowestPriority ==
  \A h \in Handlers : Priority(h) >= 3 => h.kind = "EndTxn" /\ OwnsResult(h)
  BY DEF Handlers, Kinds, Priority, OwnsResult

\* _enqueue_request puts a request behind those that are as urgent.
LEMMA EnqueueKeepsHeap ==
  ASSUME NEW q, Heap(q), NEW h \in Handlers,
         OwnsResult(h) => \A g \in Elements(q) : ~OwnsResult(g)
  PROVE  /\ Heap(Enqueue(q, h))
         /\ Elements(Enqueue(q, h)) \subseteq Elements(q) \cup {h}
<1> DEFINE e == Enqueue(q, h)
           n == Len(q)
           P(g) == Priority(g)
           Stays(i) == i <= n /\ P(q[i]) <= P(h) /\ e[i] = q[i]
           Comes(i) == (i = n + 1 \/ P(q[i]) > P(h)) /\ (i = 1 \/ P(q[i - 1]) <= P(h)) /\ e[i] = h
           Moves(i) == i > 1 /\ P(q[i - 1]) > P(h) /\ e[i] = q[i - 1]
<1>1. q \in Seq(Handlers) /\ n \in Nat /\ \A i \in 1 .. n : q[i] \in Handlers
  BY DEF Heap
<1>2. e = [i \in 1 .. n + 1 |-> IF i <= n /\ P(q[i]) <= P(h) THEN q[i]
                                ELSE IF i = 1 \/ P(q[i - 1]) <= P(h) THEN h ELSE q[i - 1]]
  BY DEF Enqueue
<1>3. P(h) \in Nat /\ \A i \in 1 .. n : P(q[i]) \in Nat
  BY <1>1, PriorityType
<1>4. \A i, j \in 1 .. n : i <= j => P(q[i]) <= P(q[j])
  BY DEF Heap, Sorted
<1> HIDE DEF e, n, P
<1>5. \A i \in 1 .. n + 1 : Stays(i) \/ Comes(i) \/ Moves(i)
  <2> SUFFICES ASSUME NEW i \in 1 .. n + 1 PROVE Stays(i) \/ Comes(i) \/ Moves(i)
    OBVIOUS
  <2>1. i <= n => i \in 1 .. n
    BY <1>1
  <2>2. i # 1 => i > 1 /\ i - 1 \in 1 .. n
    BY <1>1
  <2>3. i > n => i = n + 1
    BY <1>1
  <2> QED  BY <1>1, <1>2, <1>3, <2>1, <2>2, <2>3
<1>6. \A i \in 1 .. n + 1 : (i <= n => i \in 1 .. n) /\ (i > 1 => i - 1 \in 1 .. n)
  BY <1>1
<1>7. e \in Seq(Handlers) /\ Len(e) = n + 1
  <2>1. \A i \in 1 .. n + 1 : e[i] \in Handlers
    BY <1>1, <1>5, <1>6
  <2>2. e \in [1 .. n + 1 -> Handlers] /\ n + 1 \in Nat
    BY <1>1, <1>2, <2>1
  <2> QED  BY <2>2
<1>8. \A i, j \in 1 .. n + 1 : i < j =>
          /\ Stays(j) \/ Comes(j) => Stays(i)
          /\ Moves(i) => Moves(j)
  <2> SUFFICES ASSUME NEW i \in 1 .. n + 1, NEW j \in 1 .. n + 1, i < j
               PROVE  (Stays(j) \/ Comes(j) => Stays(i)) /\ (Moves(i) => Moves(j))
    OBVIOUS
  <2>1. i \in 1 .. n /\ j - 1 \in 1 .. n /\ i <= j - 1 /\ j # 1 /\ (i > 1 => i - 1 \in 1 .. n)
    BY <1>1
  <2>2. /\ P(q[i]) <= P(q[j - 1]) /\ (j <= n => P(q[i]) <= P(q[j]))
        /\ i > 1 => P(q[i - 1]) <= P(q[j - 1]) /\ (j <= n => P(q[i - 1]) <= P(q[j]))
    BY <1>1, <1>4, <2>1
  <2>3. P(h) \in Nat /\ P(q[i]) \in Nat /\ P(q[j - 1]) \in Nat /\ (j <= n => P(q[j]) \in Nat)
        /\ (i > 1 => P(q[i - 1]) \in Nat)
    BY <1>1, <1>3, <2>1
  <2>4. P(q[i]) <= P(h) => Stays(i)
    BY <1>1, <1>2, <2>1
  <2>5. P(q[j - 1]) > P(h) /\ (j <= n => P(q[j]) > P(h)) => e[j] = q[j - 1]
    <3>1. \A a, b \in Nat : a > b => ~(a <= b)
      OBVIOUS
    <3>2. e[j] = IF j <= n /\ P(q[j]) <= P(h) THEN q[j]
                 ELSE IF j = 1 \/ P(q[j - 1]) <= P(h) THEN h ELSE q[j - 1]
      BY <1>2
    <3> QED  BY <2>1, <2>3, <3>1, <3>2, Zenon
  <2>6. Stays(j) \/ Comes(j) => P(q[i]) <= P(h)
    BY <2>1, <2>2, <2>3
  <2>7. Moves(i) => i > 1 /\ P(q[j - 1]) > P(h) /\ (j <= n => P(q[j]) > P(h))
    BY <2>1, <2>2, <2>3
  <2>8. j > 1
    BY <1>1
  <2> QED  BY <2>4, <2>5, <2>6, <2>7, <2>8, Zenon
<1>9. Sorted(e)
  <2> SUFFICES ASSUME NEW i \in 1 .. n + 1, NEW j \in 1 .. n + 1, i <= j
               PROVE  P(e[i]) <= P(e[j])
    BY <1>7 DEF Sorted, P
  <2>1. CASE i = j
    <3>1. e[j] \in Handlers
      BY <1>7
    <3>2. P(e[j]) \in Nat
      BY <3>1, PriorityType DEF P
    <3>3. \A m \in Nat : m <= m
      OBVIOUS
    <3> QED  BY <2>1, <3>2, <3>3, Zenon
  <2>2. CASE i < j
    <3>1. CASE Stays(j)
      BY <1>1, <1>4, <1>6, <1>8, <2>2, <3>1
    <3>2. CASE Comes(j)
      BY <1>8, <2>2, <3>2
    <3>3. CASE Moves(j)
      <4>1. \/ e[i] = q[i] /\ i \in 1 .. n /\ j - 1 \in 1 .. n /\ i <= j - 1
            \/ e[i] = h
            \/ e[i] = q[i - 1] /\ i - 1 \in 1 .. n /\ j - 1 \in 1 .. n /\ i - 1 <= j - 1
        BY <1>1, <1>5, <1>6, <2>2, <3>3
      <4> QED  BY <1>3, <1>4, <1>6, <3>3, <4>1
    <3> QED  BY <1>5, <3>1, <3>2, <3>3
  <2> QED  BY <2>1, <2>2
<1>10. Owned(e)
  <2>1. \A i, j \in 1 .. n : OwnsResult(q[i]) /\ OwnsResult(q[j]) => i = j
    BY DEF Heap, Owned, n
  <2>2. OwnsResult(h) => \A i \in 1 .. n : ~OwnsResult(q[i])
    BY DEF Elements, n
  <2> SUFFICES ASSUME NEW i \in 1 .. n + 1, NEW j \in 1 .. n + 1, i < j,
                      OwnsResult(e[i]), OwnsResult(e[j])
               PROVE  FALSE
    BY <1>1, <1>7 DEF Owned
  <2>3. CASE Stays(j)
    BY <1>6, <1>8, <2>1, <2>3
  <2>4. CASE Comes(j)
    BY <1>6, <1>8, <2>2, <2>4
  <2>5. CASE Moves(j) /\ Stays(i)
    BY <1>1, <1>3, <1>6, <2>1, <2>5
  <2>6. CASE Moves(j) /\ Comes(i)
    BY <1>6, <2>2, <2>6
  <2>7. CASE Moves(j) /\ Moves(i)
    BY <1>1, <1>6, <2>1, <2>7
  <2> QED  BY <1>5, <2>3, <2>4, <2>5, <2>6, <2>7
<1>11. Elements(e) \subseteq Elements(q) \cup {h}
  <2>1. \A i \in 1 .. n + 1 : e[i] = h \/ \E j \in 1 .. n : e[i] = q[j]
    BY <1>5, <1>6
  <2> QED  BY <1>7, <2>1 DEF Elements, n
<1> QED  BY <1>7, <1>9, <1>10, <1>11 DEF Heap, e

\* heappop, and an EndTxn that is the first request is the only one.
LEMMA PopKeepsHeap ==
  ASSUME NEW q, Heap(q), q # << >>
  PROVE  /\ Heap(Tail(q)) /\ Head(q) \in Handlers
         /\ Elements(q) = Elements(Tail(q)) \cup {Head(q)}
         /\ OwnsResult(Head(q)) => \A g \in Elements(Tail(q)) : ~OwnsResult(g)
         /\ Head(q).kind = "EndTxn" => Tail(q) = << >>
<1> DEFINE n == Len(q)
           t == Tail(q)
<1>1. q \in Seq(Handlers) /\ n \in Nat /\ n >= 1
  BY DEF Heap
<1>2. t \in Seq(Handlers) /\ Len(t) = n - 1 /\ Head(q) = q[1]
      /\ \A i \in 1 .. n - 1 : t[i] = q[i + 1]
  BY <1>1
<1>3. \A i \in 1 .. n : q[i] \in Handlers
  BY <1>1
<1> HIDE DEF t, n
<1>4. \A i, j \in 1 .. n : i <= j => Priority(q[i]) <= Priority(q[j])
  BY DEF Heap, Sorted, n
<1>5. \A i, j \in 1 .. n : OwnsResult(q[i]) /\ OwnsResult(q[j]) => i = j
  BY DEF Heap, Owned, n
<1>6. \A i \in 1 .. n - 1 : i + 1 \in 2 .. n
  BY <1>1
<1>7. Heap(t)
  <2>1. Sorted(t)
    BY <1>1, <1>2, <1>4 DEF Sorted
  <2>2. Owned(t)
    BY <1>1, <1>2, <1>5 DEF Owned
  <2> QED  BY <1>2, <2>1, <2>2 DEF Heap
<1>8. Elements(q) = Elements(t) \cup {Head(q)}
  <2>1. \A i \in 1 .. n : i = 1 \/ (i - 1 \in 1 .. n - 1 /\ t[i - 1] = q[i])
    BY <1>1, <1>2
  <2>2. \A i \in 1 .. n - 1 : i + 1 \in 1 .. n /\ t[i] = q[i + 1]
    BY <1>1, <1>2
  <2>3. 1 \in 1 .. n
    BY <1>1
  <2>4. \A g : g \in Elements(q) <=> \E i \in 1 .. n : g = q[i]
    BY DEF Elements, n
  <2>5. \A g : g \in Elements(t) <=> \E i \in 1 .. n - 1 : g = t[i]
    BY <1>2 DEF Elements
  <2>6. ASSUME NEW g \in Elements(q) PROVE g \in Elements(t) \cup {Head(q)}
    BY <1>2, <2>1, <2>4, <2>5
  <2>7. ASSUME NEW g \in Elements(t) PROVE g \in Elements(q)
    BY <2>2, <2>4, <2>5
  <2> QED  BY <1>2, <2>3, <2>4, <2>6, <2>7
<1>9. OwnsResult(Head(q)) => \A g \in Elements(t) : ~OwnsResult(g)
  BY <1>1, <1>2, <1>5, <1>6 DEF Elements
<1>10. ASSUME Head(q).kind = "EndTxn" PROVE t = << >>
  <2>1. SUFFICES ASSUME n >= 2 PROVE FALSE
    BY <1>1, <1>2
  <2>2. q[2] \in Handlers /\ Priority(q[1]) = 3 /\ Priority(q[1]) <= Priority(q[2])
    <3>1. 1 \in 1 .. n /\ 2 \in 1 .. n
      BY <1>1, <2>1
    <3>2. Priority(q[1]) = 3
      BY <1>2, <1>10 DEF Priority
    <3> QED  BY <1>3, <1>4, <3>1, <3>2
  <2>3. OwnsResult(q[1]) /\ OwnsResult(q[2])
    BY <1>2, <1>10, <2>2, EndTxnHasLowestPriority, PriorityType DEF OwnsResult
  <2> QED  BY <1>1, <1>5, <2>1, <2>3
<1> QED  BY <1>2, <1>3, <1>1, <1>7, <1>8, <1>9, <1>10 DEF t

----------------------------------------------------------------------------
(* The invariant on requests *)

\* The requests of TransactionManager that are not answered for good.
InPlay == Elements(pending) \cup Elements(inFlight)

\* No transaction is open.
Outside == state \in {"UNINITIALIZED", "INITIALIZING", "READY"}

\* The request in flight ends the transaction.
EndSent == inFlight # << >> /\ inFlight[1].kind = "EndTxn"

\* The types of TransactionManager's state; its heap is a heap.
RequestTypes ==
    /\ state \in States
    /\ newParts \subseteq Partitions /\ pendingParts \subseteq Partitions
    /\ partsInTxn \subseteq Partitions /\ started \in BOOLEAN
    /\ Heap(pending) /\ inFlight \in Seq(Handlers) /\ Len(inFlight) <= 1

\* The application waits for one request at a time, the queued one or the one in
\* flight.
Owners ==
    /\ \A h \in InPlay : OwnsResult(h) => result = "pending"
    /\ \A h \in Elements(inFlight), g \in Elements(pending) :
           ~(OwnsResult(h) /\ OwnsResult(g))

\* Between transactions nothing of one is left, and none of its requests is in
\* play.
Requests ==
    /\ Outside =>
        /\ newParts = {} /\ pendingParts = {} /\ partsInTxn = {} /\ ~started
        /\ \A h \in InPlay : h.kind \in Find \cup {"InitProducerId"}
    /\ \A h \in InPlay : h.kind = "InitProducerId" => state = "INITIALIZING"
    /\ \A h \in InPlay : h.kind = "EndTxn" =>
        state \in {"COMMITTING", "ABORTING", "ABORTABLE_ERROR", "FATAL_ERROR"}

\* While a transaction completes its EndTxn is the only request that the
\* application waits for, and it says what the application asked for.
Completing ==
    IsCompleting =>
        /\ result = "pending" /\ newParts = {}
        /\ \A h \in InPlay : OwnsResult(h) =>
               h.kind = "EndTxn" /\ h.committed = (state = "COMMITTING")

\* run_once sends one transactional request at a time, and EndTxn as the last.
OneAtATime ==
    /\ pc \in {"next", "produce"} => inFlight = << >>
    /\ EndSent => pending = << >>

\* The invariant of TransactionManager's requests.
RInv == RequestTypes /\ Owners /\ Requests /\ Completing /\ OneAtATime

LEMMA ElementsOfEmpty == Elements(<< >>) = {}
  BY DEF Elements

LEMMA ElementsOfOne ==
  ASSUME NEW h, NEW q, q = << >> PROVE Elements(Append(q, h)) = {h}
<1>1. Append(q, h) = <<h>> /\ 1 .. Len(<<h>>) = {1} /\ <<h>>[1] = h
  OBVIOUS
<1> QED  BY <1>1, Zenon DEF Elements

LEMMA InFlightRequest ==
  ASSUME RequestTypes, inFlight # << >>
  PROVE  inFlight[1] \in Handlers /\ Elements(inFlight) = {inFlight[1]}
<1>1. inFlight \in Seq(Handlers) /\ Len(inFlight) = 1
  <2>1. inFlight \in Seq(Handlers) /\ Len(inFlight) <= 1
    BY DEF RequestTypes
  <2>2. Len(inFlight) \in Nat /\ Len(inFlight) # 0
    BY <2>1
  <2>3. \A n \in Nat : n # 0 /\ n <= 1 => n = 1
    OBVIOUS
  <2> QED  BY <2>1, <2>2, <2>3, Zenon
<1>2. 1 .. Len(inFlight) = {1} /\ inFlight[1] \in Handlers
  BY <1>1
<1> QED  BY <1>2, Zenon DEF Elements

\* A step that leaves the state alone and takes requests away, repeats them, or
\* adds a lookup or a request of the ongoing transaction.
LEMMA Exchange ==
  ASSUME RInv, Heap(pending'), inFlight' \in Seq(Handlers), Len(inFlight') <= 1,
         UNCHANGED <<state, result>>,
         newParts' \in {newParts, {}}, pendingParts' \subseteq Partitions,
         partsInTxn' \subseteq Partitions, started' \in BOOLEAN,
         Outside => UNCHANGED <<newParts, pendingParts, partsInTxn, started>>,
         \A h \in Elements(pending') \cup Elements(inFlight') :
             \/ h \in InPlay \/ h.kind \in Find
             \/ ~Outside /\ h.kind = "AddPartitions"
             \/ ~Outside /\ h.kind = "TxnOffsetCommit" /\ ~IsCompleting /\ result = "pending",
         \A h \in Elements(inFlight'), g \in Elements(pending') :
             ~(OwnsResult(h) /\ OwnsResult(g)),
         pc' \in {"next", "produce"} => inFlight' = << >>,
         inFlight' # << >> /\ inFlight'[1].kind = "EndTxn" => pending' = << >>
  PROVE  RInv'
<1> USE DEF RInv
<1>1. RequestTypes'
  BY DEF RequestTypes
<1>2. ASSUME NEW h \in InPlay', OwnsResult(h)
      PROVE  h \in InPlay \/ (h.kind = "TxnOffsetCommit" /\ ~IsCompleting /\ result = "pending")
  BY <1>2 DEF InPlay, OwnsResult, Find
<1>3. Owners'
  BY <1>2 DEF Owners, InPlay
<1>4. Requests'
  BY DEF Requests, Outside, InPlay, Find
<1>5. Completing'
  BY <1>2 DEF Completing, IsCompleting
<1>6. OneAtATime'
  BY DEF OneAtATime, EndSent
<1> QED  BY <1>1, <1>3, <1>4, <1>5, <1>6

\* A step that leaves the requests alone and may fail the transaction.
LEMMA Failing ==
  ASSUME RInv, UNCHANGED <<newParts, pendingParts, partsInTxn, started, pending, inFlight, result>>,
         state' = state \/ (state' \in {"ABORTABLE_ERROR", "FATAL_ERROR"} /\ state # "INITIALIZING"),
         pc' \in {"next", "produce"} => inFlight = << >>
  PROVE  RInv'
<1> USE DEF RInv
<1>0. InPlay' = InPlay
  BY DEF InPlay
<1>1. RequestTypes'
  BY DEF RequestTypes, States
<1>2. Owners'
  BY <1>0 DEF Owners
<1>3. Requests'
  BY <1>0 DEF Requests, Outside
<1>4. Completing'
  BY <1>0 DEF Completing, IsCompleting
<1>5. OneAtATime'
  BY DEF OneAtATime, EndSent
<1> QED  BY <1>1, <1>2, <1>3, <1>4, <1>5

LEMMA HandlerTypes ==
  /\ InitProducerId \in Handlers /\ AddOffsets \in Handlers /\ TxnOffsetCommit \in Handlers
  /\ \A c \in BOOLEAN : EndTxn(c) \in Handlers /\ EndTxn(c).kind = "EndTxn" /\ EndTxn(c).committed = c
  /\ \A ps \in SUBSET Partitions : AddPartitions(ps) \in Handlers /\ AddPartitions(ps).kind = "AddPartitions"
  /\ \A type : FindCoordinator(type) \in Handlers /\ FindCoordinator(type).kind \in Find
  /\ InitProducerId.kind = "InitProducerId" /\ AddOffsets.kind = "AddOffsets"
  /\ TxnOffsetCommit.kind = "TxnOffsetCommit"
  BY Zenon DEF Handlers, Kinds, Handler, InitProducerId, AddOffsets, TxnOffsetCommit, EndTxn,
         AddPartitions, FindCoordinator, Find

\* Requests that the application does not wait for
LEMMA NotOwners ==
  \A h : h.kind \in Find \cup {"AddPartitions"} => ~OwnsResult(h)
  BY DEF OwnsResult, Find

----------------------------------------------------------------------------
(* The application's calls *)

LEMMA InitTransactionsRInv ==
  ASSUME RInv, InitTransactions PROVE RInv'
<1> USE DEF RInv
<1> DEFINE h == InitProducerId
<1>1. /\ result # "pending" /\ state = "UNINITIALIZED" /\ state' = "INITIALIZING"
      /\ pending' = Enqueue(pending, h) /\ result' = "pending"
      /\ UNCHANGED <<newParts, pendingParts, partsInTxn, started, inFlight, pc>>
  BY DEF InitTransactions, InitializeTransactions, TransitionTo, Valid, Calling
<1>2. \A g \in InPlay : ~OwnsResult(g)
  BY <1>1 DEF Owners
<1>3. Heap(pending') /\ Elements(pending') \subseteq Elements(pending) \cup {h} /\ h.kind = "InitProducerId"
  BY <1>1, <1>2, EnqueueKeepsHeap, HandlerTypes DEF RequestTypes, InPlay
<1>4. InPlay' \subseteq InPlay \cup {h}
  BY <1>1, <1>3 DEF InPlay
<1>5. RequestTypes'
  BY <1>1, <1>3 DEF RequestTypes, States
<1>6. Owners'
  BY <1>1, <1>2, <1>3, <1>4 DEF Owners, InPlay
<1>7. Requests'
  BY <1>1, <1>3, <1>4 DEF Requests, Outside
<1>8. Completing' /\ OneAtATime'
  BY <1>1, <1>2, <1>3 DEF Completing, IsCompleting, OneAtATime, EndSent, Requests, Outside, InPlay,
     Elements, RequestTypes, Find
<1> QED  BY <1>5, <1>6, <1>7, <1>8

LEMMA BeginTransactionRInv ==
  ASSUME RInv, BeginTransaction PROVE RInv'
<1> USE DEF RInv
<1>1. /\ state = "READY" /\ state' = "IN_TRANSACTION" /\ result # "pending"
      /\ UNCHANGED <<newParts, pendingParts, partsInTxn, started, pending, inFlight, result, pc>>
  BY DEF BeginTransaction, EnterTransaction, TransitionTo, Valid, Calling, reqVars
<1>2. InPlay' = InPlay
  BY <1>1 DEF InPlay
<1>3. RequestTypes' /\ Owners'
  BY <1>1, <1>2 DEF RequestTypes, States, Owners
<1>4. Requests'
  BY <1>1, <1>2 DEF Requests, Outside, Find
<1>5. Completing' /\ OneAtATime'
  BY <1>1 DEF Completing, IsCompleting, OneAtATime, EndSent
<1> QED  BY <1>3, <1>4, <1>5

LEMMA SendRInv ==
  ASSUME RInv, NEW p \in Partitions, Send(p) PROVE RInv'
<1> USE DEF RInv
<1>1. /\ state = "IN_TRANSACTION" /\ newParts' \subseteq newParts \cup {p}
      /\ UNCHANGED <<state, pendingParts, partsInTxn, started, pending, inFlight, result, pc>>
  BY DEF Send, reqVars
<1>2. InPlay' = InPlay
  BY <1>1 DEF InPlay
<1>3. RequestTypes' /\ Owners'
  BY <1>1, <1>2 DEF RequestTypes, States, Owners
<1>4. Requests'
  BY <1>1, <1>2 DEF Requests, Outside
<1>5. Completing' /\ OneAtATime'
  BY <1>1 DEF Completing, IsCompleting, OneAtATime, EndSent
<1> QED  BY <1>3, <1>4, <1>5

LEMMA SendOffsetsRInv ==
  ASSUME RInv, SendOffsets PROVE RInv'
<1> USE DEF RInv
<1> DEFINE h == AddOffsets
<1>1. /\ result # "pending" /\ state = "IN_TRANSACTION"
      /\ pending' = Enqueue(pending, h) /\ result' = "pending"
      /\ UNCHANGED <<state, newParts, pendingParts, partsInTxn, started, inFlight, pc>>
  BY DEF SendOffsets, EnqueueOffsets, Calling, tmVars
<1>2. \A g \in InPlay : ~OwnsResult(g)
  BY <1>1 DEF Owners
<1>3. Heap(pending') /\ Elements(pending') \subseteq Elements(pending) \cup {h} /\ h.kind = "AddOffsets"
  BY <1>1, <1>2, EnqueueKeepsHeap, HandlerTypes DEF RequestTypes, InPlay
<1>4. InPlay' \subseteq InPlay \cup {h}
  BY <1>1, <1>3 DEF InPlay
<1>5. RequestTypes'
  BY <1>1, <1>3 DEF RequestTypes
<1>6. Owners'
  BY <1>1, <1>2, <1>3, <1>4 DEF Owners, InPlay
<1>7. Requests'
  BY <1>1, <1>3, <1>4 DEF Requests, Outside
<1>8. Completing'
  BY <1>1, Zenon DEF Completing, IsCompleting
<1>9. ~EndSent
  BY <1>1, InFlightRequest DEF EndSent, Requests, InPlay
<1>10. OneAtATime'
  BY <1>1, <1>9 DEF OneAtATime, EndSent
<1> QED  BY <1>5, <1>6, <1>7, <1>8, <1>10

LEMMA BeginCompletingRInv ==
  ASSUME RInv, NEW c \in BOOLEAN, Calling, BeginCompleting(c),
         IF c THEN state = "IN_TRANSACTION" /\ state' = "COMMITTING"
         ELSE state \in {"IN_TRANSACTION", "ABORTABLE_ERROR"} /\ state' = "ABORTING"
  PROVE  RInv'
<1> USE DEF RInv
<1> DEFINE toAdd == IF c THEN newParts ELSE {}
           a == AddPartitions(pendingParts \cup toAdd)
           q == IF toAdd = {} THEN pending ELSE Enqueue(pending, a)
           h == EndTxn(c)
<1>1. /\ result # "pending" /\ result' = "pending" /\ newParts' = {}
      /\ pendingParts' = pendingParts \cup toAdd /\ pending' = Enqueue(q, h)
      /\ UNCHANGED <<partsInTxn, started, inFlight, pc>>
  BY DEF BeginCompleting, Calling
<1>2. \A g \in InPlay : ~OwnsResult(g)
  BY <1>1 DEF Owners
<1>3. /\ a \in Handlers /\ a.kind = "AddPartitions" /\ ~OwnsResult(a)
      /\ h \in Handlers /\ h.kind = "EndTxn" /\ h.committed = c
  BY HandlerTypes, NotOwners DEF RequestTypes
<1> HIDE DEF a, h
<1>4. Heap(q) /\ Elements(q) \subseteq Elements(pending) \cup {a}
  BY <1>3, EnqueueKeepsHeap DEF RequestTypes
<1>5. \A g \in Elements(q) : ~OwnsResult(g)
  BY <1>2, <1>3, <1>4 DEF InPlay
<1> HIDE DEF q
<1>6. Heap(pending') /\ Elements(pending') \subseteq Elements(q) \cup {h}
  BY <1>1, <1>3, <1>4, <1>5, EnqueueKeepsHeap
<1>7. InPlay' \subseteq InPlay \cup {a, h}
  BY <1>1, <1>4, <1>6 DEF InPlay
<1>8. RequestTypes'
  BY <1>1, <1>6 DEF RequestTypes, States
<1>9. Owners'
  BY <1>1, <1>2, <1>5, <1>6 DEF Owners, InPlay
<1>10. Requests'
  BY <1>1, <1>3, <1>7 DEF Requests, Outside
<1>11. Completing'
  BY <1>1, <1>2, <1>3, <1>7 DEF Completing, IsCompleting
<1>12. OneAtATime'
  <2>1. ~EndSent
    BY <1>2, InFlightRequest DEF EndSent, InPlay, OwnsResult
  <2> QED  BY <1>1, <2>1 DEF OneAtATime, EndSent
<1> QED  BY <1>8, <1>9, <1>10, <1>11, <1>12

LEMMA CompletingRInv ==
  ASSUME RInv, CommitTransaction \/ AbortTransaction PROVE RInv'
<1>1. CASE CommitTransaction
  <2>1. Calling /\ BeginCompleting(TRUE) /\ state = "IN_TRANSACTION" /\ state' = "COMMITTING"
    BY <1>1, Zenon DEF CommitTransaction, BeginCommit, TransitionTo, Valid
  <2> QED  BY <2>1, BeginCompletingRInv, Zenon
<1>2. CASE AbortTransaction
  <2>1. /\ Calling /\ BeginCompleting(FALSE) /\ state' = "ABORTING"
        /\ state \in {"IN_TRANSACTION", "ABORTABLE_ERROR"}
    BY <1>2, Zenon DEF AbortTransaction, BeginAbort, TransitionTo, Valid
  <2> QED  BY <2>1, BeginCompletingRInv, Zenon
<1> QED  BY <1>1, <1>2

----------------------------------------------------------------------------
(* next_request_handler *)

LEMMA CandidatesHeap ==
  ASSUME RInv
  PROVE  /\ Heap(Candidates)
         /\ \A h \in Elements(Candidates) :
                h \in Elements(pending) \/ (~Outside /\ h.kind = "AddPartitions")
         /\ newParts # {} => ~Outside
<1> USE DEF RInv
<1> DEFINE a == AddPartitions(pendingParts \cup newParts)
<1>1. a \in Handlers /\ a.kind = "AddPartitions" /\ ~OwnsResult(a)
  BY HandlerTypes, NotOwners DEF RequestTypes
<1> HIDE DEF a
<1>2. newParts # {} => ~Outside
  BY DEF Requests
<1>3. CASE newParts = {}
  BY <1>3 DEF Candidates, RequestTypes
<1>4. CASE newParts # {}
  <2>1. Candidates = Enqueue(pending, a)
    BY <1>4 DEF Candidates, a
  <2> QED  BY <1>1, <1>2, <1>4, <2>1, EnqueueKeepsHeap DEF RequestTypes
<1> QED  BY <1>2, <1>3, <1>4

\* The lookup of a coordinator keeps the order of the heap.
LEMMA LookupKeepsHeap ==
  ASSUME NEW q, Heap(q), NEW h \in Handlers, OwnsResult(h) => \A g \in Elements(q) : ~OwnsResult(g)
  PROVE  /\ Heap(LookupAndReenqueue(q, h))
         /\ \A g \in Elements(LookupAndReenqueue(q, h)) :
                g \in Elements(q) \cup {h} \/ g.kind \in Find
<1> DEFINE f == FindCoordinator(CoordinatorType(h))
           r == Enqueue(q, f)
<1>1. f \in Handlers /\ f.kind \in Find /\ ~OwnsResult(f)
  BY HandlerTypes, NotOwners
<1> HIDE DEF f
<1>2. Heap(r) /\ Elements(r) \subseteq Elements(q) \cup {f}
  BY <1>1, EnqueueKeepsHeap
<1> HIDE DEF r
<1>3. OwnsResult(h) => \A g \in Elements(r) : ~OwnsResult(g)
  BY <1>1, <1>2
<1>4. Heap(Enqueue(r, h)) /\ Elements(Enqueue(r, h)) \subseteq Elements(r) \cup {h}
  BY <1>2, <1>3, EnqueueKeepsHeap
<1>5. Heap(Enqueue(q, h)) /\ Elements(Enqueue(q, h)) \subseteq Elements(q) \cup {h}
  BY EnqueueKeepsHeap
<1>6. LookupAndReenqueue(q, h) \in {Enqueue(q, h), Enqueue(r, h)}
  BY DEF LookupAndReenqueue, r, f
<1> QED  BY <1>1, <1>2, <1>4, <1>5, <1>6

\* A request is taken from the heap: what is left, and the request itself.
LEMMA Popping ==
  ASSUME RInv, pc = "next", ~NothingToSend
  PROVE  /\ inFlight = << >> /\ Heap(Popped) /\ Top \in Handlers
         /\ Top.kind = "EndTxn" => Popped = << >>
         /\ OwnsResult(Top) => \A g \in Elements(Popped) : ~OwnsResult(g)
         /\ \A h \in Elements(Popped) \cup {Top} :
                h \in InPlay \/ (~Outside /\ h.kind = "AddPartitions")
         /\ newParts # {} => ~Outside
<1>1. Candidates # << >> /\ inFlight = << >>
  BY DEF NothingToSend, RInv, OneAtATime
<1>2. Elements(Candidates) = Elements(Popped) \cup {Top}
  BY <1>1, CandidatesHeap, PopKeepsHeap, Zenon DEF Popped, Top
<1> QED  BY <1>1, <1>2, CandidatesHeap, PopKeepsHeap DEF Popped, Top, InPlay

LEMMA NextRequestRInv ==
  ASSUME RInv, NextRequest PROVE RInv'
<1> USE DEF RInv
<1>1. pc = "next" /\ inFlight = << >>
  BY Zenon DEF NextRequest, OneAtATime
<1>2. CASE /\ NothingToSend /\ pc' = "produce" /\ pending' = Candidates
           /\ newParts' = {} /\ pendingParts' = pendingParts \cup newParts
           /\ UNCHANGED <<state, partsInTxn, started, inFlight, result>>
  <2>1. Elements(inFlight') = {}
    BY <1>1, <1>2, ElementsOfEmpty
  <2>2. Outside => UNCHANGED <<newParts, pendingParts, partsInTxn, started>>
    BY <1>2, CandidatesHeap DEF Requests
  <2> QED  BY <1>1, <1>2, <2>1, <2>2, CandidatesHeap, Exchange DEF RequestTypes, InPlay
<1>3. CASE /\ ~NothingToSend /\ Terminated(Top) /\ pc' = "produce" /\ pending' = Popped
           /\ result' = IF OwnsResult(Top) THEN "failed" ELSE result
           /\ newParts' = {} /\ pendingParts' = pendingParts \cup newParts
           /\ UNCHANGED <<state, partsInTxn, started, inFlight>>
  <2>1. state \in {"ABORTABLE_ERROR", "FATAL_ERROR"}
    BY <1>3 DEF Terminated, HasError, HasAbortableError, HasFatalError
  <2>2. /\ Heap(pending') /\ inFlight' = << >> /\ InPlay' = Elements(Popped)
        /\ \A h \in InPlay' : h \in InPlay \/ (~Outside /\ h.kind = "AddPartitions")
        /\ OwnsResult(Top) => \A g \in InPlay' : ~OwnsResult(g)
        /\ OwnsResult(Top) => Top \in InPlay
    BY <1>1, <1>3, Popping, ElementsOfEmpty, NotOwners DEF InPlay
  <2>3. RequestTypes'
    BY <1>3, <2>2 DEF RequestTypes
  <2>4. Owners'
    BY <1>3, <2>2, ElementsOfEmpty, NotOwners DEF Owners
  <2>5. Requests'
    BY <1>3, <2>1, <2>2 DEF Requests, Outside
  <2>6. Completing' /\ OneAtATime'
    BY <1>3, <2>1, <2>2 DEF Completing, IsCompleting, OneAtATime, EndSent
  <2> QED  BY <2>3, <2>4, <2>5, <2>6
<1>4. CASE /\ ~NothingToSend /\ Popped = << >> /\ pc' = "produce" /\ pending' = Popped
           /\ result' = "done" /\ CompleteTransaction /\ UNCHANGED inFlight
  <2>1. InPlay' = {} /\ inFlight' = << >> /\ Elements(inFlight') = {} /\ Heap(pending')
    BY <1>1, <1>4, Popping, ElementsOfEmpty DEF InPlay
  <2>2. RequestTypes' /\ Owners'
    BY <1>4, <2>1, Zenon DEF RequestTypes, States, Owners, CompleteTransaction
  <2>3. Requests' /\ Completing' /\ OneAtATime'
    BY <1>4, <2>1 DEF Requests, Outside, Completing, IsCompleting, OneAtATime, EndSent,
       CompleteTransaction
  <2> QED  BY <2>2, <2>3
<1>5. CASE /\ ~NothingToSend /\ pc' = "poll"
           /\ newParts' = {} /\ pendingParts' = pendingParts \cup newParts
           /\ IF CoordinatorKnown(Top)
              THEN SendRequest(Top) /\ pending' = Popped
              ELSE inFlight' = inFlight /\ pending' = LookupAndReenqueue(Popped, Top)
           /\ UNCHANGED <<state, partsInTxn, started, result>>
  <2>1. Outside => UNCHANGED <<newParts, pendingParts, partsInTxn, started>>
    BY <1>1, <1>5, Popping, Zenon DEF Requests
  <2>2. CASE CoordinatorKnown(Top)
    <3>0. inFlight' = Append(inFlight, Top) /\ pending' = Popped
      BY <1>5, <2>2 DEF SendRequest
    <3>1. inFlight' = <<Top>> /\ Elements(inFlight') = {Top} /\ inFlight'[1] = Top
      <4>1. \A h : Append(<< >>, h) = <<h>> /\ <<h>>[1] = h
        OBVIOUS
      <4> QED  BY <1>1, <3>0, <4>1, ElementsOfOne, Zenon
    <3>2. inFlight' \in Seq(Handlers) /\ Len(inFlight') <= 1
      <4>1. \A h \in Handlers : <<h>> \in Seq(Handlers) /\ Len(<<h>>) <= 1
        OBVIOUS
      <4> QED  BY <1>1, <1>5, <3>1, <4>1, Popping
    <3> QED  BY <1>1, <1>5, <2>1, <3>0, <3>1, <3>2, Popping, Exchange DEF RequestTypes
  <2>3. CASE ~CoordinatorKnown(Top)
    <3>1. /\ Heap(pending') /\ Elements(inFlight') = {} /\ inFlight' = << >>
          /\ \A h \in Elements(pending') : h \in Elements(Popped) \cup {Top} \/ h.kind \in Find
      BY <1>1, <1>5, <2>3, Popping, LookupKeepsHeap, ElementsOfEmpty, Zenon
    <3> QED  BY <1>1, <1>5, <2>1, <3>1, Popping, Exchange DEF RequestTypes
  <2> QED  BY <2>2, <2>3
<1> QED  BY <1>2, <1>3, <1>4, <1>5, Zenon DEF NextRequest

LEMMA CoordinatorNotReadyRInv ==
  ASSUME RInv, CoordinatorNotReady PROVE RInv'
<1> USE DEF RInv
<1>1. /\ pc = "next" /\ ~NothingToSend /\ pc' = "poll"
      /\ newParts' = {} /\ pendingParts' = pendingParts \cup newParts
      /\ UNCHANGED <<state, partsInTxn, started, inFlight, result>>
      /\ \/ pending' = LookupAndReenqueue(Popped, Top)
         \/ pending' = Enqueue(Popped, FindCoordinator(CoordinatorType(Top)))
  BY DEF CoordinatorNotReady
<1>2. Outside => UNCHANGED <<newParts, pendingParts, partsInTxn, started>>
  BY <1>1, Popping, Zenon DEF Requests
<1>3. /\ Heap(pending')
      /\ \A h \in Elements(pending') : h \in Elements(Popped) \cup {Top} \/ h.kind \in Find
  <2> DEFINE f == FindCoordinator(CoordinatorType(Top))
  <2>1. /\ Heap(Popped) /\ Top \in Handlers
        /\ OwnsResult(Top) => \A g \in Elements(Popped) : ~OwnsResult(g)
    BY <1>1, Popping, Zenon
  <2>2. f \in Handlers /\ f.kind \in Find
    BY HandlerTypes, Zenon
  <2>3. ~OwnsResult(f)
    BY <2>2, NotOwners, Zenon
  <2>4. CASE pending' = LookupAndReenqueue(Popped, Top)
    BY <2>1, <2>4, LookupKeepsHeap, Zenon
  <2>5. CASE pending' = Enqueue(Popped, f)
    <3> HIDE DEF f
    <3>1. Heap(Enqueue(Popped, f)) /\ Elements(Enqueue(Popped, f)) \subseteq Elements(Popped) \cup {f}
      BY <2>1, <2>2, <2>3, EnqueueKeepsHeap, Zenon
    <3> QED  BY <2>2, <2>5, <3>1, Zenon
  <2> QED  BY <1>1, <2>4, <2>5, Zenon
<1>4. inFlight' = << >> /\ Elements(inFlight') = {}
  BY <1>1, Popping, ElementsOfEmpty, Zenon
<1> QED  BY <1>1, <1>2, <1>3, <1>4, Popping, Exchange DEF RequestTypes

----------------------------------------------------------------------------
(* Answers to transactional requests *)

LEMMA AnsweredRequest ==
  ASSUME RInv, NEW kind, Answered(kind)
  PROVE  /\ inFlight[1] \in Handlers /\ inFlight[1] \in InPlay /\ inFlight[1].kind = kind
         /\ inFlight' = << >> /\ Elements(inFlight') = {} /\ pc' = "poll"
         /\ inFlight' \in Seq(Handlers) /\ Len(inFlight') <= 1
         /\ Elements(pending) \subseteq InPlay
         /\ OwnsResult(inFlight[1]) => \A g \in Elements(pending) : ~OwnsResult(g)
         /\ kind = "EndTxn" => pending = << >>
<1>1. inFlight # << >> /\ inFlight[1].kind = kind /\ inFlight' = << >> /\ pc' = "poll"
  BY DEF Answered, HasInFlightRequest
<1>2. << >> \in Seq(Handlers) /\ Len(<< >>) <= 1
  BY SMTT(30)
<1> QED  BY <1>1, <1>2, InFlightRequest, ElementsOfEmpty DEF RInv, InPlay, Owners, OneAtATime, EndSent

\* Answers that repeat the request, look up its coordinator, or drop it
LEMMA RetriedRInv ==
  ASSUME RInv, NEW kind, LookupAndRetry(kind) \/ Retry(kind) \/ Dropped(kind) PROVE RInv'
<1> USE DEF RInv
<1> DEFINE h == inFlight[1]
<1>1. Answered(kind) /\ UNCHANGED <<state, newParts, partsInTxn, started, result>>
  BY Zenon DEF LookupAndRetry, Retry, Dropped, tmVars
<1>2. pendingParts' \in {pendingParts, pendingParts \ h.parts}
  BY DEF LookupAndRetry, Retry, Dropped, tmVars
<1>3. Outside => UNCHANGED pendingParts
  BY <1>2 DEF Requests
<1>4. pending' \in {pending, Enqueue(pending, h), LookupAndReenqueue(pending, h)}
  BY Zenon DEF LookupAndRetry, Retry, Dropped
<1>5. Heap(pending') /\ \A g \in Elements(pending') : g \in InPlay \/ g.kind \in Find
  <2>1. /\ Heap(pending) /\ Elements(pending) \subseteq InPlay /\ h \in Handlers /\ h \in InPlay
        /\ OwnsResult(h) => \A g \in Elements(pending) : ~OwnsResult(g)
    BY <1>1, AnsweredRequest, Zenon DEF RequestTypes
  <2> HIDE DEF h
  <2>2. CASE pending' = pending
    BY <2>1, <2>2, Zenon
  <2>3. CASE pending' = Enqueue(pending, h)
    <3>1. Heap(Enqueue(pending, h)) /\ Elements(Enqueue(pending, h)) \subseteq Elements(pending) \cup {h}
      BY <2>1, EnqueueKeepsHeap, Zenon
    <3> QED  BY <2>1, <2>3, <3>1, Zenon
  <2>4. CASE pending' = LookupAndReenqueue(pending, h)
    <3>1. /\ Heap(LookupAndReenqueue(pending, h))
          /\ \A g \in Elements(LookupAndReenqueue(pending, h)) :
                 g \in Elements(pending) \cup {h} \/ g.kind \in Find
      BY <2>1, LookupKeepsHeap, Zenon
    <3> QED  BY <2>1, <2>4, <3>1, Zenon
  <2> QED  BY <1>4, <2>2, <2>3, <2>4, Zenon
<1> HIDE DEF h
<1>6. pendingParts' \subseteq Partitions
  BY <1>2, Zenon DEF RequestTypes
<1> QED  BY <1>1, <1>3, <1>5, <1>6, AnsweredRequest, Exchange, Zenon DEF RequestTypes

LEMMA SimpleAnswersRInv ==
  ASSUME RInv, \/ \E type \in {"group", "transaction"} : CoordinatorFound(type)
               \/ PartitionsAdded \/ OffsetCommitError
  PROVE  RInv'
<1> USE DEF RInv
<1>1. PICK kind : Answered(kind) /\ (PartitionsAdded => kind = "AddPartitions")
  BY Zenon DEF CoordinatorFound, PartitionsAdded, OffsetCommitError
<1>2. /\ UNCHANGED <<state, newParts, pending, result>>
      /\ ~PartitionsAdded => UNCHANGED <<pendingParts, partsInTxn, started>>
      /\ PartitionsAdded => /\ pendingParts' = pendingParts \ inFlight[1].parts
                            /\ partsInTxn' = partsInTxn \cup inFlight[1].parts
                            /\ started' = TRUE
  BY Zenon DEF CoordinatorFound, PartitionsAdded, OffsetCommitError, tmVars
<1>3. PartitionsAdded => ~Outside
  BY <1>1, AnsweredRequest DEF Requests, Find
<1>4. inFlight[1].parts \subseteq Partitions
  BY <1>1, AnsweredRequest DEF Handlers
<1>5. pendingParts' \subseteq Partitions /\ partsInTxn' \subseteq Partitions /\ started' \in BOOLEAN
  BY <1>2, <1>4, Zenon DEF RequestTypes
<1>6. /\ Heap(pending') /\ Elements(pending') \subseteq InPlay
      /\ inFlight' \in Seq(Handlers) /\ Len(inFlight') <= 1
      /\ inFlight' = << >> /\ Elements(inFlight') = {} /\ pc' = "poll"
  BY <1>1, <1>2, AnsweredRequest, Zenon DEF RequestTypes
<1> QED  BY <1>2, <1>3, <1>5, <1>6, Exchange, Zenon

LEMMA OffsetsAddedRInv ==
  ASSUME RInv, OffsetsAdded PROVE RInv'
<1> USE DEF RInv
<1> DEFINE t == TxnOffsetCommit
<1>1. /\ Answered("AddOffsets") /\ pending' = Enqueue(pending, t) /\ started' = TRUE
      /\ UNCHANGED <<state, newParts, pendingParts, partsInTxn, result>>
  BY DEF OffsetsAdded
<1>2. OwnsResult(inFlight[1])
  BY <1>1, AnsweredRequest, Zenon DEF OwnsResult
<1>3. ~Outside /\ ~IsCompleting /\ result = "pending"
  BY <1>1, <1>2, AnsweredRequest, SMTT(30) DEF Requests, Find, Completing, Owners
<1>4. /\ Heap(pending') /\ t.kind = "TxnOffsetCommit"
      /\ \A g \in Elements(pending') : g \in InPlay \/ g = t
  <2>1. /\ Heap(pending) /\ Elements(pending) \subseteq InPlay
        /\ \A g \in Elements(pending) : ~OwnsResult(g)
    BY <1>1, <1>2, AnsweredRequest, Zenon DEF RequestTypes
  <2>2. t \in Handlers /\ t.kind = "TxnOffsetCommit"
    BY HandlerTypes, Zenon
  <2> HIDE DEF t
  <2>3. Heap(Enqueue(pending, t)) /\ Elements(Enqueue(pending, t)) \subseteq Elements(pending) \cup {t}
    BY <2>1, <2>2, EnqueueKeepsHeap, Zenon
  <2> QED  BY <1>1, <2>1, <2>2, <2>3, Zenon
<1> HIDE DEF t
<1> QED  BY <1>1, <1>3, <1>4, AnsweredRequest, Exchange, Zenon DEF RequestTypes

\* Answers after which the application waits no more
LEMMA CompletedRInv ==
  ASSUME RInv, ProducerIdReceived \/ OffsetsCommitted \/ TransactionEnded PROVE RInv'
<1> USE DEF RInv
<1>1. PICK kind \in {"InitProducerId", "TxnOffsetCommit", "EndTxn"} : Answered(kind)
  BY Zenon DEF ProducerIdReceived, OffsetsCommitted, TransactionEnded
<1>2. pending' = pending /\ OwnsResult(inFlight[1])
  BY <1>1, AnsweredRequest DEF ProducerIdReceived, OffsetsCommitted, TransactionEnded, OwnsResult
<1>3. InPlay' = Elements(pending) /\ \A g \in InPlay' : g \in InPlay /\ ~OwnsResult(g)
  BY <1>1, <1>2, AnsweredRequest, Zenon DEF InPlay
<1>4. Owners' /\ OneAtATime'
  BY <1>1, <1>3, AnsweredRequest DEF Owners, OneAtATime, EndSent
<1>5. CASE ProducerIdReceived
  <2>1. /\ state = "INITIALIZING" /\ state' = "READY"
        /\ UNCHANGED <<newParts, pendingParts, partsInTxn, started>>
    BY <1>5, AnsweredRequest, Zenon DEF ProducerIdReceived, Requests
  <2>2. RequestTypes' /\ Completing'
    BY <1>1, <1>2, <2>1, AnsweredRequest DEF RequestTypes, States, Completing, IsCompleting
  <2>3. Requests'
    BY <1>3, <2>1 DEF Requests, Outside, OwnsResult, Find
  <2> QED  BY <1>4, <2>2, <2>3, Zenon
<1>6. CASE OffsetsCommitted
  <2>1. Answered("TxnOffsetCommit") /\ UNCHANGED <<state, newParts, pendingParts, partsInTxn, started>>
    BY <1>6, Zenon DEF OffsetsCommitted, tmVars
  <2>2. ~Outside /\ ~IsCompleting
    BY <1>2, <2>1, AnsweredRequest DEF Requests, Find, Completing
  <2>3. RequestTypes' /\ Completing'
    BY <1>1, <1>2, <2>1, <2>2, AnsweredRequest DEF RequestTypes, Completing, IsCompleting
  <2>4. Requests'
    BY <1>3, <2>1, <2>2 DEF Requests, Outside
  <2> QED  BY <1>4, <2>3, <2>4
<1>7. CASE TransactionEnded
  <2>1. Answered("EndTxn") /\ InPlay' = {}
    BY <1>3, <1>7, AnsweredRequest, ElementsOfEmpty DEF TransactionEnded
  <2>2. CASE CompleteTransaction
    <3>1. RequestTypes' /\ Completing'
      BY <1>1, <1>2, <2>2, AnsweredRequest, Zenon
      DEF RequestTypes, States, Completing, IsCompleting, CompleteTransaction
    <3>2. Requests'
      BY <2>1, <2>2, Zenon DEF Requests, Outside, CompleteTransaction
    <3> QED  BY <1>4, <3>1, <3>2
  <2>3. CASE ~Valid(state, "READY") /\ UNCHANGED <<tmVars, result>>
    <3>1. RequestTypes' /\ Completing'
      BY <1>1, <1>2, <2>1, <2>3, AnsweredRequest, Zenon
      DEF RequestTypes, tmVars, Completing, IsCompleting
    <3>2. Requests'
      BY <2>1, <2>3 DEF Requests, Outside, tmVars
    <3> QED  BY <1>4, <3>1, <3>2
  <2> QED  BY <1>7, <2>2, <2>3, Zenon DEF TransactionEnded
<1> QED  BY <1>5, <1>6, <1>7

----------------------------------------------------------------------------
(* The invariant on batches *)

\* What can have become of a send.
Statuses == {"none", "queued", "retry", "flight", "limbo", "lost", "acked", "failed", "aborted"}

\* The types of the accumulator's and the broker's state.
BatchTypes ==
    /\ setup \in Setups
    /\ nsends \in 0 .. MaxSends /\ ntxns \in 0 .. MaxTxns
    /\ intent \in [1 .. MaxTxns -> {"open", "commit", "abort"}]
    /\ part \in [Sends -> Partitions \cup {"none"}] /\ txnOf \in [Sends -> 0 .. MaxTxns]
    /\ status \in [Sends -> Statuses]
    /\ written \subseteq Sends /\ visible \subseteq Sends

\* The EndTxn has been sent, or the coordinator has ended the transaction: then
\* nothing is written any more.
Ended == EndSent \/ ~(partsInTxn \subseteq registered)

\* From then on no batch is in flight, and the next turn of the loop finds none.
Sealed ==
    Ended => /\ IsCompleting
             /\ \A s \in Sends : status[s] # "flight"
             /\ pc \in {"next", "produce"} => Incomplete = {}

\* EndTxn is sent only when has_incomplete was false.
NothingDrained == pc = "next" /\ ~hasIncomplete => Drained = {}

\* Sends belong to the transactions that were begun.
Sent ==
    /\ \A s \in Sends : s > nsends => txnOf[s] = 0 /\ status[s] = "none"
    /\ \A s \in Sends : s <= nsends => txnOf[s] \in 1 .. ntxns /\ status[s] # "none"
    /\ \A s \in written \cup visible : s <= nsends
    /\ partsInTxn # {} => started
    /\ Outside \/ HasFatalError \/ ntxns >= 1
    /\ state = "COMMITTING" => intent[ntxns] = "commit"
    /\ state \in {"UNINITIALIZED", "INITIALIZING"} => \A s \in Sends : status[s] # "flight"

\* An application that waits for its sends before it completes a transaction: the
\* incomplete and the written sends are those of the last transaction, and what is
\* acknowledged in a transaction that goes well is written.
Flushed ==
    setup.flush =>
        /\ Outside \/ IsCompleting => Incomplete = {}
        /\ Outside => written = {}
        /\ \A s \in Incomplete \cup written : txnOf[s] = ntxns
        /\ \A s \in written : part[s] \in registered
        /\ \A s \in Sends : s \in written \/ status[s] = "flight" => started
        /\ \A s \in visible : txnOf[s] = ntxns => state \in {"COMMITTING", "READY"}
        /\ \A s \in Sends : txnOf[s] = ntxns /\ state \in {"IN_TRANSACTION", "COMMITTING"} =>
               /\ status[s] \in {"queued", "retry", "flight", "acked", "none"}
               /\ status[s] = "acked" => s \in written \cup visible /\ started

\* The invariant of the batches.
BInv == /\ BatchTypes /\ Sealed /\ NothingDrained /\ WriteRegistered /\ Sent /\ Flushed
        /\ OnlyCommittedVisible

LEMMA IncompleteMeans ==
  /\ Undrained = {s \in Sends : status[s] \in {"queued", "retry"}}
  /\ Drained = {s \in Sends : status[s] \in {"flight", "limbo", "lost"}}
  /\ Incomplete = {s \in Sends : status[s] \in {"queued", "retry", "flight", "limbo", "lost"}}
  BY DEF Incomplete, Undrained, Drained

\* A step that leaves the batches alone, and the state or its side of the
\* transaction.
LEMMA BatchesKept ==
  ASSUME BInv, UNCHANGED <<setup, batchVars, written, visible>>,
         \/ state' = state \/ (state = "UNINITIALIZED" /\ state' = "INITIALIZING")
         \/ (state = "INITIALIZING" /\ state' = "READY"),
         registered \subseteq registered',
         partsInTxn \subseteq registered => partsInTxn' \subseteq registered',
         started => started', partsInTxn' # {} => started',
         EndSent' => EndSent,
         \/ pc' \in {"loop", "poll"} \/ (pc = "next" /\ pc' = "produce")
         \/ UNCHANGED <<pc, hasIncomplete>>
  PROVE  BInv'
<1> USE DEF BInv, batchVars
<1>1. Incomplete' = Incomplete /\ Drained' = Drained
  BY DEF Incomplete, Undrained, Drained
<1>2. BatchTypes'
  BY Zenon DEF BatchTypes
<1>3. Sealed' /\ WriteRegistered'
  BY <1>1 DEF Sealed, Ended, IsCompleting, WriteRegistered
<1>4. NothingDrained'
  BY <1>1 DEF NothingDrained
<1>5. Sent'
  BY Zenon DEF Sent, Outside, HasFatalError
<1>6. Flushed'
  BY <1>1, Zenon DEF Flushed, Outside, IsCompleting
<1>7. OnlyCommittedVisible'
  BY DEF OnlyCommittedVisible
<1> QED  BY <1>2, <1>3, <1>4, <1>5, <1>6, <1>7, Zenon

\* The inductive invariant of the transactional producer.
TInv == RInv /\ BInv

----------------------------------------------------------------------------
(* The application's calls *)

LEMMA BeginTransactionBInv ==
  ASSUME TInv, BeginTransaction, UNCHANGED setup PROVE BInv'
<1> USE DEF TInv, BInv
<1>1. /\ state = "READY" /\ state' = "IN_TRANSACTION" /\ ntxns' = ntxns + 1 /\ ntxns < MaxTxns
      /\ UNCHANGED <<partsInTxn, started, inFlight, pc, hasIncomplete, nsends, intent, part, txnOf,
                     status, registered, written, visible>>
  BY DEF BeginTransaction, EnterTransaction, TransitionTo, Valid, reqVars, brokerVars
<1>2. ntxns \in Nat /\ ntxns' \in 0 .. MaxTxns /\ \A s \in Sends : txnOf[s] \in Nat /\ nsends \in Nat
  BY <1>1, TransactionsAssumption DEF BatchTypes
<1>3. Incomplete' = Incomplete /\ Drained' = Drained
  BY <1>1 DEF Incomplete, Undrained, Drained
<1>4. \A s \in Sends : txnOf[s] <= ntxns
  BY <1>2 DEF Sent, Sends
<1>5. BatchTypes'
  BY <1>1, <1>2, Zenon DEF BatchTypes
<1>6. Sealed' /\ WriteRegistered' /\ NothingDrained'
  BY <1>1, <1>3, Zenon DEF Sealed, Ended, EndSent, IsCompleting, WriteRegistered, NothingDrained
<1>7. Sent'
  BY <1>1, <1>2 DEF Sent, Sends, Outside
<1>8. \A s \in Sends : txnOf[s] # ntxns'
  BY <1>1, <1>2, <1>4
<1>9. Flushed'
  BY <1>1, <1>3, <1>8, Zenon DEF Flushed, Outside, IsCompleting, BatchTypes
<1>10. OnlyCommittedVisible'
  BY <1>1 DEF OnlyCommittedVisible
<1> QED  BY <1>5, <1>6, <1>7, <1>9, <1>10

LEMMA SendBInv ==
  ASSUME TInv, NEW p \in Partitions, Send(p), UNCHANGED setup PROVE BInv'
<1> USE DEF TInv, BInv
<1> DEFINE n == nsends + 1
<1>1. /\ state = "IN_TRANSACTION" /\ nsends < setup.sends /\ nsends' = n
      /\ part' = [part EXCEPT ![n] = p] /\ txnOf' = [txnOf EXCEPT ![n] = ntxns]
      /\ status' = [status EXCEPT ![n] = "queued"]
      /\ UNCHANGED <<state, partsInTxn, started, inFlight, pc, hasIncomplete, ntxns, intent,
                     registered, written, visible>>
  BY Zenon DEF Send, reqVars, brokerVars
<1>2. nsends \in Nat /\ n \in Sends /\ setup.sends <= MaxSends /\ MaxSends \in Nat
      /\ ntxns \in Nat /\ ntxns >= 1
  <2>1. setup.sends \in 0 .. MaxSends /\ MaxSends \in Nat /\ MaxTxns \in Nat
    BY TransactionsAssumption DEF BatchTypes
  <2>2. nsends \in 0 .. MaxSends /\ ntxns \in 0 .. MaxTxns
    BY DEF BatchTypes
  <2>3. ntxns >= 1
    BY <1>1, Zenon DEF Sent, Outside, HasFatalError
  <2> QED  BY <1>1, <2>1, <2>2, <2>3 DEF Sends
<1>3. /\ part'[n] = p /\ txnOf'[n] = ntxns /\ status'[n] = "queued"
      /\ \A s \in Sends \ {n} : part'[s] = part[s] /\ txnOf'[s] = txnOf[s] /\ status'[s] = status[s]
  BY <1>1, <1>2, Zenon DEF BatchTypes
<1>4. BatchTypes'
  <2>1. nsends' \in 0 .. MaxSends
    BY <1>1, <1>2 DEF Sends
  <2>2. part' \in [Sends -> Partitions \cup {"none"}] /\ txnOf' \in [Sends -> 0 .. MaxTxns]
    BY <1>1, <1>2 DEF BatchTypes
  <2>3. status' \in [Sends -> Statuses]
    BY <1>1, Zenon DEF BatchTypes, Statuses
  <2> QED  BY <1>1, <2>1, <2>2, <2>3 DEF BatchTypes
<1>5. status[n] = "none" /\ txnOf[n] = 0
  BY <1>2 DEF Sent
<1>6. Drained' = Drained /\ Incomplete' = Incomplete \cup {n}
  BY <1>2, <1>3, <1>5, Zenon DEF Incomplete, Undrained, Drained
<1>7. ~Ended
  BY <1>1, Zenon DEF Sealed, IsCompleting
<1>8. Sealed'
  BY <1>1, <1>7, Zenon DEF Sealed, Ended, EndSent
<1>9. WriteRegistered' /\ NothingDrained'
  BY <1>1, <1>3, <1>6 DEF WriteRegistered, NothingDrained
<1>10. Sent'
  <2>1. \A s \in Sends : s \in Nat
    BY DEF Sends
  <2>2. \A s \in Sends : s > nsends' => txnOf'[s] = 0 /\ status'[s] = "none"
    BY <1>1, <1>2, <1>3, <2>1 DEF Sent
  <2>3. \A s \in Sends : s <= nsends' => txnOf'[s] \in 1 .. ntxns /\ status'[s] # "none"
    BY <1>1, <1>2, <1>3, <2>1 DEF Sent
  <2>4. \A s \in written \cup visible : s <= nsends'
    BY <1>1, <1>2, <2>1 DEF Sent, BatchTypes
  <2> QED  BY <1>1, <1>2, <2>2, <2>3, <2>4 DEF Sent, Outside
<1>11. setup.flush => n \notin written /\ n \notin visible
  BY <1>2 DEF Sent
<1>12. Flushed'
  <2> SUFFICES ASSUME setup.flush PROVE Flushed'
    BY <1>1, Zenon DEF Flushed
  <2>1. ~Outside' /\ ~IsCompleting'
    BY <1>1 DEF Outside, IsCompleting
  <2>2. \A s \in Incomplete \cup written : s # n => s \in Sends /\ txnOf'[s] = ntxns
    BY <1>3, Zenon DEF Flushed, BatchTypes, Incomplete, Undrained, Drained
  <2>3. \A s \in Incomplete' \cup written' : txnOf'[s] = ntxns'
    BY <1>1, <1>3, <1>6, <2>2, Zenon
  <2>4. \A s \in written' : part'[s] \in registered'
    BY <1>1, <1>3, <1>11, Zenon DEF Flushed, BatchTypes
  <2>5. \A s \in Sends : s \in written' \/ status'[s] = "flight" => started'
    BY <1>1, <1>3, <1>11 DEF Flushed
  <2>6. \A s \in visible' : txnOf'[s] = ntxns' => state' \in {"COMMITTING", "READY"}
    BY <1>1, <1>3, <1>11, Zenon DEF Flushed, BatchTypes
  <2>7. \A s \in Sends : txnOf'[s] = ntxns' /\ state' \in {"IN_TRANSACTION", "COMMITTING"}
          => /\ status'[s] \in {"queued", "retry", "flight", "acked", "none"}
             /\ status'[s] = "acked" => s \in written' \cup visible' /\ started'
    BY <1>1, <1>3, Zenon DEF Flushed
  <2> QED  BY <2>1, <2>3, <2>4, <2>5, <2>6, <2>7, Zenon DEF Flushed, Sends
<1>13. OnlyCommittedVisible'
  BY <1>1, <1>3, <1>11 DEF OnlyCommittedVisible, BatchTypes
<1> QED  BY <1>4, <1>8, <1>9, <1>10, <1>12, <1>13, Zenon

LEMMA BeginCompletingBInv ==
  ASSUME TInv, NEW c \in BOOLEAN, NothingToFlush, BeginCompleting(c), UNCHANGED setup, Calling,
         IF c THEN state = "IN_TRANSACTION" /\ state' = "COMMITTING"
         ELSE state \in {"IN_TRANSACTION", "ABORTABLE_ERROR"} /\ state' = "ABORTING"
  PROVE  BInv'
<1> USE DEF TInv, BInv
<1>1. /\ intent' = [intent EXCEPT ![ntxns] = IF c THEN "commit" ELSE "abort"]
      /\ UNCHANGED <<partsInTxn, started, inFlight, pc, hasIncomplete, nsends, ntxns, part, txnOf,
                     status, registered, written, visible>>
  BY DEF BeginCompleting, brokerVars
<1>2. ntxns \in 1 .. MaxTxns
  <2>1. ntxns >= 1
    BY Zenon DEF Sent, Outside, HasFatalError
  <2> QED  BY <2>1, TransactionsAssumption DEF BatchTypes
<1>3. /\ intent'[ntxns] = IF c THEN "commit" ELSE "abort"
      /\ \A t \in 1 .. MaxTxns : t # ntxns => intent'[t] = intent[t]
  BY <1>1, <1>2, Zenon DEF BatchTypes
<1>4. Incomplete' = Incomplete /\ Drained' = Drained
  BY <1>1, Zenon DEF Incomplete, Undrained, Drained
<1>5. BatchTypes'
  BY <1>1, <1>2 DEF BatchTypes
<1>6. ~Ended /\ ~EndSent
  BY Zenon DEF Sealed, Ended, IsCompleting
<1>7. Sealed' /\ WriteRegistered' /\ NothingDrained'
  BY <1>1, <1>4, <1>6, Zenon DEF Sealed, Ended, EndSent, WriteRegistered, NothingDrained
<1>8. Sent'
  BY <1>1, <1>2, <1>3 DEF Sent, Outside
<1>9. Flushed'
  BY <1>1, <1>4 DEF Flushed, NothingToFlush, Outside, IsCompleting
<1>10. OnlyCommittedVisible'
  <2> SUFFICES ASSUME setup.flush, NEW s \in visible PROVE intent'[txnOf[s]] = "commit"
    BY <1>1, Zenon DEF OnlyCommittedVisible
  <2>1. intent[txnOf[s]] = "commit" /\ txnOf[s] # ntxns
    BY DEF OnlyCommittedVisible, Flushed
  <2>2. txnOf[s] \in 1 .. MaxTxns
    <3>1. s \in Sends /\ s <= nsends
      BY Zenon DEF BatchTypes, Sent
    <3>2. txnOf[s] \in 1 .. ntxns
      BY <3>1, Zenon DEF Sent
    <3> QED  BY <1>2, <3>2, TransactionsAssumption
  <2> QED  BY <1>3, <2>1, <2>2, Zenon
<1> QED  BY <1>5, <1>7, <1>8, <1>9, <1>10, Zenon

LEMMA ApplicationTInv ==
  ASSUME TInv, Application, UNCHANGED setup PROVE TInv'
<1> USE DEF TInv
<1>1. CASE InitTransactions
  <2>1. BInv'
    <3>1. /\ state = "UNINITIALIZED" /\ state' = "INITIALIZING"
          /\ UNCHANGED <<partsInTxn, started, inFlight, pc, hasIncomplete, batchVars, brokerVars>>
      BY <1>1 DEF InitTransactions, InitializeTransactions, TransitionTo, Valid
    <3> QED  BY <3>1, BatchesKept DEF brokerVars, BInv, Sent, EndSent
  <2> QED  BY <1>1, <2>1, InitTransactionsRInv, Zenon
<1>2. CASE BeginTransaction
  BY <1>2, BeginTransactionRInv, BeginTransactionBInv, Zenon
<1>3. CASE SendOffsets
  <2>1. BInv'
    <3>1. UNCHANGED <<state, partsInTxn, started, inFlight, pc, hasIncomplete, batchVars, brokerVars>>
      BY <1>3 DEF SendOffsets, tmVars
    <3> QED  BY <3>1, BatchesKept DEF brokerVars, BInv, Sent, EndSent
  <2> QED  BY <1>3, <2>1, SendOffsetsRInv, Zenon
<1>4. CASE CommitTransaction
  <2>1. /\ Calling /\ NothingToFlush /\ BeginCompleting(TRUE)
        /\ state = "IN_TRANSACTION" /\ state' = "COMMITTING"
    BY <1>4, Zenon DEF CommitTransaction, BeginCommit, TransitionTo, Valid
  <2> QED  BY <1>4, <2>1, CompletingRInv, BeginCompletingBInv, Zenon
<1>5. CASE AbortTransaction
  <2>1. /\ Calling /\ NothingToFlush /\ BeginCompleting(FALSE)
        /\ state \in {"IN_TRANSACTION", "ABORTABLE_ERROR"} /\ state' = "ABORTING"
    BY <1>5, Zenon DEF AbortTransaction, BeginAbort, TransitionTo, Valid
  <2> QED  BY <1>5, <2>1, CompletingRInv, BeginCompletingBInv, Zenon
<1>6. ASSUME NEW p \in setup.partitions, Send(p) PROVE TInv'
  <2>1. p \in Partitions
    BY TransactionsAssumption DEF BInv, BatchTypes
  <2> QED  BY <1>6, <2>1, SendRInv, SendBInv
<1> QED  BY <1>1, <1>2, <1>3, <1>4, <1>5, <1>6 DEF Application

----------------------------------------------------------------------------
(* run_once *)

\* The requests are left alone and the state too.
LEMMA RequestsKept ==
  ASSUME RInv, UNCHANGED <<tmVars, reqVars>>, pc' \in {"next", "produce"} => inFlight = << >>
  PROVE  RInv'
  BY Failing DEF tmVars, reqVars

LEMMA TurnsTInv ==
  ASSUME TInv, AwaitInFlight \/ ReadHasIncomplete \/ ProduceBlocked \/ EndPoll, UNCHANGED setup
  PROVE  TInv'
<1> USE DEF TInv
<1>1. UNCHANGED <<tmVars, reqVars, batchVars, brokerVars>>
  BY DEF AwaitInFlight, ReadHasIncomplete, ProduceBlocked, EndPoll
<1>2. pc' \in {"next", "produce"} => inFlight = << >>
  BY DEF AwaitInFlight, ReadHasIncomplete, ProduceBlocked, EndPoll, HasInFlightRequest
<1>3. RInv'
  BY <1>1, <1>2, RequestsKept, Zenon
<1>4. CASE ~ReadHasIncomplete
  <2>1. pc' \in {"loop", "poll"}
    BY <1>4 DEF AwaitInFlight, ProduceBlocked, EndPoll
  <2> QED  BY <1>1, <1>3, <2>1, BatchesKept, Zenon DEF brokerVars, tmVars, reqVars, BInv, Sent, EndSent
<1>5. CASE ReadHasIncomplete
  <2> USE DEF BInv
  <2>1. /\ inFlight = << >> /\ ~(IsCompleting /\ Incomplete # {}) /\ pc' = "next"
        /\ hasIncomplete' = (Incomplete # {})
    BY <1>5 DEF ReadHasIncomplete, HasInFlightRequest
  <2>2. Incomplete' = Incomplete /\ Drained' = Drained
    BY <1>1 DEF Incomplete, Undrained, Drained, batchVars
  <2>3. BatchTypes' /\ WriteRegistered' /\ OnlyCommittedVisible'
    BY <1>1, Zenon DEF BatchTypes, WriteRegistered, OnlyCommittedVisible, batchVars, brokerVars
  <2>4. Sent' /\ Flushed'
    BY <1>1, <2>2, Zenon DEF Sent, Flushed, batchVars, brokerVars, tmVars, Outside, HasFatalError, IsCompleting
  <2>5. Sealed'
    BY <1>1, <2>1, <2>2 DEF Sealed, Ended, EndSent, IsCompleting, batchVars, brokerVars, tmVars, reqVars
  <2>6. NothingDrained'
    BY <2>1, <2>2, Zenon DEF NothingDrained, Incomplete
  <2> QED  BY <1>3, <2>3, <2>4, <2>5, <2>6, Zenon
<1> QED  BY <1>4, <1>5, Zenon

\* Batches are aborted, all that could be.
LEMMA AbortingTInv ==
  ASSUME TInv, CompletingRaises \/ AbortableRaises \/ AbortQueued, UNCHANGED setup
  PROVE  TInv'
<1> USE DEF TInv, BInv
<1>1. /\ UNCHANGED <<tmVars, reqVars, hasIncomplete, nsends, ntxns, intent, part, txnOf, brokerVars>>
      /\ pc' \in {"loop", "poll"}
  BY Zenon DEF CompletingRaises, AbortableRaises, AbortQueued
<1>2. PICK aborted \in SUBSET Undrained :
          /\ status' = [s \in Sends |-> IF s \in aborted THEN "aborted" ELSE status[s]]
          /\ aborted # {} => state \in {"ABORTING", "ABORTABLE_ERROR"}
  <2>1. status' = status \/ (state \in {"ABORTING", "ABORTABLE_ERROR"}
                              /\ \E aborted \in SUBSET Undrained : AbortUndrained(aborted))
    BY DEF CompletingRaises, AbortableRaises, AbortQueued, IsAborting, HasAbortableError
  <2>2. status = [s \in Sends |-> status[s]]
    BY DEF BatchTypes
  <2>3. CASE status' = status
    <3>1. status' = [s \in Sends |-> IF s \in {} THEN "aborted" ELSE status[s]]
      BY <2>2, <2>3
    <3> QED  BY <3>1, Zenon
  <2> QED  BY <2>1, <2>3, Zenon DEF AbortUndrained
<1>3. RInv'
  BY <1>1, RequestsKept
<1>4. \A s \in Sends : status'[s] = IF s \in aborted THEN "aborted" ELSE status[s]
  BY <1>2
<1>5. \A s \in aborted : s \in Sends /\ status[s] \in {"queued", "retry"}
  BY Zenon DEF Undrained
<1>6. Incomplete' \subseteq Incomplete
  BY <1>4, <1>5, IncompleteMeans, Zenon DEF Incomplete, Undrained, Drained
<1>7. BatchTypes'
  <2>1. status' \in [Sends -> Statuses]
    BY <1>2, <1>4, Zenon DEF BatchTypes, Statuses
  <2> QED  BY <1>1, <2>1 DEF BatchTypes, brokerVars
<1>8. Sealed' /\ WriteRegistered' /\ NothingDrained'
  BY <1>1, <1>4 DEF Sealed, Ended, EndSent, IsCompleting, WriteRegistered, NothingDrained,
     tmVars, reqVars, brokerVars
<1>9. Sent'
  BY <1>1, <1>4, <1>5, Zenon DEF Sent, Outside, HasFatalError, tmVars, brokerVars
<1>10. Flushed'
  BY <1>1, <1>2, <1>4, <1>6, Zenon DEF Flushed, Outside, IsCompleting, tmVars, brokerVars
<1>11. OnlyCommittedVisible'
  BY <1>1, Zenon DEF OnlyCommittedVisible, brokerVars
<1> QED  BY <1>3, <1>7, <1>8, <1>9, <1>10, <1>11, Zenon

\* D is drained, into a request or, if an expiry raised, into none; an expired batch
\* fails its transaction.
LEMMA DrainingBInv ==
  ASSUME TInv, NEW D \in SUBSET Drainable, UNCHANGED setup,
         UNCHANGED <<partsInTxn, started, inFlight, nsends, ntxns, intent, part, txnOf, brokerVars>>,
         pc = "produce", pc' \in {"loop", "poll"}, status' \in [Sends -> Statuses],
         \A s \in Sends : \/ s \notin D /\ status'[s] = status[s]
                          \/ s \in D /\ status'[s] = "flight"
                          \/ s \in D /\ status'[s] = "limbo" /\ state' = "ABORTABLE_ERROR"
                          \/ s \in D /\ status'[s] = "limbo" /\ ~setup.flush
                          \/ s \in Undrained /\ status'[s] \in {"failed", "lost"} /\ ~setup.flush
                          \/ s \in Undrained /\ status'[s] = "failed" /\ state' = "ABORTABLE_ERROR",
         \/ state' = state
         \/ /\ state \in {"IN_TRANSACTION", "COMMITTING", "ABORTABLE_ERROR"}
            /\ state' = "ABORTABLE_ERROR" /\ Undrained # {}
  PROVE  BInv'
<1> USE DEF TInv, BInv, brokerVars
<1>1. \A s \in D : s \in Undrained /\ part[s] \in partsInTxn
  BY Zenon DEF Drainable, IsSendAllowed
<1>2. D # {} => ~Outside /\ started
  BY <1>1 DEF RInv, Requests, Sent
<1>3. Undrained # {} => ~Ended
  BY Zenon DEF Sealed, Incomplete
<1>4. Incomplete' \subseteq Incomplete
  <2>1. \A s \in Sends : s \in Undrained => s \in Incomplete
    BY DEF Incomplete
  <2> QED  BY <1>1, <2>1, IncompleteMeans, Zenon DEF Incomplete, Undrained, Drained
<1>5. BatchTypes' /\ NothingDrained' /\ OnlyCommittedVisible'
  BY Zenon DEF BatchTypes, NothingDrained, OnlyCommittedVisible
<1>6. ASSUME NEW s \in Sends, status'[s] = "flight"
      PROVE  status[s] = "flight" \/ (s \in D /\ Undrained # {})
  BY <1>1, <1>6, Zenon
<1>7. WriteRegistered'
  BY <1>1, <1>3, <1>6, Zenon DEF WriteRegistered, Ended
<1>8. Sealed'
  BY <1>3, <1>6, Zenon DEF Sealed, Ended, EndSent, IsCompleting
<1>9. Sent'
  <2>1. \A s \in Sends : status'[s] = "none" <=> status[s] = "none"
    BY <1>1 DEF Undrained
  <2>2. state' \in {"UNINITIALIZED", "INITIALIZING"} => \A s \in Sends : status'[s] # "flight"
    BY <1>2, <1>6, Zenon DEF Sent, Outside
  <2> QED  BY <2>1, <2>2, Zenon DEF Sent, Outside, HasFatalError
<1>10. Flushed'
  <2>1. ASSUME setup.flush, Undrained # {} PROVE ~Outside /\ ~IsCompleting
    BY <2>1, Zenon DEF Flushed, Incomplete
  <2>2. ASSUME setup.flush, NEW s \in Sends
        PROVE  \/ status'[s] = status[s] \/ (s \in D /\ status'[s] = "flight")
               \/ state' = "ABORTABLE_ERROR"
    BY <2>2
  <2>3. ASSUME setup.flush, NEW s \in Sends, status'[s] = "acked" PROVE status[s] = "acked"
    BY <2>3, Zenon
  <2> QED  BY <1>2, <1>4, <1>6, <2>1, <2>2, <2>3, Zenon DEF Flushed, Outside, IsCompleting
<1> QED  BY <1>5, <1>7, <1>8, <1>9, <1>10

LEMMA ProduceDataTInv ==
  ASSUME TInv, NEW D \in SUBSET Drainable, ProduceData(D), UNCHANGED setup PROVE TInv'
<1> USE DEF TInv
<1>1. /\ pc = "produce" /\ pc' = "poll"
      /\ UNCHANGED <<tmVars, reqVars, nsends, ntxns, intent, part, txnOf, brokerVars>>
      /\ status' = [s \in Sends |-> IF s \in D THEN "flight" ELSE status[s]]
  BY DEF ProduceData, CanProduce
<1>2. status' \in [Sends -> Statuses]
  BY <1>1, Zenon DEF BInv, BatchTypes, Statuses
<1> QED  BY <1>1, <1>2, RequestsKept, DrainingBInv, Zenon DEF tmVars, reqVars

LEMMA ExpireBatchTInv ==
  ASSUME TInv, NEW D \in SUBSET Drainable, NEW s \in Sends, ExpireBatch(s, D), UNCHANGED setup
  PROVE  TInv'
<1> USE DEF TInv
<1> DEFINE raises == ~Failable \/ status[s] = "retry"
           others == [r \in Sends |-> IF r \notin D THEN status[r]
                                      ELSE IF raises THEN "limbo" ELSE "flight"]
<1>1. /\ pc = "produce" /\ pc' \in {"loop", "poll"} /\ s \in Undrained \ D
      /\ UNCHANGED <<newParts, pendingParts, partsInTxn, started, reqVars, nsends, ntxns, intent,
                     part, txnOf, brokerVars>>
      /\ status' = [others EXCEPT ![s] = IF Failable THEN "failed" ELSE "lost"]
      /\ state' = IF Failable /\ ~IsAborting THEN "ABORTABLE_ERROR" ELSE state
  BY Zenon DEF ExpireBatch, CanProduce, FailBatch
<1>2. status' \in [Sends -> Statuses]
  BY <1>1 DEF BInv, BatchTypes, Statuses
<1>3. \/ state' = state
      \/ /\ state \in {"IN_TRANSACTION", "COMMITTING", "ABORTABLE_ERROR"}
         /\ state' = "ABORTABLE_ERROR" /\ Undrained # {}
  BY <1>1 DEF Failable, Valid
<1>4. ~setup.flush \/ (Failable /\ state' = "ABORTABLE_ERROR")
  <2>1. SUFFICES ASSUME setup.flush PROVE Failable /\ state' = "ABORTABLE_ERROR"
    BY Zenon
  <2>2. ~Outside /\ ~IsCompleting
    BY <1>1, <2>1 DEF BInv, Flushed, Incomplete
  <2>3. state \in {"IN_TRANSACTION", "ABORTABLE_ERROR"}
    <3>1. state # "FATAL_ERROR"
      BY Zenon DEF ExpireBatch, CanProduce, HasFatalError
    <3> QED  BY <2>2, <3>1, Zenon DEF RInv, RequestTypes, States, Outside, IsCompleting
  <2> QED  BY <1>1, <2>3 DEF Failable, Valid, IsAborting
<1>5. /\ status'[s] = IF Failable THEN "failed" ELSE "lost"
      /\ \A r \in D : status'[r] = IF raises THEN "limbo" ELSE "flight"
      /\ \A r \in Sends \ D : r # s => status'[r] = status[r]
  BY <1>1, Zenon DEF Drainable, Undrained
<1>6. RInv'
  BY <1>1, <1>3, Failing, Zenon DEF reqVars
<1> HIDE DEF raises, others
<1> QED  BY <1>1, <1>2, <1>3, <1>4, <1>5, <1>6, DrainingBInv DEF reqVars

\* _maybe_send_transactional_request: EndTxn is sent, or dropped, when nothing is in
\* a produce request.
LEMMA NextRequestTInv ==
  ASSUME TInv, NextRequest, UNCHANGED setup PROVE TInv'
<1> USE DEF TInv
<1>1. /\ pc = "next" /\ inFlight = << >> /\ UNCHANGED <<batchVars, brokerVars>>
      /\ pc' \in {"produce", "poll"}
  BY DEF NextRequest, RInv, OneAtATime
<1>2. RInv'
  BY NextRequestRInv, Zenon
<1>3. CASE UNCHANGED <<state, partsInTxn, started, inFlight>>
  BY <1>1, <1>2, <1>3, BatchesKept, Zenon DEF brokerVars, EndSent, BInv, Sent
<1>4. CASE /\ ~NothingToSend /\ ~Terminated(Top) /\ Top.kind = "EndTxn" /\ ~started
           /\ CompleteTransaction /\ pc' = "produce" /\ UNCHANGED inFlight
  <2> USE DEF BInv, batchVars, brokerVars, CompleteTransaction
  <2>1. state \in {"COMMITTING", "ABORTING"}
    BY <1>1, <1>4, Popping, Zenon
    DEF RInv, Requests, Terminated, HasError, HasAbortableError, HasFatalError
  <2>2. Incomplete' = Incomplete /\ Drained' = Drained
    BY <1>1, Zenon DEF Incomplete, Undrained, Drained
  <2>3. BatchTypes' /\ WriteRegistered' /\ NothingDrained' /\ OnlyCommittedVisible'
    BY <1>1, <1>4, Zenon DEF BatchTypes, WriteRegistered, NothingDrained, OnlyCommittedVisible
  <2>4. Sealed'
    BY <1>1, <1>4, Zenon DEF Sealed, Ended, EndSent
  <2>5. Sent'
    BY <1>1, <1>4 DEF Sent, Outside
  <2>6. setup.flush => Incomplete = {} /\ written = {}
    BY <1>4, <2>1, Zenon DEF Flushed, IsCompleting, BatchTypes
  <2>7. Flushed'
    BY <1>1, <1>4, <2>2, <2>6, Zenon DEF Flushed, Outside, IsCompleting, Incomplete, Drained
  <2> QED  BY <1>2, <2>3, <2>4, <2>5, <2>7, Zenon
<1>5. CASE /\ ~NothingToSend /\ ~Terminated(Top) /\ SendRequest(Top) /\ pc' = "poll"
           /\ UNCHANGED <<state, partsInTxn, started>>
  <2> USE DEF BInv, batchVars, brokerVars
  <2>1. inFlight' # << >> /\ inFlight'[1] = Top
    BY <1>1, <1>5, SMTT(30) DEF SendRequest
  <2>2. CASE Top.kind # "EndTxn"
    BY <1>1, <1>2, <1>5, <2>1, <2>2, BatchesKept, Zenon DEF EndSent, Sent
  <2>3. CASE Top.kind = "EndTxn"
    <3>1. state \in {"COMMITTING", "ABORTING"}
      BY <1>1, <1>5, <2>3, Popping, Zenon
      DEF RInv, Requests, Terminated, HasError, HasAbortableError, HasFatalError
    <3>2. Drained = {}
      BY <1>1, <1>5, <2>3, Zenon DEF NothingToSend, NothingDrained
    <3>3. Incomplete' = Incomplete /\ \A t \in Sends : status[t] # "flight"
      BY <1>1, <3>2, Zenon DEF Incomplete, Undrained, Drained
    <3>4. BatchTypes' /\ WriteRegistered' /\ NothingDrained' /\ OnlyCommittedVisible'
      BY <1>1, <1>5 DEF BatchTypes, WriteRegistered, NothingDrained, OnlyCommittedVisible
    <3>5. Sealed'
      BY <1>1, <1>5, <3>1, <3>3, Zenon DEF Sealed, IsCompleting
    <3>6. Sent' /\ Flushed'
      BY <1>1, <1>5, <3>3, Zenon DEF Sent, Flushed, Outside, HasFatalError, IsCompleting
    <3> QED  BY <1>2, <3>4, <3>5, <3>6, Zenon
  <2> QED  BY <2>2, <2>3
<1> QED  BY <1>3, <1>4, <1>5, Zenon DEF NextRequest

LEMMA RunOnceTInv ==
  ASSUME TInv, RunOnce, UNCHANGED setup PROVE TInv'
<1>1. CASE CoordinatorNotReady
  <2>1. /\ pc' = "poll"
        /\ UNCHANGED <<state, partsInTxn, started, inFlight, batchVars, brokerVars>>
    BY <1>1, Zenon DEF CoordinatorNotReady
  <2>2. BInv'
    BY <2>1, BatchesKept, Zenon DEF TInv, BInv, Sent, EndSent, brokerVars
  <2> QED  BY <1>1, <2>2, CoordinatorNotReadyRInv DEF TInv
<1> QED  BY <1>1, TurnsTInv, AbortingTInv, NextRequestTInv, ProduceDataTInv, ExpireBatchTInv
         DEF RunOnce

----------------------------------------------------------------------------
(* Answers to produce requests *)

LEMMA ProduceResponseTInv ==
  ASSUME TInv, ProduceResponse, UNCHANGED setup PROVE TInv'
<1> USE DEF TInv, BInv
<1>1. PICK s \in Sends : ProduceOk(s) \/ ProduceRetriable(s) \/ ProduceFails(s) \/ ProduceFenced(s)
  BY Zenon DEF ProduceResponse
<1>2. /\ pc = "poll" /\ status[s] = "flight"
      /\ UNCHANGED <<newParts, pendingParts, partsInTxn, started, reqVars, pc, nsends, ntxns,
                     intent, part, txnOf, registered, visible>>
  BY <1>1 DEF ProduceOk, ProduceRetriable, ProduceFails, ProduceFenced, Flying, tmVars, brokerVars
<1>3. PICK new \in {"acked", "retry", "failed", "lost"} :
          /\ status' = [status EXCEPT ![s] = new]
          /\ new = "acked" => s \in written'
          /\ new \in {"failed", "lost"} => state' # "IN_TRANSACTION" /\ (setup.flush => state' # "COMMITTING")
          /\ new \in {"acked", "retry"} => state' = state
  <2>1. setup.flush => state # "COMMITTING"
    BY <1>2, Zenon DEF Flushed, IsCompleting, Incomplete, Drained
  <2> QED  BY <1>1, <2>1, SMTT(30) DEF ProduceOk, ProduceRetriable, ProduceFails, ProduceFenced, FailBatch,
              tmVars, Failable, IsAborting, Valid
<1>4. written' \in {written, written \cup {s}}
  BY <1>1 DEF ProduceOk, ProduceRetriable, ProduceFails, ProduceFenced, brokerVars
<1>5. \/ state' = state
      \/ state' = "FATAL_ERROR"
      \/ /\ state' = "ABORTABLE_ERROR"
         /\ state \in {"IN_TRANSACTION", "COMMITTING", "ABORTABLE_ERROR"}
  BY <1>1 DEF ProduceOk, ProduceRetriable, ProduceFails, ProduceFenced, FailBatch, tmVars,
     Failable, Valid
<1>6. ~Ended /\ state \notin {"UNINITIALIZED", "INITIALIZING"} /\ part[s] \in registered
  BY <1>2, Zenon DEF Sealed, Sent, WriteRegistered
<1>7. RInv'
  BY <1>2, <1>5, <1>6, Failing, Zenon DEF reqVars
<1>8. status'[s] = new /\ \A r \in Sends \ {s} : status'[r] = status[r]
  BY <1>3, Zenon DEF BatchTypes
<1>9. Incomplete' \subseteq Incomplete /\ s \in Incomplete
  BY <1>2, <1>8, Zenon DEF Incomplete, Undrained, Drained
<1>10. BatchTypes'
  BY <1>2, <1>3, <1>4, Zenon DEF BatchTypes, Statuses
<1>11. Sealed' /\ WriteRegistered' /\ NothingDrained' /\ OnlyCommittedVisible'
  BY <1>2, <1>6, <1>8, Zenon DEF Sealed, Ended, EndSent, WriteRegistered, NothingDrained,
     OnlyCommittedVisible, reqVars
<1>12. Sent'
  <2>1. s \in Nat /\ nsends \in Nat /\ s <= nsends
    BY <1>2, SMTT(30) DEF Sent, Sends, BatchTypes
  <2> QED  BY <1>2, <1>4, <1>5, <1>6, <1>8, <2>1, Zenon DEF Sent, Outside, HasFatalError
<1>13. Flushed'
  <2>1. SUFFICES ASSUME setup.flush PROVE Flushed'
    BY Zenon DEF Flushed
  <2>2. /\ ~Outside /\ ~IsCompleting /\ txnOf[s] = ntxns /\ started
        /\ \A r \in visible : txnOf[r] # ntxns
    BY <1>2, <1>9, <2>1, Zenon DEF Flushed, Outside, IsCompleting
  <2>3. state' \notin {"UNINITIALIZED", "INITIALIZING", "READY", "COMMITTING", "ABORTING"}
    BY <1>5, <2>2, Zenon DEF Outside, IsCompleting
  <2> QED  BY <1>2, <1>3, <1>4, <1>6, <1>8, <1>9, <2>1, <2>2, <2>3, Zenon DEF Flushed, Outside, IsCompleting
<1> QED  BY <1>7, <1>10, <1>11, <1>12, <1>13

----------------------------------------------------------------------------
(* Answers to transactional requests *)

\* The coordinator has ended the transaction.  If the application waited for its
\* sends, what was written is visible now or was aborted.
LEMMA EndApplied ==
  ASSUME TInv, Answered("EndTxn"), Apply(inFlight[1]), UNCHANGED setup
  PROVE  /\ IsCompleting /\ registered' = {} /\ written' \subseteq written
         /\ \A t \in Sends : status[t] # "flight"
         /\ visible' \subseteq visible \cup written
         /\ setup.flush => /\ written' = {} /\ Incomplete = {}
                           /\ state = "COMMITTING" => visible' = visible \cup written
                           /\ state = "ABORTING" => visible' = visible
<1> USE DEF TInv, BInv
<1>1. /\ inFlight[1] \in InPlay /\ OwnsResult(inFlight[1]) /\ inFlight[1].kind = "EndTxn"
      /\ inFlight # << >>
  BY AnsweredRequest DEF OwnsResult, Answered, HasInFlightRequest
<1>2. IsCompleting /\ \A t \in Sends : status[t] # "flight"
  BY <1>1, Zenon DEF Sealed, Ended, EndSent
<1>3. inFlight[1].committed = (state = "COMMITTING")
  BY <1>1, <1>2, Zenon DEF RInv, Completing
<1>4. setup.flush => {t \in written : part[t] \in registered} = written
  BY DEF Flushed
<1>5. /\ registered' = {} /\ written' \subseteq written /\ visible' \subseteq visible \cup written
      /\ written' = written \ {t \in written : part[t] \in registered}
      /\ visible' = IF inFlight[1].committed THEN visible \cup {t \in written : part[t] \in registered}
                    ELSE visible
  BY <1>1, Zenon DEF Apply
<1>6. setup.flush => Incomplete = {}
  BY <1>2 DEF Flushed
<1> QED  BY <1>2, <1>3, <1>4, <1>5, <1>6, Zenon

\* After that, whether the answer arrives or is lost.
LEMMA EndAppliedBInv ==
  ASSUME TInv, Answered("EndTxn"), Apply(inFlight[1]), UNCHANGED setup,
         CompleteTransaction \/ UNCHANGED <<state, partsInTxn, started>>
  PROVE  BInv'
<1> USE DEF TInv, BInv
<1>1. /\ pc = "poll" /\ pc' = "poll" /\ inFlight' = << >>
      /\ UNCHANGED <<nsends, ntxns, intent, part, txnOf, status>>
  BY Zenon DEF Answered, batchVars
<1>2. Incomplete' = Incomplete
  BY <1>1, Zenon DEF Incomplete, Undrained, Drained
<1>3. state \in {"COMMITTING", "ABORTING"}
  BY EndApplied DEF IsCompleting
<1>4. state' \in {state, "READY"} /\ (state' = "READY" => partsInTxn' = {})
      /\ (state' = state => UNCHANGED <<partsInTxn, started>>)
  BY <1>3, Zenon DEF CompleteTransaction
<1>5. BatchTypes'
  BY <1>1, EndApplied, Zenon DEF BatchTypes
<1>6. Sealed' /\ WriteRegistered' /\ NothingDrained'
  BY <1>1, <1>3, <1>4, EndApplied, Zenon
  DEF Sealed, Ended, EndSent, IsCompleting, WriteRegistered, NothingDrained
<1>7. Sent'
  <2>1. \A s \in written' \cup visible' : s \in written \cup visible
    BY EndApplied, Zenon
  <2>2. /\ state' \in {"UNINITIALIZED", "INITIALIZING", "IN_TRANSACTION"} => FALSE
        /\ state' = "COMMITTING" => state = "COMMITTING"
        /\ Outside' \/ HasFatalError' \/ ~(Outside \/ HasFatalError)
        /\ partsInTxn' # {} => UNCHANGED <<partsInTxn, started>>
    BY <1>3, <1>4 DEF Outside, HasFatalError
  <2> QED  BY <1>1, <2>1, <2>2 DEF Sent
<1>8. Flushed'
  <2> SUFFICES ASSUME setup.flush PROVE Flushed'
    BY Zenon DEF Flushed
  <2>1. /\ written' = {} /\ Incomplete' = {} /\ \A s \in Sends : status'[s] # "flight"
        /\ state = "COMMITTING" => visible' = visible \cup written
        /\ state = "ABORTING" => visible' = visible
    BY <1>1, <1>2, EndApplied, Zenon
  <2>2. \A s \in visible' : txnOf[s] = ntxns => state' \in {"COMMITTING", "READY"}
    BY <1>3, <1>4, <2>1, Zenon DEF Flushed
  <2>3. \A s \in Sends : txnOf[s] = ntxns /\ state' \in {"IN_TRANSACTION", "COMMITTING"} =>
            /\ status[s] \in {"queued", "retry", "flight", "acked", "none"}
            /\ status[s] = "acked" => s \in written' \cup visible' /\ started'
    <3>1. state' \in {"IN_TRANSACTION", "COMMITTING"} => state = "COMMITTING" /\ (started => started')
      BY <1>3, <1>4
    <3>2. state = "COMMITTING" => \A s \in Sends : txnOf[s] = ntxns =>
              /\ status[s] \in {"queued", "retry", "flight", "acked", "none"}
              /\ status[s] = "acked" => s \in written \cup visible /\ started
      BY Zenon DEF Flushed
    <3> QED  BY <2>1, <3>1, <3>2, Zenon
  <2> QED  BY <1>1, <2>1, <2>2, <2>3, Zenon DEF Flushed
<1>9. OnlyCommittedVisible'
  <2> SUFFICES ASSUME setup.flush, NEW s \in visible' PROVE intent[txnOf[s]] = "commit"
    BY <1>1, Zenon DEF OnlyCommittedVisible
  <2>1. CASE s \in visible
    BY <2>1, Zenon DEF OnlyCommittedVisible
  <2>2. CASE s \notin visible
    <3>1. s \in written /\ state = "COMMITTING"
      BY <1>3, <2>2, EndApplied, Zenon
    <3> QED  BY <3>1 DEF Sent, Flushed
  <2> QED  BY <2>1, <2>2, Zenon
<1> QED  BY <1>5, <1>6, <1>7, <1>8, <1>9, Zenon

\* Any other request adds partitions at most.
LEMMA OthersAppliedBInv ==
  ASSUME TInv, NEW kind, kind # "EndTxn", Answered(kind), Apply(inFlight[1]) \/ NotApplied,
         UNCHANGED <<setup, state, partsInTxn, started>>
  PROVE  BInv'
<1>1. inFlight[1].kind # "EndTxn" /\ pc' = "poll" /\ UNCHANGED batchVars /\ inFlight' = << >>
  BY DEF Answered
<1>2. registered \subseteq registered' /\ UNCHANGED <<written, visible>>
  BY <1>1, Zenon DEF Apply, NotApplied, brokerVars
<1> QED  BY <1>1, <1>2, BatchesKept, Zenon DEF TInv, BInv, Sent, EndSent

LEMMA TxnResponseTInv ==
  ASSUME TInv, TxnResponse, UNCHANGED setup PROVE TInv'
<1> USE DEF TInv
<1>1. CASE \/ \E type \in {"group", "transaction"} : CoordinatorFound(type)
           \/ OffsetsCommitted \/ OffsetCommitError
  <2>1. PICK kind : Answered(kind)
    BY <1>1, Zenon DEF CoordinatorFound, OffsetsCommitted, OffsetCommitError
  <2>2. UNCHANGED <<tmVars, brokerVars>>
    BY <1>1 DEF CoordinatorFound, OffsetsCommitted, OffsetCommitError
  <2>3. pc' = "poll" /\ UNCHANGED batchVars /\ inFlight' = << >>
    BY <2>1, Zenon DEF Answered
  <2>4. BInv'
    BY <2>2, <2>3, BatchesKept, Zenon DEF BInv, Sent, EndSent, tmVars, brokerVars
  <2> QED  BY <1>1, <2>4, SimpleAnswersRInv, CompletedRInv, Zenon
<1>2. CASE ProducerIdReceived
  <2>1. /\ state = "INITIALIZING" /\ state' = "READY" /\ pc' = "poll" /\ inFlight' = << >>
        /\ UNCHANGED <<batchVars, brokerVars, partsInTxn, started>>
    BY <1>2, AnsweredRequest, Zenon DEF ProducerIdReceived, Answered, RInv, Requests
  <2>2. BInv'
    BY <2>1, BatchesKept DEF BInv, Sent, EndSent, brokerVars
  <2> QED  BY <1>2, <2>2, CompletedRInv, Zenon
<1>3. CASE PartitionsAdded
  <2>1. /\ pc' = "poll" /\ inFlight' = << >> /\ UNCHANGED <<batchVars, state, written, visible>>
        /\ partsInTxn' = partsInTxn \cup inFlight[1].parts /\ started' = TRUE
        /\ registered' = registered \cup inFlight[1].parts
    BY <1>3, Zenon DEF PartitionsAdded, Answered, Apply
  <2>2. BInv'
    BY <2>1, BatchesKept, Zenon DEF EndSent
  <2> QED  BY <1>3, <2>2, SimpleAnswersRInv
<1>4. CASE OffsetsAdded
  <2>1. /\ pc' = "poll" /\ inFlight' = << >> /\ started' = TRUE
        /\ UNCHANGED <<batchVars, brokerVars, state, partsInTxn>>
    BY <1>4, Zenon DEF OffsetsAdded, Answered
  <2>2. BInv'
    BY <2>1, BatchesKept DEF EndSent, brokerVars
  <2> QED  BY <1>4, <2>2, OffsetsAddedRInv
<1>5. CASE TransactionEnded
  <2>1. BInv'
    BY <1>5, EndAppliedBInv DEF TransactionEnded, tmVars
  <2> QED  BY <1>5, <2>1, CompletedRInv, Zenon
<1>6. ASSUME NEW kind \in Kinds, LookupAndRetry(kind) \/ Retry(kind) \/ Dropped(kind) PROVE TInv'
  <2>1. Answered(kind) /\ UNCHANGED <<state, partsInTxn, started>> /\ (Apply(inFlight[1]) \/ NotApplied)
    BY <1>6, Zenon DEF LookupAndRetry, Retry, Dropped, tmVars, NotApplied
  <2>2. CASE kind # "EndTxn"
    BY <1>6, <2>1, <2>2, OthersAppliedBInv, RetriedRInv, Zenon
  <2>3. CASE kind = "EndTxn" /\ Apply(inFlight[1])
    BY <1>6, <2>1, <2>3, EndAppliedBInv, RetriedRInv
  <2>4. CASE NotApplied
    <3>1. pc' = "poll" /\ inFlight' = << >> /\ UNCHANGED <<batchVars, brokerVars>>
      BY <2>1, <2>4, Zenon DEF Answered, NotApplied
    <3>2. BInv'
      BY <2>1, <3>1, BatchesKept, Zenon DEF BInv, Sent, EndSent, brokerVars
    <3> QED  BY <1>6, <3>2, RetriedRInv
  <2> QED  BY <2>1, <2>2, <2>3, <2>4, Zenon
<1> QED  BY <1>1, <1>2, <1>3, <1>4, <1>5, <1>6 DEF TxnResponse, Success

----------------------------------------------------------------------------
(* The theorems *)

LEMMA InitTInv ==
  ASSUME Init PROVE TInv
<1> USE DEF Init
<1>1. Heap(<< >>) /\ << >> \in Seq(Handlers) /\ Len(<< >>) <= 1 /\ InPlay = {}
  BY ElementsOfEmpty DEF Heap, Sorted, Owned, InPlay
<1>2. RInv
  <2>1. RequestTypes
    BY <1>1, Zenon DEF RequestTypes, States
  <2>2. Owners /\ Requests
    BY <1>1, ElementsOfEmpty, Zenon DEF Owners, Requests
  <2>3. Completing /\ OneAtATime
    BY Zenon DEF Completing, IsCompleting, OneAtATime, EndSent
  <2> QED  BY <2>1, <2>2, <2>3 DEF RInv
<1>3. Incomplete = {} /\ Drained = {}
  BY Zenon DEF Incomplete, Undrained, Drained
<1>4. BatchTypes
  BY TransactionsAssumption DEF BatchTypes, Statuses
<1>5. Sealed /\ NothingDrained /\ WriteRegistered /\ Flushed /\ OnlyCommittedVisible
  BY <1>3, Zenon DEF Sealed, Ended, EndSent, NothingDrained, WriteRegistered, Flushed, OnlyCommittedVisible, Outside
<1>6. Sent
  BY DEF Sent, Sends, Outside
<1> QED  BY <1>2, <1>4, <1>5, <1>6, Zenon DEF TInv, BInv

LEMMA StutterTInv ==
  ASSUME TInv, UNCHANGED <<vars, setup>> PROVE TInv'
<1>1. UNCHANGED <<setup, tmVars, reqVars, pc, hasIncomplete, batchVars, brokerVars>>
  BY DEF vars
<1>2. RInv'
  BY <1>1, RequestsKept, Zenon DEF TInv, RInv, OneAtATime
<1>3. BInv'
  BY <1>1, BatchesKept, Zenon DEF TInv, BInv, Sent, EndSent, tmVars, reqVars, brokerVars
<1> QED  BY <1>2, <1>3, Zenon DEF TInv

\* Requests and batches stay in step: the invariant of TransactionManager and run_once.
THEOREM TransactionInvariance == Spec => []TInv
<1>1. Init => TInv
  BY InitTInv
<1>2. TInv /\ [Next]_<<vars, setup>> => TInv'
  <2> SUFFICES ASSUME TInv, [Next]_<<vars, setup>> PROVE TInv'
    OBVIOUS
  <2>1. CASE UNCHANGED <<vars, setup>>
    BY <2>1, StutterTInv, Zenon
  <2>2. CASE Next
    BY <2>2, ApplicationTInv, RunOnceTInv, ProduceResponseTInv, TxnResponseTInv DEF Next
  <2> QED  BY <2>1, <2>2
<1> QED  BY <1>1, <1>2, PTL DEF Spec

\* WriteRegistered: a batch is in a produce request only when the coordinator has
\* its partition in the transaction (is_send_to_partition_allowed), so that the
\* end of the transaction covers it.
THEOREM OnlyRegisteredWritten == Spec => []WriteRegistered
<1>1. TInv => WriteRegistered
  BY DEF TInv, BInv
<1> QED  BY <1>1, TransactionInvariance, PTL

\* OnlyCommittedVisible: what a consumer of committed records sees is of a
\* transaction that the application committed, if it waits for its sends before
\* it completes one (flush).
THEOREM NothingAbortedVisible == Spec => []OnlyCommittedVisible
<1>1. TInv => OnlyCommittedVisible
  BY DEF TInv, BInv
<1> QED  BY <1>1, TransactionInvariance, PTL

\* _complete_transaction leaves nothing of a transaction for the next one.
THEOREM NextStartsClean == Spec => []CleanStart
<1>1. TInv => CleanStart
  <2> SUFFICES ASSUME TInv, state = "READY" PROVE CleanStart
    BY Zenon DEF CleanStart
  <2>1. \A h \in InPlay : h.kind \in Find
    BY Zenon DEF TInv, RInv, Requests, Outside
  <2>2. \A j \in 1 .. Len(pending) : pending[j] \in InPlay
    BY DEF InPlay, Elements
  <2>3. inFlight # << >> => inFlight[1] \in InPlay
    BY InFlightRequest DEF InPlay, TInv, RInv
  <2> QED  BY <2>1, <2>2, <2>3, Zenon DEF CleanStart, TInv, RInv, Requests, Outside, Find
<1> QED  BY <1>1, TransactionInvariance, PTL

\* A commit completes only when every record of the transaction was acknowledged and is
\* visible (TransactionEnded, or an EndTxn that next_request_handler need not send).
THEOREM CommitsEverything == Spec => CommitComplete
<1> DEFINE Step == (setup.flush /\ state = "COMMITTING" /\ state' = "READY") =>
                     \A s \in Sends : txnOf[s] = ntxns => status[s] = "acked" /\ s \in visible'
<1>1. TInv /\ [Next]_<<vars, setup>> => [Step]_vars
  <2> SUFFICES ASSUME TInv, Next, setup.flush, state = "COMMITTING", state' = "READY",
                      NEW s \in Sends, txnOf[s] = ntxns
               PROVE  status[s] = "acked" /\ s \in visible'
    BY Zenon
  <2> USE DEF TInv, BInv
  <2>1. status[s] = "acked" /\ started /\ s \in written \cup visible
    <3>1. Incomplete = {} /\ ntxns >= 1
      BY Zenon DEF Flushed, Sent, IsCompleting, Outside, HasFatalError
    <3>2. s <= nsends
      BY <3>1 DEF Sent, BatchTypes, Sends
    <3>3. status[s] # "none" /\ status[s] \notin {"queued", "retry", "flight"}
      BY <3>1, <3>2 DEF Sent, Incomplete, Undrained, Drained
    <3> QED  BY <3>3, Zenon DEF Flushed
  <2>2. TransactionEnded \/ (NextRequest /\ ~started)
    <3>1. ~Application
      BY Zenon DEF Application, InitTransactions, InitializeTransactions, BeginTransaction,
         EnterTransaction, SendOffsets, CommitTransaction, BeginCommit, AbortTransaction,
         BeginAbort, TransitionTo, Valid, Send, tmVars
    <3>2. RunOnce => NextRequest /\ ~started
      BY Zenon DEF RunOnce, AwaitInFlight, CompletingRaises, ReadHasIncomplete, CoordinatorNotReady,
         ProduceBlocked, AbortableRaises, AbortQueued, ProduceData, ExpireBatch, FailBatch,
         EndPoll, tmVars, NextRequest
    <3>3. ~ProduceResponse
      BY Zenon DEF ProduceResponse, ProduceOk, ProduceRetriable, ProduceFails, ProduceFenced,
         FailBatch, tmVars
    <3>4. TxnResponse => TransactionEnded
      <4>1. ~ProducerIdReceived
        BY AnsweredRequest, Zenon DEF ProducerIdReceived, RInv, Requests
      <4>2. ~(PartitionsAdded \/ OffsetsAdded \/ OffsetsCommitted \/ OffsetCommitError)
        BY Zenon DEF PartitionsAdded, OffsetsAdded, OffsetsCommitted, OffsetCommitError, tmVars
      <4>3. \A type : ~CoordinatorFound(type)
        BY Zenon DEF CoordinatorFound, tmVars
      <4>4. \A kind : ~(LookupAndRetry(kind) \/ Retry(kind) \/ Dropped(kind))
        BY Zenon DEF LookupAndRetry, Retry, Dropped, tmVars
      <4> QED  BY <4>1, <4>2, <4>3, <4>4 DEF TxnResponse, Success
    <3> QED  BY <3>1, <3>2, <3>3, <3>4 DEF Next
  <2>3. CASE TransactionEnded
    <3>1. Answered("EndTxn") /\ Apply(inFlight[1]) /\ UNCHANGED setup
      BY <2>3, Zenon DEF TransactionEnded, Next
    <3>2. visible' = visible \cup written
      BY <3>1, EndApplied
    <3> QED  BY <2>1, <3>2, Zenon
  <2> QED  BY <2>1, <2>2, <2>3, Zenon
<1>2. CommitComplete <=> [][Step]_vars
  BY DEF CommitComplete
<1> QED  BY <1>1, <1>2, TransactionInvariance, PTL DEF Spec

=============================================================================
