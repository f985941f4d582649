----------------------------- MODULE Producer -----------------------------
(***************************************************************************)
(* The sending pipeline of KafkaProducer without a transactional id: the   *)
(* RecordAccumulator (producer/record_accumulator.py), the Sender thread   *)
(* (producer/sender.py) and the idempotence half of the TransactionManager *)
(* (producer/transaction_manager.py), against an external broker.          *)
(*                                                                         *)
(* The sender is one thread: pc says where it stands in run_once, and the  *)
(* loops of the code over partitions, expired batches and the batches of a *)
(* response are taken one iteration at a time.  User threads append at any *)
(* moment, the broker and the network move on their own, and the clock     *)
(* passes the delivery deadline of the batches in their creation order.    *)
(*                                                                         *)
(* A batch is the number of its creation.  Nodes, linger, backoff, request *)
(* sizes and metadata only decide which partitions a round drains and how  *)
(* batches share requests: both are arbitrary here.                        *)
(***************************************************************************)
EXTENDS Integers, Sequences, Functions

CONSTANTS
    Partitions,      \* topic-partitions
    Nodes,           \* brokers
    MaxBatches,      \* bound: batches ever created
    BatchSize,       \* records a batch holds (batch_size)
    Retries,         \* the retries setting
    Idempotent,      \* enable_idempotence: there is a TransactionManager
    GuaranteeOrder,  \* guarantee_message_order: max_in_flight_requests = 1
    Expiry,          \* whether the clock may pass delivery_timeout_ms
    ErrorKinds,      \* the broker errors that may occur
    MaxFaults        \* bound: disconnections and broker errors

AllErrors == {"retriable", "nonretriable", "clusterAuth"}

\* KafkaProducer.__init__ refuses an idempotent producer without retries or
\* with more than one request in flight per connection.
ASSUME ConfigAssumption ==
    /\ MaxBatches \in Nat /\ MaxFaults \in Nat
    /\ BatchSize \in Nat \ {0} /\ Retries \in Nat
    /\ Idempotent \in BOOLEAN /\ GuaranteeOrder \in BOOLEAN /\ Expiry \in BOOLEAN
    /\ ErrorKinds \subseteq AllErrors
    /\ Idempotent => GuaranteeOrder /\ Retries > 0

Batches == 1 .. MaxBatches
NoPid == 0
NoSeq == -1
NoPartition == "none"
Copies == [batch : Batches, tp : Partitions, count : Nat, pid : Nat, seq : Int]

VARIABLES
    created,    \* number of batches created so far
    tp,         \* batch -> its partition
    count,      \* batch -> records in it (record_count)
    attempts,   \* batch -> times it was retried; in_retry() iff > 0
    final,      \* batch -> FinalState, or "none"
    bpid,       \* batch -> producer id written in it when first drained
    bseq,       \* batch -> base sequence written in it when first drained
    batches,    \* RecordAccumulator._batches: partition -> deque
    incomplete, \* RecordAccumulator._incomplete
    muted,      \* RecordAccumulator.muted
    inFlight,   \* Sender._in_flight_batches
    pc,         \* where the sender stands in run_once
    now,        \* the clock read at the start of _send_producer_data
    drained,    \* local batches_by_node: drained, not yet in a request
    expired,    \* local expired_batches still to be failed
    needsReset, \* local needs_transaction_state_reset
    handling,   \* batches of the response being handled
    raised,     \* an internal-consistency exception was raised
    producerId, \* TransactionManager.producer_id_and_epoch
    sequence,   \* TransactionManager._sequence_numbers
    fatal,      \* the TransactionManager is in FATAL_ERROR
    requests,   \* produce requests sent and not answered: sets of batches
    reply,      \* batch -> what the broker, or the network, answered
    zombies,    \* copies in failed requests the broker may still receive
    log,        \* partition -> copies written by the broker
    clock,      \* batches 1..clock have reached the delivery timeout
    faults,     \* faults so far
    lastPid     \* last producer id handed out by the broker

batchVars  == <<created, tp, count, attempts, final, bpid, bseq>>
accVars    == <<batches, incomplete, muted>>
senderVars == <<inFlight, pc, now, drained, expired, needsReset, handling, raised>>
tmVars     == <<producerId, sequence, fatal>>
envVars    == <<requests, reply, zombies, log, clock, faults, lastPid>>
vars == <<batchVars, accVars, senderVars, tmVars, envVars>>

FinalStates == {"none", "SUCCEEDED", "FAILED"}
Replies == {"none", "ok", "outOfOrder"} \cup AllErrors

Init ==
    /\ created = 0
    /\ tp = [b \in Batches |-> NoPartition]
    /\ count = [b \in Batches |-> 0]
    /\ attempts = [b \in Batches |-> 0]
    /\ final = [b \in Batches |-> "none"]
    /\ bpid = [b \in Batches |-> NoPid]
    /\ bseq = [b \in Batches |-> 0]
    /\ batches = [p \in Partitions |-> << >>]
    /\ incomplete = {} /\ muted = {} /\ inFlight = {}
    /\ pc = "loop" /\ now = 0
    /\ drained = {} /\ expired = {} /\ needsReset = FALSE
    /\ handling = {} /\ raised = FALSE
    /\ producerId = NoPid
    /\ sequence = [p \in Partitions |-> NoSeq]
    /\ fatal = FALSE
    /\ requests = {}
    /\ reply = [b \in Batches |-> "none"]
    /\ zombies = {}
    /\ log = [p \in Partitions |-> << >>]
    /\ clock = 0 /\ faults = 0 /\ lastPid = NoPid

----------------------------------------------------------------------------
(* User threads *)

\* Mutant: a batch takes one record more than it holds.
TryAppendTooMany(b) == attempts[b] = 0 /\ count[b] <= BatchSize

\* The last batch of a deque takes a record while its MemoryRecordsBuilder is
\* open and has room.  In a deque only a re-enqueued batch is closed.
TryAppend(b) == attempts[b] = 0 /\ count[b] < BatchSize

HasOpenBatch(p) == batches[p] # << >> /\ TryAppend(batches[p][Len(batches[p])])

\* RecordAccumulator.append: the open batch at the tail takes the record, or
\* a new batch is created behind it.  (Its two critical sections and the
\* closed flag are the subject of ProducerThreads.)
AppendToBatch(p) ==
    /\ HasOpenBatch(p)
    /\ count' = [count EXCEPT ![batches[p][Len(batches[p])]] = @ + 1]
    /\ UNCHANGED <<created, tp, attempts, final, bpid, bseq, accVars, senderVars, tmVars, envVars>>

AppendNewBatch(p) ==
    /\ ~HasOpenBatch(p) /\ created < MaxBatches
    /\ created' = created + 1
    /\ tp' = [tp EXCEPT ![created + 1] = p]
    /\ count' = [count EXCEPT ![created + 1] = 1]
    /\ batches' = [batches EXCEPT ![p] = Append(@, created + 1)]
    /\ incomplete' = incomplete \cup {created + 1}
    /\ UNCHANGED <<attempts, final, bpid, bseq, muted, senderVars, tmVars, envVars>>

\* Time: the oldest batch that had not reached delivery_timeout_ms does.
Tick ==
    /\ Expiry /\ clock < created
    /\ clock' = clock + 1
    /\ UNCHANGED <<batchVars, accVars, senderVars, tmVars,
                   requests, reply, zombies, log, faults, lastPid>>

HasReachedDeliveryTimeout(b) == b <= clock

----------------------------------------------------------------------------
(* Sender.run_once: the producer id *)

AtLoop == pc = "loop" /\ handling = {}

\* _maybe_wait_for_producer_id: InitProducerId is answered.
InitProducerId ==
    /\ AtLoop /\ Idempotent /\ producerId = NoPid
    /\ lastPid' = lastPid + 1
    /\ producerId' = lastPid + 1
    /\ UNCHANGED <<batchVars, accVars, senderVars, sequence, fatal,
                   requests, reply, zombies, log, clock, faults>>

\* _maybe_abort_batches calls abort_batches, which RecordAccumulator does not
\* have: with incomplete batches the iteration ends there, before the poll.
AfterFatal == IF incomplete = {} THEN "poll" ELSE "loop"

\* _maybe_wait_for_producer_id: InitProducerId is refused for good.
InitProducerIdFails ==
    /\ AtLoop /\ Idempotent /\ producerId = NoPid
    /\ "clusterAuth" \in ErrorKinds /\ faults < MaxFaults
    /\ faults' = faults + 1
    /\ fatal' = TRUE
    /\ pc' = AfterFatal
    /\ UNCHANGED <<batchVars, accVars, inFlight, now, drained, expired, needsReset,
                   handling, raised, producerId, sequence,
                   requests, reply, zombies, log, clock, lastPid>>

\* run_once in the fatal state: abort what is incomplete, else only poll.
RunOnceFatal ==
    /\ AtLoop /\ Idempotent /\ producerId # NoPid /\ fatal
    /\ pc' = AfterFatal
    /\ UNCHANGED <<batchVars, accVars, inFlight, now, drained, expired, needsReset,
                   handling, raised, tmVars, envVars>>

----------------------------------------------------------------------------
(* Sender._send_producer_data *)

\* Mutant: drain does not look at muted.
DrainableMuted(p) == batches[p] # << >>

\* RecordAccumulator.drain_batches_for_one_node may take the head of p.
Drainable(p) == p \notin muted /\ batches[p] # << >>

\* Mutant: a batch in retry gets a new producer id and sequence.
SetsProducerStateAgain(b) == Idempotent

\* A batch in retry keeps the producer id and the sequence of its first send.
SetsProducerState(b) == Idempotent /\ attempts[b] = 0

\* defaultdict: reading an absent sequence number creates it.
SequenceNumber(p) == IF sequence[p] = NoSeq THEN 0 ELSE sequence[p]

\* RecordAccumulator.ready and drain for the partitions P that this round
\* takes, the push on _in_flight_batches and the muting.
Drain(P) ==
    LET taken == {Head(batches[p]) : p \in P}
        stamped == {b \in taken : SetsProducerState(b)}
    IN  /\ AtLoop
        /\ Idempotent => producerId # NoPid /\ ~fatal
        /\ \A p \in P : Drainable(p)
        /\ batches' = [p \in Partitions |->
                          IF p \in P THEN Tail(batches[p]) ELSE batches[p]]
        /\ bpid' = [b \in Batches |-> IF b \in stamped THEN producerId ELSE bpid[b]]
        /\ bseq' = [b \in Batches |->
                       IF b \in stamped THEN SequenceNumber(tp[b]) ELSE bseq[b]]
        /\ sequence' = [p \in Partitions |->
                           IF \E b \in stamped : tp[b] = p THEN SequenceNumber(p)
                           ELSE sequence[p]]
        /\ inFlight' = inFlight \cup taken
        /\ muted' = IF GuaranteeOrder THEN muted \cup P ELSE muted
        /\ drained' = taken
        /\ now' = clock
        /\ pc' = "expireQueued"
        /\ UNCHANGED <<created, tp, count, attempts, final, incomplete,
                       expired, needsReset, handling, raised,
                       producerId, fatal, envVars>>

\* The reset is for batches that were sent before.
ResetsOnExpiry(b) == Idempotent /\ attempts[b] > 0

\* RecordAccumulator.expired_batches: pop the head while it is expired.
ExpireQueued(p) ==
    LET b == Head(batches[p]) IN
    /\ pc = "expireQueued"
    /\ batches[p] # << >>
    /\ b <= now
    /\ batches' = [batches EXCEPT ![p] = Tail(@)]
    /\ expired' = expired \cup {b}
    /\ needsReset' = (needsReset \/ ResetsOnExpiry(b))
    /\ UNCHANGED <<batchVars, incomplete, muted, inFlight, pc, now, drained,
                   handling, raised, tmVars, envVars>>

\* Mutant: expired batches leave the heap but are not failed.
ExpireInFlightDropped ==
    /\ pc = "expireQueued"
    /\ \A p \in Partitions : batches[p] # << >> => Head(batches[p]) > now
    /\ inFlight' = {b \in inFlight : ~HasReachedDeliveryTimeout(b)}
    /\ now' = 0
    /\ pc' = "fail"
    /\ UNCHANGED <<batchVars, accVars, drained, expired, needsReset, handling, raised,
                   tmVars, envVars>>

\* Sender._get_expired_inflight_batches, once no queued batch is expired.
\* Its own clock read is later than now.
ExpireInFlight ==
    LET old == {b \in inFlight : HasReachedDeliveryTimeout(b)} IN
    /\ pc = "expireQueued"
    /\ \A p \in Partitions : batches[p] # << >> => Head(batches[p]) > now
    /\ raised' = (raised \/ \E b \in old : final[b] # "none")
    /\ inFlight' = inFlight \ old
    /\ expired' = expired \cup old
    /\ needsReset' = (needsReset \/ \E b \in old : ResetsOnExpiry(b))
    /\ now' = 0
    /\ pc' = "fail"
    /\ UNCHANGED <<batchVars, accVars, drained, handling, tmVars, envVars>>

\* ProducerBatch.done: the first call decides, later failures are ignored, a
\* second call on a SUCCEEDED batch raises.  True: the future was completed.
Done(b) == final[b] = "none"
DoneRaises(b) == final[b] = "SUCCEEDED"

FinalAfter(b, state) == IF Done(b) THEN [final EXCEPT ![b] = state] ELSE final

\* What _fail_batch and the success branch of _complete_batch do once done()
\* returned: drop the batch from the in-flight heap and deallocate it.
Release(b, queues) == IF Done(b) THEN queues \ {b} ELSE queues

\* _fail_batch resets the producer id on an out-of-order sequence.
FailResets(b, error) == Idempotent /\ error = "outOfOrder" /\ producerId = bpid[b]

\* Sender._fail_batch (sender.py:426) for a batch and the kind of its error.
FailBatch(b, error) ==
    /\ IF FailResets(b, error)
       THEN producerId' = NoPid /\ sequence' = [p \in Partitions |-> NoSeq]
       ELSE UNCHANGED <<producerId, sequence>>
    /\ fatal' = (fatal \/ (Idempotent /\ error = "clusterAuth"))
    /\ final' = FinalAfter(b, "FAILED")
    /\ inFlight' = Release(b, inFlight)
    /\ incomplete' = Release(b, incomplete)

FailExpired(b) ==
    /\ pc = "fail" /\ b \in expired
    /\ FailBatch(b, "timeout")
    /\ expired' = expired \ {b}
    /\ raised' = (raised \/ DoneRaises(b))
    /\ UNCHANGED <<created, tp, count, attempts, bpid, bseq, batches, muted,
                   pc, now, drained, needsReset, handling, envVars>>

\* TransactionManager.reset_producer_id, and the return that follows: what
\* this round drained is not sent.
ResetProducerId ==
    /\ pc = "fail" /\ expired = {} /\ needsReset
    /\ producerId' = NoPid
    /\ sequence' = [p \in Partitions |-> NoSeq]
    /\ needsReset' = FALSE
    /\ drained' = {}
    /\ pc' = "poll"
    /\ UNCHANGED <<batchVars, accVars, inFlight, now, expired, handling, raised,
                   fatal, envVars>>

\* What a request holds of a batch: the header of its closed record buffer.
Copy(b) == [batch |-> b, tp |-> tp[b], count |-> count[b], pid |-> bpid[b], seq |-> bseq[b]]

\* _create_produce_requests and client.send: one request per node, grouped by
\* the leader node of each batch.
Send(leader) ==
    /\ pc = "fail" /\ expired = {} /\ ~needsReset
    /\ requests' = requests \cup
          {{b \in drained : leader[tp[b]] = n} : n \in {leader[tp[b]] : b \in drained}}
    /\ drained' = {}
    /\ pc' = "poll"
    /\ UNCHANGED <<batchVars, accVars, inFlight, now, expired, needsReset, handling,
                   raised, tmVars, reply, zombies, log, clock, faults, lastPid>>

----------------------------------------------------------------------------
(* KafkaClient.poll: responses and failures of produce requests *)

\* The sender also polls inside _maybe_wait_for_producer_id.
Polling == pc = "poll" \/ (pc = "loop" /\ Idempotent /\ producerId = NoPid)

\* A response with a result for every batch of the request R.
Response(R) ==
    /\ Polling /\ handling = {} /\ R \in requests
    /\ \A b \in R : reply[b] # "none"
    /\ handling' = R
    /\ requests' = requests \ {R}
    /\ UNCHANGED <<batchVars, accVars, inFlight, pc, now, drained, expired, needsReset,
                   raised, tmVars, reply, zombies, log, clock, faults, lastPid>>

\* Disconnection or request timeout: every batch of R fails with a retriable
\* error, whether the broker has handled it, may still handle it, or not.
FailedProduce(R) ==
    /\ Polling /\ handling = {} /\ R \in requests
    /\ faults < MaxFaults
    /\ faults' = faults + 1
    /\ zombies' = zombies \cup {Copy(b) : b \in {c \in R : reply[c] = "none"}}
    /\ reply' = [b \in Batches |-> IF b \in R THEN "retriable" ELSE reply[b]]
    /\ handling' = R
    /\ requests' = requests \ {R}
    /\ UNCHANGED <<batchVars, accVars, inFlight, pc, now, drained, expired, needsReset,
                   raised, tmVars, log, clock, lastPid>>

\* Mutant: the producer id of the batch is not compared.
MatchAny(b) == TRUE

\* ProducerIdAndEpoch.match
Match(b) == producerId = bpid[b]

\* Sender._can_retry for a retriable error
CanRetry(b) ==
    /\ ~HasReachedDeliveryTimeout(b)
    /\ attempts[b] < Retries
    /\ final[b] = "none"

\* Mutant: the batch goes behind the others of its partition.
ReenqueueLast(b) ==
    /\ attempts' = [attempts EXCEPT ![b] = @ + 1]
    /\ batches' = [batches EXCEPT ![tp[b]] = Append(@, b)]
    /\ inFlight' = inFlight \ {b}
    /\ UNCHANGED <<final, incomplete, tmVars>>

\* Mutant: a retried batch stays in the in-flight heap.
ReenqueueInFlight(b) ==
    /\ attempts' = [attempts EXCEPT ![b] = @ + 1]
    /\ batches' = [batches EXCEPT ![tp[b]] = <<b>> \o @]
    /\ UNCHANGED <<inFlight, final, incomplete, tmVars>>

\* RecordAccumulator.reenqueue puts the batch back at the front of its deque.
Reenqueue(b) ==
    /\ attempts' = [attempts EXCEPT ![b] = @ + 1]
    /\ batches' = [batches EXCEPT ![tp[b]] = <<b>> \o @]
    /\ inFlight' = inFlight \ {b}
    /\ UNCHANGED <<final, incomplete, tmVars>>

\* Mutant: the sequence advances by batches, not by records.
SucceedByOne(b) ==
    /\ final' = FinalAfter(b, "SUCCEEDED")
    /\ inFlight' = Release(b, inFlight)
    /\ incomplete' = Release(b, incomplete)
    /\ sequence' = IF Idempotent /\ Match(b) THEN [sequence EXCEPT ![tp[b]] = @ + 1] ELSE sequence
    /\ UNCHANGED <<attempts, batches, producerId, fatal>>

\* The success branch of _complete_batch: complete the future, then advance
\* the sequence of the partition if the producer id is still the batch's.
Succeed(b) ==
    /\ final' = FinalAfter(b, "SUCCEEDED")
    /\ inFlight' = Release(b, inFlight)
    /\ incomplete' = Release(b, incomplete)
    /\ sequence' = IF Idempotent /\ Match(b)
                   THEN [sequence EXCEPT ![tp[b]] = @ + count[b]] ELSE sequence
    /\ UNCHANGED <<attempts, batches, producerId, fatal>>

\* The exceptions _complete_batch can raise: done() on a SUCCEEDED batch,
\* increment_sequence_number for a partition with no sequence, and
\* muted.remove for a partition that is not muted.
CompleteBatchRaises(b) ==
    \/ DoneRaises(b)
    \/ reply[b] = "ok" /\ Idempotent /\ Match(b) /\ sequence[tp[b]] = NoSeq
    \/ GuaranteeOrder /\ tp[b] \notin muted

Retried(b) == reply[b] = "retriable" /\ CanRetry(b) /\ (~Idempotent \/ Match(b))

\* The last step of _complete_batch
Unmute(b) == IF GuaranteeOrder THEN muted \ {tp[b]} ELSE muted

\* Sender._complete_batch for one batch of the response being handled
CompleteBatch(b) ==
    /\ b \in handling
    /\ \/ reply[b] = "ok" /\ Succeed(b)
       \/ Retried(b) /\ Reenqueue(b)
       \/ /\ reply[b] # "ok" /\ ~Retried(b)
          /\ FailBatch(b, reply[b])
          /\ UNCHANGED <<attempts, batches>>
    /\ muted' = Unmute(b)
    /\ handling' = handling \ {b}
    /\ reply' = [reply EXCEPT ![b] = "none"]
    /\ raised' = (raised \/ CompleteBatchRaises(b))
    /\ UNCHANGED <<created, tp, count, bpid, bseq, pc, now, drained, expired, needsReset,
                   requests, zombies, log, clock, faults, lastPid>>

\* poll returns and run_once with it.
EndPoll ==
    /\ pc = "poll" /\ handling = {}
    /\ pc' = "loop"
    /\ UNCHANGED <<batchVars, accVars, inFlight, now, drained, expired, needsReset,
                   handling, raised, tmVars, envVars>>

----------------------------------------------------------------------------
(* The broker (external) *)

Written(p) == {log[p][i].batch : i \in 1 .. Len(log[p])}

\* The broker recognises a batch it has by producer id, sequence and length.
IsDuplicate(z) ==
    Idempotent /\ \E c \in Range(log[z.tp]) :
        c.pid = z.pid /\ c.seq = z.seq /\ c.count = z.count

\* The sequence the broker expects next from a producer id.
InSequence(z) ==
    LET ends == {c.seq + c.count : c \in {d \in Range(log[z.tp]) : d.pid = z.pid}}
    IN  ~Idempotent \/ (z.seq \in ends \cup {0} /\ \A e \in ends : e <= z.seq)

Accepts(z) == ~IsDuplicate(z) /\ InSequence(z)

LogAfter(z) == IF Accepts(z) THEN [log EXCEPT ![z.tp] = Append(@, z)] ELSE log

\* The leader handles a batch of a live request.
BrokerAppend(b) ==
    /\ b \in UNION requests /\ reply[b] = "none"
    /\ log' = LogAfter(Copy(b))
    /\ reply' = [reply EXCEPT ![b] =
                    IF IsDuplicate(Copy(b)) \/ InSequence(Copy(b)) THEN "ok" ELSE "outOfOrder"]
    /\ UNCHANGED <<batchVars, accVars, senderVars, tmVars,
                   requests, zombies, clock, faults, lastPid>>

\* It refuses one with another error, and writes nothing.
BrokerRefuse(b, e) ==
    /\ b \in UNION requests /\ reply[b] = "none" /\ faults < MaxFaults
    /\ reply' = [reply EXCEPT ![b] = e]
    /\ faults' = faults + 1
    /\ UNCHANGED <<batchVars, accVars, senderVars, tmVars,
                   requests, zombies, log, clock, lastPid>>

\* A request the client has given up on is handled late.
BrokerAppendLate(z) ==
    /\ z \in zombies
    /\ log' = LogAfter(z)
    /\ zombies' = zombies \ {z}
    /\ UNCHANGED <<batchVars, accVars, senderVars, tmVars,
                   requests, reply, clock, faults, lastPid>>

----------------------------------------------------------------------------
RunOnce ==
    \/ InitProducerId \/ InitProducerIdFails \/ RunOnceFatal
    \/ \E P \in SUBSET Partitions : Drain(P)
    \/ \E p \in Partitions : ExpireQueued(p)
    \/ ExpireInFlight
    \/ \E b \in Batches : FailExpired(b)
    \/ ResetProducerId
    \/ \E leader \in [Partitions -> Nodes] : Send(leader)
    \/ \E b \in Batches : CompleteBatch(b)
    \/ EndPoll

Network ==
    \/ \E R \in requests : Response(R) \/ FailedProduce(R)
    \/ \E b \in Batches : BrokerAppend(b)
    \/ \E z \in zombies : BrokerAppendLate(z)
    \/ \E b \in Batches, e \in ErrorKinds : BrokerRefuse(b, e)

Next ==
    \/ \E p \in Partitions : AppendToBatch(p) \/ AppendNewBatch(p)
    \/ Tick
    \/ RunOnce
    \/ Network

Spec == Init /\ [][Next]_vars

----------------------------------------------------------------------------
(* Properties *)

\* Every variable keeps its type; a batch never holds more than BatchSize
\* records (MemoryRecordsBuilder.append refuses them) and the sender is always
\* at one of the points of run_once.
TypeOK ==
    /\ created \in 0 .. MaxBatches
    /\ tp \in [Batches -> Partitions \cup {NoPartition}]
    /\ count \in [Batches -> 0 .. BatchSize]
    /\ attempts \in [Batches -> Nat]
    /\ final \in [Batches -> FinalStates]
    /\ bpid \in [Batches -> Nat]
    /\ bseq \in [Batches -> Int]
    /\ batches \in [Partitions -> Seq(Batches)]
    /\ incomplete \subseteq Batches /\ muted \subseteq Partitions
    /\ inFlight \subseteq Batches
    /\ pc \in {"loop", "expireQueued", "fail", "poll"}
    /\ now \in 0 .. MaxBatches
    /\ drained \subseteq Batches /\ expired \subseteq Batches
    /\ needsReset \in BOOLEAN
    /\ handling \subseteq Batches /\ raised \in BOOLEAN
    /\ producerId \in Nat
    /\ sequence \in [Partitions -> Int]
    /\ fatal \in BOOLEAN
    /\ requests \subseteq SUBSET Batches
    /\ reply \in [Batches -> Replies]
    /\ zombies \subseteq Copies
    /\ log \in [Partitions -> Seq(Copies)]
    /\ clock \in 0 .. MaxBatches /\ faults \in 0 .. MaxFaults /\ lastPid \in Nat

Queued(p) == Range(batches[p])

\* Batches sent, or about to be, whose outcome the sender has not handled.
Pending == drained \cup handling \cup UNION requests

\* No accepted record is lost inside the producer, and none is in two places:
\* a batch whose future is not completed is incomplete, and sits once in the
\* deque of its partition, or in the in-flight heap, or in the list of batches
\* being expired; a completed batch is in none of them (append, drain,
\* expired_batches, reenqueue, _fail_batch and _complete_batch move it).
NothingLost ==
    /\ \A b \in Batches : b \in incomplete <=> b <= created /\ final[b] = "none"
    /\ \A b \in incomplete :
        \/ b \in Queued(tp[b]) /\ b \notin inFlight /\ b \notin expired
        \/ b \notin Queued(tp[b]) /\ b \in inFlight /\ b \notin expired
        \/ b \notin Queued(tp[b]) /\ b \notin inFlight /\ b \in expired
    /\ inFlight \cup expired \subseteq incomplete
    /\ \A p \in Partitions :
        /\ IsInjective(batches[p])
        /\ \A b \in Queued(p) : b \in incomplete /\ tp[b] = p

\* With max_in_flight_requests_per_connection = 1 a partition with a batch
\* whose outcome is unknown is muted and has no second such batch: the batch
\* may have expired meanwhile, and a late response still finds it alone.
OneInFlight ==
    GuaranteeOrder =>
        /\ \A b \in Pending : tp[b] \in muted
        /\ \A b, c \in Pending : tp[b] = tp[c] => b = c

\* None of the sender's internal-consistency checks ever fires: done() on a
\* SUCCEEDED batch (record_accumulator.py:149), an in-flight heap entry with a
\* final state (sender.py:92), a missing sequence number
\* (transaction_manager.py:325), muted.remove of an unmuted partition
\* (sender.py:519).
NeverRaises == ~raised

\* With message ordering guaranteed the deque of a partition is in creation
\* order and the batch in flight precedes all of it, so that a retry put back
\* at the front keeps the order.
QueueInOrder ==
    GuaranteeOrder => \A p \in Partitions :
        /\ \A i, j \in 1 .. Len(batches[p]) : i < j => batches[p][i] < batches[p][j]
        /\ \A b \in Pending, c \in Queued(p) : tp[b] = p => b < c

\* Idempotence: however requests are lost, repeated or delayed, the broker
\* writes no batch twice.
NoDuplicates ==
    Idempotent => \A p \in Partitions : \A i, j \in 1 .. Len(log[p]) :
        log[p][i].batch = log[p][j].batch => i = j

FirstWrite(b) == CHOOSE i \in 1 .. Len(log[tp[b]]) :
    log[tp[b]][i].batch = b /\ \A j \in 1 .. i - 1 : log[tp[b]][j].batch # b

\* Two acknowledged batches of a partition are in the log in the order in
\* which their records were sent, whatever failed between them.
AckedInOrder ==
    GuaranteeOrder => \A p \in Partitions : \A b, c \in Written(p) :
        final[b] = "SUCCEEDED" /\ final[c] = "SUCCEEDED" /\ b < c
            => FirstWrite(b) < FirstWrite(c)

\* A batch reported as sent is in the log of its partition.
AckedWritten ==
    \A b \in Batches : final[b] = "SUCCEEDED" => b \in Written(tp[b])

\* A partition is muted only while one of its batches is in flight
\* (record_accumulator.py:483).
MutedOnlyInFlight == \A p \in muted : \E b \in Pending : tp[b] = p

============================================================================
