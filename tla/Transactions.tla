---------------------------- MODULE Transactions ----------------------------
(***************************************************************************)
(* The transactional producer: TransactionManager and its request handlers *)
(* (producer/transaction_manager.py), the part of Sender.run_once that     *)
(* drives them (producer/sender.py), the blocking API of KafkaProducer,    *)
(* and an external transaction coordinator.                                *)
(*                                                                         *)
(* One application thread calls the API.  Every send is a batch of its own *)
(* and its life in the accumulator is a status.  Calls that only raise     *)
(* change nothing and are left out.                                        *)
(***************************************************************************)
EXTENDS Naturals, Sequences

CONSTANTS
    Partitions,
    MaxSends,    \* bound: calls of send()
    MaxTxns,     \* bound: calls of begin_transaction()
    MaxFaults,   \* bound: faults of the kinds in setup.faults
    Setups       \* [partitions, sends, faults, flush]: what the application
                 \* writes to, how often, which faults may occur, and whether
                 \* it waits for its sends before it completes a transaction

AllFaults == {"disconnect", "connection", "retriable", "fatal", "offsetCommit",
              "produceRetriable", "produceFails", "produceFenced", "expiry"}

ASSUME TransactionsAssumption ==
    /\ MaxSends \in Nat /\ MaxTxns \in Nat /\ MaxFaults \in Nat
    /\ Setups \subseteq [partitions : SUBSET Partitions, sends : 0 .. MaxSends,
                          faults : SUBSET AllFaults, flush : BOOLEAN]

Sends == 1 .. MaxSends

VARIABLES
    setup,        \* chosen once
    state,        \* TransactionManager._current_state
    newParts,     \* _new_partitions_in_transaction
    pendingParts, \* _pending_partitions_in_transaction
    partsInTxn,   \* _partitions_in_transaction
    started,      \* _transaction_started
    pending,      \* _pending_requests, in the order of the heap
    inFlight,     \* the transactional request in flight: a sequence of length 0 or 1
    hasPid,       \* producer_id_and_epoch.is_valid
    coordinators, \* the coordinators that are known: "transaction", "group"
    result,       \* the TransactionalRequestResult the application waits for
    pc,           \* where the sender is in run_once
    hasIncomplete,\* has_incomplete as read before next_request_handler
    nsends, ntxns,
    intent,       \* transaction -> what the application asked for
    part, txnOf,  \* send -> its partition, its transaction
    status,       \* send -> where its batch is
    faults,
    registered,   \* coordinator: partitions of the ongoing transaction
    written,      \* brokers: sends written in the ongoing transaction
    visible       \* sends a read_committed consumer sees

tmVars     == <<state, newParts, pendingParts, partsInTxn, started>>
reqVars    == <<pending, inFlight, hasPid, coordinators, result>>
batchVars  == <<nsends, ntxns, intent, part, txnOf, status>>
brokerVars == <<registered, written, visible>>
vars == <<tmVars, reqVars, pc, hasIncomplete, batchVars, faults, brokerVars>>

(* Handlers: the kind, and what distinguishes two requests of a kind *)
Handler(kind) == [kind |-> kind, parts |-> {}, committed |-> FALSE]
FindCoordinator(type) == Handler(IF type = "group" THEN "FindGroup" ELSE "FindTransaction")
InitProducerId == Handler("InitProducerId")
AddPartitions(ps) == [Handler("AddPartitions") EXCEPT !.parts = ps]
AddOffsets == Handler("AddOffsets")
TxnOffsetCommit == Handler("TxnOffsetCommit")
\* Mutant: EndTxn ignores what the application asked for.
EndTxnCommits(committed) == [Handler("EndTxn") EXCEPT !.committed = TRUE]
EndTxn(committed) == [Handler("EndTxn") EXCEPT !.committed = committed]

Init ==
    /\ setup \in Setups
    /\ state = "UNINITIALIZED"
    /\ newParts = {} /\ pendingParts = {} /\ partsInTxn = {} /\ started = FALSE
    /\ pending = << >> /\ inFlight = << >> /\ hasPid = FALSE /\ coordinators = {}
    /\ result = "none"
    /\ pc = "loop" /\ hasIncomplete = FALSE
    /\ nsends = 0 /\ ntxns = 0 /\ intent = [n \in 1 .. MaxTxns |-> "open"]
    /\ part = [s \in Sends |-> "none"] /\ txnOf = [s \in Sends |-> 0]
    /\ status = [s \in Sends |-> "none"]
    /\ faults = 0
    /\ registered = {} /\ written = {} /\ visible = {}

----------------------------------------------------------------------------
(* Helpers *)

Priority(h) ==
    CASE h.kind \in {"FindGroup", "FindTransaction"} -> 0
      [] h.kind = "InitProducerId" -> 1
      [] h.kind \in {"AddPartitions", "AddOffsets", "TxnOffsetCommit"} -> 2
      [] h.kind = "EndTxn" -> 3

\* _enqueue_request: the heap is ordered by priority, then by arrival.
Enqueue(q, h) ==
    [i \in 1 .. Len(q) + 1 |->
        IF i <= Len(q) /\ Priority(q[i]) <= Priority(h) THEN q[i]
        ELSE IF i = 1 \/ Priority(q[i - 1]) <= Priority(h) THEN h ELSE q[i - 1]]

CoordinatorType(h) ==
    CASE h.kind \in {"FindGroup", "FindTransaction"} -> "none"
      [] h.kind = "TxnOffsetCommit" -> "group"
      [] OTHER -> "transaction"

\* _lookup_coordinator followed by reenqueue or retry of the handler
LookupAndReenqueue(q, h) ==
    LET type == CoordinatorType(h) IN
    IF type = "none" THEN Enqueue(q, h)
    ELSE Enqueue(Enqueue(q, FindCoordinator(type)), h)

\* TransactionState.is_transition_valid
Valid(source, target) ==
    CASE target = "INITIALIZING" -> source = "UNINITIALIZED"
      [] target = "READY" -> source \in {"INITIALIZING", "COMMITTING", "ABORTING"}
      [] target = "IN_TRANSACTION" -> source = "READY"
      [] target = "COMMITTING" -> source = "IN_TRANSACTION"
      [] target = "ABORTING" -> source \in {"IN_TRANSACTION", "ABORTABLE_ERROR"}
      [] target = "ABORTABLE_ERROR" ->
             source \in {"IN_TRANSACTION", "COMMITTING", "ABORTABLE_ERROR"}
      [] target = "FATAL_ERROR" -> TRUE

\* _transition_to, where it does not raise
TransitionTo(target) == Valid(state, target) /\ state' = target

HasFatalError == state = "FATAL_ERROR"
HasAbortableError == state = "ABORTABLE_ERROR"
HasError == HasAbortableError \/ HasFatalError
IsAborting == state = "ABORTING"
IsCompleting == state \in {"COMMITTING", "ABORTING"}

\* A batch is incomplete until its future is done.  "flight": in a request;
\* "limbo": drained, but its request was never sent; "lost": taken from its
\* queue by an expiry or an error that then raised.
Undrained == {s \in Sends : status[s] \in {"queued", "retry"}}
Drained   == {s \in Sends : status[s] \in {"flight", "limbo", "lost"}}
Incomplete == Undrained \cup Drained

Fault(kind) == kind \in setup.faults /\ faults < MaxFaults /\ faults' = faults + 1

----------------------------------------------------------------------------
(* The application *)

Calling == result # "pending"
NothingToFlush == setup.flush => Incomplete = {}

\* TransactionManager.initialize_transactions
InitializeTransactions ==
    /\ TransitionTo("INITIALIZING")
    /\ hasPid' = FALSE
    /\ pending' = Enqueue(pending, InitProducerId)

InitTransactions ==
    /\ Calling /\ InitializeTransactions
    /\ result' = "pending"
    /\ UNCHANGED <<newParts, pendingParts, partsInTxn, started, inFlight, coordinators,
                   pc, hasIncomplete, batchVars, faults, brokerVars>>

\* TransactionManager.begin_transaction
EnterTransaction == ~HasError /\ TransitionTo("IN_TRANSACTION")

BeginTransaction ==
    /\ Calling /\ EnterTransaction /\ ntxns < MaxTxns
    /\ ntxns' = ntxns + 1
    /\ UNCHANGED <<newParts, pendingParts, partsInTxn, started, reqVars, pc, hasIncomplete,
                   nsends, intent, part, txnOf, status, faults, brokerVars>>

\* send: maybe_add_partition_to_transaction, then append
Send(p) ==
    /\ Calling /\ state = "IN_TRANSACTION" /\ hasPid /\ nsends < setup.sends
    /\ newParts' = IF p \in partsInTxn \cup pendingParts THEN newParts ELSE newParts \cup {p}
    /\ nsends' = nsends + 1
    /\ part' = [part EXCEPT ![nsends + 1] = p]
    /\ txnOf' = [txnOf EXCEPT ![nsends + 1] = ntxns]
    /\ status' = [status EXCEPT ![nsends + 1] = "queued"]
    /\ UNCHANGED <<state, pendingParts, partsInTxn, started, reqVars, pc, hasIncomplete,
                   ntxns, intent, faults, brokerVars>>

\* TransactionManager.send_offsets_to_transaction
EnqueueOffsets ==
    /\ ~HasError /\ state = "IN_TRANSACTION"
    /\ pending' = Enqueue(pending, AddOffsets)

SendOffsets ==
    /\ Calling /\ EnqueueOffsets
    /\ result' = "pending"
    /\ UNCHANGED <<tmVars, inFlight, hasPid, coordinators, pc, hasIncomplete,
                   batchVars, faults, brokerVars>>

\* _begin_completing_transaction
BeginCompleting(committed) ==
    LET toAdd == IF committed THEN newParts ELSE {}
        q == IF toAdd = {} THEN pending
             ELSE Enqueue(pending, AddPartitions(pendingParts \cup toAdd))
    IN  /\ newParts' = {}
        /\ pendingParts' = pendingParts \cup toAdd
        /\ pending' = Enqueue(q, EndTxn(committed))
        /\ result' = "pending"
        /\ intent' = [intent EXCEPT ![ntxns] = IF committed THEN "commit" ELSE "abort"]
        /\ UNCHANGED <<partsInTxn, started, inFlight, hasPid, coordinators, pc, hasIncomplete,
                       nsends, ntxns, part, txnOf, status, faults, brokerVars>>

\* TransactionManager.begin_commit and begin_abort
BeginCommit == ~HasError /\ TransitionTo("COMMITTING") /\ BeginCompleting(TRUE)
BeginAbort == TransitionTo("ABORTING") /\ BeginCompleting(FALSE)

CommitTransaction == Calling /\ NothingToFlush /\ BeginCommit
AbortTransaction == Calling /\ NothingToFlush /\ BeginAbort

----------------------------------------------------------------------------
(* Sender._maybe_send_transactional_request *)

HasInFlightRequest == inFlight # << >>

\* A request in flight: only poll.
AwaitInFlight ==
    /\ pc = "loop" /\ HasInFlightRequest
    /\ pc' = "poll"
    /\ UNCHANGED <<tmVars, reqVars, hasIncomplete, batchVars, faults, brokerVars>>

\* RecordAccumulator.abort_undrained_batches walks over the incomplete batches
\* in any order and aborts them; at a drained one deque.remove raises.
AbortUndrained(aborted) ==
    /\ aborted \subseteq Undrained
    /\ Drained = {} => aborted = Undrained
    /\ status' = [s \in Sends |-> IF s \in aborted THEN "aborted" ELSE status[s]]

\* Completing with incomplete batches: RecordAccumulator has no
\* flush_in_progress(), so the iteration ends here with an exception, after
\* the batches that could be aborted were.
CompletingRaises ==
    /\ pc = "loop" /\ ~HasInFlightRequest
    /\ IsCompleting /\ Incomplete # {}
    /\ IF IsAborting THEN \E aborted \in SUBSET Undrained : AbortUndrained(aborted)
       ELSE status' = status
    /\ UNCHANGED <<tmVars, reqVars, pc, hasIncomplete, nsends, ntxns, intent, part, txnOf,
                   faults, brokerVars>>

\* has_incomplete is read before next_request_handler takes the lock.
ReadHasIncomplete ==
    /\ pc = "loop" /\ ~HasInFlightRequest
    /\ ~(IsCompleting /\ Incomplete # {})
    /\ hasIncomplete' = (Incomplete # {})
    /\ pc' = "next"
    /\ UNCHANGED <<tmVars, reqVars, batchVars, faults, brokerVars>>

\* next_request_handler first turns new partitions into a request.
Candidates ==
    IF newParts = {} THEN pending
    ELSE Enqueue(pending, AddPartitions(pendingParts \cup newParts))

Popped == Tail(Candidates)
Top == Head(Candidates)

\* The heap is empty, or EndTxn has to wait for batches.
NothingToSend == Candidates # << >> => (Top.kind = "EndTxn" /\ hasIncomplete)

\* _maybe_terminate_request_with_error
Terminated(h) ==
    HasError /\ ~(HasAbortableError /\ h.kind \in {"FindGroup", "FindTransaction"})

\* The requests whose result the application waits for
OwnsResult(h) == h.kind \in {"InitProducerId", "AddOffsets", "TxnOffsetCommit", "EndTxn"}

\* Mutant: the partitions of the transaction are kept for the next one.
CompleteKeepsPartitions ==
    /\ state' = "READY" /\ started' = FALSE
    /\ newParts' = {} /\ pendingParts' = {} /\ partsInTxn' = partsInTxn

\* _complete_transaction
CompleteTransaction ==
    /\ state' = "READY" /\ started' = FALSE
    /\ newParts' = {} /\ pendingParts' = {} /\ partsInTxn' = {}

\* The coordinator a request goes to is known, or it needs none.
CoordinatorKnown(h) == CoordinatorType(h) \in coordinators \cup {"none"}

\* The request takes the next correlation id and is sent.
SendRequest(h) == inFlight' = Append(inFlight, h)

NextRequest ==
    /\ pc = "next"
    /\ hasIncomplete' = FALSE
    /\ \/ /\ NothingToSend
          /\ pc' = "produce" /\ pending' = Candidates
          /\ newParts' = {} /\ pendingParts' = pendingParts \cup newParts
          /\ UNCHANGED <<state, partsInTxn, started, inFlight, coordinators, result>>
       \/ /\ ~NothingToSend /\ Terminated(Top)
          /\ pc' = "produce" /\ pending' = Popped
          /\ result' = IF OwnsResult(Top) THEN "failed" ELSE result
          /\ newParts' = {} /\ pendingParts' = pendingParts \cup newParts
          /\ UNCHANGED <<state, partsInTxn, started, inFlight, coordinators>>
       \/ \* EndTxn of a transaction that registered nothing, the last request
          /\ ~NothingToSend /\ ~Terminated(Top) /\ Top.kind = "EndTxn" /\ ~started
          /\ Popped = << >>
          /\ pc' = "produce" /\ pending' = Popped
          /\ result' = "done"
          /\ CompleteTransaction
          /\ UNCHANGED <<inFlight, coordinators>>
       \/ /\ ~NothingToSend /\ ~Terminated(Top) /\ ~(Top.kind = "EndTxn" /\ ~started)
          /\ pc' = "poll"
          /\ newParts' = {} /\ pendingParts' = pendingParts \cup newParts
          /\ IF CoordinatorKnown(Top)
             THEN SendRequest(Top) /\ pending' = Popped
             ELSE inFlight' = inFlight /\ pending' = LookupAndReenqueue(Popped, Top)
          /\ UNCHANGED <<state, partsInTxn, started, coordinators, result>>
    /\ UNCHANGED <<hasPid, batchVars, faults, brokerVars>>

\* await_ready does not reach the node of the coordinator, which is looked up
\* again.  If it returned False the request is repeated.  If it raised
\* KafkaConnectionError it is not: target_node is still set.
CoordinatorNotReady ==
    /\ pc = "next" /\ ~NothingToSend /\ ~Terminated(Top)
    /\ ~(Top.kind = "EndTxn" /\ ~started)
    /\ CoordinatorType(Top) \in coordinators
    /\ \/ Fault("disconnect") /\ pending' = LookupAndReenqueue(Popped, Top)
       \/ Fault("connection") /\ pending' = Enqueue(Popped, FindCoordinator(CoordinatorType(Top)))
    /\ pc' = "poll" /\ hasIncomplete' = FALSE
    /\ newParts' = {} /\ pendingParts' = pendingParts \cup newParts
    /\ coordinators' = coordinators \ {CoordinatorType(Top)}
    /\ UNCHANGED <<state, partsInTxn, started, inFlight, hasPid, result, batchVars, brokerVars>>

----------------------------------------------------------------------------
(* The rest of run_once: _send_producer_data *)

\* A fatal error: _maybe_abort_batches calls abort_batches, which the
\* accumulator does not have.  No producer id: only poll.
ProduceBlocked ==
    /\ pc = "produce" /\ (HasFatalError \/ ~hasPid)
    /\ pc' = IF HasFatalError /\ Incomplete # {} THEN "loop" ELSE "poll"
    /\ UNCHANGED <<tmVars, reqVars, hasIncomplete, batchVars, faults, brokerVars>>

CanProduce == pc = "produce" /\ ~HasFatalError /\ hasPid

\* An abortable error with a drained batch: abort_undrained_batches raises.
AbortableRaises ==
    /\ CanProduce /\ HasAbortableError /\ Drained # {}
    /\ \E aborted \in SUBSET Undrained : AbortUndrained(aborted)
    /\ pc' = "loop"
    /\ UNCHANGED <<tmVars, reqVars, hasIncomplete, nsends, ntxns, intent, part, txnOf,
                   faults, brokerVars>>

AbortQueued ==
    /\ CanProduce /\ HasAbortableError /\ Drained = {}
    /\ AbortUndrained(Undrained)
    /\ pc' = "poll"
    /\ UNCHANGED <<tmVars, reqVars, hasIncomplete, nsends, ntxns, intent, part, txnOf,
                   faults, brokerVars>>

\* Mutant: a partition is sent to before the coordinator confirmed it.
IsSendAllowedEarly(p) == p \in partsInTxn \cup pendingParts

\* drain: the oldest batch of a partition that is in the transaction
\* (is_send_to_partition_allowed) and has no batch in flight.
IsSendAllowed(p) == p \in partsInTxn
Drainable ==
    {s \in Undrained : /\ IsSendAllowed(part[s])
                       /\ \A r \in Drained : part[r] # part[s]
                       /\ \A r \in Undrained : part[r] = part[s] => s <= r}

ProduceData(D) ==
    /\ CanProduce /\ ~HasAbortableError /\ D \subseteq Drainable
    /\ status' = [s \in Sends |-> IF s \in D THEN "flight" ELSE status[s]]
    /\ pc' = "poll"
    /\ UNCHANGED <<tmVars, reqVars, hasIncomplete, nsends, ntxns, intent, part, txnOf,
                   faults, brokerVars>>

\* Sender._fail_batch: the error makes the transaction abortable, or the
\* transition is invalid and raises before the batch is completed ("lost").
Failable == IsAborting \/ Valid(state, "ABORTABLE_ERROR")
FailBatch(s, others) ==
    /\ state' = IF Failable /\ ~IsAborting THEN "ABORTABLE_ERROR" ELSE state
    /\ status' = [others EXCEPT ![s] = IF Failable THEN "failed" ELSE "lost"]

\* A queued batch reaches delivery_timeout_ms while D is drained.  If it was
\* sent before, reset_producer_id raises: D stays drained and unsent.
ExpireBatch(s, D) ==
    LET raises == ~Failable \/ status[s] = "retry" IN
    /\ CanProduce /\ ~HasAbortableError /\ D \subseteq Drainable
    /\ s \in Undrained \ D
    /\ Fault("expiry")
    /\ FailBatch(s, [r \in Sends |-> IF r \notin D THEN status[r]
                                     ELSE IF raises THEN "limbo" ELSE "flight"])
    /\ pc' = IF raises THEN "loop" ELSE "poll"
    /\ UNCHANGED <<newParts, pendingParts, partsInTxn, started, reqVars, hasIncomplete,
                   nsends, ntxns, intent, part, txnOf, brokerVars>>

----------------------------------------------------------------------------
(* Poll: answers to produce requests *)

Flying(s) == pc = "poll" /\ status[s] = "flight"

ProduceOk(s) ==
    /\ Flying(s)
    /\ status' = [status EXCEPT ![s] = "acked"]
    /\ written' = written \cup {s}
    /\ UNCHANGED <<tmVars, reqVars, pc, hasIncomplete, nsends, ntxns, intent, part, txnOf,
                   faults, registered, visible>>

\* The batch may have been written when the error is reported.
ProduceRetriable(s) ==
    /\ Flying(s) /\ Fault("produceRetriable")
    /\ status' = [status EXCEPT ![s] = "retry"]
    /\ written' \in {written, written \cup {s}}
    /\ UNCHANGED <<tmVars, reqVars, pc, hasIncomplete, nsends, ntxns, intent, part, txnOf,
                   registered, visible>>

ProduceFails(s) ==
    /\ Flying(s) /\ Fault("produceFails")
    /\ FailBatch(s, status)
    /\ UNCHANGED <<newParts, pendingParts, partsInTxn, started, reqVars, pc, hasIncomplete,
                   nsends, ntxns, intent, part, txnOf, brokerVars>>

ProduceFenced(s) ==
    /\ Flying(s) /\ Fault("produceFenced")
    /\ state' = "FATAL_ERROR"
    /\ status' = [status EXCEPT ![s] = "failed"]
    /\ UNCHANGED <<newParts, pendingParts, partsInTxn, started, reqVars, pc, hasIncomplete,
                   nsends, ntxns, intent, part, txnOf, brokerVars>>

----------------------------------------------------------------------------
(* The transaction coordinator (external) *)

\* What a request does once the coordinator accepts it.  Repeating an EndTxn
\* that was applied changes nothing.
Apply(h) ==
    LET ended == {s \in written : part[s] \in registered} IN
    /\ registered' = CASE h.kind = "AddPartitions" -> registered \cup h.parts
                       [] h.kind = "EndTxn" -> {}
                       [] OTHER -> registered
    /\ written' = IF h.kind = "EndTxn" THEN written \ ended ELSE written
    /\ visible' = IF h.kind = "EndTxn" /\ h.committed THEN visible \cup ended ELSE visible

NotApplied == UNCHANGED brokerVars

----------------------------------------------------------------------------
(* Poll: answers to transactional requests.  on_complete first clears the   *)
(* correlation id of the request in flight.                                 *)

Answered(kind) ==
    /\ pc = "poll" /\ HasInFlightRequest /\ inFlight[1].kind = kind
    /\ inFlight' = << >>
    /\ UNCHANGED <<pc, hasIncomplete, batchVars>>

CoordinatorFound(type) ==
    /\ Answered(FindCoordinator(type).kind)
    /\ coordinators' = coordinators \cup {type}
    /\ UNCHANGED <<tmVars, pending, hasPid, result, faults, brokerVars>>

ProducerIdReceived ==
    /\ Answered("InitProducerId")
    /\ hasPid' = TRUE /\ state' = "READY" /\ result' = "done"
    /\ UNCHANGED <<newParts, pendingParts, partsInTxn, started, pending, coordinators,
                   faults, brokerVars>>

\* Mutant: the transaction is not marked as started.
PartitionsAddedNotStarted ==
    LET parts == inFlight[1].parts IN
    /\ Answered("AddPartitions")
    /\ Apply(inFlight[1])
    /\ pendingParts' = pendingParts \ parts
    /\ partsInTxn' = partsInTxn \cup parts
    /\ UNCHANGED <<state, newParts, started, pending, hasPid, coordinators, result, faults>>

PartitionsAdded ==
    LET parts == inFlight[1].parts IN
    /\ Answered("AddPartitions")
    /\ Apply(inFlight[1])
    /\ pendingParts' = pendingParts \ parts
    /\ partsInTxn' = partsInTxn \cup parts
    /\ started' = TRUE
    /\ UNCHANGED <<state, newParts, pending, hasPid, coordinators, result, faults>>

OffsetsAdded ==
    /\ Answered("AddOffsets")
    /\ pending' = Enqueue(pending, TxnOffsetCommit)
    /\ started' = TRUE
    /\ UNCHANGED <<state, newParts, pendingParts, partsInTxn, hasPid, coordinators, result,
                   faults, brokerVars>>

OffsetsCommitted ==
    /\ Answered("TxnOffsetCommit")
    /\ result' = "done"
    /\ UNCHANGED <<tmVars, pending, hasPid, coordinators, faults, brokerVars>>

\* _complete_transaction raises when READY cannot be reached.
TransactionEnded ==
    /\ Answered("EndTxn")
    /\ Apply(inFlight[1])
    /\ IF Valid(state, "READY") THEN CompleteTransaction /\ result' = "done"
       ELSE UNCHANGED <<tmVars, result>>
    /\ UNCHANGED <<pending, hasPid, coordinators, faults>>

\* Mutant: the coordinator is looked up but the request is not repeated.
LookupOnly(kind) ==
    /\ Answered(kind)
    /\ Fault("disconnect")
    /\ Apply(inFlight[1]) \/ NotApplied
    /\ pending' = Enqueue(pending, FindCoordinator("transaction"))
    /\ coordinators' = coordinators \ {CoordinatorType(inFlight[1])}
    /\ UNCHANGED <<tmVars, hasPid, result>>

\* KafkaConnectionError, NotCoordinatorError, CoordinatorNotAvailableError: the
\* coordinator is looked up again and the request repeated.
LookupAndRetry(kind) ==
    /\ Answered(kind)
    /\ Fault("disconnect")
    /\ Apply(inFlight[1]) \/ NotApplied
    /\ pending' = LookupAndReenqueue(pending, inFlight[1])
    /\ coordinators' = coordinators \ {CoordinatorType(inFlight[1])}
    /\ UNCHANGED <<tmVars, hasPid, result>>

\* CoordinatorLoadInProgressError, ConcurrentTransactionsError and the like
Retry(kind) ==
    /\ kind # "TxnOffsetCommit"
    /\ Answered(kind)
    /\ Fault("retriable")
    /\ pending' = Enqueue(pending, inFlight[1])
    /\ UNCHANGED <<tmVars, hasPid, coordinators, result, brokerVars>>

\* An error the handler reports with fatal_error or abortable_error: both call
\* a method TransactionManager does not have, so the handler ends there.
Dropped(kind) ==
    /\ Answered(kind)
    /\ Fault("fatal")
    /\ Apply(inFlight[1]) \/ NotApplied
    /\ pendingParts' \in {pendingParts, pendingParts \ inFlight[1].parts}
    /\ UNCHANGED <<state, newParts, partsInTxn, started, pending, hasPid, coordinators, result>>

\* Any partition error in a TxnOffsetCommit response: the test that sorts the
\* errors reads an attribute of the dict of errors and raises.
OffsetCommitError ==
    /\ Answered("TxnOffsetCommit")
    /\ Fault("offsetCommit")
    /\ UNCHANGED <<tmVars, pending, hasPid, coordinators, result, brokerVars>>

EndPoll ==
    /\ pc = "poll"
    /\ pc' = "loop"
    /\ UNCHANGED <<tmVars, reqVars, hasIncomplete, batchVars, faults, brokerVars>>

----------------------------------------------------------------------------
Kinds == {"FindGroup", "FindTransaction", "InitProducerId", "AddPartitions", "AddOffsets",
          "TxnOffsetCommit", "EndTxn"}

Application ==
    \/ InitTransactions \/ BeginTransaction \/ SendOffsets
    \/ CommitTransaction \/ AbortTransaction
    \/ \E p \in setup.partitions : Send(p)

RunOnce ==
    \/ AwaitInFlight \/ CompletingRaises \/ ReadHasIncomplete
    \/ NextRequest \/ CoordinatorNotReady
    \/ ProduceBlocked \/ AbortableRaises \/ AbortQueued
    \/ \E D \in SUBSET Drainable : ProduceData(D) \/ \E s \in Sends : ExpireBatch(s, D)
    \/ EndPoll

ProduceResponse ==
    \E s \in Sends : ProduceOk(s) \/ ProduceRetriable(s) \/ ProduceFails(s) \/ ProduceFenced(s)

Success ==
    \/ \E type \in {"group", "transaction"} : CoordinatorFound(type)
    \/ ProducerIdReceived \/ PartitionsAdded \/ OffsetsAdded \/ OffsetsCommitted
    \/ TransactionEnded

TxnResponse ==
    \/ Success \/ OffsetCommitError
    \/ \E kind \in Kinds : LookupAndRetry(kind) \/ Retry(kind) \/ Dropped(kind)

Next == (Application \/ RunOnce \/ ProduceResponse \/ TxnResponse) /\ UNCHANGED setup

Spec == Init /\ [][Next]_<<vars, setup>>

----------------------------------------------------------------------------
(* Properties *)

States == {"UNINITIALIZED", "INITIALIZING", "READY", "IN_TRANSACTION", "COMMITTING",
           "ABORTING", "ABORTABLE_ERROR", "FATAL_ERROR"}
Handlers == [kind : Kinds, parts : SUBSET Partitions, committed : BOOLEAN]

\* Every variable keeps its shape, and at most one transactional request is in
\* flight (has_in_flight_transactional_request in run_once).
TypeOKTransactions ==
    /\ state \in States
    /\ newParts \subseteq Partitions /\ pendingParts \subseteq Partitions
    /\ partsInTxn \subseteq Partitions /\ started \in BOOLEAN
    /\ pending \in Seq(Handlers) /\ inFlight \in Seq(Handlers) /\ Len(inFlight) <= 1
    /\ hasPid \in BOOLEAN /\ coordinators \subseteq {"group", "transaction"}
    /\ result \in {"none", "pending", "done", "failed"}
    /\ pc \in {"loop", "next", "produce", "poll"} /\ hasIncomplete \in BOOLEAN
    /\ nsends \in 0 .. MaxSends /\ ntxns \in 0 .. MaxTxns /\ faults \in 0 .. MaxFaults
    /\ intent \in [1 .. MaxTxns -> {"open", "commit", "abort"}]
    /\ part \in [Sends -> Partitions \cup {"none"}] /\ txnOf \in [Sends -> 0 .. MaxTxns]
    /\ status \in [Sends -> {"none", "queued", "retry", "flight", "limbo", "lost", "acked",
                             "failed", "aborted"}]
    /\ registered \subseteq Partitions /\ written \subseteq Sends /\ visible \subseteq Sends

\* A batch is only ever in a produce request when the coordinator knows its
\* partition as part of the ongoing transaction (is_send_to_partition_allowed
\* together with the AddPartitionsToTxn exchange).
WriteRegistered == \A s \in Sends : status[s] = "flight" => part[s] \in registered

\* What a consumer sees was sent in a transaction the application committed:
\* nothing of an aborted or unfinished transaction becomes visible.  (If the
\* application waits for its sends; see the README for what happens if not.)
OnlyCommittedVisible == setup.flush => \A s \in visible : intent[txnOf[s]] = "commit"

\* When a commit completes (EndTxn answered or not needed), every record of
\* the transaction was acknowledged and is visible, whatever was retried.
CommitComplete ==
    [][(setup.flush /\ state = "COMMITTING" /\ state' = "READY") =>
         \A s \in Sends : txnOf[s] = ntxns => status[s] = "acked" /\ s \in visible']_vars

\* A transaction leaves nothing behind for the next one: in READY no partition
\* is registered locally and no request of it is queued or in flight.
CleanStart ==
    state = "READY" =>
        /\ newParts = {} /\ pendingParts = {} /\ partsInTxn = {} /\ ~started
        /\ \A i \in 1 .. Len(pending) : pending[i].kind \in {"FindGroup", "FindTransaction"}
        /\ inFlight # << >> => inFlight[1].kind \in {"FindGroup", "FindTransaction"}

\* EndTxn is the last request of its transaction (Priority.END_TXN): nothing
\* is queued behind it, as next_request_handler expects when it drops an
\* EndTxn that need not be sent.
EndTxnLast ==
    \A i \in 1 .. Len(pending) : pending[i].kind = "EndTxn" => i = Len(pending)

============================================================================
