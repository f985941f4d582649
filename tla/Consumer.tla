------------------------------ MODULE Consumer ------------------------------
(***************************************************************************)
(* The fetching half of KafkaConsumer: SubscriptionState's positions, the  *)
(* Fetcher, KafkaConsumer.poll and the iterator, auto-commit and the       *)
(* reading back of committed offsets.                                      *)
(*                                                                         *)
(* The application calls poll(), seek(), pause() and so on; poll() is the  *)
(* sequence of steps of _poll_once (pc).  Between any two of them a        *)
(* response may be handled, because the heartbeat thread polls the network *)
(* too.  Group membership is reduced to "a rejoin is due" and the rejoin   *)
(* itself; GroupMember models it.  Brokers, their logs and the group's     *)
(* committed offsets are external.                                         *)
(***************************************************************************)
EXTENDS PartitionRecords, SequencesExt

CONSTANTS
    TPs,            \* the partitions of the subscribed topics
    Nodes,          \* brokers that can lead them
    InitialLeader,  \* [TPs -> Nodes]: who leads them at first
    Log,            \* [TPs -> Seq(batch)]: what the brokers hold
    AbortedTxns,    \* [TPs -> SUBSET [pid, first]]: aborted transactions
    AbortedBatches, \* [TPs -> SUBSET Nat]: which batches those wrote
    Configs,        \* configurations, see TypeOK
    MaxPollRecords, \* max_poll_records
    SeekOffsets,    \* offsets the application seeks to
    MaxEvents,      \* bound: seeks, pauses, assigns, errors, leader moves,
                    \* truncations, time-outs and rebalances, together
    None

VARIABLES
    config,              \* the consumer's configuration
    order,               \* SubscriptionState.assignment: its keys, in order
    state,               \* ... and its TopicPartitionState values
    completed_fetches,   \* Fetcher._completed_fetches
    current,             \* Fetcher._next_partition_records
    exception_metadata,  \* Fetcher._next_in_line_exception_metadata
    pending,             \* [Nodes -> fetch request in flight, or None]
    list_offsets,        \* ListOffsets requests in flight
    list_exception,      \* Fetcher._cached_list_offsets_exception is set
    leader,              \* ClusterMetadata's leader of each partition
    need_update,         \* ClusterMetadata._need_update
    offset_fetches,      \* ConsumerCoordinator._offset_fetch_futures
    requests,            \* OffsetCommit and OffsetFetch requests in flight
    rejoin_needed,       \* the group is rebalancing and this member knows
    pc,                  \* where the application thread is in poll()
    drained,             \* records collected by this fetched_records()
    remaining,           \* its records_remaining
    generator,           \* records the iterator still has to yield
    lead, log_start,     \* external: true leaders, first offset retained
    committed,           \* external: the group's committed offsets
    start, seen,         \* history: where reading began, what was returned
    given,               \* history: offsets returned to some application
    budget               \* events the environment may still cause

fetcher == << completed_fetches, current, exception_metadata, pending >>
resets  == << list_offsets, list_exception >>
meta    == << leader, need_update >>
broker  == << lead, log_start >>
call    == << pc, drained, remaining, generator >>
history == << start, seen, given >>
vars == << config, order, state, fetcher, resets, meta, offset_fetches, requests,
           rejoin_needed, call, broker, committed, history, budget >>

-----------------------------------------------------------------------------
(* TopicPartitionState.                                                     *)

NewState == [position |-> None, reset_strategy |-> None, paused |-> FALSE,
             retry_later |-> FALSE]

Seek(s, offset) == [s EXCEPT !.position = offset, !.reset_strategy = None,
                             !.retry_later = FALSE]

Reset(s, strategy) == [s EXCEPT !.position = None, !.reset_strategy = strategy,
                                !.retry_later = FALSE]

Assigned == ToSet(order)
HasPosition(tp) == state[tp].position # None
IsFetchable(tp) == tp \in Assigned /\ ~state[tp].paused /\ HasPosition(tp)
MissingFetchPositions ==
    {tp \in Assigned : ~HasPosition(tp) /\ state[tp].reset_strategy = None}
PartitionsNeedingReset(states) ==
    {tp \in Assigned : states[tp].reset_strategy # None /\ ~states[tp].retry_later}
AllConsumedOffsets ==
    [tp \in {tp \in Assigned : HasPosition(tp)} |-> state[tp].position]

(* assign_from_user keeps the state of partitions that stay, and            *)
(* assign_from_subscribed does not.                                         *)
AssignFromUser(tps) ==
    /\ order' = SetToSeq(tps)
    /\ state' = [tp \in TPs |-> IF tp \in tps \cap Assigned THEN state[tp]
                                ELSE NewState]

AssignFromSubscribed(tps) ==
    /\ order' = SetToSeq(tps)
    /\ state' = [tp \in TPs |-> NewState]

(* reset_missing_positions, with a policy.                                  *)
ResetMissingPositions ==
    [tp \in TPs |-> IF tp \in MissingFetchPositions /\ config.reset # None
                    THEN Reset(state[tp], config.reset) ELSE state[tp]]

MovePartitionToEnd(seq, tp) ==
    IF tp \in ToSet(seq) THEN Append(Remove(seq, tp), tp) ELSE seq

-----------------------------------------------------------------------------
(* The brokers (external).                                                  *)

LogEnd(tp) == IF Log[tp] = << >> THEN 0 ELSE Log[tp][Len(Log[tp])].next
VisibleIn(tp) == Visible(Log[tp], AbortedBatches[tp], config.read_committed)

(* The batches a fetch at offset may read, and the aborted transactions     *)
(* reported with them.                                                      *)
BatchesFrom(tp, offset) == SelectSeq(Log[tp], LAMBDA b : b.next > offset)
AbortedFrom(tp, offset) == {t \in AbortedTxns[tp] : t.last >= offset}

(* What a broker can answer for one partition of a fetch request.           *)
FetchAnswers(node, tp, offset) ==
    LET rest == BatchesFrom(tp, offset) IN
    IF lead[tp] # node THEN {[error |-> "not_leader", batches |-> << >>]}
    ELSE IF offset < log_start[tp] \/ offset > LogEnd(tp)
         THEN {[error |-> "out_of_range", batches |-> << >>]}
         ELSE {[error |-> "none", batches |-> SubSeq(rest, 1, n)] :
                   n \in (IF rest = << >> THEN {0} ELSE {1, Len(rest)})}

-----------------------------------------------------------------------------
(* Bookkeeping of the history variables.  A position the application (or    *)
(* the reset policy) asks for skips what lies before it on purpose.         *)

Repositioned(pos) ==
    /\ start' = [tp \in TPs |-> IF tp \in DOMAIN pos THEN pos[tp] ELSE start[tp]]
    /\ seen' = [tp \in TPs |-> IF tp \in DOMAIN pos THEN << >> ELSE seen[tp]]

Skipped(pos) ==
    given' = [tp \in TPs |-> IF tp \in DOMAIN pos
                             THEN given[tp] \cup {r \in VisibleIn(tp) : r < pos[tp]}
                             ELSE given[tp]]

Returned(records) ==
    LET of(tp) == SelectSeq(records, LAMBDA r : r.tp = tp) IN
    /\ seen' = [tp \in TPs |->
                   seen[tp] \o [i \in DOMAIN of(tp) |-> of(tp)[i].offset]]
    /\ given' = [tp \in TPs |->
                   given[tp] \cup {of(tp)[i].offset : i \in DOMAIN of(tp)}]
    /\ UNCHANGED start

Spend == budget > 0 /\ budget' = budget - 1

-----------------------------------------------------------------------------
(* Calls of the application outside poll().                                 *)

UserOp == pc = "idle" /\ Spend

(* KafkaConsumer.seek                                                       *)
UserSeek(tp, offset) ==
    /\ UserOp /\ tp \in Assigned
    /\ state' = [state EXCEPT ![tp] = Seek(@, offset)]
    /\ generator' = << >>
    /\ LET pos == [t \in {tp} |-> offset] IN Repositioned(pos) /\ Skipped(pos)
    /\ UNCHANGED << config, order, fetcher, resets, meta, offset_fetches, requests,
                    rejoin_needed, pc, drained, remaining, broker, committed >>

(* request_offset_reset                                                     *)
RequestOffsetReset(tp, strategy) ==
    /\ UserOp /\ tp \in Assigned
    /\ state' = [state EXCEPT ![tp] = Reset(@, strategy)]
    /\ generator' = << >>
    /\ UNCHANGED << config, order, fetcher, resets, meta, offset_fetches, requests,
                    rejoin_needed, pc, drained, remaining, broker, committed, history >>

SeekToBeginning(tp) == RequestOffsetReset(tp, "earliest")
SeekToEnd(tp) == RequestOffsetReset(tp, "latest")

SetPaused(tp, paused) ==
    /\ UserOp /\ tp \in Assigned
    /\ state' = [state EXCEPT ![tp].paused = paused]
    /\ UNCHANGED << config, order, fetcher, resets, meta, offset_fetches, requests,
                    rejoin_needed, call, broker, committed, history >>

Pause(tp) == ~state[tp].paused /\ SetPaused(tp, TRUE)
Resume(tp) == state[tp].paused /\ SetPaused(tp, FALSE)

OffsetCommitRequest(offsets) == [kind |-> "commit", offsets |-> offsets]
OffsetFetchRequest(partitions) == [kind |-> "fetch", key |-> partitions]

(* commit_offsets_async and commit_offsets_sync send what was consumed, if  *)
(* there is anything to send.                                               *)
CommitOffsets == IF DOMAIN AllConsumedOffsets = {} THEN << >>
                 ELSE << OffsetCommitRequest(AllConsumedOffsets) >>

AutoCommit == IF config.auto_commit THEN CommitOffsets ELSE << >>

(* KafkaConsumer.commit_async (bound: one request at a time).               *)
CommitAsync ==
    /\ config.group /\ UserOp /\ requests = << >>
    /\ requests' = CommitOffsets
    /\ UNCHANGED << config, order, state, fetcher, resets, meta, offset_fetches,
                    rejoin_needed, call, broker, committed, history >>

(* assign: auto-commit what the old assignment consumed first.              *)
UserAssign(tps) ==
    /\ ~config.group /\ UserOp
    /\ tps # Assigned
    /\ requests' = requests \o AutoCommit
    /\ AssignFromUser(tps)
    /\ UNCHANGED << config, fetcher, resets, meta, offset_fetches, rejoin_needed,
                    call, broker, committed, start, seen, given >>

-----------------------------------------------------------------------------
(* poll(): one call of _poll_once per entry, step by step.                  *)

(* The call may begin when the iterator has nothing left to yield.          *)
PollBegins == pc = "idle" /\ generator = << >>

(* ConsumerCoordinator.poll when the member is stable: auto-commit if it is *)
(* time (bound: while no other request to the coordinator is in flight).    *)
CoordinatorPoll ==
    /\ PollBegins /\ ~rejoin_needed
    /\ pc' = "positions"
    /\ requests' \in {requests} \cup
                     (IF requests = << >> THEN {AutoCommit} ELSE {})
    /\ UNCHANGED << config, order, state, fetcher, resets, meta, offset_fetches,
                    rejoin_needed, drained, remaining, generator, broker,
                    committed, history, budget >>

(* ConsumerCoordinator.poll when a rejoin is due.  _on_join_prepare commits *)
(* synchronously and goes on if that fails; the join waits until nothing is *)
(* in flight to the coordinator; _on_join_complete assigns fresh states.    *)
Rejoin(tps) ==
    /\ PollBegins /\ rejoin_needed /\ requests = << >>
    /\ pc' = "positions"
    /\ rejoin_needed' = FALSE
    /\ committed' \in {committed} \cup
                      {AutoCommit[i].offsets @@ committed : i \in DOMAIN AutoCommit}
    /\ AssignFromSubscribed(tps)
    /\ UNCHANGED << config, fetcher, resets, meta, offset_fetches, requests, drained,
                    remaining, generator, broker, history, budget >>

-----------------------------------------------------------------------------
(* _update_fetch_positions.                                                 *)

(* Everything has a position, or some partitions need the committed one, or *)
(* all that lack one are waiting for a reset.                               *)
UpdateFetchPositions ==
    /\ pc = "positions"
    /\ pc' = IF \A tp \in Assigned : HasPosition(tp) THEN "fetched1"
             ELSE IF MissingFetchPositions = {} THEN "reset" ELSE "committed"
    /\ UNCHANGED << config, order, state, fetcher, resets, meta, offset_fetches,
                    requests, rejoin_needed, drained, remaining, generator, broker,
                    committed, history, budget >>

(* fetch_committed_offsets: a future kept for the same partitions is used   *)
(* again, whatever became of it, else a request is sent.                    *)
FetchCommitted ==
    /\ pc = "committed"
    /\ MissingFetchPositions \notin DOMAIN offset_fetches
    /\ offset_fetches' = (MissingFetchPositions :> None) @@ offset_fetches
    /\ requests' = Append(requests, OffsetFetchRequest(MissingFetchPositions))
    /\ UNCHANGED << config, order, state, fetcher, resets, meta, rejoin_needed, call,
                    broker, committed, history, budget >>

Forget(keys) == [k \in DOMAIN offset_fetches \ keys |-> offset_fetches[k]]

(* ... when the future is done: seek to what it found                       *)
RefreshCommitted ==
    /\ pc = "committed"
    /\ LET key == MissingFetchPositions IN
       /\ key \in DOMAIN offset_fetches /\ offset_fetches[key] # None
       /\ ~offset_fetches[key].error
       /\ LET value == offset_fetches[key].offsets
              found == {tp \in key : value[tp] # None}
          IN /\ state' = [tp \in TPs |-> IF tp \in found
                                         THEN Seek(state[tp], value[tp]) ELSE state[tp]]
             /\ Repositioned([tp \in found |-> value[tp]])
       /\ offset_fetches' = Forget({key})
    /\ pc' = "reset"
    /\ UNCHANGED << config, order, fetcher, resets, meta, requests, rejoin_needed,
                    drained, remaining, generator, broker, committed, given,
                    budget >>

(* ... or raise, if the coordinator refused                                 *)
RefreshRaises ==
    /\ pc = "committed"
    /\ LET key == MissingFetchPositions IN
       /\ key \in DOMAIN offset_fetches /\ offset_fetches[key] # None
       /\ offset_fetches[key].error
       /\ offset_fetches' = Forget({key})
    /\ pc' = "idle"
    /\ UNCHANGED << config, order, state, fetcher, resets, meta, requests,
                    rejoin_needed, drained, remaining, generator, broker,
                    committed, history, budget >>

(* ... or go on when the time given to poll() is over; the future is kept.  *)
RefreshTimeout ==
    /\ pc = "committed" /\ Spend
    /\ MissingFetchPositions \in DOMAIN offset_fetches
    /\ offset_fetches[MissingFetchPositions] = None
    /\ pc' = "fetched1"
    /\ UNCHANGED << config, order, state, fetcher, resets, meta, offset_fetches,
                    requests, rejoin_needed, drained, remaining, generator, broker,
                    committed, history >>

(* The ListOffsets request for partitions of one leader: what each is to be *)
(* reset to.                                                                *)
ListOffsetsRequest(n, states, tps) ==
    [node |-> n, want |-> [tp \in {tp \in tps : leader[tp] = n} |->
                              states[tp].reset_strategy]]

SendListOffsetsRequests(states, tps) ==
    {ListOffsetsRequest(n, states, tps) : n \in {leader[tp] : tp \in tps}}

(* _reset_offsets_async: partitions without a leader wait for metadata.     *)
ResetOffsetsAsync(states) ==
    LET needing == PartitionsNeedingReset(states)
        known == {tp \in needing : leader[tp] # None}
    IN /\ state' = [tp \in TPs |-> IF tp \in known
                                   THEN [states[tp] EXCEPT !.retry_later = TRUE]
                                   ELSE states[tp]]
       /\ list_offsets' = list_offsets \cup SendListOffsetsRequests(states, known)
       /\ need_update' = (need_update \/ known # needing)

(* reset_missing_positions, then reset_offsets_if_needed: raise what an     *)
(* earlier lookup met, else ask the leaders for the offsets to reset to.    *)
ResetOffsetsIfNeeded ==
    /\ pc = "reset"
    /\ IF MissingFetchPositions # {} /\ config.reset = None
       THEN /\ pc' = "idle"      \* NoOffsetForPartitionError
            /\ UNCHANGED << state, resets, need_update >>
       ELSE IF list_exception
       THEN /\ list_exception' = FALSE
            /\ state' = ResetMissingPositions
            /\ pc' = "idle"
            /\ UNCHANGED << list_offsets, need_update >>
       ELSE /\ ResetOffsetsAsync(ResetMissingPositions)
            /\ pc' = "fetched1"
            /\ UNCHANGED list_exception
    /\ UNCHANGED << config, order, fetcher, leader, offset_fetches, requests,
                    rejoin_needed, drained, remaining, generator, broker,
                    committed, history, budget >>

-----------------------------------------------------------------------------
(* fetched_records, one iteration of its loop per step.                     *)

(* Entry: an exception put aside by the last call is raised if it is still  *)
(* about the current position.                                              *)
FetchedRecordsBegin ==
    /\ pc \in {"fetched1", "fetched2"}
    /\ exception_metadata' = None
    /\ drained' = << >>
    /\ remaining' = MaxPollRecords
    /\ pc' = IF /\ exception_metadata # None
                /\ IsFetchable(exception_metadata.tp)
                /\ state[exception_metadata.tp].position = exception_metadata.offset
             THEN "idle"
             ELSE IF pc = "fetched1" THEN "loop1" ELSE "loop2"
    /\ UNCHANGED << config, order, state, completed_fetches, current, pending, resets,
                    meta, offset_fetches, requests, rejoin_needed, generator, broker,
                    committed, history, budget >>

HasCurrent == current # None /\ ~current.drained
InLoop == pc \in {"loop1", "loop2"}
AfterLoop == IF pc = "loop1" THEN "send" ELSE "return"

(* The loop met an exception about tp at offset: raise it if nothing has    *)
(* been collected, else keep it for the next call.                          *)
Raises(tp, offset) ==
    IF drained = << >>
    THEN pc' = "idle" /\ UNCHANGED exception_metadata
    ELSE /\ pc' = AfterLoop
         /\ exception_metadata' = [tp |-> tp, offset |-> offset]

(* The response answers a request made at another position.                 *)
Stale(tp, offset) == state[tp].position # offset

(* _parse_fetched_data of the next completed fetch.                         *)
Parse ==
    /\ InLoop /\ remaining > 0 /\ ~HasCurrent /\ completed_fetches # << >>
    /\ completed_fetches' = Tail(completed_fetches)
    /\ LET f == Head(completed_fetches)
           tp == f.tp
           stale == Stale(tp, f.offset)
           Quietly == UNCHANGED << pc, exception_metadata >>
       IN /\ order' = IF f.error = "none" THEN order ELSE MovePartitionToEnd(order, tp)
          /\ \/ /\ ~IsFetchable(tp)
                /\ current' = None /\ Quietly
                /\ UNCHANGED << state, need_update >>
             \/ /\ IsFetchable(tp) /\ f.error = "none"
                /\ current' = IF stale THEN None
                              ELSE NewPartitionRecords(tp, f.offset, f.batches,
                                       AbortedFrom(tp, f.offset), config.read_committed)
                /\ Quietly
                /\ UNCHANGED << state, need_update >>
             \/ /\ IsFetchable(tp) /\ f.error = "not_leader"
                /\ need_update' = TRUE
                /\ current' = None /\ Quietly
                /\ UNCHANGED state
             \/ /\ IsFetchable(tp) /\ f.error = "out_of_range"
                /\ stale \/ config.reset # None
                /\ state' = IF stale THEN state
                            ELSE [state EXCEPT ![tp] = Reset(@, config.reset)]
                /\ current' = None /\ Quietly
                /\ UNCHANGED need_update
             \/ /\ IsFetchable(tp)
                /\ \/ f.error = "out_of_range" /\ ~stale /\ config.reset = None
                   \/ f.error = "fatal"
                /\ Raises(tp, f.offset)
                /\ UNCHANGED << current, state, need_update >>
    /\ UNCHANGED << config, pending, resets, leader, offset_fetches, requests,
                    rejoin_needed, drained, remaining, generator, broker, committed,
                    history, budget >>

\* Mutant: records are taken whatever the position is by now.
NextInLineUnchecked(part) == TRUE

(* The records follow the position.                                         *)
NextInLine(part) == state[part.tp].position = part.next_fetch_offset

\* Mutant: the position moves when records are fetched for the iterator.
UpdatesPositionAlways(records) == TRUE

(* update_offsets: the iterator moves the position as it yields, except past *)
(* what holds no records for it.                                            *)
UpdatesPosition(records) == ~config.iterator \/ records = << >>

(* _append of the current partition's records.                              *)
AppendRecords ==
    /\ InLoop /\ remaining > 0 /\ HasCurrent
    /\ LET tp == current.tp
           valid == IsFetchable(tp) /\ NextInLine(current)
           taken == Take(current, remaining)
           ends == IF valid THEN taken.part.drained /\ taken.part.read
                   ELSE current.read
       IN /\ order' = IF ends   \* _on_partition_records_drain
                      THEN MovePartitionToEnd(order, tp) ELSE order
          /\ IF ~valid
             THEN /\ current' = Drain(current)
                  /\ UNCHANGED << state, drained, remaining, pc, exception_metadata >>
             ELSE /\ current' = taken.part
                  /\ IF taken.raised
                     THEN /\ Raises(tp, current.next_fetch_offset)
                          /\ UNCHANGED << state, drained, remaining >>
                     ELSE /\ drained' = drained \o [i \in DOMAIN taken.records |->
                                           [tp |-> tp, offset |-> taken.records[i]]]
                          /\ remaining' = remaining - Len(taken.records)
                          /\ state' = IF UpdatesPosition(taken.records)
                                      THEN [state EXCEPT ![tp].position =
                                                taken.part.next_fetch_offset]
                                      ELSE state
                          /\ UNCHANGED << pc, exception_metadata >>
    /\ UNCHANGED << config, completed_fetches, pending, resets, meta, offset_fetches,
                    requests, rejoin_needed, generator, broker, committed, history,
                    budget >>

FetchedRecordsEnd ==
    /\ InLoop
    /\ remaining = 0 \/ (~HasCurrent /\ completed_fetches = << >>)
    /\ pc' = AfterLoop
    /\ UNCHANGED << config, order, state, fetcher, resets, meta, offset_fetches,
                    requests, rejoin_needed, drained, remaining, generator, broker,
                    committed, history, budget >>

-----------------------------------------------------------------------------
(* The rest of _poll_once.                                                  *)

\* Mutant: a partition whose records are used up is still left out.
FetchablePartitionsDrained ==
    LET discard == {completed_fetches[i].tp : i \in DOMAIN completed_fetches}
                   \cup (IF current # None THEN {current.tp} ELSE {})
    IN SelectSeq(order, LAMBDA tp : IsFetchable(tp) /\ tp \notin discard)

(* _fetchable_partitions: nothing still waiting to be parsed or returned.   *)
FetchablePartitions ==
    LET discard == {completed_fetches[i].tp : i \in DOMAIN completed_fetches}
                   \cup (IF HasCurrent THEN {current.tp} ELSE {})
    IN SelectSeq(order, LAMBDA tp : IsFetchable(tp) /\ tp \notin discard)

(* _create_fetch_requests: one request per leader without one in flight.    *)
CreateFetchRequests ==
    [n \in Nodes |->
        LET tps == SelectSeq(FetchablePartitions, LAMBDA tp : leader[tp] = n)
        IN IF pending[n] # None \/ tps = << >> THEN pending[n]
           ELSE [i \in DOMAIN tps |->
                    [tp |-> tps[i], offset |-> state[tps[i]].position]]]

(* send_fetches, unless records were left over (partial).                   *)
SendFetches ==
    /\ pc = "send"
    /\ IF completed_fetches = << >>
       THEN /\ pending' = CreateFetchRequests
            /\ need_update' = (need_update \/ \E i \in DOMAIN FetchablePartitions :
                                                 leader[FetchablePartitions[i]] = None)
       ELSE UNCHANGED << pending, need_update >>
    /\ pc' = IF drained = << >> THEN "network" ELSE "return"
    /\ UNCHANGED << config, order, state, completed_fetches, current,
                    exception_metadata, resets, leader, offset_fetches, requests,
                    rejoin_needed, drained, remaining, generator, broker, committed,
                    history, budget >>

(* The long poll is over.  With a rejoin due, return before taking records. *)
NetworkPoll ==
    /\ pc = "network"
    /\ pc' = IF rejoin_needed THEN "idle" ELSE "fetched2"
    /\ UNCHANGED << config, order, state, fetcher, resets, meta, offset_fetches,
                    requests, rejoin_needed, drained, remaining, generator, broker,
                    committed, history, budget >>

(* poll() returns: to the application, or to _message_generator_v2.         *)
PollReturns ==
    /\ pc = "return"
    /\ pc' = "idle"
    /\ drained' = << >>
    /\ IF config.iterator
       THEN generator' = drained /\ UNCHANGED history
       ELSE Returned(drained) /\ UNCHANGED generator
    /\ UNCHANGED << config, order, state, fetcher, resets, meta, offset_fetches,
                    requests, rejoin_needed, remaining, broker, committed, budget >>

\* Mutant: the generator yields what it has.
StillFetchableUnchecked(tp) == TRUE

StillFetchable(tp) == IsFetchable(tp)

(* next(consumer): the generator checks that the partition is still         *)
(* fetchable, else drops what it has of it, and moves the position.         *)
IteratorNext ==
    /\ pc = "idle" /\ generator # << >>
    /\ LET r == Head(generator) IN
       IF StillFetchable(r.tp)
       THEN /\ generator' = Tail(generator)
            /\ state' = [state EXCEPT ![r.tp].position = r.offset + 1]
            /\ Returned(<< r >>)
       ELSE /\ generator' = SelectSeq(generator, LAMBDA g : g.tp # r.tp)
            /\ UNCHANGED << state, history >>
    /\ UNCHANGED << config, order, fetcher, resets, meta, offset_fetches, requests,
                    rejoin_needed, pc, drained, remaining, broker, committed,
                    budget >>

-----------------------------------------------------------------------------
(* Handlers, run by whichever thread polls the network.                     *)

(* _clear_pending_fetch_request                                             *)
ClearPending(node) == pending' = [pending EXCEPT ![node] = None]

UntouchedByFetch == << config, order, state, current, exception_metadata, resets,
                       meta, offset_fetches, requests, rejoin_needed, call, broker,
                       committed, history >>

(* _handle_fetch_response and _clear_pending_fetch_request.  An incremental *)
(* session leaves out the partitions that have nothing new.                 *)
HandleFetchResponse(node) ==
    /\ pending[node] # None
    /\ \E answers \in [DOMAIN pending[node] ->
              UNION {FetchAnswers(node, pending[node][i].tp, pending[node][i].offset) :
                        i \in DOMAIN pending[node]}] :
         /\ \A i \in DOMAIN answers :
               answers[i] \in FetchAnswers(node, pending[node][i].tp, pending[node][i].offset)
         /\ LET entries == [i \in DOMAIN answers |->
                               [tp |-> pending[node][i].tp,
                                offset |-> pending[node][i].offset,
                                error |-> answers[i].error,
                                batches |-> answers[i].batches]]
            IN completed_fetches' = completed_fetches \o
                  SelectSeq(entries, LAMBDA e : e.error # "none" \/ e.batches # << >>)
    /\ ClearPending(node)
    /\ UNCHANGED << UntouchedByFetch, budget >>

(* A partition-level error that is neither of the above (no authorization,  *)
(* a record that is too large): every partition of the answer carries it.   *)
HandleFetchFatal(node) ==
    /\ pending[node] # None /\ Spend
    /\ completed_fetches' = completed_fetches \o
          [i \in DOMAIN pending[node] |->
              [tp |-> pending[node][i].tp, offset |-> pending[node][i].offset,
               error |-> "fatal", batches |-> << >>]]
    /\ ClearPending(node)
    /\ UNCHANGED UntouchedByFetch

(* _handle_fetch_error, or a response the session handler refuses.          *)
HandleFetchError(node) ==
    /\ pending[node] # None /\ Spend
    /\ ClearPending(node)
    /\ UNCHANGED << UntouchedByFetch, completed_fetches >>

(* _reset_offset_if_needed                                                  *)
ResetStillNeeded(tp, strategy) ==
    tp \in Assigned /\ state[tp].reset_strategy = strategy

UntouchedByReset == << config, order, fetcher, leader, offset_fetches, requests,
                       rejoin_needed, call, broker, committed >>

(* _handle_list_offsets_response: the offsets found, and the partitions to  *)
(* ask for again because the node does not lead them.                       *)
ListOffsetsResponse(r) ==
    LET retry == {tp \in DOMAIN r.want : lead[tp] # r.node}
    IN [retry |-> retry,
        offset |-> [tp \in DOMAIN r.want \ retry |->
                       IF r.want[tp] = "earliest" THEN log_start[tp] ELSE LogEnd(tp)]]

(* on_success of _reset_offsets_async.  Partitions to retry that are no     *)
(* longer assigned make reset_failed raise, and the callback ends there.    *)
HandleListOffsets(r) ==
    /\ r \in list_offsets
    /\ list_offsets' = list_offsets \ {r}
    /\ LET response == ListOffsetsResponse(r)
           raises == ~(response.retry \subseteq Assigned)
           reset == IF raises THEN {}
                    ELSE {tp \in DOMAIN response.offset : ResetStillNeeded(tp, r.want[tp])}
           offset == [tp \in reset |-> response.offset[tp]]
       IN /\ need_update' = (need_update \/ (response.retry # {} /\ ~raises))
          /\ state' = [tp \in TPs |-> IF tp \in reset THEN Seek(state[tp], offset[tp])
                                      ELSE state[tp]]
          /\ Repositioned(offset) /\ Skipped(offset)
    /\ UNCHANGED << UntouchedByReset, list_exception, budget >>

(* on_failure of _reset_offsets_async                                       *)
HandleListOffsetsFailure(r, retriable) ==
    /\ r \in list_offsets /\ Spend
    /\ list_offsets' = list_offsets \ {r}
    /\ IF DOMAIN r.want \subseteq Assigned
       THEN /\ need_update' = TRUE
            /\ list_exception' = (list_exception \/ ~retriable)
       ELSE UNCHANGED << need_update, list_exception >>
    /\ UNCHANGED << UntouchedByReset, state, start, seen, given >>

(* next_allowed_retry_time passes.                                          *)
RetryTimePasses(tp) ==
    /\ tp \in Assigned /\ state[tp].retry_later
    /\ \A r \in list_offsets : tp \notin DOMAIN r.want
    /\ state' = [state EXCEPT ![tp].retry_later = FALSE]
    /\ UNCHANGED << config, order, fetcher, resets, meta, offset_fetches, requests,
                    rejoin_needed, call, broker, committed, history, budget >>

(* The metadata response arrives (ClusterMetadata.update_metadata).         *)
UpdateMetadata ==
    /\ need_update
    /\ leader' = lead
    /\ need_update' = FALSE
    /\ UNCHANGED << config, order, state, fetcher, resets, offset_fetches, requests,
                    rejoin_needed, call, broker, committed, history, budget >>

UntouchedByCoordinator ==
    << config, order, state, fetcher, resets, meta, rejoin_needed, call, broker, history >>

Oldest(kind) == requests # << >> /\ Head(requests).kind = kind

(* The coordinator answers its oldest request: it stores the offsets, or    *)
(* gives the future those committed at that time.                           *)
HandleOffsetCommitResponse ==
    /\ Oldest("commit")
    /\ committed' = Head(requests).offsets @@ committed
    /\ requests' = Tail(requests)
    /\ UNCHANGED << UntouchedByCoordinator, offset_fetches, budget >>

HandleOffsetFetchResponse ==
    /\ Oldest("fetch")
    /\ LET key == Head(requests).key IN
       offset_fetches' = [offset_fetches EXCEPT ![key] =
             [error |-> FALSE, offsets |-> [tp \in key |-> committed[tp]]]]
    /\ requests' = Tail(requests)
    /\ UNCHANGED << UntouchedByCoordinator, committed, budget >>

(* ... or refuses it, for want of authorization                             *)
HandleCoordinatorRefusal ==
    /\ requests # << >> /\ Spend
    /\ LET r == Head(requests) IN
       offset_fetches' = IF r.kind = "commit" THEN offset_fetches
                         ELSE [offset_fetches EXCEPT ![r.key] =
                                  [error |-> TRUE, offsets |-> << >>]]
    /\ requests' = Tail(requests)
    /\ UNCHANGED << UntouchedByCoordinator, committed >>

(* ... or the connection is lost with what is in flight; the oldest commit  *)
(* may have been stored.  A fetch that fails so is sent again by whoever    *)
(* waits for it or asks next.                                               *)
CoordinatorDisconnects ==
    /\ requests # << >> /\ Spend
    /\ committed' \in {committed} \cup (IF Head(requests).kind = "commit"
                                        THEN {Head(requests).offsets @@ committed}
                                        ELSE {})
    /\ offset_fetches' = Forget({key \in DOMAIN offset_fetches :
                                     offset_fetches[key] = None})
    /\ requests' = << >>
    /\ UNCHANGED UntouchedByCoordinator

-----------------------------------------------------------------------------
(* The environment (external).                                              *)

Outside == << config, order, state, fetcher, resets, meta, offset_fetches, requests,
              call >>

LeaderMoves(tp, node) ==
    /\ lead[tp] # node /\ Spend
    /\ lead' = [lead EXCEPT ![tp] = node]
    /\ UNCHANGED << Outside, rejoin_needed, log_start, committed, history >>

(* Retention deletes the first batch still there.                           *)
LogTruncated(tp) ==
    /\ log_start[tp] < LogEnd(tp) /\ Spend
    /\ log_start' = [log_start EXCEPT ![tp] = Head(BatchesFrom(tp, log_start[tp])).next]
    /\ given' = [given EXCEPT ![tp] = @ \cup {r \in VisibleIn(tp) : r < log_start'[tp]}]
    /\ UNCHANGED << Outside, rejoin_needed, lead, committed, start, seen >>

RebalanceStarts ==
    /\ config.group /\ ~rejoin_needed /\ Spend
    /\ rejoin_needed' = TRUE
    /\ UNCHANGED << Outside, broker, committed, history >>

(* Another member of the group owns tp, reads on and commits.               *)
OtherMemberConsumes(tp) ==
    /\ config.group /\ ~rejoin_needed /\ tp \notin Assigned
    /\ LET from == IF committed[tp] = None THEN log_start[tp] ELSE committed[tp]
           new == {r \in VisibleIn(tp) : r >= from}
       IN /\ new # {}
          /\ committed' = [committed EXCEPT ![tp] = Max(new) + 1]
          /\ given' = [given EXCEPT ![tp] = @ \cup new]
    /\ UNCHANGED << Outside, rejoin_needed, broker, start, seen, budget >>

-----------------------------------------------------------------------------
Init ==
    /\ config \in Configs
    /\ order = (IF config.group THEN << >> ELSE SetToSeq(TPs))
    /\ state = [tp \in TPs |-> NewState]
    /\ completed_fetches = << >> /\ current = None /\ exception_metadata = None
    /\ pending = [n \in Nodes |-> None]
    /\ list_offsets = {} /\ list_exception = FALSE
    /\ leader = [tp \in TPs |-> None] /\ need_update = TRUE
    /\ offset_fetches = << >> /\ requests = << >>
    /\ rejoin_needed = config.group
    /\ pc = "idle" /\ drained = << >> /\ remaining = 0 /\ generator = << >>
    /\ lead = InitialLeader /\ log_start = [tp \in TPs |-> 0]
    /\ committed = [tp \in TPs |-> None]
    /\ start = [tp \in TPs |-> 0] /\ seen = [tp \in TPs |-> << >>]
    /\ given = [tp \in TPs |-> {}]
    /\ budget = MaxEvents

(* What the application and the client's threads do of themselves.          *)
Client ==
    \/ CoordinatorPoll \/ (\E tps \in SUBSET TPs : Rejoin(tps))
    \/ UpdateFetchPositions \/ FetchCommitted \/ RefreshCommitted \/ RefreshRaises
    \/ ResetOffsetsIfNeeded
    \/ FetchedRecordsBegin \/ Parse \/ AppendRecords \/ FetchedRecordsEnd
    \/ SendFetches \/ NetworkPoll \/ PollReturns \/ IteratorNext

User ==
    \/ \E tp \in TPs :
          \/ \E offset \in SeekOffsets : UserSeek(tp, offset)
          \/ SeekToBeginning(tp) \/ SeekToEnd(tp) \/ Pause(tp) \/ Resume(tp)
    \/ \E tps \in (SUBSET TPs) \ {{}} : UserAssign(tps)
    \/ CommitAsync

Responses ==
    \/ \E n \in Nodes : HandleFetchResponse(n)
    \/ \E r \in list_offsets : HandleListOffsets(r)
    \/ \E tp \in TPs : RetryTimePasses(tp)
    \/ UpdateMetadata
    \/ HandleOffsetCommitResponse \/ HandleOffsetFetchResponse

Faults ==
    \/ RefreshTimeout
    \/ \E n \in Nodes : HandleFetchFatal(n) \/ HandleFetchError(n)
    \/ \E r \in list_offsets, retriable \in BOOLEAN :
          HandleListOffsetsFailure(r, retriable)
    \/ HandleCoordinatorRefusal \/ CoordinatorDisconnects
    \/ \E tp \in TPs : LogTruncated(tp) \/ \E n \in Nodes : LeaderMoves(tp, n)
    \/ RebalanceStarts
    \/ \E tp \in TPs : OtherMemberConsumes(tp)

Next == Client \/ User \/ Responses \/ Faults

Spec == Init /\ [][Next]_vars

-----------------------------------------------------------------------------
(* A partition has a position or waits for a reset, never both, and a call  *)
(* never collects more than max_poll_records.                               *)
TypeOK ==
    /\ config \in [group : BOOLEAN, iterator : BOOLEAN, auto_commit : BOOLEAN,
                   reset : {"earliest", "latest", None}, read_committed : BOOLEAN]
    /\ Assigned \subseteq TPs /\ Len(order) = Cardinality(Assigned)
    /\ state \in [TPs -> [position : Nat \cup {None}, paused : BOOLEAN,
                          reset_strategy : {"earliest", "latest", None},
                          retry_later : BOOLEAN]]
    /\ \A tp \in TPs : ~(HasPosition(tp) /\ state[tp].reset_strategy # None)
    /\ leader \in [TPs -> Nodes \cup {None}] /\ lead \in [TPs -> Nodes]
    /\ pc \in {"idle", "positions", "committed", "reset", "fetched1",
               "loop1", "send", "network", "fetched2", "loop2", "return"}
    /\ remaining \in 0 .. MaxPollRecords
    /\ Len(drained) <= MaxPollRecords

(* What the application has been given of a partition since its position    *)
(* was last set is the log from there on: every visible record, in order,   *)
(* once, and nothing of an aborted transaction.  It must survive stale      *)
(* responses of an old leader, seeks and pauses between fetch and return,   *)
(* batches that begin before the fetch offset, compaction and the iterator. *)
InOrder ==
    \A tp \in TPs :
        LET expected == {r \in VisibleIn(tp) : r >= start[tp]}
            n == Len(seen[tp])
        IN /\ \A i \in 1 .. n : seen[tp][i] \in expected
           /\ \A i \in 1 .. n : Cardinality({r \in expected : r < seen[tp][i]}) = i - 1

(* No offset is committed past a record that no member's application has    *)
(* been given: auto-commit, before a rebalance or on time, never loses a    *)
(* record.  Records skipped by a seek, a reset or retention do not count.   *)
AtLeastOnce ==
    \A tp \in TPs : committed[tp] # None =>
        {r \in VisibleIn(tp) : r < committed[tp]} \subseteq given[tp]

(* A record reaches the application only while its partition is assigned    *)
(* and not paused: an iterator that still holds fetched records drops them  *)
(* when the partition is paused, sought or taken away in between.           *)
OnlyFetchable ==
    [][\A tp \in TPs : Len(seen'[tp]) > Len(seen[tp]) =>
                           tp \in Assigned /\ ~state[tp].paused]_vars

(* A position taken from the group is the offset committed at that moment:  *)
(* what an earlier, interrupted call of poll() asked for is not used after  *)
(* another member has moved on.                                             *)
StartsAtCommitted ==
    [][RefreshCommitted => \A tp \in MissingFetchPositions :
           state'[tp].position = committed[tp]]_vars

-----------------------------------------------------------------------------
(* Fairness: the application keeps calling poll() or next(), and every      *)
(* request in flight is answered, or fails, in the end.                     *)
Fairness ==
    /\ WF_vars(Client)
    /\ \A n \in Nodes : WF_vars(HandleFetchResponse(n))
    /\ WF_vars(\E r \in list_offsets : HandleListOffsets(r))
    /\ \A tp \in TPs : WF_vars(RetryTimePasses(tp))
    /\ WF_vars(UpdateMetadata)
    /\ WF_vars(HandleOffsetCommitResponse \/ HandleOffsetFetchResponse)

FairSpec == Spec /\ Fairness

Behind(tp) == \E r \in VisibleIn(tp) : /\ r >= start[tp] /\ r >= log_start[tp]
                                       /\ r \notin ToSet(seen[tp])

(* A partition that stays assigned and unpaused is read to its end: no      *)
(* error, leader change, lost request, stale response or unlucky order of   *)
(* partitions stops the consumer for ever, and no partition is starved by   *)
(* another.  (With a reset policy: without one poll() may raise each time.) *)
Progress ==
    \A tp \in TPs :
        <>[](tp \in Assigned /\ ~state[tp].paused /\ config.reset # None)
            => <>[](HasPosition(tp) /\ ~Behind(tp))

(* Every call of poll() returns or raises: the loops of fetched_records and *)
(* of fetch_committed_offsets end.  The docstring of KafkaConsumer.poll     *)
(* promises to return at once with what is buffered when timeout_ms is 0.   *)
PollTerminates == (pc # "idle") ~> (pc = "idle")

=============================================================================
