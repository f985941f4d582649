-------------------------- MODULE ProducerThreads --------------------------
(***************************************************************************)
(* The threads of one KafkaProducer around the RecordAccumulator: several  *)
(* application threads in send(), one in close() (which flushes first),    *)
(* and the Sender thread from its main loop to its end.  A step is what a  *)
(* thread does between two points where another thread can observe it: a   *)
(* critical section of a partition lock, or the write of one flag.         *)
(*                                                                         *)
(* The sender's rounds are modelled in detail: which nodes ready() finds,  *)
(* how drain goes around the partitions of a node, and how long the poll   *)
(* that follows may sleep.  What becomes of a batch then is reduced to the *)
(* moves Producer.tla describes: complete, retry, expire.                  *)
(*                                                                         *)
(* Time is a number of ticks since each batch's last attempt, and passes   *)
(* while the sender polls.                                                 *)
(***************************************************************************)
EXTENDS Integers, Sequences, FiniteSetsExt, Functions

CONSTANTS
    Appenders,    \* application threads that call send()
    Partitions,   \* topic-partitions
    Nodes,        \* brokers
    MaxBatches,   \* bound: batches ever created
    MaxWait,      \* bound: ticks counted since an attempt
    Setups,       \* configurations to explore, see SetupType
    None

Batches == 1 .. MaxBatches

\* partitions: in the order of partitions_for_broker; leader: where known at
\* the start; blocked: partitions the transaction manager does not allow yet;
\* linger, backoff: linger_ms, retry_backoff_ms; request: batches that fit in
\* max_request_size; order: guarantee_message_order; calls: flush() alone,
\* close() with a zero or a positive timeout, or neither; down: connections may
\* not be ready; batches, retries, fills: bounds on batches, on retries, on
\* filling a batch.
SetupType ==
    [appenders : SUBSET Appenders, partitions : Seq(Partitions),
     leader : [Partitions -> Nodes \cup {None}], blocked : SUBSET Partitions,
     linger : Nat, backoff : Nat, request : Nat \ {0}, order : BOOLEAN,
     calls : {"none", "flush", "zero", "positive"}, down : BOOLEAN,
     batches : 0 .. MaxBatches, retries : Nat, fills : BOOLEAN]

ASSUME ThreadsAssumption ==
    /\ IsFiniteSet(Appenders) /\ IsFiniteSet(Partitions)
    /\ MaxBatches \in Nat /\ MaxWait \in Nat
    /\ \A s \in Setups : s \in SetupType /\ s.linger <= MaxWait
                          /\ s.backoff <= MaxWait

VARIABLES
    setup,
    created,     \* number of batches created
    tp,          \* batch -> its partition
    dq,          \* RecordAccumulator._batches: partition -> deque
    open,        \* batches whose MemoryRecordsBuilder is not closed
    filled,      \* open batches that have reached batch_size
    retried,     \* batches with attempts > 0
    wait,        \* batch -> ticks since its last_attempt
    incomplete,  \* RecordAccumulator._incomplete
    final,       \* batches whose future is completed
    appends,     \* RecordAccumulator._appends_in_progress
    accClosed,   \* RecordAccumulator._closed
    leader,      \* the cluster metadata: partition -> node
    blocked,     \* partitions is_send_to_partition_allowed refuses
    muted,       \* RecordAccumulator.muted
    drain_index, \* RecordAccumulator._drain_index
    at,          \* where the sender is in run_once
    round,       \* locals of _send_producer_data and of the drain of a node
    sleep,       \* ticks left before the poll ends by itself
    woken,       \* KafkaClient.wakeup was called
    passed,      \* partition -> drains in a row that left its batch behind
    inFlight,    \* batches in produce requests
    retries,     \* retries so far
    running, force,   \* Sender._running, Sender._force_close
    sender,      \* which of its loops the sender thread is in
    todo,        \* batches _abort_batches has still to abort in this pass
    aborted,     \* abort_incomplete_batches has returned
    apc,         \* appending thread -> [at, tp, wake]
    cpc,         \* where the closing thread is
    before,      \* batches that existed when flush() was called
    waiting      \* snapshot of _incomplete that flush() waits for

batchVars  == <<created, tp, open, filled, incomplete>>
ageVars    == <<retried, wait, retries>>
cluster    == <<leader, blocked>>
roundVars  == <<drain_index, at, round, passed>>
pollVars   == <<sleep, woken>>
abortVars  == <<sender, todo, aborted>>
flags      == <<running, force, accClosed>>
closeVars  == <<cpc, before, waiting>>
vars == <<setup, batchVars, dq, ageVars, final, appends, cluster, muted, roundVars,
          pollVars, inFlight, abortVars, flags, apc, closeVars>>

Never == MaxWait + 1
NoRound == [nodes |-> {}, node |-> None, start |-> None, got |-> {}, could |-> {},
            unready |-> {}, idle |-> FALSE, expired |-> FALSE]
Idle == [at |-> "idle", tp |-> None, wake |-> FALSE]

TInit ==
    /\ setup \in Setups
    /\ created = 0 /\ tp = [b \in Batches |-> None]
    /\ dq = [p \in Partitions |-> << >>]
    /\ open = {} /\ filled = {} /\ retried = {}
    /\ wait = [b \in Batches |-> 0]
    /\ incomplete = {} /\ final = {}
    /\ appends = 0 /\ accClosed = FALSE
    /\ leader = setup.leader /\ blocked = setup.blocked
    /\ muted = {} /\ drain_index = 0
    /\ at = "top" /\ round = NoRound /\ sleep = 0 /\ woken = FALSE
    /\ passed = [p \in Partitions |-> 0]
    /\ inFlight = {} /\ retries = 0
    /\ running = TRUE /\ force = FALSE
    /\ sender = "main" /\ todo = {} /\ aborted = FALSE
    /\ apc = [t \in Appenders |-> Idle]
    /\ cpc = "idle" /\ before = {} /\ waiting = {}

Queued == UNION {Range(dq[p]) : p \in Partitions}

\* MemoryRecordsBuilder.is_full
IsFull(b) == b \notin open \/ b \in filled

----------------------------------------------------------------------------
(* KafkaProducer.send and RecordAccumulator.append *)

AppendOutside == <<setup, ageVars, final, cluster, muted, roundVars, inFlight,
                   abortVars, flags, closeVars>>

\* The first assert.  KafkaProducer.send asserts its own _closed before; it is
\* set after this one.  Bound: every thread inside append may create a batch.
AppendEnter(t, p) ==
    /\ apc[t].at = "idle" /\ ~accClosed /\ t \in setup.appenders
    /\ p \in Range(setup.partitions)
    /\ created + Cardinality({u \in Appenders : apc[u].at # "idle"}) < setup.batches
    /\ apc' = [apc EXCEPT ![t] = [at |-> "entered", tp |-> p, wake |-> FALSE]]
    /\ UNCHANGED <<AppendOutside, batchVars, dq, appends, pollVars>>

AppendIncrement(t) ==
    /\ apc[t].at = "entered"
    /\ appends' = appends + 1
    /\ apc' = [apc EXCEPT ![t].at = "section1"]
    /\ UNCHANGED <<AppendOutside, batchVars, dq, pollVars>>

\* try_append on the last batch: it takes the record if it is open and, as the
\* size of the record decides, has room.
TryAppend(p) == dq[p] # << >> /\ ~IsFull(dq[p][Len(dq[p])])

\* The record fills the batch it joins, or not.
Fills(b) == filled' \in {filled} \cup (IF setup.fills THEN {filled \cup {b}} ELSE {})

\* append returns batch_is_full for the batch the record has joined.
BatchIsFull(q, full) == Len(q) > 1 \/ q[Len(q)] \in full

\* A partition lock is held across the two steps of the second section, which
\* the unlocked write of _closed can separate.
TpLockFree(p) == \A t \in Appenders : apc[t].at # "locked" \/ apc[t].tp # p

JoinLast(t, p) ==
    /\ TryAppend(p) /\ Fills(dq[p][Len(dq[p])])
    /\ apc' = [apc EXCEPT ![t].at = "leaving", ![t].wake = BatchIsFull(dq[p], filled')]

\* First critical section: the record may join the last batch.
AppendSection1(t) ==
    /\ apc[t].at = "section1" /\ TpLockFree(apc[t].tp)
    /\ \/ JoinLast(t, apc[t].tp)
       \/ apc' = [apc EXCEPT ![t].at = "section2"] /\ UNCHANGED filled
    /\ UNCHANGED <<AppendOutside, created, tp, open, incomplete, dq, appends, pollVars>>

\* Second critical section: assert again that the accumulator is open ...
AppendSection2(t) ==
    /\ apc[t].at = "section2" /\ TpLockFree(apc[t].tp)
    /\ apc' = [apc EXCEPT ![t].at = IF accClosed THEN "leaving" ELSE "locked"]
    /\ UNCHANGED <<AppendOutside, batchVars, dq, appends, pollVars>>

\* ... then try the last batch again, or create a batch.
AppendLocked(t) ==
    LET p == apc[t].tp
        b == created + 1
    IN  /\ apc[t].at = "locked"
        /\ \/ JoinLast(t, p) /\ UNCHANGED <<created, tp, dq, open, incomplete>>
           \/ /\ created' = b
              /\ tp' = [tp EXCEPT ![b] = p]
              /\ dq' = [dq EXCEPT ![p] = Append(@, b)]
              /\ open' = open \cup {b}
              /\ Fills(b)
              /\ incomplete' = incomplete \cup {b}
              /\ apc' = [apc EXCEPT ![t].at = "leaving", ![t].wake = TRUE]
        /\ UNCHANGED <<AppendOutside, appends, pollVars>>

\* Back in send(): wake the sender for a full or a new batch.
AppendLeave(t) ==
    /\ apc[t].at = "leaving"
    /\ appends' = appends - 1
    /\ woken' = (woken \/ apc[t].wake)
    /\ apc' = [apc EXCEPT ![t] = Idle]
    /\ UNCHANGED <<AppendOutside, batchVars, dq, sleep>>

----------------------------------------------------------------------------
(* RecordAccumulator.ready *)

\* _flush_in_progress: between begin_flush and the end of the wait.
FlushInProgress == cpc \in {"snapshot", "flushing"}

BackingOff(b) == b \in retried /\ wait[b] < setup.backoff
TimeToWait(b) == IF BackingOff(b) THEN setup.backoff ELSE setup.linger
TimeLeft(b) == Max({TimeToWait(b) - wait[b], 0})

Sendable(p) ==
    LET b == Head(dq[p]) IN
    \/ Len(dq[p]) > 1 \/ IsFull(b)
    \/ TimeLeft(b) = 0
    \/ accClosed \/ FlushInProgress

Considered(p) == leader[p] # None /\ p \notin muted /\ dq[p] # << >>

ReadyNodes == {leader[p] : p \in {q \in Partitions :
                 Considered(q) /\ Sendable(q) /\ ~BackingOff(Head(dq[q]))}}

\* Mutant: every batch waits for linger_ms.
NextReadyCheckLinger(ready) ==
    Min({Never} \cup {Max({setup.linger - wait[Head(dq[p])], 0}) :
            p \in {q \in Partitions : Considered(q) /\ leader[q] \notin ready}})

\* The loop over the partitions passes by those whose leader it has found
\* ready; before that it may take their time into account too, which only
\* makes the sleep shorter.
NextReadyCheck(ready) ==
    Min({Never} \cup {TimeLeft(Head(dq[p])) :
            p \in {q \in Partitions : Considered(q) /\ leader[q] \notin ready}})

----------------------------------------------------------------------------
(* Sender.run_once: _send_producer_data *)

\* Both loops of run() call run_once.
InRunOnce == sender \in {"main", "draining"}

SenderOutside == <<setup, appends, cluster, abortVars, flags, apc, closeVars>>

\* Partitions a drain of their node would take from, if it came to them.
Drainable(p) == /\ Considered(p) /\ p \notin blocked
                /\ ~BackingOff(Head(dq[p]))

\* ready(), then the nodes whose connection is not ready are dropped.
StartRound ==
    /\ InRunOnce /\ at = "top"
    /\ \A p \in Partitions : TpLockFree(p)
    /\ \E up \in IF setup.down THEN SUBSET ReadyNodes ELSE {ReadyNodes} :
        /\ round' = [NoRound EXCEPT !.nodes = up, !.unready = ReadyNodes \ up,
                                    !.could = {p \in Partitions : Drainable(p)}]
        /\ sleep' = IF up = {} THEN NextReadyCheck(ReadyNodes) ELSE 0
    /\ at' = "drain"
    /\ UNCHANGED <<SenderOutside, batchVars, dq, ageVars, final, muted, drain_index,
                   passed, woken, inFlight>>

\* drain: the nodes one after the other.
PartitionsForBroker(n) == SelectSeq(setup.partitions, LAMBDA p : leader[p] = n)

\* Mutant: the loop starts with the first partition every time.
DrainNodeFromFirst(n) ==
    /\ at = "drain" /\ round.node = None /\ n \in round.nodes
    /\ drain_index' = 0
    /\ round' = [round EXCEPT !.nodes = @ \ {n}, !.node = n, !.start = None, !.got = {}]
    /\ UNCHANGED <<SenderOutside, batchVars, dq, ageVars, final, muted, at, passed,
                   pollVars, inFlight>>

DrainNode(n) ==
    /\ at = "drain" /\ round.node = None /\ n \in round.nodes
    /\ drain_index' = drain_index % Len(PartitionsForBroker(n))
    /\ round' = [round EXCEPT !.nodes = @ \ {n}, !.node = n, !.start = None, !.got = {}]
    /\ UNCHANGED <<SenderOutside, batchVars, dq, ageVars, final, muted, at, passed,
                   pollVars, inFlight>>

\* What the loop of drain_batches_for_one_node does with a partition.
Skips(p) == p \in muted \/ dq[p] = << >> \/ BackingOff(Head(dq[p]))
Stops(p) == \/ Cardinality(round.got) + 1 > setup.request /\ round.got # {}
            \/ p \in blocked

\* The drain of a node is over: a partition that could have been drained was,
\* or was left behind once more.
Passed(got) ==
    [p \in Partitions |->
        IF p \notin round.could \/ leader[p] # round.node THEN passed[p]
        ELSE IF p \in {tp[b] : b \in got} THEN 0
        ELSE Min({passed[p] + 1, Cardinality(Partitions)})]

EndOfNode(got, stopped) ==
    /\ round' = [round EXCEPT !.node = None, !.got = {},
                              !.idle = @ \/ (got = {} /\ ~stopped)]
    /\ passed' = Passed(got)

Take(b) ==
    /\ dq' = [dq EXCEPT ![tp[b]] = Tail(@)]
    /\ open' = open \ {b} /\ filled' = filled \ {b}
    /\ inFlight' = inFlight \cup {b}
    /\ muted' = IF setup.order THEN muted \cup {tp[b]} ELSE muted

\* One iteration of that loop, which ends when it is back where it started.
DrainPartition ==
    LET parts == PartitionsForBroker(round.node)
        p == parts[drain_index + 1]
        start == IF round.start = None THEN drain_index ELSE round.start
        takes == ~Skips(p) /\ ~Stops(p)
        stopped == ~Skips(p) /\ Stops(p)
        got == IF takes THEN round.got \cup {Head(dq[p])} ELSE round.got
        over == stopped \/ (drain_index + 1) % Len(parts) = start
    IN  /\ at = "drain" /\ round.node # None
        /\ p \in muted \/ TpLockFree(p)
        /\ drain_index' = (drain_index + 1) % Len(parts)
        /\ IF takes THEN Take(Head(dq[p]))
                    ELSE UNCHANGED <<dq, open, filled, inFlight, muted>>
        /\ IF over THEN EndOfNode(got, stopped)
                   ELSE /\ round' = [round EXCEPT !.start = start, !.got = got]
                        /\ UNCHANGED passed
        /\ UNCHANGED <<SenderOutside, created, tp, incomplete, ageVars, final, at, pollVars>>

\* ProducerBatch.done or abort, then deallocate
Finish(b) ==
    /\ final' = final \cup {b}
    /\ incomplete' = incomplete \ {b}

\* expired_batches, after the drain.
ExpireBatch(p) ==
    /\ at = "drain" /\ round.nodes = {} /\ round.node = None
    /\ TpLockFree(p) /\ dq[p] # << >>
    /\ dq' = [dq EXCEPT ![p] = Tail(@)]
    /\ open' = open \ {Head(dq[p])} /\ filled' = filled \ {Head(dq[p])}
    /\ Finish(Head(dq[p]))
    /\ round' = [round EXCEPT !.expired = TRUE]
    /\ UNCHANGED <<SenderOutside, created, tp, ageVars, muted, drain_index, at, passed,
                   pollVars, inFlight>>

\* The requests are sent and the sender polls.
EndRound ==
    /\ at = "drain" /\ round.nodes = {} /\ round.node = None
    /\ at' = "poll"
    /\ round' = [round EXCEPT !.could = {}]
    /\ UNCHANGED <<SenderOutside, batchVars, dq, ageVars, final, muted, drain_index, passed,
                   pollVars, inFlight>>

\* A response is handled: the batch is completed ...
Unmute(b) == muted' = IF setup.order THEN muted \ {tp[b]} ELSE muted

CompleteBatch(b) ==
    /\ at = "poll" /\ b \in inFlight
    /\ inFlight' = inFlight \ {b}
    /\ Finish(b) /\ Unmute(b)
    /\ sleep' = 0
    /\ UNCHANGED <<SenderOutside, created, tp, open, filled, dq, ageVars, roundVars, woken>>

\* ... or goes back to the front of its deque.
RetryBatch(b) ==
    /\ at = "poll" /\ TpLockFree(tp[b]) /\ b \in inFlight /\ retries < setup.retries
    /\ retries' = retries + 1
    /\ retried' = retried \cup {b} /\ wait' = [wait EXCEPT ![b] = 0]
    /\ inFlight' = inFlight \ {b} /\ Unmute(b)
    /\ dq' = [dq EXCEPT ![tp[b]] = <<b>> \o @]
    /\ sleep' = 0
    /\ UNCHANGED <<SenderOutside, batchVars, final, roundVars, woken>>

\* poll returns, for whatever reason, and clears the wake-up.
PollReturns ==
    /\ at = "poll"
    /\ at' = "top" /\ round' = NoRound /\ sleep' = 0 /\ woken' = FALSE
    /\ UNCHANGED <<SenderOutside, batchVars, dq, ageVars, final, muted, drain_index, passed,
                   inFlight>>

\* Time passes (external).
Tick ==
    /\ at = "poll" /\ setup.linger + setup.backoff > 0
    /\ wait' = [b \in Batches |-> IF b \in incomplete THEN Min({wait[b] + 1, MaxWait})
                                  ELSE 0]
    /\ sleep' = IF sleep \in {0, Never} THEN sleep ELSE sleep - 1
    /\ UNCHANGED <<SenderOutside, batchVars, dq, retried, retries, final, muted, roundVars,
                   woken, inFlight>>

\* A metadata response names a leader (external), in the sender's poll.
LeaderFound(p, n) ==
    /\ at = "poll" /\ leader[p] = None /\ p \in Range(setup.partitions)
    /\ leader' = [leader EXCEPT ![p] = n]
    /\ sleep' = 0
    /\ UNCHANGED <<setup, batchVars, dq, ageVars, final, appends, blocked, muted, roundVars,
                   woken, inFlight, abortVars, flags, apc, closeVars>>

\* AddPartitionsToTxn is answered (external), in the sender's poll.
PartitionAllowed(p) ==
    /\ at = "poll" /\ p \in blocked
    /\ blocked' = blocked \ {p}
    /\ sleep' = 0
    /\ UNCHANGED <<setup, batchVars, dq, ageVars, final, appends, leader, muted, roundVars,
                   woken, inFlight, abortVars, flags, apc, closeVars>>

----------------------------------------------------------------------------
(* Sender.run *)

LoopOutside == <<setup, batchVars, dq, ageVars, final, appends, cluster, muted, roundVars,
                 pollVars, inFlight, flags, apc, closeVars>>

\* The main loop ends when close was called.
LeaveMainLoop ==
    /\ sender = "main" /\ at = "top" /\ ~running
    /\ sender' = "draining"
    /\ UNCHANGED <<LoopOutside, todo, aborted>>

\* The second loop ends when all is sent and answered, or close is forced; a
\* forced close starts abort_incomplete_batches.
HasUndrained == \E p \in Partitions : dq[p] # << >>
Drained == (\A p \in Partitions : TpLockFree(p)) /\ ~HasUndrained /\ inFlight = {}
LeaveDrainLoop ==
    /\ sender = "draining" /\ at = "top" /\ (force \/ Drained)
    /\ IF force THEN sender' = "aborting" /\ todo' = incomplete
                ELSE sender' = "closed" /\ todo' = todo
    /\ UNCHANGED <<LoopOutside, aborted>>

\* One batch of _abort_batches.  deque.remove raises ValueError for a batch
\* that is not in the deque, and nothing catches it: the thread dies.
AbortBatch(b) ==
    /\ sender \in {"aborting", "lastPass"} /\ b \in todo /\ TpLockFree(tp[b])
    /\ IF b \in Queued
       THEN /\ dq' = [dq EXCEPT ![tp[b]] = SelectSeq(@, LAMBDA c : c # b)]
            /\ Finish(b)
            /\ todo' = todo \ {b}
            /\ sender' = sender
       ELSE /\ sender' = "crashed" /\ todo' = {}
            /\ UNCHANGED <<dq, incomplete, final>>
    /\ open' = open \ {b} /\ filled' = filled \ {b}
    /\ UNCHANGED <<setup, created, tp, ageVars, appends, cluster, muted, roundVars, pollVars,
                   inFlight, aborted, flags, apc, closeVars>>

\* Mutant: one pass, whoever is appending, then the last.
NextPassAtOnce ==
    /\ sender = "aborting" /\ todo = {}
    /\ todo' = incomplete
    /\ sender' = "lastPass"
    /\ UNCHANGED <<LoopOutside, aborted>>

\* A pass is over: again while a thread is appending, then one last pass.
NextPass ==
    /\ sender = "aborting" /\ todo = {}
    /\ todo' = incomplete
    /\ sender' = IF appends > 0 THEN "aborting" ELSE "lastPass"
    /\ UNCHANGED <<LoopOutside, aborted>>

\* abort_incomplete_batches returns and the client is closed.
AbortReturns ==
    /\ sender = "lastPass" /\ todo = {}
    /\ dq' = [p \in Partitions |-> << >>]
    /\ aborted' = TRUE
    /\ sender' = "closed"
    /\ UNCHANGED <<setup, batchVars, ageVars, final, appends, cluster, muted, roundVars,
                   pollVars, inFlight, todo, flags, apc, closeVars>>

Alive == sender \notin {"closed", "crashed"}

----------------------------------------------------------------------------
(* KafkaProducer.flush and close, called by one application thread *)

CloseOutside == <<setup, batchVars, dq, ageVars, final, appends, cluster, muted, roundVars,
                  sleep, inFlight, abortVars, apc>>

\* flush: begin_flush and a wake-up, then the snapshot of the batches that
\* await_flush_completion waits for
Flush ==
    /\ cpc = "idle" /\ setup.calls # "none"
    /\ cpc' = "snapshot" /\ woken' = TRUE
    /\ before' = Batches \cap (1 .. created)
    /\ UNCHANGED <<CloseOutside, flags, waiting>>

\* Mutant: flush waits only for the batches still in a deque.
FlushQueued ==
    /\ cpc = "snapshot"
    /\ cpc' = "flushing"
    /\ waiting' = Queued
    /\ UNCHANGED <<CloseOutside, woken, flags, before>>

FlushSnapshot ==
    /\ cpc = "snapshot"
    /\ cpc' = "flushing"
    /\ waiting' = incomplete
    /\ UNCHANGED <<CloseOutside, woken, flags, before>>

\* close() goes on with a positive timeout, or forces; flush() alone is done.
FlushReturns ==
    /\ cpc = "flushing" /\ waiting \subseteq final
    /\ cpc' = CASE setup.calls = "positive" -> "initiateClose"
                [] setup.calls = "zero" -> "joined"
                [] OTHER -> "done"
    /\ UNCHANGED <<CloseOutside, woken, flags, before, waiting>>

\* KafkaTimeoutError from flush leaves close() before anything was closed.
FlushTimesOut ==
    /\ cpc = "flushing" /\ ~(waiting \subseteq final)
    /\ cpc' = "timedOut"
    /\ UNCHANGED <<CloseOutside, woken, flags, before, waiting>>

\* Sender.initiate_close sets two flags, and wakes the sender.
InitiateClose ==
    /\ \/ cpc = "initiateClose" /\ cpc' = "closeAccumulator"
       \/ cpc = "forceInitiateClose" /\ cpc' = "forceCloseAccumulator"
    /\ running' = FALSE
    /\ UNCHANGED <<CloseOutside, woken, force, accClosed, before, waiting>>

CloseAccumulator ==
    /\ \/ cpc = "closeAccumulator" /\ cpc' = "joining"
       \/ cpc = "forceCloseAccumulator" /\ cpc' = "done"
    /\ accClosed' = TRUE /\ woken' = TRUE
    /\ UNCHANGED <<CloseOutside, running, force, before, waiting>>

\* join(timeout) returns when the sender has ended or the time is over.
Join ==
    /\ cpc = "joining"
    /\ cpc' = "joined"
    /\ UNCHANGED <<CloseOutside, woken, flags, before, waiting>>

\* Sender.force_close, if the sender is still alive
ForceClose ==
    /\ cpc = "joined"
    /\ IF Alive THEN force' = TRUE /\ cpc' = "forceInitiateClose"
                ELSE force' = force /\ cpc' = "done"
    /\ UNCHANGED <<CloseOutside, woken, running, accClosed, before, waiting>>

----------------------------------------------------------------------------
AppendStep(t) ==
    \/ \E p \in Partitions : AppendEnter(t, p)
    \/ AppendIncrement(t) \/ AppendSection1(t)
    \/ AppendSection2(t) \/ AppendLocked(t) \/ AppendLeave(t)

RoundStep ==
    \/ StartRound \/ DrainPartition \/ EndRound \/ PollReturns
    \/ \E n \in Nodes : DrainNode(n)
    \/ \E p \in Partitions : ExpireBatch(p)
    \/ \E b \in Batches : CompleteBatch(b) \/ RetryBatch(b)

LoopStep ==
    \/ LeaveMainLoop \/ LeaveDrainLoop \/ NextPass \/ AbortReturns
    \/ \E b \in Batches : AbortBatch(b)

Environment ==
    \/ Tick
    \/ \E p \in Partitions, n \in Nodes : LeaderFound(p, n)
    \/ \E p \in Partitions : PartitionAllowed(p)

CloseStep ==
    \/ Flush \/ FlushSnapshot \/ FlushReturns \/ FlushTimesOut
    \/ InitiateClose \/ CloseAccumulator \/ Join \/ ForceClose

TNext == \/ RoundStep \/ LoopStep \/ Environment \/ CloseStep
         \/ \E t \in Appenders : AppendStep(t)

TSpec == TInit /\ [][TNext]_vars

----------------------------------------------------------------------------
(* Properties *)

\* Every variable keeps its type; _appends_in_progress, which
\* abort_incomplete_batches waits on, never goes below zero.
TypeOKThreads ==
    /\ created \in 0 .. MaxBatches /\ tp \in [Batches -> Partitions \cup {None}]
    /\ dq \in [Partitions -> Seq(Batches)]
    /\ open \subseteq Batches /\ filled \subseteq open
    /\ incomplete \subseteq Batches /\ final \subseteq Batches
    /\ retried \subseteq Batches /\ wait \in [Batches -> 0 .. MaxWait]
    /\ appends \in Nat /\ accClosed \in BOOLEAN
    /\ leader \in [Partitions -> Nodes \cup {None}] /\ blocked \subseteq Partitions
    /\ muted \subseteq Partitions /\ drain_index \in Nat
    /\ at \in {"top", "drain", "poll"} /\ DOMAIN round = DOMAIN NoRound
    /\ sleep \in 0 .. Never /\ woken \in BOOLEAN
    /\ passed \in [Partitions -> Nat]
    /\ inFlight \subseteq Batches /\ retries \in Nat
    /\ running \in BOOLEAN /\ force \in BOOLEAN
    /\ sender \in {"main", "draining", "aborting", "lastPass", "closed", "crashed"}
    /\ todo \subseteq Batches /\ aborted \in BOOLEAN
    /\ \A t \in Appenders : apc[t].at \in
          {"idle", "entered", "section1", "section2", "locked", "leaving"}
    /\ before \subseteq Batches /\ waiting \subseteq Batches

\* The post-condition of flush(): every record sent before the call is
\* completed when it returns, whatever other threads and the sender do.
FlushPostcondition ==
    cpc \in {"initiateClose", "closeAccumulator", "joining", "joined"} => before \subseteq final

\* After a forced close no accepted record is left without an answer: the
\* threads still inside append() either had their batch aborted or see the
\* closed flag.
AbortMissesNothing == aborted => incomplete = {}

\* A record never joins a batch that is closed, in flight or completed.
OpenIsQueued == open \subseteq Queued /\ open \cap (inFlight \cup final) = {}

\* The sender never sleeps over a batch that may be sent: while it polls and
\* nobody has woken it or is about to, no node it is connected to has a ready
\* partition (ready() gives the time until the next one is, and send() wakes
\* the sender for new and full batches).  A round that expired a batch is left
\* out: ready() was asked before, about the batch that is gone.
NoOversleep ==
    /\ at = "poll" /\ sleep > 0 /\ ~woken /\ ~round.expired
    /\ \A t \in Appenders : ~apc[t].wake
    => ReadyNodes \subseteq round.unready

\* ready() and drain() agree, although other threads append between them: the
\* drain of a node that ready() has found takes a batch, unless it meets a
\* partition the transaction manager does not allow.  Otherwise the sender
\* would spin, polling without a timeout.
ReadyIsDrained == ~round.idle

\* A partition that can be drained is left behind by no more drains in a row
\* than its node has partitions that the transaction manager blocks: the next
\* drain starts behind the partition that stopped the last one.  This is for
\* one node, and where a request has room for the batches of all partitions.
NotStarved ==
    /\ \A p, q \in Range(setup.partitions) : setup.leader[p] = setup.leader[q]
    /\ setup.request >= Len(setup.partitions)
    => \A p \in Partitions : passed[p] <= Cardinality(setup.blocked)

\* Sender.initiate_close "won't complete until all data is sent": when the
\* sender has ended without force, every accepted record is completed.
GracefulCloseSendsAll == sender = "closed" /\ ~aborted => incomplete = {}

\* abort_incomplete_batches fails all incomplete batches and returns.
AbortReturnsNormally == sender # "crashed"
============================================================================
