----------------------------- MODULE Assignors -----------------------------
(***************************************************************************)
(* The three partition assignors of coordinator/assignors/ (range,         *)
(* roundrobin, sticky) and the state the sticky one keeps between          *)
(* rebalances.  A rebalance starts with the metadata each member sent in   *)
(* its JoinGroup request, the leader computes an assignment, and the       *)
(* members that receive it record it for the next rebalance.               *)
(*                                                                         *)
(* The range and roundrobin assignors are pure, so each is an operator.    *)
(* StickyAssignmentExecutor is a loop that moves one partition at a time   *)
(* until it finds nothing to improve, so it is a state machine: one step   *)
(* per iteration of its loops.                                             *)
(*                                                                         *)
(* A partition is <<topic, number>>; topics and members are numbers, since *)
(* the code sorts both.  Lists whose order only breaks ties are sets, and  *)
(* a pop() from one of them is a choice.                                   *)
(***************************************************************************)
EXTENDS Integers, FiniteSetsExt, SequencesExt

CONSTANTS
    Members,        \* member ids, numbers
    Topics,         \* topics, numbers
    Setups,         \* [assignor, count, host, internal, changes, rebalances]:
                    \* the group's assignor, the number of partitions of each
                    \* topic, the process each member runs in,
                    \* cluster.internal_topics, what may differ between
                    \* rebalances (a subset of {"subscribe", "miss",
                    \* "topics"}), and a bound on their number
    None

VARIABLES
    setup,
    subscription,   \* the topics each member subscribes to
    recorded,       \* per process, StickyPartitionAssignor.member_assignment
                    \* and .generation: class attributes
    generation,     \* the group's generation, given by the broker
    ex              \* the assignment being computed, or the last one

vars == <<setup, subscription, recorded, generation, ex>>

Hosts == {setup.host[m] : m \in Members}

\* The elements of S in the order in which Before sorts them.
Sorted(S, Before(_, _)) ==
    [i \in 1 .. Cardinality(S) |->
        CHOOSE x \in S : Cardinality({y \in S : Before(y, x)}) = i - 1]

Smaller(a, b) == a < b

\* TopicPartition tuples compare by topic, then by partition.
TopicPartitionBefore(p, q) == p[1] < q[1] \/ (p[1] = q[1] /\ p[2] < q[2])

PartitionsOf(t) == {<<t, n>> : n \in 0 .. setup.count[t] - 1}

------------------------------------------------------------------------------
(* RangePartitionAssignor and RoundRobinPartitionAssignor.                 *)

\* The numbers of the partitions, of n, that go to the i-th consumer.
RangeSlice(i, n, consumers) ==
    LET per   == n \div consumers
        extra == n % consumers
        start == per * i + Min({i, extra})
    IN  start .. start + per - (IF i + 1 > extra THEN 1 ELSE 0)

\* What range gives member m of the members ms when topics exist.
RangeAssign(ms, topics, m) ==
    UNION {LET consumers == Sorted({c \in ms : t \in subscription[c]}, Smaller)
               i == SelectInSeq(consumers, LAMBDA c : c = m) - 1
           IN  {<<t, n>> : n \in RangeSlice(i, setup.count[t], Len(consumers))}
           : t \in subscription[m] \cap topics}

\* The steps of itertools.cycle until a member that wants topic t.
NextMember(order, at, t) ==
    Min({k \in at .. at + Len(order) - 1 :
            t \in subscription[order[(k % Len(order)) + 1]]})

RoundRobinAssign(ms, topics) ==
    LET order == Sorted(ms, Smaller)
        all   == Sorted(UNION {PartitionsOf(t) :
                            t \in topics \cap UNION {subscription[m] : m \in ms}},
                        TopicPartitionBefore)
        give(acc, p) ==
            LET k == NextMember(order, acc.at, p[1])
            IN  [at  |-> (k + 1) % Len(order),
                 got |-> [acc.got EXCEPT ![order[(k % Len(order)) + 1]] =
                            @ \cup {p}]]
    IN  FoldLeft(give, [at |-> 0, got |-> [m \in ms |-> {}]], all).got

------------------------------------------------------------------------------
(* StickyAssignmentExecutor: what it derives from its inputs.              *)

\* The executor when no assignment is being computed.
Idle == [pc |-> "idle", members |-> {}, topics |-> {}, assignment |-> <<>>]

\* _initialize: partition_to_all_potential_consumers and
\* consumer_to_all_potential_partitions.
AllPartitions(e) == UNION {PartitionsOf(t) : t \in e.topics}

PotentialConsumers(e, p) == {m \in e.members : p[1] \in subscription[m]}

PotentialPartitions(e, m) ==
    UNION {PartitionsOf(t) : t \in e.topics \cap subscription[m]}

\* _init_current_assignments: the members that claim p, the first of
\* order where two of one generation do, from the highest generation down.
Claimants(order, p) ==
    LET members == ToSet(order)
        gen(m)  == recorded[setup.host[m]].generation
        claim   == {m \in members : p \in recorded[setup.host[m]].partitions}
        first   == {m \in claim : \A n \in claim :
                        gen(m) = gen(n) =>
                            SelectInSeq(order, LAMBDA x : x = m)
                            <= SelectInSeq(order, LAMBDA x : x = n)}
    IN  Sorted(first, LAMBDA m, n : gen(m) > gen(n))

\* Every partition somebody claims, of a topic that may be gone.
Claimed(ms) == UNION {recorded[setup.host[m]].partitions : m \in ms}

Size(a, m) == IF m \in DOMAIN a THEN Cardinality(a[m]) ELSE 0

\* subscriptions_comparator_key
Fewer(a, m, n) ==
    Size(a, m) < Size(a, n) \/ (Size(a, m) = Size(a, n) /\ m < n)

\* partitions_comparator_key
LessWanted(e, p, q) ==
    LET P == Cardinality(PotentialConsumers(e, p))
        Q == Cardinality(PotentialConsumers(e, q))
    IN  P < Q \/ (P = Q /\ TopicPartitionBefore(p, q))

Owner(a, p) == CHOOSE m \in DOMAIN a : p \in a[m]

\* The consumers in sorted_current_subscriptions: those of current_assignment
\* that balance() has not set aside.
Active(e) == e.members \ DOMAIN e.fixed

------------------------------------------------------------------------------
(* StickyAssignmentExecutor: its steps.                                    *)

\* _are_subscriptions_identical.  It compares lists, and the order of a
\* member's topics is that of a Python set: members that want the same two
\* topics may still differ.
SubscriptionsIdentical(e) ==
    LET same == /\ \A p, q \in AllPartitions(e) :
                        PotentialConsumers(e, p) = PotentialConsumers(e, q)
                /\ \A m, n \in e.members :
                        PotentialPartitions(e, m) = PotentialPartitions(e, n)
        ordered == \/ Cardinality(e.members) <= 1
                   \/ \A m \in e.members :
                        Cardinality(e.topics \cap subscription[m]) <= 1
    IN  IF ~same THEN {FALSE} ELSE IF ordered THEN {TRUE} ELSE BOOLEAN

\* StickyAssignmentExecutor.__init__, and _populate_sorted_partitions up to
\* its loop.  left is the copy of the assignment that the loop consumes.
StartSticky(ms, topics) ==
    \E order \in SetToSeqs(ms) :
        LET claimed == Claimed(ms)
            current == [m \in ms |-> {p \in claimed : Claimants(order, p)[1] = m}]
            e == [pc         |-> "sort",
                  members    |-> ms,
                  topics     |-> topics,
                  assignment |-> current,
                  previous   |-> [p \in {q \in claimed : Len(Claimants(order, q)) > 1}
                                    |-> Claimants(order, p)[2]],
                  sorted     |-> <<>>,
                  left       |-> [m \in ms |-> {}]]
        IN  \E identical \in SubscriptionsIdentical(e) :
                ex' = IF identical
                      THEN [e EXCEPT !.left = [m \in ms |-> current[m] \cap AllPartitions(e)]]
                      ELSE e

\* One iteration of the loop in _populate_sorted_partitions: the next
\* candidate comes from the consumer with the most partitions left.
SortPartition ==
    /\ ex.pc = "sort"
    /\ \E m \in ex.members : ex.left[m] # {}
    /\ LET c    == CHOOSE m \in ex.members :
                       \A n \in ex.members \ {m} : Fewer(ex.left, n, m)
           back == ex.left[c] \cap DOMAIN ex.previous
       IN  \E p \in IF back # {} THEN back ELSE ex.left[c] :
               ex' = [ex EXCEPT !.sorted = Append(@, p), !.left[c] = @ \ {p}]
    /\ UNCHANGED <<setup, subscription, recorded, generation>>

\* _assign_partition: to the potential consumer with the fewest partitions.
AssignPartition(e, a, p) ==
    LET able == PotentialConsumers(e, p)
        c    == CHOOSE m \in able : \A n \in able \ {m} : Fewer(a, m, n)
    IN  IF able = {} THEN a ELSE [a EXCEPT ![c] = @ \cup {p}]

CanPartitionParticipate(e, p) == Cardinality(PotentialConsumers(e, p)) >= 2

CanConsumerParticipate(e, a, m) ==
    \/ Cardinality(a[m]) < Cardinality(PotentialPartitions(e, m))
    \/ \E p \in a[m] : CanPartitionParticipate(e, p)

\* Mutant: the previous assignment is ignored, as when user data is not parsed.
KeptNothing(e, m) == {}

\* _populate_partitions_to_reassign: what m keeps.
Kept(e, m) == e.assignment[m] \cap PotentialPartitions(e, m)

\* The end of _populate_sorted_partitions, _populate_partitions_to_reassign,
\* and balance() up to its reassignment loops.
BeginBalance ==
    /\ ex.pc = "sort"
    /\ \A m \in ex.members : ex.left[m] = {}
    /\ LET all    == Sorted(AllPartitions(ex), LAMBDA p, q : LessWanted(ex, p, q))
           sorted == ex.sorted \o SelectSeq(all, LAMBDA p : p \notin ToSet(ex.sorted))
           kept   == [m \in ex.members |-> Kept(ex, m)]
           todo   == SelectSeq(sorted, LAMBDA p : \A m \in ex.members : p \notin kept[m])
           full   == FoldLeft(LAMBDA a, p : AssignPartition(ex, a, p), kept, todo)
           active == {m \in ex.members : CanConsumerParticipate(ex, full, m)}
           moving == SelectSeq(sorted, LAMBDA p : CanPartitionParticipate(ex, p))
           added  == SelectSeq(todo, LAMBDA p : CanPartitionParticipate(ex, p))
           revoke == \E m \in ex.members :
                        (ex.assignment[m] \cap AllPartitions(ex)) \ kept[m] # {}
       IN  ex' = [pc           |-> "reassign",
                  members      |-> ex.members,
                  topics       |-> ex.topics,
                  previous     |-> ex.previous,
                  initializing |-> \A m \in ex.members : kept[m] = {},
                  assignment   |-> [m \in active |-> full[m]],
                  fixed        |-> [m \in ex.members \ active |-> full[m]],
                  prebalance   |-> [m \in active |-> full[m]],
                  movements    |-> [p \in AllPartitions(ex) |-> None],
                  passes       |-> IF revoke THEN <<moving>> ELSE <<added, moving>>,
                  todo         |-> IF revoke THEN moving ELSE added,
                  modified     |-> FALSE,
                  performed    |-> FALSE]
    /\ UNCHANGED <<setup, subscription, recorded, generation>>

\* Mutant: a difference of two counts as balanced.
IsBalancedLoosely(e) ==
    \A m, n \in Active(e) : Cardinality(e.assignment[m]) >= Cardinality(e.assignment[n]) - 2

\* _is_balanced
IsBalanced(e) ==
    LET a == e.assignment
        size(m) == Cardinality(a[m])
    IN  \/ \A m, n \in Active(e) : size(m) >= size(n) - 1
        \/ \A m \in Active(e) :
              size(m) # Cardinality(PotentialPartitions(e, m)) =>
                  \A p \in PotentialPartitions(e, m) \ a[m] :
                      size(m) >= size(Owner(a, p))

\* PartitionMovements.get_partition_to_be_moved: p, unless moving it would
\* undo, for its topic, the move of another partition between the same two.
PartitionToBeMoved(e, p, old, new) ==
    LET from == IF e.movements[p] # None THEN e.movements[p][1] ELSE old
        back == {q \in DOMAIN e.movements :
                    q[1] = p[1] /\ e.movements[q] = <<new, from>>}
    IN  IF back = {} THEN {p} ELSE back

\* PartitionMovements.move_partition
MovementRecorded(e, p, old, new) ==
    LET src == IF e.movements[p] # None THEN e.movements[p][1] ELSE old
    IN  [e.movements EXCEPT ![p] = IF src = new THEN None ELSE <<src, new>>]

\* _move_partition.  Removing from sorted_current_subscriptions a consumer
\* that is not there raises KeyError, and assign() with it.
MovePartition(e, p, new) ==
    LET old == Owner(e.assignment, p)
    IN  IF {old, new} \subseteq Active(e) /\ old # new
        THEN [e EXCEPT !.assignment[old] = @ \ {p}, !.assignment[new] = @ \cup {p},
                       !.movements = MovementRecorded(e, p, old, new),
                       !.modified = TRUE, !.performed = TRUE, !.todo = Tail(@)]
        ELSE [Idle EXCEPT !.pc = "raised", !.members = e.members]

\* Mutant: a move that only swaps who has one more is worth making.
OverloadedByOne(a, c, m) == Size(a, c) > Size(a, m)

\* Moving a partition from c to m makes the assignment more balanced.
Overloaded(a, c, m) == Size(a, c) > Size(a, m) + 1

\* Reading current_assignment, a defaultdict, adds the key.
Read(a, m) == [n \in DOMAIN a \cup {m} |-> IF n \in DOMAIN a THEN a[n] ELSE {}]

\* One iteration of the loop in _perform_reassignments: back to the previous
\* consumer of the partition, or to the potential consumer with the fewest
\* (_reassign_partition), or nowhere.
Reassign ==
    /\ ex.pc = "reassign"
    /\ ex.todo # <<>>
    /\ LET p     == Head(ex.todo)
           a     == ex.assignment
           c     == Owner(a, p)
           e     == IF p \in DOMAIN ex.previous
                    THEN [ex EXCEPT !.assignment = Read(a, ex.previous[p])] ELSE ex
           able  == {m \in Active(ex) : p[1] \in subscription[m]}
           least == CHOOSE m \in able : \A n \in able \ {m} : Fewer(a, m, n)
       IN  \/ /\ IsBalanced(ex)
              /\ ex' = [ex EXCEPT !.todo = <<>>]
           \/ /\ ~IsBalanced(ex)
              /\ p \in DOMAIN ex.previous
              /\ Overloaded(a, c, ex.previous[p])
              /\ \E q \in PartitionToBeMoved(ex, p, c, ex.previous[p]) :
                    ex' = MovePartition(e, q, ex.previous[p])
           \/ /\ ~IsBalanced(ex)
              /\ p \in DOMAIN ex.previous => ~Overloaded(a, c, ex.previous[p])
              /\ IF \E m \in able : Overloaded(a, c, m)
                 THEN \E q \in PartitionToBeMoved(ex, p, c, least) :
                        ex' = MovePartition(e, q, least)
                 ELSE ex' = [e EXCEPT !.todo = Tail(@)]
    /\ UNCHANGED <<setup, subscription, recorded, generation>>

\* The end of a pass over the list: again while something moved, then the
\* next list.
NextPass ==
    /\ ex.pc = "reassign"
    /\ ex.todo = <<>>
    /\ ex.modified \/ Len(ex.passes) > 1
    /\ ex' = IF ex.modified
             THEN [ex EXCEPT !.todo = Head(ex.passes), !.modified = FALSE]
             ELSE [ex EXCEPT !.passes = Tail(@), !.todo = ex.passes[2],
                             !.performed = FALSE]
    /\ UNCHANGED <<setup, subscription, recorded, generation>>

\* Twice _get_balance_score: every pair of consumers is counted both ways.
BalanceScore(a) ==
    MapThenSumSet(LAMBDA pair : LET d == Size(a, pair[1]) - Size(a, pair[2])
                                IN  IF d < 0 THEN -d ELSE d,
                  (DOMAIN a) \X (DOMAIN a))

\* The end of balance(): the assignment is reverted if the second pass moved
\* partitions and gained nothing, and the consumers set aside return.
Balanced(e) ==
    LET revert == /\ ~e.initializing
                  /\ e.performed
                  /\ BalanceScore(e.assignment) >= BalanceScore(e.prebalance)
        a == IF revert THEN e.prebalance ELSE e.assignment
    IN  [m \in e.members |-> IF m \in DOMAIN e.fixed THEN e.fixed[m] ELSE a[m]]

Finished(ms, topics, a) ==
    [pc |-> "assigned", members |-> ms, topics |-> topics, assignment |-> a]

EndBalance ==
    /\ ex.pc = "reassign"
    /\ ex.todo = <<>> /\ ~ex.modified /\ Len(ex.passes) = 1
    /\ ex' = Finished(ex.members, ex.topics, Balanced(ex))
    /\ UNCHANGED <<setup, subscription, recorded, generation>>

------------------------------------------------------------------------------
(* Rebalances.                                                             *)

\* ConsumerCoordinator._perform_assignment: the leader's call of assign(),
\* for the members that joined and the topics its metadata knows.
PerformAssignment ==
    /\ ex.pc = "idle"
    /\ generation < setup.rebalances
    /\ generation' = generation + 1
    /\ \E ms \in SUBSET Members \ {{}} :
       \E topics \in IF "topics" \in setup.changes THEN SUBSET Topics ELSE {Topics} :
         \/ /\ setup.assignor = "range"
            /\ ex' = Finished(ms, topics, [m \in ms |-> RangeAssign(ms, topics, m)])
         \/ /\ setup.assignor = "roundrobin"
            /\ ex' = Finished(ms, topics, RoundRobinAssign(ms, topics))
         \/ /\ setup.assignor = "sticky"
            /\ IF setup.internal \cap topics \cap UNION {subscription[m] : m \in ms} = {}
               THEN StartSticky(ms, topics \ setup.internal)
               ELSE ex' = [Idle EXCEPT !.pc = "raised", !.members = ms]
    /\ UNCHANGED <<setup, subscription, recorded>>

\* ConsumerCoordinator._on_join_complete in the members that receive the
\* assignment; got holds the last one of each process.  A member that misses
\* the SyncGroup response keeps what it had recorded.
OnAssignment ==
    /\ ex.pc = "assigned"
    /\ \E got \in SUBSET ex.members :
        /\ \A m, n \in got : setup.host[m] = setup.host[n] => m = n
        /\ "miss" \notin setup.changes =>
              \A m \in ex.members : \E n \in got : setup.host[n] = setup.host[m]
        /\ recorded' = [h \in Hosts |->
              IF \E m \in got : setup.host[m] = h
              THEN LET m == CHOOSE n \in got : setup.host[n] = h
                   IN  [partitions |-> ex.assignment[m], generation |-> generation]
              ELSE recorded[h]]
    /\ ex' = Idle
    /\ UNCHANGED <<setup, subscription, generation>>

\* KafkaConsumer.subscribe with other topics.
Subscribe(m) ==
    /\ ex.pc = "idle"
    /\ "subscribe" \in setup.changes
    /\ generation < setup.rebalances
    /\ \E topics \in SUBSET Topics \ {{}, subscription[m]} :
        subscription' = [subscription EXCEPT ![m] = topics]
    /\ UNCHANGED <<setup, recorded, generation, ex>>

Init ==
    /\ setup \in Setups
    /\ subscription \in [Members -> SUBSET Topics \ {{}}]
    /\ recorded = [h \in Hosts |-> [partitions |-> {}, generation |-> -1]]
    /\ generation = 0
    /\ ex = Idle

Assign == SortPartition \/ BeginBalance \/ Reassign \/ NextPass \/ EndBalance

Next == PerformAssignment \/ Assign \/ OnAssignment \/ \E m \in Members : Subscribe(m)

Spec == Init /\ [][Next]_vars

Computing == ex.pc \in {"sort", "reassign"}

\* assign() is a call that keeps running.  While it computes, Assign and no
\* other step is enabled, so this is weak fairness of Assign, in a form that
\* is cheap to evaluate.
FairSpec == Spec /\ (<>[]~Computing \/ []<><<Computing>>_vars)

------------------------------------------------------------------------------
(* Properties.                                                             *)

\* Assignments and recorded assignments hold partitions of the topics, and
\* no process records a generation the group has not reached.
TypeOKAssignors ==
    /\ subscription \in [Members -> SUBSET Topics \ {{}}]
    /\ generation \in 0 .. setup.rebalances
    /\ \A h \in Hosts : /\ recorded[h].partitions \subseteq UNION {PartitionsOf(t) : t \in Topics}
                        /\ recorded[h].generation \in -1 .. generation
    /\ ex.pc \in {"idle", "sort", "reassign", "assigned", "raised"}
    /\ ex.pc = "assigned" =>
          /\ DOMAIN ex.assignment = ex.members
          /\ UNION {ex.assignment[m] : m \in ex.members} =
                UNION {PotentialPartitions(ex, m) : m \in ex.members}

\* An assignment gives every partition that some member of the group can
\* consume to exactly one member, and that member subscribes to its topic.
\* assign() raises only in the sticky assignor, and only when a member
\* subscribes to an internal topic (the KeyError of _initialize).
Valid ==
    /\ ex.pc = "raised" =>
          \E m \in ex.members : subscription[m] \cap setup.internal # {}
    /\ ex.pc = "assigned" =>
        \A p \in AllPartitions(ex) :
            LET owners == {m \in ex.members : p \in ex.assignment[m]}
            IN  /\ owners \subseteq PotentialConsumers(ex, p)
                /\ Cardinality(owners) = Min({1, Cardinality(PotentialConsumers(ex, p))})

\* The sticky assignor's promise: a member with two partitions fewer than
\* another can consume none of the other's.  Range: the shares of one topic
\* differ by at most one.  Roundrobin: the shares do, when all the members
\* subscribe to the same topics.
Even ==
    ex.pc = "assigned" =>
        \A m, n \in ex.members :
            CASE setup.assignor = "sticky" ->
                    Size(ex.assignment, m) + 1 < Size(ex.assignment, n) =>
                        ex.assignment[n] \cap PotentialPartitions(ex, m) = {}
              [] setup.assignor = "range" ->
                    \A t \in subscription[m] \cap subscription[n] :
                        Cardinality(ex.assignment[m] \cap PartitionsOf(t)) + 1
                        >= Cardinality(ex.assignment[n] \cap PartitionsOf(t))
              [] setup.assignor = "roundrobin" ->
                    (\A k, l \in ex.members : subscription[k] = subscription[l]) =>
                        Size(ex.assignment, m) + 1 >= Size(ex.assignment, n)

\* What verify_validity_and_balance of the tests demands of an assignment,
\* here after any rebalances and of all three assignors.
ValidAndBalanced == Valid /\ Even

\* Stickiness: when every member that rejoins received the last assignment,
\* wants all the topics, and has about as many of the partitions that still
\* exist as any other, each of them keeps all it has.
KeepsAssignment ==
    [][ex.pc = "reassign" /\ ex'.pc = "assigned" =>
        LET had(m) == recorded[setup.host[m]].partitions \cap AllPartitions(ex)
        IN  (/\ \A m, n \in ex.members : setup.host[m] = setup.host[n] => m = n
             /\ \A m \in ex.members :
                    /\ recorded[setup.host[m]].generation = generation - 1
                    /\ subscription[m] = Topics
             /\ \A m, n \in ex.members : Cardinality(had(m)) <= Cardinality(had(n)) + 1
             /\ generation > 1)
            => \A m \in ex.members : had(m) \subseteq ex'.assignment[m]]_vars

\* Every assignment is computed: the reassignment loop does not move
\* partitions in circles.
AssignTerminates == Computing ~> ~Computing
=============================================================================
