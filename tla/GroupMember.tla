----------------------------- MODULE GroupMember -----------------------------
(***************************************************************************)
(* Membership of a consumer group: BaseCoordinator, its HeartbeatThread    *)
(* and the parts of ConsumerCoordinator that take part in a rebalance, for *)
(* every member of the group, with the group coordinator (a broker) as the *)
(* external party they talk to.                                            *)
(*                                                                         *)
(* A member has an application thread (pc: where it is in poll) and a      *)
(* heartbeat thread (hb).  Responses are handled by either, one at a time. *)
(* queue[m] is what is in flight to the coordinator, oldest first; the     *)
(* broker answers in order, and parks JoinGroup and SyncGroup until the    *)
(* group is ready.  Clocks are left out: a time-out is a choice, and every *)
(* choice of the environment draws on the budget.                          *)
(***************************************************************************)
EXTENDS Integers, Sequences, FiniteSets, SequencesExt, FiniteSetsExt

CONSTANTS
    Members,        \* the consumers
    Committers,     \* those whose application commits offsets
    Setups,         \* [blocking, running]: how poll() is called, and by whom
    PartitionsOf(_),\* the partitions of the subscribed topics, per snapshot
    MaxSnapshot,    \* bound: changes of the topics' metadata
    MaxEvents,      \* bound: faults, time-outs, calls of the application
    None

VARIABLES
    blocking,  \* poll() is called without a timeout
    member,    \* [Members -> the fields of the coordinator object]
    queue,     \* [Members -> requests in flight to the group coordinator]
    group,     \* external: the coordinator's record of the group
    snapshot,  \* external: version of the topics' metadata
    budget

vars == << blocking, member, queue, group, snapshot, budget >>

Spend == budget > 0 /\ budget' = budget - 1

NoGeneration(id) == [gen |-> -1, id |-> id]
UnknownId == 0

NewMember ==
    [coordinator |-> FALSE, lookup |-> FALSE, rejoin_needed |-> TRUE,
     rejoining |-> FALSE, state |-> "unjoined", join |-> None,
     generation |-> NoGeneration(UnknownId), is_leader |-> FALSE,
     metadata_snapshot |-> 0, assignment_snapshot |-> None,
     resubscribed |-> FALSE, assigned |-> {}, hb |-> "none", pc |-> "idle"]

-----------------------------------------------------------------------------
(* Helpers on one member's record.                                          *)

NeedRejoin(c) == \/ c.assignment_snapshot \notin {None, c.metadata_snapshot}
                 \/ c.resubscribed
                 \/ c.rejoin_needed

ResetGeneration(c, id) == [c EXCEPT !.generation = NoGeneration(id),
                                    !.rejoin_needed = TRUE, !.state = "unjoined"]

CoordinatorDead(c) == [c EXCEPT !.coordinator = FALSE]

RequestRejoin(c) == [c EXCEPT !.rejoin_needed = TRUE]

(* generation_if_stable gives a generation.                                 *)
GenerationIfStable(c) == c.state = "stable"

(* HeartbeatThread.enable and disable: a thread that has failed stays so.   *)
Enable(hb) == IF hb = "off" THEN "on" ELSE hb
Disable(hb) == IF hb = "failed" THEN hb ELSE "off"

StartHeartbeatThread(c) == [c EXCEPT !.hb = IF @ \in {"none", "dropped"} THEN "off" ELSE @]
DisableHeartbeatThread(c) == [c EXCEPT !.hb = Disable(@)]
CloseHeartbeatThread(c) == [c EXCEPT !.hb = "closed"]

(* The join future fails, unless it is done; _handle_join_failure follows.  *)
FailJoin(c, error) ==
    IF c.join = None \/ c.join.done THEN c
    ELSE [c EXCEPT !.join = [done |-> TRUE, ok |-> FALSE, error |-> error],
                   !.state = "unjoined"]

(* ... or succeeds; _handle_join_success enables the heartbeat thread.      *)
SucceedJoin(c, gen, assignment) ==
    IF c.join = None \/ c.join.done THEN c
    ELSE [c EXCEPT !.join = [done |-> TRUE, ok |-> TRUE, gen |-> gen,
                             assignment |-> assignment],
                   !.state = "stable",
                   !.hb = Enable(@)]

Request(kind, c) ==
    [kind |-> kind, gen |-> c.generation.gen, id |-> c.generation.id,
     assignment |-> << >>, parked |-> FALSE, reply |-> None]
JoinGroupRequest(c) == Request("join", c)
HeartbeatRequest(c) == Request("heartbeat", c)
OffsetCommitRequest(c) == Request("commit", c)
InFlight(m, kind) == \E i \in DOMAIN queue[m] : queue[m][i].kind = kind

(* coordinator._lock is held by the heartbeat thread.                       *)
Locked(m) == member[m].hb \in {"checked", "leaving"}

Running(m) == member[m].pc # "closed"

-----------------------------------------------------------------------------
(* The application thread.                                                  *)

SendGroupCoordinatorRequest(c) == [c EXCEPT !.lookup = TRUE]

(* lookup_coordinator, shared by both threads through one future.           *)
LookupCoordinator(m) ==
    /\ ~member[m].coordinator /\ ~member[m].lookup /\ Running(m)
    /\ member' = [member EXCEPT ![m] =
          [SendGroupCoordinatorRequest(@) EXCEPT !.hb = IF @ = "checked" THEN "on" ELSE @]]
    /\ UNCHANGED << blocking, queue, group, snapshot, budget >>

EnsureActiveGroup(c) == [StartHeartbeatThread(c) EXCEPT !.pc = "join"]

(* ConsumerCoordinator.poll with a rejoin due ...                           *)
PollJoins(m) ==
    /\ member[m].pc = "idle" /\ member[m].coordinator /\ NeedRejoin(member[m])
    /\ member' = [member EXCEPT ![m] = EnsureActiveGroup(@)]
    /\ UNCHANGED << blocking, queue, group, snapshot, budget >>

(* ... and without: poll_heartbeat raises what the heartbeat thread failed  *)
(* with, and forgets that thread.                                           *)
PollHeartbeat(m) ==
    /\ member[m].pc = "idle" /\ member[m].coordinator /\ ~NeedRejoin(member[m])
    /\ member[m].hb = "failed"
    /\ member' = [member EXCEPT ![m].hb = "dropped"]
    /\ UNCHANGED << blocking, queue, group, snapshot, budget >>

OnJoinPrepare(c) == [c EXCEPT !.rejoining = TRUE, !.is_leader = FALSE]

(* The head of join_group's loop: _on_join_prepare once per rejoin, then    *)
(* the heartbeat thread is fenced off.                                      *)
JoinPrepare(m) ==
    /\ member[m].pc = "join" /\ member[m].coordinator
    /\ IF ~NeedRejoin(member[m])
       THEN member' = [member EXCEPT ![m].pc = "idle"]
       ELSE IF member[m].rejoining
            THEN member' = [member EXCEPT ![m].pc = "drain"]
            ELSE /\ ~Locked(m)
                 /\ member' = [member EXCEPT ![m] =
                       [DisableHeartbeatThread(OnJoinPrepare(@)) EXCEPT !.pc = "drain"]]
    /\ UNCHANGED << blocking, queue, group, snapshot, budget >>

\* Mutant: the join does not wait for requests in flight.
NothingInFlightUnchecked(m) == TRUE

NothingInFlight(m) == queue[m] = << >>

(* Wait for requests in flight, then _initiate_join_group: a future that is *)
(* there already is used again.                                             *)
InitiateJoinGroup(m) ==
    LET c == member[m] IN
    /\ c.pc = "drain" /\ ~Locked(m)
    /\ IF ~c.coordinator
       THEN member' = [member EXCEPT ![m].pc = "join"] /\ UNCHANGED queue
       ELSE /\ NothingInFlight(m)
            /\ IF c.join # None
               THEN member' = [member EXCEPT ![m].pc = "await"] /\ UNCHANGED queue
               ELSE /\ queue' = [queue EXCEPT ![m] = Append(@, JoinGroupRequest(c))]
                    /\ member' = [member EXCEPT ![m].pc = "await",
                                                ![m].state = "rebalancing",
                                                ![m].join = [done |-> FALSE],
                                                ![m].resubscribed = FALSE]
    /\ UNCHANGED << blocking, group, snapshot, budget >>

(* _on_join_complete takes the assignment, or asks for another rejoin if    *)
(* the subscription has changed meanwhile.                                  *)
OnJoinComplete(c) ==
    [c EXCEPT !.rejoin_needed = c.resubscribed,
              !.assigned = IF c.resubscribed THEN @ ELSE c.join.assignment,
              !.assignment_snapshot = IF c.is_leader THEN @ ELSE None]

(* The future is done.                                                      *)
JoinReturns(m) ==
    LET c == member[m] IN
    /\ c.pc = "await" /\ c.join.done
    /\ member' = [member EXCEPT ![m] =
          IF c.join.ok
          THEN [OnJoinComplete(c) EXCEPT !.join = None, !.rejoining = FALSE, !.pc = "idle"]
          ELSE [c EXCEPT !.join = None,
                         !.pc = IF c.join.error = "fatal" THEN "idle" ELSE "join"]]
    /\ UNCHANGED << blocking, queue, group, snapshot, budget >>

(* The time given to poll() is over; the future stays.                      *)
JoinTimesOut(m) ==
    /\ ~blocking /\ Spend
    /\ \/ member[m].pc \in {"join", "drain"}
       \/ member[m].pc = "await" /\ ~member[m].join.done
    /\ member' = [member EXCEPT ![m].pc = "idle"]
    /\ UNCHANGED << blocking, queue, group, snapshot >>

(* commit() or an auto-commit: only with a generation (generation_if_stable; *)
(* bound: while nothing else is in flight).                                 *)
Commit(m) ==
    /\ m \in Committers /\ member[m].pc = "idle" /\ member[m].coordinator
    /\ GenerationIfStable(member[m]) /\ queue[m] = << >>
    /\ queue' = [queue EXCEPT ![m] = Append(@, OffsetCommitRequest(member[m]))]
    /\ UNCHANGED << blocking, member, group, snapshot, budget >>

(* subscribe() to other topics, noticed by need_rejoin.                     *)
Resubscribe(m) ==
    /\ member[m].pc = "idle" /\ Spend
    /\ member' = [member EXCEPT ![m].resubscribed = TRUE]
    /\ UNCHANGED << blocking, queue, group, snapshot >>

-----------------------------------------------------------------------------
(* Leaving: maybe_leave_group sends LeaveGroup if there is a group to leave, *)
(* waits for the answer and resets the generation in any case.              *)

LeaveRequests(c) ==
    IF c.coordinator /\ c.state # "unjoined" /\ c.generation.gen # -1
    THEN << Request("leave", c) >> ELSE << >>

(* HeartbeatThread.close is called with the lock held, so the thread cannot *)
(* end before the join times out, and may go around once more after it.     *)
LastHeartbeat(c) ==
    IF c.hb = "on" /\ c.state = "stable" /\ c.coordinator
    THEN {<< >>, << HeartbeatRequest(c) >>} ELSE {<< >>}

(* KafkaConsumer.close: the heartbeat thread is closed first.               *)
Close(m) ==
    /\ member[m].pc = "idle" /\ ~Locked(m) /\ Spend
    /\ \E last \in LastHeartbeat(member[m]) :
          queue' = [queue EXCEPT ![m] = @ \o last \o LeaveRequests(member[m])]
    /\ member' = [member EXCEPT ![m] = [CloseHeartbeatThread(@) EXCEPT !.pc = "closing"]]
    /\ UNCHANGED << blocking, group, snapshot >>

CloseReturns(m) ==
    /\ member[m].pc = "closing" /\ ~InFlight(m, "leave")
    /\ member' = [member EXCEPT ![m] = [ResetGeneration(@, UnknownId) EXCEPT
                                           !.pc = "closed", !.assigned = {}]]
    /\ UNCHANGED << blocking, queue, group, snapshot, budget >>

-----------------------------------------------------------------------------
(* The heartbeat thread.                                                    *)

(* _run_once: with both locks held, the state is checked, then the network  *)
(* is polled ("checked"), then one thing is done.                           *)
HeartbeatCheck(m) ==
    LET c == member[m] IN
    /\ c.hb = "on"
    /\ ~(c.pc = "await" /\ c.join.done)   \* the application thread is about to run
    /\ member' = [member EXCEPT ![m].hb = IF c.state = "stable" THEN "checked"
                                          ELSE "off"]
    /\ UNCHANGED << blocking, queue, group, snapshot, budget >>

(* Nothing to do yet, or a heartbeat is due (bound: one in flight).         *)
HeartbeatSend(m) ==
    LET c == member[m] IN
    /\ c.hb = "checked" /\ (c.coordinator \/ c.lookup)
    /\ queue' \in {queue} \cup
          (IF c.coordinator /\ ~InFlight(m, "heartbeat")
           THEN {[queue EXCEPT ![m] = Append(@, HeartbeatRequest(c))]} ELSE {})
    /\ member' = [member EXCEPT ![m].hb = "on"]
    /\ UNCHANGED << blocking, group, snapshot, budget >>

(* _run_once raises something unexpected: run ends, and keeps it.           *)
HeartbeatFails(m) ==
    /\ member[m].hb = "checked" /\ Spend
    /\ member' = [member EXCEPT ![m].hb = "failed"]
    /\ UNCHANGED << blocking, queue, group, snapshot >>

(* session_timeout_expired: give up on the coordinator.                     *)
SessionTimeout(m) ==
    /\ member[m].hb = "checked" /\ member[m].coordinator /\ Spend
    /\ member' = [member EXCEPT ![m] = [CoordinatorDead(@) EXCEPT !.hb = "on"]]
    /\ UNCHANGED << blocking, queue, group, snapshot >>

(* poll_timeout_expired: the application has been away from poll() for      *)
(* max_poll_interval_ms.                                                    *)
PollTimeout(m) ==
    /\ member[m].hb = "checked" /\ member[m].coordinator /\ member[m].pc = "idle"
    /\ Spend
    /\ queue' = [queue EXCEPT ![m] = @ \o LeaveRequests(member[m])]
    /\ member' = [member EXCEPT ![m].hb = "leaving"]
    /\ UNCHANGED << blocking, group, snapshot >>

HeartbeatLeft(m) ==
    /\ member[m].hb = "leaving" /\ ~InFlight(m, "leave")
    /\ member' = [member EXCEPT ![m] =
                     [ResetGeneration(@, UnknownId) EXCEPT !.hb = "on"]]
    /\ UNCHANGED << blocking, queue, group, snapshot, budget >>

-----------------------------------------------------------------------------
(* Handlers of the coordinator's responses (either thread).                 *)

Answered(m, kind) == /\ queue[m] # << >>
                     /\ Head(queue[m]).kind = kind /\ Head(queue[m]).reply # None

\* Mutant: a rebalance in progress is taken for a successful heartbeat.
GroupErrorNoRejoin(c, error) ==
    CASE error \in {"unknown_member", "illegal_generation"} -> ResetGeneration(c, UnknownId)
      [] error = "not_coordinator" -> CoordinatorDead(c)
      [] OTHER -> c

(* What the handlers of heartbeats and commits do with an error.            *)
GroupError(c, error) ==
    CASE error \in {"unknown_member", "illegal_generation"} -> ResetGeneration(c, UnknownId)
      [] error = "rebalance" -> RequestRejoin(c)
      [] error = "not_coordinator" -> CoordinatorDead(c)
      [] OTHER -> c

(* The response of the oldest request in flight is handled by Handler.      *)
Handle(m, kind, Handler(_, _)) ==
    /\ Answered(m, kind)
    /\ member' = [member EXCEPT ![m] = Handler(@, Head(queue[m]).reply)]
    /\ queue' = [queue EXCEPT ![m] = Tail(@)]
    /\ UNCHANGED << blocking, group, snapshot, budget >>

HandleHeartbeatResponse(m) ==
    Handle(m, "heartbeat", LAMBDA c, r : GroupError(c, r.error))

HandleOffsetCommitResponse(m) ==
    Handle(m, "commit", LAMBDA c, r : GroupError(c, r.error))

\* Mutant: the leader gives everything to everybody.
PerformAssignmentOverlapping(ids, partitions) == [id \in ids |-> partitions]

(* _perform_assignment, some assignor: partitions in turn.                  *)
PerformAssignment(ids, partitions) ==
    LET order == SetToSortSeq(ids, <)
        share[i \in DOMAIN order] == {p \in partitions : p % Len(order) = i % Len(order)}
    IN [id \in ids |-> share[CHOOSE i \in DOMAIN order : order[i] = id]]

(* _on_join_leader assigns with the metadata it has seen; the followers     *)
(* send an empty assignment.                                                *)
OnJoinLeader(c) == [c EXCEPT !.is_leader = TRUE,
                             !.assignment_snapshot = c.metadata_snapshot]

SyncGroupRequest(c, r) ==
    [Request("sync", c) EXCEPT !.assignment =
        IF r.leader = r.id
        THEN PerformAssignment(r.members, PartitionsOf(c.metadata_snapshot)) ELSE << >>]

JoinError(c, r) ==
    FailJoin(CASE r.error = "unknown_member" -> ResetGeneration(c, UnknownId)
               [] r.error = "member_id_required" -> ResetGeneration(c, r.id)
               [] r.error = "not_coordinator" -> CoordinatorDead(c)
               [] OTHER -> c, r.error)

(* _handle_join_group_response.  A response that comes when the member is   *)
(* no longer rebalancing fails the future, and a SyncGroup is sent even so, *)
(* unless the coordinator is unknown by now.                                *)
HandleJoinResponse(m) ==
    /\ Answered(m, "join")
    /\ LET c == member[m]
           r == Head(queue[m]).reply
           joined == IF c.state # "rebalancing" THEN FailJoin(c, "unjoined")
                     ELSE [c EXCEPT !.generation = [gen |-> r.gen, id |-> r.id]]
           led == IF r.leader = r.id THEN OnJoinLeader(joined) ELSE joined
           sent == r.error = "none" /\ c.coordinator
       IN /\ member' = [member EXCEPT ![m] =
                IF r.error # "none" THEN JoinError(c, r)
                ELSE IF sent THEN led ELSE FailJoin(led, "not_coordinator")]
          /\ queue' = [queue EXCEPT ![m] =
                IF sent THEN Append(Tail(@), SyncGroupRequest(led, r)) ELSE Tail(@)]
    /\ UNCHANGED << blocking, group, snapshot, budget >>

(* _handle_sync_group_response                                              *)
HandleSyncResponse(m) ==
    Handle(m, "sync", LAMBDA c, r :
        IF r.error = "none" THEN SucceedJoin(c, r.gen, r.assignment)
        ELSE FailJoin(GroupError(RequestRejoin(c), r.error), r.error))

(* _handle_leave_group_response only logs.                                  *)
HandleLeaveResponse(m) == Handle(m, "leave", LAMBDA c, r : c)

(* The connection is lost: _failed_request of everything in flight.         *)
Disconnect(m) ==
    /\ queue[m] # << >> /\ Spend
    /\ member' = [member EXCEPT ![m] =
          LET dead == CoordinatorDead(@) IN
          IF InFlight(m, "join") \/ InFlight(m, "sync")
          THEN FailJoin(dead, "disconnected") ELSE dead]
    /\ queue' = [queue EXCEPT ![m] = << >>]
    /\ UNCHANGED << blocking, group, snapshot >>

(* coordinator() finds that the connection is gone, with nothing in flight. *)
CoordinatorDisconnected(m) ==
    /\ member[m].coordinator /\ queue[m] = << >> /\ Running(m) /\ Spend
    /\ member' = [member EXCEPT ![m] = CoordinatorDead(@)]
    /\ UNCHANGED << blocking, queue, group, snapshot >>

(* _handle_group_coordinator_response                                       *)
HandleLookup(m) ==
    /\ member[m].lookup
    /\ member' = [member EXCEPT ![m].lookup = FALSE, ![m].coordinator = TRUE]
    /\ UNCHANGED << blocking, queue, group, snapshot, budget >>

(* The lookup fails: ensure_coordinator_ready tries again, or raises an     *)
(* error that is not retriable out of join_group.                           *)
LookupFails(m) ==
    /\ member[m].lookup /\ Spend
    /\ \E raises \in BOOLEAN :
          member' = [member EXCEPT ![m].lookup = FALSE,
                                   ![m].pc = IF raises /\ @ = "join" THEN "idle" ELSE @]
    /\ UNCHANGED << blocking, queue, group, snapshot >>

(* _handle_metadata_update: the member sees the topics' new partitions.     *)
HandleMetadataUpdate(m) ==
    /\ member[m].metadata_snapshot # snapshot /\ Running(m)
    /\ member' = [member EXCEPT ![m].metadata_snapshot = snapshot]
    /\ UNCHANGED << blocking, queue, group, snapshot, budget >>

-----------------------------------------------------------------------------
(* The group coordinator (external): state is "empty", "preparing" (waiting *)
(* for every member to join), "completing" (for the leader's assignment) or *)
(* "stable".                                                                *)

NewGroup == [gen |-> 0, state |-> "empty", members |-> {}, joined |-> {}, named |-> {},
             leader |-> UnknownId, assignment |-> << >>, next |-> 1]

(* The request of m the broker is to look at next.                          *)
Next1(m) == LET open == {i \in DOMAIN queue[m] : queue[m][i].reply = None} IN
            IF open = {} THEN 0 ELSE Min(open)
Open(m) == Next1(m) # 0 /\ ~queue[m][Next1(m)].parked
Received(m) == queue[m][Next1(m)]

Error(e) == [error |-> e]
WithReply(q, m, reply) == [q EXCEPT ![m][Next1(m)].reply = reply]

(* Answer every parked request of a kind: the reply for each member id.     *)
Ids == 1 .. group.next
AnswerParked(q, kind, reply) ==
    [m \in Members |-> [i \in DOMAIN q[m] |->
        IF q[m][i].kind = kind /\ q[m][i].parked /\ q[m][i].reply = None
        THEN [q[m][i] EXCEPT !.reply = reply[q[m][i].id]] ELSE q[m][i]]]

(* A rebalance begins: those waiting for an assignment must join again.     *)
Preparing(g) == [g EXCEPT !.state = IF g.members = {} THEN "empty" ELSE "preparing"]
Rebalanced(q) == AnswerParked(q, "sync", [id \in Ids |-> Error("rebalance")])
Without(g, id) == Preparing([g EXCEPT !.members = @ \ {id}, !.joined = @ \ {id}])

Outside == << blocking, member, snapshot >>

BrokerJoin(m) ==
    /\ Open(m) /\ Received(m).kind = "join"
    /\ LET r == Received(m) IN
       IF r.id = UnknownId
       THEN /\ queue' = WithReply(queue, m, [error |-> "member_id_required",
                                             id |-> group.next])
            /\ group' = [group EXCEPT !.named = @ \cup {group.next}, !.next = @ + 1]
       ELSE IF r.id \notin group.members \cup group.named
            THEN /\ queue' = WithReply(queue, m, Error("unknown_member"))
                 /\ UNCHANGED group
            ELSE /\ queue' = Rebalanced([queue EXCEPT ![m][Next1(m)].parked = TRUE])
                 /\ group' = Preparing([group EXCEPT !.members = @ \cup {r.id},
                                                     !.joined = @ \cup {r.id},
                                                     !.named = @ \ {r.id}])
    /\ UNCHANGED << Outside, budget >>

BrokerCompletesJoin ==
    /\ group.state = "preparing" /\ group.joined = group.members
    /\ LET g == [group EXCEPT !.gen = @ + 1, !.state = "completing", !.joined = {},
                              !.leader = Min(group.members), !.assignment = << >>]
       IN /\ group' = g
          /\ queue' = AnswerParked(queue, "join",
                 [id \in Ids |-> [error |-> "none", gen |-> g.gen, id |-> id,
                                  leader |-> g.leader, members |-> g.members]])
    /\ UNCHANGED << Outside, budget >>

(* Those that have not joined within the rebalance timeout are removed.     *)
RebalanceTimeout ==
    /\ group.state = "preparing" /\ group.joined # {} /\ group.joined # group.members
    /\ Spend
    /\ group' = [group EXCEPT !.members = group.joined]
    /\ UNCHANGED << Outside, queue >>

Given(g, id) == [error |-> "none", gen |-> g.gen, assignment |-> g.assignment[id]]

(* Why the broker refuses a request of a member, if it does.                *)
Refusal(r, states) ==
    IF r.id \notin group.members THEN "unknown_member"
    ELSE IF r.gen # group.gen THEN "illegal_generation"
    ELSE IF group.state \in states THEN "rebalance" ELSE "none"

BrokerSync(m) ==
    /\ Open(m) /\ Received(m).kind = "sync"
    /\ LET r == Received(m)
           refusal == Refusal(r, {"preparing"})
           g == [group EXCEPT !.state = "stable", !.assignment = r.assignment]
           parked == [queue EXCEPT ![m][Next1(m)].parked = TRUE]
       IN IF refusal # "none"
          THEN queue' = WithReply(queue, m, Error(refusal)) /\ UNCHANGED group
          ELSE IF group.state = "stable"
          THEN queue' = WithReply(queue, m, Given(group, r.id)) /\ UNCHANGED group
          ELSE IF r.id = group.leader
          THEN /\ group' = g
               /\ queue' = AnswerParked(parked, "sync", [id \in Ids |-> Given(g, id)])
          ELSE queue' = parked /\ UNCHANGED group
    /\ UNCHANGED << Outside, budget >>

BrokerHeartbeatOrCommit(m) ==
    /\ Open(m) /\ Received(m).kind \in {"heartbeat", "commit"}
    /\ queue' = WithReply(queue, m, Error(Refusal(Received(m),
                    IF Received(m).kind = "heartbeat" THEN {"preparing"}
                    ELSE {"completing"})))
    /\ UNCHANGED << Outside, group, budget >>

BrokerLeave(m) ==
    /\ Open(m) /\ Received(m).kind = "leave"
    /\ LET answered == WithReply(queue, m, Error("none")) IN
       IF Received(m).id \in group.members
       THEN group' = Without(group, Received(m).id) /\ queue' = Rebalanced(answered)
       ELSE UNCHANGED group /\ queue' = answered
    /\ UNCHANGED << Outside, budget >>

(* Another error: this broker is not the coordinator (any more), is loading *)
(* the group, or does not authorize the client.                             *)
BrokerRefuses(m, error) ==
    /\ Open(m) /\ Spend
    /\ queue' = WithReply(queue, m, Error(error))
    /\ UNCHANGED << Outside, group >>

(* The session expires of a member that is gone or silent, or, with bad     *)
(* luck, that of another.                                                   *)
Gone(id) == \A m \in Members : /\ member[m].generation.id # id
                               /\ \A i \in DOMAIN queue[m] : queue[m][i].id # id

(* The member sends no heartbeats, as its heartbeat thread is no more.      *)
Silent(id) == \E m \in Members : /\ member[m].generation.id = id
                                 /\ member[m].hb = "dropped"

SessionExpires(id) ==
    /\ id \in group.members
    /\ \/ Gone(id) /\ UNCHANGED budget
       \/ /\ ~Gone(id) /\ id \notin group.joined
          /\ IF Silent(id) THEN UNCHANGED budget ELSE Spend
    /\ group' = Without(group, id)
    /\ queue' = Rebalanced(queue)
    /\ UNCHANGED Outside

MetadataChanges ==
    /\ snapshot < MaxSnapshot /\ Spend
    /\ snapshot' = snapshot + 1
    /\ UNCHANGED << blocking, member, queue, group >>

-----------------------------------------------------------------------------
Init ==
    /\ \E s \in Setups :
          /\ blocking = s.blocking
          /\ member = [m \in Members |-> IF m \in s.running THEN NewMember
                                        ELSE [NewMember EXCEPT !.pc = "closed"]]
    /\ queue = [m \in Members |-> << >>]
    /\ group = NewGroup
    /\ snapshot = 0
    /\ budget = MaxEvents

Application(m) == \/ LookupCoordinator(m) \/ PollJoins(m) \/ PollHeartbeat(m)
                  \/ JoinPrepare(m)
                  \/ InitiateJoinGroup(m) \/ JoinReturns(m) \/ CloseReturns(m)

Heartbeats(m) == HeartbeatCheck(m) \/ HeartbeatSend(m) \/ HeartbeatLeft(m)

Handlers(m) == \/ HandleHeartbeatResponse(m) \/ HandleOffsetCommitResponse(m)
               \/ HandleJoinResponse(m) \/ HandleSyncResponse(m)
               \/ HandleLeaveResponse(m)

Broker(m) == \/ BrokerJoin(m) \/ BrokerSync(m) \/ BrokerHeartbeatOrCommit(m)
             \/ BrokerLeave(m)

Next ==
    \/ \E m \in Members :
          \/ Application(m) \/ Heartbeats(m) \/ Handlers(m) \/ Broker(m)
          \/ HandleLookup(m) \/ LookupFails(m) \/ HandleMetadataUpdate(m)
          \/ CoordinatorDisconnected(m) \/ HeartbeatFails(m)
          \/ JoinTimesOut(m) \/ Commit(m) \/ Resubscribe(m) \/ Close(m)
          \/ SessionTimeout(m) \/ PollTimeout(m) \/ Disconnect(m)
          \/ \E error \in {"not_coordinator", "load", "fatal"} : BrokerRefuses(m, error)
    \/ BrokerCompletesJoin \/ RebalanceTimeout \/ MetadataChanges
    \/ \E id \in group.members : SessionExpires(id)

Spec == Init /\ [][Next]_vars

(* Fairness: the application keeps calling poll() and gets the lock that    *)
(* the heartbeat thread gives up while it waits for the next heartbeat; the *)
(* heartbeat thread runs and heartbeats when it is time; the network and    *)
(* the brokers answer; the session of a member that is gone expires.        *)
Fairness ==
    /\ \A m \in Members :
          /\ SF_vars(Application(m))
          /\ WF_vars(Heartbeats(m)) /\ SF_vars(HeartbeatSend(m) /\ queue' # queue)
          /\ WF_vars(Handlers(m) \/ Broker(m))
          /\ WF_vars(HandleLookup(m))
          /\ WF_vars(HandleMetadataUpdate(m))
    /\ WF_vars(BrokerCompletesJoin)
    /\ WF_vars(\E id \in group.members : SessionExpires(id) /\ UNCHANGED budget)

FairSpec == Spec /\ Fairness

-----------------------------------------------------------------------------
TypeOKGroup ==
    /\ \A m \in Members :
          LET c == member[m] IN
          /\ c.state \in {"unjoined", "rebalancing", "stable"}
          /\ c.pc \in {"idle", "join", "drain", "await", "closing", "closed"}
          /\ c.hb \in {"none", "off", "on", "checked", "leaving",
                       "failed", "dropped", "closed"}
          /\ c.pc = "await" => c.join # None
          /\ c.state = "rebalancing" => c.join # None /\ ~c.join.done
          /\ c.generation.gen <= group.gen
    /\ group.joined \subseteq group.members

InGroup(m) == /\ member[m].state = "stable" /\ ~member[m].rejoining
              /\ member[m].generation.gen = group.gen

(* Two members that both hold the group's current generation, and have      *)
(* taken their assignment, own no partition in common: what a late          *)
(* response, a reused join future or a lost connection leaves behind never  *)
(* passes for an assignment of the current generation.                      *)
OneOwner ==
    \A m, n \in Members : m # n /\ InGroup(m) /\ InGroup(n) =>
        member[m].assigned \cap member[n].assigned = {}

(* The heartbeat thread is fenced off during a join: while a JoinGroup or   *)
(* SyncGroup is in flight, no heartbeat and no commit of the generation     *)
(* before is, so no late answer to one is taken for the new generation's    *)
(* (the handlers of both reset the generation without looking at it).       *)
Fenced ==
    \A m \in Members : InFlight(m, "join") \/ InFlight(m, "sync") =>
                           ~InFlight(m, "heartbeat") /\ ~InFlight(m, "commit")

(* A member that is outside the group knows that it must join: "disable     *)
(* heartbeats and wait for the main thread to rejoin" (HeartbeatThread).    *)
UnjoinedRejoins ==
    \A m \in Members :
        member[m].state = "unjoined" /\ member[m].pc = "idle" => NeedRejoin(member[m])

Settled(m) == /\ InGroup(m) /\ ~NeedRejoin(member[m])
              /\ member[m].generation.id \in DOMAIN group.assignment
              /\ member[m].assigned = group.assignment[member[m].generation.id]

(* When nothing disturbs the group any more, every member that is not       *)
(* closed ends up in it, for good, and between them they own every          *)
(* partition.  (Of applications that call poll() without a timeout.  A      *)
(* member whose heartbeat thread has died is left out: nothing starts       *)
(* another one before the next rejoin.)                                     *)
Stabilises ==
    blocking =>
        <>[](LET running == {m \in Members : Running(m) /\ member[m].hb # "dropped"} IN
             /\ \A m \in running : Settled(m)
             /\ running # {} => UNION {member[m].assigned : m \in running}
                                    = PartitionsOf(snapshot))

=============================================================================
