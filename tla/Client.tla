------------------------------- MODULE Client -------------------------------
(***************************************************************************)
(* KafkaClient with its BrokerConnections, their KafkaProtocol, the        *)
(* ClusterMetadata and the Futures, called by several threads.             *)
(*                                                                         *)
(* The fields of the client object are the record `client'; one entry of   *)
(* client.conns is a BrokerConnection together with its socket, whose far  *)
(* end is external.  poll() holds the client's lock from BeginPoll to      *)
(* Select; send(), wakeup() and the handlers of responses run without it.  *)
(* A request is named by what its future completes: a thread that called   *)
(* send(), "meta" for the metadata refresh, "versions", "sasl" and "token" *)
(* for the requests a connection sends to set itself up.  Clocks are left  *)
(* out: the end of a back-off is an action, a time-out a choice, and every *)
(* choice of the environment draws on the budget.                          *)
(***************************************************************************)
EXTENDS Integers, Sequences, FiniteSets, SequencesExt, FiniteSetsExt

CONSTANTS
    Bootstrap,     \* node ids of the bootstrap servers
    Nodes,         \* node ids of the brokers, learnt from metadata
    Threads,       \* the threads that share the client
    Setups,        \* [security, broker, threads, pollers, max_in_flight]
    IdSpace,       \* correlation ids are counted modulo this (2^31 in the code)
    MaxApiVersion, \* the newest ApiVersionsRequest (4 in the code)
    VersionChecks, \* Len(VERSION_CHECKS) (4 in the code)
    MaxEvents,     \* bound: faults, time-outs, partial writes, close()
    None

VARIABLES
    setup,   \* the configuration, chosen once
    client,  \* the fields of KafkaClient and ClusterMetadata
    thread,  \* [Threads -> [pc, back, node]]
    lock,    \* the thread in the locked part of poll(), or None
    budget

vars == << setup, client, thread, lock, budget >>

AllNodes == Bootstrap \cup Nodes
Disconnected == "disconnected"
ConnectingStates == {"connecting", "handshake", "api_send", "api_recv", "authenticating"}
Initializing == {"api_send", "api_recv", "authenticating"}

NewSocket == [os |-> "wait", out |-> << >>, in |-> << >>, eof |-> FALSE, silent |-> FALSE]
NewProtocol == [next |-> 0, ifr |-> << >>, out |-> << >>]

(* A BrokerConnection: probing is config['api_version'] is None.            *)
NewConn(probing) ==
    [state |-> Disconnected, ifr |-> << >>, proto |-> NewProtocol, buffer |-> << >>,
     events |-> {}, gai |-> 0, backoff |-> FALSE, probing |-> probing,
     idx |-> MaxApiVersion, check |-> None, known |-> ~probing, probe |-> None,
     auth |-> None, throttled |-> FALSE, late |-> FALSE, idle |-> FALSE,
     sock |-> NewSocket]

Connected(c) == c # None /\ c.state = "connected"
Connecting(c) == c # None /\ c.state \in ConnectingStates
CanSendRecv(c) == c # None /\ (c.state = "connected" \/ c.state \in Initializing)
CanSendMore(c) == ~c.throttled /\ Len(c.ifr) < setup.max_in_flight
CanSendRequest(S, n) == Connected(S.conns[n]) /\ CanSendMore(S.conns[n])
BlackedOut(c) == c.state = Disconnected /\ c.backoff

-----------------------------------------------------------------------------
(* ClusterMetadata.                                                         *)

Brokers(S) == IF S.brokers # {} THEN S.brokers ELSE Bootstrap
BrokerMetadata(S, n) == n \in S.brokers \cup Bootstrap

(* ttl() = 0: an update was asked for, or the metadata is too old, and the  *)
(* last attempt is retry_backoff_ms ago.                                    *)
RefreshDue(S) == (S.need_update \/ S.aged) /\ ~S.retry_backoff

RequestUpdate(S) == [S EXCEPT !.need_update = TRUE, !.future = TRUE]

ResolveUpdate(S, how) ==
    [S EXCEPT !.future = FALSE,
              !.fut = [t \in Threads |-> IF @[t] = "update" THEN how ELSE @[t]]]

\* Mutant: refresh_done is not called for a failed refresh.
FailedUpdateStillRefreshing(S) ==
    [ResolveUpdate(S, "failed") EXCEPT !.retry_backoff = TRUE]

FailedUpdate(S) ==
    [ResolveUpdate(S, "failed") EXCEPT !.retry_backoff = TRUE, !.refreshing = FALSE]

(* update_metadata, then refresh_done.                                      *)
UpdateMetadata(S) ==
    [ResolveUpdate(S, "ok") EXCEPT
        !.brokers = Nodes, !.need_update = FALSE, !.aged = FALSE,
        !.retry_backoff = TRUE, !.refreshing = FALSE]

-----------------------------------------------------------------------------
(* Failing the futures of requests, and closing a connection.               *)

(* The errback of one in-flight request of connection n.                    *)
FailFuture(n, S, fut) ==
    CASE fut \in Threads -> [S EXCEPT !.fut[fut] = IF @ = "pending" THEN "failed" ELSE "twice"]
      [] fut = "meta" -> FailedUpdate(S)
      [] fut = "versions" /\ S.conns[n] # None ->
            LET c == S.conns[n]
            IN  [S EXCEPT !.conns[n] =
                    IF c.check # None THEN [c EXCEPT !.check = @ + 1]
                    ELSE IF c.idx > 0 THEN [c EXCEPT !.idx = 0]
                    ELSE [c EXCEPT !.check = 0]]
      [] OTHER -> S

FailAll(S, n, ifr) == FoldLeft(LAMBDA T, e : FailFuture(n, T, e.fut), S, ifr)

(* What close() leaves of the connection object.                            *)
ResetConnection(c) ==
    [c EXCEPT !.state = Disconnected, !.ifr = << >>, !.proto = NewProtocol,
              !.buffer = << >>, !.events = {}, !.probe = None, !.auth = None,
              !.backoff = (c.gai = 0), !.late = FALSE, !.idle = FALSE,
              !.sock = NewSocket]

(* conn.close(), with _conn_state_change(DISCONNECTED); popped: the client  *)
(* has already dropped the connection from _conns.                          *)
CloseConn(S, n, popped) ==
    LET c == S.conns[n]
        gone == [S EXCEPT !.conns[n] = IF popped THEN None ELSE ResetConnection(c),
                          !.sending = IF popped THEN @ \ {n} ELSE @,
                          !.connecting = @ \ {n},
                          !.lru = SelectSeq(@, LAMBDA m : m # n)]
        failed == ~popped /\ n \notin Bootstrap /\ c.gai = 0 /\ ~c.idle /\ ~S.closed
    IN  IF c = None THEN S
        ELSE IF c.state = Disconnected
        THEN [S EXCEPT !.conns[n] = IF popped THEN None ELSE c,
                       !.sending = IF popped THEN @ \ {n} ELSE @]
        ELSE FailAll(IF failed THEN RequestUpdate(gone) ELSE gone, n, c.ifr)

-----------------------------------------------------------------------------
(* Sending: KafkaProtocol.send_request and BrokerConnection._send.          *)

\* Mutant: the request is queued but its future is not recorded.
QueueRequestForgotten(c, fut) ==
    LET id == (c.proto.next + 1) % IdSpace
    IN  [c EXCEPT !.proto = [next |-> id, ifr |-> Append(@.ifr, id),
                             out |-> Append(@.out, [id |-> id, fut |-> fut])]]

QueueRequest(c, fut) ==
    LET id == (c.proto.next + 1) % IdSpace
    IN  [c EXCEPT !.proto = [next |-> id, ifr |-> Append(@.ifr, id),
                             out |-> Append(@.out, [id |-> id, fut |-> fut])],
                  !.ifr = Append(@, [id |-> id, fut |-> fut])]

(* send_pending_requests: everything, through a blocking socket.            *)
SendBlocking(c) == [c EXCEPT !.sock.out = @ \o c.proto.out, !.proto.out = << >>]

(* send_pending_requests_v2: what is left of the previous call comes first, *)
(* and alone; partial: the socket did not take all of it.  EVENT_WRITE is   *)
(* dropped when the buffer is empty.                                        *)
SendPendingRequests(c, partial) ==
    LET data == IF c.buffer # << >> THEN c.buffer ELSE c.proto.out
        rest == IF c.buffer # << >> THEN c.proto.out ELSE << >>
    IN  IF partial /\ data # << >>
        THEN [c EXCEPT !.buffer = data, !.proto.out = rest]
        ELSE [c EXCEPT !.buffer = << >>, !.proto.out = rest,
                       !.sock.out = @ \o data, !.events = @ \ {"W"}]

-----------------------------------------------------------------------------
(* BrokerConnection.connect(), stage by stage: each stage is skipped unless *)
(* the connection is in its state.                                          *)

InState(S, n, states) == S.conns[n] # None /\ S.conns[n].state \in states

(* CONNECTED: _conn_state_change also closes the bootstrap connections once *)
(* a broker is reached.                                                     *)
BecomesConnected(S, n) ==
    LET up == [S EXCEPT !.conns[n].state = "connected", !.conns[n].events = {"R"},
                        !.conns[n].idle = FALSE, !.connecting = @ \ {n},
                        !.lru = Append(SelectSeq(@, LAMBDA m : m # n), n)]
    IN  IF n \in Bootstrap THEN up
        ELSE FoldSet(LAMBDA b, T : CloseConn(T, b, TRUE), up, Bootstrap)

StartConnecting(S, n, dns) ==
    LET c == S.conns[n] IN
    IF c.state # Disconnected \/ c.backoff THEN S
    ELSE LET gai == IF c.gai > 0 THEN c.gai - 1 ELSE dns
             new == [S EXCEPT !.conns[n] = [c EXCEPT !.state = "connecting", !.gai = gai,
                                                     !.events = {"W"}, !.sock = NewSocket],
                              !.connecting = @ \cup {n}]
         IN  IF c.gai = 0 /\ dns = None
             THEN CloseConn([new EXCEPT !.conns[n].gai = 0], n, FALSE) ELSE new

(* connect_ex, then for SSL the handshake: os is what the socket says.      *)
FinishConnecting(S, n) ==
    LET ssl == setup.security = "SSL" IN
    IF ~InState(S, n, {"connecting", "handshake"}) THEN S
    ELSE CASE S.conns[n].sock.os = "wait" -> S
           [] S.conns[n].sock.os = "err" -> CloseConn(S, n, FALSE)
           [] ssl /\ S.conns[n].state = "connecting" ->
                [S EXCEPT !.conns[n].state = "handshake", !.conns[n].sock.os = "wait"]
           [] OTHER -> [S EXCEPT !.conns[n].state = "api_send", !.conns[n].events = {"W"}]

Probe(c) == SendBlocking(QueueRequest([c EXCEPT !.state = "api_recv", !.events = {"R"},
                                                !.probe = "pending"], "versions"))

TryApiVersionsCheck(S, n) ==
    LET c == S.conns[n]
        up == IF setup.security = "SASL"
              THEN [S EXCEPT !.conns[n].state = "authenticating", !.conns[n].events = {"R"}]
              ELSE BecomesConnected(S, n)
    IN  CASE ~InState(S, n, {"api_send", "api_recv"}) -> S
          [] ~c.probing \/ c.probe = "ok" -> up
          [] c.probe # None -> S
          [] c.check = VersionChecks -> CloseConn(S, n, FALSE)
          [] OTHER -> [S EXCEPT !.conns[n] = Probe(c)]

TryAuthenticate(S, n) ==
    LET c == S.conns[n] IN
    CASE ~InState(S, n, {"authenticating"}) -> S
      [] c.auth = "ok" -> BecomesConnected(S, n)
      [] c.auth = "pending" -> S
      [] OTHER -> [S EXCEPT !.conns[n] =
                      SendBlocking(QueueRequest([c EXCEPT !.auth = "pending"], "sasl"))]

Connect(S, n, dns) ==
    TryAuthenticate(TryApiVersionsCheck(
        FinishConnecting(StartConnecting(S, n, dns), n), n), n)

(* KafkaClient._init_connect.                                               *)
InitConnect(S, n, dns) ==
    LET T == IF S.conns[n] # None THEN S
             ELSE [S EXCEPT !.conns[n] = NewConn(setup.broker # None /\ ~S.version)]
    IN  IF S.conns[n] = None /\ ~BrokerMetadata(S, n) THEN S
        ELSE IF T.conns[n].state = Disconnected THEN Connect(T, n, dns) ELSE T

CanConnect(S, n) == IF S.conns[n] = None THEN BrokerMetadata(S, n)
                    ELSE S.conns[n].state = Disconnected /\ ~S.conns[n].backoff

-----------------------------------------------------------------------------
(* Receiving.                                                               *)

(* KafkaProtocol._process_response takes the oldest request and compares    *)
(* its id with the response's.                                              *)
InSequence(c) == /\ Len(c.sock.in) <= Len(c.proto.ifr)
                 /\ \A i \in DOMAIN c.sock.in : c.sock.in[i].id = c.proto.ifr[i]

FutureOf(c, id) == SelectSeq(c.ifr, LAMBDA e : e.id = id)

PopRequests(c, ids) == SelectSeq(c.ifr, LAMBDA e : e.id \notin ids)

(* recv(): an end of file discards the responses read with it; otherwise    *)
(* every response goes to the future of its correlation id.                 *)
Recv(S, n) ==
    LET c == S.conns[n]
        in == c.sock.in
        ids == {in[i].id : i \in DOMAIN in}
        done == [i \in DOMAIN in |->
                    [fut |-> FutureOf(c, in[i].id)[1].fut, node |-> n,
                     of |-> in[i].fut, answer |-> in[i].answer]]
    IN  IF c.sock.eof \/ ~InSequence(c) \/ \E id \in ids : FutureOf(c, id) = << >>
        THEN CloseConn(S, n, FALSE)
        ELSE [S EXCEPT !.pending = @ \o done,
                       !.conns[n] = [c EXCEPT !.ifr = PopRequests(c, ids),
                                              !.proto.ifr = SubSeq(@, Len(in) + 1, Len(@)),
                                              !.sock.in = << >>, !.late = FALSE,
                                              !.throttled = (Last(in).answer = "throttle"),
                                              !.idle = FALSE],
                       !.lru = Append(SelectSeq(@, LAMBDA m : m # n), n)]

-----------------------------------------------------------------------------
(* The steps of poll().                                                     *)

(* least_loaded_node: an idle connection, else the usable node with the     *)
(* fewest requests; the nodes are shuffled.                                 *)
LeastLoaded(S) ==
    LET load(n) == IF S.conns[n] = None THEN 0 ELSE Len(S.conns[n].ifr)
        idle == {n \in Brokers(S) : CanSendRequest(S, n) /\ load(n) = 0}
        usable == {n \in Brokers(S) : S.conns[n] = None
                     \/ ~(BlackedOut(S.conns[n])
                          \/ (Connected(S.conns[n]) /\ S.conns[n].throttled))}
    IN  IF idle # {} THEN idle
        ELSE {n \in usable : \A m \in usable : load(n) <= load(m)}

SendMetadataRequest(S, n) ==
    [S EXCEPT !.conns[n] = QueueRequest(@, "meta"), !.sending = @ \cup {n},
              !.refreshing = TRUE]

(* _maybe_refresh_metadata: the set of its outcomes.                        *)
MaybeRefreshMetadata(S, dns) ==
    IF ~RefreshDue(S) \/ S.refreshing \/ LeastLoaded(S) = {} THEN {S}
    ELSE {CASE CanSendRequest(S, n) -> SendMetadataRequest(S, n)
            [] S.connecting # {} -> S
            [] CanConnect(S, n) ->
                 LET T == InitConnect([S EXCEPT !.connecting = @ \cup {n}], n, dns)
                 IN  IF InState(T, n, {Disconnected})
                     THEN [T EXCEPT !.connecting = @ \ {n}] ELSE T
            [] OTHER -> S : n \in LeastLoaded(S)}

(* The loop over _connecting: no progress takes the node off the list.      *)
CompleteConnections(S, dns) ==
    FoldSet(LAMBDA n, T :
               LET U == InitConnect(T, n, dns)
               IN  IF U.conns[n] = None \/ InState(U, n, {Disconnected})
                   THEN [U EXCEPT !.connecting = @ \ {n}] ELSE U,
            S, S.connecting)

(* _register_send_sockets.                                                  *)
RegisterSendSockets(S) ==
    [S EXCEPT !.sending = {},
              !.conns = [n \in AllNodes |->
                 IF n \in S.sending /\ @[n] # None /\ @[n].state # Disconnected
                 THEN [@[n] EXCEPT !.events = @ \cup {"W"}] ELSE @[n]]]

Readable(c) == "R" \in c.events /\ (c.sock.in # << >> \/ c.sock.eof)
Writable(c) == /\ "W" \in c.events
               /\ c.state \in {"connecting", "handshake"} => c.sock.os # "wait"
Ready(S) == {n \in AllNodes : S.conns[n] # None /\ (Readable(S.conns[n]) \/ Writable(S.conns[n]))}

(* The threads running the blocking SASL exchange of connection n.          *)
InExchange(n) == \E u \in Threads : thread[u].pc = "sasl_recv" /\ thread[u].node = n

(* What select() reported for one connection.                               *)
HandleEvent(S, n, partial) ==
    LET c == S.conns[n]
        W == IF ~Writable(c) THEN S
             ELSE IF Connecting(c) THEN Connect(S, n, 0)
             ELSE [S EXCEPT !.conns[n] = SendPendingRequests(c, partial)]
        d == W.conns[n]
    IN  CASE ~Readable(c) \/ d = None -> W
          [] d.state = Disconnected -> W
          [] d.ifr = << >> \/ InExchange(n) -> CloseConn(W, n, FALSE)
          [] OTHER -> Recv(W, n)

CloseTimedOut(S) ==
    FoldSet(LAMBDA n, T : IF T.conns[n] # None /\ T.conns[n].late
                          THEN CloseConn(T, n, FALSE) ELSE T, S, AllNodes)

(* _maybe_close_oldest_connection.                                          *)
CloseOldest(S) ==
    IF S.lru # << >> /\ S.conns[Head(S.lru)].idle THEN CloseConn(S, Head(S.lru), TRUE) ELSE S

(* _clear_wake_fd, when the wake-up socket was readable.                    *)
ClearWakeFd(S) == [S EXCEPT !.waking = FALSE, !.wake_r = FALSE]

-----------------------------------------------------------------------------
(* The threads.  pc says where a thread is in send() or poll(), back where  *)
(* it goes when poll() returns, node the connection it works on.            *)

At(t, pc) == t \in setup.threads /\ thread[t].pc = pc
(* node is forgotten on the way out, so that equal states look equal.       *)
Goto(t, pc) == thread' = [thread EXCEPT ![t].pc = pc,
                             ![t].node = IF pc \in {"idle", "poll"} /\ thread[t].back = "idle"
                                         THEN None ELSE @]
Spend == budget > 0 /\ budget' = budget - 1
Free(t) == lock \in {None, t}
Local(t) == UNCHANGED << setup, lock, budget >>
InFuture(t) == client.fut[t] \in {"pending", "update"}
Usable == client.version /\ ~client.closed

(* is_ready() with metadata_priority, as the brokers' connections are used; *)
(* the coordinators have connections of their own.                          *)
IsReady(S, n) == CanSendRequest(S, n) /\ ~S.refreshing /\ ~RefreshDue(S)

(* The caller asks ready(): that may queue a connection and wake the poll.  *)
Request(t, n) ==
    /\ At(t, "idle") /\ Usable
    /\ IF CanConnect(client, n)
       THEN /\ client' = [client EXCEPT !.connecting = @ \cup {n}]
            /\ Goto(t, "wake")
       ELSE /\ UNCHANGED client
            /\ IF IsReady(client, n)
               THEN thread' = [thread EXCEPT ![t].node = n, ![t].pc = "send"]
               ELSE Goto(t, IF t \in setup.pollers THEN "poll" ELSE "idle")
    /\ Local(t)

(* send(): the request and its future enter the connection, under its lock. *)
Send(t) ==
    LET n == thread[t].node IN
    /\ At(t, "send")
    /\ IF CanSendRequest(client, n)
       THEN /\ client' = [client EXCEPT !.conns[n] = QueueRequest(@, t), !.fut[t] = "pending"]
            /\ Goto(t, "queued")
       ELSE /\ client' = [client EXCEPT !.fut[t] = "failed",
                             !.connecting = IF CanConnect(client, n) THEN @ \cup {n} ELSE @]
            /\ Goto(t, IF CanConnect(client, n) THEN "wake" ELSE "idle")
    /\ Local(t)

\* Mutant: the request is queued without waking the thread in poll().
QueuedUnnoticed(t) ==
    /\ At(t, "queued")
    /\ client' = [client EXCEPT !.sending = @ \cup {thread[t].node}]
    /\ Goto(t, IF t \in setup.pollers THEN "poll" ELSE "await")
    /\ Local(t)

Queued(t) ==
    /\ At(t, "queued")
    /\ client' = [client EXCEPT !.sending = @ \cup {thread[t].node}]
    /\ Goto(t, "wake")
    /\ Local(t)

(* request_update() by a thread that then waits for its future.             *)
Update(t) ==
    /\ At(t, "idle") /\ Usable
    /\ client' = [RequestUpdate(client) EXCEPT !.fut[t] = "update"]
    /\ Goto(t, "wake")
    /\ Spend /\ UNCHANGED << setup, lock >>

(* wakeup(): the flag is read without the lock ...                          *)
Wake(t) ==
    /\ At(t, "wake")
    /\ Goto(t, IF ~client.closed /\ ~client.waking THEN "waking"
               ELSE IF t \in setup.pollers THEN "poll" ELSE "await")
    /\ UNCHANGED client /\ Local(t)

(* ... and the byte is written, and the flag set, with it.                  *)
Waking(t) ==
    /\ At(t, "waking")
    /\ client' = IF client.closed THEN client
                 ELSE [client EXCEPT !.wake_r = TRUE, !.waking = TRUE]
    /\ Goto(t, IF t \in setup.pollers THEN "poll" ELSE "await")
    /\ Local(t)

(* A thread that leaves polling to others waits for its future.             *)
Await(t) ==
    /\ At(t, "await")
    /\ ~InFuture(t)
    /\ Goto(t, "idle")
    /\ UNCHANGED client /\ Local(t)

(* An application or a sender thread calls poll() without a future.         *)
StartPoll(t) ==
    /\ At(t, "idle") /\ Usable
    /\ t \in setup.pollers
    /\ Goto(t, "poll")
    /\ UNCHANGED client /\ Local(t)

(* Addresses left after the first, or None when the lookup fails.           *)
DnsAnswers == {0, 1} \cup (IF budget > 0 THEN {None} ELSE {})

(* The first part of a poll: connect, refresh, register, up to select().    *)
BeginPoll(t) ==
    /\ At(t, "poll") /\ Free(t)
    /\ IF client.closed
       THEN Goto(t, thread[t].back) /\ UNCHANGED << client, lock, budget >>
       ELSE /\ \E dns \in DnsAnswers :
                 /\ \E S \in MaybeRefreshMetadata(CompleteConnections(client, dns), dns) :
                       client' = RegisterSendSockets(S)
                 /\ budget' = IF dns = 0 THEN budget ELSE budget - 1
                 /\ dns = 1 => budget > 0
            /\ lock' = t
            /\ Goto(t, "select")
    /\ UNCHANGED setup

(* select() returns with what is ready, or after the timeout; the second    *)
(* part of the poll handles it, closes what timed out and frees the lock.   *)
Select(t) ==
    /\ At(t, "select")
    /\ \E partial \in (IF budget > 0 THEN BOOLEAN ELSE {FALSE}) :
          LET woken == IF client.wake_r THEN ClearWakeFd(client) ELSE client
              handled == FoldSet(LAMBDA n, T : IF T.conns[n] = None THEN T
                                               ELSE HandleEvent(T, n, partial),
                                 woken, Ready(client))
          IN  /\ client' = CloseOldest(CloseTimedOut(handled))
              /\ budget' = IF partial THEN budget - 1 ELSE budget
    /\ lock' = IF client.version THEN None ELSE t
    /\ Goto(t, "fire")
    /\ UNCHANGED setup

(* _handle_api_versions_response and _handle_check_version_response, then   *)
(* connect().                                                               *)
HandleVersions(S, e) ==
    LET c == S.conns[e.node] IN
    CASE c = None -> S
      [] e.answer = "unsupported" ->
           [S EXCEPT !.conns[e.node] = [c EXCEPT !.idx = 0, !.probe = None,
                                                 !.state = "api_send", !.events = {"W"}]]
      [] OTHER -> Connect([S EXCEPT !.conns[e.node] =
                     [c EXCEPT !.known = TRUE, !.probe = IF @ = None THEN None ELSE "ok"]],
                     e.node, 0)

(* The callbacks of a completed request.                                    *)
Completed(S, e) ==
    CASE e.fut \in Threads -> [S EXCEPT !.fut[e.fut] = IF @ # "pending" THEN "twice"
                                                       ELSE IF e.of = e.fut THEN "ok" ELSE "wrong"]
      [] e.fut = "meta" -> IF e.answer = "error" THEN FailedUpdate(S) ELSE UpdateMetadata(S)
      [] e.fut = "versions" -> HandleVersions(S, e)
      [] e.fut = "sasl" /\ e.answer = "error" -> CloseConn(S, e.node, FALSE)
      [] OTHER -> S

(* _fire_pending_completed_requests, one response at a time, without the    *)
(* lock; a handler that changes the state of a connection takes it.  After  *)
(* the last one poll() returns, unless its future is still open.            *)
Fire(t) ==
    /\ At(t, "fire")
    /\ IF client.pending = << >>
       THEN /\ Goto(t, IF InFuture(t) THEN "poll" ELSE thread[t].back)
            /\ UNCHANGED client
       ELSE LET e == Head(client.pending) IN
            /\ e.fut \in {"versions", "sasl"} => Free(t)
            /\ client' = Completed([client EXCEPT !.pending = Tail(@)], e)
            /\ thread' = IF e.fut = "sasl" /\ e.answer # "error"
                         THEN [thread EXCEPT ![t].pc = "sasl", ![t].node = e.node] ELSE thread
    /\ Local(t)

(* _sasl_authenticate, called by the handler: the token is written to the   *)
(* blocking socket ...                                                      *)
SaslSend(t) ==
    LET n == thread[t].node IN
    /\ At(t, "sasl")
    /\ IF CanSendRecv(client.conns[n])
       THEN /\ client' = [client EXCEPT !.conns[n] = SendBlocking(QueueRequest(@, "token"))]
            /\ Goto(t, "sasl_recv")
       ELSE UNCHANGED client /\ Goto(t, "fire")
    /\ Local(t)

(* ... and the answer read from it, until the socket's timeout.             *)
SaslRecv(t) ==
    LET n == thread[t].node
        c == client.conns[n]
    IN  /\ At(t, "sasl_recv") /\ Free(t)
        /\ \/ /\ ~CanSendRecv(c)
              /\ UNCHANGED client
           \/ /\ CanSendRecv(c)
              /\ c.sock.eof \/ c.late \/ (c.sock.in # << >> /\ Head(c.sock.in).answer = "error")
              /\ client' = CloseConn(client, n, FALSE)
           \/ /\ CanSendRecv(c) /\ ~c.sock.eof
              /\ c.sock.in # << >> /\ Head(c.sock.in).answer # "error"
              /\ client' = Connect([client EXCEPT !.conns[n] =
                                      [c EXCEPT !.ifr = << >>, !.proto.ifr = << >>,
                                                !.sock.in = << >>, !.auth = "ok", !.late = FALSE]],
                                   n, 0)
        /\ Goto(t, "fire")
        /\ Local(t)

(* check_version() in the constructor, under the lock: a node is tried      *)
(* until its version is known.                                              *)
CheckVersion(t) ==
    /\ At(t, "check")
    /\ \E n \in LeastLoaded(client) :
          LET S == InitConnect(client, n, 0) IN
          /\ client' = S
          /\ thread' = [thread EXCEPT ![t].node = n, ![t].back = "checking",
                          ![t].pc = IF InState(S, n, {Disconnected}) THEN "check" ELSE "checking"]
    /\ lock' = t
    /\ UNCHANGED << setup, budget >>

Checking(t) ==
    LET c == client.conns[thread[t].node] IN
    /\ At(t, "checking")
    /\ IF Connecting(c) THEN Goto(t, "poll") /\ UNCHANGED << client, lock >>
       ELSE IF c.known
       THEN /\ client' = [client EXCEPT !.version = TRUE]
            /\ thread' = [thread EXCEPT ![t].pc = "idle", ![t].back = "idle"]
            /\ lock' = None
       ELSE Goto(t, "check") /\ UNCHANGED << client, lock >>
    /\ UNCHANGED << setup, budget >>

(* NoBrokersAvailable: the constructor gives up.                            *)
CheckTimesOut(t) ==
    /\ At(t, "check")
    /\ Spend
    /\ Goto(t, "failed")
    /\ lock' = None
    /\ UNCHANGED << setup, client >>

(* close() of the whole client, by whichever thread owns it.                *)
CloseClient ==
    /\ Usable /\ lock = None
    /\ Spend
    /\ client' = FoldSet(LAMBDA n, T : CloseConn(T, n, TRUE),
                         [client EXCEPT !.closed = TRUE, !.wake_r = FALSE], AllNodes)
    /\ UNCHANGED << setup, thread, lock >>

-----------------------------------------------------------------------------
(* The sockets, the brokers and the clock (external).                       *)

Environment == UNCHANGED << setup, thread, lock >>
Conn(n) == client.conns[n]
Alive(n) == Conn(n) # None /\ Conn(n).state # Disconnected

(* The operating system finishes, or refuses, a TCP or TLS handshake.       *)
SocketConnects(n) ==
    /\ Alive(n) /\ Conn(n).state \in {"connecting", "handshake"} /\ Conn(n).sock.os = "wait"
    /\ \/ client' = [client EXCEPT !.conns[n].sock.os = "ok"] /\ UNCHANGED budget
       \/ client' = [client EXCEPT !.conns[n].sock.os = "err"] /\ Spend
    /\ Environment

(* How a broker of the given age answers a version probe.                   *)
ProbeAnswer(c) ==
    CASE setup.broker = "mid" /\ c.check = None /\ c.idx > 0 -> "unsupported"
      [] setup.broker = "old" /\ c.check \in {None, 0} -> "eof"
      [] OTHER -> "ok"

(* A broker answers the oldest request of a connection.                     *)
BrokerAnswers(n) ==
    /\ Alive(n) /\ Conn(n).sock.out # << >> /\ ~Conn(n).sock.silent /\ ~Conn(n).sock.eof
    /\ LET e == Head(Conn(n).sock.out)
           reply(answer) == [client EXCEPT
                !.conns[n].sock.out = Tail(@),
                !.conns[n].sock.in = Append(@, [id |-> e.id, fut |-> e.fut, answer |-> answer])]
       IN  \/ /\ e.fut = "versions" /\ ProbeAnswer(Conn(n)) = "eof"
              /\ client' = [client EXCEPT !.conns[n].sock.eof = TRUE] /\ UNCHANGED budget
           \/ /\ client' = reply(IF e.fut = "versions" THEN ProbeAnswer(Conn(n)) ELSE "ok")
              /\ e.fut = "versions" => ProbeAnswer(Conn(n)) # "eof"
              /\ UNCHANGED budget
           \/ e.fut \in {"meta", "sasl", "token"} /\ client' = reply("error") /\ Spend
           \/ e.fut \in Threads /\ client' = reply("throttle") /\ Spend
    /\ Environment

(* A broker closes a connection, or stops answering on it.                  *)
BrokerFails(n) ==
    /\ Alive(n) /\ Conn(n).state \notin {"connecting", "handshake"}
    /\ ~Conn(n).sock.eof /\ ~Conn(n).sock.silent
    /\ \/ client' = [client EXCEPT !.conns[n].sock.eof = TRUE]
       \/ client' = [client EXCEPT !.conns[n].sock.silent = TRUE]
    /\ Spend /\ Environment

(* A request that was never written and that no event will write.           *)
Unwritten(n) ==
    /\ Alive(n) /\ Conn(n).state = "connected"
    /\ Conn(n).proto.out # << >> \/ Conn(n).buffer # << >>
    /\ "W" \notin Conn(n).events /\ n \notin client.sending
    /\ ~ \E t \in Threads : thread[t].pc = "queued" /\ thread[t].node = n

(* The timeout of the oldest request of a connection passes: for one that   *)
(* will not be answered it must, for the others it may.                     *)
RequestTimesOut(n) ==
    /\ Alive(n) /\ Conn(n).ifr # << >> /\ ~Conn(n).late
    /\ Conn(n).sock.silent \/ Unwritten(n)
    /\ client' = [client EXCEPT !.conns[n].late = TRUE]
    /\ UNCHANGED budget /\ Environment

AnswerIsLate(n) ==
    /\ Alive(n) /\ Conn(n).ifr # << >> /\ ~Conn(n).late
    /\ client' = [client EXCEPT !.conns[n].late = TRUE]
    /\ Spend /\ Environment

(* Not within the constructor, which lasts api_version_auto_timeout_ms.     *)
IdleExpires ==
    /\ Usable /\ client.lru # << >> /\ ~Conn(Head(client.lru)).idle
    /\ client' = [client EXCEPT !.conns[Head(client.lru)].idle = TRUE]
    /\ Spend /\ Environment

BackoffEnds(n) ==
    /\ Conn(n) # None /\ Conn(n).backoff
    /\ client' = [client EXCEPT !.conns[n].backoff = FALSE]
    /\ UNCHANGED budget /\ Environment

ThrottleEnds(n) ==
    /\ Conn(n) # None /\ Conn(n).throttled
    /\ client' = [client EXCEPT !.conns[n].throttled = FALSE]
    /\ UNCHANGED budget /\ Environment

RetryBackoffEnds ==
    /\ client.retry_backoff
    /\ client' = [client EXCEPT !.retry_backoff = FALSE]
    /\ UNCHANGED budget /\ Environment

MetadataAges ==
    /\ ~client.aged /\ client.brokers # {}
    /\ client' = [client EXCEPT !.aged = TRUE]
    /\ Spend /\ Environment

-----------------------------------------------------------------------------
Init ==
    /\ setup \in Setups
    /\ client = [conns |-> [n \in AllNodes |-> None], connecting |-> {}, sending |-> {},
                 waking |-> FALSE, wake_r |-> FALSE, pending |-> << >>, brokers |-> {},
                 need_update |-> TRUE, aged |-> FALSE, retry_backoff |-> FALSE,
                 refreshing |-> FALSE, future |-> FALSE, lru |-> << >>, closed |-> FALSE,
                 version |-> (setup.broker = None), fut |-> [t \in Threads |-> "none"]]
    /\ thread = [t \in Threads |-> [pc |-> IF setup.broker = None THEN "idle" ELSE "check",
                                    back |-> "idle", node |-> None]]
    /\ lock = None
    /\ budget = MaxEvents

Step(t) == \/ Send(t) \/ Queued(t) \/ Wake(t) \/ Waking(t) \/ Await(t) \/ BeginPoll(t)
           \/ Select(t) \/ Fire(t) \/ SaslSend(t) \/ SaslRecv(t) \/ CheckVersion(t) \/ Checking(t)

Call(t) == \E n \in Nodes : Request(t, n)

Network(n) == SocketConnects(n) \/ BrokerAnswers(n)
Clock(n) == RequestTimesOut(n) \/ BackoffEnds(n) \/ ThrottleEnds(n)

Faults == \/ \E n \in AllNodes : BrokerFails(n) \/ AnswerIsLate(n)
          \/ IdleExpires \/ MetadataAges \/ CloseClient
          \/ \E t \in Threads : CheckTimesOut(t)

Next == \/ \E t \in Threads : Step(t) \/ Call(t) \/ StartPoll(t) \/ Update(t)
        \/ \E n \in AllNodes : Network(n) \/ Clock(n)
        \/ RetryBackoffEnds \/ Faults

Spec == Init /\ [][Next]_vars

(* Strong fairness of Step(t), written with the states in which it is not   *)
(* enabled and the change it makes.                                         *)
Blocked(t) ==
    CASE thread[t].pc = "await" -> InFuture(t)
      [] thread[t].pc = "poll" -> ~Free(t)
      [] thread[t].pc = "fire" -> /\ client.pending # << >> /\ ~Free(t)
                                  /\ Head(client.pending).fut \in {"versions", "sasl"}
      [] thread[t].pc = "sasl_recv" ->
            LET c == client.conns[thread[t].node]
            IN  ~Free(t) \/ (CanSendRecv(c) /\ ~c.sock.eof /\ ~c.late /\ c.sock.in = << >>)
      [] thread[t].pc = "check" -> LeastLoaded(client) = {}
      [] OTHER -> thread[t].pc \in {"idle", "failed"}

Moves(t) == thread'[t] # thread[t] \/ Len(client'.pending) < Len(client.pending)

ThreadFair(t) == <>[]Blocked(t) \/ []<><<Moves(t)>>_vars

(* A thread inside the client runs on, and gets the lock some time; an      *)
(* application keeps sending requests; sockets connect, brokers answer      *)
(* unless they have failed, and back-offs and timeouts end.                 *)
Fairness ==
    /\ \A t \in Threads : ThreadFair(t) /\ WF_vars(Call(t) \/ StartPoll(t))
    /\ SF_vars(\E t \in Threads : Call(t))
    /\ \A n \in AllNodes : WF_vars(Network(n)) /\ WF_vars(Clock(n))
    /\ WF_vars(RetryBackoffEnds)

FairSpec == Spec /\ Fairness

-----------------------------------------------------------------------------
TypeOKClient ==
    /\ setup \in Setups
    /\ client.connecting \subseteq AllNodes /\ client.sending \subseteq AllNodes
    /\ client.fut \in [Threads -> {"none", "pending", "update", "ok", "failed"}]
    /\ \A n \in AllNodes : Conn(n) # None =>
          /\ Conn(n).state \in {Disconnected, "connected"} \cup ConnectingStates
          /\ Conn(n).state = Disconnected => Conn(n).ifr = << >> /\ Conn(n).events = {}
          /\ Conn(n).check \in {None} \cup 0 .. VersionChecks
          /\ Len(Conn(n).ifr) <= setup.max_in_flight
    /\ lock \in Threads \cup {None}
    /\ budget \in 0 .. MaxEvents

(* The entries that will complete a future, over all connections and the    *)
(* queue of completed requests.                                             *)
Holders(fut) ==
    LET held(q) == Len(SelectSeq(q, LAMBDA e : e.fut = fut))
        of(n) == IF Conn(n) = None THEN 0 ELSE held(Conn(n).ifr)
    IN  held(client.pending) + FoldSet(LAMBDA n, k : k + of(n), 0, AllNodes)

(* A future that send() returned is completed exactly once: as long as it   *)
(* is open, one entry of one table will complete it (in_flight_requests     *)
(* until the response is read or the connection closes, then                *)
(* _pending_completion), and no entry is left when it is done.  The refresh *)
(* of the metadata is marked in progress just as long as its request is     *)
(* held.  `assert not self.is_done' in Future.success and failure is        *)
(* outside the future's lock and relies on this.  Whoever waits for         *)
(* request_update() is not forgotten either: its future is the cluster's,   *)
(* and as long as that is open an update is due.                            *)
FutureOwned ==
    /\ \A t \in Threads : Holders(t) = IF client.fut[t] = "pending" THEN 1 ELSE 0
    /\ Holders("meta") = IF client.refreshing THEN 1 ELSE 0
    /\ \A t \in Threads : client.fut[t] = "update" => client.future
    /\ client.future => client.need_update

(* A thread blocked in select() is woken for work it has not seen: if a     *)
(* connection waits in _sending, or a node in _connecting, and whoever put  *)
(* it there has gone through wakeup(), the wake-up socket is readable.      *)
(* wakeup() tests _waking without the lock.                                 *)
NoLostWakeup ==
    \A t \in Threads :
        /\ At(t, "select")
        /\ \A u \in Threads : thread[u].pc \notin {"wake", "waking"}
        /\ \/ client.sending # {}
           \/ \E n \in client.connecting : Conn(n) = None \/ Conn(n).state = Disconnected
        => client.wake_r

(* What send_pending_requests_v2 says of itself: "If all requests have been *)
(* sent, return True".  EVENT_WRITE is dropped on that answer, so a request *)
(* in the connection must be on its way to be written.                      *)
WriteTracked == \A n \in AllNodes : ~Unwritten(n)

(* The future of a request or of a metadata update is resolved in the end.  *)
Resolved ==
    \A t \in Threads : InFuture(t) ~> (~InFuture(t) \/ client.closed)

(* However the faults fall, the client recovers: every future is resolved,  *)
(* and requests go on being answered, unless it is closed or its            *)
(* constructor gave up.                                                     *)
Served ==
    /\ Resolved
    /\ \/ []<>(\E t \in Threads : client.fut[t] = "ok")
       \/ <>(client.closed \/ \E t \in Threads : thread[t].pc = "failed")
=============================================================================
