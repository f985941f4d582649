---------------------------- MODULE FetchSession ----------------------------
(***************************************************************************)
(* FetchSessionHandler and FetchMetadata (consumer/fetcher.py): the         *)
(* incremental fetch session a consumer keeps with one broker (KIP-227).   *)
(* The client sends only what changed since its last request, so each side *)
(* must believe the same about the partitions and offsets of the session.  *)
(*                                                                         *)
(* The broker is external: its side is what the handler relies on.  It     *)
(* checks the epoch of an incremental request, applies the changes, and    *)
(* answers with any of the session's partitions.  It may evict a session,  *)
(* refuse to create one, lose all of them in a restart, and process a      *)
(* request whose connection the client has already given up.               *)
(***************************************************************************)
EXTENDS Integers, FiniteSets, Functions

CONSTANTS
    TPs,            \* partitions led by the node
    Offsets,        \* fetch positions
    MaxEpoch,       \* FetchMetadata.MAX_EPOCH, 2^31 - 1 in the code
    MaxSessions,    \* bound: number of sessions the broker creates
    Throttled,      \* the requests a quota may throttle: a subset of
                    \* {"full", "incremental"}
    MaxFaults       \* bound: number of faults

ASSUME EpochAssumption == MaxEpoch \in Nat \ {0}

VARIABLES
    next_metadata,      \* FetchSessionHandler.next_metadata
    session_partitions, \* FetchSessionHandler.session_partitions
    fetch_offsets,      \* what the callback of the request in flight gets
    pending,            \* the node is in _nodes_with_pending_fetch_requests
    requests,           \* requests sent: the current one and abandoned ones
    response,           \* the response in transit, if any
    sessions,           \* the broker's sessions, by id
    drawn,              \* number of session ids the broker has given out
    faults

client == <<next_metadata, session_partitions, fetch_offsets, pending>>
vars == <<client, requests, response, sessions, drawn, faults>>

INVALID_SESSION_ID == 0
THROTTLED_SESSION_ID == -1
INITIAL_EPOCH == 0
FINAL_EPOCH == -1

Metadata(id, epoch) == [session_id |-> id, epoch |-> epoch]
INITIAL == Metadata(INVALID_SESSION_ID, INITIAL_EPOCH)

is_full(m) == m.epoch \in {INITIAL_EPOCH, FINAL_EPOCH}

next_epoch(prev) ==
    IF prev < 0 THEN FINAL_EPOCH ELSE IF prev = MaxEpoch THEN 1 ELSE prev + 1

\* Mutant: after an error the session is continued where it was.
next_close_existingContinues(m) == m

next_close_existing(m) == Metadata(m.session_id, INITIAL_EPOCH)

new_incremental(id) == Metadata(id, next_epoch(INITIAL_EPOCH))

next_incremental(m) == Metadata(m.session_id, next_epoch(m.epoch))

NoResponse == [error |-> "none_in_transit"]

\* The positions one request may ask for: those of the fetchable partitions.
Positions == UNION {[S -> Offsets] : S \in SUBSET TPs \ {{}}}

------------------------------------------------------------------------------
(* The client.                                                             *)

\* Mutant: a partition whose position moved is not sent again.
ChangedAdded(prev, next) == DOMAIN next \ DOMAIN prev

\* build_next: added | altered
Changed(prev, next) ==
    {tp \in DOMAIN next : tp \in DOMAIN prev => next[tp] # prev[tp]}

\* build_next and the rest of _create_fetch_requests for the node, and the
\* send.  The handler updates its partitions before it knows the outcome.
CreateFetchRequest(next) ==
    /\ ~pending
    /\ LET full == is_full(next_metadata)
           sent == IF full THEN next
                   ELSE Restrict(next, Changed(session_partitions, next))
           gone == IF full THEN {} ELSE DOMAIN session_partitions \ DOMAIN next
       IN  requests' = requests \cup
              {[metadata |-> next_metadata, to_send |-> sent, to_forget |-> gone,
                current |-> TRUE]}
    /\ session_partitions' = next
    /\ fetch_offsets' = next
    /\ pending' = TRUE
    /\ UNCHANGED <<next_metadata, response, sessions, drawn, faults>>

AfterError(error) ==
    IF error = "FetchSessionIdNotFound" THEN INITIAL
    ELSE next_close_existing(next_metadata)

\* handle_response: the metadata of the next request.
AfterResponse(r) ==
    LET tps == DOMAIN r.data
    IN  CASE r.error # "NoError" -> AfterError(r.error)
          [] is_full(next_metadata) /\ tps # DOMAIN session_partitions -> INITIAL
          [] ~is_full(next_metadata) /\ ~(tps \subseteq DOMAIN session_partitions) ->
                next_close_existing(next_metadata)
          [] OTHER ->
                IF r.session_id = INVALID_SESSION_ID THEN INITIAL
                ELSE IF r.session_id = THROTTLED_SESSION_ID THEN next_metadata
                ELSE IF is_full(next_metadata) THEN new_incremental(r.session_id)
                ELSE next_incremental(next_metadata)

\* handle_response returns True, so that the records are used.
Accepted(r) ==
    /\ r.error = "NoError"
    /\ IF is_full(next_metadata) THEN DOMAIN r.data = DOMAIN session_partitions
       ELSE DOMAIN r.data \subseteq DOMAIN session_partitions

\* _handle_fetch_response, and the removal from
\* _nodes_with_pending_fetch_requests.
HandleFetchResponse ==
    /\ response # NoResponse
    /\ next_metadata' = AfterResponse(response)
    /\ pending' = FALSE
    /\ response' = NoResponse
    /\ UNCHANGED <<session_partitions, fetch_offsets, requests, sessions, drawn, faults>>

\* _handle_fetch_error: the connection failed or the request timed out,
\* before or after the broker processed it.
HandleFetchError ==
    /\ pending
    /\ faults < MaxFaults
    /\ faults' = faults + 1
    /\ next_metadata' = next_close_existing(next_metadata)
    /\ pending' = FALSE
    /\ response' = NoResponse
    /\ requests' = {[q EXCEPT !.current = FALSE] : q \in requests}
    /\ UNCHANGED <<session_partitions, fetch_offsets, sessions, drawn>>

------------------------------------------------------------------------------
(* The broker.                                                             *)

Answer(q, r) ==
    /\ requests' = requests \ {q}
    /\ response' = IF q.current THEN r ELSE response

Reply(error, id, data) == [error |-> error, session_id |-> id, data |-> data]

Empty == [tp \in {} |-> 0]

\* The session after an incremental request; an answer holds any of it.
Applied(s, q) ==
    [tp \in (DOMAIN s \ q.to_forget) \cup DOMAIN q.to_send |->
        IF tp \in DOMAIN q.to_send THEN q.to_send[tp] ELSE s[tp]]

\* A full request closes the session it names and opens one, unless the
\* cache has no room for it.  Ids are drawn at random: none is drawn twice.
BrokerFull(q) ==
    /\ is_full(q.metadata)
    /\ LET left == [id \in DOMAIN sessions \ {q.metadata.session_id} |-> sessions[id]]
       IN  \/ /\ sessions' = left
              /\ Answer(q, Reply("NoError", INVALID_SESSION_ID, q.to_send))
              /\ UNCHANGED drawn
           \/ LET id == drawn + 1
              IN  /\ id <= MaxSessions
                  /\ drawn' = id
                  /\ sessions' = [i \in DOMAIN left \cup {id} |->
                        IF i = id THEN [epoch |-> 1, partitions |-> q.to_send] ELSE left[i]]
                  /\ Answer(q, Reply("NoError", id, q.to_send))
    /\ UNCHANGED <<client, faults>>

BrokerIncremental(q) ==
    /\ ~is_full(q.metadata)
    /\ LET id == q.metadata.session_id
       IN  \/ /\ id \notin DOMAIN sessions
              /\ Answer(q, Reply("FetchSessionIdNotFound", INVALID_SESSION_ID, Empty))
              /\ UNCHANGED sessions
           \/ /\ id \in DOMAIN sessions
              /\ sessions[id].epoch # q.metadata.epoch
              /\ Answer(q, Reply("InvalidFetchSessionEpoch", INVALID_SESSION_ID, Empty))
              /\ UNCHANGED sessions
           \/ /\ id \in DOMAIN sessions
              /\ sessions[id].epoch = q.metadata.epoch
              /\ LET partitions == Applied(sessions[id].partitions, q)
                 IN  /\ sessions' = [sessions EXCEPT ![id] =
                            [epoch |-> (q.metadata.epoch % MaxEpoch) + 1,
                             partitions |-> partitions]]
                     /\ \E S \in SUBSET DOMAIN partitions :
                          Answer(q, Reply("NoError", id, Restrict(partitions, S)))
    /\ UNCHANGED <<client, drawn, faults>>

\* A quota violation: an empty answer, and the request is not processed.
BrokerThrottles(q) ==
    /\ (IF is_full(q.metadata) THEN "full" ELSE "incremental") \in Throttled
    /\ faults < MaxFaults
    /\ faults' = faults + 1
    /\ Answer(q, Reply("NoError", THROTTLED_SESSION_ID, Empty))
    /\ UNCHANGED <<client, sessions, drawn>>

\* The broker evicts sessions, or restarts.
SessionsLost ==
    /\ faults < MaxFaults
    /\ faults' = faults + 1
    /\ \E kept \in SUBSET DOMAIN sessions \ {DOMAIN sessions} :
        sessions' = Restrict(sessions, kept)
    /\ UNCHANGED <<client, requests, response, drawn>>

------------------------------------------------------------------------------
Init ==
    /\ next_metadata = INITIAL
    /\ session_partitions = Empty
    /\ fetch_offsets = Empty
    /\ pending = FALSE
    /\ requests = {}
    /\ response = NoResponse
    /\ sessions = [id \in {} |-> 0]
    /\ drawn = 0
    /\ faults = 0

Build == \E next \in Positions : CreateFetchRequest(next)

Broker == \E q \in requests : BrokerFull(q) \/ BrokerIncremental(q)

Next ==
    \/ Build
    \/ HandleFetchResponse
    \/ HandleFetchError
    \/ Broker
    \/ \E q \in requests : BrokerThrottles(q)
    \/ SessionsLost

Spec == Init /\ [][Next]_vars

\* poll() builds requests and handles responses for as long as the consumer
\* is used; a broker that is up answers.
FairSpec ==
    /\ Spec
    /\ WF_vars(Build)
    /\ WF_vars(HandleFetchResponse)
    /\ WF_vars(Broker)

------------------------------------------------------------------------------
(* Properties.                                                             *)

\* The handler asks for an epoch in the range the protocol allows and never
\* continues a session without an id; one request at a time is current.
TypeOKSession ==
    /\ next_metadata.epoch \in 0 .. MaxEpoch
    /\ next_metadata.session_id \in 0 .. drawn
    /\ next_metadata.session_id = INVALID_SESSION_ID => is_full(next_metadata)
    /\ session_partitions \in Positions \cup {Empty}
    /\ Cardinality({q \in requests : q.current}) <= (IF pending THEN 1 ELSE 0)
    /\ \A id \in DOMAIN sessions : sessions[id].epoch \in 1 .. MaxEpoch

\* Records are read from the offset the consumer believes it asked for: the
\* callback indexes fetch_offsets by the response's partitions and labels
\* the records with the offset it finds there, whatever the session of the
\* broker holds.
OffsetsAgree ==
    (response # NoResponse /\ Accepted(response)) =>
        \A tp \in DOMAIN response.data :
            tp \in DOMAIN fetch_offsets /\ response.data[tp] = fetch_offsets[tp]

\* No partition is forgotten: when the broker continues a session for the
\* client, it fetches all the partitions that the client believes it does.
NothingForgotten ==
    (/\ response # NoResponse
     /\ Accepted(response)
     /\ response.session_id \in DOMAIN sessions
     /\ ~is_full(next_metadata))
        => sessions[response.session_id].partitions = session_partitions

\* The handler recovers: a client that keeps fetching keeps getting
\* responses it accepts, whatever became of the session.
KeepsFetching == []<>(response # NoResponse /\ Accepted(response))
=============================================================================
