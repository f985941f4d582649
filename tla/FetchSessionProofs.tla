------------------------- MODULE FetchSessionProofs -------------------------
(***************************************************************************)
(* The two sides of a fetch session agree, for any partitions and offsets, *)
(* any length of the epoch, and any number of sessions and faults.         *)
(***************************************************************************)
EXTENDS FetchSession, TLAPS

\* The next request continues a session, whose id is Id.
Live == ~is_full(next_metadata)
Id == next_metadata.session_id

\* What next_metadata may be.
Metadatas == [session_id : 0 .. drawn, epoch : 0 .. MaxEpoch]

\* Session ids come from the broker, and the callback gets the positions that
\* the handler keeps.
Shape ==
    /\ drawn \in Nat /\ DOMAIN sessions \subseteq 1 .. drawn
    /\ next_metadata \in Metadatas
    /\ fetch_offsets = session_partitions
    /\ session_partitions = [tp \in DOMAIN session_partitions |-> session_partitions[tp]]
    /\ \A q \in requests :
        /\ q.metadata \in Metadatas /\ q.current \in BOOLEAN
        /\ DOMAIN q = {"metadata", "to_send", "to_forget", "current"}

\* At most one request is current; it carries what the handler has recorded.
Current ==
    /\ response # NoResponse => pending
    /\ \A q \in requests : q.current =>
        /\ pending /\ response = NoResponse
        /\ q.metadata = next_metadata
        /\ is_full(next_metadata) => q.to_send = session_partitions
    /\ \A q, r \in requests : q.current /\ r.current => q = r

\* What the broker holds for the session that the client continues.  A request
\* that the client has given up belongs to another session: after an error no
\* request continues the old one.
Agreed == Live =>
    /\ \A q \in requests : q.current \/ q.metadata.session_id # Id
    /\ Id \in DOMAIN sessions =>
        /\ \A q \in requests : q.current =>
               Applied(sessions[Id].partitions, q) = session_partitions
        /\ (\A q \in requests : ~q.current)
           /\ (response # NoResponse => response.error = "NoError")
               => sessions[Id].partitions = session_partitions

\* A new session that the broker has offered: no request uses its id, and it
\* holds what the client asked for.
Offered(id) ==
    /\ id \in 1 .. drawn
    /\ \A q \in requests : q.metadata.session_id # id
    /\ id \in DOMAIN sessions => sessions[id].partitions = session_partitions

\* What an answer without an error says.
Told ==
    response # NoResponse /\ response.error = "NoError" =>
        /\ \A tp \in DOMAIN response.data :
            tp \in DOMAIN session_partitions /\ response.data[tp] = session_partitions[tp]
        /\ IF Live THEN response.session_id = Id
           ELSE \/ response.session_id \in {INVALID_SESSION_ID, THROTTLED_SESSION_ID}
                \/ Offered(response.session_id)

\* The inductive invariant of the session.
SInv == Shape /\ Current /\ Agreed /\ Told

------------------------------------------------------------------------------
(* The operators.                                                          *)

\* next_epoch: a session that is continued stays incremental, past MAX_EPOCH.
LEMMA EpochStays == \A e \in 0 .. MaxEpoch : next_epoch(e) \in 1 .. MaxEpoch
  BY EpochAssumption DEF next_epoch

\* build_next: a broker that holds the previous partitions and applies what was
\* added, altered or forgotten then holds the next ones.
LEMMA ChangesSuffice ==
  ASSUME NEW s, NEW next, NEW q,
         next = [tp \in DOMAIN next |-> next[tp]],
         q.to_send = Restrict(next, Changed(s, next)),
         q.to_forget = DOMAIN s \ DOMAIN next
  PROVE  Applied(s, q) = next
<1>1. DOMAIN Applied(s, q) = DOMAIN next
  BY DEF Applied, Restrict, Changed
<1>2. ASSUME NEW tp \in DOMAIN next
      PROVE  Applied(s, q)[tp] = next[tp]
  BY DEF Applied, Restrict, Changed
<1>3. Applied(s, q) = [tp \in DOMAIN Applied(s, q) |-> Applied(s, q)[tp]]
  BY DEF Applied
<1> QED  BY <1>1, <1>2, <1>3

\* A request's positions form a function.
LEMMA PositionsAreFunctions ==
  ASSUME NEW next \in Positions
  PROVE  next = [tp \in DOMAIN next |-> next[tp]]
  BY DEF Positions

------------------------------------------------------------------------------
(* The steps of the client.                                                *)

LEMMA InitSInv == Init => SInv
  BY EpochAssumption
  DEF Init, SInv, Shape, Current, Agreed, Told, Metadatas, Live, INITIAL, Metadata,
      INVALID_SESSION_ID, INITIAL_EPOCH, Empty, is_full

LEMMA BuildSInv ==
  ASSUME SInv, NEW next \in Positions, CreateFetchRequest(next)
  PROVE  SInv'
<1> DEFINE full == is_full(next_metadata)
           sent == IF full THEN next ELSE Restrict(next, Changed(session_partitions, next))
           gone == IF full THEN {} ELSE DOMAIN session_partitions \ DOMAIN next
           new == [metadata |-> next_metadata, to_send |-> sent, to_forget |-> gone,
                   current |-> TRUE]
<1>1. /\ ~pending /\ pending'
      /\ requests' = requests \cup {new}
      /\ session_partitions' = next /\ fetch_offsets' = next
      /\ next_metadata' = next_metadata /\ response' = response
      /\ sessions' = sessions /\ drawn' = drawn
  BY DEF CreateFetchRequest
<1>2. /\ new.metadata = next_metadata /\ new.current = TRUE
      /\ new.to_send = sent /\ new.to_forget = gone
      /\ DOMAIN new = {"metadata", "to_send", "to_forget", "current"}
  OBVIOUS
<1>3. full => sent = next
  OBVIOUS
<1>4. Live => Applied(session_partitions, new) = next
  BY <1>2, ChangesSuffice, PositionsAreFunctions DEF Live
<1> HIDE DEF new, sent, gone
<1>5. response = NoResponse /\ \A q \in requests : q.current = FALSE
  BY <1>1 DEF SInv, Current, Shape
<1>6. Shape'
  <2>1. Metadatas' = Metadatas
    BY <1>1 DEF Metadatas
  <2>2. session_partitions' = [tp \in DOMAIN session_partitions' |-> session_partitions'[tp]]
    BY <1>1, PositionsAreFunctions
  <2>3. \A q \in requests' :
          /\ q.metadata \in Metadatas /\ q.current \in BOOLEAN
          /\ DOMAIN q = {"metadata", "to_send", "to_forget", "current"}
    BY <1>1, <1>2, Zenon DEF SInv, Shape
  <2> QED  BY <1>1, <2>1, <2>2, <2>3 DEF SInv, Shape
<1>7. Current'
  BY <1>1, <1>2, <1>3, <1>5 DEF SInv, Current, is_full
<1>8. Agreed'
  <2> SUFFICES ASSUME Live' PROVE Agreed'
    BY DEF Agreed
  <2>1. Live /\ Id' = Id
    BY <1>1 DEF Live, Id, is_full
  <2>2. \A q \in requests' : q.current \/ q.metadata.session_id # Id
    BY <1>1, <1>2, <2>1 DEF SInv, Agreed
  <2>3. Id \in DOMAIN sessions => sessions[Id].partitions = session_partitions
    BY <1>5, <2>1 DEF SInv, Agreed
  <2>4. Id \in DOMAIN sessions => \A q \in requests' : q.current =>
            Applied(sessions[Id].partitions, q) = next
    BY <1>1, <1>4, <1>5, <2>1, <2>3
  <2>5. new \in requests' /\ new.current
    BY <1>1, <1>2
  <2>6. Id' \in DOMAIN sessions' => \A q \in requests' : q.current =>
            Applied(sessions'[Id'].partitions, q) = session_partitions'
    BY <1>1, <2>1, <2>4
  <2> QED  BY <2>1, <2>2, <2>5, <2>6 DEF Agreed
<1>9. Told'
  BY <1>1, <1>5 DEF Told
<1> QED  BY <1>6, <1>7, <1>8, <1>9 DEF SInv

\* _handle_fetch_error: the next request opens a new session.
LEMMA ErrorSInv == SInv /\ HandleFetchError => SInv'
<1> SUFFICES ASSUME SInv, HandleFetchError PROVE SInv'
  OBVIOUS
<1>1. /\ next_metadata' = [session_id |-> next_metadata.session_id, epoch |-> 0]
      /\ response' = NoResponse
      /\ requests' = {[q EXCEPT !.current = FALSE] : q \in requests}
      /\ session_partitions' = session_partitions /\ fetch_offsets' = fetch_offsets
      /\ sessions' = sessions /\ drawn' = drawn
  BY DEF HandleFetchError, next_close_existing, Metadata, INITIAL_EPOCH
<1>2. \A q \in requests' :
        /\ q.metadata \in Metadatas /\ q.current = FALSE
        /\ DOMAIN q = {"metadata", "to_send", "to_forget", "current"}
  BY <1>1 DEF SInv, Shape
<1>3. Shape'
  <2>1. Metadatas' = Metadatas
    BY <1>1 DEF Metadatas
  <2>2. next_metadata' \in Metadatas
    BY <1>1, EpochAssumption DEF SInv, Shape, Metadatas
  <2>3. session_partitions' = [tp \in DOMAIN session_partitions' |-> session_partitions'[tp]]
    BY <1>1 DEF SInv, Shape
  <2> QED  BY <1>1, <1>2, <2>1, <2>2, <2>3, Zenon DEF SInv, Shape
<1>4. Current'
  BY <1>1, <1>2 DEF Current
<1>5. Agreed'
  BY <1>1 DEF Agreed, Live, is_full, INITIAL_EPOCH
<1>6. Told'
  BY <1>1 DEF Told
<1> QED  BY <1>3, <1>4, <1>5, <1>6 DEF SInv

\* _handle_fetch_response: a session is continued only when both sides agree.
LEMMA ResponseSInv == SInv /\ HandleFetchResponse => SInv'
<1> SUFFICES ASSUME SInv, HandleFetchResponse PROVE SInv'
  OBVIOUS
<1>1. /\ response # NoResponse /\ response' = NoResponse
      /\ next_metadata' = AfterResponse(response)
      /\ requests' = requests
      /\ session_partitions' = session_partitions /\ fetch_offsets' = fetch_offsets
      /\ sessions' = sessions /\ drawn' = drawn
  BY DEF HandleFetchResponse
<1>2. \A q \in requests : q.current = FALSE
  BY <1>1 DEF SInv, Current, Shape
<1>3. \/ next_metadata' \in Metadatas /\ next_metadata'.epoch = 0
      \/ /\ response.error = "NoError" /\ ~Live /\ Offered(response.session_id)
         /\ next_metadata' = new_incremental(response.session_id)
      \/ /\ response.error = "NoError" /\ Live
         /\ next_metadata' = next_incremental(next_metadata)
  <2>1. /\ INITIAL \in Metadatas /\ INITIAL.epoch = 0
        /\ next_close_existing(next_metadata) \in Metadatas
        /\ next_close_existing(next_metadata).epoch = 0
    BY EpochAssumption DEF SInv, Shape, INITIAL, next_close_existing, Metadata, Metadatas,
       INITIAL_EPOCH, INVALID_SESSION_ID
  <2>2. CASE response.error # "NoError"
    BY <1>1, <2>1, <2>2 DEF AfterResponse, AfterError
  <2>3. CASE response.error = "NoError" /\ ~Live
    <3>1. next_metadata \in Metadatas /\ next_metadata.epoch = 0
      BY <2>3 DEF SInv, Shape, Live, is_full, Metadatas, INITIAL_EPOCH, FINAL_EPOCH
    <3>2. \/ response.session_id \in {INVALID_SESSION_ID, THROTTLED_SESSION_ID}
          \/ Offered(response.session_id)
      BY <1>1, <2>3 DEF SInv, Told
    <3>3. \/ next_metadata' \in {INITIAL, next_metadata}
          \/ /\ response.session_id \notin {INVALID_SESSION_ID, THROTTLED_SESSION_ID}
             /\ next_metadata' = new_incremental(response.session_id)
      BY <1>1, <2>3 DEF AfterResponse, Live
    <3> QED  BY <2>1, <2>3, <3>1, <3>2, <3>3
  <2>4. CASE response.error = "NoError" /\ Live
    <3>1. response.session_id = Id /\ Id \in 0 .. drawn
      BY <1>1, <2>4 DEF SInv, Told, Shape, Metadatas, Id
    <3>2. response.session_id # THROTTLED_SESSION_ID
      BY <3>1 DEF THROTTLED_SESSION_ID
    <3>3. next_metadata' \in {INITIAL, next_close_existing(next_metadata),
                              next_incremental(next_metadata)}
      BY <1>1, <2>4, <3>2 DEF AfterResponse, Live
    <3> QED  BY <2>1, <2>4, <3>3
  <2> QED  BY <2>2, <2>3, <2>4
<1>4. next_metadata' \in Metadatas
  <2>1. ASSUME Offered(response.session_id)
        PROVE  new_incremental(response.session_id) \in Metadatas
    BY <2>1, EpochAssumption, EpochStays
    DEF Offered, new_incremental, Metadata, Metadatas, INITIAL_EPOCH, SInv, Shape
  <2>2. next_incremental(next_metadata) \in Metadatas
    BY EpochAssumption, EpochStays DEF next_incremental, Metadata, Metadatas, SInv, Shape
  <2> QED  BY <1>3, <2>1, <2>2
<1>5. Shape'
  BY <1>1, <1>4 DEF SInv, Shape, Metadatas
<1>6. Current'
  BY <1>1, <1>2 DEF Current
<1>7. Agreed'
  <2> SUFFICES ASSUME Live' PROVE Agreed'
    BY DEF Agreed
  <2>1. SUFFICES /\ \A q \in requests : q.metadata.session_id # Id'
                 /\ Id' \in DOMAIN sessions => sessions[Id'].partitions = session_partitions
    BY <1>1, <1>2 DEF Agreed, Id
  <2>2. CASE Offered(response.session_id)
             /\ next_metadata' = new_incremental(response.session_id)
    BY <2>2 DEF Offered, new_incremental, Metadata, Id
  <2>3. CASE /\ response.error = "NoError" /\ Live
             /\ next_metadata' = next_incremental(next_metadata)
    <3>1. Id' = Id
      BY <2>3 DEF next_incremental, Metadata, Id
    <3> QED  BY <1>2, <2>3, <3>1 DEF SInv, Agreed
  <2>4. next_metadata'.epoch # 0
    BY DEF Live, is_full, INITIAL_EPOCH
  <2> QED  BY <1>3, <2>2, <2>3, <2>4
<1>8. Told'
  BY <1>1 DEF Told
<1> QED  BY <1>5, <1>6, <1>7, <1>8 DEF SInv

------------------------------------------------------------------------------
(* The steps of the broker.                                                *)

\* An answer takes a request away; the rest of the client's state stays.
LEMMA AnswerKeeps ==
  ASSUME SInv, UNCHANGED client, NEW q \in requests, NEW r, Answer(q, r),
         drawn' \in Nat, drawn' >= drawn, DOMAIN sessions' \subseteq 1 .. drawn'
  PROVE  Shape' /\ Current'
<1>1. /\ next_metadata' = next_metadata /\ pending' = pending
      /\ session_partitions' = session_partitions /\ fetch_offsets' = fetch_offsets
      /\ requests' = requests \ {q}
      /\ response' = IF q.current THEN r ELSE response
  BY DEF client, Answer
<1>2. Metadatas \subseteq Metadatas'
  BY DEF Metadatas, SInv, Shape
<1>3. session_partitions' = [tp \in DOMAIN session_partitions' |-> session_partitions'[tp]]
  BY <1>1 DEF SInv, Shape
<1>4. Shape'
  BY <1>1, <1>2, <1>3 DEF SInv, Shape
<1>5. Current'
  <2>1. CASE q.current
    <3>1. pending /\ \A p \in requests' : ~p.current
      BY <1>1, <2>1 DEF SInv, Current
    <3> QED  BY <1>1, <3>1 DEF Current
  <2>2. CASE ~q.current
    BY <1>1, <2>2 DEF SInv, Current, is_full
  <2> QED  BY <2>1, <2>2
<1> QED  BY <1>4, <1>5

\* A request that the client has given up does not touch the session that it
\* continues, nor the one that it is offered.
LEMMA AbandonedKeeps ==
  ASSUME SInv, UNCHANGED client, NEW q \in requests, NEW r, Answer(q, r), ~q.current,
         drawn' \in Nat, drawn' >= drawn, DOMAIN sessions' \subseteq 1 .. drawn',
         \A id \in DOMAIN sessions' : id \in 1 .. drawn /\ id # q.metadata.session_id =>
             id \in DOMAIN sessions /\ sessions'[id].partitions = sessions[id].partitions
  PROVE  Agreed' /\ Told'
<1>1. /\ next_metadata' = next_metadata /\ session_partitions' = session_partitions
      /\ requests' = requests \ {q} /\ response' = response
  BY DEF client, Answer
<1>2. Live' = Live /\ Id' = Id
  BY <1>1 DEF Live, Id, is_full
<1>3. Agreed'
  <2> SUFFICES ASSUME Live' PROVE Agreed'
    BY DEF Agreed
  <2>1. \A p \in requests : p.current \/ p.metadata.session_id # Id
    BY <1>2 DEF SInv, Agreed
  <2>2. Id \in 0 .. drawn /\ q.metadata.session_id # Id
    BY <2>1 DEF SInv, Shape, Metadatas, Id
  <2> SUFFICES ASSUME Id \in DOMAIN sessions'
               PROVE  /\ \A p \in requests' : p.current =>
                          Applied(sessions'[Id].partitions, p) = session_partitions
                      /\ (\A p \in requests' : ~p.current)
                         /\ (response # NoResponse => response.error = "NoError")
                             => sessions'[Id].partitions = session_partitions
    BY <1>1, <1>2, <2>1 DEF Agreed
  <2>3. Id \in DOMAIN sessions /\ sessions'[Id].partitions = sessions[Id].partitions
    BY <2>2 DEF SInv, Shape
  <2>4. (\A p \in requests' : ~p.current) => \A p \in requests : ~p.current
    BY <1>1
  <2> QED  BY <1>1, <1>2, <2>3, <2>4 DEF SInv, Agreed
<1>4. Told'
  <2>1. ASSUME NEW id, Offered(id) PROVE Offered(id)'
    BY <1>1, <2>1 DEF Offered, SInv, Shape
  <2> QED  BY <1>1, <1>2, <2>1 DEF SInv, Told
<1> QED  BY <1>3, <1>4

\* A full request: the broker closes the session it names and may open a new one.
LEMMA FullSInv ==
  ASSUME SInv, NEW q \in requests, BrokerFull(q)
  PROVE  SInv'
<1> DEFINE data == q.to_send
<1>1. UNCHANGED client /\ is_full(q.metadata)
  BY DEF BrokerFull
<1>2. PICK id \in {INVALID_SESSION_ID, drawn + 1} :
        /\ Answer(q, Reply("NoError", id, data))
        /\ drawn' = IF id = INVALID_SESSION_ID THEN drawn ELSE id
        /\ \A i \in DOMAIN sessions' :
            \/ i \in DOMAIN sessions /\ sessions'[i] = sessions[i]
            \/ i = drawn + 1 /\ i = id /\ sessions'[i].partitions = data
  <2>1. drawn \in Nat /\ drawn + 1 # INVALID_SESSION_ID
    BY DEF SInv, Shape, INVALID_SESSION_ID
  <2> DEFINE left == [i \in DOMAIN sessions \ {q.metadata.session_id} |-> sessions[i]]
  <2>2. CASE /\ sessions' = left /\ drawn' = drawn
             /\ Answer(q, Reply("NoError", INVALID_SESSION_ID, data))
    BY <2>2
  <2>3. CASE /\ drawn' = drawn + 1
             /\ sessions' = [i \in DOMAIN left \cup {drawn + 1} |->
                    IF i = drawn + 1 THEN [epoch |-> 1, partitions |-> data] ELSE left[i]]
             /\ Answer(q, Reply("NoError", drawn + 1, data))
    <3>1. \A i \in DOMAIN sessions' :
            \/ i \in DOMAIN sessions /\ sessions'[i] = sessions[i]
            \/ i = drawn + 1 /\ sessions'[i].partitions = data
      BY <2>3
    <3> QED  BY <2>1, <2>3, <3>1
  <2> QED  BY <2>2, <2>3, Zenon DEF BrokerFull
<1>3. /\ drawn \in Nat /\ drawn' \in Nat /\ drawn' >= drawn
      /\ DOMAIN sessions' \subseteq 1 .. drawn'
  BY <1>2 DEF SInv, Shape, INVALID_SESSION_ID
<1>4. Shape' /\ Current'
  BY <1>1, <1>2, <1>3, AnswerKeeps
<1>5. Agreed' /\ Told'
  <2>1. CASE ~q.current
    <3>1. \A i \in DOMAIN sessions' : i \in 1 .. drawn /\ i # q.metadata.session_id =>
             i \in DOMAIN sessions /\ sessions'[i].partitions = sessions[i].partitions
      BY <1>2, <1>3
    <3> QED  BY <1>1, <1>2, <1>3, <2>1, <3>1, AbandonedKeeps
  <2>2. CASE q.current
    <3>1. q.metadata = next_metadata /\ data = session_partitions
      BY <1>1, <2>2 DEF SInv, Current
    <3>2. /\ next_metadata' = next_metadata /\ session_partitions' = session_partitions
          /\ requests' = requests \ {q}
          /\ response' = Reply("NoError", id, data)
      BY <1>1, <1>2, <2>2 DEF client, Answer
    <3>3. ~Live'
      BY <1>1, <3>1, <3>2 DEF Live
    <3>4. response'.session_id = id /\ response'.data = data
      BY <3>2 DEF Reply
    <3>5. id = INVALID_SESSION_ID \/ Offered(id)'
      <4> SUFFICES ASSUME id # INVALID_SESSION_ID PROVE Offered(id)'
        OBVIOUS
      <4>1. id = drawn + 1 /\ drawn' = id
        BY <1>2
      <4>2. id \in 1 .. drawn' /\ id \notin 0 .. drawn
        BY <1>3, <4>1
      <4>3. \A p \in requests' : p.metadata.session_id # id
        BY <3>2, <4>2 DEF SInv, Shape, Metadatas
      <4>4. id \in DOMAIN sessions' => sessions'[id].partitions = session_partitions'
        BY <1>2, <3>1, <3>2, <4>1, <4>2, <1>3 DEF SInv, Shape
      <4> QED  BY <4>2, <4>3, <4>4 DEF Offered
    <3> QED  BY <3>1, <3>2, <3>3, <3>4, <3>5 DEF Agreed, Told
  <2> QED  BY <2>1, <2>2
<1> QED  BY <1>4, <1>5 DEF SInv

\* An incremental request: the broker checks the epoch and applies the changes.
LEMMA IncrementalSInv ==
  ASSUME SInv, NEW q \in requests, BrokerIncremental(q)
  PROVE  SInv'
<1> DEFINE id == q.metadata.session_id
           partitions == Applied(sessions[id].partitions, q)
<1>1. UNCHANGED client /\ ~is_full(q.metadata) /\ drawn' = drawn
  BY SMTT(30) DEF BrokerIncremental
<1>2. PICK r :
        /\ Answer(q, r)
        /\ \/ /\ sessions' = sessions
              /\ r # NoResponse /\ r.error # "NoError"
           \/ /\ id \in DOMAIN sessions
              /\ DOMAIN sessions' = DOMAIN sessions
              /\ sessions'[id].partitions = partitions
              /\ \A i \in DOMAIN sessions \ {id} : sessions'[i] = sessions[i]
              /\ r.error = "NoError" /\ r.session_id = id
              /\ DOMAIN r.data \subseteq DOMAIN partitions
              /\ \A tp \in DOMAIN r.data : r.data[tp] = partitions[tp]
  <2> HIDE DEF partitions
  <2>1. CASE \E data : /\ Answer(q, Reply("FetchSessionIdNotFound", INVALID_SESSION_ID, data))
                       /\ sessions' = sessions
    BY <2>1 DEF Reply, NoResponse
  <2>2. CASE \E data : /\ Answer(q, Reply("InvalidFetchSessionEpoch", INVALID_SESSION_ID, data))
                       /\ sessions' = sessions
    BY <2>2 DEF Reply, NoResponse
  <2>3. CASE /\ id \in DOMAIN sessions
             /\ \E e : sessions' = [sessions EXCEPT ![id] =
                           [epoch |-> e, partitions |-> partitions]]
             /\ \E S \in SUBSET DOMAIN partitions :
                    Answer(q, Reply("NoError", id, Restrict(partitions, S)))
    <3>1. PICK S \in SUBSET DOMAIN partitions :
              Answer(q, Reply("NoError", id, Restrict(partitions, S)))
      BY <2>3
    <3>2. /\ DOMAIN sessions' = DOMAIN sessions
          /\ sessions'[id].partitions = partitions
          /\ \A i \in DOMAIN sessions \ {id} : sessions'[i] = sessions[i]
      BY <2>3
    <3> DEFINE r == Reply("NoError", id, Restrict(partitions, S))
    <3>3. /\ r.error = "NoError" /\ r.session_id = id
          /\ DOMAIN r.data \subseteq DOMAIN partitions
          /\ \A tp \in DOMAIN r.data : r.data[tp] = partitions[tp]
      BY DEF Reply, Restrict
    <3> QED  BY <2>3, <3>1, <3>2, <3>3
  <2> QED  BY <2>1, <2>2, <2>3, Zenon DEF BrokerIncremental, partitions
<1> HIDE DEF partitions
<1>3. /\ drawn \in Nat /\ drawn' \in Nat /\ drawn' >= drawn
      /\ DOMAIN sessions' \subseteq 1 .. drawn'
  BY <1>1, <1>2 DEF SInv, Shape
<1>4. Shape' /\ Current'
  BY <1>1, <1>2, <1>3, AnswerKeeps
<1>5. Agreed' /\ Told'
  <2>1. CASE ~q.current
    <3>1. \A i \in DOMAIN sessions' : i \in 1 .. drawn /\ i # id =>
             i \in DOMAIN sessions /\ sessions'[i].partitions = sessions[i].partitions
      BY <1>2
    <3> QED  BY <1>1, <1>2, <1>3, <2>1, <3>1, AbandonedKeeps
  <2>2. CASE q.current
    <3>1. q.metadata = next_metadata /\ \A p \in requests \ {q} : ~p.current
      BY <2>2 DEF SInv, Current
    <3>2. /\ next_metadata' = next_metadata /\ session_partitions' = session_partitions
          /\ requests' = requests \ {q} /\ response' = r
      BY <1>1, <1>2, <2>2 DEF client, Answer
    <3>3. Live /\ Live' /\ id = Id /\ Id' = Id
      BY <1>1, <3>1, <3>2 DEF Live, Id
    <3>4. id \in DOMAIN sessions => partitions = session_partitions
      BY <2>2, <3>3 DEF SInv, Agreed, partitions
    <3>5. \A p \in requests' : ~p.current /\ p.metadata.session_id # Id
      BY <3>1, <3>2, <3>3 DEF SInv, Agreed
    <3>6. CASE r # NoResponse /\ r.error # "NoError"
      <4>1. response' # NoResponse => response'.error # "NoError"
        BY <3>2, <3>6
      <4>2. Told'
        BY <4>1 DEF Told
      <4>3. Agreed'
        BY <3>2, <3>3, <3>5, <3>6 DEF Agreed
      <4> QED  BY <4>2, <4>3
    <3>7. CASE /\ id \in DOMAIN sessions
               /\ sessions'[id].partitions = partitions
               /\ r.session_id = id
               /\ DOMAIN r.data \subseteq DOMAIN partitions
               /\ \A tp \in DOMAIN r.data : r.data[tp] = partitions[tp]
      <4>1. Told'
        BY <3>2, <3>3, <3>4, <3>7 DEF Told
      <4>2. Agreed'
        BY <3>2, <3>3, <3>4, <3>5, <3>7 DEF Agreed
      <4> QED  BY <4>1, <4>2
    <3> QED  BY <1>2, <3>6, <3>7
  <2> QED  BY <2>1, <2>2
<1> QED  BY <1>4, <1>5, Zenon DEF SInv

\* A throttled request, which the broker has not processed.
LEMMA ThrottleSInv ==
  ASSUME Throttled \subseteq {"full"}, SInv, NEW q \in requests, BrokerThrottles(q)
  PROVE  SInv'
<1>1. /\ UNCHANGED client /\ is_full(q.metadata)
      /\ sessions' = sessions /\ drawn' = drawn
      /\ Answer(q, Reply("NoError", THROTTLED_SESSION_ID, Empty))
  BY DEF BrokerThrottles
<1>2. /\ drawn' \in Nat /\ drawn' >= drawn /\ DOMAIN sessions' \subseteq 1 .. drawn'
  BY <1>1 DEF SInv, Shape
<1>3. Shape' /\ Current'
  BY <1>1, <1>2, AnswerKeeps
<1>4. Agreed' /\ Told'
  <2>1. CASE ~q.current
    BY <1>1, <1>2, <2>1, AbandonedKeeps
  <2>2. CASE q.current
    <3>1. /\ next_metadata' = next_metadata /\ next_metadata = q.metadata
          /\ response' = Reply("NoError", THROTTLED_SESSION_ID, Empty)
      BY <1>1, <2>2 DEF client, Answer, SInv, Current
    <3>2. ~Live'
      BY <1>1, <3>1 DEF Live
    <3>3. response'.session_id = THROTTLED_SESSION_ID /\ DOMAIN response'.data = {}
      BY <3>1 DEF Reply, Empty
    <3> QED  BY <3>2, <3>3 DEF Agreed, Told
  <2> QED  BY <2>1, <2>2
<1> QED  BY <1>3, <1>4 DEF SInv

\* The sessions that the broker keeps when it loses some, or none.
LEMMA KeptSInv ==
  ASSUME SInv, UNCHANGED <<client, requests, response, drawn>>,
         \A i \in DOMAIN sessions' : i \in DOMAIN sessions /\ sessions'[i] = sessions[i]
  PROVE  SInv'
<1>1. /\ UNCHANGED <<next_metadata, session_partitions, fetch_offsets, pending>>
      /\ UNCHANGED <<requests, response, drawn>>
  BY DEF client
<1>2. Live' = Live /\ Id' = Id /\ Metadatas' = Metadatas
  BY <1>1 DEF Live, Id, Metadatas, is_full
<1>3. Shape'
  <2>1. session_partitions' = [tp \in DOMAIN session_partitions' |-> session_partitions'[tp]]
    BY <1>1 DEF SInv, Shape
  <2> QED  BY <1>1, <1>2, <2>1 DEF SInv, Shape
<1>4. Current'
  BY <1>1 DEF SInv, Current, is_full
<1>5. Agreed'
  <2>1. Id' \in DOMAIN sessions' => Id \in DOMAIN sessions /\ sessions'[Id'] = sessions[Id]
    BY <1>2
  <2>2. Id' \in DOMAIN sessions' => \A q \in requests' : q.current =>
            Applied(sessions'[Id'].partitions, q) = Applied(sessions[Id].partitions, q)
    BY <2>1
  <2> QED  BY <1>1, <1>2, <2>1, <2>2 DEF SInv, Agreed
<1>6. Told'
  <2>1. ASSUME NEW id, Offered(id) PROVE Offered(id)'
    BY <1>1, <2>1 DEF Offered
  <2> QED  BY <1>1, <1>2, <2>1 DEF SInv, Told
<1> QED  BY <1>3, <1>4, <1>5, <1>6 DEF SInv

------------------------------------------------------------------------------
(* The theorems.                                                           *)

\* The client and the broker agree about the session, as long as no quota
\* throttles an incremental request: fetch handlers, errors, late processing of
\* abandoned requests, evictions and restarts all preserve SInv.
THEOREM SessionInvariance ==
  ASSUME Throttled \subseteq {"full"}
  PROVE  Spec => []SInv
<1>1. Init => SInv
  BY InitSInv
<1>2. SInv /\ [Next]_vars => SInv'
  <2> SUFFICES ASSUME SInv, [Next]_vars PROVE SInv'
    OBVIOUS
  <2>1. CASE Build
    BY <2>1, BuildSInv DEF Build
  <2>2. CASE HandleFetchResponse
    BY <2>2, ResponseSInv
  <2>3. CASE HandleFetchError
    BY <2>3, ErrorSInv
  <2>4. CASE Broker
    BY <2>4, FullSInv, IncrementalSInv DEF Broker
  <2>5. CASE \E q \in requests : BrokerThrottles(q)
    BY <2>5, ThrottleSInv
  <2>6. CASE SessionsLost
    BY <2>6, KeptSInv DEF SessionsLost, Restrict
  <2>7. CASE UNCHANGED vars
    BY <2>7, KeptSInv DEF vars
  <2> QED  BY <2>1, <2>2, <2>3, <2>4, <2>5, <2>6, <2>7 DEF Next
<1> QED  BY <1>1, <1>2, PTL DEF Spec

\* OffsetsAgree: _handle_fetch_response labels the records of every partition in
\* an accepted response with the offset that the broker read them from.
THEOREM RecordsLabelledRight ==
  ASSUME Throttled \subseteq {"full"}
  PROVE  Spec => []OffsetsAgree
<1>1. SInv => OffsetsAgree
  BY DEF SInv, Shape, Told, OffsetsAgree, Accepted
<1> QED  BY <1>1, SessionInvariance, PTL

\* NothingForgotten: after an accepted incremental response the broker's session
\* fetches exactly the positions in FetchSessionHandler.session_partitions.
THEOREM SessionComplete ==
  ASSUME Throttled \subseteq {"full"}
  PROVE  Spec => []NothingForgotten
<1>1. SInv => NothingForgotten
  <2> SUFFICES ASSUME SInv, response # NoResponse, Accepted(response), Live,
                      response.session_id \in DOMAIN sessions
               PROVE  sessions[response.session_id].partitions = session_partitions
    BY DEF NothingForgotten, Live
  <2>1. response.error = "NoError" /\ \A q \in requests : ~q.current
    BY DEF SInv, Current, Accepted
  <2>2. response.session_id = Id
    BY <2>1 DEF SInv, Told
  <2> QED  BY <2>1, <2>2 DEF SInv, Agreed
<1> QED  BY <1>1, SessionInvariance, PTL

=============================================================================
