-------------------------------- MODULE Wire --------------------------------
(***************************************************************************)
(* Records on their way through the library as bytes: appended to          *)
(* MemoryRecordsBuilders (record/memory_records.py) as the accumulator     *)
(* does, closed, stored by a broker, fetched in a response that arrives in *)
(* pieces of any size (KafkaProtocol of protocol/parser.py) and read back  *)
(* by MemoryRecords as PartitionRecords._unpack_records does.              *)
(*                                                                         *)
(* Producing comes before fetching: the two meet only in the log, and the  *)
(* response holds what the log was when it was made.                       *)
(***************************************************************************)
EXTENDS RecordBatches, TLC

CONSTANTS
    Setups,         \* message format, codec, sizes and faults of a run
    BrokerTime,     \* the timestamp a broker with LogAppendTime writes
    MaxInt          \* 2147483647 in the code

(* setup = [magic, codec, batch_size, append_time, transactional, sequence, *)
(* correlation_id, values, records, refusals, kinds, requests, cuts,        *)
(* chunks, faults]: sequence and correlation_id are where the producer and  *)
(* the connection have got to; values and kinds are the records and the     *)
(* requests sent, and records, refusals and requests bound them; cuts is    *)
(* how much of the end of the log a response may lack and chunks the sizes  *)
(* of the pieces it comes in.                                               *)
VARIABLES setup, queue, sequence, refused, log, corrupted,
          protocol, sent, sock, responses, reader

producer == <<queue, sequence, refused>>
broker == <<log, corrupted>>
network == <<protocol, sent, sock, responses>>
vars == <<setup, producer, broker, network, reader>>

----------------------------------------------------------------------------
(* MemoryRecordsBuilder.  sent_records is the history of what was appended. *)

MemoryRecordsBuilder(magic, codec, batchSize) ==
    [builder |-> IF magic = 2 THEN NewDefaultBuilder(codec, batchSize)
                 ELSE NewLegacyBuilder(magic, codec, batchSize),
     magic |-> magic, next_offset |-> 0, closed |-> FALSE, buffer |-> << >>,
     sent_records |-> << >>]

BuilderAppend(m, r) ==
    LET result == IF m.magic = 2
                  THEN DefaultAppend(m.builder, m.next_offset, r)
                  ELSE LegacyAppend(m.builder, m.next_offset, r)
        ok == ~m.closed /\ result.ok
    IN [ok |-> ok,
        m |-> IF ~ok THEN m ELSE
              [m EXCEPT !.builder = result.builder, !.next_offset = @ + 1,
                        !.sent_records = Append(@, r)]]

(* set_producer_state raises for a closed batch and for formats 0 and 1.    *)
SetProducerState(m, sequenceNumber, transactional) ==
    [m EXCEPT !.builder =
        DefaultSetProducerState(@, 7, 0, sequenceNumber, transactional)]

BuilderClose(m) ==
    IF m.closed THEN m
    ELSE [m EXCEPT !.closed = TRUE,
                   !.buffer = IF m.magic = 2 THEN DefaultBuild(m.builder)
                              ELSE LegacyBuild(m.builder)]

SizeInBytes(m) == IF m.closed THEN Len(m.buffer) ELSE Len(m.builder.buffer)

----------------------------------------------------------------------------
(* The accumulator's use of it, and the sequence number of the partition.   *)

Producing == sent = << >>

(* RecordAccumulator.append: the last batch, or a new one when it refuses.  *)
Send(r) ==
    /\ Producing
    /\ setup.magic = 2 \/ r.headers = << >>
    /\ Total([i \in DOMAIN log |-> Len(log[i].records)])
       + Total([i \in DOMAIN queue |-> queue[i].next_offset])
          < setup.records
    /\ LET new == BuilderAppend(MemoryRecordsBuilder(setup.magic, setup.codec,
                                                    setup.batch_size), r).m
           last == IF queue = << >> THEN [ok |-> FALSE]
                   ELSE BuilderAppend(Last(queue), r)
       IN queue' = IF last.ok THEN ReplaceAt(queue, Len(queue), last.m)
                   ELSE Append(queue, new)
    /\ UNCHANGED <<setup, sequence, refused, broker, network, reader>>

\* Mutant: the sequence wraps to 1.
IncrementSequencePastZero(base, increment) ==
    IF base > MaxInt - increment THEN increment - (MaxInt - base)
    ELSE base + increment

(* increment_sequence_number: sequence numbers wrap at Java's largest int.  *)
IncrementSequenceNumber(base, increment) ==
    IF base > MaxInt - increment THEN increment - (MaxInt - base) - 1
    ELSE base + increment

(* What drain does to the first batch of the queue: a batch in retry keeps  *)
(* its sequence.                                                            *)
Drained ==
    LET first == Head(queue)
    IN IF setup.magic = 2 /\ ~first.closed
       THEN BuilderClose(SetProducerState(first, sequence,
                                          setup.transactional))
       ELSE BuilderClose(first)

Refuse ==
    /\ Producing
    /\ queue # << >> /\ refused < setup.refusals
    /\ queue' = ReplaceAt(queue, 1, Drained)
    /\ refused' = refused + 1
    /\ UNCHANGED <<setup, sequence, broker, network, reader>>

----------------------------------------------------------------------------
(* External: the broker.  A slice of the log is what MemoryRecords sees as  *)
(* one batch, with the records a consumer is to find in it.                 *)

LogEnd == IF log = << >> THEN 0 ELSE Last(log).next

(* The record r as it is read from offset o.                                *)
AsRead(r, o) ==
    [offset |-> o, key |-> r.key, value |-> r.value, headers |-> r.headers,
     timestamp |-> CASE setup.magic = 0 -> None
                     [] setup.magic # 0 /\ setup.append_time -> BrokerTime
                     [] OTHER -> r.timestamp]

StampBatch(buf, offset) ==
    LET placed == ReplaceAt(buf, 8, offset)
    IN IF ~setup.append_time THEN placed
       ELSE WithCrc(ReplaceAt(ReplaceAt(placed, 23, buf[23]
                                            + TIMESTAMP_TYPE_MASK),
                              43, BrokerTime))

StampMessage(msg, offset) ==
    LET placed == ReplaceAt(msg, 8, offset)
    IN IF setup.magic = 0 \/ ~setup.append_time THEN placed
       ELSE WithLegacyCrc(ReplaceAt(ReplaceAt(placed, 18, msg[18]
                                                  + TIMESTAMP_TYPE_MASK),
                                    26, BrokerTime))

Messages(buf) ==
    LET starts == ReadAllHeaders(setup.magic, buf)
    IN [i \in DOMAIN starts |->
           Slice(buf, starts[i], LOG_OVERHEAD
                     + ReadHeader(setup.magic, buf, starts[i]).length)]

(* Offsets are given to a batch of format 2 as a whole and to each message  *)
(* of the older ones; inside a compressed set they are rewritten for        *)
(* format 0 and relative to the last one for format 1.                      *)
StoredSlices(m, base) ==
    LET n == Len(m.sent_records)
        all == [i \in 1 .. n |-> AsRead(m.sent_records[i], base + i - 1)]
        outer == ReadKeyValue(m.buffer, calcsize(LEGACY_HEADER(m.magic)))[2]
        inner == Messages(Decompress(outer))
        absolute == FlattenSeq([i \in DOMAIN inner |->
                                   StampMessage(inner[i], base + i - 1)])
        one(bytes) == << [bytes |-> bytes, records |-> all,
                          next |-> base + n] >>
    IN CASE m.magic = 2 -> one(StampBatch(m.buffer, base))
         [] m.magic < 2 /\ setup.codec = CODEC_NONE ->
               [i \in 1 .. n |->
                   [bytes |-> StampMessage(Messages(m.buffer)[i],
                                           base + i - 1),
                    records |-> <<all[i]>>, next |-> base + i]]
         [] m.magic = 1 /\ setup.codec # CODEC_NONE ->
               one(StampMessage(m.buffer, base + n - 1))
         [] m.magic = 0 /\ setup.codec # CODEC_NONE ->
               one(EncodeMsg(0, base + n - 1, NO_TIMESTAMP, None,
                             Compress(absolute), setup.codec))

(* The first batch is drained, stored and acknowledged: _complete_batch     *)
(* moves the sequence number past it.                                       *)
Store ==
    /\ Producing /\ queue # << >>
    /\ log' = log \o StoredSlices(Drained, LogEnd)
    /\ queue' = Tail(queue)
    /\ sequence' = IF setup.magic < 2 THEN sequence
                   ELSE IncrementSequenceNumber(sequence,
                                                Head(queue).next_offset)
    /\ UNCHANGED <<setup, refused, corrupted, network, reader>>

(* The marker that ends a transaction: a control batch with one record.     *)
Marker ==
    LET record == [key |-> <<0, 0, 0, 1>>, value |-> <<0>>, headers |-> << >>,
                   timestamp |-> BrokerTime]
        built == DefaultBuild([DefaultAppend(NewDefaultBuilder(CODEC_NONE, 0),
                                             0, record).builder
                               EXCEPT !.transactional = TRUE,
                                      !.producer_id = 7])
    IN WithCrc(ReplaceAt(built, 23, built[23] + CONTROL_MASK))

EndTransaction ==
    /\ Producing /\ setup.transactional
    /\ log # << >> /\ Last(log).records # << >>
    /\ log' = Append(log, [bytes |-> ReplaceAt(Marker, 8, LogEnd),
                           records |-> << >>, next |-> LogEnd + 1])
    /\ UNCHANGED <<setup, producer, corrupted, network, reader>>

(* One cell that a checksum covers changes on the way.                      *)
Corrupt ==
    /\ Producing /\ "corrupt" \in setup.faults /\ corrupted = 0
    /\ queue = << >>
    /\ \E i \in DOMAIN log :
         /\ \E c \in (IF setup.magic = 2 THEN ATTRIBUTES_OFFSET
                      ELSE MAGIC_OFFSET + 1) + 1 .. Len(log[i].bytes) :
              log' = [log EXCEPT ![i].bytes[c] = @ + 1]
         /\ corrupted' = i
    /\ UNCHANGED <<setup, producer, network, reader>>

----------------------------------------------------------------------------
(* KafkaProtocol: requests out, response frames in.                         *)

NewProtocol(correlationId) ==
    [correlation_id |-> correlationId, in_flight_requests |-> << >>,
     header |-> << >>, receiving |-> FALSE, rbuffer |-> << >>, nbytes |-> 0,
     closed |-> FALSE]

(* Correlation ids are taken modulo 2^31.                                   *)
NextCorrelationId(p) == (p.correlation_id + 1) % (MaxInt + 1)

(* send_request; sent is the history, with the answer once there is one.    *)
SendRequest(kind) ==
    /\ Len(sent) < setup.requests /\ ~protocol.closed /\ queue = << >>
    /\ kind = "fetch" => \A i \in DOMAIN sent : sent[i].kind # "fetch"
    /\ LET id == NextCorrelationId(protocol) IN
       /\ protocol' = [protocol EXCEPT
              !.correlation_id = id,
              !.in_flight_requests = Append(@, [id |-> id, kind |-> kind])]
       /\ sent' = Append(sent, [id |-> id, kind |-> kind,
                               start |-> 0, body |-> None])
    /\ UNCHANGED <<setup, producer, broker, sock, responses, reader>>

(* _process_response: the request answered is the oldest one.  A 0.8.2      *)
(* broker may answer FindCoordinator with correlation id 0.                 *)
ProcessResponse(p, buf) ==
    LET request == Head(p.in_flight_requests)
        quirk == buf[4] = 0 /\ request.kind = "coordinator"
    IN IF \/ p.in_flight_requests = << >>
          \/ ~quirk /\ buf[4] # request.id
          \/ Len(buf) = 4 /\ request.kind = "coordinator"
       THEN [ok |-> FALSE, response |-> None]
       ELSE [ok |-> TRUE, response |-> [id |-> request.id,
                                        kind |-> request.kind,
                                        body |-> From(buf, 4)]]

\* Mutant: the header is not taken back to its start.
ResetBufferNotHeader(p) == [p EXCEPT !.receiving = FALSE,
                                     !.rbuffer = << >>, !.nbytes = 0]

ResetBuffer(p) == [p EXCEPT !.receiving = FALSE, !.header = << >>,
                            !.rbuffer = << >>, !.nbytes = 0]

RECURSIVE ReceiveBytes(_, _, _)
ReceivePayload(p, data, done) ==
    LET n == Min({p.nbytes - Len(p.rbuffer), Len(data)})
        buf == p.rbuffer \o Slice(data, 0, n)
        result == ProcessResponse(p, buf)
    IN IF Len(buf) # p.nbytes
       THEN [p |-> [p EXCEPT !.rbuffer = buf], ok |-> TRUE, responses |-> done]
       ELSE IF ~result.ok THEN [p |-> p, ok |-> FALSE, responses |-> << >>]
       ELSE ReceiveBytes([ResetBuffer(p) EXCEPT !.in_flight_requests = Tail(@)],
                         From(data, n), Append(done, result.response))

(* The four cells of the length, of which some may have come before.        *)
ReceiveHeader(p, data) ==
    LET n == Min({4 - Len(p.header), Len(data)})
    IN [p EXCEPT !.header = @ \o Slice(data, 0, n)]

(* receive_bytes: every frame the data completes; after an error the        *)
(* responses of the same call are not returned.                             *)
ReceiveBytes(p, data, done) ==
    LET q == ReceiveHeader(p, data)
        rest == From(data, Len(q.header) - Len(p.header))
    IN IF data = << >> THEN [p |-> p, ok |-> TRUE, responses |-> done]
       ELSE IF p.receiving THEN ReceivePayload(p, data, done)
       ELSE IF Len(q.header) < 4
       THEN [p |-> q, ok |-> TRUE, responses |-> done]
       ELSE ReceivePayload([q EXCEPT !.receiving = TRUE,
                                     !.nbytes = q.header[4]], rest, done)

(* BrokerConnection.recv: some of the bytes that have arrived.  An error of *)
(* the protocol closes the connection, which fails what is in flight.       *)
Receive(n) ==
    LET result == ReceiveBytes(protocol, Slice(sock, 0, n), << >>) IN
    /\ sock # << >> /\ ~protocol.closed
    /\ responses' = responses \o result.responses
    /\ IF result.ok
       THEN protocol' = result.p /\ sock' = From(sock, n)
       ELSE /\ protocol' = [NewProtocol(0) EXCEPT !.closed = TRUE]
            /\ sock' = << >>
    /\ UNCHANGED <<setup, producer, broker, sent, reader>>

(* External: a broker answers the requests of a connection in order.  The   *)
(* end of a fetch response may be cut; an answer may be one that this       *)
(* client cannot decode or may carry another correlation id.                *)
Frame(id, body) == Pack(<<4, 4>>, <<4 + Len(body), id>>) \o body

BytesFrom(start) ==
    FlattenSeq([i \in 1 .. Len(log) - start + 1 |-> log[start + i - 1].bytes])

AnswerWith(i, id, start, body) ==
    /\ sent' = [sent EXCEPT ![i].start = start, ![i].body = body]
    /\ sock' = sock \o Frame(id, body)
    /\ UNCHANGED <<setup, producer, broker, protocol, responses, reader>>

IsNext(i) == /\ ~protocol.closed /\ sent[i].body = None
             /\ \A j \in 1 .. i - 1 : sent[j].body # None

AnswerFetch ==
    \E i \in DOMAIN sent, start \in 1 .. Len(log) + 1, cut \in setup.cuts :
        /\ IsNext(i) /\ sent[i].kind = "fetch"
        /\ cut <= Len(BytesFrom(start))
        /\ AnswerWith(i, sent[i].id, start,
                      SubSeq(BytesFrom(start), 1,
                             Len(BytesFrom(start)) - cut))

AnswerCoordinator ==
    \E i \in DOMAIN sent :
        /\ IsNext(i) /\ sent[i].kind = "coordinator"
        /\ \/ \E id \in {0, sent[i].id} : AnswerWith(i, id, 0, <<1>>)
           \/ /\ "undecodable" \in setup.faults
              /\ AnswerWith(i, sent[i].id, 0, << >>)
           \/ /\ "misnumbered" \in setup.faults
              /\ AnswerWith(i, sent[i].id + 1, 0, <<1>>)

----------------------------------------------------------------------------
(* Reading the fetched bytes: Fetcher._parse_fetched_data makes the         *)
(* MemoryRecords, _unpack_records takes batch after batch.                  *)

(* A response with bytes but no complete batch raises: the consumer would   *)
(* fetch it again and again.                                                *)
Opened(mem) ==
    [mem |-> mem, records |-> << >>,
     status |-> IF ~HasNext(mem) /\ mem.buffer # << >> THEN "too_large"
                ELSE "reading"]

Parse ==
    /\ reader.status = "none"
    /\ \E i \in DOMAIN responses :
         /\ responses[i].kind = "fetch"
         /\ reader' = Opened(MemoryRecords(responses[i].body))
    /\ UNCHANGED <<setup, producer, broker, network>>

(* A batch: its checksum, whether it is a control batch, its records.       *)
UnpackBatch(rd, batch, unpacked) ==
    CASE ~ValidateCrc(batch) -> [rd EXCEPT !.status = "corrupt"]
      [] ValidateCrc(batch) /\ IsControlBatch(batch) -> rd
      [] OTHER -> [rd EXCEPT !.records = @ \o unpacked.records,
                             !.status = IF unpacked.ok THEN @ ELSE "corrupt"]

UnpackNext(rd, batch) ==
    UnpackBatch([rd EXCEPT !.mem = CacheNext(@)], batch, RecordsOf(batch))

NextBatch ==
    /\ reader.status = "reading"
    /\ reader' = CASE ~HasNext(reader.mem) -> [reader EXCEPT !.status = "done"]
                   [] HasNext(reader.mem) /\ TooShort(reader.mem) ->
                         [reader EXCEPT !.status = "corrupt"]
                   [] OTHER -> UnpackNext(reader,
                                          BatchAt(reader.mem.next_slice))
    /\ UNCHANGED <<setup, producer, broker, network>>

----------------------------------------------------------------------------
Init ==
    /\ setup \in Setups
    /\ queue = << >> /\ refused = 0
    /\ sequence = setup.sequence
    /\ log = << >> /\ corrupted = 0
    /\ protocol = NewProtocol(setup.correlation_id)
    /\ sent = << >> /\ sock = << >> /\ responses = << >>
    /\ reader = [status |-> "none", records |-> << >>, mem |-> None]

Next ==
    \/ \E r \in setup.values : Send(r)
    \/ Refuse \/ Store \/ EndTransaction \/ Corrupt
    \/ \E kind \in setup.kinds : SendRequest(kind)
    \/ AnswerFetch \/ AnswerCoordinator
    \/ \E n \in setup.chunks : Receive(n)
    \/ Parse \/ NextBatch

Spec == Init /\ [][Next]_vars

----------------------------------------------------------------------------
(* Every variable has its type.                                             *)
TypeOKWire ==
    /\ setup \in Setups
    /\ \A i \in DOMAIN queue : queue[i].closed \in BOOLEAN
                               /\ queue[i].next_offset \in 1 .. setup.records
    /\ sequence \in 0 .. MaxInt
    /\ refused \in 0 .. setup.refusals
    /\ corrupted \in 0 .. Len(log)
    /\ protocol.correlation_id \in 0 .. MaxInt
    /\ Len(protocol.header) \in 0 .. 4
    /\ protocol.receiving <=> Len(protocol.header) = 4
    /\ Len(sent) \in 0 .. setup.requests
    /\ reader.status \in {"none", "reading", "done", "corrupt",
                         "too_large"}

(* The slices of the log that a fetch response holds completely.            *)
Fetched == CHOOSE f \in ToSet(sent) : f.kind = "fetch"
BytesUpTo(i) == Total([j \in 1 .. i - Fetched.start + 1 |->
                                   Len(log[Fetched.start + j - 1].bytes)])
WholeSlices == {i \in Fetched.start .. Len(log) :
                   BytesUpTo(i) <= Len(Fetched.body)}
RecordsIn(slices) ==
    FlattenSeq([i \in DOMAIN log |->
                   IF i \in slices THEN log[i].records ELSE << >>])

(* What is read back from a fetch response is what was appended to the      *)
(* builders, with the offsets the broker gave, in order and to the last     *)
(* complete batch, whatever format, compression, refusals, retries and cut  *)
(* of the response: MemoryRecordsBuilder, MemoryRecords and _unpack_records *)
(* agree.  Only a response without a complete batch is too large, and       *)
(* valid_bytes counts the batches, however far the iteration has come.      *)
ReadBack ==
    reader.status # "none" =>
        LET readable == {i \in WholeSlices : corrupted = 0 \/ i < corrupted
                                             \/ corrupted < Fetched.start}
        IN /\ IsPrefix(reader.records, RecordsIn(readable))
           /\ reader.status = "done" =>
                 reader.records = RecordsIn(WholeSlices)
           /\ reader.status = "too_large" <=>
                 WholeSlices = {} /\ Fetched.body # << >>
           /\ ValidBytes(reader.mem) =
                 IF WholeSlices = {} THEN 0 ELSE BytesUpTo(Max(WholeSlices))

(* Reading stops with CorruptRecordError exactly at a batch that was        *)
(* changed: no record of it is returned, and no other batch is refused.     *)
CorruptionDetected ==
    /\ reader.status = "corrupt" =>
          /\ corrupted \in WholeSlices
          /\ reader.records =
                RecordsIn({i \in WholeSlices : i < corrupted})
    /\ reader.status = "done" => corrupted \notin WholeSlices

(* A reader gets every record of the complete and undamaged batches, and    *)
(* none of a damaged one.                                                   *)
ReadIntact == ReadBack /\ CorruptionDetected

(* A batch of more than one record stays within batch_size, so that a       *)
(* produce request does; only the outer message of formats 0 and 1 is       *)
(* added when the batch is closed.                                          *)
BatchFits ==
    \A i \in DOMAIN queue :
        LET m == queue[i] IN
        \/ m.next_offset = 1
        \/ SizeInBytes(m) <= setup.batch_size
        \/ m.magic < 2 /\ setup.codec # CODEC_NONE /\ m.closed

(* KafkaProducer.send compares max_request_size with an estimate made       *)
(* before the record is encoded: it is never below the size of a batch      *)
(* with that record alone (formats 0 and 1: unless they are compressed).    *)
EstimateCovers ==
    \A i \in DOMAIN queue :
        LET m == queue[i]
            r == m.sent_records[1]
        IN m.next_offset = 1 /\ (m.magic = 2 \/ setup.codec = CODEC_NONE) =>
              SizeInBytes(m) <= IF m.magic = 2 THEN DefaultEstimateSize(r)
                                ELSE LegacyEstimateSize(m.magic, setup.codec, r)

(* size_in_bytes and size_of, which count cells without encoding, agree     *)
(* with the cells that append has written.                                  *)
SizesAgree ==
    \A i \in DOMAIN queue :
        LET m == queue[i]
            r(n) == m.sent_records[n]
            sizes == [n \in DOMAIN m.sent_records |->
                         DefaultSizeInBytes(r(n), n - 1, r(n).timestamp
                                                        - r(1).timestamp)]
        IN m.magic = 2 => Len(m.builder.buffer) =
                             calcsize(HEADER_STRUCT) + Total(sizes)

(* The limits and estimates that KafkaProducer and the accumulator rely on  *)
(* hold of the cells that are written.                                      *)
SizesKept == BatchFits /\ EstimateCovers /\ SizesAgree

(* The sequence of a stored batch goes on where that of the one before it   *)
(* ended, across the wrap at the largest int: last_sequence of a batch and  *)
(* increment_sequence_number of the transaction manager agree.              *)
SequencesContinue ==
    LET data == SelectSeq(log, LAMBDA e : e.records # << >>)
        batch(i) == DefaultRecordBatch(data[i].bytes)
    IN setup.magic = 2 /\ corrupted = 0 =>
          \A i \in 1 .. Len(data) - 1 :
              batch(i + 1).base_sequence =
                 (LastSequence(batch(i), MaxInt) + 1) % (MaxInt + 1)

(* However the bytes of the responses are cut into pieces, each request     *)
(* gets its own answer, in order, and nothing stays behind in the parser    *)
(* once all bytes have been read.                                           *)
ResponsesMatch ==
    /\ Len(responses) <= Len(sent)
    /\ \A i \in DOMAIN responses :
          /\ responses[i].id = sent[i].id /\ responses[i].kind = sent[i].kind
          /\ responses[i].body = sent[i].body
    /\ ~protocol.closed /\ sock = << >> =>
          /\ protocol.header = << >> /\ protocol.rbuffer = << >>
          /\ \A i \in DOMAIN sent : sent[i].body # None =>
                                       i \in DOMAIN responses
=============================================================================
