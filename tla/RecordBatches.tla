---------------------------- MODULE RecordBatches ----------------------------
(***************************************************************************)
(* The bytes of record batches: what kafka/record/ writes into a produce   *)
(* request and reads from a fetch response.  MemoryRecords slices a buffer *)
(* into batches, DefaultRecordBatch(Builder) is message format 2,          *)
(* LegacyRecordBatch(Builder) formats 0 and 1, record/util.py the varints. *)
(*                                                                         *)
(* A buffer is a sequence of cells, one for each byte, so that lengths and *)
(* positions are the real ones; positions count from 0 as in the code.  A  *)
(* varint has digits base Radix (128 in the code) and a cell with its      *)
(* continuation bit is Radix or more.  A fixed-width integer keeps its     *)
(* value in its last cell.  A record is                                    *)
(*   [key, value, headers, timestamp], key and value a sequence or None.   *)
(***************************************************************************)
EXTENDS Integers, Sequences, SequencesExt, FiniteSetsExt

CONSTANTS Radix, None

ASSUME RadixAssumption == Radix \in Nat \ {0, 1}

NO_TIMESTAMP == -1
CODEC_NONE == 0
TIMESTAMP_TYPE_MASK == 8
TRANSACTIONAL_MASK == 16
CONTROL_MASK == 32
HasBit(attributes, mask) == (attributes \div mask) % 2 = 1
CodecOf(attributes) == attributes % 8

(* buffer[pos: pos + n], which Python cuts at the end of the buffer.        *)
Slice(buf, pos, n) == SubSeq(buf, pos + 1, Min({pos + n, Len(buf)}))
From(buf, pos) == SubSeq(buf, pos + 1, Len(buf))

----------------------------------------------------------------------------
(* Sums, and codes, are taken over halves of a buffer: a long buffer does   *)
(* not mean a deep recursion.                                               *)
Total(seq) ==
    LET of[r \in Nat \X Nat] ==
            LET mid == (r[1] + r[2]) \div 2
            IN IF r[1] < r[2] THEN of[<<r[1], mid>>] + of[<<mid + 1, r[2]>>]
               ELSE IF r[1] = r[2] THEN seq[r[1]] ELSE 0
    IN of[<<1, Len(seq)>>]

(* External: the checksum and the codec.  Changing one cell changes the     *)
(* checksum; run-length coding shortens some data and lengthens other.      *)
Crc(data) == Total([i \in DOMAIN data |-> i * data[i]])

JoinRuns(a, b) ==
    IF Last(a) # b[2] THEN a \o b
    ELSE SubSeq(a, 1, Len(a) - 2) \o <<a[Len(a) - 1] + b[1]>> \o Tail(b)

Compress(data) ==
    LET of[r \in Nat \X Nat] ==
            LET mid == (r[1] + r[2]) \div 2
            IN IF r[1] < r[2]
               THEN JoinRuns(of[<<r[1], mid>>], of[<<mid + 1, r[2]>>])
               ELSE IF r[1] = r[2] THEN <<1, data[r[1]]>> ELSE << >>
    IN of[<<1, Len(data)>>]

Decompress(data) ==
    FlattenSeq([n \in 1 .. Len(data) \div 2 |->
                   [i \in 1 .. data[2 * n - 1] |-> data[2 * n]]])

----------------------------------------------------------------------------
(* struct.Struct: the widths of the fields of a header.                     *)

calcsize(struct) == Total(struct)

Pack(struct, values) ==
    FlattenSeq([i \in DOMAIN struct |->
        [j \in 1 .. struct[i] |-> IF j = struct[i] THEN values[i] ELSE 0]])

Unpack(struct, buf, pos) ==
    [i \in DOMAIN struct |-> buf[pos + calcsize(SubSeq(struct, 1, i))]]

LOG_OVERHEAD == calcsize(<<8, 4>>)
HEADER_STRUCT == <<8, 4, 4, 1, 4, 2, 4, 8, 8, 8, 2, 4, 4>>
CRC_OFFSET == calcsize(<<8, 4, 4, 1>>)
ATTRIBUTES_OFFSET == calcsize(<<8, 4, 4, 1, 4>>)

----------------------------------------------------------------------------
(* record/util.py                                                           *)

Zigzag(v) == IF v >= 0 THEN 2 * v ELSE -2 * v - 1
Unzigzag(u) == IF u % 2 = 0 THEN u \div 2 ELSE -(u \div 2) - 1

(* Up to five digits are written one by one, longer values in a loop.       *)
EncodeVarint(v) ==
    LET u == Zigzag(v)
        short == {n \in 1 .. 5 : u < Radix ^ n}
        digits(n) == [i \in 1 .. n |->
                         ((u \div Radix ^ (i - 1)) % Radix)
                         + IF i < n THEN Radix ELSE 0]
        loop[x \in Nat] == IF x < Radix THEN <<x>>
                           ELSE <<Radix + (x % Radix)>> \o loop[x \div Radix]
    IN IF short # {} THEN digits(Min(short)) ELSE loop[u]

\* Mutant: the thresholds are those of the value without its sign bit.
SizeOfVarintUnsigned(v) ==
    LET fits == {n \in 1 .. 9 : (IF v < 0 THEN -v ELSE v) < Radix ^ n}
    IN IF fits = {} THEN 10 ELSE Min(fits)

SizeOfVarint(v) ==
    LET fits == {n \in 1 .. 9 : Zigzag(v) < Radix ^ n}
    IN IF fits = {} THEN 10 ELSE Min(fits)

(* ok is FALSE for the IndexError at the end of the buffer and for the      *)
(* ValueError after ten cells that all have the continuation bit.           *)
DecodeVarint(buf, pos) ==
    LET ends == {i \in 0 .. 9 : /\ pos + i < Len(buf)
                                /\ ~HasBit(buf[pos + i + 1], Radix)}
        last == Min(ends)
        value[i \in 0 .. last] ==
            (buf[pos + i + 1] % Radix) * Radix ^ i
            + IF i = 0 THEN 0 ELSE value[i - 1]
    IN IF ends = {} THEN [ok |-> FALSE, value |-> 0, pos |-> pos]
       ELSE [ok |-> TRUE, value |-> Unzigzag(value[last]),
             pos |-> pos + last + 1]

----------------------------------------------------------------------------
(* DefaultRecordBatchBuilder: message format 2.                             *)

NewDefaultBuilder(codec, batchSize) ==
    [magic |-> 2, codec |-> codec, batch_size |-> batchSize,
     transactional |-> FALSE, producer_id |-> -1, producer_epoch |-> -1,
     base_sequence |-> -1, first_timestamp |-> None, max_timestamp |-> None,
     last_offset |-> 0, num_records |-> 0,
     buffer |-> [i \in 1 .. calcsize(HEADER_STRUCT) |-> 0]]

EncodeBytes(b) == IF b = None THEN <<1>> ELSE EncodeVarint(Len(b)) \o b
SizeOfBytes(b) == IF b = None THEN 1 ELSE SizeOfVarint(Len(b)) + Len(b)

EncodeHeaders(headers) ==
    EncodeVarint(Len(headers))
    \o FlattenSeq([i \in DOMAIN headers |->
           EncodeBytes(headers[i][1]) \o EncodeBytes(headers[i][2])])

EncodeRecord(r, offset, delta) ==
    <<0>> \o EncodeVarint(delta) \o EncodeVarint(offset)
    \o EncodeBytes(r.key) \o EncodeBytes(r.value) \o EncodeHeaders(r.headers)

(* append: the first record is always added; a later one that would take    *)
(* the buffer past batch_size is refused and leaves the builder as it was.  *)
DefaultAppend(b, offset, r) ==
    LET first == b.first_timestamp = None
        body == EncodeRecord(r, offset, IF first THEN 0
                                 ELSE r.timestamp - b.first_timestamp)
        required == Len(body) + SizeOfVarint(Len(body))
        full == ~first /\ required + Len(b.buffer) > b.batch_size
    IN [ok |-> ~full,
        builder |-> IF full THEN b ELSE
           [b EXCEPT !.first_timestamp = IF first THEN r.timestamp ELSE @,
                     !.max_timestamp = IF first \/ @ < r.timestamp
                                       THEN r.timestamp ELSE @,
                     !.num_records = @ + 1,
                     !.last_offset = offset,
                     !.buffer = @ \o EncodeVarint(Len(body)) \o body]]

DefaultSetProducerState(b, pid, epoch, sequence, transactional) ==
    [b EXCEPT !.producer_id = pid, !.producer_epoch = epoch,
              !.base_sequence = sequence, !.transactional = transactional]

GetAttributes(b, compressed) ==
    (IF compressed THEN b.codec ELSE CODEC_NONE)
    + IF b.transactional THEN TRANSACTIONAL_MASK ELSE 0

OrZero(x) == IF x = None THEN 0 ELSE x

(* write_header: the checksum is taken over a header that is filled.        *)
WithCrc(buf) ==
    ReplaceAt(buf, CRC_OFFSET + 4, Crc(From(buf, ATTRIBUTES_OFFSET)))

WriteHeader(b, data, compressed) ==
    WithCrc(Pack(HEADER_STRUCT,
                 << 0, calcsize(HEADER_STRUCT) + Len(data) - LOG_OVERHEAD, 0,
                    b.magic, 0, GetAttributes(b, compressed), b.last_offset,
                    OrZero(b.first_timestamp), OrZero(b.max_timestamp),
                    b.producer_id, b.producer_epoch, b.base_sequence,
                    b.num_records >>) \o data)

(* build with _maybe_compress: compressed only when that is shorter.        *)
DefaultBuild(b) ==
    LET data == From(b.buffer, calcsize(HEADER_STRUCT))
        compressed == Compress(data)
    IN IF b.codec # CODEC_NONE /\ Len(compressed) < Len(data)
       THEN WriteHeader(b, compressed, TRUE)
       ELSE WriteHeader(b, data, FALSE)

SizeOf(r) ==
    LET sizes == [i \in DOMAIN r.headers |->
                     SizeOfBytes(r.headers[i][1]) + SizeOfBytes(r.headers[i][2])]
    IN SizeOfBytes(r.key) + SizeOfBytes(r.value)
       + SizeOfVarint(Len(r.headers)) + Total(sizes)

(* size_in_bytes: what a record takes in the buffer.                        *)
DefaultSizeInBytes(r, offset, delta) ==
    LET body == 1 + SizeOfVarint(offset) + SizeOfVarint(delta) + SizeOf(r)
    IN body + SizeOfVarint(body)

(* 5 cells of length, 10 of timestamp, 5 of offset and one of attributes.   *)
MAX_RECORD_OVERHEAD == 21

DefaultEstimateSize(r) ==
    calcsize(HEADER_STRUCT) + MAX_RECORD_OVERHEAD + SizeOf(r)

----------------------------------------------------------------------------
(* DefaultRecordBatch: reading format 2.  A result that is not ok stands    *)
(* for a CorruptRecordError.                                                *)

DefaultRecordBatch(buf) ==
    LET h == Unpack(HEADER_STRUCT, buf, 0)
    IN [magic |-> h[4], base_offset |-> h[1], crc |-> h[5],
        attributes |-> h[6], last_offset_delta |-> h[7],
        first_timestamp |-> h[8], max_timestamp |-> h[9],
        producer_id |-> h[10], base_sequence |-> h[12],
        records_count |-> h[13],
        next_offset |-> h[1] + h[7] + 1,
        buffer |-> buf]

(* A sequence number follows another one modulo maxInt + 1.                 *)
LastSequence(b, maxInt) ==
    IF b.base_sequence = -1 THEN -1
    ELSE IF b.base_sequence > maxInt - b.last_offset_delta
    THEN b.last_offset_delta - (maxInt - b.base_sequence) - 1
    ELSE b.base_sequence + b.last_offset_delta

DefaultValidateCrc(b) == b.crc = Crc(From(b.buffer, ATTRIBUTES_OFFSET))

BytesAt(buf, n) ==
    IF n.ok /\ n.value >= 0
    THEN [ok |-> TRUE, value |-> Slice(buf, n.pos, n.value),
          pos |-> n.pos + n.value]
    ELSE [n EXCEPT !.value = None]

(* Fields one after the other; each starts where the one before it ends.    *)
Advance(c, field) == [ok |-> c.ok /\ field.ok, pos |-> field.pos,
                      values |-> Append(c.values, field.value)]

ReadFields(buf, pos, kinds) ==
    LET n(c) == DecodeVarint(buf, c.pos)
        read[i \in 0 .. Len(kinds)] ==
            IF i = 0 THEN [ok |-> TRUE, pos |-> pos, values |-> << >>]
            ELSE Advance(read[i - 1],
                         IF kinds[i] = "varint" THEN n(read[i - 1])
                         ELSE BytesAt(buf, n(read[i - 1])))
    IN read[Len(kinds)]

TimestampType(attributes) ==
    IF HasBit(attributes, TIMESTAMP_TYPE_MASK) THEN 1 ELSE 0

RECORD_FIELDS == <<"varint", "varint", "varint", "varint",
                   "bytes", "bytes", "varint">>

(* The keys and values of the headers; a key may not be null.               *)
ReadHeaders(buf, pos, count) ==
    ReadFields(buf, pos, [i \in 1 .. 2 * count |-> "bytes"])
HeaderPairs(values) == [i \in 1 .. Len(values) \div 2 |->
                           <<values[2 * i - 1], values[2 * i]>>]

(* A record of a batch has no checksum of its own.                          *)
DefaultRecord(offset, timestamp, key, value, headers) ==
    [offset |-> offset, timestamp |-> timestamp, key |-> key, value |-> value,
     headers |-> headers]

(* v: length, attributes, timestamp delta, offset delta, key, value, count. *)
RecordFrom(b, v, pairs) ==
    DefaultRecord(b.base_offset + v[4],
                  IF TimestampType(b.attributes) = 1 THEN b.max_timestamp
                  ELSE b.first_timestamp + v[3],
                  v[5], v[6], pairs)

ReadMsgWith(b, fields, headers, start) ==
    [ok |-> /\ fields.ok /\ fields.values[7] >= 0 /\ headers.ok
            /\ \A p \in ToSet(HeaderPairs(headers.values)) : p[1] # None
            /\ headers.pos - start = fields.values[1],
     pos |-> headers.pos,
     record |-> RecordFrom(b, fields.values, HeaderPairs(headers.values))]

(* _read_msg                                                                *)
ReadMsg(b, buf, pos) ==
    LET fields == ReadFields(buf, pos, RECORD_FIELDS)
    IN ReadMsgWith(b, fields,
                   ReadHeaders(buf, fields.pos, fields.values[7]),
                   DecodeVarint(buf, pos).pos)

MaybeUncompress(b) ==
    LET data == From(b.buffer, calcsize(HEADER_STRUCT))
    IN IF CodecOf(b.attributes) = CODEC_NONE THEN data ELSE Decompress(data)

NextRecord(sofar, msg) ==
    IF sofar.ok /\ msg.ok
    THEN [ok |-> TRUE, pos |-> msg.pos,
          records |-> Append(sofar.records, msg.record)]
    ELSE [sofar EXCEPT !.ok = FALSE]

(* Iteration: records_count records, and then no cell may be left.          *)
DefaultRecords(b) ==
    LET buf == MaybeUncompress(b)
        read[n \in 0 .. b.records_count] ==
            IF n = 0 THEN [ok |-> TRUE, pos |-> 0, records |-> << >>]
            ELSE NextRecord(read[n - 1], ReadMsg(b, buf, read[n - 1].pos))
        all == read[b.records_count]
    IN [ok |-> all.ok /\ all.pos = Len(buf), records |-> all.records]

IsControlBatch(b) == b.magic = 2 /\ HasBit(b.attributes, CONTROL_MASK)

----------------------------------------------------------------------------
(* LegacyRecordBatchBuilder: message formats 0 and 1.  Each message has a   *)
(* header of its own; a compressed set is the value of one outer message.   *)

LEGACY_HEADER(magic) == IF magic = 0 THEN <<8, 4, 4, 1, 1>>
                        ELSE <<8, 4, 4, 1, 1, 8>>
MAGIC_OFFSET == LOG_OVERHEAD + 4

RECORD_OVERHEAD_V0 == calcsize(<<4, 1, 1, 4, 4>>)
RECORD_OVERHEAD_V1 == calcsize(<<4, 1, 1, 8, 4, 4>>)
RecordOverhead(magic) == IF magic = 0 THEN RECORD_OVERHEAD_V0
                         ELSE RECORD_OVERHEAD_V1
KeyOffset(magic) == calcsize(LEGACY_HEADER(magic))
LenOrZero(b) == IF b = None THEN 0 ELSE Len(b)
RecordSize(magic, key, value) ==
    RecordOverhead(magic) + LenOrZero(key) + LenOrZero(value)
LegacySizeInBytes(magic, key, value) ==
    LOG_OVERHEAD + RecordSize(magic, key, value)

LegacyEstimateSize(magic, codec, r) ==
    LOG_OVERHEAD + RecordSize(magic, r.key, r.value)
    + IF codec # CODEC_NONE THEN RecordOverhead(magic) ELSE 0

NewLegacyBuilder(magic, codec, batchSize) ==
    [magic |-> magic, codec |-> codec, batch_size |-> batchSize,
     buffer |-> << >>]

EncodeNullable(b) ==
    IF b = None THEN Pack(<<4>>, <<-1>>) ELSE Pack(<<4>>, <<Len(b)>>) \o b

(* The checksum covers the message from its magic byte to its end.          *)
WithLegacyCrc(msg) ==
    ReplaceAt(msg, MAGIC_OFFSET, Crc(From(msg, MAGIC_OFFSET)))

EncodeMsg(magic, offset, timestamp, key, value, attributes) ==
    LET length == LegacySizeInBytes(magic, key, value) - LOG_OVERHEAD
        header == Pack(LEGACY_HEADER(magic),
                       <<offset, length, 0, magic, attributes, timestamp>>)
    IN WithLegacyCrc(header \o EncodeNullable(key) \o EncodeNullable(value))

(* append: the record with offset 0 is always added.                        *)
LegacyAppend(b, offset, r) ==
    LET size == LegacySizeInBytes(b.magic, r.key, r.value)
        full == offset # 0 /\ Len(b.buffer) + size >= b.batch_size
        timestamp == IF b.magic = 0 THEN NO_TIMESTAMP ELSE r.timestamp
    IN [ok |-> ~full,
        builder |-> IF full THEN b ELSE
           [b EXCEPT !.buffer = @ \o EncodeMsg(b.magic, offset, timestamp,
                                               r.key, r.value, CODEC_NONE)]]

LegacyBuild(b) ==
    IF b.codec = CODEC_NONE THEN b.buffer
    ELSE EncodeMsg(b.magic, 0, 0, None, Compress(b.buffer), b.codec)

----------------------------------------------------------------------------
(* LegacyRecordBatch: one message of the buffer, or the messages inside it. *)

ReadHeader(magic, buf, pos) ==
    LET h == Unpack(LEGACY_HEADER(magic), buf, pos)
    IN [offset |-> h[1], length |-> h[2], crc |-> h[3], attributes |-> h[5],
        timestamp |-> IF magic = 0 THEN None ELSE h[6]]

LegacyRecordBatch(buf, magic) ==
    LET h == ReadHeader(magic, buf, 0)
    IN [magic |-> magic, base_offset |-> h.offset, crc |-> h.crc,
        attributes |-> h.attributes, timestamp |-> h.timestamp,
        buffer |-> buf]

LegacyValidateCrc(b) == b.crc = Crc(From(b.buffer, MAGIC_OFFSET))

ReadNullable(buf, pos) ==
    LET n == buf[pos + 4]
    IN IF n = -1 THEN [value |-> None, pos |-> pos + 4]
       ELSE [value |-> Slice(buf, pos + 4, n), pos |-> pos + 4 + n]

ReadKeyValue(buf, pos) ==
    LET key == ReadNullable(buf, pos)
    IN <<key.value, ReadNullable(buf, key.pos).value>>

(* _read_all_headers: where the messages of a buffer start.                 *)
ReadAllHeaders(magic, buf) ==
    LET from[pos \in Nat] ==
            IF pos >= Len(buf) THEN << >>
            ELSE <<pos>> \o from[pos + LOG_OVERHEAD
                                 + ReadHeader(magic, buf, pos).length]
    IN from[0]

\* Mutant: an inner offset is taken as it is in the message.
AbsoluteBaseAlwaysUnknown(b, inner, positions) == -1

(* The offset of the outer message is that of the last message inside it;   *)
(* offsets inside a message of format 0 are absolute.                       *)
AbsoluteBaseOffset(b, inner, positions) ==
    IF b.magic = 0 THEN -1
    ELSE b.base_offset - ReadHeader(b.magic, inner, Last(positions)).offset

(* The bytes a message's checksum covers, and the record of the message.    *)
CrcBytes(buf, pos, length) ==
    Slice(buf, pos + MAGIC_OFFSET, LOG_OVERHEAD + length - MAGIC_OFFSET)
LegacyRecord(offset, timestamp, kv, crc, crcBytes) ==
    [valid |-> crc = Crc(crcBytes),
     record |-> [offset |-> offset, timestamp |-> timestamp, key |-> kv[1],
                 value |-> kv[2], headers |-> << >>]]

LegacyTimestampType(b) == IF b.magic = 0 THEN None
                          ELSE TimestampType(b.attributes)

(* The message at a position; base is -1 where offsets are absolute.        *)
MessageAt(b, buf, pos, base) ==
    LET h == ReadHeader(b.magic, buf, pos)
    IN LegacyRecord(IF base >= 0 THEN h.offset + base ELSE h.offset,
                    IF LegacyTimestampType(b) = 1 THEN b.timestamp
                    ELSE h.timestamp,
                    ReadKeyValue(buf, pos + KeyOffset(b.magic)),
                    h.crc, CrcBytes(buf, pos, h.length))

(* _decompress: the messages inside, or None where the value is null.       *)
LegacyDecompress(b) ==
    LET data == ReadKeyValue(b.buffer, KeyOffset(b.magic))[2]
    IN IF data = None THEN None ELSE Decompress(data)

(* __iter__, with the check of every record that the fetcher makes.         *)
LegacyMessages(read) ==
    LET bad == {i \in DOMAIN read : ~read[i].valid}
        upto == IF bad = {} THEN Len(read) ELSE Min(bad) - 1
    IN [ok |-> bad = {}, records |-> [i \in 1 .. upto |-> read[i].record]]
LegacyInner(b, buf, positions) ==
    LET base == AbsoluteBaseOffset(b, buf, positions)
    IN LegacyMessages([i \in DOMAIN positions |->
                          MessageAt(b, buf, positions[i], base)])
LegacyRecords(b) ==
    IF CodecOf(b.attributes) = CODEC_NONE
    THEN LegacyMessages(<<MessageAt(b, b.buffer, 0, -1)>>)
    ELSE LET buf == LegacyDecompress(b)
         IN IF buf = None THEN [ok |-> FALSE, records |-> << >>]
            ELSE LegacyInner(b, buf, ReadAllHeaders(b.magic, buf))

----------------------------------------------------------------------------
(* MemoryRecords: the batches of a buffer, the last of which may be cut.    *)

MIN_SLICE == LOG_OVERHEAD + RECORD_OVERHEAD_V0

CacheNext(m) ==
    LET remaining == Len(m.buffer) - m.pos
        end == m.pos + LOG_OVERHEAD + m.buffer[m.pos + LOG_OVERHEAD]
    IN IF remaining < LOG_OVERHEAD \/ end > Len(m.buffer)
       THEN [m EXCEPT !.remaining_bytes = remaining, !.next_slice = None]
       ELSE [m EXCEPT !.next_slice = Slice(m.buffer, m.pos, end - m.pos),
                      !.pos = end]

MemoryRecords(buf) ==
    CacheNext([buffer |-> buf, pos |-> 0, next_slice |-> None,
               remaining_bytes |-> None])

(* valid_bytes reads ahead to the end and takes the iterator back.          *)
ValidBytes(m) ==
    LET left[pos \in 0 .. Len(m.buffer)] ==
            LET next == CacheNext([m EXCEPT !.pos = pos])
            IN IF next.next_slice = None THEN next.remaining_bytes
               ELSE left[next.pos]
    IN Len(m.buffer) - IF m.remaining_bytes # None THEN m.remaining_bytes
                       ELSE left[m.pos]

HasNext(m) == m.next_slice # None

(* next_batch, when there is one: too short a slice is a corrupt record.    *)
TooShort(m) == Len(m.next_slice) < MIN_SLICE
BatchAt(slice) ==
    LET magic == slice[MAGIC_OFFSET + 1]
    IN IF magic <= 1 THEN LegacyRecordBatch(slice, magic)
       ELSE DefaultRecordBatch(slice)

ValidateCrc(b) == IF b.magic = 2 THEN DefaultValidateCrc(b)
                  ELSE LegacyValidateCrc(b)
RecordsOf(b) == IF b.magic = 2 THEN DefaultRecords(b) ELSE LegacyRecords(b)
=============================================================================
