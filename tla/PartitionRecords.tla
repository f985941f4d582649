-------------------------- MODULE PartitionRecords --------------------------
(***************************************************************************)
(* What a consumer does with the bytes of one fetched partition:           *)
(* Fetcher.PartitionRecords of kafka/consumer/fetcher.py, a lazy generator *)
(* that unpacks record batches, filters aborted transactions and control   *)
(* batches, and moves next_fetch_offset as it goes.                        *)
(*                                                                         *)
(* A batch is a record                                                     *)
(*   [base, next, recs, pid, txn, control, bad]                            *)
(* base and next are base_offset and next_offset, recs the offsets of the  *)
(* records still in the batch (compaction leaves gaps), pid the producer   *)
(* id or NoPid, control "no", "abort" or "commit", bad a failing CRC.      *)
(* The generator is the sequence of the things it will still do.           *)
(***************************************************************************)
EXTENDS Integers, Sequences, FiniteSets, FiniteSetsExt

CONSTANT NoPid

LastOffset(b) == b.next - 1

(* The transactions the generator has moved to aborted_producer_ids, less   *)
(* the producers whose abort marker it has passed, after i batches.         *)
AbortedProducers(batches, aborted) ==
    LET consumed[i \in 0 .. Len(batches)] ==
            IF i = 0 THEN {}
            ELSE LET b == batches[i] IN
                 IF b.pid = NoPid THEN consumed[i - 1]
                 ELSE consumed[i - 1]
                      \cup {t \in aborted : t.first <= LastOffset(b)}
        ids[i \in 0 .. Len(batches)] ==
            IF i = 0 THEN {}
            ELSE LET b == batches[i]
                     added == {t.pid : t \in consumed[i] \ consumed[i - 1]}
                 IN  IF b.control = "abort"
                     THEN (ids[i - 1] \cup added) \ {b.pid}
                     ELSE ids[i - 1] \cup added
    IN ids

IsBatchAborted(b, ids) == b.txn /\ b.pid \in ids

(* What unpacking one batch does, in order.                                 *)
BatchSteps(b, ids, readCommitted) ==
    IF b.bad THEN << [k |-> "raise"] >>
    ELSE IF \/ b.control # "no"
            \/ readCommitted /\ b.pid # NoPid /\ IsBatchAborted(b, ids)
         THEN << [k |-> "skip", next |-> b.next] >>
         ELSE [i \in DOMAIN b.recs |->
                  [k |-> "record", offset |-> b.recs[i],
                                   next |-> b.recs[i] + 1]]

(* _unpack_records: the steps of all batches, cut after a CRC error, and a  *)
(* last step that moves past the last batch and drains.                     *)
UnpackRecords(fetchOffset, batches, aborted, readCommitted) ==
    LET ids == AbortedProducers(batches, aborted)
        bads == {i \in DOMAIN batches : batches[i].bad}
        upto == IF bads = {} THEN Len(batches) ELSE Min(bads)
        steps[i \in 0 .. upto] ==
            IF i = 0 THEN << >>
            ELSE steps[i - 1] \o BatchSteps(batches[i], ids[i], readCommitted)
        final == IF batches = << >> THEN fetchOffset
                 ELSE batches[Len(batches)].next
    IN IF bads # {} THEN steps[upto]
       ELSE Append(steps[upto], [k |-> "drain", next |-> final])

NewPartitionRecords(tp, fetchOffset, batches, aborted, readCommitted) ==
    [tp |-> tp, fetch_offset |-> fetchOffset,
     next_fetch_offset |-> fetchOffset,
     todo |-> UnpackRecords(fetchOffset, batches, aborted, readCommitted),
     inline_exception |-> FALSE, read |-> FALSE, drained |-> FALSE]

(* take(n): run the generator until it has yielded n records at or above    *)
(* fetch_offset, has raised or has drained.  A generator that has raised    *)
(* is finished: its todo is empty and it yields nothing more, but it is     *)
(* not drained.                                                             *)
Take(part, n) ==
    LET todo == part.todo
        Yields(i) == todo[i].k = "record" /\ todo[i].offset >= part.fetch_offset
        yielded(i) == {j \in 1 .. i : Yields(j)}
        stops == {i \in DOMAIN todo : \/ todo[i].k \in {"raise", "drain"}
                                      \/ Cardinality(yielded(i)) = n}
        stop == IF stops = {} THEN Len(todo) ELSE Min(stops)
        moved == {i \in 1 .. stop : todo[i].k # "raise"}
        records == [i \in 1 .. Cardinality(yielded(stop)) |->
                       LET j == CHOOSE j \in yielded(stop) :
                                    Cardinality(yielded(j)) = i
                       IN todo[j].offset]
        raises == todo # << >> /\ todo[stop].k = "raise"
    IN IF part.inline_exception
       THEN [records |-> << >>, raised |-> TRUE,
             part |-> [part EXCEPT !.inline_exception = FALSE]]
       ELSE [records |-> records,
             raised  |-> raises /\ records = << >>,
             part    |-> [part EXCEPT
                !.todo = IF raises THEN << >>
                         ELSE SubSeq(todo, stop + 1, Len(todo)),
                !.next_fetch_offset = IF moved = {} THEN @
                                      ELSE todo[Max(moved)].next,
                !.inline_exception = raises /\ records # << >>,
                !.read = @ \/ \E i \in 1 .. stop : todo[i].k = "record",
                !.drained = todo # << >> /\ todo[stop].k = "drain"]]

\* Mutant: the record iterator is not dropped.
DrainNothing(part) == part

Drain(part) == [part EXCEPT !.drained = TRUE, !.todo = << >>,
                            !.inline_exception = FALSE]

(* The records of a log a consumer is meant to see: not in a control batch  *)
(* and, for a read-committed consumer, not of an aborted transaction.       *)
Visible(log, abortedBatches, readCommitted) ==
    UNION {{log[i].recs[j] : j \in DOMAIN log[i].recs} :
              i \in {i \in DOMAIN log :
                        /\ log[i].control = "no"
                        /\ ~(readCommitted /\ i \in abortedBatches)}}
=============================================================================
