----------------------------- MODULE MCConsumer -----------------------------
(* Small instances of Consumer for TLC.                                     *)
EXTENDS Consumer

CONSTANTS p1, p2, n1, n2

Batch(first, next, recs, pid, txn, control, bad) ==
    [base |-> first, next |-> next, recs |-> recs, pid |-> pid, txn |-> txn,
     control |-> control, bad |-> bad]

(* One partition: an aborted transaction and its marker, then a committed   *)
(* one of the same producer whose last record was compacted away.           *)
TxnLog == << Batch(0, 1, << 0 >>, 1, TRUE, "no", FALSE),
             Batch(1, 2, << 1 >>, 1, TRUE, "abort", FALSE),
             Batch(2, 5, << 2, 3 >>, 1, TRUE, "no", FALSE) >>
(* As TxnLog after compaction: only the marker is left of the aborted one.  *)
CompactedLog == << Batch(0, 2, << 1 >>, 1, TRUE, "abort", FALSE),
                   Batch(2, 5, << 2 >>, 1, TRUE, "no", FALSE) >>
(* Another: one plain record.                                               *)
PlainLog == << Batch(0, 1, << 0 >>, NoPid, FALSE, "no", FALSE) >>
(* As PlainLog, with a second batch that fails its CRC check.               *)
CorruptLog == Append(PlainLog, Batch(1, 2, << 1 >>, NoPid, FALSE, "no", TRUE))

Config(group, iterator, reset, read_committed, auto_commit) ==
    [group |-> group, iterator |-> iterator, reset |-> reset,
     read_committed |-> read_committed, auto_commit |-> auto_commit]

OneTP == {p1}
TwoTPs == {p1, p2}
OneNode == {n1}
TwoNodes == {n1, n2}
MCLeader == [tp \in TPs |-> IF tp = p2 /\ n2 \in Nodes THEN n2 ELSE n1]
MCLog == p1 :> TxnLog @@ p2 :> PlainLog
MCCompacted == p1 :> CompactedLog @@ p2 :> PlainLog
MCCorrupt == p1 :> CorruptLog
MCAborted == p1 :> {[pid |-> 1, first |-> 0, last |-> 1]} @@ p2 :> {}
MCAbortedBatches == p1 :> {1} @@ p2 :> {}
NoAborted == p1 :> {} @@ p2 :> {}

SafetyConfigs == {Config(TRUE, TRUE, "earliest", FALSE, TRUE),
                  Config(TRUE, FALSE, "latest", TRUE, TRUE),
                  Config(FALSE, FALSE, None, TRUE, FALSE)}

ProgressConfigs == {Config(TRUE, FALSE, "earliest", TRUE, FALSE),
                    Config(FALSE, TRUE, "earliest", FALSE, FALSE)}
=============================================================================
