------------------------- MODULE ProducerInvariants -------------------------
(***************************************************************************)
(* The inductive invariants of Producer: IInv for what the sender and the  *)
(* accumulator keep, OInv for the order of the logs, and XInv for the      *)
(* idempotent producer that retries as often as there are faults.          *)
(***************************************************************************)
EXTENDS Producer

\* What the types do not say of batches that exist: where they belong, and
\* that only they are queued or sent.
Placed ==
    /\ \A b \in 1 .. created : tp[b] \in Partitions
    /\ \A p \in Partitions : \A b \in Queued(p) : b <= created /\ tp[b] = p
    /\ \A b \in Pending : b <= created
    /\ \A b \in Batches : final[b] # "none" => b <= created

\* What run_once keeps between its phases.
Phases ==
    /\ pc \in {"loop", "poll"} => drained = {} /\ expired = {} /\ ~needsReset
    /\ pc \in {"expireQueued", "fail"} => handling = {}

\* A batch is in one request, or in the response being handled, or drained,
\* or queued: never in two of these.
Separate ==
    /\ drained \cap UNION requests = {}
    /\ handling \cap UNION requests = {}
    /\ \A R, S \in requests : R # S => R \cap S = {}
    /\ \A p \in Partitions : Queued(p) \cap Pending = {}

\* A batch that was acknowledged has no second outcome to come.
SucceededIsSettled == \A b \in Pending : final[b] # "SUCCEEDED"

\* The sequence number of a partition exists as long as a batch of it carries
\* the current producer id.
Sequenced ==
    Idempotent =>
        /\ producerId <= lastPid
        /\ \A b \in Batches : bpid[b] <= lastPid /\ (bpid[b] # NoPid => b <= created)
        /\ \A b \in Pending : bpid[b] # NoPid
        /\ \A b \in Batches : attempts[b] > 0 => bpid[b] # NoPid
        /\ \A p \in Partitions : sequence[p] >= NoSeq
        /\ \A b \in Batches : producerId # NoPid /\ bpid[b] = producerId
              => sequence[tp[b]] # NoSeq

IInv ==
    /\ TypeOK /\ Placed /\ Phases /\ Separate
    /\ NothingLost /\ OneInFlight
    /\ SucceededIsSettled /\ Sequenced /\ NeverRaises

\* The part of IInv that the types do not give.
Rest ==
    /\ Placed /\ Phases /\ Separate /\ NothingLost /\ OneInFlight
    /\ SucceededIsSettled /\ Sequenced /\ NeverRaises

----------------------------------------------------------------------------
(* The order of the logs *)

\* z is a copy of a batch that the broker has, or may still receive from a
\* request the client has given up.
IsCopy(z) == z \in zombies \/ \E p \in Partitions : z \in Range(log[p])

Copied(b) == \E z \in Copies : IsCopy(z) /\ z.batch = b

\* A batch keeps its header once it was copied: its records were closed, and a
\* retry keeps the producer id and sequence of the first send.
Faithful ==
    /\ \A z \in Copies : IsCopy(z) => z.batch <= created /\ z = Copy(z.batch)
    /\ \A p \in Partitions : \A z \in Range(log[p]) : z.tp = p

\* A batch that was copied is in a deque only as a retry.
Closed == \A p \in Partitions : \A b \in Queued(p) : Copied(b) => attempts[b] > 0

\* A batch that may have been sent.
Sent(b) == b \in Pending \/ attempts[b] > 0 \/ Copied(b)

\* With the order guaranteed, a batch is sent only when the outcome of every
\* older one of its partition is known and none of them is to be retried.
OldersSettled ==
    /\ \A b \in Batches : attempts[b] > 0 => b <= created
    /\ GuaranteeOrder => \A a, b \in Batches :
        a < b /\ tp[a] = tp[b] /\ Sent(b) => a \notin Queued(tp[a]) /\ a \notin Pending

\* A batch that the broker confirmed is in the log, or the broker took it for
\* one that is.
Answered ==
    /\ \A b \in Batches : reply[b] # "none" => b \in handling \cup UNION requests
    /\ \A b \in Batches : reply[b] = "ok" \/ final[b] = "SUCCEEDED"
           => b \in Written(tp[b]) \/ IsDuplicate(Copy(b))

\* Wherever a copy is in a log, every older batch that was acknowledged, and
\* is in that log at all, is before it.
Ordered ==
    GuaranteeOrder => \A p \in Partitions : \A j \in 1 .. Len(log[p]), b \in Written(p) :
        b < log[p][j].batch /\ final[b] = "SUCCEEDED" => \E i \in 1 .. j - 1 : log[p][i].batch = b

OInv ==
    /\ QueueInOrder /\ Faithful /\ Closed /\ OldersSettled
    /\ Answered /\ NoDuplicates /\ Ordered

----------------------------------------------------------------------------
(* Sequence numbers without gaps *)

\* The configurations in which no batch fails.
Forgiving ==
    /\ Idempotent /\ ~Expiry
    /\ ErrorKinds \subseteq {"retriable"}
    /\ MaxFaults <= Retries

\* Nothing expires, and no batch meets more errors than it may be retried for.
Smooth ==
    /\ clock = 0 /\ now = 0 /\ expired = {} /\ ~needsReset
    /\ inFlight \subseteq Pending
    /\ \A b \in handling : reply[b] # "none"
    /\ \A b \in Batches :
        /\ final[b] # "FAILED" /\ reply[b] \in {"none", "ok", "retriable"}
        /\ attempts[b] <= faults /\ (reply[b] = "retriable" => attempts[b] < faults)
        /\ b <= created => count[b] > 0

\* A batch that was sent carries the only producer id there ever is, and until
\* it is acknowledged the sequence its partition stands at.
Stamped == \A b \in Batches : Sent(b) =>
    /\ bpid[b] = producerId /\ producerId # NoPid
    /\ final[b] = "none" => bseq[b] = SequenceNumber(tp[b])

\* The sequence numbers in a log leave no gap: only its last batch may still be
\* unacknowledged, and the partition's sequence stands behind the
\* acknowledged ones.
Gapless == \A p \in Partitions :
    LET n == Len(log[p]) IN
    /\ \A i, j \in 1 .. n : i < j => log[p][i].seq + log[p][i].count <= log[p][j].seq
    /\ \A i \in 1 .. n : i # n => final[log[p][i].batch] = "SUCCEEDED"
    /\ n = 0 => SequenceNumber(p) = 0
    /\ n > 0 /\ final[log[p][n].batch] = "SUCCEEDED"
           => SequenceNumber(p) = log[p][n].seq + log[p][n].count

\* What the broker confirmed it wrote.
WrittenFirst == \A b \in Batches :
    reply[b] = "ok" \/ final[b] = "SUCCEEDED" => b \in Written(tp[b])

XInv == Smooth /\ Stamped /\ Gapless /\ WrittenFirst

=============================================================================
