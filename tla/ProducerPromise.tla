-------------------------- MODULE ProducerPromise --------------------------
(***************************************************************************)
(* How the producer's state shows what OrderedDelivery promises.           *)
(***************************************************************************)
EXTENDS Producer

accepted == [p \in Partitions |-> {b \in 1 .. created : tp[b] = p}]
stream == [p \in Partitions |-> [i \in 1 .. Len(log[p]) |-> log[p][i].batch]]
acked == [p \in Partitions |-> {b \in accepted[p] : final[b] = "SUCCEEDED"}]

Promise == INSTANCE OrderedDelivery WITH Items <- Batches

\* An idempotent producer whose batches do not expire, that meets errors it may
\* retry and may retry as often as they occur, writes every partition's
\* batches once, in the order of creation, and acknowledges them in that order.
ImplementsOrderedDelivery == Promise!DSpec

============================================================================
