---------------------------- MODULE MCProducer ----------------------------
(***************************************************************************)
(* Instances of Producer for TLC, and the fairness under which its         *)
(* liveness properties are checked.                                        *)
(***************************************************************************)
EXTENDS ProducerPromise, TLC

Symmetry == Permutations(Partitions) \cup Permutations(Nodes)

\* The sender thread runs: run_once never blocks for longer than a poll.
SenderFair == WF_vars(RunOnce)

\* Time passes.
ClockFair == WF_vars(Tick)

\* The cluster stays reachable: a node that is asked answers, a poll handles
\* the responses that have arrived, and a partition whose leader keeps being
\* ready is drained.
NetworkFair ==
    /\ \A b \in Batches : WF_vars(BrokerAppend(b))
    /\ SF_vars(\E R \in requests : Response(R))
    /\ \A p \in Partitions : SF_vars(\E P \in SUBSET Partitions : p \in P /\ Drain(P))

SpecTimed == Spec /\ SenderFair /\ ClockFair
SpecReachable == Spec /\ SenderFair /\ NetworkFair

\* Every record accepted by send() is reported as sent or failed, even when no
\* node ever answers: the delivery timeout sees to it.
Reported == \A b \in Batches : (b <= created) ~> (final[b] # "none")

\* Every record accepted by send() is acknowledged while the cluster stays
\* reachable and errors are transient: retries never starve it.
Acknowledged == \A b \in Batches : (b <= created) ~> (final[b] = "SUCCEEDED")
============================================================================
