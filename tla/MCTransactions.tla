--------------------------- MODULE MCTransactions ---------------------------
(* Transactions for TLC: instances, fairness and the liveness properties. *)
EXTENDS Transactions, TLC

CONSTANTS p1, p2

Setup(partitions, sends, kinds, flush) ==
    [partitions |-> partitions, sends |-> sends, faults |-> kinds, flush |-> flush]

Transient == {"disconnect", "retriable", "produceRetriable", "produceFails"}

MCSetups == {Setup({p1}, 3, AllFaults, TRUE), Setup({p1, p2}, 2, AllFaults, TRUE),
             Setup({p1, p2}, 2, AllFaults, FALSE), Setup({p1}, 2, Transient, TRUE)}

\* The sender thread keeps running run_once; a request that is asked again and
\* again is eventually answered without an error.
FairSpec ==
    /\ Spec
    /\ WF_vars(RunOnce)
    /\ SF_vars(Success)
    /\ \A s \in Sends : SF_vars(ProduceOk(s))

\* init_transactions, send_offsets_to_transaction, commit_transaction and
\* abort_transaction return (or raise) in the application: the result they
\* wait for without a timeout is eventually completed, if faults are transient.
CallReturns == setup.faults \subseteq Transient => (result = "pending") ~> (result # "pending")

\* commit_transaction returns, or raises as its docstring says when the
\* coordinator answered with a fatal error such as a fenced producer.
CommitReturns == (state = "COMMITTING" /\ result = "pending") ~> (result # "pending")

=============================================================================
