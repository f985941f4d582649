------------------------- MODULE MCProducerThreads -------------------------
(* Instances of ProducerThreads for TLC. *)
EXTENDS ProducerThreads

CONSTANTS t1, t2, p1, p2, p3, n1, n2

On(n, parts) == [p \in Partitions |-> IF p \in parts THEN n ELSE None]

\* Two appending threads, one of them late, and close().
Closing ==
    [appenders |-> {t1, t2}, partitions |-> <<p1>>, leader |-> On(n1, {p1}),
     blocked |-> {}, linger |-> 0, backoff |-> 0, request |-> 1, order |-> FALSE,
     calls |-> "positive", down |-> FALSE, batches |-> 3, retries |-> 0, fills |-> FALSE]

\* Lingering and backing off on two nodes; the leader of p2 is known late.
Timing ==
    [appenders |-> {t1}, partitions |-> <<p1, p2>>, leader |-> On(n1, {p1}),
     blocked |-> {}, linger |-> 2, backoff |-> 1, request |-> 2, order |-> TRUE,
     calls |-> "none", down |-> TRUE, batches |-> 2, retries |-> 1, fills |-> TRUE]

\* flush() while a batch lingers or backs off.
Flushing ==
    [appenders |-> {t1}, partitions |-> <<p1, p2>>, leader |-> On(n1, {p1, p2}),
     blocked |-> {}, linger |-> 1, backoff |-> 2, request |-> 1, order |-> TRUE,
     calls |-> "flush", down |-> FALSE, batches |-> 2, retries |-> 1, fills |-> FALSE]

\* Partitions that wait for the transaction coordinator.
Blocking ==
    [appenders |-> {t1}, partitions |-> <<p1, p2, p3>>, leader |-> On(n1, {p1, p2, p3}),
     blocked |-> {p1}, linger |-> 0, backoff |-> 0, request |-> 3, order |-> TRUE,
     calls |-> "none", down |-> FALSE, batches |-> 3, retries |-> 0, fills |-> FALSE]

MCSetups == {Closing, [Closing EXCEPT !.batches = 2, !.retries = 1],
             Timing, Flushing, Blocking}
============================================================================
