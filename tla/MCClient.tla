------------------------------ MODULE MCClient ------------------------------
(* Instances of Client: one bootstrap server, one broker, two threads.      *)
EXTENDS Client

CONSTANTS boot, broker, t1, t2

MCBootstrap == {boot}
MCNodes == {broker}
MCThreads == {t1, t2}

Setup(security, age, threads, pollers, n) ==
    [security |-> security, broker |-> age, threads |-> threads, pollers |-> pollers,
     max_in_flight |-> n]

(* A consumer and its heartbeat thread; a producer's sender and the thread  *)
(* that calls send(); one thread for each way to set a connection up.       *)
AllSetups ==
    {Setup("PLAINTEXT", None, {t1, t2}, {t1, t2}, 1),
     Setup("PLAINTEXT", None, {t1, t2}, {t1}, 2)}
    \cup {Setup(s, None, {t1}, {t1}, 1) : s \in {"SSL", "SASL"}}
    \cup {Setup("PLAINTEXT", age, {t1}, {t1}, 1) : age \in {"new", "mid", "old"}}
=============================================================================
