---------------------------- MODULE MCAssignors ----------------------------
EXTENDS Assignors, TLC

\* Every member in a process of its own, or two of them in one.
Apart  == [m \in Members |-> m]
Shared == [m \in Members |-> IF m = 3 THEN 2 ELSE m]

Setup(assignor, count, host, internal, changes, rebalances) ==
    [assignor |-> assignor, count |-> count, host |-> host,
     internal |-> internal, changes |-> changes, rebalances |-> rebalances]

AllSetups ==
    {Setup("range", <<5, 2>>, Apart, {}, {"topics"}, 1),
     Setup("roundrobin", <<5, 2>>, Apart, {}, {"topics"}, 1),
     Setup("sticky", <<5, 1>>, Apart, {}, {}, 1),
     Setup("sticky", <<2, 2>>, Apart, {2}, {}, 1),
     Setup("sticky", <<3, 1>>, Apart, {}, {}, 3),
     Setup("sticky", <<2, 2>>, Apart, {}, {"subscribe"}, 2),
     Setup("sticky", <<2, 2>>, Shared, {}, {"miss", "topics"}, 2)}

Resubscribed == {Setup("sticky", <<3, 1>>, Apart, {}, {"subscribe"}, 3)}
=============================================================================
