------------------------------- MODULE MCWork -------------------------------
EXTENDS Work

CONSTANTS w1, d1, q1, q2, t1, t2

MCWorks == {w1, d1}
MCDelayable == {d1}
MCQueues == {q1, q2}
MCThreads == {t1, t2}
TwoQueuesOrThreads ==
    {[queues |-> {q1, q2}, threads |-> {t1}], [queues |-> {q1}, threads |-> {t1, t2}]}
=============================================================================
