---------------------------- MODULE MCLoadBalancer ----------------------------
\* Instances of LoadBalancer for TLC.
EXTENDS LoadBalancer

CONSTANTS n1, n2, r1, r2

MCNodes == {n1, n2}
MCNodeOrder == <<n1, n2>>
MCRequests == {r1, r2}
MCOneRequest == {r1}
MCWeight == [n \in MCNodes |-> IF n = n1 THEN 0 ELSE 1]
===============================================================================
