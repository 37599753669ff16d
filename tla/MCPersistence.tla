------------------------------ MODULE MCPersistence ------------------------------
(* The small instance of Persistence. *)
EXTENDS Persistence

CONSTANTS l1, l2, w1, w2, c1, c2, ca, cb, lb, f1, f2, t1, t2, u1, ad1, ad2,
          s1, s2, na, nb, r1, r2, m1, m2, g1, g2, n1

\* Half a day west of Greenwich.
West == -1

\* The load balancer lists its configuration twice.
MCNodes == <<n1, n1>>

Symmetry == UNION {Permutations(S) : S \in
              {Administrators, Getters}}
==================================================================================
