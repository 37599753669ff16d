----------------------------- MODULE MCBatchQueue -----------------------------
\* Instances of BatchQueue for TLC: every queue of the program, three records.
EXTENDS BatchQueue

CONSTANTS r1, r2, r3, w1, w2

MCRecords == {r1, r2, r3}
MCKinds   == {"usage", "audit", "alert", "request", "lblog", "monitor"}
MCWorkers == {w1, w2}
===============================================================================
