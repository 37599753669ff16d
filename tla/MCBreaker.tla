------------------------------ MODULE MCBreaker ------------------------------
\* Instances of CircuitBreaker for TLC.
EXTENDS CircuitBreaker, TLC

CONSTANTS c1, c2

MCCallers == {c1, c2}
==============================================================================
