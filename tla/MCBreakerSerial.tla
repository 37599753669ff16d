--------------------------- MODULE MCBreakerSerial ---------------------------
\* Instances of BreakerRefinement for TLC.
EXTENDS BreakerRefinement

CONSTANTS c1, c2

MCCallers == {c1, c2}
==============================================================================
