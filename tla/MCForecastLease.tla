--------------------------- MODULE MCForecastLease ---------------------------
(* Small instances of ForecastLease for TLC.                               *)
EXTENDS ForecastLease

CONSTANTS w1, w2, w3, p1, p2, p3

\* A process for every worker, and two workers in one process.
Apart == [w \in {w1, w2, w3} |-> IF w = w1 THEN p1 ELSE IF w = w2 THEN p2 ELSE p3]
Together == [w \in {w1, w2, w3} |-> IF w = w3 THEN p2 ELSE p1]
=============================================================================
