----------------------- MODULE MCHandoffReconciliation -----------------------
(* HandoffReconciliation on a small instance: see the .cfg file.            *)
EXTENDS HandoffReconciliation, TLC

\* One tick doubled at each attempt, up to two: the code has 1, 2, 4 and 8
\* minutes, up to 15.
MCRetryDelay == [attempt \in 1..MaxAttempts |->
                   IF 2 ^ (attempt - 1) <= 2 THEN 2 ^ (attempt - 1) ELSE 2]

\* Handoffs are interchangeable, and no property is temporal.
Symmetry == Permutations(Handoffs)
=============================================================================
