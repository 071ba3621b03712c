------------------------- MODULE MCRiskScanRetention -------------------------
(* RiskScanRetention on small instances: see the .cfg files. *)
EXTENDS RiskScanRetention, TLC

\* The first two requests come from one client.
MCClientOf == [r \in Runs |-> IF r <= 2 THEN "c1" ELSE "c2"]

MCSymmetry == Permutations(Channels)
=============================================================================
