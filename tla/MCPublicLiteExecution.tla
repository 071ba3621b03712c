------------------------ MODULE MCPublicLiteExecution ------------------------
(* PublicLiteExecution on small instances: see the .cfg files. *)
EXTENDS PublicLiteExecution, TLC

MCSymmetry == Permutations(Channels) \cup Permutations(Invocations)
=============================================================================
