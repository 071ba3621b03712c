------------------------ MODULE MCPublicLitePipeline ------------------------
(* PublicLitePipeline on small instances: see the .cfg files. *)
EXTENDS PublicLitePipeline, TLC
=============================================================================
