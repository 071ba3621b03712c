------------------------- MODULE MCPublicLiteHandoff -------------------------
(* PublicLiteHandoff on a small instance: see the .cfg file.  It has no     *)
(* symmetry, which would not be sound for HandoffsSettle.                   *)
EXTENDS PublicLiteHandoff
=============================================================================
