----------------------------- MODULE MCHiSLIPLink -----------------------------
(* HiSLIPLink on small instances: the bounds are given in the .cfg files.  *)
EXTENDS HiSLIPLink
=============================================================================
