---------------------------- MODULE MCHiSLIPServer ----------------------------
(* HiSLIPServer with a few connections; they are interchangeable.          *)
EXTENDS HiSLIPServer, TLC

Symmetry == Permutations(SyncConns) \cup Permutations(AsyncConns)
=============================================================================
