--------------------------- MODULE MCOverlayControl ---------------------------
(* OverlayControl with two overlays: only one of them has both of the IPs  *)
(* that the dispatched command requires.                                   *)
EXTENDS OverlayControl, TLC

CONSTANTS full, half, ip1, ip2

MCIpsOf == full :> {ip1, ip2} @@ half :> {ip1}

Symmetry == Permutations(Sessions) \cup Permutations(Workers)
=============================================================================
