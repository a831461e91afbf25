-------------------------- MODULE MCBuyerPassPanel --------------------------
(* Two attempts and three requests of one buyer's tab. *)
EXTENDS BuyerPassPanel

CONSTANTS k1, k2, c1, c2, c3

MCKey == {k1, k2}
MCCall == {c1, c2, c3}
=============================================================================
