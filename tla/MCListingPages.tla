--------------------------- MODULE MCListingPages ---------------------------
(* ListingPages for TLC: two calls against two listings. *)
EXTENDS ListingPages

CONSTANTS l1, l2, c1, c2

TwoListings == {l1, l2}
TwoCalls == {c1, c2}
Amounts == {500}
=============================================================================
