---------------------------- MODULE MCQuotePages ----------------------------
(* One request, its seller's page and the pages of two administrators. *)
EXTENDS QuotePages, TLC

CONSTANTS r1, c1, c2, c3, a1, a2

OneRequest == {r1}
ThreeCalls == {c1, c2, c3}
TwoAdmins == {a1, a2}
Prices == {1, 2}

Symmetry == Permutations(Call) \cup Permutations(Admin)
=============================================================================
