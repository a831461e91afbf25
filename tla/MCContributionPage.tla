------------------------- MODULE MCContributionPage -------------------------
(* One user's page with an earlier row or two, and two administrators: one *)
(* report is new and two are there, since verdicts are many already.       *)
EXTENDS ContributionPage, TLC

CONSTANTS v1, v2

TwoVerdicts == {v1, v2}
EarlierRows == [scrap |-> {1, 2}, cleanup |-> {2}]

Symmetry == Permutations(Verdict)
=============================================================================
