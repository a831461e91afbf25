----------------------------- MODULE MCQuoting -----------------------------
(* Quoting for TLC: a few calls against one scrap request. *)
EXTENDS Quoting

CONSTANTS r1, c1, c2, c3

OneRequest == {r1}
ThreeCalls == {c1, c2, c3}

(* One price inside the band 1 .. 1 and one above it. *)
Prices == {1, 2}
=============================================================================
