----------------------------- MODULE MCSessions -----------------------------
(* Two Google accounts of one address, and another address. *)
EXTENDS Sessions

CONSTANTS u1, u2, e1, e2, g1, g2, c1, c2, a1, a2

MCUser == {u1, u2}
MCEmail == {e1, e2}
MCSubject == {g1, g2}
MCMailOf == [g \in MCSubject |-> e1]
TwoCalls == {c1, c2}
MCAttempt == {a1, a2}
=============================================================================
