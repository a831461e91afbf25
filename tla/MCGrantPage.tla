---------------------------- MODULE MCGrantPage ----------------------------
(* One administrator's page, one buyer and two calls. *)
EXTENDS GrantPage

CONSTANTS u1, o1, r1, c1, c2

OneUser == {u1}
OneOrder == {o1}
OneRef == {r1}
TwoCalls == {c1, c2}
OneOwner == [o \in Order |-> u1]
OneDay == {1}
=============================================================================
