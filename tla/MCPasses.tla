------------------------------ MODULE MCPasses ------------------------------
(* Passes for TLC: one buyer with two orders, two deliveries or grants. *)
EXTENDS Passes

CONSTANTS u1, o1, o2, c1, c2, r1, r2

OneUser == {u1}
TwoOrders == {o1, o2}
TwoRefs == {r1, r2}
TwoCalls == {c1, c2}
OneOwner == [o \in Order |-> u1]
OneDay == {1}
=============================================================================
