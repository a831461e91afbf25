-------------------------------- MODULE Sale --------------------------------
(***************************************************************************)
(* What one checkout key stands for: one order, which is offered to its    *)
(* payer before it is charged, is settled once it is charged, and is       *)
(* refused only while nobody can pay it.                                   *)
(***************************************************************************)
CONSTANT Key

VARIABLE sale

Init == sale = [k \in Key |-> "none"]

Moves == {<<"none", "open">>, <<"open", "offered">>, <<"open", "refused">>,
          <<"offered", "charged">>, <<"charged", "settled">>}

Move(k) == \E m \in Moves : sale[k] = m[1] /\ sale' = [sale EXCEPT ![k] = m[2]]

Next == \E k \in Key : Move(k)

Spec == Init /\ [][Next]_sale
=============================================================================
