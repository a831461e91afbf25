--------------------------- MODULE MCReservations ---------------------------
(* Reservations for TLC: a few calls against one listing. *)
EXTENDS Reservations

CONSTANTS l1, c1, c2, c3, c4

OneListing == {l1}
FourCalls == {c1, c2, c3, c4}

(* Less than a point is worth, which earns one all the same. *)
Amounts == {500}
=============================================================================
