----------------------------- MODULE PassLedger -----------------------------
(***************************************************************************)
(* What a buyer is promised for money: each paid order gives its owner one *)
(* full pass, which starts when everything bought before has run out and   *)
(* is never moved, shortened or taken back.                                *)
(***************************************************************************)
EXTENDS Integers

CONSTANTS Order, Owner, Days, None

VARIABLE start   \* where the pass of an order starts, None before it is paid

Init == start = [o \in Order |-> None]

Bought(u) == {o \in Order : Owner[o] = u /\ start[o] # None}

Activate(o) ==
  /\ start[o] = None
  /\ start'[o] \in Nat
  /\ \A p \in Bought(Owner[o]) : start[p] + Days <= start'[o]
  /\ start' = [start EXCEPT ![o] = start'[o]]

Next == \E o \in Order : Activate(o)

Spec == Init /\ [][Next]_start
=============================================================================
