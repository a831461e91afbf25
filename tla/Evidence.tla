------------------------------ MODULE Evidence ------------------------------
(***************************************************************************)
(* What a photo stands for: once it is kept it can be sent in, once, and   *)
(* what is sent in is judged once, for the points that come with a         *)
(* verification or for none.                                               *)
(***************************************************************************)
CONSTANT Photo

VARIABLES
  kept,      \* the photos that are there to stay
  sent,      \* those that are evidence of something
  verified, rejected,
  credited   \* those that have earned points

vars == <<kept, sent, verified, rejected, credited>>

Init ==
  /\ sent \subseteq Photo /\ kept = sent
  /\ verified = {} /\ rejected = {} /\ credited = {}

Keep ==
  /\ \E p \in Photo \ kept : kept' = kept \cup {p}
  /\ UNCHANGED <<sent, verified, rejected, credited>>

Send ==
  /\ \E p \in kept \ sent : sent' = sent \cup {p}
  /\ UNCHANGED <<kept, verified, rejected, credited>>

Judge ==
  /\ \E p \in sent \ (verified \cup rejected) :
       \/ verified' = verified \cup {p} /\ credited' = credited \cup {p} /\ UNCHANGED rejected
       \/ rejected' = rejected \cup {p} /\ UNCHANGED <<verified, credited>>
  /\ UNCHANGED <<kept, sent>>

Next == Keep \/ Send \/ Judge

Spec == Init /\ [][Next]_vars
=============================================================================
