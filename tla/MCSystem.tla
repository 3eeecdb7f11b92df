------------------------------- MODULE MCSystem ------------------------------
(* Finite instances of System: one place, and an incident that covers it. *)
EXTENDS System

CONSTANTS i1, c1, u1, nobody

MCLats == {0}
MCLngs == {0}
MCStatusTexts == {"active", "inactive"}

(* A body names one field at most: with one value for each of the others   *)
(* more of them would change nothing.                                      *)
MCBodies ==
  [lat : {Nil}, lng : {Nil}, radius : {Nil}, status : {Nil, Active, Inactive}]

MCHaversine == [p \in MCLats \X MCLngs \X MCLats \X MCLngs |-> 0]
=============================================================================
