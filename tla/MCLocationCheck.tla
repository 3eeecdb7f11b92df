--------------------------- MODULE MCLocationCheck --------------------------
(* Finite instances of LocationCheck: two places a kilometre apart on one  *)
(* meridian, incidents that cover one of them, or just reach the other.    *)
EXTENDS LocationCheck, TLC

CONSTANTS i1, i2, c1, u1, nobody

MCLats == {0, 1}
MCLngs == {0}
MCStatusTexts == {"active", "inactive", ""}

MCHaversine ==
  [p \in MCLats \X MCLngs \X MCLats \X MCLngs |-> IF p[1] = p[3] THEN 0 ELSE 1000]
(* Ids are interchangeable: nothing orders them. *)
MCSymmetry == Permutations(Ids)
=============================================================================
