--------------------------- MODULE MCAdminIncidents -------------------------
(* Finite instances of AdminIncidents: one coordinate, a radius the table  *)
(* accepts and one it refuses, the statuses, and their absence.            *)
EXTENDS AdminIncidents, TLC

CONSTANTS i1, i2, r1, r2

MCLat == {1}
MCLng == {1}
MCStatusTexts == {"active", "inactive", ""}

(* Every body, and those that leave the one coordinate there is alone. *)
MCBodies == UpdateIncidentRequest
MCBodiesInPlace == {req \in UpdateIncidentRequest : req.lat = Nil /\ req.lng = Nil}

(* The requests are interchangeable, and so are the ids. *)
Symmetry == Permutations(Ids) \union Permutations(Reqs)
=============================================================================
