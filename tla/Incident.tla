------------------------------ MODULE Incident ------------------------------
(***************************************************************************)
(* The incident itself: the row the table holds, the bodies the admin     *)
(* requests carry, and the pure functions between them                    *)
(* (internal/domain, internal/service/admin.go, migrations/0002).         *)
(*                                                                         *)
(* A radius is a whole number of metres (radius_km * 1000).                *)
(***************************************************************************)
EXTENDS Integers

CONSTANTS
  Ids,            \* uuids the service may give to incidents
  Lats, Lngs,     \* coordinates, already inside -90..90 and -180..180
  Radii,          \* radii a request may carry, acceptable or not
  StatusTexts,    \* strings a request may carry as status, "" among them
  Nil             \* a nil pointer: no row with this id, no field in the body

Active   == "active"
Inactive == "inactive"

ASSUME DomainAssumption ==
  /\ Radii \subseteq Int
  /\ {Active, Inactive} \subseteq StatusTexts
  /\ Nil \notin Lats
  /\ Nil \notin Lngs
  /\ Nil \notin Radii
  /\ Nil \notin StatusTexts

(* domain.Incident; its id is the index of the table's function. *)
Incidents == [lat : Lats, lng : Lngs, radius : Radii, status : StatusTexts]

CreateIncidentRequest ==
  [lat : Lats, lng : Lngs, radius : Radii, status : StatusTexts \union {""}]

UpdateIncidentRequest ==
  [lat    : Lats        \union {Nil}, lng    : Lngs        \union {Nil},
   radius : Radii       \union {Nil}, status : StatusTexts \union {Nil}]

ASSUME NilAssumption == Nil \notin Incidents

Fields == {"lat", "lng", "radius", "status"}

(* The CHECK constraints of the table: what the database itself refuses.  *)
(* No Go code checks a body of an admin request before this.              *)
PassesCheck(inc) ==
  /\ inc.radius > 0
  /\ inc.radius <= 100000
  /\ inc.status \in {Active, Inactive}

(* domain.CachedIncident: what is left of a row in the cache. *)
CachedIncidents == [id : Ids, lat : Lats, lng : Lngs, radius : Radii]

(* A list of cached incidents; its order means nothing to anybody. *)
Views == {view \in SUBSET CachedIncidents :
            \A a, b \in view : a.id = b.id => a = b}

Tables == [Ids -> Incidents \union {Nil}]

(* AdminService.Create: the incident built from the request. *)
NewIncident(req) ==
  [req EXCEPT !.status = IF req.status = "" THEN Active ELSE req.status]

(* AdminService.Update: overwrite the fields the request names. *)
Overwrite(old, new) == IF new = Nil THEN old ELSE new

(* Mutant of Patched: a status left out of the body taken for its default, *)
(* as Create does.                                                         *)
PatchedStatusDefaulted(inc, req) ==
  [inc EXCEPT !.radius = Overwrite(inc.radius, req.radius),
              !.status = IF req.status = Nil THEN Active ELSE req.status]

Patched(inc, req) ==
  [lat    |-> Overwrite(inc.lat, req.lat),
   lng    |-> Overwrite(inc.lng, req.lng),
   radius |-> Overwrite(inc.radius, req.radius),
   status |-> Overwrite(inc.status, req.status)]

IsActive(table, id) == table[id] # Nil /\ table[id].status = Active

(* Mutant of ActiveView: the copy loop forgets the id. *)
ActiveViewWithoutIds(table) ==
  {[lat |-> table[i].lat, lng |-> table[i].lng, radius |-> table[i].radius] :
     i \in {j \in Ids : IsActive(table, j)}}

(* IncidentAdmin.ListActive followed by the copy loop of refreshCache.    *)
ActiveView(table) ==
  {[id |-> i, lat |-> table[i].lat, lng |-> table[i].lng,
    radius |-> table[i].radius] : i \in {j \in Ids : IsActive(table, j)}}
=============================================================================
