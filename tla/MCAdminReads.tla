----------------------------- MODULE MCAdminReads ---------------------------
(* Finite instances of the reads of the admin page, which share no state:  *)
(* a behaviour exercises one of them. Limits 1, 2, 3 and one beyond the    *)
(* largest, ints of four bits.                                             *)
EXTENDS ListIncidents, Stats

CONSTANTS k1, k2, k3, u1, u2

VARIABLE reads

MCPages == {-8, 0, 1, 2, 3, 5, 7}
MCLimits == {-1, 0, 1, 2, 3, 4, 7}
MCMinutes == -1..3

Init == ListInit /\ StatsInit /\ reads \in {"list", "stats"}

Next ==
  /\ \/ reads = "list" /\ ListNext /\ UNCHANGED statsVars
     \/ reads = "stats" /\ StatsNext /\ UNCHANGED listVars
  /\ UNCHANGED reads

Spec == Init /\ [][Next]_<<listVars, statsVars, reads>>
=============================================================================
