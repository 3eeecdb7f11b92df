----------------------------- MODULE ActiveFeed -----------------------------
(***************************************************************************)
(* What the admin side promises to the readers of the active incidents,   *)
(* whatever the number of admins and whichever of the cache, the database *)
(* and the process fail:                                                   *)
(*                                                                         *)
(*  - a reader is shown either nothing or the active incidents exactly as  *)
(*    they stood after some committed change;                              *)
(*  - a writer that has committed owes the readers one publication; when   *)
(*    it publishes, what it shows is at least as recent as its own change; *)
(*  - a debt is settled or, if something failed, abandoned, and nothing    *)
(*    is shown for ever;                                                   *)
(*  - if something failed, a publication may be carried out late, or once  *)
(*    more, and set the readers back to an older change.                   *)
(*                                                                         *)
(* It does not promise that the newest change is the one shown: writers    *)
(* publish in any order.                                                   *)
(***************************************************************************)
EXTENDS Integers, Sequences

CONSTANTS
  Writers,     \* those who change the incidents and publish them
  Views,       \* sets of active incidents
  MayFail,     \* whether calls may fail and the process may die
  MaxCommits   \* bound: changes in a behaviour

VARIABLES
  committed,  \* the active incidents after each change, oldest first
  shown,      \* what readers get, and the index of the change it reflects
  owed        \* per writer: the change it has still to publish, 0 if none

vars == <<committed, shown, owed>>

Nothing == [at |-> 0, view |-> {}]

Init == committed = <<>> /\ shown = Nothing /\ owed = [w \in Writers |-> 0]

Append1(view) == Len(committed) < MaxCommits /\ committed' = Append(committed, view)

(* A change is committed by a writer, which now owes a publication. *)
Commit(w) ==
  /\ owed[w] = 0
  /\ \E view \in Views : Append1(view)
  /\ owed' = [owed EXCEPT ![w] = Len(committed')]
  /\ UNCHANGED shown

(* A change whose writer was told that it failed: nobody owes it. *)
CommitUnowed ==
  /\ MayFail
  /\ \E view \in Views : Append1(view)
  /\ UNCHANGED <<shown, owed>>

(* Mutant of Show: any state that was ever committed. *)
ShowAny(w) ==
  /\ owed[w] > 0
  /\ \E at \in 1..Len(committed) : shown' = [at |-> at, view |-> committed[at]]
  /\ owed' = [owed EXCEPT ![w] = 0]
  /\ UNCHANGED committed

(* The debt is paid with any state from the writer's own change on. *)
Show(w) ==
  /\ owed[w] > 0
  /\ \E at \in owed[w]..Len(committed) :
       shown' = [at |-> at, view |-> committed[at]]
  /\ owed' = [owed EXCEPT ![w] = 0]
  /\ UNCHANGED committed

Abandon(w) ==
  /\ MayFail
  /\ owed[w] > 0
  /\ owed' = [owed EXCEPT ![w] = 0]
  /\ UNCHANGED <<committed, shown>>

AbandonAll ==
  /\ MayFail
  /\ owed' = [w \in Writers |-> 0]
  /\ UNCHANGED <<committed, shown>>

(* A publication whose writer did not hear of it comes late. *)
ShowLate ==
  /\ MayFail
  /\ \E at \in 1..Len(committed) : shown' = [at |-> at, view |-> committed[at]]
  /\ UNCHANGED <<committed, owed>>

Hide == shown.at > 0 /\ shown' = Nothing /\ UNCHANGED <<committed, owed>>

Next ==
  \/ \E w \in Writers : Commit(w) \/ Show(w) \/ Abandon(w)
  \/ CommitUnowed
  \/ AbandonAll
  \/ ShowLate
  \/ Hide

Fairness ==
  /\ \A w \in Writers : WF_vars(Show(w) \/ Abandon(w) \/ AbandonAll)
  /\ WF_vars(Hide)

Spec == Init /\ [][Next]_vars

FairSpec == Spec /\ Fairness
=============================================================================
