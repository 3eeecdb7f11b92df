-------------------------------- MODULE Stats -------------------------------
(***************************************************************************)
(* GET /admin/stats: AdminStats, GetStats and the two counts of StatsRepo, *)
(* each over the last minutes before its own NOW().                        *)
(***************************************************************************)
EXTENDS Integers, FiniteSets

CONSTANTS
  Checks,      \* rows that may be saved
  Users,       \* their users
  NoUser,      \* no user: the row is not there
  Minutes,     \* what the client asks for
  MaxMinutes   \* 1440: the longest window

ASSUME StatsAssumption ==
  /\ IsFiniteSet(Checks)
  /\ NoUser \notin Users
  /\ Minutes \subseteq Int
  /\ MaxMinutes \in Nat

VARIABLES
  user,     \* location_checks: the user of each row
  age,      \* minutes since checked_at, up to MaxMinutes + 1
  stage,    \* where the request is
  minutes,  \* the window asked for
  users,    \* the answer: COUNT(DISTINCT user_id)
  checks,   \* the answer: COUNT(*)
  counted,  \* ghost: rows in the window of the first statement
  gone      \* ghost: those of them no longer in the window of the second

statsVars == <<user, age, stage, minutes, users, checks, counted, gone>>

StatsInit ==
  /\ user = [c \in Checks |-> NoUser] /\ age = [c \in Checks |-> 0]
  /\ stage = "idle" /\ minutes = 0 /\ users = 0 /\ checks = 0
  /\ counted = {} /\ gone = {}

(* SaveCheck stamps the row before it inserts it, perhaps a while before.  *)
Save(c) ==
  /\ user[c] = NoUser
  /\ \E u \in Users : user' = [user EXCEPT ![c] = u]
  /\ \E a \in {0, 1} : age' = [age EXCEPT ![c] = a]
  /\ UNCHANGED <<stage, minutes, users, checks, counted, gone>>

(* A minute passes. *)
Pass ==
  /\ age' = [c \in Checks |->
       IF user[c] # NoUser /\ age[c] <= MaxMinutes THEN age[c] + 1 ELSE age[c]]
  /\ UNCHANGED <<user, stage, minutes, users, checks, counted, gone>>

(* Mutant of AskStats: the number is not checked. *)
AskStatsUnchecked ==
  /\ stage = "idle"
  /\ \E m \in Minutes : minutes' = m
  /\ stage' = "first"
  /\ users' = 0 /\ checks' = 0 /\ counted' = {} /\ gone' = {}
  /\ UNCHANGED <<user, age>>

(* Any other number is answered 400. *)
AskStats ==
  /\ stage = "idle"
  /\ \E m \in Minutes : m > 0 /\ m <= MaxMinutes /\ minutes' = m
  /\ stage' = "first"
  /\ users' = 0 /\ checks' = 0 /\ counted' = {} /\ gone' = {}
  /\ UNCHANGED <<user, age>>

Window == {c \in Checks : user[c] # NoUser /\ age[c] <= minutes}

(* Mutant of Counts: the checks first. *)
CountsSwapped == <<"checks", "users">>

Counts == <<"users", "checks">>

Count(k) ==
  \/ /\ Counts[k] = "users"
     /\ users' = Cardinality({user[c] : c \in Window})
     /\ UNCHANGED checks
  \/ /\ Counts[k] = "checks"
     /\ checks' = Cardinality(Window)
     /\ UNCHANGED users

CountFirst ==
  /\ stage = "first" /\ Count(1)
  /\ stage' = "second"
  /\ counted' = Window
  /\ UNCHANGED <<user, age, minutes, gone>>

CountSecond ==
  /\ stage = "second" /\ Count(2)
  /\ stage' = "done"
  /\ gone' = counted \ Window
  /\ UNCHANGED <<user, age, minutes, counted>>

(* 200 with the counts, or 500 from a statement that failed. *)
AnswerStats ==
  /\ stage # "idle"
  /\ stage' = "idle"
  /\ UNCHANGED <<user, age, minutes, users, checks, counted, gone>>

StatsNext ==
  (\E c \in Checks : Save(c)) \/ Pass \/ AskStats \/ CountFirst \/ CountSecond \/ AnswerStats

StatsSpec == StatsInit /\ [][StatsNext]_statsVars

(***************************************************************************)
(* Properties.                                                             *)
(***************************************************************************)

StatsTypeOK ==
  /\ user \in [Checks -> Users \union {NoUser}]
  /\ age \in [Checks -> 0..(MaxMinutes + 1)]
  /\ stage \in {"idle", "first", "second", "done"}
  /\ minutes \in 0..MaxMinutes
  /\ users \in Nat /\ checks \in Nat
  /\ counted \subseteq Checks /\ gone \subseteq Checks

(* The two counts fit together although checks are saved and run out of    *)
(* the window between them: every user counted has a check in the total,   *)
(* but for checks whose time ran out in between (stats.go:27, :32).        *)
UsersHaveChecks == stage = "done" => users <= checks + Cardinality(gone)
=============================================================================
