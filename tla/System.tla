-------------------------------- MODULE System -------------------------------
(***************************************************************************)
(* The whole service, from the admin's request to the endpoint: Pipeline   *)
(* with the admin side that is really there, AdminIncidents, in the place  *)
(* of the feed that its checks assume.                                     *)
(*                                                                         *)
(* The history of changes is committed, the key incidents:active is shown, *)
(* and a handler in its refresh owes its change.                           *)
(***************************************************************************)
EXTENDS Pipeline

CONSTANTS
  Bodies,        \* of the PUTs
  AdminFaults,   \* what may fail at the admin's end
  MaxLate        \* of AdminIncidents

ASSUME SystemAssumption ==
  /\ Bodies \subseteq UpdateIncidentRequest
  /\ AdminFaults \subseteq {"db", "cache", "crash"}
  /\ "crash" \in AdminFaults => {"db", "cache"} \subseteq AdminFaults
  /\ MaxCommits \in Nat /\ MaxLate \in Nat
  /\ MayFail = (AdminFaults # {})
  /\ MaxStops > 0 => "crash" \in AdminFaults

VARIABLES
  rows,                    \* the table incidents
  apc, draft, snap,        \* the admin handlers
  lateSets, lateChanges,   \* what the servers may still do for them
  wrote, published, clean  \* their history

Admin == INSTANCE AdminIncidents WITH
           Reqs <- Writers, Faults <- AdminFaults,
           commits <- committed, cache <- shown, pc <- apc

adminVars  == <<rows, apc, draft, snap, lateSets, lateChanges, wrote, published, clean>>
systemVars == <<pipeVars, adminVars>>

SystemInit == PipelineInit /\ Admin!Init

(* What the feed owes its readers is what the handlers have to publish.    *)
Owes == owed' = Admin!Owed'

(* The cache shows the change of r, or a later one, by r's own doing.      *)
Publishes(r) == apc[r] = "publish" /\ apc'[r] = "idle" /\ shown' = snap[r]

AdminRequest(r) ==
  /\ alive
  /\ Admin!Step(r)
  /\ Owes
  /\ paid' = IF Publishes(r) THEN Newer(wrote[r], paid) ELSE paid
  /\ UNCHANGED <<checkVars, senderVars, alive>>

(* The TTL is Redis's own. *)
KeyExpires ==
  /\ Admin!Expire
  /\ Owes
  /\ UNCHANGED <<paid, checkVars, senderVars, alive>>

(* PostgreSQL and Redis carry out what was sent before.                    *)
CarriedOutLate ==
  /\ \/ Admin!LateChange /\ UNCHANGED paid
     \/ Admin!LateSet /\ paid' = Older(shown'.at, paid)
  /\ Owes
  /\ UNCHANGED <<checkVars, senderVars, alive>>

(* A step of a check or of the sender, a start of the process or a signal. *)
CheckOrSender ==
  /\ (\E c \in Checks : CheckStep(c)) \/ SenderStep \/ Boot \/ Terminate
  /\ UNCHANGED adminVars

(* The process ends, and takes the admin handlers with it. *)
ProcessEnds == (Exit \/ Die) /\ Admin!Crash

SystemNext ==
  \/ \E r \in Writers : AdminRequest(r)
  \/ KeyExpires \/ CarriedOutLate \/ CheckOrSender \/ ProcessEnds

SystemSpec == SystemInit /\ [][SystemNext]_systemVars

(* As in Pipeline. *)
SystemFairness ==
  /\ WF_systemVars(Boot /\ UNCHANGED adminVars)
  /\ WF_systemVars(Exit /\ Admin!Crash)
  /\ WF_systemVars(SenderStep /\ UNCHANGED adminVars)
  /\ SF_systemVars(UNCHANGED <<vars, alive>> /\ Queue!PopMessage /\ UNCHANGED adminVars)

SystemFairSpec == SystemSpec /\ SystemFairness

(***************************************************************************)
(* Properties.                                                             *)
(***************************************************************************)

(* Whoever receives an alert can look its incidents up: each is still in   *)
(* the table, under its id, however late the alert comes and whatever      *)
(* admins have changed or deleted since (webhook_sender.go:45,             *)
(* incident_admin.go: a delete keeps the row).                             *)
AlertedIncidentsExist ==
  \A n \in Queue!Messages : receipts[n] > 0 =>
    \A i \in ids[CheckOf(n)] : rows[i] # Nil

(* With its real admin side the service is the pipeline.                   *)
ImplementsPipeline == PipelineSpec
=============================================================================
