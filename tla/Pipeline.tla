------------------------------- MODULE Pipeline ------------------------------
(***************************************************************************)
(* A warning on its way from the location check to the endpoint: the       *)
(* checks of LocationCheck, the list and the sender of WebhookSender, and  *)
(* the process that both live in, which is started, shut down or dies.     *)
(*                                                                         *)
(* The list of LocationCheck is the history of pushes; message n of the    *)
(* queue is the n-th of them.                                              *)
(***************************************************************************)
EXTENDS LocationCheck

CONSTANTS
  MaxPushes,     \* of the sender: enough for all that the checks may send
  MaxStops,      \* bound: shutdowns and crashes of the process
  SenderFaults,  \* what may fail at the sender's end
  Disabled       \* of the sender

ASSUME PipelineAssumption ==
  /\ IsFiniteSet(Checks) /\ (MaxRepeats + 1) * Cardinality(Checks) <= MaxPushes
  /\ MaxStops > 0 => "crash" \in Faults

(* What WebhookSender assumes of its constants. *)
ASSUME QueueAssumption ==
  /\ MaxPushes \in Nat /\ MaxStops \in Nat
  /\ SenderFaults \subseteq {"redis", "endpoint", "crash", "url"}
  /\ MaxStops > 0 => "endpoint" \in SenderFaults
  /\ Disabled \in BOOLEAN

VARIABLES
  alive,         \* the process is there
  spc,           \* where the sender is
  queue, cur, attempt, ctx, url, stops, receipts, settled, acked, troubled

Queue == INSTANCE WebhookSender WITH
           pushed <- Len(list), pc <- spc, Faults <- SenderFaults

senderVars ==
  <<queue, spc, cur, attempt, ctx, url, stops, receipts, settled, acked, troubled>>
pipeVars   == <<vars, senderVars, alive>>

PipelineInit == Init /\ Queue!Init /\ alive = FALSE

(* A check takes a step, until the process is gone: the server still       *)
(* serves requests when the sender has already stopped. An LPUSH sent      *)
(* before may be carried out without the process.                          *)
Check(c) ==
  /\ \/ alive /\ Step(c)
     \/ LatePush(c)
  /\ UNCHANGED alive

(* Mutant of CheckStep: the webhooks go to a key that nobody empties. *)
CheckStepElsewhere(c) == Check(c) /\ UNCHANGED senderVars

(* A push of the check is a push of the queue. *)
CheckStep(c) ==
  /\ Check(c)
  /\ IF list' = list THEN UNCHANGED senderVars ELSE Queue!Enqueue

(* Without the process a statement or a SET sent before may still be       *)
(* carried out, and the key may expire.                                    *)
AdminStep ==
  /\ AdminSide
  /\ ~alive => owed' = owed
  /\ UNCHANGED <<senderVars, alive>>

SenderStep == UNCHANGED <<vars, alive>> /\ Queue!Sender

Boot == ~alive /\ alive' = TRUE /\ UNCHANGED vars /\ Queue!Start

Terminate == UNCHANGED <<vars, alive>> /\ Queue!Cancel

(* main has waited for the sender, and for the server up to its timeout:   *)
(* the requests that are left end here.                                    *)
Exit ==
  /\ alive /\ alive' = FALSE
  /\ spc = "down"
  /\ Crash
  /\ UNCHANGED senderVars

Die == alive' = FALSE /\ Crash /\ Queue!Crash

PipelineNext ==
  \/ \E c \in Checks : CheckStep(c)
  \/ AdminStep \/ SenderStep
  \/ Boot \/ Terminate \/ Exit \/ Die

PipelineSpec == PipelineInit /\ [][PipelineNext]_pipeVars

(***************************************************************************)
(* Properties.                                                             *)
(***************************************************************************)

Pushed == 1..Len(list)

(* The check whose webhook message n is. *)
CheckOf(n) == list[Len(list) + 1 - n]

(* The client was told of incidents, and its LPUSH met no broken           *)
(* connection.                                                             *)
Warned(c) == pc[c] = "done" /\ ids[c] # {} /\ "redis" \notin met[c]

(* What the endpoint receives, however late, repeated or restarted, is the *)
(* warning of a check that took place: it names exactly the incidents that *)
(* covered the place at one committed moment, at least one, and the check  *)
(* was counted before, unless its INSERT failed (public.go:68-128,         *)
(* webhook_sender.go:45-85).                                               *)
AlertsAreTrue ==
  \A n \in Queue!Messages : receipts[n] > 0 =>
    /\ n \in Pushed
    /\ LET c == CheckOf(n)
       IN /\ ids[c] # {} /\ seen[c] # 0 /\ ids[c] = CoveringAt(c, seen[c])
          /\ "db" \notin met[c] /\ req[c].user # NilUuid => c \in saved

(* A client that was warned has exactly one message on its way, and once   *)
(* the sender is done with it the endpoint has received it exactly once,   *)
(* unless that message met a failure, a shutdown or a crash of its own     *)
(* (public.go:119, webhook_sender.go:45-85).                               *)
OneAlertPerWarning ==
  \A c \in Checks : Warned(c) =>
    \E n \in Pushed :
      /\ \A k \in Pushed : CheckOf(k) = c <=> k = n
      /\ n <= settled /\ n \notin troubled => receipts[n] = 1

(* No warning is left lying: whatever stops and restarts in between, the   *)
(* sender comes to it and is done with it at some time.                    *)
WarningsAreHandled ==
  \A c \in Checks :
    Warned(c) ~> \E n \in Pushed : CheckOf(n) = c /\ n <= settled

(* The list and the sender behave as WebhookSender says they do by          *)
(* themselves: the checks push as it assumes, and never beyond its bound.  *)
QueueSpec == Queue!Spec
=============================================================================
