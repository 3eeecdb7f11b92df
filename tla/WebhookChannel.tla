--------------------------- MODULE WebhookChannel ---------------------------
(***************************************************************************)
(* What the webhook queue and its sender amount to for the endpoint: a     *)
(* FIFO channel that takes one message at a time, may show it to the       *)
(* endpoint up to Attempts times, and then settles it for good, shown or   *)
(* not. A settled message never comes back and none is shown out of turn.  *)
(***************************************************************************)
EXTENDS Integers

CONSTANTS MaxPushes, Attempts

VARIABLES
  pushed,    \* messages put into the channel so far; they are its numbers
  receipts,  \* how many times the endpoint has received each message
  settled    \* messages up to this one are done with

vars == <<pushed, receipts, settled>>

Messages == 1..MaxPushes

Init == pushed = 0 /\ receipts = [n \in Messages |-> 0] /\ settled = 0

Push ==
  /\ pushed < MaxPushes
  /\ pushed' = pushed + 1
  /\ UNCHANGED <<receipts, settled>>

(* The endpoint receives the next message; that may settle it. *)
Receive ==
  LET next == settled + 1
  IN /\ next <= pushed
     /\ receipts[next] < Attempts
     /\ receipts' = [receipts EXCEPT ![next] = @ + 1]
     /\ settled' \in {settled, next}
     /\ UNCHANGED pushed

(* The channel is done with the next message. *)
Settle ==
  /\ settled < pushed
  /\ settled' = settled + 1
  /\ UNCHANGED <<pushed, receipts>>

Next == Push \/ Receive \/ Settle

Spec == Init /\ [][Next]_vars

(* Receive alone cannot hold a message back for ever: Attempts bounds it. *)
Fairness == WF_vars(Receive \/ Settle)

FairSpec == Spec /\ Fairness
=============================================================================
