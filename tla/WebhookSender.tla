---------------------------- MODULE WebhookSender ---------------------------
(***************************************************************************)
(* The Redis list "webhooks:queue" and the one goroutine that empties it:  *)
(* WebhookQueue.Enqueue and BRPop, WebhookSender.Run and sendWithRetry.    *)
(*                                                                         *)
(* A message is the number of its push. To the sender two pushes of one    *)
(* payload (the Redis client repeats an LPUSH whose answer it lost) are    *)
(* two messages.                                                           *)
(*                                                                         *)
(*   down --Start--> top --Check--> pop --Pop--> send <--Sleep-- wait      *)
(*     ^--Check, Crash               |--> top    |--Attempt--> top, wait   *)
(*                                               |--RequestFails--> top     *)
(***************************************************************************)
EXTENDS Integers, Sequences

CONSTANTS
  MaxPushes,   \* bound: messages put into the list
  MaxStops,    \* bound: shutdowns and crashes of the process
  Faults,      \* what may fail: a subset of {"redis", "endpoint", "crash", "url"}
  Disabled     \* WEBHOOK_DISABLED: read into cfg.Webhook, and by nobody else

ASSUME SenderAssumption ==
  /\ MaxPushes \in Nat
  /\ MaxStops \in Nat
  /\ Faults \subseteq {"redis", "endpoint", "crash", "url"}
  /\ Disabled \in BOOLEAN

(* A stop that cuts a request in progress is a failed attempt and then the *)
(* stop, so attempts may fail wherever the process may be stopped.         *)
ASSUME StopAssumption == MaxStops > 0 => "endpoint" \in Faults

MaxRetries == 3

Messages == 1..MaxPushes

VARIABLES
  queue,     \* the Redis list, leftmost element first
  pushed,    \* number of LPUSHes so far
  pc,        \* where the goroutine is
  cur,       \* the message popped and not done with, 0 if none
  attempt,   \* sendWithRetry: number of the attempt
  ctx,       \* the context of Run: "live" or "cancelled"
  url,       \* the WEBHOOK_URL of the process: "good", or "malformed" if
             \* url.Parse refuses it
  stops,     \* shutdowns and crashes so far
  receipts,  \* ghost: times the endpoint received each message
  settled,   \* ghost: messages that left the list and will not be sent again
  acked,     \* ghost: messages the endpoint answered with 2xx
  troubled   \* ghost: messages that met a failure, a shutdown or a crash

vars ==
  <<queue, pushed, pc, cur, attempt, ctx, url, stops, receipts, settled, acked, troubled>>

Init ==
  /\ queue = <<>> /\ pushed = 0
  /\ pc = "down" /\ cur = 0 /\ attempt = 1
  /\ ctx = "cancelled" /\ url = "good" /\ stops = 0
  /\ receipts = [n \in Messages |-> 0]
  /\ settled = 0 /\ acked = {} /\ troubled = {}

(***************************************************************************)
(* The list.                                                               *)
(***************************************************************************)

(* Mutant of Enqueue: RPUSH.                                               *)
EnqueueRight ==
  /\ pushed < MaxPushes
  /\ queue' = Append(queue, pushed + 1)
  /\ pushed' = pushed + 1
  /\ UNCHANGED <<pc, cur, attempt, ctx, url, stops, receipts, settled, acked, troubled>>

(* Enqueue, by a location check: whatever the sender is doing. *)
Enqueue ==
  /\ pushed < MaxPushes
  /\ queue' = <<pushed + 1>> \o queue
  /\ pushed' = pushed + 1
  /\ UNCHANGED <<pc, cur, attempt, ctx, url, stops, receipts, settled, acked, troubled>>

Oldest == queue[Len(queue)]

PopRight == queue' = SubSeq(queue, 1, Len(queue) - 1)

(***************************************************************************)
(* Run.                                                                    *)
(***************************************************************************)

(* main starts the goroutine with a new context, and with whatever         *)
(* WEBHOOK_URL the process was given: nothing has parsed it.               *)
Start ==
  /\ pc = "down"
  /\ pc' = "top" /\ ctx' = "live"
  /\ \/ url' = "good"
     \/ "url" \in Faults /\ url' = "malformed"
  /\ UNCHANGED <<queue, pushed, cur, attempt, stops, receipts, settled, acked, troubled>>

(* Mutant of CheckContext: the loop does not look at its context.          *)
CheckNothing ==
  /\ pc = "top"
  /\ pc' = "pop"
  /\ UNCHANGED <<queue, pushed, cur, attempt, ctx, url, stops, receipts, settled, acked, troubled>>

(* The select at the top of the loop. *)
CheckContext ==
  /\ pc = "top"
  /\ pc' = IF ctx = "live" THEN "pop" ELSE "down"
  /\ UNCHANGED <<queue, pushed, cur, attempt, ctx, url, stops, receipts, settled, acked, troubled>>

(* BRPop returns a message. *)
PopMessage ==
  /\ pc = "pop"
  /\ queue # <<>>
  /\ PopRight
  /\ cur' = Oldest
  /\ attempt' = 1
  /\ pc' = "send"
  /\ UNCHANGED <<pushed, ctx, url, stops, receipts, settled, acked, troubled>>

(* BRPop returns ErrWebHookEmpty, or the error of a broken connection or a *)
(* cancelled context; Redis may have popped a message nobody received.     *)
PopNothing ==
  /\ pc = "pop"
  /\ pc' = "top"
  /\ \/ /\ queue = <<>> \/ "redis" \in Faults \/ ctx = "cancelled"
        /\ UNCHANGED <<queue, settled, troubled>>
     \/ /\ "redis" \in Faults
        /\ queue # <<>>
        /\ PopRight
        /\ settled' = Oldest
        /\ troubled' = troubled \union {Oldest}
  /\ UNCHANGED <<pushed, cur, attempt, ctx, url, stops, receipts, acked>>

(***************************************************************************)
(* sendWithRetry.                                                          *)
(***************************************************************************)

(* The message is done with: back to the loop of Run. *)
Done ==
  /\ settled' = cur
  /\ cur' = 0
  /\ attempt' = 1
  /\ pc' = "top"

Received == receipts' = [receipts EXCEPT ![cur] = @ + 1]

Trouble == troubled' = troubled \union {cur}

DropCancelled ==
  /\ pc = "send" /\ ctx = "cancelled"
  /\ Done
  /\ Trouble
  /\ UNCHANGED <<queue, pushed, ctx, url, stops, receipts, acked>>

(* A WEBHOOK_URL that cannot be parsed makes no request: no attempt, no    *)
(* retry, the message is lost. Nothing checks the URL before.              *)
RequestFails ==
  /\ pc = "send" /\ ctx = "live" /\ url = "malformed"
  /\ Done
  /\ Trouble
  /\ UNCHANGED <<queue, pushed, ctx, url, stops, receipts, acked>>

Attempting == pc = "send" /\ ctx = "live" /\ url = "good"

(* Mutant of AttemptSucceeds: no return after the 2xx.                     *)
AttemptSucceedsGoesOn ==
  /\ Attempting
  /\ Received
  /\ acked' = acked \union {cur}
  /\ pc' = "wait"
  /\ UNCHANGED <<queue, pushed, cur, attempt, ctx, url, stops, settled, troubled>>

AttemptSucceeds ==
  /\ Attempting
  /\ Received
  /\ acked' = acked \union {cur}
  /\ Done
  /\ UNCHANGED <<queue, pushed, ctx, url, stops, troubled>>

(* No answer within 5 seconds, an answer that is not 2xx, or no connection: *)
(* the endpoint may have received the request all the same.                *)
AttemptFails ==
  /\ Attempting
  /\ "endpoint" \in Faults
  /\ Received \/ UNCHANGED receipts
  /\ Trouble
  /\ pc' = "wait"
  /\ UNCHANGED <<queue, pushed, cur, attempt, ctx, url, stops, settled, acked>>

(* The end of the attempt's turn of the loop; the last attempt is number   *)
(* last.                                                                   *)
SleepUpTo(last) ==
  /\ pc = "wait"
  /\ IF attempt < last
       THEN attempt' = attempt + 1 /\ pc' = "send" /\ UNCHANGED <<cur, settled>>
       ELSE Done
  /\ UNCHANGED <<queue, pushed, ctx, url, stops, receipts, acked, troubled>>

(* Mutants of Sleep: one attempt too many, one too few, no last attempt.   *)
SleepOneMore == SleepUpTo(MaxRetries + 1)
SleepOneLess == SleepUpTo(MaxRetries - 1)
SleepForever ==
  /\ pc = "wait"
  /\ pc' = "send"
  /\ UNCHANGED <<queue, pushed, cur, attempt, ctx, url, stops, receipts, settled, acked, troubled>>

(* The sleep after a failed attempt, which a shutdown does not interrupt.  *)
Sleep == SleepUpTo(MaxRetries)

(***************************************************************************)
(* Shutdown and crash.                                                     *)
(***************************************************************************)

(* SIGTERM: main cancels the context and waits for the goroutine.          *)
Cancel ==
  /\ pc # "down" /\ ctx = "live"
  /\ stops < MaxStops
  /\ stops' = stops + 1
  /\ ctx' = "cancelled"
  /\ UNCHANGED <<queue, pushed, pc, cur, attempt, url, receipts, settled, acked, troubled>>

(* The process dies: the message in hand is gone, the list is not. *)
Crash ==
  /\ "crash" \in Faults
  /\ pc # "down"
  /\ stops < MaxStops
  /\ stops' = stops + 1
  /\ settled' = IF cur = 0 THEN settled ELSE cur
  /\ IF cur = 0 THEN UNCHANGED troubled ELSE Trouble
  /\ pc' = "down" /\ cur' = 0 /\ attempt' = 1 /\ ctx' = "cancelled"
  /\ UNCHANGED <<queue, pushed, url, receipts, acked>>

Sender ==
  \/ CheckContext \/ PopMessage \/ PopNothing
  \/ DropCancelled \/ RequestFails \/ AttemptSucceeds \/ AttemptFails \/ Sleep

Next == Enqueue \/ Start \/ Sender \/ Cancel \/ Crash

Spec == Init /\ [][Next]_vars

(* Every call of the goroutine returns (BRPOP and the HTTP client have     *)
(* timeouts of 5 seconds), Docker restarts the process (restart:           *)
(* unless-stopped), and Redis does not fail every BRPOP.                   *)
Fairness ==
  /\ WF_vars(Start)
  /\ WF_vars(Sender)
  /\ SF_vars(PopMessage)

FairSpec == Spec /\ Fairness

(***************************************************************************)
(* Properties.                                                             *)
(***************************************************************************)

TypeOK ==
  /\ queue \in Seq(Messages)
  /\ pushed \in 0..MaxPushes
  /\ pc \in {"down", "top", "pop", "send", "wait"}
  /\ cur \in 0..MaxPushes
  /\ attempt \in 1..MaxRetries
  /\ ctx \in {"live", "cancelled"}
  /\ url \in {"good", "malformed"}
  /\ stops \in 0..MaxStops
  /\ receipts \in [Messages -> Nat]
  /\ settled \in 0..MaxPushes
  /\ acked \in SUBSET Messages
  /\ troubled \in SUBSET Messages

InHand == pc \in {"send", "wait"}

(* No message is overtaken, skipped or duplicated: the list holds exactly  *)
(* the messages that follow the one in hand, the newest on the left, and   *)
(* the one in hand follows those done with (LPUSH at webhook_queue.go:30,  *)
(* BRPOP at :36).                                                          *)
QueueIsBacklog ==
  /\ cur = IF InHand THEN settled + 1 ELSE 0
  /\ Len(queue) = pushed - (IF InHand THEN cur ELSE settled)
  /\ \A i \in 1..Len(queue) : queue[i] = pushed + 1 - i

(* The endpoint receives a message at most three times, and before its     *)
(* turn never, across retries, shutdowns, crashes and restarts             *)
(* (webhook_sender.go:68-105).                                             *)
AtMostThreeReceipts ==
  \A n \in Messages :
    receipts[n] <= CASE n <= settled                  -> MaxRetries
                     [] n = cur /\ pc = "send"        -> attempt - 1
                     [] n = cur /\ pc = "wait"        -> attempt
                     [] OTHER                         -> 0

(* A message is repeated or lost only for a reason of its own: one that    *)
(* met no failed attempt, no broken BRPOP, no shutdown and no crash left   *)
(* the list to be received exactly once and acknowledged, whatever befell  *)
(* the messages around it (webhook_sender.go:45-85).                       *)
UntroubledExactlyOnce ==
  \A n \in 1..settled : n \notin troubled => receipts[n] = 1 /\ n \in acked

(* A process that is neither dying nor being stopped gives the message in  *)
(* hand up unacknowledged in two cases only: after its third attempt, and  *)
(* when the URL cannot be parsed, and then before the endpoint has         *)
(* received it at all (webhook_sender.go:68-77): no failure of the         *)
(* endpoint cuts a turn short, and no turn is cut short in its middle.     *)
GivesUpAfterLastAttempt ==
  [][ InHand /\ settled' # settled /\ ctx = "live" /\ stops' = stops
        => \/ cur \in acked' \/ attempt = MaxRetries
           \/ url = "malformed" /\ receipts'[cur] = 0 ]_vars

(* A poisoned or unreachable endpoint delays the messages behind the one   *)
(* in hand but does not hold them for ever: every pushed message is done   *)
(* with at some time.                                                      *)
EveryMessageIsSettled ==
  \A n \in Messages : (pushed >= n) ~> (settled >= n)

(* main waits for the goroutine before it closes Redis (cmd/app.go:77): a  *)
(* cancelled context always ends it, whatever the queue holds.             *)
ShutdownCompletes == (ctx = "cancelled") ~> (pc = "down")

(* A sender whose configuration says that webhooks are disabled            *)
(* (config.go:118-119) sends none.                                         *)
DisabledSendsNothing == Disabled => \A n \in Messages : receipts[n] = 0

(* The queue and the sender implement the channel. *)
Channel == INSTANCE WebhookChannel WITH Attempts <- MaxRetries

ChannelSpec     == Channel!Spec
ChannelFairSpec == Channel!FairSpec
=============================================================================
