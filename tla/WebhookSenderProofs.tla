------------------------ MODULE WebhookSenderProofs -------------------------
(***************************************************************************)
(* Proofs about WebhookSender, for any number of messages and stops and    *)
(* every combination of faults.                                            *)
(***************************************************************************)
EXTENDS WebhookSender, SequenceTheorems, TLAPS

IInv == TypeOK /\ QueueIsBacklog /\ AtMostThreeReceipts

(* LPUSH adds the newest message on the left.                              *)
LEMMA PushLeft ==
  ASSUME TypeOK, Enqueue
  PROVE  /\ queue' \in Seq(Messages)
         /\ Len(queue') = Len(queue) + 1
         /\ queue'[1] = pushed + 1
         /\ \A i \in 2..Len(queue') : queue'[i] = queue[i - 1]
<1>1. pushed + 1 \in Messages
  BY SenderAssumption DEF TypeOK, Enqueue, Messages
<1> QED
  BY <1>1 DEF TypeOK, Enqueue

(* BRPOP takes the oldest message, from the right.                         *)
LEMMA PopsOldest ==
  ASSUME TypeOK, queue # <<>>, PopRight
  PROVE  /\ Len(queue) \in Nat \ {0}
         /\ Oldest \in Messages
         /\ queue' \in Seq(Messages)
         /\ Len(queue') = Len(queue) - 1
         /\ \A i \in 1..Len(queue') : queue'[i] = queue[i]
<1>1. queue \in Seq(Messages) /\ Len(queue) \in Nat \ {0}
  BY DEF TypeOK
<1>2. queue' = SubSeq(queue, 1, Len(queue) - 1)
  BY DEF PopRight
<1>3. \A i \in 1..Len(queue) : queue[i] \in Messages
  BY <1>1
<1>4. queue' \in Seq(Messages) /\ Len(queue') = Len(queue) - 1
  <2> DEFINE L == Len(queue)
             t == SubSeq(queue, 1, L - 1)
  <2>1. \A i \in 1..(L - 1) : queue[i] \in Messages
    BY <1>1, <1>3
  <2>2. L \in Nat \ {0}
    BY <1>1
  <2>3. t \in Seq(Messages) /\ Len(t) = IF 1 <= L - 1 THEN (L - 1) - 1 + 1 ELSE 0
    BY <2>1, <2>2, SubSeqProperties
  <2> HIDE DEF L, t
  <2>4. Len(t) = L - 1
    BY <2>2, <2>3
  <2> QED
    BY <1>2, <2>3, <2>4 DEF L, t
<1>5. \A i \in 1..Len(queue') : queue'[i] = queue[i]
  BY <1>1, <1>2, <1>3, <1>4, SubSeqProperties
<1> QED
  BY <1>1, <1>3, <1>4, <1>5 DEF Oldest

LEMMA IInvInit == Init => IInv
<1> SUFFICES ASSUME Init
             PROVE  IInv
  OBVIOUS
<1>1. TypeOK
  BY SenderAssumption DEF Init, TypeOK, MaxRetries
<1>2. QueueIsBacklog
  BY DEF Init, QueueIsBacklog, InHand
<1>3. AtMostThreeReceipts
  BY DEF Init, AtMostThreeReceipts, MaxRetries, Messages
<1> QED
  BY <1>1, <1>2, <1>3 DEF IInv

LEMMA TypeStep == TypeOK /\ QueueIsBacklog /\ [Next]_vars => TypeOK'
<1> SUFFICES ASSUME TypeOK, QueueIsBacklog, [Next]_vars
             PROVE  TypeOK'
  OBVIOUS
<1>1. CASE Enqueue
  BY <1>1, PushLeft, SenderAssumption DEF Enqueue, TypeOK
<1>2. CASE Start
  BY <1>2 DEF Start, TypeOK
<1>3. CASE CheckContext
  BY <1>3 DEF CheckContext, TypeOK
<1>4. CASE PopMessage
  BY <1>4, PopsOldest DEF PopMessage, TypeOK, Messages, MaxRetries
<1>5. CASE PopNothing
  <2>1. CASE UNCHANGED <<queue, settled, troubled>>
    BY <1>5, <2>1 DEF PopNothing, TypeOK
  <2>2. CASE queue # <<>> /\ PopRight /\ settled' = Oldest /\ troubled' = troubled \union {Oldest}
    <3>1. Oldest \in Messages /\ queue' \in Seq(Messages)
      BY <2>2, PopsOldest
    <3> QED
      BY <1>5, <2>2, <3>1 DEF PopNothing, TypeOK, Messages
  <2> QED
    BY <1>5, <2>1, <2>2 DEF PopNothing
<1>0. InHand => cur \in Messages
  BY DEF QueueIsBacklog, InHand, TypeOK, Messages
<1>6. CASE DropCancelled \/ RequestFails
  BY <1>0, <1>6, SenderAssumption
     DEF DropCancelled, RequestFails, Done, Trouble, InHand, TypeOK, MaxRetries
<1>7. CASE AttemptSucceeds
  <2>1. cur \in Messages
    BY <1>0, <1>7 DEF AttemptSucceeds, Attempting, InHand
  <2> QED
    BY <1>7, <2>1, SenderAssumption DEF AttemptSucceeds, Attempting, Received, Done, TypeOK, MaxRetries
<1>8. CASE AttemptFails
  BY <1>0, <1>8 DEF AttemptFails, Attempting, Received, Trouble, InHand, TypeOK
<1>9. CASE Sleep
  BY <1>9, SenderAssumption DEF Sleep, SleepUpTo, Done, TypeOK, MaxRetries
<1>10. CASE Cancel
  BY <1>10, SenderAssumption DEF Cancel, TypeOK
<1>11. CASE Crash
  <2>1. troubled' \in SUBSET Messages
    <3>1. \/ troubled' = troubled
          \/ troubled' = troubled \union {cur} /\ cur \in Messages
      BY <1>0, <1>11 DEF Crash, Trouble, QueueIsBacklog
    <3> QED
      BY <3>1 DEF TypeOK
  <2>2. settled' \in 0..MaxPushes /\ stops' \in 0..MaxStops
    BY <1>11, SenderAssumption DEF Crash, TypeOK
  <2> QED
    BY <1>11, <2>1, <2>2, SenderAssumption DEF Crash, TypeOK, MaxRetries
<1>12. CASE UNCHANGED vars
  BY <1>12 DEF vars, TypeOK
<1> QED
  BY <1>1, <1>2, <1>3, <1>4, <1>5, <1>6, <1>7, <1>8, <1>9, <1>10, <1>11, <1>12
     DEF Next, Sender

(* Numbers that every step below uses.                                     *)
LEMMA Numbers ==
  ASSUME TypeOK, QueueIsBacklog
  PROVE  /\ Len(queue) \in Nat /\ pushed \in Nat /\ settled \in Nat /\ cur \in Nat
         /\ settled <= pushed
         /\ InHand => cur = settled + 1 /\ cur <= pushed /\ cur \in Messages
         /\ ~InHand => cur = 0
<1>1. Len(queue) \in Nat /\ pushed \in Nat /\ settled \in Nat /\ cur \in Nat
  BY SenderAssumption DEF TypeOK
<1> QED
  BY <1>1, SenderAssumption DEF TypeOK, QueueIsBacklog, InHand, Messages

(* The message that BRPOP takes is the one after the last one done with.   *)
LEMMA OldestIsNext ==
  ASSUME TypeOK, QueueIsBacklog, ~InHand, queue # <<>>, PopRight
  PROVE  /\ Oldest = settled + 1
         /\ Len(queue') = pushed - Oldest
         /\ \A i \in 1..Len(queue') : queue'[i] = pushed + 1 - i
<1>1. Len(queue) = pushed - settled
  BY DEF QueueIsBacklog
<1>2. Len(queue) \in Nat \ {0} /\ pushed \in Nat /\ settled \in Nat
  BY PopsOldest, Numbers
<1>3. Oldest = pushed + 1 - Len(queue)
  BY <1>2 DEF Oldest, QueueIsBacklog
<1>4. Oldest = settled + 1
  BY <1>1, <1>2, <1>3
<1>5. Len(queue') = pushed - Oldest
  BY <1>1, <1>2, <1>4, PopsOldest
<1>6. \A i \in 1..Len(queue') : queue'[i] = pushed + 1 - i
  BY <1>2, PopsOldest DEF QueueIsBacklog
<1> QED
  BY <1>4, <1>5, <1>6

LEMMA BacklogStep == TypeOK /\ QueueIsBacklog /\ [Next]_vars => QueueIsBacklog'
<1> SUFFICES ASSUME TypeOK, QueueIsBacklog, [Next]_vars
             PROVE  QueueIsBacklog'
  OBVIOUS
<1>0. /\ Len(queue) \in Nat /\ pushed \in Nat /\ settled \in Nat /\ cur \in Nat
      /\ InHand => cur = settled + 1
  BY Numbers
<1>1. CASE Enqueue
  <2>1. Len(queue') = pushed' - (IF InHand THEN cur ELSE settled)
    BY <1>0, <1>1, PushLeft DEF Enqueue, QueueIsBacklog
  <2>2. ASSUME NEW i \in 1..Len(queue')
        PROVE  queue'[i] = pushed' + 1 - i
    <3>1. pushed' = pushed + 1
      BY <1>1 DEF Enqueue
    <3>2. CASE i = 1
      BY <1>0, <1>1, <3>1, <3>2, PushLeft
    <3>3. CASE i # 1
      <4>1. i \in 2..Len(queue') /\ i - 1 \in 1..Len(queue)
        BY <1>0, <1>1, <3>3, PushLeft
      <4>2. queue'[i] = pushed + 1 - (i - 1)
        BY <1>1, <4>1, PushLeft DEF QueueIsBacklog
      <4> QED
        BY <1>0, <3>1, <4>2
    <3> QED
      BY <3>2, <3>3
  <2> QED
    BY <1>1, <2>1, <2>2 DEF Enqueue, QueueIsBacklog, InHand
<1>2. CASE Start \/ CheckContext \/ Cancel \/ UNCHANGED vars
  BY <1>2 DEF Start, CheckContext, Cancel, vars, QueueIsBacklog, InHand
<1>3. CASE PopMessage
  <2>1. ~InHand /\ PopRight /\ queue # <<>>
    BY <1>3 DEF PopMessage, InHand
  <2> QED
    BY <1>0, <1>3, <2>1, OldestIsNext DEF PopMessage, QueueIsBacklog, InHand
<1>4. CASE PopNothing
  <2>1. ~InHand
    BY <1>4 DEF PopNothing, InHand
  <2>2. CASE UNCHANGED <<queue, settled>>
    BY <1>4, <2>2 DEF PopNothing, QueueIsBacklog, InHand
  <2>3. CASE queue # <<>> /\ PopRight /\ settled' = Oldest
    BY <1>4, <2>1, <2>3, OldestIsNext DEF PopNothing, QueueIsBacklog, InHand
  <2> QED
    BY <1>4, <2>2, <2>3 DEF PopNothing
<1>5. CASE DropCancelled \/ RequestFails \/ AttemptSucceeds \/ Sleep
  BY <1>5 DEF DropCancelled, RequestFails, AttemptSucceeds, Attempting, Sleep, SleepUpTo,
              Done, QueueIsBacklog, InHand
<1>6. CASE AttemptFails
  BY <1>6 DEF AttemptFails, Attempting, QueueIsBacklog, InHand
<1>7. CASE Crash
  BY <1>0, <1>7 DEF Crash, QueueIsBacklog, InHand
<1> QED
  BY <1>1, <1>2, <1>3, <1>4, <1>5, <1>6, <1>7 DEF Next, Sender

(* Each step raises the count of at most the message in hand, and only     *)
(* when an attempt is made.                                                *)
LEMMA ReceiptsStep == IInv /\ [Next]_vars => AtMostThreeReceipts'
<1> SUFFICES ASSUME IInv, [Next]_vars, NEW n \in Messages
             PROVE  receipts'[n] <= CASE n <= settled'            -> MaxRetries
                      [] n = cur' /\ pc' = "send"                 -> attempt' - 1
                      [] n = cur' /\ pc' = "wait"                 -> attempt'
                      [] OTHER                                    -> 0
  BY DEF AtMostThreeReceipts, Messages
<1> DEFINE Cap == CASE n <= settled           -> MaxRetries
                    [] n = cur /\ pc = "send" -> attempt - 1
                    [] n = cur /\ pc = "wait" -> attempt
                    [] OTHER                  -> 0
<1>0. /\ settled \in Nat /\ cur \in Nat /\ attempt \in 1..3 /\ MaxRetries = 3
      /\ receipts[n] \in Nat /\ receipts[n] <= Cap /\ n \in Nat \ {0}
      /\ receipts \in [Messages -> Nat]
      /\ InHand => cur = settled + 1 /\ cur \in Messages
      /\ ~InHand => cur = 0
  BY Numbers DEF IInv, TypeOK, AtMostThreeReceipts, MaxRetries, Messages
<1>1. CASE Enqueue \/ Start \/ CheckContext \/ Cancel \/ UNCHANGED vars
  BY <1>0, <1>1 DEF Enqueue, Start, CheckContext, Cancel, vars, InHand
<1>2. CASE PopMessage
  <2>1. Oldest = settled + 1
    BY <1>2, OldestIsNext DEF PopMessage, InHand, IInv
  <2> QED
    BY <1>0, <1>2, <2>1 DEF PopMessage, InHand
<1>3. CASE PopNothing
  <2>1. settled' = settled \/ settled' = settled + 1
    BY <1>3, OldestIsNext DEF PopNothing, InHand, IInv
  <2> QED
    BY <1>0, <1>3, <2>1 DEF PopNothing, InHand
<1>4. CASE DropCancelled \/ RequestFails
  BY <1>0, <1>4 DEF DropCancelled, RequestFails, Done, InHand
<1>5. CASE AttemptSucceeds
  <2>1. receipts'[n] = IF n = cur THEN receipts[n] + 1 ELSE receipts[n]
    BY <1>0, <1>5 DEF AttemptSucceeds, Attempting, Received, InHand
  <2> QED
    BY <1>0, <1>5, <2>1 DEF AttemptSucceeds, Attempting, Done, InHand
<1>6. CASE AttemptFails
  <2>1. \/ receipts'[n] = IF n = cur THEN receipts[n] + 1 ELSE receipts[n]
        \/ receipts'[n] = receipts[n]
    BY <1>0, <1>6 DEF AttemptFails, Attempting, Received, InHand
  <2> QED
    BY <1>0, <1>6, <2>1 DEF AttemptFails, Attempting, InHand
<1>7. CASE Sleep
  BY <1>0, <1>7 DEF Sleep, SleepUpTo, Done, InHand
<1>8. CASE Crash
  BY <1>0, <1>8 DEF Crash, InHand
<1> QED
  BY <1>1, <1>2, <1>3, <1>4, <1>5, <1>6, <1>7, <1>8 DEF Next, Sender

LEMMA IInvStep == IInv /\ [Next]_vars => IInv'
BY TypeStep, BacklogStep, ReceiptsStep DEF IInv

(* Every variable keeps its type; the attempt counter stays in 1..3.       *)
THEOREM TypeCorrect == Spec => []TypeOK
<1>1. IInv => TypeOK
  BY DEF IInv
<1> QED
  BY <1>1, IInvInit, IInvStep, PTL DEF Spec

(* The list, the message in hand and the messages done with are always     *)
(* consecutive: nothing is overtaken, duplicated or skipped.               *)
THEOREM BacklogIsExact == Spec => []QueueIsBacklog
<1>1. IInv => QueueIsBacklog
  BY DEF IInv
<1> QED
  BY <1>1, IInvInit, IInvStep, PTL DEF Spec

(* No message reaches the endpoint more than three times, whatever fails.  *)
THEOREM ReceiptsAreBounded == Spec => []AtMostThreeReceipts
<1>1. IInv => AtMostThreeReceipts
  BY DEF IInv
<1> QED
  BY <1>1, IInvInit, IInvStep, PTL DEF Spec

(***************************************************************************)
(* The queue and the sender implement the channel.                         *)
(***************************************************************************)

LEMMA ChannelInit == Init => Channel!Init
BY DEF Init, Channel!Init, Channel!Messages, Messages

(* An attempt shows the endpoint the message whose turn it is.             *)
LEMMA AttemptIsReceive ==
  ASSUME IInv, pc = "send", Received, settled' \in {settled, cur}, UNCHANGED pushed
  PROVE  Channel!Receive
<1>1. cur = settled + 1 /\ cur <= pushed /\ cur \in Messages
  BY Numbers DEF IInv, InHand
<1>2. receipts[cur] <= attempt - 1
  <2>1. settled \in Nat
    BY Numbers DEF IInv
  <2>2. ~(cur <= settled)
    BY <1>1, <2>1
  <2> QED
    BY <1>1, <2>2 DEF IInv, AtMostThreeReceipts
<1>3. receipts[cur] < MaxRetries
  BY <1>1, <1>2 DEF IInv, TypeOK, MaxRetries
<1> QED
  BY <1>1, <1>3 DEF Channel!Receive, Received

(* A message that is not sent (again) is settled.                          *)
LEMMA DoneIsSettle ==
  ASSUME IInv, InHand, settled' = cur, UNCHANGED <<pushed, receipts>>
  PROVE  Channel!Settle
BY Numbers DEF IInv, Channel!Settle

LEMMA ChannelStep == IInv /\ [Next]_vars => [Channel!Next]_(Channel!vars)
<1> SUFFICES ASSUME IInv, [Next]_vars
             PROVE  [Channel!Next]_(Channel!vars)
  OBVIOUS
<1>1. CASE Enqueue
  BY <1>1 DEF Enqueue, Channel!Push, Channel!Next
<1>2. CASE Start \/ CheckContext \/ PopMessage \/ Cancel \/ UNCHANGED vars
  BY <1>2 DEF Start, CheckContext, PopMessage, Cancel, vars, Channel!vars
<1>3. CASE PopNothing
  <2>1. CASE UNCHANGED settled
    BY <1>3, <2>1 DEF PopNothing, Channel!vars
  <2>2. CASE queue # <<>> /\ PopRight /\ settled' = Oldest
    <3>1. settled' = settled + 1
      BY <1>3, <2>2, OldestIsNext DEF PopNothing, InHand, IInv
    <3>2. settled < pushed
      <4>1. Len(queue) \in Nat \ {0}
        BY <2>2, PopsOldest DEF IInv
      <4>2. Len(queue) = pushed - settled
        BY <1>3 DEF PopNothing, InHand, IInv, QueueIsBacklog
      <4> QED
        BY <4>1, <4>2, Numbers DEF IInv
    <3>3. Channel!Settle
      BY <1>3, <3>1, <3>2 DEF PopNothing, Channel!Settle
    <3> QED
      BY <3>3 DEF Channel!Next
  <2> QED
    BY <1>3, <2>1, <2>2 DEF PopNothing
<1>4. CASE DropCancelled \/ RequestFails
  BY <1>4, DoneIsSettle DEF DropCancelled, RequestFails, Done, InHand, Channel!Next
<1>5. CASE AttemptSucceeds
  BY <1>5, AttemptIsReceive DEF AttemptSucceeds, Attempting, Done, Channel!Next
<1>6. CASE AttemptFails
  BY <1>6, AttemptIsReceive DEF AttemptFails, Attempting, Channel!Next, Channel!vars
<1>7. CASE Sleep
  BY <1>7, DoneIsSettle DEF Sleep, SleepUpTo, Done, InHand, Channel!Next, Channel!vars
<1>8. CASE Crash
  <2>1. CASE cur = 0
    BY <1>8, <2>1 DEF Crash, Channel!vars
  <2>2. CASE cur # 0
    <3>1. InHand
      BY <2>2, Numbers DEF IInv
    <3> QED
      BY <1>8, <2>2, <3>1, DoneIsSettle DEF Crash, Channel!Next
  <2> QED
    BY <2>1, <2>2
<1> QED
  BY <1>1, <1>2, <1>3, <1>4, <1>5, <1>6, <1>7, <1>8 DEF Next, Sender

(* For the endpoint, the list, the goroutine, its retries, shutdowns and   *)
(* crashes are a channel that settles one message after the other.         *)
THEOREM ImplementsChannel == Spec => ChannelSpec
<1> QED
  BY IInvInit, IInvStep, ChannelInit, ChannelStep, PTL
     DEF Spec, ChannelSpec, Channel!Spec

(***************************************************************************)
(* What happens to a single message.                                       *)
(***************************************************************************)

(* A process whose URL cannot be parsed never gets as far as an attempt.   *)
MalformedIsUntried ==
  url = "malformed" /\ InHand => pc = "send" /\ attempt = 1

LEMMA MalformedStep == MalformedIsUntried /\ [Next]_vars => MalformedIsUntried'
BY DEF MalformedIsUntried, InHand, Next, Sender, vars, Enqueue, Start, CheckContext,
       PopMessage, PopNothing, DropCancelled, RequestFails, Attempting, AttemptSucceeds,
       AttemptFails, Sleep, SleepUpTo, Done, Cancel, Crash

LEMMA GiveUpStep ==
  ASSUME IInv, MalformedIsUntried, [Next]_vars,
         InHand, settled' # settled, ctx = "live", stops' = stops
  PROVE  \/ cur \in acked' \/ attempt = MaxRetries
         \/ url = "malformed" /\ receipts'[cur] = 0
<1>1. CASE AttemptSucceeds
  BY <1>1 DEF AttemptSucceeds
<1>2. CASE Sleep
  <2>1. ~(attempt < MaxRetries)
    BY <1>2 DEF Sleep, SleepUpTo
  <2> QED
    BY <2>1 DEF IInv, TypeOK, MaxRetries
<1>3. CASE Crash
  BY <1>3 DEF Crash, IInv, TypeOK
<1>4. CASE RequestFails
  <2>1. /\ settled \in Nat /\ cur \in Messages /\ cur = settled + 1
        /\ receipts[cur] \in Nat /\ attempt = 1 /\ pc = "send"
    BY <1>4, Numbers DEF RequestFails, MalformedIsUntried, IInv, TypeOK
  <2>2. ~(cur <= settled)
    BY <2>1
  <2>3. receipts[cur] <= attempt - 1
    BY <2>1, <2>2 DEF IInv, AtMostThreeReceipts
  <2> QED
    BY <1>4, <2>1, <2>3 DEF RequestFails
<1> QED
  BY <1>1, <1>2, <1>3, <1>4
     DEF Next, Sender, vars, InHand, Enqueue, Start, CheckContext, PopMessage,
         PopNothing, DropCancelled, AttemptFails, Cancel

(* Only an acknowledgement, the third failure, a shutdown or a crash ends  *)
(* the turn of a message, for every fault but one: a process whose URL     *)
(* cannot be parsed drops each message without a single request.           *)
THEOREM NoEarlyGiveUp == Spec => GivesUpAfterLastAttempt
<1>1. Init => MalformedIsUntried
  BY DEF Init, MalformedIsUntried
<1>2. IInv /\ MalformedIsUntried /\ [Next]_vars
        => [InHand /\ settled' # settled /\ ctx = "live" /\ stops' = stops
              => \/ cur \in acked' \/ attempt = MaxRetries
                 \/ url = "malformed" /\ receipts'[cur] = 0]_vars
  BY GiveUpStep
<1> QED
  BY <1>1, <1>2, MalformedStep, IInvInit, IInvStep, PTL DEF Spec, GivesUpAfterLastAttempt

(* A message in hand that met no trouble is about to be sent for the first *)
(* time.                                                                   *)
UntroubledInv ==
  /\ InHand /\ cur \notin troubled => pc = "send" /\ attempt = 1
  /\ UntroubledExactlyOnce

LEMMA UntroubledStep == IInv /\ UntroubledInv /\ [Next]_vars => UntroubledInv'
<1> SUFFICES ASSUME IInv, UntroubledInv, [Next]_vars
             PROVE  UntroubledInv'
  OBVIOUS
<1> USE DEF UntroubledInv, UntroubledExactlyOnce
<1>0. /\ settled \in Nat /\ cur \in Nat
      /\ InHand => cur = settled + 1 /\ cur \in Messages
  BY Numbers DEF IInv
<1>1. CASE Enqueue \/ Start \/ CheckContext \/ Cancel \/ UNCHANGED vars
  BY <1>1 DEF Enqueue, Start, CheckContext, Cancel, vars, InHand
<1>2. CASE PopMessage
  BY <1>2 DEF PopMessage, InHand
<1>3. CASE PopNothing
  <2>1. CASE UNCHANGED <<queue, settled, troubled>>
    BY <1>3, <2>1 DEF PopNothing, InHand
  <2>2. CASE queue # <<>> /\ PopRight /\ settled' = Oldest /\ troubled' = troubled \union {Oldest}
    <3>1. settled' = settled + 1
      BY <1>3, <2>2, OldestIsNext DEF PopNothing, InHand, IInv
    <3>2. \A n \in 1..settled' : n \in 1..settled \/ n \in troubled'
      BY <1>0, <2>2, <3>1
    <3> QED
      BY <1>3, <2>2, <3>2 DEF PopNothing, InHand
  <2> QED
    BY <1>3, <2>1, <2>2 DEF PopNothing
<1>4. CASE DropCancelled \/ RequestFails
  BY <1>0, <1>4 DEF DropCancelled, RequestFails, Done, Trouble, InHand
<1>5. CASE AttemptSucceeds
  <2>1. InHand /\ settled' = cur /\ acked' = acked \union {cur} /\ UNCHANGED troubled
    BY <1>5 DEF AttemptSucceeds, Attempting, Done, InHand
  <2>2. ASSUME cur \notin troubled
        PROVE  receipts[cur] = 0
    <3>1. receipts[cur] \in Nat
      BY <1>0, <2>1 DEF IInv, TypeOK
    <3>2. ~(cur <= settled)
      BY <1>0, <2>1
    <3>3. receipts[cur] <= attempt - 1
      BY <1>0, <1>5, <2>1, <3>2 DEF IInv, AtMostThreeReceipts, AttemptSucceeds, Attempting
    <3> QED
      BY <2>1, <2>2, <3>1, <3>3
  <2>3. ASSUME NEW n \in 1..settled', n \notin troubled
        PROVE  receipts'[n] = 1 /\ n \in acked'
    <3>1. receipts' = [receipts EXCEPT ![cur] = @ + 1] /\ receipts \in [Messages -> Nat]
      BY <1>5 DEF AttemptSucceeds, Received, IInv, TypeOK
    <3>2. CASE n = cur
      BY <1>0, <2>1, <2>2, <2>3, <3>1, <3>2
    <3>3. CASE n \in 1..settled
      <4>1. n # cur /\ receipts[n] = 1 /\ n \in acked
        BY <1>0, <2>1, <2>3, <3>3
      <4> QED
        BY <2>1, <3>1, <4>1
    <3> QED
      BY <1>0, <2>1, <3>2, <3>3
  <2> QED
    BY <1>5, <2>1, <2>3 DEF AttemptSucceeds, Done, InHand
<1>6. CASE AttemptFails
  <2>1. \A n \in 1..settled : receipts'[n] = receipts[n]
    BY <1>0, <1>6 DEF AttemptFails, Attempting, Received, InHand, IInv, TypeOK
  <2> QED
    BY <1>6, <2>1 DEF AttemptFails, Attempting, Trouble, InHand
<1>7. CASE Sleep
  BY <1>0, <1>7 DEF Sleep, SleepUpTo, Done, InHand
<1>8. CASE Crash
  BY <1>0, <1>8, Numbers DEF Crash, Trouble, InHand, IInv
<1> QED
  BY <1>1, <1>2, <1>3, <1>4, <1>5, <1>6, <1>7, <1>8 DEF Next, Sender

(* A message that met no failure, shutdown or crash of its own was         *)
(* received once and acknowledged, whatever happened to the others.        *)
THEOREM DeliversExactlyOnce == Spec => []UntroubledExactlyOnce
<1>1. Init => UntroubledInv
  BY DEF Init, UntroubledInv, UntroubledExactlyOnce, InHand
<1>2. UntroubledInv => UntroubledExactlyOnce
  BY DEF UntroubledInv
<1> QED
  BY <1>1, <1>2, UntroubledStep, IInvInit, IInvStep, PTL DEF Spec
=============================================================================
