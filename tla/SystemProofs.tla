----------------------------- MODULE SystemProofs ----------------------------
(***************************************************************************)
(* Proofs about the compositions. The pipeline implements the checks and   *)
(* the queue it is made of, and the service, with its real admin side,     *)
(* implements the pipeline; what is proved of the parts is brought         *)
(* together in what the endpoint receives, for any checks, admins, pushes, *)
(* stops and failures.                                                     *)
(***************************************************************************)
EXTENDS System, LocationCheckProofs

(***************************************************************************)
(* The refinements.                                                        *)
(***************************************************************************)

(* Every step of the pipeline is a step of the checks, or none of theirs.  *)
LEMMA StepIsCheckStep == [PipelineNext]_pipeVars => [Next]_vars
BY DEF PipelineNext, pipeVars, CheckStep, Check, AdminStep, SenderStep, Boot, Terminate,
       Exit, Die, Next

(* Only a check pushes: every other step leaves the list alone.            *)
LEMMA OthersKeepList ==
  ASSUME AdminStep \/ SenderStep \/ Boot \/ Terminate \/ Exit \/ Die
  PROVE  UNCHANGED list
BY DEF AdminStep, SenderStep, Boot, Terminate, Exit, Die, AdminSide, checkVars, Crash, vars

(* Every step of the pipeline is a step of the queue, or none of its own.  *)
LEMMA StepIsQueueStep == [PipelineNext]_pipeVars => [Queue!Next]_(Queue!vars)
<1> SUFFICES ASSUME [PipelineNext]_pipeVars
             PROVE  Queue!Next \/ UNCHANGED Queue!vars
  OBVIOUS
<1>1. ASSUME UNCHANGED list, UNCHANGED senderVars
      PROVE  UNCHANGED Queue!vars
  BY <1>1 DEF senderVars, Queue!vars
<1>2. ASSUME NEW c \in Checks, CheckStep(c)
      PROVE  Queue!Next \/ UNCHANGED Queue!vars
  BY <1>1, <1>2 DEF CheckStep, Queue!Next
<1>3. CASE AdminStep \/ Exit
  BY <1>1, <1>3, OthersKeepList DEF AdminStep, Exit
<1>4. CASE SenderStep \/ Boot \/ Terminate \/ Die
  BY <1>4 DEF SenderStep, Boot, Terminate, Die, Queue!Next
<1>5. CASE UNCHANGED pipeVars
  BY <1>1, <1>5 DEF pipeVars, vars
<1> QED
  BY <1>2, <1>3, <1>4, <1>5 DEF PipelineNext

(* What holds of LocationCheck holds of the checks in the pipeline.        *)
THEOREM ImplementsChecks == PipelineSpec => Spec
<1>1. PipelineInit => Init
  BY DEF PipelineInit
<1> QED
  BY <1>1, StepIsCheckStep, PTL DEF PipelineSpec, Spec

(* What holds of WebhookSender without its fairness holds of the queue and *)
(* the sender in the pipeline.                                             *)
THEOREM ImplementsQueue == PipelineSpec => QueueSpec
<1>1. PipelineInit => Queue!Init
  BY DEF PipelineInit
<1> QED
  BY <1>1, StepIsQueueStep, PTL DEF PipelineSpec, QueueSpec, Queue!Spec

(***************************************************************************)
(* What is proved of WebhookSender, brought here. Sending is Queue with the *)
(* theorems of WebhookSenderProofs.                                        *)
(***************************************************************************)

Sending == INSTANCE WebhookSenderProofs WITH
             pushed <- Len(list), pc <- spc, Faults <- SenderFaults

LEMMA SendingAssumptions == Sending!SenderAssumption /\ Sending!StopAssumption
BY QueueAssumption DEF Sending!SenderAssumption, Sending!StopAssumption

(* The two instances say the same.                                         *)
LEMMA SameInit == Queue!Init => Sending!Init
BY DEF Queue!Init, Sending!Init, Queue!Messages, Sending!Messages

LEMMA SameNext == [Queue!Next]_(Queue!vars) => [Sending!Next]_(Sending!vars)
BY DEF Queue!Next, Queue!vars, Queue!Enqueue, Queue!Start, Queue!Sender, Queue!Cancel,
       Queue!Crash, Queue!CheckContext, Queue!PopMessage, Queue!PopNothing,
       Queue!DropCancelled, Queue!RequestFails, Queue!Attempting,
       Queue!AttemptSucceeds, Queue!AttemptFails, Queue!Sleep,
       Queue!SleepUpTo, Queue!Done, Queue!Received, Queue!Trouble, Queue!Oldest,
       Queue!PopRight, Queue!MaxRetries,
       Sending!Next, Sending!vars, Sending!Enqueue, Sending!Start, Sending!Sender,
       Sending!Cancel, Sending!Crash, Sending!CheckContext, Sending!PopMessage,
       Sending!PopNothing, Sending!DropCancelled, Sending!AttemptSucceeds,
       Sending!AttemptFails, Sending!RequestFails, Sending!Attempting, Sending!Sleep, Sending!SleepUpTo, Sending!Done,
       Sending!Received, Sending!Trouble, Sending!Oldest, Sending!PopRight,
       Sending!MaxRetries

LEMMA SendsAsProved == PipelineSpec => Sending!Spec
BY ImplementsQueue, SameInit, SameNext, PTL DEF QueueSpec, Queue!Spec, Sending!Spec

(* The endpoint has received only what was pushed.                         *)
LEMMA ReceivedIsPushed ==
  ASSUME Sending!TypeOK, Sending!QueueIsBacklog, Sending!AtMostThreeReceipts,
         NEW n \in Queue!Messages, receipts[n] > 0
  PROVE  n \in Pushed
<1>1. Len(list) \in Nat /\ n \in Nat \ {0}
  BY QueueAssumption DEF Sending!TypeOK, Queue!Messages
<1>2. settled \in Nat /\ cur \in Nat /\ attempt \in Nat /\ receipts[n] \in Nat
  BY QueueAssumption DEF Sending!TypeOK, Sending!Messages, Queue!Messages, Sending!MaxRetries
<1>3. n <= settled \/ (n = cur /\ spc \in {"send", "wait"})
  BY <1>2 DEF Sending!AtMostThreeReceipts, Sending!Messages, Queue!Messages
<1>4. settled <= Len(list) /\ (spc \in {"send", "wait"} => cur <= Len(list))
  <2>1. Len(queue) \in Nat
    BY DEF Sending!TypeOK
  <2> QED
    BY <1>1, <1>2, <2>1 DEF Sending!QueueIsBacklog, Sending!InHand
<1> QED
  BY <1>1, <1>2, <1>3, <1>4 DEF Pushed

(***************************************************************************)
(* The alerts.                                                             *)
(***************************************************************************)

(* Incidents are found only by a check that has read the cache.            *)
FoundByReading == \A c \in Checks : ids[c] # {} => HasRead(c)

LEMMA FoundStep == TypeOK /\ FoundByReading /\ [Next]_vars => FoundByReading'
<1> SUFFICES ASSUME TypeOK, FoundByReading, [Next]_vars, NEW d \in Checks, ids'[d] # {}
             PROVE  req'[d] # Nil
  BY DEF FoundByReading, HasRead
<1>1. ASSUME NEW c \in Checks, ReadCache(c)
      PROVE  req'[d] # Nil
  BY <1>1, CheckAssumption DEF ReadCache, FoundByReading, HasRead, TypeOK
<1>2. CASE UNCHANGED <<ids, req>>
  BY <1>2 DEF FoundByReading, HasRead
<1> QED
  BY <1>1, <1>2, CheckSteps
     DEF Step, checkVars, Reject, SaveCheck, Enqueue, Repeat, LatePush, Crash

(* What reaches the endpoint names exactly the incidents that covered the  *)
(* place of a check at one committed moment, and the check was counted     *)
(* before, unless its INSERT failed: whatever interleaves, fails, stops or *)
(* restarts.                                                               *)
THEOREM EndpointHearsTheTruth == PipelineSpec => []AlertsAreTrue
<1>1. PipelineInit => FoundByReading
  BY DEF PipelineInit, Init, FoundByReading
<1>2. /\ TypeOK /\ AnswerIsOneMoment /\ WebhookedChecksAreCounted /\ FoundByReading
      /\ Sending!TypeOK /\ Sending!QueueIsBacklog /\ Sending!AtMostThreeReceipts
      => AlertsAreTrue
  <2> SUFFICES ASSUME TypeOK, AnswerIsOneMoment, WebhookedChecksAreCounted, FoundByReading,
                      Sending!TypeOK, Sending!QueueIsBacklog, Sending!AtMostThreeReceipts,
                      NEW n \in Queue!Messages, receipts[n] > 0
               PROVE  /\ n \in Pushed
                      /\ LET c == CheckOf(n)
                         IN /\ ids[c] # {} /\ seen[c] # 0 /\ ids[c] = CoveringAt(c, seen[c])
                            /\ "db" \notin met[c] /\ req[c].user # NilUuid => c \in saved
    BY DEF AlertsAreTrue
  <2> DEFINE c == CheckOf(n)
  <2>1. Len(list) \in Nat /\ n \in Nat /\ n >= 1 /\ n <= Len(list)
    BY ReceivedIsPushed DEF TypeOK, Pushed
  <2>2. Len(list) + 1 - n \in 1..Len(list) /\ DOMAIN list = 1..Len(list)
    BY <2>1 DEF TypeOK
  <2>3. c \in Checks /\ c \in ToSet(list)
    BY <2>2 DEF TypeOK, CheckOf, ToSet
  <2>4. ids[c] # {} /\ ("db" \notin met[c] /\ req[c].user # NilUuid => c \in saved)
    BY <2>3 DEF WebhookedChecksAreCounted
  <2>5. seen[c] # 0 /\ ids[c] = CoveringAt(c, seen[c])
    BY <2>3, <2>4 DEF FoundByReading, AnswerIsOneMoment
  <2> QED
    BY <2>1, <2>4, <2>5 DEF Pushed
<1>3. FoundByReading /\ TypeOK /\ [PipelineNext]_pipeVars => FoundByReading'
  BY FoundStep, StepIsCheckStep
<1>4. PipelineSpec
        => []Sending!TypeOK /\ []Sending!QueueIsBacklog /\ []Sending!AtMostThreeReceipts
  BY SendsAsProved, SendingAssumptions,
     Sending!TypeCorrect, Sending!BacklogIsExact, Sending!ReceiptsAreBounded
<1> QED
  BY <1>1, <1>2, <1>3, <1>4, ImplementsChecks, TypeCorrect, AnswersAreOneMoment,
     WebhooksFollowRows, PTL DEF PipelineSpec

(* A warned client has one message, which the endpoint receives once unless *)
(* that message meets a failure, a stop or a crash of its own: whatever    *)
(* befalls the other messages, the checks and the admins.                  *)
THEOREM OneWarningOneReceipt == PipelineSpec => []OneAlertPerWarning
<1>1. TypeOK /\ WarnedUsersHaveOneWebhook /\ Queue!UntroubledExactlyOnce
        => OneAlertPerWarning
  <2> SUFFICES ASSUME TypeOK, WarnedUsersHaveOneWebhook, Queue!UntroubledExactlyOnce,
                      NEW c \in Checks, Warned(c)
               PROVE  \E n \in Pushed :
                        /\ \A k \in Pushed : CheckOf(k) = c <=> k = n
                        /\ n <= settled /\ n \notin troubled => receipts[n] = 1
    BY DEF OneAlertPerWarning
  <2>1. Len(list) \in Nat /\ DOMAIN list = 1..Len(list)
    BY DEF TypeOK
  <2>2. PICK i \in 1..Len(list) : list[i] = c
    BY <2>1 DEF WarnedUsersHaveOneWebhook, Warned, ToSet
  <2>3. \A j \in 1..Len(list) : list[j] = c => j = i
    BY <2>1, <2>2 DEF WarnedUsersHaveOneWebhook, Warned
  <2> DEFINE n == Len(list) + 1 - i
  <2>4. n \in Pushed
    BY <2>1, <2>2 DEF Pushed
  <2>5. ASSUME NEW k \in Pushed
        PROVE  CheckOf(k) = c <=> k = n
    <3>1. Len(list) + 1 - k \in 1..Len(list) /\ (Len(list) + 1 - k = i <=> k = n)
      BY <2>1, <2>2 DEF Pushed
    <3> QED
      BY <2>2, <2>3, <3>1 DEF CheckOf
  <2>6. n <= settled /\ n \notin troubled => receipts[n] = 1
    BY <2>4 DEF Pushed, Queue!UntroubledExactlyOnce
  <2> QED
    BY <2>4, <2>5, <2>6
<1>2. PipelineSpec => []Sending!UntroubledExactlyOnce
  BY SendsAsProved, SendingAssumptions, Sending!DeliversExactlyOnce
<1>3. Sending!UntroubledExactlyOnce => Queue!UntroubledExactlyOnce
  BY DEF Sending!UntroubledExactlyOnce, Queue!UntroubledExactlyOnce
<1> QED
  BY <1>1, <1>2, <1>3, ImplementsChecks, TypeCorrect, OneWebhookPerWarning, PTL

(***************************************************************************)
(* What is proved of AdminIncidents, brought here. Admins is Admin with    *)
(* the theorems of AdminIncidentsProofs.                                   *)
(***************************************************************************)

Admins == INSTANCE AdminIncidentsProofs WITH
            Reqs <- Writers, Faults <- AdminFaults,
            commits <- committed, cache <- shown, pc <- apc

LEMMA AdminsAssumptions ==
  Admins!AdminAssumption /\ Admins!DomainAssumption /\ Admins!NilAssumption
BY SystemAssumption, DomainAssumption, NilAssumption
   DEF Admins!AdminAssumption, Admins!DomainAssumption, Admins!NilAssumption,
       Active, Inactive, Incidents, UpdateIncidentRequest,
       Admins!Active, Admins!Inactive, Admins!Incidents, Admins!UpdateIncidentRequest

(* The two instances say the same.                                         *)
LEMMA SameAdminInit == Admin!Init => Admins!Init
BY DEF Admin!Init, Admin!Absent, Admins!Init, Admins!Absent

LEMMA SameCardinality == \A S : Admin!Cardinality(S) = Admins!Cardinality(S)
BY DEF Admin!Cardinality, Admins!Cardinality

LEMMA SameRoom == Admin!Room <=> Admins!Room
BY SameCardinality DEF Admin!Room, Admins!Room

LEMMA SameOutcomes ==
  ASSUME NEW r \in Writers
  PROVE  /\ \A table : Admin!Committed(r, table) => Admins!Committed(r, table)
         /\ Admin!Refused(r) => Admins!Refused(r)
         /\ \A statements :
              Admin!StatementLost(r, statements) => Admins!StatementLost(r, statements)
BY SameRoom
   DEF Admin!Committed, Admin!ChangeTable, Admin!ActiveView, Admin!IsActive, Admin!Active,
       Admin!Alone, Admin!InRefresh, Admin!Refused, Admin!Return, Admin!StatementLost,
       Admin!lateVars,
       Admins!Committed, Admins!ChangeTable, Admins!ActiveView, Admins!IsActive,
       Admins!Active, Admins!Alone, Admins!InRefresh, Admins!Refused, Admins!Return,
       Admins!StatementLost, Admins!lateVars

LEMMA SameStatements ==
  /\ \A s : Admin!Executed(s) = Admins!Executed(s)
  /\ \A i, inc : Admin!Write(i, inc) = Admins!Write(i, inc)
  /\ \A i : Admin!SoftDelete(i) = Admins!SoftDelete(i)
  /\ \A inc : Admin!PassesCheck(inc) <=> Admins!PassesCheck(inc)
BY DEF Admin!Executed, Admin!Write, Admin!SoftDelete, Admin!PassesCheck, Admin!IsActive,
       Admin!Active, Admin!Inactive,
       Admins!Executed, Admins!Write, Admins!SoftDelete, Admins!PassesCheck,
       Admins!IsActive, Admins!Active, Admins!Inactive

LEMMA SameSent ==
  ASSUME NEW r \in Writers, NEW s, Admin!Sent(r, s)
  PROVE  Admins!Sent(r, s)
BY SameOutcomes, SameStatements DEF Admin!Sent, Admins!Sent

LEMMA SameAdminStep ==
  ASSUME NEW r \in Writers, Admin!Step(r)
  PROVE  Admins!Step(r)
<1>1. CASE Admin!Create(r)
  <2>1. /\ Admin!CreateIncidentRequest = Admins!CreateIncidentRequest
        /\ \A body : Admin!NewIncident(body) = Admins!NewIncident(body)
    BY DEF Admin!CreateIncidentRequest, Admin!NewIncident, Admin!Active,
           Admins!CreateIncidentRequest, Admins!NewIncident, Admins!Active
  <2>2. Admins!Create(r)
    BY <1>1, <2>1, SameSent, SameStatements, Zenon DEF Admin!Create, Admins!Create
  <2> QED
    BY <2>2 DEF Admins!Step
<1>2. CASE Admin!UpdateGet(r)
  BY <1>2, SameOutcomes
     DEF Admin!UpdateGet, Admin!lateVars, Admins!UpdateGet, Admins!lateVars, Admins!Step
<1>3. CASE Admin!UpdateApply(r)
  <2>1. \A inc, body : Admin!Patched(inc, body) = Admins!Patched(inc, body)
    BY DEF Admin!Patched, Admin!Overwrite, Admins!Patched, Admins!Overwrite
  <2>2. Admins!UpdateApply(r)
    BY <1>3, <2>1, SameSent, SameStatements, Zenon DEF Admin!UpdateApply, Admins!UpdateApply
  <2> QED
    BY <2>2 DEF Admins!Step
<1>4. CASE Admin!Delete(r)
  <2>1. \A i : Admin!IsActive(rows, i) <=> Admins!IsActive(rows, i)
    BY DEF Admin!IsActive, Admin!Active, Admins!IsActive, Admins!Active
  <2>2. Admins!Delete(r)
    BY <1>4, <2>1, SameOutcomes, SameStatements, Zenon DEF Admin!Delete, Admins!Delete
  <2> QED
    BY <2>2 DEF Admins!Step
<1>5. CASE Admin!Read(r)
  BY <1>5 DEF Admin!Read, Admin!vars, Admin!lateVars, Admins!Read, Admins!vars,
              Admins!lateVars, Admins!Step
<1>6. CASE Admin!ListActive(r)
  BY <1>6 DEF Admin!ListActive, Admin!RefreshFails, Admin!Return, Admin!ActiveView,
              Admin!IsActive, Admin!Active, Admin!lateVars,
              Admins!ListActive, Admins!RefreshFails, Admins!Return, Admins!ActiveView,
              Admins!IsActive, Admins!Active, Admins!lateVars, Admins!Step
<1>7. CASE Admin!SetActive(r)
  BY <1>7 DEF Admin!SetActive, Admin!RefreshDone, Admin!Newer, Admin!Absent,
              Admin!lateVars,
              Admins!SetActive, Admins!RefreshDone, Admins!Newer, Admins!Absent,
              Admins!lateVars, Admins!Step
<1>8. CASE Admin!SetUnanswered(r)
  BY <1>8, SameRoom DEF Admin!SetUnanswered, Admins!SetUnanswered, Admins!Step
<1> QED
  BY <1>1, <1>2, <1>3, <1>4, <1>5, <1>6, <1>7, <1>8 DEF Admin!Step

LEMMA SameAdminRest ==
  /\ Admin!Expire => Admins!Expire
  /\ Admin!Crash => Admins!Crash
  /\ Admin!LateSet => Admins!LateSet
  /\ Admin!LateChange => Admins!LateChange
  /\ Admin!Owed = Admins!Owed
<1>1. Admin!LateChange => Admins!LateChange
  BY SameStatements
     DEF Admin!LateChange, Admin!ChangeTable, Admin!ActiveView, Admin!IsActive, Admin!Active,
         Admins!LateChange, Admins!ChangeTable, Admins!ActiveView, Admins!IsActive,
         Admins!Active
<1>2. Admin!LateSet => Admins!LateSet
  BY DEF Admin!LateSet, Admin!Newer, Admin!InRefresh,
         Admins!LateSet, Admins!Newer, Admins!InRefresh
<1>3. /\ Admin!Expire => Admins!Expire
      /\ Admin!Crash => Admins!Crash
      /\ Admin!Owed = Admins!Owed
  BY DEF Admin!Expire, Admin!Crash, Admin!Owed, Admin!Absent, Admin!InRefresh,
         Admin!lateVars,
         Admins!Expire, Admins!Crash, Admins!Owed, Admins!Absent, Admins!InRefresh,
         Admins!lateVars
<1> QED
  BY <1>1, <1>2, <1>3

(***************************************************************************)
(* With its real admin side the service is the pipeline.                   *)
(***************************************************************************)

(* The debts of the feed are those of the handlers.                        *)
OwedIsOwed == owed = Admins!Owed

SInv == Admins!IInv /\ OwedIsOwed

(* Checks, sender and process leave the admin side alone.                  *)
LEMMA OthersKeepAdmins ==
  ASSUME CheckOrSender
  PROVE  UNCHANGED <<committed, shown, owed, paid, adminVars>>
BY DEF CheckOrSender, CheckStep, Check, Step, Reject, ReadCache, SaveCheck, Enqueue, Repeat,
       LatePush, SenderStep, Boot, Terminate, feedVars, vars

LEMMA StepIsAdminStep == [SystemNext]_systemVars => [Admins!Next]_(Admins!vars)
<1> SUFFICES ASSUME [SystemNext]_systemVars
             PROVE  Admins!Next \/ UNCHANGED Admins!vars
  OBVIOUS
<1>1. ASSUME NEW r \in Writers, AdminRequest(r)
      PROVE  Admins!Next
  BY <1>1, SameAdminStep DEF AdminRequest, Admins!Next
<1>2. CASE KeyExpires \/ CarriedOutLate \/ ProcessEnds
  BY <1>2, SameAdminRest
     DEF KeyExpires, CarriedOutLate, ProcessEnds, Admins!Next, Admins!Late
<1>3. CASE CheckOrSender
  BY <1>3, OthersKeepAdmins DEF adminVars, Admins!vars, Admins!lateVars
<1>4. CASE UNCHANGED systemVars
  BY <1>4 DEF systemVars, adminVars, pipeVars, vars, Admins!vars, Admins!lateVars
<1> QED
  BY <1>1, <1>2, <1>3, <1>4 DEF SystemNext

THEOREM ServesAsAdmins == SystemSpec => Admins!Spec
<1>1. SystemInit => Admins!Init
  BY SameAdminInit DEF SystemInit
<1> QED
  BY <1>1, StepIsAdminStep, PTL DEF SystemSpec, Admins!Spec

LEMMA OwedInit == SystemInit => OwedIsOwed
BY DEF SystemInit, PipelineInit, Init, Feed!Init, Admin!Init, OwedIsOwed, Admins!Owed,
       Admins!InRefresh

LEMMA OwedStep == OwedIsOwed /\ [SystemNext]_systemVars => OwedIsOwed'
<1> SUFFICES ASSUME OwedIsOwed, [SystemNext]_systemVars
             PROVE  OwedIsOwed'
  OBVIOUS
<1>1. ASSUME Owes
      PROVE  OwedIsOwed'
  BY <1>1 DEF Owes, OwedIsOwed, Admin!Owed, Admin!InRefresh, Admins!Owed, Admins!InRefresh
<1>2. CASE (\E r \in Writers : AdminRequest(r)) \/ KeyExpires \/ CarriedOutLate
  BY <1>1, <1>2 DEF AdminRequest, KeyExpires, CarriedOutLate
<1>3. CASE ProcessEnds
  BY <1>3 DEF ProcessEnds, Exit, Die, Crash, Feed!AbandonAll, Admin!Crash, OwedIsOwed,
              Admins!Owed, Admins!InRefresh
<1>4. CASE CheckOrSender
  BY <1>4, OthersKeepAdmins DEF OwedIsOwed, Admins!Owed, Admins!InRefresh, adminVars
<1>5. CASE UNCHANGED systemVars
  BY <1>5 DEF OwedIsOwed, Admins!Owed, Admins!InRefresh, systemVars, adminVars, pipeVars, vars
<1> QED
  BY <1>2, <1>3, <1>4, <1>5 DEF SystemNext

(* A step of the feed that AdminIncidents implements is a step of the feed *)
(* that LocationCheck assumes.                                             *)
LEMMA SameFeed ==
  ASSUME OwedIsOwed, OwedIsOwed'
  PROVE  /\ \A r \in Writers : Admins!Feed!Commit(r) => Feed!Commit(r)
         /\ Admins!Feed!CommitUnowed => Feed!CommitUnowed
         /\ \A r \in Writers : Admins!Feed!Abandon(r) => Feed!Abandon(r)
         /\ \A r \in Writers : Admins!Feed!Show(r) => Feed!Show(r)
         /\ Admins!Feed!ShowLate => Feed!ShowLate
         /\ Admins!Feed!Hide => Feed!Hide
         /\ UNCHANGED Admins!Feed!vars => UNCHANGED <<committed, shown, owed>>
<1>1. Admins!Views = Views
  BY DEF Admins!Views, Admins!CachedIncidents, Views, CachedIncidents
<1>2. Admins!Owed = owed /\ Admins!Owed' = owed' /\ MayFail = (AdminFaults # {})
  BY SystemAssumption DEF OwedIsOwed
<1>3. \A r \in Writers : Admins!Feed!Commit(r) => Feed!Commit(r)
  BY <1>1, <1>2 DEF Admins!Feed!Commit, Admins!Feed!Append1, Feed!Commit, Feed!Append1
<1>4. Admins!Feed!CommitUnowed => Feed!CommitUnowed
  BY <1>1, <1>2 DEF Admins!Feed!CommitUnowed, Admins!Feed!Append1, Feed!CommitUnowed,
                    Feed!Append1
<1>5. \A r \in Writers : Admins!Feed!Abandon(r) => Feed!Abandon(r)
  BY <1>2 DEF Admins!Feed!Abandon, Feed!Abandon
<1>6. \A r \in Writers : Admins!Feed!Show(r) => Feed!Show(r)
  BY <1>2 DEF Admins!Feed!Show, Feed!Show
<1>7. /\ Admins!Feed!Hide => Feed!Hide
      /\ UNCHANGED Admins!Feed!vars => UNCHANGED <<committed, shown, owed>>
  BY <1>2 DEF Admins!Feed!Hide, Admins!Feed!Nothing, Feed!Hide, Feed!Nothing,
              Admins!Feed!vars
<1>8. Admins!Feed!ShowLate => Feed!ShowLate
  BY <1>2 DEF Admins!Feed!ShowLate, Feed!ShowLate
<1> QED
  BY <1>3, <1>4, <1>5, <1>6, <1>7, <1>8

LEMMA RequestIsAdminStep ==
  ASSUME SInv, OwedIsOwed', NEW r \in Writers, AdminRequest(r)
  PROVE  AdminStep \/ UNCHANGED pipeVars
<1>1. /\ alive /\ UNCHANGED <<checkVars, senderVars, alive>>
      /\ paid' = IF Publishes(r) THEN Newer(wrote[r], paid) ELSE paid
      /\ Admins!Step(r)
  BY SameAdminStep DEF AdminRequest
<1>2. CASE apc[r] # "publish"
  <2>1. \/ Feed!Commit(r) \/ Feed!Abandon(r)
        \/ UNCHANGED <<committed, shown, owed>>
    BY <1>1, <1>2, AdminsAssumptions, SameFeed, Admins!QuietStep DEF SInv
  <2>2. UNCHANGED paid
    BY <1>1, <1>2 DEF Publishes
  <2>3. CASE UNCHANGED <<committed, shown, owed>>
    BY <1>1, <2>2, <2>3 DEF pipeVars, vars, checkVars
  <2>4. CASE Feed!Commit(r) \/ Feed!Abandon(r)
    BY <1>1, <2>2, <2>4 DEF AdminStep, AdminSide
  <2> QED
    BY <2>1, <2>3, <2>4
<1>3. CASE Admins!SetActive(r)
  <2>1. /\ owed[r] = wrote[r]
        /\ IF shown' = snap[r] THEN Feed!Show(r) ELSE Feed!Abandon(r)
    BY <1>1, <1>3, AdminsAssumptions, SameFeed, Admins!PublishStep DEF SInv, OwedIsOwed
  <2>2. apc[r] = "publish" /\ apc'[r] = "idle"
    BY <1>3 DEF Admins!SetActive, Admins!RefreshDone, SInv, Admins!IInv, Admins!TypeInv,
                Admins!TypeOK
  <2>3. CASE shown' = snap[r]
    BY <1>1, <2>1, <2>2, <2>3 DEF Publishes, AdminStep, AdminSide
  <2>4. CASE shown' # snap[r]
    BY <1>1, <2>1, <2>4 DEF Publishes, AdminStep, AdminSide
  <2> QED
    BY <2>3, <2>4
<1>4. CASE Admins!SetUnanswered(r)
  <2>1. UNCHANGED <<committed, shown, owed>> /\ apc'[r] = "publish"
    BY <1>4, AdminsAssumptions, SameFeed, Admins!UnansweredStep DEF SInv
  <2> QED
    BY <1>1, <2>1 DEF Publishes, pipeVars, vars, checkVars
<1> QED
  BY <1>1, <1>2, <1>3, <1>4, AdminsAssumptions, Admins!PublishingSteps

LEMMA StepIsPipelineStep ==
  SInv /\ [SystemNext]_systemVars => [PipelineNext]_pipeVars
<1> SUFFICES ASSUME SInv, [SystemNext]_systemVars
             PROVE  PipelineNext \/ UNCHANGED pipeVars
  OBVIOUS
<1>0. OwedIsOwed'
  BY OwedStep DEF SInv
<1>1. ASSUME NEW r \in Writers, AdminRequest(r)
      PROVE  PipelineNext \/ UNCHANGED pipeVars
  BY <1>0, <1>1, RequestIsAdminStep DEF PipelineNext
<1>2. CASE KeyExpires
  <2>1. owed' = owed
    BY <1>0, <1>2 DEF SInv, OwedIsOwed, KeyExpires, Admin!Expire, Admins!Owed, Admins!InRefresh
  <2>2. Feed!Hide
    BY <1>2, <2>1 DEF KeyExpires, Admin!Expire, Admin!Absent, Feed!Hide, Feed!Nothing
  <2>3. AdminStep
    BY <1>2, <2>1, <2>2 DEF KeyExpires, AdminStep, AdminSide
  <2> QED
    BY <2>3 DEF PipelineNext
<1>3. CASE CheckOrSender \/ ProcessEnds
  BY <1>3 DEF CheckOrSender, ProcessEnds, PipelineNext
<1>4. CASE CarriedOutLate
  <2>1. owed' = owed
    BY <1>0, <1>4 DEF SInv, OwedIsOwed, CarriedOutLate, Admin!LateChange, Admin!LateSet,
                      Admins!Owed, Admins!InRefresh
  <2>2. \/ Feed!CommitUnowed /\ UNCHANGED paid
        \/ Feed!ShowLate /\ paid' = Older(shown'.at, paid)
    BY <1>0, <1>4, SameAdminRest, SameFeed, AdminsAssumptions,
       Admins!LateChangeIsUnowed, Admins!LateSetIsShowLate DEF CarriedOutLate, SInv
  <2>3. AdminStep
    BY <1>4, <2>1, <2>2 DEF CarriedOutLate, AdminStep, AdminSide
  <2> QED
    BY <2>3 DEF PipelineNext
<1>5. CASE UNCHANGED systemVars
  BY <1>5 DEF systemVars
<1> QED
  BY <1>1, <1>2, <1>3, <1>4, <1>5 DEF SystemNext

LEMMA AdminsInvariant == SystemSpec => []SInv
<1>1. SystemSpec => []Admins!IInv
  BY ServesAsAdmins, AdminsAssumptions, Admins!Inductive
<1>2. SystemSpec => []OwedIsOwed
  BY OwedInit, OwedStep, PTL DEF SystemSpec
<1> QED
  BY <1>1, <1>2, PTL DEF SInv

(* The handlers, the table and the cache are a feed to the checks: nothing *)
(* that can happen in the whole service could not happen in the pipeline.  *)
THEOREM ServiceIsPipeline == SystemSpec => ImplementsPipeline
<1>1. SystemInit => PipelineInit
  BY DEF SystemInit
<1> QED
  BY <1>1, AdminsInvariant, StepIsPipelineStep, PTL
     DEF SystemSpec, ImplementsPipeline, PipelineSpec

(***************************************************************************)
(* From the admin's request to the endpoint.                               *)
(***************************************************************************)

(* What is proved of the checks and of the pipeline holds of the service:  *)
(* an answer is the coverage of one committed moment of the table, with    *)
(* one admin never of one behind a published change; what the endpoint     *)
(* receives is true; a warned client has one message and one receipt.      *)
THEOREM ServiceKeepsItsPromises ==
  SystemSpec => [](/\ AnswerIsOneMoment /\ SoleAdminReadsItsWrites
                   /\ AlertsAreTrue /\ OneAlertPerWarning)
BY ServiceIsPipeline, ImplementsChecks, AnswersAreOneMoment, SoleAdminReadsOwnWrites,
   EndpointHearsTheTruth, OneWarningOneReceipt, PTL DEF ImplementsPipeline

(* For the endpoint the whole service is a FIFO channel that shows it each *)
(* message three times at most and then settles it, in the order of the    *)
(* pushes, through every stop, crash and restart.                          *)
THEOREM ServiceIsChannel == SystemSpec => Sending!ChannelSpec
<1>1. PipelineSpec => Sending!ChannelSpec
  BY SendsAsProved, SendingAssumptions, Sending!ImplementsChannel
<1> QED
  BY <1>1, ServiceIsPipeline DEF ImplementsPipeline

(* Every incident that an alert names still has its row when the endpoint  *)
(* receives it, after any retries, restarts, changes and deletes.          *)
THEOREM AlertsCanBeLookedUp == SystemSpec => []AlertedIncidentsExist
<1>1. /\ TypeOK /\ FeedOK /\ AnswerInv /\ AlertsAreTrue /\ Admins!HistoryHasRows
      => AlertedIncidentsExist
  <2> SUFFICES ASSUME TypeOK, FeedOK, AnswerInv, AlertsAreTrue, Admins!HistoryHasRows,
                      NEW n \in Queue!Messages, receipts[n] > 0,
                      NEW i \in ids[CheckOf(n)]
               PROVE  rows[i] # Nil
    BY DEF AlertedIncidentsExist
  <2> DEFINE c == CheckOf(n)
  <2>1. n \in Pushed /\ seen[c] # 0 /\ ids[c] = CoveringAt(c, seen[c])
    BY DEF AlertsAreTrue
  <2>2. c \in Checks
    <3>1. Len(list) \in Nat /\ Len(list) + 1 - n \in 1..Len(list)
      BY <2>1 DEF TypeOK, Pushed
    <3> QED
      BY <3>1 DEF TypeOK, CheckOf
  <2>3. seen[c] \in 1..Len(committed)
    BY <2>1, <2>2 DEF AnswerInv, RightAnswer, FeedOK
  <2>4. PICK inc \in committed[seen[c]] : i = inc.id
    BY <2>1 DEF CoveringAt, NearbyIds, Nearby
  <2> QED
    BY <2>3, <2>4 DEF Admins!HistoryHasRows
<1>2. SystemSpec => []Admins!HistoryHasRows
  BY ServesAsAdmins, AdminsAssumptions, Admins!ShownIncidentsStay
<1>3. Spec => [](TypeOK /\ FeedOK)
  <2>1. IInv => TypeOK /\ FeedOK
    BY DEF IInv
  <2> QED
    BY <2>1, IInvInit, IInvStep, PTL DEF Spec
<1> QED
  BY <1>1, <1>2, <1>3, ServiceIsPipeline, ImplementsChecks, AnswersAreRight,
     EndpointHearsTheTruth, PTL DEF ImplementsPipeline
=============================================================================
