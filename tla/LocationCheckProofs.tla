------------------------- MODULE LocationCheckProofs ------------------------
(***************************************************************************)
(* Proofs about LocationCheck, for any number of checks, users, places and *)
(* writers, any distance function and every combination of faults.         *)
(***************************************************************************)
EXTENDS LocationCheck, TLAPS

(***************************************************************************)
(* The feed: what a check may be shown.                                    *)
(***************************************************************************)

FeedOK ==
  /\ committed \in Seq(Views)
  /\ shown.at \in 0..Len(committed)
  /\ shown.view = IF shown.at = 0 THEN {} ELSE committed[shown.at]
  /\ owed \in [Writers -> 0..Len(committed)]

(* The history of changes only grows.                                      *)
Grows == /\ Len(committed) <= Len(committed')
         /\ \A i \in 1..Len(committed) : committed'[i] = committed[i]

LEMMA FeedOKInit == Init => FeedOK
BY DEF Init, Feed!Init, Feed!Nothing, FeedOK

LEMMA FeedOKStep ==
  ASSUME FeedOK, Feed!Next
  PROVE  FeedOK' /\ Grows
<1>1. ASSUME NEW view \in Views, committed' = Append(committed, view)
      PROVE  committed' \in Seq(Views) /\ Len(committed') = Len(committed) + 1 /\ Grows
  BY <1>1 DEF FeedOK, Grows
<1>2. ASSUME NEW w \in Writers, Feed!Commit(w)
      PROVE  FeedOK' /\ Grows
  <2>1. committed' \in Seq(Views) /\ Len(committed') = Len(committed) + 1 /\ Grows
    BY <1>1, <1>2 DEF Feed!Commit, Feed!Append1
  <2>2. owed' = [owed EXCEPT ![w] = Len(committed')] /\ shown' = shown
    BY <1>2 DEF Feed!Commit
  <2> QED
    BY <2>1, <2>2 DEF FeedOK, Grows
<1>3. CASE Feed!CommitUnowed
  <2>1. committed' \in Seq(Views) /\ Len(committed') = Len(committed) + 1 /\ Grows
    BY <1>1, <1>3 DEF Feed!CommitUnowed, Feed!Append1
  <2>2. owed' = owed /\ shown' = shown
    BY <1>3 DEF Feed!CommitUnowed
  <2> QED
    BY <2>1, <2>2 DEF FeedOK, Grows
<1>4. ASSUME NEW w \in Writers, Feed!Show(w)
      PROVE  FeedOK' /\ Grows
  BY <1>4 DEF Feed!Show, FeedOK, Grows
<1>5. ASSUME NEW w \in Writers, Feed!Abandon(w)
      PROVE  FeedOK' /\ Grows
  BY <1>5 DEF Feed!Abandon, FeedOK, Grows
<1>6. CASE Feed!AbandonAll
  BY <1>6 DEF Feed!AbandonAll, FeedOK, Grows
<1>7. CASE Feed!Hide
  BY <1>7 DEF Feed!Hide, Feed!Nothing, FeedOK, Grows
<1>8. CASE Feed!ShowLate
  BY <1>8 DEF Feed!ShowLate, FeedOK, Grows
<1> QED
  BY <1>2, <1>3, <1>4, <1>5, <1>6, <1>7, <1>8 DEF Feed!Next

(***************************************************************************)
(* Types.                                                                  *)
(***************************************************************************)

LEMMA NearbyIdsType ==
  ASSUME FeedOK, NEW lat, NEW lng
  PROVE  NearbyIds(shown.view, lat, lng) \subseteq Ids
<1>1. \A inc \in shown.view : inc.id \in Ids
  BY DEF FeedOK, Views, CachedIncidents
<1> QED
  BY <1>1 DEF NearbyIds, Nearby

LEMMA MeetsType ==
  ASSUME TypeOK, NEW c \in Checks, NEW error \in {"db", "redis"}, Meets(c, error)
  PROVE  /\ met' \in [Checks -> SUBSET {"db", "redis"}]
         /\ met'[c] = met[c] \union {error}
         /\ \A d \in Checks \ {c} : met'[d] = met[d]
<1>1. met[c] \union {error} \in SUBSET {"db", "redis"}
  BY DEF TypeOK
<1> QED
  BY <1>1 DEF TypeOK, Meets

LEMMA PaidType ==
  ASSUME paid \in Nat, FeedOK, AdminSide
  PROVE  paid' \in Nat
<1>1. ASSUME NEW w \in Writers, paid' = Newer(owed[w], paid)
      PROVE  paid' \in Nat
  <2>1. owed[w] \in 0..Len(committed) /\ Len(committed) \in Nat
    BY DEF FeedOK
  <2> QED
    BY <1>1, <2>1 DEF Newer
<1>2. ASSUME Feed!ShowLate, paid' = Older(shown'.at, paid)
      PROVE  paid' \in Nat
  <2>1. PICK at \in 1..Len(committed) : shown' = [at |-> at, view |-> committed[at]]
    BY <1>2 DEF Feed!ShowLate
  <2>2. shown'.at = at /\ Len(committed) \in Nat
    BY <2>1 DEF FeedOK
  <2>3. shown'.at \in Nat
    BY <2>2
  <2> QED
    BY <1>2, <2>3 DEF Older
<1> QED
  BY <1>1, <1>2 DEF AdminSide

LEMMA TypeInit == Init => TypeOK
BY DEF Init, TypeOK

LEMMA TypeStep == TypeOK /\ FeedOK /\ [Next]_vars => TypeOK'
<1> SUFFICES ASSUME TypeOK, FeedOK, [Next]_vars
             PROVE  TypeOK'
  OBVIOUS
<1> USE DEF TypeOK
<1>1. ASSUME NEW c \in Checks, Reject(c)
      PROVE  TypeOK'
  BY <1>1 DEF Reject, feedVars
<1>2. ASSUME NEW c \in Checks, ReadCache(c)
      PROVE  TypeOK'
  <2> PICK q \in Requests :
        /\ req' = [req EXCEPT ![c] = q]
        /\ ids' = [ids EXCEPT ![c] = NearbyIds(shown.view, q.lat, q.lng)]
    BY <1>2 DEF ReadCache
  <2>1. NearbyIds(shown.view, q.lat, q.lng) \in SUBSET Ids
    BY NearbyIdsType
  <2>2. shown.at \in Nat /\ Len(committed) \in Nat
    BY DEF FeedOK
  <2>3. req' \in [Checks -> Requests \union {Nil}] /\ ids' \in [Checks -> SUBSET Ids]
    BY <2>1
  <2>4. seen' \in [Checks -> Nat] /\ due' \in [Checks -> Nat]
    BY <1>2, <2>2 DEF ReadCache
  <2>5. pc' \in [Checks -> {"new", "save", "enqueue", "done", "failed"}]
    BY <1>2 DEF ReadCache
  <2> QED
    BY <1>2, <2>3, <2>4, <2>5 DEF ReadCache, feedVars
<1>3. ASSUME NEW c \in Checks, SaveCheck(c)
      PROVE  TypeOK'
  <2>1. pc' \in [Checks -> {"new", "save", "enqueue", "done", "failed"}]
    BY <1>3 DEF SaveCheck, AfterSave
  <2>2. saved' \subseteq Checks
    BY <1>3 DEF SaveCheck
  <2>3. Meets(c, "db") \/ UNCHANGED met
    BY <1>3 DEF SaveCheck
  <2>4. met' \in [Checks -> SUBSET {"db", "redis"}]
    BY <2>3, MeetsType
  <2> QED
    BY <1>3, <2>1, <2>2, <2>4 DEF SaveCheck, feedVars
<1>4. ASSUME NEW c \in Checks, Enqueue(c) \/ Repeat(c)
      PROVE  TypeOK'
  <2>1. <<c>> \o list \in Seq(Checks)
    OBVIOUS
  <2>4. list' \in Seq(Checks)
    BY <1>4, <2>1 DEF Enqueue, Repeat, Push
  <2>5. Sends(c)
    BY <1>4 DEF Enqueue, Repeat
  <2>6. sent' \in [Checks -> Nat]
    BY <2>5 DEF Sends
  <2>2. met' \in [Checks -> SUBSET {"db", "redis"}]
    BY <1>4, MeetsType DEF Enqueue, Repeat
  <2>3. pc' \in [Checks -> {"new", "save", "enqueue", "done", "failed"}]
    BY <1>4 DEF Enqueue, Repeat
  <2> QED
    BY <1>4, <2>2, <2>3, <2>4, <2>6 DEF Enqueue, Repeat, feedVars
<1>5. CASE Crash
  BY <1>5 DEF Crash
<1>6. CASE AdminSide
  BY <1>6, PaidType DEF AdminSide, checkVars
<1>7. CASE UNCHANGED vars
  BY <1>7 DEF vars
<1>8. ASSUME NEW c \in Checks, LatePush(c)
      PROVE  TypeOK'
  <2>1. list' \in Seq(Checks)
    BY <1>8 DEF LatePush, Push
  <2> QED
    BY <1>8, <2>1 DEF LatePush, feedVars
<1> QED
  BY <1>1, <1>2, <1>3, <1>4, <1>5, <1>6, <1>7, <1>8 DEF Next, Step

(* The feed sees only steps of its own, or none.                           *)
LEMMA FeedSteps ==
  ASSUME [Next]_vars
  PROVE  Feed!Next \/ UNCHANGED feedVars
BY DEF Next, Step, vars, feedVars, Reject, ReadCache, SaveCheck, Enqueue, Repeat, LatePush,
       Crash, AdminSide, Feed!Next

(* The checks see only steps of their own, a late push, a crash, or none.  *)
LEMMA CheckSteps ==
  ASSUME [Next]_vars
  PROVE  (\E c \in Checks : Step(c) \/ LatePush(c)) \/ Crash \/ UNCHANGED checkVars
BY DEF Next, AdminSide, vars, checkVars

LEMMA FeedStep ==
  ASSUME FeedOK, [Next]_vars
  PROVE  FeedOK' /\ Grows
<1>1. CASE UNCHANGED feedVars
  BY <1>1 DEF FeedOK, Grows, feedVars
<1>2. CASE Feed!Next
  BY <1>2, FeedOKStep
<1> QED
  BY <1>1, <1>2, FeedSteps

IInv == TypeOK /\ FeedOK

LEMMA IInvInit == Init => IInv
BY TypeInit, FeedOKInit DEF IInv

LEMMA IInvStep == IInv /\ [Next]_vars => IInv'
BY TypeStep, FeedStep DEF IInv

(* The state of the checks stays in its types, whatever the feed does.     *)
THEOREM TypeCorrect == Spec => []TypeOK
<1>1. IInv => TypeOK
  BY DEF IInv
<1> QED
  BY <1>1, IInvInit, IInvStep, PTL DEF Spec

(***************************************************************************)
(* The answer.                                                             *)
(***************************************************************************)

(* What a check read is a moment that the history still holds, and its     *)
(* answer is the coverage of that moment.                                  *)
RightAnswer(c) ==
  /\ seen[c] \in 0..Len(committed)
  /\ HasRead(c) =>
       ids[c] = IF seen[c] = 0 THEN {}
                ELSE NearbyIds(committed[seen[c]], req[c].lat, req[c].lng)

AnswerInv == \A c \in Checks : RightAnswer(c)

(* A check that has not just read keeps what it has read.                  *)
Keeps(c) ==
  /\ seen'[c] = seen[c] /\ ids'[c] = ids[c] /\ req'[c] = req[c]
  /\ HasRead(c)' => HasRead(c)

LEMMA KeptAnswer ==
  ASSUME NEW c \in Checks, RightAnswer(c), Keeps(c), Grows, FeedOK, FeedOK'
  PROVE  RightAnswer(c)'
<1>1. seen[c] # 0 => committed'[seen[c]] = committed[seen[c]]
  BY DEF Grows, RightAnswer, FeedOK
<1>2. seen'[c] \in 0..Len(committed')
  BY DEF RightAnswer, Keeps, Grows, FeedOK
<1>3. ASSUME HasRead(c)'
      PROVE  ids'[c] = IF seen'[c] = 0 THEN {}
                       ELSE NearbyIds(committed'[seen'[c]], req'[c].lat, req'[c].lng)
  BY <1>1, <1>3 DEF RightAnswer, Keeps
<1> QED
  BY <1>2, <1>3 DEF RightAnswer

LEMMA ReadAnswer ==
  ASSUME IInv, NEW c \in Checks, ReadCache(c)
  PROVE  RightAnswer(c)'
<1>1. PICK q \in Requests :
        /\ req' = [req EXCEPT ![c] = q]
        /\ ids' = [ids EXCEPT ![c] = NearbyIds(shown.view, q.lat, q.lng)]
  BY DEF ReadCache
<1>2. /\ req'[c] = q
      /\ ids'[c] = NearbyIds(shown.view, q.lat, q.lng)
      /\ seen'[c] = shown.at
      /\ committed' = committed
  BY <1>1 DEF ReadCache, feedVars, IInv, TypeOK
<1>3. shown.at \in 0..Len(committed)
  BY DEF IInv, FeedOK
<1>4. shown.at = 0 => ids'[c] = {}
  BY <1>2 DEF IInv, FeedOK, NearbyIds, Nearby
<1>5. shown.at # 0 => ids'[c] = NearbyIds(committed'[seen'[c]], req'[c].lat, req'[c].lng)
  BY <1>2 DEF IInv, FeedOK
<1> QED
  BY <1>2, <1>3, <1>4, <1>5 DEF RightAnswer

LEMMA OthersKeep ==
  ASSUME IInv, [Next]_vars, NEW d \in Checks, ~ReadCache(d)
  PROVE  Keeps(d)
<1>1. ASSUME NEW c \in Checks, ReadCache(c)
      PROVE  Keeps(d)
  <2>1. c # d
    BY <1>1
  <2> QED
    BY <1>1, <2>1 DEF ReadCache, Keeps, HasRead, IInv, TypeOK
<1>2. ASSUME NEW c \in Checks,
             Reject(c) \/ SaveCheck(c) \/ Enqueue(c) \/ Repeat(c) \/ LatePush(c)
      PROVE  Keeps(d)
  BY <1>2 DEF Reject, SaveCheck, AfterSave, Enqueue, Repeat, LatePush, Keeps, HasRead,
     IInv, TypeOK
<1>3. CASE Crash \/ UNCHANGED checkVars
  BY <1>3 DEF Crash, checkVars, Keeps, HasRead
<1> QED
  BY <1>1, <1>2, <1>3, CheckSteps DEF Step

LEMMA AnswerStep == IInv /\ AnswerInv /\ [Next]_vars => AnswerInv'
<1> SUFFICES ASSUME IInv, AnswerInv, [Next]_vars, NEW c \in Checks
             PROVE  RightAnswer(c)'
  BY DEF AnswerInv
<1>1. CASE ReadCache(c)
  BY <1>1, ReadAnswer
<1>2. CASE ~ReadCache(c)
  <2>1. Keeps(c) /\ RightAnswer(c)
    BY <1>2, OthersKeep DEF AnswerInv
  <2>2. FeedOK /\ FeedOK' /\ Grows
    BY FeedStep DEF IInv
  <2> QED
    BY <2>1, <2>2, KeptAnswer
<1> QED
  BY <1>1, <1>2

LEMMA AnswersAreRight == Spec => []AnswerInv
<1>1. Init => AnswerInv
  BY DEF Init, Feed!Init, AnswerInv, RightAnswer, HasRead
<1> QED
  BY <1>1, IInvInit, IInvStep, AnswerStep, PTL DEF Spec

(* Whatever the admins, the TTL and the failures do meanwhile, a check is  *)
(* answered with the incidents that covered its place at one moment.       *)
THEOREM AnswersAreOneMoment == Spec => []AnswerIsOneMoment
<1>1. AnswerInv => AnswerIsOneMoment
  BY DEF AnswerInv, RightAnswer, AnswerIsOneMoment, CoveringAt
<1> QED
  BY <1>1, AnswersAreRight, PTL

(***************************************************************************)
(* With one writer: reading one's writes.                                  *)
(***************************************************************************)

Sole == \E w \in Writers : Writers = {w}

(* What the only writer owes is newer than everything it has published,    *)
(* and what is shown is at least as new.                                   *)
SoleFeed ==
  /\ paid \in 0..Len(committed)
  /\ \A w \in Writers : owed[w] = 0 \/ owed[w] > paid
  /\ shown.at = 0 \/ shown.at >= paid

ReadsPaid(c) == HasRead(c) /\ seen[c] # 0 => seen[c] >= due[c]

SoleInv == Sole => SoleFeed /\ \A c \in Checks : ReadsPaid(c)

LEMMA SoleFeedStep ==
  ASSUME Sole, FeedOK, SoleFeed, AdminSide
  PROVE  SoleFeed'
<1> PICK w \in Writers : Writers = {w}
  BY DEF Sole
<1>0. Len(committed) \in Nat
  BY DEF FeedOK
<1>1. ASSUME NEW view \in Views, committed' = Append(committed, view)
      PROVE  Len(committed') = Len(committed) + 1
  BY <1>1 DEF FeedOK
<1>2. CASE Feed!Commit(w) /\ UNCHANGED paid
  <2>1. Len(committed') = Len(committed) + 1
    BY <1>1, <1>2 DEF Feed!Commit, Feed!Append1
  <2>2. owed'[w] = Len(committed') /\ shown' = shown
    BY <1>2 DEF Feed!Commit, FeedOK
  <2> QED
    BY <1>0, <1>2, <2>1, <2>2 DEF SoleFeed
<1>3. CASE Feed!CommitUnowed /\ UNCHANGED paid
  <2>1. Len(committed') = Len(committed) + 1
    BY <1>1, <1>3 DEF Feed!CommitUnowed, Feed!Append1
  <2> QED
    BY <1>0, <1>3, <2>1 DEF SoleFeed, Feed!CommitUnowed
<1>4. CASE Feed!Show(w) /\ paid' = Newer(owed[w], paid)
  <2>1. owed[w] > paid /\ owed[w] \in 0..Len(committed) /\ paid \in Nat
    BY <1>4 DEF Feed!Show, SoleFeed, FeedOK
  <2>2. paid' = owed[w] /\ owed'[w] = 0 /\ shown'.at >= owed[w] /\ committed' = committed
    BY <1>0, <1>4, <2>1 DEF Feed!Show, Newer, FeedOK
  <2> QED
    BY <2>1, <2>2 DEF SoleFeed
<1>5. CASE Feed!Abandon(w) /\ UNCHANGED paid
  BY <1>5 DEF Feed!Abandon, SoleFeed, FeedOK
<1>6. CASE Feed!Hide /\ UNCHANGED paid
  BY <1>6 DEF Feed!Hide, Feed!Nothing, SoleFeed
<1>7. CASE Feed!ShowLate /\ paid' = Older(shown'.at, paid)
  <2>1. shown'.at \in 1..Len(committed) /\ UNCHANGED <<committed, owed>>
    BY <1>7 DEF Feed!ShowLate
  <2>2. paid \in Nat /\ owed[w] \in 0..Len(committed)
    BY DEF SoleFeed, FeedOK
  <2> QED
    BY <1>0, <1>7, <2>1, <2>2 DEF SoleFeed, Older
<1> QED
  BY <1>2, <1>3, <1>4, <1>5, <1>6, <1>7 DEF AdminSide

LEMMA SoleStep == IInv /\ SoleInv /\ [Next]_vars => SoleInv'
<1> SUFFICES ASSUME IInv, SoleInv, [Next]_vars, Sole
             PROVE  SoleFeed' /\ \A c \in Checks : ReadsPaid(c)'
  BY DEF SoleInv, Sole
<1>0. FeedOK /\ SoleFeed /\ \A c \in Checks : ReadsPaid(c)
  BY DEF SoleInv, IInv
<1>1. SoleFeed'
  <2>1. CASE AdminSide
    BY <1>0, <2>1, SoleFeedStep
  <2>2. CASE Crash
    BY <1>0, <2>2 DEF Crash, Feed!AbandonAll, SoleFeed
  <2>3. CASE UNCHANGED feedVars
    BY <1>0, <2>3 DEF SoleFeed, feedVars
  <2> QED
    BY <2>1, <2>2, <2>3
       DEF Next, Step, vars, feedVars, Reject, ReadCache, SaveCheck, Enqueue, Repeat, LatePush
<1>2. ASSUME NEW c \in Checks
      PROVE  ReadsPaid(c)'
  <2>1. CASE ReadCache(c)
    <3>1. seen'[c] = shown.at /\ due'[c] = paid
      BY <2>1 DEF ReadCache, IInv, TypeOK
    <3> QED
      BY <1>0, <3>1 DEF SoleFeed, ReadsPaid
  <2>2. CASE ~ReadCache(c)
    <3>1. Keeps(c)
      BY <2>2, OthersKeep
    <3>2. due'[c] = due[c]
      <4>1. ASSUME NEW d \in Checks, ReadCache(d)
            PROVE  due'[c] = due[c]
        <5>1. d # c
          BY <2>2, <4>1
        <5> QED
          BY <4>1, <5>1 DEF ReadCache, IInv, TypeOK
      <4> QED
        BY <4>1, CheckSteps
           DEF Step, checkVars, Reject, SaveCheck, Enqueue, Repeat, LatePush, Crash
    <3> QED
      BY <1>0, <3>1, <3>2 DEF Keeps, ReadsPaid
  <2> QED
    BY <2>1, <2>2
<1> QED
  BY <1>1, <1>2

(* A check begun after the only admin has published a change is answered   *)
(* from that change or a later one, or, when the key has expired, from     *)
(* nothing, whatever fails; a publication carried out late takes back what *)
(* it has set readers back from.                                           *)
THEOREM SoleAdminReadsOwnWrites == Spec => []SoleAdminReadsItsWrites
<1>1. Init => SoleInv
  BY DEF Init, Feed!Init, Feed!Nothing, SoleInv, SoleFeed, ReadsPaid, HasRead
<1>2. SoleInv => SoleAdminReadsItsWrites
  BY DEF Sole, SoleInv, ReadsPaid, SoleAdminReadsItsWrites
<1> QED
  BY <1>1, <1>2, SoleStep, IInvInit, IInvStep, PTL DEF Spec

(***************************************************************************)
(* The effects.                                                            *)
(***************************************************************************)

(* Where a check is tells which of its effects have happened: no webhook   *)
(* before the last step, or an LPUSH of it that met an error, and a row    *)
(* from the second on.                                                     *)
EffectsOf(c) ==
  /\ c \in ToSet(list) => ids[c] # {} /\ pc[c] \in {"enqueue", "done", "failed"}
  /\ c \in ToSet(list) /\ pc[c] = "enqueue" => "redis" \in met[c]
  /\ "redis" \in met[c] => ids[c] # {} /\ pc[c] \in {"enqueue", "done", "failed"}
  /\ pc[c] = "enqueue" => ids[c] # {}
  /\ pc[c] = "enqueue" \/ c \in ToSet(list) \/ "redis" \in met[c] =>
       ("db" \notin met[c] /\ req[c].user # NilUuid => c \in saved)
  /\ pc[c] = "done" /\ ids[c] # {} /\ "redis" \notin met[c] => c \in ToSet(list)

EffectsInv == \A c \in Checks : EffectsOf(c)

Once(c) == \A i, j \in DOMAIN list : list[i] = c /\ list[j] = c => i = j

NoDuplicates == \A c \in Checks : "redis" \notin met[c] => Once(c)

LEMMA PushedSet ==
  ASSUME TypeOK, NEW c \in Checks
  PROVE  ToSet(<<c>> \o list) = ToSet(list) \union {c}
<1> DEFINE t == <<c>> \o list
<1>1. list \in Seq(Checks)
  BY DEF TypeOK
<1>2. /\ t \in Seq(Checks) /\ Len(t) = 1 + Len(list)
      /\ t[1] = c
      /\ \A i \in 1..Len(list) : t[i + 1] = list[i]
  BY <1>1
<1>3. 1 \in 1..Len(t) /\ \A i \in 1..Len(list) : i + 1 \in 1..Len(t)
  BY <1>1, <1>2
<1>4. ASSUME NEW i \in 1..Len(t)
      PROVE  t[i] = c \/ \E j \in 1..Len(list) : t[i] = list[j]
  <2>1. CASE i = 1
    BY <1>2, <2>1
  <2>2. CASE i # 1
    <3>1. i - 1 \in 1..Len(list) /\ i = (i - 1) + 1
      BY <1>1, <1>2, <2>2
    <3>2. t[i] = list[i - 1]
      BY <1>2, <3>1
    <3> QED
      BY <3>1, <3>2
  <2> QED
    BY <2>1, <2>2
<1> HIDE DEF t
<1>5. DOMAIN t = 1..Len(t) /\ DOMAIN list = 1..Len(list)
  BY <1>1, <1>2
<1>6. \A i \in 1..Len(list) : list[i] \in {t[j] : j \in 1..Len(t)}
  BY <1>2, <1>3
<1>7. {t[i] : i \in 1..Len(t)} = {list[i] : i \in 1..Len(list)} \union {c}
  <2>1. c \in {t[i] : i \in 1..Len(t)}
    BY <1>2, <1>3
  <2>2. {t[i] : i \in 1..Len(t)} \subseteq {list[i] : i \in 1..Len(list)} \union {c}
    BY <1>4
  <2> QED
    BY <1>6, <2>1, <2>2
<1>8. ToSet(t) = ToSet(list) \union {c}
  BY <1>5, <1>7 DEF ToSet
<1> QED
  BY <1>8 DEF t

(* A step of another check, or of nobody, leaves the effects of d alone.   *)
LEMMA EffectsKept ==
  ASSUME NEW d \in Checks, EffectsOf(d),
         pc'[d] = pc[d], ids'[d] = ids[d], req'[d] = req[d], met'[d] = met[d],
         d \in saved' <=> d \in saved,
         d \in ToSet(list') <=> d \in ToSet(list)
  PROVE  EffectsOf(d)'
BY DEF EffectsOf

LEMMA EffectsStep == IInv /\ EffectsInv /\ [Next]_vars => EffectsInv'
<1> SUFFICES ASSUME IInv, EffectsInv, [Next]_vars, NEW d \in Checks
             PROVE  EffectsOf(d)'
  BY DEF EffectsInv
<1>0. EffectsOf(d)
  BY DEF EffectsInv
<1>1. ASSUME NEW c \in Checks, Reject(c)
      PROVE  EffectsOf(d)'
  BY <1>0, <1>1 DEF Reject, EffectsOf, IInv, TypeOK
<1>2. ASSUME NEW c \in Checks, ReadCache(c)
      PROVE  EffectsOf(d)'
  <2>1. CASE c = d
    BY <1>0, <1>2, <2>1 DEF ReadCache, EffectsOf, IInv, TypeOK
  <2>2. CASE c # d
    BY <1>0, <1>2, <2>2, EffectsKept DEF ReadCache, IInv, TypeOK
  <2> QED
    BY <2>1, <2>2
<1>3. ASSUME NEW c \in Checks, SaveCheck(c)
      PROVE  EffectsOf(d)'
  <2>1. CASE c = d
    BY <1>0, <1>3, <2>1 DEF SaveCheck, Meets, AfterSave, EffectsOf, IInv, TypeOK
  <2>2. CASE c # d
    BY <1>0, <1>3, <2>2, EffectsKept DEF SaveCheck, Meets, AfterSave, IInv, TypeOK
  <2> QED
    BY <2>1, <2>2
<1>4. ASSUME NEW c \in Checks, Enqueue(c) \/ Repeat(c)
      PROVE  EffectsOf(d)'
  <2>1. \/ ToSet(list') = ToSet(list) \union {c}
        \/ "redis" \in met'[c] /\ list' = list
    <3>1. \/ list' = <<c>> \o list
          \/ Meets(c, "redis") /\ list' = list
      BY <1>4 DEF Enqueue, Repeat, Push
    <3> QED
      BY <3>1, PushedSet, MeetsType DEF IInv
  <2>2. CASE c = d
    <3>1. CASE Enqueue(c)
      BY <1>0, <2>1, <2>2, <3>1 DEF Enqueue, Meets, EffectsOf, IInv, TypeOK
    <3>2. CASE Repeat(c)
      BY <1>0, <2>1, <2>2, <3>2 DEF Repeat, Meets, EffectsOf, IInv, TypeOK
    <3> QED
      BY <1>4, <3>1, <3>2
  <2>3. CASE c # d
    <3>1. d \in ToSet(list') <=> d \in ToSet(list)
      BY <2>1, <2>3
    <3> QED
      BY <1>0, <1>4, <2>3, <3>1, EffectsKept DEF Enqueue, Repeat, Meets, IInv, TypeOK
  <2> QED
    BY <2>2, <2>3
<1>5. CASE Crash
  BY <1>0, <1>5 DEF Crash, EffectsOf
<1>6. CASE UNCHANGED checkVars
  BY <1>0, <1>6, EffectsKept DEF checkVars
<1>7. ASSUME NEW c \in Checks, LatePush(c)
      PROVE  EffectsOf(d)'
  <2>1. ToSet(list') = ToSet(list) \union {c}
    BY <1>7, PushedSet DEF LatePush, Push, IInv
  <2>2. CASE c = d
    BY <1>0, <1>7, <2>1, <2>2 DEF LatePush, EffectsOf
  <2>3. CASE c # d
    BY <1>0, <1>7, <2>1, <2>3, EffectsKept DEF LatePush
  <2> QED
    BY <2>2, <2>3
<1> QED
  BY <1>1, <1>2, <1>3, <1>4, <1>5, <1>6, <1>7, CheckSteps DEF Step

(* A check that has not pushed its webhook is not in the list, so a push   *)
(* repeats none.                                                           *)
LEMMA NoDuplicatesStep == IInv /\ EffectsInv /\ NoDuplicates /\ [Next]_vars => NoDuplicates'
<1> SUFFICES ASSUME IInv, EffectsInv, NoDuplicates, [Next]_vars,
                    NEW d \in Checks, "redis" \notin met'[d]
             PROVE  Once(d)'
  BY DEF NoDuplicates
<1>0. list \in Seq(Checks)
  BY DEF IInv, TypeOK
<1>1. ASSUME NEW c \in Checks, Enqueue(c) \/ Repeat(c) \/ LatePush(c)
      PROVE  Once(d)'
  <2>1. CASE c = d
    <3>1. Enqueue(c) /\ list' = <<d>> \o list /\ met' = met
      BY <1>1, <2>1 DEF Enqueue, Repeat, LatePush, Push, Meets, IInv, TypeOK
    <3>2. d \notin ToSet(list)
      BY <2>1, <3>1 DEF Enqueue, EffectsInv, EffectsOf
    <3>3. \A i \in 1..Len(list) : list[i] # d
      BY <1>0, <3>2 DEF ToSet
    <3>4. /\ DOMAIN list' = 1..(Len(list) + 1)
          /\ \A i \in 2..(Len(list) + 1) : list'[i] = list[i - 1] /\ i - 1 \in 1..Len(list)
      BY <1>0, <3>1
    <3>5. \A i \in DOMAIN list' : list'[i] = d => i = 1
      BY <1>0, <3>3, <3>4
    <3> QED
      BY <3>5 DEF Once
  <2>2. CASE c # d
    <3>1. met'[d] = met[d] /\ Once(d)
      BY <1>1, <2>2 DEF Enqueue, Repeat, LatePush, Meets, IInv, TypeOK, NoDuplicates
    <3>2. CASE list' = list
      BY <3>1, <3>2 DEF Once
    <3>3. CASE list' = <<c>> \o list
      <4>1. /\ DOMAIN list' = 1..(1 + Len(list)) /\ DOMAIN list = 1..Len(list)
            /\ list'[1] = c
            /\ \A i \in 1..Len(list) : list'[i + 1] = list[i]
        BY <1>0, <3>3
      <4>2. \A i \in DOMAIN list' : list'[i] = d =>
              i - 1 \in 1..Len(list) /\ list[i - 1] = d
        <5> SUFFICES ASSUME NEW i \in DOMAIN list', list'[i] = d
                     PROVE  i - 1 \in 1..Len(list) /\ list[i - 1] = d
          OBVIOUS
        <5>1. i - 1 \in 1..Len(list) /\ i = (i - 1) + 1
          BY <1>0, <2>2, <4>1
        <5> QED
          BY <4>1, <5>1
      <4> QED
        BY <3>1, <4>1, <4>2 DEF Once
    <3> QED
      BY <1>1, <3>2, <3>3 DEF Enqueue, Repeat, LatePush, Push
  <2> QED
    BY <2>1, <2>2
<1>2. ASSUME NEW c \in Checks, SaveCheck(c)
      PROVE  Once(d)'
  <2>1. list' = list /\ (Meets(c, "db") \/ UNCHANGED met)
    BY <1>2 DEF SaveCheck
  <2>2. "redis" \notin met[d]
    BY <2>1, MeetsType DEF IInv
  <2> QED
    BY <2>1, <2>2 DEF NoDuplicates, Once
<1>3. CASE UNCHANGED <<list, met>>
  BY <1>3 DEF NoDuplicates, Once
<1> QED
  BY <1>1, <1>2, <1>3, CheckSteps DEF Step, checkVars, Reject, ReadCache, Crash

LEMMA EffectsInit == Init => EffectsInv /\ NoDuplicates
BY DEF Init, EffectsInv, EffectsOf, NoDuplicates, Once, ToSet

(* A webhook in the list is of a check with incidents, and unless its      *)
(* INSERT failed or the user is the nil uuid, of a counted one.            *)
THEOREM WebhooksFollowRows == Spec => []WebhookedChecksAreCounted
<1>1. IInv /\ EffectsInv => WebhookedChecksAreCounted
  <2>1. TypeOK => ToSet(list) \subseteq Checks
    BY DEF TypeOK, ToSet
  <2> QED
    BY <2>1 DEF IInv, EffectsInv, EffectsOf, WebhookedChecksAreCounted
<1> QED
  BY <1>1, IInvInit, IInvStep, EffectsInit, EffectsStep, PTL DEF Spec

(* If Redis took its push, a check answered with incidents has exactly one *)
(* webhook, also when its row could not be saved.                          *)
THEOREM OneWebhookPerWarning == Spec => []WarnedUsersHaveOneWebhook
<1>1. EffectsInv /\ NoDuplicates => WarnedUsersHaveOneWebhook
  BY DEF EffectsInv, EffectsOf, NoDuplicates, Once, WarnedUsersHaveOneWebhook
<1> QED
  BY <1>1, IInvInit, IInvStep, EffectsInit, EffectsStep, NoDuplicatesStep, PTL DEF Spec
=============================================================================
