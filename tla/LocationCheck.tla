---------------------------- MODULE LocationCheck ---------------------------
(***************************************************************************)
(* POST /location/check: publicIncidentService.CheckLocation and its       *)
(* handler. The admin side is its environment: ActiveFeed, which           *)
(* AdminIncidents implements. The webhook list is only pushed to here;     *)
(* WebhookSender models the other end.                                     *)
(*                                                                         *)
(*    new --ReadCache--> save --SaveCheck--> enqueue --Enqueue--> done     *)
(*     |--> failed            |--> done                                    *)
(***************************************************************************)
EXTENDS Incident, Sequences, SequencesExt, FiniteSets

CONSTANTS
  Checks,      \* the requests of a behaviour
  Users,       \* user ids that uuid.Parse accepts
  NilUuid,     \* the one that SaveCheck refuses
  Haversine,   \* distance in metres between (lat, lng) and (lat, lng)
  Faults,      \* what may fail: a subset of {"db", "redis", "crash"}
  MaxRepeats,  \* of the Redis client: how often it sends a command again
  Writers, MayFail, MaxCommits     \* of the feed

Requests == [user : Users, lat : Lats, lng : Lngs]

ASSUME CheckAssumption ==
  /\ NilUuid \in Users
  /\ Nil \notin Requests
  /\ Haversine \in [Lats \X Lngs \X Lats \X Lngs -> Nat]
  /\ Faults \subseteq {"db", "redis", "crash"}
  /\ MaxRepeats \in Nat

(* The admin handlers run in the same process.                             *)
ASSUME CrashAssumption == "crash" \in Faults => MayFail

VARIABLES
  committed, shown, owed,   \* the feed: what GetActive returns is shown.view
  pc,        \* where each check is
  req,       \* the request: user and coordinates
  ids,       \* the ids of the nearby incidents: the answer, if there is one
  saved,     \* rows of location_checks, by check
  sent,      \* LPUSHes that the check has sent
  list,      \* the Redis list webhooks:queue, leftmost first, by check:
             \* here nobody takes a message from it
  paid,      \* ghost: newest change whose writer has published it and that
             \* no late publication of an older one has undone
  seen,      \* ghost: index in committed of the view the check read, 0: none
  due,       \* ghost: paid, when the check read the cache
  met        \* ghost: the errors the check met, "db" or "redis"

feedVars  == <<committed, shown, owed, paid>>
checkVars == <<pc, req, ids, saved, sent, list, seen, due, met>>
vars ==
  <<committed, shown, owed, paid, pc, req, ids, saved, sent, list, seen, due, met>>

Feed == INSTANCE ActiveFeed

Init ==
  /\ Feed!Init
  /\ pc = [c \in Checks |-> "new"]
  /\ req = [c \in Checks |-> Nil]
  /\ ids = [c \in Checks |-> {}]
  /\ saved = {} /\ list = <<>>
  /\ sent = [c \in Checks |-> 0]
  /\ paid = 0
  /\ seen = [c \in Checks |-> 0]
  /\ due = [c \in Checks |-> 0]
  /\ met = [c \in Checks |-> {}]

(* filterNearby, and the loop that takes the ids. *)
Nearby(view, lat, lng) ==
  {inc \in view : Haversine[lat, lng, inc.lat, inc.lng] <= inc.radius}

(* Mutant of NearbyIds: the incidents, not their ids. *)
NearbyIncidents(view, lat, lng) == Nearby(view, lat, lng)

NearbyIds(view, lat, lng) == {inc.id : inc \in Nearby(view, lat, lng)}

(* A body that is not JSON, coordinates out of range, a user id that is    *)
(* not a uuid, GetActive failing: an error is answered, nothing is done.   *)
Reject(c) ==
  /\ pc[c] = "new"
  /\ pc' = [pc EXCEPT ![c] = "failed"]
  /\ UNCHANGED <<feedVars, req, ids, saved, sent, list, seen, due, met>>

(* Mutant of ReadCache: filterNearby stops at the first match. *)
ReadCacheToFirst(c) ==
  /\ pc[c] = "new"
  /\ \E q \in Requests, some \in SUBSET Ids :
       /\ Cardinality(some) <= 1
       /\ some \subseteq NearbyIds(shown.view, q.lat, q.lng)
       /\ (some = {}) = (NearbyIds(shown.view, q.lat, q.lng) = {})
       /\ req' = [req EXCEPT ![c] = q]
       /\ ids' = [ids EXCEPT ![c] = some]
  /\ seen' = [seen EXCEPT ![c] = shown.at]
  /\ pc' = [pc EXCEPT ![c] = "save"]
  /\ UNCHANGED <<feedVars, saved, sent, list, due, met>>

(* GetActive, filterNearby and uuid.Parse. *)
ReadCache(c) ==
  /\ pc[c] = "new"
  /\ \E q \in Requests :
       /\ req' = [req EXCEPT ![c] = q]
       /\ ids' = [ids EXCEPT ![c] = NearbyIds(shown.view, q.lat, q.lng)]
  /\ seen' = [seen EXCEPT ![c] = shown.at]
  /\ due' = [due EXCEPT ![c] = paid]
  /\ pc' = [pc EXCEPT ![c] = "save"]
  /\ UNCHANGED <<feedVars, saved, sent, list, met>>

Meets(c, error) == met' = [met EXCEPT ![c] = @ \union {error}]

AfterSave(c) ==
  pc' = [pc EXCEPT ![c] = IF ids[c] # {} THEN "enqueue" ELSE "done"]

(* Mutant of SaveCheck: left to a goroutine that has not run yet. *)
SaveCheckDetached(c) ==
  /\ pc[c] = "save"
  /\ AfterSave(c)
  /\ UNCHANGED <<feedVars, req, ids, saved, sent, list, seen, due, met>>

(* SaveCheck: its error is logged and dropped. An INSERT whose answer is   *)
(* lost may have been made.                                                *)
SaveCheck(c) ==
  /\ pc[c] = "save"
  /\ \/ req[c].user # NilUuid /\ saved' = saved \union {c} /\ UNCHANGED met
     \/ req[c].user = NilUuid /\ UNCHANGED <<saved, met>>
     \/ /\ "db" \in Faults
        /\ Meets(c, "db")
        /\ \/ UNCHANGED saved
           \/ req[c].user # NilUuid /\ saved' = saved \union {c}
  /\ AfterSave(c)
  /\ UNCHANGED <<feedVars, req, ids, sent, list, seen, due>>

Sends(c) == sent' = [sent EXCEPT ![c] = @ + 1]

Push(c) == list' = <<c>> \o list

(* Mutant of Enqueue: a check that was not saved gets no webhook. *)
EnqueueIfSaved(c) ==
  /\ pc[c] = "enqueue"
  /\ Sends(c)
  /\ IF c \in saved THEN Push(c) ELSE UNCHANGED list
  /\ pc' = [pc EXCEPT ![c] = "done"]
  /\ UNCHANGED <<feedVars, req, ids, saved, seen, due, met>>

(* Enqueue: its error is logged and dropped. *)
Enqueue(c) ==
  /\ pc[c] = "enqueue"
  /\ Sends(c)
  /\ \/ Push(c) /\ UNCHANGED met
     \/ "redis" \in Faults /\ Meets(c, "redis") /\ UNCHANGED list
  /\ pc' = [pc EXCEPT ![c] = "done"]
  /\ UNCHANGED <<feedVars, req, ids, saved, seen, due>>

(* The client sends an LPUSH again whose answer it lost.                   *)
Repeat(c) ==
  /\ pc[c] = "enqueue"
  /\ "redis" \in Faults
  /\ sent[c] < MaxRepeats
  /\ Sends(c)
  /\ Meets(c, "redis")
  /\ UNCHANGED <<feedVars, pc, req, ids, saved, list, seen, due>>

Copies(c) == Cardinality({i \in DOMAIN list : list[i] = c})

(* A broken connection does not say whether Redis took the LPUSH: it may   *)
(* carry it out then or later, when the check is answered or the process   *)
(* gone.                                                                   *)
LatePush(c) ==
  /\ "redis" \in met[c]
  /\ Copies(c) < sent[c]
  /\ Push(c)
  /\ UNCHANGED <<feedVars, pc, req, ids, saved, sent, seen, due, met>>

(* The process dies: the requests in flight, checks and admin requests,    *)
(* are never answered.                                                     *)
Crash ==
  /\ "crash" \in Faults
  /\ pc' = [c \in Checks |-> IF pc[c] \in {"save", "enqueue"} THEN "failed" ELSE pc[c]]
  /\ Feed!AbandonAll
  /\ UNCHANGED <<paid, req, ids, saved, sent, list, seen, due, met>>

Newer(a, b) == IF a > b THEN a ELSE b
Older(a, b) == IF a < b THEN a ELSE b

(* The admin side takes a step, as ActiveFeed allows. *)
AdminSide ==
  /\ \/ \E w \in Writers : Feed!Show(w) /\ paid' = Newer(owed[w], paid)
     \/ Feed!ShowLate /\ paid' = Older(shown'.at, paid)
     \/ /\ \/ \E w \in Writers : Feed!Commit(w) \/ Feed!Abandon(w)
           \/ Feed!CommitUnowed
           \/ Feed!Hide
        /\ UNCHANGED paid
  /\ UNCHANGED checkVars

Step(c) == Reject(c) \/ ReadCache(c) \/ SaveCheck(c) \/ Enqueue(c) \/ Repeat(c)

Next == (\E c \in Checks : Step(c) \/ LatePush(c)) \/ Crash \/ AdminSide

Spec == Init /\ [][Next]_vars

(***************************************************************************)
(* Properties.                                                             *)
(***************************************************************************)

TypeOK ==
  /\ paid \in Nat
  /\ pc \in [Checks -> {"new", "save", "enqueue", "done", "failed"}]
  /\ req \in [Checks -> Requests \union {Nil}]
  /\ ids \in [Checks -> SUBSET Ids]
  /\ saved \subseteq Checks
  /\ sent \in [Checks -> Nat]
  /\ list \in Seq(Checks)
  /\ seen \in [Checks -> Nat]
  /\ due \in [Checks -> Nat]
  /\ met \in [Checks -> SUBSET {"db", "redis"}]

HasRead(c) == req[c] # Nil

(* The ids of the incidents that covered the place of check c after the    *)
(* change number at.                                                       *)
CoveringAt(c, at) == NearbyIds(committed[at], req[c].lat, req[c].lng)

(* An answer, and the webhook that repeats it, name exactly the incidents  *)
(* that covered the place at one moment, after one committed change that   *)
(* was not yet out of the cache; never a mixture of two moments.           *)
AnswerIsOneMoment ==
  \A c \in Checks :
    HasRead(c) => ids[c] = IF seen[c] = 0 THEN {} ELSE CoveringAt(c, seen[c])

(* With one admin at a time, an admin who has published a change and then  *)
(* checks (or asks a user to) is answered from that change or a later one, *)
(* unless the key has expired or a SET that went unanswered was carried    *)
(* out since, also after failures and crashes: nothing else takes a check  *)
(* back behind a published change (public.go:68, admin.go:91).             *)
SoleAdminReadsItsWrites ==
  (\E w \in Writers : Writers = {w}) =>
    \A c \in Checks : HasRead(c) /\ seen[c] # 0 => seen[c] >= due[c]

(* Webhooks are for non-empty answers, and a check of a storable user      *)
(* whose INSERT did not fail is in location_checks before its webhook is   *)
(* in the list: the statistics count it whatever dies in between           *)
(* (public.go:105 before :119).                                            *)
WebhookedChecksAreCounted ==
  \A c \in ToSet(list) :
    /\ ids[c] # {}
    /\ "db" \notin met[c] /\ req[c].user # NilUuid => c \in saved

(* Unless its own LPUSH failed, every check that is answered with          *)
(* incidents has put its webhook into the list, and never twice, whether   *)
(* or not the check could be saved (public.go:105-128); a crash may cost   *)
(* the webhook only together with the answer.                              *)
WarnedUsersHaveOneWebhook ==
  \A c \in Checks : "redis" \notin met[c] =>
    /\ pc[c] = "done" /\ ids[c] # {} => c \in ToSet(list)
    /\ \A i, j \in DOMAIN list : list[i] = c /\ list[j] = c => i = j

(* "Check if your current location is in an incident zone"                 *)
(* (templates/index.html:341, public.html:414): with one admin, the answer *)
(* names every active incident that covers the place, as last published.   *)
SettledCheckMissesNothing ==
  \A c \in Checks :
    HasRead(c) /\ due[c] > 0 => CoveringAt(c, due[c]) \subseteq ids[c]
=============================================================================
