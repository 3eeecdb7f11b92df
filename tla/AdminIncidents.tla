--------------------------- MODULE AdminIncidents ---------------------------
(***************************************************************************)
(* The admin requests that change incidents: handler, AdminService,        *)
(* the table in PostgreSQL and the key "incidents:active" in Redis.        *)
(*                                                                         *)
(* One request slot per concurrent handler. A handler is as many steps as  *)
(* it makes calls to the database or to Redis: other handlers, the TTL and *)
(* a crash of the process come between them.                               *)
(*                                                                         *)
(*    idle --Create/Delete--------------> list --> publish --> idle        *)
(*    idle --UpdateGet--> apply --UpdateApply--^                           *)
(***************************************************************************)
EXTENDS Incident, Sequences, FiniteSets

CONSTANTS
  Reqs,         \* request slots: admin requests that may be in flight
  Bodies,       \* the bodies of the PUTs
  Faults,       \* what may fail: a subset of {"db", "cache", "crash"}
  MaxCommits,   \* bound: changes of the table in a behaviour
  MaxLate       \* bound: calls that nobody waits for and that may still act

(* A crash leaves calls unanswered, as a broken connection does.           *)
ASSUME AdminAssumption ==
  /\ Bodies \subseteq UpdateIncidentRequest
  /\ Faults \subseteq {"db", "cache", "crash"}
  /\ "crash" \in Faults => {"db", "cache"} \subseteq Faults
  /\ MaxCommits \in Nat /\ MaxLate \in Nat

VARIABLES
  rows,       \* the table incidents: a function from id to row
  commits,    \* ghost: the active view after each change, oldest first
  cache,      \* the key incidents:active and, ghost, the change it shows
  pc,         \* where each handler is
  draft,      \* Update: the incident read, and the body to patch it with
  snap,       \* refreshCache: the result of ListActive
  lateSets,     \* the lists of SETs sent without an answer, which Redis may
                \* still carry out
  lateChanges,  \* the statements that PostgreSQL may still carry out, after
                \* their handler was told that they failed
  wrote,      \* ghost: index in commits of the change the handler made
  published,  \* ghost: newest change ever put into the cache
  clean       \* ghost: no other refresh was under way when the newest change
              \* was made, its own has not failed, and no late SET followed

lateVars == <<lateSets, lateChanges>>
vars     == <<rows, commits, cache, pc, draft, snap, lateVars, wrote, published, clean>>

Versions == [at : Nat, view : Views]

(* A missing key: GetActive turns redis.Nil into an empty list. *)
Absent  == [at |-> 0, view |-> {}]

Drafts == [id : Ids, patch : UpdateIncidentRequest, old : Incidents]

InRefresh(r) == pc[r] \in {"list", "publish"}

Init ==
  /\ rows = [i \in Ids |-> Nil]
  /\ commits = <<>>
  /\ cache = Absent
  /\ pc = [r \in Reqs |-> "idle"]
  /\ draft = [r \in Reqs |-> Nil]
  /\ snap = [r \in Reqs |-> Absent]
  /\ lateSets = {} /\ lateChanges = {}
  /\ wrote = [r \in Reqs |-> 0]
  /\ published = 0
  /\ clean = TRUE

(***************************************************************************)
(* Steps shared by the handlers.                                           *)
(***************************************************************************)

(* The table changes; the handler that did it, if it learns of it, goes on *)
(* to refreshCache, and answers 2xx whatever the refresh does.             *)
ChangeTable(table) ==
  /\ Len(commits) < MaxCommits
  /\ rows' = table
  /\ commits' = Append(commits, ActiveView(table))

(* A statement that changes the table: write this row, whole, or, for Nil, *)
(* make the row inactive if it is active.                                  *)
Statements == [id : Ids, row : Incidents \union {Nil}]

Write(i, inc) == [id |-> i, row |-> inc]
SoftDelete(i) == [id |-> i, row |-> Nil]

Executed(s) ==
  IF s.row # Nil THEN [rows EXCEPT ![s.id] = s.row]
  ELSE IF IsActive(rows, s.id) THEN [rows EXCEPT ![s.id].status = Inactive]
  ELSE rows

(* No other handler is in its refresh.                                     *)
Alone(r) == \A q \in Reqs \ {r} : ~InRefresh(q)

(* Mutant of Committed: the active rows were read before the change.       *)
CommittedAfterList(r, table) ==
  /\ ChangeTable(table)
  /\ snap' = [snap EXCEPT ![r] = [at |-> Len(commits), view |-> ActiveView(rows)]]
  /\ pc' = [pc EXCEPT ![r] = "publish"]
  /\ draft' = [draft EXCEPT ![r] = Nil]
  /\ wrote' = [wrote EXCEPT ![r] = Len(commits')]
  /\ clean' = Alone(r)
  /\ UNCHANGED <<cache, published, lateVars>>

Committed(r, table) ==
  /\ ChangeTable(table)
  /\ pc' = [pc EXCEPT ![r] = "list"]
  /\ draft' = [draft EXCEPT ![r] = Nil]
  /\ wrote' = [wrote EXCEPT ![r] = Len(commits')]
  /\ clean' = Alone(r)
  /\ UNCHANGED <<cache, snap, published, lateVars>>

Return(r) ==
  /\ pc' = [pc EXCEPT ![r] = "idle"]
  /\ draft' = [draft EXCEPT ![r] = Nil]
  /\ wrote' = [wrote EXCEPT ![r] = 0]
  /\ UNCHANGED <<cache, snap, published, lateSets>>

(* 400 of a CHECK constraint (SQLSTATE 23514), 404 of a missing row. *)
Refused(r) == Return(r) /\ UNCHANGED <<rows, commits, clean, lateChanges>>

Room == Cardinality(lateSets) + Cardinality(lateChanges) < MaxLate

(* A statement whose answer is lost (deadline, cancelled request, broken   *)
(* connection): 500, and if it is one of statements, it may still be       *)
(* carried out, at once or later.                                          *)
StatementLost(r, statements) ==
  /\ "db" \in Faults
  /\ Return(r)
  /\ \/ UNCHANGED lateChanges
     \/ \E s \in statements : Room /\ lateChanges' = lateChanges \union {s}
  /\ UNCHANGED <<rows, commits, clean>>

(* A statement is sent: it is refused for the row it would write, or made  *)
(* or lost.                                                                *)
Sent(r, s) ==
  \/ PassesCheck(s.row) /\ Committed(r, Executed(s))
  \/ ~PassesCheck(s.row) /\ Refused(r)
  \/ StatementLost(r, {t \in {s} : PassesCheck(t.row)})

(* It is carried out after all.                                            *)
LateChange ==
  /\ \E s \in lateChanges :
       /\ Executed(s) # rows
       /\ ChangeTable(Executed(s))
       /\ lateChanges' = lateChanges \ {s}
  /\ clean' = FALSE
  /\ UNCHANGED <<cache, pc, draft, snap, lateSets, wrote, published>>

(***************************************************************************)
(* POST /admin/incidents: INSERT of a row with a fresh uuid, one that no   *)
(* INSERT has used that may yet be carried out.                            *)
(***************************************************************************)
Create(r) ==
  /\ pc[r] = "idle"
  /\ \E i \in Ids, req \in CreateIncidentRequest :
       LET insert == Write(i, NewIncident(req))
       IN /\ rows[i] = Nil /\ \A s \in lateChanges : s.id # i
          /\ Sent(r, insert)

(***************************************************************************)
(* PUT /admin/incidents/{id}: SELECT the row, patch the copy in memory,    *)
(* then UPDATE every column of the row. Rows are never deleted, so the     *)
(* UPDATE always finds the row the SELECT found.                           *)
(***************************************************************************)
UpdateGet(r) ==
  /\ pc[r] = "idle"
  /\ \E i \in Ids, req \in Bodies :
       \/ /\ rows[i] # Nil
          /\ Len(commits) < MaxCommits
          /\ pc' = [pc EXCEPT ![r] = "apply"]
          /\ draft' = [draft EXCEPT
               ![r] = [id |-> i, patch |-> req, old |-> rows[i]]]
          /\ UNCHANGED <<rows, commits, cache, snap, lateVars, wrote, published, clean>>
       \/ rows[i] = Nil /\ Refused(r)
       \/ StatementLost(r, {})

UpdateApply(r) ==
  /\ pc[r] = "apply"
  /\ Sent(r, Write(draft[r].id, Patched(draft[r].old, draft[r].patch)))

(***************************************************************************)
(* DELETE /admin/incidents/{id}: a soft delete, of an active row only.     *)
(***************************************************************************)
(* Mutants of Delete: the row is removed; the handler returns without      *)
(* refreshCache.                                                           *)
DeleteRow(r) ==
  /\ pc[r] = "idle"
  /\ \E i \in Ids : \/ IsActive(rows, i) /\ Committed(r, [rows EXCEPT ![i] = Nil])
                    \/ ~IsActive(rows, i) /\ Refused(r)

DeleteWithoutRefresh(r) ==
  /\ pc[r] = "idle"
  /\ \E i \in Ids : /\ IsActive(rows, i)
                    /\ ChangeTable([rows EXCEPT ![i].status = Inactive])
                    /\ Return(r)
                    /\ clean' = Alone(r)
                    /\ UNCHANGED lateChanges

Delete(r) ==
  /\ pc[r] = "idle"
  /\ \E i \in Ids :
       \/ IsActive(rows, i) /\ Committed(r, Executed(SoftDelete(i)))
       \/ ~IsActive(rows, i) /\ Refused(r)
       \/ StatementLost(r, {SoftDelete(i)})

(* GET /admin/incidents and /admin/incidents/{id} change nothing, nor does *)
(* a request refused for its id or its body before the first call.         *)
Read(r) == pc[r] = "idle" /\ UNCHANGED vars

(***************************************************************************)
(* AdminService.refreshCache: read the active rows, then SET the key. An   *)
(* error of either call is logged and dropped.                             *)
(***************************************************************************)
RefreshFails(r) ==
  Return(r) /\ clean' = FALSE /\ UNCHANGED <<rows, commits, lateChanges>>

ListActive(r) ==
  /\ pc[r] = "list"
  /\ \/ /\ snap' = [snap EXCEPT ![r] = [at |-> Len(commits), view |-> ActiveView(rows)]]
        /\ pc' = [pc EXCEPT ![r] = "publish"]
        /\ UNCHANGED <<rows, commits, cache, draft, lateVars, wrote, published, clean>>
     \/ "db" \in Faults /\ RefreshFails(r)

Newer(a, b) == IF a > b THEN a ELSE b

RefreshDone(r) ==
  /\ pc' = [pc EXCEPT ![r] = "idle"]
  /\ snap' = [snap EXCEPT ![r] = Absent]
  /\ wrote' = [wrote EXCEPT ![r] = 0]
  /\ UNCHANGED <<rows, commits, draft, lateVars>>

(* Mutants of SetActive: the new list is added to the old one; an empty    *)
(* list is not worth a SET.                                                *)
SetActiveMerging(r) ==
  /\ pc[r] = "publish"
  /\ cache' = [snap[r] EXCEPT !.view = @ \union cache.view]
  /\ published' = Newer(snap[r].at, published)
  /\ RefreshDone(r)
  /\ UNCHANGED clean

SetActiveUnlessEmpty(r) ==
  /\ pc[r] = "publish"
  /\ cache' = IF snap[r].view = {} THEN cache ELSE snap[r]
  /\ published' = Newer(snap[r].at, published)
  /\ RefreshDone(r)
  /\ UNCHANGED clean

SetActive(r) ==
  /\ pc[r] = "publish"
  /\ \/ /\ cache' = snap[r]
        /\ published' = Newer(snap[r].at, published)
        /\ UNCHANGED clean
     \/ /\ "cache" \in Faults
        /\ clean' = FALSE
        /\ UNCHANGED <<cache, published>>
  /\ RefreshDone(r)

(* A SET that is not answered in time: the client sends it again, up to    *)
(* three times, or gives up in SetActive, and Redis may carry this one     *)
(* out when it pleases, over a newer list too, and again if there are more *)
(* of them.                                                                *)
SetUnanswered(r) ==
  /\ pc[r] = "publish"
  /\ "cache" \in Faults
  /\ Room
  /\ lateSets' = lateSets \union {snap[r]}
  /\ UNCHANGED <<rows, commits, cache, pc, draft, snap, lateChanges, wrote, published, clean>>

LateSet ==
  /\ \E v \in lateSets :
       /\ cache' = v
       /\ published' = Newer(v.at, published)
       /\ clean' = (clean /\ (v.at = Len(commits) \/ \E r \in Reqs : InRefresh(r)))
       /\ lateSets' \in {lateSets, lateSets \ {v}}
  /\ UNCHANGED <<rows, commits, pc, draft, snap, lateChanges, wrote>>

(* Mutant of Expire: the key is set without a TTL. *)
NeverExpire == FALSE /\ UNCHANGED vars

(* The TTL of the key runs out: Redis removes it. *)
Expire ==
  /\ cache.at > 0
  /\ cache' = Absent
  /\ UNCHANGED <<rows, commits, pc, draft, snap, lateVars, wrote, published, clean>>

(* The process dies and is started again. Nothing reads or fills the cache *)
(* at start; a call it had sent may still be carried out.                  *)
Crash ==
  /\ "crash" \in Faults
  /\ pc' = [r \in Reqs |-> "idle"]
  /\ draft' = [r \in Reqs |-> Nil]
  /\ snap' = [r \in Reqs |-> Absent]
  /\ wrote' = [r \in Reqs |-> 0]
  /\ clean' = (clean /\ \A r \in Reqs : ~InRefresh(r))
  /\ UNCHANGED <<rows, commits, cache, lateVars, published>>

Step(r) ==
  \/ Create(r) \/ UpdateGet(r) \/ UpdateApply(r) \/ Delete(r) \/ Read(r)
  \/ ListActive(r) \/ SetActive(r) \/ SetUnanswered(r)

(* What the servers still do for handlers that are gone. *)
Late == LateChange \/ LateSet

Next == (\E r \in Reqs : Step(r)) \/ Late \/ Expire \/ Crash

Spec == Init /\ [][Next]_vars

(* A handler that has started a refresh goes on: both calls return, with   *)
(* or without an error. Redis removes a key whose TTL is over; under       *)
(* MaxCommits the key is set finitely often, so that moment comes.         *)
Fairness ==
  /\ \A r \in Reqs : WF_vars(ListActive(r) \/ SetActive(r))
  /\ WF_vars(Expire)

FairSpec == Spec /\ Fairness

(***************************************************************************)
(* Properties.                                                             *)
(***************************************************************************)

TypeOK ==
  /\ rows \in Tables
  /\ commits \in Seq(Views)
  /\ cache \in Versions
  /\ pc \in [Reqs -> {"idle", "apply", "list", "publish"}]
  /\ draft \in [Reqs -> Drafts \union {Nil}]
  /\ snap \in [Reqs -> Versions]
  /\ lateSets \in SUBSET Versions
  /\ lateChanges \in SUBSET Statements
  /\ wrote \in [Reqs -> Nat]
  /\ published \in Nat
  /\ clean \in BOOLEAN

(* What a check may read from the cache is always the complete set of      *)
(* incidents that were active at one moment, after one committed change:   *)
(* never a mixture of two moments, and never a change that was not made.   *)
(* refreshCache (admin.go:91) copies a result that others change meanwhile.*)
CacheIsCommittedView ==
  cache.at > 0 => /\ cache.at <= Len(commits)
                  /\ cache.view = commits[cache.at]

(* A handler never publishes a view older than its own change: the read    *)
(* of refreshCache comes after the commit (admin.go:34-37, 69-72, 77-80).  *)
PublishIncludesOwnWrite ==
  \A r \in Reqs :
    /\ InRefresh(r) => wrote[r] \in 1..Len(commits)
    /\ pc[r] = "publish" => /\ snap[r].at \in wrote[r]..Len(commits)
                            /\ snap[r].view = commits[snap[r].at]

(* As long as no call fails, a change that was never in the cache, nor any *)
(* later one, has a handler that is still going to put it there: an admin  *)
(* request never returns leaving its change unpublished.                   *)
EveryCommitIsPublished ==
  Faults = {} =>
    (Len(commits) > published =>
       \E r \in Reqs : InRefresh(r) /\ wrote[r] = Len(commits))

(* The only things that leave an outdated cache behind are refreshes that  *)
(* overlap, refreshes that fail and SETs carried out late: if the newest   *)
(* change was made outside other refreshes, its own went through and no    *)
(* older SET came after it, then once no refresh is under way the key is   *)
(* gone or is the table, whatever happened before (admin.go:91-112).       *)
QuietCacheIsFresh ==
  clean /\ (\A r \in Reqs : ~InRefresh(r)) =>
    (cache = Absent \/ cache.view = ActiveView(rows))

(* A PUT changes only the fields its body names (admin.go:57-68 overwrite  *)
(* the named ones; the test calls it "Update (PATCH semantics)").          *)
PatchTouchesOnlyNamedFields ==
  [][\A r \in Reqs : UpdateApply(r) =>
       \A f \in Fields :
         rows'[draft[r].id][f] # rows[draft[r].id][f] => draft[r].patch[f] # Nil]_vars

(* What an answered PUT changes beyond the fields its body names is the    *)
(* change of a rival, or of an older statement carried out late, made to   *)
(* that very field since the row was read: a field nobody raced for keeps  *)
(* its value (admin.go:53-69).                                             *)
PatchUndoesOnlyRacedFields ==
  [][\A r \in Reqs : UpdateApply(r) =>
       LET old == rows[draft[r].id]
           new == rows'[draft[r].id]
       IN \A f \in Fields :
            new[f] # old[f] => draft[r].patch[f] # Nil \/ old[f] # draft[r].old[f]]_vars

(* Every stored radius is one the request type declares valid              *)
(* (domain/incident.go:20 min=0.1,max=100: 100 to 100000 metres).          *)
StoredRadiusIsDeclared ==
  \A i \in Ids : rows[i] # Nil => rows[i].radius \in 100..100000

(* Readers do not keep an outdated view for ever, even when the refresh    *)
(* that should have replaced it failed or the process died before it: the  *)
(* TTL of admin.go:108 bounds every staleness.                             *)
StaleViewLeavesCache ==
  (cache.at > 0 /\ cache.at < Len(commits)) ~> (cache.at \in {0, Len(commits)})

(* The change each handler in refreshCache has still to publish.           *)
Owed == [r \in Reqs |-> IF InRefresh(r) THEN wrote[r] ELSE 0]

(* The cache, seen by its readers, is the feed of ActiveFeed.              *)
Feed == INSTANCE ActiveFeed WITH
  Writers   <- Reqs,
  MayFail   <- (Faults # {}),
  committed <- commits,
  shown     <- cache,
  owed      <- Owed

FeedSpec     == Feed!Spec
FeedFairSpec == Feed!FairSpec
=============================================================================
