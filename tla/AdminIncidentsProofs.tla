------------------------ MODULE AdminIncidentsProofs ------------------------
(***************************************************************************)
(* Proofs about AdminIncidents, for any number of requests, ids and        *)
(* changes, and for every combination of faults.                           *)
(***************************************************************************)
EXTENDS AdminIncidents, TLAPS

(***************************************************************************)
(* The inductive invariant.                                                *)
(***************************************************************************)

(* An UPDATE is only sent with an incident that a SELECT returned.         *)
DraftReady == \A r \in Reqs : pc[r] = "apply" => draft[r] \in Drafts

(* The last entry of the history is what ListActive would return now.      *)
TableIsLastCommit ==
  Len(commits) > 0 => commits[Len(commits)] = ActiveView(rows)

(* Only failures leave calls behind, and what a SET that was left behind   *)
(* carries is the view of a change.                                        *)
LateCalls ==
  /\ Faults = {} => lateSets = {} /\ lateChanges = {}
  /\ \A v \in lateSets : v.at \in 1..Len(commits) /\ v.view = commits[v.at]

TypeInv == TypeOK /\ DraftReady

IInv ==
  /\ TypeInv
  /\ LateCalls
  /\ TableIsLastCommit
  /\ CacheIsCommittedView
  /\ PublishIncludesOwnWrite

(***************************************************************************)
(* The pure functions.                                                     *)
(***************************************************************************)

(* A patched incident is an incident: every field comes from the row or    *)
(* from the body of the request.                                           *)
LEMMA PatchedType ==
  ASSUME NEW inc \in Incidents, NEW req \in UpdateIncidentRequest
  PROVE  Patched(inc, req) \in Incidents
BY DEF Patched, Overwrite, Incidents, UpdateIncidentRequest

(* A field that a patch changes is one the body names.                     *)
LEMMA PatchedChanges ==
  ASSUME NEW inc \in Incidents, NEW req \in UpdateIncidentRequest,
         NEW f \in Fields, Patched(inc, req)[f] # inc[f]
  PROVE  req[f] # Nil
<1>1. CASE f = "lat"
  BY <1>1 DEF Patched, Overwrite
<1>2. CASE f = "lng"
  BY <1>2 DEF Patched, Overwrite
<1>3. CASE f = "radius"
  BY <1>3 DEF Patched, Overwrite
<1>4. CASE f = "status"
  BY <1>4 DEF Patched, Overwrite
<1> QED
  BY <1>1, <1>2, <1>3, <1>4 DEF Fields

(* AdminService.Create builds an incident from any body.                   *)
LEMMA NewIncidentType ==
  ASSUME NEW req \in CreateIncidentRequest
  PROVE  NewIncident(req) \in Incidents
BY DomainAssumption DEF NewIncident, Incidents, CreateIncidentRequest

(* What refreshCache takes from a table is a set of cached incidents.      *)
LEMMA ViewType ==
  ASSUME NEW table \in Tables
  PROVE  ActiveView(table) \in Views
BY DEF ActiveView, IsActive, Tables, Incidents, CachedIncidents, Views

(* Writing one row of a table gives a table.                               *)
LEMMA WriteType ==
  ASSUME NEW table \in Tables, NEW i \in Ids, NEW inc \in Incidents
  PROVE  [table EXCEPT ![i] = inc] \in Tables
BY DEF Tables

(* The UPDATE writes an incident: the row that was read, patched.          *)
LEMMA UpdatedType ==
  ASSUME TypeInv, NEW r \in Reqs, pc[r] = "apply"
  PROVE  /\ draft[r] \in Drafts
         /\ Patched(draft[r].old, draft[r].patch) \in Incidents
<1>1. draft[r] \in Drafts
  BY DEF TypeInv, DraftReady
<1> QED
  BY <1>1, PatchedType DEF Drafts

(***************************************************************************)
(* What a request may do.                                                  *)
(***************************************************************************)

(* No table that a request writes lacks a row the table had.               *)
KeepsRows(table) == \A i \in Ids : rows[i] # Nil => table[i] # Nil

(* A request has read the row that d holds, and is about to write it back. *)
StartsUpdate(r, d) ==
  /\ pc' = [pc EXCEPT ![r] = "apply"]
  /\ draft' = [draft EXCEPT ![r] = d]
  /\ UNCHANGED <<rows, commits, cache, snap, lateVars, wrote, published, clean>>

(* A request has ended without a change of the table that it knows of.     *)
Ends(r) ==
  /\ Return(r)
  /\ UNCHANGED <<rows, commits, clean>>
  /\ lateChanges' \in SUBSET Statements
  /\ Faults = {} => UNCHANGED lateChanges

(* A statement turns a table into a table and takes no row away.           *)
LEMMA ExecutedType ==
  ASSUME TypeInv, NEW s \in Statements
  PROVE  Executed(s) \in Tables /\ KeepsRows(Executed(s))
<1>t. rows \in Tables /\ s.id \in Ids /\ s.row \in Incidents \union {Nil}
  BY DEF TypeInv, TypeOK, Statements
<1>1. ASSUME NEW inc \in Incidents
      PROVE  /\ [rows EXCEPT ![s.id] = inc] \in Tables
             /\ KeepsRows([rows EXCEPT ![s.id] = inc])
  BY <1>t, WriteType, NilAssumption DEF KeepsRows, Tables
<1>2. CASE s.row # Nil
  BY <1>t, <1>1, <1>2 DEF Executed
<1>3. CASE s.row = Nil /\ IsActive(rows, s.id)
  <2>1. rows[s.id] \in Incidents
    BY <1>t, <1>3 DEF IsActive, Tables
  <2>2. [rows[s.id] EXCEPT !.status = Inactive] \in Incidents
    BY <2>1, DomainAssumption DEF Incidents
  <2>3. Executed(s) = [rows EXCEPT ![s.id] = [rows[s.id] EXCEPT !.status = Inactive]]
    BY <1>3 DEF Executed
  <2> QED
    BY <1>1, <2>2, <2>3
<1>4. CASE s.row = Nil /\ ~IsActive(rows, s.id)
  BY <1>t, <1>4 DEF Executed, KeepsRows
<1> QED
  BY <1>2, <1>3, <1>4

LEMMA RefusedEnds ==
  ASSUME TypeInv, NEW r \in Reqs, Refused(r)
  PROVE  Ends(r)
BY DEF Refused, Ends, TypeInv, TypeOK

LEMMA StatementLostEnds ==
  ASSUME TypeInv, NEW r \in Reqs, NEW statements \in SUBSET Statements,
         StatementLost(r, statements)
  PROVE  Ends(r)
BY DEF StatementLost, Ends, TypeInv, TypeOK

LEMMA SentOutcomes ==
  ASSUME TypeInv, NEW r \in Reqs, NEW s \in Statements, Sent(r, s)
  PROVE  Committed(r, Executed(s)) \/ Ends(r)
<1>1. {t \in {s} : PassesCheck(t.row)} \in SUBSET Statements
  OBVIOUS
<1> QED
  BY <1>1, RefusedEnds, StatementLostEnds DEF Sent

(* What a request may do before its refresh: read a row, or end, or commit *)
(* a table that keeps the rows.                                            *)
LEMMA Outcomes ==
  ASSUME TypeInv, NEW r \in Reqs,
         Create(r) \/ UpdateGet(r) \/ UpdateApply(r) \/ Delete(r)
  PROVE  /\ pc[r] \in {"idle", "apply"}
         /\ \/ \E table \in Tables : KeepsRows(table) /\ Committed(r, table)
            \/ Ends(r)
            \/ \E d \in Drafts : StartsUpdate(r, d)
<1>1. CASE Create(r)
  <2> PICK i \in Ids, req \in CreateIncidentRequest : Sent(r, Write(i, NewIncident(req)))
    BY <1>1 DEF Create
  <2>1. Write(i, NewIncident(req)) \in Statements
    BY NewIncidentType DEF Write, Statements
  <2> QED
    BY <1>1, <2>1, SentOutcomes, ExecutedType DEF Create
<1>2. CASE UpdateGet(r)
  <2> PICK i \in Ids, req \in Bodies :
        LET d == [id |-> i, patch |-> req, old |-> rows[i]]
        IN \/ rows[i] # Nil /\ StartsUpdate(r, d)
           \/ Refused(r) \/ StatementLost(r, {})
    BY <1>2 DEF UpdateGet, StartsUpdate
  <2>1. rows[i] # Nil => [id |-> i, patch |-> req, old |-> rows[i]] \in Drafts
    BY AdminAssumption DEF Tables, Drafts, TypeInv, TypeOK
  <2> QED
    BY <1>2, <2>1, RefusedEnds, StatementLostEnds DEF UpdateGet
<1>3. CASE UpdateApply(r)
  <2> DEFINE s == Write(draft[r].id, Patched(draft[r].old, draft[r].patch))
  <2>1. s \in Statements
    BY <1>3, UpdatedType DEF UpdateApply, Drafts, Write, Statements
  <2>2. Sent(r, s)
    BY <1>3 DEF UpdateApply
  <2> HIDE DEF s
  <2> QED
    BY <1>3, <2>1, <2>2, SentOutcomes, ExecutedType DEF UpdateApply
<1>4. CASE Delete(r)
  <2> PICK i \in Ids : \/ Committed(r, Executed(SoftDelete(i)))
                       \/ Refused(r)
                       \/ StatementLost(r, {SoftDelete(i)})
    BY <1>4 DEF Delete
  <2>1. SoftDelete(i) \in Statements
    BY DEF SoftDelete, Statements
  <2> QED
    BY <1>4, <2>1, ExecutedType, RefusedEnds, StatementLostEnds DEF Delete
<1> QED
  BY <1>1, <1>2, <1>3, <1>4

(***************************************************************************)
(* Type correctness.                                                       *)
(***************************************************************************)

(* ChangeTable keeps the table a table and the history a history.          *)
LEMMA ChangeTableType ==
  ASSUME TypeInv, NEW table \in Tables, ChangeTable(table)
  PROVE  /\ rows' \in Tables
         /\ commits' \in Seq(Views)
         /\ Len(commits') = Len(commits) + 1
<1>1. ActiveView(table) \in Views
  BY ViewType
<1> QED
  BY <1>1 DEF ChangeTable, TypeInv, TypeOK

LEMMA CommittedType ==
  ASSUME TypeInv, NEW r \in Reqs, NEW table \in Tables, Committed(r, table)
  PROVE  TypeInv'
<1>1. /\ rows' \in Tables
      /\ commits' \in Seq(Views)
      /\ Len(commits') = Len(commits) + 1
  BY ChangeTableType DEF Committed
<1>2. wrote' \in [Reqs -> Nat]
  BY <1>1 DEF Committed, TypeInv, TypeOK
<1>3. DraftReady'
  BY DEF Committed, TypeInv, TypeOK, DraftReady
<1>4. clean' \in BOOLEAN
  BY DEF Committed, Alone
<1> QED
  BY <1>1, <1>2, <1>3, <1>4 DEF Committed, TypeInv, TypeOK, lateVars

(* A handler that returns early leaves every variable in its type.         *)
LEMMA ReturnType ==
  ASSUME TypeInv, NEW r \in Reqs, Return(r)
  PROVE  /\ pc' \in [Reqs -> {"idle", "apply", "list", "publish"}]
         /\ draft' \in [Reqs -> Drafts \union {Nil}]
         /\ wrote' \in [Reqs -> Nat]
         /\ UNCHANGED <<cache, snap, published, lateSets>>
         /\ DraftReady'
BY DEF Return, TypeInv, TypeOK, DraftReady

LEMMA EndsType ==
  ASSUME TypeInv, NEW r \in Reqs, Ends(r) \/ RefreshFails(r)
  PROVE  TypeInv'
BY ReturnType DEF Ends, RefreshFails, TypeInv, TypeOK

LEMMA LateChangeType ==
  ASSUME TypeInv, LateChange
  PROVE  TypeInv'
<1> PICK s \in lateChanges : ChangeTable(Executed(s)) /\ lateChanges' = lateChanges \ {s}
  BY DEF LateChange
<1>1. Executed(s) \in Tables
  BY ExecutedType DEF TypeInv, TypeOK
<1>2. rows' \in Tables /\ commits' \in Seq(Views)
  BY <1>1, ChangeTableType
<1>3. lateChanges' \in SUBSET Statements
  BY DEF TypeInv, TypeOK
<1> QED
  BY <1>2, <1>3 DEF LateChange, TypeInv, TypeOK, DraftReady

(* A missing key is a version too: the empty list, of no change.           *)
LEMMA AbsentType == Absent \in Versions
<1>1. {} \in Views
  BY DEF Views
<1> QED
  BY <1>1 DEF Absent, Versions

LEMMA TypeInvInit == Init => TypeInv
BY AbsentType DEF Init, TypeInv, TypeOK, DraftReady, Tables

LEMMA TypeInvStep == TypeInv /\ [Next]_vars => TypeInv'
<1> SUFFICES ASSUME TypeInv, [Next]_vars
             PROVE  TypeInv'
  OBVIOUS
<1>1. ASSUME NEW r \in Reqs, Create(r) \/ UpdateGet(r) \/ UpdateApply(r) \/ Delete(r)
      PROVE  TypeInv'
  <2>1. ASSUME NEW table \in Tables, Committed(r, table)
        PROVE  TypeInv'
    BY <2>1, CommittedType
  <2>2. ASSUME NEW d \in Drafts, StartsUpdate(r, d)
        PROVE  TypeInv'
    <3>1. draft' \in [Reqs -> Drafts \union {Nil}] /\ DraftReady'
      BY <2>2 DEF StartsUpdate, TypeInv, TypeOK, DraftReady
    <3> QED
      BY <2>2, <3>1 DEF StartsUpdate, lateVars, TypeInv, TypeOK
  <2>3. ASSUME Ends(r)
        PROVE  TypeInv'
    BY <2>3, EndsType
  <2> QED
    BY <1>1, <2>1, <2>2, <2>3, Outcomes
<1>2. ASSUME NEW r \in Reqs, ListActive(r)
      PROVE  TypeInv'
  <2>1. CASE RefreshFails(r)
    BY <2>1, EndsType
  <2>2. CASE ~RefreshFails(r)
    <3>1. [at |-> Len(commits), view |-> ActiveView(rows)] \in Versions
      BY ViewType DEF TypeInv, TypeOK, Versions
    <3>2. DraftReady'
      BY <1>2, <2>2 DEF ListActive, TypeInv, TypeOK, DraftReady
    <3> QED
      BY <1>2, <2>2, <3>1, <3>2 DEF ListActive, lateVars, TypeInv, TypeOK
  <2> QED
    BY <2>1, <2>2
<1>3. ASSUME NEW r \in Reqs, SetActive(r)
      PROVE  TypeInv'
  <2>1. Absent \in Versions
    BY AbsentType
  <2>2. cache' \in Versions /\ published' \in Nat
    BY <1>3 DEF SetActive, Newer, TypeInv, TypeOK, Versions
  <2>3. DraftReady'
    BY <1>3 DEF SetActive, RefreshDone, TypeInv, TypeOK, DraftReady
  <2> QED
    BY <1>3, <2>1, <2>2, <2>3 DEF SetActive, RefreshDone, lateVars, TypeInv, TypeOK
<1>4. ASSUME NEW r \in Reqs, SetUnanswered(r)
      PROVE  TypeInv'
  BY <1>4 DEF SetUnanswered, TypeInv, TypeOK, DraftReady
<1>5. CASE LateChange
  BY <1>5, LateChangeType
<1>6. CASE LateSet
  <2> PICK v \in lateSets :
        /\ cache' = v /\ published' = Newer(v.at, published)
        /\ lateSets' \in {lateSets, lateSets \ {v}}
    BY <1>6 DEF LateSet
  <2>1. v \in Versions
    BY DEF TypeInv, TypeOK
  <2>2. cache' \in Versions /\ published' \in Nat /\ lateSets' \in SUBSET Versions
    BY <2>1 DEF Newer, TypeInv, TypeOK, Versions
  <2> QED
    BY <1>6, <2>2 DEF LateSet, TypeInv, TypeOK, DraftReady
<1>7. CASE Expire
  BY <1>7, AbsentType DEF Expire, lateVars, TypeInv, TypeOK, DraftReady
<1>8. CASE Crash
  BY <1>8, AbsentType DEF Crash, lateVars, TypeInv, TypeOK, DraftReady
<1>9. CASE UNCHANGED vars
  BY <1>9 DEF vars, lateVars, TypeInv, TypeOK, DraftReady
<1> QED
  BY <1>1, <1>2, <1>3, <1>4, <1>5, <1>6, <1>7, <1>8, <1>9 DEF Next, Step, Late, Read

(* Every variable keeps its type: in particular, no row of the table and   *)
(* no incident in memory ever holds a nil field.                           *)
THEOREM TypeCorrect == Spec => []TypeOK
<1>1. TypeInv => TypeOK
  BY DEF TypeInv
<1> QED
  BY <1>1, TypeInvInit, TypeInvStep, PTL DEF Spec

(***************************************************************************)
(* What readers see, and what a handler publishes.                         *)
(***************************************************************************)

(* The history only grows, and its last entry is the view of the table.    *)
LEMMA ChangeTableHistory ==
  ASSUME TypeInv, NEW table \in Tables, ChangeTable(table)
  PROVE  /\ Len(commits') = Len(commits) + 1
         /\ \A k \in 1..Len(commits) : commits'[k] = commits[k]
         /\ commits'[Len(commits')] = ActiveView(rows')
<1>1. ActiveView(table) \in Views
  BY ViewType
<1> QED
  BY <1>1 DEF ChangeTable, TypeInv, TypeOK

(* What was true of the cache and of the handlers stays true while the     *)
(* history grows; handlers may have returned.                              *)
LEMMA HistoryGrows ==
  ASSUME IInv, TypeInv', NEW table \in Tables, ChangeTable(table),
         UNCHANGED <<cache, snap, lateSets>>, lateChanges' # {} => Faults # {},
         NEW R \in SUBSET Reqs,
         \A q \in R : pc'[q] = pc[q] /\ wrote'[q] = wrote[q]
  PROVE  /\ TableIsLastCommit' /\ CacheIsCommittedView' /\ LateCalls'
         /\ Len(commits') = Len(commits) + 1
         /\ \A q \in R :
              /\ InRefresh(q)' => wrote'[q] \in 1..Len(commits')
              /\ pc'[q] = "publish" => /\ snap'[q].at \in wrote'[q]..Len(commits')
                                       /\ snap'[q].view = commits'[snap'[q].at]
<1>1. /\ Len(commits') = Len(commits) + 1
      /\ \A k \in 1..Len(commits) : commits'[k] = commits[k]
      /\ commits'[Len(commits')] = ActiveView(rows')
  BY ChangeTableHistory DEF IInv
<1>2. Len(commits) \in Nat
  BY DEF IInv, TypeInv, TypeOK
<1>3. TableIsLastCommit'
  BY <1>1 DEF TableIsLastCommit
<1>4. CacheIsCommittedView'
  BY <1>1, <1>2 DEF CacheIsCommittedView, IInv, TypeInv, TypeOK, Versions
<1>5. LateCalls'
  <2>1. ASSUME NEW v \in lateSets'
        PROVE  v.at \in 1..Len(commits') /\ v.view = commits'[v.at]
    BY <1>1, <1>2, <2>1 DEF LateCalls, IInv
  <2> QED
    BY <2>1 DEF LateCalls, IInv
<1>6. ASSUME NEW q \in R
      PROVE  /\ InRefresh(q)' => wrote'[q] \in 1..Len(commits')
             /\ pc'[q] = "publish" => /\ snap'[q].at \in wrote'[q]..Len(commits')
                                      /\ snap'[q].view = commits'[snap'[q].at]
  <2>1. wrote[q] \in Nat /\ snap[q].at \in Nat
    BY DEF IInv, TypeInv, TypeOK, Versions
  <2> QED
    BY <1>1, <1>2, <2>1 DEF InRefresh, IInv, PublishIncludesOwnWrite
<1> QED
  BY <1>1, <1>3, <1>4, <1>5, <1>6

LEMMA CommittedInv ==
  ASSUME IInv, NEW r \in Reqs, NEW table \in Tables, Committed(r, table)
  PROVE  IInv'
<1>1. TypeInv'
  BY CommittedType DEF IInv
<1>2. /\ ChangeTable(table)
      /\ UNCHANGED <<cache, snap, lateSets, lateChanges>>
      /\ lateChanges' # {} => Faults # {}
  BY DEF Committed, lateVars, LateCalls, IInv
<1>3. \A q \in Reqs \ {r} : pc'[q] = pc[q] /\ wrote'[q] = wrote[q]
  BY DEF Committed, IInv, TypeInv, TypeOK
<1>4. /\ TableIsLastCommit' /\ CacheIsCommittedView' /\ LateCalls'
      /\ Len(commits') = Len(commits) + 1
      /\ \A q \in Reqs \ {r} :
           /\ InRefresh(q)' => wrote'[q] \in 1..Len(commits')
           /\ pc'[q] = "publish" => /\ snap'[q].at \in wrote'[q]..Len(commits')
                                    /\ snap'[q].view = commits'[snap'[q].at]
  BY <1>1, <1>2, <1>3, HistoryGrows
<1>5. pc'[r] = "list" /\ wrote'[r] \in 1..Len(commits')
  BY <1>4 DEF Committed, IInv, TypeInv, TypeOK
<1>6. PublishIncludesOwnWrite'
  BY <1>4, <1>5 DEF PublishIncludesOwnWrite, InRefresh
<1> QED
  BY <1>1, <1>4, <1>6 DEF IInv

(* PostgreSQL may change the table when nobody waits for it any more.      *)
LEMMA LateChangeInv ==
  ASSUME IInv, LateChange
  PROVE  IInv'
<1> PICK s \in lateChanges : ChangeTable(Executed(s)) /\ lateChanges' = lateChanges \ {s}
  BY DEF LateChange
<1>1. TypeInv'
  BY LateChangeType DEF IInv
<1>2. Executed(s) \in Tables
  BY ExecutedType DEF IInv, TypeInv, TypeOK
<1>3. /\ UNCHANGED <<cache, snap, lateSets, pc, wrote>>
      /\ lateChanges' # {} => Faults # {}
  BY DEF LateChange, LateCalls, IInv
<1>4. /\ TableIsLastCommit' /\ CacheIsCommittedView' /\ LateCalls'
      /\ \A q \in Reqs :
           /\ InRefresh(q)' => wrote'[q] \in 1..Len(commits')
           /\ pc'[q] = "publish" => /\ snap'[q].at \in wrote'[q]..Len(commits')
                                    /\ snap'[q].view = commits'[snap'[q].at]
  BY <1>1, <1>2, <1>3, HistoryGrows
<1> QED
  BY <1>1, <1>4 DEF IInv, PublishIncludesOwnWrite

(* A return of r: the others, the history and the cache stay as they were. *)
LEMMA ReturnKeepsRefreshes ==
  ASSUME IInv, NEW r \in Reqs, Return(r)
  PROVE  \A q \in Reqs : InRefresh(q)' \/ pc'[q] = "publish" =>
           /\ q # r
           /\ pc'[q] = pc[q] /\ wrote'[q] = wrote[q] /\ snap'[q] = snap[q]
BY DEF Return, InRefresh, IInv, TypeInv, TypeOK

LEMMA EndsInv ==
  ASSUME IInv, NEW r \in Reqs, Ends(r) \/ RefreshFails(r)
  PROVE  IInv'
<1>1. TypeInv'
  BY EndsType DEF IInv
<1>2. PublishIncludesOwnWrite'
  BY ReturnKeepsRefreshes DEF Ends, RefreshFails, PublishIncludesOwnWrite, InRefresh, IInv
<1>3. LateCalls'
  BY DEF Ends, RefreshFails, Return, LateCalls, IInv
<1> QED
  BY <1>1, <1>2, <1>3
     DEF Ends, RefreshFails, Return, IInv, TableIsLastCommit, CacheIsCommittedView

LEMMA IInvInit == Init => IInv
<1>1. Init => TypeInv
  BY TypeInvInit
<1> QED
  BY <1>1 DEF Init, IInv, LateCalls, TableIsLastCommit, CacheIsCommittedView,
     PublishIncludesOwnWrite, InRefresh, Absent

LEMMA IInvStep == IInv /\ [Next]_vars => IInv'
<1> SUFFICES ASSUME IInv, [Next]_vars
             PROVE  IInv'
  OBVIOUS
<1>0. TypeInv'
  BY TypeInvStep DEF IInv
<1>1. ASSUME NEW r \in Reqs, Create(r) \/ UpdateGet(r) \/ UpdateApply(r) \/ Delete(r)
      PROVE  IInv'
  <2>1. ASSUME NEW table \in Tables, Committed(r, table)
        PROVE  IInv'
    BY <2>1, CommittedInv
  <2>2. ASSUME NEW d, StartsUpdate(r, d)
        PROVE  IInv'
    <3>1. PublishIncludesOwnWrite'
      BY <2>2 DEF StartsUpdate, PublishIncludesOwnWrite, InRefresh, IInv, TypeInv, TypeOK
    <3> QED
      BY <1>0, <2>2, <3>1
         DEF StartsUpdate, lateVars, IInv, LateCalls, TableIsLastCommit, CacheIsCommittedView
  <2>3. ASSUME Ends(r)
        PROVE  IInv'
    BY <2>3, EndsInv
  <2> QED
    BY <1>1, <2>1, <2>2, <2>3, Outcomes DEF IInv
<1>2. ASSUME NEW r \in Reqs, ListActive(r)
      PROVE  IInv'
  <2>1. CASE RefreshFails(r)
    BY <2>1, EndsInv
  <2>2. CASE ~RefreshFails(r)
    <3>1. /\ pc[r] = "list"
          /\ snap' = [snap EXCEPT ![r] = [at |-> Len(commits), view |-> ActiveView(rows)]]
          /\ pc' = [pc EXCEPT ![r] = "publish"]
          /\ UNCHANGED <<rows, commits, cache, draft, lateVars, wrote, published>>
      BY <1>2, <2>2 DEF ListActive
    <3>2. wrote[r] \in 1..Len(commits)
      BY <3>1 DEF IInv, PublishIncludesOwnWrite, InRefresh
    <3>3. commits[Len(commits)] = ActiveView(rows)
      BY <3>2 DEF IInv, TypeInv, TypeOK, TableIsLastCommit
    <3>4. PublishIncludesOwnWrite'
      <4> SUFFICES ASSUME NEW q \in Reqs
                   PROVE  /\ InRefresh(q)' => wrote'[q] \in 1..Len(commits')
                          /\ pc'[q] = "publish" =>
                               /\ snap'[q].at \in wrote'[q]..Len(commits')
                               /\ snap'[q].view = commits'[snap'[q].at]
        BY DEF PublishIncludesOwnWrite
      <4>1. CASE q = r
        BY <3>1, <3>2, <3>3, <4>1 DEF InRefresh, IInv, TypeInv, TypeOK
      <4>2. CASE q # r
        BY <3>1, <4>2 DEF InRefresh, IInv, TypeInv, TypeOK, PublishIncludesOwnWrite
      <4> QED
        BY <4>1, <4>2
    <3> QED
      BY <1>0, <3>1, <3>4
         DEF lateVars, IInv, LateCalls, TableIsLastCommit, CacheIsCommittedView
  <2> QED
    BY <2>1, <2>2
<1>3. ASSUME NEW r \in Reqs, SetActive(r)
      PROVE  IInv'
  <2>1. /\ wrote[r] \in 1..Len(commits)
        /\ snap[r].at \in wrote[r]..Len(commits)
        /\ snap[r].view = commits[snap[r].at]
    BY <1>3 DEF SetActive, IInv, PublishIncludesOwnWrite, InRefresh
  <2>2. CacheIsCommittedView'
    BY <1>3, <2>1 DEF SetActive, RefreshDone, IInv, CacheIsCommittedView, TypeInv, TypeOK
  <2>3. PublishIncludesOwnWrite'
    BY <1>3 DEF SetActive, RefreshDone, IInv, PublishIncludesOwnWrite, InRefresh, TypeInv, TypeOK
  <2>4. LateCalls'
    BY <1>3 DEF SetActive, RefreshDone, lateVars, IInv, LateCalls
  <2> QED
    BY <1>0, <1>3, <2>2, <2>3, <2>4
       DEF SetActive, RefreshDone, IInv, TableIsLastCommit
<1>4. ASSUME NEW r \in Reqs, SetUnanswered(r)
      PROVE  IInv'
  <2>1. /\ wrote[r] \in 1..Len(commits)
        /\ snap[r].at \in wrote[r]..Len(commits)
        /\ snap[r].view = commits[snap[r].at]
    BY <1>4 DEF SetUnanswered, IInv, PublishIncludesOwnWrite, InRefresh
  <2>2. LateCalls'
    BY <1>4, <2>1 DEF SetUnanswered, IInv, LateCalls
  <2>3. PublishIncludesOwnWrite'
    BY <1>4 DEF SetUnanswered, IInv, PublishIncludesOwnWrite, InRefresh
  <2> QED
    BY <1>0, <1>4, <2>2, <2>3
       DEF SetUnanswered, IInv, TableIsLastCommit, CacheIsCommittedView
<1>5. CASE LateChange
  BY <1>5, LateChangeInv
<1>6. CASE LateSet
  <2> PICK v \in lateSets : cache' = v /\ lateSets' \in {lateSets, lateSets \ {v}}
    BY <1>6 DEF LateSet
  <2>1. /\ v.at \in 1..Len(commits) /\ v.view = commits[v.at]
        /\ UNCHANGED <<rows, commits, pc, snap, lateChanges, wrote>>
    BY <1>6 DEF LateSet, IInv, LateCalls
  <2>2. CacheIsCommittedView' /\ LateCalls'
    BY <2>1 DEF CacheIsCommittedView, IInv, LateCalls
  <2>3. PublishIncludesOwnWrite'
    BY <2>1 DEF IInv, PublishIncludesOwnWrite, InRefresh
  <2> QED
    BY <1>0, <2>1, <2>2, <2>3 DEF IInv, TableIsLastCommit
<1>7. CASE Expire
  BY <1>0, <1>7 DEF Expire, lateVars, Absent, IInv, LateCalls, TableIsLastCommit,
     CacheIsCommittedView, PublishIncludesOwnWrite, InRefresh
<1>8. CASE Crash
  BY <1>0, <1>8 DEF Crash, lateVars, IInv, LateCalls, TableIsLastCommit,
     CacheIsCommittedView, PublishIncludesOwnWrite, InRefresh
<1>9. CASE UNCHANGED vars
  BY <1>0, <1>9 DEF vars, lateVars, IInv, LateCalls, TableIsLastCommit,
     CacheIsCommittedView, PublishIncludesOwnWrite, InRefresh
<1> QED
  BY <1>1, <1>2, <1>3, <1>4, <1>5, <1>6, <1>7, <1>8, <1>9 DEF Next, Step, Late, Read

LEMMA Inductive == Spec => []IInv
BY IInvInit, IInvStep, PTL DEF Spec

(* Whatever fails and however many admins there are, a reader of the cache *)
(* gets nothing or the active incidents of one moment after one change.    *)
THEOREM ReadersSeeCommittedViews == Spec => []CacheIsCommittedView
<1>1. IInv => CacheIsCommittedView
  BY DEF IInv
<1> QED
  BY <1>1, IInvInit, IInvStep, PTL DEF Spec

(* No handler ever publishes a view that lacks the change it made itself.  *)
THEOREM HandlersPublishTheirOwnChange == Spec => []PublishIncludesOwnWrite
<1>1. IInv => PublishIncludesOwnWrite
  BY DEF IInv
<1> QED
  BY <1>1, IInvInit, IInvStep, PTL DEF Spec

(***************************************************************************)
(* No change is left unpublished.                                          *)
(***************************************************************************)

(* Nothing fails: whoever commits goes on to the refresh.                  *)
LEMMA CommittedOwes ==
  ASSUME IInv, NEW r \in Reqs, NEW table \in Tables, Committed(r, table)
  PROVE  InRefresh(r)' /\ wrote'[r] = Len(commits')
BY DEF Committed, InRefresh, IInv, TypeInv, TypeOK

LEMMA EveryCommitIsPublishedStep ==
  IInv /\ EveryCommitIsPublished /\ [Next]_vars => EveryCommitIsPublished'
<1> SUFFICES ASSUME IInv, EveryCommitIsPublished, [Next]_vars, Faults = {},
                    Len(commits') > published'
             PROVE  \E r \in Reqs : InRefresh(r)' /\ wrote'[r] = Len(commits')
  BY DEF EveryCommitIsPublished
<1>0. /\ rows \in Tables
      /\ Len(commits) \in Nat
      /\ published \in Nat
      /\ wrote \in [Reqs -> Nat]
      /\ pc \in [Reqs -> {"idle", "apply", "list", "publish"}]
      /\ snap \in [Reqs -> Versions]
  BY DEF IInv, TypeInv, TypeOK
<1>1. ASSUME NEW r \in Reqs, NEW table \in Tables, Committed(r, table)
      PROVE  \E q \in Reqs : InRefresh(q)' /\ wrote'[q] = Len(commits')
  BY <1>1, CommittedOwes
<1>2. ASSUME NEW r \in Reqs, pc[r] \in {"idle", "apply"},
             \A q \in Reqs \ {r} : pc'[q] = pc[q] /\ wrote'[q] = wrote[q],
             UNCHANGED <<commits, published>>
      PROVE  \E q \in Reqs : InRefresh(q)' /\ wrote'[q] = Len(commits')
  <2> PICK q \in Reqs : InRefresh(q) /\ wrote[q] = Len(commits)
    BY <1>2 DEF EveryCommitIsPublished
  <2>1. q # r
    BY <1>2 DEF InRefresh
  <2> QED
    BY <1>2, <2>1 DEF InRefresh
<1>3. ASSUME NEW r \in Reqs, pc[r] \in {"idle", "apply"}, Ends(r)
      PROVE  \E q \in Reqs : InRefresh(q)' /\ wrote'[q] = Len(commits')
  <2>1. \A q \in Reqs \ {r} : pc'[q] = pc[q] /\ wrote'[q] = wrote[q]
    BY <1>0, <1>3 DEF Ends, Return
  <2> QED
    BY <1>2, <1>3, <2>1 DEF Ends, Return
<1>4. ASSUME NEW r \in Reqs, Create(r) \/ UpdateGet(r) \/ UpdateApply(r) \/ Delete(r)
      PROVE  \E q \in Reqs : InRefresh(q)' /\ wrote'[q] = Len(commits')
  <2>1. pc[r] \in {"idle", "apply"}
    BY <1>4, Outcomes DEF IInv
  <2>2. CASE Ends(r)
    BY <1>3, <2>1, <2>2
  <2>3. ASSUME NEW d, StartsUpdate(r, d)
        PROVE  \E q \in Reqs : InRefresh(q)' /\ wrote'[q] = Len(commits')
    BY <1>0, <1>2, <2>1, <2>3 DEF StartsUpdate
  <2> QED
    BY <1>1, <1>4, <2>2, <2>3, Outcomes DEF IInv
<1>5. ASSUME NEW r \in Reqs, ListActive(r)
      PROVE  \E q \in Reqs : InRefresh(q)' /\ wrote'[q] = Len(commits')
  <2>1. /\ pc' = [pc EXCEPT ![r] = "publish"]
        /\ UNCHANGED <<commits, wrote, published>>
    BY <1>5 DEF ListActive
  <2> PICK q \in Reqs : InRefresh(q) /\ wrote[q] = Len(commits)
    BY <2>1 DEF EveryCommitIsPublished
  <2> QED
    BY <1>0, <2>1 DEF InRefresh
<1>6. ASSUME NEW r \in Reqs, SetActive(r)
      PROVE  \E q \in Reqs : InRefresh(q)' /\ wrote'[q] = Len(commits')
  <2>1. /\ published' = Newer(snap[r].at, published)
        /\ pc' = [pc EXCEPT ![r] = "idle"]
        /\ wrote' = [wrote EXCEPT ![r] = 0]
        /\ UNCHANGED commits
    BY <1>6 DEF SetActive, RefreshDone
  <2>2. snap[r].at \in wrote[r]..Len(commits)
    BY <1>6 DEF SetActive, IInv, PublishIncludesOwnWrite
  <2>3. snap[r].at \in Nat /\ wrote[r] \in Nat
    BY <1>0 DEF Versions
  <2>4. Len(commits) > published /\ wrote[r] # Len(commits)
    BY <1>0, <2>1, <2>2, <2>3 DEF Newer
  <2> PICK q \in Reqs : InRefresh(q) /\ wrote[q] = Len(commits)
    BY <2>4 DEF EveryCommitIsPublished
  <2> QED
    BY <1>0, <2>1, <2>4 DEF InRefresh
<1>7. CASE Expire \/ UNCHANGED vars
  BY <1>7 DEF Expire, vars, EveryCommitIsPublished, InRefresh
<1>8. ~Crash /\ ~Late /\ \A r \in Reqs : ~SetUnanswered(r)
  BY DEF Crash, Late, LateChange, LateSet, SetUnanswered, IInv, LateCalls
<1>9. ASSUME NEW r \in Reqs, Read(r)
       PROVE  UNCHANGED vars
  BY <1>9 DEF Read
<1> QED
  BY <1>4, <1>5, <1>6, <1>7, <1>8, <1>9 DEF Next, Step

(* Without failures, a change newer than anything the cache has ever held  *)
(* still has its handler on the way to the cache, however many admins      *)
(* interleave.                                                             *)
THEOREM ChangesAreNotLeftUnpublished == Spec => []EveryCommitIsPublished
<1>1. Init => EveryCommitIsPublished
  BY DEF Init, EveryCommitIsPublished
<1> QED
  BY <1>1, IInvInit, IInvStep, EveryCommitIsPublishedStep, PTL DEF Spec

(***************************************************************************)
(* The detailed specification implements the feed.                         *)
(***************************************************************************)

LEMMA CommittedIsCommit ==
  ASSUME IInv, NEW r \in Reqs, pc[r] \in {"idle", "apply"},
         NEW table \in Tables, Committed(r, table)
  PROVE  Feed!Commit(r)
<1>1. ActiveView(table) \in Views
  BY ViewType
<1>2. Owed[r] = 0
  BY DEF Owed, InRefresh
<1>3. Owed' = [Owed EXCEPT ![r] = Len(commits')]
  BY DEF Owed, InRefresh, Committed, IInv, TypeInv, TypeOK
<1> QED
  BY <1>1, <1>2, <1>3 DEF Committed, ChangeTable, Feed!Commit, Feed!Append1

LEMMA ReturnKeepsOwed ==
  ASSUME IInv, NEW r \in Reqs, Return(r)
  PROVE  Owed' = [Owed EXCEPT ![r] = 0]
BY DEF Owed, InRefresh, Return, IInv, TypeInv, TypeOK

(* A request that ends before it committed is invisible to the readers.    *)
LEMMA EndsIsStutter ==
  ASSUME IInv, NEW r \in Reqs, pc[r] \in {"idle", "apply"}, Ends(r)
  PROVE  UNCHANGED Feed!vars
<1>1. Owed[r] = 0
  BY DEF Owed, InRefresh
<1>2. Owed' = Owed
  BY <1>1, ReturnKeepsOwed DEF Ends, Owed
<1> QED
  BY <1>2 DEF Ends, Return, Feed!vars

(* A change whose handler is gone, or was told that it failed.             *)
LEMMA LateChangeIsUnowed == IInv /\ LateChange => Feed!CommitUnowed
<1> SUFFICES ASSUME IInv, LateChange
             PROVE  Feed!CommitUnowed
  OBVIOUS
<1> PICK s \in lateChanges : ChangeTable(Executed(s))
  BY DEF LateChange
<1>1. ActiveView(Executed(s)) \in Views
  BY ExecutedType, ViewType DEF IInv, TypeInv, TypeOK
<1>2. Faults # {}
  BY DEF IInv, LateCalls
<1>3. UNCHANGED <<cache, Owed>>
  BY DEF LateChange, Owed, InRefresh
<1> QED
  BY <1>1, <1>2, <1>3 DEF ChangeTable, Feed!CommitUnowed, Feed!Append1

LEMMA LateSetIsShowLate == IInv /\ LateSet => Feed!ShowLate
<1> SUFFICES ASSUME IInv, LateSet
             PROVE  Feed!ShowLate
  OBVIOUS
<1> PICK v \in lateSets : cache' = v
  BY DEF LateSet
<1>1. /\ v.at \in 1..Len(commits) /\ v.view = commits[v.at]
      /\ Faults # {}
  BY DEF IInv, LateCalls
<1>2. v = [at |-> v.at, view |-> commits[v.at]]
  BY <1>1 DEF IInv, TypeInv, TypeOK, Versions
<1>3. UNCHANGED <<commits, Owed>>
  BY DEF LateSet, Owed, InRefresh
<1> QED
  BY <1>1, <1>2, <1>3 DEF Feed!ShowLate

LEMMA FeedInit == Init => Feed!Init
BY DEF Init, Feed!Init, Feed!Nothing, Absent, Owed, InRefresh

(* Until it publishes, a request shows the readers nothing.                *)
LEMMA QuietStep ==
  ASSUME IInv, NEW r \in Reqs, Step(r), pc[r] # "publish"
  PROVE  Feed!Commit(r) \/ Feed!Abandon(r) \/ UNCHANGED Feed!vars
<1>1. CASE Create(r) \/ UpdateGet(r) \/ UpdateApply(r) \/ Delete(r)
  <2>1. pc[r] \in {"idle", "apply"}
    BY <1>1, Outcomes DEF IInv
  <2>2. ASSUME NEW table \in Tables, Committed(r, table)
        PROVE  Feed!Commit(r)
    BY <2>1, <2>2, CommittedIsCommit
  <2>3. ASSUME NEW d, StartsUpdate(r, d)
        PROVE  UNCHANGED Feed!vars
    <3>1. Owed' = Owed
      BY <2>1, <2>3 DEF StartsUpdate, Owed, InRefresh, IInv, TypeInv, TypeOK
    <3> QED
      BY <2>3, <3>1 DEF StartsUpdate, Feed!vars
  <2>4. CASE Ends(r)
    BY <2>1, <2>4, EndsIsStutter
  <2> QED
    BY <1>1, <2>2, <2>3, <2>4, Outcomes DEF IInv
<1>2. CASE ListActive(r)
  <2>1. wrote[r] > 0 /\ Owed[r] = wrote[r]
    BY <1>2 DEF ListActive, Owed, InRefresh, IInv, PublishIncludesOwnWrite
  <2>2. CASE "db" \in Faults /\ RefreshFails(r)
    BY <2>1, <2>2, ReturnKeepsOwed DEF RefreshFails, Return, Feed!Abandon
  <2>3. CASE /\ pc' = [pc EXCEPT ![r] = "publish"]
             /\ UNCHANGED <<rows, commits, cache, draft, wrote, published>>
    <3>1. Owed' = Owed
      BY <1>2, <2>3 DEF ListActive, Owed, InRefresh, IInv, TypeInv, TypeOK
    <3> QED
      BY <2>3, <3>1 DEF Feed!vars
  <2> QED
    BY <1>2, <2>2, <2>3 DEF ListActive
<1>3. CASE Read(r)
  BY <1>3 DEF Read, vars, Feed!vars, Owed, InRefresh
<1> QED
  BY <1>1, <1>2, <1>3 DEF Step, SetActive, SetUnanswered

(* A refresh that gets to the cache shows it the handler's own change or a *)
(* later one, or fails; a failure that finds its view there is no loss.    *)
LEMMA PublishStep ==
  ASSUME IInv, NEW r \in Reqs, SetActive(r)
  PROVE  /\ Owed[r] = wrote[r]
         /\ IF cache' = snap[r] THEN Feed!Show(r) ELSE Feed!Abandon(r)
<1>1. pc[r] = "publish" /\ SetActive(r)
  BY DEF SetActive
<1>2. /\ wrote[r] \in 1..Len(commits)
      /\ Owed[r] = wrote[r]
      /\ snap[r].at \in wrote[r]..Len(commits)
      /\ snap[r].view = commits[snap[r].at]
  BY <1>1 DEF Owed, InRefresh, IInv, PublishIncludesOwnWrite
<1>3. snap[r] = [at |-> snap[r].at, view |-> commits[snap[r].at]]
  BY <1>2 DEF IInv, TypeInv, TypeOK, Versions
<1>4. Owed' = [Owed EXCEPT ![r] = 0]
  BY <1>1 DEF SetActive, RefreshDone, Owed, InRefresh, IInv, TypeInv, TypeOK
<1>5. UNCHANGED commits
  BY <1>1 DEF SetActive, RefreshDone
<1>6. ASSUME cache' = snap[r]
      PROVE  Feed!Show(r)
  BY <1>2, <1>3, <1>4, <1>5, <1>6 DEF Feed!Show
<1>7. ASSUME cache' # snap[r]
      PROVE  Feed!Abandon(r)
  BY <1>1, <1>2, <1>4, <1>5, <1>7 DEF SetActive, Feed!Abandon
<1> QED
  BY <1>2, <1>6, <1>7

(* While a SET goes unanswered, readers see nothing new.                   *)
LEMMA UnansweredStep ==
  ASSUME NEW r \in Reqs, SetUnanswered(r)
  PROVE  UNCHANGED Feed!vars /\ pc'[r] = "publish"
BY DEF SetUnanswered, Feed!vars, Owed, InRefresh

LEMMA PublishingSteps ==
  ASSUME NEW r \in Reqs, Step(r), pc[r] = "publish"
  PROVE  SetActive(r) \/ SetUnanswered(r)
BY DEF Step, Create, UpdateGet, UpdateApply, Delete, Read, ListActive

LEMMA ExpireIsHide == Expire => Feed!Hide /\ UNCHANGED Owed
BY DEF Expire, Owed, InRefresh, Absent, Feed!Hide, Feed!Nothing

LEMMA CrashIsAbandonAll == Crash => Feed!AbandonAll
<1> SUFFICES ASSUME Crash
             PROVE  Feed!AbandonAll
  OBVIOUS
<1>1. Owed' = [r \in Reqs |-> 0]
  BY DEF Crash, Owed, InRefresh
<1> QED
  BY <1>1 DEF Crash, Feed!AbandonAll

LEMMA FeedStep == IInv /\ [Next]_vars => [Feed!Next]_(Feed!vars)
<1> SUFFICES ASSUME IInv, [Next]_vars
             PROVE  [Feed!Next]_(Feed!vars)
  OBVIOUS
<1>1. ASSUME NEW r \in Reqs, Step(r)
      PROVE  [Feed!Next]_(Feed!vars)
  BY <1>1, QuietStep, PublishStep, UnansweredStep, PublishingSteps DEF Feed!Next
<1>2. CASE Expire \/ Crash \/ Late
  BY <1>2, ExpireIsHide, CrashIsAbandonAll, LateChangeIsUnowed, LateSetIsShowLate
     DEF Late, Feed!Next
<1>3. CASE UNCHANGED vars
  BY <1>3 DEF vars, Feed!vars, Owed, InRefresh
<1> QED
  BY <1>1, <1>2, <1>3 DEF Next

(* Everything a reader of the cache can observe, it could observe of the   *)
(* feed: AdminIncidents implements ActiveFeed, step by step.               *)
THEOREM ImplementsFeed == Spec => FeedSpec
<1> QED
  BY IInvInit, IInvStep, FeedInit, FeedStep, PTL DEF Spec, FeedSpec, Feed!Spec

(***************************************************************************)
(* What was ever shown can be looked up.                                   *)
(***************************************************************************)

(* Every incident of every view in the history still has its row.          *)
HistoryHasRows ==
  \A k \in 1..Len(commits) : \A inc \in commits[k] : rows[inc.id] # Nil

(* A change appends the view of the new table, which keeps the rows.       *)
LEMMA TableStep ==
  ASSUME IInv, [Next]_vars
  PROVE  \/ UNCHANGED <<rows, commits>>
         \/ /\ rows' \in Tables /\ KeepsRows(rows')
            /\ commits' = Append(commits, ActiveView(rows'))
<1>1. ASSUME NEW r \in Reqs,
             Create(r) \/ UpdateGet(r) \/ UpdateApply(r) \/ Delete(r)
      PROVE  \/ UNCHANGED <<rows, commits>>
             \/ /\ rows' \in Tables /\ KeepsRows(rows')
                /\ commits' = Append(commits, ActiveView(rows'))
  <2>1. ASSUME NEW table \in Tables, KeepsRows(table), Committed(r, table)
        PROVE  \/ UNCHANGED <<rows, commits>>
               \/ /\ rows' \in Tables /\ KeepsRows(rows')
                  /\ commits' = Append(commits, ActiveView(rows'))
    BY <2>1 DEF Committed, ChangeTable
  <2> QED
    BY <1>1, <2>1, Outcomes DEF StartsUpdate, Ends, IInv
<1>2. ASSUME NEW r \in Reqs,
             Read(r) \/ ListActive(r) \/ SetActive(r) \/ SetUnanswered(r)
      PROVE  UNCHANGED <<rows, commits>>
  BY <1>2 DEF Read, vars, ListActive, RefreshFails, SetActive, RefreshDone, SetUnanswered
<1>3. CASE LateChange
  BY <1>3, ExecutedType DEF LateChange, ChangeTable, IInv, TypeInv, TypeOK
<1> QED
  BY <1>1, <1>2, <1>3 DEF Next, Step, Late, LateSet, Expire, Crash, vars

LEMMA HistoryStep == IInv /\ HistoryHasRows /\ [Next]_vars => HistoryHasRows'
<1> SUFFICES ASSUME IInv, HistoryHasRows, [Next]_vars
             PROVE  HistoryHasRows'
  OBVIOUS
<1>1. CASE UNCHANGED <<rows, commits>>
  BY <1>1 DEF HistoryHasRows
<1>2. CASE /\ rows' \in Tables /\ KeepsRows(rows')
           /\ commits' = Append(commits, ActiveView(rows'))
  <2>1. commits \in Seq(Views) /\ ActiveView(rows') \in Views
    BY <1>2, ViewType DEF IInv, TypeInv, TypeOK
  <2> SUFFICES ASSUME NEW k \in 1..Len(commits'), NEW inc \in commits'[k]
               PROVE  rows'[inc.id] # Nil
    BY DEF HistoryHasRows
  <2>2. CASE k \in 1..Len(commits)
    <3>1. inc \in commits[k] /\ commits[k] \in Views
      BY <1>2, <2>1, <2>2
    <3>2. inc.id \in Ids
      BY <3>1 DEF Views, CachedIncidents
    <3> QED
      BY <1>2, <2>2, <3>1, <3>2 DEF HistoryHasRows, KeepsRows
  <2>3. CASE k = Len(commits) + 1
    <3>1. inc \in ActiveView(rows')
      BY <1>2, <2>1, <2>3
    <3> QED
      BY <3>1 DEF ActiveView, IsActive
  <2> QED
    BY <1>2, <2>1, <2>2, <2>3
<1> QED
  BY <1>1, <1>2, TableStep

(* An incident that a check was ever shown can be looked up under its id   *)
(* for ever: no admin request takes a row away.                            *)
THEOREM ShownIncidentsStay == Spec => []HistoryHasRows
<1>1. Init => HistoryHasRows
  BY DEF Init, HistoryHasRows
<1> QED
  BY <1>1, Inductive, HistoryStep, PTL DEF Spec

(***************************************************************************)
(* One admin at a time.                                                    *)
(***************************************************************************)

SoleAdmin == \A r, s \in Reqs : r = s

(* The incident in memory is still the row of the table.                   *)
DraftIsRow ==
  \A r \in Reqs :
    pc[r] = "apply" => rows[draft[r].id] # Nil /\ draft[r].old = rows[draft[r].id]

LEMMA DraftIsRowStep ==
  ASSUME SoleAdmin, IInv, DraftIsRow, lateChanges = {}, [Next]_vars
  PROVE  DraftIsRow'
<1>0. /\ pc \in [Reqs -> {"idle", "apply", "list", "publish"}]
      /\ draft \in [Reqs -> Drafts \union {Nil}]
  BY DEF IInv, TypeInv, TypeOK
<1>1. ASSUME NEW r \in Reqs, pc'[r] # "apply"
      PROVE  DraftIsRow'
  BY <1>1 DEF SoleAdmin, DraftIsRow
<1>2. ASSUME NEW r \in Reqs, UpdateGet(r)
      PROVE  DraftIsRow'
  <2> PICK i \in Ids, req \in Bodies :
        \/ /\ rows[i] # Nil
           /\ draft' = [draft EXCEPT
                ![r] = [id |-> i, patch |-> req, old |-> rows[i]]]
           /\ UNCHANGED rows
        \/ Return(r)
    BY <1>2 DEF UpdateGet, Refused, StatementLost
  <2>1. CASE Return(r)
    BY <1>0, <1>1, <2>1 DEF Return
  <2>2. CASE ~Return(r)
    <3>1. /\ draft'[r] = [id |-> i, patch |-> req, old |-> rows[i]]
          /\ rows[i] # Nil
          /\ rows' = rows
      BY <1>0, <2>2
    <3> QED
      BY <3>1 DEF SoleAdmin, DraftIsRow
  <2> QED
    BY <2>1, <2>2
<1>3. ASSUME NEW r \in Reqs, Create(r) \/ UpdateApply(r) \/ Delete(r)
      PROVE  DraftIsRow'
  <2>1. pc'[r] # "apply"
    BY <1>0, <1>3
       DEF Create, UpdateApply, Delete, Sent, Committed, Refused, StatementLost, Return
  <2> QED
    BY <1>1, <2>1
<1>4. ASSUME NEW r \in Reqs, ListActive(r) \/ SetActive(r)
      PROVE  DraftIsRow'
  <2>1. pc'[r] # "apply"
    BY <1>0, <1>4 DEF ListActive, SetActive, RefreshDone, RefreshFails, Return
  <2> QED
    BY <1>1, <2>1
<1>5. CASE Crash
  BY <1>5 DEF Crash, DraftIsRow
<1>6. CASE UNCHANGED <<rows, pc, draft>>
  BY <1>6 DEF DraftIsRow
<1>7. ~LateChange
  BY DEF LateChange
<1> QED
  BY <1>2, <1>3, <1>4, <1>5, <1>6, <1>7
     DEF Next, Step, SetUnanswered, Late, LateSet, Read, Expire, vars

(* The UPDATE writes the row that was read, patched, or nothing.           *)
LEMMA UpdateWrites ==
  ASSUME IInv, NEW r \in Reqs, UpdateApply(r)
  PROVE  /\ draft[r] \in Drafts
         /\ \/ rows' = rows
            \/ rows'[draft[r].id] = Patched(draft[r].old, draft[r].patch)
<1>1. draft[r] \in Drafts /\ Patched(draft[r].old, draft[r].patch) # Nil
  BY UpdatedType, NilAssumption DEF UpdateApply, IInv
<1>2. \/ rows' = rows
      \/ rows' = [rows EXCEPT ![draft[r].id] = Patched(draft[r].old, draft[r].patch)]
  BY <1>1 DEF UpdateApply, Sent, Write, Executed, Committed, Refused, StatementLost, ChangeTable
<1>3. draft[r].id \in DOMAIN rows
  BY <1>1 DEF Drafts, IInv, TypeInv, TypeOK, Tables
<1> QED
  BY <1>1, <1>2, <1>3

(* A field that the UPDATE changes is named by the body, or has changed    *)
(* since the row was read.                                                 *)
LEMMA PatchStep ==
  ASSUME IInv, NEW r \in Reqs, UpdateApply(r),
         NEW f \in Fields, rows'[draft[r].id][f] # rows[draft[r].id][f],
         rows[draft[r].id][f] = draft[r].old[f]
  PROVE  draft[r].patch[f] # Nil
<1>1. draft[r].old \in Incidents /\ draft[r].patch \in UpdateIncidentRequest
  BY UpdateWrites DEF Drafts
<1>2. Patched(draft[r].old, draft[r].patch)[f] # draft[r].old[f]
  BY UpdateWrites
<1> QED
  BY <1>1, <1>2, PatchedChanges

(* An UPDATE undoes no field that nobody else has changed meanwhile,       *)
(* however many admins there are and whatever fails.                       *)
THEOREM UpdatesUndoOnlyRacedFields == Spec => PatchUndoesOnlyRacedFields
<1>1. IInv /\ [Next]_vars =>
        [\A r \in Reqs : UpdateApply(r) =>
           LET old == rows[draft[r].id]
               new == rows'[draft[r].id]
           IN \A f \in Fields :
                new[f] # old[f] => draft[r].patch[f] # Nil \/ old[f] # draft[r].old[f]]_vars
  BY PatchStep
<1> QED
  BY <1>1, IInvInit, IInvStep, PTL DEF Spec, PatchUndoesOnlyRacedFields

(* With one admin at a time a PUT has PATCH semantics, whatever else       *)
(* fails, as long as no change is carried out after its handler has        *)
(* answered that it failed. Both assumptions are needed: with two admins   *)
(* the run admin_patch loses an update, and a late change is a rival too.  *)
THEOREM SoleAdminPatches ==
  ASSUME SoleAdmin
  PROVE  Spec /\ [](lateChanges = {}) => PatchTouchesOnlyNamedFields
<1>1. Init => DraftIsRow
  BY DEF Init, DraftIsRow
<1>2. IInv /\ DraftIsRow /\ lateChanges = {} /\ [Next]_vars => DraftIsRow'
  BY DraftIsRowStep
<1>3. IInv /\ DraftIsRow /\ [Next]_vars =>
        [\A r \in Reqs : UpdateApply(r) =>
           \A f \in Fields :
             rows'[draft[r].id][f] # rows[draft[r].id][f] => draft[r].patch[f] # Nil]_vars
  <2>1. ASSUME IInv, DraftIsRow, NEW r \in Reqs, UpdateApply(r), NEW f \in Fields
        PROVE  rows[draft[r].id][f] = draft[r].old[f]
    BY <2>1 DEF DraftIsRow, UpdateApply
  <2> QED
    BY <2>1, PatchStep
<1> QED
  BY <1>1, <1>2, <1>3, IInvInit, IInvStep, PTL DEF Spec, PatchTouchesOnlyNamedFields

(***************************************************************************)
(* A fresh cache.                                                          *)
(***************************************************************************)

(* After a clean change there is one refresh at most, the one of its       *)
(* handler, and what that handler has read is the table.                   *)
FreshInv ==
  clean =>
    /\ (\A r \in Reqs : ~InRefresh(r)) =>
         (cache = Absent \/ cache.view = ActiveView(rows))
    /\ \A r, q \in Reqs : InRefresh(r) /\ InRefresh(q) => r = q
    /\ \A r \in Reqs : pc[r] = "publish" => snap[r].view = ActiveView(rows)

LEMMA CommittedFresh ==
  ASSUME IInv, NEW r \in Reqs, NEW table \in Tables, Committed(r, table)
  PROVE  FreshInv'
<1>1. /\ clean' = \A q \in Reqs \ {r} : ~InRefresh(q)
      /\ pc'[r] = "list" /\ \A q \in Reqs \ {r} : pc'[q] = pc[q]
  BY DEF Committed, Alone, IInv, TypeInv, TypeOK
<1>2. clean' => \A q \in Reqs : InRefresh(q)' => q = r
  BY <1>1 DEF InRefresh
<1> QED
  BY <1>1, <1>2 DEF FreshInv, InRefresh

(* A step that touches neither a refresh nor what refreshes read.          *)
LEMMA QuietFresh ==
  ASSUME FreshInv, UNCHANGED <<rows, cache, snap>>, clean' => clean,
         \A q \in Reqs : (InRefresh(q) \/ InRefresh(q)') => pc'[q] = pc[q]
  PROVE  FreshInv'
<1>1. \A q \in Reqs : InRefresh(q)' <=> InRefresh(q)
  BY DEF InRefresh
<1>2. \A q \in Reqs : pc'[q] = "publish" => pc[q] = "publish"
  BY DEF InRefresh
<1> QED
  BY <1>1, <1>2 DEF FreshInv

LEMMA EndsFresh ==
  ASSUME IInv, FreshInv, NEW r \in Reqs, pc[r] \in {"idle", "apply"}, Ends(r)
  PROVE  FreshInv'
BY QuietFresh DEF Ends, Return, InRefresh, IInv, TypeInv, TypeOK

LEMMA FreshStep == IInv /\ FreshInv /\ [Next]_vars => FreshInv'
<1> SUFFICES ASSUME IInv, FreshInv, [Next]_vars
             PROVE  FreshInv'
  OBVIOUS
<1>0. /\ rows \in Tables
      /\ pc \in [Reqs -> {"idle", "apply", "list", "publish"}]
      /\ snap \in [Reqs -> Versions]
  BY DEF IInv, TypeInv, TypeOK
<1>1. ASSUME NEW r \in Reqs, pc[r] \in {"idle", "apply"},
             Ends(r) \/ \E table \in Tables : Committed(r, table)
      PROVE  FreshInv'
  BY <1>1, CommittedFresh, EndsFresh
<1>2. ASSUME NEW r \in Reqs, Create(r) \/ UpdateGet(r) \/ UpdateApply(r) \/ Delete(r)
      PROVE  FreshInv'
  <2>1. pc[r] \in {"idle", "apply"}
    BY <1>2, Outcomes DEF IInv
  <2>2. ASSUME NEW d, StartsUpdate(r, d)
        PROVE  FreshInv'
    BY <1>0, <2>1, <2>2, QuietFresh DEF StartsUpdate, InRefresh
  <2> QED
    BY <1>1, <1>2, <2>1, <2>2, Outcomes DEF IInv
<1>3. ASSUME NEW r \in Reqs, ListActive(r)
      PROVE  FreshInv'
  <2>1. CASE RefreshFails(r)
    BY <2>1 DEF RefreshFails, FreshInv
  <2>2. CASE ~RefreshFails(r)
    <3>1. /\ pc[r] = "list" /\ pc'[r] = "publish"
          /\ \A q \in Reqs \ {r} : pc'[q] = pc[q] /\ snap'[q] = snap[q]
          /\ snap'[r].view = ActiveView(rows)
          /\ UNCHANGED <<rows, cache, clean>>
      BY <1>0, <1>3, <2>2 DEF ListActive
    <3>2. \A q \in Reqs : InRefresh(q)' <=> InRefresh(q)
      BY <3>1 DEF InRefresh
    <3> QED
      BY <3>1, <3>2 DEF FreshInv
  <2> QED
    BY <2>1, <2>2
<1>4. ASSUME NEW r \in Reqs, SetActive(r)
      PROVE  FreshInv'
  <2>1. CASE clean' = FALSE
    BY <2>1 DEF FreshInv
  <2>2. CASE cache' = snap[r] /\ UNCHANGED clean
    <3>1. /\ pc[r] = "publish" /\ pc'[r] = "idle"
          /\ \A q \in Reqs \ {r} : pc'[q] = pc[q] /\ snap'[q] = snap[q]
          /\ UNCHANGED rows
      BY <1>0, <1>4 DEF SetActive, RefreshDone
    <3>2. InRefresh(r) /\ \A q \in Reqs : InRefresh(q)' => q # r /\ InRefresh(q)
      BY <3>1 DEF InRefresh
    <3>3. \A q \in Reqs : pc'[q] = "publish" => InRefresh(q)'
      BY DEF InRefresh
    <3> QED
      BY <2>2, <3>1, <3>2, <3>3 DEF FreshInv
  <2> QED
    BY <1>4, <2>1, <2>2 DEF SetActive
<1>5. ASSUME NEW r \in Reqs, SetUnanswered(r)
      PROVE  FreshInv'
  BY <1>5 DEF SetUnanswered, InRefresh, FreshInv
<1>6. CASE LateChange
  BY <1>6 DEF LateChange, FreshInv
<1>7. CASE LateSet
  <2> PICK v \in lateSets :
        /\ cache' = v
        /\ clean' = (clean /\ (v.at = Len(commits) \/ \E r \in Reqs : InRefresh(r)))
    BY <1>7 DEF LateSet
  <2>1. v.at = Len(commits) => v.view = ActiveView(rows)
    BY DEF IInv, TypeInv, TypeOK, LateCalls, TableIsLastCommit
  <2>2. UNCHANGED <<rows, pc, snap>>
    BY <1>7 DEF LateSet
  <2> QED
    BY <2>1, <2>2 DEF InRefresh, FreshInv
<1>8. CASE Expire
  BY <1>8 DEF Expire, InRefresh, FreshInv
<1>9. CASE Crash
  BY <1>9 DEF Crash, InRefresh, FreshInv
<1>10. CASE UNCHANGED vars
  BY <1>10 DEF vars, InRefresh, FreshInv
<1> QED
  BY <1>2, <1>3, <1>4, <1>5, <1>6, <1>7, <1>8, <1>9, <1>10 DEF Next, Step, Late, Read

(* A change made while no other refresh was under way, whose own refresh   *)
(* has not failed, leaves a cache that is gone or is the table, however    *)
(* many admins there are and whatever failed before; an older SET that     *)
(* comes late undoes it only until the next clean change.                  *)
THEOREM CleanChangesLeaveFreshCache == Spec => []QuietCacheIsFresh
<1>1. Init => FreshInv
  BY DEF Init, FreshInv, InRefresh
<1>2. FreshInv => QuietCacheIsFresh
  BY DEF FreshInv, QuietCacheIsFresh
<1> QED
  BY <1>1, <1>2, FreshStep, IInvInit, IInvStep, PTL DEF Spec
=============================================================================
