---------------------------- MODULE ListIncidents ---------------------------
(***************************************************************************)
(* GET /admin/incidents: AdminIncidentList and IncidentAdmin.List, a COUNT *)
(* and a page by offset, two statements over a table that grows at its     *)
(* head. The client asks for one page, or walks through all of them as the *)
(* admin page lets one do.                                                 *)
(*                                                                         *)
(*   idle --Ask, Walk--> first --> second --> done --Turn--> first         *)
(*                         |----------|--> failed   |--Turn--> idle        *)
(***************************************************************************)
EXTENDS Integers, Sequences, SequencesExt, FiniteSets

CONSTANTS
  MaxRows,   \* bound: incidents created
  Pages,     \* page numbers asked for
  Limits,    \* limits asked for
  Cap,       \* 100: the largest limit
  Default,   \* 20: the limit in place of one out of range
  Half       \* 2^63: an int is in -Half..(Half - 1)

(* There are fewer rows than an int can count. *)
ASSUME ListAssumption ==
  /\ Half \in Nat /\ MaxRows \in 0..(Half - 1)
  /\ Pages \subseteq -Half..(Half - 1) /\ Limits \subseteq -Half..(Half - 1)
  /\ Cap \in 1..(Half - 1) /\ Default \in 1..Cap

VARIABLES
  table,    \* the incidents, in the order of created_at, newest first
  place,    \* where the request is
  page,     \* the page asked for
  limit,    \* the limit asked for, as the handler has capped it
  total,    \* the answer: COUNT
  rows,     \* the answer: the page
  walking,  \* the client goes on to the next page
  seen,     \* the rows the walk has been shown
  present,  \* ghost: the rows there were when the walk began
  between   \* ghost: rows created between the statements of this request

listVars == <<table, place, page, limit, total, rows, walking, seen, present, between>>

ListInit ==
  /\ table \in {[i \in 1..n |-> i] : n \in 0..MaxRows}
  /\ place = "idle"
  /\ page = 1 /\ limit = Default
  /\ total = 0 /\ rows = <<>>
  /\ walking = FALSE /\ seen = {} /\ present = {} /\ between = 0

(***************************************************************************)
(* The parameters.                                                         *)
(***************************************************************************)

(* Mutant of Capped: the limit is left to the repository. *)
Uncapped(n) == n

(* The handler answers with this limit, and passes it on. *)
Capped(n) == IF n > Cap THEN Cap ELSE n

PageNumber(n) == IF n < 1 THEN 1 ELSE n

PageSize(n) == IF n <= 0 \/ n > Cap THEN Default ELSE n

(* An int of Go wraps around. *)
Wrapped(n) == ((n + Half) % (2 * Half)) - Half

FirstRow(p, n) == (PageNumber(p) - 1) * PageSize(n)

Offset(p, n) == Wrapped(FirstRow(p, n))

(* LIMIT and OFFSET *)
PageAt(offset, n) == SubSeq(table, offset + 1, Min({offset + n, Len(table)}))

(***************************************************************************)
(* The table.                                                              *)
(***************************************************************************)

(* Create stamps the row before it inserts it: another may overtake it.    *)
CreateRow ==
  /\ Len(table) < MaxRows
  /\ \E i \in 1..(Len(table) + 1) : table' = InsertAt(table, i, Len(table) + 1)
  /\ between' = IF place = "second" THEN between + 1 ELSE between
  /\ UNCHANGED <<place, page, limit, total, rows, walking, seen, present>>

(* Mutant of DeleteRow: DELETE FROM incidents. *)
DeleteRowForGood ==
  /\ \E i \in 1..Len(table) : table' = RemoveAt(table, i)
  /\ UNCHANGED <<place, page, limit, total, rows, walking, seen, present, between>>

(* Delete sets the status: the row stays in the list. *)
DeleteRow ==
  /\ table # <<>>
  /\ UNCHANGED listVars

(***************************************************************************)
(* The request.                                                            *)
(***************************************************************************)

Request(p, n) ==
  /\ page' = p /\ limit' = Capped(n)
  /\ total' = 0 /\ rows' = <<>> /\ between' = 0
  /\ place' = "first"
  /\ UNCHANGED table

(* One page. *)
Ask ==
  /\ place = "idle"
  /\ \E p \in Pages, n \in Limits : Request(p, n)
  /\ walking' = FALSE /\ seen' = {} /\ present' = {}

(* Every page, from the first. *)
Walk ==
  /\ place = "idle"
  /\ \E n \in Limits : n > 0 /\ Request(1, n)
  /\ walking' = TRUE /\ seen' = {} /\ present' = ToSet(table)

(* Mutant of Statements: the page first. *)
StatementsSwapped == <<"page", "count">>

Statements == <<"count", "page">>

(* A statement, in its order; a negative OFFSET is refused. *)
Run(k) ==
  \/ /\ Statements[k] = "count"
     /\ total' = Len(table)
     /\ UNCHANGED rows
  \/ /\ Statements[k] = "page"
     /\ Offset(page, limit) >= 0
     /\ rows' = PageAt(Offset(page, limit), PageSize(limit))
     /\ UNCHANGED total

RunFirst ==
  /\ place = "first" /\ Run(1)
  /\ place' = "second"
  /\ UNCHANGED <<table, page, limit, walking, seen, present, between>>

RunSecond ==
  /\ place = "second" /\ Run(2)
  /\ place' = "done"
  /\ UNCHANGED <<table, page, limit, walking, seen, present, between>>

(* A statement fails: 500, and the client starts again. *)
ListFails ==
  /\ place \in {"first", "second"}
  /\ place' = "idle"
  /\ UNCHANGED <<table, page, limit, total, rows, walking, seen, present, between>>

(* The walk has come to the last page: as many as total and limit give.    *)
LastPage == page * limit >= total

(* The client takes the answer and turns to the next page, if it walks and *)
(* there is one.                                                           *)
Turn ==
  /\ place = "done"
  /\ seen' = seen \union ToSet(rows)
  /\ IF walking /\ ~LastPage
       THEN page' = page + 1 /\ place' = "first" /\ between' = 0
       ELSE place' = "idle" /\ UNCHANGED <<page, between>>
  /\ UNCHANGED <<table, limit, total, rows, walking, present>>

ListNext ==
  \/ CreateRow \/ DeleteRow \/ Ask \/ Walk \/ RunFirst \/ RunSecond \/ ListFails \/ Turn

ListSpec == ListInit /\ [][ListNext]_listVars

(***************************************************************************)
(* Properties.                                                             *)
(***************************************************************************)

ListTypeOK ==
  /\ table \in Seq(1..MaxRows)
  /\ place \in {"idle", "first", "second", "done"}
  /\ page \in -Half..(Half - 1) /\ limit \in -Half..Cap
  /\ total \in 0..MaxRows
  /\ rows \in Seq(1..MaxRows)
  /\ walking \in BOOLEAN
  /\ seen \subseteq 1..MaxRows /\ present \subseteq 1..MaxRows
  /\ between \in 0..MaxRows

(* The page holds what its total promises: an answer never tells of more   *)
(* rows on this page than it shows, although the two come from different   *)
(* statements (incident_admin.go:78, :95), for any page and limit whose    *)
(* offset is an int.                                                       *)
PageFulfilsTotal ==
  place = "done" /\ FirstRow(page, limit) < Half =>
    /\ Len(rows) <= PageSize(limit)
    /\ total >= FirstRow(page, limit) + PageSize(limit) => Len(rows) = PageSize(limit)
    /\ total < FirstRow(page, limit) + PageSize(limit) =>
         Len(rows) >= total - FirstRow(page, limit)

(* A client that pages by the total and the limit of the answers sees      *)
(* every incident there was when it began, whatever is created or deleted  *)
(* on its way: only rows created between the last COUNT and its page can   *)
(* push as many off the end (incident_admin.go:73-95).                     *)
WalkMissesOnlyThePushedOff ==
  place = "done" /\ walking /\ LastPage =>
    Cardinality(present \ (seen \union ToSet(rows))) <= between
=============================================================================
