------------------------- MODULE ListIncidentsProofs ------------------------
(***************************************************************************)
(* Proofs about ListIncidents, for any number of rows, pages and limits    *)
(* and any width of an int.                                                *)
(***************************************************************************)
EXTENDS ListIncidents, FiniteSetTheorems, TLAPS

(***************************************************************************)
(* The operators.                                                          *)
(***************************************************************************)

LEMMA MinOfTwo ==
  ASSUME NEW a \in Int, NEW b \in Int
  PROVE  Min({a, b}) = IF a <= b THEN a ELSE b
<1>1. \E x \in {a, b} : \A y \in {a, b} : x <= y  OBVIOUS
<1>2. Min({a, b}) \in {a, b} /\ \A y \in {a, b} : Min({a, b}) <= y
  BY <1>1 DEF Min
<1> QED  BY <1>2

(* An offset that is an int is passed on as it is. *)
LEMMA Unwrapped ==
  ASSUME NEW n \in 0..(Half - 1)
  PROVE  Wrapped(n) = n
<1>1. ASSUME NEW a \in Nat, NEW m \in Nat, a < m  PROVE a % m = a
  BY <1>1
<1>2. (n + Half) % (2 * Half) = n + Half  BY <1>1, ListAssumption
<1> QED  BY <1>2, ListAssumption DEF Wrapped

(* Any offset is an int. *)
LEMMA WrappedInt ==
  ASSUME NEW n \in Int
  PROVE  Wrapped(n) \in Int
BY ListAssumption DEF Wrapped

LEMMA SizeFacts ==
  ASSUME NEW p \in Int, NEW n \in Int
  PROVE  /\ PageNumber(p) \in Nat \ {0}
         /\ PageSize(n) \in 1..Cap
         /\ FirstRow(p, n) \in Nat
         /\ p >= 1 => PageNumber(p) = p
         /\ n \in 1..Cap => PageSize(n) = n
<1>1. PageNumber(p) \in Nat \ {0} /\ (p >= 1 => PageNumber(p) = p)
  BY DEF PageNumber
<1>2. PageSize(n) \in 1..Cap /\ (n \in 1..Cap => PageSize(n) = n)
  BY ListAssumption DEF PageSize
<1>3. ASSUME NEW a \in Nat, NEW b \in Nat  PROVE a * b \in Nat
  BY <1>3
<1>4. PageNumber(p) - 1 \in Nat /\ PageSize(n) \in Nat
  BY <1>1, <1>2, ListAssumption
<1>5. FirstRow(p, n) \in Nat
  BY <1>3, <1>4 DEF FirstRow
<1> QED  BY <1>1, <1>2, <1>5

(* A row put into the list moves no other by more than one place, and none *)
(* towards the head.                                                       *)
LEMMA Inserted ==
  ASSUME NEW S, NEW s \in Seq(S), NEW e \in S, NEW i \in 1..(Len(s) + 1)
  PROVE  LET t == InsertAt(s, i, e)
         IN  /\ t \in Seq(S)
             /\ Len(t) = Len(s) + 1
             /\ \A j \in 1..Len(s) : \E k \in 1..Len(t) : k >= j /\ t[k] = s[j]
<1> DEFINE t == InsertAt(s, i, e)
<1> SUFFICES /\ t \in Seq(S)
             /\ Len(t) = Len(s) + 1
             /\ \A j \in 1..Len(s) : \E k \in 1..Len(t) : k >= j /\ t[k] = s[j]
  OBVIOUS
<1> DEFINE front == SubSeq(s, 1, i - 1)
           back  == SubSeq(s, i, Len(s))
<1>1. /\ front \in Seq(S) /\ Len(front) = i - 1
      /\ \A j \in 1..(i - 1) : front[j] = s[j]
  OBVIOUS
<1>2. /\ back \in Seq(S) /\ Len(back) = Len(s) - i + 1
      /\ \A j \in 1..(Len(s) - i + 1) : back[j] = s[i + j - 1]
  OBVIOUS
<1>3. t = front \o <<e>> \o back
  BY DEF InsertAt
<1> HIDE DEF front, back, t
<1>4. /\ front \o <<e>> \in Seq(S) /\ Len(front \o <<e>>) = i
      /\ \A j \in 1..(i - 1) : (front \o <<e>>)[j] = s[j]
  BY <1>1
<1>5. /\ t \in Seq(S) /\ Len(t) = Len(s) + 1
      /\ \A j \in 1..(i - 1) : t[j] = s[j]
      /\ \A j \in 1..Len(back) : t[i + j] = back[j]
  BY <1>2, <1>3, <1>4
<1>6. ASSUME NEW j \in 1..Len(s)  PROVE \E k \in 1..Len(t) : k >= j /\ t[k] = s[j]
  <2>1. CASE j < i
    BY <1>5, <2>1
  <2>2. CASE j >= i
    <3>1. j - i + 1 \in 1..Len(back)  BY <1>2, <2>2
    <3>2. back[j - i + 1] = s[j]  BY <1>2, <2>2, <3>1
    <3>3. t[j + 1] = s[j]  BY <1>5, <3>1, <3>2
    <3> QED  BY <1>5, <3>3
  <2> QED  BY <2>1, <2>2
<1> QED  BY <1>5, <1>6

(* What a page holds. *)
LEMMA PageFacts ==
  ASSUME NEW S, table \in Seq(S), NEW o \in Nat, NEW n \in Nat
  PROVE  LET pg == PageAt(o, n)
         IN  /\ pg \in Seq(S)
             /\ Len(pg) <= n
             /\ Len(table) >= o + n => Len(pg) = n
             /\ Len(table) <= o + n /\ Len(table) >= o => Len(pg) = Len(table) - o
             /\ \A i \in (o + 1)..(o + n) : i <= Len(table) =>
                  table[i] \in ToSet(pg)
<1> DEFINE last == IF o + n <= Len(table) THEN o + n ELSE Len(table)
           pg   == PageAt(o, n)
<1>1. pg = SubSeq(table, o + 1, last)
  BY MinOfTwo DEF PageAt
<1>2. last \in 0..Len(table)
  OBVIOUS
<1>3. /\ pg \in Seq(S)
      /\ Len(pg) = IF o + 1 <= last THEN last - o ELSE 0
      /\ \A j \in 1..(last - o) : pg[j] = table[o + j]
  <2> HIDE DEF last, pg
  <2>1. table \in Seq(S) /\ o + 1 \in Nat \ {0} /\ last \in 0..Len(table)
    BY <1>2
  <2>2. ASSUME NEW j \in (o + 1)..last  PROVE table[j] \in S
    BY <2>1, <2>2
  <2>3. /\ pg \in Seq(S)
        /\ Len(pg) = IF o + 1 <= last THEN last - (o + 1) + 1 ELSE 0
    BY <1>1, <2>1, <2>2
  <2>4. ASSUME NEW j \in 1..(last - o)  PROVE pg[j] = table[o + j]
    BY <1>1, <2>1
  <2> QED  BY <2>1, <2>3, <2>4
<1>4. ASSUME NEW i \in (o + 1)..(o + n), i <= Len(table)
      PROVE  table[i] \in ToSet(pg)
  <2> HIDE DEF pg
  <2>1. i - o \in 1..Len(pg) /\ pg[i - o] = table[i]
    BY <1>2, <1>3, <1>4
  <2> QED  BY <1>3, <2>1 DEF ToSet
<1> HIDE DEF pg
<1>5. /\ Len(pg) <= n
      /\ Len(table) >= o + n => Len(pg) = n
      /\ Len(table) <= o + n /\ Len(table) >= o => Len(pg) = Len(table) - o
  BY <1>2, <1>3
<1> QED  BY <1>3, <1>4, <1>5 DEF pg

(***************************************************************************)
(* The invariant.                                                          *)
(***************************************************************************)

(* The rows below the first n. *)
Beyond(n) == {table[i] : i \in (n + 1)..Len(table)}

First == FirstRow(page, limit)
Size  == PageSize(limit)

(* COUNT is out of date by the rows created since. *)
CountIsRecent ==
  /\ place = "first" => between = 0
  /\ place = "second" => total + between = Len(table)

(* A walk never asks for a page that does not begin among the rows. *)
WalkIsInRange ==
  walking /\ place # "idle" => /\ page >= 1 /\ limit \in 1..Cap
                               /\ First <= MaxRows

(* What a walk has not seen lies beyond the pages it has turned. *)
UnseenIsBeyond ==
  walking =>
    /\ place \in {"first", "second"} => present \ seen \subseteq Beyond(First)
    /\ place = "done" => present \ (seen \union ToSet(rows)) \subseteq Beyond(First + Size)

IInv ==
  /\ ListTypeOK
  /\ Len(table) <= MaxRows
  /\ CountIsRecent /\ WalkIsInRange /\ UnseenIsBeyond
  /\ PageFulfilsTotal /\ WalkMissesOnlyThePushedOff

LEMMA InitIInv == ListInit => IInv
<1> SUFFICES ASSUME ListInit  PROVE IInv  OBVIOUS
<1>1. ListTypeOK
  <2>1. table \in Seq(1..MaxRows)
    <3>1. PICK n \in 0..MaxRows : table = [i \in 1..n |-> i]
      BY DEF ListInit
    <3>2. \A i \in 1..n : i \in 1..MaxRows  BY <3>1, ListAssumption
    <3> QED  BY <3>1, <3>2, ListAssumption
  <2>2. 1 \in -Half..(Half - 1) /\ Default \in -Half..Cap /\ 0 \in 0..MaxRows
    BY ListAssumption
  <2>3. <<>> \in Seq(1..MaxRows)
    OBVIOUS
  <2> QED  BY <2>1, <2>2, <2>3 DEF ListInit, ListTypeOK
<1> QED
  BY <1>1 DEF ListInit, IInv, CountIsRecent, WalkIsInRange, UnseenIsBeyond, PageFulfilsTotal,
              WalkMissesOnlyThePushedOff

(* The first row of the next page, and where it lies when there is one.    *)
LEMMA NextPage ==
  ASSUME ListTypeOK, page >= 1, limit \in 1..Cap
  PROVE  /\ First = (page - 1) * limit /\ Size = limit
         /\ page * limit = First + Size
         /\ FirstRow(page + 1, limit) = First + Size
         /\ LastPage <=> First + Size >= total
         /\ ~LastPage => page < total
<1>1. page \in Nat \ {0} /\ limit \in Nat \ {0} /\ total \in Nat
  BY ListAssumption DEF ListTypeOK
<1>2. /\ First = (page - 1) * limit /\ Size = limit
      /\ FirstRow(page + 1, limit) = page * limit
  <2>1. PageNumber(page) = page /\ PageNumber(page + 1) = page + 1 /\ PageSize(limit) = limit
    <3>1. page \in Int /\ page + 1 \in Int /\ page + 1 >= 1 /\ limit \in Int  BY <1>1
    <3> QED  BY <3>1, SizeFacts
  <2>2. (page + 1) - 1 = page
    BY <1>1
  <2> QED  BY <2>1, <2>2 DEF First, Size, FirstRow
<1>3. page * limit = (page - 1) * limit + limit
  BY <1>1
<1>4. page * limit >= page
  BY <1>1
<1>5. page * limit \in Nat
  BY <1>1
<1> QED  BY <1>1, <1>2, <1>3, <1>4, <1>5 DEF LastPage

(***************************************************************************)
(* A row is created.                                                       *)
(***************************************************************************)
LEMMA CreateStep == IInv /\ CreateRow => IInv'
<1> SUFFICES ASSUME IInv, CreateRow  PROVE IInv'  OBVIOUS
<1>0. UNCHANGED <<place, page, limit, total, rows, walking, seen, present>>
  BY DEF CreateRow
<1>1. /\ table' \in Seq(1..MaxRows)
      /\ Len(table') = Len(table) + 1 /\ Len(table') <= MaxRows
      /\ \A j \in 1..Len(table) : \E k \in 1..Len(table') : k >= j /\ table'[k] = table[j]
  <2>1. table \in Seq(1..MaxRows) /\ Len(table) + 1 \in 1..MaxRows
    BY ListAssumption DEF IInv, ListTypeOK, CreateRow
  <2>2. PICK i \in 1..(Len(table) + 1) : table' = InsertAt(table, i, Len(table) + 1)
    BY DEF CreateRow
  <2>3. Len(table) \in Nat
    BY <2>1
  <2> DEFINE S == 1..MaxRows
             e == Len(table) + 1
             t == InsertAt(table, i, e)
  <2>4. /\ t \in Seq(S) /\ Len(t) = Len(table) + 1
        /\ \A j \in 1..Len(table) : \E k \in 1..Len(t) : k >= j /\ t[k] = table[j]
    <3>1. table \in Seq(S) /\ e \in S /\ i \in 1..(Len(table) + 1)  BY <2>1, <2>2
    <3> HIDE DEF S, e
    <3> QED  BY <3>1, Inserted
  <2>5. t = table'
    BY <2>2
  <2> HIDE DEF t
  <2> QED  BY <2>1, <2>4, <2>5
<1>2. ASSUME NEW n \in Nat  PROVE Beyond(n) \subseteq Beyond(n)'
  <2> SUFFICES ASSUME NEW j \in (n + 1)..Len(table)
               PROVE  \E k \in (n + 1)..Len(table') : table'[k] = table[j]
    BY DEF Beyond
  <2> QED  BY <1>1 DEF IInv, ListTypeOK
<1>3. First \in Nat /\ Size \in Nat /\ First + Size \in Nat
  <2>1. page \in Int /\ limit \in Int
    BY ListAssumption DEF IInv, ListTypeOK
  <2>2. First \in Nat /\ Size \in 1..Cap
    BY <2>1, SizeFacts DEF First, Size
  <2> QED  BY <2>2, ListAssumption
<1>4. First' = First /\ Size' = Size /\ LastPage' = LastPage
  BY <1>0 DEF First, Size, LastPage, FirstRow
<1>5. /\ between' \in 0..MaxRows
      /\ place # "second" => between' = between
      /\ place = "second" => between' = between + 1
  <2>1. /\ between \in 0..MaxRows /\ total \in 0..MaxRows
        /\ place = "second" => total + between = Len(table)
    BY DEF IInv, ListTypeOK, CountIsRecent
  <2>2. between' = IF place = "second" THEN between + 1 ELSE between
    BY DEF CreateRow
  <2>3. Len(table) \in Nat /\ MaxRows \in Nat
    BY ListAssumption DEF IInv, ListTypeOK
  <2> QED  BY <1>1, <2>1, <2>2, <2>3
<1>6. ListTypeOK'
  BY <1>0, <1>1, <1>5 DEF IInv, ListTypeOK
<1>7. CountIsRecent'
  <2>1. between \in Nat /\ total \in Nat /\ Len(table) \in Nat
    BY ListAssumption DEF IInv, ListTypeOK
  <2> QED  BY <1>0, <1>1, <1>5, <2>1 DEF IInv, CountIsRecent
<1>8. WalkIsInRange'
  BY <1>0, <1>4 DEF IInv, WalkIsInRange
<1>9. UnseenIsBeyond'
  BY <1>0, <1>2, <1>3, <1>4 DEF IInv, UnseenIsBeyond
<1>10. PageFulfilsTotal' /\ WalkMissesOnlyThePushedOff'
  BY <1>0, <1>4, <1>5 DEF IInv, PageFulfilsTotal, WalkMissesOnlyThePushedOff
<1> QED  BY <1>1, <1>6, <1>7, <1>8, <1>9, <1>10 DEF IInv

(***************************************************************************)
(* The request.                                                            *)
(***************************************************************************)
LEMMA AskStep == IInv /\ (Ask \/ Walk \/ ListFails) => IInv'
<1> SUFFICES ASSUME IInv, Ask \/ Walk \/ ListFails  PROVE IInv'  OBVIOUS
<1>1. ASSUME NEW p \in -Half..(Half - 1), NEW n \in -Half..(Half - 1), Request(p, n)
      PROVE  /\ page' \in -Half..(Half - 1) /\ limit' \in -Half..Cap
             /\ total' \in 0..MaxRows /\ rows' \in Seq(1..MaxRows)
             /\ between' = 0 /\ place' = "first" /\ UNCHANGED table
             /\ n > 0 => limit' \in 1..Cap
  BY <1>1, ListAssumption DEF Request, Capped
<1>2. CASE Ask
  <2>1. PICK p \in Pages, n \in Limits : Request(p, n)  BY <1>2 DEF Ask
  <2>2. /\ page' \in -Half..(Half - 1) /\ limit' \in -Half..Cap
        /\ total' \in 0..MaxRows /\ rows' \in Seq(1..MaxRows)
        /\ between' = 0 /\ place' = "first" /\ UNCHANGED table
    BY <1>1, <2>1, ListAssumption
  <2>3. ListTypeOK'
    <3>1. walking' = FALSE /\ seen' = {} /\ present' = {}  BY <1>2 DEF Ask
    <3>2. table \in Seq(1..MaxRows)  BY DEF IInv, ListTypeOK
    <3>3. between' \in 0..MaxRows  BY <2>2, ListAssumption
    <3> QED  BY <2>2, <3>1, <3>2, <3>3 DEF ListTypeOK
  <2> QED
    BY <1>2, <2>2, <2>3 DEF Ask, IInv, CountIsRecent, WalkIsInRange, UnseenIsBeyond,
                            PageFulfilsTotal, WalkMissesOnlyThePushedOff
<1>3. CASE Walk
  <2>1. PICK n \in Limits : n > 0 /\ Request(1, n)  BY <1>3 DEF Walk
  <2>2. 1 \in -Half..(Half - 1)  BY ListAssumption
  <2>3. /\ page' = 1 /\ limit' \in 1..Cap
        /\ total' \in 0..MaxRows /\ rows' \in Seq(1..MaxRows)
        /\ between' = 0 /\ place' = "first" /\ UNCHANGED table
    BY <1>1, <2>1, <2>2, ListAssumption DEF Request
  <2>4. present' = ToSet(table) /\ present' \subseteq 1..MaxRows
    <3>1. table \in Seq(1..MaxRows)  BY DEF IInv, ListTypeOK
    <3>2. ToSet(table) = {table[i] : i \in 1..Len(table)}  BY <3>1 DEF ToSet
    <3>3. ToSet(table) \subseteq 1..MaxRows  BY <3>1, <3>2, ListAssumption
    <3> QED  BY <1>3, <3>3 DEF Walk
  <2>5. ListTypeOK'
    <3>1. walking' = TRUE /\ seen' = {}  BY <1>3 DEF Walk
    <3>2. table \in Seq(1..MaxRows)  BY DEF IInv, ListTypeOK
    <3>3. between' \in 0..MaxRows /\ limit' \in -Half..Cap  BY <2>3, ListAssumption
    <3> QED  BY <2>2, <2>3, <2>4, <3>1, <3>2, <3>3 DEF ListTypeOK
  <2>6. First' = 0
    <3>1. PageNumber(1) = 1 /\ PageSize(limit') \in Nat
      BY <2>3, SizeFacts, ListAssumption
    <3> QED  BY <2>3, <3>1 DEF First, FirstRow
  <2>7. WalkIsInRange'
    BY <2>3, <2>6, ListAssumption DEF WalkIsInRange
  <2>8. present' \subseteq Beyond(0)'
    BY <2>3, <2>4 DEF Beyond, ToSet, IInv, ListTypeOK
  <2> QED
    BY <2>3, <2>5, <2>6, <2>7, <2>8
       DEF IInv, CountIsRecent, UnseenIsBeyond, PageFulfilsTotal, WalkMissesOnlyThePushedOff
<1>4. CASE ListFails
  BY <1>4 DEF ListFails, IInv, ListTypeOK, CountIsRecent, WalkIsInRange, UnseenIsBeyond,
              PageFulfilsTotal, WalkMissesOnlyThePushedOff
<1> QED  BY <1>2, <1>3, <1>4

LEMMA CountStep == IInv /\ RunFirst => IInv'
<1> SUFFICES ASSUME IInv, RunFirst  PROVE IInv'  OBVIOUS
<1>1. /\ place = "first" /\ place' = "second" /\ total' = Len(table)
      /\ UNCHANGED <<table, page, limit, rows, walking, seen, present, between>>
  BY DEF RunFirst, Run, Statements
<1>2. First' = First /\ Beyond(First)' = Beyond(First)
  BY <1>1 DEF First, FirstRow, Beyond
<1>3. /\ table \in Seq(1..MaxRows) /\ Len(table) \in 0..MaxRows
      /\ between = 0
  BY <1>1 DEF IInv, ListTypeOK, CountIsRecent
<1>4. ListTypeOK'
  BY <1>1, <1>3 DEF IInv, ListTypeOK
<1>5. CountIsRecent'
  BY <1>1, <1>3 DEF CountIsRecent
<1>6. WalkIsInRange' /\ UnseenIsBeyond'
  BY <1>1, <1>2 DEF IInv, WalkIsInRange, UnseenIsBeyond
<1>7. PageFulfilsTotal' /\ WalkMissesOnlyThePushedOff'
  BY <1>1 DEF PageFulfilsTotal, WalkMissesOnlyThePushedOff
<1> QED
  BY <1>1, <1>3, <1>4, <1>5, <1>6, <1>7 DEF IInv

(***************************************************************************)
(* The page.                                                               *)
(***************************************************************************)

(* Beyond the first n there are no more rows than the list is longer.      *)
LEMMA BeyondIsSmall ==
  ASSUME table \in Seq(1..MaxRows), NEW n \in Nat, n <= Len(table),
         NEW M, M \subseteq Beyond(n)
  PROVE  Cardinality(M) <= Len(table) - n
<1> DEFINE I == (n + 1)..Len(table)
           f == [x \in M |-> CHOOSE i \in I : table[i] = x]
<1>1. \A x \in M : \E i \in I : table[i] = x
  BY DEF Beyond
<1>2. \A x \in M : f[x] \in I /\ table[f[x]] = x
  BY <1>1
<1>3. f \in [M -> I] /\ \A x, y \in M : f[x] = f[y] => x = y
  BY <1>2
<1>4. f \in Injection(M, I)
  <2> HIDE DEF f, I
  <2> QED  BY <1>3 DEF Injection, IsInjective
<1>5. IsFiniteSet(I) /\ Cardinality(I) = Len(table) - n
  <2>1. n + 1 \in Int /\ Len(table) \in Int  OBVIOUS
  <2>2. /\ IsFiniteSet(I)
        /\ Cardinality(I) = IF n + 1 > Len(table) THEN 0 ELSE Len(table) - (n + 1) + 1
    BY <2>1, FS_Interval
  <2> HIDE DEF I
  <2> QED  BY <2>1, <2>2
<1>6. Cardinality(M) <= Cardinality(I)
  <2> HIDE DEF f, I
  <2> QED  BY <1>4, <1>5, FS_Injection
<1> QED  BY <1>5, <1>6

LEMMA PageStep == IInv /\ RunSecond => IInv'
<1> SUFFICES ASSUME IInv, RunSecond  PROVE IInv'  OBVIOUS
<1> DEFINE o == Offset(page, limit)
<1>1. /\ place = "second" /\ place' = "done"
      /\ o >= 0 /\ rows' = PageAt(o, Size)
      /\ UNCHANGED <<table, page, limit, total, walking, seen, present, between>>
  BY DEF RunSecond, Run, Statements, Size
<1>2. page \in Int /\ limit \in Int /\ table \in Seq(1..MaxRows) /\ Len(table) \in Nat
  BY ListAssumption DEF IInv, ListTypeOK
<1>3. First \in Nat /\ Size \in 1..Cap /\ Size \in Nat
  <2>1. First \in Nat /\ Size \in 1..Cap  BY <1>2, SizeFacts DEF First, Size
  <2> QED  BY <2>1, ListAssumption
<1>4. o \in Nat
  <2>1. First \in Int  BY <1>3
  <2>2. o \in Int  BY <2>1, WrappedInt DEF Offset, First
  <2> QED  BY <1>1, <2>2
<1>5. First < Half => o = First
  BY <1>3, Unwrapped, ListAssumption DEF Offset, First
<1>6. /\ First' = First /\ Size' = Size /\ LastPage' = LastPage
      /\ \A n : Beyond(n)' = Beyond(n)
  BY <1>1 DEF First, Size, FirstRow, LastPage, Beyond
<1>7. total \in Nat /\ between \in Nat /\ total + between = Len(table)
  BY <1>1, ListAssumption DEF IInv, ListTypeOK, CountIsRecent
<1> HIDE DEF o
<1>8. /\ rows' \in Seq(1..MaxRows)
      /\ Len(rows') <= Size
      /\ Len(table) >= o + Size => Len(rows') = Size
      /\ Len(table) <= o + Size /\ Len(table) >= o => Len(rows') = Len(table) - o
      /\ \A i \in (o + 1)..(o + Size) : i <= Len(table) => table[i] \in ToSet(rows')
  BY <1>1, <1>2, <1>3, <1>4, PageFacts
<1>9. ListTypeOK' /\ Len(table') <= MaxRows /\ CountIsRecent' /\ WalkIsInRange'
  BY <1>1, <1>6, <1>8 DEF IInv, ListTypeOK, CountIsRecent, WalkIsInRange
<1>10. UnseenIsBeyond'
  <2> SUFFICES ASSUME walking, NEW x \in present \ (seen \union ToSet(rows'))
               PROVE  x \in Beyond(First + Size)
    BY <1>1, <1>6 DEF UnseenIsBeyond
  <2>1. o = First
    BY <1>1, <1>3, <1>5, ListAssumption DEF IInv, WalkIsInRange
  <2>2. x \in Beyond(First)
    BY <1>1 DEF IInv, UnseenIsBeyond
  <2>3. PICK i \in (First + 1)..Len(table) : x = table[i]
    BY <2>2 DEF Beyond
  <2>4. i \notin (First + 1)..(First + Size)
    BY <1>8, <2>1, <2>3
  <2>5. i \in (First + Size + 1)..Len(table)
    BY <1>2, <1>3, <2>3, <2>4
  <2> QED  BY <2>3, <2>5 DEF Beyond
<1>11. PageFulfilsTotal'
  <2> SUFFICES ASSUME First < Half
               PROVE  /\ Len(rows') <= Size
                      /\ total >= First + Size => Len(rows') = Size
                      /\ total < First + Size => Len(rows') >= total - First
    BY <1>1 DEF PageFulfilsTotal, First, Size
  <2>1. o = First  BY <1>5
  <2>2. Len(rows') \in Nat  BY <1>8, ListAssumption
  <2>3. CASE Len(table) >= First + Size
    BY <1>2, <1>3, <1>7, <1>8, <2>1, <2>2, <2>3
  <2>4. CASE Len(table) < First + Size /\ Len(table) >= First
    BY <1>2, <1>3, <1>7, <1>8, <2>1, <2>2, <2>4
  <2>5. CASE Len(table) < First
    BY <1>2, <1>3, <1>7, <1>8, <2>1, <2>2, <2>5
  <2> QED  BY <1>2, <1>3, <2>3, <2>4, <2>5
<1>12. WalkMissesOnlyThePushedOff'
  <2> DEFINE M == present \ (seen \union ToSet(rows'))
  <2> SUFFICES ASSUME walking, LastPage  PROVE Cardinality(M) <= between
    BY <1>1, <1>6 DEF WalkMissesOnlyThePushedOff
  <2>1. First + Size >= total
    BY <1>1, NextPage DEF IInv, WalkIsInRange
  <2>2. M \subseteq Beyond(First + Size)
    BY <1>1, <1>6, <1>10 DEF UnseenIsBeyond
  <2>3. Beyond(First + Size) \subseteq Beyond(total)
    BY <1>3, <1>7, <2>1 DEF Beyond
  <2>4. total <= Len(table) /\ Len(table) - total = between
    BY <1>2, <1>7
  <2> HIDE DEF M
  <2> QED  BY <1>2, <1>7, <2>2, <2>3, <2>4, BeyondIsSmall
<1> QED  BY <1>9, <1>10, <1>11, <1>12 DEF IInv

LEMMA TurnStep == IInv /\ Turn => IInv'
<1> SUFFICES ASSUME IInv, Turn  PROVE IInv'  OBVIOUS
<1>1. /\ place = "done" /\ seen' = seen \union ToSet(rows)
      /\ UNCHANGED <<table, limit, total, rows, walking, present>>
  BY DEF Turn
<1>2. seen' \subseteq 1..MaxRows
  <2>1. rows \in Seq(1..MaxRows) /\ seen \subseteq 1..MaxRows  BY DEF IInv, ListTypeOK
  <2>2. ToSet(rows) = {rows[i] : i \in 1..Len(rows)}  BY <2>1 DEF ToSet
  <2>3. ToSet(rows) \subseteq 1..MaxRows  BY <2>1, <2>2, ListAssumption
  <2> QED  BY <1>1, <2>1, <2>3
<1>3. CASE walking /\ ~LastPage
  <2>1. page' = page + 1 /\ place' = "first" /\ between' = 0
    BY <1>3 DEF Turn
  <2>2. /\ page >= 1 /\ limit \in 1..Cap
        /\ present \ (seen \union ToSet(rows)) \subseteq Beyond(First + Size)
    BY <1>1, <1>3 DEF IInv, WalkIsInRange, UnseenIsBeyond
  <2>3. FirstRow(page + 1, limit) = First + Size /\ First + Size < total /\ page < total
    <3>1. First + Size \in Nat /\ total \in Nat
      <4>1. page \in Int /\ limit \in Int /\ total \in Nat
        BY ListAssumption DEF IInv, ListTypeOK
      <4>2. First \in Nat /\ Size \in 1..Cap  BY <4>1, SizeFacts DEF First, Size
      <4> QED  BY <4>1, <4>2, ListAssumption
    <3> QED  BY <1>3, <2>2, <3>1, NextPage DEF IInv
  <2>4. First' = First + Size /\ Beyond(First)' = Beyond(First + Size)
    <3>1. First' = FirstRow(page + 1, limit)  BY <1>1, <2>1 DEF First, FirstRow
    <3> QED  BY <1>1, <2>3, <3>1 DEF Beyond
  <2>5. total \in 0..MaxRows /\ page \in -Half..(Half - 1)
    BY DEF IInv, ListTypeOK
  <2>6. page' \in -Half..(Half - 1) /\ page' >= 1 /\ between' \in 0..MaxRows
    BY <2>1, <2>2, <2>3, <2>5, ListAssumption
  <2>7. ListTypeOK'
    BY <1>1, <1>2, <2>1, <2>6 DEF IInv, ListTypeOK
  <2>8. WalkIsInRange'
    <3>1. First + Size <= MaxRows
      <4>1. First' \in Nat
        <5>1. page + 1 \in Int /\ limit \in Int
          BY ListAssumption DEF IInv, ListTypeOK
        <5> QED  BY <2>3, <2>4, <5>1, SizeFacts
      <4> QED  BY <2>3, <2>4, <2>5, <4>1, ListAssumption
    <3> QED  BY <1>1, <2>2, <2>4, <2>6, <3>1 DEF WalkIsInRange
  <2>9. UnseenIsBeyond'
    BY <1>1, <2>1, <2>2, <2>4 DEF UnseenIsBeyond
  <2> QED
    BY <1>1, <2>1, <2>7, <2>8, <2>9 DEF IInv, CountIsRecent, PageFulfilsTotal,
                                        WalkMissesOnlyThePushedOff
<1>4. CASE ~(walking /\ ~LastPage)
  <2>1. place' = "idle" /\ UNCHANGED <<page, between>>
    BY <1>4 DEF Turn
  <2> QED
    BY <1>1, <1>2, <2>1 DEF IInv, ListTypeOK, CountIsRecent, WalkIsInRange, UnseenIsBeyond,
                            PageFulfilsTotal, WalkMissesOnlyThePushedOff
<1> QED  BY <1>3, <1>4

LEMMA NextIInv == IInv /\ [ListNext]_listVars => IInv'
<1> SUFFICES ASSUME IInv, [ListNext]_listVars  PROVE IInv'  OBVIOUS
<1>1. CASE DeleteRow \/ UNCHANGED listVars
  <2>1. UNCHANGED listVars  BY <1>1 DEF DeleteRow
  <2> QED
    BY <2>1 DEF listVars, IInv, ListTypeOK, CountIsRecent, WalkIsInRange, UnseenIsBeyond,
                PageFulfilsTotal, WalkMissesOnlyThePushedOff, First, Size, Beyond, LastPage,
                FirstRow
<1> QED
  BY <1>1, CreateStep, AskStep, CountStep, PageStep, TurnStep DEF ListNext

(* IInv holds in every reachable state. *)
LEMMA Inductive == ListSpec => []IInv
<1> QED  BY InitIInv, NextIInv, PTL DEF ListSpec

(***************************************************************************)
(* The theorems.                                                           *)
(***************************************************************************)

(* The table, the request and its answer stay in their types: no walk      *)
(* turns to a page number that is not an int.                              *)
THEOREM ListTypeCorrect == ListSpec => []ListTypeOK
<1>1. IInv => ListTypeOK  BY DEF IInv
<1> QED  BY <1>1, Inductive, PTL

(* Whatever is created between the two statements, a page whose offset is  *)
(* an int shows as many rows as its total promises.                        *)
THEOREM PagesFulfilTotals == ListSpec => []PageFulfilsTotal
<1>1. IInv => PageFulfilsTotal  BY DEF IInv
<1> QED  BY <1>1, Inductive, PTL

(* Whatever is created and deleted on its way, a walk through the pages    *)
(* has missed no more rows than were created between its last statements.  *)
THEOREM WalksMissOnlyThePushedOff == ListSpec => []WalkMissesOnlyThePushedOff
<1>1. IInv => WalkMissesOnlyThePushedOff  BY DEF IInv
<1> QED  BY <1>1, Inductive, PTL
=============================================================================
