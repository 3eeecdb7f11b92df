----------------------------- MODULE StatsProofs ----------------------------
(***************************************************************************)
(* Proofs about Stats, for any set of checks, users and windows.           *)
(***************************************************************************)
EXTENDS Stats, FiniteSetTheorems, TLAPS

(* What the first statement has counted bounds the users, and after the    *)
(* second each of those rows is either in the total or gone.               *)
Counted ==
  /\ stage \in {"second", "done"} => users <= Cardinality(counted)
  /\ stage = "done" => Cardinality(counted) <= checks + Cardinality(gone)

IInv == StatsTypeOK /\ Counted

(* Sets of checks are finite, and their cardinalities natural numbers.     *)
LEMMA SubsetsAreCounted ==
  ASSUME NEW S \in SUBSET Checks
  PROVE  IsFiniteSet(S) /\ Cardinality(S) \in Nat
BY StatsAssumption, FS_Subset, FS_CardinalityType

(* There are no more users than checks. *)
LEMMA UsersOfChecks ==
  ASSUME NEW S \in SUBSET Checks
  PROVE  /\ Cardinality({user[c] : c \in S}) \in Nat
         /\ Cardinality({user[c] : c \in S}) <= Cardinality(S)
<1> DEFINE U == {user[c] : c \in S}
           f == [c \in S |-> user[c]]
<1>1. IsFiniteSet(S)  BY SubsetsAreCounted
<1>2. f \in Surjection(S, U)  BY DEF Surjection
<1>3. IsFiniteSet(U) /\ Cardinality(U) <= Cardinality(S)
  BY <1>1, <1>2, FS_Surjection
<1> QED  BY <1>3, FS_CardinalityType

LEMMA InitIInv == StatsInit => IInv
BY StatsAssumption DEF StatsInit, IInv, StatsTypeOK, Counted

LEMMA FirstStep == IInv /\ CountFirst => IInv'
<1> SUFFICES ASSUME IInv, CountFirst  PROVE IInv'  OBVIOUS
<1>1. Window \in SUBSET Checks  BY DEF Window
<1>2. /\ users' = Cardinality({user[c] : c \in Window})
      /\ counted' = Window /\ stage' = "second"
      /\ UNCHANGED <<user, age, minutes, checks, gone>>
  BY DEF CountFirst, Count, Counts
<1>3. users' \in Nat /\ users' <= Cardinality(counted')
  BY <1>1, <1>2, UsersOfChecks
<1> QED  BY <1>1, <1>2, <1>3 DEF IInv, StatsTypeOK, Counted

(* Every row that was counted is in the window, or gone. *)
LEMMA SecondStep == IInv /\ CountSecond => IInv'
<1> SUFFICES ASSUME IInv, CountSecond  PROVE IInv'  OBVIOUS
<1>1. Window \in SUBSET Checks /\ counted \in SUBSET Checks
  BY DEF Window, IInv, StatsTypeOK
<1>2. /\ checks' = Cardinality(Window) /\ gone' = counted \ Window
      /\ stage = "second" /\ stage' = "done"
      /\ UNCHANGED <<user, age, minutes, users, counted>>
  BY DEF CountSecond, Count, Counts
<1>3. gone' \in SUBSET Checks /\ checks' \in Nat
  BY <1>1, <1>2, SubsetsAreCounted
<1>4. Cardinality(counted) <= Cardinality(Window) + Cardinality(counted \ Window)
  <2> DEFINE D == counted \ Window
  <2>1. IsFiniteSet(counted) /\ IsFiniteSet(Window) /\ IsFiniteSet(D)
    BY <1>1, SubsetsAreCounted
  <2>2. Cardinality(Window \union D)
          = Cardinality(Window) + Cardinality(D) - Cardinality(Window \intersect D)
    BY <2>1, FS_Union
  <2>3. Window \intersect D = {} /\ counted \subseteq Window \union D
    OBVIOUS
  <2>4. Cardinality(Window \intersect D) = 0
    BY <2>3, FS_EmptySet
  <2>5. IsFiniteSet(Window \union D)
    BY <2>1, FS_Union
  <2>6. Cardinality(counted) <= Cardinality(Window \union D)
    BY <2>3, <2>5, FS_Subset
  <2>7. Cardinality(Window) \in Nat /\ Cardinality(D) \in Nat
    BY <2>1, FS_CardinalityType
  <2> QED  BY <2>2, <2>4, <2>6, <2>7
<1> QED  BY <1>2, <1>3, <1>4 DEF IInv, StatsTypeOK, Counted

LEMMA NextIInv == IInv /\ [StatsNext]_statsVars => IInv'
<1> SUFFICES ASSUME IInv, [StatsNext]_statsVars  PROVE IInv'  OBVIOUS
<1>1. ASSUME NEW c \in Checks, Save(c)  PROVE IInv'
  BY <1>1, StatsAssumption DEF Save, IInv, StatsTypeOK, Counted
<1>2. CASE Pass
  BY <1>2, StatsAssumption DEF Pass, IInv, StatsTypeOK, Counted
<1>3. CASE AskStats
  BY <1>3, StatsAssumption DEF AskStats, IInv, StatsTypeOK, Counted
<1>4. CASE CountFirst  BY <1>4, FirstStep
<1>5. CASE CountSecond  BY <1>5, SecondStep
<1>6. CASE AnswerStats
  BY <1>6 DEF AnswerStats, IInv, StatsTypeOK, Counted
<1>7. CASE UNCHANGED statsVars
  BY <1>7 DEF statsVars, IInv, StatsTypeOK, Counted
<1> QED  BY <1>1, <1>2, <1>3, <1>4, <1>5, <1>6, <1>7 DEF StatsNext

(* IInv holds in every reachable state. *)
LEMMA Inductive == StatsSpec => []IInv
<1> QED  BY InitIInv, NextIInv, PTL DEF StatsSpec

(* The table, the request and its counts stay in their types.              *)
THEOREM StatsTypeCorrect == StatsSpec => []StatsTypeOK
<1>1. IInv => StatsTypeOK  BY DEF IInv
<1> QED  BY <1>1, Inductive, PTL

(* Whatever is saved or runs out of the window meanwhile, the users of an  *)
(* answer are no more than its checks and those that ran out in between.   *)
THEOREM CountsFitTogether == StatsSpec => []UsersHaveChecks
<1>1. IInv => UsersHaveChecks
  <2> SUFFICES ASSUME IInv, stage = "done"
               PROVE  users <= checks + Cardinality(gone)
    BY DEF UsersHaveChecks
  <2>1. /\ users \in Nat /\ checks \in Nat
        /\ Cardinality(counted) \in Nat /\ Cardinality(gone) \in Nat
    BY SubsetsAreCounted DEF IInv, StatsTypeOK
  <2> QED  BY <2>1 DEF IInv, Counted
<1> QED  BY <1>1, Inductive, PTL
=============================================================================
