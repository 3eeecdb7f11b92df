-------------------------- MODULE RateLimiterProofs -------------------------
(***************************************************************************)
(* Proofs about RateLimiter, for any requests, addresses, rates, bursts    *)
(* and lifetimes that satisfy LimitAssumption.                             *)
(***************************************************************************)
EXTENDS RateLimiter, TLAPS

(* The tokens a limiter idle for i ticks gains before it may be deleted.   *)
Gains(i) == Rate * (TTL + 1 - i)

(* A request holds a limiter of its own address, and so does the map.      *)
Linked ==
  /\ \A r \in Reqs : pc[r] \in {"touch", "allow"} =>
       holds[r] \in Reqs /\ From[holds[r]] = From[r]
  /\ \A a \in Addrs : visitors[a] # None => From[visitors[a]] = a

Prompt == \A r \in Reqs : pc[r] = "allow" => idle[holds[r]] <= Stall

(* Every bucket is full by the time its limiter may be deleted. *)
FillsInTime == \A l \in Reqs : Burst <= tokens[l] + Gains(idle[l])

(* No bucket holds less than the ideal one. *)
Generous ==
  /\ \A a \in Addrs : ideal[a] <= Burst
  /\ \A l \in Reqs : ideal[From[l]] <= tokens[l]

Bucket(a) == IF visitors[a] = None THEN Burst ELSE tokens[visitors[a]]

(* The ideal bucket and what the races have given cover the one in use. *)
Covered == \A a \in Addrs : Bucket(a) <= ideal[a] + slack[a]

IInv == TypeOK /\ Linked /\ Prompt /\ FillsInTime /\ Generous /\ Covered

(* What is gained falls by Rate with every idle tick, to nothing.          *)
LEMMA GainsFacts ==
  /\ \A i \in 0..(TTL + 1) : Gains(i) \in Nat
  /\ \A i \in 0..TTL : Gains(i) = Gains(i + 1) + Rate
  /\ \A i \in 0..Stall : Burst <= Gains(i)
<1>1. ASSUME NEW i \in 0..(TTL + 1)  PROVE Gains(i) \in Nat
  <2>1. PICK n \in Nat : n = TTL + 1 - i  BY LimitAssumption
  <2>2. Rate * n \in Nat  BY <2>1, LimitAssumption
  <2> QED  BY <2>1, <2>2 DEF Gains
<1>2. ASSUME NEW i \in 0..TTL  PROVE Gains(i) = Gains(i + 1) + Rate
  <2>1. PICK n \in Nat : n = TTL - i  BY LimitAssumption
  <2>2. Rate * (n + 1) = Rate * n + Rate  BY LimitAssumption
  <2>3. TTL + 1 - i = n + 1 /\ TTL + 1 - (i + 1) = n  BY <2>1, LimitAssumption
  <2> QED  BY <2>2, <2>3 DEF Gains
<1>3. ASSUME NEW i \in 0..Stall  PROVE Burst <= Gains(i)
  <2>1. PICK n \in Nat : n = TTL + 1 - Stall  BY LimitAssumption
  <2>2. PICK k \in Nat : k = Stall - i  BY LimitAssumption
  <2>3. Rate * (n + k) = Rate * n + Rate * k /\ Rate * k \in Nat /\ Rate * n \in Nat
    BY LimitAssumption
  <2>4. Burst <= Rate * n  BY <2>1, LimitAssumption
  <2>5. TTL + 1 - i = n + k  BY <2>1, <2>2, LimitAssumption
  <2> QED  BY <2>3, <2>4, <2>5, LimitAssumption DEF Gains
<1> QED  BY <1>1, <1>2, <1>3

(* A refill never overfills, never takes away, and keeps the order of two  *)
(* buckets, also when one of them is in debt.                              *)
LEMMA RefillFacts ==
  /\ \A n \in 0..Burst : Refilled(n) \in 0..Burst
  /\ \A n \in Int : Refilled(n) \in Int /\ Refilled(n) <= Burst
  /\ \A m, n \in Int : m <= n => Refilled(m) <= Refilled(n)
  /\ \A m, n \in Int, s \in Nat : m <= n + s => Refilled(m) <= Refilled(n) + s
  /\ Refilled(Burst) = Burst
BY LimitAssumption DEF Refilled, UpTo

LEMMA InitIInv == Init => IInv
<1> SUFFICES ASSUME Init  PROVE IInv  OBVIOUS
<1>1. TypeOK  BY LimitAssumption DEF Init, TypeOK
<1>2. Linked /\ Prompt  BY DEF Init, Linked, Prompt
<1>3. FillsInTime
  <2>1. Gains(TTL + 1) \in Nat  BY GainsFacts, LimitAssumption
  <2> QED  BY <2>1, LimitAssumption DEF Init, FillsInTime
<1>4. Generous /\ Covered
  BY LimitAssumption DEF Init, Generous, Covered, Bucket
<1> QED  BY <1>1, <1>2, <1>3, <1>4 DEF IInv

LEMMA LookupStep == ASSUME IInv, NEW r \in Reqs, Lookup(r)  PROVE IInv'
<1>1. TypeOK'  BY LimitAssumption DEF IInv, TypeOK, Lookup, GoTo, Key
<1>2. Linked'
  <2>1. From[r] \in Addrs  BY LimitAssumption
  <2> QED  BY <2>1, LimitAssumption DEF IInv, TypeOK, Linked, Lookup, GoTo, Key
<1>3. Prompt'  BY DEF IInv, TypeOK, Prompt, Lookup, GoTo
<1>4. FillsInTime' /\ Generous' /\ Covered'
  BY DEF IInv, FillsInTime, Generous, Covered, Bucket, Lookup
<1> QED  BY <1>1, <1>2, <1>3, <1>4 DEF IInv

(* A limiter stored over another's costs at most the burst the slack gains. *)
LEMMA StoreStep == ASSUME IInv, NEW r \in Reqs, StoreVisitor(r)  PROVE IInv'
<1> DEFINE a == From[r]
<1>0. a \in Addrs /\ r # None /\ Burst \in Nat  BY LimitAssumption
<1>1. TypeOK'
  <2>1. tokens' \in [Reqs -> 0..Burst] /\ idle' \in [Reqs -> 0..(TTL + 1)]
    BY LimitAssumption DEF IInv, TypeOK, StoreVisitor
  <2>2. slack' \in [Addrs -> Nat]
    BY <1>0 DEF IInv, TypeOK, StoreVisitor, Key
  <2> QED  BY <2>1, <2>2 DEF IInv, TypeOK, StoreVisitor, GoTo, Key
<1>2. Linked'  BY <1>0 DEF IInv, TypeOK, Linked, StoreVisitor, GoTo, Key
<1>3. Prompt'
  BY <1>0, LimitAssumption DEF IInv, TypeOK, Linked, Prompt, StoreVisitor, GoTo
<1>4. FillsInTime'
  <2>1. Gains(0) \in Nat  BY GainsFacts, LimitAssumption
  <2> QED  BY <1>0, <2>1 DEF IInv, TypeOK, FillsInTime, StoreVisitor, Gains
<1>5. Generous'  BY <1>0 DEF IInv, TypeOK, Generous, StoreVisitor
<1>6. Covered'
  <2> SUFFICES ASSUME NEW b \in Addrs  PROVE Bucket(b)' <= ideal'[b] + slack'[b]
    BY DEF Covered
  <2>1. CASE b = a /\ visitors[a] = None
    BY <1>0, <2>1 DEF IInv, TypeOK, Covered, Bucket, StoreVisitor, Key
  <2>2. CASE b = a /\ visitors[a] # None
    <3>1. Bucket(a)' = Burst /\ ideal' = ideal /\ slack'[a] = slack[a] + Burst
      BY <1>0, <2>2 DEF IInv, TypeOK, Bucket, StoreVisitor, Key
    <3>2. 0 <= ideal[a] + slack[a]
      BY <1>0, <2>2 DEF IInv, TypeOK, Covered, Bucket
    <3> QED  BY <1>0, <2>2, <3>1, <3>2 DEF IInv, TypeOK
  <2>3. CASE b # a
    <3>1. visitors'[b] = visitors[b] /\ slack'[b] = slack[b] /\ ideal' = ideal
      BY <1>0, <2>3 DEF IInv, TypeOK, StoreVisitor, Key
    <3>2. visitors[b] # None => visitors[b] # r
      BY <2>3 DEF IInv, Linked
    <3>3. Bucket(b)' = Bucket(b)
      BY <1>0, <3>1, <3>2 DEF IInv, TypeOK, Bucket, StoreVisitor
    <3> QED  BY <3>1, <3>3 DEF IInv, Covered
  <2> QED  BY <2>1, <2>2, <2>3
<1> QED  BY <1>1, <1>2, <1>3, <1>4, <1>5, <1>6 DEF IInv

LEMMA TouchStep == ASSUME IInv, NEW r \in Reqs, Touch(r)  PROVE IInv'
<1>0. holds[r] \in Reqs  BY DEF IInv, Linked, Touch
<1>1. TypeOK'  BY <1>0, LimitAssumption DEF IInv, TypeOK, Touch, GoTo
<1>2. Linked'  BY DEF IInv, TypeOK, Linked, Touch, GoTo
<1>3. Prompt'
  BY <1>0, LimitAssumption DEF IInv, TypeOK, Linked, Prompt, Touch, GoTo
<1>4. FillsInTime'
  <2>1. Burst <= Gains(0) /\ Gains(0) \in Nat  BY GainsFacts, LimitAssumption
  <2>2. \A l \in Reqs : tokens'[l] \in 0..Burst  BY <1>1 DEF TypeOK
  <2> QED  BY <1>0, <2>1, <2>2, LimitAssumption
           DEF IInv, TypeOK, FillsInTime, Touch, Gains
<1>5. Generous' /\ Covered'  BY DEF IInv, Generous, Covered, Bucket, Touch
<1> QED  BY <1>1, <1>2, <1>3, <1>4, <1>5 DEF IInv

(* A token taken from the limiter in the map is taken from the ideal bucket *)
(* too; one taken from another limiter is covered by the slack.            *)
LEMMA AdmitStep == ASSUME IInv, NEW r \in Reqs, Admit(r)  PROVE IInv'
<1> DEFINE a == From[r]  l == holds[r]
<1>0. /\ a \in Addrs /\ l \in Reqs /\ From[l] = a /\ l # None
      /\ tokens[l] > 0 /\ idle[l] \in 0..Stall /\ Burst \in Nat
  <2>1. pc[r] = "allow" /\ tokens[l] > 0  BY DEF Admit
  <2>2. l \in Reqs /\ From[l] = a /\ a \in Addrs
    BY <2>1, LimitAssumption DEF IInv, Linked
  <2>3. idle[l] \in 0..Stall
    BY <2>1, <2>2, LimitAssumption DEF IInv, TypeOK, Prompt
  <2> QED  BY <2>1, <2>2, <2>3, LimitAssumption
<1>1. TypeOK'
  <2>1. tokens' \in [Reqs -> 0..Burst]  BY <1>0 DEF IInv, TypeOK, Admit
  <2>2. ideal' \in [Addrs -> Int] /\ slack' \in [Addrs -> Nat]
    BY <1>0 DEF IInv, TypeOK, Admit, Key
  <2> QED  BY <2>1, <2>2 DEF IInv, TypeOK, Admit, Leave, GoTo
<1>2. Linked'  BY DEF IInv, TypeOK, Linked, Admit, Leave, GoTo
<1>3. Prompt'  BY DEF IInv, TypeOK, Prompt, Admit, Leave, GoTo
<1>4. FillsInTime'
  <2> SUFFICES ASSUME NEW k \in Reqs  PROVE Burst <= tokens'[k] + Gains(idle[k])
    BY DEF FillsInTime, Admit, Gains
  <2>1. CASE k = l
    <3>1. Burst <= Gains(idle[l]) /\ Gains(idle[l]) \in Nat
      BY <1>0, GainsFacts, LimitAssumption
    <3>2. tokens'[l] \in Nat  BY <1>0, <1>1 DEF TypeOK
    <3> QED  BY <1>0, <2>1, <3>1, <3>2
  <2>2. CASE k # l
    BY <2>2 DEF IInv, TypeOK, FillsInTime, Admit
  <2> QED  BY <2>1, <2>2
<1>5. Generous'
  <2>1. \A b \in Addrs : ideal'[b] \in Int /\ ideal[b] \in Int /\ ideal'[b] <= ideal[b]
    BY <1>0 DEF IInv, TypeOK, Admit, Key
  <2>2. ideal'[a] = ideal[a] - 1 /\ tokens'[l] = tokens[l] - 1
    BY <1>0 DEF IInv, TypeOK, Admit, Key
  <2>3. \A k \in Reqs \ {l} : tokens'[k] = tokens[k]
    BY DEF IInv, TypeOK, Admit
  <2>4. \A k \in Reqs : From[k] \in Addrs /\ tokens[k] \in Int
    BY LimitAssumption DEF IInv, TypeOK
  <2>5. \A b \in Addrs : ideal'[b] <= Burst
    BY <1>0, <2>1 DEF IInv, Generous
  <2>6. \A k \in Reqs \ {l} : ideal'[From[k]] <= tokens'[k]
    BY <2>1, <2>3, <2>4 DEF IInv, Generous
  <2>7. ideal'[From[l]] <= tokens'[l]
    BY <1>0, <2>1, <2>2, <2>4 DEF IInv, Generous
  <2> QED  BY <2>5, <2>6, <2>7 DEF Generous
<1>6. Covered'
  <2> SUFFICES ASSUME NEW b \in Addrs  PROVE Bucket(b)' <= ideal'[b] + slack'[b]
    BY DEF Covered
  <2>0. Bucket(b) <= ideal[b] + slack[b] /\ Bucket(b) \in Int
    BY <1>0 DEF IInv, TypeOK, Covered, Bucket
  <2>1. CASE b = a /\ visitors[a] = l
    <3>1. Bucket(a) = tokens[l] /\ Bucket(a)' = tokens[l] - 1
      BY <1>0, <2>1 DEF IInv, TypeOK, Bucket, Admit
    <3>2. ideal'[a] = ideal[a] - 1 /\ slack' = slack
      BY <1>0, <2>1 DEF IInv, TypeOK, Admit, Key
    <3> QED  BY <2>0, <2>1, <3>1, <3>2, <1>0 DEF IInv, TypeOK
  <2>2. CASE b = a /\ visitors[a] # l
    <3>1. Bucket(a)' = Bucket(a)
      BY <1>0, <2>2 DEF IInv, TypeOK, Bucket, Admit
    <3>2. ideal'[a] = ideal[a] - 1 /\ slack'[a] = slack[a] + 1
      BY <1>0, <2>2 DEF IInv, TypeOK, Admit, Key
    <3> QED  BY <2>0, <2>2, <3>1, <3>2, <1>0 DEF IInv, TypeOK
  <2>3. CASE b # a
    <3>1. visitors[b] # None => visitors[b] # l
      BY <1>0, <2>3 DEF IInv, Linked
    <3>2. Bucket(b)' = Bucket(b)
      BY <1>0, <3>1 DEF IInv, TypeOK, Bucket, Admit
    <3>3. ideal'[b] = ideal[b] /\ slack'[b] = slack[b]
      BY <1>0, <2>3 DEF IInv, TypeOK, Admit, Key
    <3> QED  BY <2>0, <3>2, <3>3
  <2> QED  BY <2>1, <2>2, <2>3
<1> QED  BY <1>1, <1>2, <1>3, <1>4, <1>5, <1>6 DEF IInv

LEMMA LimitedStep == ASSUME IInv, NEW r \in Reqs, Limited(r)  PROVE IInv'
<1>1. TypeOK' /\ Linked' /\ Prompt'
  BY DEF IInv, TypeOK, Linked, Prompt, Limited, Leave, GoTo
<1>2. FillsInTime' /\ Generous' /\ Covered'
  BY DEF IInv, FillsInTime, Generous, Covered, Bucket, Limited
<1> QED  BY <1>1, <1>2 DEF IInv

LEMMA DenyStep == ASSUME IInv, NEW r \in Reqs, Deny(r)  PROVE IInv'
<1>1. TypeOK' /\ Linked' /\ Prompt'
  BY DEF IInv, TypeOK, Linked, Prompt, Deny, GoTo
<1>2. FillsInTime' /\ Generous' /\ Covered'
  BY DEF IInv, FillsInTime, Generous, Covered, Bucket, Deny
<1> QED  BY <1>1, <1>2 DEF IInv

(* A visitor that may be deleted has a full bucket: its address loses      *)
(* nothing, and gains nothing, when it gets a new one.                     *)
LEMMA CleanupStep == IInv /\ Cleanup => IInv'
<1> SUFFICES ASSUME IInv, Cleanup  PROVE IInv'  OBVIOUS
<1>1. TypeOK' /\ Prompt'  BY DEF IInv, TypeOK, Prompt, Cleanup
<1>2. Linked'  BY DEF IInv, TypeOK, Linked, Cleanup
<1>3. FillsInTime' /\ Generous'  BY DEF IInv, FillsInTime, Generous, Cleanup
<1>4. Covered'
  <2> SUFFICES ASSUME NEW a \in Addrs  PROVE Bucket(a)' <= ideal[a] + slack[a]
    BY DEF Covered, Cleanup
  <2>1. CASE Expired(a)
    <3> DEFINE l == visitors[a]
    <3>1. l \in Reqs /\ idle[l] = TTL + 1
      BY <2>1, LimitAssumption DEF IInv, TypeOK, Expired
    <3>2. Gains(TTL + 1) = 0  BY LimitAssumption DEF Gains
    <3>3. Burst <= tokens[l]
      BY <3>1, <3>2, LimitAssumption DEF IInv, TypeOK, FillsInTime
    <3>4. Bucket(a)' = Burst /\ Bucket(a) = tokens[l]
      BY <2>1 DEF IInv, TypeOK, Bucket, Cleanup, Expired
    <3> QED  BY <3>1, <3>3, <3>4, LimitAssumption DEF IInv, TypeOK, Covered
  <2>2. CASE ~Expired(a)
    BY <2>2 DEF IInv, TypeOK, Covered, Bucket, Cleanup
  <2> QED  BY <2>1, <2>2
<1> QED  BY <1>1, <1>2, <1>3, <1>4 DEF IInv

LEMMA TickStep == IInv /\ Tick => IInv'
<1> SUFFICES ASSUME IInv, Tick  PROVE IInv'  OBVIOUS
<1>0. /\ \A l \in Reqs : tokens[l] \in 0..Burst /\ idle[l] \in 0..(TTL + 1)
      /\ \A a \in Addrs : ideal[a] \in Int /\ slack[a] \in Nat
      /\ \A l \in Reqs : From[l] \in Addrs
      /\ Burst \in Nat /\ Rate \in Nat /\ TTL \in Nat
  BY LimitAssumption DEF IInv, TypeOK
<1>00. /\ \A l \in Reqs : tokens'[l] = Refilled(tokens[l])
       /\ \A l \in Reqs : idle'[l] = UpTo(TTL + 1, idle[l] + 1)
       /\ \A a \in Addrs : ideal'[a] = Refilled(ideal[a])
  BY DEF Tick
<1>1. TypeOK'
  <2>1. tokens' \in [Reqs -> 0..Burst]  BY <1>0, RefillFacts DEF Tick
  <2>2. idle' \in [Reqs -> 0..(TTL + 1)]  BY <1>0 DEF Tick, UpTo
  <2>3. ideal' \in [Addrs -> Int]  BY <1>0, RefillFacts DEF Tick
  <2> QED  BY <2>1, <2>2, <2>3 DEF IInv, TypeOK, Tick
<1>2. Linked'  BY DEF IInv, Linked, Tick
<1>3. Prompt'
  BY <1>0, <1>00, LimitAssumption DEF IInv, Linked, Prompt, Tick, UpTo
<1>4. FillsInTime'
  <2> SUFFICES ASSUME NEW l \in Reqs
               PROVE  Burst <= Refilled(tokens[l]) + Gains(UpTo(TTL + 1, idle[l] + 1))
    BY <1>00 DEF FillsInTime, Gains
  <2> DEFINE i == idle[l]  j == UpTo(TTL + 1, i + 1)
  <2>1. Burst <= tokens[l] + Gains(i)  BY DEF IInv, FillsInTime
  <2>2. i \in 0..(TTL + 1) /\ j \in 0..(TTL + 1)  BY <1>0 DEF UpTo
  <2>3. Gains(i) \in Nat /\ Gains(j) \in Nat  BY <2>2, GainsFacts
  <2>4. Gains(i) <= Gains(j) + Rate
    <3>1. CASE i = TTL + 1
      BY <1>0, <2>3, <3>1 DEF UpTo
    <3>2. CASE i \in 0..TTL
      <4>1. j = i + 1  BY <1>0, <3>2 DEF UpTo
      <4>2. Gains(i) = Gains(i + 1) + Rate  BY <3>2, GainsFacts
      <4> QED  BY <1>0, <2>3, <4>1, <4>2
    <3> QED  BY <1>0, <2>2, <3>1, <3>2
  <2> DEFINE n == Refilled(tokens[l])  g == Gains(i)  h == Gains(j)
  <2>5. n \in {Burst, tokens[l] + Rate}
    BY DEF Refilled, UpTo
  <2>6. Burst <= n + h
    <3>1. Burst <= tokens[l] + g /\ g \in Nat /\ h \in Nat /\ g <= h + Rate
      BY <2>1, <2>3, <2>4
    <3> HIDE DEF n, g, h
    <3> QED  BY <1>0, <2>5, <3>1
  <2> QED  BY <2>6
<1>5. Generous'
  <2>1. \A a \in Addrs : ideal'[a] <= Burst  BY <1>0, <1>00, RefillFacts
  <2>2. ASSUME NEW l \in Reqs  PROVE ideal'[From[l]] <= tokens'[l]
    <3>1. ideal[From[l]] \in Int /\ tokens[l] \in Int /\ ideal[From[l]] <= tokens[l]
      BY <1>0 DEF IInv, Generous
    <3>2. Refilled(ideal[From[l]]) <= Refilled(tokens[l])
      BY <3>1, RefillFacts
    <3> QED  BY <1>0, <1>00, <3>2
  <2> QED  BY <2>1, <2>2 DEF Generous
<1>6. Covered'
  <2> SUFFICES ASSUME NEW a \in Addrs
               PROVE  Bucket(a)' <= Refilled(ideal[a]) + slack[a]
    BY <1>00 DEF Covered, Tick
  <2>1. Bucket(a) \in 0..Burst /\ Bucket(a) <= ideal[a] + slack[a]
    BY <1>0 DEF IInv, TypeOK, Covered, Bucket
  <2>2. Bucket(a)' = Refilled(Bucket(a))
    BY <1>00, RefillFacts DEF IInv, TypeOK, Bucket, Tick
  <2>3. Bucket(a) \in Int /\ ideal[a] \in Int /\ slack[a] \in Nat
    BY <1>0, <2>1
  <2>4. Refilled(Bucket(a)) <= Refilled(ideal[a]) + slack[a]
    BY <2>1, <2>3, RefillFacts
  <2> QED  BY <2>2, <2>4
<1> QED  BY <1>1, <1>2, <1>3, <1>4, <1>5, <1>6 DEF IInv

LEMMA NextIInv == IInv /\ [Next]_vars => IInv'
<1> SUFFICES ASSUME IInv, [Next]_vars  PROVE IInv'  OBVIOUS
<1>1. CASE \E r \in Reqs : Deny(r) \/ Step(r)
  BY <1>1, DenyStep, LookupStep, StoreStep, TouchStep, AdmitStep, LimitedStep DEF Step
<1>2. CASE Cleanup  BY <1>2, CleanupStep
<1>3. CASE Tick  BY <1>3, TickStep
<1>4. CASE UNCHANGED vars
  BY <1>4 DEF vars, IInv, TypeOK, Linked, Prompt, FillsInTime, Generous, Covered, Bucket
<1> QED  BY <1>1, <1>2, <1>3, <1>4 DEF Next

(* IInv holds in every reachable state. *)
LEMMA Inductive == Spec => []IInv
<1> QED  BY InitIInv, NextIInv, PTL DEF Spec

(* The map, the buckets and the ghosts stay in their types.                *)
THEOREM TypeCorrect == Spec => []TypeOK
<1>1. IInv => TypeOK  BY DEF IInv
<1> QED  BY <1>1, Inductive, PTL

(* However many requests race with each other and with cleanup, an address *)
(* gets no more than one bucket of its own would give it, and the slack.   *)
THEOREM NobodyGetsFreeTokens == Spec => []NoFreeTokens
<1>1. IInv => NoFreeTokens
  BY LimitAssumption DEF IInv, TypeOK, Covered, Bucket, NoFreeTokens
<1> QED  BY <1>1, Inductive, PTL

(* No request is refused that one bucket of its own would have admitted.   *)
THEOREM OnlyTheSpentAreRefused == Spec => RefusesOnlyTheSpent
<1> DEFINE Fair == \A r \in Reqs :
      pc[r] = "allow" /\ pc'[r] = "limited" => ideal[From[r]] <= 0
<1>1. IInv /\ [Next]_vars => [Fair]_vars
  <2> SUFFICES ASSUME IInv, Next, NEW r \in Reqs, pc[r] = "allow", pc'[r] = "limited"
               PROVE  ideal[From[r]] <= 0
    OBVIOUS
  <2>1. Limited(r)
    <3>1. ASSUME NEW q \in Reqs, Deny(q) \/ Lookup(q) \/ StoreVisitor(q) \/ Touch(q) \/ Admit(q)
          PROVE  FALSE
      BY <3>1 DEF IInv, TypeOK, Deny, Lookup, StoreVisitor, Touch, Admit, GoTo, Leave
    <3>2. ASSUME NEW q \in Reqs, Limited(q)  PROVE q = r
      BY <3>2 DEF IInv, TypeOK, Limited, GoTo, Leave
    <3>3. ~Cleanup /\ ~Tick  BY DEF Cleanup, Tick
    <3> QED  BY <3>1, <3>2, <3>3 DEF Next, Step
  <2> QED  BY <2>1 DEF IInv, Linked, Generous, Limited
<1>2. QED  BY <1>1, Inductive, PTL DEF Spec, RefusesOnlyTheSpent
=============================================================================
