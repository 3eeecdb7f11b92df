----------------------------- MODULE RateLimiter ----------------------------
(***************************************************************************)
(* middleware.Limit: one token bucket per client address, kept in a map    *)
(* that a cleanup goroutine empties of the idle ones. The routes           *)
(* /api/v1/admin and /location/check have a limiter each.                  *)
(*                                                                         *)
(*   new --Lookup--> store --StoreVisitor--> allow --Allow--> served       *)
(*    |     |------> touch --Touch---------->  |------------> limited      *)
(*    |--> denied                                                          *)
(*                                                                         *)
(* A visitor and its limiter are named after the request that made them.   *)
(* Time passes in ticks: a bucket gains Rate tokens per tick.              *)
(***************************************************************************)
EXTENDS Integers

CONSTANTS
  Reqs,    \* the requests of a behaviour
  Addrs,   \* client addresses
  From,    \* the address each request comes from, as net/http reports it
  Keyed,   \* the requests with the API key, or to a route that asks for none
  None,    \* no request
  Rate,    \* rps: tokens gained per tick
  Burst,   \* burst: tokens of a full bucket
  TTL,     \* ttl: ticks after which an idle visitor may be deleted
  Stall    \* longest time from a request's lastSeen to its Allow, in ticks

(* router.go: 2 rps, burst 5, 10 minutes; 10 rps, burst 20, 5 minutes. The *)
(* last conjunct says that a bucket fills up while its visitor expires,    *)
(* even when the last request dawdled.                                     *)
ASSUME LimitAssumption ==
  /\ None \notin Reqs /\ Keyed \subseteq Reqs
  /\ From \in [Reqs -> Addrs]
  /\ Rate \in Nat /\ Burst \in Nat /\ TTL \in Nat /\ Stall \in Nat
  /\ Stall <= TTL
  /\ Burst <= Rate * (TTL + 1 - Stall)

VARIABLES
  pc,        \* where each request is
  visitors,  \* the map: address -> maker of its visitor, or None
  holds,     \* the visitor a request in progress has looked up or made
  tokens,    \* the bucket of each limiter (golang.org/x/time/rate)
  idle,      \* ticks since lastSeen, up to TTL + 1
  ideal,     \* ghost: a bucket per address that is never deleted; may be in debt
  slack      \* ghost: tokens the races have given each address beyond it

vars == <<pc, visitors, holds, tokens, idle, ideal, slack>>

Init ==
  /\ pc = [r \in Reqs |-> "new"]
  /\ visitors = [a \in Addrs |-> None]
  /\ holds = [r \in Reqs |-> None]
  /\ tokens = [r \in Reqs |-> Burst]
  /\ idle = [r \in Reqs |-> TTL + 1]
  /\ ideal = [a \in Addrs |-> Burst]
  /\ slack = [a \in Addrs |-> 0]

(* Mutant of Key: behind a proxy every request comes from one address.     *)
KeyOfProxy(r) == CHOOSE a \in Addrs : TRUE

(* The key of the map: the host part of RemoteAddr, not its port. *)
Key(r) == From[r]

GoTo(r, place) == pc' = [pc EXCEPT ![r] = place]

Leave(r, place) == GoTo(r, place) /\ holds' = [holds EXCEPT ![r] = None]

(* APIKeyMiddleware comes first: no token is spent on a wrong key. *)
Deny(r) ==
  /\ pc[r] = "new" /\ r \notin Keyed
  /\ GoTo(r, "denied")
  /\ UNCHANGED <<visitors, holds, tokens, idle, ideal, slack>>

(* The map is read under the read lock. *)
Lookup(r) ==
  /\ pc[r] = "new" /\ r \in Keyed
  /\ holds' = [holds EXCEPT ![r] = visitors[Key(r)]]
  /\ GoTo(r, IF visitors[Key(r)] = None THEN "store" ELSE "touch")
  /\ UNCHANGED <<visitors, tokens, idle, ideal, slack>>

(* A new limiter, put into the map under the lock, over one that another   *)
(* request may have put there since Lookup.                                *)
StoreVisitor(r) ==
  LET a == Key(r)
  IN /\ pc[r] = "store"
     /\ visitors' = [visitors EXCEPT ![a] = r]
     /\ holds' = [holds EXCEPT ![r] = r]
     /\ tokens' = [tokens EXCEPT ![r] = Burst]
     /\ idle' = [idle EXCEPT ![r] = 0]
     /\ slack' = IF visitors[a] = None THEN slack ELSE [slack EXCEPT ![a] = @ + Burst]
     /\ GoTo(r, "allow")
     /\ UNCHANGED ideal

(* Mutant of Touch: lastSeen keeps the time of the first request. *)
TouchNothing(r) ==
  /\ pc[r] = "touch"
  /\ GoTo(r, "allow")
  /\ UNCHANGED <<visitors, holds, tokens, idle, ideal, slack>>

(* lastSeen is written without the lock, perhaps after cleanup has deleted *)
(* the visitor. Cleanup reads the word that time.Since needs whole, old or *)
(* new: a read that races is a read before or after.                       *)
Touch(r) ==
  /\ pc[r] = "touch"
  /\ idle' = [idle EXCEPT ![holds[r]] = 0]
  /\ GoTo(r, "allow")
  /\ UNCHANGED <<visitors, holds, tokens, ideal, slack>>

(* Limiter.Allow, which has a lock of its own. *)
Admit(r) ==
  LET l == holds[r]  a == Key(r)
  IN /\ pc[r] = "allow" /\ tokens[l] > 0
     /\ tokens' = [tokens EXCEPT ![l] = @ - 1]
     /\ ideal' = [ideal EXCEPT ![a] = @ - 1]
     /\ slack' = IF visitors[a] = l THEN slack ELSE [slack EXCEPT ![a] = @ + 1]
     /\ Leave(r, "served")
     /\ UNCHANGED <<visitors, idle>>

Limited(r) ==
  /\ pc[r] = "allow" /\ tokens[holds[r]] = 0
  /\ Leave(r, "limited")
  /\ UNCHANGED <<visitors, tokens, idle, ideal, slack>>

Expired(a) == visitors[a] # None /\ idle[visitors[a]] > TTL

(* Mutant of Cleanup: the comparison the other way round. *)
CleanupBusy ==
  /\ \E a \in Addrs : visitors[a] # None /\ idle[visitors[a]] < TTL
  /\ visitors' = [a \in Addrs |->
       IF visitors[a] # None /\ idle[visitors[a]] < TTL THEN None ELSE visitors[a]]
  /\ UNCHANGED <<pc, holds, tokens, idle, ideal, slack>>

(* cleanupVisitors, once a minute, under the lock. *)
Cleanup ==
  /\ \E a \in Addrs : Expired(a)
  /\ visitors' = [a \in Addrs |-> IF Expired(a) THEN None ELSE visitors[a]]
  /\ UNCHANGED <<pc, holds, tokens, idle, ideal, slack>>

UpTo(bound, n) == IF n < bound THEN n ELSE bound

(* Mutant of Refilled: tokens are saved up beyond the burst.               *)
RefilledWithoutEnd(n) == n + Rate

Refilled(n) == UpTo(Burst, n + Rate)

(* Time passes, also for limiters not made yet or no longer in use. *)
Tick ==
  /\ \A r \in Reqs : pc[r] = "allow" => idle[holds[r]] < Stall
  /\ tokens' = [l \in Reqs |-> Refilled(tokens[l])]
  /\ idle' = [l \in Reqs |-> UpTo(TTL + 1, idle[l] + 1)]
  /\ ideal' = [a \in Addrs |-> Refilled(ideal[a])]
  /\ UNCHANGED <<pc, visitors, holds, slack>>

Step(r) == Lookup(r) \/ StoreVisitor(r) \/ Touch(r) \/ Admit(r) \/ Limited(r)

Next == (\E r \in Reqs : Deny(r) \/ Step(r)) \/ Cleanup \/ Tick

Spec == Init /\ [][Next]_vars

(* A request inside the middleware gets on, the cleanup loop never ends,   *)
(* and time passes.                                                        *)
Fairness ==
  /\ \A r \in Reqs : WF_vars(pc[r] # "new" /\ Step(r))
  /\ WF_vars(Cleanup)
  /\ WF_vars(Tick)

FairSpec == Spec /\ Fairness

(***************************************************************************)
(* Properties.                                                             *)
(***************************************************************************)

TypeOK ==
  /\ pc \in [Reqs -> {"new", "store", "touch", "allow", "served", "limited", "denied"}]
  /\ visitors \in [Addrs -> Reqs \union {None}]
  /\ holds \in [Reqs -> Reqs \union {None}]
  /\ tokens \in [Reqs -> 0..Burst]
  /\ idle \in [Reqs -> 0..(TTL + 1)]
  /\ ideal \in [Addrs -> Int]
  /\ slack \in [Addrs -> Nat]

(* Deleting idle visitors gives nobody free tokens: an address is admitted *)
(* no more often than one bucket of its own for ever would admit it, but   *)
(* for a burst each time a first request stores its limiter over another's *)
(* and one token for each request admitted by a limiter that is no longer  *)
(* in the map (rate_limit.go:40-53, 60-63).                                *)
NoFreeTokens == \A a \in Addrs : ideal[a] + slack[a] >= 0

(* The limiter is never stricter than that bucket either: whatever races,  *)
(* a request is answered 429 only when its own address has nothing left    *)
(* (rate_limit.go:79).                                                     *)
RefusesOnlyTheSpent ==
  [][ \A r \in Reqs : pc[r] = "allow" /\ pc'[r] = "limited" => ideal[From[r]] <= 0 ]_vars

(* The map does not grow with every address ever seen: once an address has *)
(* stopped making requests, its visitor is gone for good at some time, also *)
(* one that a request in progress has stored over another                  *)
(* (rate_limit.go:44-67).                                                  *)
IdleVisitorsAreDeleted ==
  \A a \in Addrs :
    <>[](\A r \in Reqs : From[r] = a => pc[r] # "new") => <>[](visitors[a] = None)
=============================================================================
