--------------------------- MODULE LifecycleProofs --------------------------
(***************************************************************************)
(* Proofs about Lifecycle, for any number of connections and workers.      *)
(***************************************************************************)
EXTENDS Lifecycle, TLAPS

Closing == main \in {"closing", "closed", "exited"}

NeverStarted ==
  /\ run = "off" /\ listener = "off"
  /\ \A c \in Conns : conn[c] = "none"
  /\ \A g \in Background : bg[g] = "off"

(* Clients are closed by nobody but main, and only after it has joined the *)
(* goroutines.                                                             *)
ClosesLast ==
  /\ pool # "open" => Closing
  /\ redis # "open" => main = "exited"
  /\ main = "boot" => NeverStarted
  /\ Closing => NeverStarted \/ Joined

(* What a clean Shutdown leaves behind: no connection, and no listener to  *)
(* accept one.                                                             *)
ShutdownIsClean ==
  /\ run = "off" => listener = "off" /\ \A c \in Conns : conn[c] = "none"
  /\ run = "draining" => listener \in {"closed", "failed"}
  /\ run = "done" => listener \in {"closed", "failed"}
  /\ run = "done" /\ ~gaveUp /\ listener # "failed" =>
       \A c \in Conns : conn[c] \in {"none", "over"}

IInv == TypeOK /\ ClosesLast /\ ShutdownIsClean /\ RequestsAreServed /\ BackgroundEndsFirst

LEMMA InitIInv == Init => IInv
<1> SUFFICES ASSUME Init  PROVE IInv  OBVIOUS
<1>1. TypeOK  BY DEF Init, TypeOK
<1>2. ClosesLast  BY DEF Init, ClosesLast, Closing, NeverStarted
<1>3. ShutdownIsClean  BY DEF Init, ShutdownIsClean
<1>4. RequestsAreServed /\ BackgroundEndsFirst
  BY DEF Init, RequestsAreServed, BackgroundEndsFirst, InHandler, Alive
<1> QED  BY <1>1, <1>2, <1>3, <1>4 DEF IInv

(***************************************************************************)
(* Steps of main.                                                          *)
(***************************************************************************)
LEMMA BootStep == IInv /\ (BootFails \/ Launch \/ Notify \/ Signal \/ Stop) => IInv'
<1> SUFFICES ASSUME IInv, BootFails \/ Launch \/ Notify \/ Signal \/ Stop
             PROVE  IInv'
  OBVIOUS
<1>0. UNCHANGED <<listener, gaveUp, conn, pool, redis, refused>>
  BY DEF BootFails, Launch, Notify, Signal, Stop
<1>1. TypeOK'
  BY GoroutineAssumption DEF IInv, TypeOK, BootFails, Launch, Notify, Signal, Stop
<1>2. ClosesLast'
  BY DEF IInv, TypeOK, ClosesLast, Closing, NeverStarted, Joined,
         BootFails, Launch, Notify, Signal, Stop
<1>3. ShutdownIsClean'
  BY DEF IInv, ClosesLast, NeverStarted, ShutdownIsClean,
         BootFails, Launch, Notify, Signal, Stop
<1>4. RequestsAreServed'
  BY <1>0 DEF IInv, ClosesLast, NeverStarted, RequestsAreServed, InHandler, Alive,
         BootFails, Launch, Notify, Signal, Stop
<1>5. BackgroundEndsFirst'
  BY <1>0 DEF IInv, ClosesLast, Closing, NeverStarted, BackgroundEndsFirst,
         BootFails, Launch, Notify, Signal, Stop
<1> QED  BY <1>1, <1>2, <1>3, <1>4, <1>5 DEF IInv

LEMMA JoinStep == IInv /\ (Join \/ PoolClosed) => IInv'
<1> SUFFICES ASSUME IInv, Join \/ PoolClosed  PROVE IInv'  OBVIOUS
<1>1. TypeOK'  BY DEF IInv, TypeOK, Join, PoolClosed
<1>2. ClosesLast'
  BY DEF IInv, ClosesLast, Closing, NeverStarted, Joined, Join, PoolClosed
<1>3. ShutdownIsClean'  BY DEF IInv, ShutdownIsClean, Join, PoolClosed
<1>4. RequestsAreServed'
  BY DEF IInv, RequestsAreServed, InHandler, Alive, Join, PoolClosed
<1>5. BackgroundEndsFirst'
  BY DEF IInv, ClosesLast, Closing, Joined, NeverStarted, BackgroundEndsFirst, Join, PoolClosed
<1> QED  BY <1>1, <1>2, <1>3, <1>4, <1>5 DEF IInv

(* A handler that is cut by Client.Close is one that Shutdown did not wait *)
(* for.                                                                    *)
LEMMA RedisClosedStep == IInv /\ RedisClosed => IInv'
<1> SUFFICES ASSUME IInv, RedisClosed  PROVE IInv'  OBVIOUS
<1>0. main = "closed" /\ (NeverStarted \/ Joined)
  BY DEF IInv, ClosesLast, Closing, RedisClosed
<1>1. \A g \in Background : bg[g] # "redis"
  BY <1>0 DEF NeverStarted, Joined
<1>2. \A c \in Conns :
        InHandler(c) => gaveUp \/ listener = "failed"
  BY <1>0 DEF IInv, ShutdownIsClean, NeverStarted, Joined, InHandler
<1>3. /\ main' = "exited" /\ redis' = "closed"
      /\ UNCHANGED <<signalled, ctx, listener, run, gaveUp, bg, pool>>
      /\ refused' = refused \union {c \in Conns : conn[c] = "redis"}
      /\ conn' = [c \in Conns |-> IF conn[c] = "redis" THEN "handler" ELSE conn[c]]
  BY <1>1 DEF RedisClosed
<1>4. TypeOK'  BY <1>3 DEF IInv, TypeOK
<1>5. ClosesLast'
  BY <1>0, <1>3 DEF IInv, ClosesLast, Closing, NeverStarted, Joined
<1>6. ShutdownIsClean'  BY <1>3 DEF IInv, ShutdownIsClean
<1>7. RequestsAreServed'
  BY <1>0, <1>2, <1>3 DEF IInv, TypeOK, RequestsAreServed, InHandler, Alive
<1>8. BackgroundEndsFirst'
  <2>1. refused' \intersect Background = {}
    BY <1>3, GoroutineAssumption DEF IInv, BackgroundEndsFirst
  <2> QED  BY <1>0, <1>3, <2>1 DEF BackgroundEndsFirst, NeverStarted, Joined
<1> QED  BY <1>4, <1>5, <1>6, <1>7, <1>8 DEF IInv

(***************************************************************************)
(* Steps of the server. The process runs, so main has not closed clients   *)
(* under a server that never started.                                      *)
(***************************************************************************)
LEMMA ListenStep == IInv /\ (Listen \/ ListenFails) => IInv'
<1> SUFFICES ASSUME IInv, Listen \/ ListenFails  PROVE IInv'  OBVIOUS
<1>0. /\ run = "select" /\ listener' \in {"up", "failed"}
      /\ listener = "failed" => listener' = "failed"
      /\ UNCHANGED <<main, signalled, ctx, run, gaveUp, conn, bg, pool, redis, refused>>
  BY DEF Listen, ListenFails
<1>1. TypeOK'  BY <1>0 DEF IInv, TypeOK
<1>2. ClosesLast'
  BY <1>0 DEF IInv, ClosesLast, Closing, NeverStarted, Joined
<1>3. ShutdownIsClean'  BY <1>0 DEF IInv, ShutdownIsClean
<1>4. RequestsAreServed'
  BY <1>0 DEF IInv, RequestsAreServed, InHandler, Alive
<1>5. BackgroundEndsFirst'  BY <1>0 DEF IInv, BackgroundEndsFirst
<1> QED  BY <1>1, <1>2, <1>3, <1>4, <1>5 DEF IInv

LEMMA ServerRunStep == IInv /\ ServerRun => IInv'
<1> SUFFICES ASSUME IInv, ServerRun  PROVE IInv'  OBVIOUS
<1>0. /\ UNCHANGED <<main, signalled, ctx, conn, bg, pool, redis, refused>>
      /\ Alive /\ run \in {"select", "draining"} /\ run' \in {"draining", "done"}
      /\ gaveUp => gaveUp'
      /\ listener = "failed" => listener' = "failed"
  <2>1. CASE SeeError  BY <2>1 DEF SeeError
  <2>2. CASE SeeCancel  BY <2>2 DEF SeeCancel
  <2>3. CASE Drained  BY <2>3 DEF Drained
  <2>4. CASE GiveUp  BY <2>4 DEF GiveUp
  <2> QED  BY <2>1, <2>2, <2>3, <2>4 DEF ServerRun
<1>1. TypeOK'
  <2>1. run' \in {"draining", "done"} /\ gaveUp' \in BOOLEAN
    BY <1>0 DEF IInv, TypeOK, ServerRun, SeeError, SeeCancel, Drained, GiveUp
  <2>2. listener' \in {"off", "up", "failed", "closed"}
    BY DEF IInv, TypeOK, ServerRun, SeeError, SeeCancel, Drained, GiveUp
  <2> QED  BY <1>0, <2>1, <2>2 DEF IInv, TypeOK
<1>2. ClosesLast'
  BY <1>0 DEF IInv, ClosesLast, Closing, NeverStarted, Joined
<1>3. ShutdownIsClean'
  BY DEF IInv, ShutdownIsClean, ServerRun, SeeError, SeeCancel, Drained, GiveUp
<1>4. RequestsAreServed'
  BY <1>0 DEF IInv, RequestsAreServed, InHandler, Alive
<1>5. BackgroundEndsFirst'  BY <1>0 DEF IInv, BackgroundEndsFirst
<1> QED  BY <1>1, <1>2, <1>3, <1>4, <1>5 DEF IInv

(***************************************************************************)
(* Steps of a connection.                                                  *)
(***************************************************************************)
LEMMA ConnStep ==
  ASSUME IInv, NEW c \in Conns, Accept(c) \/ Begin(c) \/ Call(c) \/ Return(c) \/ Answer(c)
  PROVE  IInv'
<1>0. /\ UNCHANGED <<main, signalled, ctx, listener, run, gaveUp, bg, pool, redis>>
      /\ Alive
      /\ refused' \in {refused, refused \union {c}}
      /\ \E s \in {"idle", "handler", "db", "redis", "over"} :
           conn' = [conn EXCEPT ![c] = s]
  <2>1. ASSUME Call(c)  PROVE \E s \in {"handler", "db", "redis"} : conn' = [conn EXCEPT ![c] = s]
    BY <2>1 DEF IInv, TypeOK, Call
  <2> QED  BY <2>1 DEF Accept, Begin, Call, Return, Answer
<1>1. conn[c] = "none" => listener = "up"
  BY DEF Accept, Begin, Call, Return, Answer
<1>2. conn[c] # "over"
  BY DEF Accept, Begin, Call, Return, Answer
<1>3. refused' # refused => Call(c) /\ conn[c] = "handler" /\ Closing
  <2>1. ASSUME Call(c), refused' # refused  PROVE conn[c] = "handler" /\ Closing
    BY <2>1 DEF IInv, ClosesLast, Closing, Call, IsOpen
  <2> QED  BY <2>1 DEF Accept, Begin, Return, Answer
<1>4. TypeOK'  BY <1>0 DEF IInv, TypeOK
<1>5. ~NeverStarted
  BY <1>1 DEF NeverStarted
<1>6. ClosesLast'
  BY <1>0, <1>5 DEF IInv, ClosesLast, Closing, Joined
<1>7. ShutdownIsClean'
  BY <1>0, <1>1, <1>2 DEF IInv, TypeOK, ShutdownIsClean
<1>8. RequestsAreServed'
  <2>1. refused' # refused => gaveUp \/ listener = "failed"
    BY <1>3, <1>5 DEF IInv, ClosesLast, Joined, ShutdownIsClean
  <2> QED  BY <1>0, <2>1 DEF IInv, RequestsAreServed, InHandler, Alive
<1>9. BackgroundEndsFirst'
  BY <1>0, GoroutineAssumption DEF IInv, BackgroundEndsFirst
<1> QED  BY <1>4, <1>6, <1>7, <1>8, <1>9 DEF IInv

(***************************************************************************)
(* Steps of the background goroutines.                                     *)
(***************************************************************************)
LEMMA BackgroundStep ==
  ASSUME IInv, NEW g \in Background, UseRedis(g) \/ RedisReturns(g) \/ Finish(g) \/ Sent
  PROVE  IInv'
<1>0. /\ UNCHANGED <<main, signalled, ctx, listener, run, gaveUp, conn, pool, redis>>
      /\ Alive
      /\ \E h \in Background : bg[h] \in {"loop", "redis", "sending"}
      /\ \A h \in Background : bg[h] = "done" => bg'[h] = "done"
  <2>1. Sender \in Background  BY DEF Background
  <2> QED  BY <2>1 DEF IInv, TypeOK, UseRedis, RedisReturns, Finish, Sent
<1>1. ~NeverStarted /\ ~Joined  BY <1>0 DEF NeverStarted, Joined
<1>2. ~Closing /\ main # "boot"  BY <1>1 DEF IInv, ClosesLast
<1>3. pool = "open" /\ redis = "open"  BY <1>2 DEF IInv, TypeOK, ClosesLast, Closing
<1>4. refused' = refused  BY <1>3 DEF UseRedis, RedisReturns, Finish, Sent
<1>5. TypeOK'
  <2>1. Sender \in Background  BY DEF Background
  <2>2. CASE UseRedis(g)  BY <1>3, <2>2 DEF IInv, TypeOK, UseRedis
  <2>3. CASE RedisReturns(g)  BY <2>3 DEF IInv, TypeOK, RedisReturns
  <2>4. CASE Finish(g)  BY <2>4 DEF IInv, TypeOK, Finish
  <2>5. CASE Sent  BY <2>1, <2>5 DEF IInv, TypeOK, Sent
  <2> QED  BY <2>2, <2>3, <2>4, <2>5
<1>6. ClosesLast'  BY <1>0, <1>2, <1>3 DEF ClosesLast, Closing
<1>7. ShutdownIsClean'  BY <1>0 DEF IInv, ShutdownIsClean
<1>8. RequestsAreServed'
  BY <1>0, <1>4 DEF IInv, RequestsAreServed, InHandler, Alive
<1>9. BackgroundEndsFirst'
  BY <1>0, <1>2, <1>3, <1>4 DEF IInv, BackgroundEndsFirst, Closing
<1> QED  BY <1>5, <1>6, <1>7, <1>8, <1>9 DEF IInv

LEMMA NextIInv == IInv /\ [Next]_vars => IInv'
<1> SUFFICES ASSUME IInv, [Next]_vars  PROVE IInv'  OBVIOUS
<1>1. CASE BootFails \/ Launch \/ Signal  BY <1>1, BootStep
<1>2. CASE Main  BY <1>2, BootStep, JoinStep, RedisClosedStep DEF Main
<1>3. CASE Listen \/ ListenFails  BY <1>3, ListenStep
<1>4. CASE ServerRun  BY <1>4, ServerRunStep
<1>5. CASE \E c \in Conns : Accept(c) \/ Begin(c) \/ Call(c) \/ Return(c) \/ Answer(c)
  BY <1>5, ConnStep
<1>6. CASE \E g \in Background : UseRedis(g) \/ RedisReturns(g) \/ Finish(g)
  BY <1>6, BackgroundStep
<1>7. CASE Sent
  <2>1. Sender \in Background  BY DEF Background
  <2> QED  BY <1>7, <2>1, BackgroundStep
<1>8. CASE UNCHANGED vars
  BY <1>8 DEF vars, IInv, TypeOK, ClosesLast, Closing, NeverStarted, Joined, ShutdownIsClean,
              RequestsAreServed, InHandler, Alive, BackgroundEndsFirst
<1> QED  BY <1>1, <1>2, <1>3, <1>4, <1>5, <1>6, <1>7, <1>8 DEF Next

(* IInv holds in every reachable state. *)
LEMMA Inductive == Spec => []IInv
<1> QED  BY InitIInv, NextIInv, PTL DEF Spec

(* main, the server, the connections and the goroutines stay in their      *)
(* types; only the sender and the ticker use Redis.                        *)
THEOREM TypeCorrect == Spec => []TypeOK
<1>1. IInv => TypeOK  BY DEF IInv
<1> QED  BY <1>1, Inductive, PTL

(* Whatever the moment of the signal, a request is cut off or refused a    *)
(* client only by a timeout of Shutdown, a failed listener, or a signal    *)
(* that main was not ready for.                                            *)
THEOREM ShutdownServesRequests == Spec => []RequestsAreServed
<1>1. IInv => RequestsAreServed  BY DEF IInv
<1> QED  BY <1>1, Inductive, PTL

(* No goroutine of the sender or the checker outlives the clients it uses. *)
THEOREM ClientsCloseLast == Spec => []BackgroundEndsFirst
<1>1. IInv => BackgroundEndsFirst  BY DEF IInv
<1> QED  BY <1>1, Inductive, PTL
=============================================================================
