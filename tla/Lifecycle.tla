------------------------------ MODULE Lifecycle -----------------------------
(***************************************************************************)
(* The process from start to exit: cmd.Run, Server.Run, the webhook        *)
(* sender, the location checker, the requests in progress, and the two     *)
(* clients that ShutdownAll closes, the Postgres pool and Redis.           *)
(*                                                                         *)
(*   boot --Launch--> launched --Notify--> waiting --Stop--> joining       *)
(*     --Join--> closing --PoolClosed--> closed --RedisClosed--> exited    *)
(***************************************************************************)
EXTENDS Integers

CONSTANTS
  Conns,     \* connections to the server, each with one request
  Workers,   \* goroutines of the location checker's pool
  Sender,    \* the goroutine of the webhook sender
  Producer   \* the goroutine with the location checker's ticker

Checker     == Workers \union {Producer}
Background  == Checker \union {Sender}

ASSUME GoroutineAssumption ==
  /\ Sender # Producer
  /\ {Sender, Producer} \intersect Workers = {}
  /\ Conns \intersect Background = {}

VARIABLES
  main,      \* where cmd.Run is
  signalled, \* a SIGINT or SIGTERM is in quitChan
  ctx,       \* the context of the goroutines: "live" or "cancelled"
  listener,  \* ListenAndServe: "off", "up", "failed" or "closed"
  run,       \* Server.Run: "off", "select", "draining" or "done"
  gaveUp,    \* Shutdown has met its timeout
  conn,      \* where each connection is
  bg,        \* where each background goroutine is
  pool,      \* the Postgres pool: "open", "closing" or "closed"
  redis,     \* the Redis client: "open" or "closed"
  refused    \* ghost: whoever has had a call refused by a closed client

vars == <<main, signalled, ctx, listener, run, gaveUp, conn, bg, pool, redis, refused>>

Init ==
  /\ main = "boot" /\ signalled = FALSE /\ ctx = "live"
  /\ listener = "off" /\ run = "off" /\ gaveUp = FALSE
  /\ conn = [c \in Conns |-> "none"]
  /\ bg = [g \in Background |-> "off"]
  /\ pool = "open" /\ redis = "open"
  /\ refused = {}

Alive == main \notin {"exited", "killed"}

InHandler(c) == conn[c] \in {"handler", "db", "redis"}

(***************************************************************************)
(* main.                                                                   *)
(***************************************************************************)

(* The configuration, Postgres or Redis is not there: Run returns an error. *)
BootFails ==
  /\ main = "boot"
  /\ main' = "exited"
  /\ UNCHANGED <<signalled, ctx, listener, run, gaveUp, conn, bg, pool, redis, refused>>

(* The three goroutines are started, and the checker starts its own. *)
Launch ==
  /\ main = "boot"
  /\ main' = "launched"
  /\ run' = "select"
  /\ bg' = [g \in Background |-> "loop"]
  /\ UNCHANGED <<signalled, ctx, listener, gaveUp, conn, pool, redis, refused>>

Notify ==
  /\ main = "launched"
  /\ main' = "waiting"
  /\ UNCHANGED <<signalled, ctx, listener, run, gaveUp, conn, bg, pool, redis, refused>>

(* A signal before Notify kills the process; a second one after it is lost. *)
Signal ==
  /\ \/ main \in {"boot", "launched"} /\ main' = "killed" /\ UNCHANGED signalled
     \/ main = "waiting" /\ signalled' = TRUE /\ UNCHANGED main
  /\ UNCHANGED <<ctx, listener, run, gaveUp, conn, bg, pool, redis, refused>>

Stop ==
  /\ main = "waiting" /\ signalled
  /\ main' = "joining"
  /\ ctx' = "cancelled"
  /\ UNCHANGED <<signalled, listener, run, gaveUp, conn, bg, pool, redis, refused>>

Joined == run = "done" /\ \A g \in Background : bg[g] = "done"

(* Mutant of Join: the wait group does not count the sender. *)
JoinWithoutSender ==
  /\ main = "joining" /\ run = "done" /\ \A g \in Checker : bg[g] = "done"
  /\ main' = "closing" /\ pool' = "closing"
  /\ UNCHANGED <<signalled, ctx, listener, run, gaveUp, conn, bg, redis, refused>>

(* wg.Wait returns, and Pool.Close begins: it refuses new calls. *)
Join ==
  /\ main = "joining" /\ Joined
  /\ main' = "closing" /\ pool' = "closing"
  /\ UNCHANGED <<signalled, ctx, listener, run, gaveUp, conn, bg, redis, refused>>

(* Pool.Close returns when the last connection has been given back. *)
PoolClosed ==
  /\ main = "closing" /\ \A c \in Conns : conn[c] # "db"
  /\ main' = "closed" /\ pool' = "closed"
  /\ UNCHANGED <<signalled, ctx, listener, run, gaveUp, conn, bg, redis, refused>>

(* Client.Close breaks the commands in progress; then Run returns. *)
RedisClosed ==
  LET cut == {c \in Conns : conn[c] = "redis"}
  IN /\ main = "closed"
     /\ main' = "exited" /\ redis' = "closed"
     /\ conn' = [c \in Conns |-> IF c \in cut THEN "handler" ELSE conn[c]]
     /\ refused' = refused \union cut \union {g \in Background : bg[g] = "redis"}
     /\ UNCHANGED <<signalled, ctx, listener, run, gaveUp, bg, pool>>

Main ==
  \/ Notify \/ Stop \/ Join \/ PoolClosed \/ RedisClosed

(***************************************************************************)
(* Server.Run and net/http.                                                *)
(***************************************************************************)

Listen ==
  /\ Alive /\ run = "select" /\ listener = "off"
  /\ listener' = "up"
  /\ UNCHANGED <<main, signalled, ctx, run, gaveUp, conn, bg, pool, redis, refused>>

(* The port is taken, or Accept fails for good. *)
ListenFails ==
  /\ Alive /\ run = "select" /\ listener \in {"off", "up"}
  /\ listener' = "failed"
  /\ UNCHANGED <<main, signalled, ctx, run, gaveUp, conn, bg, pool, redis, refused>>

(* The error is logged: the process stays, without a server. *)
SeeError ==
  /\ Alive /\ run = "select" /\ listener = "failed"
  /\ run' = "done"
  /\ UNCHANGED <<main, signalled, ctx, listener, gaveUp, conn, bg, pool, redis, refused>>

(* Shutdown begins: it closes the listener and waits for the connections.  *)
SeeCancel ==
  /\ Alive /\ run = "select" /\ ctx = "cancelled"
  /\ run' = "draining"
  /\ listener' = IF listener = "failed" THEN "failed" ELSE "closed"
  /\ UNCHANGED <<main, signalled, ctx, gaveUp, conn, bg, pool, redis, refused>>

(* Mutant of Drained: only requests in progress are waited for. *)
DrainedOfRequests ==
  /\ Alive /\ run = "draining"
  /\ \A c \in Conns : ~InHandler(c)
  /\ run' = "done"
  /\ UNCHANGED <<main, signalled, ctx, listener, gaveUp, conn, bg, pool, redis, refused>>

(* Shutdown has seen every connection idle, and closed it. *)
Drained ==
  /\ Alive /\ run = "draining"
  /\ \A c \in Conns : conn[c] \in {"none", "over"}
  /\ run' = "done"
  /\ UNCHANGED <<main, signalled, ctx, listener, gaveUp, conn, bg, pool, redis, refused>>

(* Mutant of GiveUp: Shutdown without a timeout. *)
NeverGiveUp == FALSE /\ UNCHANGED vars

(* ShutdownTimeout is over: the connections that are left stay as they are. *)
GiveUp ==
  /\ Alive /\ run = "draining"
  /\ \E c \in Conns : conn[c] \notin {"none", "over"}
  /\ run' = "done" /\ gaveUp' = TRUE
  /\ UNCHANGED <<main, signalled, ctx, listener, conn, bg, pool, redis, refused>>

ServerRun == SeeError \/ SeeCancel \/ Drained \/ GiveUp

Accept(c) ==
  /\ Alive /\ listener = "up" /\ conn[c] = "none"
  /\ conn' = [conn EXCEPT ![c] = "idle"]
  /\ UNCHANGED <<main, signalled, ctx, listener, run, gaveUp, bg, pool, redis, refused>>

(* A request is read from an open connection, whatever became of the       *)
(* listener, or the client or Shutdown closes it.                          *)
Begin(c) ==
  /\ Alive /\ conn[c] = "idle"
  /\ \E s \in {"handler", "over"} : conn' = [conn EXCEPT ![c] = s]
  /\ UNCHANGED <<main, signalled, ctx, listener, run, gaveUp, bg, pool, redis, refused>>

IsOpen(client) == IF client = "db" THEN pool = "open" ELSE redis = "open"

(* The handler calls a client, which may be closed. *)
Call(c) ==
  /\ Alive /\ conn[c] = "handler"
  /\ \E client \in {"db", "redis"} :
       IF IsOpen(client)
         THEN conn' = [conn EXCEPT ![c] = client] /\ UNCHANGED refused
         ELSE refused' = refused \union {c} /\ UNCHANGED conn
  /\ UNCHANGED <<main, signalled, ctx, listener, run, gaveUp, bg, pool, redis>>

Return(c) ==
  /\ Alive /\ conn[c] \in {"db", "redis"}
  /\ conn' = [conn EXCEPT ![c] = "handler"]
  /\ UNCHANGED <<main, signalled, ctx, listener, run, gaveUp, bg, pool, redis, refused>>

Answer(c) ==
  /\ Alive /\ conn[c] = "handler"
  /\ conn' = [conn EXCEPT ![c] = "over"]
  /\ UNCHANGED <<main, signalled, ctx, listener, run, gaveUp, bg, pool, redis, refused>>

(***************************************************************************)
(* The background goroutines.                                              *)
(***************************************************************************)

(* BRPOP of the sender, GET of the ticker: refused if Redis is closed. The *)
(* sender looks at its context first; the ticker's select may prefer a     *)
(* tick to a cancelled context.                                            *)
UseRedis(g) ==
  /\ Alive /\ g \in {Sender, Producer} /\ bg[g] = "loop"
  /\ g = Sender => ctx = "live"
  /\ IF redis = "open"
       THEN bg' = [bg EXCEPT ![g] = "redis"] /\ UNCHANGED refused
       ELSE refused' = refused \union {g} /\ UNCHANGED bg
  /\ UNCHANGED <<main, signalled, ctx, listener, run, gaveUp, conn, pool, redis>>

(* Mutant of RedisReturns: the ticker goes on to work with its answer. *)
RedisReturnsToWork(g) ==
  /\ Alive /\ bg[g] = "redis"
  /\ \E s \in {"loop", "sending"} : bg' = [bg EXCEPT ![g] = s]
  /\ UNCHANGED <<main, signalled, ctx, listener, run, gaveUp, conn, pool, redis, refused>>

(* The command returns; the sender goes on to its attempts if it has got a *)
(* message.                                                                *)
RedisReturns(g) ==
  /\ Alive /\ bg[g] = "redis"
  /\ \E s \in {"loop"} \union (IF g = Sender THEN {"sending"} ELSE {}) :
       bg' = [bg EXCEPT ![g] = s]
  /\ UNCHANGED <<main, signalled, ctx, listener, run, gaveUp, conn, pool, redis, refused>>

(* The attempts and the sleeps between them, as WebhookSender has them. *)
Sent ==
  /\ Alive /\ bg[Sender] = "sending"
  /\ bg' = [bg EXCEPT ![Sender] = "loop"]
  /\ UNCHANGED <<main, signalled, ctx, listener, run, gaveUp, conn, pool, redis, refused>>

(* The workers wait for jobs, which nobody submits, or for this. *)
Finish(g) ==
  /\ Alive /\ bg[g] = "loop" /\ ctx = "cancelled"
  /\ bg' = [bg EXCEPT ![g] = "done"]
  /\ UNCHANGED <<main, signalled, ctx, listener, run, gaveUp, conn, pool, redis, refused>>

Next ==
  \/ BootFails \/ Launch \/ Signal \/ Main
  \/ Listen \/ ListenFails \/ ServerRun
  \/ \E c \in Conns : Accept(c) \/ Begin(c) \/ Call(c) \/ Return(c) \/ Answer(c)
  \/ \E g \in Background : UseRedis(g) \/ RedisReturns(g) \/ Finish(g)
  \/ Sent

Spec == Init /\ [][Next]_vars

(* Calls to the databases and to the endpoint return, goroutines are       *)
(* scheduled, and Go's select does not prefer a ticker of 30 seconds to a  *)
(* cancelled context for ever. No handler need ever come to its end.       *)
Fairness ==
  /\ WF_vars(Main)
  /\ WF_vars(ServerRun)
  /\ WF_vars(Sent)
  /\ \A c \in Conns : WF_vars(Return(c))
  /\ \A g \in Background : WF_vars(RedisReturns(g)) /\ SF_vars(Finish(g))

FairSpec == Spec /\ Fairness

(***************************************************************************)
(* Properties.                                                             *)
(***************************************************************************)

TypeOK ==
  /\ main \in {"boot", "launched", "waiting", "joining", "closing", "closed", "exited", "killed"}
  /\ signalled \in BOOLEAN /\ gaveUp \in BOOLEAN
  /\ ctx \in {"live", "cancelled"}
  /\ listener \in {"off", "up", "failed", "closed"}
  /\ run \in {"off", "select", "draining", "done"}
  /\ conn \in [Conns -> {"none", "idle", "handler", "db", "redis", "over"}]
  /\ bg \in [Background -> {"off", "loop", "redis", "sending", "done"}]
  /\ \A g \in Background :
       /\ bg[g] = "redis" => g \in {Sender, Producer}
       /\ bg[g] = "sending" => g = Sender
  /\ pool \in {"open", "closing", "closed"}
  /\ redis \in {"open", "closed"}
  /\ refused \subseteq Conns \union Background

(* A request once read is served to its end with both clients open: it     *)
(* meets a closed pool or Redis, or the end of the process, only if        *)
(* Shutdown met its timeout, the listener had failed (Run then returns     *)
(* without a Shutdown, router.go:143), or a signal came before Notify      *)
(* (app.go:71).                                                            *)
RequestsAreServed ==
  \A c \in Conns :
    c \in refused \/ (InHandler(c) /\ ~Alive)
      => gaveUp \/ listener = "failed" \/ main = "killed"

(* ShutdownAll finds no goroutine of the sender or the checker at work:    *)
(* none is refused a call, and none is cut off by the exit (app.go:77-79,  *)
(* check_location.go:52).                                                  *)
BackgroundEndsFirst ==
  /\ refused \intersect Background = {}
  /\ pool # "open" \/ main = "exited" => \A g \in Background : bg[g] \in {"off", "done"}

(* A signal ends the process: also without a server, with a ticker that    *)
(* has just fired, a sender between attempts, or a handler that never      *)
(* returns (app.go:72-81).                                                 *)
SignalEndsProcess == signalled ~> main = "exited"
=============================================================================
