# Verification of the redCollar incidents service

TLA+ modules of the service in `src/`, TLC configurations that check them on
small instances, and TLAPS proofs of what matters most for every instance.

## 1. The system

One Go process, a PostgreSQL database, a Redis server, and an HTTP endpoint of
somebody else that receives webhooks.

```
 admin --> API key, limiter --> admin handlers --> AdminService --> table incidents
                                                       | refreshCache: SELECT active rows,
                                                       v               SET key, TTL 5 min
                                                  incidents:active (Redis)
                                                       | GetActive
                                                       v
 user ---> limiter ----------> public handler --> CheckLocation --> table location_checks
                                                       | LPUSH
                                                       v
                                                  webhooks:queue (Redis)
                                                       | BRPOP
                                                       v
                                                  WebhookSender (one goroutine) --> endpoint

 main: starts the server, the sender and the location checker; on a signal cancels
       their context, waits for them, closes the pool and Redis
```

| Component | State | Operations | What is hard | What makes it correct |
|---|---|---|---|---|
| Admin incidents (`service/admin.go`, `postgres/incident_admin.go`, `redis/incident_cache.go`) | table `incidents`, key `incidents:active` | Create, Update (read, patch, write), Delete (soft), Get, refreshCache | handlers interleave between calls; a refresh fails, is overtaken, comes late, or is lost with the process; the TTL | the cache is always one committed moment of the table; nobody leaves a change unpublished; stale views go away; a PUT undoes only what a rival wrote to the same field |
| Incident list (`admin/handlers.go`, `incident_admin.go` List, `admin.html`) | none | COUNT, then a page; the walk through the pages | two statements, offsets in a list that grows at its head, an offset that wraps | a page fulfils its total; a walk misses only what was pushed off at its end |
| Location check (`service/public.go`, `postgres/stats.go`) | table `location_checks`, pushes to `webhooks:queue` | CheckLocation | reads a cache that others change; two effects whose errors are swallowed; a Redis client that repeats its LPUSH | an answer is the coverage of one moment; every warned user has one webhook; webhooked checks are counted |
| Webhook queue and sender (`redis/webhook_queue.go`, `service/webhook_sender.go`) | the list, the message in hand, the attempt | LPUSH, BRPOP, three attempts, sleep | pop before send, retries of what was handled, shutdown between attempts, crash, a URL nobody validated | order, at most three receipts, exactly one without trouble, no early giving up, nothing held for ever, shutdown ends |
| Rate limiter (`middleware/rate_limit.go`, `api_key.go`) | map of visitors, buckets | getVisitor, Allow, cleanup | check-then-act on the map, unlocked `lastSeen` | no tokens for free, no refusal with tokens left, idle visitors leave the map |
| Statistics (`service/stats.go`, `postgres/stats.go`) | none | two counts | two statements over a moving window | the users fit the checks |
| Lifecycle (`cmd/app.go`, `api/router.go`, `components.go`, `workers/check_location.go`) | context, wait group, connections, clients | start, signal, shutdown, exit | server failure is only logged; shutdown timeout with handlers in flight; a ticker that races the cancelled context | a signal ends the process; clients are closed last; requests are served |
| Location checker (`workers/check_location.go`) | job channel | ticker, workers | nothing sends a job; the ticker drops what it reads | (no effect on any state but its end) |
| Error mapping, config, browser code, validator, PostGIS search, connections | none, or read once | | | section 8 |

`PROJECT.json` lists every hazard met in the code, at its line, with the
property that covers it.

## 2. Modules

| Module | Models |
|---|---|
| `Incident` | the data: rows, request bodies, patch, CHECK constraints, the active view. Pure operators, no state. |
| `ActiveFeed` | abstract: what readers of the active incidents may rely on. A writer that has committed owes a publication at least as recent as its own change; the readers see nothing or one committed view. Where calls may fail, a publication may come late (`ShowLate`). |
| `AdminIncidents` | the admin handlers, the table and the cache key. Implements `ActiveFeed`. |
| `ListIncidents` | the list of incidents: capping, clamping, offset, two statements, the walk of the admin page. |
| `LocationCheck` | location checks. Its environment is `ActiveFeed`, instantiated, so that it does not depend on how the admin side works. |
| `WebhookChannel` | abstract: a FIFO channel that shows a message at most `Attempts` times and settles it. |
| `WebhookSender` | the Redis list and the sending goroutine. Implements `WebhookChannel`. |
| `Pipeline` | `LocationCheck` and `WebhookSender` composed, in a process that starts, is shut down or dies. Its admin side is still `ActiveFeed`. |
| `System` | the whole service: `Pipeline` with `AdminIncidents` in the place of its feed. Implements `Pipeline`. |
| `RateLimiter` | the visitors, their buckets, cleanup, and the API key in front of them. |
| `Stats` | the two counts of the statistics. |
| `Lifecycle` | main, `Server.Run`, connections, background goroutines, the two clients. |
| `MC*` | finite instances for TLC. `MCAdminReads` holds `ListIncidents` and `Stats`, which share no state; a behaviour of it exercises one of them. |
| `*Proofs` | theorems about the module they are named after; `SystemProofs` is about `Pipeline` and `System`. |

### How `AdminIncidents` corresponds to the code

There is one slot `r \in Reqs` for each handler that may run at a time. A
handler is cut where it calls the database or Redis: `Create` and `Delete` are
one statement, `UpdateGet` and `UpdateApply` are the SELECT and the UPDATE of
`AdminService.Update`, `ListActive` and `SetActive` the two calls of
`refreshCache`. Between two steps of a handler come steps of the others, the
TTL (`Expire`) and a crash. Every call may fail when the fault is in `Faults`.
`Bodies` are the bodies that the PUTs of an instance may have.

A call that fails for its handler may still act. A statement whose answer is
lost (`StatementLost`) stays in `lateChanges`, and PostgreSQL carries it out in
some later step or never (`LateChange`); no refresh follows, as in the code. A
SET that is not answered (`SetUnanswered`) stays in `lateSets`, while the Redis
client sends it again, or gives up (the failing branch of `SetActive`); Redis may
carry it out at any later moment, over a newer list, and several times if it
was sent several times (`LateSet`). Both outlive a crash of the process. `Room`
bounds by `MaxLate` the calls that are late at one time. A late INSERT does not collide:
`Create` takes an id that none of them holds, as uuids are fresh. With
`MaxLate = 0` a lost statement has no effect and a SET is carried out in time or never.

`Read` stands for the GET requests and for requests refused before their first
call. `commits`, `wrote`, `published` and `clean` are history: the active view
after each change, the change a handler made, the newest change that was ever
cached, and whether the newest change was made outside other refreshes, its own
has not failed and no older SET followed. `cache.at` is history too: the code stores `cache.view` only.

Each successful statement counts as a change, also one that leaves the active
view as it was; it is followed by a refresh in the code all the same.

### How `ListIncidents` corresponds to the code

The table is the sequence of rows in the order of `created_at`, newest first.
A row is stamped by Go before it is inserted, so `CreateRow` may insert it below
a newer one; two rows with the same stamp are left out, since their order is up
to PostgreSQL. A delete keeps the row. `Capped` is the handler's limit,
`PageNumber` and `PageSize` the repository's defaults, `Wrapped` the width of
Go's int. `Walk` and `Turn` are the paging of `admin.html`: the next page is
offered while `page * limit < total`, with the limit of the answer. `present`
and `between` are history: the rows there were when the walk began, and the rows
created between the COUNT and the page of the current request.

What the model shows beside its properties: a page whose offset wraps to a
negative number is refused (500), one whose offset wraps to a small number is
served as another page; and the answer repeats a page below 1 or a limit below 1
as it was sent, while the repository serves page 1 and 20 rows. `WalkMissesOnlyThePushedOff`
is the exact cost of COUNT before the page: rows created between the two push as many
off the end of the last page.

### How `LocationCheck` corresponds to the code

`ReadCache` is everything up to the first effect: GetActive, `filterNearby`,
the ids, `uuid.Parse`. `Reject` is any error answered before an effect. (The
code parses the user id after the filter; nothing is written in between, so
the order cannot be seen.) `SaveCheck` and `Enqueue` are the two effects, each
of which may fail without being noticed. An INSERT whose answer is lost may have
stored the row. An LPUSH whose answer is lost is sent again by the Redis client,
at most `MaxRepeats` times (`Repeat`; `redis.go:19` leaves go-redis at its default of
three), and Redis may take each of those sent, at once or after the check was
answered or the process died (`LatePush`): one warning may be in the list
several times, or in none. The webhook list is known by the check that pushed. Each
check runs once; a cancelled request is a failure of "db" or "redis". `paid`,
`due`, `seen` and `met` are history: the newest change published by its own
admin and not undone by a late SET, that number when the check read, the change
the check read, and the errors it met.

### How `WebhookSender` corresponds to the code

`pc` is the place in `Run` and `sendWithRetry`: the select, BRPOP, an attempt,
the sleep. An attempt is one step: the context test, the request, its outcome.
`url` is the WEBHOOK_URL the process was started with. Nothing validates it, so
`Start` may get a malformed one (the fault "url"); `http.NewRequestWithContext`
then fails, and `RequestFails` gives the message up at its first attempt, without
a request or a retry.
A shutdown that cuts a request in progress is a failed attempt followed by
`Cancel`; `StopAssumption` makes sure that attempts may fail where the process
may be stopped. A failed attempt may have reached the endpoint. `PopNothing`
includes a BRPOP whose answer is lost after Redis removed the message. `Crash`
loses the message in hand and keeps the list (`redis-server --appendonly yes`),
and `Start` is the restart that `docker-compose.yaml` asks for. `troubled` is
history: the messages that met a failed attempt, a malformed URL, a broken BRPOP,
a shutdown or a crash while they were in hand.

### How `Pipeline` composes them

`list` of `LocationCheck` is the history of pushes; message n of the queue is
the n-th of them, and a push of a check, in time or late, is the `Enqueue` of
`WebhookSender`. `alive` is the process that both live in: checks take steps only
in it (also after the sender has stopped: the server drains), but for `LatePush`,
which is Redis's. `Boot` starts the sender,
`Terminate` is the signal, `Exit` ends the process once the sender is down,
and `Die` takes everything at once. Requests left at either end are abandoned.

### How `System` composes the rest

The feed of `Pipeline` becomes what the admin side is: `committed` the changes
of the table, `shown` the key `incidents:active`, and `owed` what the handlers
in their refresh have to publish (`Owes`). `AdminRequest` is a step of a
handler, in a living process only; it pays (`paid`) when it is the refresh that
puts its own view into the cache (`Publishes`). `KeyExpires` is Redis's TTL,
which runs without the process, and so do the late calls (`CarriedOutLate`).
`ProcessEnds` is an exit or a crash, and takes
handlers, checks and sender together; nothing but the table and the two Redis
keys survives. An exit cuts off the handlers too: the server's shutdown gives
up after its timeout. `SystemAssumption` says that the process ends only where
handlers may be lost, and that the feed may fail exactly where something may.

### How `RateLimiter` corresponds to the code

A visitor and its limiter are named after the request that made them, so the
map is a function from addresses to requests. A request looks the map up under
the read lock (`Lookup`), stores a new visitor under the write lock
(`StoreVisitor`, over whatever is there now) or writes `lastSeen` without a lock
(`Touch`), and asks the bucket (`Admit`, `Limited`). `Touch` and cleanup's read
of `lastSeen` race; `time.Since` needs one word of it, which is read old or new,
and that is cleanup before or after `Touch`. Time passes in ticks. `Stall`
says that a request is not held up longer than that between `lastSeen` and
`Allow`, a few instructions in the code; `LimitAssumption` relates it to the
numbers of `router.go`. `Deny` is the API key middleware in front. The routes
have a limiter each, which share nothing: one instance stands for either.
`ideal` and `slack` are history: a bucket per address that is never deleted, and
what the two races have given the address beyond it.

### How `Stats` corresponds to the code

A row has an age in whole minutes; `Save` may insert a row stamped a minute ago.
The two counts are two steps with their own NOW(). `counted` and `gone` are
history: the rows of the first window, and those that have left the second.

### How `Lifecycle` corresponds to the code

`main` is the place in `cmd.Run`, `run` in `Server.Run`, `listener` what
ListenAndServe is doing. A connection is idle, in its handler, in a call of the
pool or of Redis, or over; `Shutdown` waits for all of them or gives up after
its timeout. The sender and the ticker are in their loops or in a Redis command;
the workers only wait. `pool` and `redis` are the two clients that
`ShutdownAll` closes; `refused` is history: whoever met a closed one.

## 3. Runs

Every run but the violations finishes without error.

| Run | Shows | Bounds |
|---|---|---|
| `admin_concurrent` | types; publishers include their own change; no change is left unpublished; a change made and refreshed alone leaves a fresh cache; an update undoes only fields a rival changed | 2 ids, 2 requests, 4 changes, no faults but the TTL |
| `admin_faults` | under all faults: the cache is a committed view, fresh after a clean change; stale views leave it; `AdminIncidents` implements `ActiveFeed` with its fairness | 1 id, 2 requests, 3 changes, PUTs in place, 1 late call at a time, all faults |
| `admin_patch` | violated: lost update | 1 id, 2 requests |
| `admin_radius` | violated: an undeclared radius is stored | 1 request, 2 changes |
| `admin_reads` | types; a page fulfils its total; a walk misses only what was pushed off; the two counts fit together | 4 rows, limits capped at 3, ints of 4 bits; 3 checks, 2 users, windows of 1 and 2 minutes |
| `check_faults` | types; an answer is the coverage of one moment; with one admin never one behind a published change; a row before its webhook; one webhook per warned user | 1 check, 2 ids at 2 places, a radius that just misses, 1 admin, 2 changes, all faults, late publications, an LPUSH sent up to 3 times |
| `check_expired` | violated: after the TTL a covered place is answered with no incident | 1 check, 1 change |
| `webhook_faults` | types; the list is exactly the backlog; at most three receipts; exactly one without trouble; a message is given up only after the third attempt, unless the process stops or the URL is malformed and it was never sent; every message is settled; shutdown completes; implements `WebhookChannel` with its fairness | 3 messages, 2 stops, all faults, "url" included |
| `webhook_disabled` | violated: WEBHOOK_DISABLED is not obeyed | 1 message |
| `system` | what the endpoint receives is true and was counted, and its incidents can be looked up; a warned client has one message, received once unless it met trouble; every warning is come to; `System` implements `Pipeline` | 1 check, 1 admin, 2 changes of the status of 1 id, 1 push, 1 stop; admin: all faults and 1 late call; check: Redis errors and the crash, an LPUSH in time or late; sender: failing endpoint and crash |
| `rate_limit` | types; deletion of idle visitors gives no tokens away; only the spent are refused; idle visitors leave the map | 3 requests of one address, 1 of another, 1 without the key; burst, rate, ttl and stall 1 |
| `lifecycle` | types; requests are served; the background ends before the clients are closed; a signal ends the process | 2 connections, 2 workers |

Why the bounds are enough to see the interesting cases: two admins are what an
overtaken refresh and a lost update need, three changes let one be published
over another while a third is made, and two ids distinguish "the whole list"
from "the one incident". In `admin_faults` there is one id, and its PUTs leave the
place of the incident alone, as `admin_concurrent` has the others; one late call
suffices for a SET over a newer list and for a statement after a newer one. Two
places and the radius 999 against a distance of 1000 put the comparison of
`filterNearby` next to its boundary. What two checks might do to each other is
only in the theorems: they share nothing but the list they push to. Two
repetitions of an LPUSH are one more than it takes to push a warning twice;
go-redis makes three, and the theorems hold for any number. In `system` one
incident is created, and changed or deleted while the alert that names it is on
its way. It leaves out what the other runs check on their own: repetitions and
failing INSERTs (`check_faults`), broken BRPOPs and malformed URLs
(`webhook_faults`). Three messages are one in hand, one next and one
behind it; two stops are a graceful shutdown and a crash in either order. Three
requests of one address are two that race to store and one that finds what is
left; with a ttl of one tick, deletion comes between any two of them. Four rows
are two pages and a row that moves between them.

`MaxCommits`, `MaxPushes`, `MaxStops` and `MaxRows` bound counters that are unbounded in
the code, `MaxLate` the calls that are late at one time; `MaxRepeats`, `Cap`, `Default`,
`Half` and `MaxMinutes` are small values of constants of the code or of its
libraries.

`RateLimiter` was also checked once with five requests, burst 2 and ttl 2
(2.0 million states), which is not among the runs for its time.

The ids, and where nothing tells them apart the requests and checks, are
interchangeable, so `admin_concurrent` and `check_faults`, which check no
liveness, use symmetry (in `check_faults` of the ids). The runs of `LocationCheck`, `system` and `lifecycle`
do not check deadlock: a check is made once and a process ends once, so a
behaviour ends when all are made.

## 4. Fairness

`AdminIncidents`: a handler that has begun its refresh goes on, since both
calls return with or without error, and a crash ends it; and Redis removes the
key when its TTL is over. The code gives the key a new TTL with each change,
so `Expire` is inevitable only if changes cease, which the bound on changes
says. Handlers before their refresh have no fairness: the client may be slow.
Late calls have none either: they may never be carried out.

`WebhookSender`: the goroutine's steps are weakly fair, because BRPOP and the
HTTP client have timeouts of 5 seconds and the sleeps end; the restart is
weakly fair by `restart: unless-stopped`; and `PopMessage` is strongly fair:
Redis does not fail every BRPOP. Nothing is assumed of the endpoint.
`unless-stopped` does not restart a container that somebody stopped with `docker
stop`, so `EveryMessageIsSettled`, the liveness of `ChannelFairSpec` and
`WarningsAreHandled` suppose that whoever stops the service starts it again; with
the service left stopped for good, the list keeps its messages.

`System`: the same for the sender; the process starts again (`Boot`) and,
once the sender has ended, exits (`Exit`), as the server's shutdown has a
timeout. Nothing is assumed of checks and admins.

`RateLimiter`: a request inside the middleware goes on, the cleanup loop is
never left, and time passes. Clients need never come.

`Lifecycle`: main, `Server.Run`, and calls to the databases and the endpoint
go on, since each has a timeout or waits for one that has. A query has no
timeout of its own: its context is that of the request, which the server cancels
when the connection ends, at the latest when ReadTimeout is over. The end of a
background goroutine is strongly fair, because Go's select between a ticker of
30 seconds and a cancelled context takes the context at some time. No handler
need ever return, and no signal need come.

## 5. Proofs

All theorems hold for any values of the constants that satisfy the named
assumptions of the module; nothing else is assumed.

`AdminIncidentsProofs`:

- `TypeCorrect`, `ReadersSeeCommittedViews`, `HandlersPublishTheirOwnChange`,
  `ChangesAreNotLeftUnpublished`, `CleanChangesLeaveFreshCache`,
  `UpdatesUndoOnlyRacedFields`: all that `admin_concurrent` checks.
- `ImplementsFeed`: the safety part of the refinement of `ActiveFeed`.
- `ShownIncidentsStay`: an incident in any view that was ever committed keeps
  its row.
- `SoleAdminPatches`: under the assumption that requests do not overlap, and in
  behaviours where no lost statement is left to be carried out, a PUT writes only
  what it names. A late statement does what a second admin would.

The inductive invariant `IInv` has five parts. Types are not enough for
`UpdateApply`, which needs a draft to be there (`DraftReady`). Late calls exist only
where something may fail, and a late SET shows one committed view (`LateCalls`). `Outcomes` says
once what a request may do before its refresh, and every later proof splits on
that instead of on the handlers: it reads a row, or it ends, or it commits a
table in which no row is missing. That the cache
is a committed view is not inductive alone: `SetActive` copies the snapshot,
so the snapshot must be a committed view as well (`PublishIncludesOwnWrite`),
and `ListActive` takes it from the table, so the table must be the last commit
(`TableIsLastCommit`). That no change is left unpublished is proved over
`IInv`: the last committer is still in its refresh, or somebody published
something as new. For the fresh cache (`FreshInv`):
while `clean` holds, at most one handler is in a refresh, and the snapshot it
is about to publish is the table. In the refinement a late statement is a
`CommitUnowed` of the feed and a late SET its `ShowLate` (`LateChangeIsUnowed`,
`LateSetIsShowLate`).

`WebhookSenderProofs`: `TypeCorrect`, `BacklogIsExact`, `ReceiptsAreBounded`,
`NoEarlyGiveUp`, `DeliversExactlyOnce`, `ImplementsChannel`. The exact backlog
is the core: the list holds consecutive numbers that end at the last push, so
the popped element is the successor of what is settled, which gives both the
order and the mapping of steps. `DeliversExactlyOnce` adds that a message
without trouble of its own is still in its first attempt (`UntroubledInv`).
`NoEarlyGiveUp` covers the malformed URL as the code treats it: the message is
given up at once, and then it was never sent.

`LocationCheckProofs`: `TypeCorrect`, `AnswersAreOneMoment`,
`SoleAdminReadsOwnWrites`, `WebhooksFollowRows`, `OneWebhookPerWarning`. What a
check has read stays true because the history of the feed only grows (`Grows`);
that a sole admin's answers do not go back needs that the only writer owes
either nothing or the newest change; the effects follow from where the check is
(`EffectsOf`): a check that has not come to its LPUSH, or has met no Redis error
in it, has no late LPUSH, so that nothing but a repeated or a late one puts its
webhook into the list twice.

`SystemProofs` brings the parts together.

- `ImplementsChecks` and `ImplementsQueue`: the pipeline keeps the
  specifications of its parts.
- `EndpointHearsTheTruth`: what is proved of the checks reaches the endpoint
  unaltered. `OneWarningOneReceipt`: one webhook per warning, of the checks, and
  one receipt per untroubled message, of the queue, joined.
- `ServesAsAdmins` and `ServiceIsPipeline`: the admin side of the service is
  `AdminIncidents`, and with it the service is the pipeline. The steps are those
  of `ImplementsFeed` (`QuietStep`, `PublishStep`); beside the invariant of the
  admin side they need that the debts of the feed are those of the handlers
  (`OwedIsOwed`).
- `ServiceKeepsItsPromises`: `AnswerIsOneMoment`, `SoleAdminReadsItsWrites`,
  `AlertsAreTrue` and `OneAlertPerWarning` of the whole service.
- `ServiceIsChannel`: to the endpoint the service is a `WebhookChannel`.
- `AlertsCanBeLookedUp`: an alert names what a check saw at some change
  (`AnswersAreRight`), and what was ever in the history has its row
  (`ShownIncidentsStay`).

Theorems of `WebhookSenderProofs` and `AdminIncidentsProofs` are cited through
the instances `Sending` and `Admins`. A theorem of an instance holds under the
assumptions of its module, which are proved first (`SendingAssumptions`,
`AdminsAssumptions`); and since the compositions are built from instances of
`WebhookSender` and `AdminIncidents` themselves, a lemma per action says that the
two instances are the same (`SameNext`, `SameAdminStep`).

`RateLimiterProofs`: `TypeCorrect`, `NobodyGetsFreeTokens`,
`OnlyTheSpentAreRefused`. The invariant compares the buckets with the ideal one
from both sides: the bucket in the map holds no more than the ideal one and the
slack (`Covered`), no bucket holds less than the ideal one (`Generous`), and each
is full by the time its visitor may be deleted (`FillsInTime`), which is where
`LimitAssumption` enters: deletion then gives nothing that time has not.

`LifecycleProofs`: `TypeCorrect`, `ShutdownServesRequests`, `ClientsCloseLast`.
The invariant ties the place of main to what the wait group has seen: after
`Join` no background goroutine runs, and connections are over unless `Shutdown`
gave up or never ran.

`StatsProofs`: `StatsTypeCorrect`, `CountsFitTogether`: a user of the first
count has a row in the second window or among the gone.

`ListIncidentsProofs`: `ListTypeCorrect`, `PagesFulfilTotals`,
`WalksMissOnlyThePushedOff`, for any table, limit and width of an int. The total
is out of date by exactly the rows created since (`CountIsRecent`), a walk asks
only for pages that begin among the rows, so that its offsets never wrap
(`WalkIsInRange`), and what it has not seen lies beyond the pages it has turned
(`UnseenIsBeyond`), since a new row moves the others only towards the end. On
the last page at most `between` rows lie beyond the total.

Every safety property that a passing run checks is thus proved for all values
of the constants. Only model-checked: what
holds under fairness (`StaleViewLeavesCache`, `EveryMessageIsSettled`,
`ShutdownCompletes`, `WarningsAreHandled`, `IdleVisitorsAreDeleted`,
`SignalEndsProcess`, and the fairness of the two refinements), as the prover has
no ENABLED.

## 6. What the checks found

- **Lost update** (`admin_patch`). `Update` reads a row, patches it in memory
  and writes all columns back. A change by another admin in between is undone;
  in particular a deleted incident comes back to life. The tests call the
  operation "PATCH semantics".
- **Radius** (`admin_radius`). The `validate` tags are never evaluated; only
  the CHECK of the table limits a radius, and less.
- **Expired cache** (`check_expired`). Five minutes after the last change the
  key is gone, and until the next change every check says that no incident is
  near. Nothing fills the cache from the table at start either.
- **WEBHOOK_DISABLED** (`webhook_disabled`) is only logged.

Read, and not checked as a disagreement: nothing validates WEBHOOK_URL
(`config.go`), and with one that `url.Parse` refuses every message is popped and
lost at its first attempt (`webhook_sender.go:74`; `RequestFails` models it, and no
document says otherwise). The page reads `incident_ids` where the API
answers `incidents` (`templates/public.html:616`, `domain/location_check.go:16`);
it generates user ids that `uuid.Parse` refuses (`public.html:493`,
`service/public.go:88`); `index.html:359` says "No data storage" while every
check is stored; `Readme.md` names routes for health and stats that the router
does not have; the "active" count of `admin.html` is of the page shown, not of
all incidents; the location checker's `processJob` is never reached.

## 7. Plan

Done: `Incident`, `ActiveFeed`, `AdminIncidents`; `WebhookChannel`,
`WebhookSender`; `LocationCheck`; `RateLimiter`; `Lifecycle`; `ListIncidents`;
`Stats`; `Pipeline`; `System`; the proofs about all of them.

Left: error mapping, that is, errors of the repository to status codes, and
retries of the client driven by them (a repeated delete is answered 404).

## 8. Abstractions, and what is not modelled

- Numbers: a radius is whole metres, coordinates are members of small sets and
  already in range (PostGIS coerces others), distance is a constant function.
  Rounding of `haversine` is left out.
- `created_at` is the order of a sequence, `checked_at` an age in minutes; log
  lines and JSON are left out; the payload of a webhook is its number or its
  check.
- Order of the active list: a set, since nobody relies on it.
- Redirects that the HTTP client follows inside one `http.Do` are part of one
  attempt: a receipt is an answer of the endpoint at WEBHOOK_URL.
- Late calls: SETs, statements of the admin handlers and LPUSHes may be carried
  out late. An INSERT of a check whose answer is lost is made at once or never,
  as nothing reads it in between.
- The API key is a constant property of a request; the branch for an empty key
  cannot be reached, because the configuration puts a default in its place.
- Not modelled: status codes other than "done" and "refused"; the browser code
  but for its paging; configuration other than WEBHOOK_DISABLED and the numbers
  of the limiters; connection set-up, logging and health, which are I/O without
  state; `processJob`, `FindNearby` and the validator, which nobody calls.
