# emcp: a formal model

emcp is a self-hosted MCP server in TypeScript on Node: an HTTP server process
that authenticates API keys, limits their rate and runs tools for them in
stateful sessions, and a worker process that refreshes a news cache on a cron
schedule. Postgres keeps keys, usage and news; Redis keeps rate-limit windows
and a negative authentication cache.

The modules here are TLA+ translations of the parts of that code whose
correctness depends on the order in which things happen, and of the pure
algorithms that can be stated without floating point. TLC checks them on small
instances; TLAPS proves the central ones for every value of the constants. Source paths below are relative to the repository; `PROJECT.json`
maps each definition to the lines it stands for.

## The system

Each process is one Node event loop: code between two `await`s is atomic, and
everything else interleaves with requests, timers, promise continuations,
replies of Postgres and Redis, and signals. That is the grain of the actions in
every module.

| Component | Source | State it keeps | Operations | Hard behaviour |
| --- | --- | --- | --- | --- |
| Worker scheduler | `src/shared/workers/scheduler.ts` | per worker `inFlight`, `running`; `stopped` | `start`, cron tick, run (handler against timeout), `stop` | handlers that settle after their timeout, ticks delivered after `stop`, handlers that throw at once |
| Sessions | `src/server.ts` | `sessions` map, `activeSessions` gauge | initialize, use, DELETE, idle sweep, `close` | caps tested before awaits, four paths that remove a session |
| Rate limiter | `src/core/rate-limiter.ts` | a sorted set per scope in Redis | `check` | script executed late or twice, window boundary, key expiry, changed limits |
| API keys, authentication | `src/db/repos/api-keys.ts`, `src/core/auth.ts`, `src/cli/keys/` | `api_keys` rows, `auth:miss` entries | create, blacklist, unblacklist, delete; `authenticate` | commands that confirm between check and update; cache writes nobody awaits |
| Shutdown, process life | `src/lib/shutdown.ts`, `src/index.ts`, `src/workers/index.ts` | handler list, the one shutdown promise | register, run, signal, fatal error | hung handlers, budget, resources registered on first use |
| Proxy egress | `src/shared/net/egress.ts`, `src/shared/net/proxy/` | cursor, cooldowns, gauge | `next`, `report`, `fetchExternal` | one pool under many requests, retries meeting other requests' failures |
| Request pipeline | `src/server.ts`, `src/core/headers.ts`, `src/core/client-ip.ts` | none of its own | header checks, three limits, authentication, body, routing | every early return must answer |
| Tool wrapper, usage | `src/server.ts`, `src/core/context.ts` | usage counters in Postgres | tool call, `recordUsage` | combined abort signal, usage written after the answer |
| Safe HTTP client | `src/shared/net/http.ts`, `src/shared/net/ssrf.ts` | that of one call: hop, records, buffer | `fetchSafe` | redirects, address checks per hop, capped bodies, timeouts, exceptions in listeners |
| News cache | `src/workers/fetch-news.ts`, `src/shared/news/` | `news_articles` | collect, `replaceAll`, read | parallel loops, overlapping runs, transactions |
| Python sandbox | `src/shared/sandbox/python-runner.ts` | a client process and its container | `runPython` | close against timeout, kill and grace, a container that outlives its client |
| Loaders | `src/shared/tools/loader.ts`, `src/shared/workers/loader.ts` | registries, fixed after start | load | duplicate names, wrong exports |
| Expression language | `src/shared/math/expr/` | none | tokenize, parse, evaluate, extract a polynomial | precedence, associativity, nesting |
| Numeric library | `src/shared/math/` | none | matrices, statistics, finance, units, complex numbers, roots, calculus | pivots, brackets, boundaries; floating point |
| Tools | `src/tools/` | that of one call | one handler per tool | which of five kinds of answer a caller gets |
| HTML, feeds, CLI output, config, logging, packaging | `src/shared/html/`, `src/cli/`, `src/config.ts`, `src/lib/`, `scripts/` | none | | |

How they interact: the server admits a request through header checks, the
limiter (per address), authentication, the limiter again (per key and per tool)
and the session map; a tool runs under a signal that combines its timeout with
shutdown; tools and the news worker reach the network through `fetchSafe` and
`fetchExternal`, which share one proxy pool per process; usage goes to Postgres
after the answer. The worker process runs the scheduler, whose handlers use the
same Postgres client. Both register their closing with the shutdown registry,
and the Postgres pool and the proxy pool register themselves when they are
first used.

What makes the components correct:

- scheduler: one tracked run per worker, each run counted once, no run after
  `stop`, a slot that always comes free;
- sessions: gauge, map and open MCP servers agree; a key only touches its own
  sessions; caps; idle sessions go;
- limiter: never more in a window than the limit, never a rejection without a
  full window, an honest `Retry-After`;
- keys: a deleted key stays deleted; a new key works;
- shutdown: every handler runs once, what is registered at start closes behind
  the front and after jobs have been told to stop, within the budget, and the
  process ends;
- egress: fair rotation, bounded retries, a gauge that does not overstate;
- safe fetch: a connection goes only where the lookup of its own hop was
  checked; a body is the peer's up to the limit, however it is cut;
- sandbox: success means that the program itself exited with 0 in time; every
  container has been killed or has lost its client to somebody else; a call ends
  although the pipes stay open;
- tools: a result only when there is one, the right kind of failure otherwise;
- calculator: longest tokens, the documented precedence, exact values;
- addresses: every notation of an address is classified like the address.

`PROJECT.json` lists under `hazards` each place in the code where one of these
could go wrong in a way a test would hardly reach.

## Modules

| Module | Models | Run | Proofs |
| --- | --- | --- | --- |
| `WorkerSlots` | abstract: what the scheduler promises | as a property of `scheduler` | |
| `Scheduler` | the cron scheduler | `scheduler` | `SchedulerProofs` |
| `NewsCache` | the fetch-news worker and `replaceAll`; extends `Scheduler` | `news_cache` | `NewsCacheProofs` |
| `Sessions` | the session map of the server | `sessions` | `SessionsProofs` |
| `Pipeline` | a request from headers to answer, the tool call, `recordUsage` | `pipeline`, `pipeline_null` | `PipelineProofs` |
| `RateLimiter` | limiter, script and Redis connection, one scope | `rate_limiter` | `RateLimiterProofs` |
| `ApiKeys` | key rows, CLI commands, `authenticate` | `api_keys`, `api_keys_deleted` | `ApiKeysProofs` |
| `Shutdown` | a process from start to exit | `shutdown` | `ShutdownProofs` |
| `Egress` | proxy pool and `fetchExternal` | `egress` | `OutboundProofs` |
| `SafeFetch` | one `fetchSafe` | `tools`, `fetch_null_body` | `OutboundProofs` |
| `Sandbox` | one `runPython` with its client and container | `tools` | `OutboundProofs` |
| `ToolCalls` | one tool call over `SafeFetch`, `Sandbox`, the calculator and the services; the address checks | `tools`, `fetch_null_body` | `OutboundProofs` |
| `Rationals` | exact fractions, which stand for doubles | `tools` | |
| `Expression` | tokenizer, parser, evaluator, polynomial extraction | `tools` | |
| `Numeric` | the library behind the calculator | `tools` | |
| `Calculator` | the modes of the calculator tool and what each should compute | `tools` | |
| `Addresses` | `isPrivateAddress`, `isInCidr`, `getClientIp`, `validateHeaders` | `tools` | `OutboundProofs` |
| `Tools` | `ToolCalls` with `Calculator`: what the calculator should compute | `tools`, `fetch_null_body` | |

`MC*.tla` give the constants their values together with the `.cfg` files.
Operators marked "Mutant" in a comment are the code with a plausible bug; each
property is checked to fail when its mutant takes the place of the original.

### Scheduler

One action is one turn of the event loop with the promise jobs it queues.
`TickRun` and `TickSkip` are `runOnce` up to its first await; `StartRuns` also
covers a handler that throws before it returns a promise (`T`): slot taken and
freed in one turn, nothing counted, an unhandled rejection. `SettleInTime` and
`SettleLate` are the continuation of the handler's promise before and after the
race is decided. `TimerFire` aborts the run's signal and resolves the race; the
classification looks at `handlerSettled` some promise jobs later, so a handler
that reacts quickly to the abort may still be counted as success or failure:
the second disjunct. `StopBegin`, `StopDrained`, `StopTimeout` are `stop()`.

A run is the pair of its worker and its number. `fired`, `handlers` and
`aborted` name runs that in the code exist only as closures.

- `OnlyAbandonedHandlersOverlap`: a handler that executes without being the
  tracked run of its worker was abandoned by its own timeout.
- `DrainedMeansIdle` (proved, not run): after `drained` nothing is in flight,
  though ticks may still be delivered.
- `ImplementsSlots`: refinement of `WorkerSlots`: admission into a free slot,
  exactly one accounting per run, no admission once closed.
- `SlotFreed` (liveness).
- `AtMostOneConcurrentRun` is what `docs/ARCHITECTURE.md:82` says; the code does
  not keep it (see the disagreements below), and no run checks it.

### Sessions

A request starts where it has passed the earlier steps of `handleMcp`; `pc`
names the await it stands at. `RemoveSessions` is `removeSession`, shared by
sweep, DELETE and `close()`. New sessions take three steps: `AdmitNew` (both
caps tested, server and transport created and open), `Answer` (the transport has
made the id and answers), `Register` (the map). A request that initialized
nothing ends with `NotInitialized`, which closes the server again. A server and
the id it may get are one value of `Sids`, so that a server without an id is in
`open` as well; a closed one gives its value back. `CreationThrows` and
`DeleteThrows` are the rejections of `connect()` and `handleRequest()`: the
handler stops where it is, and what it leaves behind is remembered in `thrown`,
which is history. `CloseSessions` and `CloseListener` are `close()`; that the
last connection ends later changes nothing here (see Shutdown). `age` is the time
since `lastActivityMs`, not counted further once it exceeds the idle limit.

- `GaugeMatches`, `OwnSessionOnly`, `NoOrphan`: the gauge is the size of the
  map; a request works on sessions of its key; open MCP servers and the map
  agree, except for the server of a request that creates one, the session of a
  request that deletes it, and what an exception left behind.
- `TotalOvershoot` (proved, not run), `KeyOvershoot`: by how much the caps can be
  passed.
- `AbandonedEvicted` (liveness).

### RateLimiter

`Check` samples the clock and sends; `Execute` runs one script atomically
(`Admit` or `Reject`); `Receive` hands over a reply. `Drop` loses the
connection: ioredis sends every command without a reply again, so a script may
run twice. `Expire` is the key's PEXPIRE, `SetRateLimit` an operator. `Draws`
stands for the outcomes of the script's random suffix: two checks of one
millisecond may or may not become one member. `ever` and `promised` are history.

- `MembersPerWindow`: no window, shortened by the lag between sampling the
  clock and the reply, holds more members than the limit.
- `RejectedOnlyWhenFull`, `RetryAfterHonest`: nothing lingers, and the reset
  time holds while the limit is not lowered.

### ApiKeys

Each SQL statement and each Redis command is an action. A CLI command is a
check (`CommandCheck`), a prompt during which anything may happen, and one
UPDATE. `authenticate()` is cache lookup, row lookup, and a SET of the negative
cache that nobody awaits; `create()` sends a DEL nobody awaits. Unless
`Reliable`, Redis commands may fail; `WithRedis` lists whether `create()` may be
handed a client or not (the CLI hands it none).

- `NoDirectReactivation`: no single command takes a deleted key to active, as
  `unblacklist`'s UPDATE repeats its check.
- `CreatedKeyUsable` (liveness): a stale miss heals.
- `DeletedForever` is what `api-keys.ts:212` and `delete.ts` promise. It fails:
  delete, blacklist, unblacklist.

### Shutdown

`Boot` is what a process registers when it starts, in order; resources in it
are eager, the others are created and registered by their first `Use`. The
server boots `redis`, `tool-abort`, `http-server`; the worker
`worker-scheduler`; in both the Postgres pool is lazy. Jobs (requests, runs)
come while the front admits them, use resources and let go of them. `Call`,
`Settle`, `TimeOut` are the loop of `execute`, `Signal`, `Kill`, `Fatal`,
`FloorExit` what ends a process. How long a handler takes is open: it returns
when what it waits for is over (`CanSettle`), its own limit comes first
(`GiveUp`: `gracefulClose` of Redis after two seconds, the grace of the
scheduler's `stop()`; the limits are `Patience`), or its share runs out.

The front does not wait for jobs. It waits for connections, or for the runs in
flight: `awaited` are the jobs that keep it waiting. `Detach` takes a job off it
that goes on: the client has gone, `close()` has ended its session, the answer is
sent and usage is still to be recorded; in the worker, the run's timeout has
abandoned its handler. `Teller` is the handler that aborts the signal of all
jobs: `tool-abort`, which is registered before the front and so runs after it,
or the front itself in the worker.

- `CalledOnce` (proved, not run), `NoHandlerSkipped`, `WithinBudget`,
  `ShutdownEnds`: each handler is called once and none is left out, the shares
  stay within the budget, the process ends.
- `EagerOutlivesAwaited`: a resource registered before the front begins to close
  when the front has returned, jobs have been told to stop, and no job is left
  that the front would have waited for, unless a timer ended it. Detached
  jobs may be left, and may still use the resource.
- `ConsumersCloseFirst` is `docs/OPERATIONS.md:215`; the worker does not keep it
  (see below), and no run checks it.

### Egress

A request's failure is reported and its next proxy chosen in the same turn
(`FailOver`). `Eligible` is `next()`: the earliest cooldown when nothing is
healthy, else random or round-robin, the latter as the healthy proxy at the
least `Distance` from the cursor. `waited` is history.

- `RoundRobinFair`: a proxy that stays healthy gets its turn at the latest with
  the `Size`-th request, whatever other proxies do.
- `GaugeNotAbove`: `proxy_pool_healthy` may lag, never overstate.
- `RequestEnds` (liveness).

### NewsCache

The only worker is `News`; its runs' handlers are spelled out where `Scheduler`
leaves them open. `StartNews`, `TickNews` and `TimeOutNews` are the scheduler's
actions narrowed to this handler (it is async, so it never throws before it has
returned its promise, and it is more awaits away from an aborted fetch than the
race is from its classification). `FeedEnds` is one turn of the sequential feed
loop, `ArticleEnds` one of a concurrent fetch loop, with the cursor they share
(`NextArticle`) and, when the last one ends, the handler's tests (`Collected`).
`DeleteBegins`, `DeleteEnds`, `InsertRow`, `Commit`, `Fail` are `replaceAll`.
Rows are inserted one at a time, in the order of the queue, because that is the
order in which PostgreSQL takes their locks; `WaitsFor` is who waits for whom.

- `MixedOnlyAfterTimeout`: rows of two refreshes stand side by side only after a
  run was abandoned by its timeout. This ties the scheduler to the table: its
  overlap protection is what keeps `replaceAll` exact at READ COMMITTED.
- `WholeRefreshes`: a reader sees all of a refresh or nothing, also while the
  next one removes it. `NeverBlanked`: a filled cache is never empty again.
- `NoWaitCycle`: two overlapping refreshes never wait for each other, because
  both insert in the order of their slots. A circle takes a refresh outside of
  it: run 1 takes its snapshot, another run then commits an article that run 1
  inserts later, and run 2, which sees that article, deletes it and waits for a
  row of run 1. Run 1 waits for run 2's deletion and run 2 for run 1's insertion;
  PostgreSQL ends one of them, and `Fail` is that. It takes three runs, one of
  them abandoned by its timeout. The instance TLC checks has two, and there the
  property says that nobody waits in a circle; the theorem is about any number.
- `EachArticleOnce` (proved, not run): the fetch loops never share an article.
- `AbortStopsCollecting`: an aborted collection starts no fetch and does not
  reach the database. (An abort that comes later does not stop `replaceAll`.)

### Pipeline

`pc` is the await a request stands at: the address' slot, `authenticate`, the
key's slot, the body, the tool's slot, the session, the transport. Each may
refuse (`Respond`) or reject (`Throw`, and the catch around `handleRequest`).
A scope of the limiter is a counter whose slots leave at any time (`Expire`).
`Dispatch` is `transport.handleRequest`, which begins the response and may begin
a tool call; of a batch, one of its calls. The call then goes on by itself:
`CallSucceeds`, `CallFails`, and `recordUsage` as a transaction that holds the
key's row from its first UPDATE (`UpdateKey`, `UpsertTool`, `Commit`,
`RecordFails`).

- `AnsweredOnce`: one answer, whatever rejects, except for the body `null`.
- `SlotsInOrder`: a tool runs only with the slots it needs; a request refused by
  one scope has consumed nothing of the scopes behind it. The per-tool check
  reads `method` of the body, which a batch does not have: should the SDK take
  batches, the calls in one are not counted against the tool
  (`server.ts:447-451`, against the comment at `server.ts:628-630`).
- `UsageExact`: the key's counter is the sum of its tools' counters in every
  committed state, no call is counted twice, one that is not counted has left a
  log line.
- `EveryRequestAnswered` is step 8 of `docs/ARCHITECTURE.md:393`. It fails: a
  body that is the JSON text `null` ends the handler without an answer.

### SafeFetch

One call. `Go` is the head of the redirect loop, `LookupAnswers` the lookup and
the check of a hop, `ConnectRefused` the next record of the pinned connect,
`Redirect`, `Respond` and `ReadChunk` what the peer does. A lookup has no signal,
so it goes on after an abort; every lookup may answer differently. With a proxy
pool the guard checks one lookup and `fetchExternal` makes another: of that path
only what the guard saw is stated. `Respond` with a status no `Response` can be
built with throws inside a listener when the path is pinned, and nobody catches
it there (`uncaught`). Sockets that the HTTPS agent keeps alive are left out.

- `ConnectsWhereChecked`: on every hop and after every refused record the
  connection goes to an address of the lookup that was checked for this host.
- `BodyIsPrefix`: what is returned is the body up to the limit, truncated just
  when there was more.
- `NothingUncaught` is the promise that `fetchSafe` throws on every path without
  success (`http.ts`). It fails: a pinned 204 or 304 is no promise's rejection.

### Sandbox

Node, the client it spawned and the container run beside each other. `Close`
wins the first or the second race, `Timeout` kills the client and sends a helper
(`podman kill`) nobody waits for, `GraceEnds` gives up on the pipes. What the
runtime does is open: it may refuse, the program may exit with any code, the
client may be lost, a helper may fail or come while the container is still being
created. Output that is in the pipe may arrive after the exit.

- `SandboxHonest`: success, timeout, the code and the truncation that are
  reported are those that happened.
- `ContainerAccounted`: a container that is still there when the result is
  returned has had its kill sent after the timeout, or its client was killed by
  somebody else.

### Expression, Numeric, Calculator

Numbers are exact fractions (`Rationals`) with numerators and denominators up to
`Big`; `Other` stands for every value beyond them, on which nothing is claimed.
Where the code rounds, loops to a tolerance, or calls a transcendental
function, the model has the exact counterpart or leaves the operation out. A
definition follows the loop of its source (tokens and characters by position,
the recursive descent with its depth, elimination with its pivots, the adaptive
Simpson rule with its tolerance); what it is checked against does not.

- `ExpressionsRead`: the tokens are the longest ones, and the tree is one that
  the grammar derives, as a declarative definition over token intervals.
- `PolynomialAgrees`: the coefficients `solve` reads off an equation have the
  value of the difference of its sides.
- `NumericExact`: inverses multiply to the identity, solutions solve, elimination
  gives the determinant of the Leibniz formula, statistics and loans meet their
  definitions, conversions compose, roots are roots and in order, a quadratic
  said to have none keeps one sign, derivative and integral are the polynomial's,
  a bisection ends around a root or a change of sign.
  For `irr` the statement excludes one case: see the disagreements.

### Addresses

Addresses are their octets or groups; a text is one of the notations (dotted,
mapped, compressed) with its numbers. `isPrivateAddress` is compared with a
table of blocks, `isInCidr` with the set of addresses of a block, `getClientIp`
and `validateHeaders` with whom the connection comes from.

- `AddressesClassified`: the text is private just when the address it denotes,
  directly or embedded, is in a block of the list.
- `AdmissionExact`: a forwarded address is believed only of a trusted peer, and
  a host passes with and without its port alike.

### ToolCalls, Tools

One call of one tool under the wrapper's signal. `answer` has the five kinds the
wrapper can make of a handler: a result, a result marked as an error, an
`AppError` passed on, any other error made general, and the end of the process.
`fetch-url` and `python-execute` are over the steps of `SafeFetch` and `Sandbox`,
`calculator` is one step, the others are legs that fail, answer strangely, or
answer. `ToolCalls` knows the calculator as an operator that is a constant
(`Calculated`), since its definitions are recursive; the run gives it `Calculate`
of module `Calculator`.

- `AnswerHonest`: a result only when there is one; `fetch-url` and
  `python-execute` never throw.
- `CallEnds` (liveness): every call is answered, or the process ends, or it is
  `get-news` waiting for the database.

## Runs and bounds

| Run | Instance | Distinct states | Why it is enough |
| --- | --- | --- | --- |
| `scheduler` | 2 workers (1 at startup), 2 runs each, 1 skip counted | 110,803 | two runs of a worker are an abandoned one and its successor; a second worker for `stop` to wait on |
| `sessions` | 2 requests, 2 keys, 3 ids, caps 1 and 2, idle 1 | 1,044,225 | two requests race for one slot while a third session is swept or deleted |
| `rate_limiter` | window 3, limits 1 and 2, clock 5, 2 checks, lag 1, 1 drop, 2 draws | 120,512 | a window passes once in full; each check may be resent and collide |
| `api_keys` | 1 key, 2 requests, 2 operators, unreliable Redis | 11,120 | keys are independent; two commands and two lookups overlap |
| `shutdown` | server, 2 resources, 2 jobs, 2 signals, budget 7, minimum 2, floor 3, Redis' own limit 1 | 301,015 | both signals and an error; a job that is waited for beside one that is not; a limit below the share; with the lazy pool the shares together exceed the budget |
| `news_cache` | 2 runs, 3 feeds of 1 article, 2 loops, the table empty or with 2 rows | 632,978 | an abandoned refresh and its successor; three articles let loops deliver out of order and refreshes clash in part |
| `pipeline` | 2 requests, 2 tools (one limited to 1), address and key limited to 2, 3 calls | 2,255,940 | each scope fills; two usage records meet at the key's row |
| `egress` | 2 requests, 3 proxies, 2 attempts, cooldown 2, clock 4 | 133,712 | a third proxy is what a retry can miss; cooldowns end within the clock |
| `tools` | 2 hosts, 3 addresses (1 private), 2 records, 1 redirect, limit 2 bytes, chunks of 2; 2 bytes of output kept of 3; texts up to 5 characters (20 at most, 10 tokens, depth 5); matrices to 3×3, polynomials to degree 5; some 2,700 address texts | 36,960 | a record to fall back on, a hop to look up again, chunks that end at, cross and pass the limit; each limit of the parser is reached and passed |

The other three runs (`api_keys_deleted`, `pipeline_null`, `fetch_null_body`)
each check one statement of the documentation or of a comment on an instance
that violates it; `findings` in `PROJECT.json` quotes it. Type invariants are
theorems where the module has proofs, and are not repeated as run properties,
except for `NewsTypeOK`, which bounds the indices of the fetch loops.
Bounds that are not the program's (`MaxRuns`, `MaxSkips`, `Requests`, `Sids`,
`MaxClock`, `MaxPipeline`, `MaxLag`, `MaxDrops`, `Jobs`, `Operators`, `MaxCalls`,
`MaxRecords`, `MaxChunk`, `MaxOutput`) stand in guards and are declared as such;
`CalculatorInputs`, `AddressTexts`, `Cidrs` and `HostTexts` are the inputs of the
pure operators, and `Big` is where their numbers stop. Deadlock is not checked: all these systems stop
at their bounds or when the process has ended.

Symmetry (of Redis draws) is only used where no liveness is checked.

## Fairness

- `Scheduler`: a run's timer fires. Handlers, ticks and signals promise nothing.
- `Sessions`: time passes and the interval timer fires. Requests promise
  nothing, so a stream may stay open for ever.
- `ApiKeys`: a command that was sent takes effect or fails; Redis expires its
  entries. A lookup in the database need not return.
- `Shutdown`: time passes, `runOne`'s timer and the exit floor fire. Handlers
  and jobs promise nothing.
- `Egress`: a fetch settles: undici bounds the wait for a connection, headers
  and body.
- `ToolCalls`: timers fire and what they abort settles; a lookup ends by the
  resolver's own timeout. Peers, programs, pipes and the database promise
  nothing. No query has a timeout (`db/client.ts:13-20`) and `get-news` reads its
  signal only before its query (`get-news.ts:56-59`), so `CallEnds` leaves
  that leg out. For the others it rests on `AbortSignal.timeout`, the sandbox's
  timeout and `POST_KILL_GRACE_MS`.

All are weak fairness on single actions (or on the alternatives of one await).

## Proofs

| Theorem | Says, for all constants |
| --- | --- |
| `SchedulerTypeOK`, `OverlapNeedsTimeout`, `DrainedIsIdle` | type invariant, `OnlyAbandonedHandlersOverlap`, `DrainedMeansIdle` |
| `SchedulerImplementsSlots` | every behaviour of `Scheduler` is one of `WorkerSlots` |
| `SlotIsFreed` | the liveness property `SlotFreed` |
| `NewsIsScheduled` | every behaviour of `NewsCache` is one of `Scheduler`, whose theorems therefore hold of it |
| `NewsCacheTypeOK`, `OneRefreshUntilTimeout`, `NoCircleOfTwo`, `ArticlesAreFetchedOnce` | `NewsTypeOK`, `MixedOnlyAfterTimeout`, `NoWaitCycle`, `EachArticleOnce` |
| `CacheNeverBlanked`, `RefreshesAreWhole`, `AbortEndsCollecting` | the action properties `NeverBlanked`, `WholeRefreshes`, `AbortStopsCollecting` |
| `RateLimiterTypeOK`, `WindowNeverOverfull`, `PromisedRoomIsThere`, `RejectedRightly` | type invariant, `MembersPerWindow`, `RetryAfterHonest`, and the action property `RejectedOnlyWhenFull` |
| `SessionsTypeOK`, `GaugeIsMapSize`, `SessionOwnership`, `NoOrphanedServer`, `TotalCapOvershoot`, `KeyCapOvershoot` | type invariant, `GaugeMatches`, `OwnSessionOnly`, `NoOrphan`, `TotalOvershoot`, `KeyOvershoot` |
| `SessionAges`, `AbandonedIsEvicted` | from any age, a session nobody uses becomes a tick older or goes; with it `AbandonedEvicted` (liveness) |
| `EgressTypeOK`, `RoundRobinIsFair`, `GaugeIsNotAbove` | type invariant, `RoundRobinFair`, `GaugeNotAbove` |
| `PoolAlwaysAnswers` | `next()` finds a proxy for every attempt, also when all proxies cool down |
| `AttemptEnds`, `RequestsEnd` | an attempt is followed by the next or by the end, for any retry budget; with it `RequestEnds` (liveness) for the budgets `config.ts` accepts |
| `ShutdownTypeOK`, `HandlersCalledOnce`, `NoHandlerLeftOut`, `ShutdownWithinBudget`, `EagerCloseBehind` | type invariant, `CalledOnce`, `NoHandlerSkipped`, `WithinBudget`, `EagerOutlivesAwaited` |
| `ShutdownMovesOn`, `ShutdownTerminates` | the awaited handler's wait gets shorter, the one before it is awaited, or the process ends; with it `ShutdownEnds` (liveness) |
| `PipelineTypeOK`, `RequestAnsweredOnce`, `ToolHasItsSlots`, `UsageRecordedOrLogged`, `UsageIsExact` | type invariant, `AnsweredOnce`, `SlotsInOrder`, `RecordedOrLogged`, and `UsageExact`, of which the one before is a part |
| `ApiKeysTypeOK`, `NoReactivation` | type invariant, `NoDirectReactivation` |
| `StaleSetEnds`, `CreatedKeyBecomesUsable` | once a key exists, each SET of an earlier verdict is over for good; with it `CreatedKeyUsable` (liveness) |
| `FetchTypeCorrect`, `FetchConnectsWhereChecked`, `FetchBodyIsPrefix` | type invariant, `ConnectsWhereChecked`, `BodyIsPrefix`, of any `FetchSpec` |
| `SandboxTypeCorrect`, `SandboxIsHonest`, `SandboxAccountsForContainers` | type invariant, `SandboxHonest`, `ContainerAccounted`, of any `SandboxSpec` |
| `CallsFetchAndRun` | a tool call does with its fetch and its sandbox what `FetchSpec` and `SandboxSpec` allow, so that the six theorems above hold of every call |
| `ToolCallsTypeOK`, `CallsAnswerHonestly` | type invariant, `AnswerHonest` |
| `EveryCallEnds` | the liveness property `CallEnds` |
| `AddressesAreClassified`, `AdmissionIsExact` | `AddressesClassified`, `AdmissionExact`, for every text, every range of any length and every host |

The safety theorems rest on the named `ASSUME` of each module and nothing else; what
those about liveness take besides is under "Liveness" below. Two assumptions say
more than the type of a constant: `RateLimiterAssumption` that the limits an
operator sets have a greatest one, and `CalculatorAssumption` that a calculation
ends with a value, an error or a fault, and that a value is one. The last is what
`AnswerHonest` says of the calculator, so for that tool the theorem adds nothing to
TLC, which evaluates it for the inputs of the run.
`AddressesAssumption` says what the regular expressions and `parseCidr` leave of a
text and a range: how many numbers there are, and that a prefix fits its family.

- Scheduler: the inductive invariant ties `inFlight` to `running`, says that
  handlers beyond the tracked run are aborted, and that the runs counted and
  the one in flight together are those admitted. The last part is what makes
  the refinement go through: a step that frees a slot accounts for one run.
- NewsCache (`NewsInv`, on top of the scheduler's invariant): a run has a handler
  just while its job is under way (`HandlersMatch`), so that a second job beside
  the first means an aborted one. `Snapshots` says what a refresh in its
  transaction may have seen and what it has inserted, `Deletions` whose rows it
  deletes, `ExactSoFar` that without an abort the table holds one refresh and
  nobody else is in a transaction; it is what `MixedOnlyAfterTimeout` needs to be
  inductive. For `NoWaitCycle`, a run waits only for one that holds the slot it
  inserts next; of a circle, the run whose next slot is greatest waits for one
  that has passed that slot, which is a contradiction unless the slot's row was
  committed by a run outside of the circle. For `EachArticleOnce` (`Once`), loops
  hold articles below the cursor only.
- RateLimiter (`RateInv`): what was ever added and is younger than a window before
  any check that may still be executed is still in the set (`NoneLostEarly`),
  though scripts run late, twice, and with clocks that are behind each other, and
  the key expires. So an addition, which counts the set, counts everything in
  its window. `PromiseKept` says that the members which stay until the promised
  time are fewer than the limit; a rejection establishes it for its oldest member
  (`OldestLeaves`), and only additions could break it, which end the promise.
- Sessions: a server belongs to one key while it exists, and one that is being
  created is open, in no other request and not in the map; without that,
  `Register` could add an id twice and the gauge would drift, and
  `NotInitialized` could close another request's server. The overshoot
  counts sessions and creating requests together, which only `AdmitNew` raises,
  below the cap; that of a key counts those of the key, and rests on the fact that
  a request creates sessions for its own key only.
- Egress: `waited[p] + Distance(p) < Size`. A pick other than the healthy `p`
  moves the cursor nearer to `p` by at least what `waited[p]` grows. That there is
  a pick at all (`PoolAlwaysAnswers`) needs the least of a set of naturals: of the
  cooldowns' ends and then of the indices, or of the distances (`Smallest`).

- Shutdown: the entries of the start stay at the front of the list and nothing
  is registered twice; the handlers below the one awaited have not been called,
  those of the start above it have. For the budget, shutdown began with some
  number `n` of handlers, and those behind it have used at most a share each;
  `n` shares fit, because the share is the budget divided by `n`, rounded down,
  or the minimum. For the order of closing, once the loop is below the front
  nothing it would wait for is left, for good, or a timer ended it, and once it is
  below the teller jobs have been told; the theorem assumes that the resources of
  the start are registered before both, as `index.ts` and `createServer` do.
- Pipeline: what a request has written, and the slots it holds, are functions of
  the await it stands at. Records under way, written and logged together account
  for the calls that succeeded. That the key's counter is the sum of its tools'
  counters (`UsageIsExact`) needs the value of a fold over a set of any size. The
  proofs get it without induction over data: of the finite sets on which two ways
  to build the sum disagree, one of least cardinality exists, and taking one element
  from it gives a smaller one (`SumsAgree`, `SumsExist`, `TotalGrows`).
- ApiKeys: whoever has passed a check holds a key with a row.
- SafeFetch: all records that are left to try, not only the first, are among
  those checked for the host (`RecordsChecked`, `HopChecked`); while a body is
  read, all of it has been kept and it is within the limit (`Counts`).
- Sandbox: how far Node and its client have come together (`ClientInStep`: after
  the first race the client has exited, and a container without its client has
  had its kill or lost the client to somebody else); a code is the program's own
  or the refusal's (`CodeIsOwn`); the buffers are exact after every chunk; a
  verdict that was given stays true whatever still happens in the runtime.
- ToolCalls (`ToolInv`): one clause per handler says what its answer was made of
  and that this does not change any more (`FetchReported`, `ProgramReported`,
  `CalculationReported`, `LegsReported`): a fetch takes no step after the answer, the
  runtime does, but leaves the verdict alone (`VerdictStays`); the legs before the
  one awaited were all found.
- Addresses: that two octets have the same `n` leading bits just when they agree
  after a division by a power of two (`LeadingBits`) is shown bit by bit for the
  nine lengths there are, since the provers know nothing of exponents; from it,
  a block is the octets before its length and the mask of the next, for any
  length (`BlocksByOctets`). What `normalizeIPv6` makes of a text is what the text
  stands for, wherever its gap (`Expanded`), and what `isPrivateIPv6` tests of the
  groups are the blocks of the table (`PrivateByGroups`, `SpecialByGroups`): the
  order of its early returns hides no later test, as no address with an IPv4
  address inside is also in a reserved block.

### Liveness

The provers know nothing of ENABLED, and so not of `WF_`. The theorems about liveness
take weak fairness in its other form: infinitely often the action cannot be taken, or
infinitely often it is, `[]<>~Guard \/ []<><<A>>_vars`, where `Guard` is written out
(`TimerRings`, `TimePasses`, `SweepRuns`, `Timers`, `SetEnds`, `EntryExpires`,
`FetchEnds`, `ToolTimers`). They assume this of exactly the actions whose fairness
the runs assume. That each guard
holds just when its action can change the state is read off the action; evaluating
both in every state of the runs' instances showed no difference. For `FetchEnds` it
is not a reading: `Settle` needs a proxy for the next attempt, which
`PoolAlwaysAnswers` supplies.

Each proof shows which step leads from one situation to a later one, that no other
step leads back, and that the fair action stays possible until it happens.

- `SlotIsFreed`: one situation, a run in flight, which only its end leaves.
- `RequestsEnd`: the attempts in turn. `config.ts:140` accepts 1 to 10 retries; the
  theorem assumes `Retries <= 10` and goes through the attempts one by one, for a
  pool of any size. `AttemptEnds` is one of these steps, for any budget.
- `EveryCallEnds`: fetch-url comes from a fetch that runs to one that is aborted, from
  there past its lookup, to its end and its answer; python-execute from the first race
  to the second and to its end; the others through one leg or two, of which the query
  of `get-news` may last for ever. That no hop comes
  after an abort (`FetchForward`) keeps redirects from delaying the end for ever, and
  `Underway` says that a call that has begun waits for one of these.
- `AbandonedIsEvicted`: an unused session ages to the limit, where the sweep takes it
  or it is taken before (`SessionAges` for each age).
- `ShutdownTerminates`: what is left is the pair of the awaited handler's index and the
  ticks of its share; every tick, timeout or return makes it less, a handler that is
  registered meanwhile does not add to it (`ShutdownMovesOn` for each pair).
- `CreatedKeyBecomesUsable`: no verdict "unknown" is reached about a key that exists, so
  the SETs on their way are the last ones (`StaleSetEnds` for each request); after
  them an entry that is gone does not come back.

The last three go from a step that is proved for every number, or for every request,
to all of them together. That is induction over the age (`AgeInduction`), induction over
pairs of naturals (`DescentInduction`), and the last of finitely many moments
(`LastOfAll`). None of them says anything of the code: each is true of every
behaviour whatever (the last one where `Requests` is finite), but no rule of the prover
yields it, since it instantiates no theorem about temporal formulas. They stand as hypotheses
in the theorems, for anyone to see, and the steps they are applied to are theorems
of their own without them.

### Only model-checked

- `ExpressionsRead`, `PolynomialAgrees`, `NumericExact`: recursive definitions, whose
  value for every input needs induction over data, and RECURSIVE operators, which
  no module with a theorem may reach.

Every other property of a passing run is stated by a theorem.

## Disagreements seen and not run

Met while reading and modelling; no run is spent on them.

- `docs/ARCHITECTURE.md:82` and `docs/WORKER_AUTHORING.md:126` guarantee at most
  one concurrent run per worker. When the timeout wins, the `finally` block frees
  the slot while the handler still executes (`scheduler.ts:139`), and the next
  tick starts another: `AtMostOneConcurrentRun`.
- `docs/OPERATIONS.md:215` says that consumers register after the resource they
  use and close before it, with the scheduler and the Postgres pool as the
  example. `getPool()` registers at the first query (`db/client.ts:41-50`), after
  the scheduler (`workers/index.ts:34`), and so the pool closes first:
  `ConsumersCloseFirst`.
- `irr` searches for a bracket until the product of the values at its ends is no
  longer positive, which includes 0; its bisection lacks the test of the lower
  end that `solveBisection` has (`finance.ts:155`, `solver.ts:291-292`). A rate
  that lies exactly at the lower end is left behind: for the flows -100, 60 the
  answer is 0.6, where the net present value is not 0, and not -0.4.
- A program that exits with 125, writes a line that begins with `Error:` and
  nothing on stdout is taken for a runtime that could not start
  (`python-runner.ts`).
- A timeout is documented with exit code -1; a program that had exited before
  the kill keeps its own code.
- The kill helper that arrives while the container is being created does
  nothing, and the container outlives the call; `python-execute` does not pass
  its signal on, so an abort does not stop the program.
- `constructor(1)` finds a property every object has in the table of builtins
  and fails with a `TypeError`, a general error to the caller.
- The extraction of polynomials says it is bounded to degree 8; products may
  exceed it, and it is the solver that refuses them. Variables the caller defines
  are not known to it.
- On the pinned path a timeout reads as an abort, and aborts while a body is read
  are passed on as they are; a lookup is not bounded by the signal.
- The grammar in the comment at `shared/math/expr/parser.ts:13` allows one
  postfix `!`; the parser takes any number of them. `ParsesTheGrammar` follows the
  parser.
- `linearRegression` of a constant `y` throws, by way of the correlation.
- The comment at `ssrf.ts:37-38` speaks of 192.0.0.0/24; the code blocks /16.

- A run aborted by its timeout may be counted as success or failure
  (`scheduler.ts:124`), where `docs/ARCHITECTURE.md:403` says `timeout`.
- Both session caps can be passed, by as much as `TotalOvershoot` and
  `KeyOvershoot` say: they are tested before two awaits and the session enters
  the map after them (`server.ts:530`, `server.ts:541`). `docs/ARCHITECTURE.md:248`
  speaks of the number of concurrent sessions.
- An initialize request under way when `close()` walks the map registers a
  session behind it (`server.ts:150`).
- When `connect()` or `handleRequest()` rejects (`server.ts:582-583`), the server
  of the request is neither registered nor closed; when `handleRequest()` of a
  DELETE rejects (`server.ts:501`), a session whose transport may be closed stays
  in the map until the sweep takes it. `thrown` holds both.
- `docs/OPERATIONS.md:195` says that shutdown waits for tool calls in flight, up to
  half of its budget, and aborts their signal first. `close()` waits for
  connections only, and the signal is aborted after it (`server.ts:73`,
  `server.ts:147-157`): a call that has lost its session or its client is not
  waited for, and the resources close under it.
- A query has no timeout of the client or the server, and `get-news` does not
  hand it its signal: a database that accepts a connection and says no more keeps
  the call, and its slot, for ever.
- `rate-limiter.ts:23` calls a member a unique request id; two checks of one
  millisecond share one when they draw the same of a million numbers. A script
  that is resent after a lost connection takes a second slot, or rejects the
  request whose first execution took one (`docs/SECURITY.md:145`).
- `docs/ARCHITECTURE.md:252` says the negative cache is cleared on
  `ApiKeyRepository.create`; its only caller hands it no Redis client
  (`src/cli/keys/create.ts:51`), so the entry stays for its TTL.
- A SET of the negative cache may land after the DEL of `create()`
  (`auth.ts:118`), against the comment at `api-keys.ts:122-123`.
- `handleSignal` exits with 0 also when handlers timed out;
  `docs/OPERATIONS.md` describes a forced exit with 1.
- The share of `worker-scheduler` is smaller than the grace it hands to
  `stop()` once the pool is registered too (`workers/index.ts:36`).
- `tool-abort` is registered before `http-server` and so runs after it: during
  the drain of requests their tools are not aborted.
- `pool.ts:41-43` says of `next()` with every proxy cooled down that the retry
  budget will still try the whole set. When another request failed later on an
  untried proxy, the request's first proxy has the earliest deadline and is
  picked again; the budget ends with a proxy untried.
- `replaceAll` is described as an atomic replacement (`articles-repo.ts:65`).
  When an abandoned run and its successor overlap, the successor's DELETE does
  not see the rows the other commits meanwhile, and the table ends up with
  articles of both, or the successor fails on the UNIQUE constraint.
- A request refused for its Origin after authentication (`server.ts:395-402`)
  carries no `X-RateLimit` headers; `docs/SECURITY.md:146` promises them on
  every authenticated response.
- `proxy_cooldowns_total` also counts failures and aborts of requests that began
  before another request's failure started the cooldown (`egress.ts:140`).

## Not modelled, and the plan

Left out for good: what only rounding decides, Newton, Durand-Kerner, polar forms
and the distributions of `src/shared/math/` (TLA+ has no doubles); most units,
which differ from the modelled ones in their factors only; HTML and feed text
processing, charset decoding, formatting, logging, configuration parsing and the
installer, which keep no state; the tool and worker loaders, which run once
before anything is concurrent; `get-current-datetime` and `get-current-context`,
which format the clock.

Left out so far: the health probes (`server.ts:244`; a probe that lost its race
leaves its query behind, and slow probes pile up), and the sockets which the
HTTPS agent keeps alive between calls of `fetchSafe`.

Planned, in this order:

1. Abstract specifications next to `WorkerSlots`: a window counter for the
   limiter, and for the news cache a register that readers see replaced as a
   whole.
2. `SafeFetch` over `Egress`: the retries of one call in proxy mode with those
   of its neighbours.
3. The health probes, with the pool's connections as their resource.
