# Verification of ModelProxy

TLA+ models of ModelProxy, a gateway that accepts OpenAI and Anthropic requests
with its own API keys and passes them to configured upstream services. The
models are written from the Rust code (`src/src/`), checked with TLC on small
instances, and, for the properties listed under "Proofs", proved with TLAPS for
every instance.

## The system

One process serves two HTTP servers, a proxy (`/v1/...`) and an administration
API, on a tokio runtime with many worker threads. They share

| Component | Code | State | Operations |
|---|---|---|---|
| Request loop | `proxy/handlers.rs` | per request: candidate list, index, attempts, tried upstreams, last error | `proxy_handler`, `anthropic_proxy_handler` |
| Upstream limiter | `proxy/rate_limiter.rs:166-271` | per upstream: daily and monthly counts | `check_limit`, `record_usage`, `reset_upstream_window` |
| Stream relay | `proxy/handlers.rs:1843-2306` | per streamed answer: buffer, decoded chunks, end and error flags, a channel of 100 events | the spawned relay task |
| Key limiter | `proxy/rate_limiter.rs:1-164` | per API key: window of requests and tokens, daily tokens | `check_rate_limit`, `record_usage`, background sweep |
| Store caches | `store/mod.rs` | API keys, users, upstreams, tenant lists, model settings, conditional aliases | `reload_*`, `get_*` |
| User quota | `store/mod.rs:316-382` | per user: daily and monthly counts | `check_user_request_quota`, pruned by `reload_users` |
| Model access | `store/mod.rs:145-222, 1548-1695` | (reads the caches) | `check_model_access`, `resolve_*`, `get_visible_models` |
| Log rows | `store/mod.rs:690-997`, `store/proxy_log_writer.rs` | `proxy_logs`, `conversations`, one JSONL file per day | spawned INSERT and UPDATE |
| Key usage buffer | `store/mod.rs:247-301`, `main.rs:337-343` | ids waiting for an UPDATE | flush at 50 and at shutdown |
| Upstreams and secrets | `admin/upstreams.rs`, `utils/secrets.rs`, `db/upstreams.rs`, `main.rs` | encrypted upstream keys, the configuration file, the environment | the administrators' handlers, start, `migrate-upstream-secrets`, `rotate-secrets`, `init` |
| Accounts | `admin/users.rs`, `db/users.rs`, `api_keys/`, `auth/` | users, roles, status, API keys, tokens | log in, register, create, update, delete |
| Model settings | `admin/models.rs`, `db/model_visibility.rs` | visibility and aliases of models, smart routes | `set_visibility`, `set_conditional_alias*`, `refresh_cache` |
| Service control | `bin/gui.rs` | service status, thread, password request | start, stop, poll |

How they interact: a request is checked against the key limiter and the user
quota, asks the store for upstreams and model access, and works through the
candidate list; for every attempt it asks the upstream limiter, and for an
answer it charges both limiters and orders the closing of its log row. A
streamed answer is finished by a detached relay task. Administrators write to
the database and then reload caches that requests read at the same time. A
reader that wants consistency gets none beyond one DashMap entry: caches are
cleared and refilled entry by entry, and a request keeps clones of what it read.

What makes the components correct, in short: a request ends, reaches only what
its user may use, and its client, its log row and its charge agree; limits are
overshot by no more than what is in flight; a client gets the upstream's events
in order and one end; verdicts of limiters follow the history; caches catch up
with the database; secrets are lost in no
way but the named ones. The behaviours that are hard are the
ones `PROJECT.json` lists under "hazards": checks long before the counting they
guard, lists changed while they are walked, streams cut off anywhere, unordered
detached writes, two reloads at once, crashes between two steps of a rotation.
Some of them the code does not guard against. A property then excuses the case
itself, by a history variable that only that case sets, and says that nothing
else goes wrong; the "note" of such a hazard names what is excused.

## Modules

| Module | Models | Checked by | Proofs |
|---|---|---|---|
| `ProxyPromise` | abstract: what one request is told, booked and charged | refined by `Failover` | `FailoverProofs` |
| `Failover` | the request loop with the upstream limiter, administrators and the clients | `MCFailover` | `FailoverProofs` |
| `StreamRelay` | the relay task of a streamed answer, channel, client, token counts | itself | `StreamRelayProofs` |
| `SlidingLimit` | abstract: limits told from the full history of a key | refined by `KeyWindow` | `KeyWindowProofs` |
| `KeyWindow` | the key limiter | `MCKeyWindow` | `KeyWindowProofs` |
| `UserCache` | the cache of users, its reloads, and the request quota | `MCUserCache` | `UserCacheProofs` |
| `LogRow` | the writes of a request to its log row, conversation and the day's file | `MCLogRow`, itself | `LogRowProofs` |
| `ModelAccess` | pure operators: what a model name means to a user | through `ModelSettings` | |
| `ModelSettings` | visibility and smart routes, their handlers and caches | `MCModelSettings` | `ModelSettingsProofs` |
| `Upstreams` | upstream keys, secrets, the commands, the cache of upstreams | `MCUpstreams` | `UpstreamsProofs` |
| `Accounts` | users, API keys, tokens and their handlers | through `Service` | |
| `Service` | the desktop program's window and service threads, with `Accounts` | `MCService` | `ServiceProofs` |

### Failover

A slot is one request in flight. `pc` follows the handler: `new` (before the
checks), `list` (conditional routes), `tenant` (tenant upstreams), `check`
(before `check_limit`), `await` (the upstream call), `body` (reading a whole
answer), `stream` (the relay task has it), `exhausted` (after the last attempt
on an upstream), `giveup`, `done`. `queue` is `available_upstreams` from
`upstream_idx` on: the code inserts a fallback right after the current index,
which is the new head once the index moves. `snap` is the clone of the tenant's
upstreams that `get_upstreams_by_tenant` takes; conditional routes and fallbacks
read the cache when they are considered. `vis` holds the retry settings of each
route, `used` the daily count of each upstream's window. `book` is what was
*ordered* for the log row and the conversation, `bill` how often usage was
recorded, and `dead` a history variable for `NeverDead`.

Between two suspension points (`.await` that can really suspend) the handler
runs alone on its own state, so each action is the code between two of them or
finer. The lookups of a fallback read three cache entries without a suspension
in between and are one action. Administrator actions change the caches as a
finished reload does; what a half-finished reload shows is left to the
component of the caches. Refusals before the list (key, limits, quota, body)
are one action, since they only differ in the reply. `build_upstream_request`
never returns `None`, so that branch is left out. The two handlers differ in
the API they list upstreams of (`KindOf`), and otherwise run the same loop.

`Disconnect` is axum dropping the handler's future: it can happen at every
suspension point after the first, and leaves the row "pending".

### StreamRelay

The upstream's behaviour is chosen at the start: its dialect, up to `MaxEvents`
events (data, junk, end), how the last one is cut off, and whether the
connection closes or fails. The task reads event by event; `pending` is what it
is about to put into the channel, where it waits when the channel is full and
fails at once when the receiver was dropped. `Closing` is the choice between
`[DONE]`, an error and a finish chunk. Chunk boundaries inside an event do not
matter to a decoder with a buffer (that they do matter to characters is a
hazard without a model). `tokens` says where the counts in the books come from:
`Usage::from_stream_chunks` takes them from the chunks ("reported"), an OpenAI
stream without them is estimated, an Anthropic one is booked with zero; a
`"usage": null` after the counts sets them back.

### KeyWindow

The `requests` and `tokens` deques are pushed in one critical section and
expire by the same cut-off, so one sequence of entries stands for both; `Kept`
starts at the first entry that has not expired, where the loop of `cleanup` stops. The
monotonic clock and the calendar advance independently. `log` records every
answer, with the day its request was admitted; `SlidingLimit` decides from it.

### UserCache

A task is a handler that changes a user: one statement on `db`, then the five
stages of `reload_users` (`fetch`, `clear`, `fill`, `survey`, `prune`), each of
the last four user by user, because a DashMap is locked shard by shard. A gate
is a proxy request between `get_user` and `check_user_request_quota`; `held` is
the clone it carries. `check_user_request_quota` holds the entry's lock, so it
is one step, but reads the clock before taking it: hence the choice of `today`.
`crossed` and `hazy` remember that reloads overlapped, `served` and `resets`
count what `QuotaBound` compares. What the model shows besides its properties:
the gap between `clear` and `fill` is visible to requests (`Look` is simply
disabled for a user without an entry, where the code refuses the request), and
two overlapping reloads may leave the older table until the next one.

### LogRow

Every request orders two INSERTs at its start and two UPDATEs at its end; each
is a job that goes from `queued` to `done`, the closing of the log row by way of
`written`, when its file write is over. `row` and `conv` are the two rows,
`lines` and `torn` the file of each day as sequences of chunks: a failed write
leaves a chunk without an end, on which the next record continues. Success and
failure of a request are one final status here, since a request orders only one
of them (`Failover` is about which). An INSERT after the key's deletion is
refused and so is the deletion of a key with rows, as sqlx switches foreign
keys on. `excuse` records why a write had no lasting effect. Leaving out: a kill
within one statement or one file write, and texts.

### ModelAccess and ModelSettings

`ModelAccess` has the read side as operators: `CheckAccess`, `Resolutions` (the
possible answers of `resolve_requested_model`, one for each order the map may be
iterated in), `Matches` and `RouteTargets` for smart routes, `Candidates` for a
request, and the lists of `get_visible_models`. `ModelSettings` instantiates
them twice, over the caches and over the tables, and its properties compare the
two.

A task is one administrator's request. `set_visibility` is a statement per
action: the three checks of aliases, the lookup, UPDATE or INSERT, the statement
of the alias, DELETE of the user list, one INSERT per member, the second
read, the entry of the cache. There is no transaction, so `Abort` (a statement that fails,
or a client that leaves and takes its handler with it) may come between any two.
A smart route is checked, written in one transaction and its cache filled anew;
`refresh_cache` refills both caches. `torn`, `stale`, `shared` and `loose` are
histories: they name the things whose cache may lag, because a save stopped half
way, a table changed under a handler, two saves of one name overlapped, or a
rule was saved whose conditions every request meets or none does. Times of rules
are strings that nobody checks, compared as strings: integers stand for them, 0 for
"00:00" and `LastMinute` for "23:59", those below and above for what sorts before and
after, and `Blank` for the empty one, which passes the check and is stored as none.
`Loose` says of a rule which of its conditions say nothing that way; that a rule
without such conditions decides something is `RulesDecide`. A name that two
overlapping saves may both have taken is in `shared`; `AliasesUnique` and
`OneMeaning` say nothing of those names.

### Upstreams

A row holds a key and the secret it is encrypted under (`Plain` for none), so
decrypting is equality of secrets. `InForce` is the order of
`load_upstream_encryption_key`: environment, `upstream_key_secret` unless blank,
JWT secret. The service goes `down`, `boot` (secrets replaced, keys migrated row
by row), `load` (the first reload), `up`; a command is a process of its own
beside it. `job` is the loop of `migrate_plaintext_api_keys` or
`reencrypt_api_keys` with what its SELECT read. `reload_upstreams` is fetch,
decrypt (row by row), clear, fill, clear of the tenant's list, fill of the list.

`mishaps` names six things after which a key may be unreadable, each of them
something the code does not guard against: a rotation that fails half way
(`torn`), an administrator's key given while a command or a start is at work
(`overlap`), `init` over a database with keys (`init`), a rotation whose
`upstream_key_secret` is blank (`blank`), one under a secret of the environment
that stays in force (`env`), and a weak JWT secret that is replaced at a start
under rows it encrypted (`weak`). `KeysKept` says that there is no seventh
in the model, where commands and service see one environment and where a start
reads and saves its configuration in one step. A service and a command that are
run under different environments, or a start that is killed while it writes
`config.json`, are outside it.
States after a mishap are checked but not followed (`CONSTRAINT Unharmed`).

### Accounts and Service

`Accounts` has the admin API's handlers in four steps: `find` (the rows the
handler looks up, and whether its caller may), `write`, `fetch` and `install`
of a reload. A caller is a token, `<<user, admin>>`, which is
never revoked: `Accept` asks the cache for the user and takes the role from the
token. `outdated` remembers that users were changed by one who was not an
administrator any more.

`Service` is the window and its threads. `StartService`, `StopService`,
`ConfirmSetupPassword` and `Exit` are the user's; `Tick` is `poll`, which alone
learns that a thread has finished. A thread goes through the stages of
`run_service`; in `wait` it looks at the password channel for 300 s and at
nothing else. The admin server's handlers are those of `Accounts`, which start
while a thread serves and may end while it drains.

## Runs

| Run | Question |
|---|---|
| `contention` | Two requests on two upstreams with limits 1 and 2, one retry, resets and midnights at any time: `UpstreamOvershoot`, and the refinement `KeepsPromise`. |
| `routing` | One request, three upstreams (one of the other API), two models, four alias results, three tables of fallbacks that name each other, one administrator edit at any point: termination, its bound, and where the request may go. |
| `blocking` | Expected violation: README.md:18 against the retry loop. |
| `stream` | All streams of up to four events, both dialects, all cuts and endings, token counts that come, come late or are taken back, a channel of two and a client that may stop or leave at any time. |
| `key_limits` | One key with limits of 3 requests, 4 tokens, 3 tokens a day; two requests, three ticks, one midnight, up to five answers. |
| `key_rpm` | Expected violation: README.md:14 against check-then-record. |
| `users` | Two administrators who create, change and delete two users and reload at once, fetches that fail, two requests, a limit of one request a day, one midnight: staleness, pruning, and the quota. |
| `log_rows` | Two requests of one key, every order of their writes, one error, one stop and restart, one midnight, deletion of the key at any point: the rows and the file. |
| `log_pending` | Expected violation: README.md:20 against an UPDATE that runs before its INSERT. |
| `models` | Three settings handlers, two at a time, over an ollama upstream with a models column and one without: what requests see (`Agrees`, `Refused`), whose alias it is, what a name means, which rules decide, and whether what is listed is served. |
| `upstreams` | Two administrators with two writes over two upstreams, one start and one command at any moment, five kinds of configuration, crashes: `KeysKept`, `NoPlaintext`, and the caches. |
| `service` | First start, the password dialog, two starts and stops at any moment, exits, and three requests, two at a time, that change users and keys: an administrator remains, one service runs, the caches admit whom the tables say, and a stop ends. |

Bounds. Two slots are enough for a check to fall between another request's
check and its charge; the overshoot needs nothing more, and the theorem covers
any number. Routing needs no second request, since requests only meet in the
limiter, but three upstreams: one to fail, one to fall back to, one to come
back from. A channel of two is full after two events and three more items
follow. `users` needs two writes for a stale reload and a third user would only
repeat the second; a limit of one makes every extra request visible. `log_rows`
has two writers for the one open file, and one error is enough to spoil the
other's record. Five answers are one more than the window can hold by its limits.
`models` has three handlers, so that a save can lie between another one's check
and its write and a refresh find both half done; its aliases include one that
is a model's name, one that two models want, and one that differs by ":latest".
`upstreams` has two writes, for a reload that is overtaken and a key that
changes under a command; one start and one command give every
order of their steps, and a second of either would begin from a state the
instance may begin with as well, since `Installed` has every kind of
configuration. `service` needs two threads, one that is told to stop
and the next, and three requests: two that demote each other and one that must
then be refused or excused.

Fairness. `Failover` assumes weak fairness of each handler's own steps: the
runtime polls every task, and an upstream call ends because the HTTP client has
connect and read timeouts. Nothing is assumed of clients and administrators.
An upstream that keeps a connection open by sending something within every read
timeout is outside this assumption (there is no total timeout: the client is built with
`connect_timeout_secs` and a read timeout of 120 s, `proxy/upstream.rs:130-131`, and
`request_timeout_secs` of the configuration is read by nothing). `StreamRelay` assumes it for the relay, and of a
client that has not left that it reads on: a client that neither reads nor
leaves does hold the relay, as the code has no timeout there. `Service` assumes
it of `Tick` (the window repaints every 200 ms), of each thread (threads are
scheduled, the listeners return, 300 s pass) and of each handler that has begun
(statements end, after `busy_timeout` with an error). The last one is also an
assumption about the clients of the admin server: the graceful shutdown of
`gui.rs:1074` has no timeout, so a client that sends half a request, or does not
take its answer, holds the drain and with it the stop. Such a client is outside
`StopEnds`, as one that neither reads nor leaves is outside `RelayFinishes`.
Nothing is assumed of the user: `StopEnds` holds whether or not he ever gives
the password.

## Findings

- `blocking`: after a 429 the same upstream is asked again; `UpstreamBlocker`
  is never used, although README.md:18 promises automatic blocking.
- `key_rpm`: two concurrent requests pass the last free place of a key's
  requests-per-minute limit (README.md:14). `RpmOvershoot` states what does hold.

- `log_pending`: the INSERT and the closing UPDATE of a log row are separate
  tasks; a request that ends at once may have its UPDATE run first and stay
  'pending' (README.md:20). `Recorded` states what does hold.

## Proofs

Every theorem holds for every value of the constants that satisfies its module's
named assumption, which gives the types of constants and says that a bound is a
number; the proofs use no other assumption.

`FailoverProofs`:

- `TypeCorrect`: the type invariant, with `HasCurrent` (a handler in its loop
  has a current entry). `HasCurrent` is what makes it inductive: charging the
  current upstream only keeps the type if there is one.
- `OvershootSafe`: `UpstreamOvershoot` is not inductive, since a state in which
  the window is full and others are still in flight may exceed any bound in one
  step. `OvershootInv` counts those in flight (`Using`) with what was counted.
  It survives because nobody starts using a full upstream, and the one charge
  that fills it is by a user that stops using it.
- `FuelBurnsSafe`, `VisitBoundSafe`: the measure `Fuel` is the length of the
  remaining list plus the number of upstreams never seen. A step to the next
  entry removes one from the list; an inserted fallback adds one but is an
  upstream not tried, which becomes seen. The bound follows as `idx + Fuel`
  never grows once the list is complete.
- `NeverDeadSafe`, `OnlyPermittedSafe`: `RoutingInv` says of the list and of
  all that may still be put on it (the tenant's clones, the conditional routes,
  the fallback in the settings) that it is permitted and not dead. It must cover
  the sources, since the list is filled from them later and they are clones.
- `NeverUnavailableSafe`: `Reason` says at which places of the loop an error is
  already known; an entry always makes an attempt, and an attempt leaves one.
- `PromiseKept`: refinement of `ProxyPromise`, one case per action, with the
  invariant `Linked` that ties `pc`, `reply`, `book` and `bill` together.

`UserCacheProofs`:

- `QuotaSafe`: `QuotaInv` keeps, per user, the requests served within one
  allowance per reset plus what today's counter says, and no counter above any
  limit; `Dated` keeps counters and requests out of the future, or a midnight
  could find a counter that is already tomorrow's.
- `PruneIsSafe`, `CacheAgrees`: `ReloadInv`. A reload that is not crossed is the
  only one (`Sole`), so it has the cache to itself and `Phase` can say what the
  cache and the list hold after each part of each pass; `Fresh` says that its
  snapshot is the table unless somebody is about to fetch; `Marked` says that a
  crossed reload has left `hazy` behind, which only an uncrossed end takes away.

`UpstreamsProofs`:

- `TypeCorrect` with `Started` (a migration of the service runs only at its
  boot, the first reload only while it loads).
- `NoPlaintextSafe`: `Sealing`. While the service boots a plaintext row is still
  among those its migration has to turn to, and a handler carries its key
  encrypted, so that nothing it writes later is plaintext.
- `KeysKeptSafe`: `Kept`, four parts. `Pending`: a handler holds its key under
  the secret in force; `Current`: a row, and what a loop has read of it, is the
  key given last; `Openable`: without a rotation that has written, no key is
  under another secret; `Rotation`: a row is under the new secret or still to be
  turned to. Together they carry a rotation over the moment at which the
  configuration is saved and every row changes its meaning.
- `AgreesSafe`: `CacheInv`, as long as no mishap has occurred. A reload that nothing
  has crossed has the maps to itself (`Alone`), has fetched what the rows are unless
  somebody who wrote since is about to fetch (`Fresh`, up to a plaintext key that a
  migration has encrypted since), and has brought the maps as far as its step says
  (`Filled`); with nobody reading and nobody about to, the maps are right (`Settled`).

`ServiceProofs`:

- `AloneSafe`: `Known`, whatever is alive is the thread the window knows and
  calls running; a start is possible only when a tick has found it finished.
- `LastAdminSafe`: `Guarded`, what `Allowed` lets in stays directed at another
  user until it is written, by a caller who claims to be an administrator: if he
  is, he remains one after his own write, and if he is not, `outdated` is set.

- `AdmittedSafe`: `Mirrored`, per cache: with nobody about to reload it, it shows
  the table or is hazy; a reload that no other crossed is alone after its query,
  and has fetched what the table says unless somebody who wrote since has yet to
  fetch. `Attended` (handlers are at work only while a service serves or drains)
  and `Known` carry it over the start: the load has the tables to itself.

`ModelSettingsProofs`:

- `AliasesUniqueSafe`: uniqueness is checked and written in different statements,
  so the invariant `NamesInv` has, besides that a name is borne once (`Alone`),
  what each handler between its check and its write still relies on (`Relied`):
  that no route has the name and no other model bears it. A write by somebody
  else could only break this for a name that `shared` then holds. `Placed` says
  which task a handler at each statement has.
- `TypeSafe`: `Held` adds what the types of the local variables are at each label,
  among others that a reload's list is of rows until their users are fetched and
  of entries then. Nothing ever deletes a row of `model_visibility`, which is what
  a save between its lookup and its UPDATE needs.
- `AgreesSafe`: `CacheInv`, thing by thing: its cache is right, or it is `torn` or
  somebody is changing it; and each handler either has been marked `stale` for it
  or holds of it what the tables say (`Owed`). For a save `SavedBy` says how far it
  has brought row and user list, since what it will put into the cache is made
  of the row it reads again and the list it was given, and the two agree only if
  nobody wrote in between. A step of another handler that changes a table marks
  everyone who knows the thing, so the proof of a step looks at its own handler and
  at the thing it writes, fetches or puts (`Touched`, `Brought`, `Aside`).
- `RefusedSafe`, `OneMeaningSafe`: consequences of `Agrees`, of the types, of
  `Alone` and of UNIQUE(upstream_id, model_name): an answer of
  `resolve_requested_model` is a model whose row lets the user in, and a smart
  route's targets were asked for one by one.
- `ListedIsServedSafe` needs the types only: it compares two reads of the cache.
- `RulesDecideSafe` is stated for the case that every request is possible
  (`Requests` is what a run is given of them). `RulesInv`: a stored rule is
  `StoredRule` of one that passed `ValidRule` and is not loose, and a handler at
  its write has had its rules checked.

`StreamRelayProofs`:

- `FaithfulSafe`: `ReadInv`, the chunks are the due events among those looked at, in
  their order, and `PipeInv`, what the client got, what is in the channel and what
  waits for room are, one behind the other, the chunks and then the closing items
  (`Sent`), as long as the client has not gone; of one that has gone it got the
  beginning. Sequences are compared position by position.
- `OneTerminatorSafe`, `EmptyMeansErrorSafe`: from the same two, as `Closing` comes
  behind all chunks and its last item is the terminator.
- `BooksAgreeSafe`: with `SettledInv`, what is booked at the end is what the
  stream's outcome says.
- `RelayWorksSafe`: `Work`, a number, is what the task has still to decode and to
  send; each step of the task takes some of it, and none of the client's adds
  any. A task that always may take a step therefore ends.

`KeyWindowProofs`:

- `LimiterImplementsHistory`, the refinement of `SlidingLimit`. `WindowInv`: the
  window is the end of the history, and all before it has expired (`EndOfLog`); as
  the history is in order of time, cleaning up leaves exactly the unexpired ones.
  `DayInv`: the counter lies between today's tokens of today's requests and all of
  today's, and a stale one is of a day before every request of today.
- The sums of both modules are recursive functions. `RecursionIsPartialSums` makes
  each a sequence of partial sums, by the least position at which a claim about
  them fails (`Least`, from the well-foundedness of the naturals) where an
  induction would be; `TotalOfSuffix`, `TotalAppend` and `TotalMonotone` follow.
- `RpmOvershootSafe`: `RpmInv` counts with the answers of the window the requests
  under way, which will be answers.

`LogRowProofs`:

- `RecordedSafe`: `Ordered`, which writes may have been ordered at each state of
  the handler, and `InStep`, what the two rows are while each of the four jobs is
  queued, written, done or lost, as long as nothing excuses the request.
- `ReadBackSafe`: `FileInv`, five parts. `Named`: a row names what its write
  returned; `Later`: who has not come to the file write has written nothing;
  `Found`: who has written has its record at the end of a line that has its end,
  behind nothing but the scraps of others; `Past`: chunks are of requests that
  are over, so that none of them writes again; `Scraps`: the open line holds
  only what failed writes left. Without `Past` a scrap on a line might be of a
  request that later succeeds in the same file, which `Spoiled` excludes.

Model-checked only: `EveryRequestEnds`, `RelayFinishes` and `StopEnds` are
liveness, which the prover does not do. Each has its safety side proved: `FuelBurns`
and `VisitBound` for the first, `RelayWorks` for the second, `Alone` for the
third. All other properties that runs expect to pass are theorems.

## Plan

What is left, in order:

1. An abstract specification of a settings cache (written, then seen by readers) that
   `ModelSettings`, `UserCache` and `Upstreams` refine, and a measure like `Work` and
   `Fuel` for the handlers of `ModelSettings`.
2. The buffer of `last_used_at`, with its flush at 50 and at shutdown.
3. Characters that are split between two chunks of a stream.
4. The settings page of the window, which writes the configuration file that
   the service thread may be writing too.

## Not modelled

- Format conversions (`proxy/upstream.rs`, `convert_*`): called by unit tests
  only. The load balancer and `UpstreamBlocker`: constructed and never called.
- The monthly limits of upstreams and users: the daily ones with another period.
- Retry delays, texts of messages and errors, headers, HTTP itself (what its
  liveness assumptions leave out is said under Fairness).
- The buffer of `last_used_at`: a displayed column (see Plan).
- Usage statistics, audit queries, the audit files, the error log, the loading
  of the configuration, the web interface: queries, formatting, I/O.
- `ModelSettings`: the check of mixed API types in `upsert_conditional_alias`,
  the columns of headers and retries (whose effect is in `Failover`), the lookup
  of the tenant, the lists shown to administrators, deletion of users.
- `Upstreams`: `bin/gui.rs`, which starts the service without migrating
  plaintext keys; groups; the test handlers; several tenants; a crash within the
  writing of the configuration file; a cache operation shard by shard (as in
  `UserCache`). Encrypting a key and its UPDATE are one step for a migration,
  which awaits nothing in between. The limiter's reset by an update is in
  `Failover`.
- `Accounts` and `Service`: passwords, e-mail addresses, the expiry of tokens
  and keys, several tenants, the settings page, ports, log lines.
