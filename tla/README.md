# TLA+ models of fp

fp is a foundation platform: a server that keeps users, logins, sessions,
roles, keys, configuration and notifications for several applications
(`cmd/fp`), an instant messaging gateway (`cmd/fpim`), and a Go SDK that
applications embed (`sdk/`). State is in Postgres and Redis; several processes of
each kind run side by side and almost nothing is locked, so correctness rests on
the order of round trips, on expiry times and on Lua scripts. That is what these
modules model.

    tlc -workers 2 -config LoginFence.cfg MCLoginFence     # one run
    tlapm LoginProofs.tla                                  # the proofs about two modules

`PROJECT.json` lists the components, the runs, the source lines each definition
translates, a plausible bug (mutant) each checked property catches, the hazards
and the findings. An operator that is only the mutated form of another stands
directly before it and is marked "Variant" or named after the bug
(`RejectsAboveLimit`).

## 1. Inventory

Every path is relative to `src/`. "Hard" names what a test hardly reaches.

### Server (`cmd/fp`)

| component | state | operations | hard | what makes it correct |
|---|---|---|---|---|
| Login and account administration (`internal/service/auth.go`, `account.go`, `user.go`, `domain/user.go`) | user row (status, password hash), user's revocation epoch, sessions | Login, SetStatus, ResetPassword, RevokeUsersSessions | no lock between a login and an administrator; every round trip may fail after it took effect | an acknowledged freeze, deletion or reset leaves no usable token |
| Sessions (`service/session.go`, `store/session.go`, `domain/session.go`) | `fp:sess:{token}`, user index, epoch, rotation and extension locks, rotation mapping | Issue, Validate (with extension and rotation), Logout, RevokeSession | Validate writes back what it read several commands earlier; three writes per rotation; four expiry times | nothing outlives `max_lifetime`; a retired token dies; the sweeps see every session |
| Revocation push (`store/revoke.go`, `grpcapi/watch.go`, `grpcapi/auth_service.go`, `sdk/client.go`, `sdk/cache.go`, `sdk/auth.go`) | Redis channel, hub and its subscribers' buffers, Watch streams, SDK cache with generations, singleflight | announce, fanout, purge, Watch, Validate, Logout | lossy channel, silent resubscription, full buffers, dead connections nobody notices, answers overtaken by revocations | a revoked token leaves every cache, by push or at the latest when its window ends |
| Configuration centre (`service/config.go`, `store/config.go`, `grpcapi/config_hub.go`, `sdk/config.go`) | versions per application and type, hub, snapshot in the SDK | Save, Rollback, DeleteType, push, reload | read then save; merged reload signals; version numbers that restart | clients end with the newest version and never go back; an acknowledged version is not lost |
| Login codes and rate limits (`service/logincode.go`, `store/ratelimit.go`) | code, tries, window counters | issue, verify, allow | two scripts with separate expiry | a bounded number of tries and one success per code |
| OAuth login, phone binding, identities (`service/auth_oauth.go`, `oauth_store.go`, `user.go`, `user_link.go`) | state, claim, result, ticket, bind ticket; table identity | start, callback, poll, exchange, bind; find, create, attach, link | repeated callbacks, a step failing after the claim, concurrent transactions on one person | one exchange and one login per flow; one account per union key |
| Authorisation (`service/authz.go`, `policy.go`, `permission.go`, `sdk/authzcore`, `sdk/client.go`) | roles, parents, grants, roles of users, default role; the policy copy in each SDK | editing, compile, announce, refresh, decide | check then write; a graph without cycles; a copy that is refreshed by events, at reconnects and by a timer | tables stay sound; copies settle on what the tables say |
| Access keys and signing (`service/accesskey.go`, `sdk/accesskey.go`, `nonce.go`, `usage.go`, `middleware.go`) | key rows, cached keys with flights, nonces, recorded uses | create, bind, disable, delete, verify, report | an answer overtaken by an event; a table of nonces that is full; reports that fail | a disabled key leaves the cache; a nonce is used once; no use is lost |
| Applications and service credentials (`service/application.go`, `imcred.go`, `grpcapi/auth_interceptor.go`, `im/imgrpc/appauth.go`) | application rows, fp-im's secret, three caches of verifications | create, status, IM flag, delete, rotate; a server's call, fp-im's call, a stream to fp-im | verifications are remembered and nothing takes them back | a credential works no longer after its end than one verification is remembered |
| Administrators and console (`service/admin.go`, `internal/httpapi`) | admin rows, epoch, tokens | Login, ChangeAccount, ResetPassword, EnsureBootstrap, Logout | epoch raised after the commit | no session outlives the password it was opened with; a password is replaced once |
| Notification centre (`service/notify*.go`, `internal/notify`, `sdk/notify.go`) | idempotency key, providers, templates, links, built senders | Send with lease and fail-over, console edits | a lease that expires under a slow provider, crashes, retries of the SDK | one message per key |
| System configuration, login log, generated code, start-up | rows in Postgres | single-statement CRUD | - | not modelled, see section 8 |

### IM gateway (`cmd/fpim`) and the IM half of the SDK

| component | state | operations | hard | what makes it correct |
|---|---|---|---|---|
| Connection registry and hub (`internal/im/registry`, `hub`, `wsapi`, `bus`, `cmd/fpim/main.go`) | subject hash in Redis, node table, each node's view of the others, the hub's connection table, per-node channel | handshake with a connection policy, eviction, Kick, teardown, heartbeat, refresh, re-registration after data loss | connection goroutine, kicks, heartbeat and reregistrar interleave on several nodes; messages are lost while a node resubscribes; Redis may lose everything | a connection in service can be found by the other nodes; no more connections than the policy allows |
| Events, streams and routing (`hub/deliver.go`, `hub/hub.go`, `registry/liveness.go`, `imgrpc`, `rendezvous`) | business streams, serving table, envelopes under way | Deliver, AddStream, SetServing, shutdown | first and last decided under the lock and announced outside it; nodes that disagree on who serves | the table settles on the truth; an envelope is handed over once; a shutdown reports what it closes |
| Stream to the business server (`imgrpc/server.go`, `sdk/im/server.go`) | pending calls, frame queue, workers, heartbeat | call, result, frame, callback, ping, loss | both directions bounded, calls inside callbacks | every call returns |
| Entry and client (`wsapi`, `fpappcfg`, `fpauth`, `bizauth`, `multiauth`, `sdk/im/client.go`) | settings and verdict caches, guest buckets, token index of the hub, reconnect loop | dial, first frame, verify, close codes, revoke | fetches shared by waiters, revocations overtaking a handshake | a revoked token's connections close; a client comes back or says why not |

### How the parts interact

* A login reads the epoch, writes the session and reads the user again. An
  administrator writes the user, bumps the epoch and sweeps the sessions. They
  share only Postgres and Redis.
* Every request that reaches an application calls `Auth.Validate` in its SDK,
  which answers from the cache or calls `SessionService.Validate`; that call may
  extend or rotate the session. A request signed with an access key takes the key
  from the same cache. Both end in a decision over the SDK's copy of the policy.
* A revocation, a change of a key, of the policy or of a configuration is
  published in Redis. Each fp process forwards it to its Watch streams, each SDK
  removes or fetches again. After any doubt (gap, full buffer, new stream)
  everything is purged or fetched.
* fp-im verifies tokens with the SDK, registers the connection in Redis with one
  script, tells other nodes to close what was replaced over their channels, and
  forwards the events of a connection to a node that has a business stream.

## 2. Modules

| module | models | source |
|---|---|---|
| `AccountAccess` | abstract specification: access is granted only while the account is not locked, and locking waits until nothing is granted | - |
| `LoginFence` | logins racing SetStatus, ResetPassword and RevokeUsersSessions | `service/{auth,account,user,session}.go`, `domain/user.go`, `connector/password.go` |
| `SessionLifecycle` | one session in Redis: Validate, tryExtend, tryRotate, Revoke, the user index | `service/session.go`, `store/{session,epoch}.go`, `domain/session.go` |
| `RevokePush` | announce, Redis subscription, RevokeHub, Watch, the SDK's loop, cache and Validate | `store/revoke.go`, `grpcapi/{watch,auth_service,server}.go`, `sdk/{client,cache,auth}.go` |
| `ConfigCenter` | console, hub, Watch, bindings; the IM settings on their way to a gateway | `service/config.go`, `store/config.go`, `grpcapi/config_hub.go`, `sdk/{client,config,bindtype}.go`, `im/fpappcfg` |
| `SignIn` | login codes, OAuth flows, the identity table | `service/{logincode,auth_oauth,oauth_store,user,user_link}.go`, `store/ratelimit.go` |
| `Notify` | Send with its idempotency lease and fail-over, the console's edits, the SDK's retries | `service/notify*.go`, `sdk/notify.go` |
| `ImConns` | the connections of one subject on several gateway nodes | `im/{registry,hub,wsapi,bus}`, `cmd/fpim/main.go` |
| `ImServing` | streams, serving table, routing, shutdown | `im/hub`, `im/registry/liveness.go`, `im/imgrpc`, `cmd/fpim/main.go` |
| `ImStream` | one stream between the SDK's IM server and a node | `sdk/im/server.go`, `im/imgrpc/{server,stream}.go` |
| `ImEntry` | client, handshake, caches, guests, revocation at the gateway | `sdk/im/client.go`, `im/{wsapi,fpappcfg,fpauth,bizauth,hub}` |
| `Authz` | roles, permissions, compiled policy, its copy in the SDK | `service/{authz,policy,permission}.go`, `sdk/{client,authz}.go`, `sdk/authzcore` |
| `AccessKeys` (extends Authz) | keys, their cache, signed requests, nonces, uses | `service/accesskey.go`, `sdk/{middleware,accesskey,nonce,usage}.go` |
| `AppCreds` (extends AccessKeys) | applications, credentials and the caches that remember them | `service/{application,imcred}.go`, `grpcapi/auth_interceptor.go`, `im/imgrpc/appauth.go` |
| `Console` (extends AppCreds) | administrators; the composition of the tower | `service/admin.go`, `internal/httpapi` |
| `LoginProofs` | the theorems about `LoginFence` and `SignIn` | - |
| `SessionProofs`, `RevokeProofs`, `ConfigProofs`, `NotifyProofs` | the theorems about `SessionLifecycle`, `RevokePush`, `ConfigCenter`, `Notify` | - |
| `ImClientProofs` | the theorems about `ImConns` and `ImEntry` | - |
| `ImServerProofs` | the theorems about `ImStream` and `ImServing` | - |
| `AccessProofs` | the theorems about the tower under `Console` | - |
| `MC*` | instances for TLC | - |

A proof module about two components extends both, so that they share lemmas. The two have
no name in common; that is why one of each pair has prefixed names for the usual parts
(`FenceInit`, `FenceNext`, `FenceSpec`, `FenceTypeOK` in LoginFence, `Entry...` in ImEntry,
`Sdk...` in ImStream).

Most modules have a variable `inst` (`setup` in ImStream), which Init chooses from the constant
`Instances` (`Setups`) and nothing changes. An instance is a record: who takes part, what they
do, how many faults of which kinds happen. One run so covers several small
scenarios, each with a workload that reaches its own corner, where one scenario
with everything in it would be out of TLC's reach. Variables named in a comment as
history are read by properties only: they date what was read, or mark an accepted
exception at the step where it arises.

### LoginFence

One user. Each login is a process with a program counter: `Authenticate`,
`ResolveLogin`, the revival of a PENDING_DELETE account (`ReviveRead`,
`ReviveWrite`), `ReadEpoch`, `PutSession`, `RecheckLoginable`, `RevokeIssued`.
Each administrative operation is a process: `SetStatusRead`, `SetStatusWrite` or
`SetPassword`, `Bump`, `ListUserTokens`, `RevokeToken` per token, `AdminDone`.
`LoginError` and `AdminError` end a process at any round trip. The password hash
is a version number (bcrypt salts every hash, so a stored hash never recurs).
`gen`, `lgen`, `seenGen`, `seenHash` are history. `SessionEnds` covers everything that
deletes a session elsewhere (logout, expiry).

### SessionLifecycle

One login at time 0 and the tokens rotated from it. `Validate` is the sequence
`ValidateGet`, `ValidateEpoch`, then `ExtendLock`/`ExtendPut` or
`RotateLock`/`RotateNew`/`RotateMap`/`RotateOld` (or `RotatedTo`, for the loser
of the lock); `ValidateDies` ends it anywhere. `Revoke` is `RevokeBegin`,
`RevokeList`, `RevokeSrem`, `RevokeToken`, `RevokeDone`, `RevokeFails`. Keys carry
their expiry; `Tick` advances the clock and removes what has expired. A logout that does
not find its token is `RevokeGone`. Durations are ticks; the relations between them are
those `SessionPolicy.Validate` enforces (`PolicyAssumption`), so the idle timeout may be
longer than the floor of the index, as the default for mobile clients is. The history
variables date the grace write of a rotation (`cut`, `lastPut`) and name who was
overlapped: requests by a revocation (`overtaken`, and `undone` for what they wrote) or by
a rotation of their token (`late`); `lost` are tokens the index left out.

### RevokePush

One token, one SDK client, one server process. Events about other tokens fill the
same buffers (`RevokeOther`). A subscriber's channel and the wire behind it are
one queue. `SubscriptionCut` then `ResubscribeSilently`/`Resubscribe` is go-redis'
reconnection; `ConnectionBreaks` is a connection that died unnoticed;
`Shutdown`/`Exit`/`ServeWhenReady` a restart. The generation counter of the cache
is modelled by its use: `flight.overtaken`. `lost` and `raced` record the two
accepted exceptions: an event dropped at a full buffer or a failed PUBLISH, and
the window in `putIfGen` (section 6).

### ConfigCenter

One partition of one application's configuration, and one watching process: an
application with a struct or a map binding, or a gateway. `Save` is two statements
(`SaveMax`, `Save`), `Rollback` reads and then saves, `DeleteType` removes all
versions and with them the numbers. `Publish`, `Subscribe`, `HubRun`, `Watch`, `Recv`
carry the signal; `ReloadTake`, `ReloadFetch`, `ApplySnapshot` are the one goroutine
that reloads; `BindFetch`, `BindRegister` the two halves of Bind. A content is a
function on the keys that are set; a value may have a type that does not fit.
`SetIMConfig`, `PublishIM` and `Load` are the IM settings.

### SignIn

`SendLoginCode` (with `AllowSend` over the rate rules, and the script `Issue`) and
`Verify` are each one script. A flow is `StartOAuth`, `CallbackState`, `ClaimCallback`,
`ExchangeCode`, `DeliverResult`, `PollOAuth`, `ExchangeOAuth`, then `Settle` and
`AttachIdentity`, or `BindPhone`, `BindVerify`, `TakeBind`, `LinkPhone`, `LinkCommit`. A
transaction is one step unless it inserts after it looked (`EnsureFind`,
`EnsureInsert`, `LinkPhone`), where the advisory locks (`UnionLocked`, `PhoneLocked`)
and the unique index are what keep others out. `Fail` ends a request anywhere.

### Notify

A caller (`Send`, `SendOnce`, `Retry`) and the server's request for each attempt:
`LoadTemplate`, `AcquireSet`/`AcquireGet`, `Candidates`, `ProviderFor`, `RenewIdem`,
`SendVia`, `SettleIdem`. An attempt at a provider may succeed, fail, or succeed
without an answer. A tick is half of the lease. `Touch`, `PutTemplate`, `CheckLink` and
the handlers over them are the console. `excused` marks the faults after which the
service cannot know of the first message.

### ImConns

One subject of one application. `Handshake` is the Lua script as one step; `Evict`
takes one reference at a time, either closing locally (`CloseLocal`) or publishing
KICK to the home node; `AddConn`, `Wake`, `ReadEnds`, `RegistryRemove`, `RemoveConn` are
the rest of the connection's goroutine. `Kick`, `KickAll`, `KickOne` and
`KickError` are the administrative path. `Beat`, `Refresh`, `DropLocal` maintain a
node's view; `Consume` handles one signal of the channel; `SelfPresent`,
`Snapshot`, `Reregister` are the reregistrar, whose lookup of its own entry, heartbeat and
handshakes may each fail; a handshake that fails is counted and not tried again. `Cut`,
`Loss`, `Crash`, failing HDEL and failing Kick are the faults; `Expire` is the TTL of a
field nobody renews, or whose renewals fail.

`ReadEnds` stands for everything that ends the read loop: the client leaves, idle
timeout, OnRevoked, a full send queue, the shutdown's close. RemoveConn's wait on
`established` is always satisfied, because its only caller runs in the goroutine
that returned from AddConn. `DropLocal` may happen whenever the target is not
subscribed, because a publish for any other subject triggers it.

### ImServing, ImStream, ImEntry

`ImServing`: a stream is `AddStream`, `Declare`, `StreamEnds`, `RemoveStream`, `Retract`,
so that what is decided under the hub's lock and what is called outside it are
separate steps. `Signalled`, `WriteServingTable`, `Beat`, `Refresh` are Liveness. An
envelope is in `DeliverLocal`, `DeliverRoute`, `PublishNext` or in the inbox that
`HandleEnvelope` empties. `Signal`, `HttpShutdown`, `CloseLocalConns`,
`WaitConnsDrained`, `GrpcStop`, `Deregister`, `Exit` are shutdown. Rendezvous hashing is
a weight per node, and a route ranks each node by the number of heavier ones (`Rank`):
the same order as the code's sort, in a form that can be proved about. ImConns and ImServing meet in AddConn and RemoveConn.

`ImStream`: `Register`, `Send`, `Wake`, `Timeout` are one call; `RecvReady`,
`RecvResult`, `RecvFrame`, `DropStream`, `Backoff` the loop; `Consume`,
`CallbackCalls`, `CallbackReturns` the callbacks; `Ping`, `Pong` the heartbeat;
`NodeRecv`, `Admit`, `Handle`, `Emit` the node. The transport holds `window` messages per
direction.

`ImEntry`: a client (`Dial`, `Connected`, `Refused`, `Lost`, `Redial`, `GiveUp`, `Close`)
and a handshake (`ReadAuthFrame`, `Load`, `Fetched`, `VerifyFp`/`VerifyAnswer`,
`VerifyBiz`, `VerifyGuest`, `ServeHandshake`, `HubAddConn`, `Hello`, `ReadLoopEnds`,
`Teardown`).
`Revoke`, `OnRevoke`, `OnRevoked` carry a revocation to the hub, one application at a
time. Close codes are the numbers of the code. The registry's verdict is
nondeterministic here; ImConns is about it.

### Authz, AccessKeys, AppCreds, Console

One tower, because the decision on a request joins all of them: `Console`'s Next lets
every call of the console pass `requireAdmin` and then be a call on roles
(`ConsoleCall`), keys (`KeyCall`) or applications (`AppCall`), beside the SDK's own
steps. A call is one entry of `inst.ops`; it has as many steps as it has statements
others can come between, and its announcement is the last (`announcePolicy`,
`announce`).

* `effectiveFor` walks up the parents, at most `Depth`, and the nearest grant wins;
  `CompilePolicy` is that for every role and key. `PolicyRight` compares the copy with a
  definition in terms of the tables.
* `ReadGraph`, `ReadGrants`, `setPolicy` are a refresh, started by the Watch loop, at a
  reconnect or by the timer (`Refreshers`).
* `Resolve`, `Land`, `Compare`, `Add` are the flight that fetches a key, with the
  generation test of `putIfGen`; `verifyAccessKey`, `Room`, `Used`, `add` the nonce table;
  `record`, `take`, `ReportAccessKeyUsage`, `restore` the uses.
* `verify`, `VerifySecret`, `GetByID`, `Remember` are the interceptor's cache of an
  application's secret, `verifyIM`, `RememberIM` that of fp-im's secret, `streamAuth`,
  `RememberStream` fp-im's own. `held` dates when each ground of a credential last held.
* `Login`, `currentEpoch`, `issueToken`, `Authenticate`, `ChangeAccount`, `ChangeWrites`,
  `ResetPassword`, `EnsureBootstrap`, `bumpEpoch`, `Logout` are AdminService.

Left open or abstract: key expiry and the freshness of cache entries of keys (an entry
may be used, passed over or gone at any time); signature, route, body and addresses
are one Boolean each; the session of a user's request opens with the request; the purge
events of Watch are in RevokePush; an application's secret never rotates, as in the
code; SetIMConfig's push is in ConfigCenter.

## 3. Runs

| run | instances | distinct states | shows |
|---|---|---|---|
| `login_fence` | 1 login, 2 operations of any kind, any initial status | 98 thousand | FenceTypeOK, FreezeFence, ResetFence; the specification implements `AccountAccess` (`AccessSpec`) |
| `sessions` | 2 concurrent requests over the whole life of a session and past its end; 1 stream of requests with a logout and a bump; 2 logouts of one session; an idle timeout above the floor of the index | 2.6 million | CachedWithinMaxLifetime, IndexCoversSessions, EpochNotLaundered, RetiredTokenDies |
| `push` | faults without a clock; a logout; a clock with a fault; a clock with stale answers | 404 thousand | QuiescentCoherent, BoundedStaleness, PushClears (liveness) |
| `config_centre` | 2 console calls, 1 fault, a gateway or a process with a struct or a map binding | 310 thousand | AckedVersionKept, QuietReflects, NeverOlder, ChangeArrives (liveness) |
| `config_gateway` | a gateway, no fault | violation | the finding below |
| `sign_in` | codes with two rate rules; each flow with a failure; two flows of one person with two phones | 626 thousand | TriesBounded, UnionKeyOneOwner, OneLoginPerFlow |
| `notify` | a caller that retries, two callers with one key, both with a fault; console edits | 1.1 million | NoDuplicate, SettingsApplied, DoneSticks |
| `im_conns` | 2 nodes, 2 connections, 3 policies, 1 fault of any kind, 1 Kick; lookups, renewals and re-registrations that fail | 2.4 million | InServiceIsRouted, WithinPolicy |
| `im_serving` | streams that come and go; 3 nodes with a crash or a failing publish; a node that stops | 818 thousand | ServingSettles, HandedOnce, ShutdownHandsOver |
| `im_stream` | every limit 1 and more frames than fit; a stream that breaks; one that stalls with a full window | 100 thousand | WaiterIsFound, CallsReturn (liveness) |
| `im_entry` | shared tokens, two applications, guests, reconnects, refusals, the business' tokens, outages | 68 thousand | RevokedIsClosed, GiveUpReported, GuestsBounded, ClientReturns (liveness) |
| `access` | 15 instances of the tower: graphs, permission points, overlapping writes, timer, keys, replays, reports, accounts, bootstrap, applications | 156 thousand | TablesSound, QuietDecides, NonceOnce, UsageKept, SessionFence, ReplacedOnce, CredentialLapses, PolicySettles (liveness) |

Outside the tower every module states a type invariant for its proofs. Only `login_fence` runs one on its
own, because it is proved there; `TablesSound` has the types of its tables in it.

### Finding

`config_gateway`, `GatewayFollows`: fp pushes AppImConfigChanged to the gateway's Watch
stream, but the SDK's `watchOnce` (`sdk/client.go:408-468`) has no case for it, and
`fpauth.New` (`internal/im/fpauth/fpauth.go:61`) does not pass its
`OnAppIMConfigChanged` on. `Source.Invalidate` is never called and a gateway keeps an
application's IM settings until it restarts, against `internal/im/fpappcfg/source.go:114`
and `internal/im/fpauth/fpauth.go:39`.

### Bounds and why they are enough

* `login_fence`: the fence is a relation between one login and one operation; the
  second operation adds unfreeze, retries after a failure and two writers of the
  status. More logins and operations are covered by the proofs.
* `sessions`: `MaxTokens = 3` is two rotations, so a token in the middle has both
  a predecessor and a successor. The interval constants are as small as the order
  between them permits, with `Idle` 3 above `IndexFloor` 2, and the clock passes the end of
  the session's life, so an index lowered by a grace write expires under the session written
  before it. Two requests meet at
  every pair of commands (`Rotating`); `Revoking` replaces one by a logout and a bump;
  `TwoLogouts` has one request and two revocations.
* `push`: buffer 1 makes every second event overflow; two faults give a fault
  during the recovery of another. Without a clock an entry never expires, so only the
  push can remove it, which is the harder case. With a clock, a call can be answered in
  the last tick of each window.
* `config_centre`: two calls are a race of any two console operations; one version kept
  makes every second save remove one; buffer 1 merges signals.
* `sign_in`: two tries and two codes meet every order of issue, guess and expiry; two
  flows of one person with a table that is empty, holds an account without a phone, or
  also one with it, reach every branch of attach and link.
* `notify`: a lease of two ticks expires between two attempts; two providers are a
  fail-over; three attempts are what the SDK makes.
* `im_conns`: two connections are what replacement, rejection and a limit of 1 need;
  two nodes give a local and a remote eviction. One fault of any kind with one Kick.
* `im_serving`: three nodes are an origin, a first and a second choice; two streams of
  one node are a first and a last.
* `im_stream`: window, workers and queue of 1 with four frames, two calls and one call in
  a callback are more than all buffers hold together, so all wait at once. The stream that
  stalls has a window of two for three requests, pings among them, so the window fills and a
  call waits in Send, or the ping does.
* `im_entry`: two clients with one token under two names of the application; three guests
  with a limit of one over two windows; two faults in a row.
* `access`: a chain of three roles with one more to create; a code that comes back under a
  new id; a nonce table of one; lives of one tick, so an entry expires within the clock's
  range.

Symmetry is used where the processes are interchangeable and only in runs without
liveness properties (in `sessions` over the two requests of one instance and the two logouts of another). Deadlock
checking is off where the processes end (bounded calls, clocks and fault budgets);
`ImConns` never ends, because heartbeats go on.

### Fairness

All of it is weak fairness of goroutines that are ready to run: the Go scheduler runs
them, and they are loops that retry until they succeed. Faults are bounded, which says
that the network works long enough eventually; nothing is assumed of callers, of the
console or of the clock.

* `push`, `config_centre` (`LiveSpec`): publish, resubscribe, hub, Watch, receive, the
  flight's own steps and its timeout; the reload goroutine.
* `im_stream`: the loop, consumer, the node's handlers, the heartbeat's ticker and the
  timeout of a ping. No other timeout is relied upon.
* `im_entry`: some step of a client, some step of a handshake, when there is one.
* `access`: the Watch loop, the reconnect, the refreshers and the SDK's ticker.

## 4. What the properties say

The exact statements, with their exceptions, are the comments at the definitions.

* `FreezeFence`, `ResetFence`: when SetStatus or ResetPassword has answered success, no
  token that was handed out is usable, unless a later operation reopened the account
  (freeze) or the login read the new hash (reset). Failed logins may leave a session
  behind; it is unusable too.
* `CachedWithinMaxLifetime`: rotation and extension never push what clients may cache past
  the absolute lifetime. It is about answers with a positive `cache_ttl`: a request that was
  under way when the session's life ended is still accepted, with `cache_ttl` 0. `EpochNotLaundered`: a rotation under way at a bump engraves the
  old epoch in the new session, so a request that begins after the bump is refused. `RetiredTokenDies`: when a logout is done no token of the
  session is accepted, except one written back by a request the logout overlapped, or when
  the index had lost one before; and a rotated token ends with its grace period, except when
  a request that had it in hand before extends it later. `IndexCoversSessions`: a sweep finds
  every live session but those two kinds. Both hold for every idle timeout; that the
  exceptions do happen is shown in section 6.
* `QuiescentCoherent`, `PushClears`: whatever broke before, a quiet push path means the
  revoked token is not cached, and the path does become quiet. `BoundedStaleness`: how late
  a revoked token may be accepted without any push, in the normal and in the degraded
  window, and in the process that logged out.
* `AckedVersionKept`, `QuietReflects`, `NeverOlder`, `ChangeArrives`: an acknowledged
  version stays; merged signals lose nothing; an older version never replaces a newer one;
  an announced change arrives.
* `TriesBounded`, `OneLoginPerFlow`, `UnionKeyOneOwner`: tries and successes per code;
  exchanges and logins per flow, with a phone; one account per union key.
* `NoDuplicate`, `DoneSticks`, `SettingsApplied`: one message per idempotency key; a failing
  latecomer does not delete the record; no settings older than those acknowledged when the
  request began.
* `InServiceIsRouted`, `WithinPolicy`: hold except after one of eight accidents, which the
  model records in `accident`: an eviction that came before AddConn, a lost KICK, a purge
  by a node that did not see the home node, a skipped re-registration, a handshake in one
  that failed, a gap merged into a running round, renewals that failed until the field
  expired, a Kick that failed half way. Each is an observation in section 6.
* `ServingSettles`, `HandedOnce`, `ShutdownHandsOver`: the serving table, routing without
  duplicates or returns, and the events of a shutdown.
* `WaiterIsFound`, `CallsReturn`: no call of the SDK is forgotten, and SDK and node never
  wait for each other; a call that waits for room on a stalled stream is excepted
  (section 6).
* `RevokedIsClosed`, `GiveUpReported`, `GuestsBounded`, `ClientReturns`: the gateway's door
  and the client's loop. A client that lost its connection is back unless it was closed or
  told a code to give up on; that such a code may come from an outage is in section 6.
* `TablesSound`, `QuietDecides`, `PolicySettles`: what the tables promise each other, and
  what the SDK's copies say once the announcements are handled, or in the end in any case.
* `NonceOnce`, `UsageKept`: signed requests. `CredentialLapses`: a verification is
  remembered for its time and no longer. `SessionFence`, `ReplacedOnce`: administrators.

## 5. Proofs

Every theorem holds for all values of the constants that satisfy the named assumptions, so for any
number of processes, any instance and any bound, where a run has one small choice of them.

| module | theorems (`Spec => []P` unless noted, with the component's own `Spec`) |
|---|---|
| `LoginProofs`, of LoginFence | `TypeCorrect` (FenceTypeOK), `FreezeFenced` (FreezeFence), `ResetFenced` (ResetFence), `Refinement` (`FenceSpec => AccessSpec`: LoginFence implements AccountAccess with `granted <- Granted`, `locked <- Locked`) |
| `LoginProofs`, of SignIn | `TriesLimited` (TriesBounded), `OneOwner` (UnionKeyOneOwner), `OneLogin` (OneLoginPerFlow) |
| `SessionProofs` | `TypeCorrect` (TypeOK), `CacheBounded` (CachedWithinMaxLifetime), `EpochKept` (EpochNotLaundered), `IndexComplete` (IndexCoversSessions), `RetiredDies` (RetiredTokenDies) |
| `RevokeProofs` | `QuietIsCoherent` (QuiescentCoherent), `StalenessBounded` (BoundedStaleness) |
| `ConfigProofs` | `VersionsKept` (AckedVersionKept), `NoneOlder` (`Spec => NeverOlder`), `QuietMeansCurrent` (QuietReflects) |
| `NotifyProofs` | `OneMessage` (NoDuplicate), `RecordStays` (`Spec => DoneSticks`), `SettingsTaken` (SettingsApplied) |
| `ImClientProofs`, of ImConns | `ConnsTypeOK` (TypeOK), `RegistryRoutes` (InServiceIsRouted), `RegistryWithinPolicy` (WithinPolicy) |
| `ImClientProofs`, of ImEntry | `ClientsTell` (GiveUpReported), `GuestsLimited` (GuestsBounded), `RevocationCloses` (RevokedIsClosed) |
| `ImServerProofs`, of ImStream | `NobodyForgotten` (WaiterIsFound) |
| `ImServerProofs`, of ImServing | `ServingSettled` (ServingSettles), `HandedAtMostOnce` (HandedOnce), `ShutdownTells` (ShutdownHandsOver) |
| `AccessProofs` | `SessionsFenced` (SessionFence), `OneReplacement` (ReplacedOnce), `NoReplay` (NonceOnce), `UseKept` (UsageKept), `CredentialsLapse` (CredentialLapses), `RefsKept` (References, a part of TablesSound) |

### Assumptions

LoginFence has none. The others state what their instances are made of, and TLC evaluates that on
every run:

* `PolicyAssumption` (SessionLifecycle): the durations are positive and `rotate` is within
  `max_lifetime`, as `SessionPolicy.Validate` enforces. Nothing relates the idle timeout or the
  grace period to the floor of the index.
* `OptionsAssumption` (RevokePush): the windows of the cache, the timeout of a call and the buffers are
  positive.
* `SignInAssumption`, `TableAssumption`: at least one try per code; the identities the run starts
  from have positive user numbers, no union key on a phone and one user per union key, i.e. they are
  a table the service itself could have written.
* `ConfigAssumption`: at least one version is kept, a queue has room for at least one signal, a content
  sets fields of the bound struct.
* `NotifyAssumption`: the providers are finitely many and a request's parameters are sets of variable
  names; attempts and the cache's capacity are positive.
* `StreamAssumption`: windows, queues and worker counts are at least one.
* `ConnsAssumption`: nodes, connections and the gap signal are different values; the limit of a policy
  is positive, as `AppConfig.Validate` requires (`im/model/appconfig.go:77`); the bounds are numbers.
* `EntryAssumption`: a client has at least one try and the guests' window at least one tick; the values
  for "none" and "every application" are no ordinary ones. A token of fp belongs to one application,
  and a revocation that names an application names that one: the session is stored with its
  application and the event is built from the session (`service/session.go:435-479`).
* `ServingAssumption`: finitely many nodes, each stream and connection at one of them; no two nodes have
  the same weight (the code breaks a tie by the node's name); "none" is no node, connection, route or
  envelope.
* `AuthzAssumption`: the tables an instance starts from are ones the console could have written: a key is
  bound to a role there is, a grant has its role; a permission point that is reported or renamed gets a key.
* `KeyAssumption`, `CredAssumption`: window, capacity and lives are positive. A key that is to be
  created is new: Create makes up the identifier at random. Codes, identifiers and secrets are
  different kinds of values, so that the keys of a cache do not collide.
* `ConsoleAssumption`: a password stands for its stored hash. bcrypt salts every hash, so no
  change stores one that was there before.

### The arguments

No property below is inductive as it stands; each speaks of the moment of an answer.

**LoginFence.** `IndInv` adds `NotAhead` (no recorded epoch, generation or hash is ahead of the
store), `EpochFence` (a login whose epoch was read before the status was stored carries an epoch
that the operation's bump has overtaken), `StoredStatus` (as long as nobody wrote the status again,
it is the operation's own), `DeliveredWhileLoginable` (a login that read the epoch under the present
status and passed the recheck saw a loginable status) and `HashFence` (the same for the password,
where the hash dates itself). The argument is the order of the steps. Operation: status, epoch,
sweep. Login: epoch, session, recheck. If the login read the epoch before the status was stored, the
bump comes later and its session is unusable. If it read it after, its recheck comes after the
status too and refuses. The sweep is not needed for the fence: it only cleans up.

**Sessions.** `AnswerInv`: every session, stored or copied inside a request, has the first
authentication time and the epoch of the login (`Origin`), so neither is renewed by a rotation; a request
past the comparison of the epochs began before the first bump (`Compared`). `IndexInv`: no token has
a life beyond the idle timeout unless its rotation cut it (`Clocked`); the index lasts a floor from its
last renewal, and a session that is accepted and neither `undone` nor `lost` is in it and does not
outlive it, unless it was cut or the last renewal was a grace write (`Covering`): those are what the
exceptions are made of. While a revocation is under way every request under way is `overtaken`
(`Overlapping`), and what a sweep found stays, the `undone` apart, what there is until it has deleted it
(`Swept`). `RetireInv` adds that a token is not used before it is minted and has one writer (`Fresh`), and
`Rotation`: a token that was cut is too old to be extended, and a request that is not `late` carries no
copy it would write back longer.

**RevokePush.** `PushInv`: a revoked token that is cached, or that a flight may still add (`Tainted`), has
an event, a gap, a purge or a new stream on its way to the cache (`Covered`, `OnItsWay`), or is one of the
two recorded exceptions. `Dated` does without the push: a flight is within its timeout, and one
answered with yes was sent before the revocation (`Flown`), so an entry is younger than the revocation by
at most that timeout (`Kept`); after a Logout that found no flight nothing is cached or will be
(`LoggedOut`).

**SignIn.** `CodeInv`: the key of the tries lives at least as long as the code, so it counts all of
them (`TriesCounted`); a code is sent to one phone (`OnePhone`). `Inv`: between its look and its insert a
transaction knows the owner of the union key, because the advisory lock keeps the others out
(`UnionInv`: `LinkOwns`, `LinkExclusive`); who claims a flow finds it unclaimed, and the claim lasts until
no callback can come (`ClaimInv`); the right to log in is in one place: a callback, result, ticket, bind
ticket or request (`OneHolder`); and whoever is about to be let in has a phone (`PhoneInv`).

**ConfigCenter.** `SaveInv`: numbers in the table are unique and a version that was inserted is there
while it is in the window (`Acked`), because a later INSERT of a free number cannot trim it. A slow
Save may insert a number that others have trimmed away meanwhile, so the table may hold more than
`KeepVersions` rows for a while; the theorem does not need that bound. `BindInv`: nobody is ahead of the
table, and what the round has fetched is no older than what its binding has (`NotAhead`); a binding that
is bound is registered, and a round touches only those. `PathInv`: when no change is on its way
(`Pending`: a publish, a subscription or stream to be made again, a signal in the channel, the queue or
cfgReload), what a round or a Bind has fetched is current and a binding reflects it or is still to be
reloaded (`Settled`). Every step that ends one reason for `Pending` begins the next, up to the reload.

**Notify.** `SendInv`: who sends holds the lease, whose life and the request's age together cover the time
the lease was taken for (`Held`); a message that was sent is recorded, or about to be by its sender
(`Recorded`), so another request with the key finds the lease or the record. `SettingsInv`: a
candidate's settings are no older than those acknowledged when the request began, and a request past the
comparison has parameters that fill its template (`Sound`); what was acknowledged is never newer than the
table (`Before`).

**ImConns.** `RegInv`: a connection in service without a field and without an accident exists only after a
loss of data, and is `Restored`: its node is not subscribed yet, has the gap still to handle, or is in a
round that will register it. Whatever else deletes a field (the script, a Kick, an expiry, a handshake of a
round that failed) evicts the connection or records it in `accident`. As long as no data was lost, every
connection in service without an accident therefore has its field (`FewServed`): only a handshake adds to
them, it counts the fields that are there, and leaves at most as many as the policy has room for.

**ImEntry.** Three separate invariants. `ClientInv`: as long as a client has not given up, no code it was told is one
on which the SDK gives up, so the last one told is the first of them.
`GuestInv`: a bucket in use counts everybody it let in since it was opened (`Counted`), and without a
bucket the minute that has passed is within the rate (`Rested`); a minute that lies across two
windows then holds at most the guests of both, which is GuestsBounded. `RevokeInv`: a connection is in the hub's
token index from AddConn to RemoveConn (`EntryConns`), and its application is known by its id from
Load on (`EntryNames`), so a dispatch over the known names reaches it; for each connection with a revoked
token the event is on the stream, in dispatch and not past its application, or the connection is
already marked for closing (`Found`), except for those recorded as `late` or `lost`.

**ImServing.** `ServingInv`: a node's list holds each of its streams once (`StreamLists`); with at
most one SetServing under way, Liveness holds or will be left with what the list says (`Told`); the table has
what Liveness holds, or the loop is to write it or has a signal (`Written`). `HandInv`: a message whose
publish never failed after it arrived is in one place (`OneCopy`) and before it is sent in none
(`Births`); the nodes it was published to lie behind the cursor of its route (`Trails`), and a route
names each node once and not the connection's own (`Routes`), so no envelope comes back. Every
step of a delivery is one of six moves of one envelope (`Loses`, `Hands`, `Advances`, `Publishes`, `Takes`,
`Born`), and the invariant is proved once for each move. `StopInv`: a connection that shutdown closed has
left when the wait ends within its budget (`Gone`); while the wait lasts, a steady node has a stream that
takes what Deliver hands it (`Stays`), so the end of a connection the business server knew of goes to
a local stream and is never put on a route (`Tells`).

**ImStream.** `CallInv`: the registered calls are of the stream that is up (`OneStream`), and a call under
way is registered or its channel is settled, never both (`InFlight`).

**Access tower.** `AdminInv`: a session below the epoch is refused, and one at the epoch was opened
with the present password or the bump is still to come (`FenceInv`); a password has one replacement, the
one that found it in place (`WinInv`). `NonceInv`: while the window of an accepted request is open, an
entry that lives at least as long is in the table (`Covered`), because a full table refuses rather than
evicts. `UsageInv`: a key that is to be created is unknown everywhere (`Unused`), and the latest use of
one that exists is in the recorder, a batch or the row (`Saved`), whichever report fails. `CredInv`: what
every cached verification, and every call under way, rests on held at the time that was read before the
check (`Remembered`, `Rests`), so an entry ends its life after a moment at which it was right. `RefInv`: a
call that has checked a code and is still to write it names a role that exists, or one that was deleted
since and is recorded as `raced` (`ToWrite`); DeleteRole looks for keys in its own transaction, so none
keeps a code that is gone.

### Only model-checked

* Of the invariants two, both in the tower: `TablesSound` as a whole (its references are proved; that
  no role is its own ancestor is a statement about paths of any length, which needs induction over
  data) and `QuietDecides` (about the compiled policy, whose definition walks such a path).
* Liveness (`PushClears`, `ChangeArrives`, `CallsReturn`, `ClientReturns`, `PolicySettles`): needs
  fairness and ENABLED, which the prover does not handle.

No module uses a RECURSIVE operator, so all of them can be proved about.

## 6. Where code and comments differ, and other observations

### Statements of the repository that do not hold

A comment or document of the repository says each of these, and the code does otherwise. The
definition named states what the comment says; TLC refutes it when it is put into the `INVARIANTS`
(or `PROPERTY`) line of the configuration given. They are no runs of the project because the
properties of the runs say precisely what remains true.

| definition | in | the code | says otherwise |
|---|---|---|---|
| `IndexOutlivesSessions` | `Session.cfg` | `SessionStore.Put` sets the index's expiry from the session written last (`store/session.go:70`). After a rotation that is the old session with its grace period (`service/session.go:316`), so the index falls back to seven days. A mobile session idles for thirty by default (`domain/application.go:32`), outlives the index and is missed by logouts and sweeps | `store/session.go:42-47` |
| `LogoutEndsSession` | `Session.cfg`, with `IndexFloor = 3` | tryExtend (`service/session.go:246`) and tryRotate (`:294`, `:316`) write back the session they read several commands earlier; a logout in between is answered with success and undone | `service/session.go:359-364` |
| `OneConnection` | `ImConns.cfg` | a replaced connection whose goroutine is between its handshake and AddConn is not found by the eviction (`hub/push.go:185`) and opens beside its successor | `hub/push.go:56` |
| `MergeMissesNobody` | `ImConns.cfg`, as property, with `FaultKinds = {"loss"}`, `MaxFaults = 2` | a gap that arrives while a round registers its snapshot is dropped; a connection added after the snapshot stays without a field | `cmd/fpim/main.go:463-464` |
| `StalledStreamEnds` | `ImStream.cfg`, as property | on a stalled stream with a full window a call blocks in Send under sendMu (`sdk/im/server.go:684`); the ping waits for sendMu too, so the heartbeat never ends the stream and later calls wait with it | `sdk/im/server.go:507-510` |
| `OutageIsTransient` | `ImEntry.cfg` | every error of Load is answered with 4002 (`wsapi/handler.go:104`), an unreachable fp included, and the client gives up (`sdk/im/client.go:72`) | `sdk/im/client.go:35-36`, `model/frame.go:22-25` |
| `CodesExist` | `Access.cfg` | SetUserRoles and SetDefaultRole check a code and then write it (`service/authz.go:278`, `:285`); a DeleteRole in between leaves it dangling | `service/authz.go:186-192` |
| `NoImpersonation` | `Access.cfg` | a remembered verification is keyed by the code the caller sent and its secret (`grpcapi/auth_interceptor.go:70`); when the code passes to another application within the life of the entry, the old secret is served as the new application | `grpcapi/auth_interceptor.go:67` |

Without the `SYMMETRY` line the counterexamples name the processes directly; `MergeMissesNobody`
needs it removed, because it is a property of steps.

### Observations

Each was read in the code, and is visible as a history variable, as an exception in a property's
comment, or in a larger instance of a module.

Accounts, sessions and the push:

* A login of a PENDING_DELETE account that read before the deletion was completed writes ACTIVE
  over DELETED: SetStatus checks the transition on its own earlier read and updates by id only
  (`service/user.go:363`).
* A token whose key expired, found dangling by a sweep and written once more by a request that had
  read it, is no longer in the index (`store/session.go:147`).
* The rotation lock expires together with the old token (`service/session.go:265`, `:315`), so a
  slow request may rotate the same session a second time at that instant. With two requests, a late
  tryExtend overwrites the shortened old session (`:246`) and lengthens its grace period
  (`late` in RetiredTokenDies).
* `cache.putIfGen` compares the generation and adds without a common lock (`sdk/cache.go:115`
  against `:71-76`); a request that starts after Logout may join the singleflight call that fp
  answered before (`sdk/auth.go:127`).
* A batch revocation whose DEL fails after it took effect does not announce the token
  (`service/session.go:528` against `:452`).

Configuration, notifications, signing in:

* A change announced between Bind's fetch and registerBinding is missed until the next one
  (`sdk/config.go:74-82`), and a reload that fails is not tried again.
* A Rollback that overlaps DeleteType brings the content back (`service/config.go:264-271` against
  `:302-304`).
* UpdateProvider may lose an update (`service/notify.go:202-234`); SetTemplateProvider counts, then
  inserts (`:540-557`); a lost lease is only logged (`notify_send.go:194`).
* BindPhone consumes the SMS code before it takes the bind ticket (`service/auth_oauth.go:342-351`);
  an exchange by the wrong application burns the ticket (`:228-233`).

IM gateway:

* Kick with several ids stops at the first error and leaves removed references unevicted
  (`hub/push.go:166`).
* A handshake of a re-registration that fails is counted and logged, and a renewal's error is
  ignored; the connection is invisible until it reconnects (`cmd/fpim/main.go:540-551`, `:576`).
  The node's lookup of its own entry may fail as well, and then everything is registered again (`:494-499`).
* The heartbeat goroutine may recreate the node's entry before the reregistrar asks whether it is
  there; the re-registration is then skipped (`cmd/fpim/main.go:493` against `:490`,
  `liveness.go:213`).
* DropLocal shrinks the list that the next handshake passes to the script, which deletes the fields
  of a healthy node for everybody (`liveness.go:336` against `:326-329`, `scripts.go:33`). After a
  loss of data one node's re-registration may do the same, because its view is older than the
  other's heartbeat. A re-registration may also write the field of a connection that has just
  been removed; it stays until its TTL.
* SetServing calls may arrive in the other order (`hub/hub.go:240`, `:270` against `liveness.go:27`).
  Connected forwarded to another node may arrive after Disconnected (`hub/deliver.go:70` against
  `hub/hub.go:68-69`). A handshake during CloseLocalConns is not reported (`cmd/fpim/main.go:329`).
* A token revoked between Verify and AddConn is not found by OnRevoked and its connection stays open
  (`hub/push.go:212`), as does one whose revocation falls into a gap of the Watch stream.
* A guest that reconnects in a new window may be refused with 4001 and gives up; Close inside
  OnClose waits for itself.

Roles, keys, credentials, administrators:

* Two UpdateRole calls can form a cycle (`service/authz.go:139-149`; the walk in `policy.go:111`
  is bounded). CreateRole with a parent is not announced (`:92-113`).
* setPolicy is unconditional, so a late timer refresh may overwrite a newer policy until the next
  period; GetPolicy reads graph and grants in two statements; PolicyVersion ignores role_permission
  (`policy.go:129-147`); the refresh in the Watch loop has no deadline; UserRoleChanged is never
  published.
* A singleflight join may return key material older than a handled event. A nonce is accepted again
  exactly at the end of its window, or by a request whose clock was read before a purge.
* A failing bumpEpoch leaves old administrator sessions valid after the change is committed.
* Delete reads the application's status, then deletes (`service/application.go:405-418`), so one
  that was enabled again is deleted active.

## 7. Plan

Done: every module of section 2, and a theorem for every invariant the runs check except the two named
in section 5. Composition is by extension in the access tower; ImConns,
ImServing, ImStream and ImEntry divide the gateway along AddConn (`HubAddConn`), RemoveConn
and the stream.

What is left to prove is in TablesSound that no role is its own ancestor, and QuietDecides. Both speak of
the path from a role to its root. A proof would replace the path by a rank of roles, kept as a history
variable that every CreateRole and UpdateRole has to extend; the walk up the parents would still need an
induction over its length.

A module that joins SessionLifecycle and RevokePush for one token is worth stating now that both
are proved about: SessionLifecycle's answers are what RevokePush's `ValidateToken` abstracts.

## 8. Not modelled

* Console handlers that decode, call one service method and encode, where no modelled operation is
  behind them; the console itself (`web/`) is a React client.
* System configuration, connectors, session policy and the other plain fields of an application, the
  login log and the profile: single-statement CRUD with validation, no interleaving beyond the
  database's own.
* Start-up and maintenance (`cmd/fp`, `cmd/fp-dbclean`, `internal/logging`, configuration loading):
  sequential, run once.
* Providers and connectors: HTTP calls to vendors. Formatting, masking, logging, generated protobuf
  code (a fifth of the implementation's lines), error tables.
* In ImConns: an error of the handshake script after it took effect. In SessionLifecycle: several
  sessions of a user in one sweep, and how a batch is grouped into events. In LoginFence: edits of an
  account's fields. In ImEntry: the pipelining of Redis commands (`redisx`).
