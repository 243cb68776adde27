# A TLA+ model of tonin

tonin is a Rust workspace for building, configuring and deploying services:
an SDK, a client library, configuration backends, a sidecar proxy, and a CLI
with a plugin crate that plans and deploys a workspace of services. This
directory models the parts of it whose behaviour is decided by interleavings,
failures and order, and those whose rules are many and meet in few places
(manifests, charts, scaffolds); checks them with TLC; and proves the properties
that matter most with TLAPS. Source paths below are relative to `src/crates/` unless they
say otherwise.

Checking a run: `tlc -config <cfg> <module>.tla`; `PROJECT.json` lists the runs
with their modules. Checking the proofs: `tlapm <module>Proofs.tla`.

Contents: [inventory](#inventory) · [modules](#modules) ·
[runs](#runs-and-bounds) · [fairness](#fairness) · [proofs](#proofs) ·
[assumptions](#assumptions-about-what-is-outside) ·
[code and documents](#where-the-code-and-its-documents-part) ·
[not modelled](#what-is-not-modelled) · [plan](#plan)

## Inventory

### Proxy (`tonin-proxy`)

One process in front of a service. `proxy.rs` accepts HTTP/2 connections and
spawns a task for each; hyper runs `handle` for each request. All tasks share
one `ProxyState`: cache, breakers, coalescing map and pool.

| Part | State | Operations | What makes it hard | Correct when |
| --- | --- | --- | --- | --- |
| Coalescing (`coalesce.rs`) | `in_flight`: key → `Shared` future | `run`: register or clone a future, poll it | the future advances only while a live handle polls it; callers are dropped at the await; a panic poisons it and wakes nobody; it removes its own entry | one upstream call per key at a time, all who share it get its answer, a dropped driver strands nobody |
| Response cache (`cache.rs`) | bounded map with expiry | `get` (lookup, remove), `insert` (len, write) | two map operations each, no lock between | the cap is overshot by a bounded number only |
| Circuit breaker (`breaker.rs`) | path → counters and `tripped_at` | `check`, `record` | lookup-then-insert, three separate atomics | no trip is missed, few outcomes are lost, it opens again on a bad probe |
| Retry (`retry.rs`), status classes (`status.rs`) | attempt counter | `with_retry` | runs inside the shared future; bounds at 0 and at the last attempt | only retryable answers are retried |
| Pool (`pool.rs`) | slots with a sender each, round-robin counter | `sender`, `send_request` | reconnects outside the slot lock; silent loss of a connection | one live connection per slot, no request hangs on a dead one |
| Request path (`proxy.rs`, `handle`) | one task's locals | cache → breaker → coalescing → retry → record → insert | every shared step of every task interleaves; client disconnects | answers belong to their key, errors are not cached, requests end |
| Server life (`proxy.rs`, `serve`) | listener, watched connections | accept, signal, delay, drain, timer | accept racing the signal, drain racing its timer | a drain that ends by itself has cut nothing; a signal ends the process |

### Configuration (`tonin-sdk/src/traits/config.rs`, `tonin-config-etcd`, `tonin-config-github`)

`Config::watch` hands out a channel that a spawned task keeps up to date. The
etcd watcher repeats sessions of a GET followed by a WATCH; the GitHub watcher
polls the head SHA of a ref and fetches the file when it has moved.
`ChainedConfig` asks several sources in order. Hard: changes between the two
calls of a watcher, sessions that fail half-way, receivers that go away.
Correct when the channel never goes back to an older value, comes to show the
newest one, and the task stops with its last receiver.

### Workspace, lock and deploy (`tonin-plugin`, `tonin/src/commands`)

| Part | State | Operations | What makes it hard | Correct when |
| --- | --- | --- | --- | --- |
| Lock (`lock.rs`, `release.rs`) | `lock.toml`, temporary files | `tonin release`: read, edit, write, rename | processes without a lock between them, killed anywhere | readers find whole locks, a broken one is kept, a release changes one entry |
| Waves (`plan.rs` `wave_groups`, `affected.rs` `compute_waves`) | in-degrees, queue | Kahn's algorithm; rounds | cycles, unknown names, two implementations | dependencies come first, both agree |
| Deploy (`deploy.rs`, `deploy_backend.rs`) | copy of the lock, releases in the cluster | plan, skip, upgrade | failures in the middle, kills, overlapping runs, releases going on | dependencies are upgraded first, success means running |
| Local run (`run.rs`, `run_backend.rs`) | child processes by name, what was started | start in wave order, watch one, stop all in reverse | cycles, failing starts, services that exit, tonin killed | dependencies start first, exactly what was started is stopped |
| Affected (`affected.rs`) | work list, popped pairs, the report | path rules, propagation to callers | cyclic caller graphs, rules that forward and rules that do not | ends with every service the change reaches and no other |

### Manifests, charts and scaffolds (`tonin-plugin`, `tonin/src/commands`)

| Part | State | Operations | What makes it hard | Correct when |
| --- | --- | --- | --- | --- |
| Plan (`plan.rs`, `stateful.rs`, `pod.rs`, `workload.rs`, `network.rs`) | none: a function of `tonin.toml` and the environment | defaults, overlays, validation, derived callers | a dozen sections that each merge in their own way and meet in one container and one network policy | an overlay changes its environment only, no variable comes twice, the two ends of a call agree |
| Schema (`schema.rs`) | none | which keys a table may have | environment names are free, so a typo can look like one | no misspelt key is quietly ignored |
| Chart (`helm/generate.rs`, `helm/check.rs`, `templates/helm`) | the files of the chart | generate file by file, check, clean up | kills and failures between files; Helm's merge of two values files; edits and older versions | Helm is given what the plan asks for, check says whether the chart is up to date |
| Scaffold (`new.rs`, `templates/service`) | the new directory, the workspace around it | write, change, rename, join | many options; any write can fail; another attempt, with other options, finds what one left; files name paths, crates, modules, items, targets and scripts of each other | what was created holds all it refers to, and nothing of other attempts |

### Client and SDK (`tonin-client`, `tonin-sdk`)

| Part | State | Operations | What makes it hard | Correct when |
| --- | --- | --- | --- | --- |
| Coalescing client (`client.rs`, `coalesce.rs`, `cache.rs`) | a map of flights and a cache for each method | `call`: look up, join or start a flight, insert | every caller of a flight inserts its answer; a flight without callers is frozen in the map | a reply is no older than it says |
| Keys (`auth/default.rs`, `JwtValidator`) | the published keys and when they were fetched | verify, refresh on a missing or unknown key | refreshes overlap and are stored in any order; keys are rotated meanwhile | a withdrawn key is forgotten in time |
| Auth layer and builder (`auth/layer.rs`, `lib.rs`) | the configured and the installed layer | builder calls, one request | the layer is fixed by the first handler | the requests meet the layer that is installed |
| Token minter (`auth/default.rs`) | one cached token | `mint` | callers mint at once; the expiry is reckoned from a late answer | a reused token is alive |

### The rest

Wrappers that count, telemetry, state, jobs and MCP listeners of the SDK,
doctor, build and observe commands, the platform orchestrator and the Python and
TypeScript packages keep no state that concurrent steps share, or only pass
commands on. `PROJECT.json` lists every component, with the reason for each that
is left out.

### How the parts interact

`handle` calls cache, breaker, coalescing, retry and pool through shared
references; the shared future, polled by any of its holders, calls `with_retry`
and so `send_request`. `serve` and `handle` share no state but the process: when
`serve` returns, requests are cut. `tonin release` writes the lock that `tonin
deploy` reads once; `deploy` orders by `wave_groups`; both act on a cluster
that helm holds the state of. `tonin helm generate` turns the plans into the
chart that `deploy` upgrades with; `tonin run` and `tonin affected` order by the
same dependencies; `service new` writes the `tonin.toml` they all read. Watchers talk to their receivers through one
channel.

## Modules

Every action stands for the code between two accesses to shared state; a
definition keeps the name of the function or field it stands for where it can,
and `PROJECT.json` maps it to its lines. Operators named `Mutant...` are wrong
variants of the definition below them, each with a plausible bug (a dropped
guard, an off-by-one). No specification uses them: put in the place of the
right one, they make the property they are paired with in `PROJECT.json` fail.

| Module | Models | Notes |
| --- | --- | --- |
| `CoalescedCall` | what coalescing promises | abstract: the pending calls of a key are completed together, with one result |
| `Singleflight` | `coalesce.rs` | a flight is one `Shared` future; refines `CoalescedCall` |
| `ResponseCache` | `cache.rs` | the steps of `get` and `insert` over a clock |
| `CircuitBreaker` | `breaker.rs` | the atomics of `record` one by one |
| `ProxyHandle` | `handle`, `retry.rs`, `status.rs` | composes cache, breaker, coalescing, retry and send; refines `Singleflight`; retry_max is read at the start |
| `ConnectionPool` | `pool.rs` | connections are open, silently lost or closed |
| `ProxyServe` | `run`, `serve` | backlog, watched connections, drain, exit |
| `ConfigWatch` | what `Config::watch` promises | abstract: values in order |
| `EtcdWatch` | the etcd watcher | refines `ConfigWatch` |
| `GithubWatch` | the GitHub watcher | refines `ConfigWatch`, unless a ref is moved back |
| `EnvironmentLock` | what a release promises | abstract: one entry is replaced |
| `GitLockStore` | `lock.rs`, `release.rs` | refines `EnvironmentLock` while no runs overlap |
| `WaveGroups` | `wave_groups`; `compute_waves` as `AffectedWave` | any dependency graph |
| `Deploy` | `deploy.rs`, `deploy_backend.rs` | extends `WaveGroups`: runs, helm, releases |
| `LocalRun` | `run.rs`, `run_backend.rs` | extends `WaveGroups`: start, watch, teardown, processes that exit, kills |
| `Affected` | `affected.rs` | extends `WaveGroups`: path rules and the work list, one pair at a time |
| `AuthService` | `JwtValidator`, `AuthLayer`, the auth part of the `Service` builder | a rotated set of keys, requests that fetch it at the same time |
| `TokenMinter` | `HttpServiceTokenMinter` | the cached token with both its expiries, the cache's and the auth service's |
| `ClientCall` | `CoalescingClient::call` with its `Singleflight` and `TtlCache` | the calls of one key, over a clock |
| `ManifestNetwork`, `ManifestWorkload`, `ManifestPod`, `ManifestStateful` | `network.rs`, `workload.rs`, `pod.rs`, `stateful.rs` | a `resolve_...` or `parse_...` and what it refuses, as pure operators |
| `ManifestPlan` | `load_with_env`, `load_base`, the callers a workspace derives | `PlanFor(m, env)`, and `PlanValid` for its errors |
| `ManifestSchema` | `schema.rs` | the tables of keys, and `validate` over documents |
| `ChartValues` | `build_context`, `base_context`, `pod_values.rs`, the values templates, the chart's own templates, Helm's merge | what Helm is given, as nested functions |
| `ChartFiles` | `generate.rs`, `check.rs` | the files, a run as the list of its steps; `KeepsSchema` and `OverlaysIn`, what the schema says of a document, are constants |
| `ScaffoldFiles`, `ScaffoldTemplates` | the texts of `new.rs` and of `templates/service` | a file is what it offers, what paths it reads and what names it uses |
| `Scaffold` | `run` of `new.rs` and what it calls | the writes of a command in order, each of which may fail |
| `...Proofs` | theorems about the modules they extend | eight modules |
| `MC...` | the instances TLC checks | |

What the abstractions leave out, and why that loses nothing:

- **Keys and bodies** are model values. An Ok answer to key k is represented by
  k itself, so an answer that reached another key would show.
- **Statuses** are their gRPC codes, because `is_retryable` and
  `is_upstream_fault` tell them apart.
- **Time.** The cache and the breaker have a bounded clock; elsewhere a delay or
  a timeout is a step that may happen at any time, early or late. A backoff
  delays a step and changes nothing else.
- **In `ProxyHandle` the breaker's counters** are replaced by a choice: any
  recorded outcome may be the one that trips it, at most once.
- **The text of the lock** is its entries, or `Broken` when it does not parse.
- **Values of a watched key** are numbered by the change that wrote them. A
  number going down would be an older value shown after a newer one.
- **A manifest** is a record with a field for each section; a section is its base
  and its overlays by environment. `RawConfig` gives its sections the types serde
  gives them. The document the schema looks at is a tree of keys, apart from that
  record: what the schema refuses never reaches the plan.
- **Texts of a scaffold** are sets: a crate that another names is offered by one
  file and used by another, under the name each of them spells. That is what
  decides whether the result builds and whether its guides can be followed; the rest
  of a text decides nothing here. Paths, crates, packages, modules, items, messages,
  rpcs, dependencies, tests, targets and scripts are named by code, comments and prose
  alike; the head of `ScaffoldFiles` says what counts as not named (what is conditional
  or an example, other repositories, what a build leaves, environment variables,
  tonin's commands, the insides of libraries).
- **A token** is the kid of its header and the key that signed it; the claims are a
  choice, because every request may fail on them.
- `alone` in `GitLockStore` and `Deploy` is a history variable: it says whether
  runs have overlapped so far, or (in `Deploy`) one was killed. Properties that
  hold only without overlap are stated under it.

## Runs and bounds

| Run | Shows | Bounds and why they are enough |
| --- | --- | --- |
| `singleflight` | `OneUpstreamCallPerKey`, `ImplementsCoalescedCall`, `EveryCallEnds` | 3 callers (a driver, and two waiters left when it is dropped), 2 keys, 3 futures (one held by each of two callers and one new, or one frozen in the map) |
| `proxy_maps` | `OvershootBounded`, `NoMissedTrip`, `LostObjectsBounded` | 3 threads; capacity 1 and 4 keys, one more than the bound allows; 2 outcomes reach the threshold, and 4 breaker objects are one more than threads can hold |
| `breaker_reopen` | **violation** of `ProbeFaultReopens` | one thread suffices |
| `handle` | `ImplementsSingleflight`, `EveryRequestEnds` | 2 tasks on 1 key; codes NOT_FOUND, INTERNAL and UNAVAILABLE, one of each class (application error, fault, retryable fault); retry_max 0 and 2 |
| `handle_zero` | **violation** of `NoRequestPanics` | one task, retry_max 0 |
| `proxy_connections` | `LiveUsesPooled`, `LiveNeverReplaced`, `EveryRequestEnds`, `DrainLosesNothing`, `ShutdownEnds` | 2 requests over 2 slots, 4 connections (2 pooled, 2 being made); 3 clients with 2 requests each |
| `watch` | the refinements of `ConfigWatch`, `DeliversPending`, `GithubEventuallyCurrent`, `UnsubscribeStops`, `GithubStops`; `NeverTorn`, `BrokenKept`, `ImplementsEnvironmentLock` | 4 changes and 3 failures for each watcher, enough for a change and a failure in every phase and a whole session after; 2 releases, 2 services, 2 versions, any first content of the lock |
| `etcd_gap` | **violation** of `EventuallyCurrent` | 2 changes, 1 failure |
| `workspace` | `DeployIInv`, `AgreesWithAffected`, `DependenciesFirst`, `FinishedMeansRunning`, `LocalRunIInv`, `CallersFollow` | every graph of 3 plans and an outside name: 3 are a cycle with something before or behind it; 2 deploy runs, 2 versions; every caller graph of 3 services with 5 sets of path rules, one for each way a rule can take part |
| `requests` | `AnswersBelong`, `RepliesFresh`, `WithdrawnForgotten`, `ReusedTokenAlive` | 2 tasks, 2 keys and a cache of one entry in the proxy; 2 calls and 3 flights (one frozen, one theirs, one new), a TTL and a delay of 1; 2 requests and a key with a TTL and a timeout of 1 each, so that at 4 it must be forgotten; 2 mints, a life of 3 against a margin of 2 and a timeout of 1 |
| `manifest` | `InvalidLeavesChart`, `ChartSaysPlan`, `CheckTellsTruth`, `OverlaysStayHome`, `OneVariableOnce`, `PoliciesAgree`, `TyposNoticed`, `ScaffoldCloses` | about fifty manifests that set each section and its overlays, alone and where two meet, for two environments, with fifteen mistakes; every key of the schema misspelt as an environment, and two spelt as none; `service new` with about sixty commands: each layout, language, client, job and storage, and names that tell the spellings apart; any of them again, or after another that failed, was killed or was refused |
| `pdb_blocks_drain` | **violation** of `EvictionPossible` | 2 budgets, with and without autoscaling |

Components that share no state are checked in one run: `MCProxyMaps`,
`MCProxyConnections`, `MCWatch`, `MCWorkspace`, `MCRequests` and `MCManifest` let
one of them move while the others are where they started (or have stopped), so
that each passes through all its states and their product is not built.
`FirstFree` in `MCSingleflight` and `DriveFirst` in `MCProxyHandle` give a new
future the first free identity; futures are interchangeable, and a SYMMETRY would
be unsound beside a liveness property. `MCWorkspace` keeps 3 plans in reach with four
restrictions: graphs with self-loops or outside names are only numbered and run
locally, not deployed (`Deployed`); releases start after the numbering, which does
not read the lock, and fall between two deploys; deploys overlap each other and the
releases, or are killed, only while one plan is untouched (`Inert`); and for a local run a plan that depends on an outside name depends on
nothing else (`Runnable`), as an outside name is in no wave and never started.
Every property there has a theorem, so what these restrictions leave out is proved.
In `MCManifest`, the tables of manifests, documents and commands are worked out once,
and a workspace around a new service matters to the scaffold alone.

`CHECK_DEADLOCK FALSE` stands where the system stops: a proxy that has exited,
a watcher that has stopped with all changes made.

`MaxClock`, `MaxTime` and `MaxTotal` bound the clocks and the counters, `MaxRev`,
`MaxPush`, `MaxErrors` and `MaxFailures` the changes and failures of a backend;
`LastTick`, `LastTime` and `LastMint` bound the clocks of `requests`;
`MayPanic`, `KeepAlive`, `StreamMayEnd` and `MayRewind` say what can happen at all.

## Fairness

- `Singleflight`, `ProxyHandle`: tokio polls a task that is new or woken. Every
  holder of a shared future has registered its waker; both the wrapped call's
  wake-ups and the completion reach all of them, so a flight with a holder is
  polled, and each task goes on. A panic reaches none of them: whoever is
  registered by then (any of the holders but the one that polled) is in `asleep`,
  or at pc `"asleep"`, and fairness owes it no step; only its client's departure,
  `Cancel`, which is not fair, frees it. An upstream call that was sent ends: this is
  an assumption about the upstream, for nothing in the proxy bounds the call.
- `ConnectionPool`: connecting ends within `connect_timeout`, a live upstream
  answers, hyper's connection task sends PINGs. Nothing makes a peer close.
- `ProxyServe`: the delay and the drain timer fire. Nothing makes an upstream
  answer or a client leave, so `ShutdownEnds` does not rest on them.
- `EtcdWatch`, `GithubWatch`: the spawned task goes on, and a request that does
  not fail is answered. Nothing makes a call fail, a stream end, a key change or
  a receiver go away.

The other modules are checked for safety only: the commands can be killed at any
step, and nothing bounds how long an auth service or a person takes. `ClientCall`
has an upper bound on delays instead of fairness: tokio polls a woken task within
`Delay` (`Urgent`), because how old a reply can be depends on it.

## Proofs

All theorems hold for every value of the constants that satisfies the module's
`ASSUME` (finite sets, natural numbers, `None` outside the values). Those about charts
assume of the manifests what serde gives: the types of `RawConfig`
(`ManifestsAssumption`); that the files of a chart have different names
(`FilesAssumption`: a test at `generate.rs:863` compares the obsolete ones with the
others); and that what an option holds is not `None` itself (`NoneAssumption`). TLC
evaluates these on every manifest of the runs. Each theorem about a behaviour rests on
an inductive invariant; what it adds to the property is why the property holds.

| Theorem | Argument |
| --- | --- |
| `SingleflightProofs!OneCallPerKey`, `EntriesSafe` | `IInv`: a registered flight is its key's own and has no output yet, and *every* flight without an output is registered. The second half makes the removal by key safe (the entry a flight removes is its own) and leaves at most one unresolved flight per key |
| `SingleflightProofs!Implements` | refinement: a caller is pending while its flight is unresolved and answered from the moment it resolves; `Resolve` completes the key, polls stutter |
| `RequestProofs!RequestsHeld`, `AnswersStayHome` | `HandleIInv`: a registered flight is its key's own and without an output; the flight a task awaits is one of its own key; what it is about to cache is an Ok body |
| `RequestProofs!HandleImplements` | refinement of `Singleflight`: all attempts of the retry loop, backoffs included, are one call under way; only its last answer completes the flight |
| `RequestProofs!PanicsOnlyAtZero` | a loop backs off from a retryable answer only, and runs out of attempts without one only where it may make none |
| `ProxyMapsProofs!Overshoot` | `RoomClaimed`: stored entries plus threads that have passed the length check. A write uses room its thread claimed, and room is claimed only below the cap |
| `ProxyMapsProofs!NoTripMissed` | `TripPending`: an untripped breaker over its threshold has a record under way that has not loaded the total yet, or has loaded one that trips it. The last to add loads everything |
| `ProxyMapsProofs!FewOutcomesLost` | `CreatorsClaim`: replaced objects plus threads that found no entry; nobody joins the latter once there is an entry |
| `ProxyMapsProofs!HalfOpenForGood` | a trip is never taken back (`TripStays`), the clock does not go back, and who finds an entry inserts none (`SettledStays`): past `reset_after` a breaker stays half-open, and once no thread is about to insert another it stays the one of its path |
| `ProxyConnectionsProofs!Pooled`, `UsableStays` | `IInv`: who sends holds the connection of its slot or a closed one; slots are filled only after a second look |
| `ProxyConnectionsProofs!Watched`, `DrainComplete` | `ServeIInv`: the watched connections are exactly the open ones, and every request in flight is on one |
| `WatchProofs!EtcdMovesForward`, `EtcdImplements` | `IInv`: what a session has read is at least what the channel shows |
| `WatchProofs!EtcdMissesOnlyTheGap` | `SeededThenStreamed`: until the stream delivers, the channel shows what the session's GET read; from then on the last change delivered. So with nothing left to deliver it is out of date only by a change between the GET and the WATCH |
| `WatchProofs!LastShaBehind`, `GithubImplements` | `MovesForward`: contents are fetched after the SHA is polled, so `last_sha` is never newer than the channel. `GithubImplements` assumes that refs only move on |
| `WatchProofs!LockNeverTorn`, `BrokenStays` | `IInv`: a process at its rename has written its own temporary file in full, and none is past reading a lock that does not parse |
| `WatchProofs!ReleaseImplements` | `RunsAlone`: the one process at work has the file's own entries in memory beside its release |
| `DeployProofs!WavesRight` | the in-degree counts the dependencies not yet relaxed, and is 0 exactly for queued and visited plans, so waves of relaxed dependencies are final |
| `DeployProofs!WavesAgree` | `Tight`: a wave above 0 is one more than that of some relaxed dependency. So the plans visited in waves below n are those that `compute_waves` has placed after n rounds (induction on n); as there is a plan in every wave below a plan's own, that many rounds are enough; and a set of plans each of which waits for another of it is never visited (the least wave in it would have none to wait for) |
| `DeployProofs!RunsSettle`, `DeploysDependenciesFirst`, `FinishedRuns` | `DeployIInv`: in wave order, one run to a release; a run alone leaves behind what it wants |
| `LocalProofs!LocalRunsSettle` | `LocalRunIInv`: what is started and what is still to come are the dependencies of the target, in wave order; the processes held are those started. Rests on `DeployProofs`' theorem about waves |
| `LocalProofs!PropagationInvariant`, `PropagationComplete` | `AffectedIInv`: what is queued or popped belongs to spreading services, every source is there, and so is every forwarding caller of what is popped. When the list is empty the popped ones are closed under forwarding, and `Spreading` is the least such set |
| `RequestProofs!KeysRecent`, `KeysForgotten` | `AuthIInv`: a key in an answer was published after its request began, one in the cache at most a fetch before it was stored; who has stored reads back nothing older |
| `RequestProofs!ExpiryReckoned`, `ReusedTokensAlive` | `MinterIInv`: the cached expiry is at most a timeout later than the auth service's, and the margin is no less than the timeout |
| `RequestProofs!FlightsTimely`, `RepliesStayFresh` | `ClientIInv`: who joins a flight does so before it resolves; an answer nobody has left is taken up within a delay and inserted within another |
| `ChartProofs!ChartHolds`, `InvalidIsHarmless`, `CheckAgrees` | `ChartIInv`: how far a run has come in its fixed list of steps; nothing is written in the first steps, which load the plans, what later ones have written stands, and files that are not tonin's are as they were |
| `ChartProofs!ChartIsThePlan` | the last file of a name is written once; every key of `values-<env>.yaml` is set by its plan, and what only `values.yaml` has does not depend on the environment, so the merge of the two is what the plan asks for |
| `ChartProofs!OverlaysKeepHome` | section by section: what resolves a section reads the base and the overlay under the environment's own name |
| `ChartProofs!VariablesAreOnce` | the list the template renders is, entry by entry, what the code compares for duplicates, less the second name of a database that refers to itself; lists put one after the other keep their order |
| `ChartProofs!PoliciesMatch` | who depends on a service and is not among its callers is added to them without ports, which stands for all the ports it serves |
| `ChartProofs!BudgetsLetGo` | a budget that is given is checked against the replicas and one that is not is the default, one pod at a time (`BudgetIsChecked`); the least pods are the replicas, or where the autoscaler's range begins (`RangeIsChecked`). A count below the replicas is below as many pods or more |
| `ChartProofs!ScaffoldsAlike` | `ScaffoldIInv`: the directory of a running command is what its first n writes lead to from no directory at all, and the rest are left. An accepted command begins at 0, for a directory that any attempt left refuses it; each write is the next; two courses of one command agree write by write, so what all of them lead to is one directory (`CourseEnds`) |

Inductions over numbers (`SetInduction`) go by the set of those for which a claim
holds: a set of naturals that is not empty has a least one. They reach what a recursive
*function* computes, once it is known to exist (`RoundsPlaceWaves`, `UptoExists`).

Only model-checked: all liveness (`EveryCallEnds`, `EveryRequestEnds`,
`ShutdownEnds`, `DeliversPending`, the two `...Stops`, `GithubEventuallyCurrent`),
because liveness under fairness and `ENABLED` are out of the prover's reach;
`TyposNoticed`, which is about the walk through a document that RECURSIVE operators
make; and `ScaffoldCloses`, which compares the texts of the scaffold's files name by
name: they are a finite table, of which the run looks at every row, and a proof would
go through the same rows. `ScaffoldsAlike` proves what makes the rows enough, which
is also its first conjunct: what a created service holds depends on its command alone,
not on the attempts before it.
RECURSIVE operators are in `ManifestSchema`, which walks a
document, and `MCManifest`, which makes them; no module with a theorem reaches either.

## Assumptions about what is outside

Modelled from how the code uses it, and marked external in `PROJECT.json`:

- *Atomics* are sequentially consistent. The breaker uses relaxed ones; on
  x86-64 the additions are full barriers, so `record` sees at least what it added.
- *`futures::Shared`* runs its future only when polled, by one holder at a time;
  who polls meanwhile leaves its waker. The future's wake-ups and its completion wake
  every waiter. A panic of the future only marks it poisoned: those who poll it
  afterwards panic, those who registered before are not woken.
- *hyper*: a connection told to go away takes no new request and ends after its
  last answer; a keep-alive that is not answered closes the connection.
- *The kernel*: a rename is atomic; a write is not.
- *etcd* delivers the changes of a key in order from the watch's start, which is
  its present revision when none is given; a GET is linearizable.
- *GitHub* serves the head SHA and the contents of a ref as they are when asked.
- *helm* `upgrade --atomic --wait` records a revision, waits, and rolls back on
  failure; it refuses a release with an operation pending; `get values` answers
  from the latest revision; values files are merged key by key, a later one over an
  earlier one, and `null` removes a key.
- *cargo* runs a service as its child, which `tonin run` sees end only where it
  waits for it; a signal to tonin's process group may or may not reach a service.
- *The auth service* answers with the keys it publishes at that moment and publishes
  no key again that it has withdrawn; clocks are not set back.
- *cargo, make, npm, pip and protoc* find a crate, module, script or path under
  exactly the name it is declared with.

## Where the code and its documents part

Four have a run that shows them:

- `etcd_gap`: the WATCH is created without the revision of the GET before it
  (`tonin-config-etcd/src/lib.rs:400`), so a change between the two is not shown
  until the next one, while the trait promises "every backend-observed change".
  `EtcdMissesOnlyTheGap` says that this is the one way a running watcher with nothing
  left to deliver can be out of date, however often sessions fail and begin again.
- `breaker_reopen`: `tripped_at` is set once and never again
  (`tonin-proxy/src/breaker.rs:89`). After `reset_after` the breaker lets every
  call pass for good, while the README says faults open it "until the upstream
  recovers". Nor does a good probe close it: nothing calls `reset`
  (`breaker.rs:110`). `HalfOpenForGood` is the general form: from then on the path's
  breaker rejects no call, whatever is recorded on it.
- `handle_zero`: with `TONIN_PROXY_RETRY_MAX=0`, documented as "no retries", each
  request panics in `with_retry` (`retry.rs:44`), those that poll the poisoned
  flight later too. One that polled it while it panicked is woken by nobody and
  hangs until its client goes: `EveryRequestEnds` excepts it (pc `"asleep"`), and
  is violated when it does not.
- `pdb_blocks_drain`: "a `min_available` that would block every eviction is an
  error" (`tonin-plugin/src/pod.rs`), but it is compared with `[deploy].replicas`
  (`plan.rs:1296`), while with `[autoscale]` the chart runs as few pods as
  `min_replicas`. `BudgetsLetGo` says where the check does achieve what it is for: a
  budget that counts pods, two or more replicas, and an autoscaler that keeps at least
  as many. The three others get past it: a percentage, a range that begins below the
  replicas, and a single replica whose range goes on above it.

Others were met while modelling. The models contain the behaviour; no run states
the document's version:

- `coalesce.rs:5`, "the next distinct call starts fresh": a flight whose callers
  were all dropped stays registered, frozen, and a later lone call joins it.
- `cache.rs:4`, "a hard capacity cap": concurrent inserts overshoot it
  (`OvershootBounded` says by how much).
- `tonin-client/src/cache.rs:86`, "atomically check-and-remove stale entries":
  the remove is a second operation and can remove a fresh entry.
- `config.rs:19`, the threshold "that trips" the breaker: total and failures are
  loaded one after the other, so it can trip below the threshold.
- `pool.rs:15`, "the retry lands on a freshly reconnected slot": it takes the next
  slot, whose connection may be as dead.
- `proxy.rs:115`, "returns ... once in-flight requests have drained": a drain that
  times out returns Ok and cuts them. `proxy.rs:132`, "until shutdown resolves":
  one accept error ends the server without a drain.
- `tonin-config-etcd/src/lib.rs:39`, "exits when the last receiver is dropped": it
  also exits when a stream ends without an error.
- The GitHub watcher remembers the SHA it polled, not that of the contents
  (`tonin-config-github/src/lib.rs:414`): a ref moved away and back around a
  fetch leaves the abandoned file in the channel (`MayRewind`).
- `docs/12-kubernetes-deploy.md:680`, "only the released service's table changes":
  of two overlapping releases the later rename undoes the earlier.
- `plan.rs:1396-1400`: a plan behind a cycle, not on it, shares wave 0 with what it
  depends on.
- `docs/12-kubernetes-deploy.md:688-717`: after a run is killed in an upgrade the
  next one skips the service, whose values name an image it does not run; and two
  overlapping runs with different copies of the lock break the wave order.

Local run and affected:

- `run.rs:139`: a target on a cycle is among its own dependencies and is started
  twice; its first process is out of reach of the teardown (`OnlyTargetLost`).
- `run.rs`, "watch_service returned after Ctrl+C": SIGINT ends tonin itself as well,
  which catches no signal. `--wait-healthy` never fails a start.
- Derived callers match a dependency by name and namespace (`plan.rs:1371`), the
  waves and `affected` by name only.

Client and SDK:

- `tonin-client/src/client.rs:202`: every caller of a flight inserts its answer, for
  a whole TTL from then, also over a newer one; and a frozen flight hands a later
  caller what was made for others (`RepliesFresh` says how old replies can be).
- `tonin-client/src/client.rs:231`: a method called with two response types panics.
- `auth/default.rs:59`, "refreshed on cache miss (and at most once per TTL)": every
  request with an unknown kid, or without one, fetches. An older answer stored
  between another request's store and its read makes that request fail though its
  key is published.
- A service token without `expires_in` is taken to live 3600 s; `ReusedTokenAlive`
  holds only for the others.
- `tonin-sdk/src/lib.rs:270-306`, "every request": `with_auth` after the first handler
  changes nothing. `traits/config.rs:123`: `watch` of a chain subscribes to its first
  source, where `traits/config.rs:96` says "the **first** source that has the key at
  the time of subscribe".

Manifests and charts:

- `workload.rs:486`, "Volume names tonin itself uses in the pod": the volumes of
  service-account tokens are not among the reserved names; database variants that
  differ only in case or in `_` and `-` share the volume of their CA.
- The variables of `deployment.yaml` itself (`OTEL_...`, `RUST_LOG`) may be set
  again by `[env]`; cron jobs are compared with the variables of the loaded environment only.
- `CHANGELOG.md:77`, "Two sections emitting the same env var fail": one section still
  may. A database with `tls = "verify-full"` whose `env` is the name of its own helper
  variable (`TONIN_PG_URI`) is accepted: `env_names` (`stateful.rs:968`) lists that name
  once, and `_helpers.tpl:62` renders a variable from the Secret and a second one of the
  same name that refers to it. `OneVariableOnce` leaves out that case by name
  (`RefersToItself`).
- Reserved ports are compared with `[[ports]]`, not with `[service].port`.
- `docs/12-kubernetes-deploy.md:520`: `helm generate` loads one service, so callers
  derived from the workspace never reach its chart; `PoliciesAgree` is about the
  workspace's plans.
- A dependency without a port is on 50051, also where the callee serves HTTP on 8080.
- `generate` for fewer environments leaves the values of the others behind, which
  `check` does not look at, and reads `tonin.toml` several times.

Scaffolds. `ScaffoldCloses` names the gaps that concern references
(`WorkspaceGaps`, `DirectoryGaps`):

- The server of the default layout implements one of the three calls its proto
  declares, so it does not compile, while `new.rs:3211` says "contract test should pass".
- Its Makefile names a test that is not written; its Python and TypeScript clients
  generate from `../proto`, which `new.rs:2499-2507` calls `../{name}-proto/proto/`.
- Names with digits, double or trailing hyphens are spelt differently by the
  templates, by heck and by cargo; for a name that `tonin` ends with (`nin`, say),
  renaming `<name>-client` also renames the dependency `tonin-client`.
- A flat Rust service: the Dockerfile refers to a `.dockerignore` that nothing writes
  (`rust/Dockerfile.tmpl:4`); the README to rendered manifests in `k8s/`, to
  `docs/capabilities/greeter.md`, which it "ships with", and to compose services; the
  README of `proto/` to `client-python` and `client-ts` and what they generate with,
  asked for or not (`rust/proto/README.md.tmpl:5-7`); and the closing message runs
  `cargo build` where no `Cargo.toml` is (`new.rs:1553`).
- What the example left in texts for every name: `Greeter` and `GreeterClient`, which
  no proto declares (`proto.tmpl:4`, `client-rust/README.md.tmpl:25`); a
  `<Service>CoalescingClient` "generated" by nothing (`client-rust/src/lib.rs.tmpl:9`);
  the proto's comment sends to `server/src` and `client-rust/src` in every layout; a
  package `<name>.v1` whose dashes the proto spells as underscores; `tonic-build` as
  what runs (`new.rs:1392`), where the build scripts use `tonic-prost-build`.
- Python: `k8s/` again; kebab-case jobs cannot be imported; storage is said to be
  configured in `server/src/storage.rs` (`new.rs:343`). TypeScript: the import to
  uncomment is of `gen/<name>/v1`, the call of an `echo`. A job given twice is declared
  twice. Both READMEs run `tonin k8s generate`, which no command is.
- The TypeScript client of the default layout is renamed in its `package.json` alone:
  its README and its index still import `<name>-client`.
- A crate in a workspace whose owner declines, or with `--no-workspace`, and the Rust
  client of a Python service, are below a workspace they are not members of.
- The default layout ignores `--with-job`, `--with-storage` and `--no-workspace`.
- `service.rs:21`, "refuses to overwrite": what a failed attempt left is an existing
  directory too, also for an attempt with other flags, until it is deleted.
- `service.rs:16`, "pre-generated k8s/ manifests": there are none. `service.rs:94`: the
  default templates are those embedded in the binary.
- `service.rs:128-130`: `--client-lang ts` is dropped for a TypeScript service, which
  has no client of its own.

## What is not modelled

- *Text and layout*: parsing, rendering, formatting, logs, the wording of guides. A
  manifest starts as a record, a file of a scaffold as the set of what it refers to.
- *Passing commands on*: the helm commands of `helm/proxy.rs`, doctor, build, observe,
  `grpc-ui`, the platform orchestrator, which calls the helm of `Deploy` for one
  service at a time.
- *Settings no mechanism acts on*: the client's breaker and retry records, the clients
  in Python and TypeScript.
- *Interfaces without an implementation here*, wrappers that count, telemetry, and the
  start-up of state, jobs and MCP listeners over libraries.
- *Of modelled parts*: `ChainedConfig` (it asks its sources in turn and keeps nothing);
  the connection set-up of the etcd and GitHub clients; the development mode and the
  static key of `JwtValidator`; camelCase spellings of the schema's keys; the
  end-to-end test of the default layout beyond what it refers to; the JSON that
  `affected` prints.

`PROJECT.json` names each component with its reason.

## Plan

Done, in this order: `Singleflight` over `CoalescedCall`, the cache, the breaker,
`ProxyHandle` composing them, the pool, the server's life; the two watchers over
`ConfigWatch`; the lock over `EnvironmentLock`; the waves and `Deploy` on them, then
`LocalRun` and `Affected`; the manifest, its chart and the scaffold; the client's
call, the auth service and the token minter; the proofs above.

Next, most important first:

1. The breaker's counters composed with `ProxyHandle`: one flight of many callers
   records one failure when it fails and one success per caller when it succeeds
   (`proxy.rs:264`).
2. The scaffold's `tonin.toml` as a manifest of `ManifestPlan`: the plan accepts what
   `service new` writes, in every environment.
3. `PlatformOrchestrator` (`platform.rs:157-315`) over `Deploy`'s helm, and
   `ChainedConfig` over `ConfigWatch`.
4. The documents of `ManifestSchema` as functions on paths instead of trees, so that
   `TyposNoticed` can be proved.
