# Formal models of erbridge-palu

erbridge-palu is a routing service for EVE Online. It downloads the game's
Static Data Export (SDE), keeps it in a disk cache and in memory, replaces it
while it runs, polls EVE-Scout for wormhole signatures, and answers requests for
gate routes, Black Ops staging systems and jump ranges over the map of the SDE.

This directory holds TLA+ modules that model it, TLC configurations that check
them on small instances, and theorems that TLAPS checks for all values of the
constants. Source paths below are relative to `src/src/` unless they name a file
of the repository's root.

## Inventory

| Part | Source | State | Operations | Interacts with |
|---|---|---|---|---|
| SDE disk cache | `sde/cache.rs` | `metadata.json`, a directory per build, temporary files | `ensure_cache`, `check_and_refresh`, `fetch_and_install`, `load_build`, extraction, prune | publisher over HTTP; startup, reload task |
| Hot-reload task | `tasks.rs` | writes `graph` and `last_reload_at` | tick, compare, refresh, swap | cache; application state |
| SDE parsing | `sde/parse.rs`, `sde/types.rs` | locals of one pass | four line parsers, security class, join of types and dogma | cache; graph build |
| Graph build, hull catalog | `graph.rs`, `model.rs` | `GraphData`, immutable once built | `build_graph_data`, `from_raw`, lookups | read by every service |
| Startup and shutdown | `main.rs` | none | load, spawn tasks, bind, serve, `shutdown_signal`, drain | all |
| Configuration | `config.rs` | none | `parse_env_or`, intervals | startup, tasks |
| Routing core | `routing.rs` | `RouteContext` per search, scratch buffers per thread | `add_connection`, `shortest_path`, `shortest_path_multi`, reconstruction, step labels | gate-route and staging services |
| EVE-Scout | `eve_scout.rs`, `tasks.rs` | snapshot of signatures with a fetch time | poll, `partition`, expiry | application state; overlay |
| Gate-route service | `services/route.rs` | none; works on two snapshots | header checks, avoid set, connections, scout overlay, one slot per destination | routing core |
| Staging service | `services/blops.rs`, `range.rs` | none | radius query, gate leg, ranking, fallbacks | overlay, routing core, hulls |
| Jump-range service | `services/range.rs`, `range.rs` | none | radius query, filters, summary | hulls |
| HTTP handlers, router | `handlers/*.rs`, `lib.rs` | loads of the application state | level and hull checks, snapshots, dispatch | services |
| Wire types, errors | `dto.rs`, `error.rs` | none | defaults, shapes, statuses | handlers |
| Application state | `app_state.rs` | `graph`, `eve_scout`, `last_reload_at`, each behind an `ArcSwap` | load, store | everything |
| Tracing, OpenAPI, Swagger UI | `lib.rs`, `handlers/*.rs` | none | | none |

### How the parts interact

There is one process. Its threads share three values, each swapped as a whole:
the graph, its reload time and the signature snapshot. Two background tasks
write them (the reload task writes the first two, one after the other, and the
poller the third); request handlers only read. A handler loads what it needs at
its beginning and works on those snapshots, so a swap in the middle of a request
must not reach it. The tasks are spawned before the port is bound and are not
waited for at the end. The cache directory outlives the process: it is written
by startup and by the reload task, never by both, and is all a restart has.

### Which behaviours are hard

- **Crash and partial failure.** The install of a build is a sequence of file
  writes and a move of the pointer `metadata.json`, followed by the deletion of
  other builds and only then by the first parse of the new one. A kill or an
  error can come between any two of these, and deletion can fail half way.
- **Stale state.** A start remembers the build it found and may fall back to it
  after the refresh has replaced it. The reload task compares the manifest with
  what it serves, not with what is on disk.
- **Interleaving.** Graph and reload time are two stores; health makes three
  loads; a route request makes two and then reads the clock once per destination
  while signatures expire. A signal comes while requests are read and answered.
- **Ordering and boundaries in the search.** Equal costs are decided by the
  order of relaxation; a heap entry can be outdated; the multi-target search
  stops early; buffers of one search are used by the next; node indices of one
  build mean other systems in another.
- **Rows in any order.** Both halves of a link, duplicate ids and names, types
  with several dogma rows: what the map is depends on which one comes last.
- **Numbers.** Systems at the border of a range, distances that differ only
  beyond the two decimals shown, the class limit at 0.45.
- **Several faults at once.** Checks are spread over handler and service; of
  several faults the first decides. A bad shared reference fails the request, a
  bad destination only its slot.

### What makes each part correct

- *Cache*: the pointer always names a complete build, through any crash; a start
  over a cache that parses does not fail because of the network; what is on disk
  and what is served diverge only when the build on disk does not parse.
- *Reload task*: a published swap is durable; a reload time belongs to the graph
  that is served; a service that can reach the publisher ends up serving the
  announced build.
- *Parsing and graph*: lookups, edges, classes and hulls say what the files say.
- *Routing core*: routes are cheapest under the preference's weights, "safest"
  and "prefer gates" mean what they say, settled nodes are final, the predecessor
  chain is unbroken, answers do not depend on what the buffers held.
- *Gate routes*: a route uses only hops the request allows in the build it
  started with; a slot fails only when it has to; the two tiers do not mix.
- *Staging*: the fleet can do what an answer says, no better stage was passed
  over, fallbacks continue the ranking, a refusal has its reason.
- *Ranges*: the list is the reachable set, once each, and agrees with its summary.
- *Health*: an answer can mix two swaps but never more, and successive answers
  never go back.
- *Process*: it does what its configuration asks for, answers what it accepted,
  and stops accepting for the signals it listens to and for nothing else.

## Modules

| Module | Extends | What it models |
|---|---|---|
| `SdeStore` | | abstract: a durable current build that is always complete, one served dataset, replaced as a whole |
| `SdeCache` | | the cache directory, both starts, the refresh and its failures, the reload task, the publisher, crash and restart |
| `HullCatalog` | | pure: `from_raw`, `resolve_hull` |
| `GraphData` | `HullCatalog` | pure: `build_graph_data` and `resolve_system` |
| `SdeParse` | `GraphData` | the four files line by line up to the graph |
| `RouteContext` | | pure: gates and overlay, weights, labels, and reference definitions (all simple routes and their cost) |
| `Dijkstra` | `RouteContext` | both searches as a machine, buffers carried over to the next search |
| `EveScout` | | pure: `partition`, expiry, the snapshot |
| `LiveState` | `EveScout` | the shared state and everything that changes it: swap, reload time, polls, the clock |
| `Overlay` | `RouteContext`, `GraphData`, `EveScout` | pure: avoid set, typed connections, scout overlay, step labels |
| `JumpRange` | `GraphData` | pure: `effective_ly`, distances, the radius query, rounding |
| `Wire` | | pure: fields and defaults, what the extractor refuses, shapes of answers, statuses |
| `Handler` | `LiveState`, `Overlay`, `Wire` | what the handlers share: the body, the loads, the refusals |
| `GateRoute` | `Handler` | `POST /route/system` |
| `JumpRoutes` | `Handler`, `JumpRange` | `POST /route/blops` and `POST /route/range` |
| `Router` | `GateRoute`, `JumpRoutes` | a request to any route, interleaved with all of `LiveState` |
| `Health` | `LiveState` | `GET /health`, three loads, interleaved with all of `LiveState` |
| `Service` | `Health` | the process: environment, tasks, bind, signals, drain, exit |
| `*Proofs` | the module of the name | theorems, see "What is proved" |
| `MC*` | | instances for TLC |

Two refinements connect them: `SdeCache` implements `SdeStore`, and `Service`
implements `Health`.

### SdeCache and the code

A build is a number; a file is a model value that is in a build's directory or
is not, because the code writes a temporary file and renames it. `present[b]` is
the directory of build `b`, `pointer` the number in `metadata.json`. `pc`,
`mode`, `base`, `target`, `todo`, `prunable` and `loaded` are the locals of the
one refresh that runs: `mode` says for whom (a cold start, a warm start, the
task), `base` is the code's `current_build`, which is at once what the manifest
is compared with and what a warm start falls back to. `AfterError` is where `?`
leads in each mode. `served` and `stamped` are `AppState.graph` and
`last_reload_at`.

`Boot` is the entry of `ensure_cache`, with the rule that metadata counts only
if all files of its build exist. `UpToDate` and `NeedsInstall` are the
comparison of `check_and_refresh`. `Download` to `PruneEnds` are
`fetch_and_install`, one file per step, with a failure wherever the code has
one; `PruneBuild` leaves any subset of the files of a directory, since a failed
`remove_dir_all` is logged and skipped. `LoadInstalled` and `LoadCached` are the
two calls of `load_build`. `StoreGraph` and `StoreReloadTime` are the two
stores. `Crash` ends the process between any two steps and clears all but the
directory. `Publish` lets the publisher announce any other build, an older one
included.

### SdeParse, GraphData, HullCatalog and the code

One step is one line: a row of the file being read (`ParseSystem`, `ParseGate`,
`ParseType`, `ParseDogma`), a blank line, a line that does not parse, or the end
of the file; `Build` is `build_graph_data`. What a file holds is chosen line by
line, so every content within the bounds is an initial state in effect.
`systems`, `seen`, `gate_pairs`, `published`, `hulls` and `jdc_bonus_per_level`
are the parsers' locals; `rows` is a history of what was read, and the properties
compare the graph with it. `LastBy` is what a loop of inserts into a hash map
leaves. A security status is in hundredths; JSON text is not modelled.

### RouteContext, Dijkstra and the code

A context holds gates (unordered pairs of nodes), the overlay (a function from
ordered pairs to the kind of the connection; `AddConnection` keeps the first
kind of a pair and stores both directions), the security classes, the avoid set
and the preference. Weights are those of the code, 1, 2 and 10000: sums of them
are exact in an `f32` below 2^24, so they are natural numbers here. The machine
has one step for the initialisation of a search, one for an outdated heap entry,
one for settling a node together with the relaxation of all its edges, and the
ends (target reached, heap empty, all targets settled). The heap is a set of
entries with the smallest popped first; entries of equal distance are ordered by
node index, as the code's `Ord` does. The buffers keep their content between two
searches and are reset as the code resets them.

### Router and its parts and the code

One step is one `load`, one `store`, one clock tick, one answered or failed
poll, a refusal, a completed answer, or one destination of a fan-out
(`compute_one`, which reads the clock once and then works on values of its own).
`Bodies` are bodies as a client sends them: `Malformed` is what the `Json`
extractor refuses (a field that is required and missing, or of the wrong kind),
`Decode` fills in the defaults of `dto.rs`. A search is replaced by its result:
some cheapest route, and for the staging service the settled set of all
candidates; the run of `Dijkstra` and its theorems are the reason that is right.
The graph a handler loaded is `view`; every operator of the handler is evaluated
over it. `JumpRoutes` keeps the order of the checks of `route_blops`,
`compute_staging` and `route_range`, each a disjunct whose guard negates those
before it.

Coordinates and base ranges are whole hundredths of a light-year (the SDE has
hulls of 3.5 and 3.75), so distances are compared as exact squares, and a
distance is shown rounded to a hundredth (`Round2`). A range is not: the code
echoes the f64 product of `effective_ly` as it is, which can miss the exact
product by a hair (3.0 at level 2 is 4.199999999999999). `EffectiveLy` is in
ten-thousandths, where the exact product of a base and a whole percentage is a
whole number, and is one less or one more for the triples of base, bonus and
level in `FallsShort` and `Exceeds`, which are constants: whatever an f64 does,
some choice of them overstates. What lies within such a hair of a range may or
may not be found (`Hits`); `Inside` is what surely is and `Outside` what surely
is not, and properties that compare a distance with a range use these two.

### LiveState, Health, Service and the code

A reload time is the number of the swap it was taken for, which is all the
properties distinguish; a fetch time is the clock. `Service` adds what `main`
does: `env` is what it reads, `ServiceInit` the state when the tasks have been
spawned, `Bind` and `BindFails` the listener, `ShutdownSignal` the future of
that name (a signal whose handler cannot be installed is pending for ever),
`Exit` axum's graceful shutdown. `Signal` is the operating system: it hands a
signal to its handler, and one without a handler kills the process, or is
ignored when the process is the first of a container, as in the `Dockerfile`. `Accept`, `BodyRead`, `Leaves` and `Answer` are
the life of a connection that asks for a route; the work of its handler is the
business of `Router`.

Comments `\* Faulty X: ...` precede operators that restate a definition with a
plausible bug in it (a dropped test, a wrong order, a missing reset). They are
used by no specification. Each is a record of what the checked properties
detect: with the faulty operator in place of the real one, TLC finds the
property listed with it in `PROJECT.json` violated.

## What is checked

Every property carries a comment in its module that says it in words.

| Run | Instance | What it shows |
|---|---|---|
| `sde_cache` | 4 builds (one that does not parse, one whose archive lacks a file), 2 files, every deployment | `PointerNamesCompleteBuild`, `WarmStartFatalOnlyAfterPromotion`, `DiskAgreesUnlessBroken`, `ReloadTimeMatchesGraph`, `SwapsAreDurable`, the refinement `ImplementsStore`, and `EventuallyServesLatest`: if the publisher settles on a good build and faults stop, that build is served |
| `sde_parse` | every content of four files: up to 3 lines each, 6 rows in all, out of 15 rows | `PairsAreDistinct`, `LookupsFindTheSystem`, `EdgesAreTheLinks`, `ClassesAreAsDisplayed`, `HullsAreJumpCapable` |
| `dijkstra` | 4 systems, every subset of 5 gates, 4 overlays, avoid sets, all preferences, every pair; a second search in the same buffers | `RoutesAreCheapest` against all simple routes, `SafestIsSafest`, `GatesArePreferred`, `SettledAreRelaxed`, `PredecessorChainIntact`, `PoppedEntriesAreCurrent`, `SettledStaySettled`, `AnswersAreRepeatable` |
| `router` | 91 bodies to three routes, 2 builds with permuted node indices and other hulls, 6 signatures, 1 swap, 2 ticks | `RoutesAreAllowed`, `FailuresAreReal`, `TiersAreSeparate`, `StagingIsUsable`, `StagingIsNearest`, `FallbacksAreNextBest`, `RefusalsAreReal`, `DefaultRangeIsConservative`, `RangeIsExact` |
| `service` | 4 environments, 3 builds, 3 swaps, answers with and without signatures, a health client and a route client, both signals | `ReloadTimeLagsOneSwap`, `AnswersNeverGoBack`, `OnlyConfiguredTasksRun`, `AcceptedAreAnswered`, `SignalsEndTheService`, the refinement `ImplementsHealth` |

Each of them checks a type invariant as well. The properties of `router` do not
use the operators of `Overlay` or `JumpRoutes`: they state what a request allows
by the ids, names and coordinates of the SDE, and so check the index maps, the
flags, the hub rules, the exemptions, the ranges, the ranking and the labels.
Five of these properties say more than their names do:

- `RoutesAreAllowed`: a hop by a connection of the request is labelled with the
  kind of the first one in use that joins the pair, in either order of its ends.
- `StagingIsUsable`: the distance *shown* is not compared with the range shown.
  It is rounded and the range is not, so with a base of 3.0 at level 2 a stage at
  4.197 LY is shown as 4.2 beside a range of 4.199999999999999. What is required
  is that the stage is not out of range by its coordinates; likewise in
  `RangeIsExact`.
- `FallbacksAreNextBest`: each stage listed is one to bridge from, in range, and
  an allowed route leads to it in the jumps shown. They are ranked by jumps and
  then by the distance before rounding. What is left out under `shortest` is
  neither fewer jumps away than the last one listed nor, as near, closer to B.
- `RefusalsAreReal`: `Faults` lists what can be wrong in the order in which it is
  reported (level, hull, ends, target; for a range the source before the hull),
  and whatever holds first is the error of the answer. The reference an
  `unknown_system` shows is the first that the build does not know, of the ends,
  then the avoid list, then the connections.
- `DefaultRangeIsConservative` compares the range echoed with the exact products,
  up to a hair.

### Bounds and why they are enough

- *Builds and files.* A refresh involves the build on disk, the build served and
  the build announced; three numbers let all of them differ, the fourth adds an
  incomplete archive. Two files are the least with an archive read in part. The
  four files of the code are treated alike. Crashes and publications are not
  bounded; the state space is finite.
- *Rows.* Three lines hold a duplicate and what comes after it; the rows have
  two systems of one id, two names that differ in case, both halves of a link
  and a link to nowhere, a hull that comes twice and two hulls of one name, an
  unpublished type and the skill. The theorems do not depend on these bounds.
- *Four systems* give two disjoint detours, a diamond and a chain longer than
  the wormhole penalty, so that ties, outdated heap entries and improvements all
  occur. All subsets of the gates are initial graphs, not a chosen few.
  `MaxSearches` is 2: the buffers are reset per search, so a left-over value
  shows in the next search or never. Every request is searched once; two of
  them, which differ in graph, preference, overlay and avoid set, also before
  and after each other and themselves.
- *Router*: one request, because handlers write nothing shared, at any moment of
  the service's life; two slots are the least that can affect each other. Build
  2 has other systems in another order, so an index of one build means another
  system in the other. Around the target lie systems at distances that differ by
  less than is shown (0.598 and 0.6), at 0, inside, on and beyond the border of
  the ranges, with products that are exact, too small and too large. Bodies come in
  families, one for each group of fields that act together; faults come alone
  and on top of each other. `MAX_ALTERNATES` (5) is 1 and `MAX_DESTINATIONS`
  (1000) is 2 here, so that both limits are reached.
- *Clock and swaps*: signatures expire before, during and after a request;
  health straddles none, one or several swaps. The theorems on `Health` and
  `Service` do not depend on these bounds.
- `CHECK_DEADLOCK FALSE` is set where the model really ends: after the last
  search, after the answer when clock and swaps are used up, when the graph is
  built or a line did not parse, and when the process has exited.

### Fairness

`sde_cache` runs `FairSpec`: weak fairness of `Boot` and of `Refresh`. The first
is the supervisor that restarts the container, the second the scheduler of the
runtime and the ticker, which goes on ticking for as long as the process lives.
It includes one assumption that the code does not enforce: that a request to the
publisher is answered or refused some day. The HTTP client is built without a
timeout (`main.rs:24`), so a connection that stays open in silence would stop
the task.

`service` runs `FairService`: weak fairness of `Bind \/ BindFails`,
`ShutdownSignal`, `Exit`, `HealthHandled` and `Answer`. The worker threads run
what can run, and handlers wait for nothing once the body has come. Nothing is
asked of clients, signals, tasks or the clock: a client may stall in the middle
of its body for ever, and since the drain has no deadline the process then does
not exit, which is why `SignalsEndTheService` makes that exception. No property
covers the publisher that keeps silent and the client that stalls; both are
listed among the hazards without one.

No fault and no publication is ever required to happen, and none is required to
stop: the left side of `EventuallyServesLatest` says under which behaviours it
promises something.

### Where the code differs from what is written about it

Each of these runs checks one statement that a comment, a doc or a specification
of the repository makes, and TLC shows a behaviour of the code that contradicts
it.

| Run | Statement | Behaviour |
|---|---|---|
| `sde_startup_fallback` | a failed refresh at a warm start falls back to the cached build (`sde/cache.rs:291`, `:353`) | the new build is promoted, the cached one pruned, then the new one does not parse: the fallback loads a build that is gone, and every start fails until the publisher moves on |
| `sde_downgrade` | a *newer* build is swapped in (`tasks.rs:18`) | any other number is, an older one as well |
| `sde_up_to_date` | "Cache was already current" (`sde/cache.rs:400`) | the task's `base` is the served build; the cache can name an unparsable one at that moment |
| `wormhole_tie` | a wormhole is taken only when it saves more than the penalty (`routing.rs:30`) | one that saves exactly the penalty ties and can win |
| `fanout_clock` | the overlay is resolved once for all destinations (`openspec/specs/gate-routing/spec.md:23`) | the clock is read per destination; equal destinations can differ |
| `connections_validated` | an unknown system among the connections is always a `400` (`dto.rs:250`) | the staging service answers `404` before it looks at them when nothing is in range |
| `health_reload_time` | the reload time is that of the last swap (`openspec/specs/health-and-openapi/spec.md:15`) | between the two stores the new build is reported with the older time, or none |

Differences met while reading that have no run:

- An unknown connection `type` is a "request-level `400`" in `dto.rs:67` and
  `:84`; the extractor answers `422`, as `README.md:146` and
  `tests/hurl/route.hurl:149` say.
- `README.md:218` says that `alternates` lists every in-range candidate; there
  are at most `MAX_ALTERNATES`, and none when ★ is reached in zero jumps, where
  `openspec/specs/blops-staging/spec.md:115` promises fallbacks whenever several
  candidates can be reached.
- With the fleet in bridge range the README has ★ be `from` itself; it is not
  when A is B or A is in J-space, neither of which is a candidate.
- In the staging service only `from` is taken out of the avoid set, in the
  system route the destination too.
- "safest" and "prefer gates" rank stages by the jumps of the cheapest route
  under those weights, not by the fewest jumps.
- `dto.rs:205` and the doc of `RouteContext` (`routing.rs:69`) list `ansiblex`
  where the code writes `bridge`; the doc of `RangeSummary` lists a `Wormhole`
  tally that cannot occur; `model.rs:205` calls the spatial index unqueried.
- `openspec/specs/sde-graph/spec.md:33` loads a warm start without downloading
  anything; the code asks for the manifest first and installs another build.

## What is proved

The proofs hold for every set of builds and files, every graph, every content of
the SDE, every feed of signatures, every body a client may send, every
environment and every bound. Each invariant and action property that a passing
run checks is proved; what is left to TLC is liveness. The proofs use the
assumptions named in the modules and nothing else:

- bounds are naturals (`BoundsAssumption`, `DestinationsAssumption`,
  `AlternatesAssumption`), a range of nothing is not rounded below it
  (`RoundingAssumption`), environments are of their shape (`EnvsAssumption`),
  and names and files are apart (`BuildsAssumption`, `NoBuildAssumption`,
  `ShippedAssumption`, `FilesAssumption`, `HubsAssumption`);
- a graph is finite and a context one that the services can build
  (`NodesAssumption`, `RequestsAssumption`); that the handlers build no other is
  proved (`HandlersAskLegalSearches`);
- a row has the fields and types that its JSON type promises (`RowsAssumption`,
  `FeedsAssumption`), and so does a field of a body unless it is among the wrong
  ones (`BodiesAssumption`); lower-casing twice is lower-casing once
  (`LowerAssumption`);
- in the systems of a build no two share an id or a name
  (`SdeAssumption`, `IsParsed`). This is a promise of the SDE that the code does
  not check: it keeps both rows and finds the last. `SdeParseProofs`
  does without it; the routes need it because an answer names systems by id.

**SdeCacheProofs.** No checked property of `SdeCache` is inductive: for instance
`WriteMetadata` keeps the pointer on a complete build only because the build was
found complete before, and that survives the prune only because the prune never
visits the target. `IInv` is the conjunction of `TypeOK` and

- `InstallInv`: what is known of `target` and `prunable` at each step of an
  install (complete from promotion on, never among the prunable);
- `ModeInv`: which steps occur in which mode, and what `base` is in each;
- `DataInv`: what is in memory came from a build that was loadable;
- `ServedInv`: served and stored build agree unless the stored one is broken.

`NextPreservesIInv` has a step for each action. From `Invariance` follow
`TypeCorrect`, `PointerIsCrashSafe`, `WarmStartFallsBack`, `DiskAndMemoryAgree`,
`ReloadTimeIsOfServedGraph`, and, with lemmas on which actions write what,
`HotSwapIsDurable` and `CacheImplementsStore` (each action of `SdeCache` is an
action of `SdeStore` or a stutter).

**SdeParseProofs.** All properties of the parse run, for files of any length:
`TypeCorrect`, `GatePairsCollapse`, `LookupsAreRight`, `EdgesFollowTheFile`,
`ClassesFollowTheDisplay`, `CatalogFollowsTheFiles`. The invariant relates each
local of the parsers to the rows read so far: `SystemsInv` and `PublishedInv`
row by row, `PairsInv` (each pair is the key of a row that was read, no row is
missing) and `HullsInv`, which needs that no dogma row is read before the types
are at their end, or a hull could be missed. `ControlInv` says that the graph is
built from what was parsed. `LastByIsLast` is the lemma the lookups rest on: a
loop of inserts leaves the last row of each key.

**DijkstraProofs.** `IInv` adds to `TypeOK` that the source has distance 0, that
pending heap entries are no smaller than settled labels and no smaller than the
labels of their own nodes, and that each label comes from its predecessor by an
edge. `SettleEffect` says what one settling step does to distance, predecessor
and heap; `SettlePreservesIInv` is the core, a case split on whether a node
improved. Proved from it: `TypeCorrect`, `SettledLabelsAreFinal`,
`ChainNeverBreaks` (what path reconstruction relies on), `StalenessTestIsRedundant`
(an entry that is popped for an unsettled node is current, so the code's test for
outdated entries never decides anything beyond the settled test) and
`SettledNodesKeepLabels`.

Also there, over **RouteProofs**: `SearchesAreOptimal` is the full promise of
both searches, for any finite graph: one of the cheapest routes that enter no
system twice, for exactly the targets that have one. Its invariant adds to
`IInv` that the targets still wanted are those not settled (`WantInv`). The
argument is in three lemmas about labels, free of the state machine:
`PathToIsRoute` (following predecessors descends, so it meets the source within
as many steps as there are nodes, by the pigeonhole principle, and the path
costs the label), `NoRouteUndercuts` (along any route, either the cost so far
bounds the label of the node reached or it has passed the label of the target
already) and `DrainedIsComplete` (with an empty heap every node a route leads to
is settled). `Cost`, `SimpleRoutes` and `PathTo` are recursive functions; that
each exists is proved first, by extending a shorter one, with an induction over
sets (`SetInduction`) that rests on the well-foundedness of the naturals.
`CostSplits` writes a cost as jumps plus penalties, and from it follow
`GatesFirst` and `SafestAvoidsExposure`. The latter needs a graph of at most
`SECURITY_PENALTY` (10000) systems: a detour through more highsec systems than
that would cost more than one step into lowsec. The code states no such bound.

`AnswersRepeat` compares two searches that need not stop at the same place: one
for a single target, one for many, in buffers with different leftovers. Nodes
are settled in the order of label and index (`OrderInv`), and only a strictly
smaller label replaces a predecessor, so the predecessor of a node is the first,
in that order, of the settled nodes that give it its label (`FirstInv`). Two
searches of one context from one source therefore agree on the labels and
predecessors of all nodes that are as near as the target (`DistancesAgree`,
`PredecessorsAgree`), and the walk back is the same (`BackIsSame`).

**HealthProofs** and **ServiceProofs.** A property of one answer needs an
invariant of the writer: the task starts no swap before it has stored the time
of the last one (`StampFollowsSwap`), and the handler reads the graph before the
time (`ReportFollowsState`). From these come `TypeCorrect`, `ReloadTimeIsRecent`
and `ReportsAdvance`. `ServiceImplementsHealth` shows that every step of the
process, from startup to exit, is a step of `Health` or leaves it alone, and
carries the three over (`ServiceReloadTimeIsRecent`, `ServiceReportsAdvance`).
`ServiceIInv` adds that what a disabled task would have changed is as it was at
the start (`TasksAsConfigured`); from it follow `ServiceTypeCorrect`,
`ConfigurationIsObeyed` and `StopsForSignals`.

**OverlayProofs** and **RouterProofs.** The handlers compute over nodes, edges
and snapshots; the properties of `Router` speak of ids, names, links and
signatures. `OverlayProofs` translates, for the pure operators: what a lookup
finds, in systems (`LookupFinds`) and hulls, which edges the overlay holds and
what each is labelled as (`UserOverlay`: the first connection of a pair),
which signatures it takes, how distances and ranges compare. `RouterProofs` lifts this to the request (`NodeFacts`, `NamedFacts`,
`ContextFacts`) and to routes of any length: the recursive `WithinJumps` of the
properties exists (`ReachedExists`), and what it reaches is what a route of the
search reaches (`ReachedAreFound`).

No property of an answer is inductive, because the answer outlives what it was
computed from: meanwhile builds are swapped, polls replace the signatures and
the clock goes on. `RouterSafe` is the conjunction of

- `LiveInv` and `HandlerInv`: the shared state, what the handler loaded, and that
  a decoded request has its fields, of their types (`RequestOK`);
- `GateInv` and `ReasonInv`: the header of a request for gate routes was right in
  the loaded build, the avoid set and the connections are what the header says,
  the slots filled so far are those of the first destinations, and a refusal has
  its reason;
- `SlotsInv`: each filled slot holds a route by hops that the request allows at
  some moment since it began. A hop that was allowed stays explained by that
  moment, a signature being dropped later or not;
- `AnswerInv`, `StagingInv`, `RangeInv` and `RefusalInv`: an answer is the ranking
  of what could be reached at some moment of the request, or the systems in
  range, and a refusal has its reason. `Complete(found, jumps, s)` says that what
  the search missed at moment `s` no allowed route leads to, at `s` or later:
  of the signatures loaded, some expire and none is added. That makes
  "unreachable" true however late one asks.

`FailuresInv` says the same of the failures in slots. From these follow
`GateRoutesAreAllowed`, `GateTiersAreSeparate`, `GateFailuresAreReal`,
`StagingAnswersAreUsable`, `StagingAnswersAreNearest`, `FallbacksAreTheNextBest`,
`DefaultRangesAreConservative`, `RangeAnswersAreExact`, `JumpRefusalsAreReal`
and `AnswersAreWellFormed`.

The handlers are modelled with any of the cheapest routes of a context
(`CheapestRoutes`) where the code runs a search. Two theorems justify that:
`HandlersAskLegalSearches`, that each context they build is one that the search
is proved for, and `SearchesAreOptimal`, that the search then returns one of
`CheapestRoutes`, or nothing when there is none. The first is stated of a graph
with a system for each node, as the code's is: `Router` has several builds over
one set of nodes, and a build may leave some unused.

### Only model-checked

- Liveness (`EventuallyServesLatest`, `AcceptedAreAnswered`, and the second half
  of `SignalsEndTheService`, whose first half is `StopsForSignals`): fairness is
  outside the proof system used.
- The runs that expect a violation, by nature.

## What is not modelled, and why

- The port, the version strings, tracing, the OpenAPI document and Swagger UI:
  nothing else depends on them, and they hold no state.
- JSON text, field names and messages; HTTP bodies beyond what the extractor
  accepts or refuses. `serde` and `axum` are modelled from how they are used.
- Release dates and the content of the archive beyond its files; the HTTP fetch
  and decoding of signatures is one step that answers or fails.
- The kd-tree of the spatial index: a set of nodes and an exact distance stand
  for it, with the border of a query left open.
- Cost of computation. Up to 1000 searches run in one handler without a point
  where it yields (`services/route.rs:100`), which delays other work of the same
  thread; time has no length here.
- Loss of power: the code does not `fsync`, and a rename is taken as durable.
- A transient read error of a file that is there; two processes on one
  directory; a wall clock that goes back.

## How the plan went

The order was: the cache and hot reload first, since a fault there stops the
service for good; then the search, on which every answer rests; then the
concurrency of one service. On these were built the staging and range services
over the same snapshots and overlay, the parsers and the hull catalog, and the
process around all of it. What would come next:

1. `LiveState` as an abstraction of `SdeCache`: the two stores of the reload
   task refining the swaps that handlers are checked against.
2. The order in which `shortest_path_multi` settles the stages: `Ranked` takes it
   from cost and index, which `OrderInv` proves of the search.
