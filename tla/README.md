# Lotsen in TLA+

Lotsen runs Docker deployments on one host. Its control plane is a set of
processes that share one JSON file: the API writes what users ask for, the
orchestrator makes Docker agree with it, the proxy routes traffic to what runs,
and a command-line tool plans and applies a declarative configuration. This
directory models that control plane in TLA+, checks it with TLC on small
instances and proves with TLAPS, for every instance, the safety properties that
the passing runs check.

`PROJECT.json` is the index: components, runs, the source lines each definition
models (`map`), the hazards the properties are aimed at, mutants that show that
each property can fail, findings and theorems.

## 1. The system and its parts

| part | state it keeps | operations | interacts with |
|---|---|---|---|
| store (`store/store.go`) | the deployments file: deployments and registries | List, Get, Create, Update, Patch, UpdateStatus, Delete, the registry operations; each under a mutex and a `flock` | every process |
| deployment handlers (`api/internal/api`) | the requests being served | create, update, patch, restart, delete, update status | store, event broker |
| port assignment (`api/internal/api/handler.go`) | none: bindings are stored in the record | `assignHostPorts` | called by create, update and patch |
| reconciler (`orchestrator/internal/reconciler`) | last reachability of Docker, a retry state per deployment; during a pass the snapshot and the listing | `Reconcile` on every tick | store, Docker, API (`NotifyStatus`) |
| Docker driver (`orchestrator/internal/docker`) | none: the containers are the daemon's | Start, StartAndReplace, StopAndRemove, list, resolve ports, swap the proxy's route | Docker, proxy |
| proxy poller and table (`proxy/internal/{poller,routing}`) | the routes; the last listing | sync on every tick, Set/Delete/Get, `POST /internal/routes` | store, orchestrator |
| proxy request handler and middleware (`proxy/internal/{handler,middleware}`) | the scanner limiter's entries, the requests being served | one goroutine per request: limiter, filters, WAF, basic auth, token, forward, log | table, the dashboard's settings file, API (login) |
| access logs (`proxy/internal/handler/access_log.go`, `api/.../handler_load_balancer_access_logs.go`) | one file per hour, the writer's current file; a page's cursor | append, rotate, expire; page from the newest line | proxy writes, API reads |
| system status and heartbeats (`api/.../system_status.go`, `handler_record_orchestrator_heartbeat.go`, `handler_system_status_events.go`) | the last signal of each kind, the streams' buffers | record a heartbeat, derive a snapshot, publish, stream | orchestrator (`NotifyHeartbeat`), API clients |
| upgrade runner (`api/internal/upgrade`) | running or idle, the subscribers' channels | Start, collect, broadcast, finish, Subscribe | a child process, HTTP clients |
| config plan and apply (`api/cmd/lotsen/config.go`, `configplan`, `configapply`) | a plan file; listings during an apply | export, Build, check the fingerprint, Execute | store, host profile |
| event broker, version service | subscribers, a cache | publish/subscribe, fetch | API clients |
| authentication, users, host profile, volumes, metrics, log streaming | files, SQLite, Docker | see the source | API clients |
| dashboard, website, installer | none of their own | | API |

### What is hard here

* **Stale reads.** A pass of the orchestrator works for minutes from a snapshot
  and a listing taken at its start; handlers read a record under one lock and
  write it under another; an apply writes from a listing.
* **Steps that fail in the middle.** A redeploy is create, start, verify,
  resolve, swap the route, remove the old container, rename; each call can fail
  and the process can be killed between any two. The same holds for the write
  of the file and for an apply's list of writes.
* **Several processes, one file.** Two locks in one order, a re-read inside the
  lock, a temporary file and a rename.
* **Messages that race.** The orchestrator's route swap against the poller's
  sync; a status notification that times out in the client and is served
  anyway; heartbeats that overtake each other and snapshots published out of
  order; upgrade output against subscribers that come and go.
* **Requests that race.** Requests are recorded by the limiter in another order
  than they arrived, routes and settings change while a request is being checked,
  and log files are rotated by goroutines whose clocks are old.
* **Things that must happen.** Deploys end, orphans go, exits are noticed,
  transient failures are retried, calls return, streams end.

`PROJECT.json` lists each of these at the line where it bites (`hazards`).

## 2. Modules and how they correspond to the code

### The control plane

| module | models |
|---|---|
| `StoreOps` | a deployment record and the store's operations as atomic operators on `[IDs -> record]` |
| `Deployments` | the stored deployments as a variable, with the ids ever used (`newID` draws fresh ones) |
| `DeploymentAPI` | each handler as its reads and its write, so that other processes come between; the status notification's handler |
| `DockerEngine` | the containers of the daemon and what each engine call does to them (external: modelled from how the driver uses it) |
| `Orchestrator` | one pass of `Reconcile` with the driver's calls as steps |
| `Lotsen` | their composition, exits and kills, the properties |
| `LotsenInvariants`, `LotsenProofs` | the inductive invariant and the proofs |
| `LotsenClaims` | what documents and comments say and the code does not do |

`Orchestrator` follows `Reconcile` with a program counter. `pc` names the call
that is next: `idle` (the tick and `store.List`), `ping`, `list`, then `each` and
`visit` for every deployment, `orphans` at the end, and `down` when the ping
failed. A visit that starts a container goes through `start`, `create`, `run`,
`verify`, `resolve`, `retire`, `rename`; every visit that has something to say
ends in `patch` (the status written to the store) and `notify`, `await` (the same
status sent to the API). The locals of a pass are variables: `snap` (the listed
deployments), `seen` (the listed containers), `todo`, `cur`, `prim` (the primary
container), `rm` (what is still to be removed), `mode` (`fresh` is Start,
`replace` is StartAndReplace; with overlapping host ports StartAndReplace removes
the old container and goes on as `fresh`), `new`, `report`. `retry` and
`lastReachable` are what the reconciler keeps between passes. Every call of
Docker, of the store and of the API has a failing alternative, which takes one
unit of `MaxFaults`; so does a container that exits and a process that is killed.

A deployment record is reduced to what other parts tell apart: name, image
(standing for everything a container is made from), host ports, domain, status,
and the kind of error text, since `isTransientFailure` decides by the text. Time
is what a retry still has to wait when a pass begins: `BeginPass(n)` is a tick
that finds `n` units gone.

### The file-backed store

| module | models |
|---|---|
| `StoreRequests` | a request of the store and its effect on the decoded state |
| `AtomicStore` | the promise: each request takes effect at one instant, or fails and changes nothing |
| `JSONStore` | the code: mutex, `flock`, read, decide, temporary file, write, sync, rename, unlock, answer; failed calls, kills, power loss |
| `JSONStoreProofs` | `JSONStore` implements `AtomicStore` |

The control plane uses the atomic operators of `StoreOps`. `JSONStore` is what
justifies that: `ImplementsAtomicStore` says that the goroutines of several
processes on one file behave as if each call were atomic. The refinement mapping
takes the decoded file as the abstract state, what is on disk as the state a
power loss falls back to, and each goroutine as idle, called or done; the rename
is the step that applies a write, the answer is the step of everything else.

### The others

| module | models |
|---|---|
| `ProxyRouting` | the poller's `sync` step by step over the table, with its memory of the last listing; route swaps that arrive late or never; restarts of the proxy |
| `PortBindings` | `assignHostPorts`, `resolvedPorts` and the two functions that derive an upstream, one by the poller and one by the driver |
| `UpgradeRunner` | `Start` with its failing steps, `collect`, `broadcast`, `finish`, `Subscribe`, and the stream handlers |
| `ConfigApply` | `plan` and `apply` with every store call of the export, of the check and of `Execute` as a step |
| `SystemStatus` | the orchestrator's probes and heartbeats, `recordOrchestratorHeartbeat` signal by signal, the derivation of a snapshot, the broker and the streams of `handler_system_status_events.go` |
| `AccessLogs` | the log file of the hour with rotation, expiry and failed writes; the API's reader with its cursor |
| `ProxyRequests` | `Handler.proxy` over `AccessLogs`: the checks in their order, the scanner limiter, changes of routes and settings, restarts |
| `ProxyRoutingProofs`, `PortBindingsProofs`, `UpgradeRunnerProofs`, `ConfigApplyProofs`, `SystemStatusProofs`, `ProxyRequestsProofs` | the inductive invariants and the proofs |

`SystemStatus`: an idle handler takes a heartbeat from a round of probes
(`Probe`), records its signals one at a time (`pc = "record"`, one `Record` per
lock), then takes a snapshot (`pc = "read"`, one `ReadSignal` per lock, into
`draft`) and publishes it. A stream is closed, has subscribed (`initial`), is
open, or its client has stopped reading (`stuck`). The code stores times and
compares them with a clock; the model stores ages, which `Tick` lets grow up to
the first that is stale, so that no run needs a last moment. The snapshot that a
stream writes first is taken in one step. The pass of `Reconcile` that follows a
heartbeat is the time until the next `Probe`, which nothing forces to come.

`ConfigApply`: the running command is one record, `cli`, whose `pc` names its next
store call: the export (`deployments`, `registries`, `host`), the listings of
`Execute` (`list`, `entries`) and its writes (`run`, with the actions still to do in
`todo` and those that failed in `failed`). The orchestrator is there with what an
apply can meet of it: `StartPass` takes the snapshot, `Report` writes a deployment's
status and ports from that snapshot, at any later time and without a check, and
`EndPass` forgets the snapshot. `pass` is the snapshot of what is still to be
reported, and `reportedOn` (history) the configuration that the last report was
about. A configuration is a value that two constant functions transform: `KeptOf`
is what the store keeps of one that a file gives (`volumeBindingsFromMounts` drops
the owner and the mode of a managed mount), `PortsOf` puts the ports of a
container's configuration into a record's.

`ProxyRequests`: a goroutine's `pc` is the place where it next takes a lock or
reads shared state. For a deployment the route is read once and decides
everything (`Screen`); for the dashboard's domain the settings file is read three
times (`EvaluateDashboard`, `ResolveMode`, `EvaluateWAF`). The limiter is told the
time of arrival, the log reads its own clock before its lock (`ReadClock`, then
`WriteLine`). What a request would fail (`kind.fails`) is a property of the
request; `force`, `scans`, `lastScan`, `blocks` and `written` are history.

`MCLotsen`, `MCJSONStore`, `MCProxyRouting`, `MCConfigApply`, `MCSystemStatus`
and `MCProxyRequests` give the constants values that a `.cfg` cannot write, and the symmetry sets.

Definitions whose comment begins with "Mutant:" are plausible bugs in the
definition that follows; no specification uses them. They are there to show that
the properties notice the bug.

## 3. The runs

| run | module | what it checks | states |
|---|---|---|---|
| replace | `MCLotsen` | `OldKeptOnFailedReplace`, `HealthyIsBacked`, `NoStaleContainers`, `RetryBackoff`, `NoResurrection` | 679 000 |
| live | `MCLotsen` | `OrphansAreDeleted`, `DeployEnds`, `DeletedCleanedUp`, `ExitNoticed`, `TransientRetried`, `StaleContainersGo` | 271 000 |
| saves | `MCLotsen` | violated: `ConcurrentSavesApplied` | |
| overlap | `MCLotsen` | violated: `OldSurvivesFailedRedeploy` | |
| file | `MCJSONStore` | `FileDecodes`, `PrefixesUnique`, `ImplementsAtomicStore`, `CallsReturn` | 253 000 |
| routes | `MCProxyRouting` | `RouteOldOrNew`, `RoutesFollowStore` | 99 000 |
| removed | `MCProxyRouting` | violated: `RemovedNotRouted` | |
| bindings | `PortBindings` | `BindingsDistinct`, `RequestBound`, `UpstreamsAgree` | 30 000 |
| upgrade | `UpgradeRunner` | `OneUpgrade`, `ClosedOnce`, `NoGaps`, `FilesClosed`, `StreamsEnd` | 158 000 |
| apply | `MCConfigApply` | `TypeOK`, `LeftoversReported`, `OnlyApproved`, `StatusIsCurrent`, `HandoverKeepsDomain` | 1 002 000 |
| status | `MCSystemStatus` | `FreshClaims`, `CaughtUp`, `HeartbeatsEnd`, `OutageShown` | 626 000 |
| edge | `MCProxyRequests` | `TypeOK`, `RecentKept`, `PagesComplete`, `BlocksEarned`, `BlocksEnd`, `Screened` | 3 262 000 |

The types of every module are theorems (section 4); *apply* and *edge* also check
them, where most values are built up.

Run one with `tlc -workers 2 -config MCLotsen_replace.cfg MCLotsen`.

### What they show

* **No deployment comes back** (`NoResurrection`), although handlers and passes
  hold copies of it from before the delete: Update, Patch and UpdateStatus refuse
  an id that is not stored.
* **Orphan removal is safe however stale the pass is** (`OrphansAreDeleted`): only
  the orchestrator starts containers, so a container of the listing belongs to a
  deployment of the snapshot or of an earlier pass, and one that is in neither
  the snapshot nor the store never will be.
* **A failed replacement keeps the old container** (`OldKeptOnFailedReplace`),
  and **a start reported healthy left a container of the snapshot's image**
  (`HealthyIsBacked`), whichever of the seven steps fails.
* **Without faults there is never a second container between passes**
  (`NoStaleContainers`), and **with faults the second one goes in the end**
  (`StaleContainersGo`).
* **The loop makes progress**: deploys end, deleted deployments lose their
  containers for good, also the one that a pass starts after the delete; a
  healthy deployment without a running container is noticed; a transient failure
  is retried, and **the back-off doubles with every failure up to its cap, holds
  back every retry until it is over and is forgotten on success**
  (`RetryBackoff`).
* **The file-backed store is atomic** under kills, power losses and failed calls,
  its file always decodes, no two registries get one prefix, every call returns.
* **The routing table follows the store** for every domain that no direct route
  swap has touched, though the poller only ever writes differences to its own
  memory.
* **Port assignment is free of conflicts and complete** for one request at a
  time, and the poller and the driver derive the same upstream from it.
* **One upgrade at a time, channels closed exactly once, no gaps in a stream, no
  file left open, every stream ends with the process.**
* **An apply does what was approved**: nothing but the approved actions on what
  nobody else touched (`OnlyApproved`), and what it reports as failed is exactly
  what a new plan would still ask for, but for the deployments whose file gives
  a managed mount an owner or a mode (`LeftoversReported`). **A status goes on
  speaking for the configuration it was reported on** while nobody but the apply
  and passes with the current configuration write it (`StatusIsCurrent`).
* **The dashboard claims no health that was not found lately** (`FreshClaims`),
  because a heartbeat carries the time of its round: one that is handled late
  arrives stale. **An outage that lasts is shown in the end and stays shown**
  (`OutageShown`), although events are dropped and overtake each other: the next
  heartbeats correct them, as long as they keep coming. **No snapshot falls between a stream's subscription
  and its first write** (`CaughtUp`), and **no client holds up a heartbeat**
  (`HeartbeatsEnd`).
* **The limiter blocks for scans of the client's own, each counted once**
  (`BlocksEarned`), **and not for longer than `BlockFor` after the last of them**
  (`BlocksEnd`), in whatever order requests are recorded.
* **A check that was in force throughout is not evaded** (`Screened`), although
  the dashboard's settings are read three times for one request.
* **A log line stays for its retention** (`RecentKept`), although a late
  goroutine changes back to the file of the hour before and removes files by its
  old time: the file's modification time decides. **A reader that reached the end
  missed no line that is still there** (`PagesComplete`), although lines are
  appended between its pages and its cursor counts from the end of a file.

### Bounds, and why they are enough

* *replace*: one deployment, two images (old and new suffice to tell a stale
  container), three user requests (create, save, delete is the longest chain one
  property needs), four container ids (the most that exist at once is three: the
  old, one left over by a failed removal, the new one), two faults (a failure and
  a second one during its clean-up, or two failed retries, which reach the cap
  of the back-off at `BaseDelay = 2`, `MaxDelay = 3`).
* *live*: two deployments named `web` and `web-next`, so that one's temporary
  name is the other's real name; one host port that they may compete for; a
  domain that is also the dashboard's; one image, two requests, three container
  ids and one fault, anywhere, then quiet.
* *file*: two goroutines in the API process (mutex and flock both matter) and one
  in the orchestrator's (only the flock does), three calls, one failed call, kill
  or power loss, with an empty or an older array-shaped file at the start. The
  requests are the operations of the store, split by which process makes them; a
  kind of request that takes the same steps as another is there once.
* *routes*: two deployments, four spellings of two domains (one of them
  normalises to nothing), two changes of the store, one swap, one restart.
* *bindings*: two deployments, requests of up to two mappings over two container
  ports (80 and 443, which sort the other way as strings) and both protocols, a range of three host ports one of which users also
  name, three operations: enough to exhaust the range and to reassign.
* *upgrade*: two calls of Start, one stream, a channel and a pipe of capacity
  one (the code has 32; full is full), three lines.
* *apply*: two names, four specs (one is rewritten by the orchestrator, one has an
  owner that the store drops), two domains, a prefix in two spellings, four files
  (one moves a domain from a dropped deployment to an added one; one does not
  validate), one write of the API, three commands (a plan, its apply and another
  plan or apply). Passes of the orchestrator are not bounded. Symmetric in ids.
* *status*: two handlers (one heartbeat overtakes another), one stream with a
  buffer of one (the code has 16; full is full), `StaleAfter = 0` (a signal of
  this round is fresh, any older one stale), and two of the five signals:
  the orchestrator's and Docker's, on which the orchestrator's state depends too. A
  round finds that neither, the store or Docker fails, so that either can fail for
  good while the other works.
  The other three are recorded and read in the same way.
* *edge*: three requests of three kinds (a scan, a visitor that lacks a token, a
  request to the dashboard that its filters refuse) and three ticks, with an hour
  of two ticks, a retention, window and block of one, and a threshold of two: a
  block, its end and a late record after it, and a change of files and an expiry,
  fit in. A page holds one line. One event out of: a change of routes or settings,
  a failed write, a restart, a reader. Symmetric in requests.

`CHECK_DEADLOCK FALSE` stands in the runs in which the system may stop: callers
stop calling, users stop saving, both upgrades are over, the operator is done, all
requests were served. In *replace*, *live* and *status* the orchestrator's loop
never stops and deadlock is checked.

### Fairness, and why the code justifies it

* `Lotsen`: weak fairness of the orchestrator's step (one goroutine that the
  scheduler runs and systemd restarts), strong fairness of a tick that finds time
  passed (`BeginPass(1)`: the wall clock advances between ticks, so waiting
  retries come due), weak fairness of serving a notification that the API
  received. Users never have to act and faults never have to happen; they are
  finite in number.
* `JSONStore`: weak fairness of each goroutine. Nothing is assumed about who gets
  a contended lock; with finitely many calls nobody waits forever.
* `ProxyRouting`: weak fairness of the poller's loop (a ticker) and of a swap on
  its way being served or lost.
* `UpgradeRunner`: weak fairness of goroutines. Nothing is assumed of the upgrade
  process: `StreamsEnd` speaks of processes that exited.
* `SystemStatus`: weak fairness of each handler and of each stream whose client
  reads; strong fairness of the reads of some handler, which says that not every
  heartbeat for ever is refused for the container usage it carries. None of the
  orchestrator's rounds: `Reconcile` runs in their goroutine and its calls of Docker
  have no deadline, so a daemon that hangs stops them. `OutageShown` has it as a
  premise that rounds keep coming. A client may stop reading for good, and the API
  may restart at any time.
* `ConfigApply`, `ProxyRequests`: none; only safety is stated.

## 4. What is proved

TLAPS checks the theorems below for every value of the constants that satisfies
the named assumptions: any number of deployments, containers, goroutines,
requests, faults, signals, streams and lines. With them every invariant and every
action property of the passing runs is proved.

| theorem | module |
|---|---|
| `TypeCorrect`, `NoResurrectionHolds`, `OrphansAreDeletedHolds`, `OldKeptOnFailedReplaceHolds`, `HealthyIsBackedHolds`, `RetryBackoffHolds`, `NoStaleContainersHolds` | `LotsenProofs` |
| `StoreTypeCorrect`, `FileDecodesHolds`, `ImplementsAtomicStoreHolds`, `PrefixesUniqueHolds` | `JSONStoreProofs` |
| `TypeCorrect`, `RouteOldOrNewHolds` | `ProxyRoutingProofs` |
| `PortsInvariant`, `BindingsDistinctHolds`, `RequestBoundHolds`, `UpstreamsAgreeHolds` | `PortBindingsProofs` |
| `TypeCorrect`, `OneUpgradeHolds`, `ClosedOnceHolds`, `NoGapsHolds`, `FilesClosedHolds` | `UpgradeRunnerProofs` |
| `ApplyTypeCorrect`, `ApplyInvariant`, `ApplyLeftoversReported`, `ApplyOnlyApproved`, `ApplyStatusIsCurrent`, `ApplyHandoverKeepsDomain` | `ConfigApplyProofs` |
| `TypeCorrect`, `FreshClaimsHolds`, `CaughtUpHolds` | `SystemStatusProofs` |
| `BlocksEarnedHolds`, `BlocksEndHolds`, `ScreenedHolds`, `RecentKeptHolds`, `ProxyTypeCorrect`, `PagesCompleteHolds` | `ProxyRequestsProofs` |

**Assumptions.** The sentinels (`NoDeployment`, `NoContainer`, `NoRoute`,
`NoThread`, …) are not values; a deployment's `-next` name differs from its name;
`0 < BaseDelay <= MaxDelay`; each goroutine has a process; requests, requested
configurations and normal forms have their types; capacities are naturals; a
snapshot reads the orchestrator's signal and then Docker's before the others
(`StatusAssumption`); an hour, the retention, a page and the threshold are positive
(`LogAssumption`, `RequestAssumption`); ports are positive numbers, as `parsePort`
makes sure (`PortsAssumption`); "none" is not a container (`NoneAssumption` of
`Orchestrator`). For an apply, what the stores hold at first has its types and
keeps registry prefixes in normal form and at most once (`SeedsAssumption`), which
is what `PrefixesUnique` proves of the store. TLC evaluates each on every run. `Threads`, `Processes`, `IDs`, … need not be finite.

**The control plane.** None of the four container properties is inductive: what a
pass may do depends on what its locals promise about the past. The invariant of
`LotsenInvariants` says it part by part:

* `VisitOK`: what the locals of a pass hold at each `pc`;
* `FreshIDs`, `IDsKnown`: a create is about to write an id that was never used,
  and every stored, listed or labelled id was used; with `Dead(d)` (used and not
  stored, which is for ever) this gives `NoResurrection`;
* `SnapshotCovers`: during a pass every container belongs to a deployment of the
  snapshot or to a dead one. It is kept because only the pass itself starts
  containers, for deployments of its snapshot. Orphans are containers of none of
  the snapshot, hence of dead deployments: `OrphansAreDeleted`;
* `ListedKept`: containers of deployments that are not yet visited are still
  there, and so is the primary until it is retired: `OldKeptOnFailedReplace`;
* `NewOK`: the container being brought up is the current deployment's, of the
  snapshot's image, and none of the listing, so that retiring the old container
  cannot remove the new one: `HealthyIsBacked`.

* `Single`: as long as nothing failed, a pass that began also ended, so that its
  listing has every container of the deployments it has still to visit; two
  containers of one deployment are the primary and its replacement, between the
  creation of the one and the removal of the other; and a visit that found none,
  or that removed the old one before the start, starts with none. A fault may
  break any of this, and the lemma `FaultsStep` says that faults are never
  forgotten: `NoStaleContainers`.

`RetryBackoff` is an action property. That a retry is put off by the delay due and
the next one by twice that, up to the cap, is what the step does; that a
deployment reported healthy has no retry left over needs that its retry was
cleared earlier in the same visit (`RetryCleared`), and that a pass in which Docker
is down reports no start needs `DownPass`.

**The store.** `Inv` of `JSONStore`: whoever is between its read and its rename
holds the exclusive flock (`WritersLocked`), so what it is about to write is what
its request makes of the file as it is now (`DataCurrent`), and the temporary
file holds that, synced before the rename (`TmpCurrent`, `FilesSynced`). From it
each step of `JSONStore` is a step of `AtomicStore` or stutters.
`PrefixesUnique` needs `DataCurrent` too: the check of a prefix was made on the
file that the rename replaces.

**The routing table.** `RouteOldOrNew` with `PendingCovers`: a domain whose route
is not yet the new listing's is still pending in the loop that will write it.

**Port bindings.** `BindingsDistinct` and `RequestBound` are about the last save
and are inductive with the types, but what a save stores is computed by two loops
and what a start stores by a sort. A fold over a sequence is unrolled to the
sequence of its rounds (`ParseRounds`, `AssignRounds`); what holds after every
round (`RoundsOK`: the ports in use are those of the others and of the bindings so
far, all distinct, and every spec so far is bound) is shown by induction. The
library's induction theorems take an operator as parameter, which the provers
cannot instantiate; the induction is made here on the set of the k for which the
fact holds, by way of the least natural for which it does not (`Least`,
`SetInduction`). That `resolvedPorts` finds an order of the keys is shown in the
same way (`SortExists`). `UpstreamsAgree` follows: the first tcp binding of a
container port is the one that `resolvedPorts` takes for its key, and of the
bindings it writes for that container port the first, since tcp comes before udp in
the order of the keys as strings (`KeyLess`).

**The upgrade runner.** The claim, the registered channels, the files and the
process determine each other (`ClaimantActive`, `StreamsRegistered`, `FilesHeld`,
`ProcHeld`).

**Plan and apply.** The properties are about what nobody else wrote (`touched`),
and so is the invariant. While nobody else writes, the export still describes the
stores when the plan is made (`ExportCurrent`, `RegExportCurrent`), so that the
plan's actions are the differences between the file and the stores; and from then
on the actions that failed or are still to come are exactly the resources that are
not as the file says (`DeploymentsLeft`, `RegistriesLeft`, `HostLeft`), in whatever
order `Execute` takes them: `LeftoversReported`. What a write leaves of a file's
deployment is `KeptOf` of its spec, and the plan compares that with the file
(`DeploymentKept`); it equals it unless the file says more than the store keeps. `OnlyApproved` needs that the plan
under way is the approved one and that the ids of the listing still belong to the
names of its actions (`ListingCurrent`, `RegListingCurrent`); `StatusIsCurrent`
that an update without the spec among its fields does not change it (`SpecKept`,
`SettledIsKept`), and that the status that it writes back was already there when it
was listed. A report of a pass with an older configuration is left out of the
property, not of the model: the store accepts it.

**The system status.** `FreshClaims` is about signals that are stored, and a
heartbeat that is still being handled will store one: `FoundBefore` says of both
that what they call ok was found ok no longer ago than their age says. It is kept
because ages and the history grow together. `CaughtUp` needs `OwedIsNext`: what a
stream is owed is the last of its buffer, or is shown.

**The proxy's requests.** The limiter's two properties are inductive with their
types: the count is reset by the step that blocks, and a block is dated from an
arrival that the same step makes the client's latest, or that is earlier.
`Screened` needs `ForceCurrent` (what every route has asked for since the arrival
is among what the present one asks for) and `PassedSoFar` (which checks a request
to the dashboard has already passed at each `pc`). `RecentKept` needs `LogDated`
and `LinesDated`: a file was modified no earlier than any of its lines was
written, so a file that has expired by any clock that was ever read holds only
lines that have expired by now.

**The reader of the log.** A line that the reader is owed, that is still on file
and that was not sent yet, is in a file older than the one the reader is at, or in
that one at least as far from its end as the offset says (`Ahead`), and its file is
in the page's listing (`Listed`). Lines are appended, so a place counted from the
end only moves away from it; a file that was removed and created again holds none
of the owed lines, because their requests are done and are written once
(`LinesStay`). While a full page looks for more, this holds of its cursor and of
where it looks. A page that finds enough lines has a last one, because a set of
naturals has a member of every rank (`RankExists`): from this the type of the
cursor, and `PagesComplete`.

### What is only model-checked

* Liveness (`DeployEnds`, `DeletedCleanedUp`, `ExitNoticed`, `TransientRetried`,
  `StaleContainersGo`, `CallsReturn`, `RoutesFollowStore`, `StreamsEnd`,
  `HeartbeatsEnd`, `OutageShown`): fairness and ENABLED are out of the proof
  system's reach.
* Nothing else that a passing run checks. What the violated runs show is a
  counterexample and needs no proof.

## 5. Where code and documents disagree

Three runs end in a violation. Each states what a document or comment says.

* **saves** (`reconciler.go:155`). A save that arrives while a pass deploys sets the
  status to deploying; the pass then writes healthy from its older snapshot, and the
  save is not applied until the next save. In TLC's trace it is the first deploy;
  a redeploy writes at line 164 in the same way.
  `prds/03-zero-downtime-deployments.md` says that concurrent saves are queued or
  rejected.
* **overlap** (`docker.go:300`). When old and new container need the same host
  port, the old one is removed before the image is pulled and the new container
  created; a failure leaves none. The comment above it says the old one is left
  intact.
* **removed** (`poller.go:124`). The poller deletes routes of domains of its last
  listing only. In the trace a redeploy sends its swap, the deployment is deleted, a
  sync drops the domain, and the swap is served then: the route is in no listing and
  stays. `prds/04-reverse-proxy.md` says that removed deployments are no longer
  reachable.

### Seen while modelling, without a run of its own

The models reach the following; no document contradicts them, and the properties
are stated so as not to claim otherwise.

* `reconciler.go:182`: a redeploy that failed because Docker was unreachable is
  reported healthy when the old container is found running.
* `handler_update_deployment_status.go:48`: the handler reads the record under
  one lock and writes it under another; a save in between is undone.
* `handler_update_deployment.go:97`: a save keeps the status but not the error
  text, so that a transient failure is not retried any more.
* `docker.go:550`, `reconciler.go:323`: a container that exits before it is
  inspected has no bindings, and the empty list is stored as the ports.
* `docker.go:567`: ports read back from Docker lose their protocol; a udp mapping
  is stored as a tcp one.
* `handler.go:560`: two concurrent creates that both list before either writes
  get the same host port. `BindingsDistinct` is about one request at a time.
* `handler.go:609`: a save that adds a mapping may move an unchanged one to
  another host port.
* `proxy/internal/handler/handler.go:551`: a swapped route has default settings
  until the poller sees a change of that domain.
* `upgrade/runner.go:167`: a line longer than the scanner's buffer ends the scan;
  collect then waits for a process that may block on the full pipe.
  `runner.go:217`: with `systemd-run --no-block` the process that is waited for is
  only the launcher.
* `configapply/apply.go:181`: a deployment that was saved after the export is
  overwritten with the listed status, healthy on a container of another
  configuration. `StatusIsCurrent` leaves such deployments out.
* `reconciler.go:155` and `164` once more, for the apply: a pass that listed a
  deployment before an apply changed it reports healthy on it afterwards, over the
  apply's "deploying", and the change is not deployed until the next save.
  `StatusIsCurrent` leaves out deployments that such a pass has still to see to.
* `configapply/apply.go:310`, `cmd/lotsen/config.go:449`, `configplan/plan.go:488`:
  a file may give a managed mount an owner and a mode (`configv1/config.go:309`), or
  spell "managed" in upper case. The apply drops them, the export has none, and the
  plan compares them: every plan after a successful apply asks for the update again,
  and every apply redeploys. `LeftoversReported` names these deployments (`Lossy`).
* `orchestrator/main.go:109`: the comment on the deadline of the ping says "so a
  hung Docker socket never delays the heartbeat". `Reconcile` follows in the same
  goroutine and pings and lists without a deadline (`reconciler.go:90`, `105`): a
  daemon that hangs there stops the heartbeats, and since only a heartbeat publishes
  a snapshot, the streams that are open show for good what they showed; a new stream
  shows stale signals as degraded. In `SystemStatus` this is a behaviour in which
  `Probe` does not happen again.
* `configplan/plan.go:261`: which of two deployments owns a domain follows a
  map's iteration order, so that one state can have two fingerprints and an apply
  be refused as stale. The fingerprint covers names and fields, not values.
* `store.go:331`: the store keeps a registry prefix in a normal form and plans
  compare raw spellings; a file with another spelling plans a refused create and
  a delete that succeeds. A port that the orchestrator filled in is planned again
  in the same way.
* `proxy/internal/handler/access_log.go:201`: after a failed open of the next
  hour's file, or a failed write, the logger keeps the closed file or the writer's
  error, and no line is written until the proxy is restarted.
* `handler_load_balancer_access_logs.go:173`: a reader whose cursor names a file
  that has expired meanwhile is sent an empty page and told that there is no more
  (`hasMore` false), as at the end of the log. `PagesComplete` is about the other
  end: the model keeps the two apart (`gone` and `done`), the client cannot.
* `proxy/internal/handler/handler.go:711`: the limiter is told arrival times, so a
  request recorded late can shorten a block that has begun, and scans further
  apart than the window can count together.
* `api/internal/events/broker.go:51` (not in the model): a subscriber whose buffer
  is full misses the event, and no snapshot makes up for it.
* `api/internal/version/service.go:139` (not in the model): of two fetches at once
  the one answered first may be stored last.
* `configapply/apply.go:253`, `configplan/plan.go:299` (not in the model): an
  update writes the placeholder over a stored secret; file mounts are never
  compared. An export with an empty domain or a duplicate name is refused, and
  with it every plan and apply.

## 6. What is not modelled, and why

* **Event broker**: subscriptions, buffers and dropped events are those of the
  status stream, which `SystemStatus` models; nothing that a lost event would
  violate is promised.
* **Version service**: a cache of what GitHub answers, replaced at its expiry.
* **Registry handlers**: they validate and translate; the store operations they
  call are modelled.
* **Authentication and users**: cryptography and SQL; what could go wrong lies in
  the libraries and in the database's transactions.
* **Volumes, file mounts, log streaming, host information, metrics, process
  set-up, dashboard, website, installer**: I/O without state of their own, or
  clients of the API.
* Inside modelled parts: registry credentials, image digests and container stats
  of the driver; what the heartbeat carries besides the signals (percentages,
  traffic counters, container usage, the host's profile); the proxy's login page,
  certificates and forwarding; the in-memory ring of recent log lines; whether a
  rule of a filter matches; validation of fields that no other part reads; the wording of errors beyond what
  `isTransientFailure` tells apart.

## 7. Plan

Done, in this order: the control plane and its proofs; the file-backed store and
its refinement; the routing table; port bindings; the upgrade runner; the
configuration commands; the system status; the access log and the proxy's
requests.

The safety properties of all of them are proved. What is left to prove is what
liveness rests on: bounds on what a pass has still to do, and that every step of it
makes that smaller, as invariants and action properties.

Smaller candidates for models: the version cache with concurrent fetches, the
host profile store, the proxy's ring of recent lines.
