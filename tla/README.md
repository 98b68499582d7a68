# OpenWatch in TLA+

OpenWatch is a daemon that watches the containers of a Docker host, asks their
registries whether the image of each has moved, and replaces a container whose
image has. These modules model the daemon's own logic, check it with TLC on
small instances and prove what matters most with TLAPS.

Paths below are relative to the repository (`src/` in `PROJECT.json`).

## The system

| Component | State | Operations |
| --- | --- | --- |
| Update loop, `internal/updater/watcher.go` | the scheduler's ticker or cron, a goroutine per pass, the locals of `processContainer` | `Run`, `tick`, `TriggerAll`, `TriggerByName`, `processContainer` |
| Rollback and health wait, `internal/updater/rollback.go` | the deadline of a wait | `waitForHealthy`, `handleHealthFailure`, `performRollback` |
| State store, `internal/updater/state.go` | an entry per container name: status, image, times | `MarkChecked`, `MarkUpdating`, `MarkUpdated`, `Prune`, `Has`, `Snapshot` |
| Policy, `internal/updater/policy.go`, `internal/docker/labels.go` | none | `resolvePolicy`: configuration and labels to one record |
| Container operations, `internal/docker/container.go` | none; the containers of the engine | `ListContainers`, `IsSelf`, `StopAndRemove`, `Recreate` |
| Image operations, `internal/docker/image.go` | none; the images of the engine | `PullImage`, `LocalImageIdentifiers`, `RemoveImage` |
| Reconciliation, `internal/docker/reconcile.go` | none; a container's configuration from update to update | `reconcileEnv`, `reconcileSlice`, `reconcileScalar` |
| Registry client, `internal/registry/digest.go` | none; one token per request | `HeadManifestDigest`, `FetchRemoteIdentifiers` |
| Credentials, `internal/registry/auth.go` | none; `config.json` and credential programs, which docker's CLI writes | `LoadAuth` |
| References, `internal/registry/resolver.go` | none | `Parse` |
| HTTP API, `internal/api/server.go` | the listener, its goroutine, the requests in flight | `Serve`, `handleUpdateAll`, `handleUpdateByName`, read-only endpoints |
| Notifications, `internal/notify` | a goroutine and a channel per send | `Notify` |
| Metrics, `internal/metrics` | counters | `RecordUpdate`, `RecordRollback`, ... |
| Process, `cmd/openwatch/main.go`, `internal/config` | the context, the configuration | start, signals, end |

How they interact. The scheduler calls `tick` (one after another with an
interval, possibly several at once with cron); the API starts passes in
goroutines of their own. A pass takes one listing, then works through it
container by container: policy, registry comparison, pull, stop, remove,
create, start, health wait, report, clean-up. It shares the engine, the image
store and the state store with every other pass, and nothing serialises two
passes that work on the same container. The context of the scheduler's passes
is cancelled by a signal; the passes of the API run under a background context
and are cut off when `main` returns.

What is hard: passes that overlap on one container or on one image; the
snapshot of a listing that is used long after it was taken; calls that fail, or
succeed and lose their answer, in the middle of a replacement; a signal or the
end of the process between a removal and a creation; clean-up that removes what
a rollback needs; tags that move between two requests, or between the
comparison and the pull; the deadline of the health wait; configuration that is
rewritten by every update; two ways to end the process (a signal, an API that
fails) and four kinds of goroutine that it has to end; notifications that are
late or never answered; a look-up of credentials beside a docker logout.
`PROJECT.json` lists each hazard at its line with the properties that cover it.

What makes each part correct: the update loop never makes a container
disappear without a report, never lets two passes collide on a name, and brings
every good release to its container; rollback restores what ran before; the
store never shows an update that nobody does, nor hides one; the clean-up
removes nothing that is needed; the health wait keeps its budget and judges by
it; a comparison answers for one release; reconciliation loses no override and
keeps no stale default; the process ends when it is told to, in no tick's
middle, and does what it accepted; a login is used while it is in force, and
for its own registry only.

## The modules

| Module | Models |
| --- | --- |
| `DockerEngine` | External: containers by name and generation, image store, tags, the registry's tags, health probes, publishers. |
| `StateStore` | The store's methods as operators; each Go method holds the lock throughout, so each is one step. |
| `Watcher` | `EXTENDS DockerEngine`, `INSTANCE StateStore`: a pass from its listing to its end, one action per call that leaves the process. |
| `OpenWatch` | `EXTENDS Watcher`: scheduler, API, signals, end, crash and restart of the process, the operator; specification, fairness, properties. |
| `Policy` | `resolvePolicy` and `IsSelf` as operators on labels and configuration. |
| `LabelledOpenWatch` | `EXTENDS OpenWatch, Policy`: the update loop under the policies that labels give. |
| `ServiceSlot` | Abstract: what is promised for one container name. `OpenWatch` implements it. |
| `PassSchedule` | Abstract: when passes begin and when the process ends. `Daemon` implements it. |
| `HealthWait` | `waitForHealthy` with a clock. |
| `ManifestCheck` | One comparison with the registry, request by request. |
| `RegistryLook` | Abstract: one look at the registry at one moment. `ManifestCheck` implements it. |
| `ConfigCarry` | A container's environment and command through a sequence of updates, to a rollback. |
| `Credentials` | `LoadAuth` beside `docker login` and `docker logout`. |
| `ApiServer` | `Serve` and the handlers. |
| `Notifier` | `Notify` with its goroutine, its channel and its timeout. |
| `Daemon` | `EXTENDS ApiServer, Notifier`: `main`, `Run` with both schedulers, the passes they and the API start, and how all of it ends. |
| `MC...` | Small instances for TLC. |
| `OpenWatchProofs`, `OnePassProofs`, `LabelledProofs`, `HealthWaitProofs`, `ManifestCheckProofs`, `DaemonProofs`, `CredentialsProofs`, `ConfigCarryProofs` | Theorems and proofs. |

Two models cover the process. `OpenWatch` has the passes in full and the
process in outline; `Daemon` has the process in full and the passes in outline
(they work, they notify, they end). `Daemon` implements `PassSchedule`: ticks and
requests begin passes only in a process that has not ended, the ticks of an
interval schedule one at a time, and `main` returns in no tick's middle.
`OpenWatch` takes that outline for granted in the guards of `StartTick` and
`Exit`. In both a tick that was due, and a request that was taken before a
signal, may begin a pass after it; the calls of such a tick fail, as its context
is cancelled.

### Watcher and OpenWatch

`ctr[n]` is the container called `n`: its generation (the container ID), the
reference and the image it was created from, its state and health. `images`,
`tag` and `remote` are the local image store, the local tags and the registry's
tags. `pc[p]`, `job[p]` and `work[p]` are a pass: the call it makes next, what
the listing left it to do, and the locals of `processContainer`, where
`work[p].image` doubles as `previousImageID` and `work[p].new` is
`newContainerID`.

Every SDK call is an action with three kinds of outcome: it succeeds, it fails
without effect, or it has its effect and fails (the answer was lost). Failures
come from a cancelled context, for free, and from the environment, counted by
`faults`. A call on a container ID that is gone, a create under a name that is
taken or from an image that is gone, and a removal of a running container are
refused by the engine. What a pass does between two calls is part of the action
before or after it, with the store's update and the report it makes.

The comparison with the registry is one atomic step of `Watcher`; that this
loses nothing is what `ManifestCheck` shows: it implements `RegistryLook`, whose
one look is that step (`AtomicLook`). The health wait
is two outcomes, `HealthPasses` and `HealthFails`; when they occur is what
`HealthWait` shows. A listing with its inspects (`List`) is one step too, and so
is a stop with the inspect that follows it (`StopContainer`): a stop that returned
before the process was gone, which the code follows by a kill, is in the model
the one that failed before it.

`notice[n]` is the only variable that is not in the code: what the operator was
told since OpenWatch last began to take `n` down. It is there to state
`OutageIsReported` and is written with the events `UPDATE_FAILED` and
`ROLLBACK_FAILED`. A pull whose error comes in the middle of its stream looks
like a success (`PullErrorUnread`), as `image.go:38` drains the stream unread.

### ServiceSlot

A name is in service, being updated, or left behind with a reason; its
container changes only during an update, or when the operator takes it. The
mapping (`Slot` in `OpenWatch`): `service[n]` is "updating" while some pass
holds `n`, and otherwise "serving" or, when the container is down, the last
notice; `container[n]` is the generation and the image. So `ServesOrTells` says
that an update ends in service or with a notice, and that nothing is ever done
to a name that may not be updated.

### Policy and LabelledOpenWatch

A label's value stands for all values that the code treats alike:
`openwatch.enable`, `self` and `notify_only` are compared with the words in any
case, `rollback` and `cleanup` are parsed by `strconv.ParseBool`, which knows
digits and trims, but not every case. The constants of `Watcher` (`Skipped`,
`NotifyOnly` and so on) get their values from `ResolvePolicy` in the run
`faults`; the other runs give them directly.

### HealthWait

One action per line of the loop that can block or decide, a clock in seconds,
a latency of at most `MaxLatency` before each line, and a container that
changes its verdict, crashes, restarts or disappears at any moment.

### ManifestCheck

`phase` is the request under way (HEAD, GET by tag, GET of the platform's
manifest), `step` its next call (token, request, challenge, retry). `served`
remembers which releases the registry served since the check began. Digests are
pairs of a release and a kind (index, manifest, config). Which kinds the engine
recorded (`recorded`) depends on its version and image store (`image.go:44-60`),
and whether the registry sends `Docker-Content-Digest` (`sends`) on the registry:
both are chosen initially, in every combination in which some recorded kind is
one that the registry's answers carry (`Comparable`). `RegistryLook`'s `seen` is mapped to the
release that the GET by tag returned, once it did, or that the HEAD matched.

### ConfigCarry

`env` is the container's `Config.Env` entry by entry, `cmd` stands for the
fields that are compared as a whole. `user` and `userCmd` remember what the user
asked for, `blind` whether an update had a failing inspect. By the rule of
`reconcile.go:6-9` a value of the user's that equals the image's default counts
as inherited; `met` remembers where that happened, and `OverridesKept` makes no
promise there, while `NothingStale` does: what comes out is the user's value or
the present image's, never one of an earlier image. `Rollback` recreates the
container from the captured configuration and ends the sequence, because the
container refers to an image ID from then on (`rolled_back`).

### Credentials

`config.json` (`auths`, `credsStore`, `credHelpers`) and what the programs hold
belong to docker's CLI, modelled as it uses them: a login goes to the program of
its key, or the store, or the file; with a program, the program is first and the
file second, so a look-up may fall in between. A key is a host and the form in
which it is written (plain, as a URL, with a path, Docker Hub's legacy index).
`LoadAuth` is one action for the environment and for ECR, one for reading the
file, one per question to a program, and one for the final search among the
entries, whose order is the map's. `since` and `steady` are histories: which
logins were in force during the look-up, and whether anything changed or failed.

### Daemon, ApiServer and Notifier

`main` and `run` are where `main` and `Run` are, `serve` where `Serve` is, `due`
the ticker's channel of capacity one, `pass[g]` a pass of a tick or of a request.
The select of `runInterval` takes a tick or the cancellation, whichever it
likes; `CronFires` starts a tick next to those that run; `CronDrained` is
`<-stopCtx.Done()`. `Exit` is the return of `main`, which cuts whatever still
runs: passes of the API, requests, senders. A handler is two steps, the call of
the watcher and the answer, so a shutdown or the end may come between them.

`sending[e]` is the goroutine of one event, `result[e]` what `Notify` returned
for it. A provider may take an event at any time, also after `Notify` gave up,
and may never answer at all; the timer may fire at any moment of the wait. The
events of one goroutine at a time are followed (`caller`, any of `Callers`):
calls of different goroutines share nothing.

## The runs

| Run | Instance | Shows |
| --- | --- | --- |
| `serial` | 2 containers on one tag, 2 passes that only an interval schedule starts, 2 moves of the tag, 1 fault, signals, operator | `TypeOK`; the rollback's image is kept, every update in flight is visible, `ROLLBACK_SUCCESS` means that the old image's container is back |
| `concurrent` | 1 container, 2 passes (cron and API), 2 moves, 1 fault, signals, operator; passes are symmetric | no stale "updating", no colliding creates, no silent outage, `last_updated` is kept; `OpenWatch` implements `ServiceSlot` |
| `ends` | 1 container, 2 passes, 1 move, 1 fault, signals; fairness | every update ends, a cancelled daemon exits |
| `faults` | 4 containers on one tag, by their labels opted in, notify_only, not opted in, and OpenWatch; 3 images, 1 fault, signals, stopped containers listed; fairness | whatever failed or was cut short before, the release arrives at every container that is still listed; excluded containers and their images stay; labels are obeyed |
| `wait` | timeout 0 (default 4), poll 2, latency 1 | budget kept and granted, no false timeout, the wait ends |
| `check` | 3 releases (2 multi-architecture), every comparable set of recorded identifiers, digest headers or none, Docker Hub, 2 moves; fairness | verdicts are sound, identifiers are of one release, the check ends; `ManifestCheck` implements `RegistryLook` |
| `carry` | 2 keys, 2 defaults, an own value, unsetting entries, environments of 0 to 2 entries | overrides are kept, nothing is stale, a rollback restores the configuration exactly |
| `process` | 2 ticks, 1 request, 2 events of the second tick or of the request's pass, both schedulers; fairness | ticks do not overlap and are drained, a 202 has its pass, `nil` means delivered in order, no sender stays behind, passes end without the provider, a signal or a failed listener ends the process; `Daemon` implements `PassSchedule` |
| `credentials` | Docker Hub under two names, a private registry with an entry of docker's and one written by hand, ECR; old entries anywhere, 1 login | `TypeOK`; a login is used for its own host only, never after its logout; an undisturbed look-up returns the docker login in force |
| `shared_image`, `rolled_back`, `failed_pull` | small | violations, see below |

Bounds and why they are enough. Two passes are enough for every collision
between passes, which is pairwise; the theorems hold for any number. Two
containers on one tag are enough to share an image; the third and fourth are
there for the policies. Two images let the publisher move a tag forward and
back (`MaxPublish = 2`), which is what clean-up and pull race on; the third
image distinguishes a second release from a return. One fault can hit any call,
with or without effect, at any step, or be a crash or an operator's removal;
failures that follow from it (refused calls, a cancelled context) are free.
`MaxNow` is never reached in `wait`: the function returns before. In `process`
two ticks are what an overlap and a tick that was due need, the second of them
starts while the first, or the request's pass, works; two events are what an
order needs; a second request would be independent of the first. In
`credentials` one new login beside old entries distinguishes before from after;
a logout may follow it and precede another look-up. In `carry` two entries are
what duplicates need and two keys what added and dropped keys need. The theorems
have none of these bounds.

Every property of a passing run is also checked against a plausible bug
(`PROJECT.json`, `mutants`): the operators named `...Ignored`, `...Never`,
`...Fresh` and so on in the modules are those bugs; no specification uses them.

`CHECK_DEADLOCK` is left on everywhere: the daemon is restarted, and the
specifications of a single call end in a step that repeats the end.

### Fairness

`Fairness` in `OpenWatch` is weak fairness of each pass's own steps (a goroutine
that is ready is scheduled, and the engine and the registry answer or fail), of
the scheduler (the ticker or cron fires), strong fairness of the exit (the
select of `runInterval` chooses at random, and `Stop` ends cron's ticks, so ticks
that begin after a signal do not put it off for ever), weak fairness of the
engine's restart policy (`docker-compose.yml`, "restart: unless-stopped"),
and of the health probes of images outside `Flaky`. Nothing is assumed of
probes of flaky images, of publishers, the API's clients, signals, faults and
operators. `HealthWait` assumes that the goroutine and the clock go on,
`ManifestCheck` that requests end, as the HTTP client's timeout guarantees.
`Daemon` assumes that goroutines run, that the calls of a pass return
(`Finish`), and that time passes, so that the timer of `Notify` and the one of
the bounded shutdown fire; nothing of signals, the ticker, clients, the network
and the provider, which may never answer. It is weak fairness of each of these
steps. Go's select chooses at random between ready cases, so that a
cancellation is not overlooked for ever; in the model the bound on the ticks
stands for that.

## Where the code and its documents disagree

Each is a run that TLC ends with a counterexample.

- `shared_image` (`RollbackTargetKept`): two passes, two containers on one
  image. One pass has stopped and removed its container; the other finishes its
  update and cleans up: no container uses the old image any more, so it is
  removed, and the first pass has nothing to roll back to. `watcher.go:316-323`
  argues that capturing the ID is the guarantee.
- `rolled_back` (`ReleasesArrive`): a rollback creates the container from an
  image ID, which becomes its reference; every later check of it fails, so it
  never sees a release again.
- `failed_pull` (`UpdatedIsNew`): an error in the middle of a pull is a message
  of the stream that `PullImage` drains unread; the container is stopped,
  recreated from the image it had, and `UPDATE_SUCCESS` is sent. The README's
  table of events has `UPDATE_FAILED` for a failed pull (line 202).

Further divergences, seen while modelling and not given a run:

- Updates. A signal in the middle of `Recreate` leaves the container removed or
  not started, because the calls that would bring it back share the cancelled
  context (`watcher.go:86-88`: "cancelled cleanly"). With overlapping passes the
  first report takes back the "updating" of the other (`InFlightIsVisible` holds
  for one pass at a time only). After an update with a failed inspect the old
  defaults are taken for overrides for ever, not for "only that one update"
  (`container.go:147-148`); `NothingStale` exempts it. `ROLLBACK_SUCCESS` is
  sent before the old container has a verdict; README:205 says that it "is
  healthy again". `openwatch.depends_on` is read nowhere (`labels.go:30`). An
  entry of `Config.Env` without "=" is dropped (`reconcile.go:23-26`), so a
  variable that the user unset comes back.
- Registry. A HEAD that fails or carries no digest is followed by a GET, and a
  failed token fetch by an unauthenticated request (README, line 19). With a
  registry that sends no digests and an engine that recorded only the digest of
  the manifest list, nothing can be compared and every check finds the image
  outdated; `Comparable` leaves that out. A reference with both tag and digest is compared by its tag and pulled by its
  digest (`digest.go:65`).
- Process. A pass that the API started is cut when `main` returns, although
  `server.go:255` answered 202 and `main.go:92-94` speaks of draining in lock
  step. `main` does not wait for the bounded shutdown of `Serve`
  (`server.go:98-100`), so requests in flight may get no answer. A second signal
  is swallowed, and the status is 0 when the API's port is taken.
- Notifications. `shoutrrr.go:15-19` bounds a pass by one timeout per container;
  a container may have three events.
- Credentials. `config.go:43-45` says that `config.json` overrides the
  environment's credentials, `auth.go:69` takes the environment first, and the
  order in `auth.go:49-58` leaves it out. README:65 names `./openwatch.yaml`,
  which is not searched. README:146 says that a docker login will "Just Work":
  not for Docker Hub with a program of its own in `credHelpers`, because docker
  files it under a key that is not tried there (the exception in
  `LoginIsUsed`). A credential program gets no deadline and no context
  (`auth.go:228`), so one that never returns holds its pass for ever.

## The theorems

All are proved for every value of the constants, from the named assumptions of
the modules (`EngineAssumption`, `WatcherAssumption`, `HealthWaitAssumption`,
`ManifestCheckAssumption`, `DaemonAssumption`, `NotifierAssumption`,
`CredentialsAssumption`, `ConfigCarryAssumption`), which TLC evaluates in the
runs. They are statements about the models: faults and moves of tags are bounded
there by constants that can be any number.

- `TypeCorrect`. `TypeOK` is not inductive: that a create gives its container
  an image depends on what the listing put into the pass's locals. `TypeInv`
  adds that existing containers and the locals of passes at work are
  well-formed and that only a tag is pulled.
- `UpdatingIsHeld`. Inductive with `TypeInv`. The argument: an entry becomes
  "updating" only in the hands of a pass, and that pass lets go only with a
  report, which writes another status; the other passes' locals are untouched.
- `GapExclusive`. A pass enters the gap only by removing the container itself,
  which is present then, so no other pass is in the gap of that name.
- `OutageReported`. `OutageIsReported` is not inductive: a pass in the health
  wait holds the container but will not report an outage that another pass
  begins. `OutageInv` says which passes will: those between the stop and the
  start, and those about to report.
- `LastUpdatedIsKept`, an action property, from `TypeInv`.
- `OpenWatchImplementsServiceSlot`, the refinement. `OutageReported` is what
  makes the mapping land in the abstract state space; a step of a pass changes
  the container and the notice of the name it holds only (`OthersKept`), and
  what it does to that name begins, continues or ends the update (`HolderStep`).
- `ExcludedKept`, for any number of passes. A pass holds updatable names only,
  so an excluded container stays in its first generation; its image stays
  because an image in use is never removed (`ImagesInUseKept`).
- `LabelsAreObeyed`, for any labels, configuration and number of passes: its
  hypothesis `FromLabels` is what the run's instance does, that the policies are
  those that the labels give. Its first half is `ExcludedKept`; for the second,
  `RollbackInv` says that a container has an image ID for its reference only where
  the policy lets a pass roll back.
- `InFlightVisible`, `RollbackTargetIsKept` and `RollbackIsExact`, for passes that
  do not overlap (`[]NoOverlap`); that an interval schedule without the API keeps
  it so, with any number of goroutines, is `IntervalIsSerial`, and `IntervalIsSafe`
  puts the two together. With overlapping passes TLC finds a counterexample to
  each. `RollbackTargetKept` is not inductive: before the stop it is the
  container that keeps the image in the store, so the invariant has to say that
  the snapshots that the pass has yet to come to are still true (`TodoTrue`),
  through the clean-ups of the same pass and the operator's removals; from the
  stop on, nothing removes it (`TargetKnown`). `Restored` follows the container
  that a rollback creates to its report.
- `BudgetIsKept`, `TimeoutIsTrue`, `BudgetIsGranted` from one invariant,
  `ClockInv` (where the clock can be at each line) and `VerdictInv`.
- `VerdictIsSound`, `IdsOfOneRelease` from `FetchedInv` (what has been fetched
  at each request) and the lemma `LocalMeets`: all identifiers of the local
  release meet those that the engine recorded. `CheckIsAtomicLook`, the
  refinement of `RegistryLook`, uses both: the verdict depends on the release
  that the GET by tag returned and on nothing that the registry serves later.
- `IntervalTicksAreSerial`, `NoTickIsLost`, `AcceptedPassStarted`: that `Run` does
  not return during a tick rests on where `Run` is while one is active
  (`RunInv`), and that a 202 has its pass on what each request was told so far
  (`RequestInv`).
- `DaemonFollowsSchedule`, the refinement of `PassSchedule`, from `ScheduleInv`:
  nothing runs and no request is open outside `main` (`OutsideMain`), and `Run`
  has returned because of the cancellation or the schedule (`WhyReturned`).
- `NilIsInOrder`: an event is called for when those before it have returned, so
  nothing later is with the provider while a call waits (`CallsInOrder`), and what
  has put "ok" into its channel has arrived (`OkHasArrived`).
- `CredentialsTypes`, `NeverAnothersLogin`: the keys of an entry, of a question
  and of what the operator files never mix hosts, whatever the aliases.
- `NoneRevoked`, from `SinceInv`: a program holds only logins in force, `since`
  follows what is in force while a look-up runs, and the file that was read held
  what was in force then.
- `LoginsAreUsed`: a look-up that nothing disturbed returns the docker login in
  force for its host, not just any credentials. `UsedInv` says, while the operator
  changes none of the host's entries and every call answers, that the file as it
  was read is still what it is (`FileIsFresh`) and that every program that holds a
  login of the host is still to be asked for it (`StillAsked`): the first answer
  with a login ends the look-up and is one in force (`AnswerInForce`), and the
  search of the file is reached only without any (`LookUpInForce`). For Docker Hub
  it may be the login of any of its names. The environment's credentials and ECR's
  tokens, which come before any docker login, are exempt, and so is a program of
  Docker Hub's own (see above).
- `OverridesAreKept`, `NothingIsStale`, `RollbackIsExact`, for environments of any
  length and any sequence of updates. `OverridesKept` is inductive by itself;
  `NothingStale` is not, because it speaks of the last entry of a key and an update
  may remove the entry that hid another one. `CarryInv` therefore says of every
  entry that its value is the user's or the image's (`EntriesFresh`), and that the
  container has all keys of its image (`ImageKeysThere`), so that a rollback's
  merge adds none. The loops over an environment are picks of positions, counted
  by cardinality (`Nth`, `Pick`), which needs no induction over the entries:
  `Picked` gives their order, `SeenOfPicked`, `SeenOfWithout` and `SeenOfBoth` the
  value that a process sees of them.

Only model-checked: the liveness properties (`UpdatesEnd`, `ShutdownEnds`,
`FailuresAreRetried`, `WaitEnds`, `CheckEnds`, `SendersEnd`, `PassesEnd`,
`CancelEnds`, `ListenerFailureEnds`), because fairness and `ENABLED` are out of
the prover's reach. Every safety property that a passing run checks is a theorem.

## Not modelled

- The parsing of references (`resolver.go`) is string handling without state:
  in the models a reference is a tag or an image ID, and a registry a value.
  References with tag and digest, whose parts are used for different things, are
  therefore not in the models.
- Loading the configuration: which of environment, file and default wins is
  decided by the library. Its values are constants or initial choices.
- What an inspect between two others of one listing sees of a change in between:
  a listing is one moment.
- Environments of images with entries without "=" or with a key twice, which no
  Dockerfile makes (the user's environments have both).
- Names that look like a registry's without being it: a key is a host and a form,
  so `hostMatches` (`auth.go:309-319`) is exact in the model.
- Metrics: counters that the program never reads.
- HTTP routing and JSON, the wording of events, choosing a platform from a
  manifest list, decoding of stored credentials.
- Host configuration, networks and namespaces of a recreated container, which
  are carried over or cleared and never compared; the stop timeout, since the
  update models have no clock.

## Plan

Done: the core (`DockerEngine`, `StateStore`, `Watcher`, `OpenWatch`), the
algorithms (`HealthWait`, `ManifestCheck`, `ConfigCarry`), the abstract
specifications and their refinements (`ServiceSlot`, `RegistryLook`,
`PassSchedule`), the process
(`Daemon`, `ApiServer`, `Notifier`), the policy (`Policy`, `LabelledOpenWatch`) and
`Credentials`, with the proofs above. Left, in order of importance:

1. References with tag and digest in `DockerEngine` (a lookup by one and a pull
   by the other), and what `FailuresAreRetried` is for them.
2. One theorem that composes `Daemon` with `Watcher`: `Daemon`'s `pass` as
   `Watcher`'s `pc`. `PassSchedule` links when passes begin and end; the events of
   a pass are still its own in `Daemon`.
