# A verification model of kemp_exporter

kemp_exporter polls Kemp LoadMaster appliances and exports their statistics to
Prometheus and OTLP. Its hard part is that a handful of goroutines, two
transports, a login session that locks accounts when it is used carelessly, two
readers and a hot reload share state, and that a wrong number or a vanished
series looks like any other. This directory models the program from its
configuration to its exports in TLA+, checks it with TLC on small instances and
proves its safety with TLAPS for every value of the constants: any number of
callers, targets, reloads, writes, scrapes and responses.

## 1. The system

| Component (source) | State | Operations | Interacts with |
|---|---|---|---|
| Login session (`kemp/auth.go`) | token, generation, pending attempt, under `s.mu` | `ensure`, `refresh`, both `obtainVia`; `login` | called by `jsonTransport.Do` from two goroutines at once |
| JSON transport (`kemp/transport_json.go`) | the session | `Do`: token, post, one refresh, one more post | session; called by the client |
| XML transport (`kemp/transport_xml.go`) | none | `Do`: one GET with the API key | called by the client |
| System client (`kemp/client.go`) | active transport, re-probe latch, cooldown, under `c.mu` | `do`, `ensureTransport`, `reprobe`, `noteAuthResult`, `cooldownError`, `carryAuthCooldown` | two calls per cycle; reload |
| Collection loop (`kemp/collector.go`) | client list, under `l.mu` | `Run`, `CollectOnce`, `collectSystem`, `SetClients` | clients, store, reload, shutdown |
| Snapshot store (`kemp/snapshot.go`) | pointer to an immutable snapshot | `Store`, `Load` | the loop writes; scrapes, OTLP, `/health` read |
| Export readers (`kemp/prometheus.go`, `otlp.go`, `dropwarn.go`) | registered names, warned triples | `Collect`, `EnsureInstruments`, callbacks | store |
| Derivations, models (`kemp/derivations.go`, `health.go`, `metrics.go`, `state.go`, `models/`) | none | payload to samples | called by `collectSystem` |
| Configuration (`config/config.go`, `env_bool.go`, `dotenv.go`) | the environment | `LoadDotEnv`, `Load` | start-up, watcher |
| Configuration watcher (`config/watcher.go`) | closed flag and debounce timer, under `w.mu` | `Start`, `scheduleReload`, `reload`, `Close` | file system, SIGHUP, `makeReloadHandler` |
| Process (`main.go`, `telemetry/`) | none of its own | start, serve, `/health`, shutdown, `--once` | all of the above |
| Logging, tracing, TLS settings, build info, dump, safe config, mock | none | formatting and set-up | - |

### What makes it hard

- **Session.** Every caller that finds no usable token wants to log in, and an
  appliance locks accounts. One login at a time, none without a reason, and no
  waiter left behind when the login panics. A token is judged by a generation
  that advances on failure as well.
- **Client.** `GetStatistics` and `ListVirtualServices` run concurrently on one
  client, so every decision of `do` is made twice at once: detection under a
  mutex held across the network, a re-probe that may happen once, a cooldown
  tested before the mutex and noted after it.
- **Reload.** `SetClients` builds new clients while calls run on the old ones and
  copies the cooldown between them.
- **Loop.** Targets finish in any order, under a limit, in a cycle that may
  outlast the interval, while the list changes and shutdown comes.
- **Watcher.** Two reload triggers, timers past stopping, half-written files,
  and a `Close` that must wait for all of it.
- **Readers.** Two exports must agree on what a snapshot shows although OTLP loads
  it once per instrument, and collisions are the steady state of an appliance
  with SubVSs.
- **Responses and payloads.** A rejection can come as an HTTP status or as a field
  of a body that says 200, and what it is taken for decides whether a password is
  tried again. Services are joined on what may be ambiguous, and absent values
  must stay absent.
- **Process.** Signals arrive between any two steps of the start and of a shutdown
  whose parts share one budget.

The correctness properties per component are listed with its module below;
`PROJECT.json` lists each hazard at its line with the properties that cover it.

## 2. The modules

| Module | Models | Composes / implements |
|---|---|---|
| `SingleFlight` | the promise of a session: numbered logins, one in flight, launched only for who is up to date | abstract |
| `Session` | `auth.go` under concurrent `jsonTransport.Do` | implements `SingleFlight` |
| `Wire` | how both transports and `login` read a response; the retry rule | operators |
| `SystemClient` | `client.go` under the two calls of each cycle | its verdicts are `Wire`'s |
| `ClientReload` | `SetClients`, `carryAuthCooldown` | composes incarnations of `SystemClient` |
| `SnapshotView` | what readers of snapshots are promised | abstract |
| `Collector` | `collector.go` and the store | implements `SnapshotView` |
| `Freshness` | ticker, slots, deadlines, `/health`'s age limit in discrete time | - |
| `Watcher` | `watcher.go` and how `run` uses it | - |
| `Exporters` | store, Prometheus scrapes, OTLP instruments and callbacks, `dropwarn.go` | - |
| `Derivations` | payload to samples: the join, parents, statuses, labels, absence | operators |
| `Polling` | one `Do` request by request, and `collectSystem` on its outcome | composes `Wire` and `Derivations` |
| `ConfigLoad` | environment, interpolation, secrets, validation, defaults | operators |
| `Lifecycle` | `main.go`: start, `--once`, signals, shutdown | composes `ConfigLoad` |
| `SessionProofs`, `ClientProofs` (`SystemClient` and `ClientReload`), `CollectorProofs`, `FreshnessProofs`, `WatcherProofs`, `ExportersProofs`, `PollingProofs`, `LifecycleProofs` | theorems about these modules | - |
| `MC...` | constants for TLC | - |

### Session

A critical section of `s.mu` is one action, because the mutex is never held
across the network: `UseCached`, `Join` and `Lead` are the three cases of
`obtainVia`, `LoginReturns` is the round-trip, `Commit` the deferred critical
section, `Publish` the writes to the attempt and `close(done)` after it, `Share`
a waiter that wakes. `Do`, `Refresh`, `RejectAfterRefresh` and `PostReturns` are
the caller, `jsonTransport.Do`. The attempts form a heap, because a waiter keeps
its pointer after `pending` is nil; `stale` in an attempt is a history field. A
token is named by the generation of its login. A panic of `attempt` is one of
the outcomes. A login is one call of `login`: resty may repeat its request after
a 5xx or a lost connection, never after a rejection.

Properties: `AtMostOneLogin`, `NoOrphanWaiter`, `LoginsAreJustified` (a login
answers the rejection of the newest generation, or follows only failed ones
without a token), `GenerationNamesOneToken`, `DoReturns`, and
`ImplementsSingleFlight` under the mapping `epoch <- gen`, `flight <-` somebody
is between `Lead` and `Commit`.

### SystemClient

`Step(c)` is one call of `do`, location by location. A critical section of
`c.mu` is one action except the probe in `ensureTransport`, which holds it over a
request: `mu` is then its holder, and everybody else's lock waits. A request is
an action that sends (`Request`) and one that comes back with an outcome the
appliance may give; a request that leaves after the context is done comes back
as a failure. The error classes are the code's: `auth` for `errAuth`,
`unsupported` for `errUnsupported`, `hard` for the rest. Time is the
number of ticks left of the cooldown window (`left`), since only
`now - authFailureAt >= authFailureCooldown` reads the clock. What the target has
credentials for is chosen at the start. Two variables are history. `served` is the
transports that have been active. `recent` is the appliance's own view: the
rejections younger than a window that it has answered on a transport since it last
answered that transport well. It changes when an answer comes back (`Answered`) and
not when the exporter gets to note it, because the two calls of a cycle may note
their answers in another order than the appliance gave them: stats is accepted,
listvs is rejected and noted, and only then is the success of stats noted, which
ends the window that the rejection has just started.

Properties: `NoFlapping`, `LockoutBudget` (between two answers that accept it, a
credential is rejected at most three times in a window: once per concurrent caller,
and once more when an older success has ended the window), `AlternateNeverPrimes`,
`CallsReturn`, `Recovers` (once the appliance accepts, stats succeeds and keeps
succeeding).

A transport's `Do` is one outcome here. `MCSystemClient` takes the outcomes from
`Wire!Verdicts`, the classes that some response leads to over each wire, so that
the client meets what the transports can report and nothing else. The session's
inside is not composed with the client: `Do` reports one outcome per call
whatever the session did.

### ClientReload

Adds the loop's mutex, the current incarnation and what each incarnation was
built from. `LockClients` is `SetClients` up to its lock, `CarryCooldown` and
`CarryNone` are the two ways it ends, the first of which waits for the old
client's mutex. A configuration is a name, a credential and what it is for:
what `carryAuthCooldown` and `credentialFingerprint` compare.

Properties: `CooldownBelongsToCredential`, `QuietReloadCostsNoLogin`,
`ReloadCompletes`, `RecoversAfterReload`.

Not every rejection is in a cooldown that a reload can carry over, and `lapsed` is
the history of the clients that have had another one within the window
(`Unrecorded`, `Overruled`): a JSON probe that is rejected and falls back to XML
(`client.go:323`) and a rejected alternate of a re-probe (`client.go:389`) start no
cooldown; and a success that is noted later ends it (`client.go:276`), be it one of
the other transport or one of the same transport that was answered before the
rejection. `QuietReloadCostsNoLogin` is about all other clients, and about reloads
between cycles: a rejection noted on the old client after the copy is lost too.
Both limits are the code's, and section 3 lists them as disagreements.

### SnapshotView and Collector

`Collector` is `Run` (`TakeClients`, `Tick`, `Exit`), `CollectOnce`'s fan-out
(`Launch`, bounded by `Limit`), `collectSystem` (`StatsReturns` and `ListReturns`
in either order, then `Finish`, which writes `results[i]` and frees the slot),
`Store` (`Publish`, of the results as the targets have left them), `SetClients`
(`Reload`) and the cancelled context. Targets finish in any order, and each answer
is marked with the cycle in which it came in. The client lists installed so far are
kept in order, so that a snapshot can say which one it is of.

Properties: `NothingCarriedOver` (every result of a snapshot was made of an answer
that came in during the cycle that published it), `ReloadsArrive`, and
`ImplementsView`: every snapshot is whole, of one configuration and in its order
whatever order the targets finish in, and readers never see an older configuration
after a newer one.

### Freshness

The timed half of the loop. Goroutines that can go on do so at once, and `Clock`
is enabled only when nothing but time can change anything. A target may answer
at any moment up to its deadline, which starts with its slot. The ticker holds
one tick and drops the rest.

Properties: `LivelyLoopIsNotStale`, `AgeIsBounded`, `KeepsPublishing`.
`LivelyLoopIsNotStale` has a condition, `Rounds * Timeout <= Interval + Timeout`:
`/health` allows two intervals and one timeout, and a cycle of more rounds than
that lets the snapshot of a loop that works as configured grow older. With the
default of 4 slots and timeout = interval that is from 9 targets on when every one
of them hangs.

### Watcher

The watch loop, the goroutines of expired debounce timers, and `run`: load,
create the watcher, cancel, close. `reload` holds `w.mu` across `Load` and
`onReload`, so it has a start, a load and an apply while `mu` is its holder. A
file is the number of its last write and whether `Load` accepts it; the file can
change between any two of those steps. A timer that has expired is a goroutine
in `fired`, beyond the reach of `Stop`.

Properties: `NoReloadAfterClose`, `NeverBackwards` (what is applied was written
later than what was, and loads), `WritesArrive`, `CloseCompletes`.

### Exporters

A snapshot is the sequence of its samples, and the store is the history of what
was stored, so that a sample can say which snapshot it came from. A scrape is
`ScrapeLoads`, one `Emit` or `Drop` per sample, and `ScrapeEnds`; `Drop` is the
critical section of `dropWarnings.warn`, `Log` the line after it. `EnsureLoads`
and `Register` are `EnsureInstruments`. An OTLP export runs every instrument's
callback in any order, each of which loads the store (`CallbackLoads`) and keeps
the first of each series (`FirstWins`). A callback is one action: the SDK runs one
export at a time and a loaded snapshot never changes. The guard against diverging
label keys is left out because `OneKeySetPerName` says that it never fires, and
with it the error of `NewConstMetric`, whose cause `cleanValue` removes. The early
return of `EnsureInstruments` when an instrument cannot be created or its callback
registered (`otlp.go:189`) is left out as well: every metric name is a valid
constant of the program.

Properties: `ReadersAgree` (a scrape shows one snapshot's survivors, and an export
shows of each metric what a scrape of the snapshot it took it from shows),
`DropsAreLoggedOnce`, `ExportIsCurrent` (nothing that was replaced before the
export began is pushed), `EverySeriesIsPushed`.

### Wire, Derivations and Polling

`Wire` reads a response: an HTTP status, a form (an envelope of this wire, one cut
short, something else), a code, an error text, the payload's place. `XMLVerdict`,
`JSONVerdict` and `LoginVerdict` keep the order of the code's tests, which is what
decides (`XMLVerdict` looks at the error text before the code, `LoginVerdict` never
at the code). `Derivations` is `derivations.go` and `health.go`, with a number as
its text, and one field for those that are treated alike. `Polling` is one target
in one cycle: `Answer` is a response to the request `Do` waits for, after which
resty repeats it, or `Do` goes on or decides; `CollectSystem` makes samples of
it. An appliance may answer anything (`MayAnswer`), a 404 for a command after a good
login and a page of HTML included; only a login it refuses brings no token.

Properties: `RejectionsPerDo`, `ReadingsOnly`, `OwnService`, `OneKeySetPerName`,
`ServicesSurvive`. `ReadingsOnly` compares row by row and in both directions: a row
has its number exactly if it can be read, a status is shown if there is one, and an
`_up` stands beside it, with its value, exactly if the status is known to serve or
not to serve. `OwnService` asks for the parent in the statistics first, then in the
listing, and for none only if neither has the index.

### ConfigLoad and Lifecycle

`ConfigLoad` is `Load` on a file whose fields are literal or one reference, and
an environment from three sources. `Lifecycle` is `run` stage by stage, with the
loop, the watch loop and the clock beside it and the signals that may come at any
moment: what kills a process that has not asked for them, what stops it later.
`Serve` says for which metrics URI `http.ServeMux` panics, and `CycleEnds` that a
ticker panics unless its interval is positive; both are there so that `Load` can be
wrong about them. It is about one kind of URI: `ServeMux` unescapes a pattern segment
by segment, so `/%68ealth` conflicts with `/health`, and `validateServerURI`
compares the text as written. `Disguised` are these spellings.

Properties: `NoTwinSystems`, `InjectionWins`, `ExitTellsWhy` (success is a handled
stop or a complete `--once`; of what `Load` accepts only a disguised URI panics),
`StopsOnSignal`.

## 3. The runs

| Run | Bounds | Shows |
|---|---|---|
| `session` | 3 callers, one `Do` each | the properties of `Session`. Three callers give a leader, a waiter and a latecomer, and each `Do` obtains twice, so up to three generations are in play |
| `client` | one client, window of 2 ticks, any credentials, any verdict of `Wire` | the properties of `SystemClient` over any number of cycles (127 thousand states) |
| `client_window` (violation) | password only | `client.go:54` against two concurrent calls |
| `reload` | two incarnations, window of 1 tick; a target with both credentials that is kept, changed or renamed | the properties of `ClientReload`, at any moment of the calls (566 thousand states, the longest run) |
| `collector` | lists of 3 and 2 targets, 2 slots, 3 lists installed | the loop implements its view, with answers and results in any order. Two slots for three targets is the smallest fan-out that queues |
| `freshness` | 5 targets, interval = timeout = 3, limits 0, 1, 2, 3, 5 | one to five rounds, on both sides of the condition |
| `watcher` | 3 writes, 2 SIGHUPs | a write before, during and after a reload; a signal pending while one is handled |
| `exporters` | 2 scrapes, 3 snapshots of 3 kinds | collisions on two systems, a first survivor that changes, a metric that comes late and one that goes |
| `exporters_mix` (violation) | the same | `otlp.go:22` against a snapshot stored during an export |
| `polling` | every response, 2 services, 2 real servers, 7 listings and none | pairs of services that share address, port, both or neither; readable, blank and non-finite numbers; every kind of status; listings complete, partial, reordered and ambiguous; parents in either payload and in neither |
| `rejection` (violation) | the same | `transport.go:24` and `transport_json.go:109` against a rejection that only a body reports |
| `lifecycle` | budget of 2 ticks; configurations varied one respect at a time | names, credentials, files, three environments, limits, URIs of every kind; both modes, OTLP on and off, slow flush and connection |

Bounds and why they are enough:

- `MaxDos` = 1: what a second `Do` of the same caller could find is what another
  caller's first one finds, since a caller keeps nothing between calls. The
  proofs do not depend on it.
- `Cooldown` = 2 ticks: a window can be fresh, running out and over. `reload`
  has 1, which still separates running from over. The window's only use is that
  comparison.
- `Incarnations` = 2: a carry involves one old and one new client, and what was
  carried once is state of the new client like any other.
- Answers of `reload`: the target that is reloaded has both credentials, its
  password is refused over JSON, XML succeeds, rejects or fails hard. That reaches
  every way in which a rejection goes unrecorded (the probe's fallback, the success
  noted late). The other combinations are `client`'s subject, and the proofs'.
- `MaxSnapshots` = 3 with the empty one: an export can span a change, and a metric
  can be missing when `EnsureInstruments` first runs. A callback looks at one
  snapshot, a scrape at one.
- Two services and two real servers per payload in `polling`: joining and colliding are about pairs. The
  texts are a zero, numbers, a blank, `N/A` and `NaN`.
- `Budget` = 2: a budget that is whole, running out and over.
- `MaxRevisions` = 3: a list replaced before any cycle took it.
- A limit of 0 in `freshness` cannot come from a file, as `config.Load` turns it
  into 4; `CollectOnce` clamps it for configurations built otherwise, and the run
  checks that clamp.

Deadlock is checked in every run but `polling`, `rejection` and `lifecycle`: there
one cycle or the process really ends. Other runs that end (callers done, loop
returned, watcher closed) do so in a `Finished` step.

Each module has one `TypeOK` (`RTypeOK`). They are proved; the runs' `.cfg` files
spend their room on the other properties.

### Mutations

Every property of a passing run has a plausible mistake in the code that breaks
it. The mistaken form stands in the module just before the definition it would
replace (`TakeFirst` before `TakeLatest`, `CheckNothing` before `CheckCooldown`,
`ForgetUnlock` before `Unlock`, ...) and nothing else uses it; `PROJECT.json`
pairs each with its property.

### Violations

Each violation run has one property, which states what a comment says, and a
finding in `PROJECT.json` that quotes it.

- `OneRejectionPerWindow` fails and `LockoutBudget` holds: the real bound is three,
  one per concurrent caller and one more when a success that was answered before a
  rejection is noted after it (`client.go:276`). `LockoutBudget` counts what is
  reported as `errAuth`.
- `RejectionIsMarked` fails: a login answered HTTP 200 with code 401 and no token is
  `errUnsupported`, an XML body with an error text and stat 401 a plain error, and so
  is an HTTP 403 for a JSON command. None of them starts the cooldown.
- `ExportIsOneSnapshot` fails and `ReadersAgree` holds: the readers agree metric by
  metric, not export by export.

Disagreements met while modelling that no run keeps, because each is narrower than
these:

- `auth.go:78` says that a refresh returns a newer token than the one rejected.
  `auth.go:163` advances the generation on a failed login too and keeps the old
  token, so a caller that refreshes after another one's failed login gets the
  rejected token back and posts it once more.
- `client.go:380` says that a rejection by a transport that is not active must not
  suppress calls. One that was active when its request left, and was switched away
  from before the answer came, does (`client.go:231`).
- `collector.go:38` says that no caller can hand a rejected credential another
  login across a reload. A rejection noted on the old client after the copy
  (`collector.go:44`) is lost. So are those of the clients in `lapsed` (see
  `ClientReload`): after a JSON probe that was rejected and fell back to XML, every
  reload that changes nothing logs in with that password again.
- `config.go:161` says that `validateServerURI` refuses what `ServeMux` would panic
  on. `/%68ealth` passes it (`config.go:182-198`), and `main.go:253` panics, because
  `ServeMux` unescapes the pattern and finds `/health` there already.
- A write between `config.Load` (`main.go:315`) and `NewWatcher` (`main.go:398`)
  raises no event; it is applied with the next write or SIGHUP.
- An empty secret file next to other credentials loads, and the target silently runs
  without that credential.
- A SIGHUP during the shutdown, after the watch loop has returned, kills the process;
  so does any signal before `run` asks for it.
- The cycle that the shutdown cancels publishes `kemp_up` 0 for the targets it was
  waiting for; the OTLP flush and late scrapes may show it.

### Fairness

Weak fairness of a goroutine's next step says that the Go scheduler runs it and
that a request returns, which the client timeout and the cycle's context ensure.
Strong fairness is used where a mutex or `select` is contended: Go's mutexes hand
over to a starving waiter after a millisecond, and `select` picks uniformly among
ready cases, so `Exit` in `Collector` and the lock acquisitions and receives in
`Watcher` are taken if they are ready again and again. `SystemClient` needs only
weak fairness: each caller's steps are disabled by its peer's probe, which ends.
Tickers tick and clocks go on. `Exporters` assumes it of the ticker of
`EnsureInstruments` and of the SDK's periodic reader, `Lifecycle` of `run`, the
watch loop and the clock. Nothing outside the process is fair: no caller has
to call, no appliance has to recover, nobody has to write, reload or stop.

## 4. What is proved

Every safety property of a passing run is a theorem, for every value of the
constants. The proofs use no assumption but
those the modules declare on their constants, which TLC evaluates on its
instances.

| Module | Theorem | Property |
|---|---|---|
| `SessionProofs` | `SingleLogin` | `AtMostOneLogin` |
| | `WaitersAreServed` | `NoOrphanWaiter` |
| | `LockoutSafety` | `LoginsAreJustified` |
| | `RefreshIsNewer` | `RefreshAdvances`: what a refreshed caller posts with is of a later generation than the one it saw rejected (no run lists it) |
| | `TokenOfGeneration` | `GenerationNamesOneToken` |
| | `SessionRefinesSingleFlight` | `ImplementsSingleFlight` |
| `ClientProofs` | `SwitchesOnce`, `ReloadsDoNotFlap` | `NoFlapping`, of `SystemClient` and under reloads |
| | `OnlyActivePrimes` | `AlternateNeverPrimes` |
| | `ThreeRejectionsPerWindow`, `ReloadsKeepTheBudget` | `LockoutBudget`, of `SystemClient` and under reloads |
| | `CooldownIsOwn` | `CooldownBelongsToCredential` |
| | `QuietReloads` | `QuietReloadCostsNoLogin` |
| `CollectorProofs` | `AnswersAreFresh` | `NothingCarriedOver` |
| | `LoopRefinesView` | `ImplementsView` |
| `FreshnessProofs` | `SnapshotAge` | `AgeIsBounded` |
| | `HealthIsFair` | `LivelyLoopIsNotStale` |
| `WatcherProofs` | `CloseIsFinal` | `NoReloadAfterClose` |
| | `ReloadsKeepOrder` | `NeverBackwards` |
| `ExportersProofs` | `NothingStale` | `ExportIsCurrent` |
| | `SameSurvivors` | `ReadersAgree` |
| | `OneLinePerDrop` | `DropsAreLoggedOnce` |
| `PollingProofs` | `RejectionsAreBounded` | `RejectionsPerDo` |
| | `AbsentIsNeverZero` | `ReadingsOnly` |
| | `OwnNames` | `OwnService` |
| | `KeysAgree` | `OneKeySetPerName` |
| | `NoServiceIsLost` | `ServicesSurvive` |
| | `OutcomesAreModelled` | every outcome of a `Do` is one of `Wire!Verdicts`, which is what `SystemClient` is given for its outcomes |
| `LifecycleProofs` | `ExitIsTruthful` | `ExitTellsWhy` |
| | `LabelsAreUnique` | `NoTwinSystems` |
| | `InjectedValuesStay` | `InjectionWins` |

Each of these modules also has `TypeCorrect`. Each has the
same shape: an inductive invariant `Inv` of named parts, `InitInv`, one lemma per
part with one step per action that `[Next]_vars` keeps it, and `Invariance`, from
which the theorems follow. TLC checked each `Inv` before it was proved.

**Session.** Every set `Callers` and every positive `MaxDos`. `LoginsAreJustified`
says of the heap of attempts something that depends on how attempts and
generations are counted, and that on who is between `Lead` and `Commit`. `Inv`
adds `Counted` (the newest attempt is number `gen + 1` while a login is in flight
and number `gen` otherwise), `Leading`, `Waiting` and `Known` (what a caller at
each location knows of its attempt and its generation), `Published` (a published
attempt carries its own number) and `Unpublished` (a login made without a token
was made before any had succeeded, even one whose leader has not published it
yet). `Named` follows the token of a generation from the login to whoever posts
with it, since the critical section of a later login may have replaced the
session's token by then. Under the mapping, `Do` and `Refresh` ask, `Lead` launches,
`Commit` lands, `UseCached`, `Publish` and `Share` answer, and the rest stutters.

**Clients.** Every set of incarnations, every choice of credentials and answers,
every window of at least a tick. `LockoutBudget` counts rejections that the
appliance remembers, while the code only has one cooldown per client: the proof
must say what each call may still add. `Mutex` (who probes holds the lock),
`Detection` (what has been active), `Calls` (one call re-probes), then the budget:
`Pending` (a call that may send finds at most two rejections, and one if the other
may send too), `Covered` (rejections of the active transport lie within the
cooldown, but for one about to be noted and one that an older success has taken out
of it), `Untouched` (what has been tried before detection and before the switch),
`Overdue` (a success still to be noted is at most one rejection old: its peer's) and
`Strays` (a call whose transport is no longer the active one). The last two are the
cases that a test hardly reaches: answers noted in another order than they were
given, and a request on the old transport that is answered after the switch.

**Reloads.** Every number of incarnations and every set of configurations. A step
of a call is a step of `SystemClient`, so its invariant is reused; `RInv` adds that
a client not installed yet is untouched, so that a copied cooldown meets no
history, and that every recorded rejection belongs to the configuration of the
client that has it. `QuietReloadCostsNoLogin` needs `Held`: as long as no reload
overlaps a cycle, the installed client is barred for as long as any earlier one of
the same configuration has a rejection remembered, however many reloads ago.
What the next client takes over is enough by `Kept`: unless the client is in
`lapsed`, each of its rejections is within its cooldown or a call is about to note
it. That is `QuietReloads`, for any credentials. `lapsed` cannot be dropped: each of
the steps that put a client there can alone break the property.

**Collector.** Every set of lists without repeated targets, every integer limit,
any number of reloads. The loop's locals belong to the list it took, though
another one may be installed; that list is at least as new as what is published.
`OwnReplies` and `OwnResults` follow an answer from the cycle it came in to the
place of its target in the snapshot.
`Publish` is the abstract publication, `Reload` the abstract change, and the rest
stutters. `config.Load` rejects two targets of one name (`NoTwinSystems`), which is
what the assumption says.

**Freshness.** Every number of targets, limit, interval and timeout. The argument
is that of list scheduling. `InRounds`: if a deadline ends more than `r` timeouts
after the interval, more than `r * Limit` targets have been launched before it;
in the last round there are not that many targets. `Punctual` says how old the
snapshot is when a cycle begins.

**Watcher.** Any number of writes and signals. What a reload has read is no older
than what was applied, as `mu` keeps any other reload from applying in between;
and once closed nothing is under way and nothing can begin.

**Exporters.** Every content of the snapshots, any number of scrapers and
snapshots. The invariant says what a scrape that has walked `k` samples has
emitted, and that each series walked has a survivor among them: so the code's
lookup in what it has emitted finds what a look at all earlier samples would.
`Unlogged`, `Logging` and `Logged` follow one reason from the critical section of
`warn` to the line.

**Polling.** Every response. `Spent` counts rejections by the request that `Do`
waits for. The lemmas about `Wire` (`VerdictsCover`, `RetriedIsNotRejected`,
`TokenIsNotRejected`) are about every status, code, text and form.

Then every payload and every listing, of any length. `Derived` says that the
samples are those of one payload and one listing, or `kemp_up` alone. What is in
them takes an induction: `FlattenSeq` is defined by recursion over the rows. The
library's induction theorems have a predicate as a parameter, which the provers
cannot instantiate; its theorem that a non-empty subset of a well-founded set has
a minimal element (`WFMin`) takes sets. `LeastNat` and `EveryNat` are that theorem
for the naturals, and with them `PartialExists` (the recursive function exists) and
`Flattened` (what is in a flattened list is what is in one of its lists) are
proved. `SampleRows` then says of every sample which row it comes from, and the
four properties are about rows: `MetaRow` and `ParentRow` about which one the joins
find, `LabelKeys` about its keys, `NumbersAreRead`, `StatusesAreShown` and
`UpsAreTold` about its values, each from the rows to the samples and back.
`ServicesSurvive` takes the first of the samples that look like a service's own
(`LeastNat` again): no other row's can look so (`SampleIsOwn`).

**Lifecycle.** Every configuration and environment, every budget. `LoadedConfig` is
the lemma about `ConfigLoad`: what `Load` returns has valid systems of distinct
names, a URI that `http.ServeMux` takes unless it is a disguised one (`MuxAccepts`),
and a positive interval. The invariant
then follows `run` from place to place (`Loaded`, `Mode`, `Handling`).

### Assumptions on the constants

| Assumption | Says | Because |
|---|---|---|
| `MaxDosAssumption`, `BoundsAssumption`, `BoundAssumption`, `BudgetAssumption` | bounds are natural, and positive where a zero would mean no run | the models' own bounds |
| `ClientsAssumption`, `IncarnationsAssumption` | there is a client; incarnations are numbered from 1 without a gap | names of `client` values |
| `CredentialsAssumption` | every target has a credential for one transport at least | `config.Load` refuses a system without |
| `CooldownAssumption` | the window is not empty | a constant of 60 seconds |
| `ConfigsAssumption` of `ClientReload` | a configuration is name, credential and transports | `credentialFingerprint` |
| `ConfigsAssumption` of `Collector` | lists are not empty and repeat no target | `config.Load` refuses both |
| `PositiveAssumption` | some target, positive interval and timeout | validation and defaults |
| `SamplesAssumption`, `ContentsAssumption`, `ReasonsAssumption` | what samples and snapshots are | `Sample`, `SystemSnapshot` |
| `TextsAssumption` | no text is both a number and not one, and a field that is absent is neither | `strconv.ParseFloat` |
| `PayloadsAssumption`, `ListingsAssumption` | a payload's and a listing's rows are sequences, a row's number a text | slices, the type `Num` |
| `InputsAssumption` | a file's numbers are integers, its references name variables | the YAML fields' types |

### Only model-checked

- Liveness under fairness: `DoReturns`, `CallsReturn`, `Recovers`,
  `ReloadCompletes`, `RecoversAfterReload`, `ReloadsArrive`, `KeepsPublishing`,
  `WritesArrive`, `CloseCompletes`, `EverySeriesIsPushed`, `StopsOnSignal`. The
  prover reaches neither fairness nor ENABLED, and no theorem depends on them.
- Bounds and fairness do not matter to the theorems; but the theorems are about
  the models, and what section 2 abstracts is abstracted there too.

No module declares a RECURSIVE operator, so each can have theorems.

## 5. What is not modelled

- Logging, tracing, TLS settings, build information, the dump and the safe
  rendering of the configuration keep no state that another part reads.
- The text of errors and the redaction of URLs in them.
- YAML, XML and JSON decoding below the level of rows and fields: the payload is
  usable, missing or of the wrong shape.
- The readers' guards for diverging keys and unrenderable labels (see `Exporters`).
- The drops a real number of SubVSs causes: the readers show a collision's first
  sample, and `docs/metrics.md` says so; `ServicesSurvive` is about the others.
- The mock appliance is a test double; dashboards and deployment files are data.
- What fsnotify reports for a file that is reached through a symlinked directory
  is outside this repository.

## 6. Plan

What the first plans listed is there. What is left:

1. Shorter proofs where two lemmas of `ClientProofs` go through the same cases.
