# rpi-dashboard: a TLA+ verification project

The project models the programs of this repository in TLA+, checks the models with TLC on small
instances and proves the most important results with TLAPS for all sizes. Paths are relative to the
repository's root; line numbers of every definition are in `PROJECT.json` ("map").

## 1. The system

A Raspberry Pi shows a dashboard (Qt/QML, one GUI thread). Other hosts run `dashboard-daemon`, which
reports to it over UDP.

| Component | State it keeps | Operations | Talks to |
|---|---|---|---|
| Remote device registry (`src/telemetry/remote_device_registry.cpp`) | device table, diagnostic, `remote-devices.cbor` | `registerHello`, `acceptSnapshot`, `updateFreshness` (1 s timer), `forgetDevice`, `persist`, `load` | receiver calls it, device model listens to its signals |
| UDP receiver (`src/telemetry/udp_telemetry_receiver.cpp`) | socket, counters | `processPendingDatagrams` (batches of 32) | registry, daemons |
| Protocol (`src/protocol`) | none | encoding and validation | receiver, registry file |
| Daemon (`daemon/src/daemon.cpp`) | identity file, instance, sequence number, previous counters | `run` (hello, reply, snapshot, sleep), identity, configuration, collection | dashboard |
| Weather service and provider (`src/weather`) | current and forecast data, location, status, cache file, three timers | set location, refresh, publish, fail, load and save cache | HTTPS service |
| Projects service (`src/projects`) | repositories, runs, runners, selection, ETags, request queue | refresh, discovery, run and runner loading, details of the selection | GitHub API |
| Local services (`src/sysinfo`, `src/sysmetrics`) | last values, history | refresh on a worker thread | device model |
| History chart (`src/dashboard/resource_history_*.cpp`) | cached points of the history | model signals, paint | history model, scene graph |
| Device model (`src/dashboard/device_model.cpp`) | none of its own | list model signals | registry, local services, QML |
| Screensaver (`src/dashboard/screensaver_controller.cpp`) | active flag, idle timer | input events, timeout | QML |
| Configuration and start-up (`main.cpp`, `*_config.cpp`) | none after start | parsing | all |
| Installers (`install/`, `daemon/package/`) | release directories, `current` link, units | provision, activate, roll back | systemd |

What is hard here: UDP loses, repeats and reorders; daemons crash and come back as new processes,
perhaps with a cloned identity; timers race messages; saves fail and files are damaged between two runs;
replies of HTTP requests arrive after the question has changed; several requests are in flight at once;
a daemon is killed, or loses power, between two system calls; a worker thread, timers, animations and
repaints interleave on the local page. `PROJECT.json` lists these hazards, each at its line, with the
properties about it.

## 2. What makes each part correct

- **Registry.** An identity is held once and the table is bounded; the live fields of a device belong
  to one registration; old data never replaces new data; an identity changes hands only after real
  silence; a silent device ends up offline; without a diagnostic, file and memory agree.
- **Daemon and network.** One sequence number names one snapshot of one process; what the dashboard
  shows was really sent by the process it is shown for; without a fault a device stays online, and one
  lost datagram costs it at most one missed turn, which at the default interval of 1 s is long enough to
  show it offline and at no longer interval is; snapshots keep getting through.
- **Weather.** One operation at a time; something is always under way or due; data on the page is of
  one place, is kept through failures and is marked stale while it may be old; the page
  recovers; solar event and remaining precipitation follow the clock.
- **Projects.** One refresh at a time; slots of the request queue are never lost; a refresh that lacks a
  page of the public listing or the runs of a repository, or met a listing that breaks its schema, never
  looks current (one that could not read the private listing does, see the findings); selection, stage
  cards and metrics stay together whatever arrives late; rate limits delay polling; refreshing never
  stops.
- **Device model.** After every registry operation the list view shows exactly the device table.
- **Daemon host.** All processes of a host run with one identity, whatever fails or dies while it is
  created, and the daemon always comes up again; the decoder rejects its snapshots
  for nothing but two graphics cards of one vendor; no network rate and no processor usage exceeds what
  happened.
- **Local metrics and chart.** One collection at a time; a refresh is never lost; the picture on the
  screen is exactly the displayed window of what was measured, with its gaps, although samples leave
  the model during a transition and geometry in the scene is reused; the chart never scrolls back and
  comes to rest at the newest sample.
- **Not modelled:** see section 7.

## 3. Modules

| Module | Models | State | Actions |
|---|---|---|---|
| `TelemetryProtocol` | the messages `decodeMessage()` lets through | none | none |
| `RemoteDeviceRegistry` | the registry and its file | `devices`, `storage`, `diagnostic` | one per operation, the one-second timer, a restart with the file as it was, damaged or gone |
| `DashboardDaemon` | `run()` of each host | `daemon[h]`: phase, starts, sequence, port | start, hello, reply, timeout, snapshot, sleep, crash |
| `TelemetrySystem` | registry, daemons and receiver joined by UDP | adds `network`, the set of datagrams ever sent | delivery of any of them at any time, any number of times |
| `DeviceLifecycle` | the abstract promise about one device | `life` | register, update, age, forget |
| `DeviceModel` | the list model of the device page over the registry | adds `view`: the rows a view has read, and the model's flag | each registry operation with the signals it emits, in their order |
| `TelemetryTiming` | the same system against the clock | adds `wait`, `faults`, `silent` | a second passes; a fault is a lost, repeated or delayed datagram or a failed lookup |
| `WeatherService` | service, providers, cache and timers | `config`, `service`, `cache`, `now` | every reply, failure, timer, refresh and restart |
| `ProjectsService` | refresh, request queue, polling, selection and details | `service`; `observed` remembers what has failed, for the properties only | every reply and failure of a request in flight, poll timer, selection, clock |
| `DaemonIdentity` | `load_or_create_identity()` | `file`, `onDisk` (what a power failure may leave), `tmp`, `process`; `used` for the properties only | one per system call, each of which may fail; kill, write-back, power failure, restart by systemd |
| `DeviceSnapshotCodec` | what `metricsFromMap()` accepts: amounts, ratios, numbers, names and lists | none | none |
| `DaemonCollector` | `Collector::metrics()`, every source of it | `host` (kernel counters), `collector` (what it remembers of processor, network and graphics processor), `snapshot`; `since` for the properties only | counters move, interfaces vanish and return, a collection from any reading |
| `DaemonHost` | the two together: a process first has an identity, then collects, and forgets when it ends | | |
| `SysMetricsService` | the sampling service and its rolling history | `service`, `history` | timer, queued refresh, worker, result, exception |
| `ResourceHistorySeries` | the chart attached to that history, up to the scene graph | `chart`, `frame`; `seen` for the properties only | sample with its signals, attach and detach, resize and recolour, animation, paint, released scene |

`RemoteDeviceRegistryProofs`, `TelemetrySystemProofs`, `TelemetryTimingProofs`, `DeviceModelProofs`,
`WeatherServiceProofs`, `ProjectsServiceProofs`, `ResourceHistoryProofs` and `DaemonHostProofs` extend
the module they are named after (`TelemetryTimingProofs` also `TelemetrySystemProofs`;
`ResourceHistoryProofs` extends `ResourceHistorySeries`, and with it `SysMetricsService`;
`DaemonHostProofs` covers `DaemonIdentity` and `DaemonCollector`) and hold its lemmas and theorems
(section 5).

`MC*` modules give the constants values; `MCTelemetrySystem` and `MCTelemetryTiming` also choose which hosts
take part, and `MCDaemonHost` leaves out products of parts that do not influence each other: collecting while the
identity file is being created, counters of two sources moving together, and, after the first collection
of a process, other contents of the files that no collection remembers. Everything on the GUI thread
runs to completion, so an event with all the calls it makes is one action; in `WeatherService` and
`ProjectsService`, where handlers call each other deeply, the members are one record and each C++
function is an operator from records to records, named after it. A definition marked *Faulty* is a
plausible mistake in the one that follows it; no specification uses it: it shows that a property would
notice the mistake.

What is abstracted. Names, texts, dates, units and JSON fields are left out. A snapshot's metrics
are named by its sequence number, a project's metrics by the run they were computed from, so that old
data can be told from new. A reply over HTTP is any content its endpoint may have, or a failure;
bodies repeated by the ETag cache are among them. Ages beyond the last threshold are not told apart.
The closures of `loadRuns()` and `loadRunners()` share heap objects: these are the `cells` of
`ProjectsService`, because replies of two refreshes may hold different ones at the same time.
A history sample is its time and the metrics it knows, a curve the set of time intervals it covers:
heights, colours as such and tessellation are left out. A rate is the difference it is computed from,
`WireMax` stands for 2^63 - 1 and `Word` for the 64-bit word in which the idle difference wraps. In
collector and decoder a ratio is the part and the whole it is computed from, another floating-point number
is its kind (absent, finite, negative, infinite), and a name is in `Texts` or not: both programs ask for 1
to 256 bytes of UTF-8. (The daemon's own `utf8()` tests the form of the bytes only; what Qt makes of a
surrogate or an overlong form is not modelled.) The daemon sends no list of logical processors and always
the CBOR type that is expected, so these checks are left out, and so is `system_info()`. Row
texts of the device model are left out, and so is its local row, which its two handlers announce as a
whole.

## 4. Runs

Bounds are the smallest at which the case in question happens.

| Run | Instance | Shows |
|---|---|---|
| `registry_freshness` | two identities for one place, two processes at two addresses, the code's thresholds 3 and 10, intervals 1 and 2 | registrations never mix; takeover follows the clock; silence ends in Offline |
| `registry_capacity` | three identities for two places, failing saves, damaged files, restarts, with the device model | table well formed and, without a diagnostic, equal to its file; the view equals the table |
| `telemetry_hosts` | one daemon started twice, or two hosts with one identity started once; two sequence numbers, any network | only data a process sent is shown; the system implements `DeviceLifecycle` |
| `telemetry_timing` | a host with the default interval of 1 s or one with 2 s, reply wait 2 s, retry 10 s, two ports, up to two faults | online without faults; one fault costs one missed turn, which is longer than ten intervals at 1 s and shorter at 2 s; snapshots get through |
| `weather_operations` | two places of one name, five configurations, two requests of a kind, Retry-After below and above the backoff | operations, retries, places, recovery |
| `weather_rail` | two days of two hours of two ticks, two time zones, a missing date | solar event, precipitation, staleness |
| `projects_details` | two projects, two runs of which the higher-numbered is the older, two requests in flight | selection, cards and metrics |
| `projects_refresh` | one repository on a listing of two pages that may repeat it, with and without a token, a delay of 2 against an interval of 1 | queue, refreshes, failures, rate limits, progress |
| `local_history` | a window of 3, clock steps of 0, 1, 2 and 4, three collections, one metric, a drawable and an undrawable item | service, history, transitions, geometry and repaints |
| `daemon_host` | three identities, two process numbers; three interfaces of which one has no valid name and one more fits, four mount points of which two fit, up to three cards of two vendors where two fit, or a V3D; numbers of every kind, amounts from 0 to one above the wire's range, counters up to 2 | one identity, always up again, snapshots rejected for repeated cards only, no overstated rate |

The type invariant of the registry is checked and proved, and so is that of the composed system
(`TypeOK`, proved only). Those of the other modules (`WeatherTypeOK`, `ProjectsTypeOK`, `HistoryTypeOK`)
document their state; what the proofs need of it is part of their inductive invariants.

Why the bounds are enough: three collections are a sample, one that removes it from the model, and one
that interrupts the transition between them; a step of 4 passes a whole window, 0 repeats a time. A
third identity is one more than a host may lose to a power failure while another is being created. Two
interfaces with valid names and room for one, and a busy counter of 2 are the least at which the limit
cuts an interface off and the idle difference wraps while the total grows. Elsewhere two identities,
places, projects or processes are what it takes to mix data up, and two requests in flight with more
waiting what it takes to reorder them; the code treats a third like the second. In `ProjectsService`,
`MaxOutstanding` limits only when the user selects, and `MaxCount` only where the request count
saturates; refreshes go on for ever. `MaxStarts`, `MaxSequence`, `MaxNow`, `MaxRequests`,
`MaxCollections`, `MaxTicks` and `MaxCount` (of the collector) end a behaviour after the restarts,
snapshots, hours or refreshes that their properties need.

**Fairness.** The clock advances and Qt timers fire when due (registry, weather, projects). Every HTTP
request ends: each has a transfer timeout and bodies are limited in size. In `ProjectsService` this is
`RequestsEnd`, weak fairness of the oldest request written out. In `TelemetryTiming`, `Progress` lets
time and processes go on; datagrams are lost only as counted faults. In `DaemonIdentity`, systemd
restarts the daemon (`Restart=on-failure`) and a system call that is tried again and again succeeds at
last (strong fairness: a process may be killed at every stage, but not for ever at the same one). In
`ResourceHistorySeries` the event loop and the thread pool run, an animation ends after its duration and
a requested repaint is made; neither the sampling timer nor the user is relied on. No fairness is
assumed of the user or of the network in the other modules, and no answer is assumed to be a good one,
except that weather recovery starts from the last failure.

**Findings.** Two runs check one sentence of the documentation each, and TLC refutes it:

- `finding_acceptance`: a rejection that echoes a byte 0xf5 passes for an acceptance
  (`SnapshotNeedsAcceptance`);
- `finding_runners`: late runner replies of one refresh complete the count of the next
  (`RunnersComplete`).

The modules state further sentences of the documentation that the code does not keep, for whoever
changes that code. These four fail in the configurations of the passing runs, as they are, in place of
their properties:

- `SnapshotCadence` in `MCTelemetryTiming.cfg`: one lost datagram silences a registered daemon for twelve
  seconds more (`daemon.cpp:926`), where docs/specs/020-dashboard-daemon.md:31-32 says "It sends a
  canonical-CBOR hello every ten seconds until accepted and then complete snapshots at the configured
  interval". At the shipped interval of 1 s the 13 seconds of such a turn exceed ten intervals, and a healthy
  device is shown offline; `OneFaultCostsOneTurn` says how long it lasts.
- `SnapshotsDecode` in `MCDaemonHost.cfg`: graphics cards are named by vendor (`daemon.cpp:840`), and
  `metricsFromMap()` rejects a repeated name, so that a host with two cards of one vendor never gets a
  snapshot through, where docs/specs/018-udp-cbor-telemetry.md:17 says "Named collection entries must be
  non-empty and unique". `RejectedOnlyForRepeatedCard` says that this is the only case.
- `UnreadableMeansStale` in `MCProjectsRefresh.cfg`: a private listing that cannot be read drops the private
  projects without a stale mark (`projects_service.cpp:351`), where docs/specs/012-projects-page.md:75 says
  "Oversized or malformed successful responses follow the normal retained-stale-data path". So does a
  request for it that fails, which the property leaves out, because a token may not be allowed to list them.
  `FailureNeverLooksFresh` is about everything else that a refresh may lack.
- `CacheOnlyForConfiguredPlace` in `MCWeatherOperations.cfg`: a cache of a city of the same name in another
  country is shown (`weather_service.cpp:385`), where docs/specs/021-weather-page.md:45-46 says it "is never
  used for another provider or location".

Each of the others fails as soon as it is added to a configuration of its module:

- a rejected daemon goes on (`RejectionIsFatal`); a late hello replaces the running process
  (`NewInstanceStaysRegistered`);
- air quality that overtakes the first forecast is lost (`AirQualityKept`); a large Retry-After
  overflows an int of milliseconds (`RetryAfterRespected`, with `TimerLimit` below some Retry-After);
- a failed anonymous refresh is repeated beyond the request budget
  (`PollingWithinBudget`, with `MaxCount` above the budget of one interval); metrics of an old run stay under
  a new run's number (`MetricsOfShownRun`).

Found while modelling, where the models follow the code:

- `read()` returns nothing for an identity file that it cannot open, and the identity is replaced
  (`ReadFails`), where docs/specs/018-udp-cbor-telemetry.md:29 says "failure to establish persistent
  identity is fatal". The directory is not flushed after the rename, so a power failure may still
  undo an identity in use (`PowerFailure`). `OneIdentity` starts anew after either.
- A collection that throws records no sample (`CollectionThrows`), so the curve bridges it, where
  docs/specs/009-live-resource-history.md:10 says "failed attempts append an unavailable sample so both
  series have a gap".
- Where iowait goes back, the unsigned idle difference wraps and the usage of the processor is sent as 0
  (`CpuUsage`): `NeverOverstated` is an upper bound and does not flag it.
- The row number of the device model follows the row's place, and forgetting a device announces no
  change of the rows below it.
- A touch that wakes the screen with an update event is consumed for that event only
  (`screensaver_controller.cpp:77`), where docs/specs/023 lets the complete sequence be consumed.

`PROJECT.json` quotes the sentences behind the two runs with their places.

## 5. Proofs

TLAPS checks the theorems below for every value of the constants that satisfies the named assumptions
of the modules: any number of devices, processes, hosts, places, repositories, pages, samples or
requests in flight. The assumptions say that limits are numbers, that "nothing" is not one of the
things, and how thresholds relate; TLC evaluates them in every run. Two kinds of theorem appear:
invariants (`Spec => []Inv`) and action properties (`Spec => [][A]_vars`), both from an inductive
invariant of the same module.

**Registry** (`RemoteDeviceRegistryProofs`): `RegistryTypeCorrect`, `RegistryDistinctAndBounded`,
`RegistryConsistent`, `RegistryDiskMatchesMemory`, `RegistrySnapshotsOnlyMoveForward`,
`RegistryTakeoverOnlyWhenOffline`. The invariant is `RegistryInv`: the types and a good table (distinct,
bounded, each device consistent). Distinctness alone is not inductive: that a hello for a known identity
replaces it in place, and for an unknown one appends below the limit, needs the index found by the
search to be the only one, and consistency of a device needs the type of every field that an operation
keeps. That disk and memory agree is proved on top of it: an operation either saves, fails to save and
sets the diagnostic, or changes nothing that is saved.

**Composed system** (`TelemetrySystemProofs`): `SystemTypeCorrect`, `SystemImplementsRegistry` (so that
all the registry's theorems hold of the system), `SystemShownDataWasSent`,
`SystemSequenceNamesOneSnapshot`, and `SystemFollowsLifecycle`: it implements the abstract
`DeviceLifecycle` for every identity. `SystemInv` adds to `RegistryInv` what the network may deliver at
any time: every hello and snapshot in it was sent by a process of the host it came from, with a number
the running process has passed. Without that, a delivered snapshot could be anything. For the refinement
it also says that no device is shown staler than its data is, because the abstract device only gets
staler while it is silent.

**Against the clock** (`TelemetryTimingProofs`): `TimingHealthyStaysOnline`, `TimingOneFaultCostsOneTurn`
and `TimingImplementsRegistry`, for any number of hosts, also ones with cloned identities, and any
intervals. Their hypothesis is `DelaysFit`: the reply timeout and the retry delay are not zero, and a device
is not stale after a single interval. `TimingOneFaultCostsOneTurn` bounds the age of a device's data after
one fault by `MissedTurn`, an interval and the longer of another interval and the reply timeout with the
retry delay; offline it is shown only where ten intervals are no more than that. With the code's 2 and 10
seconds this is so at 1 second, the default, and at no longer interval. A process cannot know what the network
still holds, so that ages alone are not inductive: `TimingInv` says of every host in which phase which
datagrams from and to it may be under way, and that the age of its data plus its remaining wait stays
within one interval, or within one missed turn after a fault. `Undisturbed` is that statement before any
fault and `Disturbed` the one after a first fault, when a late snapshot may meet the handshake of the next
turn; after a second one only `HostInv` is left, which says whose datagrams and devices these are. Each
kind of step (the process moves, a datagram is handled, a second passes, something happens elsewhere) has
a lemma for each of the three.

**Device model** (`DeviceModelProofs`): `ModelViewFollowsRegistry`. The invariant is the strongest
there is, that the view is as if it had just been attached. Each operation has a lemma that the signals
it emits, in their order, bring the rows from the table before it to the table after it.

**Weather** (`WeatherServiceProofs`): `WeatherOneOperation`, `WeatherShowsOnePlace`,
`WeatherStaleWhileRecovering`, `WeatherDataSurvives`, and `WeatherNeverIdle`. `WeatherInv` adds that an
air quality still asked for is that of the resolved location (a late reply could bring another one),
that the cache file came from one place and from the past, and that a missing credential never
resolves a location. Handlers call each other between the end of one operation and the start of the
next; `Between` is what holds there. `WeatherNeverIdle` has the hypothesis `RetryAfterFits`: every
Retry-After fits the int of milliseconds in which the code keeps it. Beyond that the timer may start
with a negative time and the service stop, the hazard listed at `weather_service.cpp:225`.

**Projects** (`ProjectsServiceProofs`): `ProjectsSlotsAreUsed`, `ProjectsOneRefresh`,
`ProjectsFailureShows`, `ProjectsSelectionNamesOne`, `ProjectsSelectionStays`, `ProjectsDetailsFollow`,
`ProjectsListChangesAtOnce`, `ProjectsRateLimitDelays`, `ProjectsMetricsStay`. `ProjectsInv` adds to
what they state: the outstanding run requests are as many as are counted and share one object; every
request finds the object it shares; while a refresh is under way it has met no bad listing, since one
that breaks its schema, or a public one that is missing, ends it at once; while it lacks the runs of a
repository, the shared object says so, so that whichever reply is last ends the refresh as stale;
polling has to wait no longer than the timer has left, and the timer no longer than its interval. The
counting is of requests by kind in queue and flight together, which starting a waiting request leaves
alone. Every handler of a reply has one of a few outcomes (it only adds details, lists more, asks for
runs, ends the refresh well or badly, or is one of several run replies), and the invariant is shown once
for each. `ProjectsMetricsStay` needs besides (`MetricsInv`) that rows collected and requests
outstanding are about repositories and runs there are, and that sorting returns rows of its input:
`LatestFirst` puts every row at the place that the number of rows before it gives, and that every place
is taken is a pigeonhole argument over places, for which a listing has to be finite
(`RepositoriesAreKeys`).

**Local metrics and chart** (`ResourceHistoryProofs`): `HistoryOneCollection`,
`HistoryFrameIsTruthful`, `HistoryNeverScrollsBack`. `HistoryInv` says that history and shadow copy are
ordered in time and recent, that the chart's samples with the prefix it keeps cover what was measured in
the displayed window, and that the geometry in the scene is that of the chart's members or marked
outdated. The loops over the leading samples stop at the first one that is not old. Since the
library's induction theorems cannot be instantiated here, that index is found as the least element of a
set of numbers.

**Daemon host** (`DaemonHostProofs`): `HostOneIdentity` and `HostFileParses` (an identity file that is
there holds a whole identity). `IdentityInv` adds that a process which creates an identity has none
before it in use, and that what it renames into place was flushed. `HostNeverOverstated` and
`HostRejectedOnlyForCards` are about the collector. `CountersInv` says that no counter has grown by more than
what happened since the collection that is remembered, where an interface that has been away counts from
0; a wrapped idle difference is larger than any total, because `Word` exceeds the counters. Both theorems
need that the interfaces come in an order without repetition: `InOrder` is defined by a choice, and that
there is something to choose is proved by a least counterexample over the size of the set.
`HostRejectedOnlyForCards` has no hypothesis: each source has a lemma that what it adds passes the
decoder's checks, and names can be repeated only among cards. `ReadingsAssumption` says what parsing
yields.

### Model-checked only

Every invariant and every action property of the passing runs is stated by a theorem above. Liveness
(`SilentDevicesGoOffline`, `SnapshotsGetThrough`, `Recovers`, `RailKeepsUp`, `KeepsRefreshing`,
`RefreshNotLost`, `ChartCatchesUp`, `ComesUp`) is only model-checked: fairness and `ENABLED` are beyond
the prover.

## 6. Plan

What remains are the type invariants of weather, projects and history as theorems (their inductive
invariants hold the parts that the proofs need), and, when the code changes, the sentences of section 4
that it does not keep yet: each is stated in its module and can move into a passing run.

## 7. Not modelled

- QML layout and painting, translation, logging: no state worth checking.
- Parsing of `/proc`, `/sys`, HTTP bodies and configuration files, and the CBOR encoding: pure
  functions of text; what they yield are the inputs of the models.
- Heights of the chart's curves (low-pass filter, monotone tangents): real-number arithmetic.
- The dashboard's own Linux collectors follow the rules of the daemon's collector; the system
  information service collects once, by the protocol of the metrics service without pending requests.
- Screensaver, start-up, project health and bounded HTTP replies are small and sequential; the
  failures of a bounded reply appear as failures of its users.
- The size of a datagram: a snapshot with many entries of long names may exceed the 16 KiB that the receiver
  takes (`udp_telemetry_receiver.cpp:38`); names have no length here.
- Batches of 32 datagrams: their fairness against timers is the Qt event loop's.
- Installers are shell scripts whose state is the file system and systemd.
