# tracker: a TLA+ model of a family location tracker

`tracker` is a self-hosted family location tracker. An Android app measures
fixes and uploads them; a Go server stores them in PostgreSQL, derives
enter/exit events for the family's Places, pushes those crossings to phones and
streams positions to a map page. These modules model the parts in which state
is shared between threads, requests, processes or machines, and check what each
of them promises. Paths below are relative to the repository's root, with
`A/` for `android/app/src/main/java/com/nschatz/tracker/`.

## 1. Inventory

| component | state it keeps | operations | talks to | modules |
|---|---|---|---|---|
| Durable queue (`A/queue/FixQueue.kt`) | one `.fix` file per entry, named by timestamp; `.tmp` files while writing | `enqueue` (write, sync, rename, trim), `oldest`, `remove`, `size`, `depth` | service (main thread), worker | `FixDelivery` |
| Uploader (`A/queue/QueueFlusher.kt`, `FixUploadWorker.kt`, `FlushBackoff.kt`) | the batch in hand, a `FlushReport`; WorkManager's unique work | `doWork`, `flush`, `publish`, `enqueueFlush` (KEEP) | queue, `FixReporter`, `CollectionStatus`, WorkManager | `FixDelivery` |
| Collection service (`A/collect/LocationCollectionService.kt`) | running, configuration | `onStartCommand`, `handleLocation`, `enqueue` | queue, status, WorkManager | `FixDelivery`, `BootRestart` |
| Readout (`A/collect/CollectionStatus.kt`) | delivered, dropped, queued, last trouble | `reset`, `recordQueued`, `recordFlush`, `recordDropped(Batch)`, `recordBlocked` | written by main thread and workers | `CollectionReadout` |
| Boot restart (`A/collect/BootCompletedReceiver.kt`, `BootRestartDecision.kt`, `A/permission`) | the persisted ask, the reason for not honouring it | `onReceive`, `decide`, Start and Stop on the screen | Android's boot broadcast, the service | `BootRestart` |
| Ingest (`internal/server/server.go`, `internal/store/store.go`) | table `fixes` | `POST /v1/fixes`: authenticate, validate, `INSERT .. ON CONFLICT DO NOTHING`, create a missing month, evaluate, notify | uploader, evaluator, notifier | `FixDelivery`, `Retention`, `FamilyAccess` |
| Geofence evaluator (`internal/store/geofence.go`) | table `geofence_events` | `EvaluateDeviceGeofences`, `confirmTransitions` | called by ingest | `GeofenceEvaluator` |
| Push (`internal/push/push.go`, `ledger.go`, `notify.go`) | bounded channel, pending counts per endpoint, order of endpoints | `NotifyGeofenceEvents`, `Classify`, `NotHandedOver`, `forget`, `Enqueue`, `run`/`deliver`, `Close` | ingest, providers, `main.go`'s shutdown | `PushDelivery` |
| Push senders (`internal/push/fcm.go`, `serviceaccount.go`, `unifiedpush.go`) | the cached access token behind a mutex | `Send`, `Token`, `exchange` | Google's token endpoint, FCM | `TokenSource` |
| Push subscriptions (`internal/server/push.go`, `internal/store/push.go`) | `push_subscriptions` | register, supersede | phone, notifier, ledger | `PushRegistration`, `PushDelivery` |
| Live stream (`internal/server/stream.go`, `internal/store/presentation.go`) | per connection: cursor, previous states, `degraded` | `getStream`, `poll`, `resumeSweep`, `snapshotUnlocated`, `diff`, `reportUnavailable`, `streamPollTick` | database, map page | `LiveStream`, `Startup` (the tick) |
| Presentation (`internal/presentation/presentation.go`) | none | `Evaluate`, `AgeSeconds`, `SweepBound` | stream and read API | `Presentation` |
| Map page (`internal/server/static/map.html`) | marker and word per device, `Last-Event-ID` | `onStreamEvent`, reconnect, reload | stream | `LiveStream` |
| Retention and partitions (`internal/retention`, `internal/db/partitions.go`) | monthly partitions and their bounds | provision, create on demand, drop before a cutoff | `fixes`, ingest | `Retention` |
| Authentication, places and read API (`internal/auth`, `internal/server/read.go`, `geofence.go`, `internal/store/entities.go`, `read.go`) | families, devices, viewers, token hashes, Places | the two gates, six routes, the operator's commands | every client | `FamilyAccess`, `HistoryPaging` |
| Process life and configuration (`cmd/tracker/main.go`, `internal/config`, `internal/db/db.go`) | the configuration, the schema's version | `Load`, `RequireServable`, `Up`, `runServe`, `openForCommand`, `config-lint` | environment, database | `Startup` |
| Push registration on the phone (`A/alert/PushRegistrar.kt`) | the last registered address | register, replace | subscriptions API, FCM | `PushRegistration`, `AlertStatus` |
| Alerts on the phone (`A/alert/*`) | crossings pushed and read, delivery status | intake, merge, refresh, status policy, reset | read API, pushes, Save | `CrossingList`, `AlertStatus`, `ViewerSettings`, `CivilDays` |
| Vulnerability gate (`internal/vulngate`) | suppressions, the merged report | load, install, scan, decode, evaluate | govulncheck | `VulnGate` |
| Reboot verification (`internal/uiverify/bootrestart.go`) | a device under test, problems | four runs, each across a reboot | adb | `BootRestart` |

What is hard here, and the property it is for:

* The main thread enqueues, trims and evicts while a worker reads, posts and
  removes; a worker that WorkManager has stopped never notices and flushes on
  beside its successor. Requests and answers are lost or late; the process dies
  between rename and trim, or between a `201` and `remove`. A fix must stay on
  disk until it is stored or its loss is counted (`ImplementsTrail`,
  `NoSilentLoss`), and no answer may retire another entry (`AnswersMatch`).
* `KEEP` absorbs a flush request made while a worker is already past its last
  look at the queue; a refused entry must not block the head for ever
  (`EventuallyLeaves`).
* The evaluator's three statements are not a transaction: requests interleave
  between them and each may fail (`Alternates`, `AlertedOnce`, `SelfHeals`),
  and it sees only a bounded neighbourhood (`DwellProved`).
* The delivery ledger is changed by crossings, drops, registrations and
  evictions in any order; it may under-claim and must never over-claim
  (`NeverOverCounts`, `BeyondIsEarned`, `LedgerBounded`, `Accounted`).
* Shutdown runs against open requests and a filled queue, and the process ends
  around requests it gave up on (`AllRecorded`).
* Rows become visible in commit order and are compared with a cursor by their
  transaction's begin; connections drop between two events; queries fail in the
  middle of a poll (`NoGapsInOrder`, `WordsAreTrue`, `IdsMonotone`).
* At a month's turn several ingests find no partition and all create it, beside
  a job that lists partitions first and drops them one by one, stops at its
  first error, and meets children somebody else attached (`MonthTurnHeals`,
  `AnsweredIsKept`, `RetentionHonoured`).
* A phone's push address rotates, its account changes, a registration is
  carried out although the phone gave up on it, and the process dies between
  the server's answer and the note of it (`NeverNone`, `EventuallyReachable`).
* Save clears the alert surface under a read and a registration that are on
  their way with the settings of before, and the process dies with everything it
  was pushed (`StaleListIsReplaced`, `EmptyIsTheLog`, `LostPushIsFound`,
  `StatusSettles`).
* A request authenticates, looks up and reads in separate statements, between
  which tokens are rotated or expire and Places are removed (`OwnFamilyOnly`,
  `CredentialsApart`, `RevokedStaysOut`).
* Pages are connected by an offset only, while fixes arrive and months are
  dropped (`WalkHasNoGaps`).
* A cached access token is believed to live longer than it does, by the time
  its exchange took; senders compete for one mutex (`NeverExpiresMidFlight`,
  `NoNeedlessExchange`).
* A server and a command migrate one database at the same time; products of
  configured numbers wrap around at 64 bits (`RunsMigrated`,
  `PollMeetsTheBound`, `OnlyOlderIsPurged`).
* Android loses package state that a reboot forestalls, withholds the boot
  broadcast, kills and restarts the service; the route that checks on it drops
  the errors of the commands it reads with (`NeverUnasked`, `VerdictIsEvidence`,
  `GreenIsEvidence`).
* govulncheck's stream repeats advisories in any order and may break off, or be
  whole and followed by a failure (`GreenMeansCovered`); a push names an instant as a date and the route as
  seconds (`PushAndRouteAgree`).

`PROJECT.json` lists these hazards one by one, at the line where each bites.

## 2. Modules

```
FixTrail  <--refines--  FixDelivery  <--extends--  CollectionReadout
GeofenceEvaluator       Presentation  <--extends--  LiveStream
Retention, PushRegistration                                                        : MCUpkeep
PushDelivery; ViewerSettings <--extends-- CrossingList; ViewerSettings <-- AlertStatus : MCAlerts
FamilyAccess, HistoryPaging, TokenSource, Startup, BootRestart, VulnGate, CivilDays : MCParts

proofs                     about
FixDeliveryProofs          FixDelivery, and its refinement of FixTrail
CollectionReadoutProofs    CollectionReadout, on top of FixDeliveryProofs
GeofenceEvaluatorProofs    GeofenceEvaluator
LiveStreamProofs           Presentation, LiveStream
AlertProofs                PushDelivery, CrossingList
UpkeepProofs               Retention, PushRegistration
FamilyAccessProofs         FamilyAccess
PartsProofs                BootRestart, TokenSource, Startup, HistoryPaging, VulnGate, CivilDays
```

The `MC*` modules give TLC its symmetry sets, environments and strange
partitions; `MCUpkeep`, `MCAlerts` and `MCParts` put specifications that share
no state side by side: a variable says which of them a behaviour is about, and
the others rest in an initial state. They compose nothing, they only save
configurations. Operators whose comment begins "Mutant" are deliberate faults;
they are used nowhere in a specification and exist to show that each property
can fail.

### FixDelivery, FixTrail

One device, so a fix *is* its timestamp: `FixQueue` names the file by it and the
server dedups on it. `queue` is the set of committed files, `main` the main
thread inside `enqueue` (`temp`: the temporary file is written; `trim`: renamed
and not yet trimmed; `record`: outside the lock, about to record and ask for a
flush), `wk[w]` one activation of `doWork`/`flush`, `work`/`runner`
WorkManager's view of the unique work, `wire` the requests and responses under
way, `rows` the table. `@Synchronized` on the queue is the guard `~Locked`.
Actions follow the code: `EnqueueWrite`, `EnqueueCommit`, `EnqueueFailed`,
`trimToCapacity`, `RecordQueued` for the service; `doWork`, `TakeBatch`, `Post`,
`Receive`, `IOFailure`, `Deliver`, `Discard`, `StopFlush`, `EndFlush`, `Publish`
for the worker; `IngestFix`, `Refuse`, `StoreFailure` for the server (a `500`
may or may not have committed); `Crash`, `SaveConfig`, `OpenApp`. WorkManager
(`StartWork`, `StopWork`, `Finish`) is external and modelled from its use.

Statuses are kept as `ReportOutcome.fromStatus` tells them apart: 200, 201; 401
(403 behaves like it); 400 and 404 as permanent refusals; 500 (429 and every
other 5xx behave like it) and an `IOException` as transient.

`FixTrail` is the promise: a fix is `none`, `held`, `stored` or `lost`; what is
held becomes stored or is given up and counted, what is stored stays. A fix that
was given up may still be stored by a request already under way.

Left out: deletions inside `trimToCapacity` and `remove` are assumed to succeed;
`depth()` never returns null; retention does not run in this module.

### CollectionReadout

The figures of `CollectionStatus` on top of `FixDelivery`: every step is taken
together with its effect on the figures, and the reads of the depth that come
before an update (`ReadDepth`, `ReportEvicted`, `ReadSize`) are steps of their
own. The counters are the *sets* of fixes counted, so "counted twice" and "never
counted" can be told apart. The text of the last trouble is left out.

### PushDelivery

`pending` and `order` are the ledger's map and list; `queue` and `worker` the
dispatcher; `nt` and `rg` request goroutines inside `NotifyGeofenceEvents` and
`registerPushSubscription`; `phase` the process. Classification is one step per
(crossing, endpoint) pair because the ledger's lock is taken per call. The
`credit` history variable keeps which deliveries were classified as handed over
and not forgotten since; it is what the counts are compared with. Closing the
queue under a request is modelled: the send panics, `net/http` ends the request
and the delivery is in `panicked`. A request that is being handled goes on
while `srv.Shutdown` waits for it, and behind its back once it has given up
(`Serving`). `End` is
`runServe` returning behind a closed queue and a worker that has finished: every
request goroutine dies with it, wherever it is, and what it had not yet offered to
the queue is lost (`Lost`). Senders succeed or fail; backoff is skipped.
`NotHandedOver` and the `Record` after it are one step (nobody reads the log).

### GeofenceEvaluator

`fixes[t]` is the set of Places that cover the location at `t`, `events[p]` the
log. A request stores a new fix (`Ingest`), then for each Place reads the latest
event (`ReadPrior`), reads the neighbourhood and runs the dwell rule
(`ReadWindow`), and appends (`AppendEvent`); each statement can fail (`Fail`),
an insert also after it committed (`FailCommitted`). `confirmTransitions` is a
recursive function over the readings. `orderly`, `streak`, `missed` are history.

### Presentation, LiveStream

`Presentation` has the value of a device as a pure function of instants with
sub-second parts. `LiveStream` has one family, one page and one connection at a
time: `BeginFix` fixes `received_at` (`now()` is the transaction's begin),
`CommitFix` makes the row visible, `Purge` is retention; `PollRead`,
`WritePosition`, `Sweep`, `WritePresentation`, `PollDone` are `poll`, with
`PollFailed` and `SweepFailed` for its two queries. A disconnect may come
between any two events. Instants are whole seconds. The page's initial
`GET /v1/positions` is not modelled, and a reconnect keeps the page's state.

### Retention

The children of `fixes` by name (`exists`), the month each one's bounds in the
catalog cover (`covers`), the rows in each, the ingest requests, the pass of the
job, and the process. A statement is a step: `Arrive` (the ingest window),
`Upsert`, `CreatePartition` (which may lose the race, a duplicate-relation
error, or find an overlap), `VerifyBounds`, `Retry`; `PurgeList` reads cutoff and
listing, `DropPartition` and `KeepPartition` go through it in the order of names,
`PurgeFailed` ends a pass at the first error or at a child without a bound.
`Boot`, `EnsurePartitions` and `Stop` are the process. Strange children are
attached before the first start: a DEFAULT partition, and relations whose bounds
are not those of the month they are named for. PostgreSQL's routing and its
refusal of overlaps are external.

### PushRegistration

The phone: the address FCM gives it (`onNewToken`), the viewer whose token is
stored (`SaveAccount`), the remembered address, and the registrar's single
thread with its waiting tasks. Messages under way keep the address and the one
they replace, as read when they were sent. The server's handler registers and
then removes what was replaced, in two statements, each of which may fail; a
message the phone gave up on (`GiveUp`, `Die`) is still carried out some time.
`overlap` is a history variable.

### FamilyAccess

The operator's commands, the two credential tables and the routes, statement by
statement: a request presents a token (`Present`), is authenticated against one
of the two tables (`Authenticate`), for the history looks up the device
(`LookupDevice`), and reads or stores; between any two statements the operator
may rotate a token, enrol, add or remove a Place, and time may pass. A handler
takes one request after another, so a token may have been presented before it
was rotated and once more after. A token and its SHA-256 hash are one value.
`owner` (whom a token was minted for), `gone` and `late` are history.

### HistoryPaging

A caller walks `GET /v1/devices/{id}/history` by offset, with any window and
limit (0, negative and above the cap included), while fixes arrive in any order
and the oldest are dropped. `owed` is what a gapless walk must have shown.

### TokenSource

`Token` with its mutex held across the exchange, and senders that use what they
got. The endpoint mints at some moment of the exchange and the answer comes
later, so `cache.expiry` (what the code computes) is later than `cache.real`.
The clock does not pass a call's timeout: the HTTP clients have one.

### Startup

An environment is a record of settings, each unset, malformed or a value.
`Load`, `validate`, `RequireServable` and `LintTLS` are operators; `runServe` is
a sequence of steps that may fail at the database or the socket, and beside it
`openForCommand` loads and migrates, and `config-lint` runs. A migration and its
version row are one transaction (goose, external); two processes that migrate
take no common lock, so each works from the version it read. Integers have
`Top` as their width (2^63 in the code): `Wrap` is two's complement, and the
poll tick and the retention window are computed with it.

### BootRestart

Android, external: package state in memory and on disk, with a delayed write
that a reboot forestalls; the boot broadcast, given to nobody who is stopped or
disabled; kills and sticky restarts. The app: the receiver with `decide`, the
service's start (which writes a reason or none) and Stop, the screen's Start and
what it adopts on opening. `will` is the history of what a person did last.
The same phone may be in the hands of the verification route: `grantLocation`,
then per run `writeStoredState`, `leaveTheStoppedState`, `PrepareRun`,
`rebootAndWait`, `CheckSurvived`, `AssertRun`, `FinishRun`; each may refuse. What
the route knows of the device it reads off a dump, and `packageState` and
`locationServiceIsRunning` drop the error of the command: a dump that failed is
empty, which reads as not stopped, not disabled and not running. `misread` is the
history of the runs in which a dump failed after the boot. A poll that fails is
repeated, so a failed reading of the service list is every poll of its 150 s failing.

### VulnGate

The suppression file (any short one), the scanner's build, its stream message by
message (findings at several levels and with or without a fix, two configs,
unreadable ones), its exit with a status that may be bad after any stream, and then
the code: `CheckStatus`, `Decode` with `Merge`, and `Evaluate`.

### ViewerSettings, CrossingList, AlertStatus

`ViewerSettings` is Save: the URL and the token are written one after the other
(`SaveUrl`, `SaveViewerToken`), then the surface is cleared and two threads are
asked to work (`Saved`). The process may die at any time (`Died`), also in the
middle of Save; the settings survive, and nothing of the alert surface or of the
threads does. `CrossingList` has the server's log, which grows with crossings and
shrinks with removed Places (`RemovePlace`), pushes that arrive
in any order or never, pushes that do not parse, the reading thread and the merge
(`Rows`, `listState`); a read carries the settings it was made with. The Places of
an instance are as many as its crossings make them, and adding one is not a step.
`AlertStatus` has the registrar's thread as far as it determines the status:
credential, permission, address, the server's answer, one that is accepted and
cannot be read included, and `evaluate`.

### CivilDays

A calendar that counts days from 1970, and `PushPayload`'s arithmetic on each of
its dates.

## 3. Runs

Passing:

| run | what it shows | bounds |
|---|---|---|
| `fix_delivery` | `ImplementsTrail`, `AnswersMatch`, `WithinCapacity`, `TypeOK` | 2 fixes (one refused by the server, the other may age out), capacity 1, batches of 2, 2 workers (a stopped one and its successor, symmetric), 2 deaths of the process between any two steps, after the first of which one worker flushes at a time (`OneAfterDeath`); 2M states |
| `fix_delivery_live` | `EventuallyLeaves` | 2 fixes, one refused; capacity 2 and batches of 1, so that `MoreQueued` and a blocked head occur; one process death |
| `readout` | `NoSilentLoss`, `DeliveredIsStored` | 2 fixes, one refused, one that may age out; capacity 1 (evictions), one process death; 4M states |
| `push_delivery` | `NeverOverCounts`, `BeyondIsEarned`, `LedgerBounded`, `Accounted` | 2 notifiers, 1 registrar, 2 endpoints of which one has no sender, 2 keys, every limit at 1 (key bound, tracked endpoints, queue) so that each is reached; 2 attempts |
| `geofence` | `Alternates`, `SelfHeals` | 6 instants in any order, debounce 2, neighbourhood 5, one handler, failures |
| `geofence_concurrent` | `AlertedOnce`, `DwellProved` | 4 instants, 2 Places, 2 handlers, neighbourhood 2 (narrower than the history), failures |
| `live_stream` | `NoGapsInOrder`, `WordsAreTrue`, `IdsMonotone` | 2 devices, 2 timestamps, 2 fixes, clock 0..3, windows of 1 and 2 s, so that live, recent and stale all occur |
| `upkeep` | `AnsweredIsKept`, `MonthTurnHeals`, `RetentionHonoured`; `NeverNone`, `EventuallyReachable` | Retention: 2 racing ingests, 3 months of 2 ticks, clock 0..4, a window of 1, one failing statement, 2 starts, at most one of 3 strange children. PushRegistration: 2 accounts, 3 addresses (two rotations), one loss, one death, 2 waiting tasks |
| `parts` | `OwnFamilyOnly`, `CredentialsApart`, `RevokedStaysOut`; `WalkHasNoGaps`; `NeverExpiresMidFlight`, `NoNeedlessExchange`; `RunsMigrated`, `PollMeetsTheBound`; `NeverUnasked`, `VerdictIsEvidence`; `GreenMeansCovered`; `PushAndRouteAgree` | 2 families with one device, viewer and Place between them, 3 tokens (an enrolment each and a rotation), lifetimes of none and 1; 4 timestamps, a cap of 2, limits 0 to 3; 2 senders, grace 3 over calls of 1; 6-bit integers and every number as a window or as days, 2 migrations; 2 reboots of a person and the route's four; streams of 3 messages about 2 advisories at 2 levels, files of 2 records; every day to the end of 2101 (2000 and 2100: both kinds of century) |
| `alerts` | `AllRecorded`; `EmptyIsTheLog`, `StaleListIsReplaced`, `LostPushIsFound`; `StatusSettles` | queue: 1 endpoint, 2 calls of up to 2 crossings, queue of 1, a shutdown that may time out. Phone: any number of deaths; two servers, of which one pushes over FCM and records two crossings at two Places, either of which may be removed, and the other has a backend the app cannot receive from, one Save, one trouble, reads of 1 crossing, 1 waiting read, 2 waiting attempts, 2 changes of the permission |

Two fixes are enough for the queue because its decisions compare an entry with
the head, the newest or the capacity; two requests are enough for the races, which
are between two readers and one insert. In the code the debounce is 90 s and the
neighbourhood 128 fixes: at one fix per second `SelfHeals` needs the debounce, the
fix itself, its predecessor and one more per failed evaluation, which 128 covers
for up to 36 failures in a row. Three months are a past, a present and a future
one, and with them a month that is created on demand, dropped and created again;
three addresses are what it takes for a message about the first to arrive
after the third is registered. One handler that takes several requests is enough
for `FamilyAccess`: its properties compare a request with the tables, which the
operator changes, and never with another request.

`CHECK_DEADLOCK FALSE` is set for push and alerts (the process ends and calls are
bounded), geofence (every instant used once), upkeep and parts (clocks, starts,
streams and walks end).

Violations, each a statement of the repository that the code does not keep in
some behaviour (`findings` quotes the lines):

| run | property | in short |
|---|---|---|
| `stream_commit` | `NoGaps` | a row that commits after a later-begun (or equally stamped) one is behind the cursor and never sent |
| `retention_overflow` | `OnlyOlderIsPurged` | from 106752 days on the product of days and nanoseconds wraps: the job starts with a shorter or a negative window, and the first pass drops what it should keep |

Five more configurations show violations discussed in section 5; they are not in
the list of runs:

| configuration | module | property |
|---|---|---|
| `MCReadoutQueued.cfg` | `MCCollectionReadout` | `ZeroMeansEmpty` |
| `MCGeofenceRace.cfg` | `MCGeofenceEvaluator` | `Alternates`, with two handlers |
| `MCGeofencePush.cfg` | `MCGeofenceEvaluator` | `RecordedIsPushed` |
| `MCOldReads.cfg` | `MCAlerts` | `OldReadsAreGone` |
| `MCUnreadDump.cfg` | `MCParts` | `GreenIsEvidence` |

The type invariants that are not in a run (`TypeOK` of the server's modules and
the like) state the shape of the state for readers and for the proofs.

### Fairness

* `FixDelivery`: weak fairness of the running threads and of the end of a post
  (`FixReporter`'s connect and read timeouts); strong fairness of steps that need the queue's lock, which
  the main thread takes again and again; WorkManager starts eligible work again
  and again (`StartWork`) and the app or service is opened now and then
  (`OpenApp`; `MainActivity.onCreate` and `onStartCommand` ask for a flush); of
  infinitely many posts the server judges some on their merits and such an
  answer comes through. Without the last no program could make progress.
* `PushDelivery`: goroutines run as long as the process does, and a send returns
  (the senders' HTTP timeout). No shutdown is promised, but a begun one goes through
  (its deadline). The process may end as soon as the queue is closed and worked off,
  and nothing is promised of a request that is still open then: `AllRecorded`
  excepts what such a request had not offered to the queue, and nothing else.
* `Retention`: the job's ticker fires while the process serves and its statements
  return (weak fairness of `JobStep`). `RetentionHonoured` assumes in its own
  formula that the server keeps serving.
* `PushRegistration`: the registrar's thread takes its next task, and a message
  is handled or answered. `EventuallyReachable` assumes that the app is opened
  again and again and that address and account come to rest; losses and deaths
  are bounded.
* `CrossingList`, `AlertStatus`: a press of Save goes through and the two threads
  get on with their tasks (their calls have timeouts). Clearing the surface has
  strong fairness only because the bound on waiting tasks can disable it now and
  then, which no executor of the code does. `LostPushIsFound` and `StatusSettles`
  assume that the app is opened again and again, that the settings come to rest and
  that the process in the end lives long enough for a task; before that it may die
  any number of times.

## 4. Theorems

Every theorem is for all values of the constants that the module's `ASSUME`
admits: any sets of devices, fixes, workers, requests or endpoints, any bounds.
The assumptions are what the code has by its nature: timestamps are natural
numbers and there are finitely many of them, limits and capacities are positive,
the value that stands for "nobody" is no member of a set of people
(`AccessAssumption`, `RegistrationAssumption`), windows are ordered as `Load`
insists on. One theorem has a hypothesis of its own (`OneAtATimeAlternates`,
below). Every safety property of the passing runs is proved.

### The queue and the readout

`FixDeliveryProofs`: `TypeCorrect` (`TypeOK`), `AnswersAlwaysMatch`
(`AnswersMatch`), `CapacityHolds` (`WithinCapacity`) and `Durability`
(`ImplementsTrail`: the pipeline implements `FixTrail` step by step).

`AnswersMatch` is not inductive. The invariant `IInv` adds that a worker that has
an entry in hand has a non-empty batch (`EntryInHand`), that a worker has at most
one message on the wire (`OneExchange`: with it, what `Receive` takes is the
answer about the oldest entry of the batch), that
whatever a worker holds or has sent was once queued, so it is stored, queued or
counted (`OnceQueued`: without it `Store` could happen to a fix FixTrail has
never seen), and that the main thread has exactly one fix in its hands while it
writes (`OneMeasured`). The proof has one step per action; refinement uses `IInv`
to map each action to `Hold`, `Store`, `GiveUp` or a stutter. `CapacityHolds`
needs `Room`: between rename and trim there is one entry more, and each death
there leaves one for good.

`CollectionReadoutProofs`: `NoLossIsSilent` (`NoSilentLoss`) and
`DeliveredFigureIsTrue` (`DeliveredIsStored`). `RInv` is `IInv` (the acknowledgement a
report counts is about a stored fix) and that the main thread has counted what it
evicted before it records the depth (`CountedFirst`), and that a report is opened
empty (`ReportInHand`); the steps of `FixDelivery` are not proved again.

### The evaluator

`GeofenceEvaluatorProofs`: `GeofenceTypeCorrect`, `CrossingsAreAlertedOnce`
(`AlertedOnce`), `ConfirmedHasDwelt` (`DwellProved`), all for any number of
requests at once; and `OneAtATimeAlternates`: `Alternates`, under the hypothesis
`\A r, s \in Requests : r = s`. The hypothesis is needed, for with two requests the
property is violated (section 5). `FailuresSelfHeal`, `LogIsAPrefix` and
`RuleIsDeclarative` are at the end of this section.

The dwell rule is a recursive function over the readings. That it is defined at
all (`RunExists`) and what it keeps (`ConfirmIsARun`, `AccOK`: what is confirmed so
far takes turns from the seed and has dwelt) are proved by a
least counterexample, a set of naturals having a least element
(`NatLessThanWellFounded` with `WFMin`). `SortedLists` says that `Sorted` lists a
set in order, `WindowIs` that a neighbourhood is an unbroken stretch of the
history: that is why a run in it is a run of the whole. `TurnsInv` says that what
the only request has read of a Place's log is what is there, so that what it still
has to append follows on it (`Follows`), whatever failed before.

`FailuresSelfHeal` (`SelfHeals`) compares a log that was made step by step, each
evaluation starting from the latest row and seeing a bounded neighbourhood, with
what one pass over the whole history would confirm. It is proved for any number
of requests, Places and failures, in four steps.

1. *What the rule means.* `RuleIsDeclarative`: for every set of fixes and every
   seed, the loop of `confirmTransitions` confirms exactly the fixes where the state
   turns (`Turning`): those that begin an unbroken run of one debounce (`Holds`) at a
   time when the device has been seen outside or a row is there to start from
   (`Seen`), and whose state is not that of the last such fix before (`Was`). The
   loop and the definition are compared turn by turn (`AccMeans`, `MeansStep`), again
   by a least counterexample. From here on the proof speaks of sets of fixes.
2. *The rule can be taken up again.* `WindowTurning`: started at a turning point, from
   its state, on fixes that reach back either to it or before the next turning point
   (`WindowOver`), the rule confirms what the whole history confirms after that point.
   Even the requirement to have been seen outside is met within the window.
3. *The rule is stable.* `PrefixTurning`: a later fix takes back no turning point
   and adds only later ones. `TurningIsFinal`: a turning point is one as soon as its
   dwell is behind it.
4. *The neighbourhood reaches back.* `WindowReaches`: with at most `n` fixes since the
   last evaluation that went through, a turning point not yet recorded that the window
   would begin at or after has fewer than `n + Debounce + 1` fixes from it on
   (`LongEnough`: otherwise its dwell was over by then, and it was recorded), and so
   fewer than `Neighbours`.

The inductive invariant is `Healing`, claimed while the fixes have come in order and the
streaks of failures were short (`HealInv`): each log holds the rows of the history up to
one of them (`LogOK`); up to some fix every row is there, and no more fixes have come
since than evaluations failed, and the one under way (`CaughtUp`, `Backlog`); the
evaluation under way, of which there is one, is of the newest fix, has finished the
Places before its own, and has in hand exactly what its Place's log lacks (`UnderWay`,
`Pending`). TLC found `HealInv` to hold on the instance of `geofence` and, with two
requests and two Places, on a smaller one. `LogIsAPrefix` is the invariant's other
consequence: under the same conditions the log is at every moment, in the middle of
an evaluation and after a failure, a beginning of the projection.

### The stream

`LiveStreamProofs`, about `Presentation`: `AgeIsElapsedSeconds` (the borrow is right
and skew gives zero), `AgeingIsMonotone`, and `NoWordIsSkipped`: a surface that
re-evaluates within `SweepBound` never sees a device go from live to stale without
having been recent. About `LiveStream`: `IdsNeverGoBack` (`IdsMonotone`),
`NoGapWhileInOrder` (`NoGapsInOrder`) and `TheWordsAreTrue` (`WordsAreTrue`).

The first needs `Sound`: the cursor of a connection is the page's last id, and what
a poll has still to write is no older than it (the batch is written oldest first).
The second needs `Gapless`, which follows a position through a poll: what had arrived
by the page's id is on the page (`Caught`); while a poll writes, a device's position
is still the one it read, or gone, or newer than everything it can write
(`Following`); what is not to be written is on the page already (`Placed`,
`Unplaced`); and a device the last poll did not know has nothing the cursor would
hide (`Newcomers`). The third needs `Truthful`, the same for words: at each point of
a poll, whose word is right already, whose is still owed, and why a device may have
none.

### The alerts

`AlertProofs`, about `PushDelivery`: `PushTypeCorrect`, `TheLedgerIsBounded`
(`LedgerBounded`), `CountsAreCovered` (`NeverOverCounts`), `BeyondIsEverEarned`
(`BeyondIsEarned`) and `EveryDeliveryIsAccounted` (`Accounted`). Every step is first
shown to be one of eight moves of a delivery (`Move`: it is made, offered to the
queue, refused, lost to a panic, taken by the worker or finished; an endpoint is
forgotten; or nothing of this happens), and the invariants are shown for the moves.
`LedgerOK` has map and list name the same endpoints, each once; `Fresh` that a new
delivery's number is new, so that a classification adds one to a count *and* one
delivery behind it (`CreditOK`); `Apart` that nobody holds a delivery twice and no
two the same, so that a move takes it from one place to another and the sum in
`Accounted` stays (`Counted`).

About `CrossingList`: `EmptyIsEverTheLog` (`EmptyIsTheLog`) and
`OtherListsAreReplaced` (`StaleListIsReplaced`). `ListIInv` says of every answer, on
its way or recorded, that it came from the token's own server if it is a list, and
that an empty list is the answer of a family with no crossing at that moment
(`AnswerOK`, which needs `NewestOfSome`: the newest of some are some). Nothing is
asked of the log, which crossings and removed Places change at will. `FreshIInv` says
that a read made with other settings is under way only while Save is not yet at its
end or another read waits behind it: the thread is one, so what Save has asked for
comes after what it found under way, and a death takes both.

### Retention and registration

`UpkeepProofs`, about `Retention`: `RetentionTypeCorrect`,
`RetentionNeverDropsTheYoung` (`AnsweredIsKept`) and `RacesForAMonthHeal`
(`MonthTurnHeals`), for every set of strange children.

`AnsweredIsKept` needs that a row lies in a child whose catalog bounds contain it
(`Placed`; the DEFAULT partition is never dropped), so that a child that ends before a cutoff holds only older rows, and
that a pass works with a cutoff that lies at least the window in the past
(`CutoffIsPast`): the pass may be old, the clock only goes on. `MonthTurnHeals`
needs what a request has established by the time it retries (`Mitigating`): its
month exists, or was dropped because it is past the window, or its name belongs
to a stranger (`OddAreStrange`). `QuietStep`, `CreateStep`, `RequestStep`,
`InsertStep` and `DropStep` say once what a kind of step does to the invariant,
and each action is shown to be of a kind.

About `PushRegistration`: `ARowAlwaysRemains` (`NeverNone`). `AloneIsStored` says that
as long as no two registrations have been under way there is one message at most, and
that one about to remove what it replaces has stored another address, whose row is
still there.

### Access

`FamilyAccessProofs`: `FamiliesStayApart` (`OwnFamilyOnly`), `KindsStayApart`
(`CredentialsApart`) and `RevocationHolds` (`RevokedStaysOut`). `AccessIInv` says of
the tables that a token in a row was minted for that principal, who is enrolled
(`Minted`), and that crossings and fixes are at home (`CrossingsAtHome`,
`FixesOwned`); and of a request what stays true of it whatever has become of its
token since: whom it was admitted as is whom the token was minted for, in the table
of its route (`Credential`), and a token presented too late is one that no lookup can
match any more (`LateIsDead`). `TablesKept` says once what no step takes back, and
each action is shown to keep it.

### The parts that stand alone

`PartsProofs`:

* `TokensOutlastTheirUse` (`NeverExpiresMidFlight`) and `ExchangesAreShared`
  (`NoNeedlessExchange`), for lifetimes and timeouts with
  `MaxExchange + MaxSend < Grace` (the code: 10 s and 10 s under 60 s). `TokenIInv`
  adds that whoever exchanges holds the lock (`Exclusive`), that the cache
  overestimates by no more than an exchange takes (`Believed`, `Minted`), and that a
  sender's token outlasts the time its call has left (`Outlasts`).
* `NothingRunsHalfMigrated` (`RunsMigrated`), `PlaintextIsChosen`
  (`NoAccidentalPlaintext`: a server that listens in the clear was told to, was given
  no half of a TLS pair, and did not pass the lint) and `PollsWithinTheBound`
  (`PollMeetsTheBound`), for every environment and width of integers. `StartupIInv`
  says that what a process has read of the schema is not ahead of it
  (`ReadsBehind`), that whoever is past `Up` finds the latest (`PastUp`: versions
  never go down), and that whoever is past `Load` has passed its checks (`Checked`,
  `Configured`). The last theorem rests on `TickWithinBand`: a bound of one second
  does not wrap, and from two seconds on even the whole interval of one second is
  short enough, so that a product that wraps can only make the tick shorter, and the
  code ignores one that is not positive.
* `NobodyIsTrackedUnasked` (`NeverUnasked`) and `TheVerdictIsEvidence`
  (`VerdictIsEvidence`). In a person's hands the persisted ask is the person's will
  (`AskedIsWilled`); on the route, `Conditions` has what holds before each reboot,
  `Booted` what a broadcast that came or did not come has made of it, `Past` what the
  runs before have left behind, `Earned` what green is evidence of and `Rightly` that
  a red about the app is one. Of the second and the fourth run green is evidence only
  if their dumps succeeded; `MCUnreadDump.cfg` shows that the condition is needed.
* `NoFixIsSkipped` (`WalkHasNoGaps`). What is owed lies in the window, and what of it
  ranks before the offset was sent (`PagingIInv`); a page's rows are counted by rank,
  an arrival moves ranks up only, and a drop takes the oldest, whose ranks are last.
* `GreenIsCovered` (`GreenMeansCovered`). What is merged is what has been read, in
  whichever order (`MergedIsRead`), what has been read so far was readable and of
  a deep scan (`ReadableSoFar`, `ConfiguredSoFar`), and nothing is read of a scanner
  that ended with a bad status.
* `TheDatesAgree` (`PushAndRouteAgree`), for every year. The count of a month's first
  day goes on by the length of the month: by `MonthsAre` within a year that begins in
  March, and by `YearAdds` from one such year to the next, with the leap day at its
  end and over the end of an era.

### Only model-checked

The liveness properties (`EventuallyLeaves`, `EventuallyReachable`,
`RetentionHonoured`, `AllRecorded`, `LostPushIsFound`, `StatusSettles`), which are
outside the prover's reach.

## 5. Further divergences between text and code

Met while modelling; no run of their own, five of them with a configuration.

* `A/collect/CollectionStatus.kt:72`: "showing `0` while fixes are sitting on disk
  waiting to be sent would misrepresent the one thing C2 exists to guarantee"; the
  size read by `publish` (`A/queue/FixUploadWorker.kt:100-105`) overwrites a later depth,
  and 0 queued can stay on screen with a fix on disk (`MCReadoutQueued.cfg`).
* `internal/store/geofence.go:17-19` says an out-of-order fix "converges the log
  to the same result rather than duplicating or contradicting it"; two concurrent
  evaluations read the same prior state (from 317 on) and append transitions of
  one kind in a row (`MCGeofenceRace.cfg`), and the order of arrival can change
  the log even when no fix is behind the last transition.
* `internal/server/server.go:411-412`: "a partial evaluation still pushes what it did
  record"; `evaluateOneGeofence` returns nothing but the error when an insert
  fails, so the events it had already inserted for that Place are never pushed
  (`internal/store/geofence.go:305-307`, `MCGeofencePush.cfg`).
* `A/alert/AlertSurface.kt:91`, "Clears this run's alert state. Used when the
  configuration changes under the app.": a read on its way is recorded after the
  clearing (`A/alert/CrossingsRefresher.kt:40-41`) and shows the old family's
  crossings; if the new settings are unusable nothing replaces them
  (`MCOldReads.cfg`).
* `A/alert/AlertNotifications.kt:30-32` says the notification shows "the latest
  state"; FCM delivers in any order, and `notify` (71) replaces a later crossing's
  notification by an earlier one's.
* Save writes the URL and the tokens in separate steps (`A/ui/MainActivity.kt:771-773`):
  a thread that reads between them sends the old token to the new server.
* `internal/server/push.go:95-119`: two registrations of one phone that overlap on the
  server (one of them given up on by the phone) can each remove what the other
  registered and leave no row, until the app is opened again (`NeverNone` is
  stated for `~overlap`; `EventuallyReachable` has no such condition).
* `internal/server/stream.go:66-70` says the tick is "the unchanged one-second cadence"
  under every wide pair; for enormous windows the product wraps and it can be
  shorter. It is never too long and never zero (`PollsWithinTheBound`).
* An open stream is authenticated once and outlives the rotation or the expiry of
  its token (`internal/server/stream.go`, `requireViewer` in front of `getStream`).
* `internal/uiverify/bootrestart.go:863-866` says every run checks after the boot that
  the state it prepared survived; the fourth checks that the app is reachable and
  not that the receiver is still disabled, so a lost write of that state is
  reported as an assertion that cannot go red. A refusal in this run also leaves
  the receiver disabled and adbd as root.
* `internal/uiverify/bootrestart.go:398-400`: "The post-boot precondition on each run
  is the assertion that this worked, so a platform that changes the delay refuses
  rather than quietly grading a fresh install."; `packageState` (510) drops the error
  of its command, and an empty dump reads as a package that is not stopped. In the
  second run a launch the reboot lost then passes the precondition, and the assertion
  too, as a service that is not running is what it asks for: the route ends green
  without the boot path having been taken a second time (`MCUnreadDump.cfg`).
* `A/ui/MainActivity.kt:411-413`: "Stopping leaves it: a person who stops is not owed a
  stale complaint either, and the adopt-only-while-stopped rule above is what
  retires it"; the reason stays stored after Stop, and the next opening adopts it.
* `A/collect/CollectionStatus.kt:131` calls dropped fixes those that "were
  measured and will never reach the server"; `FixQueue.kt:217` may evict an entry
  whose POST is in flight and is then stored. (`FixTrail` has this step: `lost`
  to `stored`.)
* `A/queue/QueueFlusher.kt:136`, "the last thing that went wrong, if anything":
  the early returns at 77-82 and 95-104 lose the reason of an earlier discard.
* `internal/push/ledger.go:109-110` says `NotHandedOver` can take a count back
  "without racing a concurrent crossing that re-added the same key"; after a
  `forget` the drop of an older delivery lowers the re-added key's count. It errs
  on the safe side: `NeverOverCounts` still holds.
* `internal/push/push.go:206-207` says `Close` "runs after the HTTP server has
  already drained"; when `srv.Shutdown` ends at its deadline (`cmd/tracker/main.go:220-225`)
  it does not, and a late request sends on a closed channel (`EnqueuePanic`).
* `internal/store/geofence.go:271-272`: "a failure to append one Place's transition
  does not abandon the others"; the loop returns at the first error (305-307).
* `internal/server/stream.go:280`: "a mid-batch disconnect resumes exactly here";
  the second of two events with the same `received_at` is then skipped.
* `internal/server/stream.go:350-351` says silence on a resumed stream means nothing
  changed; `resumeSweep` compares with the cursor instant, not with the last word
  told.
* `internal/server/stream.go:456`: "The watcher is told ONCE"; a failing resume query
  after a successful family read reports again on every poll.

## 6. Not modelled, and the plan

Not modelled: notification and foreground-service plumbing, the notification
shade, layout and texts (`MiniJson`, `AlertText`), request formats of the push
providers, what the migrations contain, the other gates of the build (they walk a
tree of text or drive a browser and keep no state), test support. Preferences
written with `apply()` are assumed to reach the disk. In the instance of `upkeep`
`MonthTurnHeals` excepts every month whose name a strange child may have, of the three
months two, so that TLC really tests one; the theorem is for every set of strange
children, and with none of them it excepts no month. `AlertStatus` covers a
server that names no backend and one that does not say (`""` and `"absent"`) in
`Deployment`; the instance checked has the two other kinds.

Planned, in this order:

1. A composition ingest, evaluation, notification: a recorded crossing is
   classified for every endpoint of the family exactly once or its loss is known.
2. `PushRegistration` composed with the notifier, so that a lost registration is
   seen as a lost alert.
