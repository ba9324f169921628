# SwallowMonitor: formal models

This directory holds TLA+ models of the Monitor (the Go server in this
repository) and of the parts of its browser frontend that keep state, the TLC
runs that check them on small instances, and TLAPS proofs of their main theorems
for every value of the constants. Every definition is
translated from the source; `PROJECT.json` ("map") gives the lines. File names
below are relative to the repository's root.

    tlc -workers 2 -config Presence.cfg MCPresence.tla     # one run
    tlapm PresenceProofs.tla                               # one set of proofs

## 1. Inventory of the system

| Component | Source | State | Operations | Interacts with |
|---|---|---|---|---|
| Agent sessions, presence | `server/ingest.go`, `hub.go`, `device_auth.go`, `notification.go` | `Hub.agents`, offline timers (memory) | handshake, register, evict, dispatch, remove, revoke, timers | hosts table, event stream, notifications |
| Remote maintenance | `store/maintenance.go`, `server/maintenance.go`, `ingest.go:164-204` | tables `maintenance_tasks`, `maintenance_events`; `maintenanceSupported` | create, expire, offer, apply event, acknowledge | sessions, release cache, the agent's ledger |
| Usage history | `store/downsample.go`, `store/usage.go`, `main.go:162-194` | tables `usages`, `usages_5m`, `usages_1h`, two settings | insert, aggregate, prune, query | sessions, deletion of hosts |
| Enrollment | `server/enrollment.go`, `store/host.go` | tables `hosts`, `host_enrollments` | create, renew, consume, delete | administrator, agent, handshake |
| Rate limiters | `server/ratelimit.go` | times of requests per address or host | allow, clean up | all public endpoints |
| Administrator sessions | `server/auth.go` | sessions, OAuth states, login attempts | login, callback, logout | management API |
| Agent release cache | `server/agent_releases.go` | list, time of check, time of the next one | get, fetch | GitHub, maintenance, the two pages |
| Tags | `store/tag.go`, `store/host.go:250-265` | tables `tags`, `host_tags` | create, rename, delete, replace | hosts, notification rules |
| Event stream | `server/live.go`, `hub.go:61-156` | subscribers, buffers, slots | subscribe, publish, drop, release | presence, usage, browser |
| Live view | `frontend/src/live`, `pages/overview` | EventSource, generation, list of hosts | load, apply event, reconnect, refresh | event stream, API |
| Host page | `pages/host` | record, samples, window, load under way | go to host or range, load, append, mark stretches | event stream, API |
| Maintenance pages | `pages/maintenance/Maintenance.tsx` | host's tasks, dialog, request under way, log, list | poll, create, read a log, page | maintenance API, releases |
| Hosts page | `pages/admin/AdminPage.tsx` (HostsPanel), `utils/releases.ts` | list, credential, releases, choice | load, create, renew, delete, ask for releases | management API |
| Other administrator pages | the rest of `AdminPage.tsx` | lists of tags, rules, settings | load, save | management API |
| Notification rules, site settings | `store/notification.go`, `store/settings.go` | single rows | CRUD | presence |
| Configuration, migrations, CLI | `main.go`, `store/store.go` | none after start | validate, migrate | all |

How they interact: one goroutine per HTTP request or WebSocket shares `Hub`
(lock `lifecycle` outside, `hub.mu` inside), the map of offline timers (its own
mutex), and SQLite through a pool of **one** connection, so that a statement or
transaction is atomic and nothing else is. Timers and notifications run on
goroutines of their own. The agent is another program; only its side of the
protocol, as `MAINTENANCE.md` and `AUTHENTICATION.md` state it, is modelled, and
marked external.

The browser runs one callback at a time, but its requests overlap: they are
answered in any order, and a response may be lost. Its only ways to tell an old
answer from a new one are an aborted request (host page), a counter of requests
(hosts page), a counter of revisions (maintenance pages), or none (overview).

What is hard: a timer that fires while its host reconnects; a deletion in the
middle of a handshake; a session that is replaced while it is being served;
delivery of a task, expiry and loss of the connection at the same moment;
repeated and partly known batches of events; a server that ends between two
statements; a bucket that is written before all its rows are there; overlapping
enrollments with lost answers; lists and events that cross each other in the
browser; a poll that was sent before a create request and answered after it.
`PROJECT.json` ("hazards") lists each at its line
with the properties that cover it, or why none does yet.

What makes each component correct:

* sessions: one registered connection per host, with a handler that will remove
  it; deleted hosts are out at once; events and notifications tell the truth and
  none is lost;
* maintenance: one unfinished task for a host; an expired task was never sent;
  events are stored once and in order and are not lost after acknowledgement;
  the result arrives;
* history: aggregation skips nothing that reached the table in time, pruning removes
  only what was aggregated, deletion leaves nothing;
* enrollment: a token and a key are used once, a bound key is final, what an
  agent was told is true;
* limiters: at most the maximum in any window, bounded memory, and a client that
  waits gets in;
* sessions of administrators: a state is consumed once, an expired session is
  dead, logout is final;
* tags: a host shows the tags it was given, and no other, whatever overlaps;
* releases: what is offered is what would be accepted, an upgrade passes by a list
  that is not too old, and the page's "up to date" is news;
* live view: what is shown is right unless a change passed it by, and is corrected;
* host page: one host's samples at a time, and no stretch marked as offline where
  there are samples;
* maintenance pages: no second task is asked for in ignorance of the first; logs and
  lists have no gaps;
* hosts page: the credential on the screen is the one that enrolls; the list never
  goes back.

## 2. Modules

| Module | What it is | Runs | Proofs |
|---|---|---|---|
| `Presence` | `handleReport` as steps of a program counter per connection, the hub, deletion, timers, restart | `Presence` | `PresenceProofs` |
| `Maintenance` | database, sync handler, create requests, frames, the agent's ledger | `MaintenanceSafety`, `MaintenanceEvents` | `MaintenanceProofs` |
| `MaintenancePromise` | abstract: submit, expire, accept, work, learn | property `KeepsPromise`; the Monitor in `MaintenancePanel` | theorem `Refinement` of `MaintenanceProofs` |
| `Downsample` | three tiers of one host, aggregation points, the loop | `DownsampleSafety`, `DownsampleHistory` | `StoreProofs` |
| `Enrollment` | the two tables, enrollment requests and their answers | `EnrollmentSafety` | `EnrollmentProofs` |
| `HostIdentity` | abstract: register, renew, bind, delete | property `KeepsIdentity`; the Monitor in `HostsPanel` | theorem `Refinement` of `EnrollmentProofs` |
| `Tags` | tables `tags` and `host_tags`, requests in several statements, the migration | `TagsSafety` | `StoreProofs` |
| `TagPromise` | abstract: what readers see of tags | property `KeepsPromise` of `Tags` | theorem `TagsKeepPromise` |
| `Releases` | the release cache, GitHub, the pages that offer releases, the check of an upgrade | `Releases` | `ReleasesProofs` |
| `LiveView` | the event stream and the overview page | `LiveView` | `LiveViewProofs` |
| `HostPage` | the page of one host and its charts' offline stretches | `HostPage` | `HostPageProofs` |
| `MaintenancePanel` | controls, list and logs of maintenance tasks | `MaintenancePanel` | `MaintenancePanelProofs` |
| `HostsPanel` | the administrator's list of hosts and the credential shown once | `HostsPanel` | `ReleasesProofs` |

Each `MC...` module extends the module of its name with the sets and symmetries
of its runs. The operators marked "Mutant" next to a definition are its forms with
a plausible bug; they are not part of the specification, and each shows that a
property notices the bug.

Two abstract specifications join the halves of the system: `Enrollment`
implements `HostIdentity`, and `Maintenance` implements `MaintenancePromise`; the
pages are composed with these instead of with the tables behind them
(`Monitor == INSTANCE ...`), so that what the pages rely on is exactly what the
server was shown to do.

### Presence

`pc[c]` is where the handler of connection `c` is: looked up (before the
challenge), proved, added (registered, lock held), ack, loop, dispatch (read lock
held), exiting, removed (lock held). `LookUp` to `ReadFails` are the statements of
`handleReport` in their order; `Remove` and `Schedule` are the deferred function.
A section under `hub.mu` or `offlineNotificationMu` is one step. `lifecycle` is
what `WriteLocked` and `ReadLocked` derive from `pc`; `apiDeleteHost` is `Revoke`
(under the lock) and `RevokeCancel` (after it). A timer is armed, then fired (its
goroutine runs and waits for the mutex), then its `Callback` runs; `Timer.Stop`
has no effect on a fired timer. `published` and `announced` record the last status
event and the last notification decided, which the environment sees.

Abstracted: what a message contains, HTTP requests of notifications, the rules
that select them, and the limiters, which only add reasons for a handler to end.

### Maintenance

The variables are the columns that matter of the two tables, the memory of hub
and handlers, one frame in each direction of a session, and the agents' ledgers.
`SyncRead` .. `SyncReply` are the statements of the `maintenance_sync` case,
with each statement of the store a step; `CreateCheck`, `CreateExpire`,
`CreateInsert` are the critical section of `apiCreateMaintenance`. Every database
error is a step of its own (`SyncSkip`, `SyncNoOffer`, `SyncOfferUnread`,
`CreateRefused`). A frame names a range of events and their content is read from
the ledger, since the agent never rewrites one. `Connect`, `Disconnect`, `Delete`
are the effects of module Presence on this state. `overdue` stands for
`created_at < now-60`.

The agent (external) writes a task and its events to a durable ledger before
sending, starts the executor once, repeats what is not acknowledged, and after a
crash reports "unknown" until someone reconciles. It does not check that the host
has one task only: that is the Monitor's promise.

### Downsample

A row is its timestamp; a bucket is the set of rows (or buckets) it was computed
from, which is all that averages and maxima depend on. `pc` walks through
`maintenanceLoop`. Every statement is a step, pruning in batches included, and the
process may end between two (`RestartLoop`; the aggregation points are durable).
`DeleteUsages` is what `DeleteHost` does to the three tables. A report is judged by the
clock (`Receive`, `InSkew`) and then waits for the only database connection (`waiting`),
while aggregation may go on; `Insert` is the statement. `received`, `missed` (rows whose
time an aggregation point passed while they waited) and `cut5` are history variables.

### Enrollment

Each transaction is a step. `handleEnroll` takes the time before its transaction
(`Receive` records whether the token was already late), the answer travels
separately (`Answer`, `GiveUp`), and so does that of the administrator's request
(`Show`). A token and its digest are one value.

### Tags

A tag is its id, a name a model value (trimming and the 40 letters are the API's).
`CreateRead`/`Create` are `createHost`; `UpdateRead`, `UpdateRow`, `Look` and
`Replace` the four statements of `UpdateHost`; one-statement operations are one
step. `Import`, `Link` and `Open` are `migrateHostTags`, which a restart may cut
off anywhere. That an ignored insert leaves `last_insert_rowid` alone, and uses up
an AUTOINCREMENT id, is SQLite's behaviour. `TagPromise` sees only the join that
the readers make: rows of `host_tags` whose tag or host is gone, which an update
leaves behind when it overlaps a deletion (against the comment at `tag.go:77`,
"deletes a tag and all host associations"), are outside it, and the run shows that
they never come into view.

### Releases

The cache is `c.response` with the age of its list, `wait` what is left until
`c.nextCheck`, and `fetch` the request that holds `c.mu`: `FetchStarts`,
`FetchReads` (what GitHub lists at that moment) and `FetchEnds` or `FetchFails`.
`ServePage`, `PanelLoads` and the upgrade request are answered when the lock is
free. `page` is HostsPanel with its timer and the administrator's choice, `panel`
is HostControls, which asks once. `Compare` is `compareVersions` of the browser,
`Greater` is `agentVersionGreater` of the Monitor, and `Supports`, `ValidUpgrade`
are the conditions each side puts on a release. `gone` and `news` are history.
An upgrade request takes the steps of `apiCreateMaintenance`: `PostListed` (the list,
before the locks), `PostReads` (`GetHost` under the locks), `PostPasses` (the clock and
the checks), `CreateTask` (the insert), with time passing between any two, and
`HostReports` (`system_info`) changing the host's version meanwhile, since a handler
takes the same lock for reading only. `Long` are the tags of more than 64 letters,
which the Monitor refuses and the browser does not know of.

### LiveView

The Monitor's side is a change of a host with the event it publishes; a full
buffer drops it, and a break of the connection empties it. `generation` of the
provider is modelled by its effect: an opening after the first one has the overview
load its list. Several loads may be in flight and any answer is taken. `clean`
and `gap` are history: a change passed the page by, or an event was dropped after
those in the buffer. Deletion of a host publishes nothing, as in the code.
`Serve` is `apiListHosts` with `isOnline`: a host is online in the list when it is
connected or was seen less than `OfflineTimeout` ago. `recent` holds the hosts that are
not connected and were (`Goes` may leave a host in it, `Fades` is the end of the time);
`seen` is history: the hosts that the shown list has online for that reason alone.
Left out: the list is cut at 500 hosts (`maxPublicHosts`); and the list asks the hub for
one host after the other, where the model asks for all at once.

### HostPage

`load` is the one load that was not aborted, with the window that it was sent
for. `Go` changes host or range, aborts and starts again; `Tick` is a minute with
the reports of connected hosts and their events. `Serve` is `apiGetHost` with
`isOnline`, and the usage of the window. `Pairs`, `LowerQuartile`,
`EstimateSampleInterval`, `Threshold` and `OfflineStretches` are `chartData.ts`
without its figures: the sorted array is a set, and the element at index
`floor(n/4)` is the number with at most that many below it.

### MaintenancePanel

`poll`, `mine`, `uncertain`, `state` and `confirm` are the state of HostControls;
`selected`, `shown`, `after`, `read` that of TaskDetail; `list` that of
MaintenanceList. The counter `revision` appears as the flag `fresh` of a poll. A
create request may be served after its answer was given up (`posts`), and another
administrator creates tasks too (`OtherCreates`), on other hosts as well
(`CreatedElsewhere`; the list of all tasks shows them, the host's page does not). `Work` is any step of
`MaintenancePromise` in which hosts work and the Monitor learns of it.

### HostsPanel

`hostRequest` appears as the difference between `newest` and `older`: only the
newest load counts. `job` is a create or renew request with the load that follows
it (`busy`), `removal` a deletion, `stray` are renewals whose page was left.
`Forgets` is the effect that takes a credential off the screen when the list shows its
host with a key; a host that is no longer in the list leaves it there
(`AdminPage.tsx:66`), and so does the model.

Scope of `ShownTokenIsCurrent` and its theorem: nothing but this page renews
credentials. The API does not enforce that. When another tab or administrator renews
the same host, the credential on this screen is dead and nothing tells the page.

## 3. Runs, bounds and what they show

| Run | Instance | States | Shows |
|---|---|---|---|
| `Presence` | 1 host, 2 connections, 3 timers | 8 k | sessions, events and notifications are true; dead sessions end; a host that stays away is announced |
| `MaintenanceSafety` | 1 host, 2 tasks, 2 requests, 4 events, batches of 1 | 1.4 M | exclusiveness, expiry, refinement of `MaintenancePromise` |
| `MaintenanceEvents` | 1 task, 4 events, batches of 2 | 52 k | events arrive once, in order, and stay; results and acceptances arrive |
| `DownsampleSafety` | buckets of 2, hours of 4, time 4..11, rows kept 5, 6 and 8, 2 rows, failures | 3.0 M | nothing is skipped but what aggregation overtook |
| `DownsampleHistory` | same buckets, time 4..14, no failures | | **fails**: see below |
| `EnrollmentSafety` | 2 hosts, 2 keys, 3 tokens, 2 requests | 37 k | uniqueness, truth, refinement of `HostIdentity` |
| `TagsSafety` | 2 hosts, 2 names, 2 ids, 2 requests, one old tag | 1 M | exact updates, refinement of `TagPromise` |
| `Releases` | 3 tags (one long), 2 listings, 2 reports of the host, TTL 2, cool-down 1, page timer 2, fetch 1 tick | 301 k | claims, offers, choices, upgrades; the page catches up |
| `LiveView` | 2 hosts (one created later), buffer of 2, 2 loads, 3 changes | 272 k | the overview is right or will be corrected |
| `HostPage` | 2 hosts, spans 4 and 8, time 8..10, buckets of 2, seen lately = 2 | 321 k | one host at a time; stretches hold no sample |
| `MaintenancePanel` | 2 tasks (one of them possibly another administrator's), 2 of other hosts, logs of 2, pages of 1 | 499 k | controls, logs and pages; they come back after failures |
| `HostsPanel` | 1 host, 1 key, 3 tokens | 77 k | the credential, the list, and that a used credential goes |

Why the bounds are enough. Connections, timers, loads and requests return to a pool
and are used again, so behaviours are unbounded in length; the bound is on how many
exist at once. Two connections give a current one and an evicted one that has not
noticed; three timers a pending one, a fired one that has not locked yet, and a new
one. (Two hosts with three connections, 0.4 M states, have been run for the safety
properties as well; hosts share only the locks, and the proofs are for any number.)
Two tasks with two requests give every overlap of creations, and a task that
follows another. Four events are the shortest log with acceptance, running, an
unknown outcome and a result. Batches of two can be partly known. Ratios of the
times in Downsample are smaller than the code's (an hour is two buckets, not
twelve; rows are kept a little longer than two buckets), which keeps the order of all of them: the accepted
skew equals the aggregation window, as in the code. Two rows in one bucket or in two
are what any of these properties speaks about. Two ids of tags are enough for a row
to be left behind by the first when the second is given; two requests for updates
that overlap each other and a deletion. In the browser two loads are the fewest that
can come in the wrong order, and a buffer of two can hold a status that a usage
event follows. Three changes are a host that comes and goes with another one created
between. The run starts with one host that was not seen lately (`MCInit`); `Goes` makes
it one that was. Pages of one and logs of two make every
cursor matter; with two tasks of other hosts there are four rows, so that tasks are created
before, between and after the pages of a walk. The host's page is not opened while there
are rows of other hosts (`MCSpec`): that page does not see them. One host with three tokens can be created and
renewed twice, the second renewal overtaking the first (two hosts with two tokens,
1.6 M states, behave alike). Two ticks are the shortest TTL in which a list can be
read, grow older and expire, with the page's timer of the same length, as in the
code (ten minutes each). Symmetry is used for safety only. `EnrollmentSafety` sets
`CHECK_DEADLOCK FALSE`, since ids and tokens are never reused and an instance runs
out of them; the system does not.

Named bounds: `MaxId`, `MaxElsewhere`, `AgentLog` (events of one task; `LogFits` says that it is within
what the Monitor accepts, as the agent guarantees), `MaxTime`, `MaxRows`, `MaxLog`,
`MaxLoads`, `MaxChanges`, `Start` and `End`, `Opened`, `FetchTime`, `Outcomes`. In
Releases the administrator does not leave a page while an upgrade is being asked for,
and GitHub's listings have no two releases with the same numbers (build metadata).

Fairness. In Presence a handler's own steps are weakly fair (a goroutine that can
run does, and each network step has a deadline); steps that take `lifecycle` are
strongly fair, because a Go `RWMutex` lets no stream of readers or writers starve
a waiting one; a read ends for certain only when the socket is closed; nothing
makes a peer connect. In Maintenance the agent reconnects, polls and repeats, as
`MAINTENANCE.md` requires of it, and the properties are stated under `Calm`:
failures of the network, the database and the processes come to an end. The host
keeps maintenance enabled (`Willing = {TRUE}`), since nothing is offered otherwise.
In the browser a timer fires and an answer that has come is handled (weak fairness);
a request that is sent again and again is answered at some time (strong fairness of
serving and of the answer: polls may fail as often as they like, but not always).
In LiveView a connected host reports and is heard again and again, `RefreshTimer` is
strongly fair because leaving the page clears it, and an EventSource that tries
for ever is accepted or refused. In Releases GitHub may fail, and `ReleasesAreShown`
assumes only that GitHub's list and the page's place on the screen stop changing and
that the requests of the page stop failing.

### Where code and documentation disagree

Each of these is reproduced by checking the named property, which is defined in the
module and not kept by it.

* **`BucketsAreFull`**, run `DownsampleHistory` (`store/downsample.go:29`). The
  end of the aggregated range is not rounded down to a bucket, and `ON CONFLICT DO
  NOTHING` keeps a bucket as it was first written. A bucket that the range cuts is
  written from its first rows; the others are never in it, and go when raw rows are
  pruned. (The hourly range, `downsample.go:44`, is not rounded either.) It happens in
  ordinary operation, whenever the loop does not wake exactly at the end of a bucket.
* **`AcceptedIsAggregated`** of Downsample (`server/ingest.go:222-231`), checked with
  the constants of either run. A report as late as is accepted waits for the only
  database connection while a pass of aggregation moves the point past its time; its row
  is then inserted behind the point and is in no bucket unless its bucket happens to be
  written again. `NothingSkipped` shows that this is the only way for a row to be
  skipped: it excepts `missed` and nothing else.
* Pruning after a failed aggregation (`main.go:170`). The loop prunes all the same,
  though the comment says that aggregation comes first so that pruning never loses
  history: rows that no bucket has are pruned after a day of failures. `NothingSkipped`
  speaks of rows that are still there and does not state it.
* **`OnlineNewsIsNews`** of Presence (`server/notification.go:208`), checked with the
  constants of `Presence.cfg`. `cancelOfflineNotification` is said to report false
  only when an offline notification was sent. A callback that locks the map after
  `AddAgent` and before the cancellation removes its entry, finds the host online and
  sends nothing; the handler then announces the host online, although it never was
  announced offline. A race of microseconds.
* **`MigrationKeepsTags`** of Tags (`store/tag.go:274`), checked with `Legacy <-
  SharedTags` and `MaxId = 3`. The migration takes `LastInsertId` for the id of the
  tag, and looks it up only when that is 0. After an ignored insert it is the number of
  the last row inserted on the connection, a row of `host_tags`: the second host with
  a tag gets some other tag. The test migrates one host only.
* **`OfflineIsReal`** of HostPage (`pages/host/chartData.ts:16`), checked with
  `HostPage.cfg`. A long range mixes 5-minute buckets with live samples of a minute;
  the interval is estimated from the lower quartile of the gaps, so that with enough
  live samples the gaps between buckets count as offline although the host reported.
* **`OffersAreAccepted`** of Releases. HostControls offers an upgrade to a host whose
  version is a prerelease, or that reports "Linux"; the Monitor accepts stable
  versions and "linux" only (`server/maintenance.go:130`, `161`), and the request is
  refused. So is a release whose tag, with its build metadata, has more than 64 letters,
  which the cache lists and both pages offer. `OffersAreValid` is stated without these.
* **`UpgradesAreNewer`** of Releases (`server/maintenance.go:123-144`). The host's version
  is read, compared, and the task inserted later; a `system_info` in between makes the
  host's version the target's or a newer one. The task is created all the same.
* **`OfflineIsShown`** of LiveView (`server/api.go:578`). A list that is loaded within
  `OfflineTimeout` of a disconnection has the host online. The status event of the
  disconnection came before the list (or was lost in the interruption that the load is
  to repair), no event is published when the time is over, and the page has no timer: it
  shows the host online until the next load. `CleanAgrees` and `InterruptionHeals`
  except these hosts (`seen`) and no others.
* The stream (`server/live.go:34`): an EventSource that is refused with 429 does not try
  again, so `InterruptionHeals` has to except it, while the page goes on saying that it
  is reconnecting. And what changes between the first list and the first opening of the
  stream is not loaded again (`OverviewStreamProvider.tsx:16`); only an event of the
  same host corrects it.

## 4. Proofs

Assumptions are the named `ASSUME`s of the modules: `None` is no element of the sets,
the bounds are numbers, and of Downsample that the sizes fit together as the code's do.
No finiteness is assumed. One theorem has a hypothesis of its own: `TagsKeepPromise` is
for older databases in which no tag is shared (`NoSharedNames`), as in the run; with a
shared tag the migration does not keep the promise (section 3, `MigrationKeepsTags`).
`OpenKeepsPromise` has no such hypothesis: whatever was migrated, every later step is one
of `TagPromise`.

Two modules of proofs are about two components that share no names: `StoreProofs` (Tags
and Downsample) and `ReleasesProofs` (Releases and HostsPanel, the two halves of the
administrator's hosts page). For their sake the specification of Downsample is called
`HistorySpec`, that of HostsPanel `PanelSpec`, and likewise their other parts.

**PresenceProofs.** The inductive invariant `IInv` is the conjunction of `TypeOK`,
the session part `SessionInv` (the four properties of registrations, which are
inductive together with the type), and the alarm part `AlarmInv`. The latter is
needed because `OfflineAccounted` and `PendingMeansOffline` speak of moments when
the lock is free: `HolderKnows` says what a holder of the write lock has already
done to its host, `TimerMeaning` that a pending timer belongs to a host that is
offline or whose returning handler still holds the lock, and `OfflineOwed` that an
offline host has its timer, its announcement, or a handler about to schedule. The
lemma `QuietStep` covers all steps that touch one handler and nothing shared; the
others have a step per action and part. The safety theorems are consequences of
`IInv`, and `OfflineNewsHolds` reads it in the state before the callback.

**MaintenanceProofs.** `Shape` is `TypeOK` and `FramesFit`, that frames and
handlers name events the agent has written (otherwise an event's status could not
be typed). `OneActiveTask` is inductive with it. `Taken` says that what is in a
handler's offer, a frame or a ledger was marked delivered, `Unsent` that an expired
or queued task was not; together they give `ExpiredIsNeverExecuted`. `HistoryIsFinal`
follows from `Shape` and the transition rules, which no event of a closed task
passes. `StoredEvents` needs more: acknowledgements in a handler or a reply name events
that are stored (`AcksInv`), and a result ends its ledger and its executor
(`ResultIsLast`), or the row of a closed task could be behind its host. `Classes` sorts
the steps by what they do to the table, the events and the ledgers, so that each part
has a step per class, and `AckMoves` follows the acknowledgements. `Refinement` proves
`Spec => Promise!Spec` from the same invariant: a task is submitted only when the
promise calls the host's place free (`PlaceIsFree`), and a host takes a task on only
when its others are over (`Alone`), which no agent checks.

**EnrollmentProofs.** `IInv` adds to the properties that tokens in use were issued
(`TokensAreKnown`) and that the history of bindings agrees with the tables
(`HistoryIsKnown`). `Refinement` proves `Spec => Identity!Spec` with the mapping
"a token is a pass until it is consumed".

**ReleasesProofs.** The first lemmas are about versions: the browser's and the
Monitor's comparisons agree on stable versions, because the first place where two
numbers differ exists and is the same. `NewsInv` ties the cache's remaining time to
the page's timer (the page waits no less than a list is kept, so at the next answer
the list has been read since, or the answer is stale); `GoneInv` bounds for how long
what a list says has been untrue by its age and by the age of the request that reads
it. `OffersHold` needs a list's assets and the agreement of comparisons.
`UpgradesHold`: the check is passed with a list that is fresh at that step
(`PassesFromRecent`), and `GoneInv` carries on, for as long as the request waits, that its
target is newer than the version it has read (`PassesNewer`), which later reports of the
host do not change.
`SelectionHolds` needs that of finitely many stable releases one is the newest
(`GreatestExists`): the comparison is transitive (`GreaterIsTransitive`), and a smallest
set of releases without a newest one cannot exist.

**LiveViewProofs.** `Fits` is what may be said of a host: a connected one is online,
and one that is online is connected or was seen lately when its list was served. `Right`
says of a list that it fits for every host that no status event under way is about,
`LastIsTrue` that the last event of a host agrees
with the Monitor unless one was dropped after it (`gap`). A list that was served
while nothing had been dropped is right at once; delivery of the only event of a host
makes the shown list right by `LastIsTrue`; a dropped status event makes everything
unclean. That a usage event is no loss is `StatusOf` speaking of status events only.
`Created` is needed when a host is created: no list or event knows it yet.

**HostPageProofs.** `AnswerIsOfHost` says that an answer on its way has samples of the
host it was asked for; with the abort in `Go` this gives `SettledIsMine`.
`StretchesAreGaps` holds for every set of samples and every window: `QuartileExists`
shows that the lower quartile of a finite set of gaps exists (well-founded induction of
the library, applied to sets), `IntervalBound` that the estimate is between 1 and the
bucket, and `StretchesAreEmpty` that a stretch beginning one interval after a sample
and ending one before the next is not empty and holds none.

**MaintenancePanelProofs.** `AskedInv` says that the panel knows of every open task it
has asked for, or knows that it does not (`uncertain`), and that a fresh answer leaves
out none: a poll is made stale by whatever would make its answer too old. `WalkInv`
generalises `PagesLeaveNoGap` to every place of the cursor (`Passed`), with the new
tasks, whichever host they are for, always at the top.

`DetailHolds` (`DetailIsLog`) needs `LogInv`: a read under way is of the
task that is selected, and logs only grow. What a poll adds is then an interval that
begins after the last event on the screen (`FreshIsNext`), and of an interval the i-th
number in order is the i-th from its beginning (`InOrder`, by counting the smaller ones).

**HostsPanel**, in `ReleasesProofs`. `TokensInv` says that the credential on the screen,
and the one in an answer, enroll their host unless a renewal was abandoned, and that the
two are never there together. `ListInv` says that what lists tell of keys is true for good,
and that the newest answer is not behind the screen; both are relative to `HostIdentity`,
in which a key is never taken away, and which `EnrollmentProofs` shows `Enrollment` to
implement.

**StoreProofs, tags.** `TagsInv` is inductive, and `TagsTypeCorrect` states its first parts
as well as the types: names are unique and no id is above the last one given (`NamesInv`); a host that the migration knows is there, and nothing else runs beside
it (`LifeInv`); each request knows of every tag that is steady whether the host is to have
it, by the names it found before it looked the ids up and by these ids after (`Exact`), and
a creation is the only request for its host (`HostIsRight`; all this is `RequestInv`). `UpdatesAreExact` follows for
every overlap of the statements. For the refinement two parts are added. `RowsInv`: the ids
in a row are ids that were given, or a new tag would appear on a host that has a row left
behind; the migration endangers that, since it takes the number of a row for an id, and it
holds because every row has used up an id (`CountStep`). `Moved`, for the take-over: an item
whose name is held was imported, with all items before it (`Linked`), and the last id the
connection remembers is never taken for the tag of another item. Only `Moved` needs
`NoSharedNames`, and TLC shows what happens without it. `PromiseStep` then maps the steps:
`Open` is the take-over, an update of a host that was deleted meanwhile is a stutter, and so
is all of the migration but its end.

**StoreProofs, usage history.** `NothingSkipped` is not inductive. `HistoryInv` adds the
clocks, that the aggregation point is at least a bucket behind the last pass (so that no
report that is still accepted comes before it), and, for each point that is about to
advance, that what it will pass has been aggregated (`Point5mMayAdvance`,
`Point1hMayAdvance`, and `HoursMayFollow` for the order of the tiers). What has to be
aggregated is `Due`: the rows in the table and those that wait for it, but for the ones
that were overtaken (`missed`); a row joins `Due` when its time is judged, not when it is
inserted, and that is why a wait of any length does no other harm. That a point which
cannot be read counts as 0, that any statement fails, and that the process restarts anywhere
are all among the steps. The lemmas about `Floor` are the arithmetic: the multiple below a
time is the largest, it is monotone, and the hour of a bucket's beginning is the hour of
its rows because five minutes divide an hour (`FloorOfCoarser`). `AggregateCovers` and
`PruneTakes` say what the two kinds of statements leave and take. With the sizes as
parameters, the code's own are covered (300 s, 3600 s, a skew of 300 s, any retention).

What is only model-checked: liveness in every module, which needs fairness and ENABLED
and is out of the prover's reach: `DeadSessionsEnd` and `OfflineIsAnnounced`; `ResultArrives`
and `OfferIsAnswered`; `ControlsReturn` and `DetailCatchesUp`; `InterruptionHeals` and
`ReportingIsShown`; `CredentialGoes`; `ReleasesAreShown`. Every invariant, every action
property and every refinement of a passing run is a theorem. The properties of section 3
that the code does not keep are for TLC to refute.

## 5. Plan

What is left, most important first:

1. `RateLimiter`: the sliding window with its clean-up and its cap, against the
   reference "at most max in any window".
2. `AdminSessions`: OAuth states consumed once, sessions that expire, logout.
3. `Locks`: the order lifecycle, timers, hub, with the network write that
   `dispatchConn` makes under the read lock (`ingest.go:198-204`, against the comment
   at 117), and the single database connection; nobody waits for ever.
4. `TagsPanel` and `NotificationsPanel`, whose loads overlap without a guard, and slots
   of the event stream per address.

Next theorems: type correctness of the maintenance pages as a whole; that a host which
was announced offline was away for the delay; those of the modules above, each with the
module.

## 6. Not modelled

Read-only endpoints, formatting of notifications, validation of configuration,
the other one-time migrations, the demonstration tools, embedded assets, and of the
frontend its layout, text, styles, zoom of charts and copying of commands: they keep
no state that several actors change. Cryptography is assumed: who proves a key
holds it, tokens and ids do not repeat. `VACUUM` changes no rows. Clock jumps are
not modelled except as lateness.
