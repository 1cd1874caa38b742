# vE-IDS: specification and verification

vE-IDS is an information display for VATSIM controllers: a Go server (`api/`) that polls the
VATSIM datafeed, keeps the ATIS of every station, pushes both to browsers over one WebSocket and
serves the rest over REST, and a React single-page application (`frontend/src`). This directory
holds TLA+ models of its stateful parts, the TLC configurations that check them and the TLAPS
proofs of what holds for every instance. Paths below are relative to the repository; in the
modules' comments a file is named without its directory.

## Inventory

| Component | State | Operations | Interacts with | What is hard | What makes it correct |
|---|---|---|---|---|---|
| WebSocket hub, `internal/feed/hub.go`, `client.go` | `Hub.clients`, three channels, `done`; per connection the channel `send` | `Run` (register, unregister, broadcast, stop), `Serve`, `readPump`, `writePump`, `dropped` | poller (channel `broadcast`), HTTP handlers, peers | four goroutines per message path, eviction of slow clients inside the hub, close of a channel others send to, shutdown | no panic of the hub, exact client map, gapless streams, nobody blocks for ever |
| WebSocket endpoint, `internal/httpx/ws.go` | none | accept, snapshot, `Serve` | store, hub | the snapshot is taken before the registration | the tab is up to date once connected |
| Poller and store, `internal/feed/poller.go`, `store.go` | last timestamp, datafeed, reports, last letters, METAR cache; table `atis_state` | `tick`, `SeedFromDB`, `Snapshot` | VATSIM, aviationweather.gov, table, hub | change detection across crashes, failed writes, two-step updates of the store, memory and table written one after the other | each change of a letter is announced, none twice, restarts are silent and lose none |
| ATIS reports and parser, `internal/atis`, `internal/parser`, `frontend/src/lib/atisParser.ts` | none | `Build`, `MetarOnly`, `Parse`, `Category`, `Ceiling` | poller, weather endpoint | split positions, missing groups, digits that are no runways, interval boundaries | nothing stated is lost by merging, the category errs in known directions only |
| Live store of the browser, `stores/liveData.ts`, `lib/ws.ts` | datafeed, `atisByIcao`, status | `onMessage`, reconnect | hub | deltas merged onto a snapshot, reconnects | the tab shows what the store holds |
| Sessions, `internal/auth`, `httpx/auth.go`, `middleware.go`, `lib/api.ts` | table `refresh_tokens`, cookies, `refreshInFlight` | login, `Rotate`, `Revoke`, alarm on reuse | browser tabs, OAuth provider | statements without transactions, tabs sharing a cookie jar, lost answers, a failure after the rotation | truthful chains, quiet sessions survive, alarms end sessions |
| VATUSA sync, `internal/facility`, `internal/vatusa` | tables `facilities`, `user_facility_roles` | `SyncOnce`, `reconcile` | VATUSA, permission middleware | partial failure of a sync, VATUSA changing under it, manual grants next to synced ones | grants follow the last committed sync, manual ones stay |
| Permissions and seeding, `internal/db/seed`, `httpx/admin.go` | tables `permissions`, `roles`, `role_permissions` | `seedPermissions`, `GetUserPermissions` | sync, middleware, `/auth/me` | failure half-way at boot, two reads per request | baseline present once the server listens, decisions right for some moment |
| Charts proxy, `httpx/charts.go`, `vatsim/charts.go` | `chartsCache` | `getCharts` | charts API | concurrent misses, an older answer stored last, expiry | nothing served is older than the TTL and one call |
| Dashboards, `httpx/dashboards.go`, `stores/dashboard.ts`, `lib/dashboard.ts` | table row, `config`, debounce timer | load, edit, debounced save | REST | overlapping saves, load racing edits, lost answers, two tabs | the save indicator is right, what a resting tab shows is stored or comes with an error |
| Start and shutdown, `cmd/veids/main.go` | root context | seed, start, shutdown | all | order of start, goroutines still running at shutdown | no hang, seeded before the first client |
| Configuration, routing, health, static files, database layer, UI components | none, generated or rendering | | | | not modelled |

## Modules

| Module | Models | State ↔ code |
|---|---|---|
| `FeedHub` | hub, `Serve` and both pumps, per connection | `bcast` = `Hub.broadcast`, `hub` = where `Run` is, `todo`/`victim` = the rest of the `range` and the client in `dropped()`, `clients` = the map, `queued`/`taken`/`closed` = the channel `send`, `serve` and `writer` = where the two goroutines of a connection are, `conn` = the socket |
| `FeedBus` | what the hub promises, without goroutines | `published`, `status`, `joinedAt`, `stream` |
| `AtisPoller` | `tick` step by step, store, table, restarts | `poll` = where `tick` is, `got` = the fetched feed, `todo` = the rest of the comparing loop, `reports`, `lastLetter`, `df` = the store, `db` = `atis_state`, `bcast` = `Hub.broadcast` |
| `LiveFeed` | `AtisPoller`, a hub reduced to what `FeedHub` shows, and browser tabs | `link`, `inbox` = the connection, `snap` = the snapshot taken and not queued, `view` = the browser's live store |
| `RefreshTokens` | rotation, reuse alarm, login, logout, cookie jar | `issued`, `revoked`, `replacedBy` = the table, `pc` = where a request is, `presented`/`child` = its token and its new row, `jar` = the cookie |
| `Access` | roles, permissions, grants and the statements on them | operators on `user_facility_roles`; a grant is a row without id and dates |
| `FacilitySync` | seeding, `SyncOnce` statement by statement, the readers of the grants | `facilityRows`, `roleRows`, `mapped`, `grants` = the tables, `pc` = where `SyncOnce` is, `wanted` = its map of grants, `deleted`/`toInsert`/`inserted` = the open transaction, `req` = a request to `/auth/me` or `/admin/facilities` |
| `Dashboards` | the stores of a user's tabs, their requests and both handlers | `config`, `loaded`, `saving`, `failed` (= `error`), `timer` = `saveTimer`, `gets`/`puts` = requests under way, `stored` = the row |
| `AirportCaches` | `getCharts` and `fetchMetars` with their caches | `charts` = `chartsCache`, `metars` = `metarCache`, `req` = requests, `job` = the goroutine of a station, `result` = the tick's map |
| `AtisParser` | `Parse` and `Category` as operators on a text of words | |
| `AtisReports` | `Build`, `buildOne`, `MetarOnly` on a growing datafeed | `feed`, `metar` = the arguments, `reports` = the result |
| `FeedHubProofs`, `AtisPollerProofs`, `LiveFeedProofs`, `RefreshTokensProofs`, `FacilitySyncProofs`, `DashboardsProofs`, `AirportCachesProofs`, `AtisReportsProofs` | proofs about the module each is named after | |
| `MCFeedHub`, `MCAtisPoller`, `MCLiveFeed`, `MCRefreshTokens`, `MCFacilitySync`, `MCDashboards`, `MCAirportCaches`, `MCAtisReports` | instances for TLC | |

Each action is one atomic step of one goroutine or one statement on the database. Variables marked
*history* record what happened for the properties and guard nothing.

How the hub is modelled in more detail. Register and unregister are unbuffered channels, so the
sender and the hub step together (`HubRegister`, `HubUnregister`); once `done` is closed the
sender takes the other arm (`RegisterAfterDone`, `UnregisterAfterDone`, `BroadcastAbandon`). A
fan-out visits the clients one at a time, because every `send` is a separate operation that
writers and handlers interleave with. `dropped()` is a step of its own while the hub serves
nobody, as the close handshake can take seconds. A send on a closed channel, and a second close,
are modelled as what Go does: the goroutine panics. A panic in a handler is recovered by
`net/http` and runs the deferred `unregister_`; a panic of the hub is final. The read side of the
socket delivers nothing but its end.

How the poller is modelled. A feed is a version, a timestamp that may be missing, and a letter per
station, where a station has no ATIS (`Offline`), an ATIS without a code (`NoLetter`), or a
letter. Texts, METARs and pilots are not read by any decision of the tick and are left out here
(`AtisReports` and `AirportCaches` have them). A changed letter is remembered in one step
(`NewLetter`) and written to the table in the next (`Persist`), so memory and table disagree in
between. A restart may fall between any two steps, that one included; a failed write of the table,
a failed boot seed and rows of it that cannot be read set `faulty`, since the code only logs them.

How the sync is modelled. Every upstream answer and every statement is a step; the transaction of
`reconcile` collects what it deletes and inserts and touches the table with its commit. The list
holds the staff of every facility, a roster the positions of its members; the two are read at
different moments and VATUSA may change in between. History variables follow *postings*, the
entries of list and rosters with a positive CID that grant something: `window` has every posting
seen since the sync began, `steady` those there all along. A failed statement, a failed call and a
crash draw on one budget. The rosters, fetched by eight goroutines at a time, answer in any order.

How the dashboards are modelled. A config is the number of the edit that made it; nothing in the
two programs looks into it; every edit goes through `apply` (`Edit`, `ResetToDefault`). Two
histories mark tabs for which the code promises nothing. `disturbed`: two of their saves or loads
overlapped, or another tab saved after they loaded. `misled`: a failing query was answered 404
while there was a row, so the tab shows the default layout without an error, until its next edit.

How the caches are modelled. A copy of upstream data is known by its *lag*, the time since
upstream replaced it, an entry by its age; time passes in ticks and no call outlasts `MaxCall`
ticks. That is enough to say how old served data can be without naming it. The goroutines of
`fetchMetars` queue for the semaphore: at most `Slots` (8 in the code) call at a time, in any
order. `Rounds` says how many rounds of `Slots` calls serve all stations, and `MaxTick` = `Rounds`
× `MaxCall` is then the length of a tick.

How texts are modelled. A word is what the parser's regular expressions can find in it: the
numbers and where they end, a spelled digit, a side, a unit, keywords, the weather group it forms.
Lengths of words are kept, because the search for a unit counts characters. A run of digits
becomes a runway as `padStart2` makes it: a single digit is padded only if no side is glued to it.

## Runs

| Run | Instance | Shows |
|---|---|---|
| `hub_safety` | 2 connections, 3 broadcasts, `send` of 2, `broadcast` of 1 | `TypeOK` (with the channel capacities), `HubNeverPanics`, `NoGhostClient`, `NoDeafClient`, `DeliveredInOrder`, `PanicsOnlyIfFlooded` |
| `hub_live` | 2 connections, 3 broadcasts, capacities 1, fairness | `ImplementsBus` (refinement of `FeedBus`, with its liveness), `BroadcastReturns`, `ConnectionsCleanUp` |
| `poller` | 2 stations, 2 letters, 3 publications, 2 restarts | `PollerTypeOK`, `EveryChangeIsAnnounced`, `NoSpuriousAnnouncement`, `CrashLosesNoChange` |
| `live_feed` | 1 station, a letter and the empty one, 2 publications, 1 restart, 1 tab, 2 connections, fairness | `TypeOK`, `UnracedTabsAgree`, `LatestReachesTabs` |
| `tokens` | 2 request slots, 4 tokens | `TypeOK`, `ChainIsTruthful`, `CookieStaysValid`, `OneValidToken`, `AlarmEndsSessions` |
| `facility_sync` | 2 facilities, 2 controllers, 3 states of VATUSA, 1 change, 1 fault or crash, fairness | `TypeOK`, `GrantsAreFresh`, `SteadyGrantsServed`, `DecisionsAreJust`, `ManualUntouched`, `Converges` |
| `dashboards` | 2 tabs, 2 edits or resets, 1 fault, 1 reload, fairness | `TypeOK`, `SavedIsStored`, `IndicatorFollowsSave`, `EditsSettle` |
| `airport_caches` | 1 airport with charts, 2 requests; 3 stations, 1 slot; TTLs of 2 ticks, calls of up to 1, 1 failed METAR call, fairness | `TypeOK`, `ChartsAreRecent`, `ReportsAreRecent`, `MetarRateIsBounded`, `MetarsHeal` |
| `atis_reports` | 2 stations, 2 positions, 3 lines or groups out of 9 and 16 | `TypeOK`, `StatedWeatherIsKept`, `MergeKeepsRunways`, `CategoryErrsOneWay` |
| `hub_snapshot_first` | 1 connection | *violated:* `SnapshotIsFirst` |
| `live_lost_update` | 1 station, 1 tab | *violated:* `ConnectedTabsAgree` |
| `live_offline` | 1 station, 1 tab | *violated:* `OfflineIsShownOffline` |

Why the bounds are enough. Connections do not influence each other except through the hub's
fan-out, so two show every interplay: one evicted, the other served or leaving. The capacities 32
and 16 only decide when a channel is full; capacities of one or two reach that with two or three
messages. The proofs cover every number of connections, every capacity and every number of
messages. In `poller` two stations separate "this one changed" from "the other one did", and three
publications with two restarts contain letter A, letter B, A again, with a crash on either side.
In `live_feed` two publications make four messages, more than the two that fit, so evictions
happen, and two connections allow one reconnect, before or after the restart; the empty code
serves as the second letter. In `tokens` four rows are a login, two rotations and a fourth row of
a login or of a rotation that overlaps; an alarm with a rotation under way needs three. In
`facility_sync` the three states of VATUSA hold a handover, a controller known only by a roster
and a facility that leaves the list; one change can fall between list and rosters, one fault on
any statement, and a sync repeats as often as it likes. In `dashboards` two edits make two saves
that overlap, and one fault is a lost save, a lost load or a query answered 404; the theorems
below cover any number of them. In `airport_caches` a TTL of two ticks and calls of one let an
entry expire while a call is under way. Charts of different airports do not meet, so one airport
is enough; stations do meet in the semaphore and in the tick, and three stations with one slot
make a tick of three rounds. The two caches share nothing but the clock, which each side can only
hold back. The action constraint `OneSide` therefore lets a behaviour use one of them while the
other stays as it started; the theorems have both at once. In `atis_reports` three lines make two
positions that repeat one and add one; the lines and groups are those of METARs and of
controllers, well and badly formed, among them `5.5SM`, a glued `8R` and spelled digits. `MaxMsg`,
`MaxFeed`, `MaxRestarts`, `MaxConnects`, `MaxTokens`, `MaxChanges`, `MaxFaults`, `MaxEdits`,
`MaxReloads`, `MaxEntries` and `MaxWritten` bound counters only; `MaxCall` stands for the timeout
of the HTTP client; `MaxLag` is where lags are no longer told apart, beyond every bound that is
claimed.

Deadlock checking is off in all runs: upstream, peers and users may stop for good, and a stopped
hub or a used-up bound is a legitimate end.

Fairness. In `FeedHub` the poller inside `Broadcast`, the hub goroutine, every handler and every
write pump are weakly fair, which is what the Go scheduler gives a runnable goroutine; the close
handshake and each write end within their timeouts. The hub is fair as a whole, not per arm of its
`select`. That is enough because connections and messages of an instance are finite; with an
endless supply of broadcasts `unregister` would need the randomness of `select`. Shutdown,
disconnects, new connections and further broadcasts are never forced. In `LiveFeed` the tick is
weakly fair: a failed fetch is repeated by the ticker, so the assumption is that fetching does not
fail for ever. Tabs that are connected read. In `FacilitySync` the process is started again after
a crash and the syncer goes on as a whole: its ticker fires, calls answer or fail by their
timeout; failures are bounded. In `Dashboards` timers fire, handlers run and answers arrive or are
reported as failed; users do nothing that is not theirs to do. In `AirportCaches` the poller and
each request go on, and time passes: `Clock` is strongly fair, because it waits while a call that
ran into its timeout has to return or the poller has something to do that takes no time, and is
possible again after that. A tick that finds nothing new fetches no METARs, so `MetarsHeal`
assumes that the datafeed keeps changing, which it does every few seconds.

### What the violated runs show

- `hub_snapshot_first`. `protocol.go:12`: "MsgSnapshot is sent once, immediately on connect".
  `Serve` registers the client and only then queues the snapshot (`client.go:24-30`); the hub may
  fan a message out in between, and the client receives it before the snapshot. The older snapshot
  then replaces what the message had updated.
- `live_lost_update`. `ws.go:12-14` promises the snapshot and live updates until the client
  disconnects. The snapshot is taken before the client is registered: a letter announced in
  between is in neither, and since a letter is announced once, the tab shows the old one while
  connected, until that station changes again.
- `live_offline`. `liveData.ts:73`: "or null if no ATIS is online for it". Reports are merged and
  no message names a station that went away, so connected tabs keep its last report. The same
  mechanism has a second effect: a tab that connects while a station is away does not get it back
  when it returns with the letter it had.

Smaller observations without a run:

- `docs/websocket.md` gives close code 1011 for evicted clients, `dropped()` sends 1008 (policy
  violation).
- A station whose ATIS has no code letter when it is first seen is not announced, as the empty
  letter is the zero value of `lastLetter`. `EveryChangeIsAnnounced` reads an unknown station that
  way, and it speaks of letters only: a station that returns with its old letter is in no message.
- `Serve` can block at `c.send <- initial` (`client.go:29`): if 32 broadcasts fall between the
  registration and that statement there is no room, and the write pump starts only after it. The
  next fan-out evicts the client, which gets it on with a recovered panic; if none follows, or the
  hub stops, handler, map entry and socket stay. `ConnectionsCleanUp` names this state
  (`BlockedAtInitial`) as its one exception.
- `jwt.Issue` fails after a completed rotation (`auth.go:143-146`): the answer is 500 and sets no
  cookie, so the browser keeps the revoked parent, and its next refresh raises the alarm that ends
  every session of the user. Lost answers and overlapping requests do the same. `CookieStaysValid`
  and `OneValidToken` except such sessions (`disturbed`).
- `syncer.go:59-60` and `docs/vatusa.md:39-40` say that failures leave stale data serving. That
  holds for a failed list and a failed reconciliation; a *roster* that cannot be read is skipped,
  and the reconciliation then removes the FACCBT grants of that facility until a later sync.
  `SteadyGrantsServed` states the promise with this exception.
- Conversely, one facility whose upsert fails makes every reconciliation fail (foreign key), so no
  grant of any facility is updated until it succeeds.
- `GET /dashboards/default` answers 404 for every error of its query. The tab then shows the
  default layout without an error, and the next edit replaces the stored one. `SavedIsStored` and
  `EditsSettle` except it by name (`misled`). An edit whose tab is reloaded within the debounce
  time is lost without a message; no property covers it, since no tab shows it any more.
- The limit of one METAR call per station and TTL (`MetarRateIsBounded`) is the poller's;
  `weather.go:30` calls on every request. With more than eight stations to fetch, a tick lasts
  several calls, and a METAR in a report can be older than the TTL and one call by that much.
- Category: of `1 1/2SM` only 1/2 is read and of `5.5SM` only 5, so the category can be worse than
  the weather; zero visibility or a ceiling of zero (`VV000`) counts as unknown and gives VFR,
  which `category.go:17-19` calls a quirk kept on purpose; of several ceiling layers the last
  decides, not the lowest; a METAR without category groups hides those of the ATIS text, as
  `pickCategory` never looks further. `CategoryErrsOneWay` says of each which way it errs.
- Runways: "27 LEFT" as a separate word is dropped, because `FT` is one of the units that are
  looked for behind a number; "TWO SIX CLOSED" is read as 26C; digits of a frequency in a sentence
  about approaches become runways; `8R` stays as it is (`docs/atis-parsing.md:34`), so next to
  `08R` or "EIGHT RIGHT" the same runway is listed twice. `GoldenLines` of `MCAtisReports` has
  such lines, with what they are read to say, as assumptions that TLC evaluates.
- `mergeAtisText` drops a line that another position has already. If a sentence runs on into such
  a line, its second copy is missing: of "DEPARTING / 26L." and "LANDING / 26L." no landing runway
  is left (`RunOnLinesLoseRunways`). `MergeKeepsRunways` is about complete lines.

`PanicsOnlyIfFlooded` states exactly when the comment "Buffer has room" (`client.go:28`) can be
wrong: a full buffer of broadcasts has to fall between two adjacent statements. With 32 places
that is remote; what the model shows is that the consequence stays with that connection.

## Proofs

`FeedHubProofs` (any set of connections, any positive capacities, any number of messages;
assumption `CapAssumption`):

- `TypeCorrect`: `Spec => []TypeOK`. `TypeOK` alone is not inductive, because a message that is
  being sent must have been counted; `TypeInv` adds it.
- `HubIsPanicFree`, `NoGhosts` (`NoGhostClient`) and `NoClientIsDeaf` (`NoDeafClient`): from
  `LifeInv`, which ties the state of the handler, of the map, of the fan-out and of the channel
  together. Its core is that a channel is closed exactly when its client was registered and is no
  longer in the map, and that the rest of a fan-out lies within the map.
- `StreamsAreContiguous`: from `StreamInv`. Messages waiting in `broadcast` continue the numbering
  of the last one taken (`Numbered`), and a member's stream ends with the last message taken or,
  while the fan-out has still to visit it, the one before (`Placed`); a new message then always
  has the next number.
- `OnlyTheFloodedPanic` (`PanicsOnlyIfFlooded`): from `FloodInv`. A channel that is closed before
  its handler has queued the snapshot was closed by an eviction, which needs it full, and nobody
  takes from it before that.
- `HubImplementsBus`: `Spec => Bus!BusSafety`, step by step under the mapping of `FeedHub`.
  Receiving a broadcast is `Publish`, since no member misses one then; adding to the map is
  `Join`, a send of the fan-out `Deliver`, removal and eviction `Leave`, and every other step
  stutters, the snapshot included, because `WithoutInitial` drops it from the stream.

`AtisPollerProofs` (any stations, letters, capacity, publications, restarts; assumption
`PollerAssumption`):

- `PollerTypeCorrect`, with the addition that stations waiting to be compared have a report.
- `ChangesAreAnnounced` (`EveryChangeIsAnnounced`): from `Compared`, which splits the reports into
  those that wait and those that equal the remembered letter, and `ToldInv`, by which a remembered
  letter is collected for the message of this tick, seeded at boot or announced.
- `CrashesLoseNoChange`, an action property: from `MemoryInv`. As long as the table works, memory
  and table agree on every station but the one whose write is under way (`unsaved`), and for that
  one they differ, which is why the next tick finds it changed again.
- `AnnouncementsAreNews`, an action property: from `AnnounceInv`. A station that has not been seen
  with another letter since its announcement is remembered with the announced letter
  (`Remembered`), a report under way that differs has been noticed (`Noticed`), hence every
  collected change is of a station that moved (`Collected`). `MemoryInv` carries this over a
  restart.

`LiveFeedProofs` (any tabs and stations, any positive `SendCap`, any number of publications,
connections and restarts; assumptions `PollerAssumption` and `LiveAssumption`):

- `PollerIsAtisPoller`: `Spec => PollerSpec`. The hub and the tabs change none of the poller's
  variables except by taking a message, so the theorems above hold here too.
- `TypeCorrect`: from `LiveTypeInv`, which adds what messages are under way.
- `UnracedTabsAreRight` (`UnracedTabsAgree`): the property speaks of quiet moments only, so
  `LiveInv` says of every moment what is still to come. A letter that a tab shows *settles*
  (`LetterSettles`) if it is the remembered one or will be replaced: by a message in the channel,
  by the changes of this tick, or by a comparison to come. `TabInv` says so of the snapshot until
  it is queued, then of what the tab will show after its inbox; `BusInv` says that the last
  message about a station has the remembered letter.

`RefreshTokensProofs` (any number of request slots and rows; assumption `TokenAssumption`):

- `TypeCorrect`: from `TypeInv`.
- `ChainsAreTruthful`: with `LinkInv`, the row a rotation has made descends from the one it
  presented, which is what `RevokeParent` writes two statements later.
- `AlarmsEndSessions`: with `PassedInv`, which says of callers past their validity check that no
  alarm ended their session since, or they count as having read before it.
- `CookiesStayValid` (`CookieStaysValid`) and `RotationConsumes` (`OneValidToken`): from
  `SessionInv`, which speaks of sessions that nobody disturbed: no request of them overlapped
  another or lost its answer, none was answered 500 after its rotation, no alarm hit them. A new
  row is known to one request only (`SecretInv`) and belongs to that request's session
  (`HeirInv`); at most one request presents a cookie of the session (`AloneInv`), and it is the
  cookie of the jar (`JarInv`); what it presents is live until it revokes it itself
  (`RequestInv`); of the rows the browser has seen one is live (`UniqueInv`).

`FacilitySyncProofs` (any facilities, controllers, states of VATUSA, hand-made grants, changes and
failures; assumptions `AccessAssumption` and `SyncAssumption`):

- `TypeCorrect`: a vacant CID, of the staff or of a roster, is filtered where a posting becomes a
  grant, so no table holds it.
- `GrantsFollowLastSync` and `SteadyAreServed`: from `SyncInv`. While a sync is under way,
  `steady` and `window` bracket what VATUSA holds (`Tracking`); what it wants lies in `window` and
  lacks of `steady` only rosters that are still to come or were missed (`Collected`); the
  transaction deletes the automatic grants and ends with the wanted ones (`Transacted`). So the
  commit satisfies both properties, and no other step touches an automatic grant
  (`KeptSinceCommit`).
- `ManualIsUntouched`, an action property: `Transacted` again, as it says that nothing but
  automatic grants is deleted.
- `DecisionsJust`: from `RequestInv`. The grants of the caller lie between `always` and `ever` at
  every moment, and a process that answers has seeded every mapping, so what either query reads
  lies between the same bounds.

`DashboardsProofs` (any tabs, edits, faults and reloads; assumptions `DashboardAssumption` and
`OwnerAssumption`):

- `TypeCorrect`, with the fact that a loaded tab shows a config.
- `SavesAreStored` (`SavedIsStored`) and `IndicatorIsRight` (`IndicatorFollowsSave`): from
  `SaveInv`. A tab that has not loaded has nothing to save (`LoadsFirst`). An undisturbed tab has
  one save at most and its indicator says so (`OneSave`), what is on its way to it is the row
  (`AnswerIsRow`), and timer or request carry what it shows (`SavesShown`); that a tab at rest
  which no 404 misled shows the row, or the default while there is none (`Settled`, from `InRow`
  and `misled`), then follows step by step.

`AirportCachesProofs` (any airports and requests, any finite set of stations, any slots, TTLs,
length of calls and number of failures; assumption `CacheAssumption`: the stations fit into
`Rounds` rounds of `Slots` calls):

- `TypeCorrect`.
- `AnsweredChartsAreRecent`: from `ChartSide`. A fresh entry of age *n* holds a copy that was
  upstream within *n* plus a call, also when an older answer is stored last, and so does an
  answer.
- `ReportedMetarsAreRecent` and `MetarCallsAreBounded` (`MetarRateIsBounded`, an action property):
  from `MetarSide`. What a goroutine was told it was told during this tick (`JobOK`), and while no
  goroutine is at a station its entry is no older than the last call (`RateOK`), so a call is
  repeated only after the TTL.
- How long a tick lasts is an argument by counting (`Crowd`): there is a record of when each
  station got its slot, and while any station still queues, every `MaxCall` ticks started at least
  `Slots` calls more (`Schedule`), because a free slot is taken before time goes on and no call
  outlasts `MaxCall` (`RoundFills`). As the stations fit into `Rounds` rounds, the last call
  starts at `Rounds` - 1 calls at the latest and the tick is over after `Rounds` (`TickIsShort`).

`AtisReportsProofs` (any lines, groups, stations and codes, texts of any length; assumption
`TextAssumption`, the little that the regular expressions guarantee: numbers are digits, a
visibility is a fraction, a whole number, both, or a decimal, a code is one letter):

- The invariant is short: texts have their types (`TextInv`), and what was built is what `Build`
  or `MetarOnly` returns (`BuiltInv`). The work is in lemmas about the pure functions. The
  induction they need goes over sets of naturals: every such set has a least element
  (`LeastExists`, from the well-foundedness of `<`), so a set that has 1 and the successors of its
  elements is all of `1..n` (`Stepwise`). `FlattenStepwise` unfolds `FlattenSeq` with it.
- `TypeCorrect`.
- `StatedWeatherIsReported` (`StatedWeatherIsKept`): the merged text has the words of all lines of
  the station and no others (`MergedRange`), and `First` finds a group where there is one.
- `CategoriesErrOneWay` (`CategoryErrsOneWay`): the visibility and the ceiling that `Category`
  works with are compared with the true ones interval by interval (`VisibilityGrades`,
  `CeilingGrades`); dropping a part of a visibility or taking a layer that is not the lowest moves
  the grade one way (`CategoryOfText`).
- `MergedRunwaysAreKept` (`MergeKeepsRunways`): the sentences of a text that follows a stop are
  those of either part (`SentencesOfJoin`), so what is said in a merge of lines that end with
  their sentence is what each of them says. It holds without a hypothesis about how a line is
  read: that part is `LinesAreRead`, which TLC evaluates for the lines of `GoldenLines`.

Only model-checked: everything under fairness (`BroadcastReturns`, `ConnectionsCleanUp`,
`LatestReachesTabs`, `Converges`, `EditsSettle`, `MetarsHeal`, the fairness half of
`ImplementsBus`), which is out of reach of the prover. `LinesAreRead` and `RunOnLinesLoseRunways`
are facts about single texts, evaluated.

## Not modelled

The access JWT and the OAuth exchange are stateless: `RefreshTokens` has a login as one step that
ends in a new row, `FacilitySync` a request as the CID its token names. Expiry of tokens and
cookies is an early failure of `ReadRow`. Generated database code beyond the queries the models
use, configuration, routing, health checks and static files have no state of their own. UI
components render the stores; the edits of panels and layouts (`lib/dashboard.ts`) are one step.
Of the parser the RVR group, the issue time, gusts and the order of the runway lists are left out,
and its copy in the browser (`lib/atisParser.ts`), which only marks up the shown text. The mapping
of chart fields is plain copying. The backoff of the browser's reconnects decides only times.

## Plan

Done, in this order: `FeedBus`, `FeedHub`, `FeedHubProofs`, `AtisPoller`, `AtisPollerProofs`,
`LiveFeed`, `RefreshTokens` (live data first, sessions next), then `Access` and `FacilitySync`,
`Dashboards`, `AirportCaches`, `AtisParser` and `AtisReports`, and `FacilitySyncProofs`; then the
proofs of `RefreshTokens`, `AirportCaches`, `Dashboards`, the rest of `FeedHub` with its
refinement, `LiveFeed` and `AtisReports`. Every safety property of a passing run is now a theorem.

Left: safety facts towards the liveness properties, that the action whose fairness is assumed is
enabled in each waiting state, as state predicates without ENABLED.
