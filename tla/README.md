# A specification of race-overlay: team sync, pit control, fuel, stints and settings

`race-overlay` draws iRacing telemetry over the simulator: standings, relative,
radar, and a "black box" with fuel, tyres and strategy. In an endurance race the
overlays of a team form a *room*: measurements only the seated driver's machine
can make, and the crew's decisions, travel through a relay inside one of the
overlays, and a crew member can work the pit menu of the car from elsewhere. The
overlay also fills the tank by itself if asked to, shows the team's plan from a
website, and shares a settings file with a second process.

This directory holds TLA+ models of the parts of that program where order,
failure and timing decide what the team sees, what the car's pit menu is told,
what is believed of cars and their fuel, and what is left of somebody's settings,
model-checked with TLC, and for most of their safety properties proofs for every
value of the constants, checked with TLAPS (section 4).
Paths below are relative to `src/src/bin/race-overlay/` unless they say otherwise.

## 1. The system

| Part | State it keeps | Operations | Speaks to |
|---|---|---|---|
| Ledger (`sync/ledger.rs`) | per producer, envelopes sorted by `seq` | `insert`, `accepts_relayed`, `tips`, `after`, `next_seq` | owned by relay rooms and by client threads |
| Relay (`sync/relay.rs`) | rooms by (subsession, session): ledger, registered connections; failed joins | accept, join (invite, Welcome, backlog, CaughtUp), pump, fan-out, leave | one thread per connection; one lock on all rooms; WebSockets |
| Client (`sync/client.rs`) | replica, next sequence number, handshake flags | dial, join, re-offer, publish, absorb, back off | its own thread; channels to and from the frame loop |
| Store (`sync/store.rs`) | latest value of each field with its version, 32 laps | `apply`, `record_lap`, burn baseline | folded by the runtime |
| Runtime (`sync/runtime.rs`) | client handle, state, own choices not yet folded, edge detectors | `update` once a frame | frame loop, UI, client |
| Feed (`sync/feed.rs`) | last lap, tank at its start, last scalars | `observe`, `scalars_if_due` | called by the runtime while driving |
| Pit control (`telemetry/pit.rs`, `telemetry/session.rs`, `app.rs`) | requests queued with age and phase | queue, check, turn into sim commands | frame loop → telemetry thread → iRacing |
| Stint tracking (`StintState` in `telemetry/session.rs`) | per car: lane visit, standing and blind time, current stint, history, stop counts | one sample per row, a verdict by the age estimator | standings, pit window, estimators |
| Fuel books (`FuelTracker`, `LapFuelUse` in `telemetry/session.rs`; `EventSource` in the feed) | burns of recent laps, level at the last line, the lap under way | one call per row, one per frame | fuel page, lap records for the room |
| Auto Fuel (`ui/blackbox/mod.rs`, `RefuelWatch` in `telemetry/pit.rs`) | target of this lane visit, was the rig there, last request | `auto_fuel_request` once a frame, `RefuelWatch::update` once a row | pit request queue, fuel gauge |
| Standings (`build_standings`, `LapLatch` in `telemetry/session.rs`) | laps known of each car | merge results and live arrays, sort, laps down; dropped with the session | UI, estimators |
| Telemetry thread (`telemetry/session.rs`) | the other trackers fed by each row: gaps, pace, the player's stops, off-tracks | one pass per row, snapshot to the frame loop | iRacing's shared memory |
| Estimators (`telemetry/pit_window.rs`, `stint_estimation.rs`, …) | fitted lap and burn models | pure functions and small caches | UI |
| Configuration (`config.rs`, `app.rs`, `main.rs`) | `race-overlay.toml`; in the overlay its copy, what was last saved, three timers | load, migrate, save what changed, reload binds; `--bind` sets one bind | a second process, a mutex, file system |
| iRacePlan worker (`iraceplan.rs`, `iraceplan/`) | the feed, the room looked up, the refresh timer | look up a join, refresh a plan, forget | a web service, black box, settings |
| UI, input, licence, launcher, tray | windows, bindings, child processes | drawing and operating-system calls | user |

What is hard in it:

* **Concurrency.** Relay connection threads share one lock; each client thread
  interleaves publishing and reading on one socket; the frame loop and the
  telemetry thread exchange snapshots and requests over channels, each going at
  its own pace.
* **Failure.** Links break with frames in flight; a send into a dead socket
  reports nothing; overlays are restarted in mid-race; the relay's ledger lives
  in memory and dies with its host.
* **Order.** Backlog, live and recovered events interleave; an overlay folds its
  own choices before they have a number; results trail the live arrays.
* **Others at the same file.** The overlay reads the settings once, edits for
  hours and saves pieces; `--bind` or somebody's editor writes the file meanwhile,
  and any of them may die or fail half way.
* **Answers too late.** A web request takes seconds, and the driver may have left
  the room, the seat or the session when it returns.
* **Time.** A pit write is useful for two seconds. Four stages may each hold it
  and each checks a limit of its own; session clocks restart with each phase.
* **Missing data.** The sim unticks its own fuel box, a row is lost, a driver gets
  out for half a lap; a car that is towed has no lap any more. Of another car the
  simulator may publish no stall, no position for a while, or nothing at all, and the
  scorer counts its stops early, late or never.

What makes each part correct:

* ledger/relay/client: one event per number; no holes; nothing falls between
  backlog and live; nothing is lost while somebody still holds it; all ledgers
  converge; a pit write is live once and only on the connection it was made on;
* store/runtime: the state depends on the set of events only, not on their order
  or repetition, and is the same on every machine;
* feed: every lap reported is a lap driven whole, and its burn is what it burned;
* pit control: commands are recent, belong to the phase they were asked in and do
  what the request says; the standing policy acts once a stop;
* stint tracking: every stop is counted once, whoever reports it first; a stint
  begins at the latest stop; lengths and service times are learned only from what
  was seen whole;
* fuel books: the plan rests on whole laps of this car only and is never below
  what the last of them took;
* Auto Fuel: one fill per stop, and it ends at the level worked out on track;
* standings: one row per car, one order on every machine, laps down that are so;
* configuration: no save undoes a change saved by another process, no change is
  lost by a failure, a file with a slip in it is left to its owner;
* plan worker: a plan is shown only where it was found to belong, is marked when
  it may be old, and the website is asked once a join and once a refresh.

## 2. The modules

| Module | Models | Extends / uses |
|---|---|---|
| `Ledger` | the log's operations, on a set of envelopes | – |
| `SyncWire` | a room's state and the frames of `protocol.rs` | `Ledger` |
| `SyncRelay` | `serve_connection`, `pump`, fan-out | `SyncWire` |
| `SyncClient` | `connect_once`, `absorb`, publish channel | `SyncWire` |
| `SyncTeam` | relay, clients, sockets and crashes together; the properties | `SyncRelay`, `SyncClient`, `TeamLog` |
| `TeamLog` | the abstract promise: one growing log per producer, prefixes everywhere | – |
| `TeamState` | the fold of events into fields and laps | – |
| `SyncRuntime` | overlays folding what the room hands them and what they chose | `TeamState` |
| `PitControl` | requests from black box, crew and policy to the sim's pit menu | – |
| `StintState` | one car's `StintState` as operators: what a sample makes of it | – |
| `StintTracking` | the car, the scorer and the overlay, second by second | `StintState` |
| `FuelBooks` | rows, frames and the three pieces of code that measure laps | – |
| `AutoFuel` | Auto Fuel and `RefuelWatch` against the sim's pit menu and rig | – |
| `Standings` | the rows of one client from qualifying to the finish | – |
| `Settings` | the settings file, its writers, crashes and hand edits | – |
| `PlanFeed` | the plan worker, the website and the overlay's changing session | – |
| `SyncTeamProofs` | theorems: numbering, pit writes, no holes, nothing slips, live once, the refinement of `TeamLog` | `SyncTeam` |
| `PitProofs` | theorems on what reaches the pit menu, and on Auto Fuel | `PitControl`, `AutoFuel` |
| `RuntimeProofs`, `FuelProofs`, `StintProofs`, `SettingsProofs`, `PlanFeedProofs`, `StandingsProofs` | theorems of one module each | `SyncRuntime`, `FuelBooks`, `StintTracking`, `Settings`, `PlanFeed`, `Standings` |
| `MC…` | constants for TLC | |

`SyncTeam` composes relay, clients and ledger; `PitControl` composes three
threads; the others each put one component into the world it reacts to. Every
module has a type invariant `TypeOK` (`AutoFuelTypeOK` in `AutoFuel`, whose
theorems share a module with those of `PitControl`), which TLC was given while the
module was written; only the room's is kept in a run. It is proved for all of them.

### The room: `Ledger`, `SyncWire`, `SyncRelay`, `SyncClient`, `SyncTeam`

A ledger is the *set* of its envelopes; the vectors' order by number is recovered
with `Precedes` where `after`'s order matters (backlog chunks, re-offers).
A connection is numbered as it is dialled and has two queues: `up`, the socket
towards the relay, and `down`, the relay's outbox channel followed by the socket
back. An event's content is who observed it, which of his observations it is,
whether it is a pit write, and the connection it was queued on.

| Action | Code |
|---|---|
| `ServeHello` | `relay.rs` 249–323: one hold of the rooms' lock registers the connection and queues Welcome, backlog chunks and CaughtUp |
| `PumpEnvelope` | `relay.rs` 337–396: one envelope read, checked, inserted and fanned out; wrong frames end the connection |
| `Hangup`, `Deregister` | `relay.rs` 325–334 |
| `Observe` | the frame loop filling the publish channel, connected or not |
| `Dial` | `client.rs` 140–189 |
| `PublishNext`, `DrainEmpty` | the inner loop, `client.rs` 192–222 |
| `ReadFrame`, `Absorb` | one read of the outer loop, `client.rs` 223–294 |
| `ReofferNext` | one turn of the re-offer, `client.rs` 245–255; nothing else runs on the thread until it is finished |
| `Disconnect` | every way out of `connect_once` that is retried |
| `Crash` | a process ends and is started again: replica, channels and, with the host, the relay's ledger are gone |

The relay's action is a hold of its lock, the client's one frame, so every
interleaving of threads is there. A link may break at any time, seen by one end
first (`RelayLosesLink`, `ClientLosesLink`); the other end then drains what is
left in the socket and sees its end. Frames of a crashed process may still be
read by the relay (`Lingering`), and old and new connections of one member
overlap. Sent to a connection whose client is gone, frames are not kept: nobody
reads them.

Left out: Roster frames (a list of names), the invite and its throttle (planned,
`SyncJoin`), encoding, back-off times (a client may dial at any moment, so every
back-off is covered). `session_time` and the kinds of measurement matter only to
the store and are in `TeamState`.

### The store: `TeamState`, `SyncRuntime`

A field of `TeamState` holds the envelope that set it, being value and version at
once. `Advances` is `Version::advance`, `RecordLap` is `record_lap`, `Apply` is
`TeamState::apply` with the arms of its match in `Sets`. `SyncRuntime` replaces
the room by what `SyncTeam` establishes of it: others' events in number order,
producers interleaved in any way, repeated when a relay is repaired, all of them
after a rebuild, and one's own only after a rebuild. `Choose` is `publish`
(settings: to the room and to `self_published`), `Measure` is
`publish_if_driving` (to the room only), `Update` drains and folds in the code's
order. `known` remembers the set of events folded; properties compare `state`
with a direct definition over it.

### The pit menu: `PitControl`

One driver's machine. `Telemetry` is a row of the telemetry thread: snapshot out, queued
requests checked (`IsCurrent`) and turned into commands against the pit service of *that
row*. `Frame(n)` is a frame of the window loop: take the waiting snapshot,
`TeamSync::update` with `n` arrived writes, `apply_team_writes`. `Sim` carries out one
command. Seconds pass between any two of them, so each stage may stall: the network, the
telemetry thread, and the frame loop, also while a snapshot waits for it. `read` and
`waited`, which the code does not keep, tell how old a snapshot was when a frame took
it. Of tyre state only the tick is modelled; fuel, tear-off, repair and pressures are
single commands on the same path.

### Stints: `StintState`, `StintTracking`

`StintState` has the fields of the struct in three groups (books, lane visit,
stint) and one operator per stage of `update_with_official`, composed in the
code's order:

| Operator | Code in `telemetry/session.rs` |
|---|---|
| `ObserveOfficialStops` | 4746–4762: the scorer's count, first seen or risen |
| `ReconcileOfficialStops` | 4792–4834, in its four stages `MatchLocal`, `MatchDriveThroughs`, `MatchUncertainExit` with `ConfirmExit`, `MatchUnseen` with `PutUnseen` |
| `NotInWorld`, `InWorld` | 4600–4615 and 4617–4730 |
| `InLane` | 4644–4697: `EnterOrResume`, `Watch`, `Stand` |
| `OffLane`, `CloseLaneVisit` | 4698–4727 with `close_lane_visit` 4876–4939 (`Outcome`, `EndStint`) and `RecordLaneOutcome` 4764–4787 |
| `Vouched` | 3189–3205: the age estimator takes back `current_start_observed` |

`StintTracking` is the world around it, and external: what the car does in a
second (`KeepRacing`, `EnterLane`, `StandStill`, `Roll`, `Leave`, `Tow`), what of
it can be seen (`Visibility`, `Position`), what the scorer publishes (`Publish`),
and then one `Sample` of it. History variables hold the truth: how long the car
stood in this visit, how many stops it made and when the last one ended.
`countable` are visits that were stops or may be taken for one (a car standing in
the lane for three seconds, or unseen in it for longer than a second, is one the
code's documentation accepts).

Time is in whole seconds, a row each. Between two rows the car either moved or
stood, so a standing spell is known to a second: `spells` is the allowance the
properties make for that. A position is a number; different positions are further
apart than `PIT_MOVED_PCT`.

The estimator of stint ages is replaced by the one of its reasons for doubt that a
lone car can cause: a gap as long as its pit loss. Its other reasons (an odd lap,
a change of driver, no scoring) only take back more. The race is running: in
practice the estimator does not interfere. `LapLatch` is taken as given (it is in
`Standings`), and a lap crossed while a car is missing shows in the row of its
return.

### Fuel: `FuelBooks`

Three measurements of one thing. `Row` is what the telemetry thread does of it
with a row: `Observed` is `FuelTracker::observe` and `update`
(`telemetry/session.rs` 1201–1262) with `Admit`, its `record`, and `LiveUse` is
`LapFuelUse::update` (1145–1165). `Frame` is the frame loop's part,
`EventSource::observe` (`sync/feed.rs` 119–156) on the latest snapshot: `Closes`,
`LapRecord`, `Followed`. The world is a car that burns one or two litres a sector,
lingers, stands in the lane and takes fuel; a row may be `Missed`, a driver gets out and
in (`Swap`), and several rows pass between two frames. History variables
accumulate what the car did since each piece began to measure.

A lap is a number of sectors, and a fuel level is read without error. A slow lap
takes a step more than the quickest, which stands for the code's ratio
`FUEL_LAP_OUTLIER_RATIO`; any lap may be left untimed.

`LapFuelUse` smooths the level it reads over half a second of rows
(`FUEL_SMOOTHING`). A step of the car is thousands of rows, so while rows are seen
the smoothed level is the tank, and the lag within those rows is left out. The
smoothed level outlives rows that are missing: `Smoothed` has it anywhere between
what it was before the gap and the tank, for the first row after it.

### Fuel: `AutoFuel`

`SecondPasses` is a second of the program: the world has moved on to a car and a pit
menu, a row of it is read or lost (`Read`), what was asked for goes out if it is
recent (`Current`), and the frame calls `AutoFuelRequest`, which is
`auto_fuel_request` in the code's order: `TrackPitLane` (1236–1254), the target
(`Target`, 1215), the throttle (`AskFor`, 1294–1302). `Watched` is
`RefuelWatch::update`. `PressFuel` and `ToggleAuto` are the driver's; `Drive`,
`EnterLane`, `Crawl`, `StopInBox`, `Fuel`, `Wait`, `Leave`, `SwapOut` and `SwapIn`
the world's. `Delivered` is the sim's pit menu, external, as the comment in
`ui/blackbox/mod.rs` 55–57 describes it: a fuel amount of zero leaves the amount,
and nothing is taken while the rig runs or the driver is out of the car. Fuel is
counted in half litres; commands go in whole ones. `visit` is history, the truth about
a visit and what rows of it Auto Fuel was shown.

### Standings: `Standings`

State: where each car is, the scorer's order, who is away or not rendered, the
results as last published, and of the overlay the rows it shows and the latch. Rows
are a set, each with its position: sorting is the `Place` of a row among the keys.
`Merged` is `append_unscored` after the results, `Classified` the three orders
(`LivePosition`, `Quickest`, `GridSlot` by `StandingsOrder`), `Row` the pass over
the rows with `Resolve`, `LapsDown` `annotate_classes`. `LoadRace` is
`sync_to_session`. Cars drive, are towed, come back; results are published at any
time (`Publish`); the client renders all cars or all but one (`Render`).

### Settings: `Settings`

A configuration is a function from the leaves of the TOML tree. Four leaves are
enough for every way a change is saved: a bind of two leaves (settings page, timer
`settings_changed_at`), a panel's position (saved at once) and the fuel margin
(timer `blackbox_changed_at`).

| Action | Code |
|---|---|
| `Start`, `Migrate`, `MigrateFails`, `Ready` | `start_overlay` (`main.rs` 142), `load` (`config.rs` 1426), `migrate` (1557), `OverlayApp::new` (`app.rs` 357) |
| `EditBind`, `EditMargin`, `EditPos` | a change, with the timer or save of the frame that takes it |
| `BeginSave`, `TakeLock`, `LockTimeout`, `ReadForMerge`, `ReadFails`, `WriteMerged`, `WriteFails` | `persist` (`app.rs` 438–463) around `save_changes` (`config.rs` 1495–1511): mutex, read, merge, rename |
| `Sample`, `Reload` | `reload_binds_if_changed` and `reload_clean_binds` (`app.rs` 475, 1568) |
| `Capture`, `CliLock`, `CliRead`, `CliWrite` | `capture_bind` and `OverlayConfig::update` |
| `OverlayCrash`, `CliCrash`, `HandDamage`, `HandRepair` | external |

`truth` is the last value anybody *successfully* saved, leaf by leaf, and `edits`
what was changed in the overlay and not saved. Not in the model: the old switch
tables that `load_from` translates, demo mode, a bind that mixes devices, a second
overlay, and hand edits within the moment a program holds the mutex.

### The plan worker: `PlanFeed`

`PollOnce` is a turn of `worker` up to its first request (`iraceplan.rs` 340–397),
`ReadSchedule`, `ReadPlanning` and `ReadUpdate` one request each, `Finish` the rest
of `poll_session`. `DueAction`, `ForKey`, `Unmatched` and `Completed` are the
methods of `Refresh`. `Shown` and `StaleFeed` are what the black box makes of the
feed. Around it the driver joins rooms, gets in and out and loses telemetry
(`Look`), saves the connection settings, and plans are edited, withdrawn or
spoiled on the website. A tick is fifteen seconds, the longest a request takes.
A plan is its identity and a version; parsing, dates and car names are left out.

## 3. What is checked

| Run | Question | Result |
|---|---|---|
| `team_drops` | two faults anywhere (lost link, driver's restart), chunks of one event | holds |
| `relay_restart` | relay restart with a driver and a spectator; refinement; convergence | holds |
| `host_restart` | restart of an overlay that both hosts and produces | **`LedgersAgree` fails** |
| `stores` | any order of arrival, replay, rebuild | holds |
| `pit` | every stall (of the frame loop over a waiting snapshot too), driver swap and change of phase | holds |
| `stints` | missing positions, stall flags and cars; a scorer late, early or absent | holds |
| `stints_blinking` | one row without a position in a stop | **`ServiceIsStanding` fails** |
| `settings` | overlay and `--bind` on one file; a crash, a failed write, a hand edit at any step | holds |
| `plan_feed` | four changes of session, website, settings or connection at any point of a request | holds |
| `fuel_books` | pit visits, fills, late frames, untimed laps, a lost row or a driver's absence | holds |
| `auto_fuel` | stops at any time; any two presses, lapses of telemetry, switches or swaps | holds |
| `standings` | qualifying, grid and race with a car lost from view or from the world | holds |

### Properties of the room

* `OneEventPerNumber`: over *all* copies, in ledgers and in flight, a pair
  (producer, seq) names one event.
* `NoHoles`: every ledger is gapless, so a tip tells everything.
* `NothingSlips`: what the ledger holds, an attended registered connection's
  member holds or is being sent.
* `NothingStranded`: what a live member holds, the relay holds or is being sent.
* `NoDelayedPitWrites`, `LiveAtMostOnce`: a pit write is published only on the
  connection it was made on, and an overlay gets it as live at most once.
* `ImplementsLog`: the room implements `TeamLog` (`Log == INSTANCE TeamLog WITH …`).
* `Convergence`: links that stay up from some time on bring all ledgers together.

Fairness is weak, of each relay connection thread and each client thread: both are
loops that do not stop, and `run` dials again for ever. Nothing is assumed of the
network, of crashes or of new observations; the property's premise says that links
stay up eventually.

### Properties of store and pit control

* `FieldsAreLatest`: every field is that of the latest event known by (session
  time, producer, number), whatever the order of arrival.
* `LapsAreNewest`: the lap history is the newest laps known, although laps come
  grouped by producer and overflow it on the way.
* `NeverLate`: the sum of the three limits, and the time the snapshot that let a
  request pass had waited for its frame, bound the age of a command. No limit counts
  that wait: `latest_at` is stamped when a frame takes a snapshot (`app.rs`
  1227–1231), and a write's age is judged by that snapshot's clock
  (`sync/runtime.rs` 427), so a frame loop that stalls can let a write pass that is
  older than `LIVE_PIT_WRITE_MAX_AGE_SECS`.
* `NeverAcrossPhases`: a request never reaches another phase's pit menu.
* `CarriedOut`: one request at a time does exactly what it says. Requests that
  overlap (one made before the last is carried out) are exempt; two of those may undo
  each other, a hazard no property covers (below).

### Properties of stint tracking

* `BooksBalanced`: offset, own stops and unmatched counts sum to the scorer's count
  and the stops he has yet to count, so none is lost in being matched.
* `NoVisitCountedTwice`: the total shown is never more than there were visits to
  count.
* `WitnessedStopsSettle`: of a car that never left the world every stop is counted
  by the time it is off the lane, and its stint begins at that exit.
* `ConfirmedStopEndsStint`: when the scorer reports a stop nobody saw, the stint
  shown begins no earlier than that stop.
* `SettledRangeSpansNoStop`: no range is learned across an unseen stop, unless an
  exit is still in doubt.
* `SeenServiceIsStanding`: a service time is time the car stood, if its position
  was always published (without that condition: `stints_blinking`).

`SettledRangeSpansNoStop` and `ConfirmedStopEndsStint` depend on the size of
`PitLoss` and `ReturnGrace`: a stop hidden in a gap shorter than the former, or
reported later than the latter, is not found, and the code's documentation does
not say it is. Here no hidden stop is shorter than `PitLoss`.

### Properties of fuel

* `PlanFromWholeLaps`: every burn the fuel plan rests on is what the car burnt on
  one whole lap without the pit lane, whatever rows went missing and whoever drove
  in between.
* `PlanCoversLastLap`: turning a lap away as off pace never loses one that burnt
  more than the plan carries.
* `RecordsFromWholeLaps`: a lap record measured from the tank is the fall over that
  many whole laps. Exempt are a frame so late that it missed the line, and a visit
  to the pits wholly between two frames.
* `LiveFromTheLine`: the burn shown for the lap under way is what was burnt since
  the line, if the rows up to the crossing and every row since were seen. A lap whose
  crossing is the first row after a gap is exempt, since the smoothed level at that
  line is not the tank's (below).
* `TankMeetsTarget`: a stop leaves the tank at what was worked out on track, to the
  litre, less only what was burnt too late to be asked for. Not claimed of a visit
  on which the driver himself pressed, switched off or swapped out, which
  telemetry did not show, or whose box was ticked at entry although the tank held
  the target already or was full.
* `NothingAfterService`: once the rig has been, Auto Fuel asks for nothing more on
  that visit, through lost rows, switching off and on, and getting out and in, if it
  has been *told* of the load: a row in the lane, while it was on and its driver in the
  car, showed the box ticked, or the level more than `FUEL_SERVED_LITRES` above what
  the car came in with, it having met the car on track and seen it in the lane before
  the rig worked. So exempt are a service all of which it was off, out of the car or
  blind for (below) and a splash no row of its own showed; a box ticked
  again after the service while it was off; and a frame drawn without a row of its own.
* `VerdictIsOfThisVisit`: a stop is taken for served only for what happened on this
  visit, if Auto Fuel saw the car on track before it.
* `EdgeIsWhereRigStops`: the far edge of the fuel gauge stays where the rig will
  stop, all through the first fill of a visit.

### Properties of standings

* `EveryCarHasItsRow`: a car in view or in the results has one row, others none.
* `TeamSeesOneOrder`: clients that render different cars show the same order, once
  the results in hand are the scorer's latest (`ResultsAreLatest`). While results in
  hand are older than the cars in view the orders do differ (below).
* `LapsDownAreReal`: while every lap of the class was in view or in the results
  when it was done, and every car of it that has done a lap has a row, the laps down
  shown are the laps between the cars, also for a car that is out of the world. Exempt
  is a leader who is gone before results list him: his laps go with his row.

### Properties of the settings file

* `FileIsTruth`: leaf by leaf the file says what was last saved, by whichever
  process, whatever died in between. Exempt is a file overwritten by a migration
  that began before it existed.
* `PendingEditsSurvive`: no look at the file takes back what was changed in the
  overlay and is not saved yet.
* `DamagedFileKept`: a file that does not parse is never written over.
* `EditsReachDisk`: every change reaches the file, unless the overlay ends first or
  the file stays unreadable.
* `BindsReachOverlay`: a running overlay comes to use the binds in the file, over
  and over, unless it has one of its own to save or the file was written between
  its load and its first look at the file's time.

Fairness (`FairSpec`): weak of the steps of a process that has begun something
(`StartStep`, `SaveStep`, `CliStep`, `Reload`), since a process that runs goes on
running; strong of `Sample` and `Autosave`, because every frame looks at each timer
and at the waiting retry, and at the file every two seconds, while a save in
progress takes them away only for that moment. Nothing is assumed of the driver,
of `--bind` being started, of faults, or of anybody mending a damaged file.

### Properties of the plan worker

* `ShownWasLookedUp`: a plan is shown only in the room whose own lookup found it.
* `CurrentMeansCurrent`: a plan drawn as current is the website's, or was until no
  longer ago than a refresh and the requests under way.
* `PoliteRefresh`: a plan is not asked for twice in a refresh period, unless the
  overlay lost sight of its session in between.
* `LookupSettles`: while the overlay goes on seeing a room, "checking" comes to an
  end, except for a result that arrived in a moment without telemetry: that one is
  dropped, and the lookup never repeated (below).

Fairness is weak of the worker's steps (it loops for ever, and a request has a
timeout) and of the clock.

### Disagreements between code and documentation

Two are runs of their own:

1. **Numbering forks when a driver who hosts restarts** (`host_restart`).
   `sync/protocol.rs:223` says the relay's tips make that impossible; here the
   relay went down with the producer. The returning driver is caught up by an
   empty relay before another member has re-offered the old events and numbers
   from 1. The same can happen to a driver who does not host, if frames of his
   former process reach the relay after the Welcome of the new one; the
   configuration with `Lingering = TRUE`, a producer in `Crashable` and another
   host shows it.
2. **A missing position in a stop counts the standing before it twice**
   (`stints_blinking`), against `telemetry/session.rs:4530`.

Others came up while the models were written. They are described here and not
kept as runs:

* The driver's own laps are missing from his own burn baseline
  (`sync/runtime.rs:447` publishes without folding); `sync/store.rs:263` calls the
  baseline identical for every member.
* Two unticks in one row undo each other, since both start from the service that
  row reports (`telemetry/session.rs:547`), against `telemetry/pit.rs:203`.
* The tyre policy fires again after a telemetry pause on pit road
  (`sync/runtime.rs:119`), against `sync/runtime.rs:266`.
* A range is learned across a stop during which only the car's service was unseen
  (`telemetry/session.rs:4896`), against `docs/stint-tracking.md` and the comment
  at `telemetry/session.rs:3194`.
* `LapFuelUse` attached in mid-lap shows a burn since that moment; its comment
  (`telemetry/session.rs:1143`) says there is none before a crossing was seen.
* The level `LapFuelUse` smooths is kept over missing rows. If the first row after a
  gap is the one that crosses the line, the lap is measured from a level near the one
  before the gap: its figures include what was burnt unseen, or stay at zero after an
  unseen fill. `telemetry/session.rs:1143` says "litres burnt since the last
  start/finish crossing".
* Switched on in the lane after a service it was off for, Auto Fuel arms the stop
  again. It follows the rig only while it is on (`ui/blackbox/mod.rs` 1161–1173), so
  the service left no trace, and the tank as it is then counts as the tank at entry.
  `ui/blackbox/mod.rs:1171` says that a served stop must not be re-armed while the car
  is in the lane. The same holds of a service with its driver out of the car.
* Standings of two clients differ while the results in hand are old and a car is
  not rendered by one of them; `telemetry/session.rs:4191` says teammates agree.
* Auto Fuel takes a *Clear fuel* of the driver in the lane for a stop served, and
  keeps a `Served` verdict through a swap, a switch-off or a telemetry lapse that
  hides the exit; `ui/blackbox/mod.rs:1234` says leaving pit road starts clean.

And these are exempted by the properties above because no document promises
otherwise: a bind written between the overlay's load of the file and its first
look at the file's time is not taken up; a migration that waited for the mutex
overwrites what another process wrote meanwhile (`config.rs:1557` does not look
again); a lookup whose result meets a moment without telemetry is never repeated
and sees only the cars there at the join; `EventSource` reports a stop lap before
any measured one as a burn of what the tank fell, at least zero, takes a lag spike
at its start for a whole lap, and cannot see a visit to the pits between two
frames; the fuel gauge keeps its first edge when a second fill begins on one visit.

One more is the reason why no world of
`stints` lets a car go missing *and* its scorer publish at any time: an uncertain
exit waits for a count without limit, so a count published during a later visit,
for that visit, is matched with the earlier exit, and the visit is counted again
when it ends. The same happens when the scorer's first count appears within a
visit it includes and the overlay sees the visit end.

### Bounds

* `team_drops`: two members, one producer, two observations, two faults, four
  connections: a drop during the repair of a drop, and connections that overlap.
  `ChunkEvents = 1` makes a backlog of two events two chunks.
* `relay_restart`: a host outside the room, so the relay's restart costs the
  ledger and no replica; a spectator repairs it in competition with the producer.
  One fault, four connections.
* `stores`: two overlays, three events, a history of one lap so that it overflows
  at once, one replay, one rebuild. Session time takes two values and two events
  may share one unless both are choices (`Ties`).
* `pit`: two corners (one that a request names, one to be left alone), two
  requests, three seconds with limits of 1, 2 and 1 seconds, so each limit is
  passed in some behaviour. The requests of driver and crew are to untick one corner,
  the only kind that looks at the pit service of a row (`Untick`); the policy adds
  those for all corners, and its visits to the pits count as requests. The theorems
  have every request.
* `stints`: four kinds of world, so that what goes missing is explored one at a
  time: four seconds without a position (a whole stop) and no stall flag; two
  seconds with it; a scorer who publishes at any time or begins late; one gap of
  any length with a scorer who publishes while the car races. Eleven seconds, one
  lap line and stops of four seconds make two stops, the first hidden, the
  smallest story in which something wrong is learned; ten seconds are enough for a
  blind stop and what follows. The code's own limits of two,
  three and one second are kept; its 45 s, 5 laps and 8 samples are 4, 1 and 1.
* `settings`: one control captured in the page and another by `--bind`, two changes
  in the overlay, two starts, one fault. Two starts are a restart after a save or a
  crash; two changes are an edit while another one is being saved or retried.
* `plan_feed`: two rooms (a practice and the race), two teams' plans under one API
  key, refresh and staleness as in the code in ticks of fifteen seconds, four
  events: enough to leave a room during its lookup, come back to it, and have a
  failure on top.
* `fuel_books`: two sectors, burns of one or two, a window of two laps and four
  laps, so that the window is full, drops its oldest lap and restarts; one slow
  step, one upset, frames up to two rows late.
* `auto_fuel`: a tank of two litres and a race of two and a half laps, for which a full
  tank is not enough, so a load is clipped to the tank, a splash, or nothing; two burns
  in the lane or standing; half litres against whole-litre commands, a rig that
  delivers half a litre a second, a throttle, staleness and patience of two
  seconds, an error of a lap in what the lane says is left. Two upsets are off and on
  again, out and in again, or a switch and a lost row, before, in or after a service.
* `standings`: three cars, two of them in one class, one lap of qualifying and two
  of race, lap times of one or two, one car lost from view or from the world at
  any time: the smallest field with an order within a class and across classes.

All configurations state `CHECK_DEADLOCK FALSE`: with the bounds on connections,
events and clock used up, a model may stop.

## 4. What is proved

What follows holds for every value of the constants that the named `ASSUME`s admit.
Each result rests on an inductive invariant, most of which were given to TLC on a
small instance before they were proved; a proof has one step per action.

| Theorem | States | Holds when |
|---|---|---|
| `SyncTeamProofs!TypeCorrect` | `TypeOK` of the room | – |
| `SyncTeamProofs!NumberingNeverForks` | `OneEventPerNumber` | `StableProducers` |
| `SyncTeamProofs!PitWritesAreNeverDelayed` | `NoDelayedPitWrites` | – |
| `SyncTeamProofs!LedgersHaveNoHoles` | `NoHoles` | `StableProducers` |
| `SyncTeamProofs!NothingEverSlips` | `NothingSlips` | `StableProducers` |
| `SyncTeamProofs!LiveIsLiveOnce` | `LiveAtMostOnce` | `StableProducers` |
| `SyncTeamProofs!RoomImplementsLog` | `ImplementsLog`, the refinement of `TeamLog` | `StableProducers` |
| `SyncTeamProofs!NothingIsStranded` | `NothingStranded` | `StableProducers`, `MaxObserved <= MaxEventsPerProducer` |
| `RuntimeProofs!FieldsAreOfTheLatest` | `FieldsAreLatest` | `~Ties` |
| `RuntimeProofs!LapsAreTheNewest` | `LapsAreNewest` | – |
| `PitProofs!NothingIsLate`, `PhasesStayApart`, `RequestsAreCarriedOut` | `NeverLate`, `NeverAcrossPhases`, `CarriedOut` | – |
| `PitProofs!EdgeIsTrue`, `VerdictIsTrue`, `NothingMoreIsAsked` | `EdgeIsWhereRigStops`, `VerdictIsOfThisVisit`, `NothingAfterService` | – |
| `PitProofs!TankIsRight` | `TankMeetsTarget` | `CodeTimes` |
| `FuelProofs!ThePlanRestsOnWholeLaps`, `ThePlanCoversTheLastLap`, `RecordsSpanWholeLaps`, `TheLiveFigureIsTheLaps` | `PlanFromWholeLaps`, `PlanCoversLastLap`, `RecordsFromWholeLaps`, `LiveFromTheLine` | – |
| `SettingsProofs!TheFileIsTheTruth`, `UnsavedEditsSurvive`, `DamageIsKept` | `FileIsTruth`, `PendingEditsSurvive`, `DamagedFileKept` | – |
| `PlanFeedProofs!PlansShownWereLookedUp`, `PlansShownAreCurrent`, `RefreshesArePolite` | `ShownWasLookedUp`, `CurrentMeansCurrent`, `PoliteRefresh` | – |
| `StandingsProofs!NobodyIsDropped`, `ClientsAgree`, `LapsDownHold` | `EveryCarHasItsRow`, `TeamSeesOneOrder`, `LapsDownAreReal` | – |
| `StintProofs!StintBooksBalance` | `BooksBalanced` | – |
| `StintProofs!StopsTakeTheTimeStood` | `SeenServiceIsStanding` | – |
| `StintProofs!StopsSettle` | `WitnessedStopsSettle` | `CodeLimits` |

The `TypeOK` of each of these specifications is proved as well.

### The room

`OneEventPerNumber` is not inductive: a state where an envelope in flight is
unknown to its producer satisfies it and may step outside. `NumberingInv` adds that
every envelope anywhere is one its producer holds (`Authentic`), and that a
connected producer's next number is beyond all of its own that it holds
(`Numbered`). The step that matters is `Dial`: the new number is taken from the
replica (`NextSeqIsFresh`), and neither Welcome nor backlog lowers it.

`LinksInv` says what a connection may be in the middle of: what a dialling member
has sent, that the relay's Welcome is the first of its answers and not read yet
while the member is joining, and that nothing is left on a dead link. With it,
`SyncInv` relates ledger, replicas and frames: a sender holds what it sends; frames
read in their order never make a hole in the replica that reads them
(`DownInOrder`); a replica and what is on its way to it make up the ledger
(`NothingSlips`); and a producer's next number leaves no hole. For what a producer
holds and the relay does not, `OffersInv` has the mirror image: it is on its way,
or still to be re-offered. A frame can be news only once, to the relay and to each
member (`NewsInv`), hence `LiveAtMostOnce`. In `RoomImplementsLog` the log is what
producers hold of their own: `PublishNext` is a `Produce`, what the relay or a member
takes from a frame a `Learn`, a crash a `Forget`, and everything else a stutter.

`StableProducers`, that no overlay that produces events is itself restarted, cannot
be dropped: `host_restart` is the counterexample to the first of these, and the
others rest on it. It says nothing of the relay, the links and the other members.
Beyond `MaxEventsPerProducer` the relay silently drops what a producer goes on
numbering (a hazard without a property), so `NothingIsStranded` is claimed within it.

### The store

The fields of `TeamState` are maxima. `VersionsAreOrdered` and `AdvanceIsOrder`
state that `Version::advance` follows a linear preorder (the clock when one of the
two is an own choice without a number, clock and number otherwise), and that it
takes the later. `FieldFollows` and `FoldFollows` carry "holds the latest of the
events folded" through one and through any number of envelopes, whatever their order
or repetition; `NewestOfNewest` does the same for the laps, of which a full history
forgets the oldest. `RuntimeInv` adds that every queue holds events of the room
only and that the room has each number and lap once. Two choices made at one
instant of the session clock are a listed hazard of the code: there the preorder is
no order on own choices, so `FieldsAreOfTheLatest` needs `~Ties`.

### Pit control

`PitInv` says when everything on its way was made: a write in the room in its phase and
at its stamp (`Stamped`), a request in the queue no more than the first two limits and
the snapshot's wait before it was queued (`Due`), a command no more than the third after
that (`InTime`). A snapshot may be older than the row of the moment, by a wait that no
limit counts and the age that `SNAPSHOT_STALE` does (`Sights`). `CarriedOut` needs
`Pending`: what is still posted, applied to what is ticked now, gives what was asked
for.

### Fuel

`FuelInv` has the tracker's view of the lap in `TrackerFollows` (an untouched tracker
that has seen every row knows how far the car has driven since its line), the live
figure's in `LineKnown` (with every row seen from before the line on, the smoothed level
is the tank's, at the line and now) and the frame's in `FramesSee`. The plan's figure is
the greatest burn of the window, and a window that drops its oldest lap has a greatest,
too: `Greediest` says so of each of its ends.

### Auto Fuel

The seven actions that take a second differ only in what they make of car, menu and
visit (`OneSecond`, `Moves`); what Auto Fuel then does is the same lemmas for all
(`SecondRow`, `SecondLane`, `SecondAsks`). `VisitInv` is what it may conclude of a
visit it saw the start of, with no row lost: the watch follows the falling tank and
its target is the rig's (`EdgeHolds`); until the rig has worked, neither the level nor
the box it remembers speaks for a service (`VerdictHolds`). That the
visit starts clean is `Tracked`: a row on track, read by its driver with Auto Fuel on,
leaves nothing of an earlier visit.

`NothingAfterService` is of visits on which rows are lost and Auto Fuel is switched,
so it rests on what outlasts those. What `TrackPitLane` remembers of the lane stays
while the rows are of the lane (`Stays`): an entry level no higher than the one the
car came in with (`EntryKept`), and that there was a load. Of a stop it was told of,
either it knows that it was served or the box is clear, and the next row it sees says
so (`LoadKept`).

`TankMeetsTarget` takes more, since an order is a second on its way while the car
burns. `TankHolds` follows the load second by second: what is set is what was missing
now, or one or two burns ago, and the order under way is for what is missing now
(`BeforeFill`); when the car stands, the load and what was burnt since make the
target; from the rig's start its goal does. `SecondAsks` gives the order, `OneOrder`
what the sim makes of it, `LoadCovers` that a load rounded up covers what is missing by
less than a litre.

`CodeTimes` are the figures this leans on: `AUTO_FUEL_MIN_INTERVAL` is two seconds, so
a load that has changed is asked for again in the second after it was set; a request
lives for two seconds or more, so it outlives the row it waits for; and a car burns no
more than half a litre in a second of the pit lane. Without the second or the third TLC
finds a stop that falls short of its target.

### Standings

A row's position is one more than the number of rows before it, so that positions run
from 1 without gap or tie says that the sort key is a strict total order
(`BeforeIsOrder`, `PlacesDiffer`, `PlacesRun`): each of the three orders ends with the
car's number, and `append_unscored` gives a car one row. `ViewsAgree`: with the latest
results in hand the key of a row does not ask which cars the client renders.
`StandingsInv` has the latch of every car between the laps seen of it and the laps
it has driven (`Latched`), whoever is away or not rendered. `LapsDownHold` follows
where the two are equal.

### Settings and the plan worker

`SettingsInv`: what is unsaved is where the live configuration differs from the last
one saved (`EditsAreUnsaved`); the file says what was last saved even while it does
not parse (`FileSays`); whoever has loaded under the mutex holds what the file says
(`HolderIsCurrent`). The last is what the mutex is for, and where a process that
skipped it would break the proof.

`PlanInv`: a plan found was found in the room of the worker's view (`Books`), the
refresh timer never has longer to go than a period less what has passed
(`TimerRuns`), and while the plan shown is outdated, the time since the site changed
is less than a period and the requests (`Ages`).

### Stints

`StintBooksBalance`, for every world, bound and limit: no count is lost or made up
however visits, gaps and the scorer's counts interleave. There is a lemma for each
stage that changes the books; each keeps the balance by itself, except that a stop's
`pit_count + 1` is only made good by `RecordLaneOutcome`, so the two are one lemma
(`RecordLaneOutcomeSound`). The lane and the stint appear in none of them: nothing
that is concluded from them can upset the balance, only which account a stop goes to.

`StopsTakeTheTimeStood` and `StopsSettle` relate the overlay's view of a visit to the
visit. `Tracks`: it knows whether the car is there and in the lane, and a visit it has
seen from its beginning (`Witnessed`) was not begun in the garage. `AtMost`: what it
reckons the car to have stood, the spell under way included, is no more than the car
has, by a second for each spell, unless its position was missing and it has stood for
long enough anyway. `AtLeast`: it is no less than the car has stood by more than the
seconds without a position and the time it takes to see that it stands. The two meet
when the car leaves: `VisitIsJudged`. `Settles` then has the count, the start of the
stint and that no exit is in doubt, of a car that never left the world.

`CodeLimits` are facts of the code's constants, 2, 3 and 1 seconds: a stop is at most
a second longer than the time it takes to see that a car stands, and of the world, that a
service outlasts both by the seconds tolerated without a position. With a longer
`MIN_STOP_SECS` a service that is seen late would be a drive-through.
`StintAssumption` has `StoppedConfirm # 0`: at zero every car in the lane is frozen.

### What the proofs found out

* A `CASE` with overlapping arms is any of them; two such in `PlanFeed` were made
  disjoint, as the code's `if`s are.
* `AtMost` is inductive only with `anchor_pct <= pos`: a remembered position ahead of
  the car could otherwise come to be the car's without having been seen there.
* `PitControl` and `PlanFeed` count the members of their sets of corners and plans,
  which are finite: now assumed.
* Bounds of zero for time and laps, and a `None` that is one of the records it is to
  be told apart from, are excluded where it matters.
* `TankMeetsTarget` used to exempt a box ticked for no load only if the target was not
  above the tank. TLC, given a tank smaller than the target, found the same of a full
  tank: Auto Fuel unticks the box, takes that for a stop served, and what the lane
  burns is not replaced.
* The standings were sequences sorted by a fold; as a set of rows with places they are
  shorter, and the sort is what it should be by definition.

### How far the prover goes

The library's induction theorems cannot be used, so where a fold over a queue is the
point (`PitProofs`, `RuntimeProofs`) it is a recursive function, whose existence is a
lemma, and the induction is by least counterexample from the well-foundedness of `<`
on the naturals.

Only model-checked:

* `NoVisitCountedTwice`, which is false of a world where a car goes missing *and* its
  scorer publishes at any time (above); `ConfirmedStopEndsStint` and
  `SettledRangeSpansNoStop`, which hold for a `PitLoss` and a `ReturnGrace` that fit
  the world;
* that all overlays of a room show the same: `OneEventPerNumber` and
  `FieldsAreLatest` give it, each proved of its module, not of their composition;
* `Convergence`, `EditsReachDisk`, `BindsReachOverlay` and `LookupSettles`: liveness
  under fairness, where the prover has no support.

## 5. Plan

In order; earlier stages are done.

1. *Done*: the room, the store's fold, pit control, the numbering theorem,
   `StintState` and the theorem on its books; the driver's lap records with the
   other fuel books, Auto Fuel, the standings with their lap latch, the settings
   file and the plan worker.
2. Proofs. *Done*: the room and its refinement, the store, pit control, fuel,
   Auto Fuel, the standings, settings, the plan worker, and of stints what section 4
   lists. Left: of stints `SettledRangeSpansNoStop` under a `PitLoss` no longer than a
   service, and `NoVisitCountedTwice` of a scorer who publishes only while the car
   races.
3. `SyncJoin`: invite, throttle, `Refused`, shutdown.
4. The feed's scalars against the five-second silence alarm of
   `observe_driver_freshness`; the handover drawn from a plan.
5. Trackers of `telemetry/session.rs` that are left: `PlayerStops`,
   `PositionChange`, `ScoringGap`, seat resolution; then the estimator of stint
   ages in full, in place of `Vouched`.

## 6. Not modelled, and why

Drawing, themes, input devices, tray, licence, launcher: input and output without
state that outlives a frame, or operating-system calls. The black box's pages and
cursor are state of a single thread that follows from the last key; one effect is
worth knowing (a page change and a press in one frame act on the old page's rows,
`app.rs` 1361–1380). Decoding of telemetry and session YAML: copying. The
estimators, the Relative's gaps, ratings and net positions are arithmetic on
measured floats of one row. `launcher.toml` and `iraceplan.toml` are plain writes
by one process. In numbers, most of the source is this drawing and arithmetic with
its tests; what keeps state between rows, frames or messages is what the modules
above and the plan are about. The list with reasons is in `PROJECT.json`.
