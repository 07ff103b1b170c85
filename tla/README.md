# Verification of rusty-pingus

TLA+ modules, TLC configurations and TLAPS proofs for rusty-pingus, a self-hosted uptime monitor: one process
that probes endpoints on a schedule, keeps monitors and results in SQLite, and serves a web dashboard. Line
references are to the repository (`src/...` below is its source directory; in `PROJECT.json` it appears as
`src/src/...`). `PROJECT.json` lists every component, run, mutant, hazard and theorem, and maps each definition
to the lines it models.

Checking: `tlc -config MCProbes.cfg MCProbes`, and likewise for the other runs below; `tlapm
SchedulerProofs.tla` for the proofs. Some modules hold definitions commented *Mutation*. They take part in no
specification: each is a plausible bug, and replaces the definition it stands before when one wants to see that
a property notices it.

## The system

One tokio process. `main` migrates old configuration files, loads the monitors, and starts the scheduler and
the web server, which share the SQLite pool, the `MonitorStore` and a broadcast channel.

| Part | State | Operations | Talks to |
|---|---|---|---|
| Startup (`main.rs`, `monitors/mod.rs`, `config/`) | `config.toml`, `monitors.toml`, the `monitors` table | migrate `[[monitors]]` to `monitors.toml`, parse, import into an empty table, tag name-keyed history with ids | the database, the file system |
| Monitor store (`monitors/mod.rs`) | the snapshot `inner` under a `RwLock`, the watch channel, the `monitors` table | `add`, `update`, `set_enabled`, `remove`, `list` | HTTP handlers call it; the scheduler and the retention loop follow its watch channel |
| HTTP handlers (`api/mod.rs`) | none of their own; dropped when a client disconnects | validate, call the store, purge history after a delete; queries | store, database |
| Scheduler (`scheduler/mod.rs`) | `task_tokens`, one task per enabled monitor | `diff_and_reload`, `spawn_monitor`, shutdown | watch channel in; results to the database and the broadcast |
| Rollup loop (`scheduler/mod.rs`, `db/mod.rs`) | `next_from`; `probe_rollup_1m` | aggregate completed minutes in chunks; recover its position at start | `get_uptime` and the series queries read what it writes |
| Retention loop | none | hourly pass over the monitors of the list | deletes from the result tables |
| Probes (`probe/`) | `GW_CACHE` of the border probe; the ICMP clients with their counter of identifiers; sockets | `run_probe` for HTTP, TCP, ICMP, public IP, border, traceroute | scheduler; the public-IP probe reads its last row |
| Traceroute tables (`db/mod.rs`) | runs, hops, interned addresses | insert, prune, delete, the hop query | traceroute tasks, handlers |
| Live view (`api/mod.rs`, `assets/app.js`) | broadcast receivers; the page's list of monitors | stream and poll; optimistic toggle and delete | scheduler's broadcast, store, database |
| Edit form (`assets/app.js`) | `editingId`, `editingOriginal` | open, fill, save | `/api/monitors/config`, `update_monitor` |
| History queries (`db/mod.rs`) | none | series in buckets, state segments, segments per hop | the result tables and the rollup |
| Settings (`monitors/mod.rs`, `config/`) | a monitor's configuration, its JSON, `[defaults]` | conversion, defaults, serialisation, retention | clients, the legacy file, the scheduler |
| Tray (Windows), web assets | - | quit, reload, static files | `main`'s cancellation token |

What is hard about it: a write lock held across an await, while a handler can be dropped at any await and its SQL
statement still runs; a watch channel that coalesces changes; cancellation that is a request and loses a race in
`select!` at random; four writers (probes, rollup, retention, purge) on the same tables, each statement of which
may fail; a position recovered from the table it fills; results stamped in one minute and stored in the next;
tables without enforced foreign keys; a raw socket that delivers everybody's packets, and ICMP clients shared by all
pingers; a page that merges a lossy stream, polls that overlap and changes it has shown before they are made; a form
that is filled after an await; settings in two units that are converted again at every start; and a startup migration
that touches two files and a database with a crash possible between any two steps.

What makes each part correct, in a sentence: the store is an atomic registry that never reuses an id; exactly the
enabled monitors have a task, and no task is out of reach; a purge leaves nothing and retention reaches
everything; no minute with results is passed over; no monitor is lost in a migration; a hop shows who answered
that hop; the traceroute tables refer to what exists; a border verdict is one that explains the pings;
an ICMP cycle counts its own answers; the note of a public-IP row is true; the page comes to show what is stored; a save
of the form changes nothing the form does not show; a query's buckets and segments account for every result of the
window; and settings survive a restart.

## Modules

**MonitorRegistry** is the abstract specification: a map from ids to configurations changed by one atomic Add,
Replace or Remove, with unique names and ids that are never handed out again. **MonitorStore** is the code:
requests move through *validate* (against a snapshot read under the read lock, which is released), *lock*
(`write().await` with the checks made under it), *db* (the statement, with the guard held) and *swap*. A statement
commits or fails; a handler can be dropped at each point, in *db* leaving its statement behind (`orphans`); the
process can restart. `inner` stands for the snapshot and the watch channel's value: one synchronous block sets
both. Everything the store never looks at in a configuration is one value, `settings`. `ImplementsRegistry` is
`MonitorRegistry!Spec` with the table as `entries`.

**Scheduler** is `run`, `diff_and_reload` and `spawn_monitor`. A disabled and an absent monitor are the same to
it, so the list maps an id to a `config_key` or `Off`. `Reload` is one step because `borrow_and_update` to the
last spawn has no await. A task is in its jitter sleep, waiting in `select!`, or in a probe; only the first two
look at the tokens. A key stands for the whole
serialised configuration, the name included.

**Monitoring** EXTENDS Scheduler: it composes the tasks with the ids of the registry, the two result tables,
the handler's purge, the rollup statement, the retention pass, time and crashes. Rows are told apart by age only
(current minute, complete, older than the retention), because that is all the writers look at. The purge's last step, `delete_traceroute`,
is there as a step at which a request can be lost; the tables it empties are TraceStore's.

**Rollup** is `rollup_loop` with the minutes spelled out: results stamped in a minute and stored later, chunks,
failures, restarts, and `get_uptime`'s choice of table. Statements treat all monitors alike, so it has one. Either read before the loop may
fail at any start; `skipped` is history and remembers which minutes such a start has put behind the loop.

**Startup** is `migrate_legacy_config`, `config::load`, and `MonitorStore::load` with the import and the backfill, plus the
changes a user makes while the program serves. A monitor is its name. The first start may find either old file, or both: the
second is what a migration cut short by an earlier version leaves, and counts as cut (`cutIn`). `config.toml` cut short by a crash may parse (it is
empty, or has a prefix that does; unset keys have defaults), and is then taken to name the same database, or not parse.
`toTag` is what the backfill has left: a statement for each table and each monitor of the list, taken in the order of the loop.

**Traceroute** is `trace_ipv4` on a network that may answer late, from any node on the way, or not at all, and that carries
other programs' packets. Two assumptions on the network: the echoes of a walk take one path, so that no router answers from beyond the target's distance,
and other programs' packets have another identifier than the walk (it has 16 bits). **TraceStore** is the three tables with the writers as transactions and the hop query as the
three reads it is. **Border** is `resolve_gateways`, `select_gateways` and `classify_border` with several probers on one cache.
Each cycle of a prober goes by any configuration, so edits are covered: one with its own local gateway leaves the cache alone, one with
just an ISP gateway pings that one and still detects. An attempt at detection makes up to three walks, over different sockets, until one finds a private
hop; since any replies are possible, one walk with some replies stands for them.

**PublicIp** is the public-IP probe: the candidates one after the other, the read of the newest row, the note, the stored row.
Probes overlap (a monitor's old task and its new one), fail, or cannot read. **Icmp** is the ICMP probe: pingers that send
their echoes one after the other over one shared socket, identifiers that are handed out in turn and wrap, answers that
come late or never. An answer that is older than the counter takes to wrap is dropped by `Recent`: 65536 echoes later.

**Dashboard** is the live view from the end of a probe to the card on the page: `insert_result`, the broadcast and its ring,
the stream with its breaks, `list_monitors` read by read, the page's polls (which do not wait for each other), toggles and
deletions, the list replaced under a toggle that is under way, changes elsewhere. A result is its stamp. **EditForm** is `openEdit`, which
goes on after its `await` whatever has happened meanwhile, `submitMonitor`, `closeModal` and `update_monitor`. Of a configuration it
keeps what the form does not show; `since`, the change a configuration comes from, is history.

**History** is the queries as operators over a history that grows and a rollup that lags: `GetSeries` with the choice between
its two paths, `GetStateSegments`, `GetHopSegments`. A bucket is the set of results it sums up. Segments are a recursive function of the number of results
streamed, `SegmentsAfter`, which is what makes them provable. **Settings** is the life of a
monitor's configuration as numbers: the conversions of `Raw*MonitorConfig`, `apply_defaults`, the JSON, `load`, the ticker's period and
the cutoff of the retention pass with its cast to a signed word. A word has `MaxWord + 1` values, and a second, an hour and
a day are scaled with it, so that saturation, wrapping and rounding happen in a small instance.

Two modules put parts that share no state into one run; a behaviour is one of one part, with the others in an initial
state. **MCProbes** has Scheduler and what its tasks run: Traceroute, TraceStore, Border, PublicIp, Icmp. **MCParts** has Startup,
Dashboard, EditForm, History, Settings.

## Runs

| Run | Instance | Question |
|---|---|---|
| `store` | 2 requests, 2 names, 2 ids, 1 drop | does the store implement the registry, and does the list it shows stay the table? |
| `store_dropped` | same | is an update that answers true in the table? **No** |
| `scheduler` (MCProbes) | 2 monitors, 2 keys, 4 tasks, 3 changes; 2 hops with 2 queries; 2 monitors, 2 addresses, 3 runs; 2 probers, 3 hops; 2 overlapping readings, 3 addresses; 2 pingers, 3 identifiers, 4 echoes | do reloads track the list, without leaking or disturbing a task? And the properties of the probes and the traceroute tables |
| `scheduler_live` | 1 monitor, 2 keys, 3 tasks, 4 changes | do tasks settle, keep probing, and end on shutdown? |
| `monitoring` | 1 monitor, 2 tasks, 3 changes or crashes | is a purge complete, and does retention reach what is old? |
| `monitoring_orphans` | same | is every old result pruned? **No** |
| `rollup` | 5 minutes, 1 row, 3 starts, chunks of 2 | does the loop leave no gap but what failed reads skip, and catch up? |
| `rollup_partial` | 5 minutes, 1 start | do queries use raw rows until the backfill is done? **No** |
| `parts` (MCParts) | 2 names, 2 cuts; 2 cards, 2 polls, 2 events, a ring of 1; 2 monitors, 2 changes, 2 forms; 3 results, up to 3 buckets; words up to 31 | the properties of Startup, Dashboard, EditForm, History, Settings |
| `startup_again` | Startup alone | is `monitors.toml` imported once? **No** |
| `startup_strip` | Startup alone | does a migration remove all of `[[monitors]]`? **No** |
| `traceroute_reply` | Traceroute alone | does a walk end when the destination replies? **No** |

The **No** runs are the findings. In order: a dropped `remove` or `add` leaves the snapshot and the table different, and a
later `update` answers true although its UPDATE touched no row; rows of a deleted id
that its one purge missed (a failed or abandoned purge, a probe in flight) are in nobody's list and stay for ever;
`get_uptime` uses the rollup as soon as one minute of the window is in it; deleting every monitor empties the table,
which is what the import takes for a first run; stripping ends an entry at the entry's own `[monitors.headers]`,
which stays in `config.toml`, so that it does not parse at this or any later start; and a refusal after an echo reply in the same hop clears
`hop_reached`.

*Bounds.* Two requests are enough for every race in the store, since only one holds the guard and each race is
between it and one that validated before; two ids and two names give a reused id, a taken name and a swap of
names. The scheduler needs one task more than monitors for each restart still under way, hence 4 for 2, and 3
changes coalesce, undo and restart. One monitor with a key suffices in Monitoring: the purge, the passes and the
rollup treat ids independently. Five minutes hold two chunks, a late result behind a chunk, and restarts; a start with history may begin anywhere
in them. Three starts let one skip minutes because a read failed, the next do so again or go back, and a third follow. Two cuts allow a failure during the recovery from a failure. Two hops with two queries have a late answer to an earlier
query of the same hop and of the previous one, and the target may lie beyond the last hop (distance 3). Three runs of
two monitors share an address, and one is pruned while another remains. Three readings of the public IP, two at a time, let a note be
computed from a row that is no longer the newest when it is stored. Three identifiers and cycles of two echoes let an identifier
come again in the next cycle. A ring of one loses updates as soon as two are broadcast; two events are a result and a
change, two results of one monitor, or either with a break or a failed poll. Two forms with two changes: a fetch that answers after another
form was opened or closed, and a save of what has changed since. Results 1, 3 or 4 ms apart with 2 ms to the second and 2 s to the minute fall on and
beside the borders of seconds, minutes and windows. With words up to 31 the retention of 14 hours
is the last one but one that a signed word can hold, 28 is negative, days of 20 saturate, and 10 hours are what chrono can
represent. Counters that the bounds cap (`MaxId`, `MaxDrops`, `MaxChanges`, `MaxStarts`, `MaxCuts`, `MaxForeign`, `MaxRuns`,
`MaxExpiries`, `MaxReadings`, `MaxEchoes`, `MaxPolls`, `MaxEvents`, `MaxFetches`, `MaxRows`) appear in guards only. Symmetry (in the
requests of `store`, the tasks of `scheduler`) is used where only safety and action properties are checked, never with liveness.

*Deadlock* is checked for `store`, `store_dropped` and the Monitoring runs: those systems never stop. The others may: the scheduler
and its tasks end on shutdown, a walk ends, users and probes of the page come to rest, and the clock and the starts of Rollup and Startup are bounded.

*Fairness.* `scheduler_live`: sleeps end, tickers tick, probes return (all have timeouts), and tokio polls ready tasks:
weak fairness. `select!` polls its branches in random order, so a branch that is ready again and again is taken:
strong fairness for `StopTask` and, in `run`, for `Reload` and `StopRunning`. `monitoring`: the loops tick, and a prune that is tried
again and again succeeds some time; nothing is assumed of clients, of a purge, or of crashes. `rollup`: the ticker ticks, the process is started
again, and failures of the chunk statement end some time; without the last, a tick can step back a minute for each
chunk it advances. `parts`: the program makes progress and is started again when it has ended
(Startup); probe tasks run on to their broadcast, the page's timer ticks, polls and requests end, updates that arrived are shown
(Dashboard). Nothing is assumed of users, and the stream need never be open: the poll alone must do.

## Properties worth a comment

- `SnapshotTracksTable`: between a commit and the swap the snapshot lacks exactly the change of the request that
  holds the guard. It has the premise that no handler was dropped since the load, which is what `store_dropped` is about.
- `NoLeakedTask`, `NothingMissed`, `UnchangedUndisturbed`: a task nobody can cancel would probe a deleted monitor until the
  restart; a coalesced change must not be missed; a reload for one monitor must not reset another's ticker.
- `PurgeComplete`: the rollup, also a backfill's chunk, may run between the DELETEs. It holds because raw rows go first, and excepts only
  a result stored after them (`late`).
- `PassedMinutesAgree`: a minute the loop will not visit again is rolled up exactly. The loop revisits one minute;
  the model's assumption is that a result is stored before the minute after its own ends. A failed read of the position starts the
  loop at the current minute (`scheduler/mod.rs:252-255`), and what lies before is not rolled up: the property excepts `skipped`, exactly the minutes
  from the one before the place the start ought to have taken to the one before its actual place. If no read fails, `skipped` stays empty. `EventuallyRolled` has the same
  exception, so a minute that was skipped must be rolled up once a later start goes back to it.
- `StartServesInTheEnd` excepts a start cut short between the write of `monitors.toml` and the rewrite of `config.toml`:
  afterwards the migration is skipped because `monitors.toml` exists, and `config.toml` does not parse (`[[monitors]]` is not
  the table `[monitors]` of the schema, or the file is torn), so the program ends at each start until somebody edits it. It
  also excepts the nested entries of `startup_strip`.
- `ImportedWhole` excepts an import that ended in the middle (a crash, or a duplicate name, which the UNIQUE column refuses):
  the next start finds a table that is not empty and never imports the rest. The exception ends with the first import that runs to its
  end: no deletion, second import or crash afterwards makes it untrue.
- `VerdictExplains` compares `classify_border` with a reference definition: the reported segment explains the pings with the
  fewest gateways that block echoes.

- `PageCatchesUpInTheEnd` is `PageCatchesUp`, of the behaviours of the dashboard: when users and probes rest, the page comes to show the stored list
  and keeps showing it. It is not an invariant that the page never goes back: a poll read before an update may overwrite that
  update, a toggle that fails may undo a card of an old list, an update of an older probe may follow that of a newer one. Each lasts until a later poll.
- `EditKeeps` ties what is saved, what the form was filled from and what is stored. `openEdit` looks at nothing after its await, so an answer
  that comes late fills the form again; the id and the copy are set together, which is what keeps a save from mixing two monitors.
- `NotesAreTrue` separates what holds of every row (a note names an address recorded before, not the row's own) from what holds of
  probes that did not overlap (`alone`).
- `TallyOwn` is about answers of other pingers, of earlier cycles, and duplicates; `heard` is history.
- `SeriesExact` relates both paths of `get_series`: each result of the window in exactly one bucket, no label later than
  a result in it, and the rollup's series equal to the raw one where the window and its buckets are whole minutes. Whole
  minutes are asked of the window in milliseconds (`WholeMinutes`): a window that begins with a minute and ends inside a second, with
  buckets that are whole minutes in whole seconds only, puts a minute in one bucket in the rollup and its results in the next one
  in the raw rows. The proof would not go through with the weaker premise, and TLC has a counterexample (instant 9).
- `SegmentsExact` states what segments mean, without the fold: where they begin, that they leave no gap, and that a result inside
  one is in its state, except on the border it shares with the next.
- `SurvivesRestart`: what the stored JSON is converted to is what was listed. `PrunesOnlyOld` says that a pass deletes no row younger than asked,
  and none older is left if chrono can represent the hours. It has the premise that the
  retention asked for is at most half the range of a word, see below.

Disagreements between documents and code that were noticed and have no run: `config_key` contains the name, so a renamed monitor's
task is cancelled and started anew, against the comment at `scheduler/mod.rs:64`; the border table (README.md:170-174) gives
`lan_down` for an unreachable gateway whatever the upstream says, the code reports `ok` when upstream answers;
README.md:42 states `interval_ms >= 5000`, `timeout_ms >= 1000` and `timeout < interval` as validated, the code asks for
an interval of at least 500 ms and a timeout that is not 0; README.md:44 says files in seconds are rewritten in `*_ms` form, no code
does so; a failed read of the watermark (`scheduler/mod.rs:253`) starts the rollup at the current minute, which skips minutes (`skipped` in Rollup),
although the comment at `scheduler/mod.rs:280` is about never skipping a range;
the retention is cast with `as i64` (`scheduler/mod.rs:212`), so a `retention_hours` from 2^63 on, or a `retention_days` large enough to
saturate, is negative and every row goes, and hours that chrono cannot represent panic and end the retention loop (Settings has both);
`[defaults].retention_days = 0` deletes everything hourly, while `retention_hours = 0` of a monitor means the default and the old
`retention_ms = 0` means one hour; README.md:164 says a changed public IP is surfaced in the detail, but a failed probe between the two readings loses the note;
`get_state_segments` takes the first word of any detail for the state, also of a border row that only says that no gateway was found; buckets of a series
share a label when more are asked for than the window has seconds; and the form resumes a monitor that was
paused elsewhere after it was filled, against the comment at `assets/app.js:155`.

## Proofs

Eight proof modules; their theorems hold for every value of the constants that satisfies the `ASSUME` of the module (bounds are
natural numbers, sentinel values are outside the sets they are sentinels for, a chunk has at least one minute).

**MonitorStoreProofs.** `Implementation`: the handlers implement the registry. The argument needs `TypeInv`, that
whatever statement has been submitted or abandoned carries a validated configuration; then each step is a registry
step or a stutter, the UNIQUE column supplying the registry's guard. `NoReuse` follows through the refinement.
`StoreTypes` is the type invariant by itself. `SnapshotCorrect`, `SnapshotNames` and `GuardReleased` come from `SnapshotInv`: the properties themselves are not inductive without
`TargetListed` (what was checked under the guard still holds at the statement) and `NoOrphans` (no drop, no abandoned statement).

**SchedulerProofs.** `TypeCorrect`, `NoTaskLeaks`, `NothingIsMissed`, `Undisturbed` from `SchedInv`, which adds `TokensName`: no
two entries name one task, and a named task that is alive runs its entry's monitor and was not told to stop. Without it a
reload could cancel a task that another entry still names.

**RollupProofs.** `TypeCorrect` and `NoMinuteSkipped` from `RollupInv`, whichever reads and chunks fail. The strengthening is `WatermarkSafe`
(below a rolled minute but its predecessor there is no gap that is not in `skipped`, so a restart may begin there), `RecentOnly` (only the current and the
previous minute still get rows), `Behind` (the loop is never ahead of the clock) and `ChunkReady`. A start that goes back takes minutes out of
`skipped`; no rolled minute lies beyond such a start's place, so `WatermarkSafe` does not need them there.

**MonitoringProofs.** `PurgeLeavesNothing` from `PurgeInv`, which adds the half-way point: once the raw rows are deleted and no
result came late, the raw table stays empty, so the rollup has nothing to bring back.

`MonitoringTypes` and `NoTaskLeaksHere` carry the scheduler's `SchedInv` over to the composition: a step of Monitoring is one of the
scheduler's, leaves it alone, or is a crash, and a crash keeps `SchedInv` because it leaves no task and a notification pending.

**TraceProofs.** `HopsOwn` and `TargetReached` from `WalkInv`: sequence numbers name a hop and a query of a walk one to one (`SeqNames`, for
at most 255 queries a hop, the bytes they are packed in), so an answer on the wire names the echo it answers, and a
hop holds only addresses of answers to its own. A late answer is in `WalkInv` from when it is sent to when its hop has long been left.
`ReferencesKept` and `AnswersOwn` from `TraceInv`: ids of runs and of addresses are unique, a hop's address is in the table and some hop has each address
(`InternedOnce`: interning a run's addresses adds each once, whatever was there), and `ReaderOK`: the run the reader has chosen is its
monitor's for as long as it exists. The reads are not one transaction, so that has to survive deletions and inserts between them; it
does because ids of runs are not given out again.

**ProbeProofs.** `BorderTypes` and `OneWalkEach` from `BorderInv`: a walk uses up the expiry that made the last attempt
stale (`walks <= expiries + 1` alone is not inductive: it must be `walks <= expiries` while no attempt is fresh). `Kept` rests on `Selected`, that what a walk finds are gateways, and `Merged`.
`VerdictsExplain` shows that the silent gateways behind a verdict are among those that any other explanation needs.
`Notes` from `IpInv`: stamps are distinct, and nobody can still store a row before one that was alone. It
speaks of the rows about to be stored as of those that are.
`TalliesOwn` from `IcmpInv`: identifiers are the echo's number modulo `Idents`. Two echoes on the wire with one identifier are a whole turn of
the counter apart (`RemainderNames`), `Recent` drops what is that old, and so an identifier on the wire names one echo, and what a
waiting pinger accepts answers the echo it sent. `ProbesTypes` puts the types together: the run `scheduler` is a behaviour of each part (`PartsOfProbes`), so every
theorem about a part holds in it.

**PageProofs.** `DashSafe`: the live view keeps its types from `DashInv`, which bounds what a poll has read of a list that
others change meanwhile. `SaveKeeps` from `EditInv`: what a fetch has read, what the form holds and what a save carries are copies of
one monitor's configuration, the one they name; a copy that is as new as what is stored is what is stored.
`SeriesAlwaysExact` is arithmetic, for any units: a bucket's label is not later than the second of a result in it (`RawLabel`), and in whole
minutes a result and its minute fall in the same window and slot (`SameWindow`, `SameSlot`), so both paths group the same results.
`SegmentsAlwaysExact` follows the stream by induction, as the least number of results after which it would be false: `StreamOK` says of
the segments so far what `SegmentsExact` says of them in the end, with the last one ending at the last result. That results are in the
order of their times is `HistorySafe`. Both hold of every window, not of those in `Instants` only.

**ConfigProofs.** `Entries`, `WholeImport` and `Rekeyed` from `StartupInv`: names of `monitors.toml` are in the table, have been there, or are
left to import, unless an import was cut and none has run to its end; a start that strips or writes has every entry in `monitors.toml` already; while
the backfill runs, rows under a name are in `toTag` or have been tagged.
`RestartKeeps` from `RoundTrip`: a configuration that conversion or defaults can yield (`Converted`: floors are met,
no count is 0, no retention is 0) is converted back from its JSON unchanged. `OnlyOldGo` follows the retention from what was given to the cutoff and to the rows on either side of it. Both hold for words of any size.
`PartsOfSystem` and `PartsTypes` do for the run `parts` what `PartsOfProbes` and `ProbesTypes` do for `scheduler`.

Every invariant and every action property of the passing runs is a theorem. Only model-checked: the liveness properties
(`Settles`, `KeepsProbing`, `ShutdownEnds`, `RetentionReaches`, `EventuallyRolled`, `StartServesInTheEnd`, `PageCatchesUpInTheEnd`), since the prover
handles neither fairness nor ENABLED. The induction theorems of the library take an operator, which the provers cannot instantiate;
the two inductions here (over results, and that a recursive function exists) go by a least counterexample, `LeastNumber`.

## Not modelled

- SQLite itself, migrations, pragmas, VACUUM: taken as statements that are atomic and may fail.
- HTTP, TCP probes: one awaited call with a result, which Scheduler takes as given. RTT statistics, host names, the summary and the extent of a traceroute.
- Of the border probe: `resolved_path`, which only reads, and the sockets of a walk. That a complete detection is never made again, also after a change of
  network, is stated by the code ("topology rarely changes while running") and is part of `DetectionKept`.
- Of the queries: the page of raw rows, the extent and the handlers' default windows, plain selections; buckets' averages, which their sets of results fix.
- Of the settings: names, hosts and URLs, which conversions trim and validation checks by themselves; `max_hops`, clamped on both sides like the other counts on one.
- The form for adding a monitor, filters, the monitor page and theme scripts: presentation, with no state shared with another part.
- Web server, embedded assets, tray: routing, files and a GUI loop; the tray's reload is a shutdown and a new process.
- Real time: intervals, jitter and the five seconds `main` waits for tasks at shutdown. The models say what happens in which order, not when.

## Plan

1. Done: the registry and the store; the scheduler; the history; the rollup; the start; the probes with state and the traceroute tables;
   the live view and the edit form; the queries; the settings. Proofs of every safety property the passing runs check.
2. Next, proofs: the registry's refinement carried into Monitoring, whose ids are a simplified copy of it.
3. Open in the models: the retention's hours in place of the abstract ages of Monitoring.
