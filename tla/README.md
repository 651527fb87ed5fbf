# Node2Socks: verification

TLA+ models of Node2Socks, the TLC runs that check them, and proofs that the TLA+
proof system checks. Node2Socks is a Windows desktop application (Tauri, Rust) that
gives every proxy node a fixed local SOCKS port, a *Slot*, served by a Mihomo child
process, and synchronises its configuration through a small cloud server. Its central
promise is *fail closed*: a Slot leaves through the node the user bound to it, or not
at all.

Paths below are relative to `src/`. `A/` stands for `apps/desktop/src-tauri/src/`.

## Inventory

| component | state | operations | modelled in |
|---|---|---|---|
| Slot runtime: `A/commands.rs`, `crates/runtime-service`, `core-adapter/{controller,provider}.rs` | `slot_bindings`, `nodes.is_present`, `ProductState.core`, `crash_monitor`, `core_running`, the provider bridge's payload | `bind_slot`, `update_slot`, `refresh_subscription`, `start_core`, `stop_core`, `rebuild_core`, `restore_slot_selectors`, `fail_closed_disappeared` | `SlotRuntime` |
| Mihomo manager: `core-adapter/mihomo.rs` | child process, topology, restart attempts, monitor task | `start`, `stop`, `recover_if_crashed`, `shutdown` of the monitor | `SlotRuntime` |
| Cloud sync, device: `crates/cloud-sync`, `A/cloud_commands.rs` | rows and their `sync_version`, `sync_outbox`, `sync_versions`, `cloud_profiles.last_cursor` | `enqueue_*`, `cloud_push_local`, `push_outbox`, `acknowledge_versions`, `cloud_pull_merge` | `CloudSync` |
| Cloud server, records: `services/cloud/src/api.rs` | `sync_objects`, `sync_events` | `push_records`, `pull_records` | `CloudSync`, `VersionedLog` |
| Cloud sessions: `api.rs`, `A/backend_live.rs`, `A/cloud_commands.rs` | users, devices, refresh tokens, vault envelopes; `ProductState.cloud`, `sync_key`, `cloud_profiles`, the key file | register, login, refresh, logout, change password, revoke device, put and get the vault, restore a session | `CloudSession` |
| Slots and ports: `crates/slot-manager`, `A/{commands,advanced_commands,cloud_commands}.rs` | `proxy_slots.local_port`, `slot_bindings`, `port_cooldowns`, the settings | allocate, create and delete, one or a batch, merge the Slots of other desktops | `SlotPorts` |
| Refresh scheduling: `A/refresh_batch.rs`, `subscriptions/service.rs` | `next_refresh_at`, the cached payload, the bridge's payloads, `core_running`, the background task | refresh one, all or what is due, create, edit and delete a subscription, merge those of the cloud, exit | `SubscriptionRefresh` |
| Latency tests: `A/advanced_commands.rs`, `A/latency_pool.rs` | `latency_owner`, `latency_jobs`, `latency_progress`, result rows, the hidden selectors of Mihomo | start and cancel a job, test one node, test all, the worker pool, the probe with its retries | `LatencyJobs` |
| Subscription repository: `subscriptions/repository.rs` | `subscriptions`, `nodes` | `upsert`, `delete`, `due`, `mark_error`, `apply_nodes`; sealing of payloads | partly, `SubscriptionRefresh`, `SlotRuntime` |
| Fetch, parser, bridge, system proxy: `crates/subscriptions` | none across calls, except the bridge's payloads | HTTP, detection and normalisation of formats | the bridge and the outcome of a download in `SubscriptionRefresh`; the conversions are not |
| Backend: `A/backend_live.rs` | windows, tray, `ProductState` | setup, dashboard polling, background refresh, exit | `SlotRuntime` (setup, polling, exit), `SubscriptionRefresh` (background task, orderly exit), `CloudSession` (restored session) |
| Diagnostics, crypto, DPAPI, storage, recovery, domain types, smoke binaries, user interface | | | no; the reason for each is in `PROJECT.json` |

How they interact: every Tauri command, the refresh that the backend starts every 30
seconds, the tray menu and the crash monitor are tasks of one tokio runtime. They share
`ProductState`: four mutexes and an atomic flag, and a SQLite file in which each call
opens its own connection. No lock spans a command. The monitor task owns an `Arc` of the
manager it watches. Mihomo is driven over HTTP and fetches its provider file from a
loopback bridge. The device talks to the cloud server in single requests with a timeout
of 15 seconds. A handler of the server takes the lock of its SQLite connection once or several
times: `push_records` and `pull_records` do all their work in one section, `refresh`, for
example, in three, between which other requests come.

What is hard: commands that interleave between two awaits, child processes that outlive
or predate the handles to them, an application that ends between two transactions,
answers that are lost after the server acted, and two version counters (a row's own
revision and the cloud's version) that meet in one field. `PROJECT.json` lists each
hazard at its line with the properties that cover it.

What makes each part correct:

- *Slot runtime*: no port ever leaves through a node nobody asked for on it; between
  commands, routes agree with bindings and with the catalogue, and where an overlap or a failure
  parted them, the next stop or rebuild that runs alone brings them together; a binding is
  advertised as orphaned only after nothing routes it; a running Mihomo stays stoppable;
  commands return.
- *Cloud sync*: the event log is the history of the records; an upload replaces only what
  its device has seen; a change leaves the outbox only when the cloud has it; the cursor never
  passes an event that was not taken over.
- *Sessions*: refreshes that overlap leave a token the server accepts; token, key and profile
  belong to one account; the vault opens with the current password; a logout leaves nothing
  behind unless the database refuses to forget.
- *Ports*: a port belongs to one Slot and is not handed out again while it cools down; what a
  merge applies by halves is merged again.
- *Refreshes*: what is committed reaches Mihomo, the bridge hands out what the catalogue was
  made from, what is due is attempted, an exit ends.
- *Latency tests*: two probes never share a selector, a result
  belongs to the node it is stored for, no selector is left open, every test ends.

## Modules

| module | what it is |
|---|---|
| `SlotRuntime` | the fail-closed core: database, bridge, managers, tasks |
| `MCSlotRuntime` | its TLC instances: who may run which command |
| `SlotRuntimeProofs` | types and routes, whatever overlaps and fails |
| `SlotSerialProofs` | a running Mihomo stays stoppable; what commands promise each other where nothing disturbs them |
| `VersionedLog` | what the cloud server promises: an append-only log of gap-free record versions |
| `CloudSync` | devices and server, with the network between them |
| `MCCloudSync` | its TLC instances |
| `CloudSyncProofs` | the server implements `VersionedLog`; what a device knows and what it keeps queued |
| `LatencyJobs` | latency tests: commands, pool, probes, and the selectors they share |
| `MCLatencyJobs` | its TLC instances |
| `LatencyJobsProofs` | types, selectors and the nodes they measure |
| `LatencyResultsProofs` | what a test leaves behind: blocked selectors, every node, the newest results |
| `CloudSession` | accounts, devices and tokens at the server; login, commands and restarts of one desktop |
| `MCCloudSession` | its TLC instances |
| `CloudSessionProofs` | proofs about it |
| `SlotPorts` | Slots and their ports: creations, deletions and a merge over one database |
| `MCSlotPorts` | its TLC instance |
| `SlotPortsProofs` | proofs about it |
| `SubscriptionRefresh` | refreshes, the catalogue, the bridge and the Core; the background task and the exit |
| `MCSubscriptionRefresh` | its TLC instance |
| `SubscriptionRefreshProofs` | proofs about it |

### SlotRuntime

A *worker* is a tokio task that runs one command at a time. Its `pc` names the await point,
or the database transaction, it stands before; one action is everything the task does up to
the next one. So the code between two awaits is atomic, and two tasks interleave exactly
where the code lets them. `coreLock` is the mutex around `ProductState.core`. The code holds it
across awaits in `bind_slot` (commands.rs:334-344), where others wait meanwhile, and around the
block of a disappeared node, the health call of `start_core` (commands.rs:383), the stop
(commands.rs:540) and the health call of the dashboard (backend_live.rs:186); these last three
are single steps of the model, and wait for the lock as a whole.

| state | code |
|---|---|
| `present` | `nodes.is_present`, and the nodes of the payload stored with the catalogue |
| `dbNode`, `dbState` | `slot_bindings.node_id`, `.state` |
| `payload`, `cacheFile` | what the bridge serves; the provider file Mihomo keeps on disk |
| `core`, `monitor`, `coreRunning` | the fields of `ProductState` |
| `mgr[g]` | a `MihomoManager`: its child, whether that child got the ports, its monitor task, `restart_attempts`, `config.topology`, and the selectors and provider nodes of the child; with `mon = "left"`, a process alone that outlived its application |
| `worker[w]` | a task: command, arguments, the `Arc` and the controller it keeps, what it read |
| `requested` | history: the nodes the user ever asked for, per Slot |
| `disturbed` | history: commands overlapped, or something failed or exited, since Mihomo was last at rest |

Commands start with `BindCheck`, `UpdateCheck`, `RefreshFetch`, `StartCommand` and
`StopCommand` and continue through the actions named after their parts; stopping and
starting are shared by `update_slot`, a refresh and `rebuild_core`, with `then` for where
they return to. `ChildExit`, `MonitorDetect` and `MonitorRespawn` are a crash and its
recovery, `DropManager` is `kill_on_drop`. `ExitAndRestart` is the end of the application
at any point: only an orderly exit stops the core (backend_live.rs:814-828, where a failure is
only logged), and `kill_on_drop` (mihomo.rs:286) does nothing in an application that is killed.
So any set of the running Mihomos may go on, with their ports and routes, and nothing finds them
again; `LeftExits` ends one from outside. `Noting` keeps `disturbed`: it is set by a command that
begins beside another, a call that fails, a child that exits and a dashboard that finds the core
unhealthy, and cleared when Mihomo is `AtRest`, with no process, monitor or flag left and one
task at most, in its start. Mihomo is not part of the repository; its
behaviour is taken from how the code uses it: a selector answers the node chosen if a
loaded provider has it and REJECT otherwise, chooses the topology's node when it starts,
remembers nothing across processes, and reuses the provider file that is on disk.

Abstractions: one subscription; the spawn up to a healthy controller is one step that may
fail; a node is a name; `listens` is FALSE for a child that started while another one held
the ports.

### CloudSync

| state | code |
|---|---|
| `object`, `events` | `sync_objects`, `sync_events` of one account |
| `local`, `created`, `edits` | the rows of a device; contents are named by the edit that made them and carry the row's own revision |
| `known`, `outbox`, `cursor` | `sync_versions`, `sync_outbox`, `last_cursor` |
| `pending` | a command between writing the row and enqueueing it |
| `push`, `pull` | an upload between listing, request and acknowledgement; a merge between two rows |
| `late` | requests their sender no longer waits for |
| `at`, and `at` and `own` of rows and events | history: the version the contents descend from; whether the base was the row's own revision |

`Create`, `Edit` and `Delete` stand for the commands and the background refresh that change
a row, `Enqueue` for the `enqueue_*` call after them. `PushList`, `PushSend` and `PushAck`
are `cloud_push_local`, `push_outbox` and `acknowledge_versions`; `ServerPush` and
`ServerLate` are the one transaction of `push_records`; `PullStart` to `PullDone` are
`cloud_pull_merge`, with the version of a row recorded in a step of its own because it is a
statement of its own. A device runs at most one upload and one merge at a time, because the
user interface refuses a second action of the same name (AppShell.tsx:63); with
`Overlap = FALSE` edits, listing and merging exclude each other as well. `Interrupts` says what
may end half-way: a merge between two events (`merge`), a merge between a row and its version
(`version`), a command between its row and `enqueue_*` (`enqueue`).

Abstractions: encryption, and with it the contents; the order of a merge (subscriptions
before Slots), since a record sees only its own events; the statements that write one row
are one step; one account, so no cursor is ever reset; fewer than 500 rows per upload.

### LatencyJobs

A test takes `latency_owner` and keeps it until its task ends; tests are numbered in that
order. A test is where its command or job stands (`at`), its pool (`queue`, `reported`, the
worker whose probe just ended) and one probe per worker (`task`). A probe's `step` names the
call to Mihomo it waits for, so the probes of a test, its pool and the user interleave at
every request.

| state | code |
|---|---|
| `core`, `born`, `coreRunning` | the Mihomo process that `current_controller` reaches; how many there were; `core_running`, which outlives a crash |
| `selector[w]` | what `node2socks-probe-w` of that process has chosen |
| `late`, `stray`, `unreset` | requests given up that may still act; history of the selectors they may change, and of those whose reset nobody confirmed |
| `owner`, `registered`, `cancelled`, `progress`, `stored` | `latency_owner`, the keys of `latency_jobs`, their tokens, `latency_progress`, the test a row of `node_latency_results` comes from |
| `task[j][w]` | `probe_node_latency_live` of a worker: step, node, attempt, and the process whose controller it holds |

`Acquire`, `Select`, `Delay`, `Reset` are a probe, `EndAttempt` decides whether it starts
over; `Fill`, `Report`, `Refill` and the `Wait...` and `Drain...` actions are
`latency_pool::run`, in the order of its biased `select!`; `Cleanup`, `Unregister`,
`PublishDone`, `StoreAll` and `Release` are what the three commands do after it. `Abort` is
`abort_all` reaching a probe at its next await, `Panic` a probe that ends with an error of
its own. A request may be answered, lost, or act later; one to a process that ended is not.

Abstractions: the three test addresses and the tries of one measurement are one step, as
nothing else changes between them; measured values and error texts; the pause between
attempts; `node_latency_results` in memory, which mirrors the rows; the order of the queue
and of the resets.

### CloudSession

One desktop and the server's accounts. A request at the server goes through one step for each
time its handler takes the database lock, so requests interleave inside their handlers; the
caller waits for the answer, or gives up and leaves the request to go on without it.

| state | code |
|---|---|
| `password`, `vault`, `device`, `token` | `users`, `vault_bootstrap`, `devices`, `refresh_tokens` |
| `requests`, `answer` | requests inside their handlers; answers their callers have not taken |
| `session`, `syncKey` | `ProductState.cloud`, `.sync_key` |
| `profile`, `active`, `keyFile` | `cloud_profiles` with the sealed refresh token and `last_cursor`, `is_active`, `cloud-vault-key.dpapi` |
| `outbox`, `versions` | the accounts whose keys and versions `sync_outbox` and `sync_versions` hold |
| `auth`, `cmd[t]` | `cloud_auth` between two awaits; a command between its refresh, its request and what follows |
| `cut` | history: devices whose session the server ended; whose refresh went without the desktop's taking its token, as the answer was lost or the caller had given up; restored with the token of their login, or of another device |
| `mixed` | history: a command outlived its login, or a login was cut off between its profile and its key file |

`RefreshSelect`, `RefreshRotate` and `RefreshIssue` are the three lock sections of `refresh`;
`Authorize` and what follows it are the other handlers. `RefreshAnswered` is
`refresh_cloud_session`, `AuthTokens` to `AuthDone` are `cloud_auth`, `Restored` is
`restore_cloud_session`. `LocalFails` is a statement of the database that fails in a command:
`clear_cloud_refresh`, whose error a logout returns with its session kept (backend_live.rs:550),
or the cursor; `LoginFails` is a login that fails to activate its profile, to store its token or
to write the key file. `OtherDesktop` stands for requests that come from elsewhere.

What the two histories record is real. A refresh rotates the token at the server and in memory
but never in the file, so a restart after any cloud command restores a session that cannot be
refreshed; and an application that ends between the activation of a profile with a new device
and `persist_cloud_refresh` restores that device with the token of the one before (both `cut`).
`mixed` records where two logins meet:

- a command that outlives its login: its refresh is answered into the next login's session, the
  switch to another account passes it before it saves its cursor, or a logout left over from
  before drops a session whose login has just put a token on disk, which the next start restores;
- an application that ends, or fails to write, between the activation of a profile and the key
  file: the next start joins one account's token to another's key, and a change of password then
  wraps the wrong key; and a row that is queued in between, under the key of the login before.

Abstractions: keys, hashes and tokens are names or numbers, in the order they were issued; an
access token is its device, as every command gets a fresh one; rate limits and expiry.

### SlotPorts

| state | code |
|---|---|
| `row`, `bound` | `proxy_slots.local_port`; the Slots with a row in `slot_bindings`, the only ones `list` shows |
| `released`, `clock` | `port_cooldowns.released_at`; the time |
| `settings` | `port_start`, `port_end`, `cooldown_hours` of `app_settings` |
| `task[t]` | a creation between reading the rows, reading the cooldowns, allocating, inserting and enqueueing; a deletion before its tombstone |
| `merge`, `cursor`, `log` | `cloud_pull_merge` between two statements of `apply_slot`; `last_cursor`; the events of the account |
| `queue` | `sync_outbox` |
| `others` of a creation | history: the ports someone else took since it looked |
| `forgotten` | history: Slots whose deletion ended before it was enqueued |

`ReadPorts`, `Allocate`, `Insert` and `EnqueueSlots` are `create_slot` and
`batch_create_slots`; `DeleteRows`, `RebuildFails` and `EnqueueTombstones` the two deletions;
`MergeExisting` to `MergeTombstone` one call of `apply_slot`, statement by statement. A probe of
a port may find it occupied or not, whatever the model holds, since other programs use ports
too. Abstractions: names and nodes; the Core, except that a rebuild may fail; an upload is one
step that is never refused, which `CloudSync` details.

### SubscriptionRefresh

| state | code |
|---|---|
| `row` | a subscription's place in the schedule: due, due later (`next_refresh_at`), disabled |
| `cache` | the cached payload and the nodes, which `apply_nodes` writes in one transaction |
| `bridge` | the payloads of `ProviderBridge` |
| `core`, `core_running` | `ProductState.core`, by the catalogue it was built from; the flag beside it |
| `task[t]` | a batch, a single refresh, a start, an edit or a merge, between two awaits or transactions |
| `app` | up, in `RunEvent::Exit`, or gone |
| `changed` of a task | the `changed` of the batch: a catalogue was committed and is still to be applied |
| `overtaken`, `core.stale`, `astray` | histories: someone else wrote meanwhile; a Core that was passed over by a change, began to start before a commit, or was there during a merge; subscriptions whose bridge and catalogue two tasks wrote at a time, a failing `apply_nodes` parted, or a merge left half done |

`Tick`, `NextItem` and `BatchDone` are the background task and `refresh_batch::run`; `Begin` to
`Block` are `refresh_subscription_deferred` with `SubscriptionService::refresh` inside it;
`Apply`, `StartRead`, `Publish` and `SetRunning` the rebuild. As in the code (commands.rs:249),
`Apply` needs `changed` and `core_running`, not the Core itself: the flag is set after the Core is
published (commands.rs:504-506), `Dashboard` clears it whenever the Core is found unhealthy
(backend_live.rs:186-190), and a stop that fails gives up the Core and leaves the flag. A change
that comes while the flag is not set passes over a Core that is there after all (`PassOver`).
Every step of a refresh may fail where the code returns an error, `apply_nodes` with the row
present too, after `set_payload` (`CommitFails`); a failure before the download leaves the row
due. `Select` is `CoreDownloadDialer`, of which only the outcome is kept. Slots are in
`SlotRuntime`, which has one subscription, whose refresh is taken apart further there.

Abstractions: contents are names; intervals are the nondeterministic `TimePasses`; the selector
`n2s-download`, which all downloads through a node share, since a download may yield anything
anyway.

## Runs

Bounds that end behaviours make TLC's deadlock check meaningless for `CloudSync`,
`LatencyJobs`, `CloudSession` and `SlotPorts`, whose configurations say so; `SlotRuntime` and
`SubscriptionRefresh` are unbounded in length and checked for deadlock.

| run | instance | shows |
|---|---|---|
| `slot_faults` | 1 Slot, 2 nodes, 1 task with every command, crashes, failing calls, restarts that may leave a Mihomo behind | `OnlyRequested`, `NoStrayChild`, `InSync`, `RoutesPresent`, `TypeOK` |
| `slot_serial` | 2 Slots, 1 task with every command, no failure, no end of the application, fair | `ActiveIsPresent`, `BlockBeforeOrphan`, `DisappearedIsOrphaned` |
| `slot_progress` | `bind` against `start`, `stop`, with crashes and failing calls, fair | `CommandsReturn`, `NoStrayChild` |
| `cloud_server` | 2 devices, a row and the settings, no upload begun after 2 events, so versions 1 to 3, pages of 1 event, lost answers, a late request, commands cut off before they enqueue | `ImplementsLog`, `TypeOK` |
| `cloud_devices` | 2 devices, 1 row, 2 edits, pages of 2 events, lost answers, merges cut off between two events | `LogConsistent`, `NoBlindOverwriteOfKnown`, `UnqueuedIsRecorded`, `MergedIsKnown`, `QueuedUntilStored` |
| `latency_tests` | 2 tests of 2 nodes over 2 workers, 2 attempts, a restart of Mihomo, a late request | `SelectorExclusive`, `MeasuresItsNode`, `IdleIsBlocked`, `NewestStays`, `TypeOK` |
| `latency_ends` | 1 test of 3 nodes over 2 workers, 2 attempts, a restart of Mihomo, fair | `NothingLost`, `TestsEnd` |
| `session_restarts` | 1 account, 1 command at a time, 1 request nobody waits for, another desktop, failing statements, a restart | `VaultOpensWithPassword`, `LogoutLeavesNothing`, `TypeOK` |
| `session_accounts` | 2 accounts, 2 commands at a time (merges and logouts), a restart, failing statements, a key file that cannot be written | `ConnectedUnlessCut`, `SessionIsOneAccount`, `SyncStateIsOfAccount` |
| `slot_ports` | 2 Slots, 2 ports, 2 settings, 2 commands and a merge at a time, a restart | `CooldownRespected`, `ConflictIsForeign`, `HiddenIsUnmerged`, `MergedIsApplied`, `TypeOK` |
| `refresh` | the background task and a command: 1 subscription with everything that happens to it; 2 in batches, with the end of the program; 2 refreshed one by one beside starts; fair | `ChangesAreApplied`, `BridgeIsCache`, `DueIsAttempted`, `ExitEnds`, `TypeOK` |

One more run shows a property violated that the repository states; `PROJECT.json` quotes the
lines under `findings`.

| run | what the trace shows |
|---|---|
| `slot_stale_recovery` | a crash brings Mihomo back on the topology captured at its start: a Slot rebound since then is on its former node |

The models contain further behaviours of this kind that no run is kept for: a refresh that
commits while the core is being started, finds none to block, and leaves the new Mihomo routing
through the node that disappeared; a merge that writes over a row whose change still waits in the
outbox, where `docs/09_TEST_AND_ACCEPTANCE.md:48` asks for a conflict, and does so even with the
device's own older contents, since `pull_records` returns a device its own events
(`docs/05_API_AND_SYNC_PROTOCOL.md:87-88`, `A/cloud_commands.rs:412`); a merge that ends between a
row and its version, which leaves an older row under a newer recorded version, so that the next
upload replaces contents the device has lost (`cloud_devices` with `version` in `Interrupts`: one
device uploads two versions, the other merges both without reaching the end, merges again and
ends after the row of the first); a Slot bound before its
first upload, which is sent with its own revision as the base and conflicts for ever; a refresh
token that dies with a restart and an account's token joined to another's key (`cut` and `mixed`
above); a deletion whose rebuild fails and that never reaches the cloud (`forgotten`);
a Mihomo that outlives a killed application and keeps the ports, so that the next start fails
(`mon = "left"`); a change that is committed but not applied, since the dashboard had found the
Core unhealthy or the Core was published and its flag not yet set (`core.stale`); two refreshes of
one subscription, or one whose `apply_nodes` fails, that leave the bridge on one answer and the
catalogue on the other (`astray`); a refresh that fails
before its download and stays due, so that every tick tries it again; a binding that
stays active on an absent node when the application ends between the commit of the catalogue
and the marking of bindings (`slot_serial` with `CanExit = TRUE`); old contents that get a
new base when a merge runs between the listing and the enqueueing of an upload
(`cloud_devices` with `Overlap = TRUE`); a
`restore_slot_selectors` or an unconfirmed `bind_slot` that leaves Mihomo on another node
than the database (both nodes were asked for, so `OnlyRequested` holds); a queued edit of a
row that a merge deleted, which is sent with every upload and never accepted; settings
uploaded over a version the device never saw, as a merge records no version for them; and an
answer that sets a recorded version back after a merge. This is why `InSync`, `RoutesPresent`
and `BlockBeforeOrphan` are stated for what was not `disturbed`, `UnqueuedIsRecorded` for records
with nothing queued and with a version that may be behind what is still to be merged, why
`NoBlindOverwriteOfKnown` speaks of bases taken from `sync_versions` and is checked, like
`MergedIsKnown`, without overlap and with merges that record the version of each row they write,
and why properties of the newer modules name what their histories leave out.

Why the bounds are enough. A Slot routes through one of: its binding, an older binding, a node
that disappeared, nothing; two nodes give all four. Two managers are what can be alive at once in
a stop followed by a start or in two starts; one restart attempt reaches both the recovery and the
attempt that gives up. Two Slots show that marking one binding does not depend on the others. In
`CloudSync` a conflict needs two devices, a lost update two versions, and a stale base one more
edit; no upload begins after two events, but one that is under way or late may still add the third
version, on either base; a page of two events makes a merge that ends between them, and
`cloud_server`, with pages of one, a pull that is continued. Requests that arrive late are in
`cloud_server` only, where the log is what they can damage. In `LatencyJobs` a conflict over a
selector needs two tests, since a pool gives each worker one probe; a refill needs one node more
than there are workers, a stale controller one restart, a retry a second attempt. In
`CloudSession` a token dies in a rotation, so three tokens give a refresh of a refreshed session
and one that was lost; two devices are a login after a logout, two commands the refreshes that
overlap. In `SlotPorts` a port that moves needs two Slots and two tasks, a cooldown one tick, a
merge that is repeated two events. In `SubscriptionRefresh` a crossing needs two tasks on one
subscription and two contents, a batch that must go on after a failure two subscriptions; the
three scopes of `MCScopes` keep apart what those need, and each is chosen in `Init`. The proofs
cover every size for the properties they state.

Reduction: `slot_faults`, the `cloud_` runs, `latency_tests`, `session_accounts` and
`slot_ports` take symmetry over what no property tells apart.

Fairness. `SlotRuntime` assumes strong fairness for a task's next step: tokio polls every ready
task, its mutexes are queues, and HTTP calls have timeouts, so a task that waits for a lock again
and again gets it. It assumes weak fairness for the crash monitor, which polls with a timer, and
for the destruction of a manager nobody owns. The user, crashes, the dashboard and the end of the
application owe nothing. `LatencyJobs` assumes weak fairness for each test and each of its probes:
tokio polls what is ready, and `select`, `delay` and the pauses are bounded by timeouts; a panic,
the user and Mihomo owe nothing, so a test also ends when Mihomo never comes back.
`SubscriptionRefresh` assumes weak fairness for the background task, since its interval ticks and
its downloads and requests to Mihomo time out, and for the exit that waits for it;
`DueIsAttempted` speaks of programs that stay up. `CloudSession` and `SlotPorts` promise nothing
in time: their commands are the user's. `CloudSync` has no liveness property: synchronisation is
driven by the user, and nothing in the code repeats it.

## Proofs

The theorems hold for every set of Slots, nodes, records, accounts, tasks, and every bound. They
cover the types of all modules, most invariants and action properties of the runs, and the
refinement of `VersionedLog`; what is left to the runs is listed at the end. They rest on the
assumptions the modules name (`ConstantsOK`, `PortsOK`, `SubsOK`), which say what kind of thing a
constant is, and on `NoneOK` and `NoneIsNoRecord`, which say that `None` is none of the records it
stands beside. Two theorems have one hypothesis more, `SoleLogout`, given below with what goes
wrong without it. All others are about the specification as it is: overlap, failures, restarts,
interruptions and lost answers are in them, and what the code does not promise is excepted in the
property, by what happened (`disturbed`, `cut`, `mixed`, `astray`...) and not by leaving out steps.

`SlotRuntimeProofs`, whatever overlaps and fails:

- `TypeCorrect`: `Spec => []TypeOK`. `TypeOK` is not inductive by itself: that a manager's
  `restart_attempts` never exceeds the limit by more than one needs `GaveUp`, which says
  that a manager that went past it has no process left to lose. `TypeInv` is both.
- `NeverUnrequested`: `Spec => []OnlyRequested`. Routes come from selectors, selectors from
  topologies and from what a task selects, topologies from the database, and the tasks from
  their own earlier readings. The inductive invariant follows that chain backwards:
  `BindingsAsked` (the database), `ManagersAsked` (topologies and selectors) and
  `TasksAsked` (a task's reading and its target). One lemma for each action.

`SlotSerialProofs`:

- `StaysStoppable`: `Spec => []NoStrayChild`. `Owned` says that a monitor task which runs has its
  manager in `ProductState`, in a task that is about to put it there, or is about to shut it down
  (`Watched`), and that an idle task keeps no manager (`Rested`). The processes that outlived an
  earlier application, which nothing can reach, are excepted by the property.
- `RoutesFollowBindings`: `Spec => []InSync`, `DroppedIsUnrouted`: `Spec => []RoutesPresent`, and
  `BlockedBeforeOrphaned`: `Spec => BlockBeforeOrphan`, for any number of tasks, with overlap,
  failures and restarts. The invariant is `Serial`: either something disturbed the commands since
  Mihomo was last at rest, or one task at most is at work (`Alone`), `Solo` says where the one
  Mihomo of this application is at each of its steps, and `Agree` what bridge, catalogue, bindings
  and selectors have in common there. A disturbed state becomes `Serial` again at rest, where both
  are immediate: nothing runs, and the bridge serves the catalogue.

`CloudSyncProofs`, with loss, delay, overlap and interruptions as they may be:

- `TypeCorrect`: `Spec => []TypeOK`. It needs that settings are never deleted, that a merge
  and its page stay within the log and that the log never shrinks.
- `LogIsHistory`: `Spec => []LogConsistent`. `LogConsistent` with types is inductive: a
  commit gives each accepted record the version after the stored one, which no event
  exceeds, and appends one event for each (`CommitFacts`, `CommitLog`).
- `ServerImplementsLog`: `Spec => ImplementsLog`. Under the mapping `AsLog`, a commit is
  `Extend` or, with nothing accepted, a stutter; the version the abstract log has reached is
  the stored one (`ReachedIsStored`, from `LogConsistent`).

- `MergesAreKnown`: `Spec => []MergedOrOwnIsKnown`: of an event the cursor has passed, a device
  knows the version or a newer one, or else a version that it uploaded itself, which an answer
  that came after the merge set back. `MergeInv` is `Answered` (what an answer will record was
  uploaded by this device), `InOrder` (a merge goes through its page in the order of the log) and
  `Recorded` (what it has behind it is taken over, but for the one event in hand).
- `QueueDropsNothing`: `Spec => QueuedUntilStored`: a row leaves the outbox, other than for a newer
  row of its record, only when an event of the device has its contents. It follows from `Answered`:
  the acknowledgement takes away what was sent and accepted, and of that only what is queued under
  the same change.

`LatencyJobsProofs`, for every finite set of nodes and any number of workers, attempts, tests
and processes:

- `TypeCorrect`: `Spec => []TypeOK`. The inductive invariant `Inv` adds `Owned` (whatever has
  work under way holds `latency_owner`, and only then has probes) and `Numbered` (no probe
  holds the controller of a process that is yet to start; a late request acts on a stray
  selector).
- `NoSharedSelector`: `Spec => []SelectorExclusive`, from `Owned` alone: two live probes of
  one worker belong to the one owner. That `Owned` is kept rests on the drain, as `Release`
  is reached with every probe idle.
- `MeasuresTheNode`: `Spec => []MeasuresItsNode`. A request of a probe only touches the
  selector of its worker (`Spared`), which by the previous result no other probe uses; a new
  process has a number no controller holds yet.

`LatencyResultsProofs`, for the same:

- `NoNodeLost`: `Spec => []NothingLost`. `Placed` says that the nodes of a test are divided
  between its queue, its probes and its report (`Apart`, `Accounted`), and which workers are idle
  at each place of the pool (`Busy`): once nobody probes, nobody waits, so that a test that was not
  harmed ends with everything reported.
- `NoTestNoTraffic`: `Spec => []IdleIsBlocked`. `Blocked`: whoever left a selector on a node still
  has its reset ahead, as a probe, by the drain of a cancelled test, or by the cleanup.
- `NewestIsKept`: `Spec => NewestStays`. `Newest`: results and progress are numbered by tests that
  started, and the progress of the running one counts what it reported.

`CloudSessionProofs`, for any accounts, commands, bounds and other desktops:

- `TypeCorrect`: `Spec => []TypeOK`. `Inv` adds who waits for which request (`Calls`), that a
  request, an answer, a session and a profile name devices and tokens that were issued
  (`Addressed`, `Granted`, `Held`), that a login has no session until it opens one
  (`LoggingIn`), and that an account's envelope is made once and follows its password (`Vaults`).
- `VaultOpens`: `[]VaultOpensWithPassword`, and `SessionBelongsToOneAccount`:
  `[]SessionIsOneAccount`, from `OneAccount`: as long as no two logins were `mixed`, what the
  session, the login, the commands, the key file and the profiles hold is of the active account
  (`Whole`).
- `SyncStateBelongsToAccount`: `[]SyncStateIsOfAccount`, from `Synced`, which adds the outbox, the
  versions, and the cursors that are about to be saved.
- `LogoutIsComplete`: `LogoutLeavesNothing`, and `SessionStaysConnected`: `[]ConnectedUnlessCut`,
  under `SoleLogout`: `logout` and `password`, the two commands that end a session, are not both
  used, or commands run one at a time. With both, one may end the session, a login open another,
  and the other command, which still waits, drop it and leave its token behind; nothing in
  `cloud_commands.rs` keeps them apart. `Leaving` says that a command that ends the session still
  has it. A logout whose `clear_cloud_refresh` the database refuses is excepted by the property.
- `SessionStaysConnected` says what two overlapping refreshes leave: each rotation ends one token
  and makes another, so whichever of the answers is taken last, its token is accepted. It says
  nothing (`cut`) of lost answers, of refreshes that go on after their caller gave up and of
  restarts, where the code has no defence. The invariant has three parts: `Connected`, that the
  token of a session is accepted, is being renewed, or its device is cut; `Spendable`, that an
  answer not yet taken offers a good token nobody else has; and `Kept`, where a profile may hold a
  token while there is no session, which a restart would restore.

`SlotPortsProofs`, for any Slots, ports, settings, tasks and bounds:

- `TypeCorrect`: `Spec => []TypeOK`, with one row for each port, which a creation leaves to
  the unique index and a merge to its search for a free port.
- `CooldownHolds`: `Spec => []CooldownRespected`, and `ConflictsAreForeign`:
  `Spec => []ConflictIsForeign`. Both follow from `Looked`, which says what a creation knows at
  each of its awaits of the ports nobody took since it read the rows: first that rows and
  cooldowns are as it read them, then that its choices are free and have cooled down. The
  lemma `WorldKeeps` shows that this survives the steps of everyone else.
- `HiddenRowsReturn`: `Spec => []HiddenIsUnmerged`, from `Unpassed`: a row without its
  binding belongs to an event the merge has not passed.
- `MergesAreApplied`: `Spec => []MergedIsApplied`. `Applied` is the property with the event a merge
  is at in place of the cursor. It needs that nothing follows a tombstone (`GoneIsLast`), that row,
  queue and log never give a Slot two ports (`OnePort`), that a creation has its identifiers for
  itself until its rows are written (`Identifiers`), and that what a merge found at its first look
  still holds at its second (`InStep`).

`SubscriptionRefreshProofs`, for any subscriptions, contents, users and scopes:

- `TypeCorrect`: `Spec => []TypeOK`.
- `ChangesApplied`: `Spec => []ChangesAreApplied`. A task may only lose `changed` where the
  Core is stopped, or there is none, or it is passed over and noted as such (`PassOver`); `Formed`
  says at which steps it may have it at all.
- `BridgeFollows`: `Spec => []BridgeIsCache`. `Tracks` says what a task knows as long as nobody
  has overtaken it: that the bridge still holds what it is about to commit, that the
  catalogue still holds what it is about to restore, or that what it read is what is
  committed. Actions fall into a few kinds (`PlainStep`, `DataStep`, `CutStep`, `BridgeStep`,
  `CacheStep`), with one lemma for each kind and one for each action.

Only model-checked: what must happen in the end (`CommandsReturn`, `DisappearedIsOrphaned`,
`DueIsAttempted`, `ExitEnds`, `TestsEnd`), since liveness under fairness is out of the proof
system's reach; `ActiveIsPresent`, `MergedIsKnown`, `NoBlindOverwriteOfKnown` and
`UnqueuedIsRecorded`, which the code guarantees only where the runs leave something out: the first
without failure and the end of the application, the others without overlap and some of the
interruptions; and `RecoveryKeepsBindings`, which is violated.

## Not modelled

The components marked above, and in the modelled ones: creating and deleting Slots while the core
runs (`SlotPorts` follows their rows, not Mihomo), the batch commands that bind and edit, health
polling and logs of Mihomo, uploads of more than 500 rows, undecodable records, rate limits and
the expiry of access tokens, encryption, and the selector `n2s-download`, which two downloads
share, so that one may go through the node chosen for another. No module composes the bindings of
`SlotRuntime` with the contents a merge brings in `SubscriptionRefresh`: `apply_subscription`
drops the nodes that disappeared, so their bindings stay active until the next start blocks them.

## Plan

1. `create_slot` and `delete_slot` in `SlotRuntime`; a small abstract `FailClosed` module, and
   the refinement of it by `SlotRuntime`.
2. The bindings of Slots whose node a merge removes: the two modules composed.
3. Proofs: the refinement of the module of item 1, and the composition of item 2.
