# A TLA+ verification project for local-llm-hub-lite

The hub is one Python process (FastAPI on port 8000) that routes OpenAI- and
Anthropic-shaped requests to local model servers (`llama-server`,
`whisper-server`) which it starts, watches and stops as subprocesses. This
directory holds TLA+ models of it, TLC configurations that check them on small
instances, and proofs for the properties that matter most.

## The system

### Parts, their state and their operations

| Part | Source | State | Operations |
| --- | --- | --- | --- |
| On-demand lifecycle | `src/src/on_demand.py` | per model id: `_LAST_USED`, `_IN_FLIGHT`, `_SPAWN_LOCKS` | `ensure_ready`, `request_started` / `request_finished` (through `RequestTracking`), `idle_unload_pass` |
| Backend process manager | `src/src/process/backend_process.py`, `server_process.py` | `_STATES[id]`: Popen object, inherited PID and identity; `_restart_pending` | `start`, `stop`, `is_running`, `is_reachable`, `inherit_running_backends`, `force_stop_external` |
| Chat dispatch | `src/src/server.py`, `chat_translation.py` | none of its own | `/v1/chat/completions` (plain and streamed), `/v1/messages` |
| Audio proxy | `src/src/audio/server_audio_asr.py` | none | `/v1/audio/*` |
| Admin routes | `src/app_web/routers/models.py`, `hub.py` | none | start, stop, force-stop a model; stop or restart the hub; tails |
| Hub lifecycle | `src/src/server_lifecycle.py`, `_respawn_watchdog.py` | background tasks | inherit, autostart, idle loop, sampler; tear-down |
| Tray | `src/tray/tray.py`, `single_instance.py` | `HubProcess.proc`, a named mutex | start, stop, restart of the hub |
| Log ring, observatory, fan-out | `src/src/hub_log.py`, `hub_observability.py`, `async_fanout.py` | bounded rings, counters, subscriber queues | record, subscribe, push, unsubscribe |
| Login lock-out | `src/src/login_lockout.py`, `app_web/routers/auth.py` | table of failure streaks, alert cooldown | `retry_after`, `record_failure`, `reset` |
| Think-tag filter | `src/src/openai_upstream.py` | per stream: buffer and mode | `feed`, `flush` |
| Front door | `src/src/server.py`, `auth_middleware.py`, `cors_policy.py`, `trace_id_middleware.py`, `webapp_config.py`, `app_web/server.py` | `webapp_config.json`, a copy of it in either app | layers of middleware around every call; load, save, mint a token |
| Usage log | `src/src/usage_log.py` | a table of events | `record`, `_prune`, `foreground_time` |
| Ratchets | `src/scripts/*_ratchet.py` | a baseline file each, `.fleet.toml` | check, `--init`, `--update-baseline`, `--allow-additions` |
| E2e routing | `src/scripts/classify_e2e.py` | none; reads the map in `.fleet.toml` and git's listings | `changed_files`, `classify` |
| Installer | `src/scripts/_lib.py`, `install_llama_cpp.py`, `install_whisper_cpp.py`, `download_models.py`, `src/src/install.py` | `vendor/`, `models/` | download, verify, unpack, move shards; the checks |
| Registry | `src/src/model_registry.py`, `host_profile.py` | a configuration file | look-ups |

Synchronous route handlers run in worker threads, so any number of requests is
inside `ensure_ready`, `start` and the trackers at once. Admin handlers are
coroutines that call `start` and `stop` directly on the event loop, one at a
time. The idle sweep runs in one more worker thread. They meet in the module
globals of `on_demand.py` and `backend_process.py`; only the former are locked.
The backends are processes of their own: they load for minutes, crash, survive
their hub, and their PID numbers are reused when they are gone.

### What is hard, and what makes it correct

* First requests race for a cold row: one process must come up, and every
  request must get an answer whatever becomes of the process.
* The idle watchdog races requests: it must not take a used row down, and must
  take an unused one down, however requests end (error, disconnect, rejection).
* Ownership: the Popen object and the inherited PID are two records of one
  fact, and a PID number is not an identity; `stop` must signal its own only.
* Restart: children of the old hub are handed to the new one, without an orphan
  and without two owners.
* Tails: seed and live events come from two locks; queues are bounded.
* Lock-out: a bounded table, in failure order, with a global alert cooldown.
* Streaming: a tag split anywhere must be stripped and nothing else lost.
* The front door: the order of the layers, and two copies of one configuration
  that a person, the tray and the hub read and replace at different times.
* The tray: three threads that start and stop one hub process, and hubs that
  are not the tray's.
* Usage: reports over visits that a bounded table has cut.
* Ratchets and routing: what must not slip through over a sequence of runs, on
  a tree that changes in between and may be unreadable.
* Installer: runs that are cut, or share a directory.

The list of hazards with their lines is in `PROJECT.json`.

## Modules

| Module | Role |
| --- | --- |
| `BackendProcess` | the process manager and the operating system under it, as a library of actions |
| `OnDemand` | one on-demand row: requests, watchdog, operator; EXTENDS `BackendProcess` |
| `SpawnGate` | what a row promises to requests when nobody else starts or stops it; `OnDemand` implements it |
| `MCOnDemand` | values of the constants for TLC |
| `OnDemandProofs` | theorems about `OnDemand` for all values of the constants |
| `HubLifecycle` | hub processes that come and go on one port and hand their backends to each other |
| `MCHubLifecycle` | values of its constants for TLC |
| `HubLifecycleProofs` | theorems about `HubLifecycle` |
| `LogFanout` | the ring of log lines or request records, its subscribers' queues, and the live tails |
| `LogTail` | what a live tail promises; `LogFanout` implements it |
| `MCLogFanout` | values of its constants for TLC |
| `LogFanoutProofs` | theorems about `LogFanout`: its types, that it implements `LogTail`, and what it delivers: order, holes, and the seam of seed and live lines |
| `LoginLockout` | the table of failure streaks under the login route, and the alerts |
| `LoginLockoutProofs` | theorems about `LoginLockout` |
| `TrayHub` | trays that adopt, spawn, restart and stop the hub |
| `TrayHubProofs` | theorems about `TrayHub` |
| `ThinkStripper` | the think-tag filter on a stream of deltas, against the whole text |
| `FrontDoor` | `webapp_config.json`, who has read it when, and what the layers answer to every kind of call |
| `UsageLog` | the events of page visits, their retention, and the report of foreground time against its rules |
| `Ratchets` | the ten ratchet scripts: configuration, scope, comparison, baseline |
| `E2eRouting` | the choice of browser tests for a branch |
| `Installer` | runs of the installer and of the model download |
| `ServiceProofs` | theorems about `FrontDoor`, the retention of `UsageLog` and `ThinkStripper` |
| `ScriptProofs` | theorems about `Ratchets`, `E2eRouting` and `Installer` |
| `CommonLemmas` | lemmas of several proofs: arithmetic of times and days, the least number of a set and the number of a given rank in it, joined sequences, the solution of a recursion |
| `MCParts` | the eight parts above, one per behaviour, with values of the constants |

### How `BackendProcess` corresponds to the code

`handle[m]` is `_STATES[m].proc` and `adopted[m]` the inherited PID with its
identity. A process incarnation is a member of `Procs`; `Pid` gives its number,
and two incarnations may share one. `Fresh` says when an incarnation can be
born: its number is free, and a number is not free while a Popen object refers
to it. `call[t]` is the frame of a thread inside `start` or `stop`:

| code | step |
| --- | --- |
| `start`: `is_running` | `StartChecks` |
| `start`: `is_reachable` | `StartProbes` |
| `start`: `build_command`, `Popen`, `state.proc = proc` | `StartSpawns` |
| `stop`: the identity check of the inherited process, `pid_` | `StopFindsAdopted` |
| `stop`: `forget_inherited` | `StopForgets` |
| `stop`: `kill_pid` | `StopKills` |
| `stop`: nothing there, or dead | `StopFindsNothing` |
| `stop`: terminate | `StopSignals` |
| `stop`: `p.wait`, `state.proc = None` | `StopReaps`, `StopGivesUp` |

Between any two of them anything else may happen. `NotRunning` is `is_running`
answering False, which drops the inherited PID, also when the psutil look-up
raised for a live process. A probe may fail at any time.
`Loads`, `Exits` and `Appears` are the backends and the operating system.

### How `OnDemand` corresponds to the code

`pc[r]` is the place of a request thread in `ensure_ready` and in the dispatch
that follows; `lock`, `inFlight` and `age` are `_SPAWN_LOCKS`, `_IN_FLIGHT` and
the time since `_LAST_USED` of the row, in ticks. `quiet` is a history variable:
the time since a counted request was last there, taken from the requests
themselves and never from the code's clock; properties compare the two.
A request is `chat` (served inside a `with tracking`), `stream` (tracker
started before the response, finished in the generator) or `audio` (no
tracker). Requests run once and stay settled, so a finished system stops:
deadlock checking is off in every configuration for that reason.

What one step merges: `Popen` and the store of its result; `poll` of a Popen
object and the signal to it (the object pins the number, so nobody else gets
it); the time a sweep pass read at its start and the row's state it judges; the
two waits of `stop`. A signalled process answers no probe any more. An inherited
PID is pinned by nothing, so there the check, the forgetting and the kill are
steps of their own. One row is modelled because all the state and every
lock is keyed by model id.

`SpawnGate` is the abstract specification of a row that only requests use: it has
no lock, no probe and no call frame, only where each request is, whether the
hub's backend is there, and whether another server answers on the port.
`Stage`, `OwnBackend` and `OtherAnswers` are the refinement mapping. A request
"waits" from the step in which its `start` succeeds (or finds a backend) to the
end of its poll.

### How `HubLifecycle` corresponds to the code

`hub[h]` is where process slot `h` is in its life; a slot whose hub is gone may
be launched again. `restarting[h]` is `_restart_pending` and `told[h]` a signal
on its way. `owned[h][m]` merges the two fields that `BackendProcess` keeps
apart: the process the hub spawned or inherited for row `m`; `inherited[h]` are
the rows of which it is the latter. A stop is one step
here: the tear-down runs on the event loop, and what happens inside `stop` is
`BackendProcess`'s subject. On-demand starts and operators' starts are
`OnDemand`'s; the only `start` here is autostart's.

| code | step |
| --- | --- |
| a person, launcher or the watchdog runs `python -m src.server` | `Starts`, `Relaunches` |
| `wire_observatory_loop` | `Inherits` (before the port is bound) |
| uvicorn binds the port, or fails and runs the shutdown handlers | `Binds` |
| `_autostart_configured_backends`, `bp.start` in a worker thread | `AutostartCalls`, `AutostartChecks`, `AutostartSpawns` |
| `/hub/stop`, Ctrl-C, the tray's CTRL_BREAK | `StopRequested` |
| `/hub/restart` | `RestartRequested` |
| the signal; open connections are waited for | `Closes`, `Drains` |
| `stop_background_tasks`, `stop_backend_children` | `CancelsTasks`, `BeginsTearDown`, `StopsChild`, `EndsTearDown` |
| psutil raises on a live inherited backend, whoever asks | `LookUpFails` |
| worker threads joined, exit | `Leaves` |
| the tray's `terminate`, a second Ctrl-C | `Killed` |
| `_respawn_watchdog.run` | `ParentExits`, `Relaunches` |

A thread in `start` does not notice that its task was cancelled: it is "late".
The watchdog's waits may both time out, so `Relaunches` has no guard but their
order; `PARENT_EXIT_TIMEOUT_S` (30 s) is far longer than the 0.8 s before the
signal, so the parent no longer serves when the first wait ends. `keeper` and
`clean` are history variables: the hub that last spawned or inherited a
process, unless it lost it in `LookUpFails`, and an exit that is an ordinary stop
of which every part succeeded.
`Careful` is an assumption about people: they start a hub only when none is
there or coming. Two watchdogs are two restarts at once.

### How `LogFanout` corresponds to the code

`log` is the ring, a line its number. `emit[w]` is the frame of a caller inside
`RingHandler.emit` or `record_request`, `subs` is `_subs`, `ready` the callbacks
of `call_soon_threadsafe` that the loop has not run, `queue[t]` a subscriber's
queue. `loop` says who runs on the event loop between two awaits: a route that
has evaluated its seed and is about to subscribe, or a writer on the loop.

| code | step |
| --- | --- |
| `logging.Handler.handle` takes the handler's lock; the ring's `append` | `Appends` |
| `push`: the copy of `_subs`, and the early return | `CopiesSubs`, `Returns` |
| `push`: `call_soon_threadsafe` | `Schedules` |
| `_push` on the loop, `QueueFull` passed over | `Pushes` |
| `log_tail`, `requests_stream`: the seed, then `subscribe` | `Seeds`, `Subscribes` |
| `_gen`: seed sent; yields; `q.get`; time-out; `finally` | `Runs`, `Taken`, `Gets`, `KeepsAlive`, `Ends` |
| a response whose body is never iterated | `NeverRuns` |

The handler's lock is what keeps two threads' lines in order: `AsyncFanout`'s own
lock is released before the callback is scheduled. `record_request` has no such
lock around both steps, but its only caller is a middleware, so every writer of
the request list is on the loop (`LoopWriters = Writers`), where no other runs
in between. A loop writer that waits for the lock holds up the loop until it
gets it; the model starts it then. Left out: the ring's bound (longer than any
seed), the noise filter, the time before `attach_loop` and a closed loop. `full`
is a history variable.

### How `LoginLockout` corresponds to the code

`tracked`, `older` and `streak` are `_streaks`: its keys, their order and the
records; `older` is a strict order of last failures, which is what
`OrderedDict.move_to_end` keeps. `wait` is the time to the deadline and `age`
the time since the last failure. A request is at two places in the route:
`Admits` is the look at `retry_after`, `Fails` and `LogsIn` what follows the
awaited body, `Leaves` a request that ends without a verdict. Each failure beyond the
free ones doubles the wait up to the longest; past `MaxExponent` the product
overflows (`Raises`): the failure is counted, the deadline stays, and the route
answers 500. `failures` stops counting there, which loses nothing.
`suppressed` is the code's count of alerts held back and `untold` the streaks
nobody has been told of; the two are compared.

### How `TrayHub` corresponds to the code

`at[t, w]` is where a thread of tray `t` is in `start`, `stop` or `wait_ready`;
`proc[t]` is `HubProcess.proc` and `held` the local `p` of a `stop`. `instance`
and `mutex` are the two named mutexes; both may fail to be created, and both
are freed by the system when a process ends. A hub starts, binds the port
(`HubBinds`; it ends if another has it), serves, dies and is dead; others start
hubs too. A probe may miss a hub, and a dying one may still answer. `StopSignals`
is a `stop` of which one signal arrives, `StopRaises` one of which none does: the
hub serves on, the record stays, and the thread goes on as after any stop that
did not answer "adopted". `raised` is history: the threads whose last stop was
such a one.

### How `ThinkStripper` corresponds to the code

Text is a sequence of characters, a chunk a short text with a part of a tag at
its edges. `mode` and `buf` are the filter's fields for each choice; `sent` is
what the client has, `given` what the model has written. `DeltaLine` is
`clean_openai_chunk` and what `iter_cleaned_sse` does at a `finish_reason`,
`DoneLine` the `[DONE]` line, `LinesEnd` the end of the lines without one.
`cut` marks a choice that had an open tag cut behind its name, in its
attributes: the code documents that it holds back no more than the name.
`Feed` is the loop of `feed`, one call for each round; a function rather than an
operator, so that it can be proved about. `Stripped` takes the blocks out of
the whole text at once. It differs from `strip_think_blocks` in two ways that the
code has: a block that is never closed is dropped by the filter and left by
`strip_think_blocks`, and a close tag with blanks behind its name is one for
`strip_think_blocks` only.

### How `FrontDoor` corresponds to the code

`file` is `webapp_config.json`, which a person opens and writes in steps (a
read meanwhile fails and gives defaults) and the tray replaces at once.
`loaded` is what `ensure_auth_token` has read and not yet saved; `app` and
`admin` are `app.state.webapp_config` of the two applications. `HubTokens` are
the tokens that one request's own read of the file may give: the file's, or none
where the read fails. `HttpAnswer` folds a call through the layers in the order
that `add_middleware` puts them; requests differ in path, peer, origin, token,
preflight and in how the route ends. "chat" stands for the recorded paths other
than `/v1/messages`.

### How `UsageLog` corresponds to the code

`Report` is `foreground_time` with its helpers one by one; `Rules` is a second
definition, tick by tick, of the seven rules in the module's documentation, and
`ReportFollowsRules` compares the two for any table that batches and pruning
can leave and for windows that begin on and off a midnight. `Posts` stamps and
inserts in one step; the code stamps the rows before the insert takes SQLite's
lock, so rows of two batches posted at once may be stored out of the order of
their stamps, by what the first waits for the lock.

### How `Ratchets` corresponds to the code

What a scanner finds in a file is a number, for two kinds of findings (`hits`,
`more`). For each script, `...Config` is what `load_config` accepts, `...Scope`
the files it counts, `...Debt` its counts and `...Run` its exit code, with the
order of its early ends; these differ from script to script. A fault of
`RunFaults` stands for every cause with the same effect. A step is a run
(`CheckPasses`, `WritesBaseline`, a write cut short) or what happens between
runs: edits, unreadable and deleted files, a lost baseline, one of an older
version. `ceiling` is history: what somebody accepted openly.

### How `E2eRouting` corresponds to the code

`diff` is where git lists a changed path, `touched` the rules of the shared
stylesheet that differ, `fleet` and `reviewed` the maps of the branch and of
main. `RoutesDiff` is a run of the script, in which any of the three listings
may fail; `Classify`, `NarrowToSurface`, `OwnersOf`, `SheetOwner` and
`ClassifyOne` are its functions. This repository declares no surface today;
the script is shared, and the maps here are of repositories that do.

### How `Installer` corresponds to the code

`progress[r]` is where a run is in `install_assets` or `download_one`, one step
per effect on the disk. `archive`, `unpacked` and `shard` are what is in
`vendor/` and `models/`. A run can be cut at every step, and two runs share the
directories. `digests` says whether the release lists digests, and `flat`
whether the repository has its shards at its root: a fetch then puts them where
`model_path` is (`FetchedTo`), and nothing is moved. `Removes` is `unlink`, which
raises on some systems while another run has the file open, to write or to
unpack it. `PurgesVendor` may fail for a server that runs from the tree too.
`broken` is history: what a run that ended early may have left, and an archive
that was unpacked although it is not the release's.

## Runs

The `on_demand` runs have one row and two or three processes, the `hub` runs
one row and two processes.

| Run | Actors | Shows |
| --- | --- | --- |
| `on_demand_safety` | 2 requests (stream/audio), watchdog, operator, 3 processes of which 2 share a PID, window 2 | `TypeOK`, `InFlightAccurate`, `OwnershipExclusive`, `StopsOnlyItsOwn`, `UnloadAfterQuietWindow` |
| `on_demand_cold_start` | 3 chats | `NoDoubleSpawn`, `ImplementsGate`, `EveryRequestAnswered` |
| `on_demand_idle` | 2 requests (chat/audio), watchdog, window 2 | `UnusedRowUnloaded` |
| `on_demand_load_cut` | 1 chat, watchdog | violation of `UnloadSparesLoading` |
| `on_demand_audio_cut` | 1 audio request, watchdog | violation of `UnloadSparesServed` |
| `on_demand_pinned` | 1 stream, watchdog | violation of `UnusedRowUnloaded` |
| `on_demand_two_starts` | 1 chat, an operator | violation of `NoDoubleSpawn` |
| `hub_restart` | 2 hub slots, 1 watchdog, careful people | `TypeOK`, `NoOrphan`, `SparesServingHub`, `RestartComesBack` |
| `hub_stop_race` | the same | violation of `NoOrphanEver` |
| `hub_two_restarts` | 3 hub slots, 2 watchdogs | violation of `SparesServingHub` |
| `log_tails` | a writer on the loop and one beside it, 2 tails, queues of 1 line, 3 lines | `TypeOK`, `InOrder`, `NoHole`, `SeamKeepsLoopLines`, `ImplementsTail`, `WritersReturn`, `GoneTailUnsubscribed` |
| `independent_parts` | see below | `LockoutTypeOK`, `AlertsAccounted`, `WaitStands`, `NeverLockedForGood`; `TrayTypeOK`, `RestartIsReal`, `QuitLeavesNoHub`; `StreamAsWhole`, `HeldBackLittle`; `AnswersReadable`, `OneBoundary`, `SettingsSurvive`; `ReportFollowsRules`, `RetentionTakesOldest`; `NothingGrowsUnseen`; `NarrowRunCovers`, `NarrowsByReviewedMap`; `NoArchiveLeft`, `PresentIsWhole` |

`independent_parts` checks eight modules that share no state. Every behaviour
of `MCParts` is about one of them, chosen at the start, while the others stay in
one of their initial states; so the state space is the sum of the eight and not
their product. Lock-out: three clients for a table of two, two requests at
once. Tray: one tray with its three threads and two hubs, the second of which
the tray, a person or the hub's own restart may start (two trays are a larger
instance of the same module). Filter: two choices, three chunks, nine kinds of
chunk. Front door: two tokens, one extra origin, every request. Usage: two
visits of a phone and a desktop, four events over four ticks of two-tick days,
a table of three rows. Ratchets: every script with a second file that it
treats differently. Routing: seven paths, two of them changed at a time, and
maps with two surfaces, one, a doubled name and no rules. Installer: two runs at once, three in all, two
archives, three shards, a flat repository and one that is not. A behaviour of
another part starts with digests and a nested repository, which it never looks at.

Bounds. Two requests make every pair of positions in the dispatch path; three
are used where two wait for the lock that the third holds. Three processes are
an inherited one, its replacement and the stranger that gets the first one's
number; a dead incarnation may be born again, so runs are not limited to three
births. A window of two ticks tells "just used", "still warm" and "idle" apart;
`age` and `quiet` stop counting at the window, which loses nothing because they
are only compared with it. Two hub slots are the old hub and the new one, and
since slots are used again a run has any number of hubs; `RestartRequested`
waits for a free slot, without which no restart could be observed. Two backend
processes are a row's process and a duplicate of it. Rows meet only in the order
of autostart and of the tear-down, which one row leaves out of the runs and the
proofs include.

Queues of one line are full at once; with three lines a tail can miss one and get
the next. Two tails are a slow one and another that must not suffer from it.

Fairness (`FairSpec`). Weak fairness of a request's thread inside
`ensure_ready` and inside dispatch: every call there has a time-out (probes
0.4 and 1 s, the readiness deadline 180 s, upstream calls 600 s). The deadline
itself is fair, because the poll loop checks it every second. Weak fairness of
a thread inside `start` or `stop`, of the watchdog's endless loop, of time, and
of the exit of a process that was signalled (`terminate`, then `kill`). Nothing
is assumed of clients, operators, or of a backend ever finishing its load.
In `HubLifecycle`: weak fairness of start-up, of the scheduled signal, and of
the watchdog, whose waits have time-outs. A hub that drains its connections, a
tear-down, a worker thread and people are owed nothing, so `RestartComesBack`
holds with an old hub that never ends. In `LogFanout`: weak fairness of the
writer inside `emit` (one at a time, and nothing in it waits), of a route
between its seed and `subscribe` (no await there), and of a generator whose
client has gone (it looks at least every `poll_timeout`). Callbacks and clients
are owed nothing. In `LoginLockout`: time passes (`Ticks`); requests are owed
nothing.

### Where the code and its comments disagree

The six violation runs, each with its finding in `PROJECT.json`: a load is not
protected from the watchdog; the audio proxy is not tracked; a stream nobody
iterates pins its row; an operator's start takes no lock; a backend that
autostart is spawning outlives an ordinary stop; two restarts at once end with
the second new hub stopping the first one's backends.

What `on_demand_safety` exempts (`StopsOnlyItsOwn`): the check of an inherited
PID ("fail closed, since a false "alive" lets `stop` kill an unrelated process")
leaves a window before `kill_pid`. A backend that dies in it leaves its number to
another process, which is then killed; without the exemption TLC shows the case.

What `hub_restart` exempts: a backend that psutil raised on while it was an
inherited one. The hub forgets it (`_inherited_alive`, "fail closed"), so neither
`stop` nor the tear-down finds it, and an ordinary stop leaves it behind.

What the properties of `independent_parts` exempt, because the code does it:

* Lock-out: from about the 1025th failure on, `2 ** (over - 1)` overflows and
  the route answers 500 instead of 401; the deadline is not renewed.
* Tray: the start mutex is released before the new hub listens, so a second
  tray can spawn one as well, although `tray.py:111` says that two trays cannot.
  Threads of one tray that meet in `stop` and `start` can lose the record of a
  hub (`crossed`). A restart whose `stop` raised (`raised`) is told as done while
  the old hub serves on: `start` answers "already running", and the worker looks
  only for "adopted" (`tray.py:378`), which was to keep it from "masking a build
  that never actually restarted" (`tray.py:382`). Without the exemption TLC shows
  that too. A quit whose own `stop` raised leaves the hub behind, without a word.
* Filter: an open tag with attributes that is split behind its name leaks; a
  stream does not take `</think >` for a closing tag, the whole-text filter
  does. `reasoning_content` is folded into any delta whose content is empty.
* Front door: the admin pages read the token at start, the API at every
  request, so after a rotation the doors differ until the hub restarts; and a
  request whose own read fails has no token to match, so the API turns away a
  caller from elsewhere that the admin pages let in. A failed read at the tray's start replaces the settings with
  defaults. `server.py:118` calls the trace layer outermost; the CORS layer is.
  A 401 on `/v1/messages` is not in the Anthropic envelope.
* Ratchets: a structure update without a shape drops the record of the layout,
  and the next shape accepts the layout as it is, although the script says that
  it may only shrink. `doc_refs` reads the port even when it is switched off.
  A check of `runtime_write` in which only unresolved targets rose is "not
  confirmed". Baselines are not written atomically.
* Routing: a git command that fails lists nothing, and a failed
  `git diff main...HEAD` can narrow a run to `skip`; the module calls itself
  fail-safe. A rename lists the new path only. The rule that a diff is not
  judged by the map it edits covers narrowing to surfaces, not the tiers.
* Installer: a download that is cut leaves a part of the archive, which every
  later run unpacks unverified ("must never reach `extract()`") until somebody
  removes it. A move of shards that is cut after the first leaves a model that
  is reported present without the others; so does a fetch from a flat repository
  that fails after the first shard, until a later download goes through. An
  archive that is refused can stay where another run has it open to unpack it.

## Proofs

`OnDemandProofs` proves, for any finite set of requests, any sweepers and
operators, any processes and PID numbers, any registry rows and any window:

* `TypeCorrect`: the type invariant, which is inductive by itself.
* `InFlightCorrect`: inductive with the type invariant. `TrackedMoves` says how
  one request's move changes the tracked set; only `Dispatches` and `Finishes`
  move a request into or out of it, and both change the count by one.
* `UnloadOnlyWhenQuiet`: needs `ClockSound`: with a tracked request `quiet` is
  0, without one the code's clock is never ahead of it. The decision has seen a
  count of 0, so by the former theorem nobody is tracked.
* `OwnershipCorrect`: needs that a `start` past its check has dropped the
  inherited PID (`OwnershipInv`), since the store of the Popen object comes
  several steps later.
* `StopsOnlyItsOwnCorrect`: needs `KnownInv` where a stop takes aim: what the hub
  holds and is alive is its own or inherited, and no two live processes share a
  number. `AimInv` carries that to the kill, over any steps of others in between:
  as long as the process aimed at lives it is no stranger, so who is hit instead
  has its number after its death. A fresh
  process is known to nobody (`FreshIsUnknown`), because a Popen object pins its
  number and an inherited incarnation is not born again while it is remembered.
* `NoDoubleSpawnCorrect`: under the assumption that there are no sweepers and
  no operators (the violation run shows that it is needed). `SpawnInv` ties the
  lock to the request inside `start`, and that call to a row without a live
  process.
* `RowIsGate`: under the same assumption every step is one of `SpawnGate` or a
  stutter. `SpawnInv` gives the single waiter and the row without a backend,
  `KnownInv` and `GateInv` that what `start` finds running has the row's port
  and is loading or answering (nothing is ever told to stop).

`HubLifecycleProofs` proves, for any sets of hubs, watchdogs, rows and processes,
any autostart list, and careful and careless people:

* `HubTypeCorrect`: needs that a thread inside `start` has a row to start.
* `NoOrphanCorrect`: `NoOrphan` says nothing of a hub before it is gone, so
  `OrphanInv` follows a backend through its hub's life. While the hub has lost
  no record to a stop that failed (`Remembers`) it has one of every live process it spawned or took
  over (`Known`), but for those that `LookUpFails` has lost, which change `keeper`; a spawn overwrites no such record (`NotOwned`), and once
  autostart is over what runs is on the tear-down's list (`Listed`), which is
  empty when the hub leaves (`ListUsed`).
* `SparesCorrect`, for careful people and one watchdog (`hub_two_restarts` shows
  that it fails otherwise): `Front` is a hub that has yet to go, or that would
  stop its backends when it goes. There is one at most, and none while the
  watchdog is about to launch another (`FrontInv`), so a tear-down that stops
  backends meets no hub that serves.

`LogFanoutProofs` proves, for any writers and tails, any queue size and number of
lines:

* `FanoutTypeCorrect`: the size of the queues among the types.
* `FanoutImplementsTail`: that every step of `LogFanout` is a step of `LogTail` or
  a stutter. `Gets` shows the head of a queue, and that it is younger than
  all that was sent needs the order of everything on its way: `OrderInv` says
  that what was sent, what is queued and what waits on the loop are each in
  order and ahead of the next (`SentInv`, `QueueInv`, `ReadyInv`), that the lock's holder has
  the newest line (`LockInv`, `Settled`), and that a tail has nothing on its
  way before it subscribes (`EarlyInv`), hence nothing older than its seed's
  last line (`SeedInv`).

What is delivered goes on from `OrderInv`, under the same assumptions. `SeamInv` is
inductive on top of it and has a part for each thing the code relies on: a
writer's copy of `_subs` lives only between the copy and `call_soon_threadsafe`
(`HandInv`), a route holds the loop from its seed to its subscription, so no
writer on the loop appends meanwhile (`GapInv`), and whatever such a writer has
in hand is younger than every seed (`FreshInv`).

* `InOrderCorrect`: from `OrderInv`, `HandInv` and that what was sent is rising.
* `NoHoleCorrect`: one step is taken at a time from hand to callback to queue to
  client; each leaves the set of lines on their way as it was, except that a
  full queue drops one and is marked, and that the copy of `_subs` adds the
  newest line, the next after all that were there.
* `SeamCorrect`: at its subscription a tail has nothing on its way (`EarlyInv`) and
  no line of the loop's is younger than its seed (`GapInv`); each one after that
  is added by the copy of `_subs`, younger than the seed (`FreshInv`).

`LoginLockoutProofs` proves, for any clients, requests and limits:

* `LockoutTypeCorrect`: with it that the table never has more than
  `max_clients` records. `RoomIn` makes room by taking the first, and a finite
  table has a first because `older` is a strict order (`OldestFirst`); that is
  the one induction, over the size of a set (`WFMin`).
* `AlertsAlwaysAccounted`: inductive with the types.
* `WaitsAlwaysStand`: needs that a wait ends before its streak is forgotten
  (`WaitsEnd`) and that the first of the table is the one whose last failure
  is oldest (`OldestFirst`). `LockoutInv` is the conjunction.

`ServiceProofs`, for any tokens and origins, for a usage log of any cap, any age
limit and batches of any size, and for any tag, texts and choices:

* `SettingsAlwaysSurvive`: needs that what the tray has loaded and has not saved
  yet is what the person chose (`ChosenInv`), since the save comes steps after
  the load and writes the whole file.
* `AlwaysOneBoundary`: needs that a hub which found the file alike at both its
  reads has two equal copies (`CopiesInv`), and that what the login handed out
  is the sub-app's (`HandedInv`). `DoorInv` is the conjunction, with the types.
  A failed read of one request gives no token, with which the gate admits only
  who needs none.
* `AnswersAlwaysReadable`: layer by layer, from the route outwards. A refusal
  leaves the inner layers out, so what the CORS and the trace layer add is
  proved for every answer that may come from within.
* `RetentionAlwaysTakesOldest`: needs the times in order (`AgesInv`) and the ids
  without a gap (`IdsInv`): only then do the two deletes, one by age and one by
  number, both take from the front. `ChosenEnd` says that a selection of the
  last rows is the end of the table, `RankReached` that a selection misses none.
* `ReportAlwaysFollowsRules`: the two definitions of a report agree in every
  reachable table and (`ReportIsRules`) for a window that begins at any tick,
  whatever the caps, the gaps and the length of a day. Needs the ids and times of
  `UsageInv`: two visits that started at one tick are told apart by their ids.
  The fold over a visit's rows is first shown to be a step per row
  (`IntervalsByStep`, by `Recursion`); along the steps the intervals are the
  stretches and their views the view rows (`Gathered`, `GatheredMore`). Then tick
  by tick: `SpansAtTick` and `ViewsAtTick` for a stretch, `SlicesAtTick` for what
  is cut to the window, `AllAtTick` for all visits, where `PresentFacts` shows that
  the look-back leaves no visit out, and `TopIsLeading` for the view that counts.
  `PiecesFit` says that within a piece neither slices nor day change and that the
  pieces miss no tick, and `TimeIsTicks` that pieces which do not overlap sum to
  their ticks.
* `StreamAlwaysAsWhole`, `AlwaysHeldBackLittle`: `SseInv` says of a choice that runs
  that it `Follows` its upstream: whatever text comes next, the whole's answer is
  what was sent and the answer of what is kept with that text, read in the
  filter's mode. That the filter keeps this up (`FeedFits`) is shown for each way
  its loop goes on: a first tag stays the first when the text goes on
  (`OpenStays`, which needs that the name has no "<", and `CloseStays`), and what
  is let through at the end cannot become part of a tag (`HoldsFits`, `KeepsFits`).
  The two recursive functions are first shown to be what their definitions
  say: `Recursion` builds the solution of a recursion that goes down in size,
  and `FeedSolved` and `StrippedSolved` apply it, since each round is left with a
  shorter text. What holds of all texts is proved by the shortest exception
  (`LeastNumber`), with no induction theorem.

`ScriptProofs`, for all ten ratchets and any bounds, for any repository, maps and
branch, and for any number of runs, archives and shards:

* `NothingGrowsUnseenAlways`: inductive with `RecordedBelow`, that what a good
  baseline records is no more than what was accepted, since a check compares
  with the baseline only.
* `NarrowRunAlwaysCovers`: what a route decides is compared with the tree in
  every later state, so a change of the tree voids the decision
  (`UnroutedKeeps`); that a decision covers is `RoutesRightly`. A run narrows
  only when the owners of all changed paths are one surface (`NarrowedToOne`),
  and a surface that owns a path is where it shows (`OwnedShowsThere`).
* `AlwaysByReviewedMap`: needs that a map which is not main's leaves its file in
  the diff (`MapListed`), over edits, commits and merges.
* `NoArchiveLeftCorrect`: unless `broken` says otherwise, every archive in
  `vendor/` has a run that is going to remove it, and every partial one a run that
  writes it (`ArchiveInv`): a run that finds a partial archive does not keep it
  alive, and where an `unlink` raises the other run still holds the archive.
* `PresentIsWholeCorrect`: all shards are there before any is moved, and while
  the file of `model_path` is beside the model and another is not, a run moves
  the others or, from a flat repository, fetches them (`ShardInv`,
  `LeavesShards`).

`TrayHubProofs`, for any number of trays and hubs (the run has one tray):

* `TrayTypeCorrect`: with it that no two hubs serve (`OneServing`).
* `RestartCorrect`: needs what a click's thread knows of the hub it is to
  replace before and after `stop` (`RestartInv`), that `stop` waits for the
  process of the record (`HeldInv`), and that threads which have not met are
  alone in `start` and `stop` (`AloneInv`), which the tray's lock does not give:
  `crossed` is set where it fails. A start after a stop that raised is the
  click's own, since the autostart thread never stops a hub (`AutoInv`).
* `QuitCorrect`: a stop that raised keeps the record, so what an earlier restart
  could not stop the quit tries again. Needs that a tray has a record of every live hub it spawned
  (`ChildInv`), so that `start` overwrites no record of a live one (`SpawnInv`).
  `TrayInv` is the conjunction of these with `OffInv` and `KnownInv`.

The proofs rest on `BackendAssumption`, `OnDemandAssumption`, `HubAssumption`,
`FanoutAssumption`, `LockoutAssumption`, `PowersAssumption` (what the proofs need
of powers of two, of which the prover knows nothing), `RatchetAssumption`,
`TrayAssumption`, `InstallerAssumption`, `DoorAssumption` (what stands for no
token and no origin is none), `RoutingAssumption` (the shape of a map, and that
the rules of one stylesheet are followed), `UsageAssumption` (a visit has one of
the three device classes that `parse_batch` lets through, a day has ticks) and
`ThinkAssumption` (a tag's characters are characters, and its name has no "<")
alone, which TLC evaluates in the runs. The liveness properties are model-checked only: they need fairness and
ENABLED, which the prover does not handle.

Every invariant that a run checks is stated by a theorem.

## Not modelled

The idle sweep's loop over several rows (rows share nothing), the VRAM warning's
arithmetic, `force_stop_external` (it kills whatever holds a port by design),
changes of `models.yaml` during a run (it is read once), formatting and logging;
the scanners of the ratchets (what they find is a number), the counters and
percentiles of the observatory, the probes of the installer's checks, the menu
of the tray. Components that no module covers are listed with the reason in
`PROJECT.json`.

## Plan

1. Rows that share a port: an alias adopts the same process as the row it
   stands for.
2. Two trays in one run, on an instance of its own (the theorems of
   `TrayHubProofs` already hold for any number).
3. An abstract specification of a row that the watchdog and operators stop as
   well, and several rows with the host's restart.
