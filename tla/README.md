# Jackery SolarVault: models and proofs

TLA+ models of the Home Assistant integration *Jackery SolarVault*
(`src/custom_components/jackery_solarvault/`, in short `jsv/` below), the TLC
runs that check them on small instances and the TLAPS proofs that hold for every
value of the constants.

The integration is single-threaded asyncio. Nothing runs in parallel, and
everything interleaves at an `await`: the poll cycle, entity commands, unload,
the runner of each transport, callbacks, and cancellation, which can arrive at
any await. What goes wrong in such code goes wrong between two awaits, in an
order nobody wrote a test for. So one action of a model is the code between two
awaits, and the models are about *ownership* (which session does this task belong
to), *order* (of frames, of stops and starts) and *time* (which deadline is this
attempt entitled to).

| Section | |
|---|---|
| [Inventory](#inventory) | the parts of the system, their state, their hard behaviours |
| [Plan](#plan) | which modules exist, which come next, in which order |
| [The modules](#the-modules) | what each models and how it corresponds to the code |
| [The runs](#the-runs) | what each run shows, its bounds, its fairness |
| [The proofs](#the-proofs) | what is proved, from which assumptions, by which invariant |
| [Divergences found](#divergences-found) | where the code and its documents disagree |
| [What is not modelled](#what-is-not-modelled) | and why |

## Inventory

### How the parts interact

```
            Home Assistant: config entry, entities, services, timers
                 | setup/unload/stop      | commands        | poll timer
                 v                        v                 v
  __init__.py  JackerySolarVaultCoordinator (coordinator.py)  <-> stores
                 |   HTTP cycle (primary)     |  transport choice per command
     +-----------+--------+-----------+-------+-----+
     v                    v                   v     v
  JackeryApi       JackeryMqttPushClient   local MQTT   BLE
  client/api.py    client/mqtt_push.py     local_mqtt   ble_transport
     | login, token,      | session runner       | queue      | GATT owner,
     | cached MQTT        | FIFO of frames       | echoes     | command turns,
     v credentials        v RPC futures          v retry      v acks, fragments
  Jackery cloud HTTP   Jackery broker       user's broker   device
```

HTTP is the primary path: only it logs in, and its login is where the broker's
credentials come from. The other transports ("Layer 5") start later, may fail
without failing the entry, and hand values to the coordinator, which merges them
by source and age. A Jackery account has one MQTT session: a second one throws
the first out, so reconnecting carelessly is itself a fault.

### Components

*Cloud MQTT session* (`client/mqtt_push.py`). State: `_runner_task`,
`_session_generation`, `_fingerprint`, `_connected`, `_connected_event`,
`_session_state`, `_client`, the lifecycle tasks and the topic lists. Operations:
`async_start`, `async_stop` (both under one lock), the session runner
(connect, subscribe, consume, leave), the lifecycle callbacks (birth snapshot,
recovery), `async_publish_json`, waiting for the connection. Hard: a stop waits
at most five seconds and never cancels a runner inside CONNECT or SUBSCRIBE, so
old runners outlive their session; publishers sleep across a replacement.
Correct when: at most one runner lives, `is_connected` tells the truth about the
current session, a displaced runner touches nothing, a lost session is recovered,
nothing survives a completed stop.

*Cloud MQTT message queue* (`client/mqtt_push.py`). State: the deque, the consumer
task, the delivery task with its frame. Operations: accept a frame, consume,
deliver through the coordinator's callback in a task of its own, drain on stop.
Hard: consumer and delivery belong to the config entry and can be cancelled at
any await, also before their first step. Correct when: accepted frames reach the
coordinator once, in order, one at a time; none waits without anybody to take it;
a drained stop leaves nothing.

*Cloud MQTT reconnect policy* (`coordinator.py`: `MqttConnectionManager`,
`_async_ensure_mqtt`, `_async_handle_mqtt_disconnect`, the poll cycle's part, the
credential handoff, the command path). State: the throttle's, pause's and
backoff's deadlines, the fingerprint of the last good connection, the reconnect
loop. Hard: five kinds of tasks ask for a session, some force it past the
deadlines, logins rotate the credential under all of them. Correct when: no
reconnect storm, the deadlines are kept, a lost session is started again, a
login is only thrown away when the broker refused it.

*Cloud MQTT request/response* (`client/mqtt_push.py`). Futures keyed by message
id. Correct when each answer resolves its own request and a stop fails all.

*Local MQTT* (`client/local_mqtt.py`, `__init__.py`). A bounded queue that drops
the newest frame, a consumer and a delivery task, recognition of own publishes by
content and age, a retry loop; and around it the setup, the options, the unload and
a cleanup task, which start and stop the client, most of them under the entry's
lock and some without. Hard: a stop has a time limit and what does not stop is put
off to the cleanup, whose client then blocks the next start. Correct when frames
keep their order over cancellations and overload, one client runs, somebody owns
it, and the one that runs in the end is the one the options ask for.

*BLE* (`client/ble_transport.py`, `client/ble.py`). A runner that reconnects, the
session that owns the GATT link, its notification queue with a drain, the
teardown, which may fail and is joined by others, commands that write and wait for
an acknowledgement, stop. Correct when there is one link and it has an owner, no
command waits for a session that is gone, no notification is lost or overtaken
over reconnects, and a dead link is given up.

*Device commands over several transports* (`coordinator.py`,
`_async_publish_command_ble_first`). BLE and cloud MQTT at once, the first success
answers the caller, the other goes on in the background; the cloud's attempt
repeats itself on another session after a failed publish; a record per kind of
command of whether the newest attempt on this session failed. Correct when the
answer is true in the end and an old failure never replaces a newer success.

*Transport supervisor* (`client/transport_supervisor.py`). A start/stop state
machine, not instantiated by production code of this repository.

*Layer-5 start, shutdown, reaper* (`__init__.py`, `coordinator.py`). Setup makes a
coordinator, unload and rollback fence it and shut it down for a limited time, a
reaper goes on with what did not stop. Correct when no two coordinators are in
operation on one account, and a fence never keeps the setup out for good.

*HTTP API client* (`client/api.py`). Token, login lock, one automatic re-login with
a cooldown for a refused token, transport retry, invalidation by the broker's
rejection, the setup's login, which takes no lock. Correct when one login serves
all that wait, a fresh token is not dropped for an old answer, and a dead token is
replaced.

*Statistics backfill* (`coordinator.py`). Two queues per device (days; weeks,
months and years), what was tried least or longest ago first, with budgets of requests
and time, a rate limit, a persisted state, one wide pass after a start; the rows go to
the Recorder's queue, and nobody waits for their commit before the bucket is marked.
Correct when what is marked imported is in the Recorder or waits there, a crash costs
no more than what waited, the wide pass ends only when all was looked at, and a bucket
that always fails does not keep the others waiting.

*Daily energy counters* (`coordinator.py`, `client/daily_energy.py`). The reading of
a lifetime counter that today's energy is counted from, in memory and in a store.
Correct when the anchor of a day is that day's first reading, or there is none.

*Update cycle and freshness* (`coordinator.py`, `ingest.py`). State: the properties
shown, the observation each live one is from, recent CombineData values, recent local
writes. Operations: pushes of three transports, the update cycle, manual HTTP reads,
local writes; each merges by source and age. Hard: the cycle reads what is shown three
times, with awaits between, and replaces it in the end; every merge is followed by a
second one, when the result is published, under a label that may be another. Correct
when HTTP takes nothing away that a fresher source or a write has brought, and what
HTTP alone knows is shown.

*Discovery and caches*, *session store*. Reconciliation of inventories, versioned
storage. Correct when a device present in the cloud is never dropped for a failed
request.

*Entities and descriptions, services and configuration flow, parsing and
formatting, discovery publisher and diagnostics.* Declarative or pure; no state
that outlives a call.

`PROJECT.json` lists every component with its files, and every hazard at its line.

## Plan

Ordered by what the rest depends on. Cloud MQTT comes first: it carries the
commands and the live values, and has the most concurrency.

| # | Module | State | Contents |
|---|---|---|---|
| 1 | `CloudMqttSession`, abstract `BrokerSession` | done, proved | session ownership |
| 2 | `CloudMqttFifo`, abstract `SerialDelivery` | done, proved | order of frames under cancellation |
| 3 | `MqttReconnect` | done, throttle proved | who may start a session, and when |
| 4 | `ApiSession` | done, proved | token, login lock, re-login, invalidation, the setup's login |
| 5 | `BleSession`, abstract `SerialDelivery` | done, proved | link ownership, teardown, acknowledgements, stop |
| 6 | `LocalMqttFifo`, abstract `SerialDelivery` | done, proved | the bounded queue |
| 7 | `LocalMqttListener` | done, proved | who starts and stops the local client |
| 8 | `EntryShutdown` | done, proved | one coordinator at a time, fence and reaper |
| 9 | `DayBackfill` | done, proved | queues, budgets, persistence |
| 10 | `CommandDispatch` | done, proved | commands over two transports |
| 11 | `DailyAnchor` | done, proved | the daily anchor over restarts and midnight |
| 12 | `BleReassembly` | done, proved | chunks to messages, over losses and repeated deliveries |
| 13 | `PropertyFreshness` | done, proved | merging by source, age and priority, over the update cycle's awaits |

*Proved* means every safety property the runs check of the module; liveness stays with
TLC. `SerialDelivery` is implemented by three queues: the cloud's, the local broker's
and the BLE notifications of all connections of a device.

Composition. Each module abstracts what it needs of its neighbours:
`MqttReconnect` has a client that is down, opening, up or cut and logins at any
time, where `CloudMqttSession` and `ApiSession` have the detail; `CommandDispatch`
has a broker session that begins, connects and drops. `MCTransports`, `MCAccount`
and `MCProgress` put components side by side, not into one product.

Left to do next: the sequence number by which a reassembled message answers a command;
`ApiSession` in place of the arbitrary logins of `MqttReconnect`; lemmas about the
progress of the parts that could carry a proof of liveness by hand; and nested
dictionaries in `PropertyFreshness`.

## The modules

### CloudMqttSession

`JackeryMqttPushClient` without its message queue. A session is named by
`_session_generation`, and its runner task by the session, because
`async_start` creates at most one runner per generation.

| State | Code |
|---|---|
| `stopping`, `generation`, `fingerprint`, `connected`, `event`, `subscribed`, `client`, `birthGeneration`, `protocolWait`, `runnerTask` | the attributes of the same names |
| `phase[g]` | the await at which the runner of session `g` is suspended |
| `acks[g]`, `cancelled[g]` | SUBACKs received; `task.cancel()` was called |
| `lifecycle` | `_lifecycle_tasks`, each with whether it runs and is cancelled |
| `call` | the `async_start` or `async_stop` that holds `_lock`, and its await |
| `pub[p]` | a caller of `async_publish_json` and what it waits for |
| `quiesced`, `sessions`, `recovered` | histories for the properties |

| Actions | Code |
|---|---|
| `Start`, `Stop`, `StopTasksDone`, `StopTimesOut`, `StopReturns`, `StartGeneration`, `CreateRunner`, `CallAborts` | `async_start`, `async_stop`, `_async_stop_locked` with its plan, cancel and settle steps |
| `RunnerBegins` .. `ContextClosed` | `_async_run_session`, `_async_open_session`, `_async_subscribe_session`, `_async_consume_session_messages`, `_finalize_session` |
| `LifecycleBegins`, `LifecycleCancelled`, `BirthReturns`, `BirthRaises` | `_schedule_lifecycle_callback`, `_schedule_birth_snapshot` |
| `PublishCalled`, `PublishWoken`, `PublishTimesOut`, `PublishSucceeds`, `PublishFails` | `async_publish_json`, `_async_wait_connected` |

`BrokerSession` is what the account's broker may see: one session at a time, each
of a later generation. `CloudMqttSession` refines it with `open` as the sessions
whose runner is inside the broker context.

Not in it: the silence watchdog (reads and logs), RPC, and the branch of
`_mqtt_stop_plan` that spares the calling task, which only matters when a
lifecycle callback calls `async_stop` itself; none does in production.

### CloudMqttFifo

The deque, consumer and delivery of the same class. Frames are their acceptance
numbers. `ConsumerCancelled`, `DeliveryCancelled` and `CallbackCancelled` cancel
each task wherever it is; a cancelled delivery that never ran its first step gives
its frame back to the head of the queue, and a consumer's done callback starts a
successor when work is left. `DrainRound` is one round of the polling drain in
`async_wait_message_queue_idle`. `retired` counts replaced consumers whose done
callback is still to run. Frames are not tied to sessions here: a stop stops
accepting, which is what the queue sees of the session.

`SerialDelivery` is the promise: the sink gets accepted frames one at a time, in
order, each at most once.

### MqttReconnect

Who asks for a session and when. The client is reduced to *down*, *opening*, *up*
or *cut* (started, but its connection given up by a failed publish); a stop ends
it at once, and replacing it *ousts* those who wait for it and *orphans* those who
publish on it, so sessions need no numbers. That abstraction is what
`CloudMqttSession` justifies: at most one runner, waiters of a stopped session
woken, displaced runners silent.

| State | Code |
|---|---|
| `mgr.throttle`, `mgr.pause`, `mgr.backoff` | what is left of `last_connect_attempt + MQTT_RECONNECT_THROTTLE_SEC`, `paused_until_monotonic`, `backoff_until_monotonic` |
| `mgr.known` | `MqttConnectionManager.fingerprint` |
| `client`, `fingerprint`, `lastError`, `rejected` | the MQTT client; `rejected` is `consecutive_auth_failures > 0` |
| `born`, `lost` | `_async_mqtt_connected`, `_async_handle_mqtt_disconnect` scheduled |
| `api`, `saved` | the credential cached by the API client; the one persisted |
| `cycle` | the poll cycle: idle or in its HTTP requests |
| `task[t]` | the reconnect loop, `mqtt_ensure`, `mqtt_persist` and each command, at the await where it is |
| `sleep` | what is left of the loop's `asyncio.sleep` |
| `sinceLoop`, `refused` | histories: age of the loop's last attempt, credentials the broker refused |

`RetryDelay`, `Noted`, `Paused`, `Failed`, `Attempted`, `Succeeded` and `Skips` are
the manager's methods. `Attempts` and `Defers` are `_async_ensure_mqtt` up to
`async_start`, `AsyncStart`, `Opens`, `StartFails` the start under the client's
lock, `WaitSucceeds` and `WaitFails` the wait after it, with the error paths of
each caller. `DisconnectRuns`, `LoopBegins`, `LoopWakes`, `LoopGoesOn` are the
reconnect loop. `CommandCalled` .. `CommandCancelled` are the publish with its
stop and single retry. `LogsIn`, `CyclePrepares`, `CycleEnds`, `Handoff*` are the
HTTP side.

Time: deadlines are countdowns and `Tick` lets one unit pass. What the event loop
has ready (a due task, a scheduled callback, the five-second stops) takes no
time, so `Tick` and the next poll cycle wait for it (`Urgent`). Which step of the
backoff table a failure reaches depends on the failure's signature; here a
failure may pick any step. Shutdown is left out: Home Assistant cancels the
entry's background tasks, and nothing of the policy survives it.

### ApiSession

| State | Code |
|---|---|
| `token`, `apiLock`, `cooldown` | `_token`; the holder and the waiters of `_lock`; what is left of the cooldown after `_last_auto_relogin_monotonic` |
| `request[r]` | a call of `_perform_authenticated_json_request` at its await, with `token_used`, the token it was sent with and what the cloud granted it |
| `setup` | the login of `_async_authenticate_api_layer` |
| `session` | the token the cloud accepts |
| `distrusted` | history: the token in place has been refused |

`CallsWithToken` .. `RefusedAgain` are a request through `_ensure_token`, the attempt,
`_relogin_and_retry_request` and the second attempt, with the transport retry of the
calls that have one (`Repeating`). A refused request looks at the token again once it
has the lock (`RecoverUnderLock`). A login's answer and the login are two steps: the cloud may have
opened a session whose token never arrives (`CloudGrants`, then a failure). Tokens
that nobody holds are used again, so behaviours have any number of logins.

### LocalMqttFifo

The same promise as `CloudMqttFifo` for another piece of code: a bounded queue, a
settled delivery that puts its frame back at the head (which may exceed the bound by
one), consumers that are replaced while the done callback of the one before is due
(`lfRetired`), drains of a stop that run beside the next start. `Enqueue` on a full
queue drops the frame before it is accepted.

### LocalMqttListener

`_async_start_local_mqtt` under the entry's lock (`lmStarter`, `lmLock`), for the setup
and for changed options; the unload, without the lock; the per-client stop task that
all of them share (`lmStop`); the cleanup of what did not stop
(`lmDeferred`, `lmStale`, `lmRestart`, `lmCleanup`). Coordinators, clients and tasks
are objects that are used again when nothing refers to them. A stop's time limit is a
choice: the waiter sees the stop's end, or gives up first (`StopNotSeen`).

### BleSession

One device. `bleSession[s]` is a `_GattSession`: its link, `active` and `accepting`, its
queue, the notification in delivery and its teardown. The runner connects, asks for
notifications, waits, leaves and joins the teardown; a teardown that fails retains
the session for the next round (`TeardownFails`, `RunnerFindsRetained`). Commands
write only on the current session and wait for an acknowledgement
(`CommandBegins` .. `CommandEnds`); `Acknowledges` resolves every pending command of
the type, as the code does. `StopBegins` .. `RunnersStopped` are the stop. A client whose
connection comes up after a stop, or for a runner that was replaced, is disconnected
within five seconds (`RunnerDisposes`); when that fails, the code logs it and the runner
ends (`ble_transport.py`, lines 1892-1903). Such a link is *stray*: still up, and nothing of
the listener refers to it. `OneLink` says of it that nothing does, and is about the other
links otherwise; a stop that reports success may leave it behind. A session whose link is
stray is used again once the link is lost (`LinkLost`). Frames
are whole: inspection and encryption are left out, and what is in them is
`BleReassembly`.

### BleReassembly

What `_handle_notification` does with the chunks of a device's messages. `brPending` is
`_frame_assemblies` of the device: what is held of each key, and the keys in the order
of `updated_at`. `brFrame` is the
notification in flight, `brObserved` what its observation has for the sink. `Handled` is
the whole decision: a complete JSON object that continues nothing passes as a page
(`Continues`), anything else is put into the assembly of its key (`Reassembled`), which
another chunk count or another first chunk replaces (`Supersedes`), in which a
changed chunk leaves only itself (`Joined`), and for which the assembly that waited
longest gives up its place (`Room`). A delivery that is cancelled in the sink is handled
again (`DeliveryLost`, `HandledAgain`), as `BleSession`'s FIFO does it. The device is not in
the repository: that it sends the chunks of a message in order, and a list of pages or
else a text whose first fragment is no JSON object, is taken from the docstrings
(`ble.py`, line 549; `ble_transport.py`, line 105). The history `brWhole` says which
message is undisturbed so far, `brTroubled` for which keys something was lost, given
up or repeated on this connection. `Supersedes` for a first chunk is not needed for
what comes out: without it `Joined` would drop the old chunks just as well.

### EntryShutdown

The flow of the entry (Home Assistant runs one setup or unload at a time), the
reference `runtime_data`, the fence (`unloading`), the record of a shutdown that goes
on (`shutdownRecord`), each shutdown task and each coordinator's base shutdown, and the
reaper. The base shutdown is the action `BaseShutdownEnds`, with success or failure:
what it stops in detail is the other modules' business. A coordinator counts as in
operation until then. `async_shutdown` cancels its HTTP update tasks last and returns
without waiting for them to unwind (`coordinator.py`, lines 6498-6526), so `OneRuntime`
does not say that no request of the old coordinator is under way. A flow waits for a task for
a limited time (`FlowGivesUp`) or is told of its end, and may miss it
(`ShutdownNotSeen`).

### DayBackfill

| State | Code |
|---|---|
| `bfStatus`, `bfAttempts` | the buckets' states in `_statistics_backfill_state`: status; order of `last_attempt_at`, and `attempts` |
| `bfSaved` | what `_statistics_backfill_store` holds of them |
| `bfRecorder` | Home Assistant's Recorder: the buckets whose `rows` it has committed, those `queued` for its thread, those a crash `lost` |
| `bfStartup`, `bfVisited` | `_statistics_startup_sync_pending`, `_statistics_startup_fetched` |
| `bfJob` | the job at its await, with the rest of its budget |

A bucket is fetched and its rows are queued (`BucketQueued`), it is marked
(`BucketImported`), and the state is saved (`QueueSaved`), with `RecorderCommits`,
`JobCancelled` and `Crash` between any two. Each import waits at its beginning for what was
queued before (`async_block_till_done`, line 20304), but nothing waits for the commit of its
own rows: a crash may find a bucket marked and saved whose rows are only queued. `Reload`
makes a new coordinator in a Home Assistant that runs on, and the Recorder keeps its queue.
What the Recorder does with rows it was handed is not in the repository: it is taken to
commit them sooner or later unless the process dies. A statistic's rows are one bucket's;
the several statistics of a bucket are queued in one step, the earlier ones being committed
before the last.

The rest of a queue is a set: which of it comes next is decided by the order in which the
code sorts (`Before`, `Due`), on values that do not change while the bucket waits. Both
sorts take the number of attempts first and the time of the last one after it; of a day the
number is cut to whether there was one. Only differences of numbers are compared, so the
counts are kept relative to the period tried least (`WithAttempt`) and told apart up to
`AttemptLimit`. A day costs one request or two
(`Requested`): one without a curve is looked up in the chart of its month. A Recorder error
is caught for a period, which fails (`BucketFails`), but ends the job for a day
(`BucketRaises`).

### CommandDispatch

One kind of command (device, action, cmd). Each command has its caller, its two
transports and the task that waits for the slower one. `Bind` is
`_bind_cloud_command_attempt`: it ties an attempt to a session and
forgets what an earlier session recorded (`OfSession`); `RecordResult` is what is
recorded of its end. `CloudRetries` and `CloudStops` are the stop of the session and
the one retry after a failed publish.

### DailyAnchor

`dyAnchor`, `dyStore`, `dyPersisted`, `dyWrite` are the device's row in memory, in the
store, in the signature of the last write and in the task that writes. `dyCycle` is
the update cycle: the date and whether it changed are read before the requests
(`CycleStarts`), the counter after them (`CycleReads`), persistence is scheduled at
the end (`CycleEnds`), and a cycle may break off anywhere. `dyCached` is
`_cached_date`, which a new coordinator does not have. The branch of the load that
merges rows read before it is left out: setup awaits the load before the first
cycle (`__init__.py`, line 1240).

### PropertyFreshness

One device's properties, as its entities show them (`shown`).

| State | Code |
|---|---|
| `provenance` | `_property_source_state`: source, age of the timestamp, what is left of the freshness window since reception |
| `canonical` | `_canonical_live_property_state` |
| `written` | `_property_overrides`: one timestamp for all writes of the device |
| `mqttLast` | `PAYLOAD_MQTT_LAST` |
| `httpCycle` | the update cycle: its await, its baseline, the old entry it holds, the answer |

A merge is a function from board to board, as the code's are: `Taken` is
`_property_updates_for_source` with `ingest_observation`, `Merged` is
`_merge_main_properties_for_device`, `MergedPartial` the merge of what differs, and
`Published` is `_push_partial_update`, which merges a second time. `BlePush`,
`MqttPush`, `HttpRead` and `LocalWrite` are one step each. The cycle reads the
baseline (`CycleStarts`), the old entry (`PropertyAnswered`, `PropertyFailed`), merges
the answer into it (`EntryBuilt`), may start over (`CycleRetried`) and in the end
replays, field by field, what differs from the baseline (`Replayed`), in any of the
`Orders` of the changed fields: the code takes that of the dictionary. Time is kept as
ages and countdowns (`PfTick`); an age above the window is as good as any other.
HTTP's answers are taken as they come, with any values: what they lag behind is not
asked.

## The runs

| Run | States | Properties | Bounds |
|---|---|---|---|
| `session` | 861,600 | `TypeOK`, `OneLiveRunner`, `ConnectedIsOwned`, `ProtocolWaitNotCancelled`, `WaitersAreCurrent`, `StoppedIsQuiet`, `StaleRunnerIsSilent`, `ImplementsBrokerSession` | 2 credentials, 2 publishers, 2 topics, `MaxGen` 5 |
| `session_restart` | violation | `DisconnectedSessionRestarts` | `MaxGen` 4 |
| `session_stop` | violation | `StopClears` | `MaxGen` 4 |
| `fifo` | 14,983 | `TypeOK`, `NoStrandedFrames`, `StopDrains`, `ImplementsSerialDelivery`, `AcceptedIsHanded`, `StopEventuallyEnds` | 4 frames, 4 cancellations |
| `reconnect` | 754,674 | `TypeOK`, `LoopIsThrottled` | 1 credential, 1 command |
| `reconnect_delay` | violation | `LoopHonoursDelay` | 2 credentials, 1 command |
| `reconnect_dropped` | violation | `DroppedWasRefused` | 2 credentials, no command |
| `transports` | 1,146,444 | `TransportsTypeOK`, `OneListener`, `OneLink`, `AckWaiterOwned`, `BleFifoSpec`, `LocalFifoSpec`, `ChangesSurvive`, `MessagesAreWhole` | listener: 2 coordinators, 2 starters, 2 clients; BLE: 2 sessions, 2 commands, 2 notifications; 2 message kinds with 1 to 3 chunks, 1 pending; queue of 2, 4 frames, 3 cancellations, 2 drains; one live or one other property, 2 values, window 1, priority of a write 2 |
| `account` | 2,173,448 | `AccountTypeOK`, `OneRuntime`, `ImportedIsRecorded`, `NewerOutcomeStands`, `AnswerIsFinal`, `FreshTokenKept`, `StartupIsComplete`, `DailyAnchorStands` | 2 requests, 8 tokens; 3 coordinators, 3 shutdown tasks; a device with 2 days and a period, `AttemptLimit` 1; 2 commands on 2 sessions; 3 dates, 3 readings |
| `progress` | 136,849 | `SessionProgress`, `SetupProgress`, `ListenerProgress`, `LinkProgress`, `BackfillProgress`, `ReconnectProgress`, `RunnerProgress`, `LossProgress` | 1 request, 2 coordinators, 1 client, 1 BLE session, 1 device with a day and a period, with 2 days or with 2 periods, `AttemptLimit` 2, 1 credential, no command; cloud session: 1 credential, 1 publisher, `MaxGen` 4 |
| `refresh_read` | violation | `ReadIsMerged` | one live property, 2 values |
| `ble_message_lost` | violation | `AcceptedReachesSink` | one key, messages of 1 or 2 chunks |

What the properties say is written above each of them in its module.

**Side by side.** The states of `transports`, `account` and `progress` are the *union*
of their components' states: a constant variable `part` says whose behaviour it
is, and the other components keep their initial state. So these runs check
components, not their interaction, and nothing in them rests on the product.
What two components have to do with each other is a step of each
of them: the broker's rejection is `BrokerRefused` in `ApiSession`, a new
coordinator `CoordinatorReplaced` in `DailyAnchor`.

**Bounds.** A start takes two generations (`_async_stop_locked` counts one, the
start another) and a stop one, so `MaxGen` 5 gives two sessions and a stop of the
second, or a session, a stop and a replacement of a runner that outlived it: the
shortest cases in which an old runner meets a new session. In `progress` 4 are enough to
replace one runner, or to stop it and start the next. Two topics are the
least for which a runner can be between two SUBACKs. Two publishers let one give
up the connection under the other. Four frames and four cancellations let
consumer, delivery and callback each be cancelled while others wait, and a
cancelled successor be cancelled again. The reconnect instances keep the order of
the real durations (pause 60 s and shortest backoff 30 s below the throttle of
90 s, the longer backoffs above it) as 1, 1, 2 and 3. The credential only
matters to `LoopIsThrottled` and `ReconnectProgress` by being there or not, hence
one; the two runs about a rotated credential have two. In `progress` there is no
command: the graph with one is too large to search for cycles in reasonable time.

Objects that are used again (tokens, listener clients, BLE sessions, coordinators,
shutdown tasks) make behaviours unbounded; their number bounds only how many are
alive at once. Two listener clients let one be left to the cleanup while the next
one starts; two BLE sessions let one be retained by a failed teardown, a third
cannot come to be before that ends. Three shutdown tasks are the record's, the
reaper's and a new one. Eight tokens are what two requests, the setup, the client
and the cloud can hold at once. A local queue of two is the least that can be full
while its head is put back. In `account` a startup budget of 2 and a cycle budget of 1 are
less than the two days of a device can cost, so the wide pass is cut off within a queue,
between the queues and before the device. Two devices with both kinds of buckets are too many for
TLC: that the pass is over all of them is `StartupCompletes`, for any number. In
`progress` the backfill has three instances: a day that costs two requests at most with a
period behind it and a budget of 3 (then 2), so that something is left to the period (the
property does not hold of other budgets, see *Divergences found*); and two days, or two
periods, with a budget of 1, so that the queue is cut off in every cycle and has to turn.
The two periods start untried or as earlier coordinators left them, one tried `AttemptLimit`
times more than the other, which has to catch up first. Three dates let
an anchor be two days old. The merges decide field by field, and what fields have in
common (`mqttLast`, the write's age, the cycle) is moved by steps that say nothing of the
field, so one field at a time is enough for TLC; it is a live one with a
CombineData value, or one of the others. That several fields do not disturb each other,
in whatever order they are replayed, is `ChangesAreKept`. A window of 1 has fresh, timely and stale
observations, and a write outlasts it. Three chunks let one be
in the middle, two kinds alternate, and a limit of one assembly (8 in the code) makes the
other kind's give way; with three kinds and two places `MessagesAreWhole` holds too
(199,648 states by itself). `local_mqtt` has the tier of `cloud_mqtt`, so one
of the two is there. `transports` takes states that differ by a permutation of
coordinators, BLE sessions or values for one, which halves it.

Deadlock checking is off where the bounds stop the system (generations, frames,
dates) and on for the reconnect runs and for `progress`.

**Fairness.** The cloud session part of `progress`: weak fairness of every step the event loop or a
bounded wait drives: the call that holds the lock (each of its awaits has a time
limit), a runner's start, its CONNECT and SUBSCRIBE (aiomqtt's own time-outs), the
exit of the broker context, a cancelled runner leaving its stream, lifecycle
callbacks. No fairness for starts, stops, publishes, or for the broker ending a
stream. `session_restart` adds weak fairness of `async_start`, that the
coordinator keeps asking: even then the session does not come back. `fifo`: weak
fairness of consumer, delivery (the coordinator's callback returns or raises) and
drain. The reconnect part of `progress` (`Fairness` of
`MqttReconnect`): time passes (`SF(Tick)`: it is held up only by ready
work), ready work runs, the loop's wait ends (30 s limit), storage answers, a
login is made when the token was dropped, the cycle's timer keeps firing and its
requests succeed now and then (strong fairness: they may fail any number of times
between), and the TLS context can be built now and then. Nothing is assumed of
the broker: it may refuse or drop every session.

`progress` states the fairness as the premise of each property, because a behaviour is
one component's. `ApiFairness`: the poll cycle keeps calling, answers come or time
out, the lock reaches a waiter again and again (asyncio's is FIFO, but the waiter
may be cancelled), logins and refusals get through now and then; nothing of
cancellations or transport failures, and the promise is only for when the other
clients of the account and the broker have come to rest. `EntryFairness`: Home
Assistant finishes starting and runs its tasks, a base shutdown ends and succeeds
now and then. `LmFairness`: starters, unload and cleanup run, a stop ends, and
successfully now and then; the behaviours are those of `LmCalmNext`, without a start
that raises or a runner that dies, for neither is repeated by anybody. `BleFairness`:
the runner, the teardown and the stop run, deliveries and the sink end (strong: they
may be cancelled any number of times); nothing of commands or notifications.
`BfFairness`: the job starts and its requests are answered, the Recorder commits, an
attempt to import and the save get through now and then, that is, a job is not for ever
cancelled, out of time, stopped by the rate limit or ended by the Recorder's error before
its next step; the behaviours are those of
`BfCalmNext`, without restarts and new days, which would change what is due.

## The proofs

Every theorem is checked by TLAPS for all values of the constants, under the
`ASSUME` of each module alone: `NoCred` is no credential, counts are naturals, the
durations positive, command names differ from the other tasks'; nobody is no owner or
client and having no listener is a setting (`ListenerAssumption`); a login is tried at
least once (`ApiAssumption`); the buckets of a device are finitely many, days apart from
periods (`BackfillAssumption`); fragments are no pages (`ReassemblyAssumption`); the
fields are finitely many and no value is `Blank` (`FreshnessAssumption`).

With them every safety property that a passing run checks is also a theorem. What a
run shows besides is that the properties can be violated (its mutants), and liveness.

**CloudMqttSession_proofs.** `TypeInv` is `TypeOK` with what its bounds need:
a start that got past its check still has room for its second generation
(`StartHasRoom`), no runner exists for a generation not begun
(`FreshGenerations`). `OwnInv` carries the safety properties together, since none
is inductive alone: `OneLiveRunner` needs to know that a stop waits for exactly the
runner alive (`StopKnows`) and that beyond its settle step nothing runs
(`NothingRuns`); `ProtocolWaitNotCancelled` needs that the shared flag is set
whenever the one live runner is in a protocol wait (`WaitFlagSet`), which in turn
needs `OneLiveRunner`; `ConnectedIsOwned` needs the subscribed topics to be those of
the live runner's SUBACKs (`SubscribedSoFar`); `StoppedIsQuiet` and the refinement
need `LatestRunner`, `QuietStop` and `SessionsOpened`. Proved: `TypeCorrect`,
`OneRunner`, `ConnectionOwned`, `ProtocolWaitShielded`, `NoOutdatedWaiter`,
`QuietAfterStop`, `StaleRunnersAreSilent`, and `RefinesBrokerSession`: the initial
state maps to an initial state and each step to `Open`, `Close` or a stutter.

**CloudMqttFifo_proofs.** `Shape` are the types without a bound on frame numbers,
which follows only from the order: `OrderInv` says the frames handed, held and
queued are the accepted ones, consecutively. `WakeInv` adds that a drain means a
stop has begun, without which `NoStrandedFrames` would not survive a drain that
replaces the consumer. Proved: `TypeCorrect`, `OrderKept`, `NobodyStranded`,
`StopLeavesNothing`, `RefinesSerialDelivery`. `OrderKept` is about `AcceptedOrder`, the
invariant behind the refinement; no run checks it apart from the refinement.

**MqttReconnect_proofs.** The loop sleeps for a delay computed once and then starts
whatever the deadlines say by then, so `LoopIsThrottled` is not a matter of a
guard. What keeps the loop's attempts apart is `Spacing`: what is left of the
throttle plus the age of the loop's last attempt is never less than the throttle,
and the same for what is left of the loop's sleep. Every attempt of anybody starts
the throttle anew, every sleep is at least what was left of it, and time moves both
together. `Credentialed` (sessions are opened only with a credential) is needed
for the type of `refused`. One lemma per group of actions shows that each
preserves the invariant and is no early attempt; `TypeCorrect` and `LoopThrottled`
follow.

**Queues_proofs.** Lemmas about the operators of `Queues`, on which the locks and the
orders of attempts and assemblies are built. They take the first, the last or a named
member out by its position (`RemoveAt`, `Left`): a definition with `SelectSeq` is
recursive, and what it returns could be checked but not proved. `LeftFacts`, `AppendNew`
and `BehindFacts` say what stays, in which order and that nothing is there twice.

**LocalMqtt_proofs.** *The queue.* `LfShape` are the types without a bound on the frame
numbers. `LfOrder`: the frames handed over, held back and queued are the accepted
ones, consecutively. The case that is not obvious is a cancelled delivery that never
ran, whose frame goes back to the head of the queue (`SettledShape`). Proved:
`LocalFifoTypeCorrect` and `LocalFifoRefines`, for any limit of the queue.
*The listener.* `OneListener` is about clients that run and says who will stop them.
It is inductive only together with who has each client in hand (`AllHeld`), which needs
the lock's discipline (`LockKnown`, `LockHeld`), that what was seen to stop has stopped
(`StopsSeen`), that a cleanup pass keeps what still runs (`PassKnown`), and that a
starter whose coordinator still owns the entry works on the entry's own client with
nothing deferred (`Hands`): without that a start would go on beside a client left over.
Proved: `ListenerTypeCorrect` and `OneListenerAtATime`, for any number of coordinators,
starters, clients and settings.

**Ble_proofs.** *The session.* `OwnInv`: who is not the owner has an empty queue and no
link, but for the one the runner gives up (`NotOwned`, `Owned`) and the stray ones, which
nobody has (`StraysLetGo`); from the cut of the
link on nothing is accepted, and the link is released empty (`CutIsFinal`); a stop takes
the owner it found and there is none after it (`StopInv`). `OneLink` follows, and
`FifoOrder` builds on it: what was accepted and not handed over waits consecutively in
the owner's queue, so the queues of all connections refine one `SerialDelivery`.
`AckWaiterOwned` needs `WriterPlaced` besides. Proved: `BleTypeCorrect`,
`OneLinkAtATime`, `NoOrphanedAckWaiter`, `BleRefinesSerialDelivery`, for any number of
sessions, commands and notifications. *The messages.* `BrInv` relates the device to
what is held of its messages: of an untroubled key, what has been sent of a message is
exactly what is held of it, or nothing for pages, and between messages nothing is left
(`Followed`); of a troubled key nothing counts as whole but a message in flight
(`KeyInv`); and the chunk in flight is the last one sent of its key (`FlightInv`). Each
action may trouble a key, and most of the proof is that it troubles every key whose
assembly it disturbs. Proved: `ReassemblyTypeCorrect` and `MessagesKeptWhole`, for any
keys, lengths and limit of assemblies.

**Account_proofs.** *Coordinators.* `OneRuntime` needs to know, for each stage of the flow,
who may be running: while there is an owner, only the owner; otherwise only what is
fenced (`StageInv`). The fence is lifted when a shutdown task has ended well, so the
tasks named by flow, record and reaper must be the coordinator's own (`NamesInv`), a
task that goes on must be on record (`PendingInv`), and a new coordinator must be
none of those that are referred to (`UsedInv`). Proved: `EntryTypeCorrect` and
`OneRuntimeAtATime`, for any number of coordinators and tasks.
*The HTTP session.* `FreshTokenKept` says that a re-login throws a token away only if
that token has been refused, whatever was repeated, invalidated or stored meanwhile. It rests on who may log in (`ApiQueued`, `ApiServed`: only the head of
the lock's queue), on a token that a login is about to bring being nobody else's yet
(`GrantsAreNew`), and on what a refused request knows of the token it was sent with
(`RefusalsKnown`): one that still finds its own token under the lock has seen it
refused. Proved: `ApiTypeCorrect`, `FreshTokensKept`, for any number of requests and
tokens. *Backfill.* `ImportInv`: between the handing over of the rows and the mark the
Recorder has the rows or has them queued (`ImportIsBacked`); both status tables are backed
by what it has, has queued or lost (`Backed`); one bucket is queued at the most
(`OneQueued`); and what was lost is not marked again in the pass after the crash, and no
period after that pass, unless it is handed over again (`LostIsKnown`), which takes from
`StartupEnds` that the pass has read every period.
`BfInv`: the job's device and stage fit (`JobKnown`), its queue holds candidates of one
kind (`QueueKnown`), and the count of what is left to do is the number of candidates of
the devices done and to come (`Counted`); the last is why a pass that ends with the
count at nothing has left nothing. Proved: `BackfillTypeCorrect`, `StartupCompletes`
and `ImportsAreRecorded`, for any devices, buckets and budgets. *Commands.* `AnswerInv`
adds to `AnswerIsFinal` that a command not begun has no transport at work. `RecordInv`
adds to `NewerOutcomeStands` that the recorded success belongs to a bound attempt whose
cloud task is over, so that no record of an attempt bound before it can follow. Proved:
`DispatchTypeCorrect`, `AnswersAreFinal`, `NewerOutcomeKept`, for any number of commands
and sessions. *Anchors.* No row, in memory, in a write or in the store, is of a later
date than the last one with a reading (`RowsAreTrue`). A cycle that saw the date change
noted it on an earlier date than its own, later than any reading (`DatesInv`), so it
reads the first value of its date; a cycle of the current date finds the row that is
stored or being written and leaves it (`CurrentRowKept`, `SameDayKeepsRow`). Proved:
`AnchorStands`, for any number of dates and readings. *Together.* `AccountTypeCorrect`:
the part that runs keeps its invariant, the others stand as they began.

**Transports_proofs.** `PfInv` are the types with three facts that say a value does not
go away: what is on record as pushed is shown (`PushedIsShown`); nothing of a running
cycle's baseline is blank now (`BaselineIsShown`), nor in what the cycle holds once it
has read (`BaselineIsHeld`). A merge is described once, field by field (`IsMerge`,
`PartlyMerged`), and every step cites that. The end of a cycle is a run of merges in
any order of the changed fields. That the run exists and what it keeps is induction on
its length, which the prover does not have with an operator parameter; it is done here
by the least number at which it fails (`LeastOf`, from well-foundedness), once for the
existence of a run of steps (`RunExists`) and once for what each step keeps (`RunStays`).
What a replay keeps (`Retained`): a field once replayed shows what was shown or what is
laid over it (`Settled`), a field not replayed keeps its provenance, and what was not
outdated does not become so, which is why the replay's own label never refuses it.
Proved: `FreshnessTypeCorrect`, `ChangesAreKept` (`ChangesSurvive`) for any fields,
values, windows and transports, and `TransportsTypeCorrect` for the parts of
`MCTransports` together.

**Model-checked only.** All liveness properties (those of
`progress` and the two of `fifo`), which rest on fairness and `ENABLED` and are
out of the prover's reach; and the violations, which are counterexamples. Nothing is
proved of `MCProgress`, whose parts are the modules above with fewer steps.

## Divergences found

Each is a run that ends in a counterexample; `PROJECT.json` quotes the documents.

* **`session_restart`**: after a failed publish the session stays started and
  disconnected. `async_start` with the same credentials returns early although its
  docstring says it does so only when connected; only the silence or an error of
  the stream, a stop, or a new credential ends it.
* **`session_stop`**: a runner inside SUBSCRIBE when the stop gave up on it records
  its topic after the stop cleared the list.
* **`reconnect_delay`**: the reconnect loop does not look at the deadlines again
  after its sleep, so an attempt, a rejection or a failure meanwhile does not hold
  it back. The loop's own attempts stay a throttle apart.
* **`reconnect_dropped`**: each poll cycle after a rejection drops the login again,
  a fresh one with a credential the broker never saw included.
* **`refresh_read`**: a manual refresh publishes the answer of HTTP under the source and
  the timestamp of the last MQTT message. If that is older than the freshness window,
  live values that the merge has just accepted are refused again and the old ones stay
  shown; if it is recent, they count as MQTT values and keep the next polls out.
* **`ble_message_lost`**: a delivery cancelled in the sink with the last chunk of a message
  is handled again, but the assembly is gone: the message is lost, although accepted
  frames are kept in a "lossless FIFO". The chunk that is left without a first one then
  completes the next message of the same key and length with a foreign chunk.

Noticed while reading, without a run (no document promises the contrary, or the models
are above the grain of it):

* A publish that fails during the birth snapshot leaves `ONLINE` shown for a
  session that is not connected (`mqtt_push.py`, line 1301).
* A transport retry that finds the token dropped by the broker's rejection is sent
  without one, and may end as a rejected login within the cooldown (`api.py`).
* Backfill: buckets of the first device that fail for ever can use up each cycle's
  budget before the second device (`coordinator.py`, line 15061), and days that cost two
  requests out of an even budget leave nothing to the periods. "Once per install" (line
  4252) is once in each coordinator's life.
* A lost chunk has the same effect on the next message of its key: an assembly is replaced
  for its first chunk only if it has one (`ble_transport.py`, line 2193). After a lost last
  chunk, a message that begins with the same first chunk loses it to the changed second
  one (line 2229) and is lost, though all of it came.
* A push or a local write during an update cycle's awaits that brings back the value which
  the cycle started from is not seen by the comparison with the baseline, and the value
  that the cycle holds or has from HTTP is shown over it, a local write's priority
  notwithstanding (`coordinator.py`, line 11249; against 8924 and 11240).
  `ChangesSurvive` excepts this case; without the exception its run fails.
* A BLE client whose connection comes up after a stop and whose `disconnect()` then fails or
  times out is logged and let go (`ble_transport.py`, lines 1895-1903): the stop reports
  success ("Stop the BLE listener and release its resources", line 1526) with the link
  still up, while a failing teardown of an owned session makes the stop raise and keep it.
* Backfill: Home Assistant may die between the save of an imported bucket and the commit of
  its rows, which the Recorder had only queued. The next startup pass reads a period again
  and repairs it; an imported day is never read again and stays without rows.
  `ImportedIsRecorded` says that it is one bucket for each such crash.
* Backfill: a statistic whose unit is not kWh gets no rows (line 20306), and its day is
  imported all the same. A day whose import always raises in the Recorder ends every job
  before the periods, and nothing is saved then; the fairness of `progress` excludes it.
* An earlier command's cloud publish may reach the device after a newer command's.
* When the first request after midnight fails, the date has been noted all the same, and
  the day reports no local energy: `DailyAnchorStands` is kept by silence.

## What is not modelled

*Whole components.* **RPC over cloud MQTT** and the **transport supervisor** are not
used by the production code. **Discovery** and the **session store** are comparisons
and storage of whole payloads; what other parts see of them (a device that is there, a
credential that is saved) is in the modules of those parts. **Entities,
descriptions, services, the configuration flow, parsing, formatting and diagnostics**
are declarative or pure and carry no state between calls; they are also most of the
repository's lines, which is why the map covers a small share of it.

*Within modelled components.* Cloud MQTT: payloads, topics, the silence watchdog,
metrics. Reconnect policy: the signature that picks a backoff step, shutdown. Local
MQTT: recognition of echoes, snapshot requests, the waits between broker connections.
BLE: inspection of services, keys, MTU, several devices; of reassembly, the
limit of 256 KiB, impossible indices, and which sequence number a whole message has. Entry: Home Assistant's own stop, the
retry after a failed unload, what a base shutdown stops and which of its cancelled tasks
still unwind when it returns. API: the endpoints and
parsing. Backfill: the pass that verifies days already imported, the conversion of
charts to rows. Commands: payloads and the handshake of the local MQTT configuration.
Freshness: nested dictionaries, the
accessories' own merges, the overlay of cached system information, several devices, the
refusal of pushes during a shutdown. Daily anchors: rows recovered from another entry after a reauthentication, the
migration of old CT units; a reading may be stale or reset, so nothing is said of the
energy itself. A write of the anchors that a cancelled task leaves behind in Home
Assistant's storage is taken as made or not by the time of the next load.

The tick-level order of asyncio's cancellation inside `asyncio.timeout` (which can
make a drain outlive its five seconds) is below the grain of one action per await.
