# Verification of the HDG Bavaria boiler integration

TLA+ specifications of the Home Assistant integration in
`src/custom_components/hdg_boiler/`: the modules, the TLC runs that check them
on small instances, and theorems checked by TLAPS for every value of the
constants. Paths below are relative to that directory. `PROJECT.json` lists
the runs, the map from definitions to source lines, the hazards, the findings
and the theorems.

## 1. The system

The integration polls an HDG heating boiler over HTTP and lets the user change
its settings. Everything runs on one asyncio event loop, so the units of
interleaving are the pieces of code between two `await`s that really suspend.

| Component | State | Operations | What makes it correct |
|---|---|---|---|
| **API access manager** `helpers/api_access_manager.py`, `helpers/executor.py` | priority queue, `_pending_requests` by context key, request counter, one worker task, a future per request | `submit_request`, worker loop, retry of SETs, done callback of a future, `start`, `stop` | no awaited request is lost; polls of a group share one request; of the SETs of a node the newest wins on the boiler, whatever is retried; SETs come before polls |
| **Coordinator, write path** `coordinator.py:445-523` | `_pending_set_timers`, `data` | `async_set_node_value` (debounce), `_execute_set_request` (confirm, roll back, clean up), `async_stop` | the last input reaches the boiler; `data` follows the boiler; the display shows what the user asked for meanwhile |
| **Optimistic manager** `helpers/optimistic_manager.py` | value and time per node | `set`, `get` (grace period), `is_recently_set` (ignore window), `clear`, `cleanup` | an entry lives exactly as long as its SET |
| **Polling response processor** `classes/polling_response_processor.py` | none of its own, writes `coordinator.data` | `process_api_items`, `_should_ignore_polled_value` | a polled value never replaces a newer one |
| **Coordinator, polling** `coordinator.py:150-443` | `last_update_times`, `failed_group_retry_info`, failure counters, `_active_node_ids` | first refresh, scheduled refresh, poll everything, concurrent fetching, `register_node`/`unregister_node` | polling never dies; a group is not stamped unless a cycle has fetched it; every cycle ends; every group comes round again |
| **Entities and node activation** `entity.py`, `helpers/entity_registry_utils.py`, `registry.py`, `sensor.py` | registered entities, added groups | registry sync, (un)registration with the coordinator | a node is polled exactly while an enabled entity shows it |
| **API client and protocols** `api/client.py`, `api/protocols.py`, `exceptions.py` | the protocol in use, whether it was discovered | GET with automatic discovery of the legacy protocol, SET, classification of errors | the protocol found is one that works; error classes decide what is retried |
| **Config entry life cycle** `__init__.py` | manager, coordinator, client of an entry | setup, first refresh, unload, reload | a first refresh ends; a worker that outlives its set-up falls silent; the saved options that the code reads are read |
| **Parsers, validation, strings, enums** `helpers/parsers.py`, `helpers/validation_utils.py`, `helpers/string_utils.py`, `helpers/enum_mappings.py` | none | pure functions | parse what the boiler sends; accept exactly the settable values |
| **Definitions** `definitions.py`, `const.py` | static tables | none | keys and nodes consistent |
| **Config flow** `config_flow.py`, `helpers/network_utils.py` | form data, stored options | steps of the flow, flattening and merging of the form | an accepted address makes a URL; the form shows what was submitted |
| **Diagnostics, logging** `diagnostics.py`, `helpers/logging_utils.py` | none | output | redaction |
| **Services** `services.py` | none | handlers that no code registers | none |
| **Entity helpers, migration** `helpers/entity_utils.py`, `helpers/migration.py` | none | description builders, an empty migration | none |
| **Release tooling** `scripts/`, `release.config.js` | none | not part of the program | none |

How they interact: entities call `coordinator.async_set_node_value`; the
coordinator submits GETs (by polling group) and SETs (by node) to the access
manager and awaits the future it gets; the worker executes one request at a
time through the client and completes the future; the future's callbacks are
the manager's own `_cleanup_pending_request` and the waiting task, in this
order; that task writes `coordinator.data` and notifies the entities.
Home Assistant's `DataUpdateCoordinator` calls `_async_update_data` when its
timer expires and restarts that timer after every refresh and every
`async_set_updated_data`.

The behaviours that are hard: requests of one key overtaking each other while
one of them pauses for a retry; callbacks that run after a newer request has
taken the place of theirs; values read before an `await` and written after it;
polls crossing SETs; polling cycles that overlap, share GETs and are broken
off by one failure while their sibling tasks go on; a stop at any moment.

## 2. Modules

| Module | Models | Builds on |
|---|---|---|
| `LatestWriteWins` | what the access manager promises about settings, abstractly | |
| `SettingFlow` | what the integration promises about a setting, from the user to the boiler and back, abstractly, with its theorems | |
| `ApiAccessManager` | the access manager | refines `LatestWriteWins` |
| `ApiAccessManagerProofs` | theorems about it | extends `ApiAccessManager` |
| `SetValuePath` | write path, optimistic manager, response processor, **composed with** the manager | extends `ApiAccessManager`, refines `SettingFlow` |
| `SetValuePathProofs` | theorems about the composition | extends `SetValuePath` and `ApiAccessManagerProofs` |
| `PollingScheduler` | polling, the button, timestamps and retries | |
| `PollingSchedulerProofs` | theorems about it | extends `PollingScheduler` |
| `NodeActivation` | entities, the entity registry, the active nodes, set-up and reload of the entry | |
| `NodeActivationProofs` | theorems about it | extends `NodeActivation` |
| `ApiClient` | answers, errors and the discovery of the protocol; the address | |
| `OptionsForm` | the form of the options, from its fields to what is stored | |
| `OptionsFormProofs` | theorem about it | extends `OptionsForm` |
| `EntryLifecycle` | config flow, set-up, first refresh, workers, unload, reload, restart, **composed with** client and form | extends `ApiClient` and `OptionsForm` |
| `EntryLifecycleProofs` | theorems about it | extends `EntryLifecycle` |
| `NodeValues` | definitions, parsing, what entities show and send, polls of one node, validation of the services | |
| `NodeValuesProofs` | theorems about it | extends `NodeValues` |
| `MC*` | instances for TLC | the module of that name |

### ApiAccessManager

State and code: `counter` is `_request_id_counter`; `requests` holds every
`ApiRequest` ever created by its id (the program keeps only those that
something refers to); `queue` is `_request_queue` as the set of its entries
(its order, priority and then number, is `Before`); `pending` is
`_pending_requests`; `ready` holds the requests whose future is done and whose
callbacks the loop has scheduled; `worker` is where `_worker_loop` is
suspended (`queue.get`, the executor's call, the pause of a retry); `boiler`
is the side effect on the device.

Actions and code: `SubmitGet`, `SubmitSet` (`submit_request` with
`_create_and_queue_request`; the lock is never held across a suspension, so
each is one step); `SkipSuperseded`, `Execute` (`_worker_loop`);
`BoilerApplies`; `ExecuteSucceeds`, `ExecuteFails`, `ExecuteFailsAndRetries`,
`Requeue` (`_process_request`, `_handle_request_failure`, `_retry_request`);
`CleanupPending` (the done callback); `CancelGet` (a caller of a poll gives up
and cancels the shared future); `Start`, `StopWorker`, `DrainQueue`
(`start` and the two halves of `stop`).

Not in the model: the payload of a GET, the text of exceptions, logging. All
failures of a SET are retried alike in the code, so their kind is abstracted.

### SetValuePath

`UserSets` is `async_set_node_value`: optimistic value, cancelled and
restarted timer. `FireSet` is the timer's callback and the eager start of
`_execute_set_request`, including the submission. `FutureCallbacks` is what
the loop runs when a future is done: the manager's cleanup and then either the
rest of `_execute_set_request` (`TaskResumes`) or the processing of a poll
(`PollProcessed`). `EntryAges` lets the ignore window and then the grace
period of an optimistic entry run out. The remaining actions are the manager's
own, with the coordinator's variables left alone. Input number *v* of the user
asks for value *v*: values are told apart by the input they come from, so that
"older" and "newer" are meaningful.

`ImplementsSettingFlow` says what all this amounts to. `SettingFlow` knows of a
setting only what the user wants, whether that still waits to be sent, what the
boiler holds, what the integration takes it to hold, and the changes under way. The
refinement mapping: `wanted` is the input last made (`latestInput`), `waiting` the
nodes with a timer, `device` the boiler's value, `known` is `coordinator.data`, and
`changes` are the tasks of `_execute_set_request` with the value each would restore.
Queue, worker, retries, futures, callbacks, optimistic values and polls on their way
are all behind it: `UserSets` is `Want`, `FireSet` is `Send`, a call that takes effect
is `Store`, and `FutureCallbacks` is `Confirm`, `RollBack`, `GiveUp` or `Poll`, according
to the future that is done. A failed SET may restore a value older than the one now
known (finding 3); `RollBack` allows exactly that.

### PollingScheduler

A cycle is an execution of `_concurrently_fetch_groups`; `kind` says who
started it, `task` where the fetch of each group is. `FirstRefresh`,
`TimerExpires`/`LockAcquired`, `PollEverything` start one; `StartFetch` is a
task that gets the semaphore; `GetDelivers`, `GetFails`, `GetRefused` answer
the GET of a group to every cycle that waits for it (GETs are shared);
`CycleEnds`, `FirstRefreshEnds`, `CycleBreaks` are the code after `gather`.
After a connection error `gather` raises at once and the sibling tasks go on
without a cycle: they keep the cycle's identity occupied until they end.
`Tick` is time; the code only compares differences with the monotonic clock,
so the model keeps ages (`age`, up to the interval of the group) and delays
(`retryIn`). `Clock` is time together with what the expired timer does;
`GroupsPolledAgain` asks for its fairness.

### NodeActivation

State and code: `defs` are the definitions `HdgEntityRegistry` holds for the
entry, `active` is `_active_node_ids`, `asked` the nodes in the payloads of the
first refresh, `options` the component groups and buffer sensors of the config
entry. `entry` is Home Assistant's registry: for each entity no entry, enabled,
disabled by the user, or disabled by the integration (which is also how a new
entity starts whose default is off). `loaded` are the entities that Home
Assistant has added, `toAdd` those that the platforms still have to add, with
the defaults of the options they were built with (`builtWith`); `reload` says
that an enabled entry makes Home Assistant reload the integration later; `fresh`
are the entities that this set-up has registered for the first time.

Actions and code: `SetUp`, `FirstRefreshSucceeds`, `FirstRefreshFails`,
`SetUpEnds` (`async_setup_entry`, with the synchronisation at its end);
`EntityAdded` (`HdgNodeEntity.__init__` and `async_added_to_hass`);
`PollEverything` (the registry synchronisation of the button); `OptionsChange`
with `OptionsReload` (the update listener), `ScheduledReload` and `UserReloads`
(unload and set-up again); `UserEnables`, `UserDisables`, `UserRemoves`, with
what `async_will_remove_from_hass` does then, and `UserEdits`
(`async_registry_entry_updated`). Options may change at any moment;
only a loaded entry has the listener that applies them.

Not in the model: an unload that a platform refuses (it is in
`EntryLifecycle`), and an option that moves a buffer sensor to another node.

### ApiClient, OptionsForm and EntryLifecycle

`ApiClient` has no state of its own: a client is a record of the protocol in use
and of whether it was discovered. An answer is one of the kinds that the code
tells apart; `AsksAgain`, `AfterAnswer` and `ErrorOf` are the branches of
`async_get_nodes_data`, `_parse_response` and `handle_api_errors`. A boiler speaks
one of the two protocols; what it may answer to a payload of the other one is in
`PossibleAnswers`. `prepare_base_url` works on an address by its parts.

`OptionsForm` follows a form through Home Assistant's validation (`Validated`),
`_flatten_section_data` (`Flattened`), `async_step_init` (`PuffersSettled`) and
`_async_finish_flow` (`Saved`), and back into the next form (`CurrentOptions`,
`Shown`). Its two tables, the fields of the schema and `_SECTION_KEYS`, are written
out because they must agree.

`EntryLifecycle`: set-up number *n* has its own `client[n]`, `worker[n]`,
`hands[n]` (what the worker is at), `queue[n]` and `awaiting[n]` (keys of requests
whose futures are not done); a failed set-up leaves its worker behind while later
ones begin. `entry` is Home Assistant's state of the entry: `refreshing` is the
first refresh, `adding` the set-up of the platforms. `saved` counts how often
options were stored, `used[k]` the last save of which a set-up has read option *k*
(`ReadAtSetUp` says which options a set-up reads; the constant `Followed` names those
that a run follows, one that no code reads among them), `reloads` the reloads the
update listener has asked for. Actions and code: `AddEntry` (the
config flow), `SetUp`, `FirstRefreshFails`, `FirstRefreshSucceeds`, `SetUpEnds`
(`async_setup_entry` and what it awaits), `WorkerTakes`, `GetAnswered`,
`SetAnswered`, `RetryQueued` (`_worker_loop`, `_process_request`,
`_handle_request_failure`, `_retry_request`), `SaveOptions`, `ListenerReloads`
(options flow and update listener), `Unload`, `UnloadRefused`
(`async_unload_entry`, `async_stop`, `stop`), `Restart` (Home Assistant stops or
crashes at any moment). The order of requests in the queue and superseding are
left to `ApiAccessManager`: any queued request may be taken next, and there is one
SET key. The constants `StoredOptions` and `Forms` are the stored options and the
submitted forms for which the form's round trip is asked; all that is assumed of
them is that a form fills in fields of the schema (`IsForm`).

### NodeValues

One node, chosen among all kinds of `NodesDefined`; the definitions that share it
are its elements. `boiler` is what the boiler means (a quantity, a mode, an
instant, a word, nothing), `Renderings` every way it may write that. `data` is
`coordinator.data` of the node: a parsed value after a poll, the sent text after a
SET, or what a rollback restores; `optimistic` is the entry of the optimistic
manager. `meant`, `entered` and `oldMeant` are history: the readings these values
stand for. Actions: `Poll` (`process_api_items` over the items of an answer: what it stores is
the reading of the first item that its checks let through, by the definition that the
node's base id is indexed with), `UserSets` (`async_set_node_value`), `SetSent`, `SetConfirmed`, `SetFails`
(`_execute_set_request` before and after its `await`), `TimePasses` (the ages the
optimistic manager compares) and `BoilerChanges`. `native_value` is what each entity
shows, through `_get_value` and `parse_sensor_value` with its own definition.
Numbers are counted in thousandths; a numeral keeps its digits and where its marks
are. One SET at a time is under way: their order is the subject of `SetValuePath`.

## 3. Runs

| Run | Question | Bounds |
|---|---|---|
| `access_manager` | Are the manager's invariants, its precedence, its progress and the refinement of `LatestWriteWins` right? | 1 group, 2 nodes, 3 requests, 2 retries |
| `set_value_path` | Does the latest input reach a SET and is it settled; do the data follow the boiler, as `SettingFlow` has it? | 1 node, 2 inputs, 2 polls, 1 retry |
| `display_during_set` (finding) | Does the display always show the latest input while it is pending? | as above, 1 poll |
| `cleanup_after_set` (finding) | Does every task reach its cleanup? | as above |
| `rollback_of_set` (finding) | Does a rollback leave confirmed values alone? | as above |
| `polling` | Does polling go on; are only fetched groups stamped; is no retry left over? | 2 groups (interval 1 and 2), 2 cycles at a time, semaphore 1 |
| `polling_cycles_end` | Does every cycle end; does every group come round again? | 2 groups (interval 1 and 2), 2 cycles, semaphore 2, retry delay 1 |
| `polling_backoff` (finding) | Does a failed group wait for its retry time? | 2 groups |
| `activation` | Are enabled entities polled, is what the registry had enabled in the first refresh, does the registry follow the options, is the user's choice kept? | 4 entities on 3 nodes, 1 component group, 1 buffer sensor |
| `activation_polls_disabled` (finding) | Are only the nodes of enabled entities polled? | as above |
| `lifecycle` | Is every request accounted for through set-ups, unloads and restarts; does a client find the boiler's protocol; does the form keep what is submitted; does a first refresh end; does the worker of a failed set-up fall silent; are the saved options that a set-up reads used? | 2 set-ups, 2 groups, 1 retry, 1 save, 4 addresses, 3 options followed |
| `node_values` | Do all entities of a node show what its data stand for, and in the end what the boiler holds; does the service accept and send what the entity does? | 1 change of the boiler, 2 inputs, all kinds of definitions |

Why the bounds are enough:

* *Three requests* are the least with which an older SET waits for its retry,
  a newer one of the same node is submitted and a third request (a poll, or a
  SET of another node) competes with both; two retries distinguish the first
  retry from the last. The theorems hold for any number.
* *Two inputs of one node* give a SET in flight and a newer value in the timer
  or in the queue. Nodes do not share timers, entries or SET requests; what
  they do share, the queue and the worker, is covered by `access_manager`.
  Two polls let one be answered before and one after a SET.
* *Two cycles* is the case in the code (the timer's refresh waits for a lock,
  only the button comes in beside it) plus the tasks that a broken cycle
  leaves behind, which occupy an identity. With more than two, further button
  presses overlap; the actions do not look at more than their own cycle.
* *Intervals 1 and 2, timer period 1, retry delays 2 and 3* stand for
  15 s..24 h, 15 s, 30 s and 300 s: a group that is due at every refresh and one
  that is not, a retry delay longer than the timer's period, and a delay cut
  off at its maximum. `MaxAttempts` and `ErrorThreshold` are where counters stop
  being told apart (`PollingAssumption` says that the delay no longer grows).
* *Semaphore 1* makes tasks wait for it. In the program there are five groups
  and five places, so it never binds there; `polling` covers the case that it
  does, `polling_cycles_end` has as many places as groups, as the program.
* *Retry delay 1* in `polling_cycles_end` is the shortest there is: the run asks
  whether groups come round at all, for which the length of the delays does not
  matter, and liveness is checked over every history of failures.
* *Four entities*: two that show one node, so that one can come and go beside
  the other, one of a component group that starts disabled, and a buffer sensor
  that may not exist. These are all the kinds there are; groups and nodes do not
  affect each other otherwise. All sets of options are tried and nothing in
  this module is counted, so the run is over every history.
* *Two set-ups* are a failed one with the worker it leaves behind beside a good
  one, a reload, or a restart. *Two groups* beside the SET key give a worker several
  requests to choose from; the first refresh may also find the group without
  active nodes. *Forms with at most two fields filled in* reach every branch of
  flattening and merging, which treat each key alone; the theorem is for any form.
* *One change of the boiler and two inputs* let a poll, a SET and a rollback each
  follow a value of another form; renderings are enumerated in full for three
  quantities of each number, among them a negative one and one that needs marks
  between thousands, and for every mode of each table.
* `MaxSubmissions` and `MaxInputs` bound the requests and inputs of a run and
  appear only in guards of submissions.
* `CHECK_DEADLOCK FALSE` is used for the manager and the write path, which stop
  when the entry is unloaded or when nobody submits any more, and for the life
  cycle, which ends when its set-ups are used up. Polling, the activation of nodes
  and the values of a node go on for ever: there the check is on.

Each property of a passing run has a mutant in `PROJECT.json`: a plausible
slip of the code, written beside the action as a "fault variant", with which
TLC finds the property violated.

### Fairness

Weak fairness of what the event loop and the network do by themselves: the
worker takes the next entry, a call ends (the client has a timeout), a pause
ends, the callbacks of a done future run, a timer expires. No fairness of
anything that a user or Home Assistant decides: submissions, cancellations,
the button, a stop. `GroupsPolledAgain` carries two assumptions of its own, in the
property: time goes on (`Clock`), and the user writes for a while only, because every
write restarts the timer. In `FairPollSpec` every GET is answered in the end; that
is the manager's `RequestsAnswered`, checked under `FairManagerSpec`. In
`EntryLifecycle` Home Assistant also goes on with a set-up, an unload or a reload it
has begun, though an unload may end refused; nobody has to submit, save, reload or
restart. In `NodeValues` polls go on, and a SET that was entered is sent and ends:
`GroupsPolledAgain` and `LatestInputSettles` show so much.

### Findings

1. `display_during_set`: the `finally` clause of one SET clears the optimistic
   value of a newer input of the same node.
2. `cleanup_after_set`: a superseded SET that is dropped by the worker never
   completes its future; the task that awaits it, and its cleanup, hang.
3. `rollback_of_set`: the rollback of a failed SET writes the value captured
   before an earlier SET was confirmed.
4. `polling_backoff`: a group that failed is still due by its interval, so the
   backoff delay does not hold it back.
5. `activation_polls_disabled`: the node of an entity that the user has disabled
   is polled on. Disabling does not unregister it, and after a reload it is
   active by the default flag of its definition.

Further disagreements between texts and code, met while modelling; no run is spent
on them because a look at the code settles them:

* `error_threshold` is stored (`coordinator.py:81`) and never read: however long an
  outage lasts, `_async_update_data` returns cached data (`coordinator.py:402`).
  `translations/en.json:124` says that it raises `UpdateFailed`.
* The intervals of the five polling groups are stored and never read:
  `scan_intervals` (`coordinator.py:111`) takes `default_scan_interval`, which
  `registry.py:82` fills from `POLLING_GROUP_DEFINITIONS`. The repository's README
  promises "5 configurable polling groups with different intervals" (line 64),
  "Individual intervals for the 5 polling groups" (line 208) and "Changes take effect
  after a reload" (line 213). Nor does any code read `fallback_ping_interval` and
  `polling_preemption_timeout`, which `translations/en.json:93` and `:121` explain: no
  host is pinged while it is offline, and no poll is ever broken off for a SET.
  `SavedOptionsUsed` therefore speaks of `ReadAtSetUp` only.
* "Auto protocol detection" (README of the repository, lines 82 and 160) ends at the
  first JSON of any kind: after an answer that is no list and not `nodes is not an
  array`, `client.py:191` counts the protocol as discovered, and a legacy boiler is
  never spoken to in its own. `ProtocolFits` excepts such a client (`misled`).
* `source_timezone` does not change how a polled time is read: the processor leaves
  the argument out (`polling_response_processor.py:153`), so `parse_sensor_value` uses
  `DEFAULT_SOURCE_TIMEZONE`, and what reaches the
  entity is a time with its zone. `translations/en.json:108` says otherwise.
* `exceptions.py:33` counts HTTP error statuses as response errors;
  `raise_for_status` makes them a `HdgApiConnectionError`, so they break a polling
  cycle off (`ErrorOf` in `ApiClient`).
* The unique id of an entry is the host as typed, in lower case
  (`config_flow.py:574`): the same boiler with and without `http://` is added twice,
  although `translations/en.json:137` calls it already configured.
* `nachlegeschritt_text` shares node 19T with a percentage sensor whose definition is
  indexed last: its polled value is a float, and the text sensor shows that number.

## 4. Theorems

`ApiAccessManagerProofs`, for all sets of groups and nodes, any number of
retries and requests, from `ManagerAssumption` alone (groups and nodes are
different keys; the bounds are natural numbers).

The properties are not inductive by themselves, so everything rests on
`ManagerInv`. It adds to the type
invariant and the properties:

* `QueueShape`: entries differ in number and request, and the request in the
  worker's hands is not in the queue: a retry puts exactly one entry back;
* `FutureShape`: a scheduled callback belongs to a done future, and a SET still
  in the manager's hands is not done;
* `LiveIsPending`: a request that is live, awaited and not superseded is the
  pending one of its key. `SubmitSet` therefore marks the only SET of the node
  that could still win, which is why `OlderSetsSuperseded` is kept; and
  `CleanupPending` removes nothing that is still awaited;
* `BoilerNotAhead`: the boiler holds nothing newer than the SET in flight, so
  `BoilerApplies` never goes back.

One lemma per action shows that it keeps `ManagerInv`; `NextInv` combines them
and `ManagerInvariant` is the theorem. From it follow `TypeCorrect`,
`NewestSetWins`, `NoWaiterForgotten`, `PendingReleased`, `OneInFlight`,
`QueueTotallyOrdered` and the action property `BoilerMonotonic`. `Refinement`
maps every step to a step of `LatestWriteWins` or a stutter: the delicate case
is `Execute` of a SET, where `OlderSetsSuperseded` says that what is sent is
the newest value asked for. `SetsPrecedePolls` needs a second invariant,
`PriorityInv`: exactly the SETs are HIGH, and a queue entry has the priority of
its request, a retry's too.

`SetValuePathProofs`, from `ManagerAssumption` and `PathAssumption` (no more
inputs than submissions). `PathUsesManager` says that every step of the write
path is a step of the manager or leaves it alone; with it every theorem above
holds for `PathSpec`, and `PathImplementsLatestWriteWins` is one line. The
properties of the write path rest on `PathInv`, proved with `ManagerInv` at
hand before and after each step. Its parts:

* `TimersHoldLatest`: a timer carries the latest input of its node and is the
  one in the table, so a cancelled timer cannot fire;
* `InputsInOrder`: the SETs of a node carry its inputs in the order of their
  numbers, and a timer a newer one than any of them. "The newest request" of
  the manager and "the latest input" of the user thus mean the same;
* `TasksMatchRequests`: a SET whose callbacks have not run has its task;
* `BehindBoiler`: what a task may roll back to, what an answer carries and what
  the data hold is not newer than the boiler's value; a confirmed SET is on the
  boiler;
* `CallbacksFresh`: at most one answer or confirmation is on its way to the
  data (all handles that are ready run before the next call), and the data are
  not newer than it.

The last part is why `OnlyFailuresRewind` holds: a confirmation and an answer
of a poll cannot overtake each other on their way to the data, so only the
rollback of a failed SET moves them back. `PathTypes`, `LatestInputKept`,
`DataFollowsBoiler` and `ConfirmedStays` follow from the invariants.
`PollsAreCurrent` needs one more, `AnswersCurrent`: an answer whose callback has not
run is what the boiler holds, save for a SET of the node that is being executed. It is
kept because a call ends only when no callback is outstanding, and it ends with the
running phase: a stop takes a SET from the worker that may have taken effect.

`SettingFlow` has its own three theorems, for any nodes and values: `FlowInvariant`
(`FlowInv`: known, held and wanted values are in order, and a change starts from a
value the boiler has had), `FlowOrdered` and `FlowSettles`. `PathImplementsSettingFlow`
maps every step of the write path to a step of the flow or a stutter, with `ManagerInv`
and `PathInv` at hand. The delicate steps: `FlowBoilerStores`, where `BoilerNotAhead`
and `InputsInOrder` say that what the boiler stores is not older than what it holds;
and `FlowFutureCallbacks`, where `CallbacksFresh` makes a confirmation a `Confirm` and an
answer a `Poll`. The refinement carries two theorems over: `SettledInputsStay` (once the
boiler and the data hold the latest input and no task of the node is left, nothing late
disturbs it; a node whose superseded SET hangs as in finding 2 is not settled in this
sense) and `BoilerFollowsInputs` (the data are not ahead of the boiler, nor the boiler of
the user). The first of these orders was a property of a run before and is now part of
the refinement that the run checks; `DataFollowsBoiler` states it for the values as
they are. `ConfirmedInputIsLatest` joins `ConfirmedInputHeld` with
`DebounceKeepsLatest`: with no timer left and the newest SET confirmed, the boiler
holds the user's latest input.

`PollingSchedulerProofs`, from `PollingAssumption` and `PowersAssumption` (the
powers of two in the delay's formula are natural numbers: `^` is defined by
recursion, which no prover unfolds; TLC evaluates the assumption on every run).
`PollingInv` adds to the properties that the first refresh is alone, that the
other cycles belong to the running phase and that nothing is retried before it.
From it follow `PollingTypes`, `PollingGoesOn` and `NoRetryWithoutFailure`, and
the action property `StampsAreEarned`, for any groups, intervals, delays, cycles
at a time and places of the semaphore.

`NodeActivationProofs`, from `ActivationAssumption` (every entity has a node; a
buffer sensor belongs to no component group and is enabled by default), for any
entities, nodes and groups. `ActivationInv` adds to the types and to
`EntitiesFollowOptions`:

* `LoadedOnce`: entities are loaded from the platforms' set-up on, and one that
  is still to be added is not loaded: adding it twice would let one removal
  unregister the node of the other;
* `RegistryCovered`: the first refresh has asked for the node of every enabled
  entity, not only of the loaded ones: between `SetUp` and `EntityAdded` there
  are only enabled ones, and an entity enabled in between asks for a reload;
* `NodesHeld`: a loaded entity's node is active, or an entity of the same node
  has lost its registry entry and is not about to be added again.

`ActivationTypes`, `EnabledArePolled`, `RegistryIsCovered` and
`OptionsAreFollowed` follow from it. `UsersDisablingStays`, the action property,
needs only that the synchronisation enables nothing but what the integration
has disabled.

`EntryLifecycleProofs`, from `LifecycleAssumption` and `BlanksAssumption`, for any
groups, addresses, set-ups and retries. `LifecycleInv` joins the types, the two
properties and `Counted`: a worker belongs to a set-up that has begun, so the next
set-up finds nothing under way in its place. From it follow `LifecycleTypes`,
`NoRequestUnaccounted` and `DiscoveryIsRight`. The second needs
that a worker's steps touch its own requests only (`OneWorkerSteps`), the third that
an answer which switches or ends the discovery is one the boiler gives to a payload of
that protocol (`AnswersFit`). `FormsLoseNothing` instantiates the theorem of `OptionsFormProofs` for
the forms of the constants. `OrphansGetNoRequests` is the half of `OrphansFallSilent` that
needs no fairness: what a failed or unloaded set-up leaves to its worker only becomes
less.

`OptionsFormProofs`: `NothingLostByTheForm` is `FormKeeps` for all stored options and
all forms. The argument follows the value of one field: no field is in two sections
(`SectionsDisjoint`) and the table of keys has them all (`SectionKeysComplete`), so
flattening finds it again (`FlattenedFields`); merging keeps it (`SavedFields`); and the
next form shows it (`ShownFields`).

`NodeValuesProofs`, for every kind of definition and any number of changes and inputs.
`ServiceAgreesOnAnyNumber` is for every number, and with it
`ServiceAgreesWithEntity`; it rests on `NodesServed`, that every number of the
definitions counts whole units but the steepness, which counts tenths.
`AnyRenderingIsRead` and `SentNumberIsReadBack` are the round trips of numbers between
program and boiler, for every number.

`ValuesTypeOK` and `DisplayTrue` are not inductive: what an entity shows is right only
while the data were made from a text that means what the history says. `ValuesInv` says
which data those are. `Held(def, reading)` has what a poll makes of one of the renderings
of the reading, and the text of a SET that asked for it; `DataHeld` puts the data and the
value a rollback restores into it, for readings in `Meanings`; `SetUnderWay` ties the
optimistic text to what was entered. It is kept because a poll stores what
the definition with which the node is indexed makes of a rendering (`StoredIsRendering`,
`PollStores`); a SET writes the text that `SetUnderWay` ties to its input, and a rollback
a value that `DataHeld` covers. That
`ValuesInv` implies `DisplayTrue` (`InvariantShowsTruth`) is the substance: for every
kind of entity, one lemma says what the data of its node may be (`FloatHeld`,
`ModeHeld`, `ChoiceHeld`, `TimeHeld`, `PlainHeld`) and one that any of these is shown as
the reading it stands for (`NumberPresented`, `MeterPresented`, `ModePresented`,
`ChoicePresented`, `TimePresented`, `PlainPresented`): sent texts as well as parsed
values, and also where a second definition of the node parses them. The lemmas about
labels (`KeyFound`, `LabelsFindTheirKey`, `UnknownFindsNoKey`) rest on the tables alone:
no label of one key is found for another. `DataStandsForItsReading`, `ValuesTyped` and
`EntitiesShowTheTruth` are the theorems.

The invariants that join these proofs together (`ManagerInv`, `PathInv`, `FlowInv`,
`PollingInv`, `ActivationInv`, `LifecycleInv`, `ValuesInv`) are not in the runs: their
parts that state something of interest are.

Every safety property, action property and refinement of a passing run is stated by a
theorem. Only model-checked are the liveness properties (`RequestsAnswered`,
`LatestInputSettles`, `CyclesFinish`, `GroupsPolledAgain`, `SetUpDecides`, `OrphansFallSilent`,
`SavedOptionsUsed`, `ReadingArrives`: fairness and ENABLED are out of the prover's
reach) and the findings, which are counterexamples.

## 5. Assumptions about what is outside

* asyncio: code between suspensions is atomic; handles that are ready run
  before the loop looks at the network or the timers; a future's callbacks run
  in the order they were added.
* Home Assistant starts tasks eagerly, so a task runs to its first suspension
  when it is created, and its `DataUpdateCoordinator` behaves as described in
  section 1. It does not call the set methods of an unavailable entity.
* The boiler may apply a SET whose answer is lost, but not after the client has
  given up on the call.
* The timers of the debounce run equally long and expire in their order.
* Home Assistant's entity registry updates an entry before the entity leaves,
  so a disabled entity sees that it is disabled, and one whose entry is removed
  counts as enabled. An entity that is enabled appears with the reload of the
  integration which Home Assistant schedules, 30 s later.
  `async_registry_entry_updated` is only called for an entity that stays, so
  its branch that unregisters a node does not run.
* A set-up that fails with an exception leaves its background tasks to Home
  Assistant, which cancels them with the next unload of the entry, not with the
  failure. An unload that a platform refuses leaves everything as it was, and Home
  Assistant reloads such an entry no more.
* The boiler's own way of writing numbers and times is known from the parsers and
  their tests only. `Renderings` has either decimal mark, other marks between
  thousands, wrapped labels, times with and without offset. A numeral with marks
  between thousands and no decimals is left out: the code reads 1.234 as a number
  below two, and nothing tells it from one.
* Options are changed by the options flow only, which does not know whether the
  entry is loaded.

## 6. Not modelled, and what is left

A limit of what is shown: `FirstRefreshCoversRegistry` says nothing of entities
that a set-up registers for the first time. On a new installation with a
component group switched on, their nodes are not in the payloads of the first
refresh, which stamps their group, so they wait for the group's interval.

Options saved while a set-up is under way, before the update listener exists, are
read by the next set-up, whenever that is: `SavedOptionsUsed` speaks of the options
that the listener has noticed, and of no more than that they are read (the error
threshold is, and then nothing is done with it).

What the code does and no property forbids is listed among the hazards, with a note:
polls that wait while the worker sits out the retries of SETs; a group without active
nodes that is stamped, so that a node which becomes active later waits for its
interval; entities that share a node and unregister it together
(`EnabledEntitiesPolled` excepts them). `GroupsPolledAgain` bounds no delay: it says
that a group is not forgotten.

Partly modelled: the definitions, of which `NodeValues` has one of every kind that the
code treats differently (the others differ in names, units, icons and groups); the
string helpers, without those that only format names; the services, whose validation
is modelled while their handlers are registered by no code.

Left out for good: diagnostics and logging (output only), entity description builders
and the empty migration (no state), the ping of the config flow (its result decides
nothing), Home Assistant itself, the texts of forms, release tooling.

Worth doing next: `FairPollSpec` assumes of the access manager that every GET is answered
in the end, and that GETs of a group are shared; both are properties of
`ApiAccessManager`, but the two modules are joined by this text only. An abstract manager
for polls, which `ApiAccessManager` implements and `PollingScheduler` is composed with,
would make it a theorem, as `SettingFlow` does for settings.
