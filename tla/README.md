# Belgrade OS in TLA+

A verification development of Belgrade OS: TLA+ modules of its services, configurations that check them with TLC on small instances, and theorems about them checked by TLAPS.
The reference is the code under `src/`; paths below are relative to it.

- [The system](#the-system)
- [Modules](#modules)
- [What the runs check](#what-the-runs-check)
- [Bounds](#bounds)
- [Fairness](#fairness)
- [Proofs](#proofs)
- [Where code and text disagree](#where-code-and-text-disagree)
- [Not modelled](#not-modelled)
- [Plan](#plan)

## The system

Belgrade OS is a set of processes around one Redis server, most of which never talk to each other directly.
Work travels through Redis streams, each read by one consumer group; progress travels back over pub/sub.

```
 gateway --+                         +--> tasks:tool_calls ------> resource runner --HTTP--> bridge --> app
 bridge  --+-> tasks:inbound -> inference                                |
 SDK     --+            |      controller ^                              v
    ^                   |            |    +---------------------- tasks:tool_results
    |                   v            |                                   ^
    +------------- sse:{task_id}     +--> tasks:untrusted_calls --> platform controller --> container
                     (pub/sub)

 SDK: notify ------> tasks:notifications --> notification service --> push service, tasks:notifications:failed
      vault -------> tasks:vault_ops ------> vault service ---------> files
      schedule ----> tasks:schedule_ops ---> platform controller ---> PostgreSQL, in-memory scheduler
      registration ------------- HTTP ------> bridge ----------------> memory, Redis

 runner, MCP server, gateway --HTTP--> bridge (URL of an app) --HTTP--> app, a process of the platform controller
```

| Component | State it keeps | Operations | Correct when |
|---|---|---|---|
| Inference controller (`services/inference`) | its position in a task: round, tool call, results discarded; the pending entries of its group | read a task, look at the cancel key, stream the model's answer, push tool calls, wait for their results, publish the outcome, acknowledge | one outcome per task, none acknowledged silently, results go to the task that asked, a cancelled task ends |
| Resource runner (`services/runner`) | its lease key, the call it is at | read a call, execute it through the bridge, write the result, acknowledge | no call is executed twice, and none of an untrusted task |
| Platform controller, untrusted calls (`services/platform_controller`) | the call it is at; a directory and a container per task | read a call, run it in a container, write the result, acknowledge | the same, for the other half of the calls; an output is that of its own call, no container stays |
| Platform controller, schedules | `shared.schedules` in PostgreSQL, jobs in memory | upsert and delete from the stream, and over HTTP; delete an app's; reload at startup | rows and jobs agree with what was asked for last; the controller always starts |
| Platform controller, app supervisor | running processes, their ports | discover at startup, start, stop, reload, restart what has exited | no process is forgotten, a callback reaches its app, a dead app comes back |
| Platform controller, permission sync | a copy of `shared.app_permissions` in Redis | copy every five minutes | the copy follows the table, nobody is refused in between |
| Capability bridge, registry (`services/bridge`) | tools, callbacks, topics: in memory and in Redis; tokens | register, hydrate, look up | what it serves is each app's last registration, before and after a restart |
| Capability bridge, requests | none | infer, execute, notify, publish an event | authenticated requests reach the stream or the app |
| Gateway (`services/gateway`) | per request: a subscription, a channel, a goroutine | create a task, stream its events, proxy an app | streams without gaps that end, nothing left behind |
| SDK (`sdk/belgrade_sdk`) | per task: a subscription | request, await, cancel; notify, vault, schedule; serve tools, register | the caller is told how its task ended |
| Notification service | the request it is at | read, hand to the driver, move to the dead-letter stream, acknowledge | no request vanishes, none is sent twice |
| Vault service | lock keys, files, a temporary file per path | read, lock, write or delete, release, acknowledge | a file is always the whole of some write; an operation is dropped only for another on its path |
| Gateway authentication (`auth/auth.go`) | the cached keys and their age | look a key up, share a fetch, replace the cache | no key is used longer than it may, none that is published is refused |
| MCP server (`services/mcp_server`) | none | list tools, call one | a call is done once at most and in its app, and the caller is told the truth |
| Watchdog (`services/watchdog`) | two flags | read temperatures, warn, kill containers, take the platform down | heavy containers do not run while it is hot |

What is hard in this code, and hard to test:

- **No redelivery.** Every consumer reads with the id `>` only. An entry that was read and not acknowledged is never read again, so whatever dies or raises between the two loses it. This makes at-most-once execution possible, and everything else harder.
- **One stream of results for everybody.** Results carry a task id; consumers take turns reading them, discard the ones they do not know, and give up after 2 s of silence while a tool may take 30 s.
- **An `async` process is interleaved at each `await`.** Another process may cancel the task, answer, expire a lease or register another version there, and the await itself may raise with or without its effect.
- **Pub/sub keeps nothing.** Who subscribes late misses the beginning, and possibly the end.
- **Two copies of one truth**: registry memory and Redis, schedule rows and jobs, each updated in two steps with failures in between.
- **Locks and leases that expire** while their holder may be dead or only slow.
- **Names that outlive what they name**: a URL looked up before its process died, a container and a directory called after a task of several calls, a key id the provider has withdrawn.

The file `PROJECT.json` lists each hazard at its line with the properties about it, and why some have none.

## Modules

| Module | Models | Role |
|---|---|---|
| `RedisStream` | a stream with one consumer group: log, cursor, pending entries | library of the others; external to the repository |
| `TaskStreams` | the four task streams, cancel keys, `sse:` channels, clients that publish and cancel | shared state |
| `Inference` | `inference/main.py`, `worker.py`, `redis_client.py`: one action per await | component |
| `ResourceRunner` | `runner/main.py`, `worker.py`, `redis_client.py`, `bridge_client.py` | component |
| `UntrustedRunner` | `_untrusted_consumer_loop`, `process_untrusted_call` of `platform_controller/main.py` | component |
| `TaskPipeline` | the three together, over the shared streams | composition, properties |
| `TaskLifecycle` | what the pipeline promises about a task | abstract specification |
| `TaskEvents` | one task's pub/sub channel and what client libraries buffer | shared state |
| `GatewayStream` | `gateway/handler.go`, `stream.go`, `redis/redis.go`: an SSE request and its goroutine | component |
| `SdkStream` | the SDK's inference adapter | component |
| `TaskListeners` | a task with both listeners | composition, properties |
| `BridgeRegistry` | `bridge/src/router.rs` (register), `registry.rs`, `store.rs` (register, subscribe, hydrate) | component, properties |
| `Schedules` | `platform_controller/main.py` (schedules), `scheduler.py` | component, properties |
| `Notifications`, `VaultService` | the two services | components |
| `AppSupervisor` | `AppProcess`, `AppSupervisor`, `startup_event`, `reload_app` of `platform_controller/main.py`; `BelgradeApp.run` of the SDK | component, properties |
| `AppCalls` | `handle_execute` and `handle_app_info` of `bridge/src/router.rs`, `runner/bridge_client.py`, `mcp_server/main.py`, the gateway's app proxy, the dispatch of `sdk/belgrade_sdk/app.py`: one call on its way, beside the supervisor | composition with `AppSupervisor`, properties |
| `PermissionSync` | `PermissionSyncManager` of `scheduler.py`, `redis_client.py`, the gateway's `checkPermission` | component, properties |
| `JwksCache` | `gateway/auth/auth.go`: the key cache and its shared fetch | component, properties |
| `EphemeralRunner` | `platform_controller/ephemeral_runner.py`, which `UntrustedRunner` takes as one step | component, properties |
| `Watchdog` | `watchdog/main.py` | component, properties |
| `PlatformServices` | the two services, permissions, keys, containers and watchdog, one in a behaviour | composition, properties |
| `MCTaskPipeline`, `MCBridgeRegistry`, `MCSchedules`, `MCAppCalls`, `MCPlatformServices` | model values | for TLC |
| `RedisStreamProofs`, `TaskPipelineProofs`, `TaskOutcomeProofs`, `TaskListenersProofs`, `BridgeRegistryProofs`, `ScheduleProofs`, `AppSupervisorProofs`, `PlatformServicesProofs` | lemmas and theorems | for TLAPS |

**How state and actions correspond to the code.**
A process is at one of its awaits, named by a program counter (`pc`, `rpc`, `upc`, `hpc`, `wpc`, `vpc`, `npc`, `spc`, `erpc`, `wdpc`; `at` where there are several requests); the header of each module lists them.
An action is what happens from one await to the next: the effect of the awaited call, and the code that runs after it until the next await.
When a call to Redis, PostgreSQL or HTTP may raise, there is an action for that too: `FaultInTry`, `RunnerFault`, `LeaveUnacked`, `RegisterFails`, `OperationFails`, `AcquireFails` and so on, which follow the `except`, `finally` and `?` of the code.
Where a call may have had its effect although it raised (a reply lost on the way), that outcome is there as well.
A crash is possible wherever the process is, and resets what the process has in memory.

**What is abstracted.**
A task is its id and the two fields that decide where its tool calls run (a non-empty `app_id`, a declared `UNTRUSTED`).
A tool call is the n-th of its task; a result is the call it belongs to, since success and failure are consumed alike.
Events are chunks, `DONE` and `ERROR`; thoughts and tool events are left out since nothing depends on them.
Prompts, conversations, schemas, wording and logging are left out.
In `BridgeRegistry` there is one app, since tool names carry the app's id and no two apps share an entry of any map.
The six parts of `PlatformServices` share nothing, so a behaviour is one of one of them rather than of their product.
In `AppCalls` there is one call in a behaviour, since calls share nothing but the registry, which they only read; it runs beside an instance of the supervisor with fewer starts (`Beside`), and the supervisor with all its starts is a part of its own.
A tool call is one request; the MCP server lists the tools before each, which may already tell its client that there is no such tool.
In `AppSupervisor` a folder is what `start_app` would make of it: a process, nothing (a container app, or a manifest that raises `ValueError`), another exception, or no folder.
`start_app` and `stop_app` have no await that yields, so each is one step; a tick of the watch loop, one step per dead app, lets nothing in between but the processes themselves.
`Startup` is the registration and the binding of the port in one step: the code does them one after the other, and in between the process answers nothing.
The bridge appears as `calledAt`, the process that last registered for an app, for which `BridgeRegistry` is the detailed account.
In `PermissionSync` there is one sync at a time, since the scheduler runs one instance of a job and the one at startup ends before the first interval.
In `JwksCache` time is whether the cache is older than its TTL; the goroutine that carries out a fetch is named after the request that began it.
In `EphemeralRunner` what a container reads and writes is told apart by the call it belongs to.
In `Watchdog` a temperature is one of the four ranges the thresholds make.
A permission is its field; its role is not looked at by the gateway beyond not being empty.
Streams are not trimmed.
History variables (`executions`, `answers`, `unreported`, `acked`, `later`, `promised`, `contested`, `alone`, `settled`, `missed`, `lost`, `refused`, `kept`, `due`, `ran`, `told`, `littered`, `excused`, `outcomes`, and of a lookup `stale`, `asked`, `from`) are written and decide nothing the code does.

**Assumptions about what is outside the repository.**
Redis executes one command at a time and loses nothing it has acknowledged.
Pub/sub reaches who is subscribed; a connection that breaks is restored by the client library without what was published meanwhile.
A PostgreSQL statement finds its rows among those committed when it begins, changes them one by one in any order, waits for those another transaction has changed, and looks at them anew after that; of transactions that wait for each other in a circle one is made to fail.
The repository does not decide whether the database driver takes a dictionary for the JSONB parameter of the schedule statements (`platform_controller/main.py:323-334`); the model takes it that the statements do what they say.
A vault lock does not expire while its holder is between setting it and the reply to its release, which takes less than the 5 s of its TTL; that of a holder that has died does. A holder whose disk blocks for longer is not covered, nor are two spellings of one path, or a path that is the temporary file of another (`x.tmp` next to `x`).
The Redis user of each service may use the commands and keys its code uses. With the users of `config/redis.acl.template`, from which `setup.sh` writes the file Redis is started with, this is not so: the controller has no access to `tasks:schedule_ops` and no MULTI and EXEC (with which the permission sync replaces a hash), the notification service no XADD and no dead-letter stream, and apps neither SUBSCRIBE to `sse:` channels nor `tasks:schedule_ops`. The models say what the code does where these are granted.
No container of the repository carries the label `beg-os.role`, by which the watchdog finds what to kill; the model has containers that do.

## What the runs check

Every property has a mutant: a plausible mistake in one definition that makes TLC report that property violated (see `PROJECT.json`).

**`pipeline`** (`MCTaskPipeline`): a task of an app and a task of a user, one process of each kind, one tool call per task, one crash or raising await anywhere.
`HostsRespectTrust`: an app that writes TRUSTED into its task does not get its tools executed on the host.
`ExecutedAtMostOnce`: no call is executed twice, whatever dies when.
`OutcomeIsFinal`: after `DONE` nothing is published and after `ERROR` at most a second `ERROR`, which happens when the reply to a PUBLISH is lost.
`AckedMeansReported`: a task that is acknowledged has told its listeners, unless the PUBLISH that tells them raised.
`AnswersBelongToTheTask`: what the model gets as a result is a result of the same task, for this call or an earlier one.
`ImplementsLifecycle`: the pipeline implements `TaskLifecycle`: tasks start in the order of publication, at most once, by at most as many consumers as there are, and end at most once; a lost task stays lost.

**`rounds`**: one app task with two calls and two failures, so that late results, discarded results and several rounds happen.
`ResultUsedOnce`: no result is used for two calls.
`NothingAfterTheEnd` (action property): after the outcome, no call is pushed and no result used, in particular after "cancelled".
`CancelledTaskEnds`: even if the model asks for tools for ever, a task whose cancel key is set ends or is lost with its consumer.
`PublishedTaskEnds`: if the model ends its turn when asked often enough, every task ends, though runners never answer.

**`stream`** (`TaskListeners`): a task of the gateway or of an app with up to three events, a library buffer of two, a channel of one, one failure, a client that may leave at any time, and the SDK.
`EventsInOrder`: what is written or yielded has no gap and no repetition after the subscription, unless the library lost an event.
`CreatedStreamIsComplete`: a client of `POST /v1/tasks` that stays has every event from the first to the outcome; this is what subscribing before publishing is for.
`SubscriptionIsReleased`: no goroutine and no subscription outlives its request, whichever buffer is full.
`OutcomeEndsTheStream`: the outcome gets through full buffers: to the client that stays, and to the SDK unless its deadline passes first. The SDK looks at the deadline before it reads the next event, so it may raise with the outcome waiting in its buffer; the property names the timeout as a way out, and says nothing of what had arrived by then.

**`registry`** (`MCBridgeRegistry`): three registrations of four versions of an app, one after the other or two at a time, clients that leave at any await, two crashes or broken connections at any command of the pipelines.
A handler whose client leaves is dropped, and Redis goes on with the pipeline it has sent.
`RegistrationIsServed`: the last registration, once acknowledged, is what is called and notified, also after restarts, and until a restart nothing of earlier or failed registrations is.
`StoreIsAhead` (action property): nothing is served that is not persisted already.
Both speak of a registration that no other met, nor the pipeline of a dropped one: two at once mix their callbacks and tools, in memory and in Redis, and the code does not claim more. What the properties say of such a mix is that the next registration alone puts it right.

**`schedules`** (`MCSchedules`): two schedules of one app, both stored at the beginning or none; an operation from the stream and two HTTP requests, each in a handler of its own; one failure or crash. The HTTP requests carry valid cron expressions.
`RowsAndJobsAgree`: what the last completed operation said of a schedule holds of its row and its job, whatever runs at the same time on other schedules, fails, or crashes.
It says nothing of a schedule on which two operations overlapped (deleting an app is an operation on every schedule), or one failed in its commit, until the next operation or restart: there the code makes no promise.
`RowsAreSchedulable`: startup can make a job of every row.
`EverythingIsProcessed`: a controller that stays up always gets back to having nothing to do, whoever waits for whose row locks. The rows of a statement are locked one by one, so two deletes of the app that meet them in different orders wait for each other, until PostgreSQL makes one fail; without that step TLC finds them waiting for ever. A controller that dies need not come back: nothing restarts it.

**`services`** (`MCPlatformServices`), in one behaviour one of these:

- Two vault workers with three operations on one path, two failures.
`VaultFileIsWhole`: a reader of a file always finds the whole content that some operation wrote to that path, although all writers share one temporary file.
`DroppedOnlyForAnother` (action property): an operation that finds the lock taken is acknowledged and forgotten; without a failure before, this happens only to one that meets another on its path at that moment, so operations one after the other all come through.
- Two notifications, two failures.
`NotificationIsAccountedFor`: an acknowledged request was sent or is in the dead-letter stream, unless Redis refused it there twice; none is sent twice.
- Two users with two permissions, three changes of the table, two failing syncs.
`NeverRefusedInBetween`: a user who has had a permission since before its hash was last written finds it there at every step of every sync.
`CopyFollowsTable`: when the table rests, the copy of every user with rows is what they say. Users whose last row was deleted are left out: the sync never visits them.
- Two requests that look up two signing keys, two rotations of the key set, any failures of the provider.
`ExpiredKeyIsNotUsed`: a request that found the cache too old gets its key from what the provider sent after that, whoever fetched it and whatever failed.
`CacheNeverGoesBack` (action property): two fetches never overlap so that the older answer is stored last.
`PublishedKeyIsKnown` (action property): a key published since the fetch was begun is never "unknown", unless the provider sent an error that reads like an empty key set.
- Two untrusted calls of each of two tasks, one failure of docker, the file system or the controller.
`CallsOfATaskAreApart`: the calls of a task share the name of a directory and of a container and do not meet: an output is computed from the input of its call and no container is left to keep its name from the next; after a failed removal or a crash it may be an earlier call's.
- The watchdog, four changes of the temperature or the sensors, two containers started or docker commands failing.
`HotStopsTheWork`: between two rounds in which it is hot, no container of the heavy roles runs that was there when it became so, in every excursion anew. Containers started later are not killed: the stage triggers once.

**`apps`** (`MCAppCalls`), in one behaviour one of these:

- Two apps, one of which binds a port of its own as the repository's apps do; four starts, two lives of the controller, one change of a folder, one crash.
`NoneIsForgotten`: a process that is alive and was not told to stop is the one known as its app's, among those this life of the controller started.
Of earlier lives there may be others, and of a life one that was told to stop and has not finished: the code waits 5 s and lets it be.
`AnsweredByItsApp`: within a life, a registered callback is answered by its app or by nobody, except where a server took a port it chose itself.
`CallsGoToTheKnown`: the known process of an app is the one new calls go to, unless a process that was told to stop, or one of an earlier life, registered after it.
`DeadAppIsRestarted`: an app the watch loop can see dead serves again. It says what this needs: the watch task has not died (any exception but `ValueError` ends it), the folder still holds a process, and the bound of starts is not used up. The last says nothing of what comes after the fourth start, and one real case ends there: an app whose fixed port is held by a process of an earlier life is started and exits again and again, as long as that lives.
- A call by the runner, the MCP server or the gateway beside three starts, two lives and a crash; the caller may give up at any moment.
`AnswerIsTrue`: from the caller to the app nobody tries again, so the call is done once at most, and in its app, whatever has died, been restarted or moved to another port since it was looked up; who hears success had it done, who hears "not found" had not.

Each run also checks the type invariant of its module. Deadlock is not checked, because the systems do stop: clients send a bounded number of requests and a bounded number of failures happens.

## Bounds

Each bound is a constant with `Max` in its name, or the size of a set; each limits clients, the model or failures, never the code's own control flow, except `MaxToolResultIterations`, `Buffer` and `ChanSize`, which are parameters of the code made small (10, 100 and 16) so that their limits are reached.

- Two tasks suffice for results to go astray between tasks; two calls of one task for a late result; `late_result` shows that the interesting case is within the bounds.
- One failure per behaviour gives every single crash point with full interleaving, two give a failure during recovery from another.
- One consumer in `pipeline` leaves the order of two consumers' tasks to the proofs, which hold for any number of them.
- One call per task in `pipeline` and one task in `rounds` split one question into two runs, as the product of both is too large. The proofs cover routing, at-most-once execution, outcomes and the life cycle without bounds.
- Three events with a buffer of two and a channel of one fill everything between Redis and the client.
- Three registrations by two handlers allow two to mix, or one to fail, with one alone after them, and two crashes a restart before it and after it; the handlers are interchangeable, so the run uses their symmetry (its properties are two invariants and a condition on single steps).
- Two schedules give operations that overlap and operations that do not; with one app that has both stored they give a delete of several rows, with two handlers a deadlock of two such deletes, and with the consumer a third worker that waits for either.
- Four starts of two apps with two lives give a restart next to a process of the earlier life and next to one that is slow to stop.
- A call meets at most the death of the process it was sent to, its restart on another port and one more: three starts.
- Two requests and two rotations let one request's fetch be overtaken by a rotation, and its key by another's fetch.
- Four changes of temperature give two excursions over the threshold with a pause between them.
- Two users make a sync of two transactions, with changes and failures before, between and after them.
- Three operations on a path with two workers let one wait for a lock, one find it taken and one follow a crash.

## Fairness

Only the program's own steps are fair, and only weakly: a process that is up and at an await takes its next step, as its event loop or goroutine does.
Clients, failures, broken connections and their restoration, and the model's choices are not.
`PublishedTaskEnds` has its assumption about the model (`ModelEndsItsTurn`, strong fairness of its last step, since it is asked again in each round) as the antecedent of the property.
In `schedules` the event loop is fair to each worker, and PostgreSQL to each statement that may go on and to deadlocks, of which it always ends one; a restart of the controller is not fair, since nothing in the repository restarts it (`scripts/start.sh` starts each service once, and only the watchdog has a unit with a restart policy).
In `services` only the interval job of the permission sync is fair.
In `rounds` a consumer that dies comes back in the same step. Nothing restarts it either: what `CancelledTaskEnds` and `PublishedTaskEnds` say of the tasks it has not read holds once somebody has; that the task it was at is lost holds in any case. That the model's step is fair assumes that the provider's stream goes on or ends, which is up to the timeout of its client library.
In `apps` the watch loop and its restarts are, and the progress of processes that were started or told to stop (a process that never finishes is one of the cases the code leaves alone); this holds in the supervisor's own part, and a call on its way is not fair since nothing is claimed of its ending: the bridge has no timeout. A dead controller need not come back.

## Proofs

`TaskPipelineProofs` proves, for any number of tasks, consumers, workers, calls and failures:

- `TypeCorrect`: `Spec => []TypeOK`;
- `TrustRespected`: `Spec => []HostsRespectTrust`;
- `AtMostOnce`: `Spec => []ExecutedAtMostOnce`;
- `AnswersOfTheTask`: `Spec => []AnswersBelongToTheTask`;
- `ResultsUsedOnce`: `Spec => []ResultUsedOnce`.

None of them is inductive.
`TypeOK` needs that the budget of calls is not overdrawn by what a round has still to push, and that the entry a consumer holds is in the stream and pending.
`HostsRespectTrust` and `ExecutedAtMostOnce` need the life of a call: it is in one of the two streams, which one follows from its task, it is there once, it is numbered by the counter of its task, and it is executed at most once after it was read and never before.
`IInv` is the conjunction of `TypeOK`, `ConsumerInv` (what a consumer's position means for its entry, and that no two consumers hold one) and `CallSideInv` (`CallLogInv` for the two call streams, `RunnerInv` and `UntrustedInv` for who holds what, `ExecutionInv` for what has been executed).
The proof has a lemma for each group of steps: consumer steps keep `ConsumerInv`, pushing a call keeps `CallLogInv`, a runner's steps keep `ExecutionInv`, and steps of one component keep what is said of the others because they leave it unchanged.
The last two follow results on their way back. `ResultInv`: an entry of `tasks:tool_results` is of a call that was issued, it is there once, and a call that nobody has read, or that is in the hands of whoever executes it, has none. `AnswerInv`: what was given to the model is acknowledged, so it is not given again, and what a consumer is about to give is of its own task.

`TaskOutcomeProofs` builds on it and proves, for the same:

- `OutcomesAreFinal`: `Spec => []OutcomeIsFinal`;
- `AckedTasksAreReported`: `Spec => []AckedMeansReported`;
- `NothingIsDoneAfterTheEnd`: `Spec => NothingAfterTheEnd`.

Lemma `StepKinds` reduces the steps of the whole pipeline to the seven kinds that touch these (a client asks, a consumer takes up, works, tells, fails to tell, lets go, or none of this), and the invariant `OutcomeInv` says what each position of a consumer still permits: nothing terminal has been published up to the PUBLISH of `DONE`, no `DONE` before that of `ERROR`, and at the acknowledgement the task is reported or its PUBLISH has raised.
That nobody else tells anything of the same task is `ConsumerInv`.

The same module proves the refinement:

- `PipelineImplementsLifecycle`: `Spec => ImplementsLifecycle`, for any finite set of consumers (`ConsumerAssumption`: the abstract specification counts the tasks that run).

A phase is computed from log, cursor, events and the consumers' hands; the proof shows for each kind of step that it moves the phase of its one task as the abstract specification allows and leaves all others, and that the unread part of the stream is the abstract queue. The abstract `Start` asks for a free slot: consumers hold different tasks, so the running tasks are fewer than the consumers when one is idle.

`ScheduleProofs` proves, for any number of schedules, requests, operations, deadlocks and failures, and any rows an earlier life has left of which startup has made jobs (`TableAssumption`):

- `SchedulesTypeCorrect`: `ScheduleSpec => []ScheduleTypeOK`, by one lemma for the beginning of an operation, one for its end and one for its moves from await to await;
- `RowsStaySchedulable`: if `POST /schedules` only gets cron expressions the trigger accepts, `ScheduleSpec => []RowsAreSchedulable`. A row comes from a pending write, that from an operation, and that from the stream by way of the validation, so the invariant `CronInv` says the same of all three;
- `SchedulesFollow`: `ScheduleSpec => []RowsAndJobsFollow`, which is `RowsAndJobsAgree` with no job where the trigger refuses the cron expression, and holds of any requests;
- `SchedulesAgree`: under the same condition as `RowsStaySchedulable`, and from both, `ScheduleSpec => []RowsAndJobsAgree`. The condition is needed: of an expression the trigger refuses, the row is committed and no job made (`bad_cron`).

These say nothing while an operation is in progress, so `AgreeInv` has to: `Alone` says, for each await of an operation that met no other on the schedule, what the row, the pending write and the job are then, in terms of what was promised before, and, while a statement is at its rows, that a row it has no more to change is as the operation makes it; of a schedule on which two operations are at work nothing is promised, and both know. `AgreeStep`, `AgreeBegin` and `AgreeLeave` keep this for a step in an operation, its beginning and its end, whatever the other workers are at, and `Doubt` is why an operation that fails before its commit leaves everything as it was.

`AppSupervisorProofs` proves, for any apps, ports, starts, lives and failures:

- `SupervisorTypeCorrect`: `SupervisorSpec => []SupervisorTypeOK`;
- `NoProcessIsForgotten`: `SupervisorSpec => []NoneIsForgotten`;
- `CallbacksFindTheirApp`: `SupervisorSpec => []AnsweredByItsApp`;
- `CallsLeaveTheSupervisorAlone`: `AppsSpec => SupervisorSpec`, so all of these hold beside calls as well;
- `AppsTypeCorrect`, `CallsReachTheKnown`, `AnswersAreTrue`: `AppsSpec => []AppsTypeOK`, `[]CallsGoToTheKnown`, `[]AnswerIsTrue`.

`NoneIsForgotten` is inductive beside the types; `AnsweredByItsApp` needs `PortsApart`: the processes of one life have different ports, in this life below the next one.
Whatever processes do by themselves, and whatever a stop does to one, is the same kind of step (`Later`): no process changes its app, port or life, none comes back from the dead or from having been told to stop. One lemma says that such steps keep everything, one that a start does.
For calls, `CallInv` says what has been done of the call at each position of it, and whose process it was sent to and is in; `ToTheKnown` says that the process that registered last is the known one, or that one told to stop or of an earlier life has registered since. The supervisor a call runs beside has fewer starts (`Beside`): each of its steps is one of the supervisor (`BesideStep`).

`PlatformServicesProofs` proves the safety properties of the six small parts, for any users, keys, requests, workers, paths, tasks, roles and bounds; `StepsOfParts` says that a step of the composition is a step of each part or leaves it alone, so each part has an invariant of its own:

- `ServicesTypeCorrect`: `ServicesSpec => []ServicesTypeOK`, for at least one heavy role;
- `VaultFilesAreWhole`: `ServicesSpec => []VaultFileIsWhole`. The temporary file is that of the holder of the lock, and it is whole when it is renamed;
- `OperationsComeThrough`: `ServicesSpec => DroppedOnlyForAnother`. Without a failure a lock that is set has a worker that holds it;
- `NotificationsAreAccountedFor`: `ServicesSpec => []NotificationIsAccountedFor`. What has not been read has not been sent, and each position of the service says what has become of its request;
- `NobodyIsRefusedInBetween`: `ServicesSpec => []NeverRefusedInBetween`. What is due to a user was in what the sync read, and in the hash it wrote;
- `ExpiredKeysAreNotUsed`, `CacheMovesOn`, `PublishedKeysAreKnown`: `ServicesSpec => []ExpiredKeyIsNotUsed`, `CacheNeverGoesBack`, `PublishedKeyIsKnown`. There is one fetch at a time, and what it stores is no older than the moment those who wait for it count from;
- `CallsStayApart`: `ServicesSpec => []CallsOfATaskAreApart`. Of a task in which nothing has failed, the directory and the container are those of the call the controller is at; of any other, no call is in them that has not been begun;
- `HeatStopsTheWork`: `ServicesSpec => []HotStopsTheWork`.

`BridgeRegistryProofs` proves, for any finite sets of tools and topics, any URLs, requests and handlers, and any number of registrations and failures:

- `RegistryTypeCorrect`: `RegistrySpec => []RegistryTypeOK`;
- `LastRegistrationIsServed`: `RegistrySpec => []RegistrationIsServed`;
- `StoreComesFirst`: `RegistrySpec => StoreIsAhead`.

`RegistryInv` (with `AloneInv` and `SettledInv`) says of a handler that is alone, and not one whose client has left, that what the store does not hold yet of its request is still among the commands of its pipeline, and that nothing behind them undoes it (`Registering`, `Subscribing`): a tool is removed only before it is set, since all removals come first. Then each lock and the token add their part, and a crash may come after any command because memory is filled from a store that has all of a settled registration.

`TaskListenersProofs` proves, for any number of events and failures and any sizes of the library's buffer and the channel:

- `ListenTypeCorrect`: `ListenSpec => []ListenTypeOK`;
- `EventsAreInOrder`: `ListenSpec => []EventsInOrder`;
- `CreatedStreamComplete`: `ListenSpec => []CreatedStreamIsComplete`.

What is written, in the goroutine's hand, in the channel and in the buffer of a listener is one sequence, without gaps and up to the last event published if nothing was lost (`Flows`). For completeness, `CreatedInv` adds where the subscription of a request that creates its task stands when the task is published, and that the handler returns only on the outcome.

`RedisStreamProofs` holds the facts about streams the others rest on: what adding, reading and acknowledging does to log and pending entries.
The assumptions are those stated by `ASSUME` in the modules: bounds are natural numbers, special values differ from proper ones.

Only model-checked: what says that something must happen (the properties named under [Fairness](#fairness) and the other temporal properties of the runs), since liveness under fairness and `ENABLED` are beyond the prover. Every invariant and every condition on single steps that a passing run checks is a theorem. The modules use no `RECURSIVE` operator; of the order in which `SetToSeq` lists a set, the proofs use only that it lists all of it.

## Where code and text disagree

| Run | What a text of the repository says | What the run shows |
|---|---|---|
| `late_result` | the worker waits for "the result" of the call, whose id is "unique per invocation" | the late result of an abandoned call is taken for that of the next one; only the task id is compared |
| `retry_on_restart` | "not ACKed, will retry on restart" | a pending call is never read again |
| `registry_orphan` | "Re-registration replaces all previous tools for that app atomically" | a pipeline cut short leaves a tool no registration removes |
| `bad_cron` | an invalid cron would leave "a bad row that wedges the consumer on restart" | `POST /schedules` writes exactly that row |
| `sdk_stream` | "No terminal event for task ... within ...s" | the event was published before the SDK subscribed |

## Not modelled

- **Provider protocols, docker command lines, manifests, JWT checks, header rewriting, MCP's message format and the issuing of its tokens**: conversions and input/output without state that could go wrong between steps. Their outcomes appear as choices.
- **Event fan-out** (`handle_publish`, event handlers of an app): the SDK's `emit` sends no token and is answered 401 every time, so the path from app to app is never taken.
- **`/v1/infer`, token lookup, the table of trusted users, endpoints of container apps, static files**: requests that read what does not change.
- **A process that never obeys SIGTERM**: nothing in the code ends it. **Ports taken by anything else** than apps.
- **Trimming of `tasks:inbound`** at about 1000 entries, which Redis does by whole nodes at moments this code does not determine.
- **`unregister`** of the bridge: nothing calls it.
- **Firing of a job**: an HTTP request to the bridge that changes no state of the controller.

## Plan

Order: what decides whether users' work is done right first, then what apps rely on, then operations.

1. Task pipeline (`TaskPipeline` and its parts), its abstract life cycle, its proofs. *Done.*
2. What listeners see (`TaskListeners`), registry (`BridgeRegistry`), schedules (`Schedules`), notifications and vault. *Done.*
3. App supervisor and permission sync (`AppSupervisor`, `PermissionSync`), proofs about the supervisor. *Done.*
4. Calls to apps by the runner, the MCP server and the gateway, composed with the supervisor (`AppCalls`). *Done.*
5. The gateway's key cache, the containers of untrusted calls and the watchdog (`JwksCache`, `EphemeralRunner`, `Watchdog`). *Done.*
6. Proofs of how tasks end and of the refinement (`TaskOutcomeProofs`). *Done.*
7. An abstract specification of the registry (a map that is replaced whole) with `BridgeRegistry` as its implementation up to failures, and one of schedules.
8. Proofs of the six parts of `PlatformServices` (`PlatformServicesProofs`). *Done.*
9. Proofs that answers are those of their task and used once, about listeners, the registry, schedules and calls to apps (`TaskPipelineProofs`, `TaskListenersProofs`, `BridgeRegistryProofs`, `ScheduleProofs`, `AppSupervisorProofs`). *Done.*
10. Proofs that are left: refinements of the specifications of item 7.
