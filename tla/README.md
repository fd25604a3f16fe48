# Open Intern in TLA+

Formal models of Open Intern, a server that runs AI agents: each agent chats on
several platforms, keeps memories, runs scheduled jobs and heartbeats, and works
in a sandbox of its own. The models are translated from the Python sources under
`src/`; TLC checks them on small instances and TLAPS proves theorems about them
for every value of their constants.

## 1. The system

One process: a FastAPI application on one asyncio loop, the loop's pool of
executor threads, an in-process APScheduler, and `threading.Timer` threads. It
talks to PostgreSQL, to the E2B API (microVMs), to Cloudflare R2, to an LLM and
to the chat platforms. What makes it hard:

- Dashboard handlers are `async def` and call synchronous code: each of their
  stretches between two awaits is atomic on the loop, however long.
- An agent's synchronous tools run in executor threads, several in parallel, and
  share objects with the loop, mostly without a lock.
- A coroutine reads state, awaits an LLM for seconds or minutes, and goes on.
- State is kept twice: rows in PostgreSQL and objects in memory, which only a
  restart brings together again.
- Every call out of the process may fail, and the process may stop at any point.

| Component | State | Operations | Interacts with | Correct when |
|---|---|---|---|---|
| **CronScheduler** `core/scheduler.py` | table `scheduled_jobs`; APScheduler's job store | add, update, pause, resume, remove, trigger, fire, `_execute_job`, `_load_jobs` | called by the dashboard on the loop and by tools in threads; calls agents and platforms | the two stores agree, a paused or deleted job does not start, an enabled one goes on being run |
| **E2BSandboxBackend** `core/e2b_backend.py` | `_sandbox`, `_existing_sandbox_id`, idle timer, `_pausing`, `_reconnecting`; the agent's row; E2B's microVMs | file and command operations, lazy connect, reconnect, idle pause, pause, resume, backup, shutdown | tools in threads, timer threads, dashboard on the loop, AgentManager, R2 | no sandbox is lost or runs unattended, a guard once set is reset |
| E2BDesktopBackend `core/e2b_desktop_backend.py` | the above and a stream URL | the above, start and stop of the stream | as above | the URL is that of the running sandbox |
| **HeartbeatRunner** `core/heartbeat.py` | registered agents, consecutive failures, last runs, APScheduler's jobs | register, unregister, run, trigger | server start-up, agents, CostGuard | disabled after five failures in a row; a deleted agent has no heartbeat |
| **AgentManager** `core/manager.py` | agents in memory, table `agents` | create, update, reload, delete, pause all | dashboard, CronScheduler, integrations | memory and table agree once no operation is under way; a delete is not undone |
| OpenInternAgent `core/agent.py` | LangGraph checkpoints per thread, a lock per compaction | initialise, chat, stream, reset, compact | everything above and below | chats end, a thread that no provider accepts is mended, the latest message is never compacted away |
| Compaction `core/compaction.py` | none (pure) | threshold, split, summary | OpenInternAgent | recent messages survive, a summary replaces the old |
| CostGuard `core/cost_guard.py` | table `token_usage` | check, record | chat | spending stops at the budget, give or take the chats in progress |
| MemoryStore `memory/store.py` | memories with scope and embedding | store, recall, delete | tools, compaction | a memory is recalled within its scope only |
| Messaging `core/messaging.py` | table `contacts` | capture, add, resolve, send | tools, platforms | a message reaches a contact of the name, by the call of its kind |
| Integrations `integrations/` | Telegram's map of threads; placeholders on the platforms | receive, show progress, reply, retry, fall back | agents | one message, one answer; the map stays bounded (it does not) |
| SafetyMiddleware `safety/permissions.py` | rules (pure) | check | chat | a denied action is not done |
| Auth `api/auth.py` | tables `users`, `user_agent_access`, `api_keys` | create, update, deactivate, reset, grant, clear, use and revoke a key | Dashboard, AgentManager | no request undoes another, one address is one account, a replaced grant is gone |
| Dashboard API `api/dashboard.py` | cache and table of threads | chat, stream, rename, and the callers of the others | everything | a thread's owner stays, every row is listed |
| R2Storage `core/r2_storage.py` | up to four objects per backup in a bucket | upload, download | sandboxes, from the loop and from timer and tool threads at once | the latest backup is a whole backup, and what was acknowledged comes back |
| SSHBackend `core/ssh_backend.py` | `_client`, `_sftp`, not locked | connect with retries, commands, files | tools in threads | commands and files work again once the server does |
| Server `server.py` | none | start-up, shutdown | everything | sandboxes are paused and their ids stored before the end |
| CLI, migrations, skills, config, crypto, telemetry, web front ends | none of their own | | | not modelled: declarations, I/O, pages |

`PROJECT.json` lists the same parts with their status, and under "hazards", each at
its line, what in them a test would hardly reach.

## 2. Plan

First came the components whose state is shared by threads, timers and the loop, and
kept both in the database and in memory (sections 3 to 5), then the services around
them (sections 6 to 13). Written, in this order:

1. `ScheduledJobs`, abstract: what the table of jobs promises; `CronScheduler`, a
   refinement of it; `CronSchedulerProofs`.
2. `SandboxBackend` with its callers; `SandboxBackendProofs`.
3. `AgentRuntime`: AgentManager with HeartbeatRunner and the start-up;
   `AgentRuntimeProofs`.
4. `Conversation`: chat, stream with its fallback, compaction and the reset of a
   corrupted thread, over the checkpoint of one LangGraph thread;
   `ConversationProofs`.
5. `Dashboard`: the cost guard's check before and record after a chat, and the cache
   and the table of threads; `DashboardProofs`.
6. `SshBackend`: the SSH client and its session.
7. `Backups`: an agent's files and their copies in R2; `BackendProofs`, about this module and
   `SshBackend`.
8. `PlatformBots`; `Contacts`; `MessagingProofs`, about both.
9. `UserAccounts`, `UserAccountsProofs`.

Left, in the order of what they would add:

- two backends of one agent after a reload: two instances of `SandboxBackend` on
  one row, driven by `AgentRuntime`;
- the desktop backend's stream, over `SandboxBackend`;
- an abstract sandbox (none, running, paused) that the backend refines when calls
  come one at a time; `SerialInv` of its proofs is what that refinement needs;
- pure algorithms over bounded inputs: splitting a long message, quiet hours.

There is a run for each distinct question, and where components share no state and
are checked under the same scheduling, one run has several of them as a sum: each
behaviour is one of them while the others rest (`MCTimers`, `MCSandboxBackend`,
`MCServices`). Every hazard listed is an interleaving of two or three actors, so a run
has one or two actors of each kind; a third of a kind only repeats the second.

## 3. CronScheduler

### Model

`CronScheduler.tla` has the table (`db`), APScheduler's job store (`aps`), the
position of the clock against each "once" date (`clock`), the ids handed out
(`minted`), the operation each caller is in (`call`) and the position of each run
of `_execute_job` (`run`). A step is one access to the database or to APScheduler
with the statements up to the next one, since that is where another thread can
act:

| Code | Actions |
|---|---|
| `add_job` | `AddSchedule` (APScheduler first), `AddInsert` |
| `update_job`, `pause_job`, `resume_job` | `UpdateLoad`, `UpdateCommit`, `UpdateRefresh`, `UpdateUnschedule`, `UpdateReread`, `UpdateReschedule` |
| `remove_job` | `RemoveCheck`, `RemoveUnschedule`, `RemoveDelete` |
| a database error | `CallerFails`, `RunFails` |
| APScheduler | `FireOnce`, `FireRecurring` |
| `_execute_job`, `_deliver_response`, `_update_job_status`, `trigger_job` | `StartRun`, `TriggerJob`, `InitDone`, `ChatDone`, `DeliverDone` |
| `initialize`, `_load_jobs`, a crash | `Restart` |

The loop is one more caller (`Loop`): while a handler runs on it no timer fires and
no coroutine continues (`LoopFree`), but the threads go on. The ORM's behaviour
matters and is modelled: a commit writes the columns whose value differs from the
loaded one and no others (`Modified`, `Written`), an UPDATE of a deleted row raises,
and a commit expires the row, so that `_job_to_dict` reads it again.

Abstracted: a schedule is a value of one of four kinds (recurring, once, once
without an offset, malformed); names, prompts and deliveries are left out, since
nothing but `enabled`, the schedule and the status decides what runs; the agent's
part in a run is the choice of its outcomes. The clock moves forward only.

### Runs

- **cron_concurrent**. The loop and one tool thread, one job, every database access
  may fail, restarts at any point (2 million states). `JobLedger`: the table
  implements `ScheduledJobs`, that is, a run begins only for a row that is enabled
  then, a late status report never brings a deleted row back nor changes what is
  not its own, and an id is used once. `RestartRepairs`: whatever drift is left
  between the stores, a restart ends it. `NoLostPause`: an update of one column
  never undoes a concurrent change of `enabled`, which is true only because of the
  ORM's column-wise writes.
- **timers**, the jobs' part. Calls on the loop only, none failing, one job, two recurring
  schedules and a date. `Coherent`: between any two calls APScheduler holds exactly
  what the table says. `KeepsRunning`: a recurring job that stays enabled and
  undisturbed is queued again and again. `MCTimers.tla` has, beside the jobs, the idle
  pauses of section 4 and the heartbeats of section 5: all that goes by the clock.
- **cron_update_reschedules** (violated). `update_job` says that it reschedules; a pause
  and a resume of one job at once can leave it enabled with no timer, until a
  restart. This is why `Coherent` needs one call at a time.
- **cron_once_is_ahead** (violated). `add_job` says that a once schedule is in the
  future; a date without an offset is compared as UTC and scheduled in the job's
  timezone, so it may be past.

Bounds: `Jobs` bounds the creations; jobs share no state but the loop, so one job
with two callers has every interleaving of interest (`KeepsRunning` and `Coherent`
are statements about each job alone). Two recurring schedules are needed to tell a
job's own timer from another; a date has to pass while a job holds it.

Fairness: `WF` of a call's steps (a thread that runs is scheduled, and its database
calls return or raise); `SF` of firing and of a run's steps, because both wait for
the loop, which handlers occupy again and again: asyncio serves ready callbacks
in the order they became ready, so none is overtaken for ever. A run's awaits end by
the agent's recursion limit and by the clients' timeouts.

`install_job_template` looks for a job of the template and then adds one; it does both in
one handler of the loop, and no tool sets a `template_id`, so that here it is an
`add_job` of the loop like another.

A status error worth knowing and not counted as a disagreement: a run paused while
it awaits `initialize_async` chats all the same, since the row is read before that
await only; `ScheduledJobs` says "enabled when the run begins" for this reason.

### Proofs

`CronSchedulerProofs.tla`, for any sets of jobs, threads and schedules:

- `TypeCorrect`: `Spec => []TypeOK`.
- `ImplementsLedger`: `Spec => JobLedger`. The step simulation needs the invariant
  `OneOwner`: the id of a creation in progress has no row and no second owner.
  Without it, `AddInsert` could overwrite a row, which no step of `ScheduledJobs`
  does. `SimulateCaller` and `SimulateRun` take the actions one by one.
- `NoPauseLost`: `Spec => NoLostPause`. The invariant `Asked` ties the columns a
  commit will write to what was asked for; the other writers of the table are
  excluded by `OneOwner` (INSERT), absence (DELETE) and `ReportedKeeps` (status).
- `SequentialCoherence`: with `Workers = {}` and `DbFails = FALSE`, `Spec => []Coherent`.
  `Coherent` says nothing in the middle of a call, so it is not inductive;
  `SequentialInv` adds that all other jobs agree and that the call in progress still
  has what it needs (`OnItsWay`).
- `RestartsRepair`: `Spec => RestartRepairs`.

Assumptions: `CronAssumption` and `RowAssumption`, that the kinds of values are
disjoint. `KeepsRunning` is liveness and is only model-checked.

## 4. SandboxBackend

### Model

`SandboxBackend.tla` is one agent's E2B backend with all its callers: tools in
threads and on the loop, the dashboard's pause and resume endpoints, the shutdown's
`pause_all_sandboxes`, and timer threads. State: E2B's sandboxes (`vm`), the
object's `_sandbox` (`box`), `_existing_sandbox_id` (`saved`), `_idle_timer` (`ref`),
`_pausing`, `_reconnecting`, the agent's row (`row`), and for every thread its place,
its task and the sandbox it holds (`proc`). Only the timer's bookkeeping is under a
lock; each critical section and each call of the E2B API is a step.

| Code | Actions |
|---|---|
| `execute`, `read`, `write`, ..., which retry after a reconnect | `StartOp`, `Ensure`, `Used`, `Reconnect` |
| `_ensure_sandbox`, `connect` | `Ensure`, `Connect`, `Create`, `CreateFails` |
| `_reset_idle_timer` | `Arm` |
| the timer's wait, `_idle_pause` | `Fire`, `IdlePause`, `IdleEnd` |
| `pause` | `PauseNothing`, `PauseCall`, `PauseReturns`, `PauseFails` |
| pause and resume endpoints, `pause_all_sandboxes`, `_update_sandbox_id` | `StartPause`, `StartResume`, `Persist` |
| a new process | `SandboxRestart` |
| E2B ends a sandbox | `Expire` |

`_reconnect_sandbox` runs its callbacks (restore from R2) through the backend
itself: the task `restore` re-enters `_ensure_sandbox` while the task `reconnect` is
still in progress, and the tool is retried after it.

Abstracted: the files of a sandbox are the sandbox itself (`Continuity` is about
which sandbox a call reaches); what a tool does is one step, with or without an
error; a dead sandbox and a gateway error look alike, as in `_is_sandbox_dead`.
`Faults` names what may fail. An identifier is used again once nothing refers to it,
which keeps `VMs` small; timers likewise. Two places are coarser than the code: the
check of `_reconnecting` in `_is_sandbox_dead` and its setting in `_reconnect_sandbox`
are one step (two tools that both pass the check would both reconnect, each setting and
resetting the flag), and so are the two assignments of `pause` with those that
`_idle_pause` repeats after it. What the backup and the restore put where is section 10.

### Runs

- **sandbox_concurrent**. A tool thread, the loop and two timers at once, gateway
  errors, failed connects, creations and pauses, crashes (2.65 million states with the
  backups of section 10, which are the other part of `MCSandboxBackend.tla`).
  `GuardsRelease`: `_pausing` and `_reconnecting` are set only while a thread is
  inside the code that resets them. A guard that stuck would silently stop every
  later idle pause or every later recovery. `SandboxTypeOK` includes that the
  identifier on its way to the row is never None.
- **timers**, the sandbox's part. One call, pause, resume or timer at a time, with
  sandboxes that expire, creations that fail, graceful shutdowns and restarts. `Metered`:
  at rest a running sandbox has a timer. `Resumable`: at rest a paused one is the one
  that the next call resumes. `Continuity`: none is created while one exists, over
  restarts too. `ZeroCompute`: an agent left alone ends with none running. These four
  do not hold when calls overlap (two threads that find no sandbox each create
  one), nor with a crash, which loses the identifier that an idle pause keeps in
  memory only; the hazards in `PROJECT.json` say so. Nor is an idle pause kept from a
  command that outlasts the timer, which is reset only when a command starts.
- **sandbox_resume_idle** (violated). "Idle agents consume zero compute"; the resume
  endpoint calls `connect`, which arms no timer, so the sandbox runs until E2B ends
  it. An access while `_pausing` holds has the same effect.

Bounds: a tool thread and the loop are the two kinds of caller (the loop has all the
tasks); two timers are needed for one that was replaced after it fired and its
successor; two sandboxes for one that is lost and its successor.

Fairness: weak fairness of every thread's next step and of the timers: threads are
scheduled by the operating system and every E2B call and command has a timeout.

### Proofs

`SandboxBackendProofs.tla`, for any number of threads, timers and sandboxes. With
calls that overlap as they may and any set of faults:

- `TypeCorrect`: `SandboxSpec => []SandboxTypeOK`.
- `GuardsNeverStick`: `SandboxSpec => []GuardsRelease`. The inductive invariant is
  `GuardsInv`, `GuardsRelease` with `Assigned`: a timer's thread runs an idle pause and
  nothing else, a caller never does, and a reconnect is in `connect` or in its
  callbacks. Without `Assigned` a step of a caller could leave the code that holds
  `_pausing`.

With one call at a time, as in timers (`OneAtATime`: nothing starts before all
else has ended, the resume endpoint is left out, and nothing fails but that sandboxes
expire and creations fail):

- `AlwaysMetered`: `SandboxSpec => []Metered`.
- `AlwaysResumable`: `SandboxSpec => []Resumable`.
- `FilesGoOn`: `SandboxSpec => Continuity`.

Each says something of the moments at rest or of a creation only, so none is
inductive. `SerialInv` is, with `GuardsInv`: `Alone`, one thread is at work;
`OneSandbox`, at most one sandbox lives, the one held or the one kept for later;
`Tended`, a held sandbox has its timer waiting, or whoever is at work will arm one or
pause it; `Place`, what holds at each position of a thread, for instance that a
creation is reached only when nothing is held and nothing is kept.

Assumption: `SandboxAssumption`, that threads, timers and sandboxes are disjoint.
`ZeroCompute` is only model-checked.

## 5. AgentRuntime

### Model

`AgentRuntime.tla` has the agents table (`row`: what an object is built from, and
`is_active`), the setting `default_llm_api_key` (`key`), the object registered for
each agent (`agents`: the configuration and the key it was built with, and whether it
is initialised), the builds that were logged as failed (`failed`), HeartbeatRunner's
registered agents, counts and heartbeats in progress (`heart`, `fails`, `beat`), and
the place of every request on the loop (`task`) and of every delete (`thread`). An
initialised object is "ready", one whose `initialize_async` raised is "broken", and
one being initialised carries its coroutine.

| Code | Actions |
|---|---|
| `create_agent` | `Create`, then `Build` or `BuildFails`, `InitDone` |
| `update_agent` | `UpdateLoad`, `UpdateCommit`, then a reload |
| the reload endpoint | `Reload`, then a reload |
| `upsert_system_setting`, `_reload_all_agents_async` | `UpsertKey`, then a reload of each agent (`GoOn`) |
| `_reload_agent_async` | `ReloadRead`, `Build` or `BuildFails`, `InitDone` |
| `delete_system_setting` | `DeleteKey` |
| `delete_agent`, `permanently_delete_agent` | `DeleteCheck`, `DeletePop`, `DeleteLoad`, `DeleteCommit` |
| a scheduled job's `initialize_async` | `JobInit` |
| `_run_heartbeat`, `unregister_agent` | `Beat`, `BeatSucceeds`, `BeatFails` |
| `initialize_sync`, `_lifespan`, `register_agent` | `Restart` |

The delete endpoints and that of a setting are plain functions, which FastAPI runs in
its thread pool; the other requests are coroutines. So a coroutine's stretch up to
`await initialize_async` is exclusive among coroutines (`LoopFree`) but not against a
delete, which can act between any two of its accesses to the table or to `_agents`.
The primary key of the table is `agent_id`: a delete that loaded a row commits against
a row of the same name created since.

Abstracted: a configuration is a value that says whether the agent has a key of its
own and whether it has heartbeats; a heartbeat that the quiet hours, the cost guard
or an uninitialised object skip is one not taken, so `Beat` may happen whenever a
heartbeat is registered and none is in progress (APScheduler's `max_instances`).
`trigger_heartbeat` changes nothing that the model has. Database errors are left out:
one in `delete_agent` after its pop leaves an active agent without an object, as
`PROJECT.json` says. Left out too: the default agent of an empty table, the platform
bots, which like the heartbeats keep the object of start-up, the synchronous
paths of the CLI and the tests, and that `create_agent` detaches the row after its
commit, so that a build may raise on an attribute the commit has expired: here a build
after a creation succeeds or fails as any other.

### Runs

- **runtime_agents**. Two agents, two requests on the loop and one delete at once,
  builds that fail (3 million states). Heartbeats, which change nothing that an
  operation reads, are followed beside one operation at a time (the constraint
  `BeatsBesideOne`). `TypeOK` includes that a row is written a column at
  a time, never with the marker of "not asked for". `Fresh`: once no operation on an active agent
  is under way, and its last build did not fail, the object that serves it is there,
  was built from the row as it is, with the default key as it is, and nobody is still
  initialising it. `NoUndelete`: an inactive agent becomes active again only by an
  update that asked for it; an update loaded before the delete commits does not write
  `is_active` back, because the ORM writes only what changed.
- **timers**, the hearts' part. One agent with heartbeats, both kinds of failure.
  `HeartsStop` (`FailingStops` of the module): an agent whose heartbeats fail from some
  time on has none any more, whatever is updated, reloaded or deleted meanwhile, up to
  a restart, which registers anew.
- **runtime_delete** (violated). `delete_agent` says that it stops the agent's runtime;
  it takes the object out of `_agents`, and the heartbeat goes on with it.

Bounds: two coroutines and a thread for every pair of operations on an agent, a
second agent for a new key that reloads one after the other; configurations with and
without a key of their own. `Fresh` speaks of active agents: a reload that is under way
when its agent is deleted registers an object of the deleted agent, which the model has
and the property does not exclude. `MaxFailures` is 3 for the code's 5: one failure that
counts, one more, and the one that disables.

Fairness: weak fairness of a request's next step (`Serve`): asyncio runs what is ready
and `initialize_async` ends or raises. Strong fairness of the end of a heartbeat's
chat, which waits for the loop again and again: its steps are bounded by the recursion
limit and its calls by timeouts. None of requests, deletes or of a heartbeat's start.

### Proofs

`AgentRuntimeProofs.tla`, for any sets of agents, requests and deletes, any
configurations and keys, and any faults:

- `TypeCorrect`: `Spec => []TypeOK`.
- `AlwaysFresh`: `Spec => []Fresh`. `Fresh` speaks only of agents that nothing is at work
  on, so it is not inductive. `RuntimeInv` says what holds at work: `Covered`, an
  active agent is served as its row says, or a delete or a reload that will see to
  it is under way, or it is queued for a new key; `OneOnLoop`, one coroutine is
  between two awaits; `Loaded`, what that coroutine read is still what the row says;
  `Attended`, an object being initialised has its coroutine. `CoveredRequest`,
  `CoveredServe`, `CoveredDeletion` and `CoveredRestart` take the actions one by one.
- `NeverUndeleted`: `Spec => NoUndelete`, from `Asked`: a commit writes `is_active` as it
  was asked to, or not at all.

Assumption: `RuntimeAssumption`, that the kinds of values are disjoint.
`FailingStops` is liveness and is only model-checked; `FailuresAreCounted` is what it
rests on, for any agents: `BeatsLeft`, at most 2 `MaxFailures` + 1 and zero only for an
agent without a heartbeat, falls with each heartbeat that starts or fails, and is
raised by a success or a restart and by nothing else.

## 6. The services and their run

Sections 7 to 13 describe seven more components, of which `Backups` is checked in the run
of section 4 and the other six here. They meet the ones above, and each
other, in calls whose outcomes are choices of the models (a chat answers or raises, a
delivery succeeds or not), and they share no state: a thread's checkpoint, the
dashboard's tables, an SSH client, a bot's map, the directory and the
accounts are each written by one component. So `MCServices.tla` checks them as a sum
and not as a product. It extends all of them, and in each behaviour one `service`
runs while the others rest:

| Service | Instance |
|---|---|
| `chats` | `Conversation`, two chats on one thread, each message with an id of its own |
| `solo` | `Conversation` again (`Solo`), one chat that goes on for ever, ids reused |
| `dashboard`, `ssh`, `bots`, `contacts`, `accounts` | the module of that name |

- **services** (518 thousand states) checks the invariants and properties of sections 7 to
  9 and 11 to 13. Its fairness is stated once in `ServicesSpec`: each `Proceeds`-like action of a
  chat, an SSH thread or a message is weakly fair, since every call of an LLM, a
  server, a platform or the database returns, raises or times out. Nothing is
  assumed of new requests, faults, tokens, restarts or losses. Deadlock is not
  checked: the services may rest, and message ids run out.
- **backups_state_preserved** and **backups_latest_is_latest** (violated) are described in
  section 10, **bots_map_bound** (violated) in section 11.

The two instances of `Conversation` exist because the id of a message is a fresh uuid
in the code. For safety, fresh ids are taken from a bounded set, which ends the
behaviour (`Ids`); liveness needs behaviours that do not end, so `Solo` takes an id again
once no checkpoint, run or compaction holds it (`Reuse`).

## 7. Conversation

`Conversation.tla` is one persistent thread: `thread`, the messages of its latest
checkpoint, and for each chat its place (`chat`). LangGraph is external: a run loads the
latest checkpoint, works on its own copy and writes the whole of it after each node;
`aupdate_state` applies one change to the latest checkpoint. Nothing but the compaction
lock keeps two chats off the same thread, so every await is a step.

| Code | Actions |
|---|---|
| `chat`, `chat_stream` up to the graph | `Start`, `Enter` (a compaction in progress is not waited for) |
| `_compact_thread`, `_do_compact`, `compact_context` | `CompactRead`, `CompactRemove`, `CompactAdd`, `CompactFails` |
| `ainvoke`, `astream_events`; `agent_node`, `should_continue`, tools | `Invoke`, `Agent`, `Tools`, `GraphFails` |
| a provider that refuses the history; the fresh thread | `Refuse`, `Reset` |
| exceptions and the fallback of `chat_stream` to `chat` | `Raise` |
| the client of a stream goes away; a crash | `Disconnect`, `Crash` |

Abstracted: a message is an id and a kind; a history is `Sound` when each call is
directly followed by its result, which is what the providers require; whether a
refusal is recognised as corruption, from its wording, is a choice. The cost guard and the safety check
come before `Start`; a refusal of theirs is a chat that does not start. `GraphFails` is every
way in which a run ends without a reply: the LLM fails, a node's checkpoint is not
written, or LangGraph's `recursion_limit`, which the code sets to 100 steps, is reached: here,
when a run has made `MaxCalls` tool calls it may still reply, or be ended by the limit.

- `LatestKept`: whatever other chats write between the reading of the thread and the
  removal of what was old in it, a compaction never removes the latest message. The
  ids to remove are computed before an LLM call and applied after it.
- `SoloHeals`: a thread that no provider accepts any more is mended by the chats that
  are refused on it, because compaction drops what precedes their messages: if
  failures stop and chats keep starting, replies come again and again. Both
  hypotheses are needed.
- `SoloEnds`: every chat ends, and with it the compaction lock is released.

Bounds: two chats with `MaxMessages` 3, `KeepRecent` 2 and nine ids let one chat compact
while the other adds up to three messages; the only fault there is the database's,
the others are in `solo`, with `MaxMessages` 4, all faults and one tool call per run. `MaxLen` bounds the thread on which compaction fails, or it would grow for
ever.

`ConversationProofs.tla`, for any number of chats, any thresholds and lengths and whatever
fails:

- `ConversationTypeCorrect`: `Spec => []TypeOK`.
- `LatestAlwaysKept`: `Spec => []LatestKept`. Its subject is a chat between its
  computation of the ids to remove and their removal, while others write to the thread,
  so it needs what everyone holds: `ConversationInv` says that the ids of the thread, and
  of each run's copy of it, are distinct; that one chat compacts at a time; and that the
  ids to be removed are some, and never that of the message that is last by now. Every
  write by another chat ends in a message whose id is new, held by no checkpoint, run or
  compaction; that is also why ids stay distinct when a run writes back the whole of a
  copy that is older than the thread.
- `ChatsAreBounded`: a chat ends after at most 4 `MaxCalls` + 13 of its own steps, whatever
  the others do: `StepsLeft` is zero for a chat at rest only and falls with each step.
  It is the safety half of `SoloEnds`.

What the removal leaves is a recursive function of the thread; the lemmas on it
go by the least element of a set of positions (`LeastId`). `SoloHeals` and `SoloEnds` are
liveness and are only model-checked.

## 8. Dashboard

`Dashboard.tla` has the cache `_thread_meta` and the table `thread_meta` (`cache`, `rows`,
`loaded`), what `token_usage` adds up to (`spent` today, `actions` in the last hour), and
each request's place (`dashCall`). Chats are coroutines that save without an await, so
their savings exclude each other (`LoopFree`); renames run in threads of their own.

| Code | Actions |
|---|---|
| both chat endpoints with `check_budget` | `Chat` (a refusal is an answer too), `ChatAnswered`, `ChatFails` |
| `store_token_usage` | `StoreTokenUsage`, in `ChatAnswered` |
| `update_thread_title` | `Rename`, of any id, known or not |
| `_save_thread_meta` | `SaveMeta` (the cache), `SaveQuery`, `SaveUpdate`, `SaveInsert`, `SaveFails` |
| midnight UTC, the sliding hour | `Midnight`, `HourPasses` |
| a crash and `_load_thread_meta` | `DashRestart` |

Abstracted: a price is a cost per chat of at most `MaxCost`; a title is a value.

- `BudgetBound`: the guard looks before a chat and the record comes after it, so chats
  in progress together overshoot, but by no more than what each costs.
- `RowsCached`: unless start-up failed to read the table, each thread with a row is in
  the cache, from which the listing is made.
- `RowOwnerKept`: whoever renames, fails or restarts, an owner once stored stays, though
  a rename makes the cache forget it.

Bounds: two chats, one of them streaming, and a rename on one thread with two titles;
a budget and a rate of 2 with chats that cost up to 2, so that both limits are met
with one chat and with two in progress.

`DashboardProofs.tla` proves all four for any numbers: `DashTypeCorrect`, `BudgetBounded`,
`RowsAlwaysCached`, `OwnersKept`. The bound is not inductive: `Covered` says that what is spent, with the most
that the chats now in progress may yet spend, stays within it, and rests on lemmas on
cardinalities (`Fewer`, `Costs`) and on what a step does to such a sum (`CoversBelow`,
`CoversLess`). `RowsAlwaysCached` needs `SavedCached`, that what a request is saving is in
the cache already. `DashboardAssumption` asks for finitely many chats at once.

## 9. SshBackend

`SshBackend.tla` is one agent's SSH client (`client`) and SFTP session (`sftp`), shared by its
tools' threads without a lock, each thread's place (`sshCall`), and whether this server
ever refuses a session on a live client (`refuses`). `Dead` is any connection whose
transport is gone.

| Code | Actions |
|---|---|
| a tool's call | `SshStart` |
| `_ensure_connected`, `connect` with its retries | `EnsureConnected`, `SshConnect`, `OpenSftp`, `ConnectFails` |
| `_ensure_sftp` | `EnsureSftp` |
| `execute`, `grep_raw`, `glob_info`; `write`'s mkdir | `Run`, `RunFails` |
| `ls_info`, `read`, `edit`, `write`, `upload_files`, `download_files` | `Transfer`, `TransferFails` |
| the network | `Lose` |

- `CommandsRecover`: however many transports were lost, and however the threads have
  overwritten each other's client, once the server is well commands get through.
- `FilesRecover`: files do too, if one thread alone uses the backend and the server
  refuses no session. Without either, `_sftp` may stay a session of a dead connection
  beside a live client, and nothing replaces it; the hypotheses say exactly that.

Bounds: two threads, one of which makes commands only, four connections (a client, a
session and one in each thread's hands), two tries. Fairness: weak, of each thread's
next step: paramiko's calls have timeouts.

`BackendProofs.tla`, for any number of threads and connections, proves `SshTypeCorrect` and
the safety halves of the two properties, which themselves are liveness:

- `CallsAreBounded`: a call ends after at most 4 `MaxTries` + 5 of its own steps, however
  often transports are lost and whatever other threads put in place of its client; no
  step of another thread makes it longer.
- `SessionIsTheClients`: with one thread and no refusal, between two calls a live client
  has its own session and no other. `SameConnection`, the invariant, says at each place of
  a call which of the two fields already belongs to the new connection.

## 10. Backups

`Backups.tla` is what an agent's sandboxes and the bucket have of its files while the
threads of the process use them: E2B's sandboxes (`state`) with the files of each (`home`:
each change makes a file of its own, so an archive is the set of changes it has), the
object's `_sandbox` and `_existing_sandbox_id` (`held`, `kept`), the bucket (`stored`,
`latest`), everything that `backup_to_r2` has ever returned a key for (`acked`), and the
backup or restore that each thread is in (`job`).

The dashboard's endpoints run on the loop, one at a time (`Server`); the idle timer and
the tools, whose reconnects restore, have threads of their own (`Workers`). No lock keeps
a backup or a restore of one from those of another, and none does here: every archive,
every put, the download and the extraction is a step, between which any other thread
acts and the sandbox may be lost. All backups pack into one file of the sandbox,
`/tmp/sandbox_backup.tar.gz`; two that pack the same sandbox at once (`alone` is FALSE) may
read what the other has half written (`Torn`).

| Code | Actions |
|---|---|
| `_ensure_sandbox`, `connect` (a sandbox that cannot be reached is taken for a dead one) | `UseSandbox`, `EnsureSandbox` in all others |
| a tool writes; E2B drops a sandbox | `WriteFiles`, `LoseSandbox` |
| `_reconnect_sandbox` with its restore | `ReconnectSandbox` |
| `backup_to_r2` from the backup and pause endpoints, the shutdown, the idle timer | `StartBackup`, `Pack`, `BackupFails` |
| `upload_backup` | `PutTar`, `PutLatestTar`, `PutReq` |
| `pause` at the end of a backup | `PauseIf`, in `BackedUp` and `BackupFails` |
| `restore_from_r2`, `download_latest_backup` from the restore endpoint, a start, a reconnect | `StartRestore`, `Download`, `Extract`, `RestoreFails` |
| a new process | `BackupRestart` |

`missed` is a history variable: what has come between the files and their copies. A
restore `failed`; a sandbox was created without one although there was a backup
(`skipped`); or a backup was beside another backup or a restore (`overlap`). The
properties say what holds without which of them:

- `BackupKept`: as long as no backup has been beside another job, everything that was ever
  acknowledged is in some stored archive and the latest archive is a stored one,
  whatever restores were missed. If none was, the latest archive has all of it,
  and no packages newer than itself. This is over tools that write while an archive is
  on its way, puts that fail, crashes between two puts, restores beside each other, and
  sandboxes lost under a backup or a restore.
- `AckedRestored`: then a sandbox in use has all of it too: the endpoints and the tools'
  reconnects restore what is latest by then, into whatever sandbox is held by then.
- **backups_latest_is_latest** (violated). `upload_backup` overwrites the "latest" pointer and
  `download_latest_backup` downloads the "latest backup"; with two backups at once, the one
  whose put comes last may have packed first. The trace: an endpoint's backup packs, a tool writes
  a file, the idle timer's backup packs, puts and is acknowledged, then the endpoint's put of
  `latest.tar.gz` goes through, with the older archive. Nothing has failed in it. A restore
  beside a backup likewise unpacks a latest that is about to be replaced. So the
  hypothesis "no overlap" is needed, and the code does not ensure it.
- **backups_state_preserved** (violated). The repository's README says that idle agents'
  state is preserved. A sandbox that E2B has dropped while it was idle is replaced
  by `_ensure_sandbox`, which does not restore into the new one.

Checked as the second part of **sandbox_concurrent**. Bounds: one worker beside the
loop, two sandboxes (one lost or left, and its successor), one change (so a copy has it or does
not: what tells an older archive from a newer one), all faults. `HarmedOnce`, a constraint,
leaves out what happens once the files have been harmed in two ways, about which the
properties say nothing more, and what comes after an overlap has ended. The proofs
have no such bounds.

Abstracted: the upload of the requirements under their own key goes with that under the
latest one; deletions of files are left out; the key of an archive has its time in
seconds, and a backup beside another may overwrite the other's key, but two backups one
after the other within a second are taken for having two keys. `LoseSandbox` and the gateway
errors are those of section 4, without the steps inside `connect` and `pause`.

`BackendProofs.tla`, for any number of threads, sandboxes and changes and any faults:

- `BackupsTypeCorrect`: `BackupsSpec => []BackupsTypeOK`.
- `BackupsKept`: `BackupsSpec => []BackupKept`, and `AlwaysRestored`: `BackupsSpec => []AckedRestored`.
  Neither is inductive alone. `BackupsInv` has, for a history without overlap, `HasKey`: an
  archive has its own key before it is put as the latest; and `AllWhole`: no archive on
  its way is torn, since each has been packed alone. For one in which nothing was missed,
  `Unharmed`: the latest archive is part of the files of the current sandbox, or a
  restore is on its way that will put it there; and a backup in hand has what the latest
  has. A restore that is on its way after its download has what is latest now, because no
  backup came beside it.

## 11. PlatformBots

`PlatformBots.tla` is the fate of each message a bot receives (`event`: what the
"Thinking..." message shows by now, whether the bot knows that message, the text so far, the other
messages sent), Telegram's map from chats to threads (`threads`, oldest first), and the
kinds of failure that a behaviour has (`botFaults`).

| Code | Actions |
|---|---|
| Lark's and Discord's reception, Telegram's webhook and `_get_thread_id`, `/new` | `LarkMessage`, `DiscordMessage`, `TelegramMessage`, `ResetThread` |
| `handle_event` of `integrations/base.py` | `Typing`, `TypingFails`, `ChatReplies`, `ChatRepliesNothing`, `ChatRaises` |
| delivery: the update of the placeholder, or a message | `Deliver`, `UpdateRefused`, `UpdateRaises`, `Send`, `SendFails` |
| `_handle_event_stream` | `Think`, `ThinkFails`, `Token`, `StreamDone`, `StreamDoneEmpty`, `StreamRaises`, `FinalEdit`, `FinalEditFails`, `FinalDelete` |
| a crash | `BotCrash` |

A call that times out may have been done: such steps choose between the two. The
chunks of a long answer count as one message; the order of chunks is that of one
loop. A message is handled by a coroutine of its own and shares only the map with the
others, so `services` has one message at a time and then another.

- `OneAnswer`: whatever fails, times out or is fallen back from, nobody gets two
  answers to one message.
- `Answered`: if the platform works, the model says something and the process lives, each
  message gets an answer or an apology, however often the agent fails, and no
  "Thinking..." stays.
- **bots_map_bound** (violated). `_MAX_THREADS` is there to "prevent unbounded memory
  growth" and the map is "(bounded)". `MapBound` says so: it never has more than
  `MaxThreads` entries. `_get_thread_id` keeps to it; `_reset_thread`, which `/new` calls,
  inserts without evicting, and since an eviction makes room for one insertion only,
  the map stays as large as it has become.

Bounds: one message, three Telegram chats for a map of two, all sets of faults; two
chats for a map of one in bots_map_bound.

`MessagingProofs.tla` proves `BotsTypeCorrect` and `OnlyOneAnswer` for any numbers; `OneAnswer` needs `AnsweredOnce`, that a message has had no answer until the
step that ends it. `Answered` is liveness; its two halves that are not are proved:
`EndsAnswered`, that without a fault of the platform a message that is done with has its
answer and no "Thinking..." is left (the invariant `Served` says what each step
owes to the next), and `HandlingBounded`, that it is done with after five steps, tokens
aside.

## 12. Contacts

`Contacts.tla` has the table `contacts`, last updated first (`directory`), and each send's
place (`send`).

| Code | Actions |
|---|---|
| capture by a bot, `add_contact`: `upsert_contact` | `CaptureUser`, `CaptureGroup`, `AddContact` |
| `send_message`, `_resolve_recipient` | `SendPrefixed`, `SendNamed`, `FindExact`, `FindFuzzy` |
| the platform's bot | `SendByBot` |

Abstracted: `Like` gives for a text the names that have it as a part; ids and names are
values. The directory is a sequence whose rows are named by their positions. An upsert is one
step, in which the row takes its place in the order; the code stamps the time before it hands the
statement to a thread, so that two upserts at once may be ordered by their calls
rather than by their commits.

- `KindKept`: users and groups are written to by different calls; what a send found in
  the directory is still of its kind when the bot is called, whatever was captured
  meanwhile. True because a conflict writes the name only.
- `NamesakePreferred`: a name that some contact on the preferred platform has reaches a
  contact there of just this name, though others of the name were heard from later.

Bounds: three accounts on two platforms, two names of which one is a part of the
other, one send, and a `LIMIT` of 2 for the code's 5, so that it cuts.

`MessagingProofs.tla`, for any accounts, names, platforms and sends, proves
`ContactsTypeCorrect`, `KindAlwaysKept` and `NamesakesPreferred`. The first two are one
induction: that no account has two rows (`ContactsTypeOK`) is what makes an upsert touch one row
and leave each other row with its account, name and kind at some position, which
`Upserted` states and `KindKept` needs of the row that a send has in hand. The third is an
action property: the exact search takes the least position that fits (`LeastNumber`),
and the first namesake on the preferred platform, if there is one.

## 13. UserAccounts

`UserAccounts.tla` has the tables of `api/auth.py` (`users`, `access`, `keys`) and each request's
place (`request`). Every endpoint is a plain function in a thread of its own with its
own session, so requests overlap between query and commit; the database is at READ
COMMITTED.

| Code | Actions |
|---|---|
| `create_user` | `CheckNew`, `CreateUser` (the address may be taken since: the INSERT raises) |
| `update_user`, `delete_user`, `reset_password` | `UpdateUser`, `DeleteUser`, `ResetPassword` (all `LoadUser`), `CheckEmail`, `CommitUser` |
| `set_user_agents`; `permanently_delete_agent` | `SetUserAgents`, `ForgetAgent` (both `Replace`), `Clear`, `Grant` |
| keys: create, verify, revoke, expiry | `CreateKey`, `UseKey`, `RevokeKey`, `CommitKey`, `KeyExpires` |
| a crash | `AccountsRestart` |

As in `CronScheduler`, the ORM writes the columns whose value differs from the loaded one
(`Modified`, `Written`). A DELETE takes the rows that were there when it began, waits for
the transactions that have them locked, and passes over those gone by then: `seen`,
`gone` and `since` (what others granted meanwhile) are what a replacement needs of that.
The DELETE of a replacement passes over a pair that was deleted and inserted again since
it began: that is another row, and the INSERT of the same pair then fails (`Clear`,
`Grant`). Abstracted: an agent's existence is not asked for, roles mean nothing here, and logins,
tokens and listings change nothing. A failed INSERT rolls the request back.

- `AccountsTypeOK` includes that no two accounts have one address.
- `NothingUndone`: a column of a user changes only to what the committing request was asked
  for, so an update loaded before a deactivation or a new password commits does not
  bring the old one back; nor does a use of a key revive a revoked one.
- `GrantsAsAsked`: a replacement that succeeds leaves, of the rows it replaces, what it was
  asked for and what others granted while it went on. Two replacements at once may
  leave both grants, which is what READ COMMITTED gives; an old one never stays.

Bounds: two requests, users, addresses and passwords, one agent and one key. `Asks` is what
updates ask for (an address with a reactivation, an address, a deactivation). The three
tables share only the existence of users, so a behaviour has one of `Desks`: users,
grants, or keys.

`UserAccountsProofs.tla` proves all three for any sets: `AccountsTypeCorrect`, `NeverUndone`,
`GrantedAsAsked`. The invariant `AccountsInv` adds that a row once loaded is there
(`RowsThere`) and that a commit writes what it was asked or nothing (`WritesAsked`); for the
grants, `Found`: what is left of the rows a request replaces, it has found or was
told of. `AccountsAssumption` says that the marker of "not asked for" and that of "no row"
are no values, and that no update of a user writes a password.

## 14. Reading and running

    tlc -workers 2 -config CronConcurrent.cfg MCCronScheduler.tla
    tlapm CronSchedulerProofs.tla

`PROJECT.json` lists the runs with their configurations, the mutants (an operator
beside the definition that it replaces, as a plausible mistake in the code would,
for every checked property), the source lines of each definition, the findings,
the hazards and the theorems.

All invariants and action properties that a passing run checks are theorems, with calls
one at a time where the run has them so, and so is the refinement of `ScheduledJobs`. The
properties of the seven violation runs are what comments, docstrings and the repository's
README say and the code does not do; each is a finding in `PROJECT.json`, with its trace. What stays
with TLC is liveness under fairness, which is outside the provers' reach: `KeepsRunning`, `ZeroCompute`, `HeartsStop`, `SoloHeals`, `SoloEnds`,
`CommandsRecover`, `FilesRecover` and `Answered`. For five of them the safety half is proved,
that is, what the system does is bounded and ends in the right place, so that
only its getting there rests on TLC and the fairness: `FailuresAreCounted`, `ChatsAreBounded`
(`SoloEnds`), `CallsAreBounded` and `SessionIsTheClients` (`CommandsRecover` and `FilesRecover`),
`EndsAnswered` and `HandlingBounded` (`Answered`). The proofs avoid the library's induction theorems
that take an operator as a parameter: inductions over a thread or the directory go
by the least counterexample.

## 15. Seen while modelling

Behaviour that contradicts no statement of the repository and is part of the models
or next to them:

- A start restores the latest backup over newer files of a sandbox that is still
  there (`agent.py:459`); old requirements stay in the bucket when `pip freeze` is empty.
- `list_backups` lists the first 100 keys only (`r2_storage.py:112`).
- `_extract_token_usage` adds up all answers of the thread, not of the run (`agent.py:1171`).
- `repair_thread` removes only system messages, while summaries are user messages now;
  `delete_thread` uses `_checkpoint_conn`, which no agent has (`dashboard.py:1183`).
- A failure to store a conversation after an answer makes `handle_event` run the agent
  again (`agent.py:879`, `base.py:128`).
- An empty answer, or an update that times out, leaves "Thinking..."; Telegram's
  final edit may fail silently; a webhook's task is lost with the process.
- A platform asked for explicitly is sent the id of another one's contact
  (`messaging.py:264`); the fuzzy query cuts at five before it prefers (`messaging.py:195`); an
  unknown prefixed id is taken for a user (`messaging.py:173`); a captured group name
  overwrites one given by hand (`base.py:216`).
- `edit` over SSH truncates the file before it writes it.
- A run that began before a compaction writes its own copy back, with what the
  compaction removed.

## 16. Not modelled

The parts that `PROJECT.json` calls not modelled: the desktop's stream URL, the memory
store (single SQL statements and a ranking), the pure rule lookup of the safety
middleware, declarations, cryptography, telemetry, the CLI, migrations, skills and web
pages. In the modelled ones: texts, prompts and deliveries, `last_run_at` and
`next_run_at`, the contents of files, metrics and logs, listings and statistics, and two
processes on one database (the deployment is a single process).
