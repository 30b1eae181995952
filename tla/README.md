# Evotown: specification, model checking and proofs

Evotown is a control plane for fleets of AI agents: a FastAPI backend
(`src/backend`) with a React console (`src/frontend`). Engines on employees' machines
register, report their runs and take jobs from a queue; Doctors are engines that keep a
WebSocket open and get jobs pushed; hosted agents run inside the backend; a gateway
forwards model calls; a market, a registry and a knowledge base serve what agents use;
an arena lets agents compete for tasks. This directory holds TLA+ modules of these
parts, the TLC runs that check them and TLAPS proofs about them.

## 1. The program as the models see it

**One process, one event loop.** uvicorn runs one process; handlers, background loops
and agents are coroutines of one asyncio loop (`main.py`, `lifespan`). What a coroutine
does between two `await`s is atomic with respect to the others. An action of a module is
such a segment. Where a handler awaits in the middle (sending on a socket, running an
agent, asking a language model), it is several actions and a variable says where it is.

**Crashes.** SQLite and files survive a stop of the process; sockets, queues, tasks and
coroutines do not. SQLite commits each statement by itself unless the code opens a
transaction, so a stop can fall between two statements of one handler. Where the code's
tables are read again after that (`HostedAgents`, `McpRegistry`, `Knowledge`,
`ArenaRecords`, the `Restart` actions of `DispatchQueue` and `HostedRuns`), the half-done
states are among the successors.

**Inventory.** `status` and the exact sources are in `PROJECT.json`.

| Component | State | Operations | Hard behaviour | What makes it correct |
|---|---|---|---|---|
| Agent dispatch queue (`infra/agent_dispatch.py`, router) | `dispatch_jobs` | create, lease, ack, complete, cancel, requeue, hosted claim, fail | several executors, lease and running timeouts, lost answers, late reports, restarts | a job is in one executor's hands; outcomes are final; holders are targets; one follow-up per success; expired leases end |
| Doctor nodes (`infra/doctor_nodes.py`, `routers/doctor_ws.py`) | sessions, outbound queues, sockets | connect, hello with drain, push, complete, disconnect | overlapping connections of one Doctor, dead peers | pushes have readers, are not doubled, move on |
| Hosted agent runs (`services/claude_code_runner.py`, `infra/claude_agent_runs.py`, `routers/coding_agent.py`) | `claude_agent_runs`, tasks | create, execute, end, cancel, delete, watchdog | cancels and timeouts racing results, restarts, a cap | outcomes stand; the cap holds; every place is freed |
| Conversations with hosted agents (same files, `claude_agent_sdk_runner.py`) | runs, events, SDK sessions, streams | create or trigger after a run, resume or retell, stream, delete | a resume that fails after text was received, deletion while runs end | an agent is told each round once; one reply per run; a conversation stays one |
| Task board, hosted dispatch worker (`infra/task_nodes.py`, `services/hosted_dispatch_worker.py`) | `task_nodes` | enqueue, refresh on read, drain, recover; claim, run, report | cards that are a mirror and a queue at once | one card per run; waiting cards start |
| Engine ingest and registry (`infra/engine_ingest.py`) | `engines`, `external_runs`, `run_events` | register, rotate token, event, complete | late, doubled, reordered reports | no outcome the engine did not have |
| Policies (`infra/policies.py`, `policy_engine/`) | rows of policies | evaluate, change | many policies, one verdict | what a policy forbids is not logged as done |
| Task pool (`infra/task_pool.py`) | `task_pool` | create, review, plan, claim, release, complete | two claim timeouts, a mutex of workers with one id | one claimer for one purpose; Hermes executes one task |
| Skill market (`infra/skill_market.py`, `skill_catalog.py`) | skills, versions, snapshots, packages, candidates, bundle | draft, edit, submit, review, upload, promote, deprecate, roll back | work goes on while a version is under review | what is published is what was submitted; no cycles of requirements |
| Model gateway and retry (`routers/gateway.py`, `infra/gateway*.py`) | routes, models, requests | resolve a chain, call, retry, fall back, stream | failures after the first byte, limits | a client gets the text of one attempt |
| Responses bridge (`infra/responses_bridge.py`) | a translator per stream | convert items, translate a stream | streams cut anywhere | answers follow their calls; every event stream is well formed |
| Accounts (`infra/accounts.py`, `core/auth.py`, `infra/oidc.py`) | accounts, organisations, keys, sessions | create, bind, log in, log out | two logins of a new person at once | one account per person |
| Hosted agents and templates (`infra/agents.py`, `agent_templates.py`, `workspace_profile.py`) | two databases, files | create, members, keys, templates, releases | crashes between two databases | the key an agent presents is its own |
| Agent skills (`infra/agent_skills.py`) | assignments, installed files | assign, install, resolve | nested requirements | all requirements are found, each once |
| MCP registry and loader (`infra/mcp_registry.py`, `services/mcp_loader.py`) | services, versions, files, caches, roles, grants | develop, deploy, submit, review, call | code on disk and in memory | a call runs the code in production |
| Knowledge (`infra/knowledge.py`, `knowledge_chunks.py`) | sources, documents, index, spaces, folders | sync, push, publish, move, search | half-done saves | what is found is what is published; chunks cover the text |
| Arena tasks (`core/callbacks.py`, `task_dispatcher.py`, `arena_monitor.py`, `process_manager.py`) | board, pool, `in_task`, pending tasks, monitor, processes | preview, assign, done, timeout, exit, start/stop, refill | completion racing timeout and exit, awaits between check and use | one executor, one outcome; rounds end; no invented task twice |
| Arena society (`domain/arena.py`, `services/`) | agents, teams, loyalty, letters | judge, reorganise, rescue, eliminate, create | model calls between check and use, restarts | an agent is in the lists of its own team, once, and in no other |
| Arena records (`infra/persistence.py`, `task_history.py`, ...) | SQLite and JSON copies, journals | save, load, append, migrate | crashes between two copies | what was saved comes back; journals are read as written |
| Databases and configuration, connectors and setup scripts, web console | settings, local files, none | | | not modelled (section 6) |

**How they interact.** The dispatch router and the WebSocket handler both call the
queue; creating a job (and a WebSocket completion with a follow-up) offers it to a
connected Doctor, which leases it in the same step. The hosted worker claims a job,
makes a run under the same cap as the console's requests, and reports to the queue. A
run's end triggers the drain of waiting cards; reading the board copies runs into
cards; startup recovery makes cards of interrupted runs. A run reads its conversation,
its agent's skills (which read the market) and calls the gateway and MCP services. The
end of an arena task changes the society, which is saved by the records. Ingest asks
the policies. Presence columns, broadcasts to consoles and audit rows are written along
the way and never read back by these components; they are left out.

## 2. Modules

| Module | Stands for |
|---|---|
| `JobLedger` | abstract specification: a job is entered once, closed once, followed at most once |
| `DispatchJobs`, `DispatchQueue` | rows of `dispatch_jobs` and their operators; the queue with its executors |
| `DoctorNodes` | the socket side of Doctors |
| `HostedRuns` | hosted runs, cards, worker, watchdog, recovery |
| `Conversations` | what runs are told, their events, streams and groups |
| `ArenaTasks`, `TaskSupply` | tasks of the arena: rounds, processes, watchdog; where tasks come from |
| `ArenaSociety`, `ArenaRecords` | agents and teams; what is on disk |
| `Policies`, `EngineIngest` | policies; engines and their reports |
| `TaskPool` | the pool of reviewed tasks |
| `SkillMarket`, `AgentSkills` | the market; skills of an agent |
| `GatewayRoutes`, `Gateway`, `ResponsesBridge` | chains of models; requests; the Responses API |
| `Accounts`, `HostedAgents` | people and keys; agents, members, templates |
| `McpRegistry`, `Knowledge` | services and grants; documents and index |
| `MCDispatchQueue`, `MCDoctorNodes`, `MCHostedRuns`, `MCArenaTasks` | instances for TLC |
| `MCControlPlane` | the other modules side by side, with parts that restrict them |
| `DispatchQueueProofs`, `DoctorNodesProofs`, `HostedRunsProofs`, `ArenaTasksProofs` | theorems about the module of that name |
| `ArenaProofs` | theorems about `TaskSupply`, `ArenaRecords` and `ArenaSociety` |
| `KnowledgeProofs` | theorems about `Knowledge` and `ResponsesBridge` |
| `RegistryProofs` | theorems about `EngineIngest` with `Policies`, `TaskPool`, `Accounts`, `HostedAgents`, `AgentSkills`, `McpRegistry`, `SkillMarket`, `Gateway`, `Conversations` |
| `ControlPlaneProofs` | that the parts of `MCControlPlane` are behaviours of its components, and what follows |

`EngineIngest` extends `Policies`, `Gateway` extends `GatewayRoutes`. `AgentSkills` sees
the market as tables that change at any time; `Conversations` sees the life of a run as
`HostedRuns` has it, with any failure as one. `MCControlPlane` gives each part of the
control plane its own variables; the initial state picks the part that moves.

### DispatchQueue

`jobs` is the table: per row status, targets (`to`), the handoff its payload asks for
(`next`), parent, lease holder, and `age`, the ticks since the last update. `tod` is
the time of day, which matters because of how `_requeue_stale` compares times. `active`
holds the active hosted agents, `doctors` the connected Doctors, `work[x]` the jobs
executor `x` believes it has. `redo` is a history variable: the jobs the sweep took
back at least once.

| Action | Code |
|---|---|
| `CreateJob`, `CreateFromEngine` | `create_job_admin`, `create_job_from_engine` with validation, handoff policy and the offer to a Doctor |
| `LeaseJob` | `lease_job_endpoint`: sweep, oldest matching queued job, lease; the answer may get lost |
| `AckJob`, `CompleteJob` | ack and completion over HTTP and WebSocket, with the follow-up and (WebSocket only) its offer |
| `CancelJob` | `cancel_job` |
| `ClaimHosted`, `ReportHosted` | `process_next_hosted_job` up to and after its await |
| `ConnectDoctor`, `HelloDoctor`, `DisconnectDoctor` | sessions, and the drain at hello |
| `SetAgentStatus` | an administrator disables or enables a hosted agent |
| `LoseWork` | an executor crashes or drops a job |
| `Restart` | the process stops: connections and hosted work vanish; possibly between a success and its follow-up |
| `Tick` | time |

A completion may come from any engine while the job has no holder, because the code
lets it (`complete_job` tests `lease_engine_id` only if it is set). The long poll
(`lease_job_wait`) repeats the same step, so it is several `LeaseJob`s. A refused
follow-up leaves the parent completed, as the exception does.

### DoctorNodes

The queue's `doctors` is here taken apart: `sessions` and `outbound` are the two
dictionaries of `doctor_nodes.py`, each socket has a handler that is not yet used,
sends its welcome, loops, or is done, an engine (`owner`), a `peer` that may be gone
without the handler knowing, and its own `queue`. A job is seen from its pushes: is it
live, whose lease is it, is the lease `late`, which Doctors `got` it. `Accept` is the handler up to
its first await, `Welcome` the rest of it, `SendNext` takes one message and sends it
(the queue and the socket are read by one loop), `Hello` and `Complete` are
client messages, `Finish` is the end of a handler with its `finally` block. `OfferJob`,
`Hello`, `OtherPoll` run the sweep first, as every lease call does.

### HostedRuns and Conversations

`HostedRuns`: `runs` and `cards` are the tables, `coro[r]` where the coroutine of run
`r` is (`created`, `body`, `ending`, `stopping`, or none), `cancels` and `drops` the
cancel and delete requests that wait for a task, `worker` and `job` the hosted worker
and its jobs, `asked` the requests made. `ending` is a coroutine whose agent has a
result that the coroutine has not yet resumed with: `wait_for` of Python 3.11 (the
image's version) drops a cancel that arrives then. A run whose status is `old` has
exceeded the run timeout. `CreateRun` runs a request at once or, at the cap, inserts a
waiting card; `Drain` walks all waiting cards, `RefreshBoard` is the lazy sync of the
board, `Restart` a stop of the process together with `recover_zombie_running_runs`.

`Conversations`: `chats` are the runs with the run each answers (`prev`) and the second
it was created in, `journal` their events, `acting` the query of a run, `minds` what the
SDK's sessions have been told, `viewer` one client's SSE stream, `doomed` the runs a
deletion waits for. `StartQuery` decides between resuming and retelling (`Resumed`, `Past`,
`Bounded`), `Say` and `ToolFails` are events of the SDK, `ResumeFails` its fallback to a
new session, `QueryEnds`, `DryRun`, `CompleteRun`, `Fail` the ends, `Trigger` and
`CreateAfter` the two ways to go on, `StartDelete` and `FinishDelete` the deletion around
its awaits, `Watch`, `List`, `SendEvent`, `LookWhetherDone` the stream.

### Arena

`ArenaTasks`: `busy` is `in_task`, `meta` the pending task, `exe` what the monitor has,
`proc`, `reader`, `inbox` the child process, the coroutine that reads its output and
what it has been asked, `loop[l]` and `asked[l]` where a dispatcher loop is and what it
knows of its previews, `future` whose preview an agent's next answer belongs to,
`settling` the pipelines of finished tasks. `PutOnBoard` … `NextTick` are one tick cut at
its awaits; `Answer`, `ToolLimit`, `TimeOut`, `ReadEnd` are the four ways a task ends, and
`Settle` the rest of `on_task_done` after its awaits. Several loops may exist because
stop and start within one tick leave the old one alive. `TaskSupply` is the pool behind
the board: refilling by a model call, by seeds, by request, and the recovery mode.

`ArenaSociety`: `roster`, `teams`, `letters`, `disk`; `thoughts` are background tasks
whose model call is under way, `stage` where the end of a task is. `Record` is the part
up to the save, `GoOn` what follows the news or the last words. `Reorganized` follows
`reorganize_teams` list by list. The check for a desertion fails on a missing attribute
before it changes anything, so `Defected` leaves the society as it is. An error of saving
is logged and passed over, so `SavesAs` changes `disk` or not.

`ArenaRecords`: `tables` (SQLite) and `backup`, `legacy` (JSON) are the copies of the
state, `arena` the state in memory; the journals are files an older version may have
begun elsewhere (`books`), `written` what this version wrote; `post` are letters. Three
next-state relations, `StoreNext`, `JournalNext` and `PostNext`, are run apart because
they share nothing.

### Engines, policies and tasks

`EngineIngest`: a report in `net` can be delivered at any time and any number of times.
`work` is what the engine did, `runs` what the control plane shows, `tokens` and `held`
the token of the row and of the machine. `RunEvent`, `StepEvent`, `Complete`,
`EvaluatePolicy`, `ReportViolation` are the endpoints; the run's row is written before
the policies refuse. `Policies` has the evaluators as operators on records and the merge
as a fold over the enabled rows. `TaskPool` has `ReleasedPool`, the sweep at the start
of a claim, `Claim` for both modes, and what workers and administrators write without
a check; `hand` is what a worker believes it has.

### Skills, MCP and knowledge

`SkillMarket`: content is the number of edits, so that "what was submitted" can be told
from "what is there now". Submission copies the workspace (`TakeSnapshot`), approval
publishes the copy. `ResolveDependencies` walks requirements depth first up to
`MaxDepth`, as the code does. `McpRegistry`: handlers are files with a time and a code in
development, in workspaces and in production; the loader's cache (`handlers`) is keyed
by what it loaded; roles, dimensions and the generated `permissions.py` follow their
writes one by one. `Knowledge`: a document's save is the row, then its old chunks, then
the new ones; `TornNext` are the saves that end in between; `SplitIntoChunks` is the
cutting of a text.

### Gateway and accounts

`GatewayRoutes` computes the chain of models (`ChainOf`) from routes, tiers, upstream rows
and the prompt. `Gateway` has one handler per request, `call[r]`, through checks,
attempts with retries and fallbacks, the pieces of an answer, and the row it leaves;
`heard[r]` records which attempts' text reached the client. The time budget may end the
loop at any test. `ResponsesBridge`: `RequestToChat` is the order of messages made of input
items, `FeedLine` the translation of one upstream line; `sent` are the events the client
got, over as many upstreams as the policy allows. `Accounts`: rows, sessions with a
sliding validity, and single sign-on as two steps around the exchange (`logins`).
`HostedAgents`: agents and members in one database, keys in another, written one after
the other (`FirstWrite` says which is first), templates and the files of a profile, and
new releases of the code with other built-in templates.

## 3. Runs

| Run | Bounds | Checks |
|---|---|---|
| `dispatch_queue` | 2 engines of a team, 1 hosted agent, 2 jobs (one with a handoff), lease and running timeouts 0 and 1 of a 2-tick day, fairness | types, `LeaseMatchesStatus`, `HandedOutOnce`, `HolderIsTarget`, `FollowUpOnce`, `TerminalIsFinal`, `HolderKeepsJob`, `ImplementsLedger`, `LeaseEnds` |
| `doctor_nodes` | 2 Doctors, 2 sockets, 2 jobs, fairness | types, `PushHasReader`, `PushedOnce`, `NoGhosts`, `PushMovesOn` |
| `hosted_runs` | 1 request, 1 dispatch job, cap 1, 2 runs, 2 cards, 1 restart | types, `BodyIsRunning`, `CardPerRun`, `ActiveWithinCap`, `OutcomeStands` |
| `hosted_runs_live` | 1 request, 3 runs, 1 card, 1 restart, fairness | `PlacesAreFreed`, `CardsAreStarted` |
| `arena_tasks` | 2 agents, 1 loop, 2 tasks, board of 1, symmetry in the agents | types, `OneExecutor`, `RecordedOnce`, `WatchedWhilePending` |
| `arena_rounds` | 1 agent, 2 loops, 2 tasks, board of 2, fairness | `RoundsEnd`, `LateIsEnded` |
| `control_plane` | 36 parts, see below | the properties of the other modules |
| `dispatch_running_timeout` | 1 engine, 1 job | `RunningRequeuedAfterTimeout` fails |
| `doctor_reconnect` | 1 Doctor, 2 sockets | `ConnectedIsOnline` fails |
| `hosted_cancelled` | 1 dispatch job | `CancelledStays` fails |
| `hosted_refresh` | 1 request, 2 runs | `SucceedsOnce` fails |
| `arena_settled` | 1 agent, 1 task | `SettledOnce` fails |

**The parts of `control_plane`.** One initial state per part (several where the starting
data vary); the others' variables stay put, so the run explores each part's own graph.

| Parts | Bounds | Property |
|---|---|---|
| `ingest`, `policed` | 1 engine, 1 run; 2 tokens and one policy beside the default, or 1 token and 2 policies of 2 kinds that change | `OutcomeWasReported`, `ForbiddenIsNotLogged` |
| `pool`, `pair`, `submit` | 1 task, 2 Hermes workers and an administrator; 2 tasks, 2 workers by themselves; 2 tasks, 1 worker, a submitter and an administrator | `ClaimsExclude` |
| `market`, `catalog`, `starter` | 2 skills, or 1 that also comes from outside; 2 versions, 1 edit of each | `PublishedAsSubmitted`, `DepsResolve` (no cycle) |
| `deps`, `install` | 3 skills with every relation of requirements; 1 agent and 2 skills | `DepsResolve` (all found, once) |
| `call`, `calls` | 1 request of any of 6 kinds while routes and models change; 2 requests of one key | `OneAnswer` |
| `staff`, `keys` | 2 accounts, 1 subject; 2 accounts, 1 key of 2 scopes | `IdentitiesHold` |
| `agents`, `templates` | 2 agents with 2 keys; 1 agent, 2 releases of built-in templates | `IdentitiesHold` |
| `mcp`, `granting`, `outside` | 1 service in 2 directories with 2 codes; 1 role, 1 dimension; 1 external service | `HandlerIsCurrent` |
| `teams`, `tasks`, `letters`, `restarts` | 3 agents that form teams and are rewarded and changed by hand; 3 that finish a task; 2 with letters; 2 with restarts, one of them deleted by hand; 1 task | `ArenaAgrees` |
| `store`, `journals`, `post`, `supply` | 2 agents and 3 saves; 3 lines; 3 agents and 4 letters; 4 texts | `ArenaAgrees` |
| `convert`, `stream` | every request of 4 items; every stream of 5 lines over 2 attempts | `BridgeAgrees` |
| `library`, `colons`, `folders`, `chunks` | 1 space with a document; 2 documents of one id; 2 spaces with folders; every text of 6 lines | `KnowledgeAgrees` |
| `talk`, `minds`, `groups` | 2 runs, one of them watched; 3 runs that answer each other; 4 runs in conversations | `ConversationsHold` |

A property of `MCControlPlane` names the module's own: `ClaimsExclude` is `ClaimedOnce`
and `HermesAlone`; `IdentitiesHold` is `OneAccountPerSub` and `KeyIsKnown`;
`ArenaAgrees` is `MembersAgree`, `RecordsAgree` (state, journals, lists, letters) and
`OfferedOnce`; `BridgeAgrees` is `AnswersFollowCalls` and `StreamWellFormed`;
`KnowledgeAgrees` is `IndexIsCurrent` and `ChunksCover`;
`ConversationsHold` is `OneReply`, `ToldOnce` and `Continues`.

**Why the bounds are enough.** Two executors and two jobs show every conflict over one
job and every order of two. A lease timeout of 0 ticks means a lease may be found
expired at any later poll, the widest behaviour; the running timeout is one tick so
that the comparison of formatted times has both outcomes within a day. One restart is
enough because a restart forgets everything the models have outside the tables; the
table after it is an initial state of what follows. Two sockets of one Doctor are an
old and a new connection. With a cap of one, one active row and one candidate show an
overrun. Two loops of the dispatcher are the one that was stopped and the one that was
started. One run of one engine meets every order of its reports since runs share
nothing but the policies; two tokens are a current and a replaced one. Two versions are
one under review and one that follows; two agents and three members of teams meet both
branches of every list operation. Four items are two calls with their answers, five
lines a start, text, a tool call, an end and what comes too late. Four runs exceed the
three that `/trigger` looks at. The other bounds (`MaxJobs`, `MaxRuns`, `MaxCards`,
`MaxTasks`, `MaxRestarts`, `DAY`, `MaxVersion`, `MaxEdits`, `MaxReviews`, `MaxTokens`,
`MaxChanges`, `MaxRecords`, `MaxPost`, `MaxLetters`, `MaxLore`, `MaxBalance`, `MaxItems`,
`MaxLines`, `MaxTexts`) are guards of actions that insert something.
`CardsAreStarted` excuses a card only when the model has no rows left for it.

**Deadlock.** `dispatch_queue` checks it (the clock always ticks). The others really
stop: all sockets used and closed, all requests served, everything under its bound done.

**Fairness.** Weak fairness, and only of what the event loop and the process's own
loops do: a ready coroutine is resumed (`Welcome`, `SendNext`, `StartRun`, `Stopped`,
`FinishCancel`, `Dispatch`, `Settle`, `ReadEnd`, `InjectedByHand`), a dead peer is
noticed (`Finish`; uvicorn pings its sockets), an agent ends (`EndRun`; `wait_for` with
the run timeout ends it), a preview times out (`Dispatch`), the watchdogs (`RunTooLong`,
`Watchdog`, `Watch`), the drain and the hosted worker poll for ever, time passes
(`Tick`, `GrowLate`). Engines, Doctors, agents of the arena, users and administrators
promise nothing: `LeaseEnds` holds although no engine ever polls, `RoundsEnd` although
no agent ever answers.

**Mutants.** Each property of a passing run is shown to depend on the code: a mutant
(a definition marked `mutant` next to the one it changes) breaks it under the same
configuration. They are bugs one could make: a requeue that keeps its lease, a handler
that ends without its `finally`, a board whose cap is one off, a claim of a reserved
task, an approval without a snapshot, a fallback after text was sent, a loader that
keeps what it loaded, chunks that stay after an update, a resume that fails loudly.

## 4. What the runs found

1. *A running job goes back to the queue at once* (`dispatch_running_timeout`).
   `_requeue_stale` compares `datetime('now')` text with a bound in another format; on
   equal dates a blank sorts before `T`, so a job acked a second ago is taken back at
   the next lease call. The guide says one hour.
2. *A reconnecting Doctor goes offline* (`doctor_reconnect`): the old handler's
   `finally` removes the new connection's session and queue.
3. *A cancelled hosted run succeeds* (`hosted_cancelled`): a run the worker awaits has
   no task to cancel, and its outcome overwrites the row.
4. *Reading the board repeats a request* (`hosted_refresh`): a refresh between the
   insert of a run and its first step makes a card that the drain takes for a waiting
   request.
5. *One task is settled by two pipelines* (`arena_settled`): `in_task`, which
   `on_task_done` calls its idempotence check, is cleared only after the pipeline's
   awaits.

The models contain more behaviour of this kind, which has no run of its own. It is
listed so that a reader does not take a model for wrong where it follows the code; an
exception in a property (a history variable such as `redo`, `reopened`, `again`, `torn`,
`uncounted`, `byHand`) is always one of these.

*Dispatch and hosted runs.* A refused follow-up leaves its parent completed and
repetitions return early (`agent_dispatch.py:579`), also when `create_job` raises. A
follow-up of an HTTP or hosted completion is not offered to a connected Doctor
(`hosted_dispatch_worker.py:127`). A timed-out run may take its agent's outcome when that
had just ended: `OutcomeStands` excepts exactly the coroutines that are `ending`. A
dispatch job interrupted by a restart is both requeued and made a card. A card of a
deleted run stays `running` (`task_nodes.py:568`); cards without a payload drain under
the account `''` (`task_nodes.py:486`). `lease_job_wait` sleeps inside the event loop.

*Conversations.* A stream lists the first 500 events only, and events written while it
sends, if followed by the end of the run, are not sent before `done`; the stream of a
deleted run never ends. A run triggered while its conversation is being deleted is cut
off from it (`Continues` excepts it). `/trigger` starts a new conversation when the named
run is not among the account's 100 newest, though grouping and deletion look at 500.
`created_at` has seconds, so the latest run of a conversation may be ambiguous. Queued
trigger requests lose their session. The CLI backend stores its raw output as a session
id. History stops at the first predecessor that did not succeed.

*Arena tasks.* A process that exits without tool calls leaves its agent in a task it is
neither idle nor watched for (`callbacks.py:828`). `in_task` is set only after the drain
of the pipe, so a fast answer is dropped (`callbacks.py:1112`). `dispatch_inject` is
never called, so refused tasks are not returned or upgraded as the comments of
`task_dispatcher.py` say. A beaten acceptance counts as a refusal; three refused tasks
fill the board and stop the loop before its stuck detection for up to an hour.

*Arena society and records.* Nobody ever deserts (`belief_engine.py:142` reads an
attribute that does not exist). The last stand is not persisted, a balance of 0 comes
back as 100 (`persistence.py:141`), rescue counters do not come back, and the routes that
delete or assign teams do not save. Reorganisation exiles solo members. Elimination is
decided before the last words are generated and carried out after. A failed SQLite save
leaves an older state that the load prefers; when every agent left, SQLite has no rows
and an older JSON brings them back. Appending before the first read hides a journal an
older version left. Counts over the history take the line `assigned` for a completed or
failed task.

*Engines and policies.* A late progress event reopens an ended run
(`engine_ingest.py:366`). `_engine_from_row` drops the token's hash, so each registration
issues a new token (`engine_ingest.py:224`). `replace_policies` with a blank id ends half
done. A refused completion leaves violations for a run that may have no row.

*Task pool.* A release by a pre-reviewer approves the task; a late plan reopens a
completed one; a task set back to pending with a plan and an assignee is never claimed.

*Skills.* Approving a candidate of a skill that exists leaves it pending; approving an
approved version again publishes the workspace as it is now; a rejection makes an
approved skill a draft; an older version approved later lowers `current_version`.
Requirements are walked depth first (the docstring says breadth first), so beyond depth
10 a near requirement may be cut; replacing a skill leaves files of the old one.

*Gateway.* A stream whose first call fails or whose client leaves is recorded as allowed;
a plain request whose call cannot be built leaves no row; automatic chains are not cut to
`max_fallback_hops`; refused requests count in the burst window and concurrent ones are
not seen. An upstream error followed by a cut connection sends a second end of the
response; conversion drops a text beside tool calls that the stream keeps.

*Accounts and agents.* A subject whose account is disabled gets an unlinked account at
each login. Members of older agents become owners at every start; a template's sync
leaves the files of the profile as they were; `_agent_from_row` calls a function that
does not exist and swallows the error.

*MCP.* Deploying again resets a service's dimensions; approval without a pending version
deploys the development code under the old one; two paths may give one id; roles leave
their dimensions behind; the tools cache outlives a change of the endpoint.

*Knowledge.* Ids joined by `:` may collide between sources; ingesting into a space's own
source publishes a draft and takes it out of the space; cycles of folders vanish from the
tree; the fallback of the search returns drafts and ignores space and source type;
a crash leaves a log `running` and chunks of the old text.

## 5. Proofs

TLAPS proves the following for every number of engines, agents, teams, jobs, sockets,
runs, events, cards, accounts, keys, services, files, skills, requests, policies, tasks, workers
and every value of the timeouts and caps, from the assumptions named in the modules and in
the theorems: names are disjoint, bounds are natural numbers, the running timeout is
shorter than a day, the cap and the drain limit are not zero, there is room for a run, the jobs of `DoctorNodes`,
the policies and the skills are finitely many, the files of a deployment have a time, and
skills that are authored or required exist. Those the theorems about components need are
the assumption `ControlPlaneConstants` of `MCControlPlane`, which TLC evaluates.

| Theorem | States |
|---|---|
| `DispatchQueueProofs!TypeCorrect` | `Spec => []TypeOK` |
| `LeaseDiscipline` | `Spec => []LeaseMatchesStatus` |
| `OnlyTargetsHold` | `Spec => []HolderIsTarget` |
| `NoDoubleHandOut` | `Spec => []HandedOutOnce` |
| `NoTakeOver` | `Spec => HolderKeepsJob` |
| `QueueImplementsLedger` | `Spec => ImplementsLedger`: the queue refines `JobLedger` |
| `OutcomesStay` | `Spec => TerminalIsFinal` |
| `OneFollowUp` | `Spec => []FollowUpOnce` |
| `DoctorNodesProofs!TypeCorrect` | `Spec => []TypeOK` |
| `PushesHaveReaders` | `Spec => []PushHasReader` |
| `PushesAreSingle` | `Spec => []PushedOnce` |
| `HostedRunsProofs!TypeCorrect` | `Spec => []TypeOK` |
| `ExecutingIsRunning` | `Spec => []BodyIsRunning` |
| `OutcomesStand` | `Spec => OutcomeStands` |
| `OneCardPerRun` | `Spec => []CardPerRun` |
| `CapIsKept` | `Spec => []ActiveWithinCap` |
| `ArenaTasksProofs!TypeCorrect` | `Spec => []TypeOK` |
| `OneAgentPerTask` | `Spec => []OneExecutor` |
| `OneOutcomePerTask` | `Spec => []RecordedOnce` |
| `PendingIsWatched` | `Spec => []WatchedWhilePending` |
| `RegistryProofs!PoolTypes` | `PoolSpec => []PoolTypeOK` |
| `HermesIsAlone`, `ClaimsAreExclusive`, `ClaimsAreExclusiveAndAlone` | `PoolSpec => []HermesAlone`, `[]ClaimedOnce`, `[]ClaimsExclude` |
| `OutcomesWereReported` | `IngestSpec => []OutcomeWasReported` |
| `SeverestVerdictWins` | the fold over the policies blocks exactly what one of them forbids, in any order |
| `NothingForbiddenIsLogged` | `IngestSpec => []ForbiddenIsNotLogged` |
| `OneAccountEach` | `AccountsSpec => []OneAccountPerSub` |
| `AgentsKeysAreKnown` | `AgentsSpec => []KeyIsKnown` |
| `GatewayAnswersOnce` | `GatewaySpec => []OneAnswer` |
| `McpRunsProduction` | `McpSpec => []HandlerIsCurrent` |
| `MarketPublishesSubmitted` | `MarketSpec => []PublishedAsSubmitted` |
| `MarketDepsAcyclic` | `MarketSpec => []DepsAcyclic` |
| `DependenciesResolve` | `SkillsSpec => []ResolvesAll` |
| `ConversationsAreKept` | `TalkSpec => []ConversationsHold` |
| `KnowledgeProofs!KnowledgeIsCurrent` | `KnowledgeSpec => []KnowledgeAgrees` |
| `BridgeTellsOneResponse` | `BridgeSpec => []BridgeAgrees` |
| `ArenaProofs!OffersAreSingle` | `SupplySpec => []OfferedOnce` |
| `RecordsAreKept` | `RecordsSpec => []RecordsAgree` |
| `MembersAreInTheirTeam` | `SocietySpec => []MembersAgree` |
| `ControlPlaneProofs!PartsAreBehaviours` | `MCSpec` implies the specifications of the fourteen components |
| `IdentitiesAreKept`, `ArenaIsKept`, `DepsAreResolved` | `MCSpec => []IdentitiesHold`, `[]ArenaAgrees`, `[]DepsResolve` |
| `PartsAreSafe` | `MCSpec =>` the other invariants of those components |

**Dispatch.** None of the invariants is inductive alone. `IInv` says of each row
(`RowOK`) that its holder fits its status and is entitled by its targets, that only
rows in use have parents and follow-ups ask for nothing further, and of each executor
(`Held`) that what it has and the sweep never took back is leased to it, as it ended or
as it is now. `HandedOutOnce` follows since a row has one holder. Lemmas about the row operators
(`LeasedOK`, `RequeuedOK`, `FinishedOK`, ...) and about the sweep are proved once; each
action is then a lemma of its own. `NoTakeOver` needs no more: every step that gives a job
away reads it as queued from the swept table, and a row is queued there only if nobody had
it or the sweep took it (`SweptKept`).

**Refinement.** `LedgerMove(t, u)` says how two tables may differ in the ledger's eyes:
not at all (leases, acks, requeues, sweeps, pushes), by a new entry, by one closed
entry, by a closed entry with its follow-up, or by failed ones. One lemma per action
shows its move, another that sweeps and offers compose with moves, and `MoveIsStep`
that a move is a step of the ledger. `OutcomesStay` follows from the ledger's steps;
`OneFollowUp` needs in addition `FInv`: rows are filled in order, and a follow-up's
parent is completed and its only one.

**Hosted runs.** `RowInv` relates the coroutine and its row: created means queued, in its
body means running, ending means running, failed by the watchdog, or deleted. It is
`BodyIsRunning` made inductive. For `OneCardPerRun`, cards refer to rows that exist
(`CardsHaveRuns`), so that a new row has no card yet. `CapIsKept` counts: rows become active
only where they are inserted, by a trigger or a claim below the cap (`CapInserted`), or by
the drain, which takes of each account at most as many cards as it has places (`DrainFits`);
every other step only takes rows out of the count (`NoneAdded`).

**Doctors.** A registered queue has a handler of its engine that runs (`PInv`), and only
handlers that run have messages, each one for an engine its job names (`QueuesOK`). Of a job
the sweep never took back, `JobOK` says that it is in one place of one queue or with one
Doctor, and that it is leased or was: so a lease, which needs a queued job, finds nothing in
sight and may push (`PushesEnter`). A message that is sent moves from a queue to a Doctor
(`PushArrives`), every other step only takes messages away (`PushesStay`), and `OnePlace`
turns the statement about places into the count of `PushedOnce`.

**Arena tasks.** `Tokens` follows each task like a token: it is held by one dispatcher
round or one request by hand and nobody has it (`Free`); or it was given and is pending with
one agent; or it is in one pipeline; or it is recorded. The four ways a task ends race for
the one place where it is pending, which each of them empties before its first await, so a
second one finds no task and records nothing, though it may start a pipeline (finding 5).
The lemmas `TaskMade`, `TaskGiven`, `PipeStarts`, `PipeEnds` and `ExitRecords` are the moves
of the token, `Fewer` and `TokensStay` say that any other step only takes tasks out of
places. Neither property is inductive without this, since a new task or a second loop could
otherwise name a task that is pending somewhere. The types say in addition that a round has
a task and a request by hand an agent. `WatchedWhilePending` is inductive with the types.

**Task pool.** `HermesAlone` is inductive with the types: the only step that adds an
execution of Hermes is a claim, which the mutex refuses if there is another, and the
sweep before it only removes. For `ClaimedOnce` the invariant ties what a worker has in
hand to its row: a task in hand that was never given out again is still in the state and
with the assignee of the claim, so no second claim finds it.

**Engines and policies.** `OutcomeWasReported` is strengthened by what the messages say:
a report of an end in `net` is that of an engine that ended its run that way, and an
engine that ended stays so. `NothingForbiddenIsLogged` needs what the fold over the
policies computes: `SeverestVerdictWins` follows the sequence of its partial results from
policy to policy (`MergeAction` only makes a verdict more severe) and is an induction on
a set of numbers, the least one outside of which would have a smaller one before it. The
invariant says in addition that a logged step was checked when it was reported.

**Accounts and agents.** A step that gives an account a subject first sees that the
subject has none; the two databases of a key are written in the order in which a stop
between them leaves a key nobody presents.

**Gateway.** `Told` relates a request to what its client heard: nothing before a stream
has text, and text of the last attempt only; a chain goes on only when no line went out.

**MCP.** A file's time stands for its code: `FilesOK` says that equal times in production
mean equal code, for what agents deploy (times of their own) and what comes from the shop
(times of its versions, kept apart), so a handler in the cache whose time is the file's has
its code. Approvals, redeployments and restarts keep this or empty the cache.

**Skills.** `PublishedAsSubmitted` is inductive once it also says that a snapshot is of
what was submitted. For `DepsAcyclic`, the closure that the circularity test computes in
as many rounds as there are skills is the least closed set (`ClosureIsLeast`): each
round adds a skill or none is left to add. A hierarchy is then the same as a closed set
for each skill that does not have it (`Separated`), which submissions, reviews and
uploads keep. `DependenciesResolve` is about the recursive walk of an agent's skills.
`Height` bounds the calls that are left and every call lowers it (`CallsAreLower`), so by
induction on it functions that are right up to a height exist and agree (`RightOneExists`,
`RightOnesAgree`) and the walk is what its definition says (`ResolveCalls`). `CallFinds`
then says of one call that it finds each skill once and, beside what it was given, only
skills with all that they require; it uses that the depth that is left and what was found
are together at least the number of skills, so the walk is cut short only when there
is nothing left to find.

**Conversations.** The three properties meet in the rows of the runs only, so `TalkInv` has a
part for each. *One reply:* `Answers` ties a run's query to its events: texts are shown at
once or held back, never both, what is held back was emitted and is not shown, and a
resumption that fails takes what it said with it; `IsShown` says that what a stream has
sent and what it has listed are the next events, one after the other; that stays so
while a log only goes on (`ShownFurther`), and clearing one finds no text to take out. *Told once:* `MindsOK` adds to `ToldOnce` that no session has the round of
a run that waits or is still resuming one (`Unheard`), so neither the session resumed nor a
new one has the round that is sent next; the history of a run is an ascending line of ended
runs (`PastOK`, `HistoryIsOK`). *One conversation:* `Continuing` adds what a deletion under way takes:
all that answers what it takes, except runs created meanwhile, which nobody asked of a
conversation. That rests on laws of lines: `Line` is a recursive function of the rows, so
that it exists and what it computes is proved first, by induction on the run (`LineExists`,
`LineIs`), then that a beginning answers nothing that is listed, is the same in other rows
with the same runs up to there (`SameBeginning`), and that among fewer runs a line begins
further up (`BeginFurther`). A step of one run is shown to be a `RunMoves`, and one lemma
per part says that such a step keeps it.

**Knowledge.** `ShelvesInv` makes `IndexIsCurrent` inductive. A document's id is that of its
address (`Addressed`), a space has the source that is native to it (`SpacesAreNative`), and a
document in a space is of that source even after the space has gone, for it may come again
(`Housed`). A source that is neither in the library nor uncounted has no documents and no
space, so one that is created may begin with a count of none (`CountsAgree`). A push of many
documents is a fold: it keeps these from whatever tables it starts, and what it changes is of
the addresses pushed (`SavedFrom`). For `ChunksCover` the functions that cut a text are folds
too, so their laws come first: flattening distributes over concatenation, the total of a
concatenation is the sum, the runs of a text put together are the text, stripping takes only
blank lines, what is packed is within the limit or a single paragraph. From these `SplitIs`
says of the chunks of any text, in any size, what the invariant asks for.

**Responses bridge.** The messages of a request become one block each: the message with the
answers to its calls behind it, or nothing for an answer that moved. `Placed` says what the
first `m` of them have become: an answer whose call somebody makes stands behind such a
message with answers only between, is there once, and the first message that makes its call
is among the first `m`. A next block keeps this (`PlainPlaced`, `AnswerPlaced`), since a call has one first
maker and one last answer; `ReorderIs` is the induction over the blocks. For streams
`StreamInv` says what the client has while an upstream is read: events of that attempt's
response only, and none before its first line. Until the translator is finished they are
`Underway`: the items that are open, none closed, and a text that is the translator's;
afterwards they are `Concluded`. `CallsAreTold` and `FinishIs` follow the closing events one
by one; `CompletedEnds` and `FailureEnds` are the two ends. An attempt without a line has
told the client nothing, so the next may begin a response of its own.

**Arena: society.** An agent says which team it is in, and the teams say who is in them.
`SocietyInv` has three parts: nobody alive stands in two lists or twice in one
(`Arranged`, which also has that ids and numbers of agents are used once), what an agent
says is what the lists say (`AllPoint`), and the saved state is `Arranged` too, though its
agents need not say what its lists say: they are saved at another time than they
change, and the restart writes their teams back from the lists. Who died stays listed, since
nobody takes it out, so both are about those who live; numbers are never given twice. A
reorganization is followed list by list: who stays (`KeptWell`), who joins (`JoinedWell`),
who is dealt a new team (`DealtWell`), and what is written back (`EnrolledWell`). Dealing
is round robin, so `DealtApart` is that two rounds never meet at one place; a list without
some members is what stands at the other places (`AtPlacesAre`, `LessOf`), which the
recursive selection of the library does not let one say.

**Arena: records.** `StoreInv`: each copy of the state is a state the arena was in, and both
the tables, if they have rows, and the file that is loaded without them are not older
than the last state of which both were written, wherever a write failed. `BooksInv`: a
journal is what an older version left followed by what was written, or, of tasks, what was
written alone, and nothing is lost before it was looked for (`BookKept`). `StatusInv` ties
what happened to a task to the last line about it; that the list shows that line, the
first from behind that is about the task, is `RowIsLast`. `PostInv` is about types only:
that the letters that wait are those nobody answered follows from how the file is read
(`PendingIsOwed`, `OwedIsPending`, `TargetWroteLast`).

**Arena: task supply.** `OfferedOnce` is inductive with the types of the pool and the board: what
is left of an answer is new to both as they are when it is filtered (`FilteredIsNovel`), and
one refill puts each of it there once (`RefillOffersOnce`); every other step takes away.

**Control plane.** Each part of `MCControlPlane` restricts the next-state relation of a
component and leaves the variables of the others alone, so a behaviour of it is one of
each component (`PartsAreBehaviours`), and the theorems about these apply to what TLC runs.

**Only model-checked.** Liveness (`LeaseEnds`, `NoGhosts`, `PushMovesOn`,
`PlacesAreFreed`, `CardsAreStarted`, `RoundsEnd`, `LateIsEnded`) is beyond the prover, as
is `ENABLED`. So are, for now, the types of the control plane other than the task pool's
(`TypesOK`); what the invariants above need of them is part of them. The library's
induction theorems cannot be used here; the inductions above are on sets of numbers, by
their least element.

## 6. Not modelled

- Within modelled parts: what a run computes, its prompt, context files, attachments and
  artifacts; cards of dispatch jobs (they only mirror the job); presence and inventory
  columns; broadcasts; errors of SQLite itself, except where named; a cap or a timeout of
  0, which switch the check off; the order in which the drain visits cards of one second
  (left open). Time inside one handler: `lease_job_wait` sleeps in the event loop for up
  to 60 s, which delays everything but reorders nothing.
- Arena: the judge's score, the texts of creed, chronicle and letters, `replay.py` and
  `snapshot.py` (they write copies that nobody reads back), memory accounting of
  processes, the fan-out of events to consoles.
- Gateway: prices, wire formats, headers. Accounts: the exchange with the identity
  provider, which either yields a subject or nothing. Skills: downloads, archives,
  signatures, usage statistics. MCP: the protocol with an external server, the text of
  generated code. Knowledge: adapters of external services and the ranking of hits.
  Workspaces: files that only people write.
- Databases and configuration: settings and connection records; those that matter are
  CONSTANTS. Connectors and setup scripts run on employees' machines; the engines and
  Doctors of the modules stand for any client. The console keeps no authoritative state.
- Composition: the parts of `control_plane` run side by side but do not interact;
  `DoctorNodes` and `DispatchQueue` both model a Doctor's connection, from two sides, and
  are not composed.

## 7. Plan

What would come next, in this order:

1. The types of the components of the control plane (`TypesOK`) as theorems.
2. A composition of `DoctorNodes` with `DispatchQueue` (`doctors` refined by `sessions`),
   and of `Conversations` with `HostedRuns` (`Fail` refined by cancel, timeout, restart).
3. `ArenaTasks` with `ArenaSociety`: the pipeline of a finished task over both.
4. Workspaces of hosted agents: sharing and uploads while a run writes.
