# A verification of the memory pipeline

TLA+ models of the part of TencentDB Agent Memory that decides *when* and *by whom* memories and skills
are extracted, and that keeps what has been extracted: the in-process scheduler of a single-user
installation; the stateful scheduler, timers, competing workers, permit pool, task queue and locks of the
service; the checkpoint both write; the queue of conversations from which skills are extracted; and, in the
knowledge service, the builds of a wiki beside uploads, edits and its deletion. TLC checks
every model on small instances; TLAPS proves every invariant of the passing runs, most of their action
properties and the refinement of the queue contract for every value of the constants, a few of them under a
hypothesis that section 4 names.

All paths below are relative to `src/MemoryCore/src/` unless they start with `src/`; those of section
*WikiBuilds* and of the remarks on wikis are relative to `src/MemoryKnowledge/src/`.

## 1. Inventory

The repository holds four programs, their clients and their deployment.

| component | state it keeps | operations and partners | what is hard | correct means |
|---|---|---|---|---|
| permit pool `services/worker-permit-pool.ts` | permits in use, FIFO of waiting promises | `acquire`, `release`, `destroy`, called by the worker | hand-over against decrement, destroy with waiters | no permit leaks, nobody overtakes or waits for ever |
| queue contract `core/state/types.ts` | queued and pending messages, their owner and idle time | `enqueueTask`, `consumeTask`, `refreshTaskClaim`, `ackTaskIfOwned`, `replacePendingTask`, `claimStaleTasks` | late calls of former owners, takeover by idle time | a message is owned exactly while pending; settled is final |
| in-process backend `core/state/local-backend.ts` | priority queue, pending map, consume waiters, TTL locks; also pipeline state and timers | implements the contract for one process | lost wake-up, order of equal tasks, expired and unswept locks | it does what the contract allows |
| pipeline worker `services/pipeline-worker.ts` | parked tasks per scope, reservations, permits; claims and locks in the backend | consume loops, recovery timer, parked retry timer, heartbeats, `stop` | crash between any two calls, failing calls, stalls, shutdown | no task is lost, one execution per lock scope, nothing leaks |
| pipeline manager `utils/pipeline-manager.ts` (+ `serial-queue.ts`, `managed-timer.ts`) | per-session counters and buffers, two timers per key, three serial queues, L3 flag | `notifyConversation`, `flushSession`, `destroy`, `start`, timers | callbacks after awaits, timers replaced by other levels, collector, shutdown timeout | what was captured is extracted; L2 and L3 follow |
| runners `utils/pipeline-factory.ts` | L1 cursor, L1 records, scenes | called by manager and workers | batches, backlog | cursor and flags agree with what was read |
| stateful manager, timer scanner `utils/stateful-pipeline-manager.ts`, `services/timer-scanner.ts` | session state and timers in the backend | `captureAtomic`, claim of timers, `enqueueTask`; executors and cascades of the workers write the same state | read before and used after an atomic call, crash between claim and enqueue, timers that know the session only by name | counted rounds keep a trigger; stored memories get an L2 run, written scenes an L3 run |
| checkpoint `utils/checkpoint.ts` | the checkpoint file, the queue of calls for its path | read-modify-write under the lock of the path and a lock of the backend; called by capture, the L1 runner and the scheduler | lost or unrenewed lock, snapshots read without a lock, overlapping captures | an update overwrites nobody's; cursors never go back; a message is captured once |
| skill queue `core/skill/conversation-add/` | per session: buffer and counters; per agent: list of tasks, dead letters; in Redis: list and set of agents, mutex, extract lock | add handler, trigger service, worker pool, extract worker, healing scan | pairs of commands that are not atomic, whole-file rewrites, death of a node, lock lifetimes, what Redis is capable of | no confirmed message and no registered task is lost; one loop extracts for an agent; every task ends |
| skill core, quota, stores, storage | versions, counters, pools, files | CRUD of the gateway | concurrent edits, eviction | - |
| metadata, gateway, offload | SQL rows, HTTP | REST handlers | access rules | - |
| knowledge service: wikis `src/MemoryKnowledge/src/store/wiki-service.ts`, `engines/wiki/` | per wiki: a row with a status, a directory with raw files, pages and `index.db` with its source table; in the process: a serial queue, the set of cancelled builds | `create`, `ingest`, `delete`, `rawWrite`, `rawRm`, `pageWrite`, `pageRm`; the build extracts, merges and commits; restart sweep | builds last minutes and go on after a deletion; merges write what they read long before; swallowed failures of the source table; status in the database, queue in the process | nothing stays busy for ever, a deleted wiki leaves nothing, the table, the files and the pages agree, pages of a user are kept |
| knowledge service: code graphs, synchronisation, MCP | code indices, repositories | REST and MCP | fetch against build | - |
| MemoryProxy | sessions, injected memory, rate limit | translating proxy | streaming, session start | - |
| MemoryPanel, plugins, SDKs, deployment | - | UI and clients | - | - |

How the modelled parts interact. A client turn reaches `TdaiCore`. In the single-process mode the
*pipeline manager* counts it and runs L1 (extract), L2 (scenes) and L3 (persona) on its own serial
queues. In the service mode the *stateful manager* keeps counts and timers in the state backend; captures and
expired timers put L1, L2, L3 and flush tasks into the queue, and *pipeline workers* of several processes
consume them (beside offload tasks): a worker
reserves parked capacity, consumes, takes a permit of the shared pool, refreshes the claim, takes the lock
of the task's scope, executes under a renew timer, enqueues the follow-up, acknowledges. A task whose lock
is busy is parked in the worker, its claim kept alive, and retried by a timer. A recovery timer claims
pending messages whose owner has been silent. The only backend in the repository is the in-process one;
a Redis one is external and known only through the interface, hence the separate contract module.
The runners of both modes read and save their L1 cursor in the *checkpoint*; in the service mode several
processes share one file. Skill extraction is a pipeline of its own: the gateway's *add handler* buffers
messages of a session and archives them as a task of the agent, and loops of a *worker pool* on every node
take agents from a shared list.

## 2. Modules

| module | models | notes |
|---|---|---|
| `WorkerPermitPool` | the permit pool | clients stand for promises |
| `TaskQueue` | the queue half of `IStateBackend` | the abstract specification |
| `LocalStateBackend` | queue and locks of the in-process backend | refines `TaskQueue` (property `ImplementsTaskQueue`) |
| `Subsequences` | `Array.filter` | used by `LocalStateBackend` and `SkillConversation` |
| `PipelineWorker` | any number of worker processes over `TaskQueue` and a lock table | EXTENDS `TaskQueue`, so each step is a queue step by construction of its calls, and is proved to be one (`WorkersUseTheQueue`) |
| `MemoryPipelineManager` | the in-process scheduler | |
| `StatefulPipeline` | the stateful scheduler with its timers, executors and cascades | composes what the manager, the scanner, the backend's session state and the workers do to one session; claims and locks are left to `PipelineWorker` |
| `CheckpointManager` | the checkpoint and its three kinds of updates | |
| `SkillConversation` | handlers, agent queue, worker loops and healing scan of skill extraction | |
| `WikiBuilds` | one wiki of the knowledge service | independent of the others |
| `WorkerPermitPoolProofs`, `LocalStateBackendProofs`, `PipelineWorkerProofs`, `MemoryPipelineManagerProofs`, `StatefulPipelineProofs`, `CheckpointManagerProofs`, `SkillConversationProofs`, `WikiBuildsProofs` | theorems | each extends the module it is about; `PipelineWorkerProofs` has those about `TaskQueue` too, `LocalStateBackendProofs` those about `Subsequences` |
| `MC...` | values of function constants for TLC | one for each module that needs them |

Definitions that `PROJECT.json` lists as mutants are plausible mistakes of the code; replacing the
definition that follows by one of them makes TLC refute the property they are paired with. They are used by no specification.

### WorkerPermitPool

`Acquire` takes a permit, queues the caller or rejects it after `destroy`; `Release` hands over to the
first waiter or decrements; `Destroy` rejects all waiters; `Observe` is the caller seeing the rejection.
Every method body is synchronous, so a call is an action. The throw on an unbalanced release is outside
of the model: clients release what they hold.

### TaskQueue and LocalStateBackend

A message is unsent, queued, pending or settled. `fresh` says which pending messages were refreshed less
than the idle time ago: all that a worker can observe of time. `Age` is `refreshTaskClaim` with an idle
time (a claim given up on purpose), `Expire` the passing of time. `Claim` hands any set of stale messages
to one worker.

`LocalStateBackend` has the clock, the sorted insertion, the waiting consumers with their time-outs, the
order of the pending map, locks with an expiry time and the sweep. Each method runs without an await, so a
call is one action; only a consumer that waits spans several. `PurgeInstance` and `Destroy` settle and
reject. Session state, capture and timers of the same class are part of `StatefulPipeline`.

### PipelineWorker

Per worker: a coroutine per consume loop, per recovered message and per lock scope whose parked queue is
retried. `pc` names the await each is at, `cur` its message. An action is the code from one await to the
next backend call with its answer, in the order of `processTask`. `Faults` lets any backend call fail,
`Stalls` lets the event loop miss heartbeats and renewals, `MaxCrashes` and `MaxStops` bound process
deaths and `stop()` calls. The lock table stores the owner as the code does (the worker's name), and,
beside it, the coroutine a lock was taken for, which only the properties and the timing assumption read.

Timing assumptions, all of them about what the configuration guarantees when nothing stalls: a claim or
lock that a running heartbeat keeps does not expire (`Kept`, `LockKept`); a claim outlives the lock taken
for the same message (`ClaimExpires`: `pendingStaleMs` is at least the lock time plus two renew intervals);
an execution that ignores its abort signal may outlive the lock.

Abstracted: what the executors do; metrics; the one-second pause after an error in a loop; the recovery
reserves ten places and gives the unused ones back in one step; a `consumeTask` answer lost on the wire
leaves the message pending, which a crash of the consumer covers; what `cascadeSchedule` and the dead
letter write to session state and timers is in `StatefulPipeline`.
`onDeadLetter` may fail in the model; no caller in the repository passes one today. `_deferredEnqueue` is
read by the code and set nowhere, so it is left out.

### MemoryPipelineManager

Variables follow the fields of the class; `rows` and `cursor` are the L0 rows of a session and how many of
them L1 has extracted, `records` what L2 can find for a key, `ckpt` the persisted states. An action is the
code between two awaits: `Notify` and `NotifyEnd` are the halves of `notifyConversation` around its
persist; `L1Reads`, `L1Returns`/`L1Fails`, `L1Ends` are the steps of a running L1 task; likewise for L2.
The head of a queue is the running task. Timers are abstract: one that is set may fire. `sched` tells the
delay timer from the periodic one, because the code treats them differently when they fire. `DayPasses`
lets one active window pass while nothing shorter is due. `Destroy`, `FlushL2`, `DestroyEnds` are the
phases of `destroy()`, whose time-out may strike in any of them; `FiresDestroyed` is a timer that fires
after that and is ignored; `Start` is the next process.

Abstracted: a flush enqueues the keys in any order (the code takes that of its maps); the L0 row of a
conversation is recorded in the step of `Notify`; several rows of one
millisecond at a batch boundary are not distinguished; the collector, which runs on every fiftieth
notification below the threshold, may or may not run after each; a missing runner and the session filter
are left out; the caller of `flushSession` waits for nothing the model needs; work still running when
`destroy()` times out ends with the process. L2 timers are longer than a write of the checkpoint file. A
process that dies without `destroy()` is not modelled. The gateway replaces this class by the stateful
manager when it has a shared backend.

### StatefulPipeline

One action per stretch between two awaits: `NotifyReads`, `Captures`, `AdvancesWarmup` are the three of
`notifyConversation`; `EndsSession` and `FlushEnqueues` those of `flushSession`; `ScanClaims` and
`ScanEnqueues` the scanner's; `StartsL1`, `L1Reads`, `L1Extracts`, `Zeroes`, `ArmsL2` an L1 task from its
executor to the end of its cascade; `StartsL2` to `ArmsMax` an L2 task; `StartsL3`, `EndsL3` an L3 task.
`mode` is the deployment: what differs between them (the instance of warm-up and flush, the team and agent
in the name of a timer, who turns an expired timer into a task) is decided by it.

A key is a session with the scope a task or timer is about: the session of its agent, the profile L1 has
stored memories for, or the session without team and agent, which is what the name of the timer that
`armL2MaxInterval` sets is parsed to. L2 and L3 tasks run one at a time under the lock of their scope, L1
tasks one at a time for a session. `records` counts stored batches, `l2at` is an L2 cursor in the same unit.
`lost` remembers which timers were given up by a failed scan, a dead letter, a failed flush or an empty
extraction; the properties exempt these and nothing else, until the next capture or L1 run arms them again.

Kept as the code has them: the cursor of L2 is stamped with the time of the cascade, so that memories that
L1 stored after the query are behind it; a run that the quota refuses is stamped too; a fruitless
extraction is not repeated; in the shared deployment warm-up is written to the instance `__unset__` and
flushes without an instance are refused. Abstracted: priorities, the offload timers, several sessions of a
profile, failures of the two calls after an L1 run that only log (`gateway/server.ts:2952-2958`).

### CheckpointManager

A call is a coroutine that uses the checkpoint: an L1 run (`StartsL1` reads its cursor without a lock, then
the run, then `markL1ExtractionComplete`), a capture, or a save of scheduler states. `line` is the chain of
promises of `withFileLock`, `lock` the lock of the backend; `Acquires`, `Reads`, `Records`, `Writes`, `Ends`
are the steps of `mutate` inside both. `RenewFails` is a renewal that is rejected or throws, `Expires` the end
of the lock's lifetime; `Stalls` lets that happen before the renewal timer has noticed. `Dies` empties the
line of a process and leaves its lock to expire. `ReadErrors` lets `readRaw` answer an unreadable file with
an empty checkpoint, as its handler does.

Abstracted: `captureAtomically`, `markL1ExtractionComplete` and `mergePipelineStates` stand for all methods
that go through `mutate`; the waiting time and back-off of the acquire loop; the parsing and migration of
older files. Calls that pass no lock options in the service (`core/hooks/auto-capture.ts:96`,
`core/scene/scene-extractor.ts:165`, `core/persona/persona-generator.ts:84`, `utils/pipeline-factory.ts:1043`,
`core/tdai-core.ts:1200`, and `createL2Runner` as `runL2WithStore` builds it, although
`utils/pipeline-factory.ts:716` asks for them) are captures and saves of the standalone deployment only.

### SkillConversation

`hand` is the call of the add handler for a session (calls of one session do not overlap), `work` the call of
`consumeAgent` in the worker loop of a node, `node` the pool: `probed` whether a peek has found out what Redis is capable
of, `periodic` whether the regular scan is on. Each Redis command and each write of a storage file is an
action. The mutex of the tasks and the extract lock have holders that expire (`MutexExpires`,
`LeaseExpires`) when a node died, and the extract lock also under a late renewal. `Poison` archives fail for
good, every other failure is transient. The mode is the Redis at hand: atomic peeks (LMOVE or a script) or
plain pops.

Abstracted: the content of messages and the two counters behind the threshold; compression of large
requests; the pause after a failure; the suppression of an agent in one loop; the section of the tasks mutex
is shorter than its lifetime of ten seconds; several tasks per round; members of older formats; the queue
without Redis (`LocalSkillAgentTaskQueue`) and the purge of an instance. `Unhealed` lets the LPUSH of
`enqueueAgent` fail after its SADD and the scan of a start fail.

### WikiBuilds

`row` is the status in the database (`"none"` before the creation, `"gone"` after the deletion), `queue` and
`cancelled` what the process remembers, `dir`, `disk`, `sources`, `pages` what the directory holds. `phase` is
where the running build is, `job` what it remembers: the table as it was when it started, the contents it
took, the files it found missing, the sources that did well, the page it is merging. A build is `Starts`
(`runBuild` to its first await, from `Ingest` or from the queue), `Scans` (`classifySources`), `Extracts` (all
model calls have ended; missing sources are removed with their pages), `MergeReads` and `MergeWrites`,
`MergeSkips` or `MergeFails` for each page, `Commits` (one transaction, then the status), or `BuildThrows` in
any of these phases; then `HookEnds` and `Drains`. Uploads and edits of pages are synchronous, hence one action
each (`RawWrite`, `PageWrite`); removals check the status and then import the cascade, so that a build may start
in between (`RmStarts`, `RawRmEnds`, `PageRmEnds`). `Delete` is synchronous and needs no build to stop; the
build notices at its end (`Deleted`) and cleans up (`FinishCancelled`). `Dies` and `DeleteDies` lose what the
process knew; `Swept` is the sweep of the next start.

A version is the contents of a file and its hash. `gaps` remembers the files whose row in the table is wrong
since a swallowed failure of `index.db`, or which were removed under a build that had taken them, and `orphan`
that the process died with the directory of a deleted wiki on disk: the properties exempt these and nothing else.

Abstracted: a page has one source (those shared by several are rewritten instead of removed), and files in
different folders have different names; batches and their rollback; a removal or cleanup step that fails (each is
logged and the next goes on); what the model writes; the full-text index and the index page, which are made anew
from the pages; `index.db` of a wiki is there once it was created; the number of builds that run in the whole process.

## 3. Runs

Passing runs.

| run | instance | shows |
|---|---|---|
| `permit_pool` | 4 clients, 2 permits | `PermitsConserved`, `NoOvertaking`, and under weak fairness of `Release` `WaitingIsAnswered` |
| `backend` | 2 workers, 2 priorities, 2 instances, 2 messages with a retry, a waiting consumer, a lock | no consumer waits beside a queued message, delivery order, every call refines the contract, a lock changes hands only when expired or released |
| `worker_crash` | 2 workers, a task with a scope, its retry and its lock-free follow-up, failing calls, 1 crash | `NoTaskLost`, `FollowUpNeverLost`, `OneBelieverPerScope`, `OneWorkerPerMessage` (claims alone keep two workers apart), and the contract's `ClaimsMatchPending`, `SettledStaysSettled` under the calls the workers make |
| `worker_limits` | 1 worker, 2 permits, capacity 2, stalls, a stop | `ParkedBounded`, `CapacityExact`, `PermitsReturned`, `StopLetsGo`, `StopGivesClaimsUp` |
| `worker_live` | 2 workers, 1 task with a retry, 1 crash, fair | `EveryTaskSettled`: the survivor recovers the message, parks it while the dead owner's lock lasts, and finishes it |
| `scheduler` | 1 session and its profile, 2 conversations, 1 retry, failures, collector, shutdown, restart | `QueuedOnce`, `FailedRunRetried`, `PendingL2Armed`, `L3SeesEveryL2` |
| `stateful` | 1 session with its profile in both deployments, 2 rounds, warm-up, threshold 2, one failure, refusal or end of session | `CountedRoundsHaveTrigger`, `MemoriesHaveL2`, `ScenesHaveL3` |
| `checkpoint` | 2 calls, 1 process or 2, 1 session, 2 messages, 2 L1 runs, 2 faults, late renewals, fair | `AtomicUpdates`, `CursorNeverBack`, `CapturedOnce`, `EveryCallEnds` |
| `skill` | 2 nodes, 1 session, 2 messages, 2 archives of which one is rejected, 1 fault, both kinds of Redis, fair | `NoTaskLost`, `MessagesKept`, `OneExtractor`, `EveryTaskEnds` |
| `wiki` | 1 wiki, 2 files of which one is never scanned, 2 versions, 2 builds, 5 uploads, edits or removals, 1 death, fair | `BusyHasBuild`, `DeletedLeavesNothing`, `PagesFollowSources`, `UserEditsKept`, `EveryBuildEnds` |

Why the bounds suffice: each hazard needs two actors at most (owner and taker, loop and recovery, task and
timer, two writers of one file), one crash or failure window, and one limit that the instance can fill. Two tasks of one scope make
contention; a retry is a third message, or a second one of the same task; capacity two is the smallest
that two sides can share; a threshold of two is reached from below and, in warm-up, at once; an
age of two is what the collector asks for; two rounds with a batch of one make a full page and a tail; two messages of
a session make an overlapping capture and a cursor that can go back; a node that reaches no request and one
that does are two loops on one agent; two versions and
two builds make a source that is skipped, changed, failed, removed and uploaded again. `OneBelieverPerScope` holds in `worker_crash` because each worker has one permit
there: between workers the owner name tells them apart. With two permits it fails, see below.

Runs that end in a violation show a disagreement of the code with its own comments, each quoted in `PROJECT.json`:

| run | property | what happens |
|---|---|---|
| `stateful_writers` | `OneSceneWriter` | with a shared backend the timer of the longest interval carries no team and agent: its L2 task takes another lock and writes the scenes of the agent beside another run |
| `skill_downgrade` | `EveryPoppedTaskEnds` | the pool decides at its start, before the first peek, that the queue is not downgraded: the regular scan never runs, and an agent popped by a call that fails is not brought back |

The models show more that no listed property forbids; the constants named here let a reader see it.

- Worker: with two permits coroutines of one worker share an owner name, and one whose lock expired releases
  the lock of its sibling (`services/pipeline-worker.ts:707`), against `:1081-1082`; `acquireLock` is called
  outside of the try block that returns the permit (`:567`, against `:422-423`; seen with `Faults` and
  `PermitsReturned`); the idle loops may hold the whole parked capacity when `maxParkedTasks` is not larger than
  `concurrency`, and the recovery (`:1264`) then claims nothing; a message that waits for a permit (`:426`) has
  no heartbeat, and the recovery of the same worker may claim it (`:1271`).
- In-process scheduler: a conversation during an L1 run leaves no timer and no queued run
  (`utils/pipeline-manager.ts:635`, against `:47-49`); the request for the next batch is made while the own flag
  is set (`:781`, against `:770`); the end of an L2 run replaces the timer that L1 armed meanwhile by the
  periodic one (`:843`, against `:35-36`); a profile counts as inactive one window after its state was created (`:871`,
  `:1053`); L1 work flushed by `destroy()` arms no L2 timer (`:805`); after a shutdown cut short, `start()` arms
  L2 only (`:1157`); a state evicted and made anew (`:1046`) overwrites the L2 cursor in the checkpoint.
- Stateful scheduler: a drain timer set after an L1 run is skipped when it fires, because the cascade has set
  the count to zero (`utils/stateful-pipeline-manager.ts:388-395`, `gateway/server.ts:2899-2905`): the tail waits
  for the next capture.
- Checkpoint: an unreadable file is taken for an empty one and written back (`utils/checkpoint.ts:334-335`,
  against `:651`; set `ReadErrors`); a call whose lock was lost throws that nothing was written, after it was
  (`:457-464`, against `:229-234`).
- Skill queue: when the LPUSH of `enqueueAgent` fails after the SADD, the agent stays out of the list although
  peeks are atomic, until a node starts (`core/skill/conversation-add/agent-task-queue.ts:534-536`; set
  `Unhealed`); a dead letter that cannot be appended is only logged (`extract-worker.ts:635-641`; `dropped`).
- Wikis: a source that was uploaded and registered but is neither `.md` nor `.txt` is in no scan
  (`engines/wiki/manager.ts:788`), so the next build takes it for one that has disappeared and deletes it from
  the disk and the table (`engines/wiki/index-db.ts:308,315`; `Readable` smaller than `Files`). An upload that could
  not be registered is left to "later ingest" (`store/wiki-service.ts:877-878`), which keeps the old hash
  (`index-db.ts:276-278`): when the old contents come back they count as ingested while the page is of the contents
  between; nor does the route let a wiki ingest whose table is empty (`routes/wiki.ts:81-85`). A removal that overlaps a build,
  or whose row could not be deleted (`wiki-service.ts:620-633`), leaves an ingested row without page or file: the
  same contents uploaded again are never ingested (all three: drop `gaps` from `PagesFollowSources`). A process that
  dies between a deletion and the end of the build it aborted leaves the directory for ever (`orphan`).

Deadlock is not checked where `CHECK_DEADLOCK FALSE` stands: all bounded work may be done, or every
process dead or stopped, and then nothing is left to do.

Fairness. Safety needs none. `WorkerPermitPool` assumes that holders release (the `finally` block).
`FairSpec` of `PipelineWorker` assumes that the runtime resumes every settled promise and fires every due
timer (weak fairness per coroutine step), that an execution ends because model calls have time limits,
that time expires what nobody refreshes, and that persisting a dead letter does not fail for ever (strong
fairness of that one step). It does not assume that a lock is ever granted to a given worker.
`CheckpointManager` assumes that a coroutine goes on, which includes giving up on the lock at the deadline; it
does not assume that the lock is granted or that locks expire. `SkillConversation` assumes that handlers, worker
loops and healing scans go on, that a gateway that died is started again, and that locks of the dead expire;
nothing is assumed of errors, deaths or the arrival of messages. `FairSpec` of `WikiBuilds` assumes that the
steps of a build go on, because model calls and callbacks have time limits and the queue drains in the same
event loop; it assumes nothing of requests, of what fails, or of restarts.

## 4. Proofs

`WorkerPermitPoolProofs`. `TypeOK` and `PermitsConserved` are not inductive together: a hand-over keeps
the counter because a waiter becomes a holder, which needs that the queue holds exactly the waiting clients,
once each, and that clients wait only at capacity. `PoolInv` adds both; assumed are a finite set of
clients and a positive capacity. `NobodyOvertakes` follows from the invariant step by step: a release hands its
permit to the head, and removing the head shifts everyone else by one and swaps nobody.

`PipelineWorkerProofs`, from the contract up to the workers:

- *The contract.* `QueueInv` ties place, owner, freshness and payload of each message to the next id;
  `SettledForEver` and `FreshClaimsKept` are action properties proved from it.
- *No task is lost.* `BaseInv` says of every coroutine and parked entry that its message was sent and
  carries a task, which the calls of the queue preserve because the queue forgets nothing (`SentGrows`).
  `WorkerQueueStep` shows each worker step to be a step of the contract, so the theorems about the contract
  carry over (`WorkersUseTheQueue`). `TasksNeverLost` and `FollowUpsNeverLost` follow from the order of calls:
  enqueue before acknowledge, persist before acknowledge, replace in one call. They hold for any number of
  workers, loops, permits, crashes and stops, with stalls and failing calls.
- *Counters.* `CounterInv` says what each counter counts and that what is parked plus what may
  still be parked fits into the limit, which is stronger than `ParkedBounded` and is what makes it inductive.
  `PermitsAlwaysReturned` is proved for backends whose calls do not fail; with failing calls it is false
  (section 3).
- *What `stop()` leaves.* `StopLeavesNothing` adds to the counters that a live lock in the name of a process
  that has not died has a coroutine executing under it (`HeldAtWork`), that the coroutines of a stopped worker
  are done (`Quiet`), and that a parked entry lies in the list of its own scope (`ParkedInScope`): the retry of a
  scope releases the lock of that scope. Also for backends whose calls do not fail: a release that fails leaves
  the lock.
- *Scopes and messages.* `OneBeliever`: a coroutine that has not noticed a loss is the one the table has the
  lock for (`BelieverHolds`), so two of them are one. `OneWorker` needs besides that what is at work was
  delivered (`Delivered`), that a message a stopping worker refuses is not at work in it (`RefusedAlone`), and
  that the claim of a lock-free task is its worker's while it has not noticed a loss (`ClaimHeld`). Both assume
  `~Stalls`, because an event loop that misses its renewals believes in a lock the table has given away, which is
  what lock lifetimes are for; and `Permits = 1`, because the table knows workers, not coroutines: with a second
  permit a coroutine whose lock expired releases the one its sibling took (section 3). Crashes, stops, failing
  calls and expiry are all allowed.
- *What `stop()` gives up.* `StopGivesUp` is the action property `StopGivesClaimsUp`. A worker that is up still owns
  what it has parked or is about to lock, unless it has settled it (`HandedOver`): the refresh before the lock
  establishes it, and until `stop()` the heartbeat keeps it. So the entry a scope retries is at its place in the
  queue until the retry is over (`RetryParked`), and a retry that ends because of `stop()` leaves it there for
  `StopFinish` to give up. Assumed are calls that do not fail (giving up is a best effort) and, where event
  loops stall, that the worker is the only one: with two, a parked message can be taken over, come back to its
  first worker and be executed there to a lost claim, and the retry that still remembers it ends without giving
  it up (TLC finds these 23 steps when it follows only the actions named). The message is then claimable after
  pendingStaleMs, so the cost is time.

`MemoryPipelineManagerProofs`. `ManagerInv` holds for every number of sessions, conversations, failures and
restarts. The queues are sequences without repetition whose elements are the keys whose flag is set, and a task
is somewhere exactly while its queue is not empty (`L1Queue`, `L2Queue`). The cursor is not past the rows, nor
will it be when the run in hand returns (`StoreOK`). What is queued, armed, buffered or being counted has a state,
and what is being counted is active, which keeps the collector away (`KnownOK`). A run that has returned has no
retries, and what a failed one gave back has a trigger (`RetryOK`); it leaves exactly one key to L2, and a skipped L2
run has a timer (`PendingOK`). The five properties of the run `scheduler` are parts of it or follow. The lemma
`RunEnded` proves a remark of section 3: the flag of a run is still set when it asks for the next batch, so that
the request of `utils/pipeline-manager.ts:781` is always dropped.

`StatefulPipelineProofs`. `SoundInv` says what the runs in hand agree with: an L1 run of a session has its task
and reads rows that exist; a run under a lock is of that scope, writes scenes only from memories past its cursor, and
has queued L3 before it stamps; no L2 cursor is ahead of the memories. `StatefulCountedRounds` then follows one
step at a time: what leads to the next L1 run (a timer, a claim of the scanner, a queued task, a run, a flush on its
way) is replaced by another such thing or has been given up in `lost`. `StatefulMemories` strengthens the property
by what the scopes of a session share (`MemInv`): a memory that none of them has read has an L1 run or an L2 trigger
to come. `StatefulScenes` does the same for unread scenes (`SceneInv`): L3 is queued, or an L2 run that failed after
writing comes back because its cursor has not moved. Thresholds, batches, scanners, concurrent notifications and
faults are arbitrary.

`CheckpointManagerProofs`. `AtomicUpdates` needs that the copy a call has read is still the file when it
writes. `CheckpointInv` says so for a section whose lock has not expired, and adds why: in the standalone
deployment one process has one line, whose head alone is inside; in the service a call that is inside owns
the lock, unless its lifetime has passed. `CursorNeverBack` follows, because each change keeps or raises the
cursor of the file it was computed from. `CapturesOnce` needs another invariant (`CaptureInv`): captures pass no
lock options, so they run in the standalone deployment only and the line of the path orders them (`CapturesAlone`);
in every phase of a capture the records up to its cursor are in the store once and those after it not at all, unless
the process died between the record and the write (`CaptureSound`). All assume that reading does not fail
(`~ReadErrors`); with read errors they are false.

`SkillConversationProofs`. `SkillInv`, for any number of gateways, sessions, agents, messages and faults: every entry
of a file names an archive that exists (`Backed`); the loop of a node has in hand a task of the agent it works for,
extracted or dead before it is deleted, and what it is about to write is the file without that task only, because it
holds the mutex since it read the file (`WorkSound`); a handler has the messages it is to answer for in hand or
archived, and writes the file it read with its task added (`HandSound`); a confirmed message is in the buffer or
archived; a registered task is in its file, has ended, or is in the hand of a loop that buries it (`TaskSafe`).
`SkillNoTaskLost` and `SkillMessagesKept` are its last parts, `SkillOneExtractor` follows because the extraction lock has
one owner until it expires under one. The section of the tasks mutex is taken to be shorter than its lifetime
(section 2).

`WikiBuildsProofs`. `BuildInv` relates the status, the queue, the set of cancelled builds and the phase, and says
of a deleted wiki that its directory is gone unless a build is still to clean up or the process died; `BusyHasBuild`
and `DeletedLeavesNothing` follow. `UserEditsKept` needs that no build runs while pages may be written, and
`JobInv`: a page that is about to be merged was not the user's when it was read, and is not now.
`PagesFollowSources` speaks of the wiki at rest only. `PagesInv` says, for each file outside `gaps`, what table,
file and page say of each other in every phase: what the build has taken is what is on disk, a page it has merged
is of those contents, a file it found missing is missing.

`LocalStateBackendProofs`. It begins with what `Keeping` returns for every sequence: the elements of the set, each as
often and in the order the sequence has them. `Keeping` is a recursive function, and the proofs by induction go over
a least counterexample, since the library's induction theorems take an operator as parameter. (A shorter
version for its elements alone opens `SkillConversationProofs`.) `BackendInv` adds to the type invariant and to the properties of the queue that every
message sent carries a task and that a message is in the queue or in the pending list, in one of them and there
once (`Apart`). `NoWaiterWhileQueued` is needed for the rest: it is why the head that `enqueueTaskPayload` hands
to a waiting consumer is the message just inserted, and so why the contract's `Enqueue` may deliver at once.
`DeliveryOrder` follows from where `Insert` puts a message and from what deliveries and purges leave.
`LocksHeldUntilExpiry` needs the types only. `QueueImplemented` is the refinement: the mapping is restated as
functions of queue, pending list, next id and clock (`PlaceFn`, `OwnerFn`, `FreshFn`), one lemma says what each
kind of change does to them (a message is queued, delivered, leaves, is written over, ages), one shows each call
of the contract from these values (`MapEnqueue` to `MapStutter`), and one per action puts the two together.
A retry is two changes of the functions, leave and insert, and one `Replace` of the contract. With it the theorems
about the contract hold of the backend.

Only model-checked: all liveness
(`WaitingIsAnswered`, `EveryTaskSettled`, `EveryCallEnds`, `EveryTaskEnds`, `EveryBuildEnds`).
Liveness under fairness, `ENABLED` and induction rules with an operator as parameter are outside of what the
prover does.

## 5. Plan

1. Proofs: weaker hypotheses for `OneBeliever` and `OneWorker`, such as one permit for the tasks of one scope.
2. Code graphs and automatic synchronisation of the knowledge service; session registry and rate limit of
   MemoryProxy; store pool; versions of skills.

## 6. Not modelled

Prompts, parsing of model answers, embeddings, search and ranking, SQL and vector stores, HTTP routing,
metadata access rules, telemetry, the web interface, the command-line tools and migration scripts: their
behaviour is data transformation or input and output, not coordination. They are most of the lines of the
repository: the modelled coordination is in about thirty of its files.
