---------------------------- MODULE PipelineWorker ----------------------------
(***************************************************************************)
(* The competing consumers of the memory pipeline                          *)
(* (MemoryCore/src/services/pipeline-worker.ts): worker processes that     *)
(* share one TaskQueue and one table of TTL locks.  A worker runs          *)
(*   - its consume loops (Loops), each reserving parked capacity, taking a *)
(*     message, processing it and starting again;                          *)
(*   - one coroutine per message its pending recovery has claimed;         *)
(*   - one coroutine per lock scope whose parked queue it retries.         *)
(* An action is the code from one await to the next backend call and that  *)
(* call's answer: everything a worker does in it is one event-loop turn.   *)
(* Time appears as three facts: a claim is fresh or stale, a lock is live  *)
(* or expired, a timer has fired or not.                                   *)
(***************************************************************************)
EXTENDS TaskQueue, SequencesExt

CONSTANTS
  Scopes,           \* lock keys returned by getLockKey
  LockFree,         \* getLockKey returned null
  ScopeOf,          \* the lock key of each task
  Follow,           \* the task cascadeSchedule enqueues after each task, or NoTask
  Submitted,        \* the tasks the rest of the system enqueues
  Loops,            \* consume loops of one worker (config.concurrency of them)
  Permits,          \* capacity of the permit pool
  MaxParked,        \* config.maxParkedTasks
  RetryConcurrency, \* config.lockRetryConcurrency
  MaxCrashes,       \* bound: processes that may die
  MaxStops,         \* bound: processes that may be stopped
  Stalls,           \* whether an event loop may miss its heartbeats and renewals
  Faults            \* whether a call of the state backend may fail

Coroutines == Loops \cup Msgs \cup Scopes

ASSUME WorkerAssumption ==
  /\ Loops \cap Msgs = {} /\ Loops \cap Scopes = {} /\ Msgs \cap Scopes = {}
  /\ LockFree \notin Scopes
  /\ ScopeOf \in [Tasks -> Scopes \cup {LockFree}]
  /\ Follow \in [Tasks -> Tasks \cup {NoTask}]
  \* Lock-free tasks (offload-l1, offload-l15) are never cascaded.
  /\ \A t \in Tasks : ScopeOf[t] = LockFree => Follow[t] = NoTask
  /\ Submitted \subseteq Tasks
  /\ IsFiniteSet(Loops) /\ IsFiniteSet(Scopes)
  /\ Permits \in Nat \ {0}
  /\ MaxParked \in Nat \ {0}
  /\ RetryConcurrency \in 1..MaxParked
  /\ MaxCrashes \in Nat /\ MaxStops \in Nat /\ Stalls \in BOOLEAN /\ Faults \in BOOLEAN

VARIABLES
  life,        \* "up", "stopping" (destroyed, stop() not finished), "stopped", "crashed"
  pc,          \* where each coroutine of each worker is
  cur,         \* the message it processes
  lost,        \* lockLost / claimLost of the task it executes
  parked,      \* parkedByScope: FIFO of parked messages per worker and scope
  parkedCount, \* parkedTaskCount
  reserved,    \* parkedCapacityReservations
  permits,     \* permits of the worker's pool in use
  locks,       \* the lock table: owner as stored, expired or not, and, which the
               \* code does not store, the coroutine and message it was taken for
  done,        \* tasks whose message was acknowledged after a complete run
  dead         \* tasks moved to the dead letter queue

localVars == <<life, pc, cur, lost, parked, parkedCount, reserved, permits>>
vars == <<queueVars, localVars, locks, done, dead>>

NoMsg == 0
Free == [owner |-> NoOne, live |-> FALSE, by |-> NoMsg, msg |-> NoMsg]

\* Coroutine states.  "idle": a recovery or retry coroutine that does not run,
\* a loop waiting for capacity.  "polling": a loop inside consumeTask.
\* "refused": a loop that was handed a message during stop().
\* "permit"/"retryPermit": waiting for a permit.  "claimed"/"retryClaimed":
\* permit held, claim verified, about to try the lock.  "run": executing.
\* "cascade", "ack", "sleep", "bury", "buryAck": the steps after the execution.
\* "leave": in the finally block.  "spent": a recovered task that waits for
\* the others of its batch.  "exited": a loop that has returned.
Executing == {"run", "cascade", "ack", "sleep", "bury", "buryAck", "leave"}
WithPermit == Executing \cup {"claimed", "retryClaimed"}
States == WithPermit \cup {"idle", "polling", "refused", "permit", "retryPermit", "spent", "exited"}

Up(w) == life[w] = "up"
Destroyed(w) == life[w] = "stopping"
Running(w) == life[w] \in {"up", "stopping"}
TaskOf(m) == body[m].task
ScopeOfMsg(m) == ScopeOf[TaskOf(m)]

\* refreshTaskClaim, ackTaskIfOwned or replacePendingTask does not succeed:
\* another worker owns the message, it is settled, or the call fails.
Denied(m, w) == ~Owned(m, w) \/ Faults

\* refreshTaskClaim with idleMs: a best effort.
GiveUp(m, w) == Age(m, w) \/ (Faults /\ UNCHANGED queueVars)

Goto(w, k, s) == pc' = [pc EXCEPT ![w][k] = s]
Finish(w, k, s) ==
  /\ Goto(w, k, s)
  /\ cur' = [cur EXCEPT ![w][k] = NoMsg]
  /\ lost' = [lost EXCEPT ![w][k] = FALSE]

Init ==
  /\ QueueInit
  /\ life = [w \in Workers |-> "up"]
  /\ pc = [w \in Workers |-> [k \in Coroutines |-> "idle"]]
  /\ cur = [w \in Workers |-> [k \in Coroutines |-> NoMsg]]
  /\ lost = [w \in Workers |-> [k \in Coroutines |-> FALSE]]
  /\ parked = [w \in Workers |-> [s \in Scopes |-> <<>>]]
  /\ parkedCount = [w \in Workers |-> 0]
  /\ reserved = [w \in Workers |-> 0]
  /\ permits = [w \in Workers |-> 0]
  /\ locks = [s \in Scopes |-> Free]
  /\ done = {}
  /\ dead = {}

-----------------------------------------------------------------------------
(* Parked capacity.                                                        *)

\* Math.max(0, n - 1)
Dec(n) == IF n = 0 THEN 0 ELSE n - 1

\* The test of reserveParkedCapacity.
Spare(w) == parkedCount[w] + reserved[w] < MaxParked

\* reserveParkedCapacity succeeds and the loop enters consumeTask.
Reserve(w, l) ==
  /\ Up(w) /\ l \in Loops /\ pc[w][l] = "idle"
  /\ Spare(w)
  /\ reserved' = [reserved EXCEPT ![w] = @ + 1]
  /\ Goto(w, l, "polling")
  /\ UNCHANGED <<queueVars, life, cur, lost, parked, parkedCount, permits, locks, done, dead>>

\* Where a coroutine goes when its task is over.  A loop gives its reservation
\* back and takes one again in the same turn, if there is room and the worker
\* is not stopping; a recovered task keeps its share until its batch is over.
AfterTask(w, k, count) ==
  IF k \in Loops
  THEN IF Up(w) /\ count + Dec(reserved[w]) < MaxParked
       THEN Finish(w, k, "polling") /\ UNCHANGED reserved
       ELSE /\ Finish(w, k, IF Up(w) THEN "idle" ELSE "exited")
            /\ reserved' = [reserved EXCEPT ![w] = Dec(@)]
  ELSE Finish(w, k, IF k \in Msgs THEN "spent" ELSE "idle") /\ UNCHANGED reserved

\* consumeTask answers with a message and processTask queues for a permit,
\* unless stop() has begun.
ConsumeTask(w, l) ==
  /\ Running(w) /\ l \in Loops /\ pc[w][l] = "polling"
  /\ \E m \in Queued :
       /\ Consume(m, w)
       /\ Goto(w, l, IF Up(w) THEN "permit" ELSE "refused")
       /\ cur' = [cur EXCEPT ![w][l] = m]
  /\ UNCHANGED <<life, lost, parked, parkedCount, reserved, permits, locks, done, dead>>

\* A message consumed during stop() has its claim given up, and the loop ends.
GiveBack(w, l) ==
  /\ Running(w) /\ l \in Loops /\ pc[w][l] = "refused"
  /\ GiveUp(cur[w][l], w)
  /\ AfterTask(w, l, parkedCount[w])
  /\ UNCHANGED <<life, parked, parkedCount, permits, locks, done, dead>>

\* A loop that waits for capacity, or whose poll times out, sees the flag.
LoopExits(w, l) ==
  /\ Destroyed(w) /\ l \in Loops /\ pc[w][l] \in {"idle", "polling"}
  /\ reserved' = [reserved EXCEPT ![w] = IF pc[w][l] = "polling" THEN Dec(@) ELSE @]
  /\ Finish(w, l, "exited")
  /\ UNCHANGED <<queueVars, life, parked, parkedCount, permits, locks, done, dead>>

-----------------------------------------------------------------------------
(* processTask up to the execution.                                        *)

\* WorkerPermitPool.acquire resolves.
PermitFree(w) == permits[w] < Permits

\* acquire() resolves, then the claim is refreshed and its owner verified: the
\* message may have been taken over during the wait.
TakePermit(w, k) ==
  LET m == cur[w][k] IN
  /\ Running(w) /\ pc[w][k] = "permit"
  /\ PermitFree(w)
  /\ \/ /\ Up(w) /\ Refresh(m, w)
        /\ permits' = [permits EXCEPT ![w] = @ + 1]
        /\ Goto(w, k, "claimed")
        /\ UNCHANGED <<cur, lost, reserved>>
     \/ /\ \/ Up(w) /\ Denied(m, w) /\ UNCHANGED queueVars
           \/ Destroyed(w) /\ GiveUp(m, w)
        /\ AfterTask(w, k, parkedCount[w])
        /\ UNCHANGED permits
  /\ UNCHANGED <<life, parked, parkedCount, locks, done, dead>>

Available(s) == locks[s].owner = NoOne \/ ~locks[s].live

\* acquireLock: every expired lock is swept, then the free one is taken for
\* the worker; the table does not know which coroutine asked.
Acquire(s, w, k, m) ==
  locks' = [z \in Scopes |->
              IF z = s THEN [owner |-> w, live |-> TRUE, by |-> k, msg |-> m]
              ELSE IF Available(z) THEN Free ELSE locks[z]]

Sweep == locks' = [z \in Scopes |-> IF Available(z) THEN Free ELSE locks[z]]

\* A lock-free task executes at once.
StartLockFree(w, k) ==
  /\ Up(w) /\ pc[w][k] = "claimed" /\ ScopeOfMsg(cur[w][k]) = LockFree
  /\ Goto(w, k, "run")
  /\ UNCHANGED <<queueVars, life, cur, lost, parked, parkedCount, reserved, permits, locks, done, dead>>

\* acquireLock succeeds and the execution starts.
StartLocked(w, k) ==
  LET m == cur[w][k] s == ScopeOfMsg(m) IN
  /\ Up(w) /\ pc[w][k] = "claimed" /\ s # LockFree
  /\ Available(s)
  /\ Acquire(s, w, k, m)
  /\ Goto(w, k, "run")
  /\ UNCHANGED <<queueVars, life, cur, lost, parked, parkedCount, reserved, permits, done, dead>>

\* acquireLock fails: the message stays pending, joins the parked queue of its
\* scope, and the permit is returned.
Park(w, k) ==
  LET m == cur[w][k] s == ScopeOfMsg(m) IN
  /\ Up(w) /\ pc[w][k] = "claimed" /\ s # LockFree
  /\ ~Available(s)
  /\ Sweep
  /\ parked' = [parked EXCEPT ![w][s] = Append(@, m)]
  /\ parkedCount' = [parkedCount EXCEPT ![w] = @ + 1]
  /\ permits' = [permits EXCEPT ![w] = @ - 1]
  /\ AfterTask(w, k, parkedCount[w] + 1)
  /\ UNCHANGED <<queueVars, life, done, dead>>

\* acquireLock throws, whether the lock was taken or not.  The call is outside
\* the try block: the permit is not returned.
LockThrows(w, k) ==
  LET m == cur[w][k] s == ScopeOfMsg(m) IN
  /\ Faults /\ Up(w) /\ pc[w][k] = "claimed" /\ s # LockFree
  /\ UNCHANGED locks \/ (Available(s) /\ Acquire(s, w, k, m))
  /\ AfterTask(w, k, parkedCount[w])
  /\ UNCHANGED <<queueVars, life, parked, parkedCount, permits, done, dead>>

\* stop() came between the refresh and the lock: the claim is given up.
AbandonClaim(w, k) ==
  /\ Destroyed(w) /\ pc[w][k] = "claimed"
  /\ GiveUp(cur[w][k], w)
  /\ permits' = [permits EXCEPT ![w] = @ - 1]
  /\ AfterTask(w, k, parkedCount[w])
  /\ UNCHANGED <<life, parked, parkedCount, locks, done, dead>>

-----------------------------------------------------------------------------
(* The execution and what follows it.                                      *)

\* The renew timer of a locked task runs until the finally block, the claim
\* heartbeat of a lock-free one until the execution returns.
Renewing(w, k) ==
  /\ Running(w) /\ ~lost[w][k]
  /\ pc[w][k] \in Executing
  /\ ScopeOfMsg(cur[w][k]) = LockFree => pc[w][k] = "run"

\* The renew timer of a locked task fires: the lock is renewed for the worker,
\* whichever coroutine took it, then the claim is refreshed (never during
\* stop()).  If either does not succeed, lockLost is set, the timer ends and the
\* run is aborted.  A lock-free task only refreshes its claim, also during stop().
Renew(w, k) ==
  LET m == cur[w][k]
      s == ScopeOfMsg(m)
      held == s # LockFree /\ locks[s].owner = w
      renewed == IF held THEN [locks EXCEPT ![s].live = TRUE] ELSE locks
  IN
  /\ Renewing(w, k)
  /\ \/ /\ s = LockFree \/ (held /\ Up(w))
        /\ Refresh(m, w)
        /\ locks' = renewed
        /\ UNCHANGED lost
     \/ /\ Denied(m, w) \/ (s # LockFree /\ (~held \/ Destroyed(w)))
        /\ locks' = renewed \/ (Faults /\ UNCHANGED locks)
        /\ lost' = [lost EXCEPT ![w][k] = TRUE]
        /\ UNCHANGED queueVars
  /\ UNCHANGED <<life, pc, cur, parked, parkedCount, reserved, permits, done, dead>>

\* executeTask returns.  A task that lost its lock or claim goes no further;
\* a locked one first verifies its claim, which fails during stop().
Execute(w, k) ==
  LET m == cur[w][k] IN
  /\ Running(w) /\ pc[w][k] = "run"
  /\ \/ /\ lost[w][k]
        /\ Goto(w, k, "leave") /\ UNCHANGED queueVars
     \/ /\ ~lost[w][k] /\ ScopeOfMsg(m) = LockFree
        /\ Goto(w, k, "ack") /\ UNCHANGED queueVars
     \/ /\ ~lost[w][k] /\ ScopeOfMsg(m) # LockFree
        /\ \/ Up(w) /\ Refresh(m, w) /\ Goto(w, k, "cascade")
           \/ (Destroyed(w) \/ Denied(m, w)) /\ Goto(w, k, "leave") /\ UNCHANGED queueVars
  /\ UNCHANGED <<life, cur, lost, parked, parkedCount, reserved, permits, locks, done, dead>>

\* What the catch block does with an error: nothing when the lock or claim is
\* lost, else a delayed retry while retries remain, else the dead letter path.
AfterError(w, k) ==
  Goto(w, k, IF lost[w][k] THEN "leave"
             ELSE IF body[cur[w][k]].retry < MaxRetries THEN "sleep" ELSE "bury")

\* executeTask throws.
Fail(w, k) ==
  /\ Running(w) /\ pc[w][k] = "run"
  /\ AfterError(w, k)
  /\ UNCHANGED <<queueVars, life, cur, lost, parked, parkedCount, reserved, permits, locks, done, dead>>

\* Mutated order: the message is acknowledged before the follow-up is enqueued.
CascadeAfterAck(w, k) ==
  /\ Running(w) /\ pc[w][k] = "cascade"
  /\ IF Owned(cur[w][k], w)
     THEN Settle(cur[w][k], w) /\ done' = done \cup {TaskOf(cur[w][k])}
     ELSE UNCHANGED <<queueVars, done>>
  /\ Goto(w, k, "leave")
  /\ UNCHANGED <<life, cur, lost, parked, parkedCount, reserved, permits, locks, dead>>

\* cascadeSchedule: the follow-up is enqueued before the message is
\* acknowledged.  Any call of it may throw, before or after that, into the
\* catch block.
Cascade(w, k) ==
  LET f == Follow[TaskOf(cur[w][k])] IN
  /\ Running(w) /\ pc[w][k] = "cascade"
  /\ \/ /\ IF f = NoTask THEN UNCHANGED queueVars ELSE Enqueue(f, 0, NoOne)
        /\ Goto(w, k, "ack") \/ AfterError(w, k)
     \/ UNCHANGED queueVars /\ AfterError(w, k)
  /\ UNCHANGED <<life, cur, lost, parked, parkedCount, reserved, permits, locks, done, dead>>

\* ackTaskIfOwned.
Ack(w, k) ==
  LET m == cur[w][k] IN
  /\ Running(w) /\ pc[w][k] = "ack"
  /\ \/ Settle(m, w) /\ done' = done \cup {TaskOf(m)}
     \/ Denied(m, w) /\ UNCHANGED <<queueVars, done>>
  /\ Goto(w, k, "leave")
  /\ UNCHANGED <<life, cur, lost, parked, parkedCount, reserved, permits, locks, dead>>

\* The back-off ends and the message is replaced by its retry, in one call.
\* A lock-free task does not retry once stop() has begun.
Retry(w, k) ==
  LET m == cur[w][k] IN
  /\ Running(w) /\ pc[w][k] = "sleep"
  /\ \/ (Up(w) \/ ScopeOfMsg(m) # LockFree) /\ Replace(m, w, body[m].retry + 1, NoOne)
     \/ (Denied(m, w) \/ (Destroyed(w) /\ ScopeOfMsg(m) = LockFree)) /\ UNCHANGED queueVars
  /\ Goto(w, k, "leave")
  /\ UNCHANGED <<life, cur, lost, parked, parkedCount, reserved, permits, locks, done, dead>>

\* Mutated order: the message is acknowledged before the failure is persisted.
BuryAfterAck(w, k) ==
  LET m == cur[w][k] IN
  /\ Running(w) /\ pc[w][k] = "bury"
  /\ IF Owned(m, w) THEN Settle(m, w) ELSE UNCHANGED queueVars
  /\ Goto(w, k, "buryAck") \/ Goto(w, k, "leave")
  /\ UNCHANGED <<life, cur, lost, parked, parkedCount, reserved, permits, locks, done, dead>>

\* onDeadLetter persists the terminal failure; when it throws the message
\* stays pending and the coroutine leaves.
Bury(w, k) ==
  /\ Running(w) /\ pc[w][k] = "bury"
  /\ Goto(w, k, "buryAck") \/ Goto(w, k, "leave")
  /\ UNCHANGED <<queueVars, life, cur, lost, parked, parkedCount, reserved, permits, locks, done, dead>>

\* moveToDeadLetter acknowledges only after the failure is persisted.
BuryAck(w, k) ==
  LET m == cur[w][k] IN
  /\ Running(w) /\ pc[w][k] = "buryAck"
  /\ \/ Settle(m, w) /\ dead' = dead \cup {TaskOf(m)}
     \/ Denied(m, w) /\ UNCHANGED <<queueVars, dead>>
  /\ Goto(w, k, "leave")
  /\ UNCHANGED <<life, cur, lost, parked, parkedCount, reserved, permits, locks, done>>

\* Mutated: the early return of a lost lock skips releasePermitOnce.
LeaveKeepingPermit(w, k) ==
  LET s == ScopeOfMsg(cur[w][k]) IN
  /\ Running(w) /\ pc[w][k] = "leave"
  /\ locks' = IF s # LockFree /\ locks[s].owner = w THEN [locks EXCEPT ![s] = Free] ELSE locks
  /\ permits' = [permits EXCEPT ![w] = IF lost[w][k] THEN @ ELSE @ - 1]
  /\ AfterTask(w, k, parkedCount[w])
  /\ UNCHANGED <<queueVars, life, parked, parkedCount, done, dead>>

\* The finally block: the lock is released if the table names this worker, the
\* permit returned, the reservation of a loop released.
Leave(w, k) ==
  LET s == ScopeOfMsg(cur[w][k]) IN
  /\ Running(w) /\ pc[w][k] = "leave"
  /\ \/ locks' = IF s # LockFree /\ locks[s].owner = w THEN [locks EXCEPT ![s] = Free] ELSE locks
     \/ Faults /\ UNCHANGED locks
  /\ permits' = [permits EXCEPT ![w] = @ - 1]
  /\ AfterTask(w, k, parkedCount[w])
  /\ UNCHANGED <<queueVars, life, parked, parkedCount, done, dead>>

-----------------------------------------------------------------------------
(* Parked tasks: one retry coroutine per scope, heartbeats of the claims.  *)

ParkedIn(w, s) == Range(parked[w][s])

\* Mutated: the count drops although the entry has already been removed.
UnparkTwice(w, s, m) ==
  /\ parked' = [parked EXCEPT ![w][s] = RemoveFirst(@, m)]
  /\ parkedCount' = [parkedCount EXCEPT ![w] = Dec(@)]

\* removeParkedEntry, a no-op when the entry has already been removed.
Unpark(w, s, m) ==
  /\ parked' = [parked EXCEPT ![w][s] = RemoveFirst(@, m)]
  /\ parkedCount' = [parkedCount EXCEPT ![w] = IF m \in ParkedIn(w, s) THEN Dec(@) ELSE @]

\* scheduleParkedRetries starts retryParkedScope on the head of a due scope;
\* its first step verifies the claim and drops the entry if it is lost.
StartRetry(w, s) ==
  /\ Up(w) /\ s \in Scopes /\ pc[w][s] = "idle" /\ parked[w][s] # <<>>
  /\ Cardinality({z \in Scopes : pc[w][z] # "idle"}) < RetryConcurrency
  /\ LET m == Head(parked[w][s]) IN
     \/ /\ Refresh(m, w)
        /\ Goto(w, s, "retryPermit")
        /\ cur' = [cur EXCEPT ![w][s] = m]
        /\ UNCHANGED <<parked, parkedCount>>
     \/ /\ Denied(m, w)
        /\ Unpark(w, s, m)
        /\ UNCHANGED <<queueVars, pc, cur>>
  /\ UNCHANGED <<life, lost, reserved, permits, locks, done, dead>>

\* The permit arrives; the claim is verified again.
RetryPermit(w, s) ==
  LET m == cur[w][s] IN
  /\ Running(w) /\ s \in Scopes /\ pc[w][s] = "retryPermit"
  /\ PermitFree(w)
  /\ \/ /\ Up(w) /\ Refresh(m, w)
        /\ Goto(w, s, "retryClaimed")
        /\ permits' = [permits EXCEPT ![w] = @ + 1]
        /\ UNCHANGED <<cur, lost, parked, parkedCount>>
     \/ /\ Up(w) /\ Denied(m, w)
        /\ Unpark(w, s, m)
        /\ Finish(w, s, "idle")
        /\ UNCHANGED <<queueVars, permits>>
     \/ /\ Destroyed(w)
        /\ Finish(w, s, "idle")
        /\ UNCHANGED <<queueVars, permits, parked, parkedCount>>
  /\ UNCHANGED <<life, reserved, locks, done, dead>>

\* Mutated: the answer of acquireLock is not looked at.
RetryUnlocked(w, s) ==
  LET m == cur[w][s] IN
  /\ Running(w) /\ s \in Scopes /\ pc[w][s] = "retryClaimed"
  /\ IF Available(s) THEN Acquire(s, w, s, m) ELSE Sweep
  /\ Unpark(w, s, m)
  /\ Goto(w, s, "run")
  /\ UNCHANGED <<queueVars, life, cur, lost, reserved, permits, done, dead>>

\* Mutated: a lock that arrives during stop() is not given back.
RetryKeepingLock(w, s) ==
  LET m == cur[w][s] IN
  /\ Running(w) /\ s \in Scopes /\ pc[w][s] = "retryClaimed"
  /\ IF Available(s) THEN Acquire(s, w, s, m) ELSE Sweep
  /\ Finish(w, s, "idle")
  /\ permits' = [permits EXCEPT ![w] = @ - 1]
  /\ UNCHANGED <<queueVars, life, parked, parkedCount, reserved, done, dead>>

\* Mutated: a scope whose retry finds the lock taken stays in retryingScopes.
RetryNeverAgain(w, s) ==
  LET m == cur[w][s] IN
  /\ Running(w) /\ s \in Scopes /\ pc[w][s] = "retryClaimed"
  /\ IF Up(w) /\ Available(s)
     THEN Acquire(s, w, s, m) /\ Unpark(w, s, m) /\ Goto(w, s, "run") /\ UNCHANGED <<cur, lost, permits>>
     ELSE /\ Sweep /\ Finish(w, s, "spent") /\ UNCHANGED <<parked, parkedCount>>
          /\ permits' = [permits EXCEPT ![w] = @ - 1]
  /\ UNCHANGED <<queueVars, life, reserved, done, dead>>

\* acquireLock for the parked head: taken, the entry leaves the queue and
\* executes with the permit it holds; held, taken too late for stop(), or the
\* call fails, the permit is returned and the entry stays.
RetryLock(w, s) ==
  LET m == cur[w][s] IN
  /\ Running(w) /\ s \in Scopes /\ pc[w][s] = "retryClaimed"
  /\ \/ /\ Up(w) /\ Available(s)
        /\ Acquire(s, w, s, m)
        /\ Unpark(w, s, m)
        /\ Goto(w, s, "run")
        /\ UNCHANGED <<cur, lost, permits>>
     \/ /\ \/ (Destroyed(w) \/ ~Available(s)) /\ Sweep
           \/ Faults /\ (UNCHANGED locks \/ (Available(s) /\ Acquire(s, w, s, m)))
        /\ Finish(w, s, "idle")
        /\ permits' = [permits EXCEPT ![w] = @ - 1]
        /\ UNCHANGED <<parked, parkedCount>>
  /\ UNCHANGED <<queueVars, life, reserved, done, dead>>

\* heartbeatParkedClaims for one entry, at its head or not.
ParkedHeartbeat(w, s, m) ==
  /\ Up(w) /\ m \in ParkedIn(w, s)
  /\ \/ Refresh(m, w) /\ UNCHANGED <<parked, parkedCount>>
     \/ Denied(m, w) /\ Unpark(w, s, m) /\ UNCHANGED queueVars
  /\ UNCHANGED <<life, pc, cur, lost, reserved, permits, locks, done, dead>>

-----------------------------------------------------------------------------
(* Pending recovery, stop, crash, time, and the producers.                 *)

\* Mutated: the batch is not limited by the parked capacity that is left.
BatchUnbounded(w) == MaxParked

\* The reservation runPendingRecovery makes: what is left, at most 10.
Batch(w) == IF MaxParked - parkedCount[w] - reserved[w] > 10 THEN 10
            ELSE MaxParked - parkedCount[w] - reserved[w]

\* runPendingRecovery: capacity is reserved for the batch, that many stale
\* messages are claimed, whoever owned them, this worker included, and every
\* one is processed by a coroutine of its own.
Recover(w) ==
  /\ Up(w)
  /\ \A m \in Msgs : pc[w][m] = "idle"
  /\ Batch(w) > 0
  /\ \E S \in SUBSET Stale :
       /\ S # {}
       /\ Cardinality(S) <= Batch(w) /\ (S # Stale => Cardinality(S) = Batch(w))
       /\ Claim(S, w)
       /\ reserved' = [reserved EXCEPT ![w] = @ + Cardinality(S)]
       /\ pc' = [pc EXCEPT ![w] = [k \in Coroutines |-> IF k \in S THEN "permit" ELSE @[k]]]
       /\ cur' = [cur EXCEPT ![w] = [k \in Coroutines |-> IF k \in S THEN k ELSE @[k]]]
  /\ UNCHANGED <<life, lost, parked, parkedCount, permits, locks, done, dead>>

\* Mutated: recoveryRunning is not reset after a batch.
RecoverNeverDone(w) == FALSE

\* Every recovered task is over: the batch gives its reservations back.
RecoverDone(w) ==
  LET S == {m \in Msgs : pc[w][m] = "spent"} IN
  /\ Running(w) /\ S # {}
  /\ \A m \in Msgs : pc[w][m] \in {"idle", "spent"}
  /\ reserved' = [reserved EXCEPT ![w] = @ - Cardinality(S)]
  /\ pc' = [pc EXCEPT ![w] = [k \in Coroutines |-> IF k \in S THEN "idle" ELSE @[k]]]
  /\ UNCHANGED <<queueVars, life, cur, lost, parked, parkedCount, permits, locks, done, dead>>

Ended(which) == Cardinality({w \in Workers : life[w] \in which})

\* stop() begins: the destroyed flag is up, timers are cleared, waiters woken.
Stop(w) ==
  /\ Up(w) /\ Ended({"stopping", "stopped"}) < MaxStops
  /\ life' = [life EXCEPT ![w] = "stopping"]
  /\ UNCHANGED <<queueVars, pc, cur, lost, parked, parkedCount, reserved, permits, locks, done, dead>>

\* Mutated: stop() forgets the parked queues without giving their claims up.
StopFinishKeepingClaims(w) ==
  /\ Destroyed(w)
  /\ \A l \in Loops : pc[w][l] = "exited"
  /\ \A k \in Coroutines \ Loops : pc[w][k] = "idle"
  /\ parked' = [parked EXCEPT ![w] = [s \in Scopes |-> <<>>]]
  /\ parkedCount' = [parkedCount EXCEPT ![w] = 0]
  /\ life' = [life EXCEPT ![w] = "stopped"]
  /\ UNCHANGED <<queueVars, pc, cur, lost, reserved, permits, locks, done, dead>>

\* stop() ends once every coroutine has returned: the parked claims are given
\* up and the parked queues forgotten.
StopFinish(w) ==
  /\ Destroyed(w)
  /\ \A l \in Loops : pc[w][l] = "exited"
  /\ \A k \in Coroutines \ Loops : pc[w][k] = "idle"
  /\ LET given == {m \in UNION {ParkedIn(w, s) : s \in Scopes} : Owned(m, w)} IN
     \E S \in SUBSET given : (~Faults => S = given) /\ fresh' = fresh \ S
  /\ parked' = [parked EXCEPT ![w] = [s \in Scopes |-> <<>>]]
  /\ parkedCount' = [parkedCount EXCEPT ![w] = 0]
  /\ life' = [life EXCEPT ![w] = "stopped"]
  /\ UNCHANGED <<nextMsg, body, place, owner, pc, cur, lost, reserved, permits, locks, done, dead>>

\* The process dies: its memory is gone, the queue and the locks are not.
Crash(w) ==
  /\ Running(w) /\ Ended({"crashed"}) < MaxCrashes
  /\ life' = [life EXCEPT ![w] = "crashed"]
  /\ pc' = [pc EXCEPT ![w] = [k \in Coroutines |-> "exited"]]
  /\ cur' = [cur EXCEPT ![w] = [k \in Coroutines |-> NoMsg]]
  /\ lost' = [lost EXCEPT ![w] = [k \in Coroutines |-> FALSE]]
  /\ parked' = [parked EXCEPT ![w] = [s \in Scopes |-> <<>>]]
  /\ parkedCount' = [parkedCount EXCEPT ![w] = 0]
  /\ reserved' = [reserved EXCEPT ![w] = 0]
  /\ permits' = [permits EXCEPT ![w] = 0]
  /\ UNCHANGED <<queueVars, locks, done, dead>>

\* Every permit is held by a step that may last: the execution, a back-off, the
\* call of onDeadLetter.
Exhausted(w) == Cardinality({k \in Coroutines : pc[w][k] \in {"run", "sleep", "bury"}}) >= Permits

\* A coroutine whose renew timer runs keeps its lock and its claim alive, a
\* parked entry its claim, and a claim does not age within a few event-loop
\* turns, unless the event loop stalls.  Nobody refreshes the claim of a
\* message that waits for a permit while the pool is exhausted.
Kept(m) ==
  \E w \in Workers :
    /\ owner[m] = w
    /\ \/ \E k \in Coroutines :
            /\ cur[w][k] = m
            /\ \/ Renewing(w, k) \/ pc[w][k] \in {"claimed", "ack", "refused"}
               \/ Running(w) /\ pc[w][k] = "permit" /\ ~Exhausted(w)
       \/ Up(w) /\ \E s \in Scopes : m \in ParkedIn(w, s)

\* The renew timer outlives neither a failure nor the finally block, and the
\* time to live outlives everything but an execution that ignores its abort.
LockKept(s) ==
  LET w == locks[s].owner k == locks[s].by IN
  /\ pc[w][k] \in Executing /\ Running(w)
  /\ ScopeOfMsg(cur[w][k]) = s
  /\ ~(lost[w][k] /\ pc[w][k] = "run")

LockExpires(s) ==
  /\ locks[s].owner # NoOne /\ locks[s].live
  /\ Stalls \/ ~LockKept(s)
  /\ locks' = [locks EXCEPT ![s].live = FALSE]
  /\ UNCHANGED <<queueVars, localVars, done, dead>>

\* pendingStaleMs >= lockTtlMs + 2 * lockRenewIntervalMs: a claim outlives the
\* lock that was taken for the same message.
ClaimExpires(m) ==
  /\ Stalls \/ ~Kept(m)
  /\ \A s \in Scopes : locks[s].live => locks[s].msg # m
  /\ m \in fresh
  /\ Expire({m})
  /\ UNCHANGED <<localVars, locks, done, dead>>

\* The rest of the system enqueues each of its tasks once.
Submit(t) ==
  /\ t \in Submitted
  /\ \A m \in Sent : TaskOf(m) # t
  /\ Enqueue(t, 0, NoOne)
  /\ UNCHANGED <<localVars, locks, done, dead>>

Step(w) ==
  \/ \E l \in Loops : Reserve(w, l) \/ ConsumeTask(w, l) \/ GiveBack(w, l) \/ LoopExits(w, l)
  \/ \E k \in Coroutines :
       \/ TakePermit(w, k) \/ StartLockFree(w, k) \/ StartLocked(w, k) \/ Park(w, k)
       \/ LockThrows(w, k) \/ AbandonClaim(w, k) \/ Renew(w, k) \/ Execute(w, k) \/ Fail(w, k)
       \/ Cascade(w, k) \/ Ack(w, k) \/ Retry(w, k) \/ Bury(w, k) \/ BuryAck(w, k)
       \/ Leave(w, k)
  \/ \E s \in Scopes : StartRetry(w, s) \/ RetryPermit(w, s) \/ RetryLock(w, s)
  \/ \E s \in Scopes, m \in Msgs : ParkedHeartbeat(w, s, m)
  \/ Recover(w) \/ RecoverDone(w) \/ StopFinish(w)

Next ==
  \/ \E w \in Workers : Step(w) \/ Stop(w) \/ Crash(w)
  \/ \E s \in Scopes : LockExpires(s)
  \/ \E m \in Msgs : ClaimExpires(m)
  \/ \E t \in Tasks : Submit(t)

Spec == Init /\ [][Next]_vars

-----------------------------------------------------------------------------
TypeOK ==
  /\ QueueTypeOK
  /\ life \in [Workers -> {"up", "stopping", "stopped", "crashed"}]
  /\ pc \in [Workers -> [Coroutines -> States]]
  /\ cur \in [Workers -> [Coroutines -> Msgs \cup {NoMsg}]]
  /\ lost \in [Workers -> [Coroutines -> BOOLEAN]]
  /\ parked \in [Workers -> [Scopes -> Seq(Msgs)]]
  /\ parkedCount \in [Workers -> Nat]
  /\ reserved \in [Workers -> Nat]
  /\ permits \in [Workers -> 0..Permits]
  /\ locks \in [Scopes -> [owner : Workers \cup {NoOne}, live : BOOLEAN,
                           by : Coroutines \cup {NoMsg}, msg : Msgs \cup {NoMsg}]]
  /\ done \subseteq Tasks
  /\ dead \subseteq Tasks

\* Back-pressure works: whatever the loops, the recovery batches and the parked
\* retries do, a worker never parks more than maxParkedTasks messages.
ParkedBounded == \A w \in Workers : parkedCount[w] <= MaxParked

\* The counters of the capacity test agree with what they count, on every path
\* out of a task: no reservation and no parked entry leaks.
Parking(w) == {k \in Loops : pc[w][k] \notin {"idle", "exited"}}
              \cup {k \in Msgs : pc[w][k] \notin {"idle", "exited"}}
CapacityExact ==
  \A w \in Workers :
    /\ reserved[w] = Cardinality(Parking(w))
    /\ parkedCount[w] = Cardinality(UNION {{s} \X DOMAIN parked[w][s] : s \in Scopes})

\* Every permit that is in use is held by a coroutine that will return it.
PermitsReturned ==
  \A w \in Workers : permits[w] = Cardinality({k \in Coroutines : pc[w][k] \in WithPermit})

\* No task is lost: a task that was enqueued still has a message in the queue
\* or the pending list, or was completed, or is a dead letter.
NoTaskLost ==
  \A m \in Sent : TaskOf(m) \in done \cup dead \cup {TaskOf(n) : n \in Live}

\* The continuation of a completed task is never lost to a crash between the
\* two calls: it was enqueued before the task was acknowledged.
FollowUpNeverLost ==
  \A t \in done : Follow[t] # NoTask => \E m \in Sent : TaskOf(m) = Follow[t]

\* Two coroutines never both believe that they hold the lock of a scope.
Believers(s) ==
  {p \in Workers \X Coroutines :
     Renewing(p[1], p[2]) /\ ScopeOfMsg(cur[p[1]][p[2]]) = s}
OneBelieverPerScope == \A s \in Scopes : Cardinality(Believers(s)) <= 1

\* Two workers never both execute a message that they believe is theirs,
\* lock or no lock: the claim alone keeps them apart.
Executors(m) == {w \in Workers : \E k \in Coroutines : Renewing(w, k) /\ cur[w][k] = m}
OneWorkerPerMessage == \A m \in Msgs : Cardinality(Executors(m)) <= 1

\* Once stop() is over the worker holds no lock, permit or reservation.
StopLetsGo ==
  \A w \in Workers : life[w] = "stopped" =>
    /\ \A s \in Scopes : locks[s].live => locks[s].owner # w
    /\ permits[w] = 0 /\ reserved[w] = 0

Waiting(w, m) ==
  \/ \E s \in Scopes : m \in ParkedIn(w, s)
  \/ \E k \in Coroutines : cur[w][k] = m /\ pc[w][k] \notin Executing
Started(w, m) == \E k \in Coroutines : cur[w][k] = m /\ pc[w][k] \in Executing

\* A message that waits in a worker that is stopping, parked, for a permit or
\* for its lock, either starts or has its claim given up: nobody has to wait
\* pendingStaleMs for a message that was never executed.
StopGivesClaimsUp ==
  [][\A w \in Workers, m \in Msgs :
       /\ Destroyed(w) /\ life'[w] # "crashed"
       /\ Owned(m, w) /\ Waiting(w, m) /\ ~Waiting(w, m)' /\ ~Started(w, m)'
       => m \notin fresh' \/ owner'[m] # w]_vars

-----------------------------------------------------------------------------
(* Liveness.  The runtime keeps running every coroutine whose promise has  *)
(* settled and every timer that is due; executors end because LLM calls    *)
(* have time limits; time expires what nobody refreshes; persisting a dead  *)
(* letter does not fail for ever.                                          *)
Fairness ==
  /\ \A w \in Workers :
       /\ \A l \in Loops : WF_vars(Reserve(w, l)) /\ WF_vars(ConsumeTask(w, l))
                               /\ WF_vars(GiveBack(w, l)) /\ WF_vars(LoopExits(w, l))
       /\ \A k \in Coroutines :
            /\ WF_vars(TakePermit(w, k))
            /\ WF_vars(StartLockFree(w, k) \/ StartLocked(w, k) \/ Park(w, k)
                         \/ LockThrows(w, k) \/ AbandonClaim(w, k))
            /\ WF_vars(Execute(w, k) \/ Fail(w, k))
            /\ WF_vars(Cascade(w, k) \/ Ack(w, k) \/ Retry(w, k) \/ Bury(w, k) \/ BuryAck(w, k) \/ Leave(w, k))
            /\ SF_vars(Bury(w, k) /\ pc'[w][k] = "buryAck")
       /\ \A s \in Scopes : WF_vars(StartRetry(w, s)) /\ WF_vars(RetryPermit(w, s)) /\ WF_vars(RetryLock(w, s))
       /\ WF_vars(Recover(w)) /\ WF_vars(RecoverDone(w)) /\ WF_vars(StopFinish(w))
  /\ \A s \in Scopes : WF_vars(LockExpires(s))
  /\ \A m \in Msgs : WF_vars(ClaimExpires(m))

FairSpec == Spec /\ Fairness

\* Every task that is enqueued is completed or ends in the dead letter queue,
\* although a worker dies with it at any point, as long as one survives.
EveryTaskSettled ==
  \A t \in Tasks : (\E m \in Sent : TaskOf(m) = t) ~> (t \in done \cup dead)
=============================================================================
