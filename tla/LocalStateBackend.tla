--------------------------- MODULE LocalStateBackend ---------------------------
(***************************************************************************)
(* The task queue and the locks of the in-process backend                  *)
(* (MemoryCore/src/core/state/local-backend.ts).  Every method body up to  *)
(* its return runs without an await, so each call is one action; the only  *)
(* thing that waits is a consumeTask that found the queue empty.           *)
(* It implements TaskQueue.                                                *)
(***************************************************************************)
EXTENDS Integers, SequencesExt, Subsequences

CONSTANTS
  Workers, Tasks, MaxRetries, MaxMsgs, NoOne, NoTask,  \* as in TaskQueue
  Priority,    \* task |-> 0 (high), 1 or 2
  Instances,   \* memory instances
  InstanceOf,  \* the instance of each task
  Scopes,      \* lock keys
  MinIdle,     \* pendingStaleMs, the idle time the workers pass
  Block,       \* blockMs of consumeTask
  TTL,         \* ttlMs of the locks
  MaxWaiters,  \* bound: consumeTask calls that wait at once
  MaxTime      \* bound on the clock

ASSUME LocalAssumption ==
  /\ Priority \in [Tasks -> 0..2]
  /\ InstanceOf \in [Tasks -> Instances]
  /\ MaxRetries \in Nat /\ MaxMsgs \in Nat /\ MaxTime \in Nat /\ MaxWaiters \in Nat
  /\ MinIdle \in Nat \ {0} /\ Block \in Nat \ {0} /\ TTL \in Nat \ {0}
  /\ NoOne \notin Workers /\ NoTask \notin Tasks

Msgs == 1..MaxMsgs

VARIABLES
  now,       \* Date.now()
  nextId,    \* nextTaskMessageId
  payload,   \* what each message carries (kept after it is settled)
  queue,     \* taskQueue
  pending,   \* pendingTasks in insertion order: [msg, owner, claimedAt]
  waiters,   \* consumeWaiters: [worker, due]
  locks      \* locks: [owner, expireAt] per key

vars == <<now, nextId, payload, queue, pending, waiters, locks>>

Unsent == [task |-> NoTask, retry |-> 0, createdAt |-> 0]
Unlocked == [owner |-> NoOne, expireAt |-> 0]

Init ==
  /\ now = 0
  /\ nextId = 1
  /\ payload = [m \in Msgs |-> Unsent]
  /\ queue = <<>>
  /\ pending = <<>>
  /\ waiters = <<>>
  /\ locks = [s \in Scopes |-> Unlocked]

-----------------------------------------------------------------------------
(* The queue.                                                              *)

\* The order of the queue: priority, then creation time.
Precedes(p, q) ==
  \/ Priority[p.task] < Priority[q.task]
  \/ Priority[p.task] = Priority[q.task] /\ p.createdAt < q.createdAt

\* Mutated: >= instead of >, a message overtakes its equals.
InsertBeforeEquals(m, p) ==
  LET i == SelectInSeq(queue, LAMBDA e : ~Precedes(payload[e], p))
  IN  IF i = 0 THEN Append(queue, m) ELSE InsertAt(queue, i, m)

\* The queue with message m inserted before the first entry it precedes.
Insert(m, p) ==
  LET i == SelectInSeq(queue, LAMBDA e : Precedes(p, payload[e]))
  IN  IF i = 0 THEN Append(queue, m) ELSE InsertAt(queue, i, m)

Delivery(m, w) == [msg |-> m, owner |-> w, claimedAt |-> now]

\* Mutated: a message that is enqueued wakes no consumer.
EnqueuePayloadAsleep(p, kept) ==
  /\ nextId <= MaxMsgs
  /\ nextId' = nextId + 1
  /\ payload' = [payload EXCEPT ![nextId] = p]
  /\ queue' = Insert(nextId, p) /\ pending' = kept
  /\ UNCHANGED waiters

\* enqueueTaskPayload, on the pending list its caller leaves: the message is
\* inserted, and the head of the queue goes to the longest waiting consumer.
EnqueuePayload(p, kept) ==
  LET inserted == Insert(nextId, p) IN
  /\ nextId <= MaxMsgs
  /\ nextId' = nextId + 1
  /\ payload' = [payload EXCEPT ![nextId] = p]
  /\ IF waiters = <<>>
     THEN queue' = inserted /\ pending' = kept /\ UNCHANGED waiters
     ELSE /\ queue' = Tail(inserted)
          /\ pending' = Append(kept, Delivery(Head(inserted), Head(waiters).worker))
          /\ waiters' = Tail(waiters)

\* enqueueTask; the caller stamped createdAt when it built the payload.
EnqueueTask(t, c) ==
  /\ EnqueuePayload([task |-> t, retry |-> 0, createdAt |-> c], pending)
  /\ UNCHANGED <<now, locks>>

\* consumeTask with a message at hand, or an empty queue to wait on.
ConsumeTask(w) ==
  /\ IF queue # <<>>
     THEN /\ queue' = Tail(queue)
          /\ pending' = Append(pending, Delivery(Head(queue), w))
          /\ UNCHANGED waiters
     ELSE /\ Len(waiters) < MaxWaiters
          /\ waiters' = Append(waiters, [worker |-> w, due |-> now + Block])
          /\ UNCHANGED <<queue, pending>>
  /\ UNCHANGED <<now, nextId, payload, locks>>

\* The timer of a waiting consumeTask fires, now or later than due.
WaitTimesOut(i) ==
  /\ i \in DOMAIN waiters /\ waiters[i].due <= now
  /\ waiters' = RemoveAt(waiters, i)
  /\ UNCHANGED <<now, nextId, payload, queue, pending, locks>>

-----------------------------------------------------------------------------
(* The pending list.                                                       *)

Without(m) == Keeping(pending, {e \in Range(pending) : e.msg # m})
Holds(m, w) == \E i \in DOMAIN pending : pending[i].msg = m /\ pending[i].owner = w

\* refreshTaskClaim of the owner; anyone else is answered false.
RefreshTaskClaim(m, w, idle) ==
  /\ Holds(m, w)
  /\ pending' = [i \in DOMAIN pending |->
                   IF pending[i].msg = m THEN [pending[i] EXCEPT !.claimedAt = now - idle]
                   ELSE pending[i]]
  /\ UNCHANGED <<now, nextId, payload, queue, waiters, locks>>

\* ackTask: whoever asks.
AckTask(m) ==
  /\ \E i \in DOMAIN pending : pending[i].msg = m
  /\ pending' = Without(m)
  /\ UNCHANGED <<now, nextId, payload, queue, waiters, locks>>

\* ackTaskIfOwned.
AckTaskIfOwned(m, w) ==
  /\ Holds(m, w)
  /\ pending' = Without(m)
  /\ UNCHANGED <<now, nextId, payload, queue, waiters, locks>>

\* replacePendingTask with the retry of the message.
ReplacePendingTask(m, w) ==
  /\ Holds(m, w) /\ payload[m].retry < MaxRetries
  /\ EnqueuePayload([payload[m] EXCEPT !.retry = @ + 1, !.createdAt = now], Without(m))
  /\ UNCHANGED <<now, locks>>

\* Mutated: the idle time is not compared.
AnyPending == DOMAIN pending

\* The entries claimStaleTasks may take.
IdleMsgs == {i \in DOMAIN pending : now - pending[i].claimedAt >= MinIdle}

\* claimStaleTasks: the first count idle entries change owner.
ClaimStaleTasks(w, count) ==
  LET taken == {i \in IdleMsgs : Cardinality({j \in IdleMsgs : j < i}) < count} IN
  /\ taken # {}
  /\ pending' = [i \in DOMAIN pending |->
                   IF i \in taken THEN [pending[i] EXCEPT !.owner = w, !.claimedAt = now]
                   ELSE pending[i]]
  /\ UNCHANGED <<now, nextId, payload, queue, waiters, locks>>

-----------------------------------------------------------------------------
(* The locks.                                                              *)

Expired(s) == locks[s].expireAt <= now

\* Mutated: acquireLock lets the owner take its lock again, and anyone else
\* once half of the TTL is over.
AcquireEarly(s, w) ==
  /\ locks[s].expireAt <= now + TTL \div 2
  /\ locks' = [locks EXCEPT ![s] = [owner |-> w, expireAt |-> now + TTL]]
  /\ UNCHANGED <<now, nextId, payload, queue, pending, waiters>>

\* acquireLock: expired locks are swept, then the key is taken if it is free,
\* by whomever: the owner of a live lock is refused too.
AcquireLock(s, w) ==
  /\ locks' = [z \in Scopes |->
                 IF z = s /\ Expired(z) THEN [owner |-> w, expireAt |-> now + TTL]
                 ELSE IF Expired(z) THEN Unlocked ELSE locks[z]]
  /\ UNCHANGED <<now, nextId, payload, queue, pending, waiters>>

\* renewLock: only the owner is compared, an expired lock that nobody swept is
\* renewed.
RenewLock(s, w) ==
  /\ locks[s].owner = w
  /\ locks' = [locks EXCEPT ![s].expireAt = now + TTL]
  /\ UNCHANGED <<now, nextId, payload, queue, pending, waiters>>

ReleaseLock(s, w) ==
  /\ locks[s].owner = w
  /\ locks' = [locks EXCEPT ![s] = Unlocked]
  /\ UNCHANGED <<now, nextId, payload, queue, pending, waiters>>

-----------------------------------------------------------------------------
(* The life of an instance and of the backend.                             *)

Kept(i, m) == InstanceOf[payload[m].task] # i

\* purgeInstance: its queued and pending messages are dropped.
PurgeInstance(i) ==
  /\ queue' = Keeping(queue, {m \in Range(queue) : Kept(i, m)})
  /\ pending' = Keeping(pending, {e \in Range(pending) : Kept(i, e.msg)})
  /\ UNCHANGED <<now, nextId, payload, waiters, locks>>

\* destroy: everything is cleared and the waiting consumers are answered.
\* The methods do not look at the destroyed flag: later calls still work.
Destroy ==
  /\ queue' = <<>> /\ pending' = <<>> /\ waiters' = <<>>
  /\ locks' = [s \in Scopes |-> Unlocked]
  /\ UNCHANGED <<now, nextId, payload>>

Tick ==
  /\ now < MaxTime
  /\ now' = now + 1
  /\ UNCHANGED <<nextId, payload, queue, pending, waiters, locks>>

Next ==
  \/ \E t \in Tasks, c \in {now, now - 1} : EnqueueTask(t, c)
  \/ \E i \in 1..MaxWaiters : WaitTimesOut(i)
  \/ \E m \in Msgs : AckTask(m)
  \/ \E w \in Workers :
       \/ ConsumeTask(w)
       \/ \E m \in Msgs, idle \in {0, MinIdle} : RefreshTaskClaim(m, w, idle)
       \/ \E m \in Msgs : AckTaskIfOwned(m, w) \/ ReplacePendingTask(m, w)
       \/ \E count \in 1..MaxMsgs : ClaimStaleTasks(w, count)
       \/ \E s \in Scopes : AcquireLock(s, w) \/ RenewLock(s, w) \/ ReleaseLock(s, w)
  \/ \E i \in Instances : PurgeInstance(i)
  \/ Destroy
  \/ Tick

Spec == Init /\ [][Next]_vars

-----------------------------------------------------------------------------
TypeOK ==
  /\ now \in 0..MaxTime
  /\ nextId \in 1..(MaxMsgs + 1)
  /\ payload \in [Msgs -> [task : Tasks \cup {NoTask}, retry : 0..MaxRetries, createdAt : -1..MaxTime]]
  /\ queue \in Seq(Msgs)
  /\ pending \in Seq([msg : Msgs, owner : Workers, claimedAt : -MinIdle..MaxTime])
  /\ waiters \in Seq([worker : Workers, due : 0..(MaxTime + Block)])
  /\ locks \in [Scopes -> [owner : Workers \cup {NoOne}, expireAt : 0..(MaxTime + TTL)]]

\* Nobody waits for a message while one is queued: every path that adds a
\* message to the queue wakes a consumer, and no consumer starts to wait
\* beside a message.
NoWaiterWhileQueued == waiters # <<>> => queue = <<>>

\* The queue is delivered by priority, then by creation time, and in the order
\* of arrival where both are equal.
DeliveryOrder ==
  \A i, j \in DOMAIN queue :
    i < j => \/ Precedes(payload[queue[i]], payload[queue[j]])
             \/ /\ ~Precedes(payload[queue[j]], payload[queue[i]])
                /\ queue[i] < queue[j]

\* A lock passes from one worker to another only when it has expired or its
\* owner released it.
LockTakenOnlyWhenExpired ==
  [][\A s \in Scopes : ~Expired(s) => locks'[s].owner \in {locks[s].owner, NoOne}]_vars

\* The backend implements the queue the workers rely on.
Entry(m) == CHOOSE e \in Range(pending) : e.msg = m
IsPending(m) == \E e \in Range(pending) : e.msg = m
Abstract == INSTANCE TaskQueue WITH
  nextMsg <- nextId,
  body <- [m \in Msgs |-> [task |-> payload[m].task, retry |-> payload[m].retry]],
  place <- [m \in Msgs |-> IF m >= nextId THEN "unsent"
                           ELSE IF m \in Range(queue) THEN "queued"
                           ELSE IF IsPending(m) THEN "pending" ELSE "settled"],
  owner <- [m \in Msgs |-> IF IsPending(m) THEN Entry(m).owner ELSE NoOne],
  fresh <- {m \in Msgs : IsPending(m) /\ now - Entry(m).claimedAt < MinIdle}

\* Every call has the effect TaskQueue allows, whatever the order of the queue,
\* the waiting consumers and the clock.
ImplementsTaskQueue == Abstract!QueueSpec
=============================================================================
