-------------------------- MODULE StatefulPipeline --------------------------
(***************************************************************************)
(* The scheduler of the memory pipeline that keeps its state in a backend  *)
(* (MemoryCore/src/utils/stateful-pipeline-manager.ts), the scanner that   *)
(* turns expired timers into tasks (services/timer-scanner.ts), and what   *)
(* the workers' executors and cascades do to that state                    *)
(* (gateway/server.ts, services/pipeline-worker.ts).  An action is the     *)
(* code between two awaits.  Claims, locks and permits of the workers are  *)
(* the subject of PipelineWorker: here a task is taken from the queue,     *)
(* runs alone in its lock scope and is retried or buried when it fails.    *)
(*                                                                         *)
(* Two deployments.  "local": one process, the default instance, captures  *)
(* without team and agent, timers fire in the process.  "shared": Redis,   *)
(* captures name instance, team and agent while the manager's default      *)
(* instance is "__unset__", and every node scans the timers.               *)
(***************************************************************************)
EXTENDS Integers, FiniteSets

CONSTANTS
  Deployments,  \* subset of {"local", "shared"}
  Sessions,     \* conversation sessions
  Notifiers,    \* concurrent calls of notifyConversation
  Scanners,     \* nodes that run a timer scanner
  EveryN,       \* everyNConversations
  Warmup,       \* enableWarmup
  Batch,        \* L1_BATCH_PROCESS
  MaxRounds,    \* bound: rounds one notification reports
  MaxRows,      \* bound: rounds of one session
  MaxEvents     \* bound: failures, refused quotas and ends of sessions, taken together

ASSUME StatefulAssumption ==
  /\ Deployments \subseteq {"local", "shared"} /\ Deployments # {}
  /\ IsFiniteSet(Sessions) /\ Sessions # {} /\ IsFiniteSet(Notifiers) /\ IsFiniteSet(Scanners)
  /\ EveryN \in Nat \ {0} /\ Batch \in Nat \ {0} /\ MaxRounds \in Nat \ {0}
  /\ Warmup \in BOOLEAN
  /\ MaxRows \in Nat /\ MaxEvents \in Nat

\* What a task is about: a session of its agent, the profile an L1 run of the
\* session stored memories for, or the session without team and agent.
Keys == Sessions \X {"session", "profile", "unscoped"}
Own(s) == <<s, "session">>

\* getLockKey of L2 and L3: one lock for the agent, another without an agent.
Locks == {"agent", "none"}
Lock(k) == IF k[2] = "unscoped" THEN "none" ELSE "agent"

Tasks ==
  [type : {"L1"}, key : {Own(s) : s \in Sessions}, timed : BOOLEAN]
  \cup [type : {"flush"}, key : {Own(s) : s \in Sessions}, timed : {FALSE}]
  \cup [type : {"L2", "L3"}, key : Keys, timed : {FALSE}]
Members == [type : {"L1"}, key : {Own(s) : s \in Sessions}] \cup [type : {"L2"}, key : Keys]

VARIABLES
  mode,      \* the deployment
  count,     \* conversation_count
  warm,      \* warmup_threshold, Unknown while the session has no state
  l2at,      \* l2_last_extraction_time, as the number of records created by then
  timers,    \* the armed timers
  queue,     \* how many tasks of each kind are queued
  note,      \* where the notifyConversation calls are
  ending,    \* flushSession calls between removeTimer and enqueueTask: <<s, caller>>
  scan,      \* timers each scanner has claimed and not yet enqueued
  l1,        \* the L1 or flush task running for each session
  deep,      \* the L2 or L3 task running under each lock
  rows,      \* rounds recorded in the store (L0)
  cursor,    \* last_l1_cursor of the checkpoint
  records,   \* memories stored by L1, counted in batches
  unseen,    \* an L2 run wrote scenes that no L3 run has read yet
  lost,      \* timers given up by a failure or an empty extraction (history)
  events     \* failures, refused quotas and ends of sessions so far

states == <<count, warm, l2at>>
store == <<rows, cursor, records>>
vars == <<mode, states, timers, queue, note, ending, scan, l1, deep, store, unseen, lost, events>>

Unknown == -1
NoNote == [phase |-> "none", s |-> CHOOSE s \in Sessions : TRUE, rounds |-> 0, warm |-> 0]
Task(type, k, timed) == [type |-> type, key |-> k, timed |-> timed]
NoL1(s) == [phase |-> "none", task |-> Task("L1", Own(s), FALSE), read |-> 0, to |-> "session"]
NoDeep == [phase |-> "none", task |-> Task("L2", Own(CHOOSE s \in Sessions : TRUE), FALSE)]

Member(type, k) == [type |-> type, key |-> k]
IdleTimer(s) == Member("L1", Own(s))
L2Timer(k) == Member("L2", k)
\* armL2MaxInterval builds its member without team and agent, which
\* parsePipelineTimerMember recovers from the name of a profile only.
MaxTimer(k) == L2Timer(IF mode = "shared" /\ k[2] = "session" THEN <<k[1], "unscoped">> ELSE k)
\* The task made of an expired timer.
TaskOf(m) == Task(m.type, m.key, m.type = "L1")

Put(t) == queue' = [queue EXCEPT ![t] = @ + 1]
Event == events < MaxEvents /\ events' = events + 1
\* checkCreditQuota
Refused(denied) == IF denied THEN Event ELSE UNCHANGED events

Init ==
  /\ mode \in Deployments
  /\ count = [s \in Sessions |-> 0] /\ warm = [s \in Sessions |-> Unknown]
  /\ l2at = [k \in Keys |-> 0]
  /\ timers = {} /\ queue = [t \in Tasks |-> 0]
  /\ note = [n \in Notifiers |-> NoNote] /\ ending = {}
  /\ scan = [p \in Scanners |-> {}]
  /\ l1 = [s \in Sessions |-> NoL1(s)] /\ deep = [x \in Locks |-> NoDeep]
  /\ rows = [s \in Sessions |-> 0] /\ cursor = [s \in Sessions |-> 0]
  /\ records = [s \in Sessions |-> 0]
  /\ unseen = FALSE /\ lost = {} /\ events = 0

-----------------------------------------------------------------------------
(* Capture.                                                                *)

\* getEffectiveThreshold
Threshold(w) == IF ~Warmup \/ w <= 0 \/ w > EveryN THEN EveryN ELSE w

\* The rounds are recorded; notifyConversation reads the session's state.
NotifyReads(n) ==
  /\ note[n].phase = "none"
  /\ \E s \in Sessions, r \in 1..MaxRounds :
       /\ rows[s] + r <= MaxRows
       /\ rows' = [rows EXCEPT ![s] = @ + r]
       /\ note' = [note EXCEPT ![n] = [phase |-> "read", s |-> s, rounds |-> r,
                     warm |-> IF warm[s] = Unknown THEN 1 ELSE warm[s]]]
  /\ UNCHANGED <<mode, states, timers, queue, ending, scan, l1, deep, cursor, records,
                 unseen, lost, events>>

\* captureAtomic with the threshold read before: at the threshold an L1 task is
\* enqueued, below it the idle timer is set.
Captures(n) ==
  LET s == note[n].s
      c == count[s] + note[n].rounds
  IN
  /\ note[n].phase = "read"
  /\ warm' = [warm EXCEPT ![s] = IF @ = Unknown THEN 0 ELSE @]
  /\ IF c >= Threshold(note[n].warm)
     THEN /\ Put(Task("L1", Own(s), FALSE))
          /\ count' = [count EXCEPT ![s] = 0]
          /\ timers' = timers \ {IdleTimer(s)}
          /\ note' = [note EXCEPT ![n] =
               IF Warmup /\ @.warm > 0 THEN [@ EXCEPT !.phase = "advance"] ELSE NoNote]
     ELSE /\ count' = [count EXCEPT ![s] = c]
          /\ timers' = timers \cup {IdleTimer(s)}
          /\ note' = [note EXCEPT ![n] = NoNote]
          /\ UNCHANGED queue
  /\ lost' = lost \ {IdleTimer(s)}
  /\ UNCHANGED <<mode, l2at, ending, scan, l1, deep, store, unseen, events>>

\* advanceWarmupInBackend writes the state of the default instance, which in
\* the shared deployment is not the instance of the capture.
AdvancesWarmup(n) ==
  LET s == note[n].s
      next == 2 * note[n].warm
  IN
  /\ note[n].phase = "advance"
  /\ IF mode = "shared" THEN UNCHANGED <<count, warm>>
     ELSE /\ warm' = [warm EXCEPT ![s] = IF next >= EveryN THEN 0 ELSE next]
          /\ count' = [count EXCEPT ![s] = 0]
  /\ note' = [note EXCEPT ![n] = NoNote]
  /\ UNCHANGED <<mode, l2at, timers, queue, ending, scan, l1, deep, store, unseen, lost, events>>

\* A backend call of notifyConversation throws: the caller logs it.
NotifyFails(n) ==
  /\ note[n].phase # "none"
  /\ Event
  /\ note' = [note EXCEPT ![n] = NoNote]
  /\ UNCHANGED <<mode, states, timers, queue, ending, scan, l1, deep, store, unseen, lost>>

\* flushSession up to removeTimer, called by the session-end route or by a
\* flush task.  In the shared deployment both come without an instance and are
\* refused.  A session without counted rounds has nothing to flush.
Flushable(s) == mode = "local" /\ count[s] > 0

EndsSession(s) ==
  /\ Flushable(s) /\ <<s, "route">> \notin ending
  /\ Event
  /\ timers' = timers \ {IdleTimer(s)}
  /\ ending' = ending \cup {<<s, "route">>}
  /\ UNCHANGED <<mode, states, queue, note, scan, l1, deep, store, unseen, lost>>

\* flushSession after removeTimer; a flush task then goes on to its cascade.
FlushEnqueues(e) ==
  /\ e \in ending
  /\ ending' = ending \ {e}
  /\ Put(Task("flush", Own(e[1]), FALSE))
  /\ l1' = IF e[2] = "route" THEN l1 ELSE [l1 EXCEPT ![e[1]].phase = "zero"]
  /\ UNCHANGED <<mode, states, timers, note, scan, deep, store, unseen, lost, events>>

\* enqueueTask throws after the timer is removed.  The executor's exception is
\* that of a failed task.
FlushFails(e) ==
  /\ e \in ending
  /\ ending' = ending \ {e}
  /\ lost' = lost \cup {IdleTimer(e[1])}
  /\ IF e[2] = "route" THEN UNCHANGED <<l1, queue>>
     ELSE /\ l1' = [l1 EXCEPT ![e[1]] = NoL1(e[1])]
          /\ Put(Task("flush", Own(e[1]), FALSE)) \/ UNCHANGED queue
  /\ UNCHANGED <<mode, states, timers, note, scan, deep, store, unseen, events>>

-----------------------------------------------------------------------------
(* Timers.                                                                 *)

\* setTimeout of the in-process backend: onTimerExpired enqueues at once.
TimerFires(m) ==
  /\ mode = "local" /\ m \in timers
  /\ timers' = timers \ {m}
  /\ Put(TaskOf(m))
  /\ UNCHANGED <<mode, states, note, ending, scan, l1, deep, store, unseen, lost, events>>

\* scan: the expired timers of a shard are claimed in one call ...
ScanClaims(p) ==
  /\ mode = "shared" /\ scan[p] = {}
  /\ \E B \in SUBSET timers \ {{}} :
       /\ timers' = timers \ B
       /\ scan' = [scan EXCEPT ![p] = B]
  /\ UNCHANGED <<mode, states, queue, note, ending, l1, deep, store, unseen, lost, events>>

\* ... and enqueued one by one.
ScanEnqueues(p, m) ==
  /\ m \in scan[p]
  /\ scan' = [scan EXCEPT ![p] = @ \ {m}]
  /\ Put(TaskOf(m))
  /\ UNCHANGED <<mode, states, timers, note, ending, l1, deep, store, unseen, lost, events>>

\* enqueueTask throws, which ends the scan, or the node dies: what the scanner
\* has claimed is gone.
ScanFails(p) ==
  /\ scan[p] # {}
  /\ Event
  /\ scan' = [scan EXCEPT ![p] = {}]
  /\ lost' = lost \cup scan[p]
  /\ UNCHANGED <<mode, states, timers, queue, note, ending, l1, deep, store, unseen>>

-----------------------------------------------------------------------------
(* L1 and flush tasks: one at a time for each session.                     *)

\* executeL1 up to its reads of state and quota: a timer's task is skipped when
\* nothing is counted, any task when the quota is used up.  A skipped task
\* still goes through the cascade.
StartsL1(s) ==
  /\ l1[s].phase = "none"
  /\ \E t \in {Task("L1", Own(s), timed) : timed \in BOOLEAN}, denied \in BOOLEAN :
       /\ queue[t] > 0 /\ Refused(denied)
       /\ queue' = [queue EXCEPT ![t] = @ - 1]
       /\ l1' = [l1 EXCEPT ![s] = [NoL1(s) EXCEPT !.task = t,
                   !.phase = IF denied \/ (t.timed /\ count[s] = 0) THEN "zero" ELSE "run"]]
  /\ UNCHANGED <<mode, states, timers, note, ending, scan, deep, store, unseen, lost>>

\* executeFlush only calls flushSession again.
RunsFlush(s) ==
  LET t == Task("flush", Own(s), FALSE) IN
  /\ l1[s].phase = "none" /\ queue[t] > 0
  /\ queue' = [queue EXCEPT ![t] = @ - 1]
  /\ l1' = [l1 EXCEPT ![s] = [NoL1(s) EXCEPT !.task = t,
              !.phase = IF Flushable(s) THEN "flush" ELSE "zero"]]
  /\ IF Flushable(s)
     THEN timers' = timers \ {IdleTimer(s)} /\ ending' = ending \cup {<<s, "task">>}
     ELSE UNCHANGED <<timers, ending>>
  /\ UNCHANGED <<mode, states, note, scan, deep, store, unseen, lost, events>>

\* The runner reads at most 2 * Batch rounds past the cursor.
L1Reads(s) ==
  /\ l1[s].phase = "run"
  /\ LET left == rows[s] - cursor[s] IN
     l1' = [l1 EXCEPT ![s].phase = "read", ![s].read = IF left > 2 * Batch THEN 2 * Batch ELSE left]
  /\ UNCHANGED <<mode, states, timers, queue, note, ending, scan, deep, store, unseen, lost, events>>

\* The first Batch rounds are extracted and the cursor is saved.  A full page
\* enqueues a drain task, a smaller tail sets the idle timer.
L1Extracts(s) ==
  LET n == IF l1[s].read > Batch THEN Batch ELSE l1[s].read
      tail == l1[s].read - n
  IN
  /\ l1[s].phase = "read"
  /\ cursor' = [cursor EXCEPT ![s] = @ + n]
  /\ \E stored \in IF n = 0 THEN {FALSE} ELSE BOOLEAN :
       /\ records' = IF stored THEN [records EXCEPT ![s] = @ + 1] ELSE records
       /\ l1' = [l1 EXCEPT ![s].phase = "zero", ![s].read = 0,
                           ![s].to = IF stored THEN "profile" ELSE "session"]
  /\ queue' = IF l1[s].read = 2 * Batch THEN [queue EXCEPT ![Task("L1", Own(s), FALSE)] = @ + 1]
              ELSE queue
  /\ timers' = IF tail > 0 /\ l1[s].read < 2 * Batch THEN timers \cup {IdleTimer(s)} ELSE timers
  /\ UNCHANGED <<mode, states, note, ending, scan, deep, rows, unseen, lost, events>>

ZeroesNothing(s) ==
  /\ l1[s].phase = "zero"
  /\ l1' = [l1 EXCEPT ![s].phase = "arm"]
  /\ UNCHANGED <<mode, states, timers, queue, note, ending, scan, deep, store, unseen, lost, events>>

\* cascadeSchedule resets the count ...
Zeroes(s) ==
  /\ l1[s].phase = "zero"
  /\ count' = [count EXCEPT ![s] = 0]
  /\ warm' = [warm EXCEPT ![s] = IF @ = Unknown THEN 0 ELSE @]
  /\ l1' = [l1 EXCEPT ![s].phase = "arm"]
  /\ UNCHANGED <<mode, l2at, timers, queue, note, ending, scan, deep, store, unseen, lost, events>>

ArmsL2Swallowed(s) ==
  /\ l1[s].phase = "arm"
  /\ l1' = [l1 EXCEPT ![s] = NoL1(s)]
  /\ UNCHANGED <<mode, states, timers, queue, note, ending, scan, deep, store, unseen, lost, events>>

\* ... and advances the L2 timer before the task is acknowledged.
ArmsL2(s) ==
  LET k == <<s, l1[s].to>> IN
  /\ l1[s].phase = "arm"
  /\ timers' = timers \cup {L2Timer(k)}
  /\ lost' = lost \ {L2Timer(k)}
  /\ l1' = [l1 EXCEPT ![s] = NoL1(s)]
  /\ UNCHANGED <<mode, states, queue, note, ending, scan, deep, store, unseen, events>>

\* moveToDeadLetter removes the timers of the task's session.
Bury(t) ==
  LET own == {m \in Members : m.key = t.key} IN
  /\ timers' = timers \ own
  /\ lost' = lost \cup own

\* A call or the executor fails: the task is replaced by a retry or buried.
RetriesOrBuries(t) == \/ Put(t) /\ UNCHANGED <<timers, lost>>
                      \/ Bury(t) /\ UNCHANGED queue

L1Fails(s) ==
  /\ l1[s].phase \in {"run", "read", "zero", "arm"}
  /\ Event
  /\ RetriesOrBuries(l1[s].task)
  /\ l1' = [l1 EXCEPT ![s] = NoL1(s)]
  /\ UNCHANGED <<mode, states, note, ending, scan, deep, store, unseen>>

-----------------------------------------------------------------------------
(* L2 and L3 tasks: one at a time under each lock.                         *)

Takes(t, phase) ==
  LET x == Lock(t.key) IN
  /\ deep[x].phase = "none" /\ queue[t] > 0
  /\ queue' = [queue EXCEPT ![t] = @ - 1]
  /\ deep' = [deep EXCEPT ![x] = [task |-> t, phase |-> phase]]

\* executeL2 up to its query.  With the quota used up it returns, and the
\* cascade goes on as after a run.
StartsL2(k) ==
  /\ \E denied \in BOOLEAN :
       Refused(denied) /\ Takes(Task("L2", k, FALSE), IF denied THEN "l3" ELSE "read")
  /\ UNCHANGED <<mode, states, timers, note, ending, scan, l1, store, unseen, lost>>

\* The query for memories past the cursor.  None: the task is skipped and acknowledged.
L2Reads(x) ==
  LET k == deep[x].task.key IN
  /\ deep[x].phase = "read"
  /\ deep' = [deep EXCEPT ![x] = IF records[k[1]] = l2at[k] THEN NoDeep
                                 ELSE [@ EXCEPT !.phase = "scenes"]]
  /\ UNCHANGED <<mode, states, timers, queue, note, ending, scan, l1, store, unseen, lost, events>>

\* The scenes are written, or the extraction failed and the runner goes on, or
\* it changed nothing and the task counts as skipped.
L2Writes(x) ==
  /\ deep[x].phase = "scenes"
  /\ \/ /\ deep' = [deep EXCEPT ![x].phase = "l3"]
        /\ unseen' \in {unseen, TRUE}
        /\ UNCHANGED lost
     \/ /\ deep' = [deep EXCEPT ![x] = NoDeep]
        /\ lost' = lost \cup {L2Timer(deep[x].task.key)}
        /\ UNCHANGED unseen
  /\ UNCHANGED <<mode, states, timers, queue, note, ending, scan, l1, store, events>>

\* The cascade of L2: the L3 task first ...
CascadesL3(x) ==
  /\ deep[x].phase = "l3"
  /\ Put(Task("L3", deep[x].task.key, FALSE))
  /\ deep' = [deep EXCEPT ![x].phase = "stamp"]
  /\ UNCHANGED <<mode, states, timers, note, ending, scan, l1, store, unseen, lost, events>>

\* ... then the time of the extraction, which is the time of this call ...
StampsL2(x) ==
  LET k == deep[x].task.key IN
  /\ deep[x].phase = "stamp"
  /\ l2at' = [l2at EXCEPT ![k] = records[k[1]]]
  /\ deep' = [deep EXCEPT ![x].phase = "max"]
  /\ UNCHANGED <<mode, count, warm, timers, queue, note, ending, scan, l1, store, unseen, lost, events>>

\* ... then the timer of the longest interval.
ArmsMax(x) ==
  /\ deep[x].phase = "max"
  /\ timers' = timers \cup {MaxTimer(deep[x].task.key)}
  /\ deep' = [deep EXCEPT ![x] = NoDeep]
  /\ UNCHANGED <<mode, states, queue, note, ending, scan, l1, store, unseen, lost, events>>

\* executeL3 looks at the scenes.
StartsL3(k) ==
  /\ Takes(Task("L3", k, FALSE), "persona")
  /\ unseen' = FALSE
  /\ UNCHANGED <<mode, states, timers, note, ending, scan, l1, store, lost, events>>

EndsL3(x) ==
  /\ deep[x].phase = "persona"
  /\ deep' = [deep EXCEPT ![x] = NoDeep]
  /\ UNCHANGED <<mode, states, timers, queue, note, ending, scan, l1, store, unseen, lost, events>>

DeepFailsAcked(x) ==
  /\ deep[x].phase # "none"
  /\ Event
  /\ deep' = [deep EXCEPT ![x] = NoDeep]
  /\ unseen' = (unseen \/ deep[x].phase = "persona")
  /\ UNCHANGED <<mode, states, timers, queue, note, ending, scan, l1, store, lost>>

\* As L1Fails.  The retry of a persona run has the scenes still before it, a
\* dead letter gives them up.
DeepFails(x) ==
  /\ deep[x].phase # "none"
  /\ Event
  /\ RetriesOrBuries(deep[x].task)
  /\ unseen' = (queue' # queue /\ (unseen \/ deep[x].phase = "persona"))
  /\ deep' = [deep EXCEPT ![x] = NoDeep]
  /\ UNCHANGED <<mode, states, note, ending, scan, l1, store>>

Next ==
  \/ \E n \in Notifiers : NotifyReads(n) \/ Captures(n) \/ AdvancesWarmup(n) \/ NotifyFails(n)
  \/ \E s \in Sessions :
       \/ EndsSession(s) \/ StartsL1(s) \/ RunsFlush(s) \/ L1Reads(s) \/ L1Extracts(s)
       \/ Zeroes(s) \/ ArmsL2(s) \/ L1Fails(s)
  \/ \E e \in Sessions \X {"route", "task"} : FlushEnqueues(e) \/ FlushFails(e)
  \/ \E m \in Members : TimerFires(m)
  \/ \E p \in Scanners : ScanClaims(p) \/ ScanFails(p) \/ \E m \in Members : ScanEnqueues(p, m)
  \/ \E k \in Keys : StartsL2(k) \/ StartsL3(k)
  \/ \E x \in Locks :
       \/ L2Reads(x) \/ L2Writes(x) \/ CascadesL3(x) \/ StampsL2(x) \/ ArmsMax(x)
       \/ EndsL3(x) \/ DeepFails(x)

Spec == Init /\ [][Next]_vars

-----------------------------------------------------------------------------
Notes == [phase : {"none", "read", "advance"}, s : Sessions, rounds : 0..MaxRounds,
          warm : 0..(EveryN - 1) \cup {1}]
L1Runs == [phase : {"none", "run", "flush", "read", "zero", "arm"}, task : Tasks,
           read : 0..(2 * Batch), to : {"session", "profile"}]
DeepRuns == [phase : {"none", "read", "scenes", "l3", "stamp", "max", "persona"}, task : Tasks]

TypeOK ==
  /\ mode \in Deployments
  /\ count \in [Sessions -> 0..(EveryN - 1)]
  /\ warm \in [Sessions -> Unknown..(EveryN - 1)]
  /\ l2at \in [Keys -> Nat]
  /\ timers \subseteq Members /\ queue \in [Tasks -> Nat]
  /\ note \in [Notifiers -> Notes] /\ ending \subseteq Sessions \X {"route", "task"}
  /\ scan \in [Scanners -> SUBSET Members]
  /\ l1 \in [Sessions -> L1Runs] /\ deep \in [Locks -> DeepRuns]
  /\ rows \in [Sessions -> 0..MaxRows] /\ cursor \in [Sessions -> Nat]
  /\ records \in [Sessions -> Nat]
  /\ unseen \in BOOLEAN /\ lost \subseteq Members
  /\ events \in 0..MaxEvents

Armed(m) == m \in timers \/ \E p \in Scanners : m \in scan[p]
Queued(type, k) == \E t \in Tasks : t.type = type /\ t.key = k /\ queue[t] > 0

\* Rounds that are counted for a session are not forgotten: an idle timer is
\* armed or claimed by a scanner, an L1 or flush task is queued or has not reset
\* the count yet, or flushSession is about to enqueue one.  Only a dead letter
\* and a failed scan may take that away, until the next capture.
CountedRoundsHaveTrigger ==
  \A s \in Sessions : count[s] > 0 =>
    \/ IdleTimer(s) \in lost
    \/ Armed(IdleTimer(s))
    \/ Queued("L1", Own(s)) \/ Queued("flush", Own(s))
    \/ l1[s].phase \in {"run", "flush", "read", "zero"}
    \/ \E c \in {"route", "task"} : <<s, c>> \in ending

Running(type, k) == \E x \in Locks : deep[x].phase # "none" /\ deep[x].task = Task(type, k, FALSE)

\* Every L1 or flush task that ends well arms an L2 timer.
L1Due(s) ==
  \/ Armed(IdleTimer(s)) \/ Queued("L1", Own(s)) \/ Queued("flush", Own(s))
  \/ l1[s].phase # "none"
  \/ \E c \in {"route", "task"} : <<s, c>> \in ending

L2Due(k) == Armed(L2Timer(k)) \/ Queued("L2", k) \/ Running("L2", k)

\* Memories newer than any L2 cursor of their session have an L2 run to come:
\* for the profile, for the session itself, or after an L1 task still to end.
MemoriesHaveL2 ==
  \A s \in Sessions :
    LET ks == {<<s, "session">>, <<s, "profile">>} IN
    (\A k \in ks : records[s] > l2at[k]) =>
      L1Due(s) \/ \E k \in ks : L2Timer(k) \in lost \/ L2Due(k)

\* Scenes an L2 run has written reach an L3 run: until one looks at them, an L3
\* task is queued or about to be, or the L2 task to enqueue it is retried.
ScenesHaveL3 ==
  unseen =>
    \E k \in Keys :
      \/ L2Timer(k) \in lost
      \/ Queued("L3", k)
      \/ \E x \in Locks : deep[x].task = Task("L2", k, FALSE) /\ deep[x].phase = "l3"
      \/ L2Due(k) /\ records[k[1]] > l2at[k]

-----------------------------------------------------------------------------
(* What a comment of the code promises, and the code does not keep.         *)

\* pipeline-worker.ts:1082: L2 and L3 of an agent exclude each other, as they
\* write the same scenes and persona.
OneSceneWriter ==
  ~ \A x \in Locks : deep[x].phase \in {"scenes", "persona"}
=============================================================================
