------------------------ MODULE MemoryPipelineManager ------------------------
(***************************************************************************)
(* The in-process scheduler of the memory pipeline                         *)
(* (MemoryCore/src/utils/pipeline-manager.ts with serial-queue.ts and      *)
(* managed-timer.ts): conversations are counted and buffered per session,  *)
(* a threshold or an idle timer starts L1, L1 arms an L2 timer, L2 starts  *)
(* L3.  Each level runs on a queue of its own, one task at a time.         *)
(* An action is the code between two awaits.  Time is abstract: a timer    *)
(* that is set may fire, hours pass only when nothing shorter is due.      *)
(***************************************************************************)
EXTENDS Integers, SequencesExt

CONSTANTS
  Sessions,     \* conversation session keys
  Profiles,     \* agent/profile-level keys of L2 (buildProfileL2Key)
  ProfileOf,    \* the profile each session's memories belong to
  EveryN,       \* everyNConversations
  Warmup,       \* enableWarmup
  Batch,        \* L1_BATCH_PROCESS, the rows one L1 run extracts at most
  MaxRetries,   \* L1_MAX_RETRIES
  MaxRows,      \* bound: conversations of one session
  MaxRestarts,  \* bound: restarts after destroy()
  MaxAge,       \* bound: 0 never cold, 1 cold, 2 old enough for the collector
  Failures      \* whether the L1 and L2 runners may fail

ASSUME PipelineAssumption ==
  /\ IsFiniteSet(Sessions) /\ IsFiniteSet(Profiles) /\ Sessions \cap Profiles = {}
  /\ ProfileOf \in [Sessions -> Profiles]
  /\ EveryN \in Nat \ {0} /\ Batch \in Nat \ {0}
  /\ MaxRetries \in Nat /\ MaxRows \in Nat /\ MaxRestarts \in Nat /\ MaxAge \in 0..2
  /\ Warmup \in BOOLEAN /\ Failures \in BOOLEAN

Keys == Sessions \cup Profiles

VARIABLES
  life,      \* "up", the two flush phases of destroy(), "down", "late" (it timed out)
  known,     \* keys of sessionStates
  st,        \* sessionStates: conversation_count, warmup_threshold,
             \* l2_pending_l1_count, last_extraction_updated_time
  age,       \* last_active_time: 0 active, 1 older than the window, 2 than three
  idle,      \* sessions whose l1Idle timer is pending
  sched,     \* the l2Schedule timer: "none", "delay" (after L1) or "max" (interval)
  retries,   \* l1RetryCount
  buf,       \* messageBuffers, as a number of conversations
  notes,     \* notifyConversation calls awaiting their persist, with their threshold
  l1Queued, l2Queued,  \* the flags of SessionTimerState
  l1q, l2q,  \* the serial queues, the running task first
  l1, l2,    \* where the running tasks are
  ran,       \* keys of l2LastRunTime
  l3,        \* "idle", "running", or "again" (running with l3Pending)
  rows,      \* L0 rows recorded for each session
  cursor,    \* last_l1_cursor: how many of them have been extracted
  records,   \* L1 records L2 finds for each key, counted in batches
  unseen,    \* an L2 completion that no L3 run has started after
  ckpt,      \* pipeline_states of the checkpoint file
  restarts

states == <<known, st, age>>
timers == <<idle, sched, retries>>
l1Vars == <<l1q, l1, l1Queued, buf>>
l2Vars == <<l2q, l2, l2Queued, ran>>
store == <<rows, cursor, records>>
vars == <<life, states, timers, notes, l1Vars, l2Vars, l3, store, unseen, ckpt, restarts>>

\* getOrCreateState
Fresh == [count |-> 0, warm |-> IF Warmup THEN 1 ELSE 0, pend |-> 0, seen |-> 0]
Missing == [count |-> -1, warm |-> 0, pend |-> 0, seen |-> 0]
NoRun == [phase |-> "none", msgs |-> 0, read |-> 0, keys |-> {}]
NoL2 == [phase |-> "none", from |-> 0, upto |-> 0]

Running == life \in {"up", "flushL1", "flushL2"}
Up == life = "up"

Init ==
  /\ life = "up" /\ restarts = 0 /\ unseen = FALSE
  /\ ckpt = [k \in Keys |-> Missing] /\ known = {}
  /\ idle = {} /\ retries = [k \in Keys |-> 0] /\ buf = [s \in Sessions |-> 0]
  /\ notes = [s \in Sessions |-> <<>>] /\ l1q = <<>> /\ l2q = <<>>
  /\ l1Queued = {} /\ l2Queued = {} /\ ran = {}
  /\ l1 = NoRun /\ l2 = NoL2 /\ l3 = "idle"
  /\ st = [k \in Keys |-> Fresh] /\ age = [k \in Keys |-> 0]
  /\ sched = [k \in Keys |-> "none"]
  /\ rows = [s \in Sessions |-> 0] /\ cursor = [s \in Sessions |-> 0]
  /\ records = [k \in Keys |-> 0]

\* persistStates, merged into the checkpoint: a key that is no longer in memory
\* keeps what was persisted last.
Persist == ckpt' = [k \in Keys |-> IF k \in known' THEN st'[k] ELSE ckpt[k]]

-----------------------------------------------------------------------------
(* L1.                                                                     *)

\* getEffectiveThreshold
Threshold(x) == IF ~Warmup \/ x.warm = 0 \/ x.warm > EveryN THEN EveryN ELSE x.warm

\* Mutated: the warm-up never graduates.
WarmerForEver(x) == IF ~Warmup \/ x.warm = 0 THEN x ELSE [x EXCEPT !.warm = 2 * x.warm]

\* advanceWarmupThreshold
Warmer(x) ==
  IF ~Warmup \/ x.warm = 0 THEN x
  ELSE [x EXCEPT !.warm = IF 2 * x.warm >= EveryN THEN 0 ELSE 2 * x.warm]

\* The queue q is what is left to run, its head starts: runL1 takes the buffer.
StartL1(q, b) ==
  /\ l1q' = q
  /\ IF q = <<>> THEN l1' = NoRun /\ buf' = b
     ELSE /\ l1' = [NoRun EXCEPT !.phase = "run", !.msgs = b[Head(q)]]
          /\ buf' = [b EXCEPT ![Head(q)] = 0]

\* enqueueL1 for the sessions in new, in any order: a session that is queued or
\* running is skipped, the others leave the idle timers that i holds.
EnqueueL1(new, i) ==
  \E q \in SetToSeqs(new \ l1Queued) :
    /\ l1Queued' = l1Queued \cup new
    /\ idle' = i \ (new \ l1Queued)
    /\ IF l1q = <<>> THEN StartL1(q, buf)
       ELSE l1q' = l1q \o q /\ UNCHANGED <<l1, buf>>

\* notifyConversation up to its await: the conversation, whose row is recorded
\* already, is counted and buffered.
Notify(s) ==
  /\ Up /\ rows[s] < MaxRows
  /\ rows' = [rows EXCEPT ![s] = @ + 1]
  /\ known' = known \cup {s}
  /\ st' = [st EXCEPT ![s].count = @ + 1]
  /\ age' = [age EXCEPT ![s] = 0]
  /\ retries' = [retries EXCEPT ![s] = 0]
  /\ buf' = [buf EXCEPT ![s] = @ + 1]
  /\ notes' = [notes EXCEPT ![s] = Append(@, Threshold(st[s]))]
  /\ Persist
  /\ UNCHANGED <<life, idle, sched, l1q, l1, l1Queued, l2Vars, l3, cursor, records, unseen, restarts>>

\* Mutated: a key whose L2 is queued or running is evicted too.
EvictableInL2 == {k \in known : /\ age[k] = 2 /\ k \notin l1Queued
                                /\ k \in Sessions => buf[k] = 0}

\* What gcStaleSessions evicts.
Evictable == {k \in known : /\ age[k] = 2 /\ k \notin l1Queued \cup l2Queued
                            /\ k \in Sessions => buf[k] = 0}

\* notifyConversation after its await: at the threshold it captured, L1 is
\* enqueued and the idle timer left alone; below it the idle timer is reset,
\* and now and then the collector runs.
NotifyEnd(s) ==
  /\ Running /\ notes[s] # <<>>
  /\ notes' = [notes EXCEPT ![s] = Tail(@)]
  /\ IF st[s].count >= Head(notes[s])
     THEN EnqueueL1({s}, idle) /\ UNCHANGED <<states, sched, retries, ran>>
     ELSE \E E \in {{}, Evictable} :
            /\ idle' = (idle \cup {s}) \ E
            /\ known' = known \ E
            /\ st' = [k \in Keys |-> IF k \in E THEN Fresh ELSE st[k]]
            /\ sched' = [k \in Keys |-> IF k \in E THEN "none" ELSE sched[k]]
            /\ retries' = [k \in Keys |-> IF k \in E THEN 0 ELSE retries[k]]
            /\ ran' = ran \ E
            /\ UNCHANGED <<age, l1Vars>>
  /\ UNCHANGED <<life, l2q, l2, l2Queued, l3, store, unseen, ckpt, restarts>>

\* The l1Idle timer fires.
IdleFires(s) ==
  /\ Up /\ s \in idle
  /\ EnqueueL1({s}, idle \ {s})
  /\ UNCHANGED <<life, states, sched, retries, notes, l2Vars, l3, store, unseen, ckpt, restarts>>

\* flushSession: the timer is cancelled, buffered work enqueued.
FlushSession(s) ==
  /\ Up
  /\ EnqueueL1(IF buf[s] > 0 THEN {s} ELSE {}, idle \ {s})
  /\ UNCHANGED <<life, states, sched, retries, notes, l2Vars, l3, store, unseen, ckpt, restarts>>

\* The L1 runner reads at most 2 * Batch rows past the cursor.
L1Reads ==
  /\ Running /\ l1.phase = "run"
  /\ LET s == Head(l1q) left == rows[s] - cursor[s] IN
     l1' = [l1 EXCEPT !.phase = "read", !.read = IF left > 2 * Batch THEN 2 * Batch ELSE left]
  /\ UNCHANGED <<life, states, timers, notes, l1q, l1Queued, buf, l2Vars, l3, store, unseen, ckpt, restarts>>

\* The runner returns: the first Batch rows are extracted, and if anything was
\* stored the profile has a new record.  runL1 resets the count, advances the
\* warm-up and marks L2 pending for the profile, or for the session itself.
L1Returns ==
  LET s == Head(l1q)
      n == IF l1.read > Batch THEN Batch ELSE l1.read
  IN
  /\ Running /\ l1.phase = "read"
  /\ cursor' = [cursor EXCEPT ![s] = @ + n]
  /\ \E stored \in IF n = 0 THEN {FALSE} ELSE BOOLEAN :
       LET k == IF stored THEN ProfileOf[s] ELSE s IN
       /\ records' = IF stored THEN [records EXCEPT ![k] = @ + 1, ![s] = @ + 1] ELSE records
       /\ known' = known \cup {k}
       /\ age' = IF k \in known THEN age ELSE [age EXCEPT ![k] = 0]
       /\ st' = [[st EXCEPT ![s] = Warmer([@ EXCEPT !.count = 0])] EXCEPT ![k].pend = 1]
       /\ l1' = [l1 EXCEPT !.phase = "persist", !.keys = {k}]
  /\ retries' = [retries EXCEPT ![s] = 0]
  /\ Persist
  /\ UNCHANGED <<life, idle, sched, notes, l1q, l1Queued, buf, l2Vars, l3, rows, unseen, restarts>>

\* Mutated: a failed run gives its buffer back but arms no retry.
L1FailsForGood ==
  LET s == Head(l1q) b == [buf EXCEPT ![s] = @ + l1.msgs] IN
  /\ Failures /\ Running /\ l1.phase \in {"run", "read"}
  /\ retries' = [retries EXCEPT ![s] = IF @ > MaxRetries THEN @ ELSE @ + 1]
  /\ l1Queued' = l1Queued \ {s}
  /\ StartL1(Tail(l1q), b)
  /\ UNCHANGED <<life, states, idle, sched, notes, l2Vars, l3, store, unseen, ckpt, restarts>>

\* The runner fails: the messages go back to the buffer and the idle timer is
\* set for a retry, unless there have been too many.
L1Fails ==
  LET s == Head(l1q) b == [buf EXCEPT ![s] = @ + l1.msgs] IN
  /\ Failures /\ Running /\ l1.phase \in {"run", "read"}
  /\ retries' = [retries EXCEPT ![s] = IF @ > MaxRetries THEN @ ELSE @ + 1]
  /\ idle' = IF retries[s] < MaxRetries THEN idle \cup {s} ELSE idle
  /\ l1Queued' = l1Queued \ {s}
  /\ StartL1(Tail(l1q), b)
  /\ UNCHANGED <<life, states, sched, notes, l2Vars, l3, store, unseen, ckpt, restarts>>

\* advanceL2Timer: downward only.  A pending "delay" is never later than the
\* new one; a pending "max" may be earlier or later.
Advanced(t) == IF ~Up THEN {t} ELSE IF t = "max" THEN {"max", "delay"} ELSE {"delay"}

\* runL1 after its persist: the L2 timers are advanced; a full backlog asks for
\* another run, a small one arms the idle timer; then the task is over, and
\* only now the session may be queued again.
L1Ends ==
  LET s == Head(l1q)
      again == l1.read = 2 * Batch /\ s \notin l1Queued
      tail == l1.read > Batch /\ l1.read < 2 * Batch
  IN
  /\ Running /\ l1.phase = "persist"
  /\ \E k \in l1.keys : \E t \in Advanced(sched[k]) : sched' = [sched EXCEPT ![k] = t]
  /\ idle' = IF tail THEN idle \cup {s} ELSE idle
  /\ l1Queued' = IF again THEN l1Queued ELSE l1Queued \ {s}
  /\ StartL1(Tail(l1q) \o (IF again THEN <<s>> ELSE <<>>), buf)
  /\ UNCHANGED <<life, states, retries, notes, l2Vars, l3, store, unseen, ckpt, restarts>>

-----------------------------------------------------------------------------
(* L2 and L3.                                                              *)

StartL2(q) ==
  /\ l2q' = q
  /\ l2' = IF q = <<>> THEN NoL2
           ELSE [phase |-> "run", from |-> st[Head(q)].seen, upto |-> records[Head(q)]]

\* enqueueL2 for the keys in new; their timers are cancelled by the caller.
EnqueueL2(new) ==
  \E q \in SetToSeqs(new \ l2Queued) :
    /\ l2Queued' = l2Queued \cup new
    /\ IF l2q = <<>> THEN StartL2(q) ELSE l2q' = l2q \o q /\ UNCHANGED l2

\* onL2TimerFired: nothing without a state, nor for the periodic timer of a key
\* that has been inactive too long.
Due(k) == k \in known /\ ~(sched[k] = "max" /\ age[k] > 0)

\* Timers are longer than a checkpoint write: the one that a skipped first run
\* arms, or that L1 advances meanwhile, does not fire before that run is over.
L2Fires(k) ==
  /\ Up /\ sched[k] # "none" /\ ~(l2.phase = "skip" /\ k = Head(l2q))
  /\ sched' = [sched EXCEPT ![k] = "none"]
  /\ EnqueueL2(IF Due(k) THEN {k} ELSE {})
  /\ UNCHANGED <<life, states, idle, retries, notes, l1Vars, ran, l3, store, unseen, ckpt, restarts>>

\* Mutated: the periodic timer is not armed.
MaxForgotten(k) == sched' = [sched EXCEPT ![k] = sched[k]]

\* armL2MaxInterval replaces whatever is pending.
MaxArmed(k) == sched' = IF Up THEN [sched EXCEPT ![k] = "max"] ELSE sched

\* The L2 runner returns: it extracted what it read when it started, or there
\* was nothing, or nothing came of it (skipped).  A first run that is skipped
\* leaves no trace but its timer.
L2Returns ==
  LET k == Head(l2q) IN
  /\ Running /\ l2.phase = "run"
  /\ \E skipped \in IF l2.from = l2.upto THEN {TRUE} ELSE BOOLEAN :
       LET first == k \notin ran /\ skipped IN
       /\ st' = [st EXCEPT ![k].pend = 0, ![k].seen = IF skipped THEN @ ELSE l2.upto]
       /\ ran' = IF first THEN ran ELSE ran \cup {k}
       /\ IF first THEN MaxArmed(k) ELSE UNCHANGED sched
       /\ l2' = [l2 EXCEPT !.phase = IF first THEN "skip" ELSE "persist"]
  /\ UNCHANGED known /\ Persist
  /\ UNCHANGED <<life, age, idle, retries, notes, l1Vars, l2q, l2Queued, l3, store, unseen, restarts>>

\* Mutated: while L3 runs, a new L2 completion is taken to be covered by it.
TriggerL3Once ==
  IF ~Up THEN UNCHANGED <<l3, unseen>>
  ELSE IF l3 = "idle" THEN l3' = "running" /\ unseen' = FALSE
  ELSE UNCHANGED l3 /\ unseen' = TRUE

\* triggerL3: the run starts at once, or is marked to run again.
TriggerL3 ==
  IF ~Up THEN UNCHANGED <<l3, unseen>>
  ELSE IF l3 = "idle" THEN l3' = "running" /\ unseen' = FALSE
  ELSE l3' = "again" /\ unseen' = TRUE

NextL2 ==
  /\ l2Queued' = l2Queued \ {Head(l2q)}
  /\ StartL2(Tail(l2q))

\* runL2 after its persist: the periodic timer is armed, L3 triggered.
L2Ends ==
  /\ Running /\ l2.phase \in {"skip", "persist"}
  /\ IF l2.phase = "persist" THEN MaxArmed(Head(l2q)) /\ TriggerL3 ELSE UNCHANGED <<sched, l3, unseen>>
  /\ NextL2
  /\ UNCHANGED <<life, states, idle, retries, notes, l1Vars, ran, store, ckpt, restarts>>

L2Fails ==
  /\ Failures /\ Running /\ l2.phase = "run"
  /\ MaxArmed(Head(l2q))
  /\ NextL2
  /\ UNCHANGED <<life, states, idle, retries, notes, l1Vars, ran, l3, store, unseen, ckpt, restarts>>

\* The L3 run ends, whether its runner failed or not, and runs again if asked.
L3Ends ==
  /\ Running /\ l3 # "idle"
  /\ IF l3 = "again" /\ Up
     THEN l3' = "running" /\ unseen' = FALSE
     ELSE l3' = "idle" /\ UNCHANGED unseen
  /\ UNCHANGED <<life, states, timers, notes, l1Vars, l2Vars, store, ckpt, restarts>>

-----------------------------------------------------------------------------
(* destroy, the next process, and time.                                    *)

\* destroy(): pending idle timers are cancelled, and their buffers enqueued.
Destroy ==
  /\ Up
  /\ life' = "flushL1"
  /\ EnqueueL1({s \in idle : buf[s] > 0}, {})
  /\ UNCHANGED <<states, sched, retries, notes, l2Vars, l3, store, unseen, ckpt, restarts>>

\* The L1 queue is idle: every pending L2 timer is triggered.
FlushL2 ==
  /\ life = "flushL1" /\ l1q = <<>>
  /\ life' = "flushL2"
  /\ sched' = [k \in Keys |-> "none"]
  /\ EnqueueL2({k \in Keys : sched[k] # "none" /\ Due(k)})
  /\ UNCHANGED <<states, idle, retries, notes, l1Vars, ran, l3, store, unseen, ckpt, restarts>>

\* A timer that fires once destroyed is set does nothing.
FiresDestroyed(k) ==
  /\ life \in {"flushL1", "flushL2"}
  /\ k \in idle \/ sched[k] # "none"
  /\ \/ idle' = idle \ {k} /\ UNCHANGED sched
     \/ sched' = [sched EXCEPT ![k] = "none"] /\ UNCHANGED idle
  /\ UNCHANGED <<life, states, retries, notes, l1Vars, l2Vars, l3, store, unseen, ckpt, restarts>>

\* The flush ends, or its time is up; the states are persisted either way.
DestroyEnds ==
  /\ life \in {"flushL1", "flushL2"}
  /\ life' \in IF life = "flushL2" /\ l2q = <<>> /\ l3 = "idle" THEN {"down", "late"} ELSE {"late"}
  /\ UNCHANGED states /\ Persist
  /\ UNCHANGED <<timers, notes, l1Vars, l2Vars, l3, store, unseen, restarts>>

\* The next process: start() with the states of the checkpoint.  What was
\* pending arms an L2 timer.
Recovered(x) == [x EXCEPT !.count = 0, !.pend = IF x.count > x.pend THEN x.count ELSE x.pend]
Start ==
  /\ life \in {"down", "late"} /\ restarts < MaxRestarts
  /\ life' = "up" /\ restarts' = restarts + 1
  /\ known' = {k \in Keys : ckpt[k] # Missing}
  /\ idle' = {} /\ retries' = [k \in Keys |-> 0] /\ buf' = [s \in Sessions |-> 0]
  /\ notes' = [s \in Sessions |-> <<>>] /\ l1q' = <<>> /\ l2q' = <<>>
  /\ l1Queued' = {} /\ l2Queued' = {} /\ ran' = {}
  /\ l1' = NoRun /\ l2' = NoL2 /\ l3' = "idle" /\ unseen' = FALSE
  /\ st' = [k \in Keys |-> IF ckpt[k] = Missing THEN Fresh ELSE Recovered(ckpt[k])]
  /\ sched' = [k \in Keys |-> IF ckpt[k] # Missing /\ Recovered(ckpt[k]).pend > 0 THEN "delay" ELSE "none"]
  /\ UNCHANGED <<age, store, ckpt>>

\* A day (the active window) without conversations.  Runs and timers are
\* shorter, so that only a periodic timer of a key that is not yet cold can
\* still be pending.
DayPasses ==
  /\ Up
  /\ idle = {} /\ l1q = <<>> /\ l2q = <<>> /\ l3 = "idle"
  /\ \A s \in Sessions : notes[s] = <<>>
  /\ \A k \in Keys : sched[k] = "none" \/ (sched[k] = "max" /\ age[k] = 0)
  /\ \E k \in known : age[k] < MaxAge
  /\ age' = [k \in Keys |-> IF age[k] < MaxAge THEN age[k] + 1 ELSE age[k]]
  /\ UNCHANGED <<life, known, st, timers, notes, l1Vars, l2Vars, l3, store, unseen, ckpt, restarts>>

Next ==
  \/ \E s \in Sessions : Notify(s) \/ NotifyEnd(s) \/ IdleFires(s) \/ FlushSession(s)
  \/ L1Reads \/ L1Returns \/ L1Fails \/ L1Ends
  \/ \E k \in Keys : L2Fires(k) \/ FiresDestroyed(k)
  \/ L2Returns \/ L2Ends \/ L2Fails \/ L3Ends
  \/ Destroy \/ FlushL2 \/ DestroyEnds \/ Start \/ DayPasses

Spec == Init /\ [][Next]_vars

-----------------------------------------------------------------------------
States == [count : Nat, warm : 0..EveryN, pend : Nat, seen : Nat]

TypeOK ==
  /\ life \in {"up", "flushL1", "flushL2", "down", "late"}
  /\ known \subseteq Keys /\ st \in [Keys -> States] /\ age \in [Keys -> 0..2]
  /\ idle \subseteq Sessions /\ sched \in [Keys -> {"none", "delay", "max"}]
  /\ retries \in [Keys -> 0..(MaxRetries + 1)]
  /\ buf \in [Sessions -> Nat] /\ notes \in [Sessions -> Seq(1..EveryN)]
  /\ l1Queued \subseteq Sessions /\ l2Queued \subseteq Keys /\ ran \subseteq Keys
  /\ l1q \in Seq(Sessions) /\ l2q \in Seq(Keys)
  /\ l1 \in [phase : {"none", "run", "read", "persist"}, msgs : Nat, read : 0..(2 * Batch), keys : SUBSET Keys]
  /\ l2 \in [phase : {"none", "run", "skip", "persist"}, from : Nat, upto : Nat]
  /\ l3 \in {"idle", "running", "again"} /\ unseen \in BOOLEAN
  /\ rows \in [Sessions -> 0..MaxRows] /\ cursor \in [Sessions -> 0..MaxRows]
  /\ records \in [Keys -> Nat] /\ ckpt \in [Keys -> States \cup {Missing}]
  /\ restarts \in 0..MaxRestarts

\* A session or profile is in its queue at most once, exactly while its flag
\* says so, and whatever is queued has a state: the collector takes none away.
QueuedOnce ==
  Running =>
    /\ IsInjective(l1q) /\ Range(l1q) = l1Queued
    /\ IsInjective(l2q) /\ Range(l2q) = l2Queued
    /\ l1Queued \cup l2Queued \subseteq known

\* "On failure: put messages back into the buffer for retry": until the retries
\* are used up, a buffer that a failed run gave back has a trigger, whatever
\* flushes, timers and collections happen meanwhile.
FailedRunRetried ==
  Up => \A s \in Sessions :
    buf[s] > 0 /\ retries[s] \in 1..MaxRetries => s \in l1Queued \cup idle

\* L2 work that L1 left pending for a profile has a timer or is queued, however
\* L1, L2, their failures and their timers interleave.  (Once the profile is
\* cold its periodic timer may be dropped, pending work or not.)
PendingL2Armed ==
  Up => \A k \in known \cap Profiles :
    st[k].pend > 0 /\ age[k] = 0 =>
      sched[k] # "none" \/ k \in l2Queued \/ (l1.phase = "persist" /\ k \in l1.keys)

\* No L2 completion is missed by L3: one that comes while L3 runs makes it run
\* again.
L3SeesEveryL2 == Up /\ unseen => l3 = "again"
=============================================================================
