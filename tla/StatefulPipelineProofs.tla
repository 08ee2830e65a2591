------------------------- MODULE StatefulPipelineProofs -------------------------
(***************************************************************************)
(* StatefulPipeline for any number of sessions, concurrent notifications   *)
(* and scanners, any thresholds and batches, any number of failures.       *)
(***************************************************************************)
EXTENDS StatefulPipeline, TLAPS

-----------------------------------------------------------------------------
(* Tasks, timers and the queue.                                            *)

\* The tasks and timers the actions name are tasks and timers.
LEMMA TaskNames ==
  /\ \A s \in Sessions : Own(s) \in Keys /\ IdleTimer(s) \in Members /\ Own(s)[1] = s
  /\ \A s \in Sessions, b \in BOOLEAN : Task("L1", Own(s), b) \in Tasks
  /\ \A s \in Sessions : Task("flush", Own(s), FALSE) \in Tasks
  /\ \A k \in Keys : /\ Task("L2", k, FALSE) \in Tasks /\ Task("L3", k, FALSE) \in Tasks
                     /\ L2Timer(k) \in Members
                     /\ k[1] \in Sessions /\ Lock(k) \in Locks
  /\ \A m \in Members : TaskOf(m) \in Tasks /\ TaskOf(m).type = m.type /\ TaskOf(m).key = m.key
  BY DEF Keys, Own, IdleTimer, Member, Members, Tasks, Task, L2Timer, TaskOf, Lock, Locks

LEMMA MaxTimerType == \A k \in Keys : MaxTimer(k) \in Members
  BY DEF MaxTimer, L2Timer, Member, Members, Keys

LEMMA TaskFields ==
  ASSUME NEW t \in Tasks
  PROVE  /\ t.key \in Keys /\ t.timed \in BOOLEAN
         /\ t = Task(t.type, t.key, t.timed)
         /\ t.type \in {"L1", "flush"} => \E s \in Sessions : t.key = Own(s)
         /\ t.type # "L1" => t.timed = FALSE
         /\ t.type \in {"L1", "flush", "L2", "L3"}
  <1>1. CASE t \in [type : {"L1"}, key : {Own(s) : s \in Sessions}, timed : BOOLEAN]
    BY <1>1 DEF Task, Keys, Own
  <1>2. CASE t \in [type : {"flush"}, key : {Own(s) : s \in Sessions}, timed : {FALSE}]
    <2>1. t.type = "flush" /\ t.timed = FALSE /\ \E s \in Sessions : t.key = Own(s)
      BY <1>2
    <2>2. t = [type |-> t.type, key |-> t.key, timed |-> t.timed]
      BY <1>2
    <2>3. t.key \in Keys
      BY <2>1 DEF Keys, Own
    <2>4. t = Task(t.type, t.key, t.timed)
      BY <2>2 DEF Task
    <2> QED BY <2>1, <2>3, <2>4
  <1>3. CASE t \in [type : {"L2", "L3"}, key : Keys, timed : {FALSE}]
    BY <1>3 DEF Task
  <1> QED BY <1>1, <1>2, <1>3 DEF Tasks

QueueType == queue \in [Tasks -> Nat]

\* A task put into the queue is queued, and so is what was.
LEMMA Putting ==
  ASSUME QueueType, NEW t \in Tasks, Put(t)
  PROVE  /\ QueueType' /\ queue' # queue
         /\ Queued(t.type, t.key)'
         /\ \A type, k : Queued(type, k) => Queued(type, k)'
  BY DEF QueueType, Put, Queued

\* Taking a task disturbs the tasks of its kind and key only.
LEMMA Taking ==
  ASSUME QueueType, NEW t \in Tasks, queue[t] > 0, queue' = [queue EXCEPT ![t] = @ - 1]
  PROVE  /\ QueueType'
         /\ \A type, k : Queued(type, k) /\ ~(type = t.type /\ k = t.key) => Queued(type, k)'
  BY DEF QueueType, Queued

-----------------------------------------------------------------------------
(* Types.                                                                  *)

USE DEF states, store

LEMMA Bounds ==
  /\ EveryN \in Nat /\ EveryN > 0 /\ Batch \in Nat /\ Batch > 0 /\ MaxRounds \in Nat /\ MaxRounds > 0
  /\ MaxRows \in Nat /\ MaxEvents \in Nat
  BY StatefulAssumption

\* What stands for no call, no task is one of their values.
LEMMA IdleTypes ==
  /\ NoNote \in Notes /\ NoDeep \in DeepRuns
  /\ \A s \in Sessions : NoL1(s) \in L1Runs
  <1>1. NoNote.s \in Sessions /\ Own(CHOOSE s \in Sessions : TRUE) \in Keys
    BY StatefulAssumption DEF NoNote, Own, Keys
  <1>2. NoNote \in Notes
    BY <1>1, StatefulAssumption DEF NoNote, Notes
  <1>3. Task("L2", Own(CHOOSE s \in Sessions : TRUE), FALSE) \in Tasks
    BY <1>1, TaskNames
  <1>4. NoDeep \in DeepRuns
    BY <1>3 DEF NoDeep, DeepRuns
  <1>5. ASSUME NEW s \in Sessions PROVE NoL1(s) \in L1Runs
    <2>1. Task("L1", Own(s), FALSE) \in Tasks
      BY TaskNames
    <2>2. 0 \in 0..(2 * Batch)
      BY StatefulAssumption
    <2> QED BY <2>1, <2>2 DEF NoL1, L1Runs
  <1> QED BY <1>2, <1>4, <1>5

LEMMA TypeInit == Init => TypeOK
  <1> SUFFICES ASSUME Init PROVE TypeOK
    OBVIOUS
  <1>1. l1 \in [Sessions -> L1Runs] /\ deep \in [Locks -> DeepRuns] /\ note \in [Notifiers -> Notes]
    BY IdleTypes DEF Init
  <1>2. 0 \in 0..(EveryN - 1) /\ -1 \in (-1)..(EveryN - 1) /\ 0 \in 0..MaxRows /\ 0 \in 0..MaxEvents
    BY StatefulAssumption
  <1> QED BY <1>1, <1>2 DEF Init, TypeOK, Unknown

LEMMA NotifyReadsType == ASSUME TypeOK, NEW n \in Notifiers, NotifyReads(n) PROVE TypeOK'
  <1>1. PICK s \in Sessions, r \in 1..MaxRounds :
          /\ rows[s] + r <= MaxRows
          /\ rows' = [rows EXCEPT ![s] = @ + r]
          /\ note' = [note EXCEPT ![n] = [phase |-> "read", s |-> s, rounds |-> r,
                        warm |-> IF warm[s] = Unknown THEN 1 ELSE warm[s]]]
    BY DEF NotifyReads
  <1>2. rows' \in [Sessions -> 0..MaxRows]
    BY <1>1, Bounds DEF TypeOK
  <1>3. (IF warm[s] = Unknown THEN 1 ELSE warm[s]) \in 0..(EveryN - 1) \cup {1}
    BY Bounds DEF TypeOK, Unknown
  <1>4. note' \in [Notifiers -> Notes]
    BY <1>1, <1>3, Bounds DEF TypeOK, Notes
  <1> QED BY <1>2, <1>4 DEF TypeOK, NotifyReads

LEMMA CapturesType == ASSUME TypeOK, NEW n \in Notifiers, Captures(n) PROVE TypeOK'
  <1> DEFINE s == note[n].s
  <1>1. note[n] \in Notes /\ s \in Sessions /\ note[n].rounds \in Nat
    BY Bounds DEF TypeOK, Notes
  <1>2. Threshold(note[n].warm) \in 1..EveryN
    BY <1>1, Bounds DEF Threshold, Notes
  <1>3. IdleTimer(s) \in Members /\ Task("L1", Own(s), FALSE) \in Tasks
    BY <1>1, TaskNames
  <1>4. count' \in [Sessions -> 0..(EveryN - 1)]
    <2> DEFINE c == count[s] + note[n].rounds
    <2>1. c \in Nat /\ (c < Threshold(note[n].warm) => c \in 0..(EveryN - 1)) /\ 0 \in 0..(EveryN - 1)
      BY <1>1, <1>2, Bounds DEF TypeOK
    <2>2. CASE c >= Threshold(note[n].warm)
      <3>1. count' = [count EXCEPT ![s] = 0]
        BY <2>2 DEF Captures
      <3> QED BY <2>1, <3>1 DEF TypeOK
    <2>3. CASE ~(c >= Threshold(note[n].warm))
      <3>1. count' = [count EXCEPT ![s] = c]
        BY <2>3 DEF Captures
      <3>2. c \in 0..(EveryN - 1)
        BY <1>2, <2>1, <2>3, Bounds
      <3> QED BY <3>1, <3>2 DEF TypeOK
    <2> QED BY <2>2, <2>3
  <1>5. warm' \in [Sessions -> Unknown..(EveryN - 1)]
    BY <1>1, Bounds DEF TypeOK, Captures, Unknown
  <1>6. note' \in [Notifiers -> Notes]
    <2>1. note[n] \in Notes => [note[n] EXCEPT !.phase = "advance"] \in Notes
      BY DEF Notes
    <2> QED BY <1>1, <2>1, IdleTypes DEF TypeOK, Captures
  <1>7. queue' \in [Tasks -> Nat]
    BY <1>3, Putting DEF TypeOK, Captures, QueueType
  <1>8. timers' \subseteq Members /\ lost' \subseteq Members
    BY <1>3 DEF TypeOK, Captures
  <1> QED BY <1>4, <1>5, <1>6, <1>7, <1>8 DEF TypeOK, Captures

LEMMA AdvancesType == ASSUME TypeOK, NEW n \in Notifiers, AdvancesWarmup(n) PROVE TypeOK'
  <1> DEFINE s == note[n].s
             next == 2 * note[n].warm
  <1>1. note[n] \in Notes /\ s \in Sessions /\ next \in Nat
    BY Bounds DEF TypeOK, Notes
  <1>2. (IF next >= EveryN THEN 0 ELSE next) \in 0..(EveryN - 1) /\ 0 \in 0..(EveryN - 1)
    BY <1>1, Bounds
  <1>3. warm' \in [Sessions -> Unknown..(EveryN - 1)] /\ count' \in [Sessions -> 0..(EveryN - 1)]
    BY <1>1, <1>2, Bounds DEF TypeOK, AdvancesWarmup, Unknown
  <1>4. note' \in [Notifiers -> Notes]
    BY IdleTypes DEF TypeOK, AdvancesWarmup
  <1> QED BY <1>3, <1>4 DEF TypeOK, AdvancesWarmup

LEMMA NotifyFailsType == ASSUME TypeOK, NEW n \in Notifiers, NotifyFails(n) PROVE TypeOK'
  BY IdleTypes, Bounds DEF TypeOK, NotifyFails, Event

LEMMA EndsSessionType == ASSUME TypeOK, NEW s \in Sessions, EndsSession(s) PROVE TypeOK'
  BY Bounds DEF TypeOK, EndsSession, Event

LEMMA FlushEnqueuesType ==
  ASSUME TypeOK, NEW e \in Sessions \X {"route", "task"}, FlushEnqueues(e)
  PROVE  TypeOK'
  <1>1. queue' \in [Tasks -> Nat]
    BY TaskNames, Putting DEF TypeOK, FlushEnqueues, QueueType
  <1>2. l1' \in [Sessions -> L1Runs]
    BY DEF TypeOK, FlushEnqueues, L1Runs
  <1> QED BY <1>1, <1>2 DEF TypeOK, FlushEnqueues

LEMMA FlushFailsType ==
  ASSUME TypeOK, NEW e \in Sessions \X {"route", "task"}, FlushFails(e)
  PROVE  TypeOK'
  <1>1. queue' \in [Tasks -> Nat]
    BY TaskNames, Putting DEF TypeOK, FlushFails, QueueType
  <1>2. l1' \in [Sessions -> L1Runs]
    BY IdleTypes DEF TypeOK, FlushFails
  <1>3. lost' \subseteq Members
    BY TaskNames DEF TypeOK, FlushFails
  <1> QED BY <1>1, <1>2, <1>3 DEF TypeOK, FlushFails

LEMMA TimerType ==
  ASSUME TypeOK, NEW m \in Members,
         TimerFires(m) \/ \E p \in Scanners : ScanClaims(p) \/ ScanFails(p) \/ ScanEnqueues(p, m)
  PROVE  TypeOK'
  <1>1. CASE TimerFires(m)
    <2>1. queue' \in [Tasks -> Nat]
      BY <1>1, TaskNames, Putting DEF TypeOK, TimerFires, QueueType
    <2> QED BY <1>1, <2>1 DEF TypeOK, TimerFires
  <1>2. ASSUME NEW p \in Scanners, ScanClaims(p) PROVE TypeOK'
    BY <1>2 DEF TypeOK, ScanClaims
  <1>3. ASSUME NEW p \in Scanners, ScanFails(p) PROVE TypeOK'
    BY <1>3, Bounds DEF TypeOK, ScanFails, Event
  <1>4. ASSUME NEW p \in Scanners, ScanEnqueues(p, m) PROVE TypeOK'
    <2>1. queue' \in [Tasks -> Nat]
      BY <1>4, TaskNames, Putting DEF TypeOK, ScanEnqueues, QueueType
    <2> QED BY <1>4, <2>1 DEF TypeOK, ScanEnqueues
  <1> QED BY <1>1, <1>2, <1>3, <1>4

LEMMA StartsL1Type == ASSUME TypeOK, NEW s \in Sessions, StartsL1(s) PROVE TypeOK'
  <1>1. PICK t \in {Task("L1", Own(s), timed) : timed \in BOOLEAN}, denied \in BOOLEAN :
          /\ queue[t] > 0 /\ Refused(denied)
          /\ queue' = [queue EXCEPT ![t] = @ - 1]
          /\ l1' = [l1 EXCEPT ![s] = [NoL1(s) EXCEPT !.task = t,
                      !.phase = IF denied \/ (t.timed /\ count[s] = 0) THEN "zero" ELSE "run"]]
    BY DEF StartsL1
  <1>2. t \in Tasks
    BY TaskNames
  <1>3. queue' \in [Tasks -> Nat]
    BY <1>1, <1>2, Taking DEF TypeOK, QueueType
  <1>4. l1' \in [Sessions -> L1Runs]
    <2>1. \A ph \in {"zero", "run"} : [NoL1(s) EXCEPT !.task = t, !.phase = ph] \in L1Runs
      BY <1>2, IdleTypes DEF L1Runs
    <2> QED BY <1>1, <2>1 DEF TypeOK
  <1>5. events' \in 0..MaxEvents
    BY <1>1, Bounds DEF TypeOK, Refused, Event
  <1> QED BY <1>3, <1>4, <1>5 DEF TypeOK, StartsL1

LEMMA RunsFlushType == ASSUME TypeOK, NEW s \in Sessions, RunsFlush(s) PROVE TypeOK'
  <1> DEFINE t == Task("flush", Own(s), FALSE)
  <1>1. t \in Tasks
    BY TaskNames
  <1>2. queue' \in [Tasks -> Nat]
    BY <1>1, Taking DEF TypeOK, QueueType, RunsFlush
  <1>3. l1' \in [Sessions -> L1Runs]
    <2>1. \A ph \in {"flush", "zero"} : [NoL1(s) EXCEPT !.task = t, !.phase = ph] \in L1Runs
      BY <1>1, IdleTypes DEF L1Runs
    <2> QED BY <2>1 DEF TypeOK, RunsFlush
  <1>4. timers' \subseteq Members /\ ending' \subseteq Sessions \X {"route", "task"}
    BY DEF TypeOK, RunsFlush
  <1> QED BY <1>2, <1>3, <1>4 DEF TypeOK, RunsFlush

\* A page is at most 2 * Batch rounds, none of them extracted before.
LEMMA PageSize ==
  ASSUME NEW left \in Nat
  PROVE  LET page == IF left > 2 * Batch THEN 2 * Batch ELSE left
         IN  page \in 0..(2 * Batch) /\ page <= left
  BY Bounds

LEMMA L1ReadsType ==
  ASSUME TypeOK, NEW s \in Sessions, cursor[s] <= rows[s], L1Reads(s)
  PROVE  TypeOK'
  <1>1. rows[s] - cursor[s] \in Nat
    BY Bounds DEF TypeOK
  <1>2. l1' \in [Sessions -> L1Runs]
    <2>1. PICK n \in 0..(2 * Batch) : l1' = [l1 EXCEPT ![s].phase = "read", ![s].read = n]
      BY <1>1, PageSize DEF L1Reads
    <2>2. \A r \in L1Runs : [r EXCEPT !.phase = "read", !.read = n] \in L1Runs
      BY DEF L1Runs
    <2>3. l1' = [l1 EXCEPT ![s] = [l1[s] EXCEPT !.phase = "read", !.read = n]]
      BY <2>1 DEF TypeOK
    <2> QED BY <2>2, <2>3 DEF TypeOK
  <1> QED BY <1>2 DEF TypeOK, L1Reads

LEMMA L1ExtractsType == ASSUME TypeOK, NEW s \in Sessions, L1Extracts(s) PROVE TypeOK'
  <1>1. l1[s].read \in 0..(2 * Batch) /\ (IF l1[s].read > Batch THEN Batch ELSE l1[s].read) \in Nat
    BY Bounds DEF TypeOK, L1Runs
  <1>2. cursor' \in [Sessions -> Nat]
    BY <1>1 DEF TypeOK, L1Extracts
  <1>3. records' \in [Sessions -> Nat] /\ l1' \in [Sessions -> L1Runs]
    <2>1. PICK stored \in BOOLEAN :
            /\ records' = IF stored THEN [records EXCEPT ![s] = @ + 1] ELSE records
            /\ l1' = [l1 EXCEPT ![s].phase = "zero", ![s].read = 0,
                                ![s].to = IF stored THEN "profile" ELSE "session"]
      BY DEF L1Extracts
    <2>2. 0 \in 0..(2 * Batch)
      BY Bounds
    <2>3. \A r \in L1Runs, to \in {"profile", "session"} :
            [r EXCEPT !.phase = "zero", !.read = 0, !.to = to] \in L1Runs
      BY <2>2 DEF L1Runs
    <2>4. l1' = [l1 EXCEPT ![s] = [@ EXCEPT !.phase = "zero", !.read = 0,
                                            !.to = IF stored THEN "profile" ELSE "session"]]
      BY <2>1 DEF TypeOK
    <2>5. l1' \in [Sessions -> L1Runs]
      BY <2>3, <2>4 DEF TypeOK
    <2> QED BY <2>1, <2>5 DEF TypeOK
  <1>4. queue' \in [Tasks -> Nat]
    <2>1. Task("L1", Own(s), FALSE) \in Tasks
      BY TaskNames
    <2>2. queue' \in {queue, [queue EXCEPT ![Task("L1", Own(s), FALSE)] = @ + 1]}
      BY DEF L1Extracts
    <2>3. \A t \in Tasks : [queue EXCEPT ![t] = @ + 1] \in [Tasks -> Nat]
      BY DEF TypeOK
    <2>4. queue \in [Tasks -> Nat]
      BY DEF TypeOK
    <2> QED BY <2>1, <2>2, <2>3, <2>4
  <1>5. timers' \subseteq Members
    BY TaskNames DEF TypeOK, L1Extracts
  <1> QED BY <1>2, <1>3, <1>4, <1>5 DEF TypeOK, L1Extracts

LEMMA ZeroesType == ASSUME TypeOK, NEW s \in Sessions, Zeroes(s) PROVE TypeOK'
  <1>1. count' \in [Sessions -> 0..(EveryN - 1)] /\ warm' \in [Sessions -> Unknown..(EveryN - 1)]
    BY Bounds DEF TypeOK, Zeroes, Unknown
  <1>2. l1' \in [Sessions -> L1Runs]
    BY DEF TypeOK, Zeroes, L1Runs
  <1> QED BY <1>1, <1>2 DEF TypeOK, Zeroes

LEMMA ArmsL2Type == ASSUME TypeOK, NEW s \in Sessions, ArmsL2(s) PROVE TypeOK'
  <1>1. <<s, l1[s].to>> \in Keys
    BY DEF TypeOK, L1Runs, Keys
  <1>2. L2Timer(<<s, l1[s].to>>) \in Members
    BY <1>1, TaskNames
  <1> QED BY <1>2, IdleTypes DEF TypeOK, ArmsL2

\* A failing task is queued again or buried; neither leaves the types.
LEMMA RetryType ==
  ASSUME TypeOK, NEW t \in Tasks, RetriesOrBuries(t)
  PROVE  timers' \subseteq Members /\ lost' \subseteq Members /\ queue' \in [Tasks -> Nat]
  <1>1. CASE Put(t) /\ UNCHANGED <<timers, lost>>
    BY <1>1, Putting DEF TypeOK, QueueType
  <1>2. CASE Bury(t) /\ UNCHANGED queue
    BY <1>2 DEF TypeOK, Bury
  <1> QED BY <1>1, <1>2 DEF RetriesOrBuries

LEMMA L1FailsType == ASSUME TypeOK, NEW s \in Sessions, L1Fails(s) PROVE TypeOK'
  <1>1. l1[s].task \in Tasks
    BY DEF TypeOK, L1Runs
  <1>2. timers' \subseteq Members /\ lost' \subseteq Members /\ queue' \in [Tasks -> Nat]
    BY <1>1, RetryType DEF L1Fails
  <1> QED BY <1>2, IdleTypes, Bounds DEF TypeOK, L1Fails, Event

LEMMA StartsDeepType == ASSUME TypeOK, NEW k \in Keys, StartsL2(k) \/ StartsL3(k) PROVE TypeOK'
  <1>1. ASSUME NEW t \in Tasks, NEW ph \in {"l3", "read", "persona"}, Takes(t, ph)
        PROVE  queue' \in [Tasks -> Nat] /\ deep' \in [Locks -> DeepRuns]
    <2>1. queue' \in [Tasks -> Nat]
      BY <1>1, Taking DEF TypeOK, QueueType, Takes
    <2> QED BY <1>1, <2>1 DEF TypeOK, DeepRuns, Takes
  <1>2. CASE StartsL2(k)
    <2>1. PICK denied \in BOOLEAN :
            Refused(denied) /\ Takes(Task("L2", k, FALSE), IF denied THEN "l3" ELSE "read")
      BY <1>2 DEF StartsL2
    <2>2. queue' \in [Tasks -> Nat] /\ deep' \in [Locks -> DeepRuns]
      BY <1>1, <2>1, TaskNames
    <2>3. events' \in 0..MaxEvents
      BY <2>1, Bounds DEF TypeOK, Refused, Event
    <2> QED BY <1>2, <2>2, <2>3 DEF TypeOK, StartsL2
  <1>3. CASE StartsL3(k)
    <2>1. queue' \in [Tasks -> Nat] /\ deep' \in [Locks -> DeepRuns]
      BY <1>1, <1>3, TaskNames DEF StartsL3
    <2> QED BY <1>3, <2>1 DEF TypeOK, StartsL3
  <1> QED BY <1>2, <1>3

LEMMA DeepType ==
  ASSUME TypeOK, NEW x \in Locks,
         \/ L2Reads(x) \/ L2Writes(x) \/ CascadesL3(x) \/ StampsL2(x) \/ ArmsMax(x)
         \/ EndsL3(x) \/ DeepFails(x)
  PROVE  TypeOK'
  <1>1. deep[x].task \in Tasks /\ deep[x].task.key \in Keys
    BY TaskFields DEF TypeOK, DeepRuns
  <1>2. deep' \in [Locks -> DeepRuns]
    <2>1. \/ deep' = [deep EXCEPT ![x] = NoDeep]
          \/ \E ph \in {"scenes", "l3", "stamp", "max"} : deep' = [deep EXCEPT ![x] = [@ EXCEPT !.phase = ph]]
      BY DEF TypeOK, L2Reads, L2Writes, CascadesL3, StampsL2, ArmsMax, EndsL3, DeepFails
    <2>2. \A d \in DeepRuns, ph \in {"scenes", "l3", "stamp", "max"} : [d EXCEPT !.phase = ph] \in DeepRuns
      BY DEF DeepRuns
    <2>3. \A ph \in {"scenes", "l3", "stamp", "max"} : [deep[x] EXCEPT !.phase = ph] \in DeepRuns
      BY <2>2 DEF TypeOK
    <2>4. NoDeep \in DeepRuns
      BY IdleTypes
    <2> QED BY <2>1, <2>3, <2>4 DEF TypeOK
  <1>3. CASE L2Reads(x) \/ EndsL3(x)
    BY <1>2, <1>3 DEF TypeOK, L2Reads, EndsL3
  <1>4. CASE L2Writes(x)
    BY <1>1, <1>2, <1>4, TaskNames DEF TypeOK, L2Writes
  <1>5. CASE CascadesL3(x)
    <2>1. queue' \in [Tasks -> Nat]
      BY <1>1, <1>5, TaskNames, Putting DEF TypeOK, CascadesL3, QueueType
    <2> QED BY <1>2, <1>5, <2>1 DEF TypeOK, CascadesL3
  <1>6. CASE StampsL2(x)
    <2>1. records[deep[x].task.key[1]] \in Nat
      BY <1>1, TaskNames DEF TypeOK
    <2> QED BY <1>2, <1>6, <2>1 DEF TypeOK, StampsL2
  <1>7. CASE ArmsMax(x)
    BY <1>1, <1>2, <1>7, MaxTimerType DEF TypeOK, ArmsMax
  <1>8. CASE DeepFails(x)
    <2>1. timers' \subseteq Members /\ lost' \subseteq Members /\ queue' \in [Tasks -> Nat]
      BY <1>1, <1>8, RetryType DEF DeepFails
    <2>2. unseen' \in BOOLEAN /\ events' \in 0..MaxEvents
      BY <1>8, Bounds DEF TypeOK, DeepFails, Event
    <2> QED BY <1>2, <1>8, <2>1, <2>2 DEF TypeOK, DeepFails
  <1> QED BY <1>3, <1>4, <1>5, <1>6, <1>7, <1>8

-----------------------------------------------------------------------------
(* What runs.                                                              *)

\* A task that runs for a session is one of its own, and its phase says of which
\* type; a flush task stays where it is while flushSession runs for it; a page
\* holds recorded rounds only.
L1Sound(s) ==
  /\ l1[s].phase # "none" => l1[s].task.key = Own(s) /\ l1[s].task.type \in {"L1", "flush"}
  /\ l1[s].phase \in {"run", "read"} => l1[s].task.type = "L1"
  /\ l1[s].phase = "flush" => l1[s].task.type = "flush"
  /\ <<s, "task">> \in ending => l1[s].phase = "flush"
  /\ cursor[s] <= rows[s]
  /\ l1[s].phase = "read" => cursor[s] + l1[s].read <= rows[s]

\* A task under a lock is one of that scope, and its phase says of which level;
\* scenes are written from memories past the cursor; once the cascade has begun
\* the L3 task is queued, because L3 waits for the same lock.
DeepSound(x) ==
  LET k == deep[x].task.key IN
  /\ deep[x].phase # "none" => Lock(k) = x
  /\ deep[x].phase = "persona" => deep[x].task.type = "L3"
  /\ deep[x].phase \notin {"none", "persona"} => deep[x].task.type = "L2"
  /\ deep[x].phase = "scenes" => records[k[1]] > l2at[k]
  /\ deep[x].phase \in {"stamp", "max"} => Queued("L3", k)

SoundInv ==
  /\ TypeOK
  /\ \A s \in Sessions : L1Sound(s)
  /\ \A x \in Locks : DeepSound(x)
  /\ \A k \in Keys : l2at[k] <= records[k[1]]

LEMMA SoundInit == Init => SoundInv
  <1> SUFFICES ASSUME Init PROVE SoundInv
    OBVIOUS
  <1>1. TypeOK
    BY TypeInit
  <1>2. ASSUME NEW s \in Sessions PROVE L1Sound(s)
    BY DEF Init, L1Sound, NoL1
  <1>3. ASSUME NEW x \in Locks PROVE DeepSound(x)
    BY DEF Init, DeepSound, NoDeep
  <1>4. ASSUME NEW k \in Keys PROVE l2at[k] <= records[k[1]]
    <2>1. k[1] \in Sessions
      BY TaskNames
    <2>2. l2at[k] = 0 /\ records[k[1]] = 0
      BY <2>1 DEF Init
    <2> QED BY <2>2
  <1> QED BY <1>1, <1>2, <1>3, <1>4 DEF SoundInv

\* The types of every step.
LEMMA TypeStep == SoundInv /\ [Next]_vars => TypeOK'
  <1> SUFFICES ASSUME SoundInv, [Next]_vars PROVE TypeOK'
    OBVIOUS
  <1>0. TypeOK /\ \A s \in Sessions : cursor[s] <= rows[s]
    BY DEF SoundInv, L1Sound
  <1>1. ASSUME NEW n \in Notifiers, NotifyReads(n) \/ Captures(n) \/ AdvancesWarmup(n) \/ NotifyFails(n)
        PROVE  TypeOK'
    BY <1>0, <1>1, NotifyReadsType, CapturesType, AdvancesType, NotifyFailsType
  <1>2. ASSUME NEW s \in Sessions,
               \/ EndsSession(s) \/ StartsL1(s) \/ RunsFlush(s) \/ L1Reads(s) \/ L1Extracts(s)
               \/ Zeroes(s) \/ ArmsL2(s) \/ L1Fails(s)
        PROVE  TypeOK'
    BY <1>0, <1>2, EndsSessionType, StartsL1Type, RunsFlushType, L1ReadsType, L1ExtractsType, ZeroesType,
       ArmsL2Type, L1FailsType
  <1>3. ASSUME NEW e \in Sessions \X {"route", "task"}, FlushEnqueues(e) \/ FlushFails(e) PROVE TypeOK'
    BY <1>0, <1>3, FlushEnqueuesType, FlushFailsType
  <1>4. ASSUME NEW m \in Members, TimerFires(m) \/ \E p \in Scanners : ScanClaims(p) \/ ScanFails(p) \/ ScanEnqueues(p, m)
        PROVE  TypeOK'
    BY <1>0, <1>4, TimerType
  <1>5. ASSUME NEW p \in Scanners, ScanClaims(p) \/ ScanFails(p) PROVE TypeOK'
    <2>1. \E m : m \in Members
      BY TaskNames, StatefulAssumption
    <2> QED BY <1>4, <1>5, <2>1
  <1>6. ASSUME NEW k \in Keys, StartsL2(k) \/ StartsL3(k) PROVE TypeOK'
    BY <1>0, <1>6, StartsDeepType
  <1>7. ASSUME NEW x \in Locks,
               \/ L2Reads(x) \/ L2Writes(x) \/ CascadesL3(x) \/ StampsL2(x) \/ ArmsMax(x)
               \/ EndsL3(x) \/ DeepFails(x)
        PROVE  TypeOK'
    BY <1>0, <1>7, DeepType
  <1>8. CASE UNCHANGED vars
    BY <1>0, <1>8 DEF TypeOK, vars
  <1> QED BY <1>1, <1>2, <1>3, <1>4, <1>5, <1>6, <1>7, <1>8 DEF Next

-----------------------------------------------------------------------------
(* The queue, step by step.                                                *)

QueueKept == \A type, k : Queued(type, k) => Queued(type, k)'

LEMMA SameQueue == UNCHANGED queue => QueueKept
  BY DEF QueueKept, Queued

\* A failing task is queued again, or its timers are taken for lost.
LEMMA Retrying ==
  ASSUME TypeOK, NEW t \in Tasks, RetriesOrBuries(t)
  PROVE  /\ QueueKept
         /\ \/ Queued(t.type, t.key)' /\ queue' # queue /\ UNCHANGED <<timers, lost>>
            \/ \A m \in Members : m.key = t.key => m \in lost'
         /\ lost \subseteq lost' /\ \A m \in timers : m \in timers' \/ m \in lost'
  <1>1. CASE Put(t) /\ UNCHANGED <<timers, lost>>
    BY <1>1, Putting DEF QueueKept, TypeOK, QueueType
  <1>2. CASE Bury(t) /\ UNCHANGED queue
    BY <1>2, SameQueue DEF Bury
  <1> QED BY <1>1, <1>2 DEF RetriesOrBuries

\* Only the start of a task takes one from the queue.
SomeStart ==
  \/ \E s \in Sessions : StartsL1(s) \/ RunsFlush(s)
  \/ \E k \in Keys : StartsL2(k) \/ StartsL3(k)

LEMMA QueueStep ==
  ASSUME SoundInv, [Next]_vars
  PROVE  QueueKept \/ SomeStart
  <1>0. TypeOK /\ QueueType
    BY DEF SoundInv, TypeOK, QueueType
  <1>a. ASSUME NEW t \in Tasks, Put(t) PROVE QueueKept
    BY <1>0, <1>a, Putting DEF QueueKept
  <1>1. ASSUME NEW n \in Notifiers, NotifyReads(n) \/ Captures(n) \/ AdvancesWarmup(n) \/ NotifyFails(n)
        PROVE  QueueKept
    <2>1. note[n].s \in Sessions
      BY <1>0 DEF TypeOK, Notes
    <2> QED BY <1>1, <1>a, <2>1, SameQueue, TaskNames DEF NotifyReads, Captures, AdvancesWarmup, NotifyFails
  <1>2. ASSUME NEW s \in Sessions, EndsSession(s) \/ L1Reads(s) \/ Zeroes(s) \/ ArmsL2(s)
        PROVE  QueueKept
    BY <1>2, SameQueue DEF EndsSession, L1Reads, Zeroes, ArmsL2
  <1>3. ASSUME NEW s \in Sessions, L1Extracts(s) PROVE QueueKept
    <2>1. Task("L1", Own(s), FALSE) \in Tasks
      BY TaskNames
    <2>2. UNCHANGED queue \/ Put(Task("L1", Own(s), FALSE))
      BY <1>3 DEF L1Extracts, Put
    <2> QED BY <1>a, <2>1, <2>2, SameQueue
  <1>4. ASSUME NEW s \in Sessions, L1Fails(s) PROVE QueueKept
    <2>1. l1[s].task \in Tasks
      BY <1>0 DEF TypeOK, L1Runs
    <2> QED BY <1>0, <1>4, <2>1, Retrying DEF L1Fails
  <1>5. ASSUME NEW s \in Sessions, StartsL1(s) \/ RunsFlush(s) PROVE SomeStart
    BY <1>5 DEF SomeStart
  <1>7. ASSUME NEW e \in Sessions \X {"route", "task"}, FlushEnqueues(e) \/ FlushFails(e) PROVE QueueKept
    BY <1>7, <1>a, SameQueue, TaskNames DEF FlushEnqueues, FlushFails
  <1>8. ASSUME NEW m \in Members, TimerFires(m) \/ \E p \in Scanners : ScanEnqueues(p, m) PROVE QueueKept
    BY <1>8, <1>a, TaskNames DEF TimerFires, ScanEnqueues
  <1>9. ASSUME NEW p \in Scanners, ScanClaims(p) \/ ScanFails(p) PROVE QueueKept
    BY <1>9, SameQueue DEF ScanClaims, ScanFails
  <1>10. ASSUME NEW k \in Keys, StartsL2(k) \/ StartsL3(k) PROVE SomeStart
    BY <1>10 DEF SomeStart
  <1>12. ASSUME NEW x \in Locks,
               \/ L2Reads(x) \/ L2Writes(x) \/ CascadesL3(x) \/ StampsL2(x) \/ ArmsMax(x)
               \/ EndsL3(x) \/ DeepFails(x)
        PROVE  QueueKept
    <2>1. deep[x].task \in Tasks /\ deep[x].task.key \in Keys
      BY <1>0, TaskFields DEF TypeOK, DeepRuns
    <2>2. CASE CascadesL3(x)
      BY <1>a, <2>1, <2>2, TaskNames DEF CascadesL3
    <2>3. CASE DeepFails(x)
      BY <1>0, <2>1, <2>3, Retrying DEF DeepFails
    <2> QED BY <1>12, <2>2, <2>3, SameQueue DEF L2Reads, L2Writes, StampsL2, ArmsMax, EndsL3
  <1>13. CASE UNCHANGED vars
    BY <1>13, SameQueue DEF vars
  <1> QED BY <1>1, <1>2, <1>3, <1>4, <1>5, <1>7, <1>8, <1>9, <1>10, <1>12, <1>13 DEF Next

\* A task of a kind and key stays queued unless one of them starts.
LEMMA StaysQueued ==
  ASSUME SoundInv, [Next]_vars
  PROVE  /\ \A s \in Sessions : Queued("L1", Own(s)) => Queued("L1", Own(s))' \/ StartsL1(s)
         /\ \A s \in Sessions : Queued("flush", Own(s)) => Queued("flush", Own(s))' \/ RunsFlush(s)
         /\ \A k \in Keys : Queued("L2", k) => Queued("L2", k)' \/ StartsL2(k)
         /\ \A k \in Keys : Queued("L3", k) => Queued("L3", k)' \/ StartsL3(k)
  <1> DEFINE Goal ==
        /\ \A s \in Sessions : Queued("L1", Own(s)) => Queued("L1", Own(s))' \/ StartsL1(s)
        /\ \A s \in Sessions : Queued("flush", Own(s)) => Queued("flush", Own(s))' \/ RunsFlush(s)
        /\ \A k \in Keys : Queued("L2", k) => Queued("L2", k)' \/ StartsL2(k)
        /\ \A k \in Keys : Queued("L3", k) => Queued("L3", k)' \/ StartsL3(k)
  <1>0. QueueType
    BY DEF SoundInv, TypeOK, QueueType
  <1>a. \A s, r \in Sessions : Own(s) = Own(r) => s = r
    BY DEF Own
  <1>1. CASE QueueKept
    BY <1>1 DEF QueueKept
  <1>2. ASSUME NEW s \in Sessions, StartsL1(s) PROVE Goal
    <2>1. PICK b \in BOOLEAN : queue[Task("L1", Own(s), b)] > 0 /\ queue' = [queue EXCEPT ![Task("L1", Own(s), b)] = @ - 1]
      BY <1>2 DEF StartsL1
    <2> DEFINE t == Task("L1", Own(s), b)
    <2>2. t \in Tasks /\ t.type = "L1" /\ t.key = Own(s)
      BY TaskNames DEF Task
    <2> HIDE DEF t
    <2>3. \A type, k : Queued(type, k) /\ ~(type = "L1" /\ k = Own(s)) => Queued(type, k)'
      BY <1>0, <2>1, <2>2, Taking DEF t
    <2> QED BY <1>2, <1>a, <2>3
  <1>3. ASSUME NEW s \in Sessions, RunsFlush(s) PROVE Goal
    <2> DEFINE t == Task("flush", Own(s), FALSE)
    <2>1. queue[t] > 0 /\ queue' = [queue EXCEPT ![t] = @ - 1]
      BY <1>3 DEF RunsFlush
    <2>2. t \in Tasks /\ t.type = "flush" /\ t.key = Own(s)
      BY TaskNames DEF Task
    <2> HIDE DEF t
    <2>3. \A type, k : Queued(type, k) /\ ~(type = "flush" /\ k = Own(s)) => Queued(type, k)'
      BY <1>0, <2>1, <2>2, Taking
    <2> QED BY <1>3, <1>a, <2>3
  <1>4. ASSUME NEW k \in Keys, StartsL2(k) PROVE Goal
    <2> DEFINE t == Task("L2", k, FALSE)
    <2>1. queue[t] > 0 /\ queue' = [queue EXCEPT ![t] = @ - 1]
      BY <1>4 DEF StartsL2, Takes
    <2>2. t \in Tasks /\ t.type = "L2" /\ t.key = k
      BY TaskNames DEF Task
    <2> HIDE DEF t
    <2>3. \A type, j : Queued(type, j) /\ ~(type = "L2" /\ j = k) => Queued(type, j)'
      BY <1>0, <2>1, <2>2, Taking
    <2> QED BY <1>4, <2>3
  <1>5. ASSUME NEW k \in Keys, StartsL3(k) PROVE Goal
    <2> DEFINE t == Task("L3", k, FALSE)
    <2>1. queue[t] > 0 /\ queue' = [queue EXCEPT ![t] = @ - 1]
      BY <1>5 DEF StartsL3, Takes
    <2>2. t \in Tasks /\ t.type = "L3" /\ t.key = k
      BY TaskNames DEF Task
    <2> HIDE DEF t
    <2>3. \A type, j : Queued(type, j) /\ ~(type = "L3" /\ j = k) => Queued(type, j)'
      BY <1>0, <2>1, <2>2, Taking
    <2> QED BY <1>5, <2>3
  <1> HIDE DEF Goal
  <1>6. Goal
    <2>1. QueueKept => Goal
      BY <1>1 DEF Goal
    <2>2. CASE SomeStart
      BY <1>2, <1>3, <1>4, <1>5, <2>2 DEF SomeStart
    <2> QED BY <2>1, <2>2, QueueStep
  <1> QED BY <1>6 DEF Goal

-----------------------------------------------------------------------------
(* What changes the other variables.                                       *)

DeepActs(x) ==
  \/ \E k \in Keys : Lock(k) = x /\ (StartsL2(k) \/ StartsL3(k))
  \/ L2Reads(x) \/ L2Writes(x) \/ CascadesL3(x) \/ StampsL2(x) \/ ArmsMax(x)
  \/ EndsL3(x) \/ DeepFails(x)

\* Only a task of its scope changes what runs under a lock.
LEMMA DeepChanges ==
  ASSUME SoundInv, [Next]_vars, NEW x \in Locks
  PROVE  deep'[x] = deep[x] \/ DeepActs(x)
  <1>0. deep \in [Locks -> DeepRuns]
    BY DEF SoundInv, TypeOK
  <1>1. ASSUME NEW n \in Notifiers, NotifyReads(n) \/ Captures(n) \/ AdvancesWarmup(n) \/ NotifyFails(n)
        PROVE  deep'[x] = deep[x]
    BY <1>1 DEF NotifyReads, Captures, AdvancesWarmup, NotifyFails
  <1>2. ASSUME NEW s \in Sessions,
               \/ EndsSession(s) \/ StartsL1(s) \/ RunsFlush(s) \/ L1Reads(s) \/ L1Extracts(s)
               \/ Zeroes(s) \/ ArmsL2(s) \/ L1Fails(s)
        PROVE  deep'[x] = deep[x]
    BY <1>2 DEF EndsSession, StartsL1, RunsFlush, L1Reads, L1Extracts, Zeroes, ArmsL2, L1Fails
  <1>3. ASSUME NEW e \in Sessions \X {"route", "task"}, FlushEnqueues(e) \/ FlushFails(e)
        PROVE  deep'[x] = deep[x]
    BY <1>3 DEF FlushEnqueues, FlushFails
  <1>4. ASSUME NEW m \in Members, TimerFires(m) \/ \E p \in Scanners : ScanEnqueues(p, m)
        PROVE  deep'[x] = deep[x]
    BY <1>4 DEF TimerFires, ScanEnqueues
  <1>5. ASSUME NEW p \in Scanners, ScanClaims(p) \/ ScanFails(p) PROVE deep'[x] = deep[x]
    BY <1>5 DEF ScanClaims, ScanFails
  <1>6. ASSUME NEW k \in Keys, StartsL2(k) \/ StartsL3(k) PROVE deep'[x] = deep[x] \/ DeepActs(x)
    <2>1. ASSUME NEW t, NEW ph, t.key = k, Takes(t, ph) PROVE deep'[x] = deep[x] \/ Lock(k) = x
      BY <1>0, <2>1 DEF Takes
    <2>2. Task("L2", k, FALSE).key = k /\ Task("L3", k, FALSE).key = k
      BY DEF Task
    <2>3. deep'[x] = deep[x] \/ Lock(k) = x
      <3>1. CASE StartsL2(k)
        <4>1. PICK ph : Takes(Task("L2", k, FALSE), ph)
          BY <3>1 DEF StartsL2
        <4> QED BY <2>1, <2>2, <4>1
      <3>2. CASE StartsL3(k)
        BY <2>1, <2>2, <3>2 DEF StartsL3
      <3> QED BY <1>6, <3>1, <3>2
    <2> QED BY <1>6, <2>3 DEF DeepActs
  <1>7. ASSUME NEW y \in Locks,
               \/ L2Reads(y) \/ L2Writes(y) \/ CascadesL3(y) \/ StampsL2(y) \/ ArmsMax(y)
               \/ EndsL3(y) \/ DeepFails(y)
        PROVE  deep'[x] = deep[x] \/ DeepActs(x)
    <2>1. CASE y = x
      BY <1>7, <2>1 DEF DeepActs
    <2>2. CASE y # x
      BY <1>0, <1>7, <2>2 DEF L2Reads, L2Writes, CascadesL3, StampsL2, ArmsMax, EndsL3, DeepFails
    <2> QED BY <2>1, <2>2
  <1>8. CASE UNCHANGED vars
    BY <1>8 DEF vars
  <1> QED BY <1>1, <1>2, <1>3, <1>4, <1>5, <1>6, <1>7, <1>8 DEF Next

L1Acts(s) ==
  \/ StartsL1(s) \/ RunsFlush(s) \/ L1Reads(s) \/ L1Extracts(s) \/ Zeroes(s) \/ ArmsL2(s) \/ L1Fails(s)
  \/ \E e \in ending : e = <<s, "task">> /\ (FlushEnqueues(e) \/ FlushFails(e))

\* Only a task of the session changes what runs for it.
LEMMA L1Changes ==
  ASSUME SoundInv, [Next]_vars, NEW s \in Sessions
  PROVE  l1'[s] = l1[s] \/ L1Acts(s)
  <1>0. l1 \in [Sessions -> L1Runs]
    BY DEF SoundInv, TypeOK
  <1>1. ASSUME NEW n \in Notifiers, NotifyReads(n) \/ Captures(n) \/ AdvancesWarmup(n) \/ NotifyFails(n)
        PROVE  l1'[s] = l1[s]
    BY <1>1 DEF NotifyReads, Captures, AdvancesWarmup, NotifyFails
  <1>2. ASSUME NEW r \in Sessions,
               \/ EndsSession(r) \/ StartsL1(r) \/ RunsFlush(r) \/ L1Reads(r) \/ L1Extracts(r)
               \/ Zeroes(r) \/ ArmsL2(r) \/ L1Fails(r)
        PROVE  l1'[s] = l1[s] \/ L1Acts(s)
    <2>1. CASE EndsSession(r)
      BY <2>1 DEF EndsSession
    <2>2. CASE r = s
      BY <1>2, <2>1, <2>2 DEF L1Acts
    <2>3. CASE r # s
      BY <1>0, <1>2, <2>1, <2>3 DEF StartsL1, RunsFlush, L1Reads, L1Extracts, Zeroes, ArmsL2, L1Fails
    <2> QED BY <2>2, <2>3
  <1>3. ASSUME NEW e \in Sessions \X {"route", "task"}, FlushEnqueues(e) \/ FlushFails(e)
        PROVE  l1'[s] = l1[s] \/ L1Acts(s)
    <2>1. CASE e = <<s, "task">>
      <3>1. e \in ending
        BY <1>3 DEF FlushEnqueues, FlushFails
      <3> QED BY <1>3, <2>1, <3>1 DEF L1Acts
    <2>2. CASE e # <<s, "task">>
      <3>1. e[2] = "route" \/ e[1] # s
        BY <2>2
      <3> QED BY <1>0, <1>3, <3>1 DEF FlushEnqueues, FlushFails
    <2> QED BY <2>1, <2>2
  <1>4. ASSUME NEW m \in Members, TimerFires(m) \/ \E p \in Scanners : ScanEnqueues(p, m)
        PROVE  l1'[s] = l1[s]
    BY <1>4 DEF TimerFires, ScanEnqueues
  <1>5. ASSUME NEW p \in Scanners, ScanClaims(p) \/ ScanFails(p) PROVE l1'[s] = l1[s]
    BY <1>5 DEF ScanClaims, ScanFails
  <1>6. ASSUME NEW k \in Keys, StartsL2(k) \/ StartsL3(k) PROVE l1'[s] = l1[s]
    BY <1>6 DEF StartsL2, StartsL3
  <1>7. ASSUME NEW x \in Locks,
               \/ L2Reads(x) \/ L2Writes(x) \/ CascadesL3(x) \/ StampsL2(x) \/ ArmsMax(x)
               \/ EndsL3(x) \/ DeepFails(x)
        PROVE  l1'[s] = l1[s]
    BY <1>7 DEF L2Reads, L2Writes, CascadesL3, StampsL2, ArmsMax, EndsL3, DeepFails
  <1>8. CASE UNCHANGED vars
    BY <1>8 DEF vars
  <1> QED BY <1>1, <1>2, <1>3, <1>4, <1>5, <1>6, <1>7, <1>8 DEF Next

\* A flushSession call stays until it enqueues or fails; one of a flush task
\* begins with that task.
EndingActs ==
  /\ \A e \in ending : e \in ending' \/ FlushEnqueues(e) \/ FlushFails(e)
  /\ \A s \in Sessions : <<s, "task">> \in ending' => <<s, "task">> \in ending \/ RunsFlush(s)

LEMMA EndingChanges == ASSUME SoundInv, [Next]_vars PROVE EndingActs
  <1> USE DEF EndingActs
  <1>0. ending \subseteq Sessions \X {"route", "task"}
    BY DEF SoundInv, TypeOK
  <1>a. ending' = ending => EndingActs
    OBVIOUS
  <1>1. ASSUME NEW n \in Notifiers, NotifyReads(n) \/ Captures(n) \/ AdvancesWarmup(n) \/ NotifyFails(n)
        PROVE  EndingActs
    BY <1>a, <1>1 DEF NotifyReads, Captures, AdvancesWarmup, NotifyFails
  <1>2. ASSUME NEW r \in Sessions,
               \/ EndsSession(r) \/ StartsL1(r) \/ RunsFlush(r) \/ L1Reads(r) \/ L1Extracts(r)
               \/ Zeroes(r) \/ ArmsL2(r) \/ L1Fails(r)
        PROVE  EndingActs
    <2>1. CASE EndsSession(r)
      <3>1. ending' = ending \cup {<<r, "route">>}
        BY <2>1 DEF EndsSession
      <3> QED BY <3>1
    <2>2. CASE RunsFlush(r)
      <3>1. ending' = ending \/ ending' = ending \cup {<<r, "task">>}
        BY <2>2 DEF RunsFlush
      <3> QED BY <2>2, <3>1
    <2>3. CASE StartsL1(r) \/ L1Reads(r) \/ L1Extracts(r) \/ Zeroes(r) \/ ArmsL2(r) \/ L1Fails(r)
      BY <1>a, <2>3 DEF StartsL1, L1Reads, L1Extracts, Zeroes, ArmsL2, L1Fails
    <2> HIDE DEF EndingActs
    <2> QED BY <1>2, <2>1, <2>2, <2>3
  <1>3. ASSUME NEW e \in Sessions \X {"route", "task"}, FlushEnqueues(e) \/ FlushFails(e)
        PROVE  EndingActs
    <2>1. ending' = ending \ {e}
      BY <1>3 DEF FlushEnqueues, FlushFails
    <2> QED BY <1>3, <2>1
  <1>4. ASSUME NEW m \in Members, TimerFires(m) \/ \E p \in Scanners : ScanEnqueues(p, m)
        PROVE  EndingActs
    BY <1>a, <1>4 DEF TimerFires, ScanEnqueues
  <1>5. ASSUME NEW p \in Scanners, ScanClaims(p) \/ ScanFails(p) PROVE EndingActs
    BY <1>a, <1>5 DEF ScanClaims, ScanFails
  <1>6. ASSUME NEW k \in Keys, StartsL2(k) \/ StartsL3(k) PROVE EndingActs
    BY <1>a, <1>6 DEF StartsL2, StartsL3
  <1>7. ASSUME NEW x \in Locks,
               \/ L2Reads(x) \/ L2Writes(x) \/ CascadesL3(x) \/ StampsL2(x) \/ ArmsMax(x)
               \/ EndsL3(x) \/ DeepFails(x)
        PROVE  EndingActs
    BY <1>a, <1>7 DEF L2Reads, L2Writes, CascadesL3, StampsL2, ArmsMax, EndsL3, DeepFails
  <1>8. CASE UNCHANGED vars
    BY <1>a, <1>8 DEF vars
  <1> HIDE DEF EndingActs
  <1> QED BY <1>1, <1>2, <1>3, <1>4, <1>5, <1>6, <1>7, <1>8 DEF Next

\* Rounds and memories only grow; the cursor and the memories of a session are
\* moved by its L1 run, the time of an extraction by the run that stamps it.
CounterActs ==
  /\ \A s \in Sessions : /\ rows[s] <= rows'[s] /\ records[s] <= records'[s]
                         /\ (cursor'[s] = cursor[s] /\ records'[s] = records[s]) \/ L1Extracts(s)
  /\ \A k \in Keys : l2at'[k] = l2at[k] \/ \E x \in Locks : StampsL2(x) /\ deep[x].task.key = k

LEMMA CounterChanges == ASSUME SoundInv, [Next]_vars PROVE CounterActs
  <1>0. /\ rows \in [Sessions -> Nat] /\ records \in [Sessions -> Nat]
        /\ cursor \in [Sessions -> Nat] /\ l2at \in [Keys -> Nat]
    BY Bounds DEF SoundInv, TypeOK
  <1>a. UNCHANGED <<rows, cursor, records, l2at>> => CounterActs
    BY <1>0 DEF CounterActs
  <1>1. ASSUME NEW n \in Notifiers, NotifyReads(n) \/ Captures(n) \/ AdvancesWarmup(n) \/ NotifyFails(n)
        PROVE  CounterActs
    <2>1. CASE NotifyReads(n)
      <3>1. PICK s \in Sessions, r \in 1..MaxRounds : rows' = [rows EXCEPT ![s] = @ + r]
        BY <2>1 DEF NotifyReads
      <3>2. UNCHANGED <<cursor, records, l2at>>
        BY <2>1 DEF NotifyReads
      <3>3. r \in Nat
        BY Bounds
      <3>4. \A i \in Sessions : rows[i] <= rows'[i]
        BY <1>0, <3>1, <3>3
      <3> QED BY <1>0, <3>2, <3>4 DEF CounterActs
    <2>2. CASE Captures(n) \/ AdvancesWarmup(n) \/ NotifyFails(n)
      BY <1>a, <2>2 DEF Captures, AdvancesWarmup, NotifyFails
    <2> QED BY <1>1, <2>1, <2>2
  <1>2. ASSUME NEW s \in Sessions,
               \/ EndsSession(s) \/ StartsL1(s) \/ RunsFlush(s) \/ L1Reads(s) \/ L1Extracts(s)
               \/ Zeroes(s) \/ ArmsL2(s) \/ L1Fails(s)
        PROVE  CounterActs
    <2>1. CASE L1Extracts(s)
      <3>1. records' \in {records, [records EXCEPT ![s] = @ + 1]}
        BY <2>1 DEF L1Extracts
      <3>2. \A i \in Sessions : records[i] <= records'[i] /\ (i # s => records'[i] = records[i])
        BY <1>0, <3>1
      <3>3. UNCHANGED <<rows, l2at>> /\ \A i \in Sessions : i # s => cursor'[i] = cursor[i]
        BY <1>0, <2>1 DEF L1Extracts
      <3> QED BY <1>0, <2>1, <3>2, <3>3 DEF CounterActs
    <2>2. CASE \/ EndsSession(s) \/ StartsL1(s) \/ RunsFlush(s) \/ L1Reads(s) \/ Zeroes(s)
               \/ ArmsL2(s) \/ L1Fails(s)
      BY <1>a, <2>2 DEF EndsSession, StartsL1, RunsFlush, L1Reads, Zeroes, ArmsL2, L1Fails
    <2> QED BY <1>2, <2>1, <2>2
  <1>3. ASSUME NEW e \in Sessions \X {"route", "task"}, FlushEnqueues(e) \/ FlushFails(e)
        PROVE  CounterActs
    BY <1>a, <1>3 DEF FlushEnqueues, FlushFails
  <1>4. ASSUME NEW m \in Members, TimerFires(m) \/ \E p \in Scanners : ScanEnqueues(p, m)
        PROVE  CounterActs
    BY <1>a, <1>4 DEF TimerFires, ScanEnqueues
  <1>5. ASSUME NEW p \in Scanners, ScanClaims(p) \/ ScanFails(p) PROVE CounterActs
    BY <1>a, <1>5 DEF ScanClaims, ScanFails
  <1>6. ASSUME NEW k \in Keys, StartsL2(k) \/ StartsL3(k) PROVE CounterActs
    BY <1>a, <1>6 DEF StartsL2, StartsL3
  <1>7. ASSUME NEW x \in Locks,
               \/ L2Reads(x) \/ L2Writes(x) \/ CascadesL3(x) \/ StampsL2(x) \/ ArmsMax(x)
               \/ EndsL3(x) \/ DeepFails(x)
        PROVE  CounterActs
    <2>1. CASE StampsL2(x)
      <3>1. UNCHANGED <<rows, cursor, records>>
        BY <2>1 DEF StampsL2
      <3>2. \A k \in Keys : l2at'[k] = l2at[k] \/ deep[x].task.key = k
        BY <1>0, <2>1 DEF StampsL2
      <3> QED BY <1>0, <2>1, <3>1, <3>2 DEF CounterActs
    <2>2. CASE L2Reads(x) \/ L2Writes(x) \/ CascadesL3(x) \/ ArmsMax(x) \/ EndsL3(x) \/ DeepFails(x)
      BY <1>a, <2>2 DEF L2Reads, L2Writes, CascadesL3, ArmsMax, EndsL3, DeepFails
    <2> QED BY <1>7, <2>1, <2>2
  <1>8. CASE UNCHANGED vars
    BY <1>a, <1>8 DEF vars
  <1> QED BY <1>1, <1>2, <1>3, <1>4, <1>5, <1>6, <1>7, <1>8 DEF Next

\* What runs for a session stays one of its own tasks.
LEMMA L1SoundStep == ASSUME SoundInv, [Next]_vars, NEW s \in Sessions PROVE L1Sound(s)'
  <1>0. /\ L1Sound(s) /\ CounterActs /\ EndingActs /\ l1[s] \in L1Runs
        /\ l1 \in [Sessions -> L1Runs] /\ rows \in [Sessions -> Nat] /\ cursor \in [Sessions -> Nat]
        /\ rows'[s] \in Nat /\ cursor'[s] \in Nat
    BY CounterChanges, EndingChanges, TypeStep, Bounds DEF SoundInv, TypeOK
  <1>a. l1[s].read \in Nat
    BY <1>0, Bounds DEF L1Runs
  <1>1. CASE l1'[s] = l1[s] /\ ~RunsFlush(s)
    <2>1. <<s, "task">> \in ending' => l1[s].phase = "flush"
      BY <1>0, <1>1 DEF EndingActs, L1Sound
    <2>2. CASE cursor'[s] = cursor[s]
      BY <1>0, <1>1, <1>a, <2>1, <2>2 DEF L1Sound, CounterActs
    <2>3. CASE L1Extracts(s)
      <3>1. l1'[s].phase = "zero" /\ l1[s].phase = "read"
        BY <1>0, <2>3 DEF L1Extracts, L1Runs
      <3> QED BY <1>1, <3>1
    <2> QED BY <1>0, <2>2, <2>3 DEF CounterActs
  <1>2. CASE StartsL1(s)
    <2>1. PICK t \in {Task("L1", Own(s), timed) : timed \in BOOLEAN}, ph \in {"zero", "run"} :
            l1'[s] = [NoL1(s) EXCEPT !.task = t, !.phase = ph]
      BY <1>0, <1>2 DEF StartsL1
    <2>2. l1'[s].phase = ph /\ l1'[s].task = t
      BY <2>1 DEF NoL1
    <2>3. t.type = "L1" /\ t.key = Own(s)
      BY DEF Task
    <2>4. l1[s].phase = "none" /\ UNCHANGED <<ending, rows, cursor>>
      BY <1>2 DEF StartsL1
    <2> QED BY <1>0, <2>2, <2>3, <2>4 DEF L1Sound
  <1>3. CASE RunsFlush(s)
    <2> DEFINE ph == IF Flushable(s) THEN "flush" ELSE "zero"
    <2>1. l1'[s] = [NoL1(s) EXCEPT !.task = Task("flush", Own(s), FALSE), !.phase = ph]
      BY <1>0, <1>3 DEF RunsFlush
    <2>2. l1'[s].phase = ph /\ l1'[s].task = Task("flush", Own(s), FALSE)
      BY <2>1 DEF NoL1
    <2>3. Task("flush", Own(s), FALSE).type = "flush" /\ Task("flush", Own(s), FALSE).key = Own(s)
      BY DEF Task
    <2>4. l1[s].phase = "none" /\ UNCHANGED <<rows, cursor>>
      BY <1>3 DEF RunsFlush
    <2>5. <<s, "task">> \in ending' => ph = "flush"
      BY <1>0, <1>3, <2>4 DEF RunsFlush, L1Sound
    <2>6. ph \in {"flush", "zero"}
      OBVIOUS
    <2> HIDE DEF ph
    <2> QED BY <1>0, <2>2, <2>3, <2>4, <2>5, <2>6 DEF L1Sound
  <1>4. CASE L1Reads(s)
    <2>1. rows[s] - cursor[s] \in Nat
      BY <1>0 DEF L1Sound
    <2> DEFINE left == rows[s] - cursor[s]
               page == IF left > 2 * Batch THEN 2 * Batch ELSE left
    <2>2. page \in Nat /\ page <= left
      BY <2>1, PageSize
    <2>3. l1'[s].phase = "read" /\ l1'[s].read = page /\ l1'[s].task = l1[s].task
      BY <1>0, <1>4 DEF L1Reads, L1Runs
    <2> HIDE DEF page
    <2>4. l1[s].phase = "run" /\ UNCHANGED <<rows, cursor, ending>>
      BY <1>4 DEF L1Reads
    <2> QED BY <1>0, <2>2, <2>3, <2>4 DEF L1Sound
  <1>5. CASE L1Extracts(s)
    <2> DEFINE n == IF l1[s].read > Batch THEN Batch ELSE l1[s].read
    <2>1. n \in Nat /\ n <= l1[s].read /\ cursor' = [cursor EXCEPT ![s] = @ + n]
      BY <1>a, <1>5, Bounds DEF L1Extracts
    <2> HIDE DEF n
    <2>2. l1'[s].phase = "zero" /\ l1'[s].task = l1[s].task
      BY <1>0, <1>5 DEF L1Extracts, L1Runs
    <2>3. l1[s].phase = "read" /\ UNCHANGED <<rows, ending>>
      BY <1>5 DEF L1Extracts
    <2>4. cursor'[s] <= rows'[s]
      BY <1>0, <1>a, <2>1, <2>3 DEF L1Sound
    <2> QED BY <1>0, <2>2, <2>3, <2>4 DEF L1Sound
  <1>6. CASE Zeroes(s)
    <2>1. l1'[s].phase = "arm" /\ l1'[s].task = l1[s].task /\ l1[s].phase = "zero"
      BY <1>0, <1>6 DEF Zeroes, L1Runs
    <2>2. UNCHANGED <<rows, cursor, ending>>
      BY <1>6 DEF Zeroes
    <2> QED BY <1>0, <2>1, <2>2 DEF L1Sound
  <1>7. CASE ArmsL2(s) \/ L1Fails(s)
    <2>1. l1'[s].phase = "none" /\ l1[s].phase # "flush"
      <3>1. l1'[s] = NoL1(s) /\ l1[s].phase \in {"run", "read", "zero", "arm"}
        BY <1>0, <1>7 DEF ArmsL2, L1Fails
      <3> QED BY <3>1 DEF NoL1
    <2>2. UNCHANGED <<rows, cursor, ending>>
      BY <1>7 DEF ArmsL2, L1Fails
    <2> QED BY <1>0, <2>1, <2>2 DEF L1Sound
  <1>8. ASSUME NEW e \in ending, e = <<s, "task">>, FlushEnqueues(e) \/ FlushFails(e) PROVE L1Sound(s)'
    <2>1. ending' = ending \ {<<s, "task">>} /\ UNCHANGED <<rows, cursor>>
      BY <1>8 DEF FlushEnqueues, FlushFails
    <2>2. CASE FlushEnqueues(e)
      <3>1. l1'[s].phase = "zero" /\ l1'[s].task = l1[s].task /\ l1[s].phase = "flush"
        BY <1>0, <1>8, <2>2 DEF FlushEnqueues, L1Runs, L1Sound
      <3> QED BY <1>0, <2>1, <3>1 DEF L1Sound
    <2>3. CASE FlushFails(e)
      <3>1. l1'[s].phase = "none"
        BY <1>0, <1>8, <2>3 DEF FlushFails, NoL1
      <3> QED BY <1>0, <2>1, <3>1 DEF L1Sound
    <2> QED BY <1>8, <2>2, <2>3
  <1> QED BY <1>1, <1>2, <1>3, <1>4, <1>5, <1>6, <1>7, <1>8, L1Changes DEF L1Acts

\* What runs under a lock stays a task of its scope.
LEMMA DeepSoundStep == ASSUME SoundInv, [Next]_vars, NEW x \in Locks PROVE DeepSound(x)'
  <1>k. PICK k \in Keys : k = deep[x].task.key
    BY TaskFields DEF SoundInv, TypeOK, DeepRuns
  <1>0. /\ DeepSound(x) /\ CounterActs /\ deep[x] \in DeepRuns /\ deep[x].task \in Tasks
        /\ deep \in [Locks -> DeepRuns] /\ k = deep[x].task.key /\ k[1] \in Sessions /\ QueueType
        /\ l2at \in [Keys -> Nat] /\ records \in [Sessions -> Nat]
    <2>1. deep[x] \in DeepRuns /\ deep[x].task \in Tasks
      BY DEF SoundInv, TypeOK, DeepRuns
    <2> QED BY <2>1, <1>k, CounterChanges, TaskNames DEF SoundInv, TypeOK, QueueType
  <1>a. records'[k[1]] \in Nat /\ records[k[1]] <= records'[k[1]]
    BY <1>0, TypeStep DEF CounterActs, TypeOK
  <1>1. CASE deep'[x] = deep[x]
    <2>1. deep[x].phase = "scenes" => l2at'[k] = l2at[k]
      <3> SUFFICES ASSUME deep[x].phase = "scenes", NEW y \in Locks, StampsL2(y), deep[y].task.key = k
                   PROVE  FALSE
        BY <1>0 DEF CounterActs
      <3>1. deep[y].phase = "stamp"
        BY DEF StampsL2
      <3>2. Lock(k) = x /\ Lock(k) = y
        <4>1. DeepSound(y)
          BY DEF SoundInv
        <4> QED BY <1>0, <3>1, <4>1 DEF DeepSound
      <3> QED BY <3>1, <3>2
    <2>2. deep[x].phase = "scenes" => records'[k[1]] > l2at'[k]
      BY <1>0, <1>a, <2>1 DEF DeepSound
    <2>3. deep[x].phase \in {"stamp", "max"} => Queued("L3", k)'
      <3> SUFFICES ASSUME deep[x].phase \in {"stamp", "max"} PROVE Queued("L3", k)'
        OBVIOUS
      <3>1. Queued("L3", k) /\ Lock(k) = x
        BY <1>0 DEF DeepSound
      <3>2. CASE StartsL3(k)
        <4>1. deep[Lock(k)].phase = "none"
          BY <3>2 DEF StartsL3, Takes, Task
        <4> QED BY <3>1, <4>1
      <3> QED BY <1>0, <3>1, <3>2, StaysQueued
    <2> QED BY <1>0, <1>1, <2>2, <2>3 DEF DeepSound
  <1>2. ASSUME NEW j \in Keys, Lock(j) = x, StartsL2(j) \/ StartsL3(j) PROVE DeepSound(x)'
    <2>1. CASE StartsL2(j)
      <3>1. PICK ph \in {"l3", "read"} : deep'[x] = [task |-> Task("L2", j, FALSE), phase |-> ph]
        BY <1>0, <1>2, <2>1 DEF StartsL2, Takes, Task
      <3>2. deep'[x].phase = ph /\ deep'[x].task.key = j /\ deep'[x].task.type = "L2"
        BY <3>1 DEF Task
      <3> QED BY <1>2, <3>2 DEF DeepSound
    <2>2. CASE StartsL3(j)
      <3>1. deep'[x] = [task |-> Task("L3", j, FALSE), phase |-> "persona"]
        BY <1>0, <1>2, <2>2 DEF StartsL3, Takes, Task
      <3>2. deep'[x].phase = "persona" /\ deep'[x].task.key = j /\ deep'[x].task.type = "L3"
        BY <3>1 DEF Task
      <3> QED BY <1>2, <3>2 DEF DeepSound
    <2> QED BY <1>2, <2>1, <2>2
  <1>3. CASE deep'[x] = NoDeep
    BY <1>3 DEF DeepSound, NoDeep
  <1>4. CASE L2Reads(x) /\ records[k[1]] # l2at[k]
    <2>1. deep'[x].phase = "scenes" /\ deep'[x].task = deep[x].task /\ deep[x].phase = "read"
      BY <1>0, <1>4 DEF L2Reads, DeepRuns
    <2>2. UNCHANGED <<records, l2at>>
      BY <1>4 DEF L2Reads
    <2>3. l2at[k] <= records[k[1]]
      BY <1>0 DEF SoundInv
    <2> QED BY <1>0, <1>4, <2>1, <2>2, <2>3 DEF DeepSound
  <1>5. CASE L2Writes(x) /\ deep'[x] # NoDeep
    <2>1. deep'[x].phase = "l3" /\ deep'[x].task = deep[x].task /\ deep[x].phase = "scenes"
      <3>1. deep[x].phase = "scenes" /\ deep' = [deep EXCEPT ![x] = [@ EXCEPT !.phase = "l3"]]
        BY <1>0, <1>5 DEF L2Writes
      <3> QED BY <1>0, <3>1 DEF DeepRuns
    <2> QED BY <1>0, <2>1 DEF DeepSound
  <1>6. CASE CascadesL3(x)
    <2>1. deep'[x].phase = "stamp" /\ deep'[x].task = deep[x].task /\ deep[x].phase = "l3"
      BY <1>0, <1>6 DEF CascadesL3, DeepRuns
    <2>2. Task("L3", k, FALSE) \in Tasks /\ Task("L3", k, FALSE).type = "L3" /\ Task("L3", k, FALSE).key = k
      BY <1>0, TaskNames DEF Task
    <2>3. Put(Task("L3", k, FALSE))
      BY <1>0, <1>6 DEF CascadesL3
    <2>4. Queued("L3", k)'
      BY <1>0, <2>2, <2>3, Putting
    <2> QED BY <1>0, <2>1, <2>4 DEF DeepSound
  <1>7. CASE StampsL2(x)
    <2>1. deep'[x].phase = "max" /\ deep'[x].task = deep[x].task /\ deep[x].phase = "stamp"
      BY <1>0, <1>7 DEF StampsL2, DeepRuns
    <2>2. Queued("L3", k)'
      BY <1>0, <1>7, <2>1 DEF StampsL2, DeepSound, Queued
    <2> QED BY <1>0, <2>1, <2>2 DEF DeepSound
  <1>8. CASE (L2Reads(x) /\ records[k[1]] = l2at[k]) \/ ArmsMax(x) \/ EndsL3(x) \/ DeepFails(x)
    <2>1. deep'[x] = NoDeep
      BY <1>0, <1>8 DEF L2Reads, ArmsMax, EndsL3, DeepFails
    <2> QED BY <1>3, <2>1
  <1> QED BY <1>1, <1>2, <1>3, <1>4, <1>5, <1>6, <1>7, <1>8, DeepChanges DEF DeepActs

LEMMA SoundStep == SoundInv /\ [Next]_vars => SoundInv'
  <1> SUFFICES ASSUME SoundInv, [Next]_vars PROVE SoundInv'
    OBVIOUS
  <1>1. TypeOK' /\ TypeOK
    BY TypeStep DEF SoundInv
  <1>2. ASSUME NEW k \in Keys PROVE l2at'[k] <= records'[k[1]]
    <2>0. /\ k[1] \in Sessions /\ l2at[k] \in Nat /\ records[k[1]] \in Nat /\ records'[k[1]] \in Nat
          /\ l2at[k] <= records[k[1]] /\ l2at \in [Keys -> Nat]
      BY <1>1, TaskNames DEF SoundInv, TypeOK
    <2>1. CounterActs /\ records[k[1]] <= records'[k[1]]
      BY <2>0, CounterChanges DEF CounterActs
    <2>2. ASSUME NEW x \in Locks, StampsL2(x), deep[x].task.key = k PROVE l2at'[k] <= records'[k[1]]
      BY <2>0, <2>2 DEF StampsL2
    <2> QED BY <2>0, <2>1, <2>2 DEF CounterActs
  <1> QED BY <1>1, <1>2, L1SoundStep, DeepSoundStep DEF SoundInv

\* What runs is of the session and of the scope it runs for, at every step: the
\* invariant the theorems below rest on, with the types of the state.
THEOREM StatefulSound == Spec => []SoundInv
  BY SoundInit, SoundStep, PTL DEF Spec

\* The state keeps its types; counts stay below the threshold of a capture.
THEOREM StatefulTypes == Spec => []TypeOK
  <1>1. SoundInv => TypeOK
    BY DEF SoundInv
  <1> QED BY <1>1, StatefulSound, PTL

-----------------------------------------------------------------------------
(* Where a timer goes.                                                     *)

Held(m) == m \in lost \/ Armed(m)

\* An armed timer ends in the queue or is given up; only the actions that set or
\* remove the idle timer of a session take that timer away.
TimerActs ==
  \A m \in Members : Held(m) =>
    \/ Held(m)' \/ Queued(m.type, m.key)'
    \/ \E s \in Sessions :
         m = IdleTimer(s) /\ (EndsSession(s) \/ RunsFlush(s) \/ \E n \in Notifiers : Captures(n) /\ note[n].s = s)

LEMMA TimerChanges == ASSUME SoundInv, [Next]_vars PROVE TimerActs
  <1>0. TypeOK /\ QueueType /\ scan \in [Scanners -> SUBSET Members]
    BY DEF SoundInv, TypeOK, QueueType
  <1>a. timers \subseteq timers' /\ lost \subseteq lost' /\ UNCHANGED scan => TimerActs
    BY DEF TimerActs, Held, Armed
  <1>b. ASSUME NEW t \in Tasks, RetriesOrBuries(t), UNCHANGED scan PROVE TimerActs
    BY <1>0, <1>b, Retrying DEF TimerActs, Held, Armed
  <1>1. ASSUME NEW n \in Notifiers, NotifyReads(n) \/ Captures(n) \/ AdvancesWarmup(n) \/ NotifyFails(n)
        PROVE  TimerActs
    <2>1. CASE Captures(n)
      <3>1. PICK s \in Sessions : s = note[n].s
        BY <1>0 DEF TypeOK, Notes
      <3>2. /\ UNCHANGED scan /\ lost' = lost \ {IdleTimer(s)}
            /\ \A m \in Members : m \in timers /\ m # IdleTimer(s) => m \in timers'
        BY <2>1, <3>1 DEF Captures
      <3> QED BY <2>1, <3>1, <3>2 DEF TimerActs, Held, Armed
    <2>2. CASE NotifyReads(n) \/ AdvancesWarmup(n) \/ NotifyFails(n)
      BY <1>a, <2>2 DEF NotifyReads, AdvancesWarmup, NotifyFails
    <2> QED BY <1>1, <2>1, <2>2
  <1>2. ASSUME NEW s \in Sessions,
               \/ EndsSession(s) \/ StartsL1(s) \/ RunsFlush(s) \/ L1Reads(s) \/ L1Extracts(s)
               \/ Zeroes(s) \/ ArmsL2(s) \/ L1Fails(s)
        PROVE  TimerActs
    <2>1. CASE EndsSession(s) \/ RunsFlush(s)
      <3>1. UNCHANGED <<scan, lost>> /\ \A m \in Members : m \in timers /\ m # IdleTimer(s) => m \in timers'
        BY <2>1 DEF EndsSession, RunsFlush
      <3> QED BY <2>1, <3>1 DEF TimerActs, Held, Armed
    <2>2. CASE ArmsL2(s)
      <3>1. UNCHANGED scan /\ \A m \in Members : m \in lost \cup timers => m \in lost' \cup timers'
        BY <2>2 DEF ArmsL2
      <3> QED BY <3>1 DEF TimerActs, Held, Armed
    <2>3. CASE L1Fails(s)
      <3>1. l1[s].task \in Tasks
        BY <1>0 DEF TypeOK, L1Runs
      <3> QED BY <1>b, <2>3, <3>1 DEF L1Fails
    <2>4. CASE StartsL1(s) \/ L1Reads(s) \/ L1Extracts(s) \/ Zeroes(s)
      BY <1>a, <2>4 DEF StartsL1, L1Reads, L1Extracts, Zeroes
    <2> QED BY <1>2, <2>1, <2>2, <2>3, <2>4
  <1>3. ASSUME NEW e \in Sessions \X {"route", "task"}, FlushEnqueues(e) \/ FlushFails(e)
        PROVE  TimerActs
    BY <1>a, <1>3 DEF FlushEnqueues, FlushFails
  <1>4. ASSUME NEW m \in Members, TimerFires(m) \/ \E p \in Scanners : ScanEnqueues(p, m)
        PROVE  TimerActs
    <2>1. Put(TaskOf(m)) /\ UNCHANGED lost
      BY <1>4 DEF TimerFires, ScanEnqueues
    <2>2. Queued(m.type, m.key)'
      <3>1. TaskOf(m) \in Tasks /\ TaskOf(m).type = m.type /\ TaskOf(m).key = m.key
        BY TaskNames
      <3> QED BY <1>0, <2>1, <3>1, Putting
    <2>3. \A i \in Members : Armed(i) /\ i # m => Armed(i)'
      BY <1>0, <1>4 DEF Armed, TimerFires, ScanEnqueues
    <2> QED BY <2>1, <2>2, <2>3 DEF TimerActs, Held
  <1>5. ASSUME NEW p \in Scanners, ScanClaims(p) \/ ScanFails(p) PROVE TimerActs
    <2>1. CASE ScanClaims(p)
      <3>1. PICK B \in SUBSET timers : timers' = timers \ B /\ scan' = [scan EXCEPT ![p] = B]
        BY <2>1 DEF ScanClaims
      <3>2. scan[p] = {} /\ UNCHANGED lost
        BY <2>1 DEF ScanClaims
      <3> QED BY <1>0, <3>1, <3>2 DEF TimerActs, Held, Armed
    <2>2. CASE ScanFails(p)
      <3>1. scan' = [scan EXCEPT ![p] = {}] /\ lost' = lost \cup scan[p] /\ UNCHANGED timers
        BY <2>2 DEF ScanFails
      <3> QED BY <1>0, <3>1 DEF TimerActs, Held, Armed
    <2> QED BY <1>5, <2>1, <2>2
  <1>6. ASSUME NEW k \in Keys, StartsL2(k) \/ StartsL3(k) PROVE TimerActs
    BY <1>a, <1>6 DEF StartsL2, StartsL3
  <1>7. ASSUME NEW x \in Locks,
               \/ L2Reads(x) \/ L2Writes(x) \/ CascadesL3(x) \/ StampsL2(x) \/ ArmsMax(x)
               \/ EndsL3(x) \/ DeepFails(x)
        PROVE  TimerActs
    <2>1. CASE DeepFails(x)
      <3>1. deep[x].task \in Tasks
        BY <1>0 DEF TypeOK, DeepRuns
      <3> QED BY <1>b, <2>1, <3>1 DEF DeepFails
    <2>2. CASE L2Reads(x) \/ L2Writes(x) \/ CascadesL3(x) \/ StampsL2(x) \/ ArmsMax(x) \/ EndsL3(x)
      BY <1>a, <2>2 DEF L2Reads, L2Writes, CascadesL3, StampsL2, ArmsMax, EndsL3
    <2> QED BY <1>7, <2>1, <2>2
  <1>8. CASE UNCHANGED vars
    BY <1>a, <1>8 DEF vars
  <1> QED BY <1>1, <1>2, <1>3, <1>4, <1>5, <1>6, <1>7, <1>8 DEF Next

-----------------------------------------------------------------------------
(* Rounds counted have a trigger.                                          *)

CountedTrigger(s) ==
  \/ Held(IdleTimer(s))
  \/ Queued("L1", Own(s)) \/ Queued("flush", Own(s))
  \/ l1[s].phase \in {"run", "flush", "read", "zero"}
  \/ \E c \in {"route", "task"} : <<s, c>> \in ending

\* The count of a session grows by a capture below the threshold only.
CountActs ==
  \A s \in Sessions : \/ count'[s] = count[s]
                      \/ count'[s] = 0
                      \/ \E n \in Notifiers : Captures(n) /\ note[n].s = s

LEMMA CountChanges == ASSUME SoundInv, [Next]_vars PROVE CountActs
  <1>0. TypeOK /\ count \in [Sessions -> 0..(EveryN - 1)]
    BY DEF SoundInv, TypeOK
  <1>a. UNCHANGED count => CountActs
    BY DEF CountActs
  <1>1. ASSUME NEW n \in Notifiers, NotifyReads(n) \/ Captures(n) \/ AdvancesWarmup(n) \/ NotifyFails(n)
        PROVE  CountActs
    <2>1. CASE Captures(n)
      <3>1. PICK c : count' = [count EXCEPT ![note[n].s] = c]
        BY <2>1 DEF Captures
      <3> QED BY <1>0, <2>1, <3>1 DEF CountActs
    <2>2. CASE AdvancesWarmup(n)
      BY <1>0, <2>2 DEF AdvancesWarmup, CountActs
    <2>3. CASE NotifyReads(n) \/ NotifyFails(n)
      BY <1>a, <2>3 DEF NotifyReads, NotifyFails
    <2> QED BY <1>1, <2>1, <2>2, <2>3
  <1>2. ASSUME NEW s \in Sessions,
               \/ EndsSession(s) \/ StartsL1(s) \/ RunsFlush(s) \/ L1Reads(s) \/ L1Extracts(s)
               \/ Zeroes(s) \/ ArmsL2(s) \/ L1Fails(s)
        PROVE  CountActs
    <2>1. CASE Zeroes(s)
      BY <1>0, <2>1 DEF Zeroes, CountActs
    <2>2. CASE \/ EndsSession(s) \/ StartsL1(s) \/ RunsFlush(s) \/ L1Reads(s) \/ L1Extracts(s)
               \/ ArmsL2(s) \/ L1Fails(s)
      BY <1>a, <2>2 DEF EndsSession, StartsL1, RunsFlush, L1Reads, L1Extracts, ArmsL2, L1Fails
    <2> QED BY <1>2, <2>1, <2>2
  <1>3. ASSUME NEW e \in Sessions \X {"route", "task"}, FlushEnqueues(e) \/ FlushFails(e)
        PROVE  CountActs
    BY <1>a, <1>3 DEF FlushEnqueues, FlushFails
  <1>4. ASSUME NEW m \in Members, TimerFires(m) \/ \E p \in Scanners : ScanEnqueues(p, m)
        PROVE  CountActs
    BY <1>a, <1>4 DEF TimerFires, ScanEnqueues
  <1>5. ASSUME NEW p \in Scanners, ScanClaims(p) \/ ScanFails(p) PROVE CountActs
    BY <1>a, <1>5 DEF ScanClaims, ScanFails
  <1>6. ASSUME NEW k \in Keys, StartsL2(k) \/ StartsL3(k) PROVE CountActs
    BY <1>a, <1>6 DEF StartsL2, StartsL3
  <1>7. ASSUME NEW x \in Locks,
               \/ L2Reads(x) \/ L2Writes(x) \/ CascadesL3(x) \/ StampsL2(x) \/ ArmsMax(x)
               \/ EndsL3(x) \/ DeepFails(x)
        PROVE  CountActs
    BY <1>a, <1>7 DEF L2Reads, L2Writes, CascadesL3, StampsL2, ArmsMax, EndsL3, DeepFails
  <1>8. CASE UNCHANGED vars
    BY <1>a, <1>8 DEF vars
  <1> QED BY <1>1, <1>2, <1>3, <1>4, <1>5, <1>6, <1>7, <1>8 DEF Next

\* A capture queues an L1 task or arms the idle timer.
LEMMA CaptureTriggers ==
  ASSUME SoundInv, NEW s \in Sessions, NEW n \in Notifiers, Captures(n), note[n].s = s
  PROVE  CountedTrigger(s)'
  <1>0. QueueType /\ IdleTimer(s) \in Members
    BY TaskNames DEF SoundInv, TypeOK, QueueType
  <1>1. CASE Put(Task("L1", Own(s), FALSE))
    <2>1. Task("L1", Own(s), FALSE) \in Tasks /\ Task("L1", Own(s), FALSE).type = "L1" /\ Task("L1", Own(s), FALSE).key = Own(s)
      BY TaskNames DEF Task
    <2> QED BY <1>0, <1>1, <2>1, Putting DEF CountedTrigger
  <1>2. CASE IdleTimer(s) \in timers'
    BY <1>2 DEF CountedTrigger, Held, Armed
  <1> QED BY <1>1, <1>2 DEF Captures

\* What runs for a session goes on, resets the count, or its failure leaves the
\* task queued or the timer given up.
LEMMA RunTriggers ==
  ASSUME SoundInv, NEW s \in Sessions, L1Acts(s), count'[s] > 0
  PROVE  l1[s].phase = "arm" \/ CountedTrigger(s)'
  <1>0. /\ TypeOK /\ QueueType /\ L1Sound(s) /\ l1 \in [Sessions -> L1Runs] /\ count \in [Sessions -> Nat]
        /\ IdleTimer(s).key = Own(s) /\ IdleTimer(s) \in Members
    BY TaskNames, Bounds DEF SoundInv, TypeOK, QueueType, IdleTimer, Member
  <1>1. CASE StartsL1(s) \/ RunsFlush(s) \/ L1Reads(s) \/ L1Extracts(s)
    <2>1. l1'[s].phase \in {"run", "flush", "read", "zero"}
      <3>1. CASE StartsL1(s)
        BY <1>0, <3>1 DEF StartsL1, NoL1
      <3>2. CASE RunsFlush(s)
        BY <1>0, <3>2 DEF RunsFlush, NoL1
      <3>3. CASE L1Reads(s) \/ L1Extracts(s)
        <4>1. CASE L1Reads(s)
          BY <1>0, <4>1 DEF L1Reads, L1Runs
        <4>2. CASE L1Extracts(s)
          BY <1>0, <4>2 DEF L1Extracts, L1Runs
        <4> QED BY <3>3, <4>1, <4>2
      <3> QED BY <1>1, <3>1, <3>2, <3>3
    <2> QED BY <2>1 DEF CountedTrigger
  <1>2. CASE Zeroes(s)
    BY <1>0, <1>2 DEF Zeroes
  <1>3. CASE ArmsL2(s)
    BY <1>3 DEF ArmsL2
  <1>4. CASE L1Fails(s)
    <2>1. PICK t \in Tasks : t = l1[s].task /\ t.key = Own(s) /\ t.type \in {"L1", "flush"}
      BY <1>0, <1>4 DEF L1Fails, L1Sound, L1Runs
    <2>2. Queued(t.type, t.key)' \/ IdleTimer(s) \in lost'
      BY <1>0, <1>4, <2>1, Retrying DEF L1Fails
    <2> QED BY <2>1, <2>2 DEF CountedTrigger, Held
  <1>5. ASSUME NEW e \in ending, e = <<s, "task">>, FlushEnqueues(e) \/ FlushFails(e) PROVE CountedTrigger(s)'
    <2>1. CASE FlushEnqueues(e)
      <3>1. Put(Task("flush", Own(s), FALSE))
        BY <1>5, <2>1 DEF FlushEnqueues
      <3>2. Task("flush", Own(s), FALSE) \in Tasks /\ Task("flush", Own(s), FALSE).type = "flush" /\ Task("flush", Own(s), FALSE).key = Own(s)
        BY TaskNames DEF Task
      <3> QED BY <1>0, <3>1, <3>2, Putting DEF CountedTrigger
    <2>2. CASE FlushFails(e)
      BY <1>5, <2>2 DEF FlushFails, CountedTrigger, Held
    <2> QED BY <1>5, <2>1, <2>2
  <1> QED BY <1>1, <1>2, <1>3, <1>4, <1>5 DEF L1Acts

LEMMA TriggerStep ==
  ASSUME SoundInv, [Next]_vars, NEW s \in Sessions,
         CountedTrigger(s) \/ \E n \in Notifiers : Captures(n) /\ note[n].s = s,
         count'[s] > 0
  PROVE  CountedTrigger(s)'
  <1>0. /\ TypeOK /\ QueueType /\ IdleTimer(s) \in Members /\ IdleTimer(s).type = "L1" /\ IdleTimer(s).key = Own(s)
        /\ \A r \in Sessions : IdleTimer(s) = IdleTimer(r) => r = s
        /\ ending \subseteq Sessions \X {"route", "task"}
    BY TaskNames DEF SoundInv, TypeOK, QueueType, IdleTimer, Member, Own
  <1>1. CASE \E n \in Notifiers : Captures(n) /\ note[n].s = s
    BY <1>1, CaptureTriggers
  <1>2. CASE L1Acts(s) /\ l1[s].phase # "arm"
    BY <1>2, RunTriggers
  <1>3. CASE EndsSession(s)
    BY <1>3 DEF EndsSession, CountedTrigger
  <1>4. CASE Held(IdleTimer(s))
    <2>1. \/ Held(IdleTimer(s))' \/ Queued("L1", Own(s))'
          \/ EndsSession(s) \/ RunsFlush(s) \/ \E n \in Notifiers : Captures(n) /\ note[n].s = s
      BY <1>0, <1>4, TimerChanges DEF TimerActs
    <2>2. RunsFlush(s) => L1Acts(s) /\ l1[s].phase # "arm"
      BY DEF L1Acts, RunsFlush
    <2> QED BY <1>1, <1>2, <1>3, <2>1, <2>2 DEF CountedTrigger
  <1>5. CASE Queued("L1", Own(s)) \/ Queued("flush", Own(s))
    <2>1. StartsL1(s) \/ RunsFlush(s) => L1Acts(s) /\ l1[s].phase # "arm"
      BY DEF L1Acts, RunsFlush, StartsL1
    <2> QED BY <1>2, <1>5, <2>1, StaysQueued DEF CountedTrigger
  <1>6. CASE l1[s].phase \in {"run", "flush", "read", "zero"}
    <2>1. l1'[s] = l1[s] => CountedTrigger(s)'
      BY <1>6 DEF CountedTrigger
    <2> QED BY <1>2, <1>6, <2>1, L1Changes
  <1>7. ASSUME NEW c \in {"route", "task"}, <<s, c>> \in ending PROVE CountedTrigger(s)'
    <2>1. PICK e \in ending : e = <<s, c>>
      BY <1>7
    <2>2. e \in ending' \/ FlushEnqueues(e) \/ FlushFails(e)
      BY EndingChanges DEF EndingActs
    <2>3. CASE e \in ending'
      BY <2>1, <2>3 DEF CountedTrigger
    <2>4. CASE FlushEnqueues(e)
      <3>1. Put(Task("flush", Own(s), FALSE))
        BY <2>1, <2>4 DEF FlushEnqueues
      <3>2. Task("flush", Own(s), FALSE) \in Tasks /\ Task("flush", Own(s), FALSE).type = "flush" /\ Task("flush", Own(s), FALSE).key = Own(s)
        BY TaskNames DEF Task
      <3> QED BY <1>0, <3>1, <3>2, Putting DEF CountedTrigger
    <2>5. CASE FlushFails(e)
      BY <2>1, <2>5 DEF FlushFails, CountedTrigger, Held
    <2> QED BY <2>2, <2>3, <2>4, <2>5
  <1> QED BY <1>1, <1>4, <1>5, <1>6, <1>7 DEF CountedTrigger

\* A round that was counted towards a session's next L1 run
\* (notifyConversation's captureAtomic) is never forgotten: something still
\* queued, armed, claimed or running leads to that run, unless a dead letter, a
\* failed scan or a failed flushSession gave the timer up.
THEOREM StatefulCountedRounds == Spec => []CountedRoundsHaveTrigger
  <1> DEFINE IInv == SoundInv /\ \A s \in Sessions : count[s] > 0 => CountedTrigger(s)
  <1>1. Init => IInv
    <2> SUFFICES ASSUME Init, NEW s \in Sessions PROVE ~(count[s] > 0)
      BY SoundInit
    <2> QED BY DEF Init
  <1>2. IInv /\ [Next]_vars => IInv'
    <2> SUFFICES ASSUME IInv, [Next]_vars, NEW s \in Sessions, count'[s] > 0 PROVE CountedTrigger(s)'
      BY SoundStep
    <2> QED BY TriggerStep, CountChanges DEF CountActs
  <1>3. IInv => CountedRoundsHaveTrigger
    BY DEF CountedTrigger, Held, CountedRoundsHaveTrigger
  <1> HIDE DEF IInv
  <1> QED BY <1>1, <1>2, <1>3, PTL DEF Spec

-----------------------------------------------------------------------------
(* Memories and scenes have a run to come.                                 *)

Traced(k) == Held(L2Timer(k)) \/ Queued("L2", k)
Early(k) == \E x \in Locks : deep[x].task = Task("L2", k, FALSE) /\ deep[x].phase \in {"read", "scenes", "l3"}
Stamping(k) == \E x \in Locks : deep[x].task = Task("L2", k, FALSE) /\ deep[x].phase = "stamp"
Newer(k) == records[k[1]] > l2at[k]

LEMMA DeepFacts ==
  ASSUME SoundInv, NEW x \in Locks
  PROVE  /\ deep \in [Locks -> DeepRuns] /\ deep[x] \in DeepRuns /\ QueueType /\ TypeOK
         /\ deep[x].task \in Tasks /\ deep[x].task.key \in Keys
  <1>1. deep[x] \in DeepRuns /\ deep[x].task \in Tasks
    BY DEF SoundInv, TypeOK, DeepRuns
  <1> QED BY <1>1, TaskFields DEF SoundInv, TypeOK, QueueType

\* An L2 timer or a queued L2 task becomes a run.
LEMMA TracedStep ==
  ASSUME SoundInv, [Next]_vars, NEW k \in Keys, Traced(k)
  PROVE  Traced(k)' \/ Early(k)'
  <1>1. /\ L2Timer(k) \in Members /\ L2Timer(k).type = "L2" /\ L2Timer(k).key = k
        /\ \A s \in Sessions : L2Timer(k) # IdleTimer(s)
    BY TaskNames DEF L2Timer, IdleTimer, Member
  <1>2. CASE Held(L2Timer(k))
    BY <1>1, <1>2, TimerChanges DEF TimerActs, Traced
  <1>3. CASE StartsL2(k)
    <2>1. Lock(k) \in Locks /\ Task("L2", k, FALSE).key = k
      BY TaskNames DEF Task
    <2>2. deep \in [Locks -> DeepRuns]
      BY DEF SoundInv, TypeOK
    <2>3. PICK ph \in {"l3", "read"} : Takes(Task("L2", k, FALSE), ph)
      BY <1>3 DEF StartsL2
    <2>4. deep'[Lock(k)].task = Task("L2", k, FALSE) /\ deep'[Lock(k)].phase = ph
      BY <2>1, <2>2, <2>3 DEF Takes
    <2> QED BY <2>1, <2>4 DEF Early
  <1>4. CASE Queued("L2", k) /\ ~StartsL2(k)
    BY <1>4, StaysQueued DEF Traced
  <1> QED BY <1>2, <1>3, <1>4 DEF Traced

\* A failing L2 task is queued again or its timer is given up.
LEMMA DeepFailsTraced ==
  ASSUME SoundInv, NEW x \in Locks, NEW k \in Keys, deep[x].task = Task("L2", k, FALSE), DeepFails(x)
  PROVE  Traced(k)'
  <1>1. PICK t \in Tasks : t = deep[x].task /\ t.type = "L2" /\ t.key = k
    BY TaskNames DEF Task
  <1>2. TypeOK /\ RetriesOrBuries(t)
    BY <1>1 DEF SoundInv, DeepFails
  <1>3. Queued("L2", k)' \/ \A m \in Members : m.key = k => m \in lost'
    <2>1. Queued(t.type, t.key)' \/ \A m \in Members : m.key = t.key => m \in lost'
      BY <1>2, Retrying
    <2> QED BY <1>1, <2>1
  <1>4. L2Timer(k) \in Members /\ L2Timer(k).key = k
    BY TaskNames DEF L2Timer, Member
  <1> QED BY <1>3, <1>4 DEF Traced, Held

\* An L2 run with memories before it goes on to its cascade, or is traced again.
LEMMA EarlyStep ==
  ASSUME SoundInv, [Next]_vars, NEW k \in Keys, Early(k), Newer(k)
  PROVE  Early(k)' \/ Traced(k)' \/ (Stamping(k)' /\ Queued("L3", k)')
  <1>1. PICK x \in Locks : deep[x].task = Task("L2", k, FALSE) /\ deep[x].phase \in {"read", "scenes", "l3"}
    BY DEF Early
  <1>2. Task("L2", k, FALSE).key = k /\ Task("L3", k, FALSE).key = k /\ Task("L3", k, FALSE).type = "L3"
        /\ Task("L3", k, FALSE) \in Tasks /\ L2Timer(k) \in Members
    BY TaskNames DEF Task
  <1>3. /\ deep \in [Locks -> DeepRuns] /\ deep[x] \in DeepRuns /\ QueueType
        /\ records[k[1]] \in Nat /\ l2at[k] \in Nat
    BY DeepFacts, TaskNames DEF TypeOK
  <1>4. CASE deep'[x] = deep[x]
    BY <1>1, <1>4 DEF Early
  <1>5. ASSUME NEW j \in Keys, Lock(j) = x, StartsL2(j) \/ StartsL3(j) PROVE FALSE
    <2>1. \E ty \in {"L2", "L3"} : \E ph : Takes(Task(ty, j, FALSE), ph)
      BY <1>5 DEF StartsL2, StartsL3
    <2>2. deep[x].phase = "none"
      BY <1>5, <2>1 DEF Takes, Task
    <2> QED BY <1>1, <2>2
  <1>6. CASE L2Reads(x)
    <2>1. deep'[x] = [deep[x] EXCEPT !.phase = "scenes"]
      <3>1. deep[x].task.key = k
        BY <1>1, <1>2
      <3>2. records[k[1]] # l2at[k]
        BY <1>3 DEF Newer
      <3> QED BY <1>3, <1>6, <3>1, <3>2 DEF L2Reads
    <2>2. deep'[x].task = Task("L2", k, FALSE) /\ deep'[x].phase = "scenes"
      BY <1>1, <1>3, <2>1 DEF DeepRuns
    <2> QED BY <2>2 DEF Early
  <1>7. CASE L2Writes(x)
    <2>1. CASE deep' = [deep EXCEPT ![x].phase = "l3"]
      <3>1. deep'[x].task = Task("L2", k, FALSE) /\ deep'[x].phase = "l3"
        BY <1>1, <1>3, <2>1 DEF DeepRuns
      <3> QED BY <3>1 DEF Early
    <2>2. CASE L2Timer(k) \in lost'
      BY <2>2 DEF Traced, Held
    <2> QED BY <1>1, <1>2, <1>7, <2>1, <2>2 DEF L2Writes
  <1>8. CASE CascadesL3(x)
    <2>1. deep'[x].task = Task("L2", k, FALSE) /\ deep'[x].phase = "stamp"
      BY <1>1, <1>3, <1>8 DEF CascadesL3, DeepRuns
    <2>2. Put(Task("L3", k, FALSE))
      BY <1>1, <1>2, <1>8 DEF CascadesL3
    <2>3. Queued("L3", k)'
      BY <1>2, <1>3, <2>2, Putting
    <2> QED BY <2>1, <2>3 DEF Stamping
  <1>9. CASE StampsL2(x) \/ ArmsMax(x) \/ EndsL3(x)
    BY <1>1, <1>9 DEF StampsL2, ArmsMax, EndsL3
  <1>10. CASE DeepFails(x)
    BY <1>1, <1>10, DeepFailsTraced
  <1> QED BY <1>4, <1>5, <1>6, <1>7, <1>8, <1>9, <1>10, DeepChanges DEF DeepActs

\* The cascade stamps the time after which its memories are no longer new.
LEMMA StampingStep ==
  ASSUME SoundInv, [Next]_vars, NEW k \in Keys, Stamping(k)
  PROVE  Stamping(k)' \/ Traced(k)' \/ ~Newer(k)'
  <1>1. PICK x \in Locks : deep[x].task = Task("L2", k, FALSE) /\ deep[x].phase = "stamp"
    BY DEF Stamping
  <1>2. Task("L2", k, FALSE).key = k /\ k[1] \in Sessions
    BY TaskNames DEF Task
  <1>3. CASE deep'[x] = deep[x]
    BY <1>1, <1>3 DEF Stamping
  <1>4. ASSUME NEW j \in Keys, Lock(j) = x, StartsL2(j) \/ StartsL3(j) PROVE FALSE
    <2>1. \E ty \in {"L2", "L3"} : \E ph : Takes(Task(ty, j, FALSE), ph)
      BY <1>4 DEF StartsL2, StartsL3
    <2>2. deep[x].phase = "none"
      BY <1>4, <2>1 DEF Takes, Task
    <2> QED BY <1>1, <2>2
  <1>5. CASE StampsL2(x)
    <2>1. l2at \in [Keys -> Nat] /\ records[k[1]] \in Nat
      BY <1>2 DEF SoundInv, TypeOK
    <2>2. l2at'[k] = records[k[1]] /\ UNCHANGED records
      BY <1>1, <1>2, <1>5, <2>1 DEF StampsL2
    <2> QED BY <2>1, <2>2 DEF Newer
  <1>6. CASE L2Reads(x) \/ L2Writes(x) \/ CascadesL3(x) \/ ArmsMax(x) \/ EndsL3(x)
    BY <1>1, <1>6 DEF L2Reads, L2Writes, CascadesL3, ArmsMax, EndsL3
  <1>7. CASE DeepFails(x)
    BY <1>1, <1>7, DeepFailsTraced
  <1> QED BY <1>3, <1>4, <1>5, <1>6, <1>7, DeepChanges DEF DeepActs

\* Memories stay new until the run that stamps them, which has queued its L3 task.
LEMMA NewerStep ==
  ASSUME SoundInv, [Next]_vars, NEW k \in Keys
  PROVE  /\ Newer(k) => Newer(k)' \/ Queued("L3", k)'
         /\ Newer(k)' => Newer(k) \/ L1Extracts(k[1])
  <1>1. /\ k[1] \in Sessions /\ CounterActs
        /\ l2at[k] \in Nat /\ records[k[1]] \in Nat /\ l2at'[k] \in Nat /\ records'[k[1]] \in Nat
        /\ l2at \in [Keys -> Nat]
    BY CounterChanges, TypeStep, TaskNames DEF SoundInv, TypeOK
  <1>2. CASE l2at'[k] = l2at[k]
    BY <1>1, <1>2 DEF CounterActs, Newer
  <1>3. ASSUME NEW x \in Locks, StampsL2(x), deep[x].task.key = k
        PROVE  Queued("L3", k)' /\ ~Newer(k)'
    <2>1. Queued("L3", k) /\ UNCHANGED <<queue, records>> /\ l2at'[k] = records[k[1]]
      <3>1. DeepSound(x) /\ deep[x].phase = "stamp"
        BY <1>3 DEF SoundInv, StampsL2
      <3> QED BY <1>1, <1>3, <3>1 DEF DeepSound, StampsL2
    <2> QED BY <1>1, <2>1 DEF Queued, Newer
  <1> QED BY <1>1, <1>2, <1>3 DEF CounterActs

Two(s) == {<<s, "session">>, <<s, "profile">>}
L1Coming(s) == Queued("L1", Own(s)) \/ (l1[s].phase # "none" /\ l1[s].task.type = "L1")
L2Coming(k) == Traced(k) \/ Early(k) \/ Stamping(k)

LEMMA TwoKeys == \A s \in Sessions : Two(s) \subseteq Keys /\ \A k \in Two(s) : k[1] = s
  BY DEF Two, Keys

\* An L1 task that ends well arms an L2 timer of its session.
LEMMA L1ComingStep ==
  ASSUME SoundInv, [Next]_vars, NEW s \in Sessions, L1Coming(s)
  PROVE  L1Coming(s)' \/ \E k \in Two(s) : Traced(k)'
  <1>0. /\ TypeOK /\ QueueType /\ L1Sound(s) /\ l1 \in [Sessions -> L1Runs] /\ l1[s] \in L1Runs
        /\ Own(s) \in Two(s) /\ L2Timer(Own(s)) \in Members /\ L2Timer(Own(s)).key = Own(s)
    BY TaskNames DEF SoundInv, TypeOK, QueueType, Two, Own, L2Timer, Member
  <1>1. CASE StartsL1(s)
    <2>1. PICK t \in {Task("L1", Own(s), timed) : timed \in BOOLEAN}, ph \in {"zero", "run"} :
            l1'[s] = [NoL1(s) EXCEPT !.task = t, !.phase = ph]
      BY <1>0, <1>1 DEF StartsL1
    <2>2. l1'[s].phase # "none" /\ l1'[s].task.type = "L1"
      BY <2>1 DEF NoL1, Task
    <2> QED BY <2>2 DEF L1Coming
  <1>2. CASE Queued("L1", Own(s)) /\ ~StartsL1(s)
    BY <1>2, StaysQueued DEF L1Coming
  <1>3. CASE l1[s].phase # "none" /\ l1[s].task.type = "L1"
    <2>1. CASE l1'[s] = l1[s]
      BY <1>3, <2>1 DEF L1Coming
    <2>2. CASE RunsFlush(s)
      BY <1>3, <2>2 DEF RunsFlush
    <2>3. CASE L1Reads(s) \/ L1Extracts(s) \/ Zeroes(s)
      <3>1. l1'[s].task = l1[s].task /\ l1'[s].phase \in {"read", "zero", "arm"}
        <4>1. CASE L1Reads(s)
          BY <1>0, <4>1 DEF L1Reads, L1Runs
        <4>2. CASE L1Extracts(s)
          BY <1>0, <4>2 DEF L1Extracts, L1Runs
        <4>3. CASE Zeroes(s)
          BY <1>0, <4>3 DEF Zeroes, L1Runs
        <4> QED BY <2>3, <4>1, <4>2, <4>3
      <3> QED BY <1>3, <3>1 DEF L1Coming
    <2>4. CASE ArmsL2(s)
      <3>1. PICK k \in Two(s) : k = <<s, l1[s].to>>
        BY <1>0 DEF L1Runs, Two
      <3>2. L2Timer(k) \in timers'
        BY <2>4, <3>1 DEF ArmsL2
      <3> QED BY <3>2 DEF Traced, Held, Armed
    <2>5. CASE L1Fails(s)
      <3>1. PICK t \in Tasks : t = l1[s].task /\ t.key = Own(s) /\ t.type = "L1"
        BY <1>0, <1>3 DEF L1Sound, L1Runs
      <3>2. Queued(t.type, t.key)' \/ L2Timer(Own(s)) \in lost'
        BY <1>0, <2>5, <3>1, Retrying DEF L1Fails
      <3> QED BY <1>0, <3>1, <3>2 DEF L1Coming, Traced, Held
    <2>6. ASSUME NEW e \in ending, e = <<s, "task">>, FlushEnqueues(e) \/ FlushFails(e) PROVE FALSE
      BY <1>0, <1>3, <2>6 DEF L1Sound
    <2> QED BY <1>1, <2>1, <2>2, <2>3, <2>4, <2>5, <2>6, L1Changes DEF L1Acts
  <1> QED BY <1>1, <1>2, <1>3 DEF L1Coming

MemInv == \A s \in Sessions : (\A k \in Two(s) : Newer(k)) => L1Coming(s) \/ \E k \in Two(s) : L2Coming(k)

LEMMA MemStep == ASSUME SoundInv, MemInv, [Next]_vars PROVE MemInv'
  <1> SUFFICES ASSUME NEW s \in Sessions, \A k \in Two(s) : Newer(k)'
               PROVE  L1Coming(s)' \/ \E k \in Two(s) : L2Coming(k)'
    <2>1. \A s \in Sessions : (\A k \in Two(s) : Newer(k)') => L1Coming(s)' \/ \E k \in Two(s) : L2Coming(k)'
      OBVIOUS
    <2> QED BY <2>1 DEF MemInv, Two
  <1>0. L1Sound(s) /\ l1 \in [Sessions -> L1Runs] /\ l1[s] \in L1Runs
    BY DEF SoundInv, TypeOK
  <1>1. CASE L1Extracts(s)
    <2>1. l1[s].task.type = "L1" /\ l1'[s].task = l1[s].task /\ l1'[s].phase = "zero"
      BY <1>0, <1>1 DEF L1Extracts, L1Sound, L1Runs
    <2> QED BY <2>1 DEF L1Coming
  <1>2. CASE ~L1Extracts(s)
    <2>1. \A k \in Two(s) : Newer(k)
      BY <1>2, NewerStep, TwoKeys
    <2>2. CASE L1Coming(s)
      BY <2>2, L1ComingStep DEF L2Coming
    <2>3. ASSUME NEW k \in Two(s), L2Coming(k) PROVE L2Coming(k)'
      <3>1. k \in Keys /\ Newer(k) /\ Newer(k)'
        BY <2>1, TwoKeys
      <3> QED BY <2>3, <3>1, TracedStep, EarlyStep, StampingStep DEF L2Coming
    <2> QED BY <2>1, <2>2, <2>3 DEF MemInv
  <1> QED BY <1>1, <1>2

\* Memories an L1 run stored reach an L2 run: as long as no L2 cursor of the
\* session has passed them, the timer that advanceL2Timer armed, its task or the
\* run that reads them is there, or the L1 task that arms it, unless a dead
\* letter or an empty extraction gave the timer up.
THEOREM StatefulMemories == Spec => []MemoriesHaveL2
  <1>1. Init => SoundInv /\ MemInv
    <2> SUFFICES ASSUME Init, NEW s \in Sessions PROVE ~ \A k \in Two(s) : Newer(k)
      BY SoundInit DEF MemInv
    <2>1. Own(s) \in Two(s) /\ Own(s) \in Keys /\ Own(s)[1] = s
      BY TaskNames DEF Two, Own
    <2>2. records[s] = 0 /\ l2at[Own(s)] = 0
      BY <2>1 DEF Init
    <2> QED BY <2>1, <2>2 DEF Newer
  <1>2. SoundInv /\ MemInv /\ [Next]_vars => (SoundInv /\ MemInv)'
    BY SoundStep, MemStep
  <1>3. SoundInv /\ MemInv => MemoriesHaveL2
    <2> SUFFICES ASSUME SoundInv, MemInv, NEW s \in Sessions, \A k \in Two(s) : records[s] > l2at[k]
                 PROVE  L1Due(s) \/ \E k \in Two(s) : L2Timer(k) \in lost \/ L2Due(k)
      BY DEF MemoriesHaveL2, Two
    <2>1. \A k \in Two(s) : Newer(k)
      BY TwoKeys DEF Newer
    <2>2. CASE L1Coming(s)
      BY <2>2 DEF L1Coming, L1Due
    <2>3. ASSUME NEW k \in Two(s), L2Coming(k) PROVE L2Timer(k) \in lost \/ L2Due(k)
      BY <2>3 DEF L2Coming, Traced, Held, Early, Stamping, L2Due, Running
    <2> QED BY <2>1, <2>2, <2>3 DEF MemInv
  <1> QED BY <1>1, <1>2, <1>3, PTL DEF Spec

SceneInv == unseen => \E k \in Keys : Queued("L3", k) \/ (Newer(k) /\ (Traced(k) \/ Early(k)))

\* Scenes become unread by an L2 run that writes them, or by a persona run that fails.
LEMMA UnseenChanges ==
  ASSUME SoundInv, [Next]_vars, ~unseen, unseen'
  PROVE  \E x \in Locks : L2Writes(x) \/ DeepFails(x)
  <1> SUFFICES ASSUME ~ \E x \in Locks : L2Writes(x) \/ DeepFails(x) PROVE UNCHANGED unseen \/ ~unseen'
    OBVIOUS
  <1>1. ASSUME NEW n \in Notifiers, NotifyReads(n) \/ Captures(n) \/ AdvancesWarmup(n) \/ NotifyFails(n)
        PROVE  UNCHANGED unseen
    BY <1>1 DEF NotifyReads, Captures, AdvancesWarmup, NotifyFails
  <1>2. ASSUME NEW s \in Sessions,
               \/ EndsSession(s) \/ StartsL1(s) \/ RunsFlush(s) \/ L1Reads(s) \/ L1Extracts(s)
               \/ Zeroes(s) \/ ArmsL2(s) \/ L1Fails(s)
        PROVE  UNCHANGED unseen
    BY <1>2 DEF EndsSession, StartsL1, RunsFlush, L1Reads, L1Extracts, Zeroes, ArmsL2, L1Fails
  <1>3. ASSUME NEW e \in Sessions \X {"route", "task"}, FlushEnqueues(e) \/ FlushFails(e)
        PROVE  UNCHANGED unseen
    BY <1>3 DEF FlushEnqueues, FlushFails
  <1>4. ASSUME NEW m \in Members, TimerFires(m) \/ \E p \in Scanners : ScanEnqueues(p, m)
        PROVE  UNCHANGED unseen
    BY <1>4 DEF TimerFires, ScanEnqueues
  <1>5. ASSUME NEW p \in Scanners, ScanClaims(p) \/ ScanFails(p) PROVE UNCHANGED unseen
    BY <1>5 DEF ScanClaims, ScanFails
  <1>6. ASSUME NEW k \in Keys, StartsL2(k) \/ StartsL3(k) PROVE UNCHANGED unseen \/ ~unseen'
    BY <1>6 DEF StartsL2, StartsL3
  <1>7. ASSUME NEW x \in Locks, L2Reads(x) \/ CascadesL3(x) \/ StampsL2(x) \/ ArmsMax(x) \/ EndsL3(x)
        PROVE  UNCHANGED unseen
    BY <1>7 DEF L2Reads, CascadesL3, StampsL2, ArmsMax, EndsL3
  <1>8. CASE UNCHANGED vars
    BY <1>8 DEF vars
  <1> QED BY <1>1, <1>2, <1>3, <1>4, <1>5, <1>6, <1>7, <1>8 DEF Next

LEMMA SceneStep == ASSUME SoundInv, SceneInv, [Next]_vars PROVE SceneInv'
  <1> SUFFICES ASSUME unseen'
               PROVE  \E k \in Keys : Queued("L3", k)' \/ (Newer(k)' /\ (Traced(k)' \/ Early(k)'))
    BY DEF SceneInv
  <1>1. CASE unseen
    <2>1. PICK k \in Keys : Queued("L3", k) \/ (Newer(k) /\ (Traced(k) \/ Early(k)))
      BY <1>1 DEF SceneInv
    <2>2. ~StartsL3(k)
      BY TypeStep DEF StartsL3
    <2>3. Queued("L3", k) => Queued("L3", k)'
      BY <2>2, StaysQueued
    <2>4. Newer(k) /\ Traced(k) => Queued("L3", k)' \/ (Newer(k)' /\ (Traced(k)' \/ Early(k)'))
      BY TracedStep, NewerStep
    <2>5. Newer(k) /\ Early(k) => Queued("L3", k)' \/ (Newer(k)' /\ (Traced(k)' \/ Early(k)'))
      BY EarlyStep, NewerStep
    <2> QED BY <2>1, <2>3, <2>4, <2>5
  <1>2. ASSUME NEW x \in Locks, L2Writes(x), ~unseen
        PROVE  \E k \in Keys : Newer(k)' /\ Early(k)'
    <2>1. PICK k \in Keys : k = deep[x].task.key
      BY DeepFacts
    <2>2. deep[x].phase = "scenes" /\ DeepSound(x) /\ deep[x] \in DeepRuns /\ deep[x].task \in Tasks
      BY <1>2, DeepFacts DEF L2Writes, SoundInv
    <2>3. Newer(k) /\ deep[x].task.type = "L2"
      BY <2>1, <2>2 DEF DeepSound, Newer
    <2>4. deep[x].task = Task("L2", k, FALSE)
      BY <2>1, <2>2, <2>3, TaskFields
    <2>5. deep' = [deep EXCEPT ![x].phase = "l3"] /\ UNCHANGED <<records, l2at>>
      BY <1>2 DEF L2Writes
    <2>6. deep'[x].phase = "l3" /\ deep'[x].task = deep[x].task
      BY <2>2, <2>5, DeepFacts DEF DeepRuns
    <2>7. Early(k)'
      BY <2>4, <2>6 DEF Early
    <2>8. Newer(k)'
      BY <2>3, <2>5 DEF Newer
    <2> QED BY <2>7, <2>8
  <1>3. ASSUME NEW x \in Locks, DeepFails(x), ~unseen PROVE \E k \in Keys : Queued("L3", k)'
    <2>1. PICK t \in Tasks : t = deep[x].task /\ t.key \in Keys
      BY DeepFacts
    <2>2. queue' # queue /\ deep[x].phase = "persona" /\ RetriesOrBuries(t)
      BY <1>3, <2>1 DEF DeepFails
    <2>3. t.type = "L3"
      BY <2>1, <2>2 DEF SoundInv, DeepSound
    <2>4. Put(t) /\ QueueType
      BY <2>2 DEF RetriesOrBuries, SoundInv, TypeOK, QueueType
    <2>5. Queued("L3", t.key)'
      BY <2>3, <2>4, Putting
    <2> QED BY <2>1, <2>5
  <1>4. CASE ~unseen
    <2>1. PICK x \in Locks : L2Writes(x) \/ DeepFails(x)
      BY <1>4, UnseenChanges
    <2> QED BY <1>2, <1>3, <1>4, <2>1
  <1> QED BY <1>1, <1>4 DEF SoundInv, TypeOK

\* Scenes an L2 run wrote reach an L3 run: until one reads them, an L3 task is
\* queued, or an L2 task with memories to read is traced that will queue it, or
\* runs and has not queued it yet; a dead letter may give the L2 timer up.
THEOREM StatefulScenes == Spec => []ScenesHaveL3
  <1>1. Init => SoundInv /\ SceneInv
    BY SoundInit DEF Init, SceneInv
  <1>2. SoundInv /\ SceneInv /\ [Next]_vars => (SoundInv /\ SceneInv)'
    BY SoundStep, SceneStep
  <1>3. SoundInv /\ SceneInv => ScenesHaveL3
    <2> SUFFICES ASSUME SoundInv, SceneInv, unseen,
                        NEW k \in Keys, Queued("L3", k) \/ (Newer(k) /\ (Traced(k) \/ Early(k)))
                 PROVE  \/ L2Timer(k) \in lost \/ Queued("L3", k)
                        \/ L2Due(k) /\ records[k[1]] > l2at[k]
      BY DEF SceneInv, ScenesHaveL3
    <2> QED BY DEF Newer, Traced, Held, Early, L2Due, Running
  <1> QED BY <1>1, <1>2, <1>3, PTL DEF Spec
=============================================================================
