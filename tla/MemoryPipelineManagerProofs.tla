--------------------- MODULE MemoryPipelineManagerProofs ---------------------
(***************************************************************************)
(* Theorems about MemoryPipelineManager: the types, the serial queues and  *)
(* their flags, the retry of a failed L1 run, the L2 work that L1 leaves,  *)
(* and L3 runs after L2 completions.                                       *)
(***************************************************************************)
EXTENDS MemoryPipelineManager, SequenceTheorems, FiniteSetTheorems, TLAPS

-----------------------------------------------------------------------------
(* Serial queues as sequences without repetition.                          *)

\* An order of a finite set is a sequence of its elements, each once.
LEMMA OrderOfSet ==
  ASSUME NEW S, NEW X \in SUBSET S, IsFiniteSet(X), NEW q \in SetToSeqs(X)
  PROVE  q \in Seq(S) /\ IsInjective(q) /\ Range(q) = X
  <1> DEFINE n == Cardinality(X)
  <1>1. n \in Nat
    BY FS_CardinalityType
  <1> HIDE DEF n
  <1>2. q \in [1..n -> X] /\ \A i, j \in 1..n : i # j => q[i] # q[j]
    BY DEF SetToSeqs, n
  <1>3. IsInjective(q)
    BY <1>2 DEF IsInjective
  <1>4. q \in Injection(1..n, X)
    BY <1>2, <1>3 DEF Injection
  <1>5. Cardinality(1..n) = n
    <2>1. n \in Int /\ 1 \in Int
      BY <1>1
    <2>2. Cardinality(1..n) = IF 1 > n THEN 0 ELSE n - 1 + 1
      BY <2>1, FS_Interval
    <2> QED BY <1>1, <2>2
  <1>6. q \in Surjection(1..n, X)
    BY <1>4, <1>5, FS_Injection DEF n
  <1>7. Range(q) = X
    BY <1>2, <1>6 DEF Range, Surjection
  <1>8. q \in Seq(S)
    <2>1. q \in [1..n -> S]
      BY <1>2
    <2> QED BY <1>1, <2>1, IsASeq
  <1> QED BY <1>3, <1>7, <1>8

\* The empty queue.
LEMMA EmptyQueue ==
  ASSUME NEW S
  PROVE  <<>> \in Seq(S) /\ IsInjective(<<>>) /\ Range(<<>>) = {}
  BY EmptySeq DEF IsInjective, Range

\* A queue that is not empty has a head, and is empty just when its range is.
LEMMA QueueHead ==
  ASSUME NEW S, NEW q \in Seq(S)
  PROVE  /\ q # <<>> => Head(q) \in Range(q) /\ Head(q) \in S
         /\ Range(q) \in SUBSET S
         /\ q = <<>> <=> Range(q) = {}
  <1>1. q # <<>> => Len(q) \in Nat /\ 1 \in DOMAIN q /\ Head(q) = q[1] /\ q[1] \in S
    BY HeadTailProperties, EmptySeq
  <1>2. \A i \in DOMAIN q : q[i] \in S
    BY ElementOfSeq
  <1>3. Range(<<>>) = {}
    BY EmptyQueue
  <1> QED BY <1>1, <1>2, <1>3 DEF Range

\* Appending what is not yet in the queue.
LEMMA QueueGrows ==
  ASSUME NEW S, NEW p \in Seq(S), NEW q \in Seq(S),
         IsInjective(p), IsInjective(q), Range(p) \cap Range(q) = {}
  PROVE  /\ p \o q \in Seq(S) /\ IsInjective(p \o q)
         /\ Range(p \o q) = Range(p) \cup Range(q)
         /\ p # <<>> => p \o q # <<>> /\ Head(p \o q) = Head(p)
  <1> DEFINE r == p \o q
             m == Len(p)
             n == Len(q)
  <1>1. m \in Nat /\ n \in Nat /\ DOMAIN p = 1..m /\ DOMAIN q = 1..n
    BY LenProperties
  <1>2. r \in Seq(S) /\ Len(r) = m + n /\ DOMAIN r = 1..(m + n)
    BY ConcatProperties, LenProperties
  <1>3. \A i \in 1..(m + n) : r[i] = IF i =< m THEN p[i] ELSE q[i - m]
    BY ConcatProperties
  <1> HIDE DEF r, m, n
  <1>4. \A i \in 1..m : i \in 1..(m + n) /\ r[i] = p[i]
    BY <1>1, <1>3
  <1>5. \A i \in 1..n : i + m \in 1..(m + n) /\ r[i + m] = q[i]
    <2>1. ASSUME NEW i \in 1..n PROVE i + m \in 1..(m + n) /\ ~(i + m =< m) /\ (i + m) - m = i
      BY <1>1
    <2> QED BY <1>3, <2>1
  <1>6. ASSUME NEW i \in 1..(m + n)
        PROVE  \/ i \in 1..m /\ r[i] = p[i]
               \/ i - m \in 1..n /\ i = (i - m) + m /\ r[i] = q[i - m]
    BY <1>1, <1>3
  <1>7. Range(r) = Range(p) \cup Range(q)
    <2>1. \A x \in Range(p) : x \in Range(r)
      BY <1>1, <1>2, <1>4 DEF Range
    <2>2. \A x \in Range(q) : x \in Range(r)
      BY <1>1, <1>2, <1>5 DEF Range
    <2>3. \A x \in Range(r) : x \in Range(p) \cup Range(q)
      BY <1>1, <1>2, <1>6 DEF Range
    <2> QED BY <2>1, <2>2, <2>3
  <1>8. IsInjective(r)
    <2>1. SUFFICES ASSUME NEW i \in 1..(m + n), NEW j \in 1..(m + n), r[i] = r[j]
                   PROVE  i = j
      BY <1>2 DEF IsInjective
    <2>2. \A k \in 1..m : p[k] \in Range(p)
      BY <1>1 DEF Range
    <2>3. \A k \in 1..n : q[k] \in Range(q)
      BY <1>1 DEF Range
    <2>4. CASE i \in 1..m /\ j \in 1..m
      BY <1>1, <1>4, <2>1, <2>4 DEF IsInjective
    <2>5. CASE i - m \in 1..n /\ j - m \in 1..n
      <3>1. r[i] = q[i - m] /\ r[j] = q[j - m]
        BY <1>1, <1>3, <2>5
      <3>2. i - m = j - m
        BY <1>1, <2>1, <2>5, <3>1 DEF IsInjective
      <3> QED BY <1>1, <3>2
    <2>6. CASE i \in 1..m /\ j - m \in 1..n
      BY <1>1, <1>3, <1>4, <2>1, <2>2, <2>3, <2>6
    <2>7. CASE i - m \in 1..n /\ j \in 1..m
      BY <1>1, <1>3, <1>4, <2>1, <2>2, <2>3, <2>7
    <2> QED BY <1>6, <2>4, <2>5, <2>6, <2>7
  <1>9. ASSUME p # <<>> PROVE r # <<>> /\ Head(r) = Head(p)
    <2>1. m # 0
      BY <1>9, EmptySeq DEF m
    <2>2. Len(r) # 0 /\ r[1] = p[1]
      BY <1>1, <1>2, <1>4, <2>1
    <2>3. r # <<>>
      BY <2>2, EmptySeq
    <2> QED BY <1>2, <1>9, <2>2, <2>3, HeadTailProperties
  <1> QED BY <1>2, <1>7, <1>8, <1>9 DEF r

\* The rest of a queue holds everything but its head.
LEMMA QueueShrinks ==
  ASSUME NEW S, NEW q \in Seq(S), q # <<>>, IsInjective(q)
  PROVE  Tail(q) \in Seq(S) /\ IsInjective(Tail(q)) /\ Range(Tail(q)) = Range(q) \ {Head(q)}
  <1> DEFINE n == Len(q)
             t == Tail(q)
  <1>1. n \in Nat /\ n # 0 /\ DOMAIN q = 1..n
    BY LenProperties, EmptySeq
  <1>2. t \in Seq(S) /\ Len(t) = n - 1 /\ Head(q) = q[1] /\ \A i \in 1..(n - 1) : t[i] = q[i + 1]
    BY HeadTailProperties
  <1>3. DOMAIN t = 1..(n - 1)
    BY <1>2, LenProperties
  <1> HIDE DEF n, t
  <1>4. IsInjective(t)
    <2>1. SUFFICES ASSUME NEW i \in 1..(n - 1), NEW j \in 1..(n - 1), t[i] = t[j]
                   PROVE  i = j
      BY <1>3 DEF IsInjective
    <2>2. i + 1 \in 1..n /\ j + 1 \in 1..n /\ q[i + 1] = q[j + 1]
      BY <1>1, <1>2, <2>1
    <2>3. i + 1 = j + 1
      BY <1>1, <2>2 DEF IsInjective
    <2> QED BY <2>3
  <1>5. ASSUME NEW x \in Range(t) PROVE x \in Range(q) \ {Head(q)}
    <2>1. PICK i \in 1..(n - 1) : x = t[i]
      BY <1>3 DEF Range
    <2>2. i + 1 \in 1..n /\ 1 \in 1..n /\ i + 1 # 1 /\ x = q[i + 1]
      BY <1>1, <1>2, <2>1
    <2> QED BY <1>1, <1>2, <2>2 DEF Range, IsInjective
  <1>6. ASSUME NEW x \in Range(q) \ {Head(q)} PROVE x \in Range(t)
    <2>1. PICK i \in 1..n : x = q[i]
      BY <1>1 DEF Range
    <2>2. i # 1
      BY <1>2, <2>1
    <2>3. i - 1 \in 1..(n - 1) /\ (i - 1) + 1 = i
      BY <1>1, <2>2
    <2>4. x = t[i - 1]
      BY <1>2, <2>1, <2>3
    <2> QED BY <1>3, <2>3, <2>4 DEF Range
  <1> QED BY <1>2, <1>4, <1>5, <1>6 DEF t

-----------------------------------------------------------------------------
(* The inductive invariant.                                                *)

L1Runs == [phase : {"none", "run", "read", "persist"}, msgs : Nat, read : 0..(2 * Batch), keys : SUBSET Keys]
L2Runs == [phase : {"none", "run", "skip", "persist"}, from : Nat, upto : Nat]

\* Each serial queue holds the keys whose flag is set, once each, and a task is
\* somewhere just while the queue holds one.
L1Queue ==
  /\ IsInjective(l1q) /\ Range(l1q) = l1Queued
  /\ l1q = <<>> <=> l1.phase = "none"

L2Queue ==
  /\ IsInjective(l2q) /\ Range(l2q) = l2Queued
  /\ l2q = <<>> <=> l2.phase = "none"

\* The L1 cursor is not past the rows, nor will it be once the run has returned.
StoreOK ==
  /\ \A s \in Sessions : cursor[s] =< rows[s]
  /\ l1.phase = "read" => cursor[Head(l1q)] + l1.read =< rows[Head(l1q)]

\* What is queued, armed, buffered or being counted has a state, and a session
\* that is being counted is active.
KnownOK ==
  /\ l1Queued \cup l2Queued \cup idle \subseteq known
  /\ \A s \in Sessions : buf[s] > 0 => s \in known
  /\ \A s \in Sessions : notes[s] # <<>> => s \in known /\ age[s] = 0

\* A run that has returned has given its retries back.
RetryOK ==
  /\ l1.phase = "persist" => retries[Head(l1q)] = 0
  /\ FailedRunRetried

\* A run that has returned left one key to L2; a skipped L2 run has a timer.
PendingOK ==
  /\ l1.phase = "persist" => \E k \in Keys : l1.keys = {k}
  /\ Up /\ l2.phase = "skip" => sched[Head(l2q)] # "none"
  /\ PendingL2Armed

ManagerInv ==
  TypeOK /\ L1Queue /\ L2Queue /\ StoreOK /\ KnownOK /\ RetryOK /\ PendingOK

-----------------------------------------------------------------------------
(* What the operations on the serial queues leave.                         *)

\* The L1 queue and its task after a step.
L1Shape == L1Queue /\ l1q \in Seq(Sessions) /\ l1 \in L1Runs /\ buf \in [Sessions -> Nat]
L2Shape == L2Queue /\ l2q \in Seq(Keys) /\ l2 \in L2Runs

LEMMA KeysFinite ==
  IsFiniteSet(Keys) /\ Sessions \subseteq Keys /\ Profiles \subseteq Keys /\ \A s \in Sessions : s \notin Profiles
  <1>1. IsFiniteSet(Keys)
    BY PipelineAssumption, FS_Union DEF Keys
  <1> QED BY <1>1, PipelineAssumption DEF Keys

\* The running task is the head of its queue.
LEMMA Running1 ==
  ASSUME TypeOK, L1Queue
  PROVE  /\ l1.phase # "none" => l1q # <<>> /\ Head(l1q) \in l1Queued /\ Head(l1q) \in Sessions
         /\ l1q # <<>> => l1.phase # "none"
  BY QueueHead DEF TypeOK, L1Queue

LEMMA Running2 ==
  ASSUME TypeOK, L2Queue
  PROVE  /\ l2.phase # "none" => l2q # <<>> /\ Head(l2q) \in l2Queued /\ Head(l2q) \in Keys
         /\ l2q # <<>> => l2.phase # "none"
  BY QueueHead DEF TypeOK, L2Queue

\* A task that starts takes the buffer of its session.
LEMMA StartsHead ==
  ASSUME NEW q \in Seq(Sessions), NEW b \in [Sessions -> Nat], StartL1(q, b)
  PROVE  /\ l1q' = q /\ l1' \in L1Runs /\ buf' \in [Sessions -> Nat]
         /\ l1'.phase \in {"none", "run"} /\ (q = <<>> <=> l1'.phase = "none")
         /\ \A s \in Sessions : buf'[s] > 0 => b[s] > 0 /\ buf'[s] = b[s]
  <1>1. NoRun \in L1Runs /\ NoRun.phase = "none"
    <2>1. 0 \in 0..(2 * Batch)
      BY PipelineAssumption
    <2> QED BY <2>1 DEF NoRun, L1Runs
  <1>2. CASE q = <<>>
    BY <1>1, <1>2 DEF StartL1
  <1>3. CASE q # <<>>
    <2>1. Head(q) \in Sessions /\ b[Head(q)] \in Nat
      BY <1>3, QueueHead
    <2>2. l1' = [NoRun EXCEPT !.phase = "run", !.msgs = b[Head(q)]] /\ buf' = [b EXCEPT ![Head(q)] = 0] /\ l1q' = q
      BY <1>3 DEF StartL1
    <2>3. l1' \in L1Runs /\ l1'.phase = "run"
      BY <1>1, <2>1, <2>2 DEF L1Runs, NoRun
    <2> QED BY <1>3, <2>1, <2>2, <2>3
  <1> QED BY <1>2, <1>3

LEMMA StartsHead2 ==
  ASSUME TypeOK, NEW q \in Seq(Keys), StartL2(q)
  PROVE  /\ l2q' = q /\ l2' \in L2Runs /\ l2'.phase \in {"none", "run"} /\ (q = <<>> <=> l2'.phase = "none")
  <1>1. NoL2 \in L2Runs /\ NoL2.phase = "none"
    BY DEF NoL2, L2Runs
  <1>2. CASE q = <<>>
    BY <1>1, <1>2 DEF StartL2
  <1>3. CASE q # <<>>
    <2>1. Head(q) \in Keys
      BY <1>3, QueueHead
    <2>2. st[Head(q)].seen \in Nat /\ records[Head(q)] \in Nat
      BY <2>1 DEF TypeOK, States
    <2> QED BY <1>3, <2>2 DEF StartL2, L2Runs
  <1> QED BY <1>2, <1>3

\* enqueueL1: the sessions in new are queued, and a task that runs goes on.
LEMMA Enqueues1 ==
  ASSUME TypeOK, L1Queue, NEW new \in SUBSET Sessions, NEW i, EnqueueL1(new, i)
  PROVE  /\ L1Shape'
         /\ l1Queued' = l1Queued \cup new
         /\ idle' = i \ (new \ l1Queued)
         /\ \A s \in Sessions : buf'[s] > 0 => buf[s] > 0
         /\ l1.phase # "none" => l1' = l1 /\ Head(l1q') = Head(l1q)
         /\ l1.phase = "none" => l1'.phase \in {"none", "run"}
  <1>1. PICK q \in SetToSeqs(new \ l1Queued) :
          /\ l1Queued' = l1Queued \cup new
          /\ idle' = i \ (new \ l1Queued)
          /\ IF l1q = <<>> THEN StartL1(q, buf) ELSE l1q' = l1q \o q /\ UNCHANGED <<l1, buf>>
    BY DEF EnqueueL1
  <1>2. q \in Seq(Sessions) /\ IsInjective(q) /\ Range(q) = new \ l1Queued
    <2>1. IsFiniteSet(new \ l1Queued)
      BY PipelineAssumption, FS_Subset
    <2> QED BY <2>1, OrderOfSet
  <1>3. l1q \in Seq(Sessions) /\ buf \in [Sessions -> Nat] /\ l1 \in L1Runs /\ l1Queued = Range(l1q)
    BY DEF TypeOK, L1Queue, L1Runs
  <1>4. CASE l1q = <<>>
    <2>1. l1Queued = {}
      BY <1>3, <1>4, EmptyQueue
    <2>2. /\ l1q' = q /\ l1' \in L1Runs /\ buf' \in [Sessions -> Nat]
          /\ l1'.phase \in {"none", "run"} /\ (q = <<>> <=> l1'.phase = "none")
          /\ \A s \in Sessions : buf'[s] > 0 => buf[s] > 0
      BY <1>1, <1>2, <1>3, <1>4, StartsHead
    <2>3. l1.phase = "none"
      BY <1>4 DEF L1Queue
    <2>4. L1Shape'
      BY <1>1, <1>2, <2>1, <2>2 DEF L1Shape, L1Queue
    <2> QED BY <1>1, <2>2, <2>3, <2>4
  <1>5. CASE l1q # <<>>
    <2>1. l1q' = l1q \o q /\ l1' = l1 /\ buf' = buf
      BY <1>1, <1>5
    <2>2. Range(l1q) \cap Range(q) = {} /\ IsInjective(l1q)
      BY <1>2, <1>3 DEF L1Queue
    <2>3. /\ l1q' \in Seq(Sessions) /\ IsInjective(l1q') /\ Range(l1q') = Range(l1q) \cup Range(q)
          /\ l1q' # <<>> /\ Head(l1q') = Head(l1q)
      BY <1>2, <1>3, <1>5, <2>1, <2>2, QueueGrows
    <2>4. l1.phase # "none"
      BY <1>5 DEF L1Queue
    <2>5. Range(l1q') = l1Queued'
      BY <1>1, <1>2, <1>3, <2>3
    <2>6. L1Shape'
      BY <1>3, <2>1, <2>3, <2>4, <2>5 DEF L1Shape, L1Queue
    <2> QED BY <1>1, <2>1, <2>3, <2>4, <2>6
  <1> QED BY <1>4, <1>5

\* The running L1 task leaves the queue and the next one starts.
LEMMA Leaves1 ==
  ASSUME TypeOK, L1Queue, NEW b \in [Sessions -> Nat], l1.phase # "none",
         l1Queued' = l1Queued \ {Head(l1q)}, StartL1(Tail(l1q), b)
  PROVE  /\ L1Shape' /\ l1'.phase \in {"none", "run"}
         /\ \A s \in Sessions : buf'[s] > 0 => b[s] > 0 /\ buf'[s] = b[s]
  <1>1. l1q \in Seq(Sessions) /\ l1q # <<>> /\ IsInjective(l1q) /\ Range(l1q) = l1Queued
    BY Running1 DEF TypeOK, L1Queue
  <1>2. Tail(l1q) \in Seq(Sessions) /\ IsInjective(Tail(l1q)) /\ Range(Tail(l1q)) = Range(l1q) \ {Head(l1q)}
    BY <1>1, QueueShrinks
  <1>3. /\ l1q' = Tail(l1q) /\ l1' \in L1Runs /\ buf' \in [Sessions -> Nat]
        /\ l1'.phase \in {"none", "run"} /\ (Tail(l1q) = <<>> <=> l1'.phase = "none")
        /\ \A s \in Sessions : buf'[s] > 0 => b[s] > 0 /\ buf'[s] = b[s]
    BY <1>2, StartsHead
  <1>4. L1Shape'
    BY <1>1, <1>2, <1>3 DEF L1Shape, L1Queue
  <1> QED BY <1>3, <1>4

\* enqueueL2, likewise.
LEMMA Enqueues2 ==
  ASSUME TypeOK, L2Queue, NEW new \in SUBSET Keys, EnqueueL2(new)
  PROVE  /\ L2Shape'
         /\ l2Queued' = l2Queued \cup new
         /\ l2.phase # "none" => l2' = l2 /\ Head(l2q') = Head(l2q)
         /\ l2.phase = "none" => l2'.phase \in {"none", "run"}
  <1>1. PICK q \in SetToSeqs(new \ l2Queued) :
          /\ l2Queued' = l2Queued \cup new
          /\ IF l2q = <<>> THEN StartL2(q) ELSE l2q' = l2q \o q /\ UNCHANGED l2
    BY DEF EnqueueL2
  <1>2. q \in Seq(Keys) /\ IsInjective(q) /\ Range(q) = new \ l2Queued
    <2>1. IsFiniteSet(new \ l2Queued)
      BY KeysFinite, FS_Subset
    <2> QED BY <2>1, OrderOfSet
  <1>3. l2q \in Seq(Keys) /\ l2 \in L2Runs /\ l2Queued = Range(l2q)
    BY DEF TypeOK, L2Queue, L2Runs
  <1>4. CASE l2q = <<>>
    <2>1. l2Queued = {}
      BY <1>3, <1>4, EmptyQueue
    <2>2. l2q' = q /\ l2' \in L2Runs /\ l2'.phase \in {"none", "run"} /\ (q = <<>> <=> l2'.phase = "none")
      BY <1>1, <1>2, <1>4, StartsHead2
    <2>3. l2.phase = "none"
      BY <1>4 DEF L2Queue
    <2>4. L2Shape'
      BY <1>1, <1>2, <2>1, <2>2 DEF L2Shape, L2Queue
    <2> QED BY <1>1, <2>2, <2>3, <2>4
  <1>5. CASE l2q # <<>>
    <2>1. l2q' = l2q \o q /\ l2' = l2
      BY <1>1, <1>5
    <2>2. Range(l2q) \cap Range(q) = {} /\ IsInjective(l2q)
      BY <1>2, <1>3 DEF L2Queue
    <2>3. /\ l2q' \in Seq(Keys) /\ IsInjective(l2q') /\ Range(l2q') = Range(l2q) \cup Range(q)
          /\ l2q' # <<>> /\ Head(l2q') = Head(l2q)
      BY <1>2, <1>3, <1>5, <2>1, <2>2, QueueGrows
    <2>4. l2.phase # "none"
      BY <1>5 DEF L2Queue
    <2>5. Range(l2q') = l2Queued'
      BY <1>1, <1>2, <1>3, <2>3
    <2>6. L2Shape'
      BY <1>3, <2>1, <2>3, <2>4, <2>5 DEF L2Shape, L2Queue
    <2> QED BY <1>1, <2>1, <2>3, <2>4, <2>6
  <1> QED BY <1>4, <1>5

\* The running L2 task leaves the queue and the next one starts.
LEMMA Leaves2 ==
  ASSUME TypeOK, L2Queue, l2.phase # "none", NextL2
  PROVE  L2Shape' /\ l2'.phase \in {"none", "run"} /\ l2Queued' = l2Queued \ {Head(l2q)}
  <1>1. l2q \in Seq(Keys) /\ l2q # <<>> /\ IsInjective(l2q) /\ Range(l2q) = l2Queued
    BY Running2 DEF TypeOK, L2Queue
  <1>2. Tail(l2q) \in Seq(Keys) /\ IsInjective(Tail(l2q)) /\ Range(Tail(l2q)) = Range(l2q) \ {Head(l2q)}
    BY <1>1, QueueShrinks
  <1>3. l2Queued' = l2Queued \ {Head(l2q)} /\ StartL2(Tail(l2q))
    BY DEF NextL2
  <1>4. l2q' = Tail(l2q) /\ l2' \in L2Runs /\ l2'.phase \in {"none", "run"} /\ (Tail(l2q) = <<>> <=> l2'.phase = "none")
    BY <1>2, <1>3, StartsHead2
  <1>5. L2Shape'
    BY <1>1, <1>2, <1>3, <1>4 DEF L2Shape, L2Queue
  <1> QED BY <1>3, <1>4, <1>5

-----------------------------------------------------------------------------
(* The serial queues through every step.                                   *)

\* An empty process: what the next one starts with.
LEMMA StartsEmpty ==
  ASSUME Start
  PROVE  L1Shape' /\ L2Shape'
  <1>1. NoRun \in L1Runs /\ NoRun.phase = "none"
    <2>1. 0 \in 0..(2 * Batch)
      BY PipelineAssumption
    <2> QED BY <2>1 DEF NoRun, L1Runs
  <1>2. NoL2 \in L2Runs /\ NoL2.phase = "none"
    BY DEF NoL2, L2Runs
  <1>3. l1q' = <<>> /\ l2q' = <<>> /\ l1Queued' = {} /\ l2Queued' = {} /\ l1' = NoRun /\ l2' = NoL2
    BY DEF Start
  <1>4. buf' \in [Sessions -> Nat]
    BY DEF Start
  <1>5. L1Shape'
    BY <1>1, <1>3, <1>4, EmptyQueue DEF L1Shape, L1Queue
  <1>6. L2Shape'
    BY <1>2, <1>3, EmptyQueue DEF L2Shape, L2Queue
  <1> QED BY <1>5, <1>6

\* What a run has read.
LEMMA RowsRead ==
  ASSUME TypeOK, L1Queue, StoreOK, L1Reads
  PROVE  /\ l1' \in L1Runs /\ l1'.phase = "read" /\ UNCHANGED <<l1q, l1Queued, buf, rows, cursor>>
         /\ cursor[Head(l1q)] + l1'.read =< rows[Head(l1q)]
         /\ Head(l1q) \in Sessions
  <1> DEFINE s == Head(l1q)
             left == rows[s] - cursor[s]
  <1>1. s \in Sessions
    BY Running1 DEF L1Reads
  <1>2. rows[s] \in Nat /\ cursor[s] \in Nat /\ cursor[s] =< rows[s] /\ Batch \in Nat
    BY <1>1, PipelineAssumption DEF TypeOK, StoreOK
  <1>3. l1' = [l1 EXCEPT !.phase = "read", !.read = IF left > 2 * Batch THEN 2 * Batch ELSE left]
    BY DEF L1Reads
  <1>4. l1 \in L1Runs
    BY DEF TypeOK, L1Runs
  <1>5. UNCHANGED <<l1q, l1Queued, buf, rows, cursor>>
    BY DEF L1Reads, store
  <1>6. (IF left > 2 * Batch THEN 2 * Batch ELSE left) \in 0..(2 * Batch)
    BY <1>2
  <1> HIDE DEF s, left
  <1>7. l1' \in L1Runs /\ l1'.phase = "read" /\ l1'.read = IF left > 2 * Batch THEN 2 * Batch ELSE left
    BY <1>3, <1>4, <1>6 DEF L1Runs
  <1>8. cursor[s] + l1'.read =< rows[s]
    BY <1>2, <1>7 DEF left
  <1> QED BY <1>1, <1>5, <1>7, <1>8 DEF s

\* What a run that returns leaves: the key it has left to L2, the first Batch
\* rows behind the cursor.
LEMMA RunReturned ==
  ASSUME TypeOK, L1Queue, StoreOK, L1Returns
  PROVE  /\ Head(l1q) \in Sessions /\ Head(l1q) \in l1Queued
         /\ l1.phase = "read"
         /\ UNCHANGED <<l1q, l1Queued, buf, rows, idle, sched, notes, life, l2q, l2, l2Queued, ran, l3, unseen, restarts>>
         /\ retries' = [retries EXCEPT ![Head(l1q)] = 0]
         /\ l1' \in L1Runs /\ l1'.phase = "persist"
         /\ cursor' \in [Sessions -> 0..MaxRows] /\ \A s \in Sessions : cursor'[s] =< rows[s]
         /\ records' \in [Keys -> Nat]
         /\ Persist
         /\ \E k \in Keys :
              /\ k \in Profiles \/ k = Head(l1q)
              /\ l1'.keys = {k} /\ known' = known \cup {k}
              /\ age' = IF k \in known THEN age ELSE [age EXCEPT ![k] = 0]
              /\ st' = [[st EXCEPT ![Head(l1q)] = Warmer([@ EXCEPT !.count = 0])] EXCEPT ![k].pend = 1]
  <1> DEFINE s == Head(l1q)
             n == IF l1.read > Batch THEN Batch ELSE l1.read
  <1>1. s \in Sessions /\ s \in l1Queued /\ l1.phase = "read" /\ s \in Keys
    BY Running1, KeysFinite DEF L1Returns
  <1>2. l1 \in L1Runs
    BY DEF TypeOK, L1Runs
  <1>3. l1.read \in Nat /\ rows[s] \in 0..MaxRows /\ cursor[s] \in Nat /\ cursor[s] + l1.read =< rows[s]
        /\ Batch \in Nat /\ MaxRows \in Nat
    BY <1>1, PipelineAssumption DEF TypeOK, StoreOK
  <1>4. n \in Nat /\ cursor[s] + n =< rows[s]
    BY <1>3
  <1>5. PICK stored \in BOOLEAN :
          LET k == IF stored THEN ProfileOf[s] ELSE s IN
          /\ records' = IF stored THEN [records EXCEPT ![k] = @ + 1, ![s] = @ + 1] ELSE records
          /\ known' = known \cup {k}
          /\ age' = IF k \in known THEN age ELSE [age EXCEPT ![k] = 0]
          /\ st' = [[st EXCEPT ![s] = Warmer([@ EXCEPT !.count = 0])] EXCEPT ![k].pend = 1]
          /\ l1' = [l1 EXCEPT !.phase = "persist", !.keys = {k}]
    BY DEF L1Returns
  <1>6. cursor' = [cursor EXCEPT ![s] = @ + n] /\ retries' = [retries EXCEPT ![s] = 0] /\ Persist
        /\ UNCHANGED <<l1q, l1Queued, buf, rows, idle, sched, notes, life, l2q, l2, l2Queued, ran, l3, unseen, restarts>>
    BY DEF L1Returns, l2Vars
  <1> HIDE DEF s, n
  <1> DEFINE k == IF stored THEN ProfileOf[s] ELSE s
  <1>7. k \in Keys /\ (k \in Profiles \/ k = s)
    BY <1>1, KeysFinite, PipelineAssumption
  <1>8. l1' = [l1 EXCEPT !.phase = "persist", !.keys = {k}]
    BY <1>5
  <1>9. l1' \in L1Runs /\ l1'.phase = "persist" /\ l1'.keys = {k}
    BY <1>2, <1>7, <1>8 DEF L1Runs
  <1>10. records' \in [Keys -> Nat]
    <2>1. records \in [Keys -> Nat] /\ ProfileOf[s] \in Keys
      BY <1>1, KeysFinite, PipelineAssumption DEF TypeOK
    <2>2. records' = records \/ records' = [records EXCEPT ![ProfileOf[s]] = @ + 1, ![s] = @ + 1]
      BY <1>5
    <2> QED BY <1>1, <2>1, <2>2
  <1>11. cursor' \in [Sessions -> 0..MaxRows] /\ \A x \in Sessions : cursor'[x] =< rows[x]
    <2>1. cursor \in [Sessions -> 0..MaxRows] /\ \A x \in Sessions : cursor[x] =< rows[x]
      BY DEF TypeOK, StoreOK
    <2>2. cursor[s] + n \in 0..MaxRows
      BY <1>3, <1>4
    <2> QED BY <1>1, <1>4, <1>6, <2>1, <2>2
  <1>12. /\ known' = known \cup {k}
         /\ age' = IF k \in known THEN age ELSE [age EXCEPT ![k] = 0]
         /\ st' = [[st EXCEPT ![s] = Warmer([@ EXCEPT !.count = 0])] EXCEPT ![k].pend = 1]
    BY <1>5
  <1> HIDE DEF k
  <1> QED BY <1>1, <1>6, <1>7, <1>9, <1>10, <1>11, <1>12 DEF s

\* A run that fails gives its messages back.
LEMMA RunFailed ==
  ASSUME TypeOK, L1Queue, L1Fails
  PROVE  /\ Head(l1q) \in Sessions /\ Head(l1q) \in l1Queued /\ l1.phase \in {"run", "read"}
         /\ L1Shape' /\ l1'.phase \in {"none", "run"}
         /\ \A s \in Sessions : buf'[s] > 0 => s = Head(l1q) \/ buf[s] > 0
         /\ l1Queued' = l1Queued \ {Head(l1q)}
         /\ retries' = [retries EXCEPT ![Head(l1q)] = IF @ > MaxRetries THEN @ ELSE @ + 1]
         /\ idle' = IF retries[Head(l1q)] < MaxRetries THEN idle \cup {Head(l1q)} ELSE idle
  <1> DEFINE b == [buf EXCEPT ![Head(l1q)] = @ + l1.msgs]
  <1>1. Head(l1q) \in Sessions /\ Head(l1q) \in l1Queued /\ l1.phase \in {"run", "read"} /\ l1.phase # "none"
    BY Running1 DEF L1Fails
  <1>2. l1.msgs \in Nat /\ buf \in [Sessions -> Nat]
    BY DEF TypeOK
  <1>3. b \in [Sessions -> Nat] /\ \A s \in Sessions : s # Head(l1q) => b[s] = buf[s]
    BY <1>1, <1>2
  <1>4. /\ StartL1(Tail(l1q), b)
        /\ l1Queued' = l1Queued \ {Head(l1q)}
        /\ retries' = [retries EXCEPT ![Head(l1q)] = IF @ > MaxRetries THEN @ ELSE @ + 1]
        /\ idle' = IF retries[Head(l1q)] < MaxRetries THEN idle \cup {Head(l1q)} ELSE idle
    BY DEF L1Fails
  <1> HIDE DEF b
  <1>5. L1Shape' /\ l1'.phase \in {"none", "run"} /\ \A s \in Sessions : buf'[s] > 0 => b[s] > 0
    BY <1>1, <1>3, <1>4, Leaves1
  <1>6. \A s \in Sessions : buf'[s] > 0 => s = Head(l1q) \/ buf[s] > 0
    BY <1>3, <1>5
  <1> QED BY <1>1, <1>4, <1>5, <1>6

\* A run ends.  Its own flag is still set when it asks for another one, so that
\* it never gets one.
LEMMA RunEnded ==
  ASSUME TypeOK, L1Queue, L1Ends
  PROVE  /\ Head(l1q) \in Sessions /\ Head(l1q) \in l1Queued /\ l1.phase = "persist"
         /\ L1Shape' /\ l1'.phase \in {"none", "run"}
         /\ \A s \in Sessions : buf'[s] > 0 => buf[s] > 0
         /\ l1Queued' = l1Queued \ {Head(l1q)}
         /\ idle' = idle \/ idle' = idle \cup {Head(l1q)}
         /\ \E k \in l1.keys : \E t \in Advanced(sched[k]) : sched' = [sched EXCEPT ![k] = t]
  <1>1. Head(l1q) \in Sessions /\ Head(l1q) \in l1Queued /\ l1.phase = "persist" /\ l1.phase # "none"
    BY Running1 DEF L1Ends
  <1>2. /\ idle' = idle \/ idle' = idle \cup {Head(l1q)}
        /\ l1Queued' = l1Queued \ {Head(l1q)}
        /\ StartL1(Tail(l1q) \o <<>>, buf)
        /\ \E k \in l1.keys : \E t \in Advanced(sched[k]) : sched' = [sched EXCEPT ![k] = t]
    BY <1>1 DEF L1Ends
  <1>3. Tail(l1q) \o <<>> = Tail(l1q)
    <2>1. l1q \in Seq(Sessions) /\ l1q # <<>> /\ IsInjective(l1q)
      BY <1>1 DEF TypeOK, L1Queue
    <2>2. Tail(l1q) \in Seq(Sessions)
      BY <2>1, QueueShrinks
    <2> QED BY <2>2, ConcatEmptySeq
  <1>4. buf \in [Sessions -> Nat]
    BY DEF TypeOK
  <1>5. L1Shape' /\ l1'.phase \in {"none", "run"} /\ \A s \in Sessions : buf'[s] > 0 => buf[s] > 0
    BY <1>1, <1>2, <1>3, <1>4, Leaves1
  <1> QED BY <1>1, <1>2, <1>5

\* What notifyConversation leaves to its second half.
LEMMA Notified ==
  ASSUME TypeOK, NEW s \in Sessions, Notify(s)
  PROVE  /\ buf' = [buf EXCEPT ![s] = @ + 1] /\ buf' \in [Sessions -> Nat]
         /\ rows' = [rows EXCEPT ![s] = @ + 1] /\ rows' \in [Sessions -> 0..MaxRows]
         /\ notes' = [notes EXCEPT ![s] = Append(@, Threshold(st[s]))]
         /\ known' = known \cup {s} /\ age' = [age EXCEPT ![s] = 0]
         /\ st' = [st EXCEPT ![s].count = @ + 1]
         /\ retries' = [retries EXCEPT ![s] = 0]
         /\ Persist
         /\ UNCHANGED <<life, idle, sched, l1q, l1, l1Queued, l2q, l2, l2Queued, ran, l3, cursor, records, unseen, restarts>>
  <1>1. buf \in [Sessions -> Nat] /\ rows \in [Sessions -> 0..MaxRows] /\ MaxRows \in Nat
    BY PipelineAssumption DEF TypeOK
  <1>2. rows[s] < MaxRows /\ buf' = [buf EXCEPT ![s] = @ + 1] /\ rows' = [rows EXCEPT ![s] = @ + 1]
    BY DEF Notify
  <1>3. buf' \in [Sessions -> Nat]
    BY <1>1, <1>2
  <1>4. rows' \in [Sessions -> 0..MaxRows]
    BY <1>1, <1>2
  <1> QED BY <1>2, <1>3, <1>4 DEF Notify, l2Vars

\* The collector evicts the keys in E, none of which is queued or has messages.
Evicts(s, E) ==
  /\ E \in SUBSET known
  /\ \A k \in E : age[k] = 2 /\ k \notin l1Queued /\ k \notin l2Queued /\ (k \in Sessions => buf[k] = 0)
  /\ idle' = (idle \cup {s}) \ E
  /\ known' = known \ E
  /\ st' = [k \in Keys |-> IF k \in E THEN Fresh ELSE st[k]]
  /\ sched' = [k \in Keys |-> IF k \in E THEN "none" ELSE sched[k]]
  /\ retries' = [k \in Keys |-> IF k \in E THEN 0 ELSE retries[k]]
  /\ ran' = ran \ E
  /\ UNCHANGED <<age, l1q, l1, l1Queued, buf>>

\* Below the threshold, notifyConversation ends with the collector, if it runs.
LEMMA Collected ==
  ASSUME TypeOK, NEW s \in Sessions, NotifyEnd(s), st[s].count < Head(notes[s])
  PROVE  \E E : Evicts(s, E)
  <1>1. notes[s] # <<>> /\ notes[s] \in Seq(1..EveryN)
    BY DEF NotifyEnd, TypeOK
  <1>2. Head(notes[s]) \in 1..EveryN /\ st[s].count \in Nat
    <2>1. Head(notes[s]) \in 1..EveryN
      BY <1>1, QueueHead
    <2>2. st[s] \in States
      BY KeysFinite DEF TypeOK
    <2> QED BY <2>1, <2>2 DEF States
  <1>3. PICK E \in {{}, Evictable} :
           /\ idle' = (idle \cup {s}) \ E
           /\ known' = known \ E
           /\ st' = [k \in Keys |-> IF k \in E THEN Fresh ELSE st[k]]
           /\ sched' = [k \in Keys |-> IF k \in E THEN "none" ELSE sched[k]]
           /\ retries' = [k \in Keys |-> IF k \in E THEN 0 ELSE retries[k]]
           /\ ran' = ran \ E
           /\ UNCHANGED <<age, l1Vars>>
    <2>1. ~(st[s].count >= Head(notes[s]))
      BY <1>2, PipelineAssumption
    <2> QED BY <2>1 DEF NotifyEnd
  <1>4. /\ E \in SUBSET known
        /\ \A k \in E : age[k] = 2 /\ k \notin l1Queued /\ k \notin l2Queued /\ (k \in Sessions => buf[k] = 0)
    BY DEF Evictable
  <1>5. UNCHANGED <<age, l1q, l1, l1Queued, buf>>
    BY <1>3 DEF l1Vars
  <1>6. Evicts(s, E)
    BY <1>3, <1>4, <1>5 DEF Evicts
  <1> QED BY <1>6

\* The two halves of notifyConversation meet in this.
LEMMA NoteTaken ==
  ASSUME TypeOK, NEW s \in Sessions, NotifyEnd(s)
  PROVE  /\ notes' = [notes EXCEPT ![s] = Tail(@)] /\ notes[s] # <<>>
         /\ notes' \in [Sessions -> Seq(1..EveryN)]
         /\ \A x \in Sessions : notes'[x] # <<>> => notes[x] # <<>>
         /\ UNCHANGED <<life, l2q, l2, l2Queued, l3, rows, cursor, records, unseen, ckpt, restarts>>
         /\ \/ EnqueueL1({s}, idle) /\ UNCHANGED <<known, st, age, sched, retries, ran>>
            \/ st[s].count < Head(notes[s])
  <1>1. notes \in [Sessions -> Seq(1..EveryN)] /\ notes[s] # <<>> /\ notes' = [notes EXCEPT ![s] = Tail(@)]
    BY DEF TypeOK, NotifyEnd
  <1>2. Tail(notes[s]) \in Seq(1..EveryN)
    BY <1>1, HeadTailProperties
  <1>3. notes' \in [Sessions -> Seq(1..EveryN)] /\ \A x \in Sessions : notes'[x] # <<>> => notes[x] # <<>>
    BY <1>1, <1>2
  <1>4. Head(notes[s]) \in 1..EveryN /\ st[s].count \in Nat
    <2>1. Head(notes[s]) \in 1..EveryN
      BY <1>1, QueueHead
    <2>2. st[s] \in States
      BY KeysFinite DEF TypeOK
    <2> QED BY <2>1, <2>2 DEF States
  <1>5. st[s].count >= Head(notes[s]) => EnqueueL1({s}, idle) /\ UNCHANGED <<known, st, age, sched, retries, ran>>
    BY DEF NotifyEnd, states
  <1>6. UNCHANGED <<life, l2q, l2, l2Queued, l3, rows, cursor, records, unseen, ckpt, restarts>>
    BY DEF NotifyEnd, store
  <1>7. st[s].count >= Head(notes[s]) \/ st[s].count < Head(notes[s])
    BY <1>4, PipelineAssumption
  <1> QED BY <1>1, <1>3, <1>5, <1>6, <1>7

\* Everything that is not about L1 leaves its queue alone.
LEMMA L1Preserved ==
  ASSUME ManagerInv, Next
  PROVE  L1Shape'
  <1>0. TypeOK /\ L1Queue /\ StoreOK /\ L1Shape
    BY DEF ManagerInv, TypeOK, L1Shape, L1Runs
  <1>1. ASSUME NEW s \in Sessions, Notify(s) PROVE L1Shape'
    BY <1>0, <1>1, Notified DEF L1Shape, L1Queue
  <1>2. ASSUME NEW s \in Sessions, NotifyEnd(s) PROVE L1Shape'
    <2>1. CASE EnqueueL1({s}, idle)
      BY <1>0, <2>1, Enqueues1
    <2>2. CASE st[s].count < Head(notes[s])
      <3>1. UNCHANGED <<l1q, l1, l1Queued, buf>>
        BY <1>0, <1>2, <2>2, Collected DEF Evicts
      <3> QED BY <1>0, <3>1 DEF L1Shape, L1Queue
    <2> QED BY <1>0, <1>2, <2>1, <2>2, NoteTaken
  <1>3. ASSUME NEW s \in Sessions, IdleFires(s) PROVE L1Shape'
    <2>1. EnqueueL1({s}, idle \ {s})
      BY <1>3 DEF IdleFires
    <2> QED BY <1>0, <2>1, Enqueues1
  <1>4. ASSUME NEW s \in Sessions, FlushSession(s) PROVE L1Shape'
    <2>1. PICK new \in SUBSET Sessions : EnqueueL1(new, idle \ {s})
      BY <1>4 DEF FlushSession
    <2> QED BY <1>0, <2>1, Enqueues1
  <1>5. CASE L1Reads
    BY <1>0, <1>5, RowsRead, Running1 DEF L1Shape, L1Queue, L1Reads
  <1>6. CASE L1Returns
    BY <1>0, <1>6, RunReturned DEF L1Shape, L1Queue
  <1>7. CASE L1Fails
    BY <1>0, <1>7, RunFailed
  <1>8. CASE L1Ends
    BY <1>0, <1>8, RunEnded
  <1>9. CASE Destroy
    <2>1. {s \in idle : buf[s] > 0} \in SUBSET Sessions
      BY <1>0 DEF TypeOK
    <2>2. EnqueueL1({s \in idle : buf[s] > 0}, {})
      BY <1>9 DEF Destroy
    <2> QED BY <1>0, <2>1, <2>2, Enqueues1
  <1>10. CASE Start
    BY <1>10, StartsEmpty
  <1>11. CASE UNCHANGED l1Vars
    BY <1>0, <1>11 DEF L1Shape, L1Queue, l1Vars
  <1>12. ASSUME NEW k \in Keys, L2Fires(k) \/ FiresDestroyed(k) PROVE UNCHANGED l1Vars
    BY <1>12 DEF L2Fires, FiresDestroyed
  <1>13. L2Returns \/ L2Ends \/ L2Fails \/ L3Ends \/ FlushL2 \/ DestroyEnds \/ DayPasses => UNCHANGED l1Vars
    BY DEF L2Returns, L2Ends, L2Fails, L3Ends, FlushL2, DestroyEnds, DayPasses
  <1> QED BY <1>1, <1>2, <1>3, <1>4, <1>5, <1>6, <1>7, <1>8, <1>9, <1>10, <1>11, <1>12, <1>13 DEF Next

\* What an L2 run that returns leaves.
LEMMA L2Returned ==
  ASSUME TypeOK, L2Queue, L2Returns
  PROVE  /\ Head(l2q) \in Keys /\ Head(l2q) \in l2Queued
         /\ l2' \in L2Runs /\ Persist
         /\ UNCHANGED <<known, life, age, idle, retries, notes, l1q, l1, l1Queued, buf, l2q, l2Queued, l3,
                        rows, cursor, records, unseen, restarts>>
         /\ \E skipped \in BOOLEAN :
              st' = [st EXCEPT ![Head(l2q)].pend = 0, ![Head(l2q)].seen = IF skipped THEN @ ELSE l2.upto]
         /\ ran' \in SUBSET Keys
         /\ \/ l2'.phase = "skip" /\ MaxArmed(Head(l2q))
            \/ l2'.phase = "persist" /\ UNCHANGED sched
  <1>1. Head(l2q) \in Keys /\ Head(l2q) \in l2Queued
    BY Running2 DEF L2Returns
  <1>2. l2 \in L2Runs /\ ran \in SUBSET Keys
    BY DEF TypeOK, L2Runs
  <1>3. PICK skipped \in BOOLEAN :
          LET first == Head(l2q) \notin ran /\ skipped IN
          /\ st' = [st EXCEPT ![Head(l2q)].pend = 0, ![Head(l2q)].seen = IF skipped THEN @ ELSE l2.upto]
          /\ ran' = IF first THEN ran ELSE ran \cup {Head(l2q)}
          /\ IF first THEN MaxArmed(Head(l2q)) ELSE UNCHANGED sched
          /\ l2' = [l2 EXCEPT !.phase = IF first THEN "skip" ELSE "persist"]
    BY DEF L2Returns
  <1> DEFINE first == Head(l2q) \notin ran /\ skipped
  <1>4. l2' \in L2Runs /\ l2'.phase = IF first THEN "skip" ELSE "persist"
    BY <1>2, <1>3 DEF L2Runs
  <1>5. ran' \in SUBSET Keys
    BY <1>1, <1>2, <1>3
  <1>6. \/ l2'.phase = "skip" /\ MaxArmed(Head(l2q))
        \/ l2'.phase = "persist" /\ UNCHANGED sched
    BY <1>3, <1>4
  <1>7. Persist /\ UNCHANGED <<known, life, age, idle, retries, notes, l1q, l1, l1Queued, buf, l2q, l2Queued, l3,
                        rows, cursor, records, unseen, restarts>>
    BY DEF L2Returns, l1Vars, store
  <1> QED BY <1>1, <1>3, <1>4, <1>5, <1>6, <1>7

\* Which keys FlushL2 and a timer that fires put into the L2 queue.
LEMMA DueKeys ==
  ASSUME TypeOK
  PROVE  /\ \A k \in Keys : L2Fires(k) =>
              EnqueueL2(IF Due(k) THEN {k} ELSE {}) /\ (IF Due(k) THEN {k} ELSE {}) \in SUBSET Keys
         /\ FlushL2 =>
              /\ EnqueueL2({k \in Keys : sched[k] # "none" /\ Due(k)})
              /\ {k \in Keys : sched[k] # "none" /\ Due(k)} \in SUBSET Keys
  BY DEF L2Fires, FlushL2

LEMMA L2Preserved ==
  ASSUME ManagerInv, Next
  PROVE  L2Shape'
  <1>0. TypeOK /\ L2Queue /\ L2Shape
    BY DEF ManagerInv, TypeOK, L2Shape, L2Runs
  <1>1. ASSUME NEW k \in Keys, L2Fires(k) PROVE L2Shape'
    BY <1>0, <1>1, DueKeys, Enqueues2
  <1>2. CASE L2Returns
    <2>1. l2' \in L2Runs /\ l2'.phase # "none" /\ UNCHANGED <<l2q, l2Queued>> /\ l2.phase # "none"
      BY <1>0, <1>2, L2Returned DEF L2Returns
    <2> QED BY <1>0, <2>1 DEF L2Shape, L2Queue
  <1>3. CASE L2Ends \/ L2Fails
    <2>1. NextL2 /\ l2.phase # "none"
      BY <1>3 DEF L2Ends, L2Fails
    <2> QED BY <1>0, <2>1, Leaves2
  <1>4. CASE FlushL2
    BY <1>0, <1>4, DueKeys, Enqueues2
  <1>5. CASE Start
    BY <1>5, StartsEmpty
  <1>6. CASE UNCHANGED <<l2q, l2, l2Queued>>
    BY <1>0, <1>6 DEF L2Shape, L2Queue
  <1>7. ASSUME NEW s \in Sessions, Notify(s) \/ NotifyEnd(s) \/ IdleFires(s) \/ FlushSession(s)
        PROVE  UNCHANGED <<l2q, l2, l2Queued>>
    BY <1>7 DEF Notify, NotifyEnd, IdleFires, FlushSession, l2Vars
  <1>8. L1Reads \/ L1Returns \/ L1Fails \/ L1Ends \/ L3Ends \/ Destroy \/ DestroyEnds \/ DayPasses => UNCHANGED <<l2q, l2, l2Queued>>
    BY DEF L1Reads, L1Returns, L1Fails, L1Ends, L3Ends, Destroy, DestroyEnds, DayPasses, l2Vars
  <1>9. \A k \in Keys : FiresDestroyed(k) => UNCHANGED <<l2q, l2, l2Queued>>
    BY DEF FiresDestroyed, l2Vars
  <1> QED BY <1>1, <1>2, <1>3, <1>4, <1>5, <1>6, <1>7, <1>8, <1>9 DEF Next

-----------------------------------------------------------------------------
(* Types.                                                                  *)

LEMMA StateTypes ==
  /\ Fresh \in States /\ Missing \notin States
  /\ \A x \in States : /\ Threshold(x) \in 1..EveryN
                       /\ Warmer([x EXCEPT !.count = 0]) \in States
                       /\ Recovered(x) \in States
                       /\ [x EXCEPT !.count = @ + 1] \in States
                       /\ [x EXCEPT !.pend = 1] \in States
                       /\ \A n \in Nat : [[x EXCEPT !.pend = 0] EXCEPT !.seen = n] \in States
  <1>0. EveryN \in Nat /\ EveryN # 0 /\ Warmup \in BOOLEAN
    BY PipelineAssumption
  <1>1. Fresh \in States
    BY <1>0 DEF Fresh, States
  <1>2. Missing \notin States
    BY DEF Missing, States
  <1>3. ASSUME NEW x \in States PROVE Threshold(x) \in 1..EveryN
    BY <1>0 DEF Threshold, States
  <1>4. ASSUME NEW x \in States PROVE Warmer([x EXCEPT !.count = 0]) \in States
    <2>1. [x EXCEPT !.count = 0] \in States
      BY DEF States
    <2>2. ASSUME NEW y \in States PROVE Warmer(y) \in States
      <3>1. (IF 2 * y.warm >= EveryN THEN 0 ELSE 2 * y.warm) \in 0..EveryN
        BY <1>0 DEF States
      <3>2. [y EXCEPT !.warm = IF 2 * y.warm >= EveryN THEN 0 ELSE 2 * y.warm] \in States
        BY <3>1 DEF States
      <3>3. Warmer(y) = y \/ Warmer(y) = [y EXCEPT !.warm = IF 2 * y.warm >= EveryN THEN 0 ELSE 2 * y.warm]
        BY DEF Warmer
      <3> QED BY <3>2, <3>3
    <2> QED BY <2>1, <2>2
  <1>5. ASSUME NEW x \in States PROVE Recovered(x) \in States
    <2>1. (IF x.count > x.pend THEN x.count ELSE x.pend) \in Nat
      BY DEF States
    <2> QED BY <2>1 DEF Recovered, States
  <1>6. ASSUME NEW x \in States PROVE [x EXCEPT !.count = @ + 1] \in States
    BY DEF States
  <1>7. ASSUME NEW x \in States PROVE [x EXCEPT !.pend = 1] \in States
    BY DEF States
  <1>8. ASSUME NEW x \in States, NEW n \in Nat PROVE [[x EXCEPT !.pend = 0] EXCEPT !.seen = n] \in States
    BY DEF States
  <1> QED BY <1>1, <1>2, <1>3, <1>4, <1>5, <1>6, <1>7, <1>8

\* What the types say beside the serial queues and their tasks.
Rest ==
  /\ life \in {"up", "flushL1", "flushL2", "down", "late"}
  /\ known \subseteq Keys /\ st \in [Keys -> States] /\ age \in [Keys -> 0..2]
  /\ idle \subseteq Sessions /\ sched \in [Keys -> {"none", "delay", "max"}]
  /\ retries \in [Keys -> 0..(MaxRetries + 1)]
  /\ notes \in [Sessions -> Seq(1..EveryN)] /\ ran \subseteq Keys
  /\ l3 \in {"idle", "running", "again"} /\ unseen \in BOOLEAN
  /\ rows \in [Sessions -> 0..MaxRows] /\ cursor \in [Sessions -> 0..MaxRows]
  /\ records \in [Keys -> Nat] /\ ckpt \in [Keys -> States \cup {Missing}]
  /\ restarts \in 0..MaxRestarts

LEMMA TypesSplit ==
  /\ TypeOK => Rest
  /\ Rest /\ L1Shape /\ L2Shape => TypeOK
  <1>1. TypeOK => Rest
    BY DEF TypeOK, Rest
  <1>2. ASSUME Rest, L1Shape, L2Shape PROVE TypeOK
    <2>1. Range(l1q) \in SUBSET Sessions /\ Range(l2q) \in SUBSET Keys
      BY <1>2, QueueHead DEF L1Shape, L2Shape
    <2>2. l1Queued \subseteq Sessions /\ l2Queued \subseteq Keys
      BY <1>2, <2>1 DEF L1Shape, L2Shape, L1Queue, L2Queue
    <2>3. l1q \in Seq(Sessions) /\ l1 \in L1Runs /\ buf \in [Sessions -> Nat] /\ l2q \in Seq(Keys) /\ l2 \in L2Runs
      BY <1>2 DEF L1Shape, L2Shape
    <2> QED BY <1>2, <2>2, <2>3 DEF TypeOK, Rest, L1Runs, L2Runs
  <1> QED BY <1>1, <1>2

\* What is persisted is a state of the checkpoint.
LEMMA Persisted ==
  ASSUME TypeOK, Persist, st' \in [Keys -> States]
  PROVE  ckpt' \in [Keys -> States \cup {Missing}]
  BY DEF TypeOK, Persist

\* The timer of L2 that a task sets.
LEMMA TimerSet ==
  ASSUME TypeOK, NEW k \in Keys
  PROVE  /\ MaxArmed(k) => sched' \in [Keys -> {"none", "delay", "max"}]
         /\ Advanced(sched[k]) \subseteq {"none", "delay", "max"}
         /\ \A t \in {"none", "delay", "max"} : [sched EXCEPT ![k] = t] \in [Keys -> {"none", "delay", "max"}]
  <1>1. sched \in [Keys -> {"none", "delay", "max"}]
    BY DEF TypeOK
  <1>2. \A t \in {"none", "delay", "max"} : [sched EXCEPT ![k] = t] \in [Keys -> {"none", "delay", "max"}]
    BY <1>1
  <1>3. Advanced(sched[k]) \subseteq {"none", "delay", "max"}
    BY <1>1 DEF Advanced
  <1>4. MaxArmed(k) => sched' \in [Keys -> {"none", "delay", "max"}]
    BY <1>1, <1>2 DEF MaxArmed
  <1> QED BY <1>2, <1>3, <1>4

LEMMA RestPreserved ==
  ASSUME ManagerInv, Next
  PROVE  Rest'
  <1>0. TypeOK /\ Rest /\ L1Queue /\ L2Queue /\ StoreOK
    BY TypesSplit DEF ManagerInv
  <1>00. MaxRetries \in Nat /\ MaxRestarts \in Nat /\ MaxAge \in 0..2 /\ 0 \in 0..(MaxRetries + 1)
    BY PipelineAssumption
  <1>1. ASSUME NEW s \in Sessions, Notify(s) PROVE Rest'
    <2>1. s \in Keys /\ st[s] \in States
      BY <1>0, KeysFinite DEF Rest
    <2>2. st' \in [Keys -> States]
      <3>1. st' = [st EXCEPT ![s] = [st[s] EXCEPT !.count = @ + 1]]
        BY <1>0, <1>1, Notified
      <3>2. [st[s] EXCEPT !.count = @ + 1] \in States
        BY <2>1, StateTypes
      <3> QED BY <1>0, <2>1, <3>1, <3>2 DEF Rest
    <2>3. ckpt' \in [Keys -> States \cup {Missing}]
      BY <1>0, <1>1, <2>2, Notified, Persisted
    <2>4. notes' \in [Sessions -> Seq(1..EveryN)]
      <3>1. Threshold(st[s]) \in 1..EveryN
        BY <2>1, StateTypes
      <3>2. notes[s] \in Seq(1..EveryN)
        BY <1>0 DEF Rest
      <3>3. Append(notes[s], Threshold(st[s])) \in Seq(1..EveryN)
        BY <3>1, <3>2, AppendProperties
      <3>4. notes' = [notes EXCEPT ![s] = Append(notes[s], Threshold(st[s]))]
        BY <1>0, <1>1, Notified
      <3> QED BY <1>0, <3>3, <3>4 DEF Rest
    <2>5. known' \subseteq Keys /\ age' \in [Keys -> 0..2] /\ retries' \in [Keys -> 0..(MaxRetries + 1)]
      <3>1. known' = known \cup {s} /\ age' = [age EXCEPT ![s] = 0] /\ retries' = [retries EXCEPT ![s] = 0]
        BY <1>0, <1>1, Notified
      <3> QED BY <1>0, <1>00, <2>1, <3>1 DEF Rest
    <2>6. rows' \in [Sessions -> 0..MaxRows]
          /\ UNCHANGED <<life, idle, sched, ran, l3, cursor, records, unseen, restarts>>
      BY <1>0, <1>1, Notified
    <2> QED BY <1>0, <2>2, <2>3, <2>4, <2>5, <2>6 DEF Rest
  <1>2. ASSUME NEW s \in Sessions, NotifyEnd(s) PROVE Rest'
    <2>1. /\ notes' \in [Sessions -> Seq(1..EveryN)]
          /\ UNCHANGED <<life, l3, rows, cursor, records, unseen, ckpt, restarts>>
      BY <1>0, <1>2, NoteTaken
    <2>2. CASE EnqueueL1({s}, idle) /\ UNCHANGED <<known, st, age, sched, retries, ran>>
      <3>1. idle' = idle \ ({s} \ l1Queued)
        BY <1>0, <2>2, Enqueues1
      <3> QED BY <1>0, <2>1, <2>2, <3>1 DEF Rest
    <2>3. CASE st[s].count < Head(notes[s])
      <3>1. PICK E : Evicts(s, E)
        BY <1>0, <1>2, <2>3, Collected
      <3>2. /\ idle' = (idle \cup {s}) \ E /\ known' = known \ E /\ ran' = ran \ E
            /\ st' = [k \in Keys |-> IF k \in E THEN Fresh ELSE st[k]]
            /\ sched' = [k \in Keys |-> IF k \in E THEN "none" ELSE sched[k]]
            /\ retries' = [k \in Keys |-> IF k \in E THEN 0 ELSE retries[k]]
            /\ age' = age
        BY <3>1 DEF Evicts
      <3>3. st' \in [Keys -> States]
        BY <1>0, <3>2, StateTypes DEF Rest
      <3>4. sched' \in [Keys -> {"none", "delay", "max"}]
        BY <1>0, <3>2 DEF Rest
      <3>5. retries' \in [Keys -> 0..(MaxRetries + 1)]
        BY <1>0, <1>00, <3>2 DEF Rest
      <3>6. idle' \subseteq Sessions /\ known' \subseteq Keys /\ ran' \subseteq Keys
        BY <1>0, <3>2 DEF Rest
      <3> QED BY <1>0, <2>1, <3>2, <3>3, <3>4, <3>5, <3>6 DEF Rest
    <2> QED BY <1>0, <1>2, <2>2, <2>3, NoteTaken
  <1>3. ASSUME NEW s \in Sessions, IdleFires(s) \/ FlushSession(s) PROVE Rest'
    <2>1. PICK new \in SUBSET Sessions : EnqueueL1(new, idle \ {s})
      BY <1>3 DEF IdleFires, FlushSession
    <2>2. idle' \subseteq Sessions
      <3>1. idle' = (idle \ {s}) \ (new \ l1Queued)
        BY <1>0, <2>1, Enqueues1
      <3> QED BY <1>0, <3>1 DEF Rest
    <2>3. UNCHANGED <<life, states, sched, retries, notes, l2Vars, l3, store, unseen, ckpt, restarts>>
      BY <1>3 DEF IdleFires, FlushSession
    <2> QED BY <1>0, <2>2, <2>3 DEF Rest, states, l2Vars, store
  <1>4. CASE L1Reads
    BY <1>0, <1>4 DEF L1Reads, Rest, states, timers, l2Vars, store
  <1>5. CASE L1Returns
    <2> DEFINE s == Head(l1q)
    <2>1. PICK k \in Keys :
              /\ k \in Profiles \/ k = s
              /\ l1'.keys = {k} /\ known' = known \cup {k}
              /\ age' = IF k \in known THEN age ELSE [age EXCEPT ![k] = 0]
              /\ st' = [[st EXCEPT ![s] = Warmer([@ EXCEPT !.count = 0])] EXCEPT ![k].pend = 1]
      BY <1>0, <1>5, RunReturned
    <2>2. s \in Sessions /\ s \in Keys
      BY <1>0, <1>5, RunReturned, KeysFinite
    <2>3. st' \in [Keys -> States]
      <3> DEFINE f == [st EXCEPT ![s] = Warmer([@ EXCEPT !.count = 0])]
      <3>1. f \in [Keys -> States]
        BY <1>0, <2>2, StateTypes DEF Rest
      <3>2. st' = [f EXCEPT ![k] = [f[k] EXCEPT !.pend = 1]]
        BY <2>1
      <3> HIDE DEF f
      <3>3. f[k] \in States
        BY <3>1
      <3>4. [f[k] EXCEPT !.pend = 1] \in States
        BY <3>3, StateTypes
      <3> QED BY <3>1, <3>2, <3>4
    <2>4. ckpt' \in [Keys -> States \cup {Missing}]
      BY <1>0, <1>5, <2>3, RunReturned, Persisted
    <2>5. known' \subseteq Keys /\ age' \in [Keys -> 0..2]
      BY <1>0, <2>1 DEF Rest
    <2>6. /\ UNCHANGED <<rows, idle, sched, notes, life, ran, l3, unseen, restarts>>
          /\ cursor' \in [Sessions -> 0..MaxRows] /\ records' \in [Keys -> Nat]
          /\ retries' = [retries EXCEPT ![s] = 0]
      BY <1>0, <1>5, RunReturned
    <2>7. retries' \in [Keys -> 0..(MaxRetries + 1)]
      BY <1>0, <1>00, <2>2, <2>6 DEF Rest
    <2> QED BY <1>0, <2>3, <2>4, <2>5, <2>6, <2>7 DEF Rest
  <1>6. CASE L1Fails
    <2> DEFINE s == Head(l1q)
    <2>1. /\ s \in Sessions /\ s \in Keys
          /\ retries' = [retries EXCEPT ![s] = IF @ > MaxRetries THEN @ ELSE @ + 1]
          /\ idle' = IF retries[s] < MaxRetries THEN idle \cup {s} ELSE idle
      BY <1>0, <1>6, RunFailed, KeysFinite
    <2>2. retries' \in [Keys -> 0..(MaxRetries + 1)]
      <3>1. retries[s] \in 0..(MaxRetries + 1)
        BY <1>0, <2>1 DEF Rest
      <3>2. (IF retries[s] > MaxRetries THEN retries[s] ELSE retries[s] + 1) \in 0..(MaxRetries + 1)
        BY <1>00, <3>1
      <3> QED BY <1>0, <2>1, <3>2 DEF Rest
    <2>3. idle' \subseteq Sessions
      BY <1>0, <2>1 DEF Rest
    <2>4. UNCHANGED <<life, states, sched, notes, l2Vars, l3, store, unseen, ckpt, restarts>>
      BY <1>6 DEF L1Fails
    <2> QED BY <1>0, <2>2, <2>3, <2>4 DEF Rest, states, l2Vars, store
  <1>7. CASE L1Ends
    <2>1. PICK k \in l1.keys : \E t \in Advanced(sched[k]) : sched' = [sched EXCEPT ![k] = t]
      BY <1>0, <1>7, RunEnded
    <2>2. k \in Keys
      BY <1>0 DEF TypeOK
    <2>3. sched' \in [Keys -> {"none", "delay", "max"}]
      BY <1>0, <2>1, <2>2, TimerSet
    <2>4. idle' \subseteq Sessions
      BY <1>0, <1>7, RunEnded DEF Rest
    <2>5. UNCHANGED <<life, states, retries, notes, l2Vars, l3, store, unseen, ckpt, restarts>>
      BY <1>7 DEF L1Ends
    <2> QED BY <1>0, <2>3, <2>4, <2>5 DEF Rest, states, l2Vars, store
  <1>8. ASSUME NEW k \in Keys, L2Fires(k) PROVE Rest'
    <2>1. sched' \in [Keys -> {"none", "delay", "max"}]
      BY <1>0, <1>8 DEF L2Fires, Rest
    <2>2. UNCHANGED <<life, states, idle, retries, notes, ran, l3, store, unseen, ckpt, restarts>>
      BY <1>8 DEF L2Fires
    <2> QED BY <1>0, <2>1, <2>2 DEF Rest, states, store
  <1>9. ASSUME NEW k \in Keys, FiresDestroyed(k) PROVE Rest'
    <2>1. sched' \in [Keys -> {"none", "delay", "max"}] /\ idle' \subseteq Sessions
      BY <1>0, <1>9 DEF FiresDestroyed, Rest
    <2>2. UNCHANGED <<life, states, retries, notes, l2Vars, l3, store, unseen, ckpt, restarts>>
      BY <1>9 DEF FiresDestroyed
    <2> QED BY <1>0, <2>1, <2>2 DEF Rest, states, store, l2Vars
  <1>10. CASE L2Returns
    <2> DEFINE h == Head(l2q)
    <2>1. /\ h \in Keys /\ Persist /\ ran' \in SUBSET Keys
          /\ UNCHANGED <<known, life, age, idle, retries, notes, l3, rows, cursor, records, unseen, restarts>>
          /\ MaxArmed(h) \/ UNCHANGED sched
      BY <1>0, <1>10, L2Returned
    <2>2. PICK skipped \in BOOLEAN :
              st' = [st EXCEPT ![h].pend = 0, ![h].seen = IF skipped THEN @ ELSE l2.upto]
      BY <1>0, <1>10, L2Returned
    <2>3. st' \in [Keys -> States]
      <3>1. st[h] \in States /\ l2.upto \in Nat /\ st[h].seen \in Nat
        BY <1>0, <2>1 DEF Rest, TypeOK, States
      <3>2. PICK n \in Nat : st' = [st EXCEPT ![h] = [[st[h] EXCEPT !.pend = 0] EXCEPT !.seen = n]]
        <4>1. st' = [st EXCEPT ![h] = [[st[h] EXCEPT !.pend = 0] EXCEPT !.seen = IF skipped THEN st[h].seen ELSE l2.upto]]
          BY <1>0, <2>1, <2>2, <3>1 DEF Rest, States
        <4> QED BY <3>1, <4>1
      <3>3. [[st[h] EXCEPT !.pend = 0] EXCEPT !.seen = n] \in States
        BY <3>1, StateTypes
      <3> QED BY <1>0, <2>1, <3>2, <3>3 DEF Rest
    <2>4. ckpt' \in [Keys -> States \cup {Missing}]
      BY <1>0, <2>1, <2>3, Persisted
    <2>5. sched' \in [Keys -> {"none", "delay", "max"}]
      BY <1>0, <2>1, TimerSet DEF Rest
    <2> QED BY <1>0, <2>1, <2>3, <2>4, <2>5 DEF Rest
  <1>11. CASE L2Ends
    <2>1. Head(l2q) \in Keys
      BY <1>0, <1>11, Running2 DEF L2Ends
    <2>2. sched' \in [Keys -> {"none", "delay", "max"}]
      BY <1>0, <1>11, <2>1, TimerSet DEF L2Ends, Rest
    <2>3. l3' \in {"idle", "running", "again"} /\ unseen' \in BOOLEAN
      BY <1>0, <1>11 DEF L2Ends, TriggerL3, Rest
    <2>4. UNCHANGED <<life, states, idle, retries, notes, ran, store, ckpt, restarts>>
      BY <1>11 DEF L2Ends
    <2> QED BY <1>0, <2>2, <2>3, <2>4 DEF Rest, states, store
  <1>12. CASE L2Fails
    <2>1. Head(l2q) \in Keys
      BY <1>0, <1>12, Running2 DEF L2Fails
    <2>2. sched' \in [Keys -> {"none", "delay", "max"}]
      BY <1>0, <1>12, <2>1, TimerSet DEF L2Fails
    <2>3. UNCHANGED <<life, states, idle, retries, notes, ran, l3, store, unseen, ckpt, restarts>>
      BY <1>12 DEF L2Fails
    <2> QED BY <1>0, <2>2, <2>3 DEF Rest, states, store
  <1>13. CASE L3Ends
    BY <1>0, <1>13 DEF L3Ends, Rest, states, timers, l2Vars, store
  <1>14. CASE Destroy
    <2>1. {s \in idle : buf[s] > 0} \in SUBSET Sessions /\ EnqueueL1({s \in idle : buf[s] > 0}, {})
      BY <1>0, <1>14 DEF Rest, Destroy
    <2>2. idle' \subseteq Sessions
      BY <1>0, <2>1, Enqueues1
    <2>3. life' = "flushL1" /\ UNCHANGED <<states, sched, retries, notes, l2Vars, l3, store, unseen, ckpt, restarts>>
      BY <1>14 DEF Destroy
    <2> QED BY <1>0, <2>2, <2>3 DEF Rest, states, l2Vars, store
  <1>15. CASE FlushL2
    <2>1. /\ life' = "flushL2" /\ sched' = [k \in Keys |-> "none"]
          /\ UNCHANGED <<states, idle, retries, notes, ran, l3, store, unseen, ckpt, restarts>>
      BY <1>15 DEF FlushL2
    <2> QED BY <1>0, <2>1 DEF Rest, states, store
  <1>16. CASE DestroyEnds
    <2>1. life' \in {"down", "late"} /\ Persist
          /\ UNCHANGED <<known, st, age, idle, sched, retries, notes, ran, l3, rows, cursor, records, unseen, restarts>>
      BY <1>16 DEF DestroyEnds, states, timers, l2Vars, store
    <2>2. ckpt' \in [Keys -> States \cup {Missing}]
      BY <1>0, <2>1, Persisted DEF Rest
    <2> QED BY <1>0, <2>1, <2>2 DEF Rest
  <1>17. CASE Start
    <2>1. /\ life' = "up" /\ restarts' = restarts + 1 /\ restarts < MaxRestarts
          /\ known' = {k \in Keys : ckpt[k] # Missing} /\ idle' = {} /\ ran' = {}
          /\ retries' = [k \in Keys |-> 0] /\ notes' = [s \in Sessions |-> <<>>]
          /\ l3' = "idle" /\ unseen' = FALSE
          /\ st' = [k \in Keys |-> IF ckpt[k] = Missing THEN Fresh ELSE Recovered(ckpt[k])]
          /\ sched' = [k \in Keys |-> IF ckpt[k] # Missing /\ Recovered(ckpt[k]).pend > 0 THEN "delay" ELSE "none"]
          /\ UNCHANGED <<age, rows, cursor, records, ckpt>>
      BY <1>17 DEF Start, store
    <2>2. st' \in [Keys -> States]
      BY <1>0, <2>1, StateTypes DEF Rest
    <2>3. sched' \in [Keys -> {"none", "delay", "max"}]
      BY <2>1
    <2>4. retries' \in [Keys -> 0..(MaxRetries + 1)] /\ restarts' \in 0..MaxRestarts
      BY <1>0, <1>00, <2>1 DEF Rest
    <2>5. notes' \in [Sessions -> Seq(1..EveryN)]
      BY <2>1, EmptySeq
    <2> QED BY <1>0, <2>1, <2>2, <2>3, <2>4, <2>5 DEF Rest
  <1>18. CASE DayPasses
    <2>1. age' = [k \in Keys |-> IF age[k] < MaxAge THEN age[k] + 1 ELSE age[k]]
          /\ UNCHANGED <<life, known, st, idle, sched, retries, notes, ran, l3, rows, cursor, records, unseen, ckpt, restarts>>
      BY <1>18 DEF DayPasses, timers, l2Vars, store
    <2>2. age' \in [Keys -> 0..2]
      BY <1>0, <1>00, <2>1 DEF Rest
    <2> QED BY <1>0, <2>1, <2>2 DEF Rest
  <1> QED BY <1>1, <1>2, <1>3, <1>4, <1>5, <1>6, <1>7, <1>8, <1>9, <1>10, <1>11, <1>12, <1>13, <1>14,
             <1>15, <1>16, <1>17, <1>18 DEF Next

-----------------------------------------------------------------------------
(* What few steps change.                                                  *)

\* Sets of sessions handed to enqueueL1.
LEMMA Enqueuings ==
  ASSUME TypeOK, KnownOK
  PROVE  /\ \A s \in Sessions : IdleFires(s) => EnqueueL1({s}, idle \ {s}) /\ s \in known
         /\ \A s \in Sessions : FlushSession(s) =>
              \E new \in SUBSET Sessions : /\ EnqueueL1(new, idle \ {s}) /\ new \subseteq known
                                           /\ buf[s] > 0 => s \in new
         /\ Destroy => \E new \in SUBSET Sessions : EnqueueL1(new, {}) /\ new \subseteq known
  <1>1. ASSUME NEW s \in Sessions, IdleFires(s) PROVE EnqueueL1({s}, idle \ {s}) /\ s \in known
    BY <1>1 DEF IdleFires, KnownOK
  <1>2. ASSUME NEW s \in Sessions, FlushSession(s)
        PROVE  \E new \in SUBSET Sessions : /\ EnqueueL1(new, idle \ {s}) /\ new \subseteq known
                                            /\ buf[s] > 0 => s \in new
    <2>1. EnqueueL1(IF buf[s] > 0 THEN {s} ELSE {}, idle \ {s})
      BY <1>2 DEF FlushSession
    <2> DEFINE new == IF buf[s] > 0 THEN {s} ELSE {}
    <2>2. new \in SUBSET Sessions /\ new \subseteq known /\ (buf[s] > 0 => s \in new)
      BY DEF KnownOK
    <2>3. EnqueueL1(new, idle \ {s})
      BY <2>1
    <2> HIDE DEF new
    <2> QED BY <2>2, <2>3
  <1>3. ASSUME Destroy PROVE \E new \in SUBSET Sessions : EnqueueL1(new, {}) /\ new \subseteq known
    <2> DEFINE new == {s \in idle : buf[s] > 0}
    <2>1. EnqueueL1(new, {})
      BY <1>3 DEF Destroy
    <2>2. new \in SUBSET Sessions /\ new \subseteq known
      BY DEF KnownOK, TypeOK
    <2> HIDE DEF new
    <2> QED BY <2>1, <2>2
  <1> QED BY <1>1, <1>2, <1>3

\* A task that reads or persists after a step did so before, or the step began it.
LEMMA HeadStays ==
  ASSUME ManagerInv, Next
  PROVE  l1'.phase \in {"none", "run"} \/ (l1' = l1 /\ Head(l1q') = Head(l1q)) \/ L1Reads \/ L1Returns
  <1> DEFINE Goal == l1'.phase \in {"none", "run"} \/ (l1' = l1 /\ Head(l1q') = Head(l1q)) \/ L1Reads \/ L1Returns
  <1>0. TypeOK /\ L1Queue /\ KnownOK /\ l1 \in L1Runs
    BY DEF ManagerInv, TypeOK, L1Runs
  <1>1. \A new \in SUBSET Sessions : \A i : EnqueueL1(new, i) => Goal
    BY <1>0, Enqueues1
  <1>2. ASSUME NEW s \in Sessions, Notify(s) PROVE Goal
    BY <1>0, <1>2, Notified
  <1>3. ASSUME NEW s \in Sessions, NotifyEnd(s) PROVE Goal
    <2>1. CASE EnqueueL1({s}, idle)
      BY <1>1, <2>1
    <2>2. CASE st[s].count < Head(notes[s])
      BY <1>0, <1>3, <2>2, Collected DEF Evicts
    <2> QED BY <1>0, <1>3, <2>1, <2>2, NoteTaken
  <1>4. ASSUME NEW s \in Sessions, IdleFires(s) \/ FlushSession(s) PROVE Goal
    BY <1>0, <1>1, <1>4, Enqueuings
  <1>5. L1Fails \/ L1Ends => Goal
    BY <1>0, RunFailed, RunEnded
  <1>6. Destroy => Goal
    BY <1>0, <1>1, Enqueuings
  <1>7. Start => Goal
    BY DEF Start, NoRun
  <1>8. UNCHANGED l1Vars => Goal
    BY DEF l1Vars
  <1>9. ASSUME NEW k \in Keys, L2Fires(k) \/ FiresDestroyed(k) PROVE UNCHANGED l1Vars
    BY <1>9 DEF L2Fires, FiresDestroyed
  <1>10. L2Returns \/ L2Ends \/ L2Fails \/ L3Ends \/ FlushL2 \/ DestroyEnds \/ DayPasses => UNCHANGED l1Vars
    BY DEF L2Returns, L2Ends, L2Fails, L3Ends, FlushL2, DestroyEnds, DayPasses
  <1> QED BY <1>2, <1>3, <1>4, <1>5, <1>6, <1>7, <1>8, <1>9, <1>10 DEF Next

\* A run that has returned goes on until it ends, or the process does.
LEMMA PersistStays ==
  ASSUME ManagerInv, Next, l1.phase = "persist"
  PROVE  l1' = l1 \/ L1Ends \/ Start
  <1>0. TypeOK /\ L1Queue /\ KnownOK
    BY DEF ManagerInv
  <1>1. \A new \in SUBSET Sessions : \A i : EnqueueL1(new, i) => l1' = l1
    BY <1>0, Enqueues1
  <1>2. ASSUME NEW s \in Sessions, Notify(s) PROVE l1' = l1
    BY <1>0, <1>2, Notified
  <1>3. ASSUME NEW s \in Sessions, NotifyEnd(s) PROVE l1' = l1
    <2>1. CASE EnqueueL1({s}, idle)
      BY <1>1, <2>1
    <2>2. CASE st[s].count < Head(notes[s])
      BY <1>0, <1>3, <2>2, Collected DEF Evicts
    <2> QED BY <1>0, <1>3, <2>1, <2>2, NoteTaken
  <1>4. ASSUME NEW s \in Sessions, IdleFires(s) \/ FlushSession(s) PROVE l1' = l1
    BY <1>0, <1>1, <1>4, Enqueuings
  <1>5. ~L1Reads /\ ~L1Returns /\ ~L1Fails
    BY DEF L1Reads, L1Returns, L1Fails
  <1>6. Destroy => l1' = l1
    BY <1>0, <1>1, Enqueuings
  <1>7. UNCHANGED l1Vars => l1' = l1
    BY DEF l1Vars
  <1>8. ASSUME NEW k \in Keys, L2Fires(k) \/ FiresDestroyed(k) PROVE UNCHANGED l1Vars
    BY <1>8 DEF L2Fires, FiresDestroyed
  <1>9. L2Returns \/ L2Ends \/ L2Fails \/ L3Ends \/ FlushL2 \/ DestroyEnds \/ DayPasses => UNCHANGED l1Vars
    BY DEF L2Returns, L2Ends, L2Fails, L3Ends, FlushL2, DestroyEnds, DayPasses
  <1> QED BY <1>2, <1>3, <1>4, <1>5, <1>6, <1>7, <1>8, <1>9 DEF Next

\* The rows and the cursor change with a conversation and a run that returns.
LEMMA StorePreserved ==
  ASSUME ManagerInv, Next
  PROVE  StoreOK'
  <1>0. TypeOK /\ L1Queue /\ StoreOK /\ rows \in [Sessions -> 0..MaxRows] /\ cursor \in [Sessions -> 0..MaxRows] /\ MaxRows \in Nat
        /\ l1.read \in Nat
    BY PipelineAssumption DEF ManagerInv, TypeOK
  <1>1. CASE L1Returns
    BY <1>0, <1>1, RunReturned DEF StoreOK
  <1>2. CASE L1Reads
    <2>1. /\ l1'.phase = "read" /\ UNCHANGED <<l1q, rows, cursor>>
          /\ cursor[Head(l1q)] + l1'.read =< rows[Head(l1q)]
      BY <1>0, <1>2, RowsRead
    <2> QED BY <1>0, <2>1 DEF StoreOK
  <1>3. ASSUME ~L1Returns
        PROVE  UNCHANGED cursor /\ \A s \in Sessions : rows'[s] \in Nat /\ rows[s] =< rows'[s]
    <2>1. ASSUME NEW s \in Sessions, Notify(s)
          PROVE  UNCHANGED cursor /\ \A x \in Sessions : rows'[x] \in Nat /\ rows[x] =< rows'[x]
      <3>1. cursor' = cursor /\ rows' = [rows EXCEPT ![s] = @ + 1]
        BY <1>0, <2>1, Notified
      <3> QED BY <1>0, <3>1
    <2>2. ASSUME NEW s \in Sessions, NotifyEnd(s) \/ IdleFires(s) \/ FlushSession(s) PROVE UNCHANGED <<rows, cursor>>
      BY <2>2 DEF NotifyEnd, IdleFires, FlushSession, store
    <2>3. L1Reads \/ L1Fails \/ L1Ends \/ L2Returns \/ L2Ends \/ L2Fails \/ L3Ends \/ Destroy \/ FlushL2 \/ DestroyEnds \/ Start
          \/ DayPasses => UNCHANGED <<rows, cursor>>
      BY DEF L1Reads, L1Fails, L1Ends, L2Returns, L2Ends, L2Fails, L3Ends, Destroy, FlushL2, DestroyEnds, Start, DayPasses, store
    <2>4. ASSUME NEW k \in Keys, L2Fires(k) \/ FiresDestroyed(k) PROVE UNCHANGED <<rows, cursor>>
      BY <2>4 DEF L2Fires, FiresDestroyed, store
    <2>5. UNCHANGED <<rows, cursor>> => UNCHANGED cursor /\ \A x \in Sessions : rows'[x] \in Nat /\ rows[x] =< rows'[x]
      BY <1>0
    <2> QED BY <1>3, <2>1, <2>2, <2>3, <2>4, <2>5 DEF Next
  <1>4. CASE ~L1Returns /\ ~L1Reads
    <2>1. \A s \in Sessions : cursor'[s] =< rows'[s]
      BY <1>0, <1>3, <1>4 DEF StoreOK
    <2>2. ASSUME l1'.phase = "read" PROVE cursor'[Head(l1q')] + l1'.read =< rows'[Head(l1q')]
      <3>1. l1' = l1 /\ Head(l1q') = Head(l1q)
        BY <1>4, <2>2, HeadStays
      <3>2. Head(l1q) \in Sessions /\ cursor[Head(l1q)] + l1.read =< rows[Head(l1q)]
        BY <1>0, <2>2, <3>1, Running1 DEF StoreOK
      <3> QED BY <1>0, <1>3, <1>4, <3>1, <3>2
    <2> QED BY <2>1, <2>2 DEF StoreOK
  <1> QED BY <1>1, <1>2, <1>4

-----------------------------------------------------------------------------
(* Whatever is queued, armed, buffered or being counted has a state.       *)

LEMMA KnownPreserved ==
  ASSUME ManagerInv, Next
  PROVE  KnownOK'
  <1>0. TypeOK /\ L1Queue /\ L2Queue /\ StoreOK /\ KnownOK /\ buf \in [Sessions -> Nat] /\ age \in [Keys -> 0..2]
    BY DEF ManagerInv, TypeOK
  <1>1. ASSUME NEW s \in Sessions, Notify(s) PROVE KnownOK'
    <2>1. /\ buf' = [buf EXCEPT ![s] = @ + 1] /\ known' = known \cup {s} /\ age' = [age EXCEPT ![s] = 0]
          /\ notes' = [notes EXCEPT ![s] = Append(@, Threshold(st[s]))]
          /\ UNCHANGED <<idle, l1Queued, l2Queued>>
      BY <1>0, <1>1, Notified
    <2>2. \A x \in Sessions : x # s => buf'[x] = buf[x] /\ notes'[x] = notes[x] /\ age'[x] = age[x]
      BY <1>0, <2>1, KeysFinite DEF TypeOK
    <2>3. age'[s] = 0
      BY <1>0, <2>1, KeysFinite
    <2> QED BY <1>0, <2>1, <2>2, <2>3 DEF KnownOK
  <1>2. ASSUME NEW s \in Sessions, NotifyEnd(s) PROVE KnownOK'
    <2>1. notes[s] # <<>> /\ l2Queued' = l2Queued /\ \A x \in Sessions : notes'[x] # <<>> => notes[x] # <<>>
      BY <1>0, <1>2, NoteTaken
    <2>2. s \in known /\ age[s] = 0
      BY <1>0, <2>1 DEF KnownOK
    <2>3. CASE EnqueueL1({s}, idle) /\ UNCHANGED <<known, st, age, sched, retries, ran>>
      <3>1. /\ l1Queued' = l1Queued \cup {s} /\ idle' = idle \ ({s} \ l1Queued)
            /\ \A x \in Sessions : buf'[x] > 0 => buf[x] > 0
        BY <1>0, <2>3, Enqueues1
      <3> QED BY <1>0, <2>1, <2>2, <2>3, <3>1 DEF KnownOK
    <2>4. CASE st[s].count < Head(notes[s])
      <3>1. PICK E : Evicts(s, E)
        BY <1>0, <1>2, <2>4, Collected
      <3>2. /\ \A k \in E : age[k] = 2 /\ k \notin l1Queued /\ k \notin l2Queued /\ (k \in Sessions => buf[k] = 0)
            /\ idle' = (idle \cup {s}) \ E /\ known' = known \ E
            /\ UNCHANGED <<age, l1Queued, buf>>
        BY <3>1 DEF Evicts
      <3>3. l1Queued' \cup l2Queued' \cup idle' \subseteq known'
        BY <1>0, <2>1, <2>2, <3>2 DEF KnownOK
      <3>4. \A x \in Sessions : buf'[x] > 0 => x \in known'
        BY <1>0, <3>2 DEF KnownOK
      <3>5. \A x \in Sessions : notes'[x] # <<>> => x \in known' /\ age'[x] = 0
        <4>1. \A x \in Sessions : notes[x] # <<>> => x \in known /\ age[x] = 0
          BY <1>0 DEF KnownOK
        <4> QED BY <2>1, <3>2, <4>1
      <3> QED BY <3>3, <3>4, <3>5 DEF KnownOK
    <2> QED BY <1>0, <1>2, <2>3, <2>4, NoteTaken
  <1>3. ASSUME NEW new \in SUBSET Sessions, new \subseteq known, NEW i \in SUBSET idle, EnqueueL1(new, i),
               UNCHANGED <<known, age, notes, l2Queued>>
        PROVE  KnownOK'
    <2>1. /\ l1Queued' = l1Queued \cup new /\ idle' = i \ (new \ l1Queued)
          /\ \A x \in Sessions : buf'[x] > 0 => buf[x] > 0
      BY <1>0, <1>3, Enqueues1
    <2> QED BY <1>0, <1>3, <2>1 DEF KnownOK
  <1>4. ASSUME NEW s \in Sessions, IdleFires(s) \/ FlushSession(s) PROVE KnownOK'
    <2>1. PICK new \in SUBSET Sessions : EnqueueL1(new, idle \ {s}) /\ new \subseteq known
      <3>1. IdleFires(s) => EnqueueL1({s}, idle \ {s}) /\ {s} \in SUBSET Sessions /\ {s} \subseteq known
        BY <1>0, Enqueuings
      <3>2. FlushSession(s) => \E new \in SUBSET Sessions : EnqueueL1(new, idle \ {s}) /\ new \subseteq known
        BY <1>0, Enqueuings
      <3> QED BY <1>4, <3>1, <3>2
    <2>2. UNCHANGED <<known, age, notes, l2Queued>>
      BY <1>4 DEF IdleFires, FlushSession, states, l2Vars
    <2>3. idle \ {s} \in SUBSET idle
      OBVIOUS
    <2> QED BY <1>3, <2>1, <2>2, <2>3
  <1>5. CASE Destroy
    <2>1. PICK new \in SUBSET Sessions : EnqueueL1(new, {}) /\ new \subseteq known
      BY <1>0, <1>5, Enqueuings
    <2>2. UNCHANGED <<known, age, notes, l2Queued>> /\ {} \in SUBSET idle
      BY <1>5 DEF Destroy, states, l2Vars
    <2> QED BY <1>3, <2>1, <2>2
  <1>6. CASE L1Returns
    <2>1. PICK k \in Keys : /\ known' = known \cup {k}
                            /\ age' = IF k \in known THEN age ELSE [age EXCEPT ![k] = 0]
      BY <1>0, <1>6, RunReturned
    <2>2. UNCHANGED <<buf, notes, l1Queued, l2Queued, idle>>
      BY <1>0, <1>6, RunReturned
    <2>3. \A x \in Sessions : age[x] = 0 => age'[x] = 0
      BY <1>0, <2>1, KeysFinite
    <2> QED BY <1>0, <2>1, <2>2, <2>3 DEF KnownOK
  <1>7. CASE L1Fails
    <2>1. /\ Head(l1q) \in l1Queued /\ l1Queued' = l1Queued \ {Head(l1q)}
          /\ \A s \in Sessions : buf'[s] > 0 => s = Head(l1q) \/ buf[s] > 0
          /\ idle' \subseteq idle \cup {Head(l1q)}
      BY <1>0, <1>7, RunFailed
    <2>2. UNCHANGED <<known, age, notes, l2Queued>>
      BY <1>7 DEF L1Fails, states, l2Vars
    <2> QED BY <1>0, <2>1, <2>2 DEF KnownOK
  <1>8. CASE L1Ends
    <2>1. /\ Head(l1q) \in l1Queued /\ l1Queued' = l1Queued \ {Head(l1q)}
          /\ \A s \in Sessions : buf'[s] > 0 => buf[s] > 0
          /\ idle' \subseteq idle \cup {Head(l1q)}
      BY <1>0, <1>8, RunEnded
    <2>2. UNCHANGED <<known, age, notes, l2Queued>>
      BY <1>8 DEF L1Ends, states, l2Vars
    <2> QED BY <1>0, <2>1, <2>2 DEF KnownOK
  <1>9. ASSUME NEW k \in Keys, L2Fires(k) PROVE KnownOK'
    <2>1. l2Queued' = l2Queued \cup (IF Due(k) THEN {k} ELSE {})
      BY <1>0, <1>9, DueKeys, Enqueues2
    <2>2. UNCHANGED <<known, age, notes, idle, l1Queued, buf>>
      BY <1>9 DEF L2Fires, states, l1Vars
    <2> QED BY <1>0, <2>1, <2>2 DEF KnownOK, Due
  <1>10. CASE FlushL2
    <2>1. l2Queued' = l2Queued \cup {k \in Keys : sched[k] # "none" /\ Due(k)}
      BY <1>0, <1>10, DueKeys, Enqueues2
    <2>2. UNCHANGED <<known, age, notes, idle, l1Queued, buf>>
      BY <1>10 DEF FlushL2, states, l1Vars
    <2> QED BY <1>0, <2>1, <2>2 DEF KnownOK, Due
  <1>11. CASE L2Ends \/ L2Fails
    <2>1. NextL2 /\ UNCHANGED <<known, age, notes, idle, l1Queued, buf>>
      BY <1>11 DEF L2Ends, L2Fails, states, l1Vars
    <2>2. l2Queued' = l2Queued \ {Head(l2q)}
      BY <2>1 DEF NextL2
    <2> QED BY <1>0, <2>1, <2>2 DEF KnownOK
  <1>12. ASSUME NEW k \in Keys, FiresDestroyed(k) PROVE KnownOK'
    <2>1. idle' \subseteq idle /\ UNCHANGED <<known, age, notes, l2Queued, l1Queued, buf>>
      BY <1>12 DEF FiresDestroyed, states, l1Vars, l2Vars
    <2> QED BY <1>0, <2>1 DEF KnownOK
  <1>13. CASE Start
    <2>1. /\ idle' = {} /\ l1Queued' = {} /\ l2Queued' = {}
          /\ buf' = [s \in Sessions |-> 0] /\ notes' = [s \in Sessions |-> <<>>]
      BY <1>13 DEF Start
    <2> QED BY <2>1 DEF KnownOK
  <1>14. CASE DayPasses
    <2>1. /\ \A s \in Sessions : notes[s] = <<>>
          /\ UNCHANGED <<known, notes, idle, l1Queued, l2Queued, buf>>
      BY <1>14 DEF DayPasses, timers, l1Vars, l2Vars
    <2> QED BY <1>0, <2>1 DEF KnownOK
  <1>15. CASE L1Reads \/ L2Returns \/ L3Ends \/ DestroyEnds
    <2>1. UNCHANGED <<known, age, notes, idle, l1Queued, l2Queued, buf>>
      BY <1>15 DEF L1Reads, L2Returns, L3Ends, DestroyEnds, states, timers, l1Vars, l2Vars
    <2> QED BY <1>0, <2>1 DEF KnownOK
  <1> QED BY <1>1, <1>2, <1>4, <1>5, <1>6, <1>7, <1>8, <1>9, <1>10, <1>11, <1>12, <1>13, <1>14, <1>15 DEF Next

-----------------------------------------------------------------------------
(* The retry of a failed run.                                              *)

\* A retry counter rises with a failed run only, of the session that failed.
LEMMA RetriesRise ==
  ASSUME ManagerInv, Next
  PROVE  \A k \in Keys : \/ retries'[k] = retries[k] \/ retries'[k] = 0
                         \/ L1Fails /\ k = Head(l1q)
  <1>0. TypeOK /\ L1Queue /\ StoreOK /\ retries \in [Keys -> 0..(MaxRetries + 1)]
    BY DEF ManagerInv, TypeOK
  <1> DEFINE Goal == \A k \in Keys : \/ retries'[k] = retries[k] \/ retries'[k] = 0
                                     \/ L1Fails /\ k = Head(l1q)
  <1>1. ASSUME NEW s \in Sessions, Notify(s) PROVE Goal
    <2>1. retries' = [retries EXCEPT ![s] = 0]
      BY <1>0, <1>1, Notified
    <2> QED BY <1>0, <2>1
  <1>2. ASSUME NEW s \in Sessions, NotifyEnd(s) PROVE Goal
    <2>1. CASE st[s].count < Head(notes[s])
      BY <1>0, <1>2, <2>1, Collected DEF Evicts
    <2> QED BY <1>0, <1>2, <2>1, NoteTaken
  <1>3. CASE L1Returns
    <2>1. retries' = [retries EXCEPT ![Head(l1q)] = 0]
      BY <1>0, <1>3, RunReturned
    <2> QED BY <1>0, <2>1
  <1>4. CASE L1Fails
    <2>1. \E n : retries' = [retries EXCEPT ![Head(l1q)] = n]
      BY <1>0, <1>4, RunFailed
    <2> QED BY <1>0, <1>4, <2>1
  <1>5. ASSUME NEW s \in Sessions, IdleFires(s) \/ FlushSession(s) PROVE UNCHANGED retries
    BY <1>5 DEF IdleFires, FlushSession
  <1>6. L1Reads \/ L1Ends \/ L2Returns \/ L2Ends \/ L2Fails \/ L3Ends \/ Destroy \/ FlushL2 \/ DestroyEnds \/ DayPasses
        => UNCHANGED retries
    BY DEF L1Reads, L1Ends, L2Returns, L2Ends, L2Fails, L3Ends, Destroy, FlushL2, DestroyEnds, DayPasses, timers
  <1>7. ASSUME NEW k \in Keys, L2Fires(k) \/ FiresDestroyed(k) PROVE UNCHANGED retries
    BY <1>7 DEF L2Fires, FiresDestroyed
  <1>8. Start => Goal
    BY DEF Start
  <1>9. UNCHANGED retries => Goal
    OBVIOUS
  <1> QED BY <1>1, <1>2, <1>3, <1>4, <1>5, <1>6, <1>7, <1>8, <1>9 DEF Next

LEMMA RetryPreserved ==
  ASSUME ManagerInv, Next
  PROVE  RetryOK'
  <1>0. TypeOK /\ L1Queue /\ StoreOK /\ KnownOK /\ RetryOK /\ FailedRunRetried /\ MaxRetries \in Nat
        /\ retries \in [Keys -> 0..(MaxRetries + 1)] /\ buf \in [Sessions -> Nat]
    BY PipelineAssumption DEF ManagerInv, TypeOK, RetryOK
  <1>1. ASSUME l1'.phase = "persist" PROVE retries'[Head(l1q')] = 0
    <2>1. CASE L1Returns
      <3>1. /\ retries' = [retries EXCEPT ![Head(l1q)] = 0] /\ l1q' = l1q /\ Head(l1q) \in Sessions
        BY <1>0, <2>1, RunReturned
      <3> QED BY <1>0, <3>1, KeysFinite
    <2>2. CASE l1' = l1 /\ Head(l1q') = Head(l1q)
      <3>1. Head(l1q) \in Keys /\ retries[Head(l1q)] = 0 /\ ~L1Fails
        BY <1>0, <1>1, <2>2, Running1, KeysFinite DEF RetryOK, L1Fails
      <3> QED BY <2>2, <3>1, RetriesRise
    <2>3. L1Reads => l1'.phase = "read"
      BY <1>0, RowsRead
    <2> QED BY <1>1, <2>1, <2>2, <2>3, HeadStays
  <1>2. ASSUME Up', NEW s \in Sessions, buf'[s] > 0, retries'[s] \in 1..MaxRetries
        PROVE  s \in l1Queued' \cup idle'
    <2>0. s \in Keys /\ retries'[s] # 0
      BY <1>2, KeysFinite
    <2>1. CASE L1Fails
      <3>1. /\ Head(l1q) \in Sessions
            /\ \A x \in Sessions : buf'[x] > 0 => x = Head(l1q) \/ buf[x] > 0
            /\ l1Queued' = l1Queued \ {Head(l1q)}
            /\ retries' = [retries EXCEPT ![Head(l1q)] = IF @ > MaxRetries THEN @ ELSE @ + 1]
            /\ idle' = IF retries[Head(l1q)] < MaxRetries THEN idle \cup {Head(l1q)} ELSE idle
        BY <1>0, <2>1, RunFailed
      <3>2. CASE s = Head(l1q)
        <4>1. retries[s] \in Nat /\ retries'[s] = IF retries[s] > MaxRetries THEN retries[s] ELSE retries[s] + 1
          BY <1>0, <2>0, <3>1, <3>2
        <4>2. retries[s] < MaxRetries
          BY <1>0, <1>2, <4>1
        <4> QED BY <3>1, <3>2, <4>2
      <3>3. CASE s # Head(l1q)
        <4>1. retries'[s] = retries[s] /\ buf[s] > 0
          BY <1>0, <1>2, <2>0, <3>1, <3>3
        <4>2. life' = life
          BY <2>1 DEF L1Fails
        <4>3. s \in l1Queued \cup idle
          BY <1>0, <1>2, <4>1, <4>2 DEF FailedRunRetried, Up
        <4> QED BY <3>1, <3>3, <4>3
      <3> QED BY <3>2, <3>3
    <2>2. CASE ~L1Fails
      <3>0. retries'[s] = retries[s]
        BY <2>0, <2>2, RetriesRise
      <3>1. ASSUME Up, buf[s] > 0 PROVE s \in l1Queued \cup idle
        BY <1>0, <1>2, <3>0, <3>1 DEF FailedRunRetried
      <3>2. ASSUME NEW x \in Sessions, Notify(x) PROVE s \in l1Queued' \cup idle'
        <4>1. /\ retries' = [retries EXCEPT ![x] = 0] /\ buf' = [buf EXCEPT ![x] = @ + 1]
              /\ UNCHANGED <<life, idle, l1Queued>>
          BY <1>0, <3>2, Notified
        <4>2. s # x
          BY <1>0, <2>0, <4>1
        <4>3. buf[s] > 0 /\ Up
          BY <1>0, <1>2, <4>1, <4>2 DEF Up
        <4> QED BY <3>1, <4>1, <4>3
      <3>3. ASSUME NEW x \in Sessions, NotifyEnd(x) PROVE s \in l1Queued' \cup idle'
        <4>1. life' = life
          BY <1>0, <3>3, NoteTaken
        <4>2. CASE EnqueueL1({x}, idle)
          <5>1. /\ l1Queued' = l1Queued \cup {x} /\ idle' = idle \ ({x} \ l1Queued)
                /\ \A y \in Sessions : buf'[y] > 0 => buf[y] > 0
            BY <1>0, <4>2, Enqueues1
          <5>2. s \in l1Queued \cup idle
            BY <1>2, <3>1, <4>1, <5>1 DEF Up
          <5> QED BY <5>1, <5>2
        <4>3. CASE st[x].count < Head(notes[x])
          <5>1. PICK E : Evicts(x, E)
            BY <1>0, <3>3, <4>3, Collected
          <5>2. /\ \A k \in E : k \in Sessions => buf[k] = 0
                /\ idle' = (idle \cup {x}) \ E /\ UNCHANGED <<l1Queued, buf>>
            BY <5>1 DEF Evicts
          <5>3. s \in l1Queued \cup idle
            BY <1>2, <3>1, <4>1, <5>2 DEF Up
          <5> QED BY <1>0, <1>2, <5>2, <5>3
        <4> QED BY <1>0, <3>3, <4>2, <4>3, NoteTaken
      <3>4. ASSUME NEW x \in Sessions, IdleFires(x) PROVE s \in l1Queued' \cup idle'
        <4>1. EnqueueL1({x}, idle \ {x}) /\ life' = life
          BY <3>4 DEF IdleFires
        <4>2. /\ l1Queued' = l1Queued \cup {x} /\ idle' = (idle \ {x}) \ ({x} \ l1Queued)
              /\ \A y \in Sessions : buf'[y] > 0 => buf[y] > 0
          BY <1>0, <4>1, Enqueues1
        <4>3. s \in l1Queued \cup idle
          BY <1>2, <3>1, <4>1, <4>2 DEF Up
        <4> QED BY <4>2, <4>3
      <3>5. ASSUME NEW x \in Sessions, FlushSession(x) PROVE s \in l1Queued' \cup idle'
        <4>1. PICK new \in SUBSET Sessions : EnqueueL1(new, idle \ {x}) /\ (buf[x] > 0 => x \in new)
          BY <1>0, <3>5, Enqueuings
        <4>2. life' = life
          BY <3>5 DEF FlushSession
        <4>3. /\ l1Queued' = l1Queued \cup new /\ idle' = (idle \ {x}) \ (new \ l1Queued)
              /\ \A y \in Sessions : buf'[y] > 0 => buf[y] > 0
          BY <1>0, <4>1, Enqueues1
        <4>4. s \in l1Queued \cup idle /\ buf[s] > 0
          BY <1>2, <3>1, <4>2, <4>3 DEF Up
        <4> QED BY <4>1, <4>3, <4>4
      <3>6. CASE L1Returns
        <4>1. UNCHANGED <<life, idle, l1Queued, buf>>
          BY <1>0, <3>6, RunReturned
        <4> QED BY <1>2, <3>1, <4>1 DEF Up
      <3>7. CASE L1Ends
        <4>1. /\ Head(l1q) \in Sessions /\ l1.phase = "persist"
              /\ \A x \in Sessions : buf'[x] > 0 => buf[x] > 0
              /\ l1Queued' = l1Queued \ {Head(l1q)}
              /\ idle' = idle \/ idle' = idle \cup {Head(l1q)}
          BY <1>0, <3>7, RunEnded
        <4>2. retries[Head(l1q)] = 0 /\ life' = life
          BY <1>0, <3>7, <4>1 DEF RetryOK, L1Ends
        <4>3. s # Head(l1q)
          BY <2>0, <3>0, <4>2
        <4>4. s \in l1Queued \cup idle
          BY <1>2, <3>1, <4>1, <4>2 DEF Up
        <4> QED BY <4>1, <4>3, <4>4
      <3>8. CASE Destroy \/ FlushL2 \/ DestroyEnds
        BY <1>2, <3>8 DEF Destroy, FlushL2, DestroyEnds, Up
      <3>9. CASE Start
        <4>1. buf' = [x \in Sessions |-> 0]
          BY <3>9 DEF Start
        <4> QED BY <1>2, <4>1
      <3>10. ASSUME NEW k \in Keys, L2Fires(k) PROVE UNCHANGED <<life, idle, l1Queued, buf>>
        BY <3>10 DEF L2Fires, l1Vars
      <3>11. ASSUME NEW k \in Keys, FiresDestroyed(k) PROVE ~Up'
        BY <3>11 DEF FiresDestroyed, Up
      <3>12. L1Reads \/ L2Returns \/ L2Ends \/ L2Fails \/ L3Ends \/ DayPasses => UNCHANGED <<life, idle, l1Queued, buf>>
        BY DEF L1Reads, L2Returns, L2Ends, L2Fails, L3Ends, DayPasses, timers, l1Vars
      <3>13. UNCHANGED <<life, idle, l1Queued, buf>> => s \in l1Queued' \cup idle'
        BY <1>2, <3>1 DEF Up
      <3> QED BY <1>2, <2>2, <3>2, <3>3, <3>4, <3>5, <3>6, <3>7, <3>8, <3>9, <3>10, <3>11, <3>12, <3>13 DEF Next
    <2> QED BY <2>1, <2>2
  <1> QED BY <1>1, <1>2 DEF RetryOK, FailedRunRetried

-----------------------------------------------------------------------------
(* The L2 work that L1 leaves.                                             *)

\* Only the next process is up again.
LEMMA UpStays ==
  ASSUME Next, Up', ~Start
  PROVE  Up /\ life' = life
  <1>1. ASSUME NEW s \in Sessions, Notify(s) \/ NotifyEnd(s) \/ IdleFires(s) \/ FlushSession(s) PROVE life' = life
    BY <1>1 DEF Notify, NotifyEnd, IdleFires, FlushSession
  <1>2. ASSUME NEW k \in Keys, L2Fires(k) \/ FiresDestroyed(k) PROVE life' = life
    BY <1>2 DEF L2Fires, FiresDestroyed
  <1>3. L1Reads \/ L1Returns \/ L1Fails \/ L1Ends \/ L2Returns \/ L2Ends \/ L2Fails \/ L3Ends \/ DayPasses => life' = life
    BY DEF L1Reads, L1Returns, L1Fails, L1Ends, L2Returns, L2Ends, L2Fails, L3Ends, DayPasses
  <1>4. ~Destroy /\ ~FlushL2 /\ ~DestroyEnds
    BY DEF Destroy, FlushL2, DestroyEnds, Up
  <1> QED BY <1>1, <1>2, <1>3, <1>4 DEF Next, Up

\* The timer of a key goes when it fires or when its state is evicted.
LEMMA TimerStays ==
  ASSUME ManagerInv, Next, Up', ~Start, NEW k \in Keys, sched[k] # "none"
  PROVE  sched'[k] # "none" \/ L2Fires(k) \/ (k \notin known' /\ k \notin l2Queued)
  <1>0. TypeOK /\ L1Queue /\ L2Queue /\ StoreOK /\ KnownOK /\ sched \in [Keys -> {"none", "delay", "max"}]
    BY DEF ManagerInv, TypeOK
  <1>00. Up /\ life' = life
    BY UpStays
  <1> DEFINE Goal == sched'[k] # "none" \/ L2Fires(k) \/ (k \notin known' /\ k \notin l2Queued)
  <1>1. ASSUME NEW s \in Sessions, NotifyEnd(s) PROVE Goal
    <2>1. CASE st[s].count < Head(notes[s])
      <3>1. PICK E : Evicts(s, E)
        BY <1>0, <1>1, <2>1, Collected
      <3>2. /\ \A x \in E : x \notin l2Queued
            /\ known' = known \ E /\ sched' = [x \in Keys |-> IF x \in E THEN "none" ELSE sched[x]]
        BY <3>1 DEF Evicts
      <3> QED BY <3>2
    <2> QED BY <1>0, <1>1, <2>1, NoteTaken
  <1>2. CASE L1Ends
    <2>1. PICK x \in l1.keys : \E t \in Advanced(sched[x]) : sched' = [sched EXCEPT ![x] = t]
      BY <1>0, <1>2, RunEnded
    <2>2. "none" \notin Advanced(sched[x])
      BY <1>00 DEF Advanced
    <2> QED BY <1>0, <2>1, <2>2
  <1>3. ASSUME NEW x \in Keys, L2Fires(x) PROVE Goal
    <2>1. sched' = [sched EXCEPT ![x] = "none"]
      BY <1>3 DEF L2Fires
    <2> QED BY <1>0, <1>3, <2>1
  <1>4. ASSUME NEW x \in Keys, MaxArmed(x) PROVE Goal
    <2>1. sched' = [sched EXCEPT ![x] = "max"]
      BY <1>00, <1>4 DEF MaxArmed
    <2> QED BY <1>0, <2>1
  <1>5. L2Returns => UNCHANGED sched \/ \E x \in Keys : MaxArmed(x)
    BY <1>0, L2Returned
  <1>6. L2Ends \/ L2Fails => UNCHANGED sched \/ \E x \in Keys : MaxArmed(x)
    BY <1>0, Running2 DEF L2Ends, L2Fails
  <1>7. ASSUME NEW s \in Sessions, Notify(s) \/ IdleFires(s) \/ FlushSession(s) PROVE UNCHANGED sched
    BY <1>7 DEF Notify, IdleFires, FlushSession
  <1>8. L1Reads \/ L1Returns \/ L1Fails \/ L3Ends \/ DayPasses => UNCHANGED sched
    BY DEF L1Reads, L1Returns, L1Fails, L3Ends, DayPasses, timers
  <1>9. ~Destroy /\ ~FlushL2 /\ ~DestroyEnds
    BY DEF Destroy, FlushL2, DestroyEnds, Up
  <1>10. \A x \in Keys : ~FiresDestroyed(x)
    BY <1>00 DEF FiresDestroyed, Up
  <1>11. UNCHANGED sched => Goal
    OBVIOUS
  <1> QED BY <1>1, <1>2, <1>3, <1>4, <1>5, <1>6, <1>7, <1>8, <1>9, <1>10, <1>11 DEF Next

\* L2 work of an active profile is new only when a run has just returned.
LEMMA PendingFrom ==
  ASSUME ManagerInv, Next, ~Start, NEW k \in Profiles, k \in known', st'[k].pend > 0, age'[k] = 0
  PROVE  \/ k \in known /\ st[k].pend > 0 /\ age[k] = 0
         \/ l1'.phase = "persist" /\ k \in l1'.keys
  <1>0. TypeOK /\ L1Queue /\ L2Queue /\ StoreOK /\ KnownOK /\ k \in Keys
        /\ st \in [Keys -> States] /\ age \in [Keys -> 0..2]
    BY KeysFinite DEF ManagerInv, TypeOK
  <1> DEFINE Old == k \in known /\ st[k].pend > 0 /\ age[k] = 0
             New == l1'.phase = "persist" /\ k \in l1'.keys
  <1>1. ASSUME NEW s \in Sessions, Notify(s) PROVE Old
    <2>1. known' = known \cup {s} /\ age' = [age EXCEPT ![s] = 0] /\ st' = [st EXCEPT ![s].count = @ + 1]
      BY <1>0, <1>1, Notified
    <2>2. k # s
      BY KeysFinite
    <2> QED BY <1>0, <2>1, <2>2
  <1>2. ASSUME NEW s \in Sessions, NotifyEnd(s) PROVE Old
    <2>1. CASE st[s].count < Head(notes[s])
      <3>1. PICK E : Evicts(s, E)
        BY <1>0, <1>2, <2>1, Collected
      <3>2. known' = known \ E /\ age' = age /\ st' = [x \in Keys |-> IF x \in E THEN Fresh ELSE st[x]]
        BY <3>1 DEF Evicts
      <3>3. k \notin E
        BY <3>2
      <3> QED BY <1>0, <3>2, <3>3
    <2> QED BY <1>0, <1>2, <2>1, NoteTaken
  <1>3. CASE L1Returns
    <2>1. PICK x \in Keys :
            /\ l1'.keys = {x} /\ known' = known \cup {x}
            /\ age' = IF x \in known THEN age ELSE [age EXCEPT ![x] = 0]
            /\ st' = [[st EXCEPT ![Head(l1q)] = Warmer([@ EXCEPT !.count = 0])] EXCEPT ![x].pend = 1]
      BY <1>0, <1>3, RunReturned
    <2>2. l1'.phase = "persist" /\ k # Head(l1q)
      BY <1>0, <1>3, RunReturned, KeysFinite
    <2>3. CASE k = x
      BY <2>1, <2>2, <2>3
    <2>4. CASE k # x
      <3>1. st'[k] = st[k] /\ age'[k] = age[k] /\ k \in known
        BY <1>0, <2>1, <2>2, <2>4
      <3> QED BY <3>1
    <2> QED BY <2>3, <2>4
  <1>4. CASE L2Returns
    <2>1. Head(l2q) \in Keys /\ UNCHANGED <<known, age>>
      BY <1>0, <1>4, L2Returned
    <2>2. PICK skipped \in BOOLEAN :
            st' = [st EXCEPT ![Head(l2q)].pend = 0, ![Head(l2q)].seen = IF skipped THEN @ ELSE l2.upto]
      BY <1>0, <1>4, L2Returned
    <2>3. \E n : st' = [st EXCEPT ![Head(l2q)] = [[st[Head(l2q)] EXCEPT !.pend = 0] EXCEPT !.seen = n]]
      BY <1>0, <2>1, <2>2 DEF States
    <2>4. k # Head(l2q)
      <3>1. st[Head(l2q)] \in States
        BY <1>0, <2>1
      <3>2. st'[Head(l2q)].pend = 0
        BY <1>0, <2>1, <2>3, <3>1 DEF States
      <3> QED BY <3>2
    <2> QED BY <1>0, <2>1, <2>3, <2>4
  <1>5. CASE DayPasses
    <2>1. UNCHANGED <<known, st>> /\ age' = [x \in Keys |-> IF age[x] < MaxAge THEN age[x] + 1 ELSE age[x]]
      BY <1>5 DEF DayPasses
    <2>2. age[k] \in Nat /\ (age'[k] = age[k] + 1 \/ age'[k] = age[k])
      BY <1>0, <2>1
    <2> QED BY <2>1, <2>2
  <1>6. ASSUME NEW s \in Sessions, IdleFires(s) \/ FlushSession(s) PROVE UNCHANGED states
    BY <1>6 DEF IdleFires, FlushSession
  <1>7. L1Reads \/ L1Fails \/ L1Ends \/ L2Ends \/ L2Fails \/ L3Ends \/ Destroy \/ FlushL2 \/ DestroyEnds => UNCHANGED states
    BY DEF L1Reads, L1Fails, L1Ends, L2Ends, L2Fails, L3Ends, Destroy, FlushL2, DestroyEnds
  <1>8. ASSUME NEW x \in Keys, L2Fires(x) \/ FiresDestroyed(x) PROVE UNCHANGED states
    BY <1>8 DEF L2Fires, FiresDestroyed
  <1>9. UNCHANGED states => Old
    BY DEF states
  <1> QED BY <1>1, <1>2, <1>3, <1>4, <1>5, <1>6, <1>7, <1>8, <1>9 DEF Next

\* A queued key leaves its queue with a timer.
LEMMA QueuedLeaves ==
  ASSUME ManagerInv, Next, Up', ~Start, NEW k \in Keys, k \in l2Queued
  PROVE  k \in l2Queued' \/ sched'[k] # "none"
  <1>0. TypeOK /\ L2Queue /\ PendingOK /\ sched \in [Keys -> {"none", "delay", "max"}]
    BY DEF ManagerInv, TypeOK
  <1>00. Up
    BY UpStays
  <1>1. CASE L2Ends \/ L2Fails
    <2>1. l2Queued' = l2Queued \ {Head(l2q)} /\ l2.phase \in {"run", "skip", "persist"}
      BY <1>1 DEF L2Ends, L2Fails, NextL2
    <2>2. ASSUME k = Head(l2q) PROVE sched'[k] # "none"
      <3>1. MaxArmed(k) => sched'[k] = "max"
        BY <1>0, <1>00 DEF MaxArmed
      <3>2. l2.phase = "skip" => sched[k] # "none"
        BY <1>0, <1>00, <2>2 DEF PendingOK
      <3>3. MaxArmed(k) \/ (l2.phase = "skip" /\ UNCHANGED sched)
        BY <1>1, <2>2 DEF L2Ends, L2Fails
      <3> QED BY <3>1, <3>2, <3>3
    <2> QED BY <2>1, <2>2
  <1>2. ASSUME NEW x \in Keys, L2Fires(x) PROVE l2Queued \subseteq l2Queued'
    BY <1>0, <1>2, DueKeys, Enqueues2
  <1>3. ASSUME NEW s \in Sessions, Notify(s) \/ NotifyEnd(s) \/ IdleFires(s) \/ FlushSession(s) PROVE UNCHANGED l2Queued
    BY <1>3 DEF Notify, NotifyEnd, IdleFires, FlushSession, l2Vars
  <1>4. L1Reads \/ L1Returns \/ L1Fails \/ L1Ends \/ L2Returns \/ L3Ends \/ Destroy \/ DestroyEnds \/ DayPasses => UNCHANGED l2Queued
    BY DEF L1Reads, L1Returns, L1Fails, L1Ends, L2Returns, L3Ends, Destroy, DestroyEnds, DayPasses, l2Vars
  <1>5. ASSUME NEW x \in Keys, FiresDestroyed(x) PROVE UNCHANGED l2Queued
    BY <1>5 DEF FiresDestroyed, l2Vars
  <1>6. ~FlushL2
    BY DEF FlushL2, Up
  <1> QED BY <1>1, <1>2, <1>3, <1>4, <1>5, <1>6 DEF Next

\* A skipped L2 run goes on with its timer.
LEMMA SkipKeepsTimer ==
  ASSUME ManagerInv, Next, Up', l2'.phase = "skip"
  PROVE  sched'[Head(l2q')] # "none"
  <1>0. TypeOK /\ L2Queue /\ PendingOK /\ KnownOK /\ sched \in [Keys -> {"none", "delay", "max"}]
    BY DEF ManagerInv, TypeOK
  <1>1. ~Start
    BY DEF Start, NoL2
  <1>2. Up
    BY <1>1, UpStays
  <1>3. CASE L2Returns
    <2>1. Head(l2q) \in Keys /\ l2q' = l2q /\ MaxArmed(Head(l2q))
      BY <1>0, <1>3, L2Returned
    <2>2. sched'[Head(l2q)] = "max"
      BY <1>0, <1>2, <2>1 DEF MaxArmed
    <2> QED BY <2>1, <2>2
  <1>4. CASE l2' = l2 /\ Head(l2q') = Head(l2q)
    <2>1. sched[Head(l2q)] # "none" /\ Head(l2q) \in Keys /\ Head(l2q) \in l2Queued
      BY <1>0, <1>2, <1>4, Running2 DEF PendingOK
    <2>2. ~L2Fires(Head(l2q))
      BY <1>4 DEF L2Fires
    <2> QED BY <1>1, <1>4, <2>1, <2>2, TimerStays
  <1>5. ASSUME NEW x \in Keys, L2Fires(x) PROVE l2' = l2 /\ Head(l2q') = Head(l2q)
    <2>1. /\ l2.phase # "none" => l2' = l2 /\ Head(l2q') = Head(l2q)
          /\ l2.phase = "none" => l2'.phase \in {"none", "run"}
      BY <1>0, <1>5, DueKeys, Enqueues2
    <2> QED BY <2>1
  <1>6. ~L2Ends /\ ~L2Fails
    <2>1. ASSUME L2Ends \/ L2Fails PROVE l2'.phase \in {"none", "run"}
      <3>1. l2.phase # "none" /\ NextL2
        BY <2>1 DEF L2Ends, L2Fails
      <3> QED BY <1>0, <3>1, Leaves2
    <2> QED BY <2>1
  <1>7. ASSUME NEW s \in Sessions, Notify(s) \/ NotifyEnd(s) \/ IdleFires(s) \/ FlushSession(s) PROVE UNCHANGED <<l2, l2q>>
    BY <1>7 DEF Notify, NotifyEnd, IdleFires, FlushSession, l2Vars
  <1>8. L1Reads \/ L1Returns \/ L1Fails \/ L1Ends \/ L3Ends \/ Destroy \/ DestroyEnds \/ DayPasses => UNCHANGED <<l2, l2q>>
    BY DEF L1Reads, L1Returns, L1Fails, L1Ends, L3Ends, Destroy, DestroyEnds, DayPasses, l2Vars
  <1>9. ASSUME NEW x \in Keys, FiresDestroyed(x) PROVE UNCHANGED <<l2, l2q>>
    BY <1>9 DEF FiresDestroyed, l2Vars
  <1>10. ~FlushL2
    BY DEF FlushL2, Up
  <1> QED BY <1>1, <1>3, <1>4, <1>5, <1>6, <1>7, <1>8, <1>9, <1>10 DEF Next

LEMMA PendingPreserved ==
  ASSUME ManagerInv, Next
  PROVE  PendingOK'
  <1>0. TypeOK /\ L1Queue /\ L2Queue /\ StoreOK /\ KnownOK /\ PendingOK /\ PendingL2Armed
        /\ sched \in [Keys -> {"none", "delay", "max"}]
    BY DEF ManagerInv, TypeOK, PendingOK
  <1>1. ASSUME l1'.phase = "persist" PROVE \E k \in Keys : l1'.keys = {k}
    <2>1. L1Returns => \E k \in Keys : l1'.keys = {k}
      BY <1>0, RunReturned
    <2>2. L1Reads => l1'.phase = "read"
      BY <1>0, RowsRead
    <2>3. l1' = l1 => \E k \in Keys : l1'.keys = {k}
      BY <1>0, <1>1 DEF PendingOK
    <2> QED BY <1>1, <2>1, <2>2, <2>3, HeadStays
  <1>2. Up' /\ l2'.phase = "skip" => sched'[Head(l2q')] # "none"
    BY SkipKeepsTimer
  <1>3. ASSUME Up', NEW k \in known' \cap Profiles, st'[k].pend > 0, age'[k] = 0
        PROVE  sched'[k] # "none" \/ k \in l2Queued' \/ (l1'.phase = "persist" /\ k \in l1'.keys)
    <2>0. k \in Keys /\ k \in Profiles /\ k \in known'
      BY <1>3, KeysFinite
    <2>1. CASE Start
      <3>1. /\ known' = {x \in Keys : ckpt[x] # Missing}
            /\ st' = [x \in Keys |-> IF ckpt[x] = Missing THEN Fresh ELSE Recovered(ckpt[x])]
            /\ sched' = [x \in Keys |-> IF ckpt[x] # Missing /\ Recovered(ckpt[x]).pend > 0 THEN "delay" ELSE "none"]
        BY <2>1 DEF Start
      <3>2. ckpt[k] # Missing /\ st'[k] = Recovered(ckpt[k])
        BY <2>0, <3>1
      <3>3. sched'[k] = "delay"
        BY <1>3, <2>0, <3>1, <3>2
      <3> QED BY <3>3
    <2>2. CASE ~Start /\ k \in known /\ st[k].pend > 0 /\ age[k] = 0
      <3>1. Up
        BY <1>3, <2>2, UpStays
      <3>2. sched[k] # "none" \/ k \in l2Queued \/ (l1.phase = "persist" /\ k \in l1.keys)
        BY <1>0, <2>0, <2>2, <3>1 DEF PendingL2Armed
      <3>3. CASE k \in l2Queued
        BY <1>3, <2>0, <2>2, <3>3, QueuedLeaves
      <3>4. CASE l1.phase = "persist" /\ k \in l1.keys
        <4>1. CASE l1' = l1
          BY <3>4, <4>1
        <4>2. CASE L1Ends
          <5>1. PICK x \in l1.keys : \E t \in Advanced(sched[x]) : sched' = [sched EXCEPT ![x] = t]
            BY <1>0, <4>2, RunEnded
          <5>2. x = k
            BY <1>0, <3>4, <5>1 DEF PendingOK
          <5>3. "none" \notin Advanced(sched[x])
            BY <3>1 DEF Advanced
          <5> QED BY <1>0, <2>0, <5>1, <5>2, <5>3
        <4> QED BY <2>2, <3>4, <4>1, <4>2, PersistStays
      <3>5. CASE sched[k] # "none"
        <4>1. CASE L2Fires(k)
          <5>1. l2Queued' = l2Queued \cup (IF Due(k) THEN {k} ELSE {})
            BY <1>0, <2>0, <4>1, DueKeys, Enqueues2
          <5>2. Due(k)
            BY <2>2 DEF Due
          <5> QED BY <5>1, <5>2
        <4> QED BY <1>3, <2>0, <2>2, <3>5, <4>1, TimerStays
      <3> QED BY <3>2, <3>3, <3>4, <3>5
    <2> QED BY <1>3, <2>0, <2>1, <2>2, PendingFrom
  <1> QED BY <1>1, <1>2, <1>3 DEF PendingOK, PendingL2Armed

-----------------------------------------------------------------------------
(* The theorems.                                                           *)

LEMMA ManagerInit == Init => ManagerInv
  <1> SUFFICES ASSUME Init PROVE ManagerInv
    OBVIOUS
  <1>0. /\ EveryN \in Nat /\ EveryN # 0 /\ MaxRetries \in Nat /\ MaxRows \in Nat /\ MaxRestarts \in Nat
        /\ Warmup \in BOOLEAN /\ 0 \in 0..(2 * Batch)
    BY PipelineAssumption
  <1>1. NoRun \in L1Runs /\ NoRun.phase = "none" /\ NoL2 \in L2Runs /\ NoL2.phase = "none"
    BY <1>0 DEF NoRun, NoL2, L1Runs, L2Runs
  <1>2. L1Shape /\ L2Shape
    <2>1. l1q = <<>> /\ l2q = <<>> /\ l1Queued = {} /\ l2Queued = {} /\ l1 = NoRun /\ l2 = NoL2 /\ buf \in [Sessions -> Nat]
      BY DEF Init
    <2> QED BY <1>1, <2>1, EmptyQueue DEF L1Shape, L2Shape, L1Queue, L2Queue
  <1>3. Rest
    <2>1. notes \in [Sessions -> Seq(1..EveryN)]
      BY EmptySeq DEF Init
    <2>2. st \in [Keys -> States] /\ ckpt \in [Keys -> States \cup {Missing}]
      BY StateTypes DEF Init
    <2>3. /\ life = "up" /\ known = {} /\ age = [k \in Keys |-> 0] /\ idle = {} /\ sched = [k \in Keys |-> "none"]
          /\ retries = [k \in Keys |-> 0] /\ ran = {} /\ l3 = "idle" /\ unseen = FALSE
          /\ rows = [s \in Sessions |-> 0] /\ cursor = [s \in Sessions |-> 0] /\ records = [k \in Keys |-> 0]
          /\ restarts = 0
      BY DEF Init
    <2>4. /\ age \in [Keys -> 0..2] /\ sched \in [Keys -> {"none", "delay", "max"}]
          /\ retries \in [Keys -> 0..(MaxRetries + 1)] /\ records \in [Keys -> Nat]
      BY <1>0, <2>3
    <2>5. rows \in [Sessions -> 0..MaxRows] /\ cursor \in [Sessions -> 0..MaxRows] /\ restarts \in 0..MaxRestarts
      BY <1>0, <2>3
    <2> QED BY <2>1, <2>2, <2>3, <2>4, <2>5 DEF Rest
  <1>4. TypeOK
    BY <1>2, <1>3, TypesSplit
  <1>5. StoreOK /\ KnownOK /\ RetryOK /\ PendingOK
    <2>1. /\ known = {} /\ l1 = NoRun /\ l2 = NoL2 /\ l1Queued = {} /\ l2Queued = {} /\ idle = {}
          /\ buf = [s \in Sessions |-> 0] /\ notes = [s \in Sessions |-> <<>>]
          /\ rows = [s \in Sessions |-> 0] /\ cursor = [s \in Sessions |-> 0]
      BY DEF Init
    <2>2. StoreOK
      BY <1>1, <2>1 DEF StoreOK
    <2>3. KnownOK
      BY <2>1 DEF KnownOK
    <2>4. RetryOK
      BY <1>1, <2>1 DEF RetryOK, FailedRunRetried
    <2>5. PendingOK
      BY <1>1, <2>1 DEF PendingOK, PendingL2Armed
    <2> QED BY <2>2, <2>3, <2>4, <2>5
  <1> QED BY <1>2, <1>4, <1>5 DEF ManagerInv, L1Shape, L2Shape

LEMMA ManagerStep == ManagerInv /\ [Next]_vars => ManagerInv'
  <1> SUFFICES ASSUME ManagerInv, [Next]_vars PROVE ManagerInv'
    OBVIOUS
  <1>1. CASE Next
    <2>1. L1Shape' /\ L2Shape' /\ Rest'
      BY <1>1, L1Preserved, L2Preserved, RestPreserved
    <2>2. TypeOK'
      BY <2>1, TypesSplit, PTL
    <2>3. L1Queue' /\ L2Queue'
      BY <2>1 DEF L1Shape, L2Shape
    <2>4. StoreOK' /\ KnownOK' /\ RetryOK' /\ PendingOK'
      BY <1>1, StorePreserved, KnownPreserved, RetryPreserved, PendingPreserved
    <2> QED BY <2>2, <2>3, <2>4 DEF ManagerInv
  <1>2. CASE UNCHANGED vars
    <2>1. UNCHANGED <<life, known, st, age, idle, sched, retries, buf, notes, l1Queued, l2Queued, l1q, l2q, l1, l2,
                      ran, l3, rows, cursor, records, unseen, ckpt, restarts>>
      BY <1>2 DEF vars, states, timers, l1Vars, l2Vars, store
    <2>2. TypeOK'
      BY <2>1 DEF ManagerInv, TypeOK
    <2>3. L1Queue' /\ L2Queue' /\ StoreOK' /\ KnownOK'
      BY <2>1 DEF ManagerInv, L1Queue, L2Queue, StoreOK, KnownOK
    <2>4. RetryOK' /\ PendingOK'
      BY <2>1 DEF ManagerInv, RetryOK, FailedRunRetried, PendingOK, PendingL2Armed, Up
    <2> QED BY <2>2, <2>3, <2>4 DEF ManagerInv
  <1> QED BY <1>1, <1>2

\* The inductive invariant holds, whatever the sessions and profiles, the
\* thresholds, failures, shutdowns and restarts.
THEOREM ManagerSound == Spec => []ManagerInv
  BY ManagerInit, ManagerStep, PTL DEF Spec

\* Every variable of the scheduler has its type.
THEOREM ManagerTypes == Spec => []TypeOK
  <1>1. ManagerInv => TypeOK
    BY DEF ManagerInv
  <1> QED BY <1>1, ManagerSound, PTL

\* A key is in its serial queue once, exactly while its flag is set, and has a
\* state: the collector never evicts what is queued or running.
THEOREM ManagerQueues == Spec => []QueuedOnce
  <1>1. ManagerInv => QueuedOnce
    BY DEF ManagerInv, QueuedOnce, L1Queue, L2Queue, KnownOK
  <1> QED BY <1>1, ManagerSound, PTL

\* What a failed L1 run gave back has a retry, until the retries are used up.
THEOREM ManagerRetries == Spec => []FailedRunRetried
  <1>1. ManagerInv => FailedRunRetried
    BY DEF ManagerInv, RetryOK
  <1> QED BY <1>1, ManagerSound, PTL

\* L2 work pending for an active profile has a timer or a place in the queue.
THEOREM ManagerPending == Spec => []PendingL2Armed
  <1>1. ManagerInv => PendingL2Armed
    BY DEF ManagerInv, PendingOK
  <1> QED BY <1>1, ManagerSound, PTL

LEMMA L3Step == L3SeesEveryL2 /\ [Next]_vars => L3SeesEveryL2'
  <1> SUFFICES ASSUME L3SeesEveryL2, [Next]_vars PROVE L3SeesEveryL2'
    OBVIOUS
  <1>1. CASE L2Ends
    <2>1. life' = life /\ (TriggerL3 \/ UNCHANGED <<l3, unseen>>)
      BY <1>1 DEF L2Ends
    <2>2. CASE TriggerL3
      BY <2>1, <2>2 DEF TriggerL3, L3SeesEveryL2, Up
    <2>3. CASE UNCHANGED <<l3, unseen>>
      BY <2>1, <2>3 DEF L3SeesEveryL2, Up
    <2> QED BY <2>1, <2>2, <2>3
  <1>2. CASE L3Ends
    BY <1>2 DEF L3Ends, L3SeesEveryL2, Up
  <1>3. CASE Start
    BY <1>3 DEF Start, L3SeesEveryL2
  <1>4. CASE UNCHANGED <<l3, unseen, life>>
    BY <1>4 DEF L3SeesEveryL2, Up
  <1>5. CASE Destroy \/ FlushL2 \/ DestroyEnds
    BY <1>5 DEF Destroy, FlushL2, DestroyEnds, L3SeesEveryL2, Up
  <1>6. ASSUME NEW s \in Sessions, Notify(s) \/ NotifyEnd(s) \/ IdleFires(s) \/ FlushSession(s) PROVE UNCHANGED <<l3, unseen, life>>
    BY <1>6 DEF Notify, NotifyEnd, IdleFires, FlushSession
  <1>7. L1Reads \/ L1Returns \/ L1Fails \/ L1Ends \/ L2Returns \/ L2Fails \/ DayPasses => UNCHANGED <<l3, unseen, life>>
    BY DEF L1Reads, L1Returns, L1Fails, L1Ends, L2Returns, L2Fails, DayPasses
  <1>8. ASSUME NEW k \in Keys, L2Fires(k) \/ FiresDestroyed(k) PROVE UNCHANGED <<l3, unseen, life>>
    BY <1>8 DEF L2Fires, FiresDestroyed
  <1>9. UNCHANGED vars => UNCHANGED <<l3, unseen, life>>
    BY DEF vars
  <1> QED BY <1>1, <1>2, <1>3, <1>4, <1>5, <1>6, <1>7, <1>8, <1>9 DEF Next

\* An L2 completion that comes while L3 runs is followed by another L3 run.
THEOREM ManagerL3 == Spec => []L3SeesEveryL2
  <1>1. Init => L3SeesEveryL2
    BY DEF Init, L3SeesEveryL2
  <1> QED BY <1>1, L3Step, PTL DEF Spec
=============================================================================
