------------------------ MODULE WorkerPermitPoolProofs ------------------------
(***************************************************************************)
(* Theorems about WorkerPermitPool for every set of clients and every      *)
(* capacity.  The inductive invariant is TypeOK with the three named       *)
(* invariants: the counter is exact only because a waiter that is handed a *)
(* permit was not already counted, which needs the queue to hold exactly   *)
(* the waiting clients, each once.                                         *)
(***************************************************************************)
EXTENDS WorkerPermitPool, FiniteSetTheorems, SequenceTheorems, TLAPS

PoolInv == TypeOK /\ PermitsConserved /\ WaitersExact /\ NoIdlePermitWhileWaiting

-----------------------------------------------------------------------------
\* The holders are a finite set, so that their number is a natural number.
LEMMA HoldersFinite == IsFiniteSet(Holders) /\ Cardinality(Holders) \in Nat
  BY ClientsAssumption, FS_Subset, FS_CardinalityType DEF Holders

\* A client that starts to hold a permit makes the holders one more.
LEMMA OneMoreHolder ==
  ASSUME NEW c \in Clients, state[c] # Holding,
         Holders' = Holders \cup {c}
  PROVE  Cardinality(Holders') = Cardinality(Holders) + 1
  BY HoldersFinite, FS_AddElement DEF Holders

\* A client that stops holding its permit makes the holders one fewer.
LEMMA OneLessHolder ==
  ASSUME NEW c \in Clients, state[c] = Holding,
         Holders' = Holders \ {c}
  PROVE  Cardinality(Holders') = Cardinality(Holders) - 1
  BY HoldersFinite, FS_RemoveElement DEF Holders

LEMMA InitEstablishes == Init => PoolInv
  <1> SUFFICES ASSUME Init PROVE PoolInv
    OBVIOUS
  <1>1. TypeOK
    <2>1. waiters \in Seq(Clients)
      BY DEF Init
    <2>2. inFlight \in 0..Capacity
      BY CapacityAssumption DEF Init
    <2> QED
      BY <2>1, <2>2 DEF Init, TypeOK, Idle, Waiting, Holding, Rejected
  <1>2. Holders = {}
    BY DEF Init, Holders, Idle, Holding
  <1>3. PermitsConserved
    BY <1>2, FS_EmptySet DEF Init, PermitsConserved
  <1>4. WaitersExact /\ NoIdlePermitWhileWaiting
    BY DEF Init, WaitersExact, NoIdlePermitWhileWaiting, Idle, Waiting
  <1> QED
    BY <1>1, <1>3, <1>4 DEF PoolInv

LEMMA AcquirePreserves ==
  ASSUME PoolInv, NEW c \in Clients, Acquire(c)
  PROVE  PoolInv'
  <1> USE DEF PoolInv, TypeOK, Idle, Waiting, Holding, Rejected
  <1> USE CapacityAssumption
  <1>1. CASE destroyed /\ Become(c, Rejected) /\ UNCHANGED <<inFlight, waiters, destroyed>>
    <2>1. Holders' = Holders
      BY <1>1 DEF Acquire, Become, Holders
    <2>2. TypeOK' /\ WaitersExact' /\ NoIdlePermitWhileWaiting'
      BY <1>1 DEF Acquire, Become, WaitersExact, NoIdlePermitWhileWaiting
    <2> QED
      BY <2>1, <2>2, <1>1 DEF PermitsConserved
  <1>2. CASE ~destroyed /\ inFlight < Capacity /\ inFlight' = inFlight + 1
             /\ Become(c, Holding) /\ UNCHANGED <<waiters, destroyed>>
    <2>1. Holders' = Holders \cup {c} /\ state[c] # Holding
      BY <1>2 DEF Acquire, Become, Holders
    <2>2. PermitsConserved'
      BY <1>2, <2>1, OneMoreHolder DEF PermitsConserved
    <2>3. TypeOK' /\ WaitersExact' /\ NoIdlePermitWhileWaiting'
      BY <1>2 DEF Acquire, Become, WaitersExact, NoIdlePermitWhileWaiting
    <2> QED
      BY <2>2, <2>3
  <1>3. CASE ~destroyed /\ inFlight >= Capacity /\ waiters' = Append(waiters, c)
             /\ Become(c, Waiting) /\ UNCHANGED <<inFlight, destroyed>>
    <2>1. Holders' = Holders
      BY <1>3 DEF Acquire, Become, Holders
    <2>2. TypeOK'
      BY <1>3 DEF Acquire, Become
    <2>3. \A i \in DOMAIN waiters : waiters[i] # c
      BY DEF Acquire, WaitersExact
    <2>4. /\ DOMAIN waiters' = DOMAIN waiters \cup {Len(waiters) + 1}
          /\ \A i \in DOMAIN waiters : waiters'[i] = waiters[i]
          /\ waiters'[Len(waiters) + 1] = c
          /\ Len(waiters) + 1 \notin DOMAIN waiters
      BY <1>3
    <2>5. {waiters'[i] : i \in DOMAIN waiters'} = {waiters[i] : i \in DOMAIN waiters} \cup {c}
      <3>1. ASSUME NEW i \in DOMAIN waiters'
            PROVE  waiters'[i] \in {waiters[j] : j \in DOMAIN waiters} \cup {c}
        BY <2>4
      <3>2. ASSUME NEW j \in DOMAIN waiters
            PROVE  waiters[j] \in {waiters'[i] : i \in DOMAIN waiters'}
        BY <2>4
      <3>3. c \in {waiters'[i] : i \in DOMAIN waiters'}
        BY <2>4
      <3> QED
        BY <3>1, <3>2, <3>3
    <2>6. {d \in Clients : state'[d] = Waiting} = {d \in Clients : state[d] = Waiting} \cup {c}
      BY <1>3 DEF Become
    <2>7. WaitersExact'
      BY <2>3, <2>4, <2>5, <2>6 DEF WaitersExact
    <2> QED
      BY <1>3, <2>1, <2>2, <2>7 DEF PermitsConserved, NoIdlePermitWhileWaiting
  <1> QED
    BY <1>1, <1>2, <1>3 DEF Acquire

LEMMA ReleasePreserves ==
  ASSUME PoolInv, NEW c \in Clients, Release(c)
  PROVE  PoolInv'
  <1> USE DEF PoolInv, TypeOK, Idle, Waiting, Holding, Rejected
  <1> USE CapacityAssumption
  <1>0. c \in Holders /\ inFlight \in 1..Capacity
    <2>1. c \in Holders
      BY DEF Release, Holders
    <2>2. Cardinality(Holders) # 0
      BY <2>1, HoldersFinite, FS_EmptySet
    <2> QED
      BY <2>1, <2>2 DEF PermitsConserved
  <1>1. CASE waiters = <<>>
    <2>1. Holders' = Holders \ {c}
      BY <1>1 DEF Release, Become, Holders
    <2>2. PermitsConserved'
      BY <1>1, <2>1, OneLessHolder DEF PermitsConserved, Release
    <2>3. TypeOK' /\ WaitersExact' /\ NoIdlePermitWhileWaiting'
      BY <1>0, <1>1 DEF Release, Become, WaitersExact, NoIdlePermitWhileWaiting
    <2> QED
      BY <2>2, <2>3
  <1>2. CASE waiters # <<>>
    <2> DEFINE h == Head(waiters)
    <2>1. /\ 1 \in DOMAIN waiters /\ h = waiters[1] /\ h \in Clients
          /\ waiters' = Tail(waiters) /\ UNCHANGED <<inFlight, destroyed>>
          /\ state' = [state EXCEPT ![c] = Idle, ![h] = Holding]
      BY <1>2 DEF Release
    <2>2. state[h] = Waiting /\ h # c
      BY <2>1 DEF WaitersExact, Release
    <2>3. Holders' = (Holders \ {c}) \cup {h} /\ h \notin Holders \ {c}
      BY <2>1, <2>2 DEF Holders
    <2>4. Cardinality(Holders') = Cardinality(Holders)
      <3>1. IsFiniteSet(Holders \ {c}) /\ Cardinality(Holders \ {c}) = Cardinality(Holders) - 1
        BY <1>0, HoldersFinite, FS_RemoveElement
      <3>2. Cardinality(Holders') = Cardinality(Holders \ {c}) + 1
        BY <2>3, <3>1, FS_AddElement
      <3> QED
        BY <3>1, <3>2, HoldersFinite
    <2>5. TypeOK'
      BY <1>2, <2>1
    <2>6. /\ DOMAIN waiters = 1..Len(waiters) /\ DOMAIN waiters' = 1..(Len(waiters) - 1)
          /\ \A i \in DOMAIN waiters' : i + 1 \in DOMAIN waiters /\ i + 1 # 1 /\ waiters'[i] = waiters[i + 1]
          /\ \A j \in DOMAIN waiters : j # 1 => j - 1 \in DOMAIN waiters' /\ waiters'[j - 1] = waiters[j]
          /\ Len(waiters) \in Nat
      BY <1>2, <2>1
    <2>7. {waiters'[i] : i \in DOMAIN waiters'} = {waiters[i] : i \in DOMAIN waiters} \ {h}
      <3>1. ASSUME NEW i \in DOMAIN waiters'
            PROVE  waiters'[i] \in {waiters[j] : j \in DOMAIN waiters} \ {h}
        BY <2>1, <2>6 DEF WaitersExact
      <3>2. ASSUME NEW j \in DOMAIN waiters, waiters[j] # h
            PROVE  waiters[j] \in {waiters'[i] : i \in DOMAIN waiters'}
        <4>1. j # 1
          BY <2>1, <3>2
        <4> QED
          BY <4>1, <2>6
      <3> QED
        BY <3>1, <3>2
    <2>8. {d \in Clients : state'[d] = Waiting} = {d \in Clients : state[d] = Waiting} \ {h}
      BY <2>1, <2>2 DEF Release
    <2>9. \A i, j \in DOMAIN waiters' : waiters'[i] = waiters'[j] => i = j
      <3> SUFFICES ASSUME NEW i \in DOMAIN waiters', NEW j \in DOMAIN waiters',
                          waiters'[i] = waiters'[j]
                   PROVE  i = j
        OBVIOUS
      <3>1. waiters[i + 1] = waiters[j + 1] /\ i + 1 \in DOMAIN waiters /\ j + 1 \in DOMAIN waiters
        BY <2>6
      <3>2. i + 1 = j + 1
        BY <3>1 DEF WaitersExact
      <3> QED
        BY <3>2, <2>6
    <2>10. WaitersExact'
      BY <2>7, <2>8, <2>9 DEF WaitersExact
    <2>11. NoIdlePermitWhileWaiting' /\ PermitsConserved'
      BY <1>2, <2>1, <2>4 DEF NoIdlePermitWhileWaiting, PermitsConserved
    <2> QED
      BY <2>5, <2>10, <2>11
  <1> QED
    BY <1>1, <1>2

LEMMA DestroyPreserves ==
  ASSUME PoolInv, Destroy
  PROVE  PoolInv'
  <1> USE DEF PoolInv, TypeOK, Idle, Waiting, Holding, Rejected
  <1>1. Holders' = Holders
    BY DEF Destroy, Holders
  <1>2. TypeOK' /\ WaitersExact' /\ NoIdlePermitWhileWaiting'
    BY DEF Destroy, WaitersExact, NoIdlePermitWhileWaiting
  <1> QED
    BY <1>1, <1>2 DEF Destroy, PermitsConserved

LEMMA ObservePreserves ==
  ASSUME PoolInv, NEW c \in Clients, Observe(c)
  PROVE  PoolInv'
  <1> USE DEF PoolInv, TypeOK, Idle, Waiting, Holding, Rejected
  <1>1. Holders' = Holders
    BY DEF Observe, Become, Holders
  <1>2. TypeOK' /\ WaitersExact' /\ NoIdlePermitWhileWaiting'
    BY DEF Observe, Become, WaitersExact, NoIdlePermitWhileWaiting
  <1> QED
    BY <1>1, <1>2 DEF Observe, PermitsConserved

LEMMA StepPreserves == PoolInv /\ [Next]_vars => PoolInv'
  <1> SUFFICES ASSUME PoolInv, [Next]_vars PROVE PoolInv'
    OBVIOUS
  <1>1. ASSUME NEW c \in Clients, Acquire(c) PROVE PoolInv'
    BY <1>1, AcquirePreserves
  <1>2. ASSUME NEW c \in Clients, Release(c) PROVE PoolInv'
    BY <1>2, ReleasePreserves
  <1>3. ASSUME NEW c \in Clients, Observe(c) PROVE PoolInv'
    BY <1>3, ObservePreserves
  <1>4. CASE Destroy
    BY <1>4, DestroyPreserves
  <1>5. CASE UNCHANGED vars
    BY <1>5 DEF vars, PoolInv, TypeOK, PermitsConserved, Holders, WaitersExact, NoIdlePermitWhileWaiting
  <1> QED
    BY <1>1, <1>2, <1>3, <1>4, <1>5 DEF Next

-----------------------------------------------------------------------------
\* The pool never leaks, invents or parks a permit, whatever the interleaving
\* of acquire, release and destroy (worker-permit-pool.ts).
THEOREM PermitPoolSafe == Spec => []PoolInv
  <1> QED
    BY InitEstablishes, StepPreserves, PTL DEF Spec

\* The counter the guard of acquire() reads is the number of holders, hence at
\* most Capacity tasks run at once.
THEOREM PermitsAlwaysConserved == Spec => [](PermitsConserved /\ Cardinality(Holders) <= Capacity)
  <1>1. PoolInv => PermitsConserved /\ Cardinality(Holders) <= Capacity
    BY CapacityAssumption DEF PoolInv, TypeOK, PermitsConserved
  <1> QED
    BY <1>1, PermitPoolSafe, PTL

\* Who asked first is served first: a step that serves a waiter leaves none
\* waiting before it, as only release() serves waiters, and only the first one.
THEOREM NobodyOvertakes == Spec => NoOvertaking
  <1>1. PoolInv /\ [Next]_vars
          => [\A i, j \in DOMAIN waiters :
                i < j /\ state'[waiters[j]] = Holding => state'[waiters[i]] # Waiting]_vars
    <2> SUFFICES ASSUME PoolInv, Next, NEW i \in DOMAIN waiters, NEW j \in DOMAIN waiters,
                        i < j, state'[waiters[j]] = Holding
                 PROVE  state'[waiters[i]] # Waiting
      OBVIOUS
    <2>1. /\ waiters \in Seq(Clients) /\ state \in [Clients -> {Idle, Waiting, Holding, Rejected}]
          /\ DOMAIN waiters = 1..Len(waiters) /\ Len(waiters) \in Nat
      BY LenProperties DEF PoolInv, TypeOK
    <2>2. /\ waiters[i] \in Clients /\ waiters[j] \in Clients
          /\ state[waiters[i]] = Waiting /\ state[waiters[j]] = Waiting
          /\ waiters[i] # waiters[j]
      <3>1. i \in 1..Len(waiters) /\ j \in 1..Len(waiters) /\ i # j
        BY <2>1
      <3> QED BY <2>1, <3>1, ElementOfSeq DEF PoolInv, WaitersExact
    <2>3. ASSUME NEW c \in Clients, Acquire(c) \/ Observe(c) PROVE FALSE
      BY <2>1, <2>2, <2>3 DEF Acquire, Observe, Become, Idle, Waiting, Holding, Rejected
    <2>4. CASE Destroy
      BY <2>1, <2>2, <2>4 DEF Destroy, Waiting, Holding, Rejected
    <2>5. ASSUME NEW c \in Clients, Release(c) PROVE FALSE
      <3>1. waiters # <<>> /\ Head(waiters) = waiters[1]
        BY <2>1, <2>2, HeadTailProperties, EmptySeq
      <3>2. state' = [state EXCEPT ![c] = Idle, ![Head(waiters)] = Holding]
        BY <2>5, <3>1 DEF Release
      <3>3. waiters[j] = Head(waiters)
        BY <2>1, <2>2, <3>2 DEF Idle, Waiting, Holding
      <3>4. 1 \in 1..Len(waiters) /\ 1 # j
        BY <2>1
      <3> QED BY <2>1, <3>1, <3>3, <3>4 DEF PoolInv, WaitersExact
    <2> QED BY <2>3, <2>4, <2>5 DEF Next
  <1> QED BY <1>1, PermitPoolSafe, PTL DEF Spec, NoOvertaking
=============================================================================
