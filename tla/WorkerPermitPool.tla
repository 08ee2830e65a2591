--------------------------- MODULE WorkerPermitPool ---------------------------
(***************************************************************************)
(* The in-process semaphore of the pipeline worker                         *)
(* (MemoryCore/src/services/worker-permit-pool.ts).  A client is one       *)
(* coroutine that calls acquire(), works, and calls release() once.  The   *)
(* promise acquire() returns is resolved by a later release(), in FIFO     *)
(* order, or rejected by destroy().                                        *)
(***************************************************************************)
EXTENDS Integers, Sequences, FiniteSets

CONSTANTS
  Clients,     \* coroutines that use the pool
  Capacity     \* constructor argument, a positive integer or the constructor throws

ASSUME CapacityAssumption == Capacity \in Nat \ {0}
ASSUME ClientsAssumption == IsFiniteSet(Clients)

VARIABLES
  inFlight,    \* the private counter _inFlight
  waiters,     \* the FIFO array of unresolved acquire() promises
  destroyed,
  state        \* what each client is doing

vars == <<inFlight, waiters, destroyed, state>>

Idle     == "idle"      \* holds nothing
Waiting  == "waiting"   \* its acquire() promise is in waiters
Holding  == "holding"   \* its acquire() promise is resolved
Rejected == "rejected"  \* its acquire() promise was rejected

Init ==
  /\ inFlight = 0
  /\ waiters = <<>>
  /\ destroyed = FALSE
  /\ state = [c \in Clients |-> Idle]

Become(c, s) == state' = [state EXCEPT ![c] = s]

\* acquire(): rejected at once after destroy(), a free permit is taken at once,
\* otherwise the caller joins the end of the queue.
Acquire(c) ==
  /\ state[c] = Idle
  /\ \/ /\ destroyed
        /\ Become(c, Rejected)
        /\ UNCHANGED <<inFlight, waiters>>
     \/ /\ ~destroyed
        /\ inFlight < Capacity
        /\ inFlight' = inFlight + 1
        /\ Become(c, Holding)
        /\ UNCHANGED waiters
     \/ /\ ~destroyed
        /\ inFlight >= Capacity
        /\ waiters' = Append(waiters, c)
        /\ Become(c, Waiting)
        /\ UNCHANGED inFlight
  /\ UNCHANGED destroyed

\* Mutated release: the permit is handed to the first waiter and also returned.
ReleaseAndHandOver(c) ==
  /\ state[c] = Holding
  /\ inFlight' = inFlight - 1
  /\ IF waiters = <<>>
     THEN Become(c, Idle) /\ UNCHANGED waiters
     ELSE /\ waiters' = Tail(waiters)
          /\ state' = [state EXCEPT ![c] = Idle, ![Head(waiters)] = Holding]
  /\ UNCHANGED destroyed

\* Mutated release: the newest waiter is woken instead of the oldest.
ReleaseLifo(c) ==
  /\ state[c] = Holding
  /\ IF waiters = <<>>
     THEN inFlight' = inFlight - 1 /\ Become(c, Idle) /\ UNCHANGED waiters
     ELSE /\ waiters' = SubSeq(waiters, 1, Len(waiters) - 1)
          /\ state' = [state EXCEPT ![c] = Idle, ![waiters[Len(waiters)]] = Holding]
          /\ UNCHANGED inFlight
  /\ UNCHANGED destroyed

\* release(): the permit moves to the first waiter, the count unchanged, or it
\* goes back to the pool.  (The call throws on an unbalanced release; a client
\* releases only what it holds.)
Release(c) ==
  /\ state[c] = Holding
  /\ IF waiters = <<>>
     THEN /\ inFlight' = inFlight - 1
          /\ Become(c, Idle)
          /\ UNCHANGED waiters
     ELSE /\ waiters' = Tail(waiters)
          /\ state' = [state EXCEPT ![c] = Idle, ![Head(waiters)] = Holding]
          /\ UNCHANGED inFlight
  /\ UNCHANGED destroyed

\* Mutated destroy: the flag is set and the waiters are forgotten, not rejected.
DestroyForgetting ==
  /\ ~destroyed
  /\ destroyed' = TRUE
  /\ waiters' = <<>>
  /\ UNCHANGED <<inFlight, state>>

\* destroy(): every waiter's promise is rejected; permits in use stay counted.
Destroy ==
  /\ ~destroyed
  /\ destroyed' = TRUE
  /\ waiters' = <<>>
  /\ state' = [c \in Clients |-> IF state[c] = Waiting THEN Rejected ELSE state[c]]
  /\ UNCHANGED inFlight

\* The caller sees the rejection (consumeLoop logs it) and may call again.
Observe(c) ==
  /\ state[c] = Rejected
  /\ Become(c, Idle)
  /\ UNCHANGED <<inFlight, waiters, destroyed>>

Next ==
  \/ \E c \in Clients : Acquire(c) \/ Release(c) \/ Observe(c)
  \/ Destroy

\* Every client that holds a permit gives it back: releasePermitOnce runs in
\* the finally block of the task.  (The one path of processTask that does not
\* reach it is the subject of PermitsReturned in PipelineWorker.)
Spec == Init /\ [][Next]_vars /\ \A c \in Clients : WF_vars(Release(c))

-----------------------------------------------------------------------------
TypeOK ==
  /\ inFlight \in 0..Capacity
  /\ waiters \in Seq(Clients)
  /\ destroyed \in BOOLEAN
  /\ state \in [Clients -> {Idle, Waiting, Holding, Rejected}]

Holders == {c \in Clients : state[c] = Holding}

\* No permit is leaked or invented, across hand-over and destroy: the counter
\* the guards read is exactly the number of clients that hold a permit.
PermitsConserved == inFlight = Cardinality(Holders)

\* The queue holds exactly the clients that wait, each once: nobody waits on a
\* promise the pool no longer knows.
WaitersExact ==
  /\ \A i, j \in DOMAIN waiters : waiters[i] = waiters[j] => i = j
  /\ {waiters[i] : i \in DOMAIN waiters} = {c \in Clients : state[c] = Waiting}

\* Work conservation: a client waits only while every permit is in use.
NoIdlePermitWhileWaiting == waiters # <<>> => inFlight = Capacity

\* FIFO: a client that waits never gets its permit while one that queued
\* before it still waits.
NoOvertaking ==
  [][\A i, j \in DOMAIN waiters :
       i < j /\ state'[waiters[j]] = Holding => state'[waiters[i]] # Waiting]_vars

\* Nobody waits for ever: release hands over, destroy rejects.
WaitingIsAnswered == \A c \in Clients : state[c] = Waiting ~> state[c] # Waiting
=============================================================================
