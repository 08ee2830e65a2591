------------------------------- MODULE TaskQueue -------------------------------
(***************************************************************************)
(* What the pipeline asks of its task queue: the queue half of             *)
(* IStateBackend (MemoryCore/src/core/state/types.ts), a consumer-group    *)
(* queue whose delivered messages stay pending, owned by the worker that   *)
(* consumed or claimed them, until that owner settles them.  The order in  *)
(* which queued messages are delivered and the way an idle time is         *)
(* measured are left to the implementation (LocalStateBackend).            *)
(***************************************************************************)
EXTENDS Integers, FiniteSets

CONSTANTS
  Workers,     \* worker ids, the owners of pending messages
  Tasks,       \* task payloads, up to their retryCount
  MaxRetries,  \* bound on retryCount (PipelineWorkerConfig.maxRetries)
  MaxMsgs,     \* bound: message ids a behaviour may use
  NoOne,       \* the owner of a message that is not pending
  NoTask       \* the body of an id not yet used

ASSUME QueueAssumption ==
  /\ MaxRetries \in Nat
  /\ MaxMsgs \in Nat
  /\ NoOne \notin Workers
  /\ NoTask \notin Tasks

Msgs == 1..MaxMsgs

VARIABLES
  nextMsg,     \* id of the next message
  body,        \* [task, retry] of every message sent
  place,       \* where each message is
  owner,       \* owner of each pending message
  fresh        \* pending messages refreshed less than minIdleMs ago

queueVars == <<nextMsg, body, place, owner, fresh>>

Queued  == {m \in Msgs : place[m] = "queued"}
Pending == {m \in Msgs : place[m] = "pending"}
Live    == Queued \cup Pending
Sent    == 1..(nextMsg - 1)

\* Mutated claimStaleTasks: the idle time is not compared with minIdleMs.
StaleOrNot == Pending

\* The messages claimStaleTasks may hand to another worker.
Stale == Pending \ fresh

Owned(m, w) == place[m] = "pending" /\ owner[m] = w

QueueInit ==
  /\ nextMsg = 1
  /\ body = [m \in Msgs |-> [task |-> NoTask, retry |-> 0]]
  /\ place = [m \in Msgs |-> "unsent"]
  /\ owner = [m \in Msgs |-> NoOne]
  /\ fresh = {}

\* enqueueTask: a new message id, whatever the payload.  The message is queued,
\* or delivered at once to a worker o that waits for one.
Enqueue(t, r, o) ==
  /\ nextMsg <= MaxMsgs
  /\ nextMsg' = nextMsg + 1
  /\ body' = [body EXCEPT ![nextMsg] = [task |-> t, retry |-> r]]
  /\ place' = [place EXCEPT ![nextMsg] = IF o = NoOne THEN "queued" ELSE "pending"]
  /\ owner' = [owner EXCEPT ![nextMsg] = o]
  /\ fresh' = IF o = NoOne THEN fresh ELSE fresh \cup {nextMsg}

\* consumeTask: one queued message becomes pending, owned by the consumer.
Consume(m, w) ==
  /\ m \in Queued
  /\ place' = [place EXCEPT ![m] = "pending"]
  /\ owner' = [owner EXCEPT ![m] = w]
  /\ fresh' = fresh \cup {m}
  /\ UNCHANGED <<nextMsg, body>>

\* Mutated refreshTaskClaim: the claim of an acknowledged message is recreated.
RefreshForcing(m, w) ==
  /\ place[m] \in {"pending", "settled"}
  /\ place' = [place EXCEPT ![m] = "pending"]
  /\ owner' = [owner EXCEPT ![m] = w]
  /\ fresh' = fresh \cup {m}
  /\ UNCHANGED <<nextMsg, body>>

\* refreshTaskClaim by the owner; by anyone else it changes nothing.
Refresh(m, w) ==
  /\ Owned(m, w)
  /\ fresh' = fresh \cup {m}
  /\ UNCHANGED <<nextMsg, body, place, owner>>

\* refreshTaskClaim with idleMs = pendingStaleMs: the owner gives the claim up.
Age(m, w) ==
  /\ fresh' = IF Owned(m, w) THEN fresh \ {m} ELSE fresh
  /\ UNCHANGED <<nextMsg, body, place, owner>>

\* Time passes: claims that are not refreshed become claimable.
Expire(S) ==
  /\ S \subseteq fresh
  /\ fresh' = fresh \ S
  /\ UNCHANGED <<nextMsg, body, place, owner>>

\* claimStaleTasks: the idle messages change owner, whoever owned them.
Claim(S, w) ==
  /\ S \subseteq Stale
  /\ owner' = [m \in Msgs |-> IF m \in S THEN w ELSE owner[m]]
  /\ fresh' = fresh \cup S
  /\ UNCHANGED <<nextMsg, body, place>>

\* Mutated ackTaskIfOwned: the delivery state outlives the message.
SettleKeepingClaim(m, w) ==
  /\ Owned(m, w)
  /\ place' = [place EXCEPT ![m] = "settled"]
  /\ UNCHANGED <<nextMsg, body, owner, fresh>>

\* ackTaskIfOwned: the owner settles the message.
Settle(m, w) ==
  /\ Owned(m, w)
  /\ place' = [place EXCEPT ![m] = "settled"]
  /\ owner' = [owner EXCEPT ![m] = NoOne]
  /\ fresh' = fresh \ {m}
  /\ UNCHANGED <<nextMsg, body>>

\* replacePendingTask: settle and enqueue the retry in one step; the retry too
\* may be delivered at once.
Replace(m, w, r, o) ==
  /\ Owned(m, w)
  /\ nextMsg <= MaxMsgs
  /\ nextMsg' = nextMsg + 1
  /\ body' = [body EXCEPT ![nextMsg] = [task |-> body[m].task, retry |-> r]]
  /\ place' = [place EXCEPT ![m] = "settled", ![nextMsg] = IF o = NoOne THEN "queued" ELSE "pending"]
  /\ owner' = [owner EXCEPT ![m] = NoOne, ![nextMsg] = o]
  /\ fresh' = IF o = NoOne THEN fresh \ {m} ELSE (fresh \ {m}) \cup {nextMsg}

\* purgeInstance: the queued and pending messages of an instance are dropped.
Purge(S) ==
  /\ S \subseteq Live
  /\ place' = [m \in Msgs |-> IF m \in S THEN "settled" ELSE place[m]]
  /\ owner' = [m \in Msgs |-> IF m \in S THEN NoOne ELSE owner[m]]
  /\ fresh' = fresh \ S
  /\ UNCHANGED <<nextMsg, body>>

QueueNext ==
  \/ \E t \in Tasks, r \in 0..MaxRetries, o \in Workers \cup {NoOne} : Enqueue(t, r, o)
  \/ \E S \in SUBSET Msgs : Expire(S) \/ Purge(S)
  \/ \E m \in Msgs, w \in Workers : Consume(m, w) \/ Refresh(m, w) \/ Age(m, w) \/ Settle(m, w)
  \/ \E m \in Msgs, w \in Workers, r \in 0..MaxRetries, o \in Workers \cup {NoOne} : Replace(m, w, r, o)
  \/ \E S \in SUBSET Msgs, w \in Workers : Claim(S, w)

QueueSpec == QueueInit /\ [][QueueNext]_queueVars

-----------------------------------------------------------------------------
QueueTypeOK ==
  /\ nextMsg \in 1..(MaxMsgs + 1)
  /\ body \in [Msgs -> [task : Tasks \cup {NoTask}, retry : 0..MaxRetries]]
  /\ place \in [Msgs -> {"unsent", "queued", "pending", "settled"}]
  /\ owner \in [Msgs -> Workers \cup {NoOne}]
  /\ fresh \subseteq Msgs

\* A message is owned exactly while it is pending, and only then is its claim
\* fresh: no owner survives the settlement of its message.
ClaimsMatchPending ==
  /\ \A m \in Msgs : owner[m] # NoOne <=> m \in Pending
  /\ fresh \subseteq Pending

\* A settled message is never delivered, claimed or replaced again.
SettledStaysSettled ==
  [][\A m \in Msgs : place[m] = "settled" => place'[m] = "settled"]_queueVars

\* A pending message changes owner only when its claim is stale: a worker that
\* keeps refreshing its claim keeps it.
FreshClaimKeepsOwner ==
  [][\A m \in Pending \cap fresh, w \in Workers :
       owner[m] = w => owner'[m] \in {w, NoOne}]_queueVars
=============================================================================
