-------------------------- MODULE PipelineWorkerProofs --------------------------
(***************************************************************************)
(* Facts about the task queue and the workers that share it, for any       *)
(* number of workers, coroutines, tasks, scopes, messages, retries,        *)
(* crashes and stops, in five parts:                                       *)
(*   - what every user of the queue may rely on;                           *)
(*   - the base invariant of the workers (every coroutine that works on a  *)
(*     message works on one that was sent), and that nothing is lost;      *)
(*   - the counters: reservations, parked entries and permits are what     *)
(*     they count, and back-pressure keeps the parked tasks below the      *)
(*     limit.  An action moves one coroutine and adjusts the counters, and *)
(*     the proof follows the set each counter counts;                      *)
(*   - locks and claims: what stop() leaves, who may believe to hold a     *)
(*     lock, and that two workers never execute one message;               *)
(*   - the messages that wait in a worker when it stops.                   *)
(***************************************************************************)
EXTENDS PipelineWorker, SequenceTheorems, FiniteSetTheorems, WellFoundedInduction, TLAPS

-----------------------------------------------------------------------------
(* The queue.                                                              *)

\* Exactly the ids below nextMsg have been sent.
SentExactly == \A m \in Msgs : place[m] = "unsent" <=> m >= nextMsg

\* The inductive invariant.
QueueInv == QueueTypeOK /\ ClaimsMatchPending /\ SentExactly

USE QueueAssumption DEF Msgs

\* The empty queue satisfies it.
LEMMA QueueInitInv == QueueInit => QueueInv
  BY DEF QueueInit, QueueInv, QueueTypeOK, ClaimsMatchPending, SentExactly, Pending

\* Each call preserves it.
LEMMA EnqueueInv ==
  ASSUME QueueInv, NEW t \in Tasks, NEW r \in 0..MaxRetries, NEW o \in Workers \cup {NoOne},
         Enqueue(t, r, o)
  PROVE  QueueInv'
  <1>1. nextMsg \in Msgs /\ place[nextMsg] = "unsent"
    BY DEF Enqueue, QueueInv, QueueTypeOK, SentExactly
  <1>2. QueueTypeOK'
    BY <1>1 DEF Enqueue, QueueInv, QueueTypeOK
  <1>3. ClaimsMatchPending'
    BY <1>1 DEF Enqueue, QueueInv, QueueTypeOK, ClaimsMatchPending, Pending
  <1>4. SentExactly'
    BY <1>1 DEF Enqueue, QueueInv, QueueTypeOK, SentExactly
  <1> QED BY <1>2, <1>3, <1>4 DEF QueueInv

LEMMA ConsumeInv ==
  ASSUME QueueInv, NEW m \in Msgs, NEW w \in Workers, Consume(m, w)
  PROVE  QueueInv'
  BY DEF Consume, Queued, QueueInv, QueueTypeOK, ClaimsMatchPending, Pending, SentExactly

LEMMA RefreshInv ==
  ASSUME QueueInv, NEW m \in Msgs, NEW w \in Workers, Refresh(m, w)
  PROVE  QueueInv'
  BY DEF Refresh, Owned, QueueInv, QueueTypeOK, ClaimsMatchPending, Pending, SentExactly

LEMMA AgeInv ==
  ASSUME QueueInv, NEW m \in Msgs, NEW w \in Workers, Age(m, w)
  PROVE  QueueInv'
  BY DEF Age, Owned, QueueInv, QueueTypeOK, ClaimsMatchPending, Pending, SentExactly

LEMMA ExpireInv ==
  ASSUME QueueInv, NEW S \in SUBSET Msgs, Expire(S)
  PROVE  QueueInv'
  BY DEF Expire, QueueInv, QueueTypeOK, ClaimsMatchPending, Pending, SentExactly

LEMMA ClaimInv ==
  ASSUME QueueInv, NEW S \in SUBSET Msgs, NEW w \in Workers, Claim(S, w)
  PROVE  QueueInv'
  BY DEF Claim, Stale, QueueInv, QueueTypeOK, ClaimsMatchPending, Pending, SentExactly

LEMMA SettleInv ==
  ASSUME QueueInv, NEW m \in Msgs, NEW w \in Workers, Settle(m, w)
  PROVE  QueueInv'
  BY DEF Settle, Owned, QueueInv, QueueTypeOK, ClaimsMatchPending, Pending, SentExactly

LEMMA ReplaceInv ==
  ASSUME QueueInv, NEW m \in Msgs, NEW w \in Workers, NEW r \in 0..MaxRetries,
         NEW o \in Workers \cup {NoOne}, Replace(m, w, r, o)
  PROVE  QueueInv'
  <1>1. nextMsg \in Msgs /\ place[nextMsg] = "unsent" /\ place[m] = "pending" /\ m # nextMsg
    BY DEF Replace, Owned, QueueInv, QueueTypeOK, SentExactly
  <1>2. QueueTypeOK'
    <2>1. body[m].task \in Tasks \cup {NoTask}
      BY DEF QueueInv, QueueTypeOK
    <2>2. body' \in [Msgs -> [task : Tasks \cup {NoTask}, retry : 0..MaxRetries]]
      BY <1>1, <2>1 DEF Replace, QueueInv, QueueTypeOK
    <2>3. /\ nextMsg' \in 1..(MaxMsgs + 1)
          /\ place' \in [Msgs -> {"unsent", "queued", "pending", "settled"}]
          /\ owner' \in [Msgs -> Workers \cup {NoOne}]
          /\ fresh' \subseteq Msgs
      BY <1>1 DEF Replace, QueueInv, QueueTypeOK
    <2> QED BY <2>2, <2>3 DEF QueueTypeOK
  <1>3. ClaimsMatchPending'
    BY <1>1 DEF Replace, QueueInv, QueueTypeOK, ClaimsMatchPending, Pending
  <1>4. SentExactly'
    <2>1. /\ place' = [place EXCEPT ![m] = "settled", ![nextMsg] = IF o = NoOne THEN "queued" ELSE "pending"]
          /\ nextMsg' = nextMsg + 1 /\ nextMsg \in Nat
          /\ place \in [Msgs -> {"unsent", "queued", "pending", "settled"}]
      BY DEF Replace, QueueInv, QueueTypeOK
    <2>2. \A n \in Msgs : place[n] = "unsent" <=> n >= nextMsg
      BY DEF QueueInv, SentExactly
    <2>3. m < nextMsg
      BY <1>1, <2>1, <2>2
    <2>4. ASSUME NEW n \in Msgs PROVE place'[n] = "unsent" <=> n >= nextMsg'
      BY <1>1, <2>1, <2>2, <2>3
    <2> QED BY <2>4 DEF SentExactly
  <1> QED BY <1>2, <1>3, <1>4 DEF QueueInv

LEMMA PurgeInv ==
  ASSUME QueueInv, NEW S \in SUBSET Msgs, Purge(S)
  PROVE  QueueInv'
  BY DEF Purge, Live, Queued, QueueInv, QueueTypeOK, ClaimsMatchPending, Pending, SentExactly

\* So does every step, and every stuttering one.
LEMMA QueueStepInv == QueueInv /\ [QueueNext]_queueVars => QueueInv'
  <1> SUFFICES ASSUME QueueInv, [QueueNext]_queueVars PROVE QueueInv'
    OBVIOUS
  <1>1. CASE \E t \in Tasks, r \in 0..MaxRetries, o \in Workers \cup {NoOne} : Enqueue(t, r, o)
    BY <1>1, EnqueueInv
  <1>2. CASE \E S \in SUBSET Msgs : Expire(S) \/ Purge(S)
    BY <1>2, ExpireInv, PurgeInv
  <1>3. CASE \E m \in Msgs, w \in Workers :
               Consume(m, w) \/ Refresh(m, w) \/ Age(m, w) \/ Settle(m, w)
    BY <1>3, ConsumeInv, RefreshInv, AgeInv, SettleInv
  <1>4. CASE \E m \in Msgs, w \in Workers, r \in 0..MaxRetries, o \in Workers \cup {NoOne} :
               Replace(m, w, r, o)
    BY <1>4, ReplaceInv
  <1>5. CASE \E S \in SUBSET Msgs, w \in Workers : Claim(S, w)
    BY <1>5, ClaimInv
  <1>6. CASE UNCHANGED queueVars
    BY <1>6 DEF queueVars, QueueInv, QueueTypeOK, ClaimsMatchPending, Pending, SentExactly
  <1> QED BY <1>1, <1>2, <1>3, <1>4, <1>5, <1>6 DEF QueueNext

\* The queue keeps its delivery state and its messages in step: type
\* correctness, one owner per pending message and none for any other.
THEOREM QueueSafe == QueueSpec => []QueueInv
  BY QueueInitInv, QueueStepInv, PTL DEF QueueSpec

\* A message is owned exactly while it is pending (the pendingTasks map).
THEOREM ClaimsAlwaysMatchPending == QueueSpec => []ClaimsMatchPending
  <1>1. QueueInv => ClaimsMatchPending
    BY DEF QueueInv
  <1> QED BY QueueSafe, <1>1, PTL

\* An acknowledged or replaced message is never delivered again.
THEOREM SettledForEver == QueueSpec => SettledStaysSettled
  <1>1. QueueInv /\ [QueueNext]_queueVars
          => [\A m \in Msgs : place[m] = "settled" => place'[m] = "settled"]_queueVars
    <2> SUFFICES ASSUME QueueInv, QueueNext, NEW m \in Msgs, place[m] = "settled"
                 PROVE  place'[m] = "settled"
      OBVIOUS
    <2>1. place \in [Msgs -> {"unsent", "queued", "pending", "settled"}]
          /\ \A n \in Msgs : place[n] = "unsent" <=> n >= nextMsg
      BY DEF QueueInv, QueueTypeOK, SentExactly
    <2>2. ASSUME NEW t \in Tasks, NEW r \in 0..MaxRetries, NEW o \in Workers \cup {NoOne},
                 Enqueue(t, r, o)
          PROVE  place'[m] = "settled"
      BY <2>1, <2>2 DEF Enqueue, QueueInv, QueueTypeOK
    <2>3. ASSUME NEW n \in Msgs, NEW w \in Workers, NEW r \in 0..MaxRetries,
                 NEW o \in Workers \cup {NoOne}, Replace(n, w, r, o)
          PROVE  place'[m] = "settled"
      BY <2>1, <2>3 DEF Replace, Owned, QueueInv, QueueTypeOK
    <2>4. ASSUME NEW S \in SUBSET Msgs,
                 Expire(S) \/ Purge(S) \/ \E w \in Workers : Claim(S, w)
          PROVE  place'[m] = "settled"
      BY <2>1, <2>4 DEF Expire, Purge, Claim
    <2>5. ASSUME NEW n \in Msgs, NEW w \in Workers,
                 Consume(n, w) \/ Refresh(n, w) \/ Age(n, w) \/ Settle(n, w)
          PROVE  place'[m] = "settled"
      BY <2>1, <2>5 DEF Consume, Queued, Refresh, Age, Settle
    <2> QED BY <2>2, <2>3, <2>4, <2>5 DEF QueueNext
  <1> QED BY QueueSafe, <1>1, PTL DEF QueueSpec, SettledStaysSettled

\* A claim that its owner keeps fresh is not taken over by another worker.
THEOREM FreshClaimsKept == QueueSpec => FreshClaimKeepsOwner
  <1>1. QueueInv /\ [QueueNext]_queueVars
          => [\A m \in Pending \cap fresh, w \in Workers :
                owner[m] = w => owner'[m] \in {w, NoOne}]_queueVars
    <2> SUFFICES ASSUME QueueInv, QueueNext, NEW m \in Pending \cap fresh, NEW w \in Workers,
                        owner[m] = w
                 PROVE  owner'[m] \in {w, NoOne}
      OBVIOUS
    <2>1. /\ owner \in [Msgs -> Workers \cup {NoOne}] /\ m \in Msgs /\ place[m] = "pending"
          /\ \A n \in Msgs : place[n] = "unsent" <=> n >= nextMsg
          /\ nextMsg \in Int
      BY DEF QueueInv, QueueTypeOK, SentExactly, Pending
    <2>2. ASSUME NEW t \in Tasks, NEW r \in 0..MaxRetries, NEW o \in Workers \cup {NoOne},
                 Enqueue(t, r, o)
          PROVE  owner'[m] \in {w, NoOne}
      BY <2>1, <2>2 DEF Enqueue
    <2>3. ASSUME NEW n \in Msgs, NEW v \in Workers, NEW r \in 0..MaxRetries,
                 NEW o \in Workers \cup {NoOne}, Replace(n, v, r, o)
          PROVE  owner'[m] \in {w, NoOne}
      BY <2>1, <2>3 DEF Replace
    <2>4. ASSUME NEW S \in SUBSET Msgs,
                 Expire(S) \/ Purge(S) \/ \E v \in Workers : Claim(S, v)
          PROVE  owner'[m] \in {w, NoOne}
      BY <2>1, <2>4 DEF Expire, Purge, Claim, Stale
    <2>5. ASSUME NEW n \in Msgs, NEW v \in Workers,
                 Consume(n, v) \/ Refresh(n, v) \/ Age(n, v) \/ Settle(n, v)
          PROVE  owner'[m] \in {w, NoOne}
      BY <2>1, <2>5 DEF Consume, Queued, Refresh, Age, Settle
    <2> QED BY <2>2, <2>3, <2>4, <2>5 DEF QueueNext
  <1> QED BY QueueSafe, <1>1, PTL DEF QueueSpec, FreshClaimKeepsOwner

HIDE QueueAssumption DEF Msgs

-----------------------------------------------------------------------------
(* The workers.                                                            *)

\* The states in which a coroutine has a message.
Active == WithPermit \cup {"refused", "permit", "retryPermit"}

\* TypeOK without the queue and without the counters.
LocalType ==
  /\ life \in [Workers -> {"up", "stopping", "stopped", "crashed"}]
  /\ pc \in [Workers -> [Coroutines -> States]]
  /\ cur \in [Workers -> [Coroutines -> Msgs \cup {NoMsg}]]
  /\ lost \in [Workers -> [Coroutines -> BOOLEAN]]
  /\ parked \in [Workers -> [Scopes -> Seq(Msgs)]]
  /\ locks \in [Scopes -> [owner : Workers \cup {NoOne}, live : BOOLEAN,
                           by : Coroutines \cup {NoMsg}, msg : Msgs \cup {NoMsg}]]
  /\ done \subseteq Tasks
  /\ dead \subseteq Tasks

SentTasks == \A m \in Sent : body[m].task \in Tasks
AtWork == \A w \in Workers, k \in Coroutines : pc[w][k] \in Active => cur[w][k] \in Sent
RetriesLeft ==
  \A w \in Workers, k \in Coroutines : pc[w][k] = "sleep" => body[cur[w][k]].retry < MaxRetries
ParkedSent == \A w \in Workers, s \in Scopes : \A i \in DOMAIN parked[w][s] : parked[w][s][i] \in Sent

\* The base invariant.
BaseInv == QueueInv /\ LocalType /\ SentTasks /\ AtWork /\ RetriesLeft /\ ParkedSent

-----------------------------------------------------------------------------
(* Sequences: what RemoveFirst does to a parked queue.                     *)

\* A non-empty set of positions has a least one.
LEMMA LeastPosition ==
  ASSUME NEW I \in SUBSET Nat, I # {}
  PROVE  Min(I) \in I
  <1> DEFINE R == {p \in Nat \X Nat : p[1] < p[2]}
  <1>1. IsWellFoundedOn(R, Nat)
    BY NatLessThanWellFounded DEF OpToRel
  <1>2. PICK x \in I : \A y \in I : ~ (<<y, x>> \in R)
    BY <1>1, WFMin
  <1>3. ASSUME NEW y \in I PROVE x =< y
    <2>1. x \in Nat /\ y \in Nat
      OBVIOUS
    <2>2. y < x => <<y, x>> \in R
      BY <2>1
    <2> QED BY <1>2, <2>1, <2>2
  <1> QED BY <1>2, <1>3 DEF Min

\* Removing the first occurrence of an element shortens a sequence by one if the
\* element occurs, and adds nothing.
LEMMA RemoveFirstProperties ==
  ASSUME NEW S, NEW s \in Seq(S), NEW e
  PROVE  /\ RemoveFirst(s, e) \in Seq(S)
         /\ (\A i \in 1..Len(s) : s[i] # e) => RemoveFirst(s, e) = s
         /\ (\E i \in 1..Len(s) : s[i] = e) => Len(RemoveFirst(s, e)) = Len(s) - 1
         /\ \A i \in 1..Len(RemoveFirst(s, e)) : \E j \in 1..Len(s) : RemoveFirst(s, e)[i] = s[j]
  <1>1. CASE \A i \in 1..Len(s) : s[i] # e
    BY <1>1 DEF RemoveFirst
  <1>2. CASE \E i \in 1..Len(s) : s[i] = e
    <2> DEFINE I == {i \in 1..Len(s) : s[i] = e}
               p == Min(I)
               l == SubSeq(s, 1, p - 1)
               r == SubSeq(s, p + 1, Len(s))
    <2>0. Len(s) \in Nat /\ \A i \in 1..Len(s) : s[i] \in S
      BY LenProperties, ElementOfSeq
    <2>1. p \in 1..Len(s)
      <3>1. I \in SUBSET Nat /\ I # {}
        BY <1>2, <2>0
      <3> HIDE DEF I
      <3>2. p \in I
        BY <3>1, LeastPosition
      <3> QED BY <3>2 DEF I
    <2>2. RemoveFirst(s, e) = l \o r
      BY <1>2 DEF RemoveFirst, RemoveAt, SelectInSeq
    <2> HIDE DEF p
    <2>3. l \in Seq(S) /\ Len(l) = p - 1 /\ \A i \in 1..(p - 1) : l[i] = s[i]
      <3>1. \A i \in 1..(p - 1) : s[i] \in S
        BY <2>0, <2>1
      <3> QED BY <3>1, <2>0, <2>1, SubSeqProperties
    <2>4. r \in Seq(S) /\ Len(r) = Len(s) - p /\ \A i \in 1..(Len(s) - p) : r[i] = s[p + i]
      <3>1. \A i \in (p + 1)..Len(s) : s[i] \in S
        BY <2>0, <2>1
      <3> QED BY <3>1, <2>0, <2>1, SubSeqProperties
    <2> HIDE DEF l, r
    <2>5. /\ l \o r \in Seq(S)
          /\ Len(l \o r) = Len(s) - 1
          /\ \A i \in 1..Len(l) : (l \o r)[i] = l[i]
          /\ \A i \in (Len(l) + 1)..(Len(l) + Len(r)) : (l \o r)[i] = r[i - Len(l)]
      BY <2>0, <2>1, <2>3, <2>4, ConcatProperties
    <2>6. ASSUME NEW i \in 1..Len(l \o r) PROVE \E j \in 1..Len(s) : (l \o r)[i] = s[j]
      <3>1. CASE i <= p - 1
        BY <3>1, <2>0, <2>1, <2>3, <2>5
      <3>2. CASE i > p - 1
        <4>1. i \in (Len(l) + 1)..(Len(l) + Len(r)) /\ i - Len(l) \in 1..(Len(s) - p)
          BY <3>2, <2>0, <2>1, <2>3, <2>4, <2>5
        <4>2. (l \o r)[i] = s[i + 1] /\ i + 1 \in 1..Len(s)
          BY <4>1, <2>0, <2>1, <2>3, <2>4, <2>5
        <4> QED BY <4>2
      <3> QED BY <3>1, <3>2, <2>0, <2>1, <2>5
    <2> QED BY <1>2, <2>2, <2>5, <2>6
  <1> QED BY <1>1, <1>2

-----------------------------------------------------------------------------
\* Sent messages are message ids.
LEMMA SentMsgs == ASSUME QueueInv PROVE Sent \subseteq Msgs /\ nextMsg \in 1..(MaxMsgs + 1)
  BY QueueAssumption DEF QueueInv, QueueTypeOK, Sent, Msgs

\* A queued or pending message was sent.
LEMMA LiveSent == ASSUME QueueInv PROVE Live \subseteq Sent /\ Pending \subseteq Sent /\ Stale \subseteq Sent
  BY QueueAssumption DEF QueueInv, QueueTypeOK, SentExactly, Live, Queued, Pending, Stale, Sent, Msgs

\* Owned messages are pending.
LEMMA OwnedSent == ASSUME QueueInv, NEW m \in Msgs, NEW w, Owned(m, w) PROVE m \in Sent /\ m \in Pending
  BY LiveSent DEF Owned, Pending

\* The queue forgets no message and changes no payload, and what it sends has
\* a payload of Tasks.
LEMMA SentGrows ==
  ASSUME QueueInv, SentTasks, [QueueNext]_queueVars
  PROVE  /\ Sent \subseteq Sent'
         /\ \A m \in Sent : body'[m] = body[m]
         /\ SentTasks'
  <1> USE QueueAssumption DEF Msgs, Sent
  <1>0. nextMsg \in 1..(MaxMsgs + 1)
    BY DEF QueueInv, QueueTypeOK
  <1>1. CASE UNCHANGED <<nextMsg, body>>
    BY <1>1 DEF SentTasks
  <1>2. ASSUME NEW t \in Tasks, NEW r \in 0..MaxRetries, NEW o \in Workers \cup {NoOne},
               Enqueue(t, r, o)
        PROVE  /\ Sent \subseteq Sent'
               /\ \A m \in Sent : body'[m] = body[m]
               /\ SentTasks'
    BY <1>0, <1>2 DEF Enqueue, SentTasks, QueueInv, QueueTypeOK
  <1>3. ASSUME NEW m \in Msgs, NEW w \in Workers, NEW r \in 0..MaxRetries,
               NEW o \in Workers \cup {NoOne}, Replace(m, w, r, o)
        PROVE  /\ Sent \subseteq Sent'
               /\ \A n \in Sent : body'[n] = body[n]
               /\ SentTasks'
    <2>1. m \in Sent /\ body[m].task \in Tasks
      BY <1>3, OwnedSent DEF Replace, SentTasks
    <2> QED BY <1>0, <1>3, <2>1 DEF Replace, SentTasks, QueueInv, QueueTypeOK
  <1>4. CASE \E S \in SUBSET Msgs : Expire(S) \/ Purge(S) \/ \E w \in Workers : Claim(S, w)
    BY <1>1, <1>4 DEF Expire, Purge, Claim
  <1>5. CASE \E m \in Msgs, w \in Workers : Consume(m, w) \/ Refresh(m, w) \/ Age(m, w) \/ Settle(m, w)
    BY <1>1, <1>5 DEF Consume, Refresh, Age, Settle
  <1>6. CASE UNCHANGED queueVars
    BY <1>1, <1>6 DEF queueVars
  <1> QED BY <1>2, <1>3, <1>4, <1>5, <1>6 DEF QueueNext

-----------------------------------------------------------------------------
(* Steps of a single coroutine.                                            *)

\* The coroutine k of worker w goes to state z with message m and flag b.
Moves(w, k, z, m, b) ==
  /\ pc' = [pc EXCEPT ![w][k] = z]
  /\ cur' = [cur EXCEPT ![w][k] = m]
  /\ lost' = [lost EXCEPT ![w][k] = b]

\* A step that leaves message and flag alone.
LEMMA GotoMoves ==
  ASSUME LocalType, NEW w \in Workers, NEW k \in Coroutines, NEW z, Goto(w, k, z),
         UNCHANGED <<cur, lost>>
  PROVE  Moves(w, k, z, cur[w][k], lost[w][k])
  BY DEF LocalType, Goto, Moves

\* A step that leaves the flag alone.
LEMMA TakeMoves ==
  ASSUME LocalType, NEW w \in Workers, NEW k \in Coroutines, NEW z, NEW m, Goto(w, k, z),
         cur' = [cur EXCEPT ![w][k] = m], UNCHANGED lost
  PROVE  Moves(w, k, z, m, lost[w][k])
  BY DEF LocalType, Goto, Moves

\* The end of a task.
LEMMA FinishMoves ==
  ASSUME NEW w \in Workers, NEW k \in Coroutines, NEW z, Finish(w, k, z)
  PROVE  Moves(w, k, z, NoMsg, FALSE)
  BY DEF Finish, Goto, Moves

\* Where AfterTask leads.
LEMMA AfterTaskMoves ==
  ASSUME NEW w \in Workers, NEW k \in Coroutines, NEW c, AfterTask(w, k, c)
  PROVE  \E z \in {"polling", "idle", "exited", "spent"} : Moves(w, k, z, NoMsg, FALSE)
  BY FinishMoves DEF AfterTask

\* What the coroutines of the workers have to satisfy.
CoroutineInv ==
  /\ pc \in [Workers -> [Coroutines -> States]]
  /\ cur \in [Workers -> [Coroutines -> Msgs \cup {NoMsg}]]
  /\ lost \in [Workers -> [Coroutines -> BOOLEAN]]
  /\ AtWork
  /\ RetriesLeft

\* The queue only grows, as SentGrows states it.
QueueGrows ==
  /\ Sent \subseteq Sent'
  /\ \A m \in Sent : body'[m] = body[m]

\* A coroutine that moves keeps it, if it moves with a sent message.
LEMMA MovesKeep ==
  ASSUME CoroutineInv, QueueGrows, NEW w \in Workers, NEW k \in Coroutines, NEW z \in States,
         NEW m \in Msgs \cup {NoMsg}, NEW b \in BOOLEAN, Moves(w, k, z, m, b),
         z \in Active => m \in Sent',
         z = "sleep" => body'[m].retry < MaxRetries
  PROVE  CoroutineInv'
  <1> USE DEF CoroutineInv
  <1>1. /\ pc' \in [Workers -> [Coroutines -> States]]
        /\ cur' \in [Workers -> [Coroutines -> Msgs \cup {NoMsg}]]
        /\ lost' \in [Workers -> [Coroutines -> BOOLEAN]]
    BY DEF Moves
  <1>2. ASSUME NEW v \in Workers, NEW j \in Coroutines
        PROVE  /\ pc'[v][j] \in Active => cur'[v][j] \in Sent'
               /\ pc'[v][j] = "sleep" => body'[cur'[v][j]].retry < MaxRetries
    <2>1. CASE v = w /\ j = k
      BY <2>1 DEF Moves
    <2>2. CASE v # w \/ j # k
      <3>1. pc'[v][j] = pc[v][j] /\ cur'[v][j] = cur[v][j]
        BY <2>2 DEF Moves
      <3>2. pc[v][j] = "sleep" => cur[v][j] \in Sent
        BY DEF AtWork, Active, WithPermit, Executing
      <3> QED BY <3>1, <3>2 DEF AtWork, RetriesLeft, QueueGrows
    <2> QED BY <2>1, <2>2
  <1> QED BY <1>1, <1>2 DEF AtWork, RetriesLeft

\* No coroutine moves.
LEMMA StaysKeep ==
  ASSUME CoroutineInv, QueueGrows, UNCHANGED <<pc, cur>>, lost' \in [Workers -> [Coroutines -> BOOLEAN]]
  PROVE  CoroutineInv'
  <1>1. \A v \in Workers, j \in Coroutines : pc[v][j] = "sleep" => cur[v][j] \in Sent
    BY DEF CoroutineInv, AtWork, Active, WithPermit, Executing
  <1> QED BY <1>1 DEF CoroutineInv, AtWork, RetriesLeft, QueueGrows

-----------------------------------------------------------------------------
(* Whatever a worker does, the queue sees calls of its contract only.      *)

\* A coroutine at work has a message id.
LEMMA CurIsMsg ==
  ASSUME BaseInv, NEW w \in Workers, NEW k \in Coroutines, pc[w][k] \in Active
  PROVE  /\ cur[w][k] \in Msgs /\ cur[w][k] \in Sent
         /\ TaskOf(cur[w][k]) \in Tasks
         /\ body[cur[w][k]].retry \in 0..MaxRetries
  <1>1. cur[w][k] \in Msgs /\ cur[w][k] \in Sent
    BY SentMsgs DEF BaseInv, AtWork
  <1> QED BY <1>1 DEF BaseInv, SentTasks, TaskOf, QueueInv, QueueTypeOK

\* Parked entries are message ids.
LEMMA ParkedIsMsg ==
  ASSUME BaseInv, NEW w \in Workers, NEW s \in Scopes
  PROVE  /\ ParkedIn(w, s) \subseteq Sent /\ ParkedIn(w, s) \subseteq Msgs
         /\ parked[w][s] # <<>> => Head(parked[w][s]) \in ParkedIn(w, s)
  <1>1. parked[w][s] \in Seq(Msgs)
    BY DEF BaseInv, LocalType
  <1>2. parked[w][s] # <<>> => Head(parked[w][s]) = parked[w][s][1] /\ 1 \in DOMAIN parked[w][s]
    BY <1>1
  <1> QED BY <1>2, SentMsgs DEF BaseInv, ParkedSent, ParkedIn, Range

\* The calls that workers and producers make: no purge, nothing is delivered
\* by an enqueue, and a message is settled when its task has an outcome.
WorkerCall ==
  \/ \E m \in Msgs, w \in Workers : Consume(m, w) \/ Refresh(m, w) \/ Age(m, w)
  \/ \E m \in Msgs, w \in Workers : Settle(m, w) /\ TaskOf(m) \in done' \cup dead'
  \/ \E m \in Msgs, w \in Workers, r \in 0..MaxRetries : Replace(m, w, r, NoOne)
  \/ \E S \in SUBSET Msgs : Expire(S) \/ \E w \in Workers : Claim(S, w)
  \/ \E t \in Tasks : Enqueue(t, 0, NoOne)

LEMMA CallSteps ==
  ASSUME NEW m \in Msgs, NEW w \in Workers, Consume(m, w) \/ Refresh(m, w) \/ Age(m, w)
  PROVE  WorkerCall
  BY DEF WorkerCall

LEMMA GiveUpCalls ==
  ASSUME NEW m \in Msgs, NEW w \in Workers, GiveUp(m, w)
  PROVE  [WorkerCall]_queueVars
  BY CallSteps DEF GiveUp

LEMMA WorkerCalls ==
  ASSUME BaseInv, [Next]_vars
  PROVE  [WorkerCall]_queueVars
  <1> USE DEF Active, WithPermit, Executing
  <1>1. ASSUME NEW w \in Workers, NEW l \in Loops, ConsumeTask(w, l)
        PROVE  WorkerCall
    BY <1>1, CallSteps DEF ConsumeTask, Queued
  <1>2. ASSUME NEW w \in Workers, NEW l \in Loops, GiveBack(w, l)
        PROVE  [WorkerCall]_queueVars
    BY <1>2, CurIsMsg, GiveUpCalls DEF GiveBack, Coroutines
  <1>3. ASSUME NEW w \in Workers, NEW k \in Coroutines, TakePermit(w, k)
        PROVE  [WorkerCall]_queueVars
    <2>1. pc[w][k] \in Active
      BY <1>3 DEF TakePermit
    <2>2. cur[w][k] \in Msgs
      BY <2>1, CurIsMsg
    <2>3. Refresh(cur[w][k], w) \/ GiveUp(cur[w][k], w) \/ UNCHANGED queueVars
      BY <1>3 DEF TakePermit
    <2> QED BY <2>2, <2>3, CallSteps, GiveUpCalls
  <1>4. ASSUME NEW w \in Workers, NEW k \in Coroutines, AbandonClaim(w, k)
        PROVE  [WorkerCall]_queueVars
    BY <1>4, CurIsMsg, GiveUpCalls DEF AbandonClaim
  <1>5. ASSUME NEW w \in Workers, NEW k \in Coroutines, Renew(w, k) \/ Execute(w, k)
        PROVE  [WorkerCall]_queueVars
    <2>1. pc[w][k] \in Active
      BY <1>5 DEF Renew, Renewing, Execute
    <2>2. cur[w][k] \in Msgs
      BY <2>1, CurIsMsg
    <2>3. Refresh(cur[w][k], w) \/ UNCHANGED queueVars
      BY <1>5 DEF Renew, Execute
    <2> QED BY <2>2, <2>3, CallSteps
  <1>6. ASSUME NEW w \in Workers, NEW k \in Coroutines, Cascade(w, k)
        PROVE  [WorkerCall]_queueVars
    <2>1. TaskOf(cur[w][k]) \in Tasks
      BY <1>6, CurIsMsg DEF Cascade
    <2>2. Follow[TaskOf(cur[w][k])] \in Tasks \cup {NoTask}
      BY <2>1, WorkerAssumption
    <2>3. \A f \in Tasks : Enqueue(f, 0, NoOne) => WorkerCall
      BY QueueAssumption DEF WorkerCall
    <2> QED BY <1>6, <2>2, <2>3 DEF Cascade
  <1>7. ASSUME NEW w \in Workers, NEW k \in Coroutines, Ack(w, k) \/ BuryAck(w, k)
        PROVE  [WorkerCall]_queueVars
    <2>1. cur[w][k] \in Msgs
      BY <1>7, CurIsMsg DEF Ack, BuryAck
    <2>2. \/ UNCHANGED queueVars
          \/ Settle(cur[w][k], w) /\ TaskOf(cur[w][k]) \in done' \cup dead'
      BY <1>7 DEF Ack, BuryAck
    <2> QED BY <2>1, <2>2 DEF WorkerCall
  <1>8. ASSUME NEW w \in Workers, NEW k \in Coroutines, Retry(w, k)
        PROVE  [WorkerCall]_queueVars
    <2>1. cur[w][k] \in Msgs /\ body[cur[w][k]].retry \in 0..MaxRetries
      BY <1>8, CurIsMsg DEF Retry
    <2>2. body[cur[w][k]].retry < MaxRetries
      BY <1>8 DEF Retry, BaseInv, RetriesLeft
    <2>3. body[cur[w][k]].retry + 1 \in 0..MaxRetries
      BY <2>1, <2>2, QueueAssumption
    <2>4. Replace(cur[w][k], w, body[cur[w][k]].retry + 1, NoOne) => WorkerCall
      BY <2>1, <2>3 DEF WorkerCall
    <2> QED BY <1>8, <2>4 DEF Retry
  <1>9. ASSUME NEW w \in Workers, NEW s \in Scopes, StartRetry(w, s)
        PROVE  [WorkerCall]_queueVars
    BY <1>9, ParkedIsMsg, CallSteps DEF StartRetry
  <1>10. ASSUME NEW w \in Workers, NEW s \in Scopes, RetryPermit(w, s)
         PROVE  [WorkerCall]_queueVars
    BY <1>10, CurIsMsg, CallSteps DEF RetryPermit, Coroutines
  <1>11. ASSUME NEW w \in Workers, NEW s \in Scopes, NEW m \in Msgs, ParkedHeartbeat(w, s, m)
         PROVE  [WorkerCall]_queueVars
    BY <1>11, CallSteps DEF ParkedHeartbeat
  <1>12. ASSUME NEW w \in Workers, Recover(w)
         PROVE  WorkerCall
    <2>1. PICK S \in SUBSET Stale : Claim(S, w)
      BY <1>12 DEF Recover
    <2> QED BY <2>1 DEF WorkerCall, Stale, Pending
  <1>13. ASSUME NEW w \in Workers, StopFinish(w)
         PROVE  WorkerCall
    <2>1. PICK S : fresh' = fresh \ S /\ UNCHANGED <<nextMsg, body, place, owner>>
      BY <1>13 DEF StopFinish
    <2>2. Expire(fresh \cap S)
      BY <2>1 DEF Expire
    <2>3. fresh \cap S \in SUBSET Msgs
      BY DEF BaseInv, QueueInv, QueueTypeOK
    <2> QED BY <2>2, <2>3 DEF WorkerCall
  <1>14. ASSUME NEW m \in Msgs, ClaimExpires(m)
         PROVE  WorkerCall
    BY <1>14 DEF ClaimExpires, WorkerCall
  <1>15. ASSUME NEW t \in Tasks, Submit(t)
         PROVE  WorkerCall
    BY <1>15, QueueAssumption DEF Submit, WorkerCall
  <1>16. ASSUME NEW w \in Workers,
                \/ \E l \in Loops : Reserve(w, l) \/ LoopExits(w, l)
                \/ \E k \in Coroutines : \/ StartLockFree(w, k) \/ StartLocked(w, k) \/ Park(w, k)
                                         \/ LockThrows(w, k) \/ Fail(w, k) \/ Bury(w, k) \/ Leave(w, k)
                \/ \E s \in Scopes : RetryLock(w, s)
                \/ RecoverDone(w) \/ Stop(w) \/ Crash(w)
         PROVE  UNCHANGED queueVars
    BY <1>16 DEF Reserve, LoopExits, StartLockFree, StartLocked, Park, LockThrows, Fail, Bury,
                 Leave, RetryLock, RecoverDone, Stop, Crash
  <1>17. ASSUME NEW s \in Scopes, LockExpires(s)
         PROVE  UNCHANGED queueVars
    BY <1>17 DEF LockExpires
  <1>18. CASE UNCHANGED vars
    BY <1>18 DEF vars
  <1> QED
    BY <1>1, <1>2, <1>3, <1>4, <1>5, <1>6, <1>7, <1>8, <1>9, <1>10, <1>11, <1>12, <1>13, <1>14,
       <1>15, <1>16, <1>17, <1>18 DEF Next, Step

\* They are steps of the contract.
LEMMA WorkerQueueStep ==
  ASSUME BaseInv, [Next]_vars
  PROVE  [QueueNext]_queueVars
  <1>1. WorkerCall => QueueNext
    BY QueueAssumption DEF WorkerCall, QueueNext
  <1> QED BY <1>1, WorkerCalls

-----------------------------------------------------------------------------
(* Every step keeps CoroutineInv.                                          *)

\* BaseInv in groups of variables.
LEMMA BaseHasCoroutines == BaseInv => CoroutineInv
  BY DEF BaseInv, LocalType, CoroutineInv

LEMMA WorkerCoroutineStep ==
  ASSUME BaseInv, [Next]_vars
  PROVE  CoroutineInv'
  <1> USE DEF Active, WithPermit, Executing, States
  <1>0. /\ CoroutineInv /\ LocalType /\ QueueGrows /\ SentTasks /\ QueueInv
        /\ \A w \in Workers, k \in Coroutines :
             /\ cur[w][k] \in Msgs \cup {NoMsg} /\ lost[w][k] \in BOOLEAN
             /\ pc[w][k] \in States
             /\ pc[w][k] \in Active => cur[w][k] \in Sent /\ cur[w][k] \in Msgs
    BY BaseHasCoroutines, WorkerQueueStep, SentGrows, SentMsgs
       DEF BaseInv, QueueGrows, LocalType, AtWork
  <1> Loops \subseteq Coroutines /\ Scopes \subseteq Coroutines /\ Msgs \subseteq Coroutines
    BY DEF Coroutines
  <1>a. ASSUME NEW w \in Workers, NEW k \in Coroutines, NEW z \in States, NEW m \in Msgs \cup {NoMsg},
               NEW b \in BOOLEAN, Moves(w, k, z, m, b), z \in Active => m \in Sent, z # "sleep"
        PROVE  CoroutineInv'
    BY <1>0, <1>a, MovesKeep DEF QueueGrows
  <1>b. ASSUME NEW w \in Workers, NEW k \in Coroutines, pc[w][k] \in Active,
               UNCHANGED <<cur, lost>>, NEW z \in States \ {"sleep"}, Goto(w, k, z)
        PROVE  CoroutineInv'
    <2>1. Moves(w, k, z, cur[w][k], lost[w][k])
      BY <1>0, <1>b, GotoMoves
    <2> QED BY <1>0, <1>a, <1>b, <2>1
  <1>c. ASSUME NEW w \in Workers, NEW k \in Coroutines, NEW c, AfterTask(w, k, c)
        PROVE  CoroutineInv'
    <2>1. PICK z \in {"polling", "idle", "exited", "spent"} : Moves(w, k, z, NoMsg, FALSE)
      BY <1>c, AfterTaskMoves
    <2>2. z \in States /\ z \notin Active /\ z # "sleep"
      OBVIOUS
    <2> QED BY <1>a, <2>1, <2>2
  <1>d. ASSUME NEW w \in Workers, NEW k \in Coroutines, Finish(w, k, "idle") \/ Finish(w, k, "exited")
        PROVE  CoroutineInv'
    <2>1. PICK z \in {"idle", "exited"} : Moves(w, k, z, NoMsg, FALSE)
      BY <1>d, FinishMoves
    <2>2. z \in States /\ z \notin Active /\ z # "sleep"
      OBVIOUS
    <2> QED BY <1>a, <2>1, <2>2
  <1>e. ASSUME NEW w \in Workers, NEW k \in Coroutines, pc[w][k] \in Active,
               UNCHANGED <<cur, lost>>, AfterError(w, k)
        PROVE  CoroutineInv'
    <2>1. CASE ~lost[w][k] /\ body[cur[w][k]].retry < MaxRetries
      <3>1. Moves(w, k, "sleep", cur[w][k], lost[w][k])
        BY <1>0, <1>e, <2>1, GotoMoves DEF AfterError
      <3>2. /\ cur[w][k] \in Sent' /\ body'[cur[w][k]].retry < MaxRetries
            /\ cur[w][k] \in Msgs \cup {NoMsg} /\ lost[w][k] \in BOOLEAN
        BY <1>0, <1>e, <2>1 DEF QueueGrows
      <3>3. "sleep" \in States
        OBVIOUS
      <3> QED BY <1>0, <3>1, <3>2, <3>3, MovesKeep
    <2>2. CASE lost[w][k] \/ ~(body[cur[w][k]].retry < MaxRetries)
      <3>1. PICK z \in {"leave", "bury"} : Goto(w, k, z)
        BY <1>e, <2>2 DEF AfterError
      <3>2. z \in States \ {"sleep"}
        OBVIOUS
      <3> QED BY <1>b, <1>e, <3>1, <3>2
    <2> QED BY <2>1, <2>2
  <1>1. ASSUME NEW w \in Workers, NEW l \in Loops, Reserve(w, l)
        PROVE  CoroutineInv'
    <2>1. Moves(w, l, "polling", cur[w][l], lost[w][l])
      BY <1>0, <1>1, GotoMoves DEF Reserve
    <2> QED BY <1>0, <1>a, <2>1
  <1>2. ASSUME NEW w \in Workers, NEW l \in Loops, ConsumeTask(w, l)
        PROVE  CoroutineInv'
    <2>1. PICK m \in Queued : /\ cur' = [cur EXCEPT ![w][l] = m] /\ UNCHANGED lost
                              /\ Goto(w, l, IF Up(w) THEN "permit" ELSE "refused")
      BY <1>2 DEF ConsumeTask
    <2>2. PICK z \in {"permit", "refused"} : Goto(w, l, z)
      BY <2>1
    <2>3. Moves(w, l, z, m, lost[w][l])
      BY <1>0, <2>1, <2>2, TakeMoves
    <2>4. m \in Sent /\ m \in Msgs
      BY <1>0, LiveSent DEF Live, Queued
    <2> QED BY <1>0, <1>a, <2>3, <2>4
  <1>3. ASSUME NEW w \in Workers, NEW l \in Loops, GiveBack(w, l)
        PROVE  CoroutineInv'
    BY <1>3, <1>c DEF GiveBack
  <1>4. ASSUME NEW w \in Workers, NEW l \in Loops, LoopExits(w, l)
        PROVE  CoroutineInv'
    BY <1>4, <1>d DEF LoopExits
  <1>5. ASSUME NEW w \in Workers, NEW k \in Coroutines, TakePermit(w, k)
        PROVE  CoroutineInv'
    <2>1. pc[w][k] \in Active
      BY <1>5 DEF TakePermit
    <2>2. \/ Goto(w, k, "claimed") /\ UNCHANGED <<cur, lost>>
          \/ AfterTask(w, k, parkedCount[w])
      BY <1>5 DEF TakePermit
    <2> QED BY <2>1, <2>2, <1>b, <1>c
  <1>6. ASSUME NEW w \in Workers, NEW k \in Coroutines, StartLockFree(w, k) \/ StartLocked(w, k)
        PROVE  CoroutineInv'
    <2>1. pc[w][k] = "claimed" /\ Goto(w, k, "run") /\ UNCHANGED <<cur, lost>>
      BY <1>6 DEF StartLockFree, StartLocked
    <2> QED BY <2>1, <1>b
  <1>7. ASSUME NEW w \in Workers, NEW k \in Coroutines, Park(w, k) \/ LockThrows(w, k) \/ AbandonClaim(w, k) \/ Leave(w, k)
        PROVE  CoroutineInv'
    <2>1. \E c : AfterTask(w, k, c)
      BY <1>7 DEF Park, LockThrows, AbandonClaim, Leave
    <2> QED BY <2>1, <1>c
  <1>8. ASSUME NEW w \in Workers, NEW k \in Coroutines, Renew(w, k)
        PROVE  CoroutineInv'
    <2>1. UNCHANGED <<pc, cur>> /\ (UNCHANGED lost \/ lost' = [lost EXCEPT ![w][k] = TRUE])
      BY <1>8 DEF Renew
    <2>2. lost' \in [Workers -> [Coroutines -> BOOLEAN]]
      BY <1>0, <2>1 DEF LocalType
    <2> QED BY <1>0, <2>1, <2>2, StaysKeep
  <1>9. ASSUME NEW w \in Workers, NEW k \in Coroutines, Execute(w, k)
        PROVE  CoroutineInv'
    <2>1. PICK z \in {"leave", "ack", "cascade"} : Goto(w, k, z)
      BY <1>9 DEF Execute
    <2> QED BY <1>9, <2>1, <1>b DEF Execute
  <1>10. ASSUME NEW w \in Workers, NEW k \in Coroutines, Fail(w, k)
         PROVE  CoroutineInv'
    BY <1>10, <1>e DEF Fail
  <1>11. ASSUME NEW w \in Workers, NEW k \in Coroutines, Cascade(w, k)
         PROVE  CoroutineInv'
    <2>1. pc[w][k] = "cascade" /\ UNCHANGED <<cur, lost>> /\ (Goto(w, k, "ack") \/ AfterError(w, k))
      BY <1>11 DEF Cascade
    <2> QED BY <2>1, <1>b, <1>e
  <1>12. ASSUME NEW w \in Workers, NEW k \in Coroutines, Ack(w, k) \/ Retry(w, k) \/ BuryAck(w, k)
         PROVE  CoroutineInv'
    <2>1. pc[w][k] \in Active /\ UNCHANGED <<cur, lost>> /\ Goto(w, k, "leave")
      BY <1>12 DEF Ack, Retry, BuryAck
    <2> QED BY <2>1, <1>b
  <1>13. ASSUME NEW w \in Workers, NEW k \in Coroutines, Bury(w, k)
         PROVE  CoroutineInv'
    <2>1. pc[w][k] \in Active /\ UNCHANGED <<cur, lost>> /\ (Goto(w, k, "buryAck") \/ Goto(w, k, "leave"))
      BY <1>13 DEF Bury
    <2> QED BY <2>1, <1>b
  <1>14. ASSUME NEW w \in Workers, NEW s \in Scopes, StartRetry(w, s)
         PROVE  CoroutineInv'
    <2> DEFINE m == Head(parked[w][s])
    <2>0. parked[w][s] # <<>>
      BY <1>14 DEF StartRetry
    <2>1. m \in Sent /\ m \in Msgs
      BY <2>0, ParkedIsMsg
    <2> HIDE DEF m
    <2>4. \/ Goto(w, s, "retryPermit") /\ cur' = [cur EXCEPT ![w][s] = m] /\ UNCHANGED lost
          \/ UNCHANGED <<pc, cur, lost>>
      BY <1>14 DEF StartRetry, m
    <2>2. CASE Goto(w, s, "retryPermit") /\ cur' = [cur EXCEPT ![w][s] = m] /\ UNCHANGED lost
      <3>2. Moves(w, s, "retryPermit", m, lost[w][s])
        BY <1>0, <2>2, TakeMoves
      <3> QED BY <1>0, <1>a, <2>1, <3>2
    <2>3. CASE UNCHANGED <<pc, cur, lost>>
      BY <1>0, <2>3, StaysKeep DEF LocalType
    <2> QED BY <2>2, <2>3, <2>4
  <1>15. ASSUME NEW w \in Workers, NEW s \in Scopes, RetryPermit(w, s)
         PROVE  CoroutineInv'
    <2>1. pc[w][s] = "retryPermit" /\ ((Goto(w, s, "retryClaimed") /\ UNCHANGED <<cur, lost>>) \/ Finish(w, s, "idle"))
      BY <1>15 DEF RetryPermit
    <2> QED BY <2>1, <1>b, <1>d
  <1>16. ASSUME NEW w \in Workers, NEW s \in Scopes, RetryLock(w, s)
         PROVE  CoroutineInv'
    <2>1. pc[w][s] = "retryClaimed" /\ ((Goto(w, s, "run") /\ UNCHANGED <<cur, lost>>) \/ Finish(w, s, "idle"))
      BY <1>16 DEF RetryLock
    <2> QED BY <2>1, <1>b, <1>d
  <1>17. ASSUME NEW w \in Workers, Recover(w)
         PROVE  CoroutineInv'
    <2>1. PICK S \in SUBSET Stale :
            /\ pc' = [pc EXCEPT ![w] = [k \in Coroutines |-> IF k \in S THEN "permit" ELSE @[k]]]
            /\ cur' = [cur EXCEPT ![w] = [k \in Coroutines |-> IF k \in S THEN k ELSE @[k]]]
            /\ UNCHANGED lost
      BY <1>17 DEF Recover
    <2>2. S \subseteq Sent /\ S \subseteq Msgs
      BY <1>0, LiveSent, SentMsgs
    <2>3. /\ pc' \in [Workers -> [Coroutines -> States]]
          /\ cur' \in [Workers -> [Coroutines -> Msgs \cup {NoMsg}]]
      BY <1>0, <2>1, <2>2 DEF LocalType
    <2>4. ASSUME NEW v \in Workers, NEW j \in Coroutines
          PROVE  /\ pc'[v][j] \in Active => cur'[v][j] \in Sent'
                 /\ pc'[v][j] = "sleep" => body'[cur'[v][j]].retry < MaxRetries
      <3>1. CASE v = w /\ j \in S
        <4>1. pc'[v][j] = "permit" /\ cur'[v][j] = j
          BY <1>0, <2>1, <3>1 DEF LocalType
        <4> QED BY <1>0, <2>2, <3>1, <4>1 DEF QueueGrows
      <3>2. CASE v # w \/ j \notin S
        <4>1. pc'[v][j] = pc[v][j] /\ cur'[v][j] = cur[v][j]
          BY <1>0, <2>1, <3>2 DEF LocalType
        <4> QED BY <1>0, <4>1 DEF QueueGrows, CoroutineInv, AtWork, RetriesLeft
      <3> QED BY <3>1, <3>2
    <2> QED BY <1>0, <2>1, <2>3, <2>4 DEF CoroutineInv, AtWork, RetriesLeft
  <1>18. ASSUME NEW w \in Workers, RecoverDone(w) \/ Crash(w)
         PROVE  CoroutineInv'
    <2>1. /\ pc' \in [Workers -> [Coroutines -> States]]
          /\ cur' \in [Workers -> [Coroutines -> Msgs \cup {NoMsg}]]
          /\ lost' \in [Workers -> [Coroutines -> BOOLEAN]]
      <3>1. CASE Crash(w)
        BY <1>0, <3>1 DEF Crash, LocalType
      <3>2. CASE RecoverDone(w)
        <4>1. PICK S : pc' = [pc EXCEPT ![w] = [k \in Coroutines |-> IF k \in S THEN "idle" ELSE @[k]]]
          BY <3>2 DEF RecoverDone
        <4> QED BY <1>0, <3>2, <4>1 DEF RecoverDone, LocalType
      <3> QED BY <1>18, <3>1, <3>2
    <2>2. ASSUME NEW v \in Workers, NEW j \in Coroutines
          PROVE  pc'[v][j] \in {"idle", "exited"} \/ (pc'[v][j] = pc[v][j] /\ cur'[v][j] = cur[v][j])
      <3>1. CASE Crash(w)
        BY <1>0, <3>1 DEF Crash, LocalType
      <3>2. CASE RecoverDone(w)
        <4>1. PICK S : pc' = [pc EXCEPT ![w] = [k \in Coroutines |-> IF k \in S THEN "idle" ELSE @[k]]]
          BY <3>2 DEF RecoverDone
        <4> QED BY <1>0, <3>2, <4>1 DEF RecoverDone, LocalType
      <3> QED BY <1>18, <3>1, <3>2
    <2>3. ASSUME NEW v \in Workers, NEW j \in Coroutines
          PROVE  /\ pc'[v][j] \in Active => cur'[v][j] \in Sent'
                 /\ pc'[v][j] = "sleep" => body'[cur'[v][j]].retry < MaxRetries
      <3>1. CASE pc'[v][j] \in {"idle", "exited"}
        BY <3>1
      <3>2. CASE pc'[v][j] = pc[v][j] /\ cur'[v][j] = cur[v][j]
        BY <1>0, <3>2 DEF QueueGrows, CoroutineInv, AtWork, RetriesLeft
      <3> QED BY <2>2, <3>1, <3>2
    <2> QED BY <2>1, <2>3 DEF CoroutineInv, AtWork, RetriesLeft
  <1>19. CASE UNCHANGED <<pc, cur, lost>>
    BY <1>0, <1>19, StaysKeep DEF LocalType
  <1>20. ASSUME NEW w \in Workers,
                StopFinish(w) \/ Stop(w) \/ \E s \in Scopes, m \in Msgs : ParkedHeartbeat(w, s, m)
         PROVE  CoroutineInv'
    BY <1>19, <1>20 DEF StopFinish, Stop, ParkedHeartbeat
  <1>21. CASE \/ \E s \in Scopes : LockExpires(s)
              \/ \E m \in Msgs : ClaimExpires(m)
              \/ \E t \in Tasks : Submit(t)
              \/ UNCHANGED vars
    BY <1>19, <1>21 DEF LockExpires, ClaimExpires, Submit, localVars, vars
  <1> QED
    BY <1>1, <1>2, <1>3, <1>4, <1>5, <1>6, <1>7, <1>8, <1>9, <1>10, <1>11, <1>12, <1>13, <1>14,
       <1>15, <1>16, <1>17, <1>18, <1>20, <1>21 DEF Next, Step

-----------------------------------------------------------------------------
(* Every step keeps the parked queues, the locks and the outcomes typed.   *)

ParkedInv == parked \in [Workers -> [Scopes -> Seq(Msgs)]] /\ ParkedSent

\* A removed entry.
LEMMA UnparkKeeps ==
  ASSUME ParkedInv, NEW w \in Workers, NEW s \in Scopes, NEW m, Unpark(w, s, m)
  PROVE  /\ parked' \in [Workers -> [Scopes -> Seq(Msgs)]]
         /\ \A v \in Workers, z \in Scopes :
              \A i \in DOMAIN parked'[v][z] : parked'[v][z][i] \in Sent
  <1> DEFINE q == parked[w][s]
             r == RemoveFirst(q, m)
  <1>1. q \in Seq(Msgs) /\ \A i \in 1..Len(q) : q[i] \in Sent
    BY DEF ParkedInv, ParkedSent
  <1>2. r \in Seq(Msgs) /\ \A i \in 1..Len(r) : r[i] \in Sent
    <2> HIDE DEF q
    <2>1. r \in Seq(Msgs) /\ \A i \in 1..Len(r) : \E j \in 1..Len(q) : r[i] = q[j]
      BY <1>1, RemoveFirstProperties
    <2> QED BY <1>1, <2>1
  <1>3. parked' = [parked EXCEPT ![w][s] = r]
    BY DEF Unpark
  <1> HIDE DEF r, q
  <1>4. parked' \in [Workers -> [Scopes -> Seq(Msgs)]]
    BY <1>2, <1>3 DEF ParkedInv
  <1>5. ASSUME NEW v \in Workers, NEW z \in Scopes
        PROVE  \A i \in DOMAIN parked'[v][z] : parked'[v][z][i] \in Sent
    <2>1. parked'[v][z] = IF v = w /\ z = s THEN r ELSE parked[v][z]
      BY <1>3 DEF ParkedInv
    <2>2. CASE v = w /\ z = s
      BY <1>2, <2>1, <2>2
    <2>3. CASE ~(v = w /\ z = s)
      BY <2>1, <2>3 DEF ParkedInv, ParkedSent
    <2> QED BY <2>2, <2>3
  <1> QED BY <1>4, <1>5

LEMMA WorkerParkedStep ==
  ASSUME BaseInv, [Next]_vars
  PROVE  ParkedInv'
  <1>0. ParkedInv /\ Sent \subseteq Sent' /\ LocalType
    BY WorkerQueueStep, SentGrows DEF BaseInv, LocalType, ParkedInv
  <1>a. CASE UNCHANGED parked
    BY <1>0, <1>a DEF ParkedInv, ParkedSent
  <1>b. ASSUME NEW w \in Workers, NEW s \in Scopes, NEW m, Unpark(w, s, m)
        PROVE  ParkedInv'
    BY <1>0, <1>b, UnparkKeeps DEF ParkedInv, ParkedSent
  <1>c. ASSUME NEW w \in Workers, parked' = [parked EXCEPT ![w] = [s \in Scopes |-> <<>>]]
        PROVE  ParkedInv'
    <2>1. \A v \in Workers, z \in Scopes : parked'[v][z] = IF v = w THEN <<>> ELSE parked[v][z]
      BY <1>0, <1>c DEF ParkedInv
    <2>2. parked' \in [Workers -> [Scopes -> Seq(Msgs)]]
      BY <1>0, <1>c DEF ParkedInv
    <2> QED BY <1>0, <2>1, <2>2 DEF ParkedInv, ParkedSent
  <1>1. ASSUME NEW w \in Workers, NEW k \in Coroutines, Park(w, k)
        PROVE  ParkedInv'
    <2> DEFINE m == cur[w][k]
               s == ScopeOf[body[m].task]
    <2>1. m \in Msgs /\ m \in Sent /\ s \in Scopes
      BY <1>1, CurIsMsg, WorkerAssumption DEF Park, TaskOf, ScopeOfMsg, Active, WithPermit
    <2>2. parked' = [parked EXCEPT ![w][s] = Append(@, m)]
      BY <1>1 DEF Park, TaskOf, ScopeOfMsg
    <2> HIDE DEF m, s
    <2>3. /\ Append(parked[w][s], m) \in Seq(Msgs)
          /\ \A i \in DOMAIN Append(parked[w][s], m) : Append(parked[w][s], m)[i] \in Sent
      BY <1>0, <2>1 DEF ParkedInv, ParkedSent
    <2>4. parked' \in [Workers -> [Scopes -> Seq(Msgs)]]
      BY <1>0, <2>1, <2>2, <2>3 DEF ParkedInv
    <2>5. ASSUME NEW v \in Workers, NEW z \in Scopes
          PROVE  \A i \in DOMAIN parked'[v][z] : parked'[v][z][i] \in Sent'
      <3>1. parked'[v][z] = IF v = w /\ z = s THEN Append(parked[w][s], m) ELSE parked[v][z]
        BY <1>0, <2>2 DEF ParkedInv
      <3>2. CASE v = w /\ z = s
        BY <1>0, <2>3, <3>1, <3>2
      <3>3. CASE ~(v = w /\ z = s)
        BY <1>0, <3>1, <3>3 DEF ParkedInv, ParkedSent
      <3> QED BY <3>2, <3>3
    <2> QED BY <2>4, <2>5 DEF ParkedInv, ParkedSent
  <1>2. ASSUME NEW w \in Workers, NEW s \in Scopes, StartRetry(w, s)
        PROVE  ParkedInv'
    BY <1>2, <1>a, <1>b DEF StartRetry
  <1>3. ASSUME NEW w \in Workers, NEW s \in Scopes, RetryPermit(w, s) \/ RetryLock(w, s)
        PROVE  ParkedInv'
    BY <1>3, <1>a, <1>b DEF RetryPermit, RetryLock
  <1>4. ASSUME NEW w \in Workers, NEW s \in Scopes, NEW m \in Msgs, ParkedHeartbeat(w, s, m)
        PROVE  ParkedInv'
    BY <1>4, <1>a, <1>b DEF ParkedHeartbeat
  <1>5. ASSUME NEW w \in Workers, StopFinish(w) \/ Crash(w)
        PROVE  ParkedInv'
    BY <1>5, <1>c DEF StopFinish, Crash
  <1>6. ASSUME NEW w \in Workers, NEW k \in Coroutines,
               \/ TakePermit(w, k) \/ StartLockFree(w, k) \/ StartLocked(w, k)
               \/ LockThrows(w, k) \/ AbandonClaim(w, k) \/ Renew(w, k) \/ Execute(w, k) \/ Fail(w, k)
               \/ Cascade(w, k) \/ Ack(w, k) \/ Retry(w, k) \/ Bury(w, k) \/ BuryAck(w, k)
               \/ Leave(w, k)
        PROVE  UNCHANGED parked
    BY <1>6 DEF TakePermit, StartLockFree, StartLocked, LockThrows, AbandonClaim, Renew, Execute,
                Fail, Cascade, Ack, Retry, Bury, BuryAck, Leave
  <1>7. ASSUME NEW w \in Workers,
               \/ \E l \in Loops : Reserve(w, l) \/ ConsumeTask(w, l) \/ GiveBack(w, l) \/ LoopExits(w, l)
               \/ Recover(w) \/ RecoverDone(w) \/ Stop(w)
        PROVE  UNCHANGED parked
    BY <1>7 DEF Reserve, ConsumeTask, GiveBack, LoopExits, Recover, RecoverDone, Stop
  <1>8. CASE \/ \E s \in Scopes : LockExpires(s)
             \/ \E m \in Msgs : ClaimExpires(m)
             \/ \E t \in Tasks : Submit(t)
             \/ UNCHANGED vars
    BY <1>a, <1>8 DEF LockExpires, ClaimExpires, Submit, localVars, vars
  <1> QED BY <1>a, <1>1, <1>2, <1>3, <1>4, <1>5, <1>6, <1>7, <1>8 DEF Next, Step

LockType == [owner : Workers \cup {NoOne}, live : BOOLEAN,
             by : Coroutines \cup {NoMsg}, msg : Msgs \cup {NoMsg}]

\* What the lock table is made of stays typed.
LEMMA FreeType == Free \in LockType
  BY DEF Free, LockType

LEMMA LiveType ==
  ASSUME NEW r \in LockType, NEW b \in BOOLEAN
  PROVE  [r EXCEPT !.live = b] \in LockType
  BY DEF LockType

LEMMA AcquireType ==
  ASSUME locks \in [Scopes -> LockType], NEW w \in Workers, NEW s \in Scopes, NEW k \in Coroutines,
         NEW m \in Msgs, Acquire(s, w, k, m)
  PROVE  locks' \in [Scopes -> LockType]
  <1>1. [owner |-> w, live |-> TRUE, by |-> k, msg |-> m] \in LockType
    BY DEF LockType
  <1> QED BY <1>1, FreeType DEF Acquire

LEMMA SweepType ==
  ASSUME locks \in [Scopes -> LockType], Sweep
  PROVE  locks' \in [Scopes -> LockType]
  BY FreeType DEF Sweep

LEMMA WorkerLockStep ==
  ASSUME BaseInv, [Next]_vars
  PROVE  locks' \in [Scopes -> LockType]
  <1> USE DEF Active, WithPermit, Executing
  <1>0. locks \in [Scopes -> LockType]
    BY DEF BaseInv, LocalType, LockType
  <1>1. ASSUME NEW w \in Workers, NEW k \in Coroutines, StartLocked(w, k) \/ LockThrows(w, k)
        PROVE  locks' \in [Scopes -> LockType]
    <2>0. pc[w][k] \in Active /\ ScopeOfMsg(cur[w][k]) # LockFree
      BY <1>1 DEF StartLocked, LockThrows
    <2>1. cur[w][k] \in Msgs /\ ScopeOfMsg(cur[w][k]) \in Scopes
      BY <2>0, CurIsMsg, WorkerAssumption DEF ScopeOfMsg
    <2>2. Acquire(ScopeOfMsg(cur[w][k]), w, k, cur[w][k]) \/ UNCHANGED locks
      BY <1>1 DEF StartLocked, LockThrows
    <2> QED BY <1>0, <2>1, <2>2, AcquireType
  <1>2. ASSUME NEW w \in Workers, NEW s \in Scopes, RetryLock(w, s)
        PROVE  locks' \in [Scopes -> LockType]
    <2>1. cur[w][s] \in Msgs /\ s \in Coroutines
      BY <1>2, CurIsMsg DEF RetryLock, Coroutines
    <2>2. Acquire(s, w, s, cur[w][s]) \/ Sweep \/ UNCHANGED locks
      BY <1>2 DEF RetryLock
    <2> QED BY <1>0, <2>1, <2>2, AcquireType, SweepType
  <1>3. ASSUME NEW w \in Workers, NEW k \in Coroutines, Park(w, k)
        PROVE  locks' \in [Scopes -> LockType]
    BY <1>0, <1>3, SweepType DEF Park
  <1>4. ASSUME NEW w \in Workers, NEW k \in Coroutines, Renew(w, k)
        PROVE  locks' \in [Scopes -> LockType]
    <2> DEFINE s == ScopeOf[body[cur[w][k]].task]
    <2>1. pc[w][k] \in Active
      BY <1>4 DEF Renew, Renewing
    <2>2. s \in Scopes \cup {LockFree}
      BY <2>1, CurIsMsg, WorkerAssumption DEF TaskOf
    <2>3. UNCHANGED locks \/ (s # LockFree /\ locks' = [locks EXCEPT ![s].live = TRUE])
      BY <1>4, Zenon DEF Renew, TaskOf, ScopeOfMsg
    <2> HIDE DEF s
    <2>4. CASE s # LockFree /\ locks' = [locks EXCEPT ![s].live = TRUE]
      <3>1. [locks[s] EXCEPT !.live = TRUE] \in LockType
        BY <1>0, <2>2, <2>4, LiveType
      <3> QED BY <1>0, <2>4, <3>1, Zenon
    <2> QED BY <1>0, <2>3, <2>4
  <1>5. ASSUME NEW w \in Workers, NEW k \in Coroutines, Leave(w, k)
        PROVE  locks' \in [Scopes -> LockType]
    BY <1>0, <1>5, FreeType DEF Leave
  <1>6. ASSUME NEW s \in Scopes, LockExpires(s)
        PROVE  locks' \in [Scopes -> LockType]
    <2>1. [locks[s] EXCEPT !.live = FALSE] \in LockType
      BY <1>0, LiveType
    <2>2. locks' = [locks EXCEPT ![s].live = FALSE]
      BY <1>6, Zenon DEF LockExpires
    <2> QED BY <1>0, <2>1, <2>2, Zenon
  <1>7. ASSUME NEW w \in Workers, NEW k \in Coroutines,
               \/ TakePermit(w, k) \/ StartLockFree(w, k)
               \/ AbandonClaim(w, k) \/ Execute(w, k) \/ Fail(w, k)
               \/ Cascade(w, k) \/ Ack(w, k) \/ Retry(w, k) \/ Bury(w, k) \/ BuryAck(w, k)
        PROVE  UNCHANGED locks
    BY <1>7 DEF TakePermit, StartLockFree, AbandonClaim, Execute, Fail, Cascade, Ack, Retry, Bury, BuryAck
  <1>8. ASSUME NEW w \in Workers,
               \/ \E l \in Loops : Reserve(w, l) \/ ConsumeTask(w, l) \/ GiveBack(w, l) \/ LoopExits(w, l)
               \/ \E s \in Scopes : StartRetry(w, s) \/ RetryPermit(w, s)
               \/ \E s \in Scopes, m \in Msgs : ParkedHeartbeat(w, s, m)
               \/ Recover(w) \/ RecoverDone(w) \/ StopFinish(w) \/ Stop(w) \/ Crash(w)
        PROVE  UNCHANGED locks
    BY <1>8 DEF Reserve, ConsumeTask, GiveBack, LoopExits, StartRetry, RetryPermit, ParkedHeartbeat,
                Recover, RecoverDone, StopFinish, Stop, Crash
  <1>9. CASE \/ \E m \in Msgs : ClaimExpires(m)
             \/ \E t \in Tasks : Submit(t)
             \/ UNCHANGED vars
    BY <1>0, <1>9 DEF ClaimExpires, Submit, vars
  <1> QED BY <1>0, <1>1, <1>2, <1>3, <1>4, <1>5, <1>6, <1>7, <1>8, <1>9 DEF Next, Step

-----------------------------------------------------------------------------
(* The base invariant.                                                     *)

\* Outcomes are tasks, and are never taken back.
LEMMA WorkerOutcomeStep ==
  ASSUME BaseInv, [Next]_vars
  PROVE  /\ life' \in [Workers -> {"up", "stopping", "stopped", "crashed"}]
         /\ done' \subseteq Tasks /\ dead' \subseteq Tasks
         /\ done \subseteq done' /\ dead \subseteq dead'
  <1> DEFINE Goal == /\ life' \in [Workers -> {"up", "stopping", "stopped", "crashed"}]
                     /\ done' \subseteq Tasks /\ dead' \subseteq Tasks
                     /\ done \subseteq done' /\ dead \subseteq dead'
  <1>0. /\ life \in [Workers -> {"up", "stopping", "stopped", "crashed"}]
        /\ done \subseteq Tasks /\ dead \subseteq Tasks
    BY DEF BaseInv, LocalType
  <1>a. CASE UNCHANGED <<life, done, dead>>
    BY <1>0, <1>a
  <1>1. ASSUME NEW w \in Workers, NEW k \in Coroutines, Ack(w, k) \/ BuryAck(w, k)
        PROVE  Goal
    <2>1. TaskOf(cur[w][k]) \in Tasks
      BY <1>1, CurIsMsg DEF Ack, BuryAck, Active, WithPermit, Executing
    <2> QED BY <1>0, <1>1, <2>1 DEF Ack, BuryAck
  <1>2. ASSUME NEW w \in Workers, Stop(w) \/ StopFinish(w) \/ Crash(w)
        PROVE  Goal
    BY <1>0, <1>2 DEF Stop, StopFinish, Crash
  <1>3. ASSUME NEW w \in Workers, NEW k \in Coroutines,
               \/ TakePermit(w, k) \/ StartLockFree(w, k) \/ StartLocked(w, k) \/ Park(w, k)
               \/ LockThrows(w, k) \/ AbandonClaim(w, k) \/ Renew(w, k) \/ Execute(w, k) \/ Fail(w, k)
               \/ Cascade(w, k) \/ Retry(w, k) \/ Bury(w, k) \/ Leave(w, k)
        PROVE  Goal
    BY <1>a, <1>3 DEF TakePermit, StartLockFree, StartLocked, Park, LockThrows, AbandonClaim, Renew,
                      Execute, Fail, Cascade, Retry, Bury, Leave
  <1>4. ASSUME NEW w \in Workers,
               \/ \E l \in Loops : Reserve(w, l) \/ ConsumeTask(w, l) \/ GiveBack(w, l) \/ LoopExits(w, l)
               \/ \E s \in Scopes : StartRetry(w, s) \/ RetryPermit(w, s) \/ RetryLock(w, s)
               \/ \E s \in Scopes, m \in Msgs : ParkedHeartbeat(w, s, m)
               \/ Recover(w) \/ RecoverDone(w)
        PROVE  Goal
    BY <1>a, <1>4 DEF Reserve, ConsumeTask, GiveBack, LoopExits, StartRetry, RetryPermit, RetryLock,
                      ParkedHeartbeat, Recover, RecoverDone
  <1>5. CASE \/ \E s \in Scopes : LockExpires(s)
             \/ \E m \in Msgs : ClaimExpires(m)
             \/ \E t \in Tasks : Submit(t)
             \/ UNCHANGED vars
    BY <1>a, <1>5 DEF LockExpires, ClaimExpires, Submit, localVars, vars
  <1> QED BY <1>1, <1>2, <1>3, <1>4, <1>5 DEF Next, Step

\* It holds initially.
LEMMA BaseInit == Init => BaseInv
  <1> SUFFICES ASSUME Init PROVE BaseInv
    OBVIOUS
  <1>1. QueueInv
    BY QueueInitInv DEF Init
  <1>2. LocalType
    BY DEF Init, LocalType, States, Free
  <1>3. SentTasks /\ AtWork /\ RetriesLeft /\ ParkedSent
    BY DEF Init, QueueInit, SentTasks, Sent, AtWork, RetriesLeft, ParkedSent, Active, WithPermit, Executing
  <1> QED BY <1>1, <1>2, <1>3 DEF BaseInv

\* Every step preserves it.
LEMMA BaseStep == BaseInv /\ [Next]_vars => BaseInv'
  <1> SUFFICES ASSUME BaseInv, [Next]_vars PROVE BaseInv'
    OBVIOUS
  <1>1. QueueInv' /\ SentTasks'
    BY WorkerQueueStep, QueueStepInv, SentGrows DEF BaseInv
  <1>2. LocalType' /\ AtWork' /\ RetriesLeft' /\ ParkedSent'
    BY WorkerCoroutineStep, WorkerParkedStep, WorkerLockStep, WorkerOutcomeStep
       DEF LocalType, LockType, CoroutineInv, ParkedInv
  <1> QED BY <1>1, <1>2 DEF BaseInv

\* Whatever the number of workers, tasks, crashes and stops: every coroutine
\* works on a message that was sent, and has a retry left when it sleeps.
THEOREM WorkersWellFormed == Spec => []BaseInv
  BY BaseInit, BaseStep, PTL DEF Spec

\* The workers and producers use the queue as its contract has it.
THEOREM WorkersUseTheQueue == Spec => QueueSpec
  <1>1. Init => QueueInit
    BY DEF Init
  <1>2. BaseInv /\ [Next]_vars => [QueueNext]_queueVars
    BY WorkerQueueStep
  <1> QED BY <1>1, <1>2, WorkersWellFormed, PTL DEF Spec, QueueSpec

-----------------------------------------------------------------------------
(* No task is lost.                                                        *)

\* What a call does to the tasks that still have a message, and to new messages.
Carried ==
  /\ \A n \in Live : \/ TaskOf(n) \in done' \cup dead'
                    \/ \E p \in Live' : TaskOf(p)' = TaskOf(n)
  /\ Sent' \ Sent \subseteq Live'

LEMMA CallsCarry ==
  ASSUME BaseInv, [WorkerCall]_queueVars
  PROVE  Carried
  <1> USE DEF Live, Queued, Pending, TaskOf, Sent, Carried
  <1>0. QueueInv /\ QueueTypeOK
    BY DEF BaseInv, QueueInv
  <1>1. ASSUME NEW m \in Msgs, NEW w \in Workers, Consume(m, w) \/ Refresh(m, w) \/ Age(m, w)
        PROVE  Carried
    <2>1. UNCHANGED <<nextMsg, body>> /\ Live' = Live
      BY <1>0, <1>1 DEF Consume, Refresh, Age, QueueTypeOK
    <2> QED BY <2>1
  <1>2. ASSUME NEW S \in SUBSET Msgs, Expire(S) \/ \E w \in Workers : Claim(S, w)
        PROVE  Carried
    BY <1>2 DEF Expire, Claim
  <1>3. ASSUME NEW m \in Msgs, NEW w \in Workers, Settle(m, w), TaskOf(m) \in done' \cup dead'
        PROVE  Carried
    <2>1. UNCHANGED <<nextMsg, body>> /\ \A n \in Live : n # m => n \in Live'
      BY <1>0, <1>3 DEF Settle, QueueTypeOK
    <2> QED BY <1>3, <2>1
  <1>4. ASSUME NEW t \in Tasks, Enqueue(t, 0, NoOne)
        PROVE  Carried
    <2>0. nextMsg \in Msgs /\ nextMsg' = nextMsg + 1
      BY <1>0, <1>4, SentMsgs, QueueAssumption DEF Enqueue, Msgs
    <2>1. /\ nextMsg \in Msgs /\ nextMsg' = nextMsg + 1 /\ nextMsg \notin Live
          /\ Sent' \ Sent \subseteq {nextMsg}
      BY <2>0, <1>0, LiveSent DEF Msgs
    <2>2. \A n \in Live : n \in Live' /\ body'[n] = body[n]
      BY <1>0, <1>4, <2>1 DEF Enqueue, QueueTypeOK
    <2>3. nextMsg \in Live'
      BY <1>0, <1>4, <2>1 DEF Enqueue, QueueTypeOK
    <2> HIDE DEF Live, Sent
    <2> QED BY <2>1, <2>2, <2>3
  <1>5. ASSUME NEW m \in Msgs, NEW w \in Workers, NEW r \in 0..MaxRetries, Replace(m, w, r, NoOne)
        PROVE  Carried
    <2>0. nextMsg \in Msgs /\ nextMsg' = nextMsg + 1
      BY <1>0, <1>5, SentMsgs, QueueAssumption DEF Replace, Msgs
    <2>1. /\ nextMsg \in Msgs /\ nextMsg' = nextMsg + 1 /\ nextMsg \notin Live
          /\ Sent' \ Sent \subseteq {nextMsg}
      BY <2>0, <1>0, LiveSent DEF Msgs
    <2>4. m \in Live
      BY <1>5 DEF Replace, Owned
    <2>2. \A n \in Live : n # m => n \in Live' /\ body'[n] = body[n]
      BY <1>0, <1>5, <2>1 DEF Replace, QueueTypeOK
    <2>3. nextMsg \in Live' /\ body'[nextMsg].task = body[m].task
      BY <1>0, <1>5, <2>1 DEF Replace, QueueTypeOK
    <2> HIDE DEF Live, Sent
    <2>5. ASSUME NEW n \in Live PROVE \E p \in Live' : TaskOf(p)' = TaskOf(n)
      <3>1. CASE n = m
        BY <2>3, <3>1
      <3>2. CASE n # m
        BY <2>2, <3>2
      <3> QED BY <3>1, <3>2
    <2> QED BY <2>1, <2>3, <2>5
  <1>6. CASE UNCHANGED queueVars
    BY <1>6 DEF queueVars
  <1> QED BY <1>1, <1>2, <1>3, <1>4, <1>5, <1>6 DEF WorkerCall

\* NoTaskLost: in every interleaving of any number of workers, crashes, stops,
\* stalls, retries and dead letters, an enqueued task has a live message or an
\* outcome.  It rests on the order of moveToDeadLetter and on replacePendingTask
\* being one call.
THEOREM TasksNeverLost == Spec => []NoTaskLost
  <1>1. Init => NoTaskLost
    BY DEF Init, QueueInit, NoTaskLost, Sent
  <1>2. BaseInv /\ NoTaskLost /\ [Next]_vars => NoTaskLost'
    <2> SUFFICES ASSUME BaseInv, NoTaskLost, [Next]_vars, NEW m \in Sent'
                 PROVE  \/ TaskOf(m)' \in done' \cup dead'
                        \/ \E n \in Live' : TaskOf(m)' = TaskOf(n)'
      BY DEF NoTaskLost
    <2>1. Carried
      BY WorkerCalls, CallsCarry
    <2>2. done \subseteq done' /\ dead \subseteq dead'
      BY WorkerOutcomeStep
    <2>3. CASE m \in Sent
      <3>1. TaskOf(m)' = TaskOf(m)
        BY <2>3, WorkerQueueStep, SentGrows DEF BaseInv, TaskOf
      <3>2. TaskOf(m) \in done \cup dead \/ \E n \in Live : TaskOf(m) = TaskOf(n)
        BY <2>3 DEF NoTaskLost
      <3> QED BY <2>1, <2>2, <3>1, <3>2 DEF Carried
    <2>4. CASE m \notin Sent
      BY <2>1, <2>4 DEF Carried
    <2> QED BY <2>3, <2>4
  <1> QED BY <1>1, <1>2, WorkersWellFormed, PTL DEF Spec

-----------------------------------------------------------------------------
(* The continuation of a completed task.                                   *)

\* The follow-up of task t, if it has one, was enqueued.
Followed(t) == Follow[t] # NoTask => \E m \in Sent : TaskOf(m) = Follow[t]

\* A coroutine about to acknowledge has enqueued the follow-up.
AckFollowed == \A w \in Workers, k \in Coroutines : pc[w][k] = "ack" => Followed(TaskOf(cur[w][k]))

\* No coroutine gets to its acknowledgement.
NoNewAck ==
  \A w \in Workers, k \in Coroutines :
    pc'[w][k] = "ack" => pc[w][k] = "ack" /\ cur'[w][k] = cur[w][k]

\* What was enqueued stays enqueued.
LEMMA FollowedStays ==
  ASSUME BaseInv, [Next]_vars, NEW t, Followed(t)
  PROVE  Followed(t)'
  <1>1. Sent \subseteq Sent' /\ \A m \in Sent : body'[m] = body[m]
    BY WorkerQueueStep, SentGrows DEF BaseInv
  <1> QED BY <1>1 DEF Followed, TaskOf

\* A coroutine that moves elsewhere.
LEMMA ElsewhereMoves ==
  ASSUME LocalType, NEW w \in Workers, NEW k \in Coroutines, NEW z, NEW m, NEW b, Moves(w, k, z, m, b), z # "ack"
  PROVE  NoNewAck
  BY DEF LocalType, Moves, NoNewAck

\* The same for a step that keeps its message.
LEMMA ElsewhereGoto ==
  ASSUME LocalType, NEW w \in Workers, NEW k \in Coroutines, NEW z, Goto(w, k, z), UNCHANGED cur, z # "ack"
  PROVE  NoNewAck
  BY DEF LocalType, Goto, NoNewAck

\* Where a task that is over goes is not the acknowledgement.
LEMMA ElsewhereAfter ==
  ASSUME LocalType, NEW w \in Workers, NEW k \in Coroutines, NEW c, AfterTask(w, k, c)
  PROVE  NoNewAck
  BY AfterTaskMoves, ElsewhereMoves

\* An enqueued task has a message.
LEMMA EnqueueSends ==
  ASSUME QueueInv, NEW t, Enqueue(t, 0, NoOne)
  PROVE  nextMsg \in Sent' /\ body'[nextMsg].task = t
  <1>1. nextMsg \in Msgs /\ nextMsg' = nextMsg + 1
    <2>1. nextMsg \in 1..(MaxMsgs + 1) /\ nextMsg <= MaxMsgs /\ nextMsg' = nextMsg + 1
      BY SentMsgs DEF Enqueue
    <2> QED BY <2>1, QueueAssumption DEF Msgs
  <1>2. body' = [body EXCEPT ![nextMsg] = [task |-> t, retry |-> 0]]
    BY DEF Enqueue
  <1>3. body'[nextMsg].task = t
    BY <1>1, <1>2 DEF QueueInv, QueueTypeOK
  <1>4. nextMsg \in 1..(nextMsg' - 1)
    BY <1>1 DEF Msgs
  <1> QED BY <1>3, <1>4 DEF Sent

\* Only the end of a lock-free execution and a cascade lead to it.
LEMMA FollowStep ==
  ASSUME BaseInv, AckFollowed, [Next]_vars
  PROVE  AckFollowed'
  <1>0. LocalType /\ pc \in [Workers -> [Coroutines -> States]] /\ cur \in [Workers -> [Coroutines -> Msgs \cup {NoMsg}]]
    BY DEF BaseInv, LocalType
  <1>1. ASSUME NEW v \in Workers, NEW j \in Coroutines, pc[v][j] = "ack", cur'[v][j] = cur[v][j]
        PROVE  Followed(TaskOf(cur[v][j]))'
    <2> DEFINE t == TaskOf(cur[v][j])
    <2>1. cur[v][j] \in Sent
      BY <1>1, CurIsMsg DEF Active, WithPermit, Executing
    <2>2. t' = t
      BY <1>1, <2>1, WorkerQueueStep, SentGrows DEF BaseInv, TaskOf
    <2>3. Followed(t)
      BY <1>1 DEF AckFollowed
    <2> HIDE DEF t
    <2>4. Follow[t] # NoTask => \E m \in Sent' : TaskOf(m)' = Follow[t]
      BY <2>3, WorkerQueueStep, SentGrows DEF BaseInv, Followed, TaskOf
    <2> QED BY <2>2, <2>4 DEF Followed, t
  <1>2. CASE NoNewAck
    BY <1>1, <1>2 DEF NoNewAck, AckFollowed
  <1>3. ASSUME NEW w \in Workers, NEW k \in Coroutines, Goto(w, k, "ack"), UNCHANGED cur,
               Followed(TaskOf(cur[w][k]))'
        PROVE  AckFollowed'
    <2> SUFFICES ASSUME NEW v \in Workers, NEW j \in Coroutines, pc'[v][j] = "ack"
                 PROVE  Followed(TaskOf(cur[v][j]))'
      BY DEF AckFollowed
    <2>1. CASE v = w /\ j = k
      BY <1>3, <2>1
    <2>2. CASE v # w \/ j # k
      <3>1. pc[v][j] = "ack" /\ cur'[v][j] = cur[v][j]
        BY <1>0, <1>3, <2>2 DEF Goto
      <3> QED BY <1>1, <3>1
    <2> QED BY <2>1, <2>2
  <1>4. ASSUME NEW w \in Workers, NEW k \in Coroutines, Execute(w, k) PROVE AckFollowed'
    <2>0. cur[w][k] \in Sent /\ TaskOf(cur[w][k]) \in Tasks /\ UNCHANGED cur
      BY <1>4, CurIsMsg DEF Execute, Active, WithPermit, Executing
    <2>3. \/ Goto(w, k, "ack") /\ ScopeOfMsg(cur[w][k]) = LockFree /\ UNCHANGED queueVars
          \/ Goto(w, k, "leave") \/ Goto(w, k, "cascade")
      BY <1>4 DEF Execute
    <2>1. CASE Goto(w, k, "ack") /\ ScopeOfMsg(cur[w][k]) = LockFree /\ UNCHANGED queueVars
      <3>1. Follow[TaskOf(cur[w][k])] = NoTask
        BY <2>0, <2>1, WorkerAssumption DEF ScopeOfMsg
      <3>2. Followed(TaskOf(cur[w][k]))'
        BY <2>0, <2>1, <3>1 DEF Followed, TaskOf, queueVars
      <3> QED BY <1>3, <2>0, <2>1, <3>2
    <2>2. CASE Goto(w, k, "leave") \/ Goto(w, k, "cascade")
      BY <1>0, <1>2, <2>0, <2>2, ElsewhereGoto
    <2> QED BY <2>1, <2>2, <2>3
  <1>5. ASSUME NEW w \in Workers, NEW k \in Coroutines, Cascade(w, k) PROVE AckFollowed'
    <2> DEFINE t == TaskOf(cur[w][k])
               f == Follow[t]
    <2>0. cur[w][k] \in Sent /\ t \in Tasks /\ UNCHANGED cur
      BY <1>5, CurIsMsg DEF Cascade, Active, WithPermit, Executing
    <2>1. t' = t
      BY <2>0, WorkerQueueStep, SentGrows DEF BaseInv, TaskOf
    <2>2. CASE AfterError(w, k)
      BY <1>0, <1>2, <2>0, <2>2, ElsewhereGoto DEF AfterError
    <2>3. CASE Goto(w, k, "ack") /\ f = NoTask
      <3>1. Followed(t)'
        BY <2>1, <2>3 DEF Followed
      <3> QED BY <1>3, <2>0, <2>3, <3>1
    <2>4. CASE Goto(w, k, "ack") /\ Enqueue(f, 0, NoOne)
      <3>1. nextMsg \in Sent' /\ body'[nextMsg].task = f
        <4>1. QueueInv /\ Enqueue(f, 0, NoOne)
          BY <2>4 DEF BaseInv
        <4> QED BY <4>1, EnqueueSends
      <3>2. Followed(t)'
        <4>1. \E m \in Sent' : body'[m].task = Follow[t]
          BY <3>1
        <4> HIDE DEF t
        <4> QED BY <2>1, <4>1 DEF Followed, TaskOf
      <3> QED BY <1>3, <2>0, <2>4, <3>2
    <2> QED BY <1>5, <2>2, <2>3, <2>4 DEF Cascade
  <1>6. ASSUME NEW w \in Workers, NEW k \in Coroutines,
               \/ TakePermit(w, k) \/ Park(w, k) \/ LockThrows(w, k)
               \/ AbandonClaim(w, k) \/ Leave(w, k)
        PROVE  NoNewAck
    <2>1. (\E c : AfterTask(w, k, c)) \/ (Goto(w, k, "claimed") /\ UNCHANGED cur)
      BY <1>6 DEF TakePermit, Park, LockThrows, AbandonClaim, Leave
    <2> QED BY <1>0, <2>1, ElsewhereAfter, ElsewhereGoto
  <1>7. ASSUME NEW w \in Workers, NEW k \in Coroutines,
               \/ StartLockFree(w, k) \/ StartLocked(w, k) \/ Fail(w, k) \/ Ack(w, k)
               \/ Retry(w, k) \/ Bury(w, k) \/ BuryAck(w, k)
        PROVE  NoNewAck
    <2>1. UNCHANGED cur /\ \E z \in {"run", "leave", "sleep", "bury", "buryAck"} : Goto(w, k, z)
      BY <1>7 DEF StartLockFree, StartLocked, Fail, Ack, Retry, Bury, BuryAck, AfterError
    <2> QED BY <1>0, <2>1, ElsewhereGoto
  <1>8. ASSUME NEW w \in Workers, NEW l \in Loops,
               Reserve(w, l) \/ ConsumeTask(w, l) \/ GiveBack(w, l) \/ LoopExits(w, l)
        PROVE  NoNewAck
    <2>0. l \in Coroutines
      BY DEF Coroutines
    <2>1. CASE Reserve(w, l)
      BY <1>0, <2>0, <2>1, ElsewhereGoto DEF Reserve
    <2>2. CASE ConsumeTask(w, l)
      <3>1. PICK m \in Queued : cur' = [cur EXCEPT ![w][l] = m] /\ \E z \in {"permit", "refused"} : Goto(w, l, z)
        BY <2>2 DEF ConsumeTask
      <3>z. PICK z \in {"permit", "refused"} : Goto(w, l, z)
        BY <3>1
      <3>2. UNCHANGED lost
        BY <2>2 DEF ConsumeTask
      <3>3. Moves(w, l, z, m, lost[w][l])
        BY <1>0, <2>0, <3>1, <3>z, <3>2, TakeMoves
      <3> QED BY <1>0, <2>0, <3>3, ElsewhereMoves
    <2>3. CASE GiveBack(w, l)
      BY <1>0, <2>0, <2>3, ElsewhereAfter DEF GiveBack
    <2>4. CASE LoopExits(w, l)
      BY <1>0, <2>0, <2>4, FinishMoves, ElsewhereMoves DEF LoopExits
    <2> QED BY <1>8, <2>1, <2>2, <2>3, <2>4
  <1>9. ASSUME NEW w \in Workers, NEW s \in Scopes, StartRetry(w, s) \/ RetryPermit(w, s) \/ RetryLock(w, s)
        PROVE  NoNewAck
    <2>0. s \in Coroutines
      BY DEF Coroutines
    <2>1. CASE StartRetry(w, s)
      <3> DEFINE m == Head(parked[w][s])
      <3>3. \/ Goto(w, s, "retryPermit") /\ cur' = [cur EXCEPT ![w][s] = m] /\ UNCHANGED lost
            \/ UNCHANGED <<pc, cur>>
        BY <2>1 DEF StartRetry
      <3> HIDE DEF m
      <3>1. CASE Goto(w, s, "retryPermit") /\ cur' = [cur EXCEPT ![w][s] = m] /\ UNCHANGED lost
        <4>2. Moves(w, s, "retryPermit", m, lost[w][s])
          BY <1>0, <2>0, <3>1, TakeMoves
        <4> QED BY <1>0, <2>0, <4>2, ElsewhereMoves
      <3>2. CASE UNCHANGED <<pc, cur>>
        BY <3>2 DEF NoNewAck
      <3> QED BY <3>1, <3>2, <3>3
    <2>2. CASE RetryPermit(w, s) \/ RetryLock(w, s)
      <3>1. \/ Finish(w, s, "idle")
            \/ UNCHANGED cur /\ \E z \in {"retryClaimed", "run"} : Goto(w, s, z)
        BY <2>2 DEF RetryPermit, RetryLock
      <3>2. CASE Finish(w, s, "idle")
        <4>1. Moves(w, s, "idle", NoMsg, FALSE)
          BY <2>0, <3>2, FinishMoves
        <4> QED BY <1>0, <2>0, <4>1, ElsewhereMoves
      <3>3. CASE UNCHANGED cur /\ \E z \in {"retryClaimed", "run"} : Goto(w, s, z)
        BY <1>0, <2>0, <3>3, ElsewhereGoto
      <3> QED BY <3>1, <3>2, <3>3
    <2> QED BY <1>9, <2>1, <2>2
  <1>10. ASSUME NEW w \in Workers, Recover(w) \/ RecoverDone(w) \/ Crash(w) PROVE NoNewAck
    <2>1. CASE Recover(w)
      BY <1>0, <2>1 DEF Recover, NoNewAck
    <2>2. CASE RecoverDone(w)
      BY <1>0, <2>2 DEF RecoverDone, NoNewAck
    <2>3. CASE Crash(w)
      BY <1>0, <2>3 DEF Crash, NoNewAck
    <2> QED BY <1>10, <2>1, <2>2, <2>3
  <1>11. ASSUME UNCHANGED <<pc, cur>> PROVE NoNewAck
    BY <1>11 DEF NoNewAck
  <1>12. ASSUME NEW w \in Workers,
                \/ \E k \in Coroutines : Renew(w, k)
                \/ \E s \in Scopes, m \in Msgs : ParkedHeartbeat(w, s, m)
                \/ StopFinish(w) \/ Stop(w)
         PROVE  NoNewAck
    BY <1>11, <1>12 DEF Renew, ParkedHeartbeat, StopFinish, Stop
  <1>13. CASE \/ \E s \in Scopes : LockExpires(s)
              \/ \E m \in Msgs : ClaimExpires(m)
              \/ \E t \in Tasks : Submit(t)
              \/ UNCHANGED vars
    BY <1>2, <1>11, <1>13 DEF LockExpires, ClaimExpires, Submit, localVars, vars
  <1> QED
    BY <1>2, <1>4, <1>5, <1>6, <1>7, <1>8, <1>9, <1>10, <1>12, <1>13 DEF Next, Step

\* Only an acknowledgement completes a task.
LEMMA NewlyDone ==
  ASSUME [Next]_vars, NEW t \in done' \ done
  PROVE  \E w \in Workers, k \in Coroutines : Ack(w, k) /\ t = TaskOf(cur[w][k])
  <1>1. ASSUME NEW w \in Workers, NEW k \in Coroutines, Ack(w, k)
        PROVE  t = TaskOf(cur[w][k])
    BY <1>1 DEF Ack
  <1>2. ASSUME NEW w \in Workers, NEW k \in Coroutines,
               \/ TakePermit(w, k) \/ StartLockFree(w, k) \/ StartLocked(w, k) \/ Park(w, k)
               \/ LockThrows(w, k) \/ AbandonClaim(w, k) \/ Renew(w, k) \/ Execute(w, k) \/ Fail(w, k)
               \/ Cascade(w, k) \/ Retry(w, k) \/ Bury(w, k) \/ BuryAck(w, k) \/ Leave(w, k)
        PROVE  FALSE
    BY <1>2 DEF TakePermit, StartLockFree, StartLocked, Park, LockThrows, AbandonClaim, Renew,
                Execute, Fail, Cascade, Retry, Bury, BuryAck, Leave
  <1>3. ASSUME NEW w \in Workers,
               \/ \E l \in Loops : Reserve(w, l) \/ ConsumeTask(w, l) \/ GiveBack(w, l) \/ LoopExits(w, l)
               \/ \E s \in Scopes : StartRetry(w, s) \/ RetryPermit(w, s) \/ RetryLock(w, s)
               \/ \E s \in Scopes, m \in Msgs : ParkedHeartbeat(w, s, m)
               \/ Recover(w) \/ RecoverDone(w)
        PROVE  FALSE
    BY <1>3 DEF Reserve, ConsumeTask, GiveBack, LoopExits, StartRetry, RetryPermit, RetryLock,
                ParkedHeartbeat, Recover, RecoverDone
  <1>4. ASSUME NEW w \in Workers, Stop(w) \/ StopFinish(w) \/ Crash(w) PROVE FALSE
    BY <1>4 DEF Stop, StopFinish, Crash
  <1>5. ASSUME \/ \E s \in Scopes : LockExpires(s)
               \/ \E m \in Msgs : ClaimExpires(m)
               \/ \E u \in Tasks : Submit(u)
               \/ UNCHANGED vars
        PROVE  FALSE
    BY <1>5 DEF LockExpires, ClaimExpires, Submit, vars
  <1> QED BY <1>1, <1>2, <1>3, <1>4, <1>5 DEF Next, Step

\* FollowUpNeverLost: in every interleaving, a task that was acknowledged as
\* complete has had its continuation enqueued.  It rests on cascadeSchedule
\* running to its end before ackTaskIfOwned is called.
THEOREM FollowUpsNeverLost == Spec => []FollowUpNeverLost
  <1>1. Init => AckFollowed /\ FollowUpNeverLost
    BY DEF Init, AckFollowed, FollowUpNeverLost
  <1>2. BaseInv /\ AckFollowed /\ FollowUpNeverLost /\ [Next]_vars => AckFollowed' /\ FollowUpNeverLost'
    <2> SUFFICES ASSUME BaseInv, AckFollowed, FollowUpNeverLost, [Next]_vars
                 PROVE  AckFollowed' /\ FollowUpNeverLost'
      OBVIOUS
    <2>1. \A t \in done' : Followed(t)
      <3>1. \A t \in done' \ done : \E w \in Workers, k \in Coroutines : Ack(w, k) /\ t = TaskOf(cur[w][k])
        BY NewlyDone
      <3> QED BY <3>1 DEF FollowUpNeverLost, Followed, AckFollowed, Ack
    <2>2. \A t \in done' : Followed(t)'
      BY <2>1, FollowedStays
    <2>3. FollowUpNeverLost'
      BY <2>2 DEF FollowUpNeverLost, Followed
    <2> QED BY <2>3, FollowStep
  <1> QED BY <1>1, <1>2, WorkersWellFormed, PTL DEF Spec

-----------------------------------------------------------------------------
(* The counters.                                                           *)

\* The coroutines that take part in the parked capacity.
Takers == Loops \cup Msgs

\* The coroutines with a permit; those whose task may still have to be parked.
Holding(w) == {k \in Coroutines : pc[w][k] \in WithPermit}
Unspent(w) == {k \in Takers : pc[w][k] \notin {"idle", "exited", "spent"}}

\* The places of the parked queues that are taken.
Slots(w) == UNION {{s} \X DOMAIN parked[w][s] : s \in Scopes}

\* What a coroutine in state z counts for.
Bit(b) == IF b THEN 1 ELSE 0
PermitOf(z) == Bit(z \in WithPermit)
ShareOf(k, z) == Bit(k \in Takers /\ z \notin {"idle", "exited"})
RiskOf(k, z) == Bit(k \in Takers /\ z \notin {"idle", "exited", "spent"})

\* A pool counts n permits of which h are held: none is forgotten, and one may
\* be held by nobody only after a call that failed.
Covered(n, h) == h <= n /\ n <= Permits /\ (~Faults => n = h)

\* The inductive invariant: the counters are exact, but for the permits
\* that failed calls leak; what is parked and what may
\* still be parked fits into the limit, which is stronger than ParkedBounded;
\* and a retry coroutine never waits for a permit as a fresh task does.
CounterInv ==
  /\ parkedCount \in [Workers -> Nat] /\ reserved \in [Workers -> Nat] /\ permits \in [Workers -> Nat]
  /\ \A w \in Workers :
       /\ reserved[w] = Cardinality(Parking(w))
       /\ Covered(permits[w], Cardinality(Holding(w)))
       /\ IsFiniteSet(Slots(w)) /\ parkedCount[w] = Cardinality(Slots(w))
       /\ parkedCount[w] + Cardinality(Unspent(w)) <= MaxParked
       /\ \A s \in Scopes : pc[w][s] \notin {"permit", "claimed"}

-----------------------------------------------------------------------------
\* Coroutines are finite in number.
LEMMA FiniteCoroutines == IsFiniteSet(Coroutines) /\ IsFiniteSet(Takers)
  <1>1. IsFiniteSet(Msgs)
    BY QueueAssumption, FS_Interval DEF Msgs
  <1>2. IsFiniteSet(Takers)
    BY <1>1, WorkerAssumption, FS_Union DEF Takers
  <1>3. Coroutines = Takers \cup Scopes
    BY DEF Coroutines, Takers
  <1> QED BY <1>2, <1>3, WorkerAssumption, FS_Union

\* The number of coroutines of C that f has in a state of P.
Count(f, C, P) == Cardinality({j \in C : f[j] \in P})

\* Function g is f with another state for k.
Moved(f, g, k, z) == g = [f EXCEPT ![k] = z]

\* When one coroutine moves, the number changes by at most one.
LEMMA CountMove ==
  ASSUME NEW C \in SUBSET Coroutines, NEW f \in [Coroutines -> States], NEW k \in Coroutines, NEW z, NEW P,
         NEW g, Moved(f, g, k, z)
  PROVE  /\ Count(g, C, P) =
              Count(f, C, P) + Bit(k \in C /\ z \in P)
                             - Bit(k \in C /\ f[k] \in P)
         /\ k \in C /\ f[k] \in P => Count(f, C, P) >= 1
  <1> DEFINE A == {j \in C : f[j] \in P}
             B == {j \in C : g[j] \in P}
  <1>0. IsFiniteSet(C)
    BY FiniteCoroutines, FS_Subset
  <1>1. IsFiniteSet(A) /\ IsFiniteSet(B)
    <2>1. A \in SUBSET C /\ B \in SUBSET C
      OBVIOUS
    <2> HIDE DEF A, B
    <2> QED BY <1>0, <2>1, FS_Subset
  <1>2. B \ {k} = A \ {k}
    BY DEF Moved
  <1>3. k \in A <=> k \in C /\ f[k] \in P
    OBVIOUS
  <1>4. k \in B <=> k \in C /\ z \in P
    BY DEF Moved
  <1>c. Count(f, C, P) = Cardinality(A) /\ Count(g, C, P) = Cardinality(B)
    BY DEF Count
  <1> HIDE DEF A, B
  <1>5. Cardinality(A \ {k}) = Cardinality(A) - Bit(k \in A)
    <2>1. Cardinality(A \ {k}) = IF k \in A THEN Cardinality(A) - 1 ELSE Cardinality(A)
      BY <1>1, FS_RemoveElement, Zenon
    <2> QED BY <1>1, <2>1, FS_CardinalityType DEF Bit
  <1>6. Cardinality(B \ {k}) = Cardinality(B) - Bit(k \in B)
    <2>1. Cardinality(B \ {k}) = IF k \in B THEN Cardinality(B) - 1 ELSE Cardinality(B)
      BY <1>1, FS_RemoveElement, Zenon
    <2> QED BY <1>1, <2>1, FS_CardinalityType DEF Bit
  <1>7. Cardinality(A) \in Nat /\ Cardinality(B) \in Nat
    BY <1>1, FS_CardinalityType
  <1>8. k \in A => Cardinality(A) >= 1
    BY <1>1, <1>7, FS_EmptySet
  <1>9. Cardinality(B) = Cardinality(A) + Bit(k \in B) - Bit(k \in A)
    <2>1. Cardinality(B \ {k}) = Cardinality(A \ {k})
      BY <1>2, Zenon
    <2> QED BY <1>5, <1>6, <1>7, <2>1 DEF Bit
  <1> QED BY <1>3, <1>4, <1>8, <1>9, <1>c DEF Bit

\* The three sets as CountMove has them.
LEMMA CountedSets ==
  ASSUME pc \in [Workers -> [Coroutines -> States]], NEW w \in Workers
  PROVE  /\ Parking(w) = {k \in Takers : pc[w][k] \in States \ {"idle", "exited"}}
         /\ Unspent(w) = {k \in Takers : pc[w][k] \in States \ {"idle", "exited", "spent"}}
         /\ Unspent(w) \subseteq Parking(w) /\ Parking(w) \subseteq Takers
         /\ IsFiniteSet(Parking(w)) /\ IsFiniteSet(Unspent(w)) /\ IsFiniteSet(Holding(w))
         /\ Cardinality(Parking(w)) \in Nat /\ Cardinality(Unspent(w)) \in Nat /\ Cardinality(Holding(w)) \in Nat
         /\ Cardinality(Unspent(w)) <= Cardinality(Parking(w))
  <1>1. Takers \subseteq Coroutines
    BY DEF Takers, Coroutines
  <1>2. /\ Parking(w) = {k \in Takers : pc[w][k] \in States \ {"idle", "exited"}}
        /\ Unspent(w) = {k \in Takers : pc[w][k] \in States \ {"idle", "exited", "spent"}}
        /\ Unspent(w) \subseteq Parking(w) /\ Parking(w) \subseteq Takers
    <2>1. \A k \in Takers : pc[w][k] \in States
      BY <1>1
    <2> QED BY <2>1 DEF Parking, Unspent, Takers
  <1>3. Holding(w) \subseteq Coroutines
    BY DEF Holding
  <1>4. IsFiniteSet(Parking(w)) /\ IsFiniteSet(Unspent(w)) /\ IsFiniteSet(Holding(w))
    BY <1>2, <1>3, FiniteCoroutines, FS_Subset
  <1>5. Cardinality(Unspent(w)) <= Cardinality(Parking(w))
    BY <1>2, <1>4, FS_Subset
  <1> QED BY <1>2, <1>4, <1>5, FS_CardinalityType

\* One coroutine moves: what each set gains or loses.
LEMMA PcMove ==
  ASSUME pc \in [Workers -> [Coroutines -> States]], NEW w \in Workers, NEW k \in Coroutines, NEW z \in States,
         pc' = [pc EXCEPT ![w][k] = z]
  PROVE  /\ \A v \in Workers : v # w =>
              /\ Parking(v)' = Parking(v) /\ Holding(v)' = Holding(v) /\ Unspent(v)' = Unspent(v)
         /\ Cardinality(Parking(w)') = Cardinality(Parking(w)) + ShareOf(k, z) - ShareOf(k, pc[w][k])
         /\ Cardinality(Holding(w)') = Cardinality(Holding(w)) + PermitOf(z) - PermitOf(pc[w][k])
         /\ Cardinality(Unspent(w)') = Cardinality(Unspent(w)) + RiskOf(k, z) - RiskOf(k, pc[w][k])
         /\ ShareOf(k, pc[w][k]) = 1 => Cardinality(Parking(w)) >= 1
         /\ PermitOf(pc[w][k]) = 1 => Cardinality(Holding(w)) >= 1
  <1>0. Takers \subseteq Coroutines
    BY DEF Takers, Coroutines
  <1>1. ASSUME NEW v \in Workers, v # w
        PROVE  Parking(v)' = Parking(v) /\ Holding(v)' = Holding(v) /\ Unspent(v)' = Unspent(v)
    <2>1. pc'[v] = pc[v]
      BY <1>1
    <2> QED BY <2>1 DEF Parking, Holding, Unspent
  <1>2. /\ pc'[w] = [pc[w] EXCEPT ![k] = z] /\ pc[w] \in [Coroutines -> States]
        /\ pc[w][k] \in States /\ pc' \in [Workers -> [Coroutines -> States]]
    OBVIOUS
  <1> DEFINE f == pc[w]
             Sharing == States \ {"idle", "exited"}
             Risking == States \ {"idle", "exited", "spent"}
  <1>3. /\ Cardinality(Parking(w)) = Count(f, Takers, Sharing)
        /\ Cardinality(Parking(w)') = Count(pc'[w], Takers, Sharing)
        /\ Cardinality(Unspent(w)) = Count(f, Takers, Risking)
        /\ Cardinality(Unspent(w)') = Count(pc'[w], Takers, Risking)
    <2>1. \A j \in Takers : pc[w][j] \in States /\ pc'[w][j] \in States
      BY <1>0, <1>2
    <2>2. /\ Parking(w) = {j \in Takers : pc[w][j] \in Sharing}
          /\ Parking(w)' = {j \in Takers : pc'[w][j] \in Sharing}
      BY <2>1 DEF Parking, Takers
    <2>3. /\ Unspent(w) = {j \in Takers : pc[w][j] \in Risking}
          /\ Unspent(w)' = {j \in Takers : pc'[w][j] \in Risking}
      BY <2>1 DEF Unspent
    <2> QED BY <2>2, <2>3 DEF Count
  <1>4. /\ Cardinality(Holding(w)) = Count(f, Coroutines, WithPermit)
        /\ Cardinality(Holding(w)') = Count(pc'[w], Coroutines, WithPermit)
    BY DEF Holding, Count
  <1>5. f \in [Coroutines -> States] /\ pc'[w] = [f EXCEPT ![k] = z] /\ f[k] \in States
    BY <1>2
  <1>s. /\ (f[k] \in Sharing <=> f[k] \notin {"idle", "exited"}) /\ (z \in Sharing <=> z \notin {"idle", "exited"})
        /\ f[k] \in Risking <=> f[k] \notin {"idle", "exited", "spent"}
        /\ z \in Risking <=> z \notin {"idle", "exited", "spent"}
    BY <1>5
  <1>t. Takers \in SUBSET Coroutines /\ Coroutines \in SUBSET Coroutines /\ Moved(f, pc'[w], k, z)
    BY <1>0, <1>5 DEF Moved
  <1>f. f \in [Coroutines -> States]
    BY <1>5
  <1> HIDE DEF f, Sharing, Risking
  <1>6. /\ Cardinality(Parking(w)') = Cardinality(Parking(w)) + ShareOf(k, z) - ShareOf(k, f[k])
        /\ ShareOf(k, f[k]) = 1 => Cardinality(Parking(w)) >= 1
    <2>1. /\ Count(pc'[w], Takers, Sharing) =
                Count(f, Takers, Sharing) + Bit(k \in Takers /\ z \in Sharing)
                                         - Bit(k \in Takers /\ f[k] \in Sharing)
          /\ k \in Takers /\ f[k] \in Sharing => Count(f, Takers, Sharing) >= 1
      BY <1>t, <1>f, CountMove
    <2> QED BY <1>3, <1>s, <2>1 DEF ShareOf, Bit
  <1>7. Cardinality(Unspent(w)') = Cardinality(Unspent(w)) + RiskOf(k, z) - RiskOf(k, f[k])
    <2>1. /\ Count(pc'[w], Takers, Risking) =
                Count(f, Takers, Risking) + Bit(k \in Takers /\ z \in Risking)
                                         - Bit(k \in Takers /\ f[k] \in Risking)
          /\ k \in Takers /\ f[k] \in Risking => Count(f, Takers, Risking) >= 1
      BY <1>t, <1>f, CountMove
    <2> QED BY <1>3, <1>s, <2>1 DEF RiskOf, Bit
  <1>8. /\ Cardinality(Holding(w)') = Cardinality(Holding(w)) + PermitOf(z) - PermitOf(f[k])
        /\ PermitOf(f[k]) = 1 => Cardinality(Holding(w)) >= 1
    <2> DEFINE All == Coroutines
    <2>0. All \in SUBSET Coroutines
      OBVIOUS
    <2> HIDE DEF All
    <2>1. /\ Count(pc'[w], All, WithPermit) =
                Count(f, All, WithPermit) + Bit(k \in All /\ z \in WithPermit)
                                         - Bit(k \in All /\ f[k] \in WithPermit)
          /\ k \in All /\ f[k] \in WithPermit => Count(f, All, WithPermit) >= 1
      BY <2>0, <1>t, <1>f, CountMove
    <2> QED BY <1>4, <2>1 DEF PermitOf, Bit, All
  <1> QED BY <1>1, <1>6, <1>7, <1>8 DEF f

\* The reservations and permits follow the move of one coroutine.
Reserves(w, k, z) == reserved' = [reserved EXCEPT ![w] = @ + ShareOf(k, z) - ShareOf(k, pc[w][k])]
Permitted(w, k, z) ==
  \/ permits' = [permits EXCEPT ![w] = @ + PermitOf(z) - PermitOf(pc[w][k])]
  \/ Faults /\ PermitOf(z) = 0 /\ UNCHANGED permits

\* Afterwards worker w has n parked entries, and counts them.
SlotsAre(w, n) ==
  /\ parkedCount' = [parkedCount EXCEPT ![w] = n]
  /\ IsFiniteSet(Slots(w)') /\ n = Cardinality(Slots(w)')
  /\ \A v \in Workers : v # w => Slots(v)' = Slots(v)

\* A step of one coroutine keeps the invariant if the counters follow.
LEMMA CounterMove ==
  ASSUME CounterInv, pc \in [Workers -> [Coroutines -> States]],
         NEW w \in Workers, NEW k \in Coroutines, NEW z \in States, NEW n \in Nat,
         Goto(w, k, z), Reserves(w, k, z), Permitted(w, k, z), SlotsAre(w, n),
         PermitOf(z) > PermitOf(pc[w][k]) => permits[w] < Permits,
         n + Cardinality(Unspent(w)) + RiskOf(k, z) - RiskOf(k, pc[w][k]) <= MaxParked,
         k \in Scopes => z \notin {"permit", "claimed"}
  PROVE  CounterInv'
  <1> USE DEF CounterInv, Goto, Reserves, Permitted, SlotsAre
  <1>1. /\ \A v \in Workers : v # w =>
              /\ Parking(v)' = Parking(v) /\ Holding(v)' = Holding(v) /\ Unspent(v)' = Unspent(v)
        /\ Cardinality(Parking(w)') = Cardinality(Parking(w)) + ShareOf(k, z) - ShareOf(k, pc[w][k])
        /\ Cardinality(Holding(w)') = Cardinality(Holding(w)) + PermitOf(z) - PermitOf(pc[w][k])
        /\ Cardinality(Unspent(w)') = Cardinality(Unspent(w)) + RiskOf(k, z) - RiskOf(k, pc[w][k])
        /\ ShareOf(k, pc[w][k]) = 1 => Cardinality(Parking(w)) >= 1
        /\ PermitOf(pc[w][k]) = 1 => Cardinality(Holding(w)) >= 1
    BY PcMove
  <1>2. /\ ShareOf(k, z) \in 0..1 /\ ShareOf(k, pc[w][k]) \in 0..1
        /\ PermitOf(z) \in 0..1 /\ PermitOf(pc[w][k]) \in 0..1
        /\ RiskOf(k, z) \in 0..1 /\ RiskOf(k, pc[w][k]) \in 0..1
    BY DEF ShareOf, PermitOf, RiskOf, Bit
  <1>3. /\ Cardinality(Parking(w)) \in Nat /\ Cardinality(Unspent(w)) \in Nat /\ Cardinality(Holding(w)) \in Nat
    BY CountedSets
  <1>4. /\ parkedCount' \in [Workers -> Nat] /\ reserved' \in [Workers -> Nat] /\ permits' \in [Workers -> Nat]
    <2>1. reserved[w] + ShareOf(k, z) - ShareOf(k, pc[w][k]) \in Nat
      BY <1>1, <1>2, <1>3
    <2>2. permits[w] + PermitOf(z) - PermitOf(pc[w][k]) \in Nat
      BY <1>1, <1>2, <1>3 DEF Covered
    <2>3. parkedCount' \in [Workers -> Nat]
      OBVIOUS
    <2> QED BY <2>1, <2>2, <2>3
  <1>5. reserved'[w] = Cardinality(Parking(w)')
    BY <1>1
  <1>6. Covered(permits'[w], Cardinality(Holding(w)'))
    <2>1. \/ permits'[w] = permits[w] + PermitOf(z) - PermitOf(pc[w][k])
          \/ Faults /\ PermitOf(z) = 0 /\ permits'[w] = permits[w]
      OBVIOUS
    <2>2. Covered(permits[w], Cardinality(Holding(w))) /\ permits[w] \in Nat
      OBVIOUS
    <2>3. PermitOf(z) > PermitOf(pc[w][k]) => permits[w] < Permits
      OBVIOUS
    <2> HIDE DEF CounterInv, Goto, Reserves, Permitted, SlotsAre
    <2> QED BY <1>1, <1>2, <1>3, <2>1, <2>2, <2>3, WorkerAssumption DEF Covered
  <1>7. parkedCount'[w] = n /\ n + Cardinality(Unspent(w)') <= MaxParked
    <2>1. parkedCount'[w] = n
      OBVIOUS
    <2> QED BY <1>1, <1>2, <1>3, <2>1, WorkerAssumption
  <1>8. ASSUME NEW s \in Scopes, NEW v \in Workers PROVE pc'[v][s] \notin {"permit", "claimed"}
    <2>1. s \in Coroutines
      BY DEF Coroutines
    <2>2. CASE v = w /\ s = k
      BY <2>1, <2>2
    <2>3. CASE ~(v = w /\ s = k)
      BY <2>1, <2>3
    <2> QED BY <2>2, <2>3
  <1>9. ASSUME NEW v \in Workers, v # w
        PROVE  /\ reserved'[v] = Cardinality(Parking(v)')
               /\ Covered(permits'[v], Cardinality(Holding(v)'))
               /\ IsFiniteSet(Slots(v)') /\ parkedCount'[v] = Cardinality(Slots(v)')
               /\ parkedCount'[v] + Cardinality(Unspent(v)') <= MaxParked
    <2>1. reserved'[v] = reserved[v] /\ permits'[v] = permits[v] /\ parkedCount'[v] = parkedCount[v]
      BY <1>9
    <2> QED BY <1>1, <1>9, <2>1
  <1> QED BY <1>4, <1>5, <1>6, <1>7, <1>8, <1>9

-----------------------------------------------------------------------------
(* The parked queues and their count.                                      *)

\* Nothing is parked or taken out.
LEMMA SlotsSame ==
  ASSUME CounterInv, NEW w \in Workers, UNCHANGED <<parked, parkedCount>>
  PROVE  SlotsAre(w, parkedCount[w]) /\ parkedCount[w] \in Nat
  <1>1. \A v \in Workers : Slots(v)' = Slots(v)
    BY DEF Slots
  <1> QED BY <1>1 DEF SlotsAre, CounterInv

\* The queue of scope s becomes q: the slots of s are the positions of q.
LEMMA SlotsOfQueue ==
  ASSUME parked \in [Workers -> [Scopes -> Seq(Msgs)]], NEW w \in Workers, NEW s \in Scopes,
         NEW q \in Seq(Msgs), parked' = [parked EXCEPT ![w][s] = q]
  PROVE  /\ \A v \in Workers : v # w => Slots(v)' = Slots(v)
         /\ \A z \in Scopes : \A i : <<z, i>> \in Slots(w) <=> i \in 1..Len(parked[w][z])
         /\ \A z \in Scopes : \A i : <<z, i>> \in Slots(w)' <=> i \in (IF z = s THEN 1..Len(q) ELSE 1..Len(parked[w][z]))
         /\ \A x \in Slots(w) \cup Slots(w)' : \E z \in Scopes, i \in Nat : x = <<z, i>>
  <1>1. \A v \in Workers : v # w => parked'[v] = parked[v]
    OBVIOUS
  <1>2. \A z \in Scopes : parked'[w][z] = IF z = s THEN q ELSE parked[w][z]
    OBVIOUS
  <1>3. \A z \in Scopes : parked[w][z] \in Seq(Msgs) /\ parked'[w][z] \in Seq(Msgs)
    BY <1>2
  <1>4. \A z \in Scopes : /\ DOMAIN parked[w][z] = 1..Len(parked[w][z])
                          /\ DOMAIN parked'[w][z] = 1..Len(parked'[w][z])
    BY <1>3
  <1>5. \A v \in Workers : v # w => Slots(v)' = Slots(v)
    BY <1>1 DEF Slots
  <1>6. \A z \in Scopes : \A i : <<z, i>> \in Slots(w) <=> i \in 1..Len(parked[w][z])
    BY <1>4 DEF Slots
  <1>7. \A z \in Scopes : \A i : <<z, i>> \in Slots(w)' <=> i \in 1..Len(parked'[w][z])
    BY <1>4 DEF Slots
  <1>8. ASSUME NEW x \in Slots(w) \cup Slots(w)' PROVE \E z \in Scopes, i \in Nat : x = <<z, i>>
    <2>1. CASE x \in Slots(w)
      <3>1. PICK z \in Scopes : x \in {z} \X DOMAIN parked[w][z]
        BY <2>1 DEF Slots
      <3> QED BY <1>4, <3>1
    <2>2. CASE x \in Slots(w)'
      <3>1. PICK z \in Scopes : x \in {z} \X DOMAIN parked'[w][z]
        BY <2>2 DEF Slots
      <3> QED BY <1>4, <3>1
    <2> QED BY <2>1, <2>2
  <1> QED BY <1>2, <1>5, <1>6, <1>7, <1>8

\* parkTask.
LEMMA SlotsPark ==
  ASSUME CounterInv, parked \in [Workers -> [Scopes -> Seq(Msgs)]],
         NEW w \in Workers, NEW s \in Scopes, NEW m \in Msgs,
         parked' = [parked EXCEPT ![w][s] = Append(@, m)],
         parkedCount' = [parkedCount EXCEPT ![w] = @ + 1]
  PROVE  SlotsAre(w, parkedCount[w] + 1) /\ parkedCount[w] + 1 \in Nat
  <1> DEFINE q == Append(parked[w][s], m)
             n == Len(parked[w][s])
  <1>1. parked[w][s] \in Seq(Msgs) /\ n \in Nat /\ q \in Seq(Msgs) /\ Len(q) = n + 1
    OBVIOUS
  <1>2. parked' = [parked EXCEPT ![w][s] = q]
    OBVIOUS
  <1> HIDE DEF q, n
  <1>3. /\ \A v \in Workers : v # w => Slots(v)' = Slots(v)
        /\ \A z \in Scopes : \A i : <<z, i>> \in Slots(w) <=> i \in 1..Len(parked[w][z])
        /\ \A z \in Scopes : \A i : <<z, i>> \in Slots(w)' <=> i \in (IF z = s THEN 1..Len(q) ELSE 1..Len(parked[w][z]))
        /\ \A x \in Slots(w) \cup Slots(w)' : \E z \in Scopes, i \in Nat : x = <<z, i>>
    BY <1>1, <1>2, SlotsOfQueue
  <1>4. ASSUME NEW z \in Scopes, NEW i \in Nat
        PROVE  <<z, i>> \in Slots(w)' <=> <<z, i>> \in Slots(w) \/ (z = s /\ i = n + 1)
    <2>1. CASE z = s
      <3>1. <<z, i>> \in Slots(w)' <=> i \in 1..(n + 1)
        BY <1>1, <1>3, <2>1
      <3>2. <<z, i>> \in Slots(w) <=> i \in 1..n
        BY <1>3, <2>1 DEF n
      <3> QED BY <1>1, <2>1, <3>1, <3>2
    <2>2. CASE z # s
      BY <1>3, <2>2
    <2> QED BY <2>1, <2>2
  <1>5. Slots(w)' = Slots(w) \cup {<<s, n + 1>>} /\ <<s, n + 1>> \notin Slots(w)
    BY <1>1, <1>3, <1>4 DEF n
  <1>6. IsFiniteSet(Slots(w)) /\ parkedCount[w] = Cardinality(Slots(w)) /\ parkedCount[w] \in Nat
    BY DEF CounterInv
  <1>7. IsFiniteSet(Slots(w)') /\ Cardinality(Slots(w)') = parkedCount[w] + 1
    <2> DEFINE x == <<s, n + 1>>
    <2>1. Slots(w)' = Slots(w) \cup {x} /\ x \notin Slots(w)
      BY <1>5
    <2> HIDE DEF x
    <2>2. /\ IsFiniteSet(Slots(w) \cup {x})
          /\ Cardinality(Slots(w) \cup {x}) = Cardinality(Slots(w)) + 1
      BY <1>6, <2>1, FS_AddElement
    <2>3. /\ IsFiniteSet(Slots(w)')
          /\ Cardinality(Slots(w)') = Cardinality(Slots(w)) + 1
      BY <2>1, <2>2, Zenon
    <2> QED BY <1>6, <2>3
  <1> QED BY <1>3, <1>6, <1>7 DEF SlotsAre

\* removeParkedEntry.
LEMMA SlotsUnpark ==
  ASSUME CounterInv, parked \in [Workers -> [Scopes -> Seq(Msgs)]],
         NEW w \in Workers, NEW s \in Scopes, NEW m, Unpark(w, s, m)
  PROVE  \E n \in Nat : n <= parkedCount[w] /\ SlotsAre(w, n)
  <1> DEFINE q == RemoveFirst(parked[w][s], m)
             n == Len(parked[w][s])
  <1>1. parked[w][s] \in Seq(Msgs) /\ n \in Nat
    OBVIOUS
  <1>2. parked' = [parked EXCEPT ![w][s] = q]
    BY DEF Unpark
  <1>3. /\ q \in Seq(Msgs)
        /\ m \notin ParkedIn(w, s) => q = parked[w][s]
        /\ m \in ParkedIn(w, s) => Len(q) = n - 1 /\ n >= 1
    <2> DEFINE p == parked[w][s]
    <2>1. m \in ParkedIn(w, s) <=> \E i \in 1..Len(p) : p[i] = m
      BY <1>1 DEF ParkedIn, Range
    <2>2. p \in Seq(Msgs) /\ q = RemoveFirst(p, m) /\ Len(p) \in Nat /\ n = Len(p)
      BY <1>1
    <2> HIDE DEF p, q, n
    <2>3. /\ q \in Seq(Msgs)
          /\ (\A i \in 1..Len(p) : p[i] # m) => q = p
          /\ (\E i \in 1..Len(p) : p[i] = m) => Len(q) = Len(p) - 1
      BY <2>2, RemoveFirstProperties
    <2>4. (\E i \in 1..Len(p) : p[i] = m) => Len(p) >= 1
      BY <2>2
    <2>5. CASE m \in ParkedIn(w, s)
      BY <2>1, <2>2, <2>3, <2>4, <2>5
    <2>6. CASE m \notin ParkedIn(w, s)
      BY <2>1, <2>3, <2>6 DEF p
    <2> QED BY <2>3, <2>5, <2>6
  <1>4. IsFiniteSet(Slots(w)) /\ parkedCount[w] = Cardinality(Slots(w)) /\ parkedCount[w] \in Nat
    BY DEF CounterInv
  <1> HIDE DEF q
  <1>5. /\ \A v \in Workers : v # w => Slots(v)' = Slots(v)
        /\ \A z \in Scopes : \A i : <<z, i>> \in Slots(w) <=> i \in 1..Len(parked[w][z])
        /\ \A z \in Scopes : \A i : <<z, i>> \in Slots(w)' <=> i \in (IF z = s THEN 1..Len(q) ELSE 1..Len(parked[w][z]))
        /\ \A x \in Slots(w) \cup Slots(w)' : \E z \in Scopes, i \in Nat : x = <<z, i>>
    BY <1>2, <1>3, SlotsOfQueue
  <1>6. CASE m \notin ParkedIn(w, s)
    <2>1. UNCHANGED <<parked, parkedCount>>
      BY <1>2, <1>3, <1>6 DEF Unpark, CounterInv
    <2> QED BY <2>1, SlotsSame, <1>4
  <1>7. CASE m \in ParkedIn(w, s)
    <2>1. ASSUME NEW z \in Scopes, NEW i \in Nat
          PROVE  <<z, i>> \in Slots(w)' <=> <<z, i>> \in Slots(w) /\ ~(z = s /\ i = n)
      <3>1. CASE z = s
        <4>1. <<z, i>> \in Slots(w)' <=> i \in 1..(n - 1)
          BY <1>3, <1>5, <1>7, <3>1
        <4>2. <<z, i>> \in Slots(w) <=> i \in 1..n
          BY <1>5, <3>1
        <4> HIDE DEF n
        <4> QED BY <1>1, <1>3, <1>7, <3>1, <4>1, <4>2
      <3>2. CASE z # s
        BY <1>5, <3>2
      <3> QED BY <3>1, <3>2
    <2>2. Slots(w)' = Slots(w) \ {<<s, n>>} /\ <<s, n>> \in Slots(w)
      BY <1>1, <1>3, <1>5, <1>7, <2>1
    <2>3. Cardinality(Slots(w)) # 0
      BY <1>4, <2>2, FS_EmptySet
    <2>4. /\ IsFiniteSet(Slots(w)')
          /\ Cardinality(Slots(w)') = parkedCount[w] - 1
      <3> DEFINE x == <<s, n>>
      <3>1. Slots(w)' = Slots(w) \ {x} /\ x \in Slots(w)
        BY <2>2
      <3> HIDE DEF x
      <3>2. /\ IsFiniteSet(Slots(w) \ {x})
            /\ Cardinality(Slots(w) \ {x}) = Cardinality(Slots(w)) - 1
        BY <1>4, <3>1, FS_RemoveElement
      <3>3. /\ IsFiniteSet(Slots(w)')
            /\ Cardinality(Slots(w)') = Cardinality(Slots(w)) - 1
        BY <3>1, <3>2, Zenon
      <3> QED BY <1>4, <3>3
    <2>5. parkedCount[w] >= 1
      BY <1>4, <2>3
    <2>6. parkedCount' = [parkedCount EXCEPT ![w] = parkedCount[w] - 1]
      <3>1. Dec(parkedCount[w]) = parkedCount[w] - 1
        BY <2>5, <1>4 DEF Dec
      <3>2. parkedCount' = [parkedCount EXCEPT ![w] = Dec(parkedCount[w])]
        BY <1>7 DEF Unpark
      <3> QED BY <3>1, <3>2
    <2>7. parkedCount[w] - 1 \in Nat /\ parkedCount[w] - 1 <= parkedCount[w]
      BY <1>4, <2>5
    <2>8. SlotsAre(w, parkedCount[w] - 1)
      BY <1>5, <2>4, <2>6 DEF SlotsAre
    <2> QED BY <2>7, <2>8
  <1> QED BY <1>6, <1>7

-----------------------------------------------------------------------------
(* The steps of single coroutines.                                         *)

\* What is not changed is set to what it was.
LEMMA Still ==
  ASSUME CounterInv, NEW w \in Workers
  PROVE  /\ UNCHANGED reserved => reserved' = [reserved EXCEPT ![w] = reserved[w]]
         /\ UNCHANGED permits => permits' = [permits EXCEPT ![w] = permits[w]]
         /\ reserved[w] \in Nat /\ permits[w] \in Nat /\ parkedCount[w] \in Nat
         /\ Cardinality(Unspent(w)) \in Int /\ parkedCount[w] + Cardinality(Unspent(w)) <= MaxParked
  <1>1. parkedCount[w] + Cardinality(Unspent(w)) <= MaxParked
    BY DEF CounterInv
  <1>2. IsFiniteSet(Unspent(w))
    <2>1. Unspent(w) \in SUBSET Takers
      BY DEF Unspent
    <2> QED BY <2>1, FiniteCoroutines, FS_Subset
  <1> QED BY <1>1, <1>2, FS_CardinalityType DEF CounterInv

\* A coroutine that moves among states that count alike.
LEMMA MoveQuietly ==
  ASSUME CounterInv, LocalType, NEW w \in Workers, NEW k \in Coroutines, NEW z \in States,
         Goto(w, k, z), UNCHANGED <<reserved, permits, parked, parkedCount>>,
         ShareOf(k, z) = ShareOf(k, pc[w][k]), RiskOf(k, z) = RiskOf(k, pc[w][k]),
         PermitOf(z) = PermitOf(pc[w][k]), k \in Scopes => z \notin {"permit", "claimed"}
  PROVE  CounterInv'
  <1>1. SlotsAre(w, parkedCount[w]) /\ parkedCount[w] \in Nat
    BY SlotsSame
  <1>2. /\ ShareOf(k, z) \in 0..1 /\ RiskOf(k, z) \in 0..1 /\ PermitOf(z) \in 0..1
    BY DEF ShareOf, RiskOf, PermitOf, Bit
  <1>3. reserved' = [reserved EXCEPT ![w] = reserved[w]] /\ permits' = [permits EXCEPT ![w] = permits[w]]
    BY Still
  <1>4. /\ reserved[w] = reserved[w] + ShareOf(k, z) - ShareOf(k, pc[w][k])
        /\ permits[w] = permits[w] + PermitOf(z) - PermitOf(pc[w][k])
    BY <1>2, Still
  <1>5. Reserves(w, k, z) /\ Permitted(w, k, z)
    BY <1>3, <1>4 DEF Reserves, Permitted
  <1>6. parkedCount[w] + Cardinality(Unspent(w)) + RiskOf(k, z) - RiskOf(k, pc[w][k]) <= MaxParked
    BY <1>2, Still
  <1>7. pc \in [Workers -> [Coroutines -> States]] /\ ~(PermitOf(z) > PermitOf(pc[w][k]))
    BY <1>2 DEF LocalType
  <1> QED BY <1>1, <1>5, <1>6, <1>7, CounterMove

\* A coroutine that still counts in state z has found room next to c entries.
Fits(w, k, z, c) == RiskOf(k, z) = 1 => c + reserved[w] <= MaxParked

\* AfterTask for a coroutine that has a message.
LEMMA AfterTaskCharges ==
  ASSUME CounterInv, LocalType, NEW w \in Workers, NEW k \in Coroutines, pc[w][k] \in Active,
         NEW c \in Nat, AfterTask(w, k, c)
  PROVE  \E z \in {"polling", "idle", "exited", "spent"} :
           /\ Goto(w, k, z)
           /\ Reserves(w, k, z)
           /\ RiskOf(k, z) <= RiskOf(k, pc[w][k])
           /\ k \in Takers => /\ RiskOf(k, pc[w][k]) = 1 /\ Fits(w, k, z, c)
  <1> USE DEF Active, WithPermit, Executing
  <1>0. reserved \in [Workers -> Nat] /\ pc \in [Workers -> [Coroutines -> States]]
    BY DEF CounterInv, LocalType
  <1>1. CASE k \in Loops
    <2>1. k \in Takers /\ ShareOf(k, pc[w][k]) = 1 /\ RiskOf(k, pc[w][k]) = 1
      BY <1>1 DEF Takers, ShareOf, RiskOf, Bit
    <2>2. reserved[w] \in Nat /\ reserved[w] >= 1
      <3>1. k \in Parking(w)
        BY <1>1 DEF Parking
      <3>2. IsFiniteSet(Parking(w)) /\ reserved[w] = Cardinality(Parking(w)) /\ Cardinality(Parking(w)) \in Nat
        BY <1>0, CountedSets DEF CounterInv
      <3> QED BY <3>1, <3>2, FS_EmptySet
    <2>3. Dec(reserved[w]) = reserved[w] - 1
      BY <2>2 DEF Dec
    <2>4. CASE Up(w) /\ c + Dec(reserved[w]) < MaxParked
      <3>1. Goto(w, k, "polling") /\ reserved' = reserved
        BY <1>1, <2>4 DEF AfterTask, Finish
      <3>2. ShareOf(k, "polling") = 1 /\ RiskOf(k, "polling") = 1
        BY <2>1 DEF ShareOf, RiskOf, Bit
      <3>3. Reserves(w, k, "polling")
        BY <1>0, <2>1, <2>2, <3>1, <3>2 DEF Reserves
      <3>4. Fits(w, k, "polling", c)
        BY <2>2, <2>3, <2>4, WorkerAssumption DEF Fits
      <3> QED BY <2>1, <3>1, <3>2, <3>3, <3>4
    <2>5. CASE ~(Up(w) /\ c + Dec(reserved[w]) < MaxParked)
      <3>1. PICK z \in {"idle", "exited"} : Goto(w, k, z)
        BY <1>1, <2>5 DEF AfterTask, Finish
      <3>2. reserved' = [reserved EXCEPT ![w] = reserved[w] - 1]
        BY <1>1, <2>3, <2>5 DEF AfterTask
      <3>3. ShareOf(k, z) = 0 /\ RiskOf(k, z) = 0
        BY <3>1 DEF ShareOf, RiskOf, Bit
      <3>4. reserved[w] + ShareOf(k, z) - ShareOf(k, pc[w][k]) = reserved[w] - 1
        BY <2>1, <2>2, <3>3
      <3>5. Reserves(w, k, z)
        BY <3>2, <3>4 DEF Reserves
      <3>6. Fits(w, k, z, c)
        BY <3>3 DEF Fits
      <3> QED BY <2>1, <3>1, <3>3, <3>5, <3>6
    <2> QED BY <2>4, <2>5
  <1>2. CASE k \in Msgs /\ k \notin Loops
    <2>1. Goto(w, k, "spent") /\ reserved' = reserved
      BY <1>2 DEF AfterTask, Finish
    <2>2. /\ ShareOf(k, "spent") = 1 /\ RiskOf(k, "spent") = 0
          /\ ShareOf(k, pc[w][k]) = 1 /\ RiskOf(k, pc[w][k]) = 1
      BY <1>2 DEF Takers, ShareOf, RiskOf, Bit
    <2>3. Reserves(w, k, "spent")
      BY <1>0, <2>1, <2>2 DEF Reserves
    <2>4. Fits(w, k, "spent", c)
      BY <2>2 DEF Fits
    <2> QED BY <2>1, <2>2, <2>3, <2>4
  <1>3. CASE k \notin Takers
    <2>1. Goto(w, k, "idle") /\ reserved' = reserved
      BY <1>3 DEF AfterTask, Finish, Takers
    <2>2. /\ ShareOf(k, "idle") = 0 /\ RiskOf(k, "idle") = 0
          /\ ShareOf(k, pc[w][k]) = 0 /\ RiskOf(k, pc[w][k]) = 0
      BY <1>3 DEF ShareOf, RiskOf, Bit
    <2>3. Reserves(w, k, "idle")
      BY <1>0, <2>1, <2>2 DEF Reserves
    <2> QED BY <1>3, <2>1, <2>2, <2>3
  <1> QED BY <1>1, <1>2, <1>3 DEF Takers

\* No coroutine moves and nothing is parked.
LEMMA NoMove ==
  ASSUME CounterInv, UNCHANGED <<pc, reserved, permits, parked, parkedCount>>
  PROVE  CounterInv'
  <1>1. ASSUME NEW v \in Workers
        PROVE  Parking(v)' = Parking(v) /\ Holding(v)' = Holding(v) /\ Unspent(v)' = Unspent(v) /\ Slots(v)' = Slots(v)
    BY DEF Parking, Holding, Unspent, Slots
  <1> QED BY <1>1 DEF CounterInv

\* A task is over: its coroutine returns the permit if it has one, unless a call
\* failed, and may have parked its message.
LEMMA TaskEnds ==
  ASSUME CounterInv, LocalType, NEW w \in Workers, NEW k \in Coroutines, pc[w][k] \in Active,
         NEW c \in Nat, AfterTask(w, k, c), SlotsAre(w, c),
         \/ permits' = [permits EXCEPT ![w] = permits[w] - PermitOf(pc[w][k])]
         \/ Faults /\ UNCHANGED permits,
         c = parkedCount[w] \/ (c = parkedCount[w] + 1 /\ k \in Takers)
  PROVE  CounterInv'
  <1>1. PICK z \in {"polling", "idle", "exited", "spent"} :
              /\ Goto(w, k, z)
              /\ Reserves(w, k, z)
              /\ RiskOf(k, z) <= RiskOf(k, pc[w][k])
              /\ k \in Takers => /\ RiskOf(k, pc[w][k]) = 1 /\ Fits(w, k, z, c)
    BY AfterTaskCharges
  <1>2. z \in States /\ z \notin {"permit", "claimed"} /\ PermitOf(z) = 0 /\ PermitOf(pc[w][k]) \in 0..1
    BY DEF States, WithPermit, Executing, PermitOf, Bit
  <1>3. Permitted(w, k, z)
    <2>1. permits[w] - PermitOf(pc[w][k]) = permits[w] + PermitOf(z) - PermitOf(pc[w][k])
      <3>1. permits[w] \in Nat
        BY Still
      <3> QED BY <1>2, <3>1
    <2> QED BY <1>2, <2>1 DEF Permitted
  <1>4. ~(PermitOf(z) > PermitOf(pc[w][k]))
    BY <1>2
  <1>5. RiskOf(k, z) \in 0..1 /\ RiskOf(k, pc[w][k]) \in 0..1
    BY DEF RiskOf, Bit
  <1>p. pc \in [Workers -> [Coroutines -> States]]
    BY DEF LocalType
  <1>6. Cardinality(Unspent(w)) <= reserved[w]
    <2>1. Cardinality(Unspent(w)) <= Cardinality(Parking(w))
      BY <1>p, CountedSets
    <2> QED BY <2>1 DEF CounterInv
  <1>7. c + Cardinality(Unspent(w)) + RiskOf(k, z) - RiskOf(k, pc[w][k]) <= MaxParked
    <2>1. /\ reserved[w] \in Nat /\ parkedCount[w] \in Nat /\ Cardinality(Unspent(w)) \in Int
          /\ parkedCount[w] + Cardinality(Unspent(w)) <= MaxParked /\ MaxParked \in Nat
      BY Still, WorkerAssumption
    <2>2. CASE c = parkedCount[w]
      BY <1>1, <1>5, <2>1, <2>2
    <2>3. CASE c = parkedCount[w] + 1 /\ k \in Takers
      <3>1. RiskOf(k, pc[w][k]) = 1 /\ Fits(w, k, z, c)
        BY <1>1, <2>3, Zenon
      <3>2. RiskOf(k, z) = 0 \/ RiskOf(k, z) = 1
        BY <1>5
      <3> QED BY <1>6, <2>1, <2>3, <3>1, <3>2 DEF Fits
    <2> QED BY <2>2, <2>3
  <1> QED BY <1>1, <1>2, <1>3, <1>4, <1>7, <1>p, CounterMove

\* A retry coroutine moves; its queue may have become shorter.
LEMMA RetryMove ==
  ASSUME CounterInv, LocalType, NEW w \in Workers, NEW s \in Scopes, NEW z \in States,
         z \notin {"permit", "claimed"}, Goto(w, s, z), UNCHANGED reserved,
         permits' = [permits EXCEPT ![w] = permits[w] + PermitOf(z) - PermitOf(pc[w][s])],
         PermitOf(z) > PermitOf(pc[w][s]) => permits[w] < Permits,
         NEW n \in Nat, n <= parkedCount[w], SlotsAre(w, n)
  PROVE  CounterInv'
  <1>1. s \in Coroutines /\ s \notin Takers
    BY WorkerAssumption DEF Coroutines, Takers
  <1>2. /\ ShareOf(s, z) = 0 /\ ShareOf(s, pc[w][s]) = 0
        /\ RiskOf(s, z) = 0 /\ RiskOf(s, pc[w][s]) = 0
    BY <1>1 DEF ShareOf, RiskOf, Bit
  <1>3. reserved' = [reserved EXCEPT ![w] = reserved[w]] /\ reserved[w] \in Nat
    BY Still
  <1>4. Reserves(w, s, z)
    <2>1. reserved[w] = reserved[w] + ShareOf(s, z) - ShareOf(s, pc[w][s])
      BY <1>2, <1>3
    <2> QED BY <1>3, <2>1 DEF Reserves
  <1>5. Permitted(w, s, z)
    BY DEF Permitted
  <1>6. n + Cardinality(Unspent(w)) + RiskOf(s, z) - RiskOf(s, pc[w][s]) <= MaxParked
    <2>1. parkedCount[w] \in Nat /\ Cardinality(Unspent(w)) \in Int /\ parkedCount[w] + Cardinality(Unspent(w)) <= MaxParked
      BY Still
    <2> QED BY <1>2, <2>1, WorkerAssumption
  <1>p. pc \in [Workers -> [Coroutines -> States]]
    BY DEF LocalType
  <1> QED BY <1>1, <1>4, <1>5, <1>6, <1>p, CounterMove

\* A parked entry is dropped and no coroutine moves.
LEMMA UnparkOnly ==
  ASSUME CounterInv, LocalType, NEW w \in Workers, NEW s \in Scopes, NEW m, Unpark(w, s, m),
         UNCHANGED <<pc, reserved, permits>>
  PROVE  CounterInv'
  <1> DEFINE z == pc[w][s]
  <1>1. s \in Coroutines /\ pc \in [Workers -> [Coroutines -> States]]
    BY DEF Coroutines, LocalType
  <1>2. z \in States /\ z \notin {"permit", "claimed"}
    BY <1>1 DEF CounterInv
  <1>3. Goto(w, s, z)
    BY <1>1 DEF Goto
  <1>4. PICK n \in Nat : n <= parkedCount[w] /\ SlotsAre(w, n)
    BY SlotsUnpark DEF LocalType
  <1>5. PermitOf(z) \in 0..1
    BY DEF PermitOf, Bit
  <1>6. permits' = [permits EXCEPT ![w] = permits[w] + PermitOf(z) - PermitOf(z)] /\ ~(PermitOf(z) > PermitOf(z))
    BY <1>5, Still
  <1> QED
    <2> HIDE DEF z
    <2>1. UNCHANGED reserved
      OBVIOUS
    <2>2. z = pc[w][s]
      BY DEF z
    <2> QED BY <1>2, <1>3, <1>4, <1>6, <2>1, <2>2, RetryMove

-----------------------------------------------------------------------------
(* The actions.                                                            *)

\* Between two states with a permit nothing is counted anew.
LEMMA PermitKept ==
  ASSUME CounterInv, LocalType, NEW w \in Workers, NEW k \in Coroutines, NEW z \in Executing,
         pc[w][k] \in WithPermit, Goto(w, k, z), UNCHANGED <<reserved, permits, parked, parkedCount>>
  PROVE  CounterInv'
  <1>1. /\ z \in States
        /\ ShareOf(k, z) = ShareOf(k, pc[w][k]) /\ RiskOf(k, z) = RiskOf(k, pc[w][k])
        /\ PermitOf(z) = PermitOf(pc[w][k])
        /\ z \notin {"permit", "claimed"}
    BY DEF States, WithPermit, Executing, ShareOf, RiskOf, PermitOf, Bit
  <1> QED BY <1>1, MoveQuietly

\* A loop takes or releases its share and polls.
LEMMA CounterLoopStep ==
  ASSUME CounterInv, LocalType, NEW w \in Workers, NEW l \in Loops,
         Reserve(w, l) \/ ConsumeTask(w, l) \/ GiveBack(w, l) \/ LoopExits(w, l)
  PROVE  CounterInv'
  <1>1. l \in Coroutines /\ l \in Takers /\ l \notin Scopes
    BY WorkerAssumption DEF Coroutines, Takers
  <1>p. pc \in [Workers -> [Coroutines -> States]]
    BY DEF LocalType
  <1>2. CASE Reserve(w, l)
    <2>1. /\ Goto(w, l, "polling") /\ UNCHANGED <<permits, parked, parkedCount>>
          /\ pc[w][l] = "idle" /\ parkedCount[w] + reserved[w] < MaxParked
      BY <1>2 DEF Reserve, Spare
    <2>r. reserved' = [reserved EXCEPT ![w] = reserved[w] + 1]
      BY <1>2 DEF Reserve
    <2>2. /\ ShareOf(l, "polling") = 1 /\ ShareOf(l, pc[w][l]) = 0
          /\ RiskOf(l, "polling") = 1 /\ RiskOf(l, pc[w][l]) = 0
          /\ PermitOf("polling") = 0 /\ PermitOf(pc[w][l]) = 0 /\ "polling" \in States
      BY <1>1, <2>1 DEF States, WithPermit, Executing, ShareOf, RiskOf, PermitOf, Bit
    <2>3. Reserves(w, l, "polling")
      <3>1. reserved[w] + 1 = reserved[w] + ShareOf(l, "polling") - ShareOf(l, pc[w][l])
        BY <2>2, Still
      <3> QED BY <2>r, <3>1 DEF Reserves
    <2>4. Permitted(w, l, "polling")
      <3>1. permits[w] = permits[w] + PermitOf("polling") - PermitOf(pc[w][l])
        BY <2>2, Still
      <3>2. permits' = [permits EXCEPT ![w] = permits[w]]
        BY <2>1, Still
      <3> QED BY <3>1, <3>2 DEF Permitted
    <2>5. SlotsAre(w, parkedCount[w]) /\ parkedCount[w] \in Nat
      BY <2>1, SlotsSame
    <2>6. parkedCount[w] + Cardinality(Unspent(w)) + RiskOf(l, "polling") - RiskOf(l, pc[w][l]) <= MaxParked
      <3>1. Cardinality(Unspent(w)) <= Cardinality(Parking(w)) /\ Cardinality(Unspent(w)) \in Nat
        BY <1>p, CountedSets
      <3>2. reserved[w] = Cardinality(Parking(w)) /\ reserved[w] \in Nat
        BY Still DEF CounterInv
      <3> QED BY <2>1, <2>2, <2>5, <3>1, <3>2, WorkerAssumption
    <2>7. ~(PermitOf("polling") > PermitOf(pc[w][l]))
      BY <2>2
    <2> QED BY <1>1, <1>p, <2>1, <2>2, <2>3, <2>4, <2>5, <2>6, <2>7, CounterMove
  <1>3. CASE ConsumeTask(w, l)
    <2>1. PICK z \in {"permit", "refused"} : Goto(w, l, z)
      BY <1>3 DEF ConsumeTask
    <2>2. pc[w][l] = "polling" /\ UNCHANGED <<reserved, permits, parked, parkedCount>>
      BY <1>3 DEF ConsumeTask
    <2>3. /\ ShareOf(l, z) = ShareOf(l, pc[w][l]) /\ RiskOf(l, z) = RiskOf(l, pc[w][l])
          /\ PermitOf(z) = PermitOf(pc[w][l]) /\ z \in States
      BY <2>2 DEF States, WithPermit, Executing, ShareOf, RiskOf, PermitOf, Bit
    <2> QED BY <1>1, <2>1, <2>2, <2>3, MoveQuietly
  <1>4. CASE GiveBack(w, l)
    <2>1. pc[w][l] = "refused" /\ AfterTask(w, l, parkedCount[w]) /\ UNCHANGED <<parked, parkedCount, permits>>
      BY <1>4 DEF GiveBack
    <2>2. pc[w][l] \in Active /\ PermitOf(pc[w][l]) = 0
      BY <2>1 DEF Active, WithPermit, Executing, PermitOf, Bit
    <2>3. SlotsAre(w, parkedCount[w]) /\ parkedCount[w] \in Nat
      BY <2>1, SlotsSame
    <2>4. permits' = [permits EXCEPT ![w] = permits[w] - PermitOf(pc[w][l])]
      <3>1. permits[w] = permits[w] - PermitOf(pc[w][l])
        BY <2>2, Still
      <3> QED BY <2>1, <3>1, Still
    <2> QED BY <1>1, <2>1, <2>2, <2>3, <2>4, TaskEnds
  <1>5. CASE LoopExits(w, l)
    <2>1. /\ Goto(w, l, "exited") /\ UNCHANGED <<permits, parked, parkedCount>>
          /\ pc[w][l] \in {"idle", "polling"}
      BY <1>5 DEF LoopExits, Finish
    <2>r. reserved' = [reserved EXCEPT ![w] = IF pc[w][l] = "polling" THEN Dec(reserved[w]) ELSE reserved[w]]
      BY <1>5 DEF LoopExits
    <2>2. /\ ShareOf(l, "exited") = 0 /\ ShareOf(l, pc[w][l]) = Bit(pc[w][l] = "polling")
          /\ RiskOf(l, "exited") = 0 /\ RiskOf(l, pc[w][l]) \in 0..1
          /\ PermitOf("exited") = 0 /\ PermitOf(pc[w][l]) = 0 /\ "exited" \in States
      BY <1>1, <2>1 DEF States, WithPermit, Executing, ShareOf, RiskOf, PermitOf, Bit
    <2>3. Reserves(w, l, "exited")
      <3>1. pc[w][l] = "polling" => reserved[w] >= 1
        <4>1. pc[w][l] = "polling" => l \in Parking(w)
          BY DEF Parking
        <4>2. IsFiniteSet(Parking(w)) /\ reserved[w] = Cardinality(Parking(w)) /\ Cardinality(Parking(w)) \in Nat
          BY <1>p, CountedSets DEF CounterInv
        <4> QED BY <4>1, <4>2, FS_EmptySet
      <3>2. reserved[w] \in Nat
        BY Still
      <3>3. (IF pc[w][l] = "polling" THEN Dec(reserved[w]) ELSE reserved[w])
              = reserved[w] + ShareOf(l, "exited") - ShareOf(l, pc[w][l])
        BY <2>2, <3>1, <3>2 DEF Dec, Bit
      <3> QED BY <2>r, <3>3, Zenon DEF Reserves
    <2>4. Permitted(w, l, "exited")
      <3>1. permits[w] = permits[w] + PermitOf("exited") - PermitOf(pc[w][l])
        BY <2>2, Still
      <3>2. permits' = [permits EXCEPT ![w] = permits[w]]
        BY <2>1, Still
      <3> QED BY <3>1, <3>2 DEF Permitted
    <2>5. SlotsAre(w, parkedCount[w]) /\ parkedCount[w] \in Nat
      BY <2>1, SlotsSame
    <2>6. parkedCount[w] + Cardinality(Unspent(w)) + RiskOf(l, "exited") - RiskOf(l, pc[w][l]) <= MaxParked
      <3>1. parkedCount[w] + Cardinality(Unspent(w)) <= MaxParked /\ Cardinality(Unspent(w)) \in Int
        BY Still
      <3> QED BY <2>2, <2>5, <3>1, WorkerAssumption
    <2>7. ~(PermitOf("exited") > PermitOf(pc[w][l]))
      BY <2>2
    <2> QED BY <1>1, <1>p, <2>1, <2>2, <2>3, <2>4, <2>5, <2>6, <2>7, CounterMove
  <1> QED BY <1>2, <1>3, <1>4, <1>5

\* A task is processed: the permit goes with it from "claimed" to "leave".
LEMMA CounterTaskStep ==
  ASSUME BaseInv, CounterInv, NEW w \in Workers, NEW k \in Coroutines,
         \/ TakePermit(w, k) \/ StartLockFree(w, k) \/ StartLocked(w, k) \/ Park(w, k)
         \/ LockThrows(w, k) \/ AbandonClaim(w, k) \/ Execute(w, k) \/ Fail(w, k)
         \/ Cascade(w, k) \/ Ack(w, k)
         \/ Retry(w, k) \/ Bury(w, k) \/ BuryAck(w, k) \/ Leave(w, k)
  PROVE  CounterInv'
  <1>0. LocalType /\ pc \in [Workers -> [Coroutines -> States]] /\ parked \in [Workers -> [Scopes -> Seq(Msgs)]]
    BY DEF BaseInv, LocalType
  <1>1. CASE TakePermit(w, k)
    <2>1. pc[w][k] = "permit" /\ permits[w] < Permits /\ UNCHANGED <<parked, parkedCount>>
      BY <1>1 DEF TakePermit, PermitFree
    <2>2. SlotsAre(w, parkedCount[w]) /\ parkedCount[w] \in Nat
      BY <2>1, SlotsSame
    <2>3. PermitOf(pc[w][k]) = 0 /\ pc[w][k] \in Active
      BY <2>1 DEF Active, PermitOf, Bit, WithPermit, Executing
    <2>6. \/ /\ Goto(w, k, "claimed") /\ UNCHANGED reserved
             /\ permits' = [permits EXCEPT ![w] = permits[w] + 1]
          \/ AfterTask(w, k, parkedCount[w]) /\ UNCHANGED permits
      BY <1>1 DEF TakePermit
    <2>4. CASE /\ Goto(w, k, "claimed") /\ UNCHANGED reserved
               /\ permits' = [permits EXCEPT ![w] = permits[w] + 1]
      <3>1. Goto(w, k, "claimed") /\ UNCHANGED reserved
        BY <2>4
      <3>2. permits' = [permits EXCEPT ![w] = permits[w] + 1]
        BY <2>4
      <3>3. /\ ShareOf(k, "claimed") = ShareOf(k, pc[w][k]) /\ RiskOf(k, "claimed") = RiskOf(k, pc[w][k])
            /\ PermitOf("claimed") = 1 /\ "claimed" \in States
            /\ ShareOf(k, pc[w][k]) \in 0..1 /\ RiskOf(k, pc[w][k]) \in 0..1
        BY <2>1 DEF States, WithPermit, Executing, ShareOf, RiskOf, PermitOf, Bit
      <3>4. k \notin Scopes
        BY <2>1 DEF CounterInv
      <3>5. Reserves(w, k, "claimed")
        <4>1. reserved[w] = reserved[w] + ShareOf(k, "claimed") - ShareOf(k, pc[w][k])
          BY <3>3, Still
        <4>2. reserved' = [reserved EXCEPT ![w] = reserved[w]]
          BY <3>1, Still
        <4> QED BY <4>1, <4>2 DEF Reserves
      <3>6. Permitted(w, k, "claimed")
        <4>1. permits[w] + 1 = permits[w] + PermitOf("claimed") - PermitOf(pc[w][k])
          BY <2>3, <3>3, Still
        <4> QED BY <3>2, <4>1 DEF Permitted
      <3>7. parkedCount[w] + Cardinality(Unspent(w)) + RiskOf(k, "claimed") - RiskOf(k, pc[w][k]) <= MaxParked
        <4>1. parkedCount[w] + Cardinality(Unspent(w)) <= MaxParked /\ Cardinality(Unspent(w)) \in Int
          BY Still
        <4> QED BY <2>2, <3>3, <4>1, WorkerAssumption
      <3> QED BY <1>0, <2>1, <2>2, <3>1, <3>3, <3>4, <3>5, <3>6, <3>7, CounterMove
    <2>5. CASE AfterTask(w, k, parkedCount[w]) /\ UNCHANGED permits
      <3>1. AfterTask(w, k, parkedCount[w]) /\ UNCHANGED permits
        BY <2>5
      <3>2. permits' = [permits EXCEPT ![w] = permits[w] - PermitOf(pc[w][k])]
        <4>1. permits[w] = permits[w] - PermitOf(pc[w][k])
          BY <2>3, Still
        <4> QED BY <3>1, <4>1, Still
      <3> QED BY <1>0, <2>2, <2>3, <3>1, <3>2, TaskEnds
    <2> QED BY <2>4, <2>5, <2>6
  <1>2. CASE StartLockFree(w, k) \/ StartLocked(w, k)
    <2>1. /\ pc[w][k] = "claimed" /\ Goto(w, k, "run")
          /\ UNCHANGED <<reserved, permits, parked, parkedCount>>
      BY <1>2 DEF StartLockFree, StartLocked
    <2>2. pc[w][k] \in WithPermit /\ "run" \in Executing
      BY <2>1 DEF WithPermit, Executing
    <2> QED BY <1>0, <2>1, <2>2, PermitKept
  <1>3. CASE Park(w, k)
    <2> DEFINE m == cur[w][k]
               s == ScopeOfMsg(m)
    <2>1. /\ pc[w][k] = "claimed" /\ s # LockFree
          /\ parked' = [parked EXCEPT ![w][s] = Append(@, m)]
          /\ parkedCount' = [parkedCount EXCEPT ![w] = @ + 1]
          /\ AfterTask(w, k, parkedCount[w] + 1)
      BY <1>3 DEF Park
    <2>p. permits' = [permits EXCEPT ![w] = permits[w] - 1]
      BY <1>3 DEF Park
    <2>2. PermitOf(pc[w][k]) = 1 /\ pc[w][k] \in Active
      BY <2>1 DEF Active, PermitOf, Bit, WithPermit, Executing
    <2>3. m \in Sent /\ m \in Msgs
      <3>1. m \in Sent
        BY <2>2 DEF BaseInv, AtWork
      <3> QED BY <3>1, SentMsgs DEF BaseInv
    <2>4. s \in Scopes
      <3>1. body[m].task \in Tasks
        BY <2>3 DEF BaseInv, SentTasks
      <3> QED BY <2>1, <3>1, WorkerAssumption DEF ScopeOfMsg, TaskOf
    <2>5. k \in Takers
      BY <2>1 DEF Takers, Coroutines, CounterInv
    <2> HIDE DEF m, s
    <2>6. SlotsAre(w, parkedCount[w] + 1) /\ parkedCount[w] + 1 \in Nat
      BY <1>0, <2>1, <2>3, <2>4, SlotsPark
    <2>7. permits' = [permits EXCEPT ![w] = permits[w] - PermitOf(pc[w][k])]
      BY <2>p, <2>2, Zenon
    <2>8. AfterTask(w, k, parkedCount[w] + 1)
      BY <2>1
    <2> QED BY <1>0, <2>2, <2>5, <2>6, <2>7, <2>8, TaskEnds
  <1>4. CASE AbandonClaim(w, k) \/ Leave(w, k)
    <2>1. /\ pc[w][k] \in {"claimed", "leave"} /\ AfterTask(w, k, parkedCount[w])
          /\ UNCHANGED <<parked, parkedCount>>
      BY <1>4 DEF AbandonClaim, Leave
    <2>p. permits' = [permits EXCEPT ![w] = permits[w] - 1]
      BY <1>4 DEF AbandonClaim, Leave
    <2>2. PermitOf(pc[w][k]) = 1 /\ pc[w][k] \in Active
      BY <2>1 DEF Active, PermitOf, Bit, WithPermit, Executing
    <2>3. SlotsAre(w, parkedCount[w]) /\ parkedCount[w] \in Nat
      BY <2>1, SlotsSame
    <2>4. permits' = [permits EXCEPT ![w] = permits[w] - PermitOf(pc[w][k])]
      BY <2>p, <2>2, Zenon
    <2> QED BY <1>0, <2>1, <2>2, <2>3, <2>4, TaskEnds
  <1>5. CASE Execute(w, k) \/ Fail(w, k) \/ Cascade(w, k)
    <2>1. /\ pc[w][k] \in Executing
          /\ UNCHANGED <<reserved, permits, parked, parkedCount>>
      BY <1>5 DEF Execute, Fail, Cascade, Executing
    <2>2. PICK z \in Executing : Goto(w, k, z)
      <3>1. {"leave", "ack", "cascade", "sleep", "bury"} \subseteq Executing
        BY DEF Executing
      <3>2. \E z \in {"leave", "ack", "cascade", "sleep", "bury"} : Goto(w, k, z)
        BY <1>5 DEF Execute, Fail, Cascade, AfterError
      <3> QED BY <3>1, <3>2
    <2> QED BY <1>0, <2>1, <2>2, PermitKept DEF WithPermit
  <1>6. CASE Ack(w, k) \/ Retry(w, k) \/ Bury(w, k) \/ BuryAck(w, k)
    <2>1. /\ pc[w][k] \in Executing
          /\ UNCHANGED <<reserved, permits, parked, parkedCount>>
      BY <1>6 DEF Ack, Retry, Bury, BuryAck, Executing
    <2>2. PICK z \in Executing : Goto(w, k, z)
      <3>1. {"leave", "ack", "cascade", "sleep", "bury", "buryAck"} \subseteq Executing
        BY DEF Executing
      <3>2. \E z \in {"leave", "ack", "cascade", "sleep", "bury", "buryAck"} : Goto(w, k, z)
        BY <1>6 DEF Ack, Retry, Bury, BuryAck, AfterError
      <3> QED BY <3>1, <3>2
    <2> QED BY <1>0, <2>1, <2>2, PermitKept DEF WithPermit
  <1>7. CASE LockThrows(w, k)
    <2>1. /\ Faults /\ pc[w][k] = "claimed" /\ AfterTask(w, k, parkedCount[w])
          /\ UNCHANGED <<permits, parked, parkedCount>>
      BY <1>7 DEF LockThrows
    <2>2. pc[w][k] \in Active
      BY <2>1 DEF Active, WithPermit, Executing
    <2>3. SlotsAre(w, parkedCount[w]) /\ parkedCount[w] \in Nat
      BY <2>1, SlotsSame
    <2> QED BY <1>0, <2>1, <2>2, <2>3, TaskEnds
  <1> QED BY <1>1, <1>2, <1>3, <1>4, <1>5, <1>6, <1>7

\* A parked scope is retried, or a parked claim refreshed.
LEMMA CounterRetryStep ==
  ASSUME CounterInv, LocalType, NEW w \in Workers, NEW s \in Scopes, NEW m \in Msgs,
         StartRetry(w, s) \/ RetryPermit(w, s) \/ RetryLock(w, s) \/ ParkedHeartbeat(w, s, m)
  PROVE  CounterInv'
  <1>0. parked \in [Workers -> [Scopes -> Seq(Msgs)]]
    BY DEF LocalType
  <1>s. {"idle", "run", "retryPermit", "retryClaimed"} \subseteq States
    BY DEF States, WithPermit, Executing
  <1>a. /\ PermitOf("idle") = 0 /\ PermitOf("retryPermit") = 0
        /\ PermitOf("retryClaimed") = 1 /\ PermitOf("run") = 1
    BY DEF PermitOf, Bit, WithPermit, Executing
  <1>n. permits[w] \in Nat /\ parkedCount[w] \in Nat
    BY Still
  <1> DEFINE Same(z) == permits' = [permits EXCEPT ![w] = permits[w] + PermitOf(z) - PermitOf(pc[w][s])]
  <1>1. CASE StartRetry(w, s)
    <2>1. pc[w][s] = "idle" /\ UNCHANGED <<reserved, permits>>
      BY <1>1 DEF StartRetry
    <2>2. \/ Goto(w, s, "retryPermit") /\ UNCHANGED <<parked, parkedCount>>
          \/ Unpark(w, s, Head(parked[w][s])) /\ UNCHANGED pc
      BY <1>1 DEF StartRetry
    <2>3. CASE Goto(w, s, "retryPermit") /\ UNCHANGED <<parked, parkedCount>>
      <3>1. SlotsAre(w, parkedCount[w]) /\ parkedCount[w] <= parkedCount[w]
        BY <2>3, <1>n, SlotsSame
      <3>2. permits[w] = permits[w] + PermitOf("retryPermit") - PermitOf(pc[w][s])
        BY <1>a, <1>n, <2>1
      <3>3. Same("retryPermit")
        BY <2>1, <3>2, Still
      <3>4. ~(PermitOf("retryPermit") > PermitOf(pc[w][s]))
        BY <1>a, <2>1
      <3> QED BY <1>n, <1>s, <2>1, <2>3, <3>1, <3>3, <3>4, RetryMove
    <2>4. CASE Unpark(w, s, Head(parked[w][s])) /\ UNCHANGED pc
      BY <2>1, <2>4, UnparkOnly
    <2> QED BY <2>2, <2>3, <2>4
  <1>2. CASE RetryPermit(w, s)
    <2>1. pc[w][s] = "retryPermit" /\ permits[w] < Permits /\ UNCHANGED reserved
      BY <1>2 DEF RetryPermit, PermitFree
    <2>4. \/ /\ Goto(w, s, "retryClaimed") /\ UNCHANGED <<parked, parkedCount>>
             /\ permits' = [permits EXCEPT ![w] = permits[w] + 1]
          \/ /\ Goto(w, s, "idle") /\ UNCHANGED permits
             /\ Unpark(w, s, cur[w][s]) \/ UNCHANGED <<parked, parkedCount>>
      BY <1>2 DEF RetryPermit, Finish
    <2>2. CASE /\ Goto(w, s, "retryClaimed") /\ UNCHANGED <<parked, parkedCount>>
               /\ permits' = [permits EXCEPT ![w] = permits[w] + 1]
      <3>1. Goto(w, s, "retryClaimed") /\ UNCHANGED <<parked, parkedCount>>
        BY <2>2
      <3>2. permits' = [permits EXCEPT ![w] = permits[w] + 1]
        BY <2>2
      <3>3. SlotsAre(w, parkedCount[w]) /\ parkedCount[w] <= parkedCount[w]
        BY <3>1, <1>n, SlotsSame
      <3>4. permits[w] + 1 = permits[w] + PermitOf("retryClaimed") - PermitOf(pc[w][s])
        BY <1>a, <1>n, <2>1
      <3>5. Same("retryClaimed")
        BY <3>2, <3>4, Zenon
      <3> QED BY <1>n, <1>s, <2>1, <3>1, <3>3, <3>5, RetryMove
    <2>3. CASE /\ Goto(w, s, "idle") /\ UNCHANGED permits
               /\ Unpark(w, s, cur[w][s]) \/ UNCHANGED <<parked, parkedCount>>
      <3>1. /\ Goto(w, s, "idle") /\ UNCHANGED permits
            /\ Unpark(w, s, cur[w][s]) \/ UNCHANGED <<parked, parkedCount>>
        BY <2>3
      <3>2. PICK n \in Nat : n <= parkedCount[w] /\ SlotsAre(w, n)
        <4>1. CASE Unpark(w, s, cur[w][s])
          BY <1>0, <4>1, SlotsUnpark
        <4>2. CASE UNCHANGED <<parked, parkedCount>>
          BY <1>n, <4>2, SlotsSame
        <4> QED BY <3>1, <4>1, <4>2
      <3>3. permits[w] = permits[w] + PermitOf("idle") - PermitOf(pc[w][s])
        BY <1>a, <1>n, <2>1
      <3>4. Same("idle")
        BY <3>1, <3>3, Still
      <3>5. ~(PermitOf("idle") > PermitOf(pc[w][s]))
        BY <1>a, <2>1
      <3> QED BY <1>s, <2>1, <3>1, <3>2, <3>4, <3>5, RetryMove
    <2> QED BY <2>2, <2>3, <2>4
  <1>3. CASE RetryLock(w, s)
    <2>1. pc[w][s] = "retryClaimed" /\ UNCHANGED reserved
      BY <1>3 DEF RetryLock
    <2>2. \/ Unpark(w, s, cur[w][s]) /\ Goto(w, s, "run") /\ UNCHANGED permits
          \/ /\ Goto(w, s, "idle") /\ UNCHANGED <<parked, parkedCount>>
             /\ permits' = [permits EXCEPT ![w] = permits[w] - 1]
      BY <1>3 DEF RetryLock, Finish
    <2>3. CASE Unpark(w, s, cur[w][s]) /\ Goto(w, s, "run") /\ UNCHANGED permits
      <3>1. PICK n \in Nat : n <= parkedCount[w] /\ SlotsAre(w, n)
        BY <1>0, <2>3, SlotsUnpark
      <3>2. permits[w] = permits[w] + PermitOf("run") - PermitOf(pc[w][s])
        BY <1>a, <1>n, <2>1
      <3>3. Same("run")
        BY <2>3, <3>2, Still
      <3>4. ~(PermitOf("run") > PermitOf(pc[w][s]))
        BY <1>a, <2>1
      <3> QED BY <1>s, <2>1, <2>3, <3>1, <3>3, <3>4, RetryMove
    <2>4. CASE /\ Goto(w, s, "idle") /\ UNCHANGED <<parked, parkedCount>>
               /\ permits' = [permits EXCEPT ![w] = permits[w] - 1]
      <3>1. SlotsAre(w, parkedCount[w]) /\ parkedCount[w] <= parkedCount[w]
        BY <2>4, <1>n, SlotsSame
      <3>2. permits[w] - 1 = permits[w] + PermitOf("idle") - PermitOf(pc[w][s])
        BY <1>a, <1>n, <2>1
      <3>3. Same("idle")
        BY <2>4, <3>2, Zenon
      <3>4. ~(PermitOf("idle") > PermitOf(pc[w][s]))
        BY <1>a, <2>1
      <3> QED BY <1>n, <1>s, <2>1, <2>4, <3>1, <3>3, <3>4, RetryMove
    <2> QED BY <2>2, <2>3, <2>4
  <1>4. CASE ParkedHeartbeat(w, s, m)
    <2>1. UNCHANGED <<pc, reserved, permits>>
      BY <1>4 DEF ParkedHeartbeat
    <2>2. UNCHANGED <<parked, parkedCount>> \/ Unpark(w, s, m)
      BY <1>4 DEF ParkedHeartbeat
    <2> QED BY <2>1, <2>2, NoMove, UnparkOnly
  <1> QED BY <1>1, <1>2, <1>3, <1>4

\* A step of worker w alone keeps the invariant if it keeps it for w.
LEMMA CounterWorker ==
  ASSUME CounterInv, LocalType, NEW w \in Workers,
         \A v \in Workers : v # w =>
           /\ pc'[v] = pc[v] /\ parked'[v] = parked[v]
           /\ reserved'[v] = reserved[v] /\ permits'[v] = permits[v] /\ parkedCount'[v] = parkedCount[v],
         parkedCount' \in [Workers -> Nat], reserved' \in [Workers -> Nat], permits' \in [Workers -> Nat],
         reserved'[w] = Cardinality(Parking(w)'),
         Covered(permits'[w], Cardinality(Holding(w)')),
         IsFiniteSet(Slots(w)'), parkedCount'[w] = Cardinality(Slots(w)'),
         parkedCount'[w] + Cardinality(Unspent(w)') <= MaxParked,
         \A s \in Scopes : pc'[w][s] \notin {"permit", "claimed"}
  PROVE  CounterInv'
  <1>1. ASSUME NEW v \in Workers, v # w
        PROVE  Parking(v)' = Parking(v) /\ Holding(v)' = Holding(v) /\ Unspent(v)' = Unspent(v) /\ Slots(v)' = Slots(v)
    <2>1. pc'[v] = pc[v] /\ parked'[v] = parked[v]
      BY <1>1
    <2> QED BY <2>1 DEF Parking, Holding, Unspent, Slots
  <1>2. ASSUME NEW v \in Workers, v # w
        PROVE  /\ reserved'[v] = Cardinality(Parking(v)')
               /\ Covered(permits'[v], Cardinality(Holding(v)'))
               /\ IsFiniteSet(Slots(v)') /\ parkedCount'[v] = Cardinality(Slots(v)')
               /\ parkedCount'[v] + Cardinality(Unspent(v)') <= MaxParked
               /\ \A s \in Scopes : pc'[v][s] \notin {"permit", "claimed"}
    <2>1. /\ reserved'[v] = reserved[v] /\ permits'[v] = permits[v] /\ parkedCount'[v] = parkedCount[v]
          /\ pc'[v] = pc[v]
      BY <1>2
    <2> QED BY <1>1, <1>2, <2>1 DEF CounterInv
  <1> QED BY <1>2 DEF CounterInv

\* A batch of stale messages is claimed, or is over.
LEMMA CounterBatchStep ==
  ASSUME BaseInv, CounterInv, NEW w \in Workers, Recover(w) \/ RecoverDone(w)
  PROVE  CounterInv'
  <1>0. /\ LocalType /\ pc \in [Workers -> [Coroutines -> States]]
        /\ Takers \subseteq Coroutines /\ Msgs \subseteq Takers
    BY DEF BaseInv, LocalType, Takers, Coroutines
  <1>1. /\ IsFiniteSet(Parking(w)) /\ IsFiniteSet(Unspent(w))
        /\ Cardinality(Parking(w)) \in Nat /\ Cardinality(Unspent(w)) \in Nat
        /\ Cardinality(Unspent(w)) <= Cardinality(Parking(w))
        /\ Parking(w) = {k \in Takers : pc[w][k] \notin {"idle", "exited"}}
    <2>1. Parking(w) = {k \in Takers : pc[w][k] \notin {"idle", "exited"}}
      BY DEF Parking, Takers
    <2> QED BY <1>0, <2>1, CountedSets
  <1>2. /\ reserved[w] = Cardinality(Parking(w)) /\ reserved[w] \in Nat
        /\ parkedCount[w] + Cardinality(Unspent(w)) <= MaxParked /\ parkedCount[w] \in Nat
    BY Still DEF CounterInv
  <1>3. CASE Recover(w)
    <2>1. \A m \in Msgs : pc[w][m] = "idle"
      BY <1>3 DEF Recover
    <2>2. PICK S \in SUBSET Stale :
                /\ Cardinality(S) <= Batch(w)
                /\ reserved' = [reserved EXCEPT ![w] = @ + Cardinality(S)]
                /\ pc' = [pc EXCEPT ![w] = [k \in Coroutines |-> IF k \in S THEN "permit" ELSE @[k]]]
      BY <1>3 DEF Recover
    <2>3. UNCHANGED <<permits, parked, parkedCount>>
      BY <1>3 DEF Recover
    <2>4. S \subseteq Msgs /\ IsFiniteSet(S) /\ Cardinality(S) \in Nat
      <3>1. Stale \subseteq Msgs
        BY DEF Stale, Pending
      <3>2. IsFiniteSet(Msgs)
        BY QueueAssumption, FS_Interval DEF Msgs
      <3> QED BY <3>1, <3>2, FS_Subset, FS_CardinalityType
    <2>5. \A k \in Coroutines : pc'[w][k] = IF k \in S THEN "permit" ELSE pc[w][k]
      BY <1>0, <2>2
    <2>6. Parking(w)' = Parking(w) \cup S /\ Parking(w) \cap S = {}
      <3>1. Parking(w)' = {k \in Takers : pc'[w][k] \notin {"idle", "exited"}}
        BY DEF Parking, Takers
      <3> QED BY <1>0, <1>1, <2>1, <2>4, <2>5, <3>1
    <2>7. Unspent(w)' = Unspent(w) \cup S /\ Unspent(w) \cap S = {}
      BY <1>0, <2>1, <2>4, <2>5 DEF Unspent
    <2>8. Holding(w)' = Holding(w)
      <3>1. \A k \in Coroutines : pc'[w][k] \in WithPermit <=> pc[w][k] \in WithPermit
        <4>1. "permit" \notin WithPermit /\ "idle" \notin WithPermit
          BY DEF WithPermit, Executing
        <4> QED BY <2>1, <2>4, <2>5, <4>1
      <3> QED BY <3>1 DEF Holding
    <2>9. Cardinality(Parking(w)') = Cardinality(Parking(w)) + Cardinality(S)
      <3>1. Cardinality(Parking(w) \cup S) = Cardinality(Parking(w)) + Cardinality(S) - Cardinality(Parking(w) \cap S)
        BY <1>1, <2>4, FS_Union
      <3>2. Cardinality(Parking(w) \cap S) = 0
        BY <2>6, FS_EmptySet
      <3>3. Cardinality(Parking(w)') = Cardinality(Parking(w) \cup S)
        BY <2>6, Zenon
      <3> QED BY <1>1, <2>4, <3>1, <3>2, <3>3
    <2>10. Cardinality(Unspent(w)') = Cardinality(Unspent(w)) + Cardinality(S)
      <3>1. Cardinality(Unspent(w) \cup S) = Cardinality(Unspent(w)) + Cardinality(S) - Cardinality(Unspent(w) \cap S)
        BY <1>1, <2>4, FS_Union
      <3>2. Cardinality(Unspent(w) \cap S) = 0
        BY <2>7, FS_EmptySet
      <3>3. Cardinality(Unspent(w)') = Cardinality(Unspent(w) \cup S)
        BY <2>7, Zenon
      <3> QED BY <1>1, <2>4, <3>1, <3>2, <3>3
    <2>11. reserved' \in [Workers -> Nat] /\ reserved'[w] = reserved[w] + Cardinality(S)
      BY <2>2, <2>4 DEF CounterInv
    <2>12. parkedCount[w] + reserved[w] + Cardinality(S) <= MaxParked
      <3>1. Cardinality(S) <= Batch(w) /\ Batch(w) <= MaxParked - parkedCount[w] - reserved[w]
        <4>1. MaxParked - parkedCount[w] - reserved[w] \in Int
          BY <1>2, WorkerAssumption
        <4>2. Batch(w) \in Int /\ Batch(w) <= MaxParked - parkedCount[w] - reserved[w]
          BY <4>1 DEF Batch
        <4> QED BY <2>2, <4>2
      <3>2. Batch(w) \in Int
        BY <1>2, WorkerAssumption DEF Batch
      <3> QED BY <1>2, <2>4, <3>1, <3>2, WorkerAssumption
    <2>13. parkedCount'[w] + Cardinality(Unspent(w)') <= MaxParked
      BY <1>1, <1>2, <2>3, <2>4, <2>10, <2>12, WorkerAssumption
    <2>14. \A v \in Workers : v # w =>
             /\ pc'[v] = pc[v] /\ parked'[v] = parked[v]
             /\ reserved'[v] = reserved[v] /\ permits'[v] = permits[v] /\ parkedCount'[v] = parkedCount[v]
      BY <2>2, <2>3
    <2>15. \A s \in Scopes : pc'[w][s] \notin {"permit", "claimed"}
      <3>1. \A s \in Scopes : s \in Coroutines /\ s \notin S
        BY <2>4, WorkerAssumption DEF Coroutines
      <3> QED BY <2>5, <3>1 DEF CounterInv
    <2>16. /\ parkedCount' \in [Workers -> Nat] /\ permits' \in [Workers -> Nat]
           /\ Covered(permits'[w], Cardinality(Holding(w)'))
      BY <2>3, <2>8 DEF CounterInv
    <2>17. IsFiniteSet(Slots(w)') /\ parkedCount'[w] = Cardinality(Slots(w)')
      <3>1. Slots(w)' = Slots(w)
        BY <2>3 DEF Slots
      <3> QED BY <2>3, <3>1 DEF CounterInv
    <2>18. reserved'[w] = Cardinality(Parking(w)')
      BY <1>2, <2>9, <2>11
    <2> QED BY <1>0, <2>11, <2>13, <2>14, <2>15, <2>16, <2>17, <2>18, CounterWorker
  <1>4. CASE RecoverDone(w)
    <2> DEFINE S == {m \in Msgs : pc[w][m] = "spent"}
    <2>1. /\ \A m \in Msgs : pc[w][m] \in {"idle", "spent"}
          /\ reserved' = [reserved EXCEPT ![w] = @ - Cardinality(S)]
          /\ pc' = [pc EXCEPT ![w] = [k \in Coroutines |-> IF k \in S THEN "idle" ELSE @[k]]]
          /\ UNCHANGED <<permits, parked, parkedCount>>
      BY <1>4 DEF RecoverDone
    <2>2. S \subseteq Msgs /\ (\A k \in S : pc[w][k] = "spent")
      OBVIOUS
    <2> HIDE DEF S
    <2>3. \A k \in Coroutines : pc'[w][k] = IF k \in S THEN "idle" ELSE pc[w][k]
      BY <1>0, <2>1
    <2>4. Parking(w) = Parking(w)' \cup S /\ Parking(w)' \cap S = {}
      <3>1. Parking(w)' = {k \in Takers : pc'[w][k] \notin {"idle", "exited"}}
        BY DEF Parking, Takers
      <3> QED BY <1>0, <1>1, <2>2, <2>3, <3>1
    <2>5. Unspent(w)' = Unspent(w)
      BY <1>0, <2>2, <2>3 DEF Unspent
    <2>6. Holding(w)' = Holding(w)
      <3>1. \A k \in Coroutines : pc'[w][k] \in WithPermit <=> pc[w][k] \in WithPermit
        <4>1. "spent" \notin WithPermit /\ "idle" \notin WithPermit
          BY DEF WithPermit, Executing
        <4> QED BY <2>2, <2>3, <4>1
      <3> QED BY <3>1 DEF Holding
    <2>7. reserved[w] - Cardinality(S) = Cardinality(Parking(w)') /\ Cardinality(Parking(w)') \in Nat
      <3>1. IsFiniteSet(Parking(w)') /\ IsFiniteSet(S)
        <4>1. Parking(w)' \in SUBSET Parking(w) /\ S \in SUBSET Parking(w)
          BY <2>4
        <4> QED BY <1>1, <4>1, FS_Subset
      <3>2. Cardinality(Parking(w)') \in Nat /\ Cardinality(S) \in Nat
        BY <3>1, FS_CardinalityType
      <3>3. Cardinality(Parking(w)' \cup S) = Cardinality(Parking(w)') + Cardinality(S) - Cardinality(Parking(w)' \cap S)
        BY <3>1, FS_Union
      <3>4. Cardinality(Parking(w)' \cap S) = 0
        BY <2>4, FS_EmptySet
      <3>5. Cardinality(Parking(w)) = Cardinality(Parking(w)' \cup S)
        BY <2>4, Zenon
      <3> QED BY <1>2, <3>2, <3>3, <3>4, <3>5
    <2>8. reserved' \in [Workers -> Nat] /\ reserved'[w] = Cardinality(Parking(w)')
      BY <2>1, <2>7 DEF CounterInv
    <2>9. \A v \in Workers : v # w =>
            /\ pc'[v] = pc[v] /\ parked'[v] = parked[v]
            /\ reserved'[v] = reserved[v] /\ permits'[v] = permits[v] /\ parkedCount'[v] = parkedCount[v]
      BY <2>1
    <2>10. \A s \in Scopes : pc'[w][s] \notin {"permit", "claimed"}
      <3>1. \A s \in Scopes : s \in Coroutines /\ s \notin S
        BY <2>2, WorkerAssumption DEF Coroutines
      <3> QED BY <2>3, <3>1 DEF CounterInv
    <2>11. /\ parkedCount' \in [Workers -> Nat] /\ permits' \in [Workers -> Nat]
           /\ Covered(permits'[w], Cardinality(Holding(w)'))
      BY <2>1, <2>6 DEF CounterInv
    <2>12. IsFiniteSet(Slots(w)') /\ parkedCount'[w] = Cardinality(Slots(w)')
      <3>1. Slots(w)' = Slots(w)
        BY <2>1 DEF Slots
      <3> QED BY <2>1, <3>1 DEF CounterInv
    <2>13. parkedCount'[w] + Cardinality(Unspent(w)') <= MaxParked
      BY <1>2, <2>1, <2>5
    <2> QED BY <1>0, <2>8, <2>9, <2>10, <2>11, <2>12, <2>13, CounterWorker
  <1> QED BY <1>3, <1>4

\* A worker ends, in good order or not.
LEMMA CounterEndStep ==
  ASSUME BaseInv, CounterInv, NEW w \in Workers, StopFinish(w) \/ Crash(w)
  PROVE  CounterInv'
  <1>0. LocalType /\ pc \in [Workers -> [Coroutines -> States]] /\ parked \in [Workers -> [Scopes -> Seq(Msgs)]]
    BY DEF BaseInv, LocalType
  <1>1. /\ parked' = [parked EXCEPT ![w] = [s \in Scopes |-> <<>>]]
        /\ parkedCount' = [parkedCount EXCEPT ![w] = 0]
    BY DEF StopFinish, Crash
  <1>2. /\ parkedCount' \in [Workers -> Nat] /\ parkedCount'[w] = 0
        /\ \A v \in Workers : v # w => parked'[v] = parked[v] /\ parkedCount'[v] = parkedCount[v]
    BY <1>1 DEF CounterInv
  <1>3. IsFiniteSet(Slots(w)') /\ Cardinality(Slots(w)') = 0
    <2>1. \A s \in Scopes : DOMAIN parked'[w][s] = {}
      BY <1>0, <1>1
    <2>2. Slots(w)' = {}
      BY <2>1 DEF Slots
    <2> QED BY <2>2, FS_EmptySet
  <1>4. CASE StopFinish(w)
    <2>1. UNCHANGED <<pc, reserved, permits>>
      BY <1>4 DEF StopFinish
    <2>2. Parking(w)' = Parking(w) /\ Holding(w)' = Holding(w) /\ Unspent(w)' = Unspent(w)
      BY <2>1 DEF Parking, Holding, Unspent
    <2>3. parkedCount'[w] + Cardinality(Unspent(w)') <= MaxParked
      <3>1. /\ Cardinality(Unspent(w)) \in Int /\ parkedCount[w] + Cardinality(Unspent(w)) <= MaxParked
            /\ parkedCount[w] \in Nat
        BY Still
      <3> QED BY <1>2, <2>2, <3>1, WorkerAssumption
    <2>4. /\ reserved' \in [Workers -> Nat] /\ permits' \in [Workers -> Nat]
          /\ reserved'[w] = Cardinality(Parking(w)')
          /\ Covered(permits'[w], Cardinality(Holding(w)'))
          /\ \A s \in Scopes : pc'[w][s] \notin {"permit", "claimed"}
      BY <2>1, <2>2 DEF CounterInv
    <2>5. \A v \in Workers : v # w =>
            /\ pc'[v] = pc[v] /\ parked'[v] = parked[v]
            /\ reserved'[v] = reserved[v] /\ permits'[v] = permits[v] /\ parkedCount'[v] = parkedCount[v]
      BY <1>2, <2>1
    <2> QED BY <1>0, <1>2, <1>3, <2>3, <2>4, <2>5, CounterWorker
  <1>5. CASE Crash(w)
    <2>1. /\ pc' = [pc EXCEPT ![w] = [k \in Coroutines |-> "exited"]]
          /\ reserved' = [reserved EXCEPT ![w] = 0] /\ permits' = [permits EXCEPT ![w] = 0]
      BY <1>5 DEF Crash
    <2>2. \A k \in Coroutines : pc'[w][k] = "exited"
      BY <1>0, <2>1
    <2>3. Parking(w)' = {} /\ Holding(w)' = {} /\ Unspent(w)' = {}
      BY <2>2 DEF Parking, Holding, Unspent, Takers, Coroutines, WithPermit, Executing
    <2>4. Cardinality(Parking(w)') = 0 /\ Cardinality(Holding(w)') = 0 /\ Cardinality(Unspent(w)') = 0
      <3>1. Cardinality({}) = 0
        BY FS_EmptySet
      <3> QED BY <2>3, <3>1, Zenon
    <2>5. /\ reserved' \in [Workers -> Nat] /\ permits' \in [Workers -> Nat]
          /\ reserved'[w] = Cardinality(Parking(w)')
          /\ Covered(permits'[w], Cardinality(Holding(w)'))
      BY <2>1, <2>4, WorkerAssumption DEF CounterInv, Covered
    <2>6. parkedCount'[w] + Cardinality(Unspent(w)') <= MaxParked
      BY <1>2, <2>4, WorkerAssumption
    <2>7. \A s \in Scopes : pc'[w][s] \notin {"permit", "claimed"}
      BY <2>2 DEF Coroutines
    <2>8. \A v \in Workers : v # w =>
            /\ pc'[v] = pc[v] /\ parked'[v] = parked[v]
            /\ reserved'[v] = reserved[v] /\ permits'[v] = permits[v] /\ parkedCount'[v] = parkedCount[v]
      BY <1>2, <2>1
    <2> QED BY <1>0, <1>2, <1>3, <2>5, <2>6, <2>7, <2>8, CounterWorker
  <1> QED BY <1>4, <1>5

-----------------------------------------------------------------------------
(* The invariant, and what follows from it.                                *)

\* At the start nothing is counted.
LEMMA CounterInit == Init => CounterInv
  <1> SUFFICES ASSUME Init PROVE CounterInv
    OBVIOUS
  <1>1. ASSUME NEW w \in Workers
        PROVE  /\ Parking(w) = {} /\ Holding(w) = {} /\ Unspent(w) = {} /\ Slots(w) = {}
               /\ \A s \in Scopes : pc[w][s] \notin {"permit", "claimed"}
    <2>1. \A k \in Coroutines : pc[w][k] = "idle"
      BY DEF Init
    <2>2. \A s \in Scopes : DOMAIN parked[w][s] = {}
      BY DEF Init
    <2>3. Slots(w) = {}
      BY <2>2 DEF Slots
    <2> QED BY <2>1, <2>3 DEF Parking, Holding, Unspent, Takers, Coroutines, WithPermit, Executing
  <1>2. Cardinality({}) = 0 /\ IsFiniteSet({})
    BY FS_EmptySet
  <1>3. ASSUME NEW w \in Workers
        PROVE  /\ Cardinality(Parking(w)) = 0 /\ Cardinality(Holding(w)) = 0 /\ Cardinality(Unspent(w)) = 0
               /\ Cardinality(Slots(w)) = 0 /\ IsFiniteSet(Slots(w))
    BY <1>1, <1>2, Zenon
  <1>4. /\ reserved = [w \in Workers |-> 0] /\ permits = [w \in Workers |-> 0]
        /\ parkedCount = [w \in Workers |-> 0]
    BY DEF Init
  <1> QED BY <1>1, <1>3, <1>4, WorkerAssumption DEF CounterInv, Covered

\* Every step keeps the counters.
LEMMA CounterStep == BaseInv /\ CounterInv /\ [Next]_vars => CounterInv'
  <1> SUFFICES ASSUME BaseInv, CounterInv, [Next]_vars PROVE CounterInv'
    OBVIOUS
  <1>0. LocalType
    BY DEF BaseInv
  <1>1. ASSUME NEW w \in Workers, NEW l \in Loops,
               Reserve(w, l) \/ ConsumeTask(w, l) \/ GiveBack(w, l) \/ LoopExits(w, l)
        PROVE  CounterInv'
    BY <1>0, <1>1, CounterLoopStep
  <1>2. ASSUME NEW w \in Workers, NEW k \in Coroutines,
               \/ TakePermit(w, k) \/ StartLockFree(w, k) \/ StartLocked(w, k) \/ Park(w, k)
               \/ LockThrows(w, k) \/ AbandonClaim(w, k) \/ Execute(w, k) \/ Fail(w, k)
               \/ Cascade(w, k) \/ Ack(w, k)
               \/ Retry(w, k) \/ Bury(w, k) \/ BuryAck(w, k) \/ Leave(w, k)
        PROVE  CounterInv'
    BY <1>2, CounterTaskStep
  <1>3. ASSUME NEW w \in Workers, NEW k \in Coroutines, Renew(w, k) PROVE CounterInv'
    BY <1>3, NoMove DEF Renew
  <1>4. ASSUME NEW w \in Workers, NEW s \in Scopes, StartRetry(w, s) \/ RetryPermit(w, s) \/ RetryLock(w, s)
        PROVE  CounterInv'
    <2>1. CASE Msgs # {}
      <3>1. PICK m \in Msgs : TRUE
        BY <2>1
      <3> QED BY <1>0, <1>4, <3>1, CounterRetryStep
    <2>2. CASE Msgs = {}
      <3>1. parked[w][s] = <<>> /\ pc[w][s] \notin Active
        BY <2>2, SentMsgs DEF BaseInv, LocalType, AtWork, Coroutines
      <3> QED BY <1>4, <3>1 DEF StartRetry, RetryPermit, RetryLock, Active, WithPermit
    <2> QED BY <2>1, <2>2
  <1>5. ASSUME NEW w \in Workers, NEW s \in Scopes, NEW m \in Msgs, ParkedHeartbeat(w, s, m) PROVE CounterInv'
    BY <1>0, <1>5, CounterRetryStep
  <1>6. ASSUME NEW w \in Workers, Recover(w) \/ RecoverDone(w) PROVE CounterInv'
    BY <1>6, CounterBatchStep
  <1>7. ASSUME NEW w \in Workers, StopFinish(w) \/ Crash(w) PROVE CounterInv'
    BY <1>7, CounterEndStep
  <1>8. ASSUME NEW w \in Workers, Stop(w) PROVE CounterInv'
    BY <1>8, NoMove DEF Stop
  <1>9. ASSUME \/ \E s \in Scopes : LockExpires(s)
               \/ \E m \in Msgs : ClaimExpires(m)
               \/ \E t \in Tasks : Submit(t)
        PROVE  CounterInv'
    <2>1. UNCHANGED localVars
      BY <1>9 DEF LockExpires, ClaimExpires, Submit
    <2> QED BY <2>1, NoMove DEF localVars
  <1>10. CASE UNCHANGED vars
    BY <1>10, NoMove DEF vars, localVars
  <1> QED BY <1>1, <1>2, <1>3, <1>4, <1>5, <1>6, <1>7, <1>8, <1>9, <1>10 DEF Next, Step

\* Reservations, parked entries and permits are always what they count, and a
\* worker keeps room for whatever it may still have to park.
THEOREM CountersInductive == Spec => []CounterInv
  <1>1. Spec => []BaseInv
    BY WorkersWellFormed
  <1> QED BY <1>1, CounterInit, CounterStep, PTL DEF Spec

\* No share and no parked entry leaks on any path out of a task, calls that fail
\* included (reserveParkedCapacity, parkTask, removeParkedEntry, the finally
\* blocks, pending recovery, stop, a crash).
THEOREM CapacityAlwaysExact == Spec => []CapacityExact
  <1>1. CounterInv => CapacityExact
    BY DEF CounterInv, CapacityExact, Slots
  <1> QED BY <1>1, CountersInductive, PTL

\* Nor does a permit, as long as no call of the backend fails: the call of
\* acquireLock outside the try block is the only leak.
THEOREM PermitsAlwaysReturned == ~Faults => (Spec => []PermitsReturned)
  <1> SUFFICES ASSUME ~Faults PROVE Spec => []PermitsReturned
    OBVIOUS
  <1>1. CounterInv => PermitsReturned
    BY DEF CounterInv, PermitsReturned, Holding, Covered
  <1> QED BY <1>1, CountersInductive, PTL

\* Back-pressure holds for any number of loops, batches and retries.
THEOREM ParkedAlwaysBounded == Spec => []ParkedBounded
  <1>1. CounterInv => ParkedBounded
    <2> SUFFICES ASSUME CounterInv, NEW w \in Workers PROVE parkedCount[w] <= MaxParked
      BY DEF ParkedBounded
    <2>1. parkedCount[w] + Cardinality(Unspent(w)) <= MaxParked /\ parkedCount[w] \in Nat
      BY Still
    <2>2. Cardinality(Unspent(w)) \in Nat
      <3>1. Unspent(w) \in SUBSET Takers
        BY DEF Unspent
      <3> QED BY <3>1, FiniteCoroutines, FS_Subset, FS_CardinalityType
    <2> QED BY <2>1, <2>2, WorkerAssumption
  <1> QED BY <1>1, CountersInductive, PTL

\* Type correctness of the whole component.
THEOREM WorkersTypeOK == Spec => []TypeOK
  <1>1. BaseInv /\ CounterInv => TypeOK
    <2> SUFFICES ASSUME BaseInv, CounterInv PROVE TypeOK
      OBVIOUS
    <2>1. permits \in [Workers -> 0..Permits]
      <3>1. \A w \in Workers : permits[w] \in 0..Permits
        BY WorkerAssumption DEF CounterInv, Covered
      <3> QED BY <3>1 DEF CounterInv
    <2> QED BY <2>1 DEF TypeOK, BaseInv, QueueInv, LocalType, CounterInv
  <1> QED BY <1>1, CountersInductive, WorkersWellFormed, PTL

-----------------------------------------------------------------------------
(* What a step does to one coroutine.                                      *)

Unmoved(w, k) == pc'[w][k] = pc[w][k] /\ cur'[w][k] = cur[w][k] /\ lost'[w][k] = lost[w][k]

\* The steps of coroutine k, and the three that move many coroutines of a worker.
LoopActs(w, k) == k \in Loops /\ (Reserve(w, k) \/ ConsumeTask(w, k) \/ GiveBack(w, k) \/ LoopExits(w, k))
TaskEndings(w, k) == Park(w, k) \/ LockThrows(w, k) \/ AbandonClaim(w, k) \/ Leave(w, k)
TaskStarts(w, k) == StartLockFree(w, k) \/ StartLocked(w, k)
TaskSteps(w, k) ==
  Execute(w, k) \/ Fail(w, k) \/ Cascade(w, k) \/ Ack(w, k) \/ Retry(w, k) \/ Bury(w, k) \/ BuryAck(w, k)
RetryActs(w, k) == k \in Scopes /\ (StartRetry(w, k) \/ RetryPermit(w, k) \/ RetryLock(w, k))
Batches(w) == Recover(w) \/ RecoverDone(w) \/ Crash(w)

\* A coroutine that moves leaves the others where they are.
LEMMA MovesOne ==
  ASSUME LocalType, NEW w \in Workers, NEW k \in Coroutines, NEW z, NEW m, NEW b, Moves(w, k, z, m, b)
  PROVE  /\ pc'[w][k] = z /\ cur'[w][k] = m /\ lost'[w][k] = b
         /\ \A v \in Workers, j \in Coroutines : v # w \/ j # k => Unmoved(v, j)
  BY DEF LocalType, Moves, Unmoved

\* Where the steps of a loop lead.
LEMMA LoopMoves ==
  ASSUME LocalType, NEW w \in Workers, NEW k \in Coroutines, LoopActs(w, k)
  PROVE  \/ \E z \in {"polling", "idle", "exited", "spent"} : \E m, b : Moves(w, k, z, m, b)
         \/ ConsumeTask(w, k) /\ \E z \in {"permit", "refused"}, m \in Queued : \E b : Moves(w, k, z, m, b) /\ (z = "refused" => ~Up(w))
  <1>1. CASE Reserve(w, k)
    <2>1. Moves(w, k, "polling", cur[w][k], lost[w][k])
      BY <1>1, GotoMoves DEF Reserve
    <2> QED BY <2>1
  <1>2. CASE ConsumeTask(w, k)
    <2>1. PICK m \in Queued : cur' = [cur EXCEPT ![w][k] = m] /\ Goto(w, k, IF Up(w) THEN "permit" ELSE "refused")
      BY <1>2 DEF ConsumeTask
    <2>2. PICK z \in {"permit", "refused"} : Goto(w, k, z) /\ (z = "refused" => ~Up(w))
      BY <2>1
    <2>3. Moves(w, k, z, m, lost[w][k])
      BY <1>2, <2>1, <2>2, TakeMoves DEF ConsumeTask
    <2> QED BY <1>2, <2>2, <2>3
  <1>3. CASE GiveBack(w, k)
    BY <1>3, AfterTaskMoves DEF GiveBack
  <1>4. CASE LoopExits(w, k)
    <2>1. Moves(w, k, "exited", NoMsg, FALSE)
      BY <1>4, FinishMoves DEF LoopExits
    <2> QED BY <2>1
  <1> QED BY <1>1, <1>2, <1>3, <1>4 DEF LoopActs

\* The end of a task is outside its execution.
LEMMA EndingMoves ==
  ASSUME NEW w \in Workers, NEW k \in Coroutines, TaskEndings(w, k)
  PROVE  \E z \in {"polling", "idle", "exited", "spent"} : Moves(w, k, z, NoMsg, FALSE)
  <1>1. \E c : AfterTask(w, k, c)
    BY DEF TaskEndings, Park, LockThrows, AbandonClaim, Leave
  <1> QED BY <1>1, AfterTaskMoves

\* A permit comes with a claim that was verified, or the task is over.
LEMMA PermitMoves ==
  ASSUME LocalType, NEW w \in Workers, NEW k \in Coroutines, TakePermit(w, k)
  PROVE  \/ \E z \in {"polling", "idle", "exited", "spent"} : Moves(w, k, z, NoMsg, FALSE)
         \/ Moves(w, k, "claimed", cur[w][k], lost[w][k]) /\ Up(w) /\ Refresh(cur[w][k], w)
  <1>1. \/ Goto(w, k, "claimed") /\ UNCHANGED <<cur, lost>> /\ Up(w) /\ Refresh(cur[w][k], w)
        \/ AfterTask(w, k, parkedCount[w])
    BY DEF TakePermit
  <1> QED BY <1>1, GotoMoves, AfterTaskMoves

LEMMA StartMoves ==
  ASSUME LocalType, NEW w \in Workers, NEW k \in Coroutines, TaskStarts(w, k)
  PROVE  Moves(w, k, "run", cur[w][k], lost[w][k]) /\ pc[w][k] = "claimed" /\ Up(w)
  BY GotoMoves DEF TaskStarts, StartLockFree, StartLocked

\* The execution and what follows it until the finally block.
LEMMA TaskMoves ==
  ASSUME LocalType, NEW w \in Workers, NEW k \in Coroutines, TaskSteps(w, k)
  PROVE  /\ pc[w][k] \in Executing
         /\ \E z \in Executing \ {"run"} : Moves(w, k, z, cur[w][k], lost[w][k])
  <1>1. UNCHANGED <<cur, lost>> /\ pc[w][k] \in Executing
    BY DEF TaskSteps, Execute, Fail, Cascade, Ack, Retry, Bury, BuryAck, Executing
  <1>2. \E z \in Executing \ {"run"} : Goto(w, k, z)
    BY DEF TaskSteps, Execute, Fail, Cascade, Ack, Retry, Bury, BuryAck, AfterError, Executing
  <1> QED BY <1>1, <1>2, GotoMoves

\* The renewal moves nobody.
LEMMA RenewMoves ==
  ASSUME LocalType, NEW w \in Workers, NEW k \in Coroutines, Renew(w, k)
  PROVE  \E b \in BOOLEAN : Moves(w, k, pc[w][k], cur[w][k], b)
  <1>1. UNCHANGED <<pc, cur>> /\ \E b \in BOOLEAN : lost' = [lost EXCEPT ![w][k] = b]
    <2>1. UNCHANGED <<pc, cur>> /\ (UNCHANGED lost \/ lost' = [lost EXCEPT ![w][k] = TRUE])
      BY DEF Renew
    <2>2. lost[w][k] \in BOOLEAN /\ lost = [lost EXCEPT ![w][k] = lost[w][k]]
      BY DEF LocalType
    <2> QED BY <2>1, <2>2
  <1> QED BY <1>1 DEF LocalType, Moves

\* The retry of a parked entry.
LEMMA RetryMoves ==
  ASSUME LocalType, NEW w \in Workers, NEW k \in Coroutines, RetryActs(w, k)
  PROVE  \/ UNCHANGED <<pc, cur, lost>>
         \/ Moves(w, k, "idle", NoMsg, FALSE)
         \/ \E m : Moves(w, k, "retryPermit", m, lost[w][k]) /\ Up(w) /\ Refresh(m, w)
         \/ Moves(w, k, "retryClaimed", cur[w][k], lost[w][k]) /\ Up(w) /\ pc[w][k] = "retryPermit"
         \/ /\ Moves(w, k, "run", cur[w][k], lost[w][k]) /\ pc[w][k] = "retryClaimed" /\ Up(w)
            /\ Available(k) /\ Acquire(k, w, k, cur[w][k])
  <1>1. CASE StartRetry(w, k)
    <2> DEFINE m == Head(parked[w][k])
    <2>1. \/ Goto(w, k, "retryPermit") /\ cur' = [cur EXCEPT ![w][k] = m] /\ Refresh(m, w)
          \/ UNCHANGED <<pc, cur>>
      BY <1>1 DEF StartRetry
    <2>2. UNCHANGED lost /\ Up(w)
      BY <1>1 DEF StartRetry
    <2> HIDE DEF m
    <2> QED BY <2>1, <2>2, TakeMoves
  <1>2. CASE RetryPermit(w, k)
    <2>1. \/ Goto(w, k, "retryClaimed") /\ UNCHANGED <<cur, lost>> /\ Up(w) /\ pc[w][k] = "retryPermit"
          \/ Finish(w, k, "idle")
      BY <1>2 DEF RetryPermit
    <2> QED BY <2>1, GotoMoves, FinishMoves
  <1>3. CASE RetryLock(w, k)
    <2>1. \/ /\ Goto(w, k, "run") /\ UNCHANGED <<cur, lost>> /\ Up(w) /\ pc[w][k] = "retryClaimed"
             /\ Available(k) /\ Acquire(k, w, k, cur[w][k])
          \/ Finish(w, k, "idle")
      BY <1>3 DEF RetryLock
    <2> QED BY <2>1, GotoMoves, FinishMoves
  <1> QED BY <1>1, <1>2, <1>3 DEF RetryActs

\* What one step can be for one coroutine.
LEMMA CoroutineSteps ==
  ASSUME LocalType, [Next]_vars, NEW w \in Workers, NEW k \in Coroutines
  PROVE  \/ Unmoved(w, k) \/ LoopActs(w, k) \/ TakePermit(w, k) \/ TaskEndings(w, k) \/ TaskStarts(w, k)
         \/ TaskSteps(w, k) \/ Renew(w, k) \/ RetryActs(w, k) \/ Batches(w)
  <1> DEFINE Acts(v, j) == \/ LoopActs(v, j) \/ TakePermit(v, j) \/ TaskEndings(v, j) \/ TaskStarts(v, j)
                           \/ TaskSteps(v, j) \/ Renew(v, j) \/ RetryActs(v, j)
  <1>1. ASSUME NEW v \in Workers, NEW j \in Coroutines, Acts(v, j)
        PROVE  Unmoved(w, k) \/ (w = v /\ k = j)
    <2>1. \/ UNCHANGED <<pc, cur, lost>>
          \/ \E z, m, b : Moves(v, j, z, m, b)
      <3>1. CASE LoopActs(v, j) BY <3>1, LoopMoves
      <3>2. CASE TakePermit(v, j) BY <3>2, PermitMoves
      <3>3. CASE TaskEndings(v, j) BY <3>3, EndingMoves
      <3>4. CASE TaskStarts(v, j) BY <3>4, StartMoves
      <3>5. CASE TaskSteps(v, j) BY <3>5, TaskMoves
      <3>6. CASE Renew(v, j) BY <3>6, RenewMoves
      <3>7. CASE RetryActs(v, j) BY <3>7, RetryMoves
      <3> QED BY <1>1, <3>1, <3>2, <3>3, <3>4, <3>5, <3>6, <3>7
    <2> QED BY <2>1, MovesOne DEF Unmoved
  <1>2. ASSUME NEW v \in Workers, Batches(v) PROVE Unmoved(w, k) \/ v = w
    BY <1>2 DEF Batches, Recover, RecoverDone, Crash, LocalType, Unmoved
  <1>3. ASSUME \/ \E v \in Workers : StopFinish(v) \/ Stop(v) \/ \E s \in Scopes, m \in Msgs : ParkedHeartbeat(v, s, m)
               \/ \E s \in Scopes : LockExpires(s)
               \/ \E m \in Msgs : ClaimExpires(m)
               \/ \E t \in Tasks : Submit(t)
               \/ UNCHANGED vars
        PROVE  Unmoved(w, k)
    BY <1>3 DEF StopFinish, Stop, ParkedHeartbeat, LockExpires, ClaimExpires, Submit, localVars, vars, Unmoved
  <1>4. \/ \E v \in Workers, j \in Coroutines : Acts(v, j)
        \/ \E v \in Workers : Batches(v)
        \/ \E v \in Workers : StopFinish(v) \/ Stop(v) \/ \E s \in Scopes, m \in Msgs : ParkedHeartbeat(v, s, m)
        \/ \E s \in Scopes : LockExpires(s)
        \/ \E m \in Msgs : ClaimExpires(m)
        \/ \E t \in Tasks : Submit(t)
        \/ UNCHANGED vars
    <2>1. Loops \subseteq Coroutines /\ Scopes \subseteq Coroutines
      BY DEF Coroutines
    <2> QED BY <2>1 DEF Next, Step, LoopActs, TaskEndings, TaskStarts, TaskSteps, RetryActs, Batches
  <1>5. CASE \E v \in Workers, j \in Coroutines : Acts(v, j)
    <2>1. PICK v \in Workers, j \in Coroutines : Acts(v, j)
      BY <1>5
    <2>2. CASE w = v /\ k = j
      BY <2>1, <2>2
    <2> QED BY <1>1, <2>1, <2>2
  <1>6. CASE \E v \in Workers : Batches(v)
    BY <1>2, <1>6
  <1> QED BY <1>3, <1>4, <1>5, <1>6

\* An execution goes on with its message, or is left, or dies with its worker.
LEMMA WorkStays ==
  ASSUME BaseInv, [Next]_vars, NEW w \in Workers, NEW k \in Coroutines, pc[w][k] \in Executing
  PROVE  \/ pc'[w][k] \in Executing /\ cur'[w][k] = cur[w][k]
         \/ Leave(w, k) \/ Crash(w)
  <1>0. LocalType /\ cur[w][k] \in Sent
    BY CurIsMsg DEF BaseInv, Active, WithPermit
  <1>1. CASE Unmoved(w, k) BY <1>1 DEF Unmoved
  <1>2. CASE LoopActs(w, k) BY <1>2 DEF LoopActs, Reserve, ConsumeTask, GiveBack, LoopExits, Executing
  <1>3. CASE TakePermit(w, k) BY <1>3 DEF TakePermit, Executing
  <1>4. CASE TaskEndings(w, k) BY <1>4 DEF TaskEndings, Park, LockThrows, AbandonClaim, Executing
  <1>5. CASE TaskStarts(w, k) BY <1>0, <1>5, StartMoves DEF Executing
  <1>6. CASE TaskSteps(w, k) BY <1>0, <1>6, TaskMoves, MovesOne
  <1>7. CASE Renew(w, k) BY <1>0, <1>7, RenewMoves, MovesOne
  <1>8. CASE RetryActs(w, k)
    <2>1. k \in Scopes /\ UNCHANGED <<pc, cur>>
      BY <1>8 DEF RetryActs, StartRetry, RetryPermit, RetryLock, Executing
    <2> QED BY <2>1
  <1>9. CASE Recover(w)
    <2>1. PICK S \in SUBSET Stale :
            /\ pc' = [pc EXCEPT ![w] = [j \in Coroutines |-> IF j \in S THEN "permit" ELSE @[j]]]
            /\ cur' = [cur EXCEPT ![w] = [j \in Coroutines |-> IF j \in S THEN j ELSE @[j]]]
      BY <1>9 DEF Recover
    <2>2. k \notin S
      BY <1>9 DEF Recover, Stale, Pending, Executing
    <2>3. pc'[w][k] = pc[w][k] /\ cur'[w][k] = cur[w][k]
      BY <1>0, <2>1, <2>2 DEF LocalType
    <2> QED BY <2>3
  <1>10. CASE RecoverDone(w)
    <2>1. pc'[w][k] = pc[w][k] /\ cur'[w][k] = cur[w][k]
      BY <1>0, <1>10 DEF RecoverDone, LocalType, Executing
    <2> QED BY <2>1
  <1> QED
    BY <1>0, <1>1, <1>2, <1>3, <1>4, <1>5, <1>6, <1>7, <1>8, <1>9, <1>10, CoroutineSteps DEF Batches

\* An execution was one already, or starts from a verified claim.
LEMMA WorkComes ==
  ASSUME BaseInv, [Next]_vars, NEW w \in Workers, NEW k \in Coroutines, pc'[w][k] \in Executing
  PROVE  \/ /\ pc[w][k] \in Executing /\ cur'[w][k] = cur[w][k] /\ (~lost'[w][k] => ~lost[w][k])
            /\ (pc'[w][k] = "run" => pc[w][k] = "run")
         \/ /\ TaskStarts(w, k) /\ Moves(w, k, "run", cur[w][k], lost[w][k])
            /\ pc[w][k] = "claimed" /\ Up(w)
         \/ /\ RetryActs(w, k) /\ k \in Scopes /\ Moves(w, k, "run", cur[w][k], lost[w][k])
            /\ pc[w][k] = "retryClaimed" /\ Up(w)
            /\ Available(k) /\ Acquire(k, w, k, cur[w][k])
  <1>0. LocalType
    BY DEF BaseInv
  <1>m. \A z, m, b : Moves(w, k, z, m, b) => pc'[w][k] = z /\ cur'[w][k] = m /\ lost'[w][k] = b
    BY <1>0, MovesOne
  <1> USE DEF Executing
  <1>1. CASE Unmoved(w, k) BY <1>1 DEF Unmoved
  <1>2. CASE LoopActs(w, k)
    BY <1>0, <1>m, <1>2, LoopMoves
  <1>3. CASE TakePermit(w, k)
    BY <1>0, <1>m, <1>3, PermitMoves
  <1>4. CASE TaskEndings(w, k)
    BY <1>0, <1>m, <1>4, EndingMoves
  <1>5. CASE TaskStarts(w, k)
    BY <1>0, <1>5, StartMoves
  <1>6. CASE TaskSteps(w, k)
    BY <1>0, <1>6, TaskMoves, MovesOne
  <1>7. CASE Renew(w, k)
    <2>1. pc[w][k] \in Executing /\ ~lost[w][k]
      BY <1>7 DEF Renew, Renewing
    <2> QED BY <1>0, <1>7, <2>1, RenewMoves, MovesOne
  <1>8. CASE RetryActs(w, k)
    <2>1. CASE UNCHANGED <<pc, cur, lost>>
      BY <2>1
    <2>2. CASE ~UNCHANGED <<pc, cur, lost>> /\ pc'[w][k] # "run"
      BY <1>0, <1>m, <1>8, <2>2, RetryMoves
    <2>3. CASE ~UNCHANGED <<pc, cur, lost>> /\ pc'[w][k] = "run"
      <3>1. \A z, m, b : Moves(w, k, z, m, b) => z = "run"
        BY <1>m, <2>3
      <3> QED BY <1>0, <1>8, <2>3, <3>1, RetryMoves DEF RetryActs
    <2> QED BY <2>1, <2>2, <2>3
  <1>9. CASE Recover(w)
    <2>1. PICK S \in SUBSET Stale :
            /\ pc' = [pc EXCEPT ![w] = [j \in Coroutines |-> IF j \in S THEN "permit" ELSE @[j]]]
            /\ cur' = [cur EXCEPT ![w] = [j \in Coroutines |-> IF j \in S THEN j ELSE @[j]]]
      BY <1>9 DEF Recover
    <2>2. k \notin S
      BY <1>0, <2>1 DEF LocalType
    <2>3. pc'[w][k] = pc[w][k] /\ cur'[w][k] = cur[w][k] /\ lost' = lost
      BY <1>0, <1>9, <2>1, <2>2 DEF LocalType, Recover
    <2> QED BY <2>3
  <1>10. CASE RecoverDone(w)
    <2>1. pc'[w][k] = pc[w][k] /\ cur'[w][k] = cur[w][k] /\ lost' = lost
      BY <1>0, <1>10 DEF RecoverDone, LocalType
    <2> QED BY <2>1
  <1>11. CASE Crash(w)
    BY <1>0, <1>11 DEF Crash, LocalType
  <1> QED
    BY <1>0, <1>1, <1>2, <1>3, <1>4, <1>5, <1>6, <1>7, <1>8, <1>9, <1>10, <1>11, CoroutineSteps DEF Batches

\* The payload of a message at work does not change.
LEMMA ScopeStays ==
  ASSUME BaseInv, [Next]_vars, NEW m \in Sent
  PROVE  ScopeOfMsg(m)' = ScopeOfMsg(m)
  <1>1. body'[m] = body[m]
    BY WorkerQueueStep, SentGrows DEF BaseInv
  <1> QED BY <1>1 DEF ScopeOfMsg, TaskOf

\* A worker ends its life as crashed or stopped, and does not come back.
LEMMA LifeSteps ==
  ASSUME BaseInv, [Next]_vars, NEW w \in Workers
  PROVE  /\ life'[w] # life[w] =>
              \/ Stop(w) /\ life'[w] = "stopping" /\ life[w] = "up"
              \/ StopFinish(w) /\ life'[w] = "stopped" /\ life[w] = "stopping"
              \/ Crash(w) /\ life'[w] = "crashed" /\ Running(w)
         /\ Running(w)' => Running(w)
  <1>0. life \in [Workers -> {"up", "stopping", "stopped", "crashed"}]
    BY DEF BaseInv, LocalType
  <1>1. ASSUME NEW v \in Workers, Stop(v) \/ StopFinish(v) \/ Crash(v)
        PROVE  life'[w] # life[w] =>
              \/ Stop(w) /\ life'[w] = "stopping" /\ life[w] = "up"
              \/ StopFinish(w) /\ life'[w] = "stopped" /\ life[w] = "stopping"
              \/ Crash(w) /\ life'[w] = "crashed" /\ Running(w)
    <2>1. CASE Stop(v)
      <3>1. life' = [life EXCEPT ![v] = "stopping"] /\ life[v] = "up"
        BY <2>1 DEF Stop, Up
      <3> QED BY <1>0, <2>1, <3>1
    <2>2. CASE StopFinish(v)
      <3>1. life' = [life EXCEPT ![v] = "stopped"] /\ life[v] = "stopping"
        BY <2>2 DEF StopFinish, Destroyed
      <3> QED BY <1>0, <2>2, <3>1
    <2>3. CASE Crash(v)
      <3>1. life' = [life EXCEPT ![v] = "crashed"] /\ Running(v)
        BY <2>3 DEF Crash
      <3> QED BY <1>0, <2>3, <3>1
    <2> QED BY <1>1, <2>1, <2>2, <2>3
  <1>2. \/ life' = life
        \/ \E v \in Workers : Stop(v) \/ StopFinish(v) \/ Crash(v)
    <2>1. ASSUME NEW v \in Workers, NEW j \in Coroutines,
                 \/ LoopActs(v, j) \/ TakePermit(v, j) \/ TaskEndings(v, j) \/ TaskStarts(v, j)
                 \/ TaskSteps(v, j) \/ Renew(v, j) \/ RetryActs(v, j)
          PROVE  life' = life
      <3>1. CASE LoopActs(v, j) \/ TakePermit(v, j) \/ TaskStarts(v, j) \/ Renew(v, j) \/ RetryActs(v, j)
        BY <3>1 DEF LoopActs, Reserve, ConsumeTask, GiveBack, LoopExits, TakePermit, TaskStarts, StartLockFree,
                    StartLocked, Renew, RetryActs, StartRetry, RetryPermit, RetryLock
      <3>2. CASE TaskEndings(v, j) \/ TaskSteps(v, j)
        BY <3>2 DEF TaskEndings, Park, LockThrows, AbandonClaim, Leave, TaskSteps, Execute, Fail, Cascade, Ack,
                    Retry, Bury, BuryAck
      <3> QED BY <2>1, <3>1, <3>2
    <2>2. ASSUME \/ \E v \in Workers : Recover(v) \/ RecoverDone(v) \/ \E s \in Scopes, m \in Msgs : ParkedHeartbeat(v, s, m)
                 \/ \E s \in Scopes : LockExpires(s)
                 \/ \E m \in Msgs : ClaimExpires(m)
                 \/ \E t \in Tasks : Submit(t)
                 \/ UNCHANGED vars
          PROVE  life' = life
      BY <2>2 DEF Recover, RecoverDone, ParkedHeartbeat, LockExpires, ClaimExpires, Submit, localVars, vars
    <2>3. Loops \subseteq Coroutines /\ Scopes \subseteq Coroutines
      BY DEF Coroutines
    <2> QED BY <2>1, <2>2, <2>3 DEF Next, Step, LoopActs, TaskEndings, TaskStarts, TaskSteps, RetryActs
  <1> QED BY <1>1, <1>2 DEF Running

-----------------------------------------------------------------------------
(* The locks.                                                              *)

\* What a step does to the lock table: nothing, a sweep, the acquisition of a
\* free lock, a renewal, a release, or the end of a lifetime.
Acquires(w, k, s) ==
  /\ pc[w][k] \in {"claimed", "retryClaimed"} /\ ScopeOfMsg(cur[w][k]) # LockFree
  /\ Available(s) /\ Acquire(s, w, k, cur[w][k])
  /\ ~Faults => pc'[w][k] = "run" /\ cur'[w][k] = cur[w][k]
Extends(w, k) ==
  LET s == ScopeOfMsg(cur[w][k]) IN
  /\ Renew(w, k) /\ s # LockFree /\ locks[s].owner = w
  /\ locks' = [locks EXCEPT ![s].live = TRUE]
Releases(w, k) ==
  LET s == ScopeOfMsg(cur[w][k]) IN
  /\ Leave(w, k) /\ s # LockFree /\ locks[s].owner = w
  /\ locks' = [locks EXCEPT ![s] = Free]

\* A parked entry is retried for the scope it was parked for.
ParkedInScope ==
  /\ \A w \in Workers, s \in Scopes : \A m \in ParkedIn(w, s) : ScopeOfMsg(m) = s
  /\ \A w \in Workers, s \in Scopes : pc[w][s] \in {"retryPermit", "retryClaimed"} => ScopeOfMsg(cur[w][s]) = s

\* Removing an entry adds none.
LEMMA UnparkShrinks ==
  ASSUME LocalType, NEW v \in Workers, NEW z \in Scopes, NEW n, Unpark(v, z, n),
         NEW w \in Workers, NEW s \in Scopes
  PROVE  ParkedIn(w, s)' \subseteq ParkedIn(w, s)
  <1> DEFINE q == parked[v][z]
             r == RemoveFirst(q, n)
  <1>1. parked' = [parked EXCEPT ![v][z] = r] /\ parked \in [Workers -> [Scopes -> Seq(Msgs)]]
    BY DEF Unpark, LocalType
  <1>2. q \in Seq(Msgs)
    BY <1>1
  <1>3. r \in Seq(Msgs) /\ \A i \in 1..Len(r) : \E j \in 1..Len(q) : r[i] = q[j]
    <2> HIDE DEF q
    <2> QED BY <1>2, RemoveFirstProperties
  <1>4. DOMAIN r = 1..Len(r) /\ DOMAIN q = 1..Len(q)
    BY <1>2, <1>3
  <1> HIDE DEF r
  <1>5. parked'[w][s] = IF w = v /\ s = z THEN r ELSE parked[w][s]
    BY <1>1
  <1>6. CASE w = v /\ s = z
    BY <1>3, <1>4, <1>5, <1>6 DEF ParkedIn, Range
  <1>7. CASE ~(w = v /\ s = z)
    BY <1>5, <1>7 DEF ParkedIn
  <1> QED BY <1>6, <1>7

\* An entry of a parked queue was there before, or has just failed to get its lock.
LEMMA ParkedComes ==
  ASSUME BaseInv, [Next]_vars, NEW w \in Workers, NEW s \in Scopes, NEW m \in ParkedIn(w, s)'
  PROVE  \/ m \in ParkedIn(w, s)
         \/ m \in Sent /\ ScopeOfMsg(m) = s
  <1>0. LocalType /\ parked \in [Workers -> [Scopes -> Seq(Msgs)]]
    BY DEF BaseInv, LocalType
  <1>1. CASE parked' = parked
    BY <1>1 DEF ParkedIn
  <1>2. ASSUME NEW v \in Workers, NEW z \in Scopes, NEW n, Unpark(v, z, n)
        PROVE  m \in ParkedIn(w, s)
    BY <1>0, <1>2, UnparkShrinks
  <1>3. ASSUME NEW v \in Workers, parked' = [parked EXCEPT ![v] = [z \in Scopes |-> <<>>]]
        PROVE  m \in ParkedIn(w, s)
    <2>1. parked'[w][s] = IF w = v THEN <<>> ELSE parked[w][s]
      BY <1>0, <1>3
    <2>2. m \in Range(parked'[w][s])
      BY DEF ParkedIn
    <2>3. w # v
      BY <2>1, <2>2 DEF Range
    <2> QED BY <2>1, <2>2, <2>3 DEF ParkedIn
  <1>4. ASSUME NEW v \in Workers, NEW k \in Coroutines, Park(v, k)
        PROVE  m \in ParkedIn(w, s) \/ (m \in Sent /\ ScopeOfMsg(m) = s)
    <2> DEFINE n == cur[v][k]
               z == ScopeOfMsg(n)
    <2>1. n \in Msgs /\ n \in Sent /\ z \in Scopes
      BY <1>4, CurIsMsg, WorkerAssumption DEF Park, ScopeOfMsg, Active, WithPermit
    <2>2. parked' = [parked EXCEPT ![v][z] = Append(@, n)]
      BY <1>4 DEF Park
    <2> HIDE DEF n, z
    <2>3. parked'[w][s] = IF w = v /\ s = z THEN Append(parked[v][z], n) ELSE parked[w][s]
      BY <1>0, <2>1, <2>2
    <2>4. parked[v][z] \in Seq(Msgs)
      BY <1>0, <2>1
    <2>5. \A i \in DOMAIN Append(parked[v][z], n) :
            Append(parked[v][z], n)[i] = n \/ (i \in DOMAIN parked[v][z] /\ Append(parked[v][z], n)[i] = parked[v][z][i])
      BY <2>1, <2>4
    <2>6. CASE w = v /\ s = z
      <3>1. m \in Range(Append(parked[v][z], n))
        BY <2>3, <2>6 DEF ParkedIn
      <3>2. m = n \/ m \in Range(parked[v][z])
        BY <2>5, <3>1 DEF Range
      <3> QED BY <2>1, <2>6, <3>2 DEF ParkedIn, z
    <2>7. CASE ~(w = v /\ s = z)
      BY <2>3, <2>7 DEF ParkedIn
    <2> QED BY <2>6, <2>7
  <1>5. ASSUME NEW v \in Workers, NEW z \in Scopes,
               \/ StartRetry(v, z) \/ RetryPermit(v, z) \/ RetryLock(v, z)
               \/ \E n \in Msgs : ParkedHeartbeat(v, z, n)
        PROVE  parked' = parked \/ \E n : Unpark(v, z, n)
    BY <1>5 DEF StartRetry, RetryPermit, RetryLock, ParkedHeartbeat
  <1>6. ASSUME NEW v \in Workers, NEW k \in Coroutines,
               \/ LoopActs(v, k) \/ TakePermit(v, k) \/ TaskStarts(v, k) \/ TaskSteps(v, k) \/ Renew(v, k)
               \/ LockThrows(v, k) \/ AbandonClaim(v, k) \/ Leave(v, k)
        PROVE  parked' = parked
    <2>1. CASE LoopActs(v, k) \/ TakePermit(v, k) \/ TaskStarts(v, k) \/ Renew(v, k)
      BY <2>1 DEF LoopActs, Reserve, ConsumeTask, GiveBack, LoopExits, TakePermit, TaskStarts, StartLockFree,
                  StartLocked, Renew
    <2>2. CASE LockThrows(v, k) \/ AbandonClaim(v, k) \/ Leave(v, k) \/ TaskSteps(v, k)
      BY <2>2 DEF LockThrows, AbandonClaim, Leave, TaskSteps, Execute, Fail, Cascade, Ack, Retry, Bury, BuryAck
    <2> QED BY <1>6, <2>1, <2>2
  <1>7. CASE \/ \E v \in Workers : Recover(v) \/ RecoverDone(v) \/ Stop(v)
             \/ \E z \in Scopes : LockExpires(z)
             \/ \E n \in Msgs : ClaimExpires(n)
             \/ \E t \in Tasks : Submit(t)
             \/ UNCHANGED vars
    BY <1>1, <1>7 DEF Recover, RecoverDone, Stop, LockExpires, ClaimExpires, Submit, localVars, vars
  <1>8. ASSUME NEW v \in Workers, StopFinish(v) \/ Crash(v) PROVE m \in ParkedIn(w, s)
    BY <1>3, <1>8 DEF StopFinish, Crash
  <1>9. Loops \subseteq Coroutines /\ Scopes \subseteq Coroutines
    BY DEF Coroutines
  <1>10. \/ \E v \in Workers, k \in Coroutines :
              \/ LoopActs(v, k) \/ TakePermit(v, k) \/ TaskStarts(v, k) \/ TaskSteps(v, k) \/ Renew(v, k)
              \/ LockThrows(v, k) \/ AbandonClaim(v, k) \/ Leave(v, k) \/ Park(v, k)
         \/ \E v \in Workers, z \in Scopes :
              \/ StartRetry(v, z) \/ RetryPermit(v, z) \/ RetryLock(v, z)
              \/ \E n \in Msgs : ParkedHeartbeat(v, z, n)
         \/ \E v \in Workers : StopFinish(v) \/ Crash(v) \/ Recover(v) \/ RecoverDone(v) \/ Stop(v)
         \/ \E z \in Scopes : LockExpires(z)
         \/ \E n \in Msgs : ClaimExpires(n)
         \/ \E t \in Tasks : Submit(t)
         \/ UNCHANGED vars
    BY <1>9 DEF Next, Step, LoopActs, TaskStarts, TaskSteps
  <1> QED BY <1>1, <1>2, <1>4, <1>5, <1>6, <1>7, <1>8, <1>10

\* Parked entries, and what is retried, belong to the scope of their queue.
LEMMA ParkedScopeStep ==
  ASSUME BaseInv, ParkedInScope, [Next]_vars
  PROVE  ParkedInScope'
  <1>0. LocalType
    BY DEF BaseInv
  <1>1. ASSUME NEW w \in Workers, NEW s \in Scopes, NEW m \in ParkedIn(w, s)' PROVE ScopeOfMsg(m)' = s
    <2>1. m \in Sent /\ ScopeOfMsg(m) = s
      BY <1>1, ParkedComes, ParkedIsMsg DEF ParkedInScope
    <2> QED BY <2>1, ScopeStays
  <1>2. ASSUME NEW w \in Workers, NEW s \in Scopes, pc'[w][s] \in {"retryPermit", "retryClaimed"}
        PROVE  ScopeOfMsg(cur[w][s])' = s
    <2>0. s \in Coroutines /\ \A z, m, b : Moves(w, s, z, m, b) => pc'[w][s] = z /\ cur'[w][s] = m
      BY <1>0, MovesOne DEF Coroutines
    <2>a. ASSUME pc[w][s] \in {"retryPermit", "retryClaimed"}, cur'[w][s] = cur[w][s]
          PROVE  ScopeOfMsg(cur[w][s])' = s
      <3>1. cur[w][s] \in Sent /\ ScopeOfMsg(cur[w][s]) = s
        BY <2>0, <2>a, CurIsMsg DEF ParkedInScope, Active, WithPermit
      <3>2. ScopeOfMsg(cur[w][s])' = ScopeOfMsg(cur[w][s])
        <4> DEFINE m == cur[w][s]
        <4>1. ScopeOfMsg(cur[w][s])' = ScopeOf[body'[cur'[w][s]].task]
          BY DEF ScopeOfMsg, TaskOf
        <4>2. body'[cur[w][s]] = body[cur[w][s]]
          BY <3>1, WorkerQueueStep, SentGrows DEF BaseInv
        <4> QED BY <2>a, <4>1, <4>2 DEF ScopeOfMsg, TaskOf
      <3> QED BY <3>1, <3>2
    <2>1. CASE Unmoved(w, s)
      BY <1>2, <2>a, <2>1 DEF Unmoved
    <2>2. CASE LoopActs(w, s)
      BY <1>0, <1>2, <2>0, <2>2, LoopMoves
    <2>3. CASE TakePermit(w, s)
      BY <1>0, <1>2, <2>0, <2>3, PermitMoves
    <2>4. CASE TaskEndings(w, s)
      BY <1>0, <1>2, <2>0, <2>4, EndingMoves
    <2>5. CASE TaskStarts(w, s)
      BY <1>0, <1>2, <2>0, <2>5, StartMoves
    <2>6. CASE TaskSteps(w, s)
      BY <1>0, <1>2, <2>0, <2>6, TaskMoves DEF Executing
    <2>7. CASE Renew(w, s)
      BY <1>0, <1>2, <2>0, <2>7, RenewMoves, <2>a
    <2>8. CASE StartRetry(w, s)
      <3>1. \/ cur' = [cur EXCEPT ![w][s] = Head(parked[w][s])] /\ parked[w][s] # <<>>
            \/ UNCHANGED <<pc, cur>>
        BY <2>8 DEF StartRetry
      <3>2. CASE UNCHANGED <<pc, cur>>
        BY <1>2, <2>a, <3>2
      <3>3. CASE cur' = [cur EXCEPT ![w][s] = Head(parked[w][s])] /\ parked[w][s] # <<>>
        <4>1. cur'[w][s] = Head(parked[w][s]) /\ Head(parked[w][s]) \in ParkedIn(w, s)
          BY <1>0, <2>0, <3>3, ParkedIsMsg DEF LocalType
        <4>2. cur'[w][s] \in Sent /\ ScopeOfMsg(cur'[w][s]) = s
          BY <4>1, ParkedIsMsg DEF ParkedInScope
        <4>3. body'[cur'[w][s]] = body[cur'[w][s]]
          BY <4>2, WorkerQueueStep, SentGrows DEF BaseInv
        <4> QED BY <4>2, <4>3 DEF ScopeOfMsg, TaskOf
      <3> QED BY <3>1, <3>2, <3>3
    <2>9. CASE RetryPermit(w, s) \/ RetryLock(w, s)
      <3>1. pc[w][s] \in {"retryPermit", "retryClaimed"}
        BY <2>9 DEF RetryPermit, RetryLock
      <3>2. UNCHANGED cur \/ Finish(w, s, "idle")
        BY <2>9 DEF RetryPermit, RetryLock
      <3>3. ~Finish(w, s, "idle")
        BY <1>2, <2>0, FinishMoves
      <3> QED BY <2>a, <3>1, <3>2, <3>3
    <2>10. CASE Batches(w)
      <3>1. CASE Recover(w)
        <4>1. PICK S \in SUBSET Stale :
                /\ pc' = [pc EXCEPT ![w] = [j \in Coroutines |-> IF j \in S THEN "permit" ELSE @[j]]]
                /\ cur' = [cur EXCEPT ![w] = [j \in Coroutines |-> IF j \in S THEN j ELSE @[j]]]
          BY <3>1 DEF Recover
        <4>2. s \notin S
          BY <1>0, <1>2, <2>0, <4>1 DEF LocalType
        <4>3. pc'[w][s] = pc[w][s] /\ cur'[w][s] = cur[w][s]
          BY <1>0, <2>0, <4>1, <4>2 DEF LocalType
        <4> QED BY <1>2, <2>a, <4>3
      <3>2. CASE RecoverDone(w)
        BY <1>0, <1>2, <2>0, <2>a, <3>2 DEF RecoverDone, LocalType
      <3>3. CASE Crash(w)
        BY <1>0, <1>2, <2>0, <3>3 DEF Crash, LocalType
      <3> QED BY <2>10, <3>1, <3>2, <3>3 DEF Batches
    <2> QED
      BY <1>0, <2>0, <2>1, <2>2, <2>3, <2>4, <2>5, <2>6, <2>7, <2>8, <2>9, <2>10, CoroutineSteps DEF RetryActs
  <1> QED BY <1>1, <1>2 DEF ParkedInScope

\* Every change of the lock table is one of these.
LEMMA LockEffects ==
  ASSUME BaseInv, ParkedInScope, [Next]_vars
  PROVE  \/ locks' = locks \/ Sweep
         \/ \E w \in Workers, k \in Coroutines : Acquires(w, k, ScopeOfMsg(cur[w][k])) \/ Extends(w, k) \/ Releases(w, k)
         \/ \E s \in Scopes : LockExpires(s)
  <1>0. LocalType /\ Loops \subseteq Coroutines /\ Scopes \subseteq Coroutines
    BY DEF BaseInv, Coroutines
  <1> DEFINE Goal(w, k) ==
        locks' = locks \/ Sweep \/ Acquires(w, k, ScopeOfMsg(cur[w][k])) \/ Extends(w, k) \/ Releases(w, k)
  <1>1. ASSUME NEW w \in Workers, NEW k \in Coroutines,
               \/ LoopActs(w, k) \/ TakePermit(w, k) \/ TaskSteps(w, k) \/ AbandonClaim(w, k)
        PROVE  locks' = locks
    <2>1. CASE LoopActs(w, k) \/ TakePermit(w, k) \/ AbandonClaim(w, k)
      BY <2>1 DEF LoopActs, Reserve, ConsumeTask, GiveBack, LoopExits, TakePermit, AbandonClaim
    <2>2. CASE TaskSteps(w, k)
      BY <2>2 DEF TaskSteps, Execute, Fail, Cascade, Ack, Retry, Bury, BuryAck
    <2> QED BY <1>1, <2>1, <2>2
  <1>2. ASSUME NEW w \in Workers, NEW k \in Coroutines, TaskStarts(w, k) PROVE Goal(w, k)
    <2>1. CASE StartLockFree(w, k)
      BY <2>1 DEF StartLockFree
    <2>2. CASE StartLocked(w, k)
      <3>1. pc'[w][k] = "run" /\ cur'[w][k] = cur[w][k]
        BY <1>0, <2>2, GotoMoves, MovesOne DEF StartLocked
      <3> QED BY <2>2, <3>1 DEF StartLocked, Acquires
    <2> QED BY <1>2, <2>1, <2>2 DEF TaskStarts
  <1>3. ASSUME NEW w \in Workers, NEW k \in Coroutines, Park(w, k) \/ LockThrows(w, k) PROVE Goal(w, k)
    BY <1>3 DEF Park, LockThrows, Acquires
  <1>4. ASSUME NEW w \in Workers, NEW k \in Coroutines, Leave(w, k) PROVE Goal(w, k)
    BY <1>4 DEF Leave, Releases
  <1>5. ASSUME NEW w \in Workers, NEW k \in Coroutines, Renew(w, k) PROVE Goal(w, k)
    BY <1>5 DEF Renew, Extends
  <1>6. ASSUME NEW w \in Workers, NEW s \in Scopes, StartRetry(w, s) \/ RetryPermit(w, s) PROVE locks' = locks
    BY <1>6 DEF StartRetry, RetryPermit
  <1>7. ASSUME NEW w \in Workers, NEW s \in Scopes, RetryLock(w, s) PROVE Goal(w, s)
    <2>1. pc[w][s] = "retryClaimed" /\ ScopeOfMsg(cur[w][s]) = s /\ s # LockFree /\ s \in Coroutines
      BY <1>0, <1>7, WorkerAssumption DEF RetryLock, ParkedInScope
    <2>2. \/ /\ Available(s) /\ Acquire(s, w, s, cur[w][s])
             /\ Goto(w, s, "run") /\ UNCHANGED <<cur, lost>>
          \/ Sweep
          \/ Faults /\ (UNCHANGED locks \/ (Available(s) /\ Acquire(s, w, s, cur[w][s])))
      BY <1>7, <2>1 DEF RetryLock, Sweep, Available
    <2>3. Goto(w, s, "run") /\ UNCHANGED <<cur, lost>> => pc'[w][s] = "run" /\ cur'[w][s] = cur[w][s]
      BY <1>0, GotoMoves, MovesOne
    <2> QED BY <2>1, <2>2, <2>3 DEF Acquires
  <1>8. ASSUME \/ \E w \in Workers : Recover(w) \/ RecoverDone(w) \/ StopFinish(w) \/ Stop(w) \/ Crash(w)
                    \/ \E s \in Scopes, m \in Msgs : ParkedHeartbeat(w, s, m)
               \/ \E m \in Msgs : ClaimExpires(m)
               \/ \E t \in Tasks : Submit(t)
               \/ UNCHANGED vars
        PROVE  locks' = locks
    BY <1>8 DEF Recover, RecoverDone, StopFinish, Stop, Crash, ParkedHeartbeat, ClaimExpires, Submit, vars
  <1>9. \/ \E w \in Workers, k \in Coroutines :
              \/ LoopActs(w, k) \/ TakePermit(w, k) \/ TaskSteps(w, k) \/ AbandonClaim(w, k)
              \/ TaskStarts(w, k) \/ Park(w, k) \/ LockThrows(w, k) \/ Leave(w, k) \/ Renew(w, k)
        \/ \E w \in Workers, s \in Scopes : StartRetry(w, s) \/ RetryPermit(w, s) \/ RetryLock(w, s)
        \/ \E w \in Workers : Recover(w) \/ RecoverDone(w) \/ StopFinish(w) \/ Stop(w) \/ Crash(w)
                    \/ \E s \in Scopes, m \in Msgs : ParkedHeartbeat(w, s, m)
        \/ \E s \in Scopes : LockExpires(s)
        \/ \E m \in Msgs : ClaimExpires(m)
        \/ \E t \in Tasks : Submit(t)
        \/ UNCHANGED vars
    BY <1>0 DEF Next, Step, LoopActs, TaskStarts, TaskSteps
  <1> QED BY <1>0, <1>1, <1>2, <1>3, <1>4, <1>5, <1>6, <1>7, <1>8, <1>9

-----------------------------------------------------------------------------
(* What stop() leaves behind.                                              *)

\* A lock that is live and not that of a dead process is held by a coroutine
\* that will release it; nothing runs any more once stop() is over.
HeldAtWork ==
  \A w \in Workers, s \in Scopes :
    life[w] # "crashed" /\ locks[s].live /\ locks[s].owner = w =>
      \E k \in Coroutines : pc[w][k] \in Executing /\ ScopeOfMsg(cur[w][k]) = s
Quiet == \A w \in Workers : life[w] = "stopped" => \A k \in Coroutines : pc[w][k] \in {"idle", "exited"}

\* A message at work keeps its scope as long as the coroutine keeps the message.
LEMMA CurScopeStays ==
  ASSUME BaseInv, [Next]_vars, NEW w \in Workers, NEW k \in Coroutines,
         pc[w][k] \in Active, cur'[w][k] = cur[w][k]
  PROVE  ScopeOfMsg(cur[w][k])' = ScopeOfMsg(cur[w][k])
  <1>1. ScopeOfMsg(cur[w][k])' = ScopeOf[body'[cur'[w][k]].task]
    BY DEF ScopeOfMsg, TaskOf
  <1>2. body'[cur[w][k]] = body[cur[w][k]]
    BY CurIsMsg, WorkerQueueStep, SentGrows DEF BaseInv
  <1> QED BY <1>1, <1>2 DEF ScopeOfMsg, TaskOf

\* A worker that is stopped or dead does nothing.
LEMMA RestStays ==
  ASSUME BaseInv, [Next]_vars, NEW w \in Workers, NEW k \in Coroutines, ~Running(w)
  PROVE  Unmoved(w, k)
  <1>1. LocalType
    BY DEF BaseInv
  <1>2. ~LoopActs(w, k) /\ ~TakePermit(w, k) /\ ~TaskStarts(w, k) /\ ~Renew(w, k)
    BY DEF LoopActs, Reserve, ConsumeTask, GiveBack, LoopExits, TakePermit, TaskStarts, StartLockFree,
           StartLocked, Renew, Renewing, Running, Up, Destroyed
  <1>3. ~TaskEndings(w, k) /\ ~TaskSteps(w, k)
    BY DEF TaskEndings, Park, LockThrows, AbandonClaim, Leave, TaskSteps, Execute, Fail, Cascade, Ack,
           Retry, Bury, BuryAck, Running, Up, Destroyed
  <1>4. ~RetryActs(w, k) /\ ~Batches(w)
    BY DEF RetryActs, StartRetry, RetryPermit, RetryLock, Batches, Recover, RecoverDone, Crash, Running, Up, Destroyed
  <1> QED BY <1>1, <1>2, <1>3, <1>4, CoroutineSteps

LEMMA QuietStep ==
  ASSUME BaseInv, Quiet, [Next]_vars
  PROVE  Quiet'
  <1> SUFFICES ASSUME NEW w \in Workers, life'[w] = "stopped", NEW k \in Coroutines
               PROVE  pc'[w][k] \in {"idle", "exited"}
    BY DEF Quiet
  <1>1. CASE life[w] = "stopped"
    <2>1. Unmoved(w, k)
      BY <1>1, RestStays DEF Running
    <2> QED BY <1>1, <2>1 DEF Quiet, Unmoved
  <1>2. CASE life[w] # "stopped"
    <2>1. StopFinish(w)
      BY <1>2, LifeSteps
    <2>2. pc' = pc /\ pc[w][k] \in {"idle", "exited"}
      BY <2>1 DEF StopFinish
    <2> QED BY <2>2
  <1> QED BY <1>1, <1>2

\* Who leaves gives the lock back that the table has in its worker's name.
LEMMA LeaveReleases ==
  ASSUME BaseInv, ~Faults, NEW w \in Workers, NEW k \in Coroutines, Leave(w, k),
         NEW s \in Scopes, ScopeOfMsg(cur[w][k]) = s
  PROVE  ~(locks'[s].live /\ locks'[s].owner = w)
  <1>1. locks' = IF locks[s].owner = w THEN [locks EXCEPT ![s] = Free] ELSE locks
    BY WorkerAssumption DEF Leave
  <1>2. Free.live = FALSE
    BY DEF Free
  <1> QED BY <1>1, <1>2 DEF BaseInv, LocalType

LEMMA HeldStep ==
  ASSUME BaseInv, ~Faults, ParkedInScope, HeldAtWork, [Next]_vars
  PROVE  HeldAtWork'
  <1> SUFFICES ASSUME NEW w \in Workers, NEW s \in Scopes,
                      life'[w] # "crashed", locks'[s].live, locks'[s].owner = w
               PROVE  \E k \in Coroutines : pc'[w][k] \in Executing /\ ScopeOfMsg(cur[w][k])' = s
    BY DEF HeldAtWork
  <1>0. LocalType /\ locks \in [Scopes -> LockType]
    BY DEF BaseInv, LocalType, LockType
  <1>1. CASE locks[s].live /\ locks[s].owner = w
    <2>1. life[w] # "crashed"
      BY LifeSteps
    <2>2. PICK k \in Coroutines : pc[w][k] \in Executing /\ ScopeOfMsg(cur[w][k]) = s
      BY <1>1, <2>1 DEF HeldAtWork
    <2>3. ~Crash(w)
      BY <1>0 DEF Crash, LocalType
    <2>4. ~Leave(w, k)
      BY <2>2, LeaveReleases
    <2>5. pc'[w][k] \in Executing /\ cur'[w][k] = cur[w][k]
      BY <2>2, <2>3, <2>4, WorkStays
    <2>6. ScopeOfMsg(cur[w][k])' = s
      BY <2>2, <2>5, CurScopeStays DEF Active, WithPermit
    <2> QED BY <2>5, <2>6
  <1>2. CASE ~(locks[s].live /\ locks[s].owner = w)
    <2>1. locks'[s] # locks[s] /\ locks'[s] # Free
      BY <1>2 DEF Free
    <2>2. ~Sweep /\ \A z \in Scopes : ~LockExpires(z)
      <3>1. ~Sweep
        BY <1>0, <2>1 DEF Sweep
      <3>2. ASSUME NEW z \in Scopes, LockExpires(z) PROVE FALSE
        BY <1>0, <1>2, <3>2 DEF LockExpires, LockType
      <3> QED BY <3>1, <3>2
    <2>3. PICK v \in Workers, k \in Coroutines : Acquires(v, k, ScopeOfMsg(cur[v][k])) \/ Extends(v, k) \/ Releases(v, k)
      BY <2>1, <2>2, LockEffects
    <2> DEFINE z == ScopeOfMsg(cur[v][k])
    <2>4. pc[v][k] \in Active /\ z \in Scopes
      <3>1. pc[v][k] \in Active
        BY <2>3 DEF Acquires, Extends, Releases, Renew, Renewing, Leave, Active, WithPermit, Executing
      <3>2. z \in Scopes \cup {LockFree}
        BY <3>1, CurIsMsg, WorkerAssumption DEF ScopeOfMsg
      <3> QED BY <2>3, <3>1, <3>2 DEF Acquires, Extends, Releases
    <2> HIDE DEF z
    <2>5. CASE Acquires(v, k, z)
      <3>1. z = s /\ v = w
        BY <1>0, <2>1, <2>4, <2>5 DEF Acquires, Acquire
      <3>2. pc'[w][k] = "run" /\ cur'[w][k] = cur[w][k]
        BY <2>5, <3>1 DEF Acquires
      <3>3. ScopeOfMsg(cur[w][k])' = s
        BY <2>4, <3>1, <3>2, CurScopeStays DEF z
      <3> QED BY <3>2, <3>3 DEF Executing
    <2>6. CASE Extends(v, k)
      <3>1. z = s /\ v = w
        BY <1>0, <2>1, <2>4, <2>6 DEF Extends, z
      <3>2. UNCHANGED <<pc, cur>> /\ pc[w][k] \in Executing
        BY <2>6, <3>1 DEF Extends, Renew, Renewing
      <3>3. ScopeOfMsg(cur[w][k])' = s
        BY <2>4, <3>1, <3>2, CurScopeStays DEF z
      <3> QED BY <3>2, <3>3
    <2>7. CASE Releases(v, k)
      BY <1>0, <2>1, <2>4, <2>7 DEF Releases, z
    <2> QED BY <2>3, <2>5, <2>6, <2>7 DEF z
  <1> QED BY <1>1, <1>2

\* Once stop() is over the worker holds no lock, no permit and no reservation:
\* every coroutine it waits for has been through its finally block, which frees
\* the lock, and no step takes a lock that does not lead there.  A failed call
\* of acquireLock or releaseLock may leave a lock to its time to live.
THEOREM StopLeavesNothing == ~Faults => (Spec => []StopLetsGo)
  <1> SUFFICES ASSUME ~Faults PROVE Spec => []StopLetsGo
    OBVIOUS
  <1> DEFINE Inv == ParkedInScope /\ HeldAtWork /\ Quiet
  <1>1. Init => Inv
    <2> SUFFICES ASSUME Init PROVE Inv
      OBVIOUS
    <2>1. ParkedInScope
      BY DEF Init, ParkedInScope, ParkedIn, Range, Coroutines
    <2>2. HeldAtWork /\ Quiet
      BY DEF Init, HeldAtWork, Quiet, Free
    <2> QED BY <2>1, <2>2
  <1>2. BaseInv /\ Inv /\ [Next]_vars => Inv'
    BY ParkedScopeStep, HeldStep, QuietStep
  <1>3. Inv /\ CounterInv => StopLetsGo
    <2> SUFFICES ASSUME Inv, CounterInv, NEW w \in Workers, life[w] = "stopped"
                 PROVE  /\ \A s \in Scopes : locks[s].live => locks[s].owner # w
                        /\ permits[w] = 0 /\ reserved[w] = 0
      BY DEF StopLetsGo
    <2>1. \A k \in Coroutines : pc[w][k] \in {"idle", "exited"}
      BY DEF Quiet
    <2>2. Holding(w) = {} /\ Parking(w) = {}
      BY <2>1 DEF Holding, Parking, WithPermit, Executing, Coroutines
    <2>3. permits[w] = 0 /\ reserved[w] = 0
      BY <2>2, FS_EmptySet DEF CounterInv, Covered
    <2>4. \A s \in Scopes : locks[s].live => locks[s].owner # w
      BY <2>1 DEF HeldAtWork, Executing
    <2> QED BY <2>3, <2>4
  <1>4. Spec => []Inv
    <2> HIDE DEF Inv
    <2> QED BY <1>1, <1>2, WorkersWellFormed, PTL DEF Spec
  <1> QED BY <1>3, <1>4, CountersInductive, PTL

-----------------------------------------------------------------------------
(* The owner of a lock.                                                    *)

\* Who believes that it holds a lock is the one that took it.
BelieverHolds ==
  \A w \in Workers, k \in Coroutines :
    Renewing(w, k) /\ ScopeOfMsg(cur[w][k]) # LockFree =>
      LET r == locks[ScopeOfMsg(cur[w][k])] IN r.live /\ r.owner = w /\ r.by = k

\* A single permit has a single holder.
LEMMA OnePermit ==
  ASSUME CounterInv, Permits = 1, NEW w \in Workers, NEW j \in Holding(w), NEW k \in Holding(w)
  PROVE  j = k
  <1>1. IsFiniteSet(Holding(w))
    <2>1. Holding(w) \in SUBSET Coroutines
      BY DEF Holding
    <2> QED BY <2>1, FiniteCoroutines, FS_Subset
  <1>2. Cardinality(Holding(w)) <= 1 /\ Cardinality(Holding(w)) \in Nat
    <2>1. Cardinality(Holding(w)) \in Nat
      BY <1>1, FS_CardinalityType
    <2>2. Cardinality(Holding(w)) <= permits[w] /\ permits[w] <= 1 /\ permits[w] \in Nat
      BY DEF CounterInv, Covered
    <2> QED BY <2>1, <2>2
  <1>3. Holding(w) \ {j} = {}
    <2>1. Cardinality(Holding(w) \ {j}) = Cardinality(Holding(w)) - 1 /\ IsFiniteSet(Holding(w) \ {j})
      BY <1>1, FS_RemoveElement
    <2>2. Cardinality(Holding(w) \ {j}) \in Nat
      BY <2>1, FS_CardinalityType
    <2>3. Cardinality(Holding(w) \ {j}) = 0
      BY <1>2, <2>1, <2>2
    <2> QED BY <2>1, <2>3, FS_EmptySet
  <1> QED BY <1>3

\* Two elements that are always the same are at most one.
LEMMA AtMostOne ==
  ASSUME NEW S, \A p, q \in S : p = q
  PROVE  Cardinality(S) <= 1
  <1>1. CASE S = {}
    BY <1>1, FS_EmptySet
  <1>2. CASE S # {}
    <2>1. PICK p \in S : TRUE
      BY <1>2
    <2>2. S = {p}
      BY <2>1
    <2>3. Cardinality({p}) = 1
      BY FS_Singleton
    <2> QED BY <2>2, <2>3
  <1> QED BY <1>1, <1>2

\* The lock of a believer stays its own: it is not free, its renewals are in
\* time, and no other coroutine of the worker is there to release it.
LEMMA LockStays ==
  ASSUME BaseInv, CounterInv, ParkedInScope, BelieverHolds, ~Stalls, Permits = 1, [Next]_vars,
         NEW w \in Workers, NEW k \in Coroutines, NEW s \in Scopes,
         Renewing(w, k), ScopeOfMsg(cur[w][k]) = s, pc'[w][k] \in Executing
  PROVE  locks'[s].live /\ locks'[s].owner = w /\ locks'[s].by = k
  <1>0. LocalType /\ locks \in [Scopes -> LockType]
    BY DEF BaseInv, LocalType, LockType
  <1>1. locks[s].live /\ locks[s].owner = w /\ locks[s].by = k /\ ~Available(s)
    BY WorkerAssumption, QueueAssumption DEF BelieverHolds, Available
  <1>2. CASE locks' = locks
    BY <1>1, <1>2
  <1>3. CASE Sweep
    BY <1>1, <1>3 DEF Sweep
  <1>4. ASSUME NEW z \in Scopes, LockExpires(z) PROVE locks'[s] = locks[s]
    <2>1. z # s
      BY <1>1, <1>4 DEF LockExpires, LockKept, Renewing
    <2> QED BY <1>0, <1>4, <2>1 DEF LockExpires
  <1>5. ASSUME NEW v \in Workers, NEW j \in Coroutines, Acquires(v, j, ScopeOfMsg(cur[v][j]))
        PROVE  locks'[s] = locks[s]
    <2> DEFINE z == ScopeOfMsg(cur[v][j])
    <2>1. Available(z) /\ Acquire(z, v, j, cur[v][j])
      BY <1>5 DEF Acquires
    <2> HIDE DEF z
    <2>2. z # s
      BY <1>1, <2>1
    <2> QED BY <1>1, <2>1, <2>2 DEF Acquire
  <1>6. ASSUME NEW v \in Workers, NEW j \in Coroutines, Extends(v, j)
        PROVE  locks'[s].live /\ locks'[s].owner = w /\ locks'[s].by = k
    <2>1. PICK z : locks' = [locks EXCEPT ![z].live = TRUE]
      BY <1>6 DEF Extends
    <2> QED BY <1>0, <1>1, <2>1 DEF LockType
  <1>7. ASSUME NEW v \in Workers, NEW j \in Coroutines, Releases(v, j)
        PROVE  locks'[s] = locks[s]
    <2> DEFINE z == ScopeOfMsg(cur[v][j])
    <2>1. Leave(v, j) /\ locks[z].owner = v /\ locks' = [locks EXCEPT ![z] = Free]
      BY <1>7 DEF Releases
    <2> HIDE DEF z
    <2>2. CASE z = s
      <3>1. v = w
        BY <1>1, <2>1, <2>2
      <3>2. j \in Holding(w) /\ k \in Holding(w)
        BY <2>1, <3>1 DEF Leave, Renewing, Holding, WithPermit, Executing
      <3>3. j = k
        BY <3>2, OnePermit
      <3>4. \A x, m, b : Moves(w, k, x, m, b) => pc'[w][k] = x
        BY <1>0, MovesOne
      <3>5. \E x \in {"polling", "idle", "exited", "spent"} : Moves(w, k, x, NoMsg, FALSE)
        BY <2>1, <3>1, <3>3, EndingMoves DEF TaskEndings
      <3> QED BY <3>4, <3>5 DEF Executing
    <2>3. CASE z # s
      BY <1>0, <2>1, <2>3
    <2> QED BY <2>2, <2>3
  <1> QED BY <1>1, <1>2, <1>3, <1>4, <1>5, <1>6, <1>7, LockEffects

LEMMA BelieverStep ==
  ASSUME BaseInv, CounterInv, ParkedInScope, BelieverHolds, ~Stalls, Permits = 1, [Next]_vars
  PROVE  BelieverHolds'
  <1> SUFFICES ASSUME NEW w \in Workers, NEW k \in Coroutines, Renewing(w, k)',
                      ScopeOfMsg(cur[w][k])' # LockFree
               PROVE  LET r == locks'[ScopeOfMsg(cur[w][k])'] IN r.live /\ r.owner = w /\ r.by = k
    BY DEF BelieverHolds
  <1>0. LocalType /\ pc'[w][k] \in Executing /\ Running(w)' /\ ~lost'[w][k]
    BY DEF BaseInv, Renewing
  <1> DEFINE s == ScopeOfMsg(cur[w][k])
  <1>1. ASSUME pc[w][k] \in Active, cur'[w][k] = cur[w][k]
        PROVE  s \in Scopes /\ ScopeOfMsg(cur[w][k])' = s
    <2>1. ScopeOfMsg(cur[w][k])' = s
      BY <1>1, CurScopeStays
    <2>2. s \in Scopes \cup {LockFree}
      BY <1>1, CurIsMsg, WorkerAssumption DEF ScopeOfMsg
    <2> QED BY <2>1, <2>2
  <1>2. CASE pc[w][k] \in Executing /\ cur'[w][k] = cur[w][k] /\ ~lost[w][k]
    <2>1. s \in Scopes /\ ScopeOfMsg(cur[w][k])' = s
      BY <1>1, <1>2 DEF Active, WithPermit
    <2>2. Renewing(w, k)
      BY <1>0, <1>2, <2>1, LifeSteps, WorkerAssumption DEF Renewing
    <2> HIDE DEF s
    <2>3. locks'[s].live /\ locks'[s].owner = w /\ locks'[s].by = k
      BY <1>0, <2>1, <2>2, LockStays DEF s
    <2> QED BY <2>1, <2>3
  <1>3. CASE TaskStarts(w, k) /\ pc[w][k] = "claimed" /\ Moves(w, k, "run", cur[w][k], lost[w][k])
    <2>1. s \in Scopes /\ ScopeOfMsg(cur[w][k])' = s
      BY <1>0, <1>1, <1>3, MovesOne DEF Active, WithPermit
    <2>2. Acquire(s, w, k, cur[w][k])
      BY <1>3, <2>1, WorkerAssumption DEF TaskStarts, StartLocked, StartLockFree
    <2> HIDE DEF s
    <2> QED BY <2>1, <2>2 DEF Acquire
  <1>4. CASE /\ k \in Scopes /\ Moves(w, k, "run", cur[w][k], lost[w][k])
             /\ pc[w][k] = "retryClaimed" /\ Acquire(k, w, k, cur[w][k])
    <2>1. s \in Scopes /\ ScopeOfMsg(cur[w][k])' = s
      BY <1>0, <1>1, <1>4, MovesOne DEF Active, WithPermit
    <2>2. s = k
      BY <1>4 DEF ParkedInScope
    <2> HIDE DEF s
    <2> QED BY <1>4, <2>1, <2>2 DEF Acquire
  <1> QED BY <1>0, <1>2, <1>3, <1>4, WorkComes

\* Why two coroutines never both believe that they hold the lock of a scope.
\* Two things are needed that the code does not give by itself.  Event loops
\* that do not stall: a lock whose renewal is late is taken by another worker.
\* And one permit per worker: the table knows only workers, so that an
\* execution whose lock was lost releases in its finally block the lock that
\* another coroutine of its worker has taken since.
BelieverInv == ParkedInScope /\ BelieverHolds
LEMMA BelieversHold == ~Stalls /\ Permits = 1 => (Spec => []BelieverInv)
  <1> SUFFICES ASSUME ~Stalls, Permits = 1 PROVE Spec => []BelieverInv
    OBVIOUS
  <1>1. Init => BelieverInv
    <2> SUFFICES ASSUME Init PROVE BelieverInv
      OBVIOUS
    <2>1. ParkedInScope
      BY DEF Init, ParkedInScope, ParkedIn, Range, Coroutines
    <2>2. BelieverHolds
      BY DEF Init, BelieverHolds, Renewing, Executing
    <2> QED BY <2>1, <2>2 DEF BelieverInv
  <1>2. BaseInv /\ CounterInv /\ BelieverInv /\ [Next]_vars => BelieverInv'
    BY ParkedScopeStep, BelieverStep DEF BelieverInv
  <1> QED BY <1>1, <1>2, WorkersWellFormed, CountersInductive, PTL DEF Spec

\* No scope ever has two coroutines that believe in its lock, of one worker or
\* of two, although locks expire, calls fail and processes die or stop.
THEOREM OneBeliever == ~Stalls /\ Permits = 1 => (Spec => []OneBelieverPerScope)
  <1> SUFFICES ASSUME ~Stalls, Permits = 1 PROVE Spec => []OneBelieverPerScope
    OBVIOUS
  <1>1. BelieverInv => OneBelieverPerScope
    <2> SUFFICES ASSUME BelieverInv, NEW s \in Scopes PROVE Cardinality(Believers(s)) <= 1
      BY DEF OneBelieverPerScope
    <2>1. ASSUME NEW p \in Believers(s), NEW q \in Believers(s) PROVE p = q
      <3>1. /\ p \in Workers \X Coroutines /\ q \in Workers \X Coroutines
            /\ Renewing(p[1], p[2]) /\ ScopeOfMsg(cur[p[1]][p[2]]) = s
            /\ Renewing(q[1], q[2]) /\ ScopeOfMsg(cur[q[1]][q[2]]) = s
        BY DEF Believers
      <3>2. locks[s].owner = p[1] /\ locks[s].by = p[2] /\ locks[s].owner = q[1] /\ locks[s].by = q[2]
        BY <3>1, WorkerAssumption DEF BelieverInv, BelieverHolds
      <3>3. p = <<p[1], p[2]>> /\ q = <<q[1], q[2]>>
        BY <3>1
      <3> QED BY <3>2, <3>3
    <2> QED BY <2>1, AtMostOne
  <1> QED BY <1>1, BelieversHold, PTL

-----------------------------------------------------------------------------
(* The claim of a lock-free task.                                          *)

\* The worker owns the message and nobody may claim it.
Claimed(m, w) == Owned(m, w) /\ m \in fresh

\* The states of a lock-free task from the refresh of its claim to the end of
\* its execution.
Guarded(w, k) ==
  /\ Running(w)
  /\ pc[w][k] = "claimed" \/ (pc[w][k] = "run" /\ ~lost[w][k])
  /\ ScopeOfMsg(cur[w][k]) = LockFree
ClaimHeld == \A w \in Workers, k \in Coroutines : Guarded(w, k) => Claimed(cur[w][k], w)

\* What a coroutine works on has been delivered.
Delivered == \A w \in Workers, k \in Coroutines : pc[w][k] \in Active => cur[w][k] \notin Queued

\* A message that a stopping worker has refused is not at work elsewhere in it.
RefusedAlone ==
  \A w \in Workers, l \in Coroutines : pc[w][l] = "refused" =>
    /\ ~Up(w)
    /\ \A k \in Coroutines : pc[w][k] \in WithPermit => cur[w][k] # cur[w][l]

\* A claim survives every call but its owner's and the passing of its time.
LEMMA CallKeeps ==
  ASSUME QueueInv, NEW m \in Sent, NEW w \in Workers, Claimed(m, w), NEW v \in Workers, NEW n \in Msgs,
         \/ UNCHANGED queueVars \/ Consume(n, v) \/ Refresh(n, v)
         \/ \E t : Enqueue(t, 0, NoOne)
         \/ (n # m \/ v # w) /\ (Settle(n, v) \/ GiveUp(n, v) \/ \E r : Replace(n, v, r, NoOne))
         \/ n # m /\ Expire({n})
         \/ \E S \in SUBSET Stale : Claim(S, v)
  PROVE  Claimed(m, w)'
  <1> USE QueueAssumption
  <1>0. /\ m \in Msgs /\ m # nextMsg /\ nextMsg \in Nat
        /\ place \in [Msgs -> {"unsent", "queued", "pending", "settled"}]
        /\ owner \in [Msgs -> Workers \cup {NoOne}]
        /\ place[m] = "pending" /\ owner[m] = w /\ m \in fresh
    BY SentMsgs DEF QueueInv, QueueTypeOK, Sent, Claimed, Owned, Msgs
  <1>1. CASE UNCHANGED queueVars
    BY <1>0, <1>1 DEF queueVars, Claimed, Owned
  <1>2. CASE Consume(n, v) \/ Refresh(n, v)
    BY <1>0, <1>2 DEF Consume, Queued, Refresh, Claimed, Owned
  <1>3. CASE \E t : Enqueue(t, 0, NoOne)
    BY <1>0, <1>3 DEF Enqueue, Claimed, Owned
  <1>4. CASE (n # m \/ v # w) /\ Settle(n, v)
    BY <1>0, <1>4 DEF Settle, Claimed, Owned
  <1>5. CASE (n # m \/ v # w) /\ GiveUp(n, v)
    BY <1>0, <1>5 DEF GiveUp, Age, queueVars, Claimed, Owned
  <1>6. CASE (n # m \/ v # w) /\ \E r : Replace(n, v, r, NoOne)
    <2>1. n # m /\ place'[m] = place[m] /\ owner'[m] = owner[m]
      BY <1>0, <1>6 DEF Replace, Owned
    <2> QED BY <1>0, <1>6, <2>1 DEF Replace, Claimed, Owned
  <1>7. CASE n # m /\ Expire({n})
    BY <1>0, <1>7 DEF Expire, Claimed, Owned
  <1>8. CASE \E S \in SUBSET Stale : Claim(S, v)
    BY <1>0, <1>8 DEF Claim, Stale, Claimed, Owned
  <1> QED BY <1>1, <1>2, <1>3, <1>4, <1>5, <1>6, <1>7, <1>8

\* Who takes a claim away: a coroutine of its owner that works on the message,
\* the end of stop(), time.
Drops(w, k, m) ==
  /\ cur[w][k] = m
  /\ \/ k \in Loops /\ GiveBack(w, k)
     \/ TakePermit(w, k) \/ AbandonClaim(w, k) \/ Ack(w, k) \/ BuryAck(w, k) \/ Retry(w, k)
LEMMA ClaimLosses ==
  ASSUME BaseInv, [Next]_vars, NEW m \in Sent, NEW w \in Workers, Claimed(m, w)
  PROVE  Claimed(m, w)' \/ ClaimExpires(m) \/ StopFinish(w) \/ \E k \in Coroutines : Drops(w, k, m)
  <1>0. QueueInv /\ LocalType /\ Loops \subseteq Coroutines /\ Scopes \subseteq Coroutines /\ m \in Msgs
    BY SentMsgs DEF BaseInv, Coroutines
  <1>1. CASE UNCHANGED queueVars
    BY <1>0, <1>1, CallKeeps
  <1>2. ASSUME NEW v \in Workers, NEW n \in Msgs, Consume(n, v) \/ Refresh(n, v)
        PROVE  Claimed(m, w)'
    BY <1>0, <1>2, CallKeeps
  <1>3. ASSUME NEW v \in Workers, NEW n \in Msgs, n # m \/ v # w,
               Settle(n, v) \/ GiveUp(n, v) \/ \E r : Replace(n, v, r, NoOne)
        PROVE  Claimed(m, w)'
    BY <1>0, <1>3, CallKeeps
  <1>4. ASSUME NEW t, Enqueue(t, 0, NoOne) PROVE Claimed(m, w)'
    BY <1>0, <1>4, CallKeeps
  <1>5. ASSUME NEW v \in Workers, NEW l \in Loops, ConsumeTask(v, l) PROVE Claimed(m, w)'
    BY <1>2, <1>5 DEF ConsumeTask, Queued
  <1>6. ASSUME NEW v \in Workers, NEW k \in Coroutines,
               \/ (k \in Loops /\ GiveBack(v, k)) \/ TakePermit(v, k) \/ AbandonClaim(v, k)
               \/ Ack(v, k) \/ BuryAck(v, k) \/ Retry(v, k)
        PROVE  Claimed(m, w)' \/ (v = w /\ Drops(w, k, m))
    <2> DEFINE n == cur[v][k]
    <2>1. n \in Msgs
      <3>1. pc[v][k] \in Active
        BY <1>6 DEF GiveBack, TakePermit, AbandonClaim, Ack, BuryAck, Retry, Active, WithPermit, Executing
      <3> QED BY <3>1, CurIsMsg
    <2>2. \/ UNCHANGED queueVars \/ Refresh(n, v)
          \/ Settle(n, v) \/ GiveUp(n, v) \/ \E r : Replace(n, v, r, NoOne)
      BY <1>6 DEF GiveBack, TakePermit, AbandonClaim, Ack, BuryAck, Retry
    <2>3. CASE n = m /\ v = w
      BY <1>6, <2>3 DEF Drops
    <2>4. CASE ~(n = m /\ v = w)
      <3> HIDE DEF n
      <3> QED BY <1>1, <1>2, <1>3, <2>1, <2>2, <2>4, <1>0, CallKeeps
    <2> QED BY <2>3, <2>4
  <1>7. ASSUME NEW v \in Workers, NEW k \in Coroutines, Renew(v, k) \/ Execute(v, k) PROVE Claimed(m, w)'
    <2>1. pc[v][k] \in Active
      BY <1>7 DEF Renew, Renewing, Execute, Active, WithPermit, Executing
    <2>2. cur[v][k] \in Msgs
      BY <2>1, CurIsMsg
    <2>3. Refresh(cur[v][k], v) \/ UNCHANGED queueVars
      BY <1>7 DEF Renew, Execute
    <2> QED BY <1>0, <1>2, <2>2, <2>3, CallKeeps
  <1>8. ASSUME NEW v \in Workers, NEW k \in Coroutines, Cascade(v, k) PROVE Claimed(m, w)'
    <2>1. UNCHANGED queueVars \/ \E t : Enqueue(t, 0, NoOne)
      BY <1>8 DEF Cascade
    <2> QED BY <1>0, <2>1, CallKeeps
  <1>9. ASSUME NEW v \in Workers, NEW s \in Scopes, StartRetry(v, s) \/ RetryPermit(v, s) PROVE Claimed(m, w)'
    <2>1. CASE StartRetry(v, s)
      BY <1>0, <1>2, <2>1, ParkedIsMsg, CallKeeps DEF StartRetry
    <2>2. CASE RetryPermit(v, s)
      <3>1. cur[v][s] \in Msgs
        BY <1>0, <2>2, CurIsMsg DEF RetryPermit, Active
      <3>2. Refresh(cur[v][s], v) \/ UNCHANGED queueVars
        BY <2>2 DEF RetryPermit
      <3> QED BY <1>0, <1>2, <3>1, <3>2, CallKeeps
    <2> QED BY <1>9, <2>1, <2>2
  <1>10. ASSUME NEW v \in Workers, NEW s \in Scopes, NEW n \in Msgs, ParkedHeartbeat(v, s, n) PROVE Claimed(m, w)'
    <2>1. Refresh(n, v) \/ UNCHANGED queueVars
      BY <1>10 DEF ParkedHeartbeat
    <2> QED BY <1>0, <1>2, <2>1, CallKeeps
  <1>11. ASSUME NEW v \in Workers, Recover(v) PROVE Claimed(m, w)'
    <2>1. \E S \in SUBSET Stale : Claim(S, v)
      BY <1>11 DEF Recover
    <2> QED BY <1>0, <2>1, CallKeeps
  <1>12. ASSUME NEW v \in Workers, v # w, StopFinish(v) PROVE Claimed(m, w)'
    BY <1>0, <1>12 DEF StopFinish, Claimed, Owned
  <1>13. ASSUME NEW n \in Msgs, n # m, ClaimExpires(n) PROVE Claimed(m, w)'
    BY <1>0, <1>13, CallKeeps DEF ClaimExpires
  <1>14. ASSUME NEW t \in Tasks, Submit(t) PROVE Claimed(m, w)'
    BY <1>4, <1>14 DEF Submit
  <1>15. ASSUME \/ \E v \in Workers :
                     \/ \E l \in Loops : Reserve(v, l) \/ LoopExits(v, l)
                     \/ \E k \in Coroutines : \/ StartLockFree(v, k) \/ StartLocked(v, k) \/ Park(v, k)
                                              \/ LockThrows(v, k) \/ Fail(v, k) \/ Bury(v, k) \/ Leave(v, k)
                     \/ \E s \in Scopes : RetryLock(v, s)
                     \/ RecoverDone(v) \/ Stop(v) \/ Crash(v)
                \/ \E s \in Scopes : LockExpires(s)
                \/ UNCHANGED vars
         PROVE  UNCHANGED queueVars
    <2>1. CASE UNCHANGED vars \/ \E s \in Scopes : LockExpires(s)
      BY <2>1 DEF LockExpires, vars
    <2>2. CASE \E v \in Workers, k \in Coroutines : \/ StartLockFree(v, k) \/ StartLocked(v, k) \/ Park(v, k)
                                              \/ LockThrows(v, k) \/ Fail(v, k) \/ Bury(v, k) \/ Leave(v, k)
      BY <2>2 DEF StartLockFree, StartLocked, Park, LockThrows, Fail, Bury, Leave
    <2>3. CASE \E v \in Workers :
                     \/ \E l \in Loops : Reserve(v, l) \/ LoopExits(v, l)
                     \/ \E s \in Scopes : RetryLock(v, s)
                     \/ RecoverDone(v) \/ Stop(v) \/ Crash(v)
      BY <2>3 DEF Reserve, LoopExits, RetryLock, RecoverDone, Stop, Crash
    <2> QED BY <1>15, <2>1, <2>2, <2>3
  <1>16. \/ \E v \in Workers, l \in Loops : ConsumeTask(v, l)
         \/ \E v \in Workers, k \in Coroutines :
               \/ (k \in Loops /\ GiveBack(v, k)) \/ TakePermit(v, k) \/ AbandonClaim(v, k)
               \/ Ack(v, k) \/ BuryAck(v, k) \/ Retry(v, k)
         \/ \E v \in Workers, k \in Coroutines : Renew(v, k) \/ Execute(v, k) \/ Cascade(v, k)
         \/ \E v \in Workers, s \in Scopes :
               StartRetry(v, s) \/ RetryPermit(v, s) \/ \E n \in Msgs : ParkedHeartbeat(v, s, n)
         \/ \E v \in Workers : Recover(v) \/ StopFinish(v)
         \/ \E n \in Msgs : ClaimExpires(n)
         \/ \E t \in Tasks : Submit(t)
         \/ UNCHANGED queueVars
    BY <1>0, <1>15 DEF Next, Step
  <1> QED BY <1>1, <1>5, <1>6, <1>7, <1>8, <1>9, <1>10, <1>11, <1>12, <1>13, <1>14, <1>16

LEMMA PermitTaken ==
  ASSUME CounterInv, Permits = 1, NEW w \in Workers, NEW k \in Holding(w)
  PROVE  ~PermitFree(w)
  <1>1. IsFiniteSet(Holding(w))
    <2>1. Holding(w) \in SUBSET Coroutines
      BY DEF Holding
    <2> QED BY <2>1, FiniteCoroutines, FS_Subset
  <1>2. Cardinality(Holding(w)) # 0 /\ Cardinality(Holding(w)) \in Nat
    BY <1>1, FS_EmptySet, FS_CardinalityType
  <1>3. Cardinality(Holding(w)) <= permits[w] /\ permits[w] \in Nat
    BY DEF CounterInv, Covered
  <1> QED BY <1>2, <1>3 DEF PermitFree

\* No call puts a message back into the queue.
LEMMA DeliveredStays ==
  ASSUME BaseInv, [Next]_vars, NEW m \in Sent, m \notin Queued
  PROVE  m \notin Queued'
  <1> USE QueueAssumption
  <1>0. /\ QueueInv /\ m \in Msgs /\ m # nextMsg /\ place \in [Msgs -> {"unsent", "queued", "pending", "settled"}]
        /\ place[m] # "queued"
    BY SentMsgs DEF BaseInv, QueueInv, QueueTypeOK, Sent, Queued, Msgs
  <1>1. place'[m] # "queued"
    <2>1. ASSUME NEW n \in Msgs, NEW w, Consume(n, w) \/ Refresh(n, w) \/ Age(n, w) \/ Settle(n, w)
          PROVE  place'[m] # "queued"
      BY <1>0, <2>1 DEF Consume, Refresh, Age, Settle
    <2>2. ASSUME NEW n \in Msgs, NEW w, NEW r, Replace(n, w, r, NoOne) PROVE place'[m] # "queued"
      <3>1. place' = [[place EXCEPT ![n] = "settled"] EXCEPT ![nextMsg] = "queued"]
        BY <2>2 DEF Replace
      <3> QED BY <1>0, <3>1
    <2>3. ASSUME NEW S, Expire(S) \/ \E w : Claim(S, w) PROVE place'[m] # "queued"
      BY <1>0, <2>3 DEF Expire, Claim
    <2>4. ASSUME NEW t, Enqueue(t, 0, NoOne) PROVE place'[m] # "queued"
      BY <1>0, <2>4 DEF Enqueue
    <2>5. CASE UNCHANGED queueVars
      BY <1>0, <2>5 DEF queueVars
    <2> QED BY <2>1, <2>2, <2>3, <2>4, <2>5, WorkerCalls DEF WorkerCall
  <1> QED BY <1>1 DEF Queued

\* A coroutine comes by a message that is pending from then on.
LEMMA ActiveComes ==
  ASSUME BaseInv, [Next]_vars, NEW w \in Workers, NEW k \in Coroutines, pc'[w][k] \in Active
  PROVE  \/ pc[w][k] \in Active /\ cur'[w][k] = cur[w][k]
         \/ cur'[w][k] \in Msgs /\ place'[cur'[w][k]] = "pending"
  <1>0. LocalType /\ QueueInv
    BY DEF BaseInv
  <1>m. \A z, m, b : Moves(w, k, z, m, b) => pc'[w][k] = z /\ cur'[w][k] = m /\ lost'[w][k] = b
    BY <1>0, MovesOne
  <1> USE DEF Active, WithPermit, Executing
  <1>1. CASE Unmoved(w, k) BY <1>1 DEF Unmoved
  <1>2. CASE LoopActs(w, k)
    <2>1. CASE ConsumeTask(w, k)
      <3>1. PICK m \in Queued : Consume(m, w) /\ cur' = [cur EXCEPT ![w][k] = m]
        BY <2>1 DEF ConsumeTask
      <3>2. m \in Msgs /\ cur'[w][k] = m /\ place'[m] = "pending"
        BY <1>0, <3>1 DEF LocalType, Queued, Consume, QueueInv, QueueTypeOK
      <3> QED BY <3>2
    <2>2. CASE ~ConsumeTask(w, k)
      BY <1>0, <1>m, <1>2, <2>2, LoopMoves
    <2> QED BY <2>1, <2>2
  <1>3. CASE TakePermit(w, k)
    <2>1. pc[w][k] = "permit"
      BY <1>3 DEF TakePermit
    <2> QED BY <1>0, <1>m, <1>3, <2>1, PermitMoves
  <1>4. CASE TaskEndings(w, k) BY <1>m, <1>4, EndingMoves
  <1>5. CASE TaskStarts(w, k) BY <1>0, <1>m, <1>5, StartMoves
  <1>6. CASE TaskSteps(w, k) BY <1>0, <1>m, <1>6, TaskMoves
  <1>7. CASE Renew(w, k)
    <2>1. pc[w][k] \in Executing
      BY <1>7 DEF Renew, Renewing
    <2> QED BY <1>0, <1>m, <1>7, <2>1, RenewMoves
  <1>8. CASE RetryActs(w, k)
    <2>1. CASE UNCHANGED <<pc, cur, lost>>
      BY <2>1
    <2>2. ASSUME NEW m, Moves(w, k, "retryPermit", m, lost[w][k]), Refresh(m, w), m \in Msgs
          PROVE  cur'[w][k] \in Msgs /\ place'[cur'[w][k]] = "pending"
      BY <1>m, <2>2 DEF Refresh, Owned
    <2>3. CASE StartRetry(w, k)
      <3>1. k \in Scopes
        BY <1>8 DEF RetryActs
      <3>2. \/ UNCHANGED <<pc, cur, lost>>
            \/ /\ Goto(w, k, "retryPermit") /\ cur' = [cur EXCEPT ![w][k] = Head(parked[w][k])]
               /\ UNCHANGED lost /\ Refresh(Head(parked[w][k]), w) /\ parked[w][k] # <<>>
        BY <2>3 DEF StartRetry
      <3>3. parked[w][k] # <<>> => Head(parked[w][k]) \in Msgs
        BY <3>1, ParkedIsMsg
      <3> QED BY <1>0, <2>1, <2>2, <3>2, <3>3, TakeMoves
    <2>4. CASE RetryPermit(w, k) \/ RetryLock(w, k)
      <3>1. pc[w][k] \in {"retryPermit", "retryClaimed"}
        BY <2>4 DEF RetryPermit, RetryLock
      <3>2. UNCHANGED cur \/ Finish(w, k, "idle")
        BY <2>4 DEF RetryPermit, RetryLock
      <3>3. ~Finish(w, k, "idle")
        <4>1. Finish(w, k, "idle") => pc'[w][k] = "idle"
          BY <1>0 DEF Finish, Goto, LocalType
        <4> QED BY <4>1
      <3> QED BY <3>1, <3>2, <3>3
    <2> QED BY <1>8, <2>3, <2>4 DEF RetryActs
  <1>9. CASE Recover(w)
    <2>1. PICK S \in SUBSET Stale :
            /\ Claim(S, w)
            /\ pc' = [pc EXCEPT ![w] = [j \in Coroutines |-> IF j \in S THEN "permit" ELSE @[j]]]
            /\ cur' = [cur EXCEPT ![w] = [j \in Coroutines |-> IF j \in S THEN j ELSE @[j]]]
      BY <1>9 DEF Recover
    <2>2. CASE k \in S
      <3>1. k \in Msgs /\ place[k] = "pending" /\ place' = place
        BY <2>1, <2>2 DEF Stale, Pending, Claim
      <3>2. cur'[w][k] = k
        BY <1>0, <2>1, <2>2 DEF LocalType
      <3> QED BY <3>1, <3>2
    <2>3. CASE k \notin S
      <3>1. pc'[w][k] = pc[w][k] /\ cur'[w][k] = cur[w][k]
        BY <1>0, <2>1, <2>3 DEF LocalType
      <3> QED BY <3>1
    <2> QED BY <2>2, <2>3
  <1>10. CASE RecoverDone(w)
    <2>1. cur' = cur /\ pc'[w][k] = pc[w][k]
      BY <1>0, <1>10 DEF RecoverDone, LocalType
    <2> QED BY <2>1
  <1>11. CASE Crash(w)
    BY <1>0, <1>11 DEF Crash, LocalType
  <1> QED
    BY <1>0, <1>1, <1>2, <1>3, <1>4, <1>5, <1>6, <1>7, <1>8, <1>9, <1>10, <1>11, CoroutineSteps DEF Batches

LEMMA DeliveredStep ==
  ASSUME BaseInv, Delivered, [Next]_vars
  PROVE  Delivered'
  <1> SUFFICES ASSUME NEW w \in Workers, NEW k \in Coroutines, pc'[w][k] \in Active
               PROVE  cur'[w][k] \notin Queued'
    BY DEF Delivered
  <1>1. CASE pc[w][k] \in Active /\ cur'[w][k] = cur[w][k]
    BY <1>1, CurIsMsg, DeliveredStays DEF Delivered
  <1>2. CASE cur'[w][k] \in Msgs /\ place'[cur'[w][k]] = "pending"
    BY <1>2 DEF Queued
  <1> QED BY <1>1, <1>2, ActiveComes

\* A permit is taken by a worker that is not stopping.
LEMMA PermitComes ==
  ASSUME BaseInv, [Next]_vars, NEW w \in Workers, NEW k \in Coroutines, pc'[w][k] \in WithPermit
  PROVE  Up(w) \/ (pc[w][k] \in WithPermit /\ cur'[w][k] = cur[w][k])
  <1>0. LocalType
    BY DEF BaseInv
  <1>m. \A z, m, b : Moves(w, k, z, m, b) => pc'[w][k] = z /\ cur'[w][k] = m
    BY <1>0, MovesOne
  <1> USE DEF WithPermit, Executing
  <1>1. CASE Unmoved(w, k) BY <1>1 DEF Unmoved
  <1>2. CASE LoopActs(w, k) BY <1>0, <1>m, <1>2, LoopMoves
  <1>3. CASE TakePermit(w, k) BY <1>0, <1>m, <1>3, PermitMoves
  <1>4. CASE TaskEndings(w, k) BY <1>m, <1>4, EndingMoves
  <1>5. CASE TaskStarts(w, k) BY <1>0, <1>5, StartMoves
  <1>6. CASE TaskSteps(w, k) BY <1>0, <1>m, <1>6, TaskMoves
  <1>7. CASE Renew(w, k)
    <2>1. pc[w][k] \in WithPermit
      BY <1>7 DEF Renew, Renewing
    <2> QED BY <1>0, <1>m, <1>7, <2>1, RenewMoves
  <1>8. CASE RetryActs(w, k)
    <2>1. CASE UNCHANGED <<pc, cur, lost>>
      BY <2>1
    <2>2. CASE ~UNCHANGED <<pc, cur, lost>>
      BY <1>0, <1>m, <1>8, <2>2, RetryMoves
    <2> QED BY <2>1, <2>2
  <1>9. CASE Recover(w)
    BY <1>9 DEF Recover
  <1>10. CASE RecoverDone(w)
    <2>1. cur' = cur /\ pc'[w][k] = pc[w][k]
      BY <1>0, <1>10 DEF RecoverDone, LocalType
    <2> QED BY <2>1
  <1>11. CASE Crash(w)
    BY <1>0, <1>11 DEF Crash, LocalType
  <1> QED
    BY <1>0, <1>1, <1>2, <1>3, <1>4, <1>5, <1>6, <1>7, <1>8, <1>9, <1>10, <1>11, CoroutineSteps DEF Batches

\* A message is refused when stop() has begun, right after it was delivered.
LEMMA RefusedComes ==
  ASSUME BaseInv, [Next]_vars, NEW w \in Workers, NEW k \in Coroutines, pc'[w][k] = "refused"
  PROVE  \/ pc[w][k] = "refused" /\ cur'[w][k] = cur[w][k]
         \/ ~Up(w) /\ cur'[w][k] \in Queued
  <1>0. LocalType
    BY DEF BaseInv
  <1>m. \A z, m, b : Moves(w, k, z, m, b) => pc'[w][k] = z /\ cur'[w][k] = m
    BY <1>0, MovesOne
  <1> USE DEF Executing
  <1>1. CASE Unmoved(w, k) BY <1>1 DEF Unmoved
  <1>2. CASE LoopActs(w, k) BY <1>0, <1>m, <1>2, LoopMoves
  <1>3. CASE TakePermit(w, k) BY <1>0, <1>m, <1>3, PermitMoves
  <1>4. CASE TaskEndings(w, k) BY <1>m, <1>4, EndingMoves
  <1>5. CASE TaskStarts(w, k) BY <1>0, <1>m, <1>5, StartMoves
  <1>6. CASE TaskSteps(w, k) BY <1>0, <1>m, <1>6, TaskMoves
  <1>7. CASE Renew(w, k) BY <1>0, <1>m, <1>7, RenewMoves
  <1>8. CASE RetryActs(w, k)
    <2>1. CASE UNCHANGED <<pc, cur, lost>>
      BY <2>1
    <2>2. CASE ~UNCHANGED <<pc, cur, lost>>
      BY <1>0, <1>m, <1>8, <2>2, RetryMoves
    <2> QED BY <2>1, <2>2
  <1>9. CASE Recover(w)
    <2>1. PICK S \in SUBSET Stale :
            /\ pc' = [pc EXCEPT ![w] = [j \in Coroutines |-> IF j \in S THEN "permit" ELSE @[j]]]
            /\ cur' = [cur EXCEPT ![w] = [j \in Coroutines |-> IF j \in S THEN j ELSE @[j]]]
      BY <1>9 DEF Recover
    <2>2. pc'[w][k] = pc[w][k] /\ cur'[w][k] = cur[w][k]
      BY <1>0, <2>1 DEF LocalType
    <2> QED BY <2>2
  <1>10. CASE RecoverDone(w)
    <2>1. cur' = cur /\ pc'[w][k] = pc[w][k]
      BY <1>0, <1>10 DEF RecoverDone, LocalType
    <2> QED BY <2>1
  <1>11. CASE Crash(w)
    BY <1>0, <1>11 DEF Crash, LocalType
  <1> QED
    BY <1>0, <1>1, <1>2, <1>3, <1>4, <1>5, <1>6, <1>7, <1>8, <1>9, <1>10, <1>11, CoroutineSteps DEF Batches

LEMMA RefusedStep ==
  ASSUME BaseInv, Delivered, RefusedAlone, [Next]_vars
  PROVE  RefusedAlone'
  <1> SUFFICES ASSUME NEW w \in Workers, NEW l \in Coroutines, pc'[w][l] = "refused"
               PROVE  /\ ~Up(w)'
                      /\ \A k \in Coroutines : pc'[w][k] \in WithPermit => cur'[w][k] # cur'[w][l]
    BY DEF RefusedAlone
  <1>1. ~Up(w)
    BY RefusedComes DEF RefusedAlone
  <1>2. ~Up(w)'
    BY <1>1, LifeSteps DEF Up
  <1>3. ASSUME NEW k \in Coroutines, pc'[w][k] \in WithPermit PROVE cur'[w][k] # cur'[w][l]
    <2>1. pc[w][k] \in WithPermit /\ cur'[w][k] = cur[w][k]
      BY <1>1, <1>3, PermitComes
    <2>2. CASE pc[w][l] = "refused" /\ cur'[w][l] = cur[w][l]
      BY <2>1, <2>2 DEF RefusedAlone
    <2>3. CASE cur'[w][l] \in Queued
      BY <2>1, <2>3 DEF Delivered, Active
    <2> QED BY <2>2, <2>3, RefusedComes
  <1> QED BY <1>2, <1>3

\* What is guarded keeps its claim as long as its coroutine does not move: the
\* claim is refreshed in time, no other coroutine of the worker can settle or
\* give up the message, and stop() waits.
LEMMA GuardStays ==
  ASSUME BaseInv, CounterInv, RefusedAlone, ~Stalls, Permits = 1, [Next]_vars,
         NEW w \in Workers, NEW k \in Coroutines, Guarded(w, k), Claimed(cur[w][k], w), Unmoved(w, k)
  PROVE  Claimed(cur[w][k], w)'
  <1>m. PICK m \in Sent : m = cur[w][k]
    BY CurIsMsg DEF Guarded, Active, WithPermit, Executing
  <1>0. LocalType /\ pc[w][k] \in {"claimed", "run"} /\ pc'[w][k] = pc[w][k] /\ cur'[w][k] = m
    BY <1>m DEF BaseInv, Guarded, Unmoved
  <1>2. k \in Holding(w)
    BY <1>0 DEF Holding, WithPermit, Executing
  <1>3. ~ClaimExpires(m)
    <2>1. Kept(m)
      BY <1>0, <1>m DEF Kept, Claimed, Owned, Guarded, Renewing, Executing
    <2> QED BY <2>1 DEF ClaimExpires
  <1>4. ~StopFinish(w)
    BY <1>0 DEF StopFinish, Coroutines
  <1>5. ASSUME NEW j \in Coroutines, Drops(w, j, m) PROVE FALSE
    <2>1. ~TakePermit(w, j)
      BY <1>2, PermitTaken DEF TakePermit
    <2>2. ~GiveBack(w, j)
      BY <1>2, <1>5, <1>m DEF GiveBack, Drops, RefusedAlone, Holding
    <2>3. AbandonClaim(w, j) \/ Ack(w, j) \/ BuryAck(w, j) \/ Retry(w, j)
      BY <1>5, <2>1, <2>2 DEF Drops
    <2>4. j \in Holding(w)
      BY <2>3 DEF AbandonClaim, Ack, BuryAck, Retry, Holding, WithPermit, Executing
    <2>5. j = k
      BY <1>2, <2>4, OnePermit
    <2>6. AbandonClaim(w, k)
      BY <1>0, <2>3, <2>5 DEF Ack, BuryAck, Retry
    <2>7. \E z \in {"polling", "idle", "exited", "spent"} : Moves(w, k, z, NoMsg, FALSE)
      BY <2>6, EndingMoves DEF TaskEndings
    <2>8. \A z, n, b : Moves(w, k, z, n, b) => pc'[w][k] = z
      BY <1>0, MovesOne
    <2> QED BY <1>0, <2>7, <2>8
  <1>6. Claimed(m, w)'
    BY <1>m, <1>3, <1>4, <1>5, ClaimLosses
  <1> QED BY <1>0, <1>6 DEF Claimed, Owned

LEMMA ClaimHeldStep ==
  ASSUME BaseInv, CounterInv, ParkedInScope, RefusedAlone, ClaimHeld, ~Stalls, Permits = 1, [Next]_vars
  PROVE  ClaimHeld'
  <1> SUFFICES ASSUME NEW w \in Workers, NEW k \in Coroutines, Guarded(w, k)'
               PROVE  Claimed(cur[w][k], w)'
    BY DEF ClaimHeld
  <1>0. /\ LocalType /\ Running(w)' /\ Running(w)
        /\ pc'[w][k] = "claimed" \/ (pc'[w][k] = "run" /\ ~lost'[w][k])
        /\ ScopeOfMsg(cur[w][k])' = LockFree
    BY LifeSteps DEF BaseInv, Guarded
  <1>m. \A z, m, b : Moves(w, k, z, m, b) => pc'[w][k] = z /\ cur'[w][k] = m /\ lost'[w][k] = b
    BY <1>0, MovesOne
  \* A refresh by the coroutine itself gives the claim.
  <1>r. ASSUME cur'[w][k] = cur[w][k], Refresh(cur[w][k], w)
        PROVE  Claimed(cur[w][k], w)'
    BY <1>r DEF Refresh, Claimed, Owned
  \* A coroutine that keeps its message works in a scope that does not change.
  <1>s. ASSUME pc[w][k] \in Active, cur'[w][k] = cur[w][k]
        PROVE  ScopeOfMsg(cur[w][k]) = LockFree
    BY <1>0, <1>s, CurScopeStays
  <1> USE DEF Active, WithPermit, Executing
  <1>1. ASSUME Unmoved(w, k) PROVE Claimed(cur[w][k], w)'
    <2>1. pc[w][k] \in Active /\ cur'[w][k] = cur[w][k]
      BY <1>0, <1>1 DEF Unmoved
    <2>2. Guarded(w, k)
      BY <1>0, <1>1, <1>s, <2>1 DEF Guarded, Unmoved
    <2> QED BY <1>1, <2>2, GuardStays DEF ClaimHeld
  <1>2. CASE LoopActs(w, k) BY <1>0, <1>m, <1>2, LoopMoves
  <1>3. CASE TakePermit(w, k)
    <2>1. Moves(w, k, "claimed", cur[w][k], lost[w][k]) /\ Refresh(cur[w][k], w)
      <3>1. ~\E z \in {"polling", "idle", "exited", "spent"} : Moves(w, k, z, NoMsg, FALSE)
        BY <1>0, <1>m
      <3> QED BY <1>0, <1>3, <3>1, PermitMoves
    <2> QED BY <1>m, <1>r, <2>1
  <1>4. CASE TaskEndings(w, k) BY <1>0, <1>m, <1>4, EndingMoves
  <1>5. CASE TaskStarts(w, k)
    <2>1. /\ pc'[w][k] = "run" /\ cur'[w][k] = cur[w][k] /\ pc[w][k] = "claimed"
      BY <1>0, <1>m, <1>5, StartMoves
    <2>2. ScopeOfMsg(cur[w][k]) = LockFree
      BY <1>s, <2>1
    <2>3. UNCHANGED queueVars /\ Guarded(w, k)
      BY <1>0, <1>5, <2>1, <2>2 DEF TaskStarts, StartLockFree, StartLocked, Guarded
    <2> QED BY <2>1, <2>3 DEF ClaimHeld, Claimed, Owned, queueVars
  <1>6. CASE TaskSteps(w, k)
    BY <1>0, <1>m, <1>6, TaskMoves
  <1>7. CASE Renew(w, k)
    <2>1. /\ pc'[w][k] = pc[w][k] /\ cur'[w][k] = cur[w][k] /\ pc[w][k] \in Executing /\ pc[w][k] = "run"
      BY <1>0, <1>m, <1>7, RenewMoves DEF Renew, Renewing
    <2>2. ~lost'[w][k]
      BY <1>0, <2>1
    <2>3. lost' # [lost EXCEPT ![w][k] = TRUE]
      BY <1>0, <2>2 DEF LocalType
    <2>4. Refresh(cur[w][k], w)
      BY <1>7, <2>3 DEF Renew
    <2> QED BY <1>r, <2>1, <2>4
  <1>8. CASE RetryActs(w, k)
    <2>1. k \in Scopes /\ pc[w][k] \in {"idle", "retryPermit", "retryClaimed"}
      BY <1>8 DEF RetryActs, StartRetry, RetryPermit, RetryLock
    <2>2. Moves(w, k, "run", cur[w][k], lost[w][k]) /\ pc[w][k] = "retryClaimed"
      <3>1. ~UNCHANGED <<pc, cur, lost>>
        BY <1>0, <2>1
      <3>2. \A z, m, b : Moves(w, k, z, m, b) => z \in {"claimed", "run"}
        BY <1>0, <1>m
      <3>3. \/ UNCHANGED <<pc, cur, lost>>
            \/ \E m, b : \E z \in {"idle", "retryPermit", "retryClaimed"} : Moves(w, k, z, m, b)
            \/ Moves(w, k, "run", cur[w][k], lost[w][k]) /\ pc[w][k] = "retryClaimed"
        BY <1>0, <1>8, RetryMoves
      <3> QED BY <3>1, <3>2, <3>3
    <2>3. ScopeOfMsg(cur[w][k]) = k /\ ScopeOfMsg(cur[w][k]) = LockFree
      BY <1>m, <1>s, <2>1, <2>2 DEF ParkedInScope
    <2> QED BY <2>1, <2>3, WorkerAssumption
  <1>9. CASE Recover(w)
    <2>1. PICK S \in SUBSET Stale :
            /\ pc' = [pc EXCEPT ![w] = [j \in Coroutines |-> IF j \in S THEN "permit" ELSE @[j]]]
            /\ cur' = [cur EXCEPT ![w] = [j \in Coroutines |-> IF j \in S THEN j ELSE @[j]]]
            /\ lost' = lost
      BY <1>9 DEF Recover
    <2>2. k \notin S
      BY <1>0, <2>1 DEF LocalType
    <2>3. Unmoved(w, k)
      BY <1>0, <2>1, <2>2 DEF LocalType, Unmoved
    <2> QED BY <1>1, <2>3
  <1>10. CASE RecoverDone(w)
    <2>1. Unmoved(w, k)
      BY <1>0, <1>10 DEF RecoverDone, LocalType, Unmoved
    <2> QED BY <1>1, <2>1
  <1>11. CASE Crash(w)
    BY <1>0, <1>11 DEF Crash, LocalType
  <1> QED
    BY <1>0, <1>1, <1>2, <1>3, <1>4, <1>5, <1>6, <1>7, <1>8, <1>9, <1>10, <1>11, CoroutineSteps DEF Batches

\* The claim alone keeps two workers apart: they never both execute a message
\* that each believes is its own.  Under a lock this follows from the owner of
\* the lock; without one, from the claim, which stays with the worker from its
\* refresh to the end of the execution.
MessageInv == Delivered /\ RefusedAlone /\ ClaimHeld
THEOREM OneWorker == ~Stalls /\ Permits = 1 => (Spec => []OneWorkerPerMessage)
  <1> SUFFICES ASSUME ~Stalls, Permits = 1 PROVE Spec => []OneWorkerPerMessage
    OBVIOUS
  <1>1. Init => MessageInv
    BY DEF Init, MessageInv, Delivered, RefusedAlone, ClaimHeld, Guarded, Active, WithPermit, Executing
  <1>2. BaseInv /\ CounterInv /\ BelieverInv /\ MessageInv /\ [Next]_vars => MessageInv'
    BY DeliveredStep, RefusedStep, ClaimHeldStep DEF BelieverInv, MessageInv
  <1>3. BaseInv /\ BelieverInv /\ MessageInv => OneWorkerPerMessage
    <2> SUFFICES ASSUME BaseInv, BelieverInv, MessageInv, NEW m \in Msgs PROVE Cardinality(Executors(m)) <= 1
      BY DEF OneWorkerPerMessage
    <2>1. ASSUME NEW v \in Executors(m), NEW w \in Executors(m) PROVE v = w
      <3>1. /\ v \in Workers /\ \E k \in Coroutines : Renewing(v, k) /\ cur[v][k] = m
            /\ w \in Workers /\ \E k \in Coroutines : Renewing(w, k) /\ cur[w][k] = m
        BY DEF Executors
      <3>2. PICK j \in Coroutines, k \in Coroutines :
              Renewing(v, j) /\ cur[v][j] = m /\ Renewing(w, k) /\ cur[w][k] = m
        BY <3>1
      <3>3. CASE ScopeOfMsg(m) = LockFree
        <4>1. Guarded(v, j) /\ Guarded(w, k)
          BY <3>2, <3>3 DEF Renewing, Guarded
        <4> QED BY <3>1, <3>2, <4>1 DEF MessageInv, ClaimHeld, Claimed, Owned
      <3>4. CASE ScopeOfMsg(m) # LockFree
        BY <3>1, <3>2, <3>4 DEF BelieverInv, BelieverHolds
      <3> QED BY <3>3, <3>4
    <2> QED BY <2>1, AtMostOne
  <1>4. Spec => []MessageInv
    BY <1>1, <1>2, BelieversHold, WorkersWellFormed, CountersInductive, PTL DEF Spec
  <1> QED BY <1>3, <1>4, BelieversHold, WorkersWellFormed, PTL

-----------------------------------------------------------------------------
(* What stop() does with messages that wait.                               *)

\* RemoveFirst removes nothing but its element.
LEMMA RemoveFirstKeeps ==
  ASSUME NEW S, NEW s \in Seq(S), NEW e, NEW i \in 1..Len(s), s[i] # e
  PROVE  \E j \in 1..Len(RemoveFirst(s, e)) : RemoveFirst(s, e)[j] = s[i]
  <1>1. CASE \A j \in 1..Len(s) : s[j] # e
    BY <1>1 DEF RemoveFirst
  <1>2. CASE \E j \in 1..Len(s) : s[j] = e
    <2> DEFINE I == {j \in 1..Len(s) : s[j] = e}
               p == Min(I)
               l == SubSeq(s, 1, p - 1)
               r == SubSeq(s, p + 1, Len(s))
    <2>0. Len(s) \in Nat /\ \A j \in 1..Len(s) : s[j] \in S
      BY LenProperties, ElementOfSeq
    <2>1. p \in 1..Len(s) /\ s[p] = e
      <3>1. I \in SUBSET Nat /\ I # {}
        BY <1>2, <2>0
      <3> HIDE DEF I
      <3>2. p \in I
        BY <3>1, LeastPosition
      <3> QED BY <3>2 DEF I
    <2>2. RemoveFirst(s, e) = l \o r
      BY <1>2 DEF RemoveFirst, RemoveAt, SelectInSeq
    <2> HIDE DEF p
    <2>3. l \in Seq(S) /\ Len(l) = p - 1 /\ \A j \in 1..(p - 1) : l[j] = s[j]
      <3>1. \A j \in 1..(p - 1) : s[j] \in S
        BY <2>0, <2>1
      <3> QED BY <3>1, <2>0, <2>1, SubSeqProperties
    <2>4. r \in Seq(S) /\ Len(r) = Len(s) - p /\ \A j \in 1..(Len(s) - p) : r[j] = s[p + j]
      <3>1. \A j \in (p + 1)..Len(s) : s[j] \in S
        BY <2>0, <2>1
      <3> QED BY <3>1, <2>0, <2>1, SubSeqProperties
    <2> HIDE DEF l, r
    <2>5. /\ l \o r \in Seq(S)
          /\ Len(l \o r) = Len(s) - 1
          /\ \A j \in 1..Len(l) : (l \o r)[j] = l[j]
          /\ \A j \in (Len(l) + 1)..(Len(l) + Len(r)) : (l \o r)[j] = r[j - Len(l)]
      <3>1. /\ l \o r \in Seq(S) /\ Len(l \o r) = Len(l) + Len(r)
            /\ \A j \in 1..(Len(l) + Len(r)) : (l \o r)[j] = IF j <= Len(l) THEN l[j] ELSE r[j - Len(l)]
        BY <2>3, <2>4, ConcatProperties
      <3> QED BY <2>0, <2>1, <2>3, <2>4, <3>1
    <2>6. CASE i < p
      <3>1. i \in 1..(p - 1) /\ i \in 1..(Len(s) - 1)
        BY <2>0, <2>1, <2>6
      <3> QED BY <2>2, <2>3, <2>5, <3>1
    <2>7. CASE i > p
      <3>1. /\ i - 1 \in 1..(Len(s) - 1) /\ i - 1 \in (p - 1 + 1)..(p - 1 + (Len(s) - p))
            /\ i - 1 - (p - 1) = i - p /\ i - p \in 1..(Len(s) - p) /\ p + (i - p) = i
        BY <2>0, <2>1, <2>7
      <3>2. (l \o r)[i - 1] = r[i - p]
        BY <2>3, <2>4, <2>5, <3>1
      <3> QED BY <2>2, <2>4, <2>5, <3>1, <3>2
    <2> QED BY <2>0, <2>1, <2>6, <2>7
  <1> QED BY <1>1, <1>2

\* Nor does Unpark.
LEMMA UnparkKeepsOthers ==
  ASSUME LocalType, NEW v \in Workers, NEW z \in Scopes, NEW n, Unpark(v, z, n),
         NEW w \in Workers, NEW s \in Scopes, NEW m \in ParkedIn(w, s), m \notin ParkedIn(w, s)'
  PROVE  v = w /\ z = s /\ n = m
  <1> DEFINE q == parked[v][z]
             r == RemoveFirst(q, n)
  <1>1. parked' = [parked EXCEPT ![v][z] = r] /\ parked \in [Workers -> [Scopes -> Seq(Msgs)]]
    BY DEF Unpark, LocalType
  <1>2. q \in Seq(Msgs)
    BY <1>1
  <1>3. r \in Seq(Msgs) /\ \A i \in 1..Len(q) : q[i] # n => \E j \in 1..Len(r) : r[j] = q[i]
    <2> HIDE DEF q
    <2> QED BY <1>2, RemoveFirstProperties, RemoveFirstKeeps
  <1>4. DOMAIN r = 1..Len(r) /\ DOMAIN q = 1..Len(q)
    BY <1>2, <1>3
  <1> HIDE DEF r
  <1>5. parked'[w][s] = IF w = v /\ s = z THEN r ELSE parked[w][s]
    BY <1>1
  <1>6. w = v /\ s = z
    BY <1>5 DEF ParkedIn
  <1>7. n = m
    BY <1>3, <1>4, <1>5, <1>6 DEF ParkedIn, Range
  <1> QED BY <1>6, <1>7

\* The steps, by what they do to the parked queues.
LEMMA ParkedSteps ==
  ASSUME [Next]_vars
  PROVE  \/ \E v \in Workers, k \in Coroutines :
              \/ LoopActs(v, k) \/ TakePermit(v, k) \/ TaskStarts(v, k) \/ TaskSteps(v, k) \/ Renew(v, k)
              \/ LockThrows(v, k) \/ AbandonClaim(v, k) \/ Leave(v, k) \/ Park(v, k)
         \/ \E v \in Workers, z \in Scopes :
              \/ StartRetry(v, z) \/ RetryPermit(v, z) \/ RetryLock(v, z)
              \/ \E n \in Msgs : ParkedHeartbeat(v, z, n)
         \/ \E v \in Workers : StopFinish(v) \/ Crash(v) \/ Recover(v) \/ RecoverDone(v) \/ Stop(v)
         \/ \E z \in Scopes : LockExpires(z)
         \/ \E n \in Msgs : ClaimExpires(n)
         \/ \E t \in Tasks : Submit(t)
         \/ UNCHANGED vars
  <1>1. Loops \subseteq Coroutines /\ Scopes \subseteq Coroutines
    BY DEF Coroutines
  <1> QED BY <1>1 DEF Next, Step, LoopActs, TaskStarts, TaskSteps

\* An entry leaves a parked queue when its worker ends, when its scope's retry
\* is over, or when a claim turns out to be lost.
LEMMA ParkedGoes ==
  ASSUME BaseInv, ~Faults, [Next]_vars, NEW w \in Workers, NEW s \in Scopes,
         NEW m \in ParkedIn(w, s), m \notin ParkedIn(w, s)'
  PROVE  \/ StopFinish(w) \/ Crash(w)
         \/ StartRetry(w, s)
         \/ Up(w) /\ (RetryPermit(w, s) \/ RetryLock(w, s))
         \/ Up(w) /\ ParkedHeartbeat(w, s, m) /\ ~Owned(m, w)
  <1>0. LocalType /\ parked \in [Workers -> [Scopes -> Seq(Msgs)]]
    BY DEF BaseInv, LocalType
  <1>1. parked'[w][s] # parked[w][s]
    BY DEF ParkedIn
  <1>2. ASSUME NEW v \in Workers, StopFinish(v) \/ Crash(v) PROVE v = w
    <2>1. parked' = [parked EXCEPT ![v] = [z \in Scopes |-> <<>>]]
      BY <1>2 DEF StopFinish, Crash
    <2> QED BY <1>0, <1>1, <2>1
  <1>3. ASSUME NEW v \in Workers, NEW k \in Coroutines PROVE ~Park(v, k)
    <2>1. SUFFICES ASSUME Park(v, k) PROVE FALSE
      OBVIOUS
    <2> DEFINE n == cur[v][k]
               z == ScopeOfMsg(n)
    <2>2. n \in Msgs /\ z \in Scopes
      BY <2>1, CurIsMsg, WorkerAssumption DEF Park, ScopeOfMsg, Active, WithPermit
    <2>3. parked' = [parked EXCEPT ![v][z] = Append(@, n)]
      BY <2>1 DEF Park
    <2> HIDE DEF n, z
    <2>4. w = v /\ s = z /\ parked'[w][s] = Append(parked[w][s], n)
      BY <1>0, <1>1, <2>2, <2>3
    <2>5. \A i \in DOMAIN parked[w][s] : i \in DOMAIN Append(parked[w][s], n) /\ Append(parked[w][s], n)[i] = parked[w][s][i]
      BY <1>0, <2>2
    <2> QED BY <2>4, <2>5 DEF ParkedIn, Range
  <1>4. ASSUME NEW v \in Workers, NEW z \in Scopes,
               \/ StartRetry(v, z) \/ RetryPermit(v, z) \/ RetryLock(v, z)
               \/ \E n \in Msgs : ParkedHeartbeat(v, z, n)
        PROVE  \/ StartRetry(w, s)
               \/ Up(w) /\ (RetryPermit(w, s) \/ RetryLock(w, s))
               \/ Up(w) /\ ParkedHeartbeat(w, s, m) /\ ~Owned(m, w)
    <2>1. CASE StartRetry(v, z) \/ RetryPermit(v, z) \/ RetryLock(v, z)
      <3>1. parked' = parked \/ (Up(v) /\ \E n : Unpark(v, z, n))
        BY <2>1 DEF StartRetry, RetryPermit, RetryLock
      <3>2. Up(v) /\ v = w /\ z = s
        BY <1>0, <1>1, <3>1, UnparkKeepsOthers
      <3> QED BY <2>1, <3>2
    <2>2. ASSUME NEW n \in Msgs, ParkedHeartbeat(v, z, n)
          PROVE  Up(w) /\ ParkedHeartbeat(w, s, m) /\ ~Owned(m, w)
      <3>1. Up(v) /\ Unpark(v, z, n) /\ Denied(n, v)
        BY <1>1, <2>2 DEF ParkedHeartbeat
      <3>2. v = w /\ z = s /\ n = m
        BY <1>0, <3>1, UnparkKeepsOthers
      <3> QED BY <2>2, <3>1, <3>2 DEF Denied
    <2> QED BY <1>4, <2>1, <2>2
  <1>5. ASSUME \/ \E v \in Workers, k \in Coroutines :
                    \/ LoopActs(v, k) \/ TakePermit(v, k) \/ TaskStarts(v, k) \/ TaskSteps(v, k) \/ Renew(v, k)
                    \/ LockThrows(v, k) \/ AbandonClaim(v, k) \/ Leave(v, k)
               \/ \E v \in Workers : Recover(v) \/ RecoverDone(v) \/ Stop(v)
               \/ \E z \in Scopes : LockExpires(z)
               \/ \E n \in Msgs : ClaimExpires(n)
               \/ \E t \in Tasks : Submit(t)
               \/ UNCHANGED vars
        PROVE  parked' = parked
    <2>1. CASE \E v \in Workers, k \in Coroutines : LoopActs(v, k) \/ TakePermit(v, k) \/ TaskStarts(v, k) \/ Renew(v, k)
      BY <2>1 DEF LoopActs, Reserve, ConsumeTask, GiveBack, LoopExits, TakePermit, TaskStarts, StartLockFree,
                  StartLocked, Renew
    <2>2. CASE \E v \in Workers, k \in Coroutines : LockThrows(v, k) \/ AbandonClaim(v, k) \/ Leave(v, k) \/ TaskSteps(v, k)
      BY <2>2 DEF LockThrows, AbandonClaim, Leave, TaskSteps, Execute, Fail, Cascade, Ack, Retry, Bury, BuryAck
    <2>3. CASE \/ \E v \in Workers : Recover(v) \/ RecoverDone(v) \/ Stop(v)
               \/ \E z \in Scopes : LockExpires(z)
               \/ \E n \in Msgs : ClaimExpires(n)
               \/ \E t \in Tasks : Submit(t)
               \/ UNCHANGED vars
      BY <2>3 DEF Recover, RecoverDone, Stop, LockExpires, ClaimExpires, Submit, localVars, vars
    <2> QED BY <1>5, <2>1, <2>2, <2>3
  <1> QED BY <1>1, <1>2, <1>3, <1>4, <1>5, ParkedSteps

\* A coroutine without a message remembers none.
IdleHands == \A w \in Workers, k \in Coroutines : pc[w][k] \notin Active => cur[w][k] = NoMsg

LEMMA IdleStep ==
  ASSUME BaseInv, IdleHands, [Next]_vars
  PROVE  IdleHands'
  <1> SUFFICES ASSUME NEW w \in Workers, NEW k \in Coroutines, pc'[w][k] \notin Active
               PROVE  cur'[w][k] = NoMsg
    BY DEF IdleHands
  <1>0. LocalType
    BY DEF BaseInv
  <1>m. \A z, m, b : Moves(w, k, z, m, b) => pc'[w][k] = z /\ cur'[w][k] = m
    BY <1>0, MovesOne
  <1>k. pc[w][k] \notin Active /\ cur'[w][k] = cur[w][k] => cur'[w][k] = NoMsg
    BY DEF IdleHands
  <1> USE DEF Active, WithPermit, Executing
  <1>1. CASE Unmoved(w, k) BY <1>k, <1>1 DEF Unmoved
  <1>2. CASE LoopActs(w, k)
    <2>1. CASE Reserve(w, k)
      <3>1. cur'[w][k] = cur[w][k] /\ pc[w][k] = "idle"
        BY <2>1 DEF Reserve
      <3> QED BY <1>k, <3>1
    <2>2. CASE ConsumeTask(w, k)
      BY <1>0, <2>2 DEF ConsumeTask, Goto, LocalType
    <2>3. CASE GiveBack(w, k) \/ LoopExits(w, k)
      <3>1. \E z : Moves(w, k, z, NoMsg, FALSE)
        BY <2>3, AfterTaskMoves, FinishMoves DEF GiveBack, LoopExits
      <3> QED BY <1>m, <3>1
    <2> QED BY <1>2, <2>1, <2>2, <2>3 DEF LoopActs
  <1>3. CASE TakePermit(w, k)
    <2>1. \/ Goto(w, k, "claimed") /\ UNCHANGED <<cur, lost>>
          \/ AfterTask(w, k, parkedCount[w])
      BY <1>3 DEF TakePermit
    <2>2. \/ Moves(w, k, "claimed", cur[w][k], lost[w][k])
          \/ \E z : Moves(w, k, z, NoMsg, FALSE)
      BY <1>0, <2>1, GotoMoves, AfterTaskMoves
    <2> QED BY <1>m, <2>2
  <1>4. CASE TaskEndings(w, k)
    <2>1. \E z : Moves(w, k, z, NoMsg, FALSE)
      BY <1>4, EndingMoves
    <2> QED BY <1>m, <2>1
  <1>5. CASE TaskStarts(w, k) BY <1>0, <1>m, <1>5, StartMoves
  <1>6. CASE TaskSteps(w, k) BY <1>0, <1>m, <1>6, TaskMoves
  <1>7. CASE Renew(w, k)
    <2>1. pc[w][k] \in Executing
      BY <1>7 DEF Renew, Renewing
    <2> QED BY <1>0, <1>m, <1>7, <2>1, RenewMoves
  <1>8. CASE RetryActs(w, k)
    <2>1. CASE UNCHANGED <<pc, cur, lost>>
      BY <1>k, <2>1
    <2>2. CASE Moves(w, k, "idle", NoMsg, FALSE)
      BY <1>m, <2>2
    <2> QED BY <1>0, <1>m, <1>8, <2>1, <2>2, RetryMoves
  <1>9. CASE Recover(w)
    <2>1. PICK S \in SUBSET Stale :
            /\ pc' = [pc EXCEPT ![w] = [j \in Coroutines |-> IF j \in S THEN "permit" ELSE @[j]]]
            /\ cur' = [cur EXCEPT ![w] = [j \in Coroutines |-> IF j \in S THEN j ELSE @[j]]]
      BY <1>9 DEF Recover
    <2>2. k \notin S
      BY <1>0, <2>1 DEF LocalType
    <2>3. pc'[w][k] = pc[w][k] /\ cur'[w][k] = cur[w][k]
      BY <1>0, <2>1, <2>2 DEF LocalType
    <2> QED BY <1>k, <2>3
  <1>10. CASE RecoverDone(w)
    <2>1. cur' = cur /\ (pc'[w][k] = pc[w][k] \/ pc[w][k] = "spent")
      BY <1>0, <1>10 DEF RecoverDone, LocalType
    <2> QED BY <1>k, <2>1
  <1>11. CASE Crash(w)
    BY <1>0, <1>11 DEF Crash, LocalType
  <1> QED
    BY <1>0, <1>1, <1>2, <1>3, <1>4, <1>5, <1>6, <1>7, <1>8, <1>9, <1>10, <1>11, CoroutineSteps DEF Batches

\* A coroutine that is about to take a lock has just verified its claim.
LEMMA ClaimedComes ==
  ASSUME BaseInv, [Next]_vars, NEW w \in Workers, NEW k \in Coroutines, pc'[w][k] = "claimed"
  PROVE  /\ cur'[w][k] = cur[w][k]
         /\ pc[w][k] = "claimed" \/ Refresh(cur[w][k], w)
  <1>0. LocalType
    BY DEF BaseInv
  <1>m. \A z, m, b : Moves(w, k, z, m, b) => pc'[w][k] = z /\ cur'[w][k] = m
    BY <1>0, MovesOne
  <1> USE DEF Executing
  <1>1. CASE Unmoved(w, k) BY <1>1 DEF Unmoved
  <1>2. CASE LoopActs(w, k) BY <1>0, <1>m, <1>2, LoopMoves
  <1>3. CASE TakePermit(w, k) BY <1>0, <1>m, <1>3, PermitMoves
  <1>4. CASE TaskEndings(w, k) BY <1>m, <1>4, EndingMoves
  <1>5. CASE TaskStarts(w, k) BY <1>0, <1>m, <1>5, StartMoves
  <1>6. CASE TaskSteps(w, k) BY <1>0, <1>m, <1>6, TaskMoves
  <1>7. CASE Renew(w, k) BY <1>0, <1>m, <1>7, RenewMoves
  <1>8. CASE RetryActs(w, k)
    <2>1. CASE UNCHANGED <<pc, cur, lost>>
      BY <2>1
    <2>2. CASE ~UNCHANGED <<pc, cur, lost>>
      BY <1>0, <1>m, <1>8, <2>2, RetryMoves
    <2> QED BY <2>1, <2>2
  <1>9. CASE Recover(w)
    <2>1. PICK S \in SUBSET Stale :
            /\ pc' = [pc EXCEPT ![w] = [j \in Coroutines |-> IF j \in S THEN "permit" ELSE @[j]]]
            /\ cur' = [cur EXCEPT ![w] = [j \in Coroutines |-> IF j \in S THEN j ELSE @[j]]]
      BY <1>9 DEF Recover
    <2>2. pc'[w][k] = pc[w][k] /\ cur'[w][k] = cur[w][k]
      BY <1>0, <2>1 DEF LocalType
    <2> QED BY <2>2
  <1>10. CASE RecoverDone(w)
    <2>1. cur' = cur /\ pc'[w][k] = pc[w][k]
      BY <1>0, <1>10 DEF RecoverDone, LocalType
    <2> QED BY <2>1
  <1>11. CASE Crash(w)
    BY <1>0, <1>11 DEF Crash, LocalType
  <1> QED
    BY <1>0, <1>1, <1>2, <1>3, <1>4, <1>5, <1>6, <1>7, <1>8, <1>9, <1>10, <1>11, CoroutineSteps DEF Batches

\* A new entry of a parked queue had just verified its claim.
LEMMA ParkedFrom ==
  ASSUME BaseInv, [Next]_vars, NEW w \in Workers, NEW s \in Scopes, NEW m \in ParkedIn(w, s)',
         m \notin ParkedIn(w, s)
  PROVE  \E k \in Coroutines : pc[w][k] = "claimed" /\ cur[w][k] = m
  <1>0. LocalType /\ parked \in [Workers -> [Scopes -> Seq(Msgs)]]
    BY DEF BaseInv, LocalType
  <1>1. parked'[w][s] # parked[w][s]
    BY DEF ParkedIn
  <1>2. ASSUME NEW v \in Workers, StopFinish(v) \/ Crash(v) PROVE FALSE
    <2>1. parked' = [parked EXCEPT ![v] = [z \in Scopes |-> <<>>]]
      BY <1>2 DEF StopFinish, Crash
    <2>2. parked'[w][s] = <<>>
      BY <1>0, <1>1, <2>1
    <2> QED BY <2>2 DEF ParkedIn, Range
  <1>3. ASSUME NEW v \in Workers, NEW k \in Coroutines, Park(v, k)
        PROVE  v = w /\ pc[w][k] = "claimed" /\ cur[w][k] = m
    <2> DEFINE n == cur[v][k]
               z == ScopeOfMsg(n)
    <2>1. n \in Msgs /\ z \in Scopes
      BY <1>3, CurIsMsg, WorkerAssumption DEF Park, ScopeOfMsg, Active, WithPermit
    <2>2. parked' = [parked EXCEPT ![v][z] = Append(@, n)] /\ pc[v][k] = "claimed"
      BY <1>3 DEF Park
    <2> HIDE DEF z
    <2>3. w = v
      BY <1>0, <1>1, <2>1, <2>2
    <2>4. CASE n = m
      BY <2>2, <2>3, <2>4
    <2>5. CASE n # m
      <3> HIDE DEF n
      <3>1. s = z /\ parked'[w][s] = Append(parked[w][s], n)
        BY <1>0, <1>1, <2>1, <2>2, <2>3
      <3>2. \A i \in DOMAIN Append(parked[w][s], n) :
              Append(parked[w][s], n)[i] = n \/ (i \in DOMAIN parked[w][s] /\ Append(parked[w][s], n)[i] = parked[w][s][i])
        BY <1>0, <2>1
      <3> QED BY <2>5, <3>1, <3>2 DEF ParkedIn, Range
    <2> QED BY <2>4, <2>5
  <1>4. ASSUME NEW v \in Workers, NEW z \in Scopes,
               \/ StartRetry(v, z) \/ RetryPermit(v, z) \/ RetryLock(v, z)
               \/ \E n \in Msgs : ParkedHeartbeat(v, z, n)
        PROVE  FALSE
    <2>1. parked' = parked \/ \E n : Unpark(v, z, n)
      BY <1>4 DEF StartRetry, RetryPermit, RetryLock, ParkedHeartbeat
    <2> QED BY <1>0, <1>1, <2>1, UnparkShrinks
  <1>5. ASSUME \/ \E v \in Workers, k \in Coroutines :
                    \/ LoopActs(v, k) \/ TakePermit(v, k) \/ TaskStarts(v, k) \/ TaskSteps(v, k) \/ Renew(v, k)
                    \/ LockThrows(v, k) \/ AbandonClaim(v, k) \/ Leave(v, k)
               \/ \E v \in Workers : Recover(v) \/ RecoverDone(v) \/ Stop(v)
               \/ \E z \in Scopes : LockExpires(z)
               \/ \E n \in Msgs : ClaimExpires(n)
               \/ \E t \in Tasks : Submit(t)
               \/ UNCHANGED vars
        PROVE  FALSE
    <2>1. CASE \E v \in Workers, k \in Coroutines : LoopActs(v, k) \/ TakePermit(v, k) \/ TaskStarts(v, k) \/ Renew(v, k)
      BY <1>1, <2>1 DEF LoopActs, Reserve, ConsumeTask, GiveBack, LoopExits, TakePermit, TaskStarts, StartLockFree,
                  StartLocked, Renew
    <2>2. CASE \E v \in Workers, k \in Coroutines : LockThrows(v, k) \/ AbandonClaim(v, k) \/ Leave(v, k) \/ TaskSteps(v, k)
      BY <1>1, <2>2 DEF LockThrows, AbandonClaim, Leave, TaskSteps, Execute, Fail, Cascade, Ack, Retry, Bury, BuryAck
    <2>3. CASE \/ \E v \in Workers : Recover(v) \/ RecoverDone(v) \/ Stop(v)
               \/ \E z \in Scopes : LockExpires(z)
               \/ \E n \in Msgs : ClaimExpires(n)
               \/ \E t \in Tasks : Submit(t)
               \/ UNCHANGED vars
      BY <1>1, <2>3 DEF Recover, RecoverDone, Stop, LockExpires, ClaimExpires, Submit, localVars, vars
    <2> QED BY <1>5, <2>1, <2>2, <2>3
  <1> QED BY <1>2, <1>3, <1>4, <1>5, ParkedSteps

\* A retry begins with the head of its queue and keeps to it.
LEMMA RetryComes ==
  ASSUME BaseInv, [Next]_vars, NEW w \in Workers, NEW s \in Scopes,
         pc'[w][s] \in {"retryPermit", "retryClaimed"}
  PROVE  \/ pc[w][s] \in {"retryPermit", "retryClaimed"} /\ cur'[w][s] = cur[w][s]
         \/ cur'[w][s] \in ParkedIn(w, s)'
  <1>0. LocalType /\ s \in Coroutines
    BY DEF BaseInv, Coroutines
  <1>m. \A z, m, b : Moves(w, s, z, m, b) => pc'[w][s] = z /\ cur'[w][s] = m
    BY <1>0, MovesOne
  <1> USE DEF Executing
  <1>1. CASE Unmoved(w, s) BY <1>1 DEF Unmoved
  <1>2. CASE LoopActs(w, s) BY <1>0, <1>m, <1>2, LoopMoves
  <1>3. CASE TakePermit(w, s) BY <1>0, <1>m, <1>3, PermitMoves
  <1>4. CASE TaskEndings(w, s) BY <1>0, <1>m, <1>4, EndingMoves
  <1>5. CASE TaskStarts(w, s) BY <1>0, <1>m, <1>5, StartMoves
  <1>6. CASE TaskSteps(w, s) BY <1>0, <1>m, <1>6, TaskMoves
  <1>7. CASE Renew(w, s) BY <1>0, <1>m, <1>7, RenewMoves
  <1>8. CASE StartRetry(w, s)
    <2>1. CASE UNCHANGED <<pc, cur, lost>>
      BY <2>1
    <2>2. CASE ~UNCHANGED <<pc, cur, lost>>
      <3>1. /\ parked' = parked /\ parked[w][s] # <<>>
            /\ cur' = [cur EXCEPT ![w][s] = Head(parked[w][s])]
        BY <1>8, <2>2 DEF StartRetry
      <3>2. parked[w][s] \in Seq(Msgs)
        BY <1>0 DEF LocalType
      <3>3. 1 \in DOMAIN parked[w][s] /\ Head(parked[w][s]) = parked[w][s][1]
        BY <3>1, <3>2
      <3>4. cur'[w][s] = Head(parked[w][s])
        BY <1>0, <3>1 DEF LocalType
      <3> QED BY <3>1, <3>3, <3>4 DEF ParkedIn, Range
    <2> QED BY <2>1, <2>2
  <1>9. CASE RetryPermit(w, s) \/ RetryLock(w, s)
    <2>1. pc[w][s] \in {"retryPermit", "retryClaimed"}
      BY <1>9 DEF RetryPermit, RetryLock
    <2>2. UNCHANGED cur \/ Finish(w, s, "idle")
      BY <1>9 DEF RetryPermit, RetryLock
    <2>3. Finish(w, s, "idle") => pc'[w][s] = "idle"
      BY <1>0 DEF Finish, Goto, LocalType
    <2> QED BY <2>1, <2>2, <2>3
  <1>10. CASE Recover(w)
    <2>1. PICK S \in SUBSET Stale :
            /\ pc' = [pc EXCEPT ![w] = [j \in Coroutines |-> IF j \in S THEN "permit" ELSE @[j]]]
            /\ cur' = [cur EXCEPT ![w] = [j \in Coroutines |-> IF j \in S THEN j ELSE @[j]]]
      BY <1>10 DEF Recover
    <2>2. pc'[w][s] = pc[w][s] /\ cur'[w][s] = cur[w][s]
      BY <1>0, <2>1 DEF LocalType
    <2> QED BY <2>2
  <1>11. CASE RecoverDone(w)
    <2>1. cur' = cur /\ pc'[w][s] = pc[w][s]
      BY <1>0, <1>11 DEF RecoverDone, LocalType
    <2> QED BY <2>1
  <1>12. CASE Crash(w)
    BY <1>0, <1>12 DEF Crash, LocalType
  <1> QED
    BY <1>0, <1>1, <1>2, <1>3, <1>4, <1>5, <1>6, <1>7, <1>8, <1>9, <1>10, <1>11, <1>12, CoroutineSteps
    DEF Batches, RetryActs

\* A worker that has not been overtaken still owns what it holds; a claim that
\* cannot stall is fresh as well.
Mine(m, w) == Owned(m, w) /\ (Stalls \/ m \in fresh)
Sound(m, w) == place[m] = "settled" \/ Mine(m, w)

\* A message that is parked, or about to take its lock.
Handed(m, w) ==
  \/ \E s \in Scopes : m \in ParkedIn(w, s)
  \/ \E k \in Coroutines : pc[w][k] = "claimed" /\ cur[w][k] = m

\* A worker that is up still owns what it has parked, and what it is about to
\* lock, unless it has settled it itself.
HandedOver == \A w \in Workers, m \in Msgs : Up(w) /\ Handed(m, w) => Sound(m, w)

\* What a scope retries is at its place in the queue until the retry is over.
RetryParked ==
  \A w \in Workers, s \in Scopes :
    pc[w][s] \in {"retryPermit", "retryClaimed"} => cur[w][s] \in ParkedIn(w, s) \/ place[cur[w][s]] = "settled"

\* Nobody takes a message over from a worker that is alive.
Unrivalled == ~Stalls \/ \A v, w \in Workers : v = w

\* No call revives a settled message.
LEMMA SettledStep ==
  ASSUME BaseInv, [Next]_vars, NEW m \in Msgs, place[m] = "settled"
  PROVE  place'[m] = "settled"
  <1> USE QueueAssumption
  <1>0. /\ QueueInv /\ place \in [Msgs -> {"unsent", "queued", "pending", "settled"}]
        /\ nextMsg \in 1..(MaxMsgs + 1)
    BY DEF BaseInv, QueueInv, QueueTypeOK
  <1>1. nextMsg # m
    BY <1>0 DEF QueueInv, SentExactly
  <1>2. ASSUME NEW n \in Msgs, NEW w, Consume(n, w) \/ Refresh(n, w) \/ Age(n, w) \/ Settle(n, w)
        PROVE  place'[m] = "settled"
    BY <1>0, <1>2 DEF Consume, Queued, Refresh, Age, Settle
  <1>3. ASSUME NEW n \in Msgs, NEW w, NEW r, Replace(n, w, r, NoOne) PROVE place'[m] = "settled"
    <2>1. place' = [[place EXCEPT ![n] = "settled"] EXCEPT ![nextMsg] = "queued"]
      BY <1>3 DEF Replace
    <2> QED BY <1>0, <1>1, <2>1
  <1>4. ASSUME NEW S, Expire(S) \/ \E w : Claim(S, w) PROVE place'[m] = "settled"
    BY <1>4 DEF Expire, Claim
  <1>5. ASSUME NEW t, Enqueue(t, 0, NoOne) PROVE place'[m] = "settled"
    BY <1>0, <1>1, <1>5 DEF Enqueue
  <1>6. CASE UNCHANGED queueVars
    BY <1>6 DEF queueVars
  <1> QED BY <1>2, <1>3, <1>4, <1>5, <1>6, WorkerCalls DEF WorkerCall

\* What waits in a worker that is up is refreshed in time, and only a coroutine
\* that settles it takes it away.
LEMMA MineStays ==
  ASSUME BaseInv, RefusedAlone, Unrivalled, ~Faults, [Next]_vars,
         NEW w \in Workers, Up(w), NEW m \in Msgs, Handed(m, w), Mine(m, w)
  PROVE  Sound(m, w)'
  <1>0. /\ QueueInv /\ QueueInv' /\ LocalType /\ m \in Sent /\ place[m] = "pending" /\ owner[m] = w
        /\ place \in [Msgs -> {"unsent", "queued", "pending", "settled"}]
        /\ place' \in [Msgs -> {"unsent", "queued", "pending", "settled"}]
        /\ owner' \in [Msgs -> Workers \cup {NoOne}]
    BY BaseStep, OwnedSent DEF BaseInv, QueueInv, QueueTypeOK, Mine, Owned
  <1>1. CASE Stalls
    <2>1. place'[m] # "queued"
      BY <1>0, DeliveredStays DEF Queued
    <2>2. place'[m] # "unsent"
      <3>1. m \in Sent'
        BY <1>0, WorkerQueueStep, SentGrows DEF BaseInv
      <3>2. nextMsg' \in Int /\ (place'[m] = "unsent" <=> m >= nextMsg')
        BY <1>0 DEF QueueInv, QueueTypeOK, SentExactly
      <3>3. m \in 1..(nextMsg' - 1)
        BY <3>1 DEF Sent
      <3>4. \A n \in Int : \A i \in 1..(n - 1) : ~(i >= n)
        OBVIOUS
      <3>5. ~(m >= nextMsg')
        BY <3>2, <3>3, <3>4
      <3> QED BY <3>2, <3>5
    <2>3. place'[m] = "pending" => owner'[m] \in Workers
      BY <1>0 DEF QueueInv, ClaimsMatchPending, Pending
    <2> QED BY <1>0, <1>1, <2>1, <2>2, <2>3 DEF Unrivalled, Sound, Mine, Owned
  <1>2. CASE ~Stalls
    <2>1. Claimed(m, w)
      BY <1>2 DEF Mine, Claimed
    <2>2. Claimed(m, w)' => Sound(m, w)'
      BY DEF Claimed, Sound, Mine, Owned
    <2>3. ~ClaimExpires(m)
      <3>1. Kept(m)
        BY <1>0 DEF Kept, Handed
      <3> QED BY <1>2, <3>1 DEF ClaimExpires
    <2>4. ~StopFinish(w)
      BY DEF StopFinish, Up, Destroyed
    <2>5. ASSUME NEW j \in Coroutines, Drops(w, j, m) PROVE Sound(m, w)'
      <3>1. ~GiveBack(w, j) /\ ~AbandonClaim(w, j)
        BY DEF GiveBack, AbandonClaim, RefusedAlone, Up, Destroyed
      <3>2. \/ Refresh(m, w) \/ UNCHANGED queueVars
            \/ Settle(m, w) \/ \E r : Replace(m, w, r, NoOne)
        BY <2>5, <3>1 DEF Drops, TakePermit, Ack, BuryAck, Retry, Up, Destroyed
      <3>3. CASE Refresh(m, w) \/ UNCHANGED queueVars
        <4>1. Claimed(m, w)'
          BY <1>0, <2>1, <3>3, CallKeeps
        <4> QED BY <2>2, <4>1
      <3>4. CASE Settle(m, w)
        BY <1>0, <3>4 DEF Settle, Sound
      <3>5. CASE \E r : Replace(m, w, r, NoOne)
        <4>1. place' = [[place EXCEPT ![m] = "settled"] EXCEPT ![nextMsg] = "queued"] /\ nextMsg # m
          BY <1>0, <3>5, SentMsgs DEF Replace, Sent
        <4> QED BY <1>0, <4>1 DEF Sound
      <3> QED BY <3>2, <3>3, <3>4, <3>5
    <2> QED BY <1>0, <2>1, <2>2, <2>3, <2>4, <2>5, ClaimLosses
  <1> QED BY <1>1, <1>2

\* The refresh before the lock makes a message the worker's own; from there it
\* stays so, parked or not.
LEMMA HandedStep ==
  ASSUME BaseInv, RefusedAlone, HandedOver, Unrivalled, ~Faults, [Next]_vars
  PROVE  HandedOver'
  <1> SUFFICES ASSUME NEW w \in Workers, NEW m \in Msgs, Up(w)', Handed(m, w)'
               PROVE  Sound(m, w)'
    BY DEF HandedOver
  <1>1. Up(w)
    BY LifeSteps DEF Up
  <1>2. CASE Handed(m, w)
    <2>1. Sound(m, w)
      BY <1>1, <1>2 DEF HandedOver
    <2>2. CASE place[m] = "settled"
      BY <2>2, SettledStep DEF Sound
    <2>3. CASE Mine(m, w)
      BY <1>1, <1>2, <2>3, MineStays
    <2> QED BY <2>1, <2>2, <2>3 DEF Sound
  <1>3. CASE ~Handed(m, w)
    <2>1. ~\E s \in Scopes : m \in ParkedIn(w, s)'
      BY <1>3, ParkedFrom DEF Handed
    <2>2. PICK k \in Coroutines : pc'[w][k] = "claimed" /\ cur'[w][k] = m
      BY <2>1 DEF Handed
    <2>3. cur[w][k] = m /\ pc[w][k] # "claimed"
      BY <1>3, <2>2, ClaimedComes DEF Handed
    <2>4. Refresh(m, w)
      BY <2>2, <2>3, ClaimedComes
    <2> QED BY <2>4 DEF Refresh, Sound, Mine, Owned
  <1> QED BY <1>2, <1>3

\* Only the end of the retry, of the claim or of the process removes the entry.
LEMMA RetryStep ==
  ASSUME BaseInv, HandedOver, RetryParked, ~Faults, [Next]_vars
  PROVE  RetryParked'
  <1> SUFFICES ASSUME NEW w \in Workers, NEW s \in Scopes, pc'[w][s] \in {"retryPermit", "retryClaimed"},
                      cur'[w][s] \notin ParkedIn(w, s)'
               PROVE  place'[cur'[w][s]] = "settled"
    BY DEF RetryParked
  <1>1. pc[w][s] \in {"retryPermit", "retryClaimed"} /\ cur'[w][s] = cur[w][s]
    BY RetryComes
  <1>2. PICK m \in Msgs : m = cur[w][s]
    <2>1. s \in Coroutines /\ pc[w][s] \in Active
      BY <1>1 DEF Coroutines, Active, WithPermit
    <2> QED BY <2>1, CurIsMsg
  <1>3. CASE place[m] = "settled"
    BY <1>1, <1>2, <1>3, SettledStep
  <1>4. CASE m \in ParkedIn(w, s)
    <2>0. LocalType /\ s \in Coroutines /\ pc[w] \in [Coroutines -> States]
      BY DEF BaseInv, LocalType, Coroutines
    <2>1. ~StopFinish(w)
      <3>1. s \in Coroutines \ Loops
        BY <2>0, WorkerAssumption
      <3> QED BY <1>1, <3>1 DEF StopFinish
    <2>2. ~Crash(w)
      BY <2>0 DEF Crash, LocalType
    <2>3. ~StartRetry(w, s)
      BY <1>1 DEF StartRetry
    <2>4. ~(RetryPermit(w, s) \/ RetryLock(w, s))
      <3>1. SUFFICES ASSUME RetryPermit(w, s) \/ RetryLock(w, s) PROVE FALSE
        OBVIOUS
      <3>2. parked' # parked
        BY <1>1, <1>2, <1>4 DEF ParkedIn
      <3>3. Goto(w, s, "run") \/ Finish(w, s, "idle")
        BY <3>1, <3>2 DEF RetryPermit, RetryLock
      <3>4. pc'[w][s] \in {"run", "idle"}
        BY <2>0, <3>3 DEF Finish, Goto, LocalType
      <3> QED BY <3>4
    <2>5. Up(w) /\ ~Owned(m, w)
      BY <1>1, <1>2, <1>4, <2>1, <2>2, <2>3, <2>4, ParkedGoes
    <2>6. place[m] = "settled"
      BY <1>4, <2>5 DEF HandedOver, Handed, Sound, Mine
    <2> QED BY <1>3, <2>6
  <1> QED BY <1>1, <1>2, <1>3, <1>4 DEF RetryParked

\* The wait ends with a given-up claim, whatever step ends it.
WaitingInv == Delivered /\ RefusedAlone /\ IdleHands /\ HandedOver /\ RetryParked
LEMMA StopGivesUpStep ==
  ASSUME BaseInv, WaitingInv, ~Faults, [Next]_vars,
         NEW w \in Workers, NEW m \in Msgs,
         Destroyed(w), life'[w] # "crashed", Owned(m, w), Waiting(w, m), ~Waiting(w, m)', ~Started(w, m)'
  PROVE  m \notin fresh' \/ owner'[m] # w
  <1>0. LocalType /\ ~Up(w) /\ ~Crash(w)
    BY DEF BaseInv, LocalType, Crash, Up, Destroyed
  <1>1. GiveUp(m, w) => m \notin fresh'
    BY DEF GiveUp, Age
  <1>2. ASSUME NEW s \in Scopes, m \in ParkedIn(w, s) PROVE m \notin fresh'
    <2>1. m \notin ParkedIn(w, s)'
      BY DEF Waiting
    <2>2. StopFinish(w)
      <3>1. ~StartRetry(w, s)
        BY <1>0 DEF StartRetry
      <3> QED BY <1>0, <1>2, <2>1, <3>1, ParkedGoes
    <2> QED BY <1>2, <2>2 DEF StopFinish
  <1>3. ASSUME NEW k \in Coroutines, cur[w][k] = m, pc[w][k] \notin Executing PROVE m \notin fresh'
    <2>0. pc[w][k] \in {"claimed", "retryClaimed", "refused", "permit", "retryPermit"}
      <3>1. m # NoMsg
        BY DEF Msgs, NoMsg
      <3>2. pc[w][k] \in Active
        BY <1>3, <3>1 DEF WaitingInv, IdleHands
      <3> QED BY <1>3, <3>2 DEF Active, WithPermit
    <2>x. cur'[w][k] # m
      BY DEF Waiting, Started
    <2>1. CASE Unmoved(w, k) BY <1>3, <2>x, <2>1 DEF Unmoved
    <2>2. CASE LoopActs(w, k)
      BY <1>1, <1>3, <2>0, <2>2 DEF LoopActs, Reserve, ConsumeTask, LoopExits, GiveBack
    <2>3. CASE TakePermit(w, k)
      BY <1>0, <1>1, <1>3, <2>3 DEF TakePermit
    <2>4. CASE TaskEndings(w, k)
      BY <1>0, <1>1, <1>3, <2>0, <2>4 DEF TaskEndings, Park, LockThrows, AbandonClaim, Leave
    <2>5. CASE TaskStarts(w, k)
      BY <1>0, <2>5 DEF TaskStarts, StartLockFree, StartLocked
    <2>6. CASE TaskSteps(w, k)
      BY <2>0, <2>6 DEF TaskSteps, Execute, Fail, Cascade, Ack, Retry, Bury, BuryAck
    <2>7. CASE Renew(w, k)
      BY <1>3, <2>7 DEF Renew, Renewing
    <2>8. CASE RetryActs(w, k)
      <3>1. k \in Scopes /\ (RetryPermit(w, k) \/ RetryLock(w, k))
        BY <1>0, <2>8 DEF RetryActs, StartRetry
      <3>2. parked' = parked
        BY <1>0, <3>1 DEF RetryPermit, RetryLock
      <3>3. pc[w][k] \in {"retryPermit", "retryClaimed"}
        BY <3>1 DEF RetryPermit, RetryLock
      <3>4. m \in ParkedIn(w, k)
        BY <1>3, <3>1, <3>3 DEF WaitingInv, RetryParked, Owned
      <3>5. m \in ParkedIn(w, k)'
        BY <3>2, <3>4 DEF ParkedIn
      <3> QED BY <3>1, <3>5 DEF Waiting
    <2>9. CASE Recover(w)
      BY <1>0, <2>9 DEF Recover
    <2>10. CASE RecoverDone(w)
      BY <1>3, <2>x, <2>10 DEF RecoverDone
    <2> QED
      BY <1>0, <2>1, <2>2, <2>3, <2>4, <2>5, <2>6, <2>7, <2>8, <2>9, <2>10, CoroutineSteps DEF Batches
  <1> QED BY <1>2, <1>3 DEF Waiting

\* A message that waits in a worker that is stopping, parked, for a permit or for
\* its lock, either starts or has its claim given up: no other worker has to wait
\* pendingStaleMs for it.  Not so when calls fail, for giving up is a best effort,
\* nor when an event loop stalls next to another worker: a parked message may then
\* be taken over, come back and be forgotten by its first coroutine.
THEOREM StopGivesUp == ~Faults /\ Unrivalled => (Spec => StopGivesClaimsUp)
  <1> SUFFICES ASSUME ~Faults, Unrivalled PROVE Spec => StopGivesClaimsUp
    OBVIOUS
  <1>1. Init => WaitingInv
    <2> SUFFICES ASSUME Init PROVE WaitingInv
      OBVIOUS
    <2>1. Delivered /\ RefusedAlone /\ IdleHands
      BY DEF Init, Delivered, RefusedAlone, IdleHands, Active, WithPermit, Executing
    <2>2. \A w \in Workers, s \in Scopes : ParkedIn(w, s) = {}
      BY DEF Init, ParkedIn, Range
    <2>3. \A w \in Workers, k \in Coroutines : pc[w][k] = "idle"
      BY DEF Init
    <2>4. Scopes \subseteq Coroutines
      BY DEF Coroutines
    <2> QED BY <2>1, <2>2, <2>3, <2>4 DEF WaitingInv, HandedOver, Handed, RetryParked
  <1>2. BaseInv /\ WaitingInv /\ [Next]_vars => WaitingInv'
    BY DeliveredStep, RefusedStep, IdleStep, HandedStep, RetryStep DEF WaitingInv
  <1> DEFINE Given == \A w \in Workers, m \in Msgs :
       /\ Destroyed(w) /\ life'[w] # "crashed"
       /\ Owned(m, w) /\ Waiting(w, m) /\ ~Waiting(w, m)' /\ ~Started(w, m)'
       => m \notin fresh' \/ owner'[m] # w
  <1>3. BaseInv /\ WaitingInv /\ [Next]_vars => Given
    BY StopGivesUpStep
  <1>4. Spec => []WaitingInv
    BY <1>1, <1>2, WorkersWellFormed, PTL DEF Spec
  <1>5. Spec => [][Given]_vars
    BY <1>3, <1>4, WorkersWellFormed, PTL DEF Spec
  <1> QED BY <1>5 DEF StopGivesClaimsUp
=============================================================================
