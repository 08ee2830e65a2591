-------------------------- MODULE SkillConversation --------------------------
(***************************************************************************)
(* Skill extraction from conversations                                     *)
(* (MemoryCore/src/core/skill/conversation-add): gateways append messages  *)
(* to a session's buffer and, at a threshold, archive it as a task of the  *)
(* session's agent; worker loops take agents from a shared queue and       *)
(* extract the tasks of an agent one at a time.                            *)
(*                                                                         *)
(* Storage: data-current and meta of a session, _tasks.json and            *)
(* _tasks_dlq.json of an agent, each overwritten whole.  Redis: a List of  *)
(* agents to work on, a Set of agents that are queued, a short mutex for   *)
(* _tasks.json and an extraction lock per agent.  Depending on the Redis   *)
(* at hand a worker peeks (the agent stays in the List) or pops            *)
(* ("downgrade").                                                          *)
(***************************************************************************)
EXTENDS Integers, SequencesExt, Subsequences

CONSTANTS
  Modes,        \* subset of {"atomic", "downgrade"}: what Redis is capable of
  Nodes,        \* gateways, each with one worker loop
  Fronts,       \* gateways that requests reach
  Agents, Sessions,
  AgentOf,      \* the agent a session belongs to
  None,         \* no holder
  Poison,       \* archives (by their number) the extractor rejects for good
  Threshold,    \* messages after which a buffer is archived
  MaxRetries,   \* permanentMaxRetries
  Unhealed,     \* whether LPUSH may fail after SADD, and the scan of a start may fail
  MaxMessages,  \* bound: messages of a session
  MaxArchives,  \* bound: archives of a session
  MaxFaults     \* bound: errors, crashes and overrun locks

ASSUME SkillAssumption ==
  /\ Modes \subseteq {"atomic", "downgrade"} /\ Modes # {}
  /\ Fronts \subseteq Nodes
  /\ AgentOf \in [Sessions -> Agents] /\ Poison \subseteq 1..MaxArchives
  /\ None \notin Nodes \cup Sessions /\ Nodes \cap Sessions = {} /\ None \notin Agents
  /\ Threshold \in Nat \ {0} /\ MaxRetries \in Nat \ {0} /\ Unhealed \in BOOLEAN
  /\ MaxMessages \in Nat /\ MaxArchives \in Nat /\ MaxFaults \in Nat

VARIABLES
  mode,
  pending, list,     \* pending-agents-set and pending-agents
  file, dlq,         \* _tasks.json and _tasks_dlq.json of each agent
  content,           \* archive files: the messages of each task, {} when not written
  mutex, lease,      \* tasks-mutex and extract-lock of each agent
  buffer, hand,      \* data-current and meta of each session; its handler
  node, work,        \* the pool of each gateway; its worker loop
  accepted,          \* messages each session's client has been confirmed
  registered, extracted, dropped,   \* tasks: archive() returned, sunk, lost on the way to the DLQ
  overrun,           \* whether an extract-lock expired under its owner (history)
  faults

vars == <<mode, pending, list, file, dlq, content, mutex, lease, buffer, hand, node, work,
          accepted, registered, extracted, dropped, overrun, faults>>
queue == <<pending, list>>
locks == <<mutex, lease>>
history == <<accepted, registered, extracted, dropped, overrun>>

Messages == 1..MaxMessages
Tasks == Sessions \X (1..MaxArchives)
Entries == [id : Tasks, retry : 0..(MaxRetries - 1)]

NoHandler == [phase |-> "idle", node |-> None, msgs |-> {}, count |-> 0, doc |-> <<>>,
              id |-> None, todo |-> {}]
NoWork == [phase |-> "idle", agent |-> None, id |-> None, doc |-> <<>>, dead |-> FALSE, held |-> {}]
Down == [up |-> FALSE, probed |-> FALSE, periodic |-> FALSE, due |-> FALSE, todo |-> {}, push |-> {}]
\* A pool that has started on an empty queue.
Running == [Down EXCEPT !.up = TRUE, !.probed = TRUE]

Fault == faults < MaxFaults /\ faults' = faults + 1

Init ==
  /\ mode \in Modes
  /\ pending = {} /\ list = <<>>
  /\ file = [a \in Agents |-> <<>>] /\ dlq = [a \in Agents |-> {}]
  /\ content = [t \in Tasks |-> {}]
  /\ mutex = [a \in Agents |-> None] /\ lease = [a \in Agents |-> None]
  /\ buffer = [s \in Sessions |-> [current |-> {}, count |-> 0]]
  /\ hand = [s \in Sessions |-> NoHandler]
  /\ node = [n \in Nodes |-> Running] /\ work = [n \in Nodes |-> NoWork]
  /\ accepted = [s \in Sessions |-> 0]
  /\ registered = {} /\ extracted = {} /\ dropped = {}
  /\ overrun = FALSE /\ faults = 0

-----------------------------------------------------------------------------
(* SkillConversationAddHandler.handle; calls of one session do not overlap. *)

At(s, phase) == hand[s].phase = phase
Inside(s) == hand[s].phase \in {"register", "sadd", "lpush"}
Moves(s, phase) == hand' = [hand EXCEPT ![s].phase = phase]

\* Large requests are compressed and archived at once, the others at the threshold.
\* The new values of data-current and meta are computed from what is read here.
Adds(s) ==
  LET msgs == buffer[s].current \cup {accepted[s] + 1}
      count == buffer[s].count + 1
  IN
  /\ At(s, "idle") /\ accepted[s] < MaxMessages
  /\ \E t \in Tasks : t[1] = s /\ content[t] = {}
  /\ \E n \in {m \in Fronts : node[m].up}, large \in BOOLEAN :
       hand' = [hand EXCEPT ![s] =
                  IF large \/ count >= Threshold
                  THEN [NoHandler EXCEPT !.phase = "archive", !.node = n, !.msgs = msgs]
                  ELSE [NoHandler EXCEPT !.phase = "back", !.node = n, !.msgs = msgs, !.count = count,
                                         !.todo = {"current", "meta"}]]
  /\ UNCHANGED <<mode, queue, file, dlq, content, locks, buffer, node, work, history, faults>>

\* writeCurrent and writeMeta run side by side.
WritesBack(s) ==
  /\ At(s, "back")
  /\ \E part \in hand[s].todo :
       /\ buffer' = [buffer EXCEPT ![s] = IF part = "current" THEN [@ EXCEPT !.current = hand[s].msgs]
                                          ELSE [@ EXCEPT !.count = hand[s].count]]
       /\ IF hand[s].todo = {part}
          THEN hand' = [hand EXCEPT ![s] = NoHandler] /\ accepted' = [accepted EXCEPT ![s] = @ + 1]
          ELSE hand' = [hand EXCEPT ![s].todo = @ \ {part}] /\ UNCHANGED accepted
  /\ UNCHANGED <<mode, queue, file, dlq, content, locks, node, work, registered, extracted, dropped,
                 overrun, faults>>

-----------------------------------------------------------------------------
(* SkillTriggerService.archive.                                            *)

Fresh(s) == CHOOSE t \in Tasks : t[1] = s /\ content[t] = {} /\ \A u \in Tasks :
              u[1] = s /\ u[2] < t[2] => content[u] # {}

\* The archive comes first: a worker drops a task whose archive it cannot find.
Archives(s) ==
  /\ At(s, "archive")
  /\ content' = [content EXCEPT ![Fresh(s)] = hand[s].msgs]
  /\ hand' = [hand EXCEPT ![s].phase = "enter", ![s].id = Fresh(s)]
  /\ UNCHANGED <<mode, queue, file, dlq, locks, buffer, node, work, history, faults>>

\* Mutant: without the mutex.
EntersUnlocked(s) ==
  /\ At(s, "enter")
  /\ hand' = [hand EXCEPT ![s].phase = "register",
                          ![s].doc = Append(file[AgentOf[s]], [id |-> hand[s].id, retry |-> 0])]
  /\ UNCHANGED <<mode, queue, file, dlq, content, locks, buffer, node, work, history, faults>>

\* withTasksMutex, readTasks.
Enters(s) ==
  LET a == AgentOf[s] IN
  /\ At(s, "enter") /\ mutex[a] = None
  /\ mutex' = [mutex EXCEPT ![a] = s]
  /\ hand' = [hand EXCEPT ![s].phase = "register",
                          ![s].doc = Append(file[a], [id |-> hand[s].id, retry |-> 0])]
  /\ UNCHANGED <<mode, queue, file, dlq, content, lease, buffer, node, work, history, faults>>

Registers(s) ==
  /\ At(s, "register")
  /\ file' = [file EXCEPT ![AgentOf[s]] = hand[s].doc]
  /\ Moves(s, "sadd")
  /\ UNCHANGED <<mode, queue, dlq, content, locks, buffer, node, work, history, faults>>

\* archive() returns; the handler goes on to write back an empty buffer.
Returns(s) ==
  /\ mutex' = [mutex EXCEPT ![AgentOf[s]] = IF @ = s THEN None ELSE @]
  /\ registered' = registered \cup {hand[s].id}
  /\ hand' = [hand EXCEPT ![s] = [NoHandler EXCEPT !.phase = "back", !.node = hand[s].node,
                                                   !.todo = {"current", "meta"}]]
  /\ UNCHANGED <<accepted, extracted, dropped, overrun>>

\* enqueueAgent: LPUSH only when SADD has added the agent.
SaddsAgent(s) ==
  LET a == AgentOf[s] IN
  /\ At(s, "sadd")
  /\ pending' = pending \cup {a}
  /\ IF a \in pending THEN Returns(s) ELSE Moves(s, "lpush") /\ UNCHANGED <<mutex, history>>
  /\ UNCHANGED <<mode, list, file, dlq, content, lease, buffer, node, work, faults>>

LpushesAgent(s) ==
  /\ At(s, "lpush")
  /\ list' = <<AgentOf[s]>> \o list
  /\ Returns(s)
  /\ UNCHANGED <<mode, pending, file, dlq, content, lease, buffer, node, work, faults>>

\* Mutant: a failed archive is swallowed and the buffer cleared.
HandlerFailsQuietly(s) ==
  /\ ~At(s, "idle") /\ (At(s, "lpush") => Unhealed)
  /\ Fault
  /\ mutex' = [mutex EXCEPT ![AgentOf[s]] = IF @ = s THEN None ELSE @]
  /\ hand' = [hand EXCEPT ![s] = [NoHandler EXCEPT !.phase = "back", !.node = hand[s].node,
                                                   !.todo = {"current", "meta"}]]
  /\ UNCHANGED <<mode, queue, file, dlq, content, lease, buffer, node, work, history>>

\* Storage or Redis throws, or the mutex cannot be had in time: the client is
\* answered an error and repeats the message.
HandlerFails(s) ==
  /\ ~At(s, "idle") /\ (At(s, "lpush") => Unhealed)
  /\ Fault
  /\ mutex' = [mutex EXCEPT ![AgentOf[s]] = IF @ = s /\ Inside(s) THEN None ELSE @]
  /\ hand' = [hand EXCEPT ![s] = NoHandler]
  /\ UNCHANGED <<mode, queue, file, dlq, content, lease, buffer, node, work, history>>

Handles(s) == WritesBack(s) \/ Archives(s) \/ Enters(s) \/ Registers(s) \/ SaddsAgent(s) \/ LpushesAgent(s)

-----------------------------------------------------------------------------
(* SkillWorkerPool and SkillConversationExtractWorker.consumeAgent.        *)

On(n, phase) == node[n].up /\ work[n].phase = phase
Goes(n, phase) == work' = [work EXCEPT ![n].phase = phase]

TakesMutex(n) == mutex' = [mutex EXCEPT ![work[n].agent] = n]

\* Both locks are given back only by the call that took them.
Freed(n) == [a \in Agents |-> IF mutex[a] = n /\ "mutex" \in work[n].held THEN None ELSE mutex[a]]
\* Mutant: the lock is deleted without looking at its token.
LetGoAny(n) == lease' = [a \in Agents |-> IF a = work[n].agent THEN None ELSE lease[a]]
LetGo(n) == lease' = [a \in Agents |-> IF lease[a] = n /\ "lease" \in work[n].held THEN None ELSE lease[a]]

\* The end of a section, or of a requeue outside: a dead task goes to the DLQ,
\* the extract-lock is given back.
GivesMutex(n) ==
  /\ mutex' = Freed(n)
  /\ work' = [work EXCEPT ![n].phase = IF work[n].dead THEN "bury" ELSE "release",
                          ![n].held = @ \ {"mutex"}]

\* peekAgent: LMOVE to the other end, or RPOP.
Peeks(n) ==
  /\ On(n, "idle") /\ list # <<>>
  /\ list' = (IF mode = "atomic" THEN <<Last(list)>> ELSE <<>>) \o Front(list)
  /\ work' = [work EXCEPT ![n].phase = "peeked", ![n].agent = Last(list)]
  /\ node' = [node EXCEPT ![n].probed = TRUE]
  /\ UNCHANGED <<mode, pending, file, dlq, content, locks, buffer, hand, history, faults>>

AcquiresExtractLock(n) ==
  LET a == work[n].agent IN
  /\ On(n, "peeked")
  /\ IF lease[a] = None
     THEN /\ lease' = [lease EXCEPT ![a] = n]
          /\ work' = [work EXCEPT ![n].phase = "head", ![n].held = {"lease"}]
     ELSE /\ UNCHANGED lease
          /\ IF mode = "atomic" THEN work' = [work EXCEPT ![n] = NoWork] ELSE Goes(n, "requeue")
  /\ UNCHANGED <<mode, queue, file, dlq, content, mutex, buffer, hand, node, history, faults>>

\* Mutant: the agent is taken off after the mutex is given back.
ReadsHeadThenRemoves(n) ==
  LET a == work[n].agent IN
  /\ On(n, "head") /\ mutex[a] = None
  /\ IF file[a] = <<>> THEN Goes(n, "srem")
     ELSE work' = [work EXCEPT ![n].phase = "extract", ![n].id = Head(file[a]).id]
  /\ UNCHANGED <<mode, queue, file, dlq, content, locks, buffer, hand, node, history, faults>>

\* The head is read under the mutex, which is kept to take an agent without
\* tasks off the queue.
ReadsHead(n) ==
  LET a == work[n].agent IN
  /\ On(n, "head") /\ mutex[a] = None
  /\ IF file[a] = <<>>
     THEN TakesMutex(n) /\ work' = [work EXCEPT ![n].phase = "srem", ![n].held = @ \cup {"mutex"}]
     ELSE /\ UNCHANGED mutex
          /\ work' = [work EXCEPT ![n].phase = "extract", ![n].id = Head(file[a]).id]
  /\ UNCHANGED <<mode, queue, file, dlq, content, lease, buffer, hand, node, history, faults>>

\* readArchive, extract, applyCandidates: a task without archive is a ghost and
\* deleted; a failure is transient, or a permanent one to be counted.
Extracts(n) ==
  LET t == work[n].id IN
  /\ On(n, "extract")
  /\ \/ /\ content[t] = {} /\ Goes(n, "delete") /\ UNCHANGED <<extracted, faults>>
     \/ /\ content[t] # {} /\ t[2] \notin Poison
        /\ extracted' = extracted \cup {t} /\ Goes(n, "delete") /\ UNCHANGED faults
     \/ /\ content[t] # {} /\ Fault
        /\ Goes(n, IF mode = "atomic" THEN "release" ELSE "requeue") /\ UNCHANGED extracted
     \/ /\ content[t] # {} /\ t[2] \in Poison
        /\ Goes(n, "count") /\ UNCHANGED <<extracted, faults>>
  /\ UNCHANGED <<mode, queue, file, dlq, content, locks, buffer, hand, node, accepted, registered,
                 dropped, overrun>>

Without(doc, t) == Keeping(doc, {e \in Range(doc) : e.id # t})
Has(doc, t) == \E i \in 1..Len(doc) : doc[i].id = t

\* The task is deleted by its id from the file as it is now.
Deletes(n) ==
  LET a == work[n].agent IN
  /\ On(n, "delete") /\ mutex[a] = None
  /\ TakesMutex(n)
  /\ work' = [work EXCEPT ![n].phase = "rewrite", ![n].doc = Without(file[a], work[n].id),
                          ![n].held = @ \cup {"mutex"}]
  /\ UNCHANGED <<mode, queue, file, dlq, content, lease, buffer, hand, node, history, faults>>

\* handlePermanentFailure: one more failure, the last one takes the task out.
Counts(n) ==
  LET a == work[n].agent
      t == work[n].id
      last == \E i \in 1..Len(file[a]) : file[a][i].id = t /\ file[a][i].retry + 1 >= MaxRetries
  IN
  /\ On(n, "count") /\ mutex[a] = None
  /\ TakesMutex(n)
  /\ work' = [work EXCEPT
       ![n].phase = "rewrite", ![n].dead = last, ![n].held = @ \cup {"mutex"},
       ![n].doc = IF last THEN Without(file[a], t)
                  ELSE [i \in 1..Len(file[a]) |->
                          IF file[a][i].id = t THEN [file[a][i] EXCEPT !.retry = @ + 1] ELSE file[a][i]]]
  /\ UNCHANGED <<mode, queue, file, dlq, content, lease, buffer, hand, node, history, faults>>

\* writeTasks; on a downgraded queue the agent is put back or taken off under
\* the same mutex.
Rewrites(n) ==
  LET a == work[n].agent IN
  /\ On(n, "rewrite")
  /\ file' = [file EXCEPT ![a] = work[n].doc]
  /\ IF mode = "atomic"
     THEN GivesMutex(n)
     ELSE UNCHANGED mutex /\ Goes(n, IF work[n].doc = <<>> THEN "srem" ELSE "requeue")
  /\ UNCHANGED <<mode, queue, dlq, content, lease, buffer, hand, node, history, faults>>

\* removeAgent: SREM, LREM.
Srems(n) ==
  /\ On(n, "srem")
  /\ pending' = pending \ {work[n].agent}
  /\ Goes(n, "lrem")
  /\ UNCHANGED <<mode, list, file, dlq, content, locks, buffer, hand, node, history, faults>>

Lrems(n) ==
  LET a == work[n].agent IN
  /\ On(n, "lrem")
  /\ list' = Keeping(list, Agents \ {a})
  /\ GivesMutex(n)
  /\ UNCHANGED <<mode, pending, file, dlq, content, lease, buffer, hand, node, history, faults>>

\* requeueAgent: SADD, LPUSH, with or without the mutex, with or without the lock.
Requeues(n) ==
  /\ On(n, "requeue")
  /\ pending' = pending \cup {work[n].agent}
  /\ Goes(n, "relist")
  /\ UNCHANGED <<mode, list, file, dlq, content, locks, buffer, hand, node, history, faults>>

Relists(n) ==
  LET a == work[n].agent IN
  /\ On(n, "relist")
  /\ list' = <<a>> \o list
  /\ GivesMutex(n)
  /\ UNCHANGED <<mode, pending, file, dlq, content, lease, buffer, hand, node, history, faults>>

\* appendDlq, outside the mutex; an error is only logged.
Buries(n) ==
  LET a == work[n].agent IN
  /\ On(n, "bury")
  /\ \/ dlq' = [dlq EXCEPT ![a] = @ \cup {work[n].id}] /\ UNCHANGED <<dropped, faults>>
     \/ dropped' = dropped \cup {work[n].id} /\ Fault /\ UNCHANGED dlq
  /\ Goes(n, "release")
  /\ UNCHANGED <<mode, queue, file, content, locks, buffer, hand, node, accepted, registered, extracted,
                 overrun>>

\* A release that fails is only logged.
ReleasesExtractLock(n) ==
  /\ On(n, "release")
  /\ (LetGo(n) /\ UNCHANGED faults) \/ (Fault /\ UNCHANGED lease)
  /\ work' = [work EXCEPT ![n] = NoWork]
  /\ UNCHANGED <<mode, queue, file, dlq, content, mutex, buffer, hand, node, history>>

\* A call of consumeAgent throws: both locks are given back, nothing is requeued.
ConsumeThrows(n) ==
  /\ node[n].up /\ work[n].phase \notin {"idle", "extract", "bury", "release"}
  /\ Fault
  /\ LetGo(n)
  /\ mutex' = Freed(n)
  /\ work' = [work EXCEPT ![n] = NoWork]
  /\ dropped' = dropped \cup IF work[n].dead /\ work[n].phase \in {"srem", "lrem", "requeue", "relist"}
                             THEN {work[n].id} ELSE {}
  /\ UNCHANGED <<mode, queue, file, dlq, content, buffer, hand, node, accepted, registered, extracted, overrun>>

Works(n) ==
  \/ Peeks(n) \/ AcquiresExtractLock(n) \/ ReadsHead(n) \/ Extracts(n) \/ Deletes(n) \/ Counts(n)
  \/ Rewrites(n) \/ Srems(n) \/ Lrems(n) \/ Requeues(n) \/ Relists(n) \/ Buries(n)
  \/ ReleasesExtractLock(n)

-----------------------------------------------------------------------------
(* Processes, the healing scan, the lifetime of locks.                     *)

\* start(): a scan is due, and regular scans if the queue is known to be
\* downgraded; what Redis can do is found out by the first peek of the process.
StartsPool(n) ==
  /\ ~node[n].up
  /\ node' = [node EXCEPT ![n] = [Down EXCEPT !.up = TRUE, !.due = TRUE,
                                              !.periodic = node[n].probed /\ mode = "downgrade"]]
  /\ UNCHANGED <<mode, queue, file, dlq, content, locks, buffer, hand, work, history, faults>>

Touches(n) == UNCHANGED <<mode, pending, file, dlq, content, locks, buffer, hand, work, history>>

\* selfHealScan: SMEMBERS, then for each agent LPOS and possibly LPUSH.
Scans(n) ==
  /\ node[n].up /\ (node[n].due \/ node[n].periodic) /\ node[n].todo = {} /\ node[n].push = {}
  /\ \/ node' = [node EXCEPT ![n].due = FALSE, ![n].todo = pending] /\ UNCHANGED faults
     \/ Unhealed /\ Fault /\ node' = [node EXCEPT ![n].due = FALSE]
  /\ UNCHANGED list /\ Touches(n)

Looks(n) ==
  /\ node[n].up /\ node[n].push = {}
  /\ \E a \in node[n].todo :
       node' = [node EXCEPT ![n].todo = @ \ {a},
                            ![n].push = IF \E i \in 1..Len(list) : list[i] = a THEN {} ELSE {a}]
  /\ UNCHANGED <<list, faults>> /\ Touches(n)

Repushes(n) ==
  /\ node[n].up
  /\ \E a \in node[n].push : list' = <<a>> \o list
  /\ node' = [node EXCEPT ![n].push = {}]
  /\ UNCHANGED faults /\ Touches(n)

Heals(n) == StartsPool(n) \/ Scans(n) \/ Looks(n) \/ Repushes(n)

\* The process dies; the locks it holds stay until they expire.
Dies(n) ==
  /\ node[n].up
  /\ Fault
  /\ node' = [node EXCEPT ![n] = Down]
  /\ work' = [work EXCEPT ![n] = NoWork]
  /\ hand' = [s \in Sessions |-> IF hand[s].node = n THEN NoHandler ELSE hand[s]]
  /\ dropped' = dropped \cup IF work[n].dead /\ work[n].phase # "release" /\ work[n].phase # "rewrite"
                             THEN {work[n].id} ELSE {}
  /\ UNCHANGED <<mode, queue, file, dlq, content, locks, buffer, accepted, registered, extracted, overrun>>

InSection(h, a) ==
  IF h \in Sessions THEN Inside(h) ELSE work[h].agent = a /\ "mutex" \in work[h].held

\* The section of the mutex is shorter than its lifetime.
MutexExpires(a) ==
  /\ mutex[a] # None /\ ~InSection(mutex[a], a)
  /\ mutex' = [mutex EXCEPT ![a] = None]
  /\ UNCHANGED <<mode, queue, file, dlq, content, lease, buffer, hand, node, work, history, faults>>

Extracting(n, a) == work[n].agent = a /\ "lease" \in work[n].held /\ lease[a] = n

\* The extract-lock is renewed; a renewal that is late or fails is only logged.
LeaseExpires(a) ==
  /\ lease[a] # None
  /\ IF Extracting(lease[a], a) THEN Fault /\ overrun' = TRUE ELSE UNCHANGED <<overrun, faults>>
  /\ lease' = [lease EXCEPT ![a] = None]
  /\ UNCHANGED <<mode, queue, file, dlq, content, mutex, buffer, hand, node, work, accepted, registered,
                 extracted, dropped>>

DeadLocks(a) == MutexExpires(a) \/ (lease[a] # None /\ ~Extracting(lease[a], a) /\ LeaseExpires(a))

Next ==
  \/ \E s \in Sessions : Adds(s) \/ Handles(s) \/ HandlerFails(s)
  \/ \E n \in Nodes : Works(n) \/ ConsumeThrows(n) \/ Heals(n) \/ Dies(n)
  \/ \E a \in Agents : MutexExpires(a) \/ LeaseExpires(a)

Spec == Init /\ [][Next]_vars

\* Handlers and loops go on, a gateway that died is started again, locks of the
\* dead expire.
FairSpec ==
  /\ Spec
  /\ \A s \in Sessions : WF_vars(Handles(s))
  /\ \A n \in Nodes : WF_vars(Works(n)) /\ WF_vars(Heals(n))
  /\ \A a \in Agents : WF_vars(DeadLocks(a))

-----------------------------------------------------------------------------
Handlers ==
  [phase : {"idle", "back", "archive", "enter", "register", "sadd", "lpush"}, node : Nodes \cup {None},
   msgs : SUBSET Messages, count : Nat, doc : Seq(Entries), id : Tasks \cup {None},
   todo : SUBSET {"current", "meta"}]
Loops ==
  [phase : {"idle", "peeked", "head", "extract", "delete", "count", "rewrite", "srem", "lrem",
            "requeue", "relist", "bury", "release"},
   agent : Agents \cup {None}, id : Tasks \cup {None}, doc : Seq(Entries), dead : BOOLEAN,
   held : SUBSET {"mutex", "lease"}]
Pools == [up : BOOLEAN, probed : BOOLEAN, periodic : BOOLEAN, due : BOOLEAN,
          todo : SUBSET Agents, push : SUBSET Agents]

TypeOK ==
  /\ mode \in Modes /\ pending \subseteq Agents /\ list \in Seq(Agents)
  /\ file \in [Agents -> Seq(Entries)] /\ dlq \in [Agents -> SUBSET Tasks]
  /\ content \in [Tasks -> SUBSET Messages]
  /\ mutex \in [Agents -> Nodes \cup Sessions \cup {None}] /\ lease \in [Agents -> Nodes \cup {None}]
  /\ buffer \in [Sessions -> [current : SUBSET Messages, count : Nat]]
  /\ hand \in [Sessions -> Handlers] /\ work \in [Nodes -> Loops] /\ node \in [Nodes -> Pools]
  /\ accepted \in [Sessions -> 0..MaxMessages]
  /\ registered \cup extracted \cup dropped \subseteq Tasks
  /\ overrun \in BOOLEAN /\ faults \in 0..MaxFaults

\* No registered task disappears before it was extracted or dead-lettered, except
\* on the way to the dead letters: not by two writers of _tasks.json, not as a
\* ghost whose archive is late, not by a retry.
NoTaskLost ==
  \A t \in registered :
    \/ Has(file[AgentOf[t[1]]], t) \/ t \in extracted \cup dropped \cup dlq[AgentOf[t[1]]]
    \/ \E n \in Nodes : work[n].dead /\ work[n].id = t

\* Every message a client was confirmed is in the buffer or in a registered
\* task, whichever of the handler's writes a crash or an error left out.
MessagesKept ==
  \A s \in Sessions : \A m \in 1..accepted[s] :
    m \in buffer[s].current \/ \E t \in registered : t[1] = s /\ m \in content[t]

\* As long as no extract-lock expires under its owner, one loop at a time works
\* on the tasks of an agent.
OneExtractor ==
  \A n, m \in Nodes :
    n # m /\ {work[n].phase, work[m].phase} \subseteq {"head", "extract", "delete", "count", "rewrite", "bury"}
          /\ work[n].agent = work[m].agent => overrun

\* With atomic peeks every registered task is extracted or ends among the dead
\* letters: through errors, crashes and expired locks the agent stays in the List
\* or comes back to it.
EveryTaskEnds ==
  \A t \in Tasks : mode = "atomic" /\ t \in registered
                   ~> t \in extracted \cup dropped \cup dlq[AgentOf[t[1]]]

\* The same for a downgraded queue, whose agents the regular scans are there to
\* bring back.
EveryPoppedTaskEnds ==
  \A t \in Tasks : mode = "downgrade" /\ t \in registered
                   ~> t \in extracted \cup dropped \cup dlq[AgentOf[t[1]]]
=============================================================================
