-------------------------- MODULE CheckpointManager --------------------------
(***************************************************************************)
(* The checkpoint file (MemoryCore/src/utils/checkpoint.ts): every update  *)
(* reads the whole object, changes a few fields and writes it back.        *)
(* Updates of one process queue up behind a lock for the path; with        *)
(* several processes a lock of the state backend, with a lifetime and a    *)
(* renewal timer, surrounds the read and the write.                        *)
(*                                                                         *)
(* Two deployments.  "standalone": one process, no backend lock; turns are *)
(* captured, L1 runs end, the scheduler's states are saved.  "service":    *)
(* several processes, whose L1 runs end under the backend lock.            *)
(* Each call below stands for one coroutine that uses the checkpoint.      *)
(***************************************************************************)
EXTENDS Integers, FiniteSetsExt, Sequences

CONSTANTS
  Deployments,   \* subset of {"standalone", "service"}
  Processes,     \* processes that share the file
  Calls,         \* concurrent users of the checkpoint
  Sessions,      \* conversation sessions
  NoCall,        \* the lock is free
  ReadErrors,    \* whether reading the file may fail
  Stalls,        \* whether a lock may expire before its renewal timer notices
  MaxRows,       \* bound: messages of one session
  MaxMemories,   \* bound: L1 runs
  MaxFaults      \* bound: failing calls and deaths of processes

ASSUME CheckpointAssumption ==
  /\ Deployments \subseteq {"standalone", "service"} /\ Deployments # {}
  /\ Processes # {} /\ Sessions # {} /\ IsFiniteSet(Calls) /\ NoCall \notin Calls
  /\ ReadErrors \in BOOLEAN /\ Stalls \in BOOLEAN
  /\ MaxRows \in Nat /\ MaxMemories \in Nat /\ MaxFaults \in Nat

VARIABLES
  mode,      \* the deployment
  file,      \* the checkpoint
  call,      \* where each call is
  line,      \* fileLocks of each process: the calls queued for the path, holder first
  lock,      \* owner of the backend lock
  recorded,  \* how often each message of a session was written to L0
  cut,       \* sessions with a capture that ended between L0 and checkpoint (history)
  overrun,   \* whether a lock has expired inside its owner's section (history)
  faults

vars == <<mode, file, call, line, lock, recorded, cut, overrun, faults>>

Messages == 1..MaxRows
\* last_l1_cursor and last_captured_timestamp of each session,
\* total_memories_extracted, and the saved pipeline states.
Default == [cursor |-> [s \in Sessions |-> 0], captured |-> [s \in Sessions |-> 0],
            memories |-> 0, saved |-> [s \in Sessions |-> 0]]
Home == CHOOSE p \in Processes : TRUE
Idle == [phase |-> "idle", proc |-> Home, kind |-> "mark", s |-> CHOOSE s \in Sessions : TRUE,
         upto |-> 0, cp |-> Default, lost |-> FALSE]

Fault == faults < MaxFaults /\ faults' = faults + 1

Init ==
  /\ mode \in Deployments
  /\ file = Default
  /\ call = [c \in Calls |-> Idle] /\ line = [p \in Processes |-> <<>>] /\ lock = NoCall
  /\ recorded = [s \in Sessions |-> [m \in Messages |-> 0]]
  /\ cut = {} /\ overrun = FALSE /\ faults = 0

-----------------------------------------------------------------------------
(* Callers.                                                                *)

\* readRaw turns every error into the default checkpoint.
Snapshots == {file} \cup IF ReadErrors THEN {Default} ELSE {}

\* createL1Runner reads its cursor without a lock, works on the next message,
\* and comes to the checkpoint at its end.
StartsL1(c) ==
  /\ call[c].phase = "idle"
  /\ file.memories < MaxMemories
  /\ \E p \in (IF mode = "service" THEN Processes ELSE {Home}), s \in Sessions, snap \in Snapshots :
       /\ snap.cursor[s] + 1 \in Messages
       /\ mode = "standalone" => recorded[s][snap.cursor[s] + 1] > 0
       /\ call' = [call EXCEPT ![c] = [Idle EXCEPT !.phase = "run", !.proc = p, !.s = s,
                                                   !.upto = snap.cursor[s] + 1]]
  /\ UNCHANGED <<mode, file, line, lock, recorded, cut, overrun, faults>>

\* withFileLock: chain after whatever is queued for this path.
Chain(p, c) == line' = [line EXCEPT ![p] = Append(@, c)]

EndsL1(c) ==
  /\ call[c].phase = "run"
  /\ Chain(call[c].proc, c)
  /\ call' = [call EXCEPT ![c].phase = "line"]
  /\ UNCHANGED <<mode, file, lock, recorded, cut, overrun, faults>>

\* The newest state of the session the scheduler has asked to save.
Newest(s) ==
  Max({file.saved[s]} \cup {call[c].upto : c \in {d \in Calls : call[d].kind = "merge" /\ call[d].s = s}})

\* A turn comes to capture with all messages so far, or the scheduler has a
\* newer state to save.
Comes(c) ==
  /\ call[c].phase = "idle" /\ mode = "standalone"
  /\ \E s \in Sessions, k \in {"capture", "merge"}, upto \in Messages :
       /\ k = "merge" => upto = Newest(s) + 1
       /\ call' = [call EXCEPT ![c] = [Idle EXCEPT !.phase = "line", !.kind = k, !.s = s, !.upto = upto]]
  /\ Chain(Home, c)
  /\ UNCHANGED <<mode, file, lock, recorded, cut, overrun, faults>>

-----------------------------------------------------------------------------
(* mutate.                                                                 *)

First(c) == LET q == line[call[c].proc] IN q # <<>> /\ Head(q) = c
Leave(c) == line' = [line EXCEPT ![call[c].proc] = Tail(@)]

\* Mutant: a lock that cannot be had is done without.
AcquiresAnyway(c) ==
  /\ call[c].phase = "line" /\ First(c)
  /\ lock' = IF mode = "service" /\ lock = NoCall THEN c ELSE lock
  /\ call' = [call EXCEPT ![c].phase = "read"]
  /\ UNCHANGED <<mode, file, line, recorded, cut, overrun, faults>>

\* withDistributedLock: the lock is taken, or there is none to take.
Acquires(c) ==
  /\ call[c].phase = "line" /\ First(c)
  /\ IF mode = "service" THEN lock = NoCall /\ lock' = c ELSE UNCHANGED lock
  /\ call' = [call EXCEPT ![c].phase = "read"]
  /\ UNCHANGED <<mode, file, line, recorded, cut, overrun, faults>>

\* The lock is held until the deadline, or the backend throws.
GivesUp(c) ==
  /\ call[c].phase = "line" /\ First(c) /\ mode = "service"
  /\ (lock # NoCall /\ UNCHANGED faults) \/ Fault
  /\ Leave(c)
  /\ call' = [call EXCEPT ![c] = Idle]
  /\ UNCHANGED <<mode, file, lock, recorded, cut, overrun>>

Reads(c) ==
  /\ call[c].phase = "read"
  /\ \E snap \in Snapshots :
       call' = [call EXCEPT ![c].cp = snap,
                            ![c].phase = IF call[c].kind = "capture" THEN "record" ELSE "write"]
  /\ UNCHANGED <<mode, file, line, lock, recorded, cut, overrun, faults>>

\* The callback of captureAtomically: recordConversation writes the messages
\* past the cursor to L0.
Records(c) ==
  LET s == call[c].s
      new == {m \in Messages : call[c].cp.captured[s] < m /\ m <= call[c].upto}
  IN
  /\ call[c].phase = "record"
  /\ recorded' = [recorded EXCEPT ![s] = [m \in Messages |-> IF m \in new THEN @[m] + 1 ELSE @[m]]]
  /\ call' = [call EXCEPT ![c].phase = "write", ![c].upto = IF new = {} THEN 0 ELSE @]
  /\ UNCHANGED <<mode, file, line, lock, cut, overrun, faults>>

\* Mutants: the cursor is assigned; the capture cursor stays behind.
ChangedAssigning(cp, r) ==
  CASE r.kind = "mark" -> [cp EXCEPT !.cursor[r.s] = r.upto, !.memories = @ + 1]
    [] r.kind = "capture" -> [cp EXCEPT !.captured[r.s] = IF r.upto = 0 THEN @ ELSE r.upto]
    [] r.kind = "merge" -> [cp EXCEPT !.saved[r.s] = r.upto]
ChangedKeeping(cp, r) ==
  CASE r.kind = "mark" -> [cp EXCEPT !.cursor[r.s] = Max({@, r.upto}), !.memories = @ + 1]
    [] r.kind = "capture" -> cp
    [] r.kind = "merge" -> [cp EXCEPT !.saved[r.s] = r.upto]

\* The change each method makes to the object it is given: markL1ExtractionComplete
\* keeps the larger cursor, captureAtomically leaves the cursor when nothing was
\* captured, mergePipelineStates touches the scheduler's states only.
Changed(cp, r) ==
  CASE r.kind = "mark" -> [cp EXCEPT !.cursor[r.s] = Max({@, r.upto}), !.memories = @ + 1]
    [] r.kind = "capture" -> [cp EXCEPT !.captured[r.s] = IF r.upto = 0 THEN @ ELSE r.upto]
    [] r.kind = "merge" -> [cp EXCEPT !.saved[r.s] = r.upto]

\* writeRaw overwrites the whole object.
Writes(c) ==
  /\ call[c].phase = "write"
  /\ file' = Changed(call[c].cp, call[c])
  /\ call' = [call EXCEPT ![c].phase = "written"]
  /\ UNCHANGED <<mode, line, lock, recorded, cut, overrun, faults>>

\* A lock lost on the way makes the call throw and is not released; otherwise
\* it is released, which the backend ignores for a lock that is not the owner's,
\* and the caller takes its update for saved.
Ends(c) ==
  /\ call[c].phase = "written"
  /\ Leave(c)
  /\ lock' = IF lock = c /\ ~call[c].lost THEN NoCall ELSE lock
  /\ call' = [call EXCEPT ![c] = Idle]
  /\ UNCHANGED <<mode, file, recorded, cut, overrun, faults>>

\* A capture stopped between L0 and the checkpoint.
CutBy(C) == {call[c].s : c \in {d \in C : call[d].kind = "capture" /\ call[d].phase = "write"}}

\* Mutant: the gate is opened only after success.
ThrowsLocked(c) ==
  /\ call[c].phase \in {"record", "write"}
  /\ Fault
  /\ lock' = IF lock = c /\ ~call[c].lost THEN NoCall ELSE lock
  /\ cut' = cut \cup CutBy({c})
  /\ call' = [call EXCEPT ![c] = Idle]
  /\ UNCHANGED <<mode, file, line, recorded, overrun>>

\* recordConversation or writeRaw throws: the lock is released.
Throws(c) ==
  /\ call[c].phase \in {"record", "write"}
  /\ Fault
  /\ Leave(c)
  /\ lock' = IF lock = c /\ ~call[c].lost THEN NoCall ELSE lock
  /\ cut' = cut \cup CutBy({c})
  /\ call' = [call EXCEPT ![c] = Idle]
  /\ UNCHANGED <<mode, file, recorded, overrun>>

-----------------------------------------------------------------------------
(* The lock's lifetime.                                                    *)

InSection(c) == call[c].phase \in {"read", "record", "write", "written"}

\* A renewal is rejected or throws.
RenewFails(c) ==
  /\ mode = "service" /\ InSection(c) /\ ~call[c].lost
  /\ (lock # c /\ UNCHANGED faults) \/ Fault
  /\ call' = [call EXCEPT ![c].lost = TRUE]
  /\ UNCHANGED <<mode, file, line, lock, recorded, cut, overrun>>

\* The lifetime passes without a renewal.
Expires ==
  /\ lock # NoCall
  /\ Stalls \/ ~InSection(lock) \/ call[lock].lost
  /\ lock' = NoCall
  /\ overrun' = (overrun \/ InSection(lock))
  /\ UNCHANGED <<mode, file, call, line, recorded, cut, faults>>

\* The process dies and starts again.
Dies(p) ==
  LET gone == {c \in Calls : call[c].phase # "idle" /\ call[c].proc = p} IN
  /\ gone # {}
  /\ Fault
  /\ call' = [c \in Calls |-> IF c \in gone THEN Idle ELSE call[c]]
  /\ line' = [line EXCEPT ![p] = <<>>]
  /\ cut' = cut \cup CutBy(gone)
  /\ UNCHANGED <<mode, file, lock, recorded, overrun>>

Steps(c) == EndsL1(c) \/ Acquires(c) \/ GivesUp(c) \/ Reads(c) \/ Records(c) \/ Writes(c) \/ Ends(c)

Next ==
  \/ \E c \in Calls : StartsL1(c) \/ Comes(c) \/ Steps(c) \/ Throws(c) \/ RenewFails(c)
  \/ Expires
  \/ \E p \in Processes : Dies(p)

Spec == Init /\ [][Next]_vars

\* Every coroutine goes on, the acquire loop has a deadline, a lock has a lifetime.
FairSpec == Spec /\ \A c \in Calls : WF_vars(Steps(c))

-----------------------------------------------------------------------------
Phases == {"idle", "run", "line", "read", "record", "write", "written"}
Checkpoints == [cursor : [Sessions -> Nat], captured : [Sessions -> Nat], memories : Nat,
                saved : [Sessions -> Nat]]

TypeOK ==
  /\ mode \in Deployments
  /\ file \in Checkpoints
  /\ call \in [Calls -> [phase : Phases, proc : Processes, kind : {"mark", "capture", "merge"},
                         s : Sessions, upto : Nat, cp : Checkpoints, lost : BOOLEAN]]
  /\ line \in [Processes -> Seq(Calls)] /\ lock \in Calls \cup {NoCall}
  /\ recorded \in [Sessions -> [Messages -> Nat]]
  /\ cut \subseteq Sessions /\ overrun \in BOOLEAN /\ faults \in 0..MaxFaults
  /\ \A c \in Calls : InSection(c) => First(c)

\* Until a lock expires inside its owner's section, every write is one method's
\* change to the file as it is: nobody overwrites what another has saved since it
\* read, whatever throws, dies, is late or is not renewed.
AtomicUpdates ==
  [][\A c \in Calls : call[c].phase = "write" /\ call'[c].phase = "written" /\ ~overrun'
                       => file' = Changed(file, call[c])]_vars

\* The L1 cursor never goes back, although L1 runs compute theirs from a
\* snapshot read without a lock, possibly two runs from the same one.
CursorNeverBack ==
  [][~overrun' => \A s \in Sessions : file'.cursor[s] >= file.cursor[s]]_vars

\* The capture cursor never passes a message that is not in L0, and a message is
\* in L0 twice only after a capture was stopped between L0 and the checkpoint,
\* although captures of one session overlap.
CapturedOnce ==
  \A s \in Sessions, m \in Messages :
    /\ mode = "standalone" /\ m <= file.captured[s] => recorded[s][m] > 0
    /\ s \in cut \/ recorded[s][m] <= 1

\* Every use of the checkpoint ends, with an error or without: nobody waits for
\* ever behind a call that failed, died or lost its lock.
EveryCallEnds == \A c \in Calls : call[c].phase # "idle" ~> call[c].phase = "idle"
=============================================================================
