------------------------ MODULE CheckpointManagerProofs ------------------------
(***************************************************************************)
(* As long as reading the file does not fail, for any number of processes, *)
(* calls, sessions and failures: the updates of the checkpoint are atomic  *)
(* and its cursor never goes back until a lock expires inside its owner's  *)
(* section, and captured turns reach L0 before the cursor passes them, and *)
(* once unless a capture was cut off.                                      *)
(***************************************************************************)
EXTENDS CheckpointManager, TLAPS

Uses == [phase : Phases, proc : Processes, kind : {"mark", "capture", "merge"},
         s : Sessions, upto : Nat, cp : Checkpoints, lost : BOOLEAN]

\* Without a backend lock everything happens in one process.
OneProcess == mode = "standalone" => \A c \in Calls : call[c].phase # "idle" => call[c].proc = Home

\* Who is in the section owns the backend lock.
SectionOwnsLock ==
  mode = "service" /\ ~overrun => \A c \in Calls : InSection(c) => lock = c

\* What a call will change is the file as it is.
CopyIsCurrent ==
  ~overrun => \A c \in Calls : call[c].phase \in {"record", "write"} => call[c].cp = file

\* The inductive invariant.
CheckpointInv == TypeOK /\ OneProcess /\ SectionOwnsLock /\ CopyIsCurrent

USE CheckpointAssumption

LEMMA HomeType == Home \in Processes
  BY DEF Home

LEMMA MaxOfTwo ==
  ASSUME NEW a \in Nat, NEW b \in Nat
  PROVE  Max({a, b}) \in Nat /\ Max({a, b}) >= a
  <1>1. \E x \in {a, b} : \A y \in {a, b} : x >= y
    <2>1. CASE a >= b BY <2>1
    <2>2. CASE ~(a >= b) BY <2>2
    <2> QED BY <2>1, <2>2
  <1>2. Max({a, b}) \in {a, b} /\ \A y \in {a, b} : Max({a, b}) >= y
    BY <1>1 DEF Max
  <1> QED BY <1>2

LEMMA IdleType == Default \in Checkpoints /\ Idle \in Uses
  <1>1. Default \in Checkpoints BY DEF Default, Checkpoints
  <1>2. (CHOOSE s \in Sessions : TRUE) \in Sessions OBVIOUS
  <1> QED BY <1>1, <1>2, HomeType DEF Idle, Uses, Phases

LEMMA ChangedType ==
  ASSUME NEW cp \in Checkpoints, NEW r \in Uses
  PROVE  /\ Changed(cp, r) \in Checkpoints
         /\ \A s \in Sessions : Changed(cp, r).cursor[s] >= cp.cursor[s]
  <1>1. r.s \in Sessions /\ r.upto \in Nat /\ r.kind \in {"mark", "capture", "merge"} BY DEF Uses
  <1>2. CASE r.kind = "mark"
    <2>1. Changed(cp, r) = [cp EXCEPT !.cursor[r.s] = Max({@, r.upto}), !.memories = @ + 1]
      BY <1>2 DEF Changed
    <2>2. cp.cursor[r.s] \in Nat BY <1>1 DEF Checkpoints
    <2>3. Max({cp.cursor[r.s], r.upto}) \in Nat /\ Max({cp.cursor[r.s], r.upto}) >= cp.cursor[r.s]
      BY <1>1, <2>2, MaxOfTwo
    <2>4. Changed(cp, r) = [cursor |-> [cp.cursor EXCEPT ![r.s] = Max({@, r.upto})],
                            captured |-> cp.captured, memories |-> cp.memories + 1, saved |-> cp.saved]
      BY <2>1 DEF Checkpoints
    <2>5. [cp.cursor EXCEPT ![r.s] = Max({@, r.upto})] \in [Sessions -> Nat]
      BY <1>1, <2>3 DEF Checkpoints
    <2>6. \A s \in Sessions : [cp.cursor EXCEPT ![r.s] = Max({@, r.upto})][s] >= cp.cursor[s]
      BY <1>1, <2>3 DEF Checkpoints
    <2>7. cp.captured \in [Sessions -> Nat] /\ cp.saved \in [Sessions -> Nat] /\ cp.memories + 1 \in Nat
      BY DEF Checkpoints
    <2>8. Changed(cp, r) \in Checkpoints
      BY <2>4, <2>5, <2>7 DEF Checkpoints
    <2>9. Changed(cp, r).cursor = [cp.cursor EXCEPT ![r.s] = Max({@, r.upto})]
      BY <2>4
    <2> QED BY <2>6, <2>8, <2>9
  <1>3. CASE r.kind = "capture" BY <1>1, <1>3 DEF Changed, Checkpoints
  <1>4. CASE r.kind = "merge" BY <1>1, <1>4 DEF Changed, Checkpoints
  <1> QED BY <1>1, <1>2, <1>3, <1>4

-----------------------------------------------------------------------------
(* Type correctness.  A call that moves outside the section disturbs       *)
(* nobody; one that leaves it was the first of its line.                   *)

\* Changing one call to a typed record that is in the section only where it is first.
LEMMA OneCallMoves ==
  ASSUME TypeOK, NEW c \in Calls, NEW r \in Uses, call' = [call EXCEPT ![c] = r], line' = line,
         r.phase \in {"read", "record", "write", "written"} => r.proc = call[c].proc /\ First(c)
  PROVE  /\ call' \in [Calls -> Uses] /\ line' \in [Processes -> Seq(Calls)]
         /\ \A d \in Calls : InSection(d)' => First(d)'
  BY DEF TypeOK, Uses, InSection, First

\* The first of a line leaves it.
LEMMA FirstLeaves ==
  ASSUME TypeOK, NEW c \in Calls, First(c), Leave(c), call' = [call EXCEPT ![c] = Idle]
  PROVE  /\ call' \in [Calls -> Uses] /\ line' \in [Processes -> Seq(Calls)]
         /\ \A d \in Calls : InSection(d)' => First(d)'
  <1> DEFINE p == call[c].proc
  <1>1. p \in Processes /\ line[p] \in Seq(Calls) /\ line[p] # <<>> /\ Head(line[p]) = c
    BY DEF TypeOK, First
  <1>2. line' = [line EXCEPT ![p] = Tail(line[p])] /\ Tail(line[p]) \in Seq(Calls)
    BY <1>1 DEF Leave, TypeOK
  <1>3. call' \in [Calls -> Uses] /\ line' \in [Processes -> Seq(Calls)]
    BY <1>2, IdleType DEF TypeOK, Uses
  <1>4. ASSUME NEW d \in Calls, InSection(d)' PROVE First(d)'
    <2>1. d # c /\ call'[d] = call[d]
      BY <1>4 DEF InSection, Idle, TypeOK
    <2>2. First(d) /\ call[d].proc \in Processes
      BY <1>4, <2>1 DEF InSection, TypeOK
    <2>3. call[d].proc # p
      BY <1>1, <2>1, <2>2 DEF First
    <2> QED BY <1>2, <2>1, <2>2, <2>3 DEF First, TypeOK
  <1> QED BY <1>3, <1>4

\* A call joins the line of a process.
LEMMA CallJoins ==
  ASSUME TypeOK, NEW c \in Calls, NEW r \in Uses, r.phase = "line", NEW p \in Processes,
         Chain(p, c), call' = [call EXCEPT ![c] = r]
  PROVE  /\ call' \in [Calls -> Uses] /\ line' \in [Processes -> Seq(Calls)]
         /\ \A d \in Calls : InSection(d)' => First(d)'
  <1>1. line[p] \in Seq(Calls) /\ line' = [line EXCEPT ![p] = Append(line[p], c)]
        /\ Append(line[p], c) \in Seq(Calls)
    BY DEF TypeOK, Chain
  <1>2. call' \in [Calls -> Uses] /\ line' \in [Processes -> Seq(Calls)]
    BY <1>1 DEF TypeOK, Uses
  <1>3. ASSUME NEW d \in Calls, InSection(d)' PROVE First(d)'
    <2>1. d # c /\ call'[d] = call[d]
      BY <1>3 DEF InSection, TypeOK
    <2>2. First(d) /\ call[d].proc \in Processes
      BY <1>3, <2>1 DEF InSection, TypeOK
    <2>3. ASSUME line[p] # <<>> PROVE Append(line[p], c) # <<>> /\ Head(Append(line[p], c)) = Head(line[p])
      BY <1>1, <2>3
    <2> QED BY <1>1, <2>1, <2>2, <2>3 DEF First, TypeOK
  <1> QED BY <1>2, <1>3

\* The rest of the type invariant, for steps that leave the file alone.
Others == mode \in Deployments /\ file \in Checkpoints /\ lock \in Calls \cup {NoCall}
          /\ recorded \in [Sessions -> [Messages -> Nat]] /\ cut \subseteq Sessions
          /\ overrun \in BOOLEAN /\ faults \in 0..MaxFaults

LEMMA TypeParts ==
  ASSUME call' \in [Calls -> Uses], line' \in [Processes -> Seq(Calls)],
         \A d \in Calls : InSection(d)' => First(d)', Others'
  PROVE  TypeOK'
  BY DEF TypeOK, Uses, Others

LEMMA StartsL1Type == ASSUME TypeOK, NEW c \in Calls, StartsL1(c) PROVE TypeOK'
  <1>1. PICK p \in Processes, s \in Sessions, snap \in Snapshots :
          /\ snap.cursor[s] + 1 \in Messages
          /\ call' = [call EXCEPT ![c] = [Idle EXCEPT !.phase = "run", !.proc = p, !.s = s,
                                                     !.upto = snap.cursor[s] + 1]]
    BY HomeType DEF StartsL1
  <1> DEFINE r == [Idle EXCEPT !.phase = "run", !.proc = p, !.s = s, !.upto = snap.cursor[s] + 1]
  <1>u. snap.cursor[s] + 1 \in Nat BY <1>1 DEF Messages
  <1> HIDE DEF r
  <1>2. r \in Uses /\ r.phase = "run"
    <2> DEFINE n == snap.cursor[s] + 1
    <2>1. n \in Nat BY <1>u
    <2>2. r = [Idle EXCEPT !.phase = "run", !.proc = p, !.s = s, !.upto = n] BY DEF r
    <2> HIDE DEF n
    <2> QED BY <2>1, <2>2, IdleType DEF Uses, Phases
  <1>3. call' = [call EXCEPT ![c] = r] /\ line' = line BY <1>1 DEF StartsL1, r
  <1>4. Others' BY DEF StartsL1, TypeOK, Others
  <1> QED BY <1>2, <1>3, <1>4, OneCallMoves, TypeParts

LEMMA EndsL1Type == ASSUME TypeOK, NEW c \in Calls, EndsL1(c) PROVE TypeOK'
  <1> DEFINE r == [call[c] EXCEPT !.phase = "line"]
  <1>1. r \in Uses /\ r.phase = "line" /\ call[c].proc \in Processes BY DEF TypeOK, Uses, Phases
  <1>2. call' = [call EXCEPT ![c] = r] BY DEF EndsL1, TypeOK
  <1>3. Others' BY DEF EndsL1, TypeOK, Others
  <1> QED BY <1>1, <1>2, <1>3, CallJoins, TypeParts DEF EndsL1

LEMMA ComesType == ASSUME TypeOK, NEW c \in Calls, Comes(c) PROVE TypeOK'
  <1>1. PICK s \in Sessions, k \in {"capture", "merge"}, upto \in Messages :
          call' = [call EXCEPT ![c] = [Idle EXCEPT !.phase = "line", !.kind = k, !.s = s, !.upto = upto]]
    BY DEF Comes
  <1> DEFINE r == [Idle EXCEPT !.phase = "line", !.kind = k, !.s = s, !.upto = upto]
  <1>u. upto \in Nat BY DEF Messages
  <1>2. r \in Uses /\ r.phase = "line" BY <1>u, IdleType DEF Uses, Phases
  <1>3. call' = [call EXCEPT ![c] = r] BY <1>1
  <1>4. Others' BY DEF Comes, TypeOK, Others
  <1> QED BY <1>2, <1>3, <1>4, HomeType, CallJoins, TypeParts DEF Comes

LEMMA AcquiresType == ASSUME TypeOK, NEW c \in Calls, Acquires(c) PROVE TypeOK'
  <1> DEFINE r == [call[c] EXCEPT !.phase = "read"]
  <1>1. r \in Uses /\ r.proc = call[c].proc BY DEF TypeOK, Uses, Phases
  <1>2. call' = [call EXCEPT ![c] = r] /\ line' = line /\ First(c) BY DEF Acquires, TypeOK
  <1>3. Others' BY DEF Acquires, TypeOK, Others
  <1> QED BY <1>1, <1>2, <1>3, OneCallMoves, TypeParts

LEMMA GivesUpType == ASSUME TypeOK, NEW c \in Calls, GivesUp(c) PROVE TypeOK'
  <1>1. Others' BY DEF GivesUp, Fault, TypeOK, Others
  <1> QED BY <1>1, FirstLeaves, TypeParts DEF GivesUp

LEMMA ReadsType == ASSUME TypeOK, NEW c \in Calls, Reads(c) PROVE TypeOK'
  <1>1. PICK snap \in Snapshots :
          call' = [call EXCEPT ![c].cp = snap,
                               ![c].phase = IF call[c].kind = "capture" THEN "record" ELSE "write"]
    BY DEF Reads
  <1> DEFINE ph == IF call[c].kind = "capture" THEN "record" ELSE "write"
             r == [call[c] EXCEPT !.cp = snap, !.phase = ph]
  <1>2. snap \in Checkpoints BY IdleType DEF Snapshots, TypeOK
  <1>3. r \in Uses /\ r.proc = call[c].proc BY <1>2 DEF TypeOK, Uses, Phases
  <1>4. call' = [call EXCEPT ![c] = r] /\ line' = line BY <1>1 DEF Reads, TypeOK
  <1>5. First(c) BY DEF Reads, TypeOK, InSection
  <1>6. Others' BY DEF Reads, TypeOK, Others
  <1> QED BY <1>3, <1>4, <1>5, <1>6, OneCallMoves, TypeParts

LEMMA RecordsType == ASSUME TypeOK, NEW c \in Calls, Records(c) PROVE TypeOK'
  <1> DEFINE s == call[c].s
             new == {m \in Messages : call[c].cp.captured[s] < m /\ m <= call[c].upto}
             r == [call[c] EXCEPT !.phase = "write", !.upto = IF new = {} THEN 0 ELSE @]
  <1>1. r \in Uses /\ r.proc = call[c].proc BY DEF TypeOK, Uses, Phases
  <1>2. call' = [call EXCEPT ![c] = r] /\ line' = line BY DEF Records, TypeOK
  <1>3. First(c) BY DEF Records, TypeOK, InSection
  <1>4. s \in Sessions /\ recorded[s] \in [Messages -> Nat] BY DEF TypeOK
  <1>5. recorded' = [recorded EXCEPT ![s] = [m \in Messages |-> IF m \in new THEN recorded[s][m] + 1
                                                                 ELSE recorded[s][m]]]
    BY <1>4 DEF Records, TypeOK
  <1>6. [m \in Messages |-> IF m \in new THEN recorded[s][m] + 1 ELSE recorded[s][m]] \in [Messages -> Nat]
    BY <1>4
  <1>7. recorded' \in [Sessions -> [Messages -> Nat]] BY <1>5, <1>6 DEF TypeOK
  <1>8. Others' BY <1>7 DEF Records, TypeOK, Others
  <1> QED BY <1>1, <1>2, <1>3, <1>8, OneCallMoves, TypeParts

LEMMA WritesType == ASSUME TypeOK, NEW c \in Calls, Writes(c) PROVE TypeOK'
  <1> DEFINE r == [call[c] EXCEPT !.phase = "written"]
  <1>1. r \in Uses /\ r.proc = call[c].proc BY DEF TypeOK, Uses, Phases
  <1>2. call' = [call EXCEPT ![c] = r] /\ line' = line BY DEF Writes, TypeOK
  <1>3. First(c) BY DEF Writes, TypeOK, InSection
  <1>4. call[c] \in Uses /\ call[c].cp \in Checkpoints BY DEF TypeOK, Uses
  <1>5. file' \in Checkpoints BY <1>4, ChangedType DEF Writes
  <1>6. Others' BY <1>5 DEF Writes, TypeOK, Others
  <1> QED BY <1>1, <1>2, <1>3, <1>6, OneCallMoves, TypeParts

LEMMA EndsType == ASSUME TypeOK, NEW c \in Calls, Ends(c) PROVE TypeOK'
  <1>1. First(c) BY DEF Ends, TypeOK, InSection
  <1>2. Others' BY DEF Ends, TypeOK, Others
  <1> QED BY <1>1, <1>2, FirstLeaves, TypeParts DEF Ends

LEMMA ThrowsType == ASSUME TypeOK, NEW c \in Calls, Throws(c) PROVE TypeOK'
  <1>1. First(c) BY DEF Throws, TypeOK, InSection
  <1>2. CutBy({c}) \subseteq Sessions BY DEF CutBy, TypeOK
  <1>a. faults' \in 0..MaxFaults BY DEF Throws, Fault, TypeOK
  <1>b. lock' \in Calls \cup {NoCall} BY DEF Throws, TypeOK
  <1>c. cut' \subseteq Sessions BY <1>2 DEF Throws, TypeOK
  <1>3. Others' BY <1>a, <1>b, <1>c DEF Throws, TypeOK, Others
  <1> QED BY <1>1, <1>3, FirstLeaves, TypeParts DEF Throws

LEMMA RenewFailsType == ASSUME TypeOK, NEW c \in Calls, RenewFails(c) PROVE TypeOK'
  <1> DEFINE r == [call[c] EXCEPT !.lost = TRUE]
  <1>1. r \in Uses /\ r.proc = call[c].proc BY DEF TypeOK, Uses, Phases
  <1>2. call' = [call EXCEPT ![c] = r] /\ line' = line BY DEF RenewFails, TypeOK
  <1>3. First(c) BY DEF RenewFails, TypeOK
  <1>4. Others' BY DEF RenewFails, Fault, TypeOK, Others
  <1> QED BY <1>1, <1>2, <1>3, <1>4, OneCallMoves, TypeParts

LEMMA ExpiresType == ASSUME TypeOK, Expires PROVE TypeOK'
  <1>1. Others' BY DEF Expires, TypeOK, Others, InSection
  <1>2. \A d \in Calls : InSection(d)' => First(d)' BY DEF Expires, TypeOK, InSection, First
  <1> QED BY <1>1, <1>2, TypeParts DEF Expires, TypeOK, Uses

LEMMA DiesType == ASSUME TypeOK, NEW p \in Processes, Dies(p) PROVE TypeOK'
  <1> DEFINE gone == {c \in Calls : call[c].phase # "idle" /\ call[c].proc = p}
  <1>1. call' = [c \in Calls |-> IF c \in gone THEN Idle ELSE call[c]] BY DEF Dies
  <1>2. call' \in [Calls -> Uses] BY <1>1, IdleType DEF TypeOK, Uses
  <1>3. line' = [line EXCEPT ![p] = <<>>] /\ <<>> \in Seq(Calls) BY DEF Dies
  <1>4. line' \in [Processes -> Seq(Calls)] BY <1>3 DEF TypeOK
  <1>5. ASSUME NEW d \in Calls, InSection(d)' PROVE First(d)'
    <2>1. call'[d] = call[d] /\ d \notin gone BY <1>1, <1>5 DEF InSection, Idle
    <2>2. InSection(d) /\ call[d].proc # p BY <1>5, <2>1 DEF InSection
    <2>3. First(d) /\ call[d].proc \in Processes BY <2>2 DEF TypeOK
    <2> QED BY <1>3, <2>1, <2>2, <2>3 DEF First, TypeOK
  <1>6. CutBy(gone) \subseteq Sessions BY DEF CutBy, TypeOK
  <1>7. Others' BY <1>6 DEF Dies, Fault, TypeOK, Others
  <1> QED BY <1>2, <1>4, <1>5, <1>7, TypeParts

\* Every call, queue, lock, cursor and counter stays in its range, and who is in
\* the section heads the line of its process (withFileLock, checkpoint.ts).
THEOREM TypeCorrect == Spec => []TypeOK
  <1>1. Init => TypeOK
    <2> SUFFICES ASSUME Init PROVE TypeOK
      OBVIOUS
    <2>1. call \in [Calls -> Uses] BY IdleType DEF Init
    <2>2. \A c \in Calls : call[c].phase = "idle" BY DEF Init, Idle
    <2>3. line \in [Processes -> Seq(Calls)] BY DEF Init
    <2>4. \A c \in Calls : InSection(c) => First(c) BY <2>2 DEF InSection
    <2>5. file \in Checkpoints BY IdleType DEF Init
    <2>6. recorded \in [Sessions -> [Messages -> Nat]] BY DEF Init
    <2>7. Others
      <3>1. mode \in Deployments /\ lock = NoCall /\ cut = {} /\ overrun = FALSE /\ faults = 0
        BY DEF Init
      <3>2. faults \in 0..MaxFaults BY <3>1
      <3> QED BY <2>5, <2>6, <3>1, <3>2 DEF Others
    <2> QED BY <2>1, <2>3, <2>4, <2>7 DEF TypeOK, Uses, Others
  <1>2. TypeOK /\ [Next]_vars => TypeOK'
    <2> SUFFICES ASSUME TypeOK, [Next]_vars PROVE TypeOK'
      OBVIOUS
    <2>1. CASE UNCHANGED vars BY <2>1 DEF vars, TypeOK, InSection, First
    <2>2. CASE Next
      BY <2>2, StartsL1Type, EndsL1Type, ComesType, AcquiresType, GivesUpType, ReadsType, RecordsType,
         WritesType, EndsType, ThrowsType, RenewFailsType, ExpiresType, DiesType DEF Next, Steps
    <2> QED BY <2>1, <2>2
  <1> QED BY <1>1, <1>2, PTL DEF Spec

-----------------------------------------------------------------------------
(* Atomic updates.                                                         *)

\* Two calls are never in the section together while no lock has been overrun.
LEMMA Alone ==
  ASSUME TypeOK, OneProcess, SectionOwnsLock, ~overrun,
         NEW c \in Calls, NEW d \in Calls, InSection(c), InSection(d)
  PROVE  c = d
  <1>1. First(c) /\ First(d) BY DEF TypeOK
  <1>2. CASE mode = "standalone"
    <2>1. call[c].proc = Home /\ call[d].proc = Home BY <1>2 DEF OneProcess, InSection
    <2> QED BY <1>1, <2>1 DEF First
  <1>3. CASE mode = "service" BY <1>3 DEF SectionOwnsLock
  <1> QED BY <1>2, <1>3 DEF TypeOK

\* What a step of one call does to the calls: the others stay as they are, and
\* the one that moves keeps its process unless it starts or ends.
LEMMA StepMoves ==
  ASSUME TypeOK, NEW c \in Calls, Steps(c) \/ RenewFails(c) \/ Throws(c), NEW d \in Calls
  PROVE  /\ d # c => call'[d] = call[d]
         /\ call[c].phase # "idle"
         /\ call'[c].phase # "idle" => call'[c].proc = call[c].proc
         /\ mode' = mode /\ overrun' = overrun
  <1>i. Idle.phase = "idle" BY DEF Idle
  <1>1. CASE EndsL1(c) BY <1>1 DEF EndsL1, TypeOK
  <1>2. CASE Acquires(c) BY <1>2 DEF Acquires, TypeOK
  <1>3. CASE GivesUp(c) BY <1>3, <1>i DEF GivesUp, TypeOK
  <1>4. CASE Reads(c) BY <1>4 DEF Reads, TypeOK
  <1>5. CASE Records(c) BY <1>5 DEF Records, TypeOK
  <1>6. CASE Writes(c) BY <1>6 DEF Writes, TypeOK
  <1>7. CASE Ends(c) BY <1>7, <1>i DEF Ends, TypeOK
  <1>8. CASE RenewFails(c) BY <1>8 DEF RenewFails, InSection, TypeOK
  <1>9. CASE Throws(c) BY <1>9, <1>i DEF Throws, TypeOK
  <1> QED BY <1>1, <1>2, <1>3, <1>4, <1>5, <1>6, <1>7, <1>8, <1>9 DEF Steps

\* A call that starts is outside the section; the others stay as they are.
LEMMA StartMoves ==
  ASSUME TypeOK, NEW c \in Calls, StartsL1(c) \/ Comes(c), NEW d \in Calls
  PROVE  /\ d # c => call'[d] = call[d]
         /\ call'[c].phase \in {"run", "line"}
         /\ mode = "standalone" => call'[c].proc = Home
         /\ mode' = mode /\ overrun' = overrun /\ file' = file /\ lock' = lock
  <1>1. CASE StartsL1(c)
    <2>1. PICK p \in (IF mode = "service" THEN Processes ELSE {Home}), s \in Sessions, snap \in Snapshots :
            call' = [call EXCEPT ![c] = [Idle EXCEPT !.phase = "run", !.proc = p, !.s = s,
                                                     !.upto = snap.cursor[s] + 1]]
      BY <1>1 DEF StartsL1
    <2> QED BY <1>1, <2>1 DEF StartsL1, TypeOK, Idle
  <1>2. CASE Comes(c)
    <2>1. PICK s \in Sessions, k \in {"capture", "merge"}, upto \in Messages :
            call' = [call EXCEPT ![c] = [Idle EXCEPT !.phase = "line", !.kind = k, !.s = s, !.upto = upto]]
      BY <1>2 DEF Comes
    <2>2. call'[c] = [Idle EXCEPT !.phase = "line", !.kind = k, !.s = s, !.upto = upto]
          /\ \A e \in Calls : e # c => call'[e] = call[e]
      BY <2>1 DEF TypeOK
    <2> QED BY <1>2, <2>2 DEF Comes, Idle
  <1> QED BY <1>1, <1>2

\* Without a backend lock only Home is used.
LEMMA ProcessStep ==
  ASSUME TypeOK, OneProcess, Next
  PROVE  OneProcess'
  <1>1. ASSUME NEW c \in Calls, StartsL1(c) \/ Comes(c) PROVE OneProcess'
    BY <1>1, StartMoves DEF OneProcess
  <1>2. ASSUME NEW c \in Calls, Steps(c) \/ RenewFails(c) \/ Throws(c) PROVE OneProcess'
    BY <1>2, StepMoves DEF OneProcess
  <1>3. CASE Expires BY <1>3 DEF Expires, OneProcess
  <1>4. ASSUME NEW p \in Processes, Dies(p) PROVE OneProcess'
    BY <1>4 DEF Dies, OneProcess, Idle
  <1> QED BY <1>1, <1>2, <1>3, <1>4 DEF Next

\* A step that leaves the lock and the section of everybody else alone, and
\* brings nobody into the section, keeps its ownership.
LEMMA NobodyEnters ==
  ASSUME SectionOwnsLock, mode' = mode, overrun' = overrun,
         \A d \in Calls : InSection(d)' => InSection(d) /\ (lock = d => lock' = d)
  PROVE  SectionOwnsLock'
  BY DEF SectionOwnsLock

LEMMA LockStep ==
  ASSUME TypeOK, SectionOwnsLock, Next
  PROVE  SectionOwnsLock'
  <1>1. ASSUME NEW c \in Calls, StartsL1(c) \/ Comes(c) PROVE SectionOwnsLock'
    BY <1>1, StartMoves, NobodyEnters DEF InSection
  <1>2. ASSUME NEW c \in Calls, Acquires(c) PROVE SectionOwnsLock'
    <2> SUFFICES ASSUME mode = "service", ~overrun, NEW d \in Calls, InSection(d)' PROVE lock' = d
      BY <1>2 DEF SectionOwnsLock, Acquires
    <2>1. lock = NoCall /\ lock' = c BY <1>2 DEF Acquires
    <2>2. d # c => call'[d] = call[d] BY <1>2, StepMoves DEF Steps
    <2>3. ~InSection(d) BY <2>1 DEF SectionOwnsLock
    <2> QED BY <2>1, <2>2, <2>3 DEF InSection
  <1>3. ASSUME NEW c \in Calls, EndsL1(c) \/ GivesUp(c) \/ Reads(c) \/ Records(c) \/ Writes(c) \/ RenewFails(c)
        PROVE  SectionOwnsLock'
    <2>1. lock' = lock /\ mode' = mode /\ overrun' = overrun
      BY <1>3 DEF EndsL1, GivesUp, Reads, Records, Writes, RenewFails
    <2>2. InSection(c)' => InSection(c)
      <3>1. CASE EndsL1(c) BY <3>1 DEF EndsL1, InSection, TypeOK
      <3>2. CASE GivesUp(c) BY <3>2 DEF GivesUp, InSection, TypeOK, Idle
      <3>3. CASE Reads(c) \/ Records(c) \/ Writes(c) \/ RenewFails(c)
        BY <3>3 DEF Reads, Records, Writes, RenewFails, InSection
      <3> QED BY <1>3, <3>1, <3>2, <3>3
    <2>3. \A d \in Calls : d # c => call'[d] = call[d] BY <1>3, StepMoves DEF Steps
    <2> QED BY <2>1, <2>2, <2>3, NobodyEnters DEF InSection
  <1>4. ASSUME NEW c \in Calls, Ends(c) \/ Throws(c) PROVE SectionOwnsLock'
    <2>1. call' = [call EXCEPT ![c] = Idle] /\ mode' = mode /\ overrun' = overrun
      BY <1>4 DEF Ends, Throws
    <2>2. ~InSection(c)' BY <2>1 DEF InSection, Idle, TypeOK
    <2>3. \A d \in Calls : d # c => call'[d] = call[d] BY <2>1 DEF TypeOK
    <2>4. \A d \in Calls : d # c /\ lock = d => lock' = d BY <1>4 DEF Ends, Throws
    <2> QED BY <2>1, <2>2, <2>3, <2>4, NobodyEnters DEF InSection
  <1>5. CASE Expires
    BY <1>5 DEF Expires, SectionOwnsLock, InSection, TypeOK
  <1>6. ASSUME NEW p \in Processes, Dies(p) PROVE SectionOwnsLock'
    <2>1. mode' = mode /\ overrun' = overrun /\ lock' = lock BY <1>6 DEF Dies
    <2>2. \A d \in Calls : call'[d] = Idle \/ call'[d] = call[d] BY <1>6 DEF Dies
    <2>3. ASSUME NEW d \in Calls, InSection(d)' PROVE InSection(d)
      <3>1. call'[d] # Idle BY <2>3 DEF InSection, Idle
      <3>2. call'[d] = call[d] BY <2>2, <3>1
      <3> QED BY <2>3, <3>2 DEF InSection
    <2> QED BY <2>1, <2>3, NobodyEnters
  <1> QED BY <1>1, <1>2, <1>3, <1>4, <1>5, <1>6 DEF Next, Steps

\* Calls between reading and writing hold the file as it is: nobody else writes
\* while they are in the section.
LEMMA CopyStep ==
  ASSUME TypeOK, OneProcess, SectionOwnsLock, CopyIsCurrent, Next, ~ReadErrors
  PROVE  CopyIsCurrent'
  <1> DEFINE Holds(d) == call[d].phase \in {"record", "write"}
  <1> SUFFICES ASSUME ~overrun', NEW d \in Calls, call'[d].phase \in {"record", "write"}
               PROVE  call'[d].cp = file'
    BY DEF CopyIsCurrent
  <1>o. ~overrun
    BY DEF Next, Steps, StartsL1, EndsL1, Comes, Acquires, GivesUp, Reads, Records, Writes, Ends, Throws,
           RenewFails, Expires, Dies
  <1>h. Holds(d) => call[d].cp = file BY <1>o DEF CopyIsCurrent
  <1>1. ASSUME NEW c \in Calls, StartsL1(c) \/ Comes(c) PROVE call'[d].cp = file'
    <2>1. d # c /\ call'[d] = call[d] /\ file' = file BY <1>1, StartMoves
    <2> QED BY <1>h, <2>1
  <1>2. ASSUME NEW c \in Calls, Reads(c) PROVE call'[d].cp = file'
    <2>1. file' = file /\ Snapshots = {file} BY <1>2 DEF Reads, Snapshots
    <2>2. CASE d = c
      <3>1. PICK snap \in Snapshots :
              call' = [call EXCEPT ![c].cp = snap,
                                   ![c].phase = IF call[c].kind = "capture" THEN "record" ELSE "write"]
        BY <1>2 DEF Reads
      <3>2. call[c] \in Uses /\ call'[c].cp = snap BY <3>1 DEF TypeOK, Uses
      <3> QED BY <2>1, <2>2, <3>2
    <2>3. CASE d # c BY <1>2, <1>h, <2>1, <2>3, StepMoves DEF Steps
    <2> QED BY <2>2, <2>3
  <1>3. ASSUME NEW c \in Calls, Records(c) PROVE call'[d].cp = file'
    <2>1. file' = file /\ call[c].phase = "record" BY <1>3 DEF Records
    <2>2. CASE d = c
      <3>1. call[c] \in Uses /\ call'[c].cp = call[c].cp BY <1>3 DEF Records, TypeOK, Uses
      <3> QED BY <1>h, <2>1, <2>2, <3>1
    <2>3. CASE d # c BY <1>3, <1>h, <2>1, <2>3, StepMoves DEF Steps
    <2> QED BY <2>2, <2>3
  <1>4. ASSUME NEW c \in Calls, Writes(c) PROVE call'[d].cp = file'
    <2>1. call'[c].phase = "written" BY <1>4 DEF Writes, TypeOK
    <2>2. d # c /\ call'[d] = call[d] BY <1>4, <2>1, StepMoves DEF Steps
    <2>3. InSection(c) /\ InSection(d) BY <1>4, <2>2 DEF Writes, InSection
    <2> QED BY <1>o, <2>2, <2>3, Alone
  <1>5. ASSUME NEW c \in Calls, EndsL1(c) \/ Acquires(c) \/ GivesUp(c) \/ Ends(c) \/ Throws(c)
        PROVE  call'[d].cp = file'
    <2>1. file' = file BY <1>5 DEF EndsL1, Acquires, GivesUp, Ends, Throws
    <2>2. call'[c].phase \in {"line", "read", "idle"}
      <3>1. CASE EndsL1(c) BY <3>1 DEF EndsL1, TypeOK
      <3>2. CASE Acquires(c) BY <3>2 DEF Acquires, TypeOK
      <3>3. CASE GivesUp(c) BY <3>3 DEF GivesUp, TypeOK, Idle
      <3>4. CASE Ends(c) BY <3>4 DEF Ends, TypeOK, Idle
      <3>5. CASE Throws(c) BY <3>5 DEF Throws, TypeOK, Idle
      <3> QED BY <1>5, <3>1, <3>2, <3>3, <3>4, <3>5
    <2>3. d # c /\ call'[d] = call[d] BY <1>5, <2>2, StepMoves DEF Steps
    <2> QED BY <1>h, <2>1, <2>3
  <1>6. ASSUME NEW c \in Calls, RenewFails(c) PROVE call'[d].cp = file'
    <2>1. file' = file BY <1>6 DEF RenewFails
    <2>2. call[c] \in Uses /\ call[d] \in Uses BY DEF TypeOK, Uses
    <2>3. call'[c].phase = call[c].phase /\ call'[c].cp = call[c].cp BY <1>6, <2>2 DEF RenewFails, TypeOK, Uses
    <2>4. d # c => call'[d] = call[d] BY <1>6, StepMoves
    <2> QED BY <1>h, <2>1, <2>3, <2>4
  <1>7. CASE Expires BY <1>7, <1>h DEF Expires
  <1>8. ASSUME NEW p \in Processes, Dies(p) PROVE call'[d].cp = file'
    <2>1. call'[d] = Idle \/ call'[d] = call[d] BY <1>8 DEF Dies
    <2>2. file' = file BY <1>8 DEF Dies
    <2>3. call'[d] = call[d] BY <2>1 DEF Idle
    <2> QED BY <1>h, <2>2, <2>3
  <1> QED BY <1>1, <1>2, <1>3, <1>4, <1>5, <1>6, <1>7, <1>8 DEF Next, Steps

\* The inductive invariant holds while reading the file does not fail.
LEMMA CheckpointInvariant == ASSUME ~ReadErrors PROVE Spec => []CheckpointInv
  <1>1. Init => OneProcess /\ SectionOwnsLock /\ CopyIsCurrent
    BY DEF Init, OneProcess, SectionOwnsLock, CopyIsCurrent, InSection, Idle
  <1>2. TypeOK /\ OneProcess /\ SectionOwnsLock /\ CopyIsCurrent /\ [Next]_vars
          => (OneProcess /\ SectionOwnsLock /\ CopyIsCurrent)'
    <2> SUFFICES ASSUME TypeOK, OneProcess, SectionOwnsLock, CopyIsCurrent, [Next]_vars
                 PROVE  (OneProcess /\ SectionOwnsLock /\ CopyIsCurrent)'
      OBVIOUS
    <2>1. CASE UNCHANGED vars
      BY <2>1 DEF vars, OneProcess, SectionOwnsLock, CopyIsCurrent, InSection
    <2>2. CASE Next BY <2>2, ProcessStep, LockStep, CopyStep
    <2> QED BY <2>1, <2>2
  <1> QED BY <1>1, <1>2, TypeCorrect, PTL DEF Spec, CheckpointInv

\* A step to "written" of a call that was to write is its write.
LEMMA WritesOnly ==
  ASSUME TypeOK, Next, NEW c \in Calls, call[c].phase = "write", call'[c].phase = "written"
  PROVE  Writes(c)
  <1>1. ASSUME NEW d \in Calls, StartsL1(d) \/ Comes(d) PROVE FALSE
    BY <1>1, StartMoves
  <1>2. ASSUME NEW d \in Calls, Steps(d) \/ Throws(d) \/ RenewFails(d) PROVE Writes(c)
    <2>1. d = c BY <1>2, StepMoves
    <2>2. ~EndsL1(c) /\ ~Acquires(c) /\ ~GivesUp(c) /\ ~Reads(c) /\ ~Records(c) /\ ~Ends(c)
      BY DEF EndsL1, Acquires, GivesUp, Reads, Records, Ends
    <2>3. ~Throws(c) BY DEF Throws, TypeOK, Idle
    <2>4. ASSUME RenewFails(c) PROVE FALSE
      <3>1. call[c] \in Uses /\ call'[c] = [call[c] EXCEPT !.lost = TRUE] BY <2>4 DEF RenewFails, TypeOK, Uses
      <3>2. call'[c].phase = call[c].phase BY <3>1 DEF Uses
      <3> QED BY <3>2
    <2> QED BY <1>2, <2>1, <2>2, <2>3, <2>4 DEF Steps
  <1>3. ~Expires BY DEF Expires
  <1>4. ASSUME NEW p \in Processes, Dies(p) PROVE FALSE
    BY <1>4 DEF Dies, Idle
  <1> QED BY <1>1, <1>2, <1>3, <1>4 DEF Next

\* Whatever the processes, calls, failures and deaths: an update is a change of
\* the file as it is (mutate, withDistributedLock, writeRaw of checkpoint.ts),
\* until a lock expires inside its owner's section.
THEOREM AtomicUpdate == ASSUME ~ReadErrors PROVE Spec => AtomicUpdates
  <1>1. CheckpointInv /\ [Next]_vars =>
          [\A c \in Calls : call[c].phase = "write" /\ call'[c].phase = "written" /\ ~overrun'
                             => file' = Changed(file, call[c])]_vars
    <2> SUFFICES ASSUME CheckpointInv, Next, NEW c \in Calls, call[c].phase = "write",
                        call'[c].phase = "written", ~overrun'
                 PROVE  file' = Changed(file, call[c])
      OBVIOUS
    <2>1. Writes(c) BY WritesOnly DEF CheckpointInv
    <2>2. ~overrun BY <2>1 DEF Writes
    <2>3. call[c].cp = file BY <2>2 DEF CheckpointInv, CopyIsCurrent
    <2> QED BY <2>1, <2>3 DEF Writes
  <1> QED BY <1>1, CheckpointInvariant, PTL DEF Spec, AtomicUpdates

\* The L1 cursor only grows (markL1ExtractionComplete), although L1 runs take
\* theirs from a snapshot read without a lock.
THEOREM CursorGrows == ASSUME ~ReadErrors PROVE Spec => CursorNeverBack
  <1>1. CheckpointInv /\ [Next]_vars =>
          [~overrun' => \A s \in Sessions : file'.cursor[s] >= file.cursor[s]]_vars
    <2> SUFFICES ASSUME CheckpointInv, Next, ~overrun', NEW s \in Sessions
                 PROVE  file'.cursor[s] >= file.cursor[s]
      OBVIOUS
    <2>1. file \in Checkpoints BY DEF CheckpointInv, TypeOK
    <2>2. ASSUME NEW c \in Calls, Writes(c) PROVE file'.cursor[s] >= file.cursor[s]
      <3>1. call[c].cp = file BY <2>2 DEF Writes, CheckpointInv, CopyIsCurrent
      <3>2. call[c] \in Uses BY DEF CheckpointInv, TypeOK, Uses
      <3> QED BY <2>1, <2>2, <3>1, <3>2, ChangedType DEF Writes
    <2>3. CASE file' = file BY <2>1, <2>3 DEF Checkpoints
    <2> QED
      BY <2>2, <2>3 DEF Next, Steps, StartsL1, Comes, EndsL1, Acquires, GivesUp, Reads, Records, Ends,
                        Throws, RenewFails, Expires, Dies
  <1> QED BY <1>1, CheckpointInvariant, PTL DEF Spec, CursorNeverBack

-----------------------------------------------------------------------------
(* Captures: what the cursor has passed is in L0, and is there once.       *)

\* The captures that have written to L0 and have yet to write the checkpoint.
Recorded(s) == {c \in Calls : call[c].kind = "capture" /\ call[c].phase = "write" /\ call[c].s = s}

\* Up to the cursor everything is in L0, once; beyond it only what the capture
\* that is on its way from L0 to the checkpoint wrote, once.
CaptureSound(s) ==
  /\ \A m \in Messages : m <= file.captured[s] => recorded[s][m] > 0 /\ (s \in cut \/ recorded[s][m] = 1)
  /\ \A c \in Recorded(s) :
       /\ call[c].upto = 0 \/ call[c].upto > file.captured[s]
       /\ \A m \in Messages : m > file.captured[s] =>
            IF m <= call[c].upto THEN recorded[s][m] > 0 /\ (s \in cut \/ recorded[s][m] = 1)
                                 ELSE s \in cut \/ recorded[s][m] = 0
  /\ Recorded(s) = {} /\ s \notin cut =>
       \A m \in Messages : m > file.captured[s] => recorded[s][m] = 0

\* Turns are captured without a backend lock only.
CapturesAlone ==
  /\ \A c \in Calls : /\ call[c].phase = "record" => call[c].kind = "capture"
                      /\ call[c].kind = "capture" => mode = "standalone"
  /\ mode = "standalone" => lock = NoCall /\ ~overrun
  /\ mode = "service" => \A s \in Sessions, m \in Messages : recorded[s][m] = 0

CaptureInv == CapturesAlone /\ (mode = "standalone" => \A s \in Sessions : CaptureSound(s))

\* A step that leaves the cursor and L0 of a session alone keeps it sound, when
\* a capture on its way stays so or its session is known to have been cut.
LEMMA CaptureFrame ==
  ASSUME NEW s \in Sessions, CaptureSound(s), file'.captured[s] = file.captured[s],
         recorded'[s] = recorded[s], s \in cut => s \in cut',
         \A d \in Recorded(s)' : d \in Recorded(s) /\ call'[d].upto = call[d].upto,
         Recorded(s)' = {} => Recorded(s) = {} \/ s \in cut'
  PROVE  CaptureSound(s)'
  <1>1. \A m \in Messages : m <= file'.captured[s] => recorded'[s][m] > 0 /\ (s \in cut' \/ recorded'[s][m] = 1)
    BY DEF CaptureSound
  <1>2. \A d \in Recorded(s)' :
          /\ call'[d].upto = 0 \/ call'[d].upto > file'.captured[s]
          /\ \A m \in Messages : m > file'.captured[s] =>
               IF m <= call'[d].upto THEN recorded'[s][m] > 0 /\ (s \in cut' \/ recorded'[s][m] = 1)
                                     ELSE s \in cut' \/ recorded'[s][m] = 0
    BY DEF CaptureSound
  <1>3. Recorded(s)' = {} /\ s \notin cut' => \A m \in Messages : m > file'.captured[s] => recorded'[s][m] = 0
    BY DEF CaptureSound
  <1> QED BY <1>1, <1>2, <1>3 DEF CaptureSound

\* A call that moves without having recorded a capture, before or after.
LEMMA CaptureAside ==
  ASSUME NEW c \in Calls, NEW s \in Sessions, CaptureSound(s),
         file'.captured[s] = file.captured[s], recorded' = recorded, cut' = cut,
         \A d \in Calls : d # c => call'[d] = call[d],
         ~(call[c].kind = "capture" /\ call[c].phase = "write"),
         ~(call'[c].kind = "capture" /\ call'[c].phase = "write")
  PROVE  CaptureSound(s)'
  <1>1. Recorded(s)' = Recorded(s) /\ \A d \in Recorded(s) : d # c
    BY DEF Recorded
  <1>2. \A d \in Recorded(s) : d \in Calls /\ call'[d] = call[d]
    BY <1>1 DEF Recorded
  <1> QED BY <1>1, <1>2, CaptureFrame

\* Messages that the callback of captureAtomically writes to L0.
LEMMA RecordsSound ==
  ASSUME CheckpointInv, CaptureInv, mode = "standalone", NEW c \in Calls, Records(c), NEW s \in Sessions
  PROVE  CaptureSound(s)'
  <1> DEFINE new == {m \in Messages : call[c].cp.captured[call[c].s] < m /\ m <= call[c].upto}
  <1>1. call[c] \in Uses /\ call[c].s \in Sessions /\ call[c].upto \in Nat /\ file \in Checkpoints
        /\ recorded \in [Sessions -> [Messages -> Nat]]
    BY DEF CheckpointInv, TypeOK, Uses
  <1>2. call[c].phase = "record" /\ call[c].kind = "capture" /\ call[c].cp = file
    BY DEF Records, CaptureInv, CapturesAlone, CheckpointInv, CopyIsCurrent
  <1>3. call' = [call EXCEPT ![c] = [call[c] EXCEPT !.phase = "write", !.upto = IF new = {} THEN 0 ELSE call[c].upto]]
    BY <1>1 DEF Records, CheckpointInv, TypeOK
  <1>4. /\ call'[c].s = call[c].s
        /\ call'[c].kind = "capture" /\ call'[c].phase = "write"
        /\ call'[c].upto = IF new = {} THEN 0 ELSE call[c].upto
        /\ \A d \in Calls : d # c => call'[d] = call[d]
    BY <1>1, <1>2, <1>3 DEF CheckpointInv, TypeOK, Uses
  <1>5. recorded' = [recorded EXCEPT ![call[c].s] = [m \in Messages |->
                       IF m \in new THEN recorded[call[c].s][m] + 1 ELSE recorded[call[c].s][m]]]
    BY <1>1 DEF Records
  <1>6. file' = file /\ cut' = cut
    BY DEF Records
  <1>7. Recorded(s) = {}
    <2> SUFFICES ASSUME NEW d \in Recorded(s) PROVE FALSE
      OBVIOUS
    <2>1. d \in Calls /\ InSection(d) /\ call[d].phase = "write" /\ InSection(c)
      BY <1>2 DEF Recorded, InSection
    <2>2. d = c
      BY <2>1, Alone DEF CheckpointInv, CaptureInv, CapturesAlone
    <2> QED BY <1>2, <2>1, <2>2
  <1>8. CaptureSound(s)
    BY DEF CaptureInv
  <1>9. CASE s # call[c].s
    <2>1. Recorded(s)' = {}
      BY <1>4, <1>7, <1>9 DEF Recorded
    <2>2. recorded'[s] = recorded[s]
      BY <1>1, <1>5, <1>9
    <2> QED BY <1>6, <1>7, <1>8, <2>1, <2>2, CaptureFrame
  <1>10. CASE s = call[c].s
    <2> DEFINE low == file.captured[s]
               up == call'[c].upto
    <2>1. \A d \in Recorded(s)' : d = c
      BY <1>4, <1>7 DEF Recorded
    <2>2. c \in Recorded(s)'
      BY <1>4, <1>10 DEF Recorded
    <2>3. low \in Nat /\ \A m \in Messages : m \in Nat /\ m > 0 /\ recorded[s][m] \in Nat
      <3>1. low \in Nat
        BY <1>1 DEF Checkpoints
      <3>2. \A m \in Messages : m \in Nat /\ m > 0
        BY DEF Messages
      <3>3. \A m \in Messages : recorded[s][m] \in Nat
        BY <1>1
      <3> QED BY <3>1, <3>2, <3>3
    <2>4. new = {m \in Messages : low < m /\ m <= call[c].upto}
      BY <1>2, <1>10
    <2>5. \A m \in Messages : recorded'[s][m] = IF m \in new THEN recorded[s][m] + 1 ELSE recorded[s][m]
      BY <1>1, <1>5, <1>10
    <2>6. up = 0 \/ up > low
      BY <1>1, <1>4, <2>3, <2>4
    <2>7. \A m \in Messages : m > low => (m <= up <=> m \in new)
      BY <1>1, <1>4, <2>3, <2>4
    <2>8. \A m \in Messages : m <= low => recorded[s][m] > 0 /\ (s \in cut \/ recorded[s][m] = 1)
      BY <1>8 DEF CaptureSound
    <2>9. s \in cut \/ \A m \in Messages : m > low => recorded[s][m] = 0
      BY <1>7, <1>8 DEF CaptureSound
    <2> HIDE DEF new, low, up
    <2>10. \A m \in Messages : m <= low => recorded'[s][m] = recorded[s][m]
      BY <2>3, <2>4, <2>5
    <2>11. \A m \in Messages : m <= low => recorded'[s][m] > 0 /\ (s \in cut \/ recorded'[s][m] = 1)
      BY <2>8, <2>10
    <2>12. \A m \in Messages : m > low =>
             IF m <= up THEN recorded'[s][m] > 0 /\ (s \in cut \/ recorded'[s][m] = 1)
                        ELSE s \in cut \/ recorded'[s][m] = 0
      BY <2>3, <2>5, <2>7, <2>9
    <2> QED BY <1>6, <2>1, <2>2, <2>6, <2>11, <2>12 DEF CaptureSound, low, up
  <1> QED BY <1>9, <1>10

\* The cursor follows what was written to L0.
LEMMA WritesSound ==
  ASSUME CheckpointInv, CaptureInv, mode = "standalone", NEW c \in Calls, Writes(c), NEW s \in Sessions
  PROVE  CaptureSound(s)'
  <1>1. call[c] \in Uses /\ call[c].s \in Sessions /\ call[c].upto \in Nat /\ file \in Checkpoints
        /\ recorded \in [Sessions -> [Messages -> Nat]]
    BY DEF CheckpointInv, TypeOK, Uses
  <1>2. call[c].phase = "write" /\ call[c].cp = file /\ file' = Changed(file, call[c])
    BY DEF Writes, CaptureInv, CapturesAlone, CheckpointInv, CopyIsCurrent
  <1>3. call'[c].phase = "written" /\ \A d \in Calls : d # c => call'[d] = call[d]
    BY DEF Writes, CheckpointInv, TypeOK
  <1>4. recorded' = recorded /\ cut' = cut
    BY DEF Writes
  <1>5. CaptureSound(s)
    BY DEF CaptureInv
  <1>6. CASE call[c].kind # "capture"
    <2>1. file'.captured = file.captured
      BY <1>1, <1>2, <1>6 DEF Changed, Checkpoints, Uses
    <2> QED BY <1>3, <1>4, <1>5, <1>6, <2>1, CaptureAside
  <1>7. CASE call[c].kind = "capture"
    <2>1. file'.captured = [file.captured EXCEPT ![call[c].s] = IF call[c].upto = 0 THEN @ ELSE call[c].upto]
      BY <1>1, <1>2, <1>7 DEF Changed, Checkpoints
    <2>2. \A d \in Recorded(s) : d = c
      <3> SUFFICES ASSUME NEW d \in Recorded(s) PROVE d = c
        OBVIOUS
      <3>1. d \in Calls /\ InSection(d) /\ InSection(c)
        BY <1>2 DEF Recorded, InSection
      <3> QED BY <3>1, Alone DEF CheckpointInv, CaptureInv, CapturesAlone
    <2>3. Recorded(s)' = {}
      BY <1>3, <2>2 DEF Recorded
    <2>4. CASE s # call[c].s
      <3>1. c \notin Recorded(s)
        BY <2>4 DEF Recorded
      <3>2. Recorded(s) = {}
        BY <2>2, <3>1
      <3>3. file'.captured[s] = file.captured[s]
        BY <1>1, <2>1, <2>4 DEF Checkpoints
      <3> QED BY <1>4, <1>5, <2>3, <3>2, <3>3, CaptureFrame
    <2>5. CASE s = call[c].s
      <3>1. c \in Recorded(s)
        BY <1>2, <1>7, <2>5 DEF Recorded
      <3>2. file.captured[s] \in Nat /\ \A m \in Messages : m \in Nat /\ m > 0 /\ recorded[s][m] \in Nat
        BY <1>1 DEF Checkpoints, Messages
      <3>3. file'.captured[s] = IF call[c].upto = 0 THEN file.captured[s] ELSE call[c].upto
        BY <1>1, <2>1, <2>5 DEF Checkpoints
      <3>4. /\ call[c].upto = 0 \/ call[c].upto > file.captured[s]
            /\ \A m \in Messages : m > file.captured[s] =>
                 IF m <= call[c].upto THEN recorded[s][m] > 0 /\ (s \in cut \/ recorded[s][m] = 1)
                                      ELSE s \in cut \/ recorded[s][m] = 0
            /\ \A m \in Messages : m <= file.captured[s] => recorded[s][m] > 0 /\ (s \in cut \/ recorded[s][m] = 1)
        BY <1>5, <3>1 DEF CaptureSound
      <3>5. \A m \in Messages : m <= file'.captured[s] => recorded[s][m] > 0 /\ (s \in cut \/ recorded[s][m] = 1)
        BY <1>1, <3>2, <3>3, <3>4
      <3>6. \A m \in Messages : m > file'.captured[s] => s \in cut \/ recorded[s][m] = 0
        BY <1>1, <3>2, <3>3, <3>4
      <3> QED BY <1>4, <2>3, <3>5, <3>6 DEF CaptureSound
    <2> QED BY <2>4, <2>5
  <1> QED BY <1>6, <1>7

\* A capture that throws or dies between L0 and the checkpoint cuts its session.
LEMMA CutSound ==
  ASSUME NEW C \in SUBSET Calls, NEW s \in Sessions, CaptureSound(s), UNCHANGED <<file, recorded>>,
         cut' = cut \cup CutBy(C),
         \A d \in Calls : call'[d] = IF d \in C THEN Idle ELSE call[d]
  PROVE  CaptureSound(s)'
  <1>1. \A d \in Recorded(s)' : d \notin C /\ d \in Recorded(s) /\ call'[d] = call[d]
    <2>1. Idle.phase = "idle"
      BY DEF Idle
    <2>2. \A d \in Recorded(s)' : d \in Calls /\ call'[d].phase = "write" /\ call'[d].kind = "capture" /\ call'[d].s = s
      BY DEF Recorded
    <2>3. \A d \in Recorded(s)' : d \notin C /\ call'[d] = call[d]
      BY <2>1, <2>2
    <2> QED BY <2>2, <2>3 DEF Recorded
  <1>2. ASSUME Recorded(s)' = {} PROVE Recorded(s) = {} \/ s \in cut'
    <2> SUFFICES ASSUME NEW d \in Recorded(s) PROVE s \in cut'
      OBVIOUS
    <2>1. d \in C
      BY <1>2 DEF Recorded
    <2> QED BY <2>1 DEF Recorded, CutBy
  <1> QED BY <1>1, <1>2, CaptureFrame

LEMMA SoundStep ==
  ASSUME CheckpointInv, CaptureInv, Next, mode = "standalone", NEW s \in Sessions
  PROVE  CaptureSound(s)'
  <1>1. CaptureSound(s) /\ lock = NoCall
    BY DEF CaptureInv, CapturesAlone
  <1>2. ASSUME NEW c \in Calls, StartsL1(c) \/ Comes(c) PROVE CaptureSound(s)'
    <2>1. recorded' = recorded /\ cut' = cut /\ call[c].phase = "idle"
      BY <1>2 DEF StartsL1, Comes
    <2> QED BY <1>1, <1>2, <2>1, StartMoves, CaptureAside DEF CheckpointInv
  <1>3. ASSUME NEW c \in Calls, EndsL1(c) \/ Acquires(c) \/ GivesUp(c) \/ Reads(c) \/ Ends(c)
        PROVE  CaptureSound(s)'
    <2>1. file' = file /\ recorded' = recorded /\ cut' = cut /\ call[c].phase # "write"
      BY <1>3 DEF EndsL1, Acquires, GivesUp, Reads, Ends
    <2>2. ~(call'[c].kind = "capture" /\ call'[c].phase = "write")
      <3>1. CASE EndsL1(c) BY <3>1 DEF EndsL1, CheckpointInv, TypeOK
      <3>2. CASE Acquires(c) BY <3>2 DEF Acquires, CheckpointInv, TypeOK
      <3>3. CASE GivesUp(c) BY <3>3 DEF GivesUp, CheckpointInv, TypeOK, Idle
      <3>4. CASE Ends(c) BY <3>4 DEF Ends, CheckpointInv, TypeOK, Idle
      <3>5. CASE Reads(c) BY <3>5 DEF Reads, CheckpointInv, TypeOK
      <3> QED BY <1>3, <3>1, <3>2, <3>3, <3>4, <3>5
    <2>3. \A d \in Calls : d # c => call'[d] = call[d]
      BY <1>3, StepMoves DEF Steps, CheckpointInv
    <2> QED BY <1>1, <2>1, <2>2, <2>3, CaptureAside
  <1>4. ASSUME NEW c \in Calls, Throws(c) PROVE CaptureSound(s)'
    <2>1. UNCHANGED <<file, recorded>> /\ cut' = cut \cup CutBy({c})
          /\ \A d \in Calls : call'[d] = IF d \in {c} THEN Idle ELSE call[d]
      BY <1>4 DEF Throws, CheckpointInv, TypeOK
    <2> QED BY <1>1, <2>1, CutSound
  <1>5. ASSUME NEW p \in Processes, Dies(p) PROVE CaptureSound(s)'
    <2> DEFINE gone == {c \in Calls : call[c].phase # "idle" /\ call[c].proc = p}
    <2>1. UNCHANGED <<file, recorded>> /\ cut' = cut \cup CutBy(gone)
          /\ \A d \in Calls : call'[d] = IF d \in gone THEN Idle ELSE call[d]
      BY <1>5 DEF Dies
    <2> HIDE DEF gone
    <2>2. gone \in SUBSET Calls
      BY DEF gone
    <2> QED BY <1>1, <2>1, <2>2, CutSound
  <1>6. ~Expires /\ \A c \in Calls : ~RenewFails(c)
    BY <1>1 DEF Expires, RenewFails
  <1> QED BY <1>2, <1>3, <1>4, <1>5, <1>6, RecordsSound, WritesSound DEF Next, Steps

\* Only captures come to L0, and only where there is no backend lock.
LEMMA AloneStep ==
  ASSUME CheckpointInv, CapturesAlone, Next
  PROVE  CapturesAlone'
  <1>1. mode' = mode
    BY DEF Next, Steps, StartsL1, EndsL1, Comes, Acquires, GivesUp, Reads, Records, Writes, Ends, Throws,
           RenewFails, Expires, Dies
  <1>2. ASSUME NEW d \in Calls
        PROVE  (call'[d].phase = "record" => call'[d].kind = "capture")
               /\ (call'[d].kind = "capture" => mode = "standalone")
    <2>1. (call[d].phase = "record" => call[d].kind = "capture") /\ (call[d].kind = "capture" => mode = "standalone")
      BY DEF CapturesAlone
    <2>i. Idle.kind = "mark" /\ Idle.phase = "idle"
      BY DEF Idle
    <2>2. CASE call'[d] = call[d] \/ call'[d] = Idle
      BY <2>1, <2>2, <2>i
    <2>3. CASE StartsL1(d)
      BY <2>3, <2>i DEF StartsL1, CheckpointInv, TypeOK, Idle
    <2>4. CASE Comes(d)
      <3>1. mode = "standalone"
        BY <2>4 DEF Comes
      <3>2. call'[d].phase \in {"run", "line"}
        BY <2>4, StartMoves DEF CheckpointInv
      <3> QED BY <3>1, <3>2
    <2>5. CASE EndsL1(d) \/ Acquires(d) \/ Records(d) \/ Writes(d) \/ RenewFails(d)
      <3>1. call[d] \in Uses
        BY DEF CheckpointInv, TypeOK, Uses
      <3>2. call'[d].kind = call[d].kind /\ (call'[d].phase = "record" => call[d].phase = "record")
        <4>1. CASE EndsL1(d) BY <3>1, <4>1 DEF EndsL1, CheckpointInv, TypeOK, Uses
        <4>2. CASE Acquires(d) BY <3>1, <4>2 DEF Acquires, CheckpointInv, TypeOK, Uses
        <4>3. CASE Records(d) BY <3>1, <4>3 DEF Records, CheckpointInv, TypeOK, Uses
        <4>4. CASE Writes(d) BY <3>1, <4>4 DEF Writes, CheckpointInv, TypeOK, Uses
        <4>5. CASE RenewFails(d) BY <3>1, <4>5 DEF RenewFails, CheckpointInv, TypeOK, Uses
        <4> QED BY <2>5, <4>1, <4>2, <4>3, <4>4, <4>5
      <3> QED BY <2>1, <3>2
    <2>6. CASE Reads(d)
      <3>1. call[d] \in Uses
        BY DEF CheckpointInv, TypeOK, Uses
      <3>2. call'[d].kind = call[d].kind /\ (call'[d].phase = "record" => call[d].kind = "capture")
        BY <2>6, <3>1 DEF Reads, CheckpointInv, TypeOK, Uses
      <3> QED BY <2>1, <3>2
    <2>7. CASE GivesUp(d) \/ Ends(d) \/ Throws(d)
      <3>1. call'[d] = Idle
        BY <2>7 DEF GivesUp, Ends, Throws, CheckpointInv, TypeOK
      <3> QED BY <2>2, <3>1
    <2>8. ASSUME NEW c \in Calls, StartsL1(c) \/ Comes(c) \/ Steps(c) \/ Throws(c) \/ RenewFails(c)
          PROVE  c = d \/ call'[d] = call[d]
      BY <2>8, StartMoves, StepMoves DEF CheckpointInv
    <2>9. ASSUME Expires \/ \E p \in Processes : Dies(p)
          PROVE  call'[d] = call[d] \/ call'[d] = Idle
      BY <2>9 DEF Expires, Dies
    <2> QED BY <2>2, <2>3, <2>4, <2>5, <2>6, <2>7, <2>8, <2>9 DEF Next, Steps
  <1>3. ASSUME mode = "standalone" PROVE lock' = NoCall /\ ~overrun'
    <2>1. lock = NoCall /\ ~overrun
      BY <1>3 DEF CapturesAlone
    <2>2. mode # "service"
      BY <1>3
    <2>3. lock' = NoCall
      <3>1. ASSUME NEW c \in Calls, Acquires(c) \/ Ends(c) \/ Throws(c) PROVE lock' = NoCall
        BY <2>1, <2>2, <3>1 DEF Acquires, Ends, Throws
      <3> QED
        BY <2>1, <2>2, <3>1 DEF Next, Steps, StartsL1, EndsL1, Comes, GivesUp, Reads, Records, Writes,
                                RenewFails, Expires, Dies
    <2>4. overrun' = overrun
      BY <2>1 DEF Next, Steps, StartsL1, EndsL1, Comes, Acquires, GivesUp, Reads, Records, Writes, Ends,
                  Throws, RenewFails, Expires, Dies
    <2> QED BY <2>1, <2>3, <2>4
  <1>4. ASSUME mode = "service" PROVE recorded' = recorded
    <2>1. ASSUME NEW c \in Calls PROVE ~Records(c)
      BY <1>4 DEF Records, CapturesAlone
    <2> QED
      BY <2>1 DEF Next, Steps, StartsL1, EndsL1, Comes, Acquires, GivesUp, Reads, Writes, Ends, Throws,
                  RenewFails, Expires, Dies
  <1> QED BY <1>1, <1>2, <1>3, <1>4 DEF CapturesAlone

\* What the cursor of captureAtomically has passed is in L0, and a message is in
\* L0 twice only where a capture was stopped between L0 and the checkpoint, for
\* any number of overlapping captures.
THEOREM CapturesOnce == ASSUME ~ReadErrors PROVE Spec => []CapturedOnce
  <1>1. Init => CaptureInv
    <2> SUFFICES ASSUME Init PROVE CaptureInv
      OBVIOUS
    <2>1. \A c \in Calls : call[c].phase = "idle" /\ call[c].kind = "mark"
      BY DEF Init, Idle
    <2>2. \A s \in Sessions, m \in Messages : recorded[s][m] = 0 /\ file.captured[s] = 0 /\ m > 0
      BY DEF Init, Default, Messages
    <2>3. CapturesAlone
      BY <2>1, <2>2 DEF Init, CapturesAlone
    <2>4. ASSUME NEW s \in Sessions PROVE CaptureSound(s)
      <3>1. Recorded(s) = {}
        BY <2>1 DEF Recorded
      <3>2. \A m \in Messages : ~(m <= 0)
        BY DEF Messages
      <3> QED BY <2>2, <3>1, <3>2 DEF CaptureSound
    <2> QED BY <2>3, <2>4 DEF CaptureInv
  <1>2. CheckpointInv /\ CaptureInv /\ [Next]_vars => CaptureInv'
    <2> SUFFICES ASSUME CheckpointInv, CaptureInv, [Next]_vars PROVE CaptureInv'
      OBVIOUS
    <2>1. CASE UNCHANGED vars
      BY <2>1 DEF vars, CaptureInv, CapturesAlone, CaptureSound, Recorded
    <2>2. CASE Next
      <3>1. CapturesAlone'
        BY <2>2, AloneStep DEF CaptureInv
      <3>2. mode' = mode
        BY <2>2 DEF Next, Steps, StartsL1, EndsL1, Comes, Acquires, GivesUp, Reads, Records, Writes, Ends,
                    Throws, RenewFails, Expires, Dies
      <3> QED BY <2>2, <3>1, <3>2, SoundStep DEF CaptureInv
    <2> QED BY <2>1, <2>2
  <1>3. CheckpointInv /\ CaptureInv => CapturedOnce
    <2> SUFFICES ASSUME CheckpointInv, CaptureInv, NEW s \in Sessions, NEW m \in Messages
                 PROVE  /\ mode = "standalone" /\ m <= file.captured[s] => recorded[s][m] > 0
                        /\ s \in cut \/ recorded[s][m] <= 1
      BY DEF CapturedOnce
    <2>1. recorded[s][m] \in Nat /\ file.captured[s] \in Nat /\ m \in Nat
      BY DEF CheckpointInv, TypeOK, Checkpoints, Messages
    <2>2. CASE mode = "standalone"
      <3>1. CaptureSound(s)
        BY <2>2 DEF CaptureInv
      <3>2. m <= file.captured[s] => recorded[s][m] > 0 /\ (s \in cut \/ recorded[s][m] = 1)
        BY <3>1 DEF CaptureSound
      <3>3. ASSUME m > file.captured[s], s \notin cut PROVE recorded[s][m] <= 1
        <4>1. CASE Recorded(s) = {}
          BY <3>1, <3>3, <4>1 DEF CaptureSound
        <4>2. ASSUME NEW c \in Recorded(s) PROVE recorded[s][m] <= 1
          BY <3>1, <3>3 DEF CaptureSound
        <4> QED BY <4>1, <4>2
      <3> QED BY <2>1, <3>2, <3>3
    <2>3. CASE mode # "standalone"
      <3>1. mode = "service"
        BY <2>3 DEF CheckpointInv, TypeOK
      <3> QED BY <2>1, <2>3, <3>1 DEF CaptureInv, CapturesAlone
    <2> QED BY <2>2, <2>3
  <1> QED BY <1>1, <1>2, <1>3, CheckpointInvariant, PTL DEF Spec

=============================================================================
