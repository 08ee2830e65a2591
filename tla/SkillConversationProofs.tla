------------------------- MODULE SkillConversationProofs -------------------------
(***************************************************************************)
(* SkillConversation for any number of gateways, sessions, agents,         *)
(* messages and faults, any threshold and number of retries, on an atomic  *)
(* and on a downgraded queue.                                              *)
(***************************************************************************)
EXTENDS SkillConversation, SequenceTheorems, NaturalsInduction, WellFoundedInduction, TLAPS

-----------------------------------------------------------------------------
(* What Keeping returns, by induction over a least counterexample (the     *)
(* library's induction rules take an operator as a parameter).             *)

\* A non-empty set of numbers has a least one.
LEMMA LeastNumber ==
  ASSUME NEW I \in SUBSET Nat, I # {}
  PROVE  \E x \in I : \A y \in I : x =< y
  <1> DEFINE R == {p \in Nat \X Nat : p[1] < p[2]}
  <1>1. IsWellFoundedOn(R, Nat)
    BY NatLessThanWellFounded DEF OpToRel
  <1>2. PICK x \in I : \A y \in I : ~ (<<y, x>> \in R)
    BY <1>1, WFMin
  <1>3. ASSUME NEW y \in I PROVE x =< y
    <2>1. x \in Nat /\ y \in Nat
      OBVIOUS
    <2>2. y < x => <<y, x>> \in R
      BY <2>1
    <2> QED BY <1>2, <2>1, <2>2
  <1> QED BY <1>2, <1>3

-----------------------------------------------------------------------------
\* What the definition says of the values of kept up to n.
Filled(f, s, X, n) ==
  [i \in 0..n |-> IF i = 0 THEN <<>>
                  ELSE IF s[i] \in X THEN Append(f[i - 1], s[i]) ELSE f[i - 1]]

USE DEF Filled

\* The recursive function Keeping is defined by exists and has the values its
\* definition gives it.
LEMMA KeepingDefined ==
  ASSUME NEW S, NEW s \in Seq(S), NEW X
  PROVE  \E f : /\ f = Filled(f, s, X, Len(s))
                /\ Keeping(s, X) = f[Len(s)]
  <1> DEFINE D(f, n) == f = Filled(f, s, X, n)
             Bad == {n \in Nat : ~ \E f : D(f, n)}
  <1>1. \E f : D(f, 0)
    <2> DEFINE f == [i \in 0..0 |-> <<>>]
    <2>1. D(f, 0)
      OBVIOUS
    <2> QED BY <2>1
  <1>2. ASSUME NEW n \in Nat, NEW g, D(g, n) PROVE \E f : D(f, n + 1)
    <2> DEFINE f == [i \in 0..(n + 1) |->
                       IF i = n + 1 THEN IF s[i] \in X THEN Append(g[n], s[i]) ELSE g[n] ELSE g[i]]
    <2>1. D(f, n + 1)
      <3>1. ASSUME NEW i \in 0..(n + 1)
            PROVE  f[i] = IF i = 0 THEN <<>> ELSE IF s[i] \in X THEN Append(f[i - 1], s[i]) ELSE f[i - 1]
        <4>1. CASE i = n + 1
          BY <4>1
        <4>2. CASE i # n + 1
          <5>1. i \in 0..n
            BY <4>2
          <5>2. g[i] = IF i = 0 THEN <<>> ELSE IF s[i] \in X THEN Append(g[i - 1], s[i]) ELSE g[i - 1]
            BY <1>2, <5>1
          <5>3. f[i] = g[i] /\ (i # 0 => f[i - 1] = g[i - 1])
            BY <5>1
          <5> QED BY <5>2, <5>3
        <4> QED BY <4>1, <4>2
      <3> HIDE DEF f
      <3>2. f = [i \in 0..(n + 1) |-> f[i]]
        BY DEF f
      <3> QED BY <3>1, <3>2
    <2> HIDE DEF f
    <2> QED BY <2>1
  <1>3. \A n \in Nat : \E f : D(f, n)
    <2>1. SUFFICES ASSUME Bad # {} PROVE FALSE
      OBVIOUS
    <2> HIDE DEF D
    <2>2. PICK x \in Bad : \A y \in Bad : x =< y
      <3> Bad \in SUBSET Nat
        OBVIOUS
      <3> HIDE DEF Bad
      <3> QED BY <2>1, LeastNumber
    <2>3. x # 0
      BY <1>1
    <2>4. x - 1 \in Nat /\ x - 1 \notin Bad
      BY <2>2, <2>3
    <2>5. PICK g : D(g, x - 1)
      BY <2>4
    <2> QED BY <1>2, <2>4, <2>5
  <1>4. PICK f : D(f, Len(s))
    BY <1>3
  <1> DEFINE c == CHOOSE h : D(h, Len(s))
  <1>5. D(c, Len(s))
    BY <1>4
  <1>6. Keeping(s, X) = c[Len(s)]
    BY DEF Keeping
  <1> QED BY <1>5, <1>6

\* Every element of Keeping(s, X) comes from s, and every one of X in s is kept.
LEMMA KeepingElements ==
  ASSUME NEW S, NEW s \in Seq(S), NEW X
  PROVE  /\ Keeping(s, X) \in Seq(S)
         /\ \A k \in 1..Len(Keeping(s, X)) : \E i \in 1..Len(s) : Keeping(s, X)[k] = s[i]
         /\ \A i \in 1..Len(s) : s[i] \in X => \E k \in 1..Len(Keeping(s, X)) : Keeping(s, X)[k] = s[i]
  <1> DEFINE From(t, n) == /\ t \in Seq(S)
                           /\ \A k \in 1..Len(t) : \E i \in 1..n : t[k] = s[i]
                           /\ \A i \in 1..n : s[i] \in X => \E k \in 1..Len(t) : t[k] = s[i]
  <1>1. PICK f : /\ f = Filled(f, s, X, Len(s))
                 /\ Keeping(s, X) = f[Len(s)]
    BY KeepingDefined
  <1>2. Len(s) \in Nat
    BY LenProperties
  <1>3. From(f[0], 0)
    <2>1. f[0] = <<>>
      BY <1>1, <1>2
    <2> QED BY <2>1, EmptySeq
  <1>4. ASSUME NEW n \in Nat, n < Len(s), NEW t, From(t, n), s[n + 1] \notin X PROVE From(t, n + 1)
    <2>1. \A i \in 1..(n + 1) : s[i] \in X => i \in 1..n
      BY <1>4
    <2>2. 1..n \subseteq 1..(n + 1)
      BY <1>4
    <2> QED BY <1>4, <2>1, <2>2
  <1>5. ASSUME NEW n \in Nat, n < Len(s), NEW t, From(t, n), s[n + 1] \in X PROVE From(Append(t, s[n + 1]), n + 1)
    <2> DEFINE m == Len(t)
               u == Append(t, s[n + 1])
    <2>1. m \in Nat /\ s[n + 1] \in S
      BY <1>2, <1>5, ElementOfSeq, LenProperties
    <2>2. u \in Seq(S) /\ Len(u) = m + 1 /\ u[m + 1] = s[n + 1] /\ \A k \in 1..m : u[k] = t[k]
      BY <1>5, <2>1, AppendProperties
    <2>3. /\ \A k \in 1..m : \E i \in 1..n : t[k] = s[i]
          /\ \A i \in 1..n : s[i] \in X => \E k \in 1..m : t[k] = s[i]
      BY <1>5
    <2> HIDE DEF u, m
    <2>4. ASSUME NEW k \in 1..(m + 1) PROVE \E i \in 1..(n + 1) : u[k] = s[i]
      <3>1. CASE k = m + 1
        BY <1>5, <2>2, <3>1
      <3>2. CASE k # m + 1
        <4>1. k \in 1..m
          BY <2>1, <3>2
        <4>2. PICK i \in 1..n : t[k] = s[i]
          BY <2>3, <4>1
        <4>3. i \in 1..(n + 1)
          BY <1>5
        <4> QED BY <2>2, <4>1, <4>2, <4>3
      <3> QED BY <3>1, <3>2
    <2>5. ASSUME NEW i \in 1..(n + 1), s[i] \in X PROVE \E k \in 1..(m + 1) : u[k] = s[i]
      <3>1. CASE i = n + 1
        BY <2>1, <2>2, <3>1
      <3>2. CASE i # n + 1
        <4>1. i \in 1..n
          BY <1>5, <3>2
        <4>2. PICK k \in 1..m : t[k] = s[i]
          BY <2>3, <2>5, <4>1
        <4>3. k \in 1..(m + 1)
          BY <2>1
        <4> QED BY <2>2, <4>2, <4>3
      <3> QED BY <3>1, <3>2
    <2>6. From(u, n + 1)
      BY <2>2, <2>4, <2>5
    <2> QED BY <2>6 DEF u
  <1>6. \A n \in Nat : n < Len(s) => f[n + 1] = IF s[n + 1] \in X THEN Append(f[n], s[n + 1]) ELSE f[n]
    <2>1. ASSUME NEW n \in Nat, n < Len(s)
          PROVE  n + 1 \in 0..Len(s) /\ n + 1 # 0 /\ (n + 1) - 1 = n
      BY <1>2, <2>1
    <2> QED BY <1>1, <2>1
  <1> HIDE DEF From
  <1> DEFINE Bad == {n \in 0..Len(s) : ~From(f[n], n)}
  <1>7. Bad = {}
    <2>1. SUFFICES ASSUME Bad # {} PROVE FALSE
      OBVIOUS
    <2>2. PICK x \in Bad : \A y \in Bad : x =< y
      <3> Bad \in SUBSET Nat
        BY <1>2
      <3> HIDE DEF Bad
      <3> QED BY <2>1, LeastNumber
    <2>3. x # 0 /\ x \in 0..Len(s) /\ ~From(f[x], x)
      BY <1>3, <2>2
    <2>4. x - 1 \in Nat /\ x - 1 < Len(s) /\ x - 1 \in 0..Len(s) /\ x - 1 \notin Bad /\ (x - 1) + 1 = x
      BY <1>2, <2>2, <2>3
    <2>5. From(f[x - 1], x - 1)
      BY <2>4
    <2> QED BY <1>4, <1>5, <1>6, <2>3, <2>4, <2>5
  <1>8. From(f[Len(s)], Len(s))
    BY <1>2, <1>7
  <1> QED BY <1>1, <1>8 DEF From

HIDE DEF Filled

-----------------------------------------------------------------------------
(* The tasks file of an agent.                                             *)

LEMMA Bounds ==
  /\ Threshold \in Nat /\ Threshold > 0 /\ MaxRetries \in Nat /\ MaxRetries > 0
  /\ MaxMessages \in Nat /\ MaxArchives \in Nat /\ MaxFaults \in Nat
  /\ \A s \in Sessions : AgentOf[s] \in Agents /\ s \notin Nodes /\ s # None
  /\ None \notin Nodes /\ None \notin Agents /\ \A n \in Nodes : n \notin Sessions /\ n # None
  BY SkillAssumption

\* Deleting a task by its id leaves the others, and nothing new.
LEMMA WithoutTask ==
  ASSUME NEW doc \in Seq(Entries), NEW t
  PROVE  /\ Without(doc, t) \in Seq(Entries)
         /\ \A u : Has(doc, u) /\ u # t => Has(Without(doc, t), u)
         /\ \A i \in 1..Len(Without(doc, t)) : \E j \in 1..Len(doc) : Without(doc, t)[i] = doc[j]
  <1> DEFINE X == {e \in Range(doc) : e.id # t}
             kept == Without(doc, t)
  <1>0. kept = Keeping(doc, X)
    BY DEF Without
  <1>5. ASSUME NEW Y
        PROVE  /\ Keeping(doc, Y) \in Seq(Entries)
               /\ \A k \in 1..Len(Keeping(doc, Y)) : \E i \in 1..Len(doc) : Keeping(doc, Y)[k] = doc[i]
               /\ \A i \in 1..Len(doc) : doc[i] \in Y => \E k \in 1..Len(Keeping(doc, Y)) : Keeping(doc, Y)[k] = doc[i]
    BY KeepingElements
  <1>1. kept \in Seq(Entries)
    BY <1>0, <1>5
  <1>2. /\ \A k \in 1..Len(kept) : \E i \in 1..Len(doc) : kept[k] = doc[i]
        /\ \A i \in 1..Len(doc) : doc[i] \in X => \E k \in 1..Len(kept) : kept[k] = doc[i]
    <2>1. /\ \A k \in 1..Len(Keeping(doc, X)) : \E i \in 1..Len(doc) : Keeping(doc, X)[k] = doc[i]
          /\ \A i \in 1..Len(doc) : doc[i] \in X => \E k \in 1..Len(Keeping(doc, X)) : Keeping(doc, X)[k] = doc[i]
      <3> HIDE DEF X
      <3> QED BY <1>5
    <2> HIDE DEF kept, X
    <2> QED BY <1>0, <2>1
  <1>3. ASSUME NEW u, Has(doc, u), u # t PROVE Has(kept, u)
    <2>1. PICK i \in 1..Len(doc) : doc[i].id = u
      BY <1>3 DEF Has
    <2>2. doc[i] \in Range(doc)
      <3>1. DOMAIN doc = 1..Len(doc)
        OBVIOUS
      <3> QED BY <3>1 DEF Range
    <2>3. doc[i] \in X
      BY <1>3, <2>1, <2>2
    <2>4. PICK k \in 1..Len(kept) : kept[k] = doc[i]
      BY <1>2, <2>3
    <2> HIDE DEF kept
    <2> QED BY <2>1, <2>4 DEF Has
  <1> HIDE DEF kept
  <1>4. kept \in Seq(Entries) /\ (\A u : Has(doc, u) /\ u # t => Has(kept, u))
        /\ \A i \in 1..Len(kept) : \E j \in 1..Len(doc) : kept[i] = doc[j]
    BY <1>1, <1>2, <1>3
  <1> QED BY <1>4 DEF kept

LEMMA AppendedTask ==
  ASSUME NEW doc \in Seq(Entries), NEW e \in Entries
  PROVE  /\ Append(doc, e) \in Seq(Entries) /\ Has(Append(doc, e), e.id)
         /\ \A u : Has(doc, u) => Has(Append(doc, e), u)
         /\ \A i \in 1..Len(Append(doc, e)) : Append(doc, e)[i] = e \/ \E j \in 1..Len(doc) : Append(doc, e)[i] = doc[j]
  <1> DEFINE d == Append(doc, e)
  <1>1. /\ d \in Seq(Entries) /\ Len(d) = Len(doc) + 1 /\ d[Len(doc) + 1] = e
        /\ \A i \in 1..Len(doc) : d[i] = doc[i]
        /\ Len(doc) \in Nat
    OBVIOUS
  <1> HIDE DEF d
  <1>2. d \in Seq(Entries) /\ Has(d, e.id) /\ (\A u : Has(doc, u) => Has(d, u))
        /\ \A i \in 1..Len(d) : d[i] = e \/ \E j \in 1..Len(doc) : d[i] = doc[j]
    BY <1>1 DEF Has
  <1> QED BY <1>2 DEF d

\* Counting a failure leaves every task where it is.
Counted(doc, t) ==
  [i \in 1..Len(doc) |-> IF doc[i].id = t THEN [doc[i] EXCEPT !.retry = @ + 1] ELSE doc[i]]

LEMMA CountedTask ==
  ASSUME NEW doc \in Seq(Entries), NEW t,
         \A i \in 1..Len(doc) : doc[i].id = t => doc[i].retry + 1 < MaxRetries
  PROVE  /\ Counted(doc, t) \in Seq(Entries) /\ Len(Counted(doc, t)) = Len(doc)
         /\ \A i \in 1..Len(doc) : Counted(doc, t)[i].id = doc[i].id
         /\ \A u : Has(doc, u) => Has(Counted(doc, t), u)
  <1> DEFINE f(i) == IF doc[i].id = t THEN [doc[i] EXCEPT !.retry = @ + 1] ELSE doc[i]
             d == [i \in 1..Len(doc) |-> f(i)]
  <1>1. ASSUME NEW i \in 1..Len(doc) PROVE f(i) \in Entries /\ f(i).id = doc[i].id
    <2>1. doc[i] \in Entries /\ doc[i].retry \in Nat
      <3>1. doc[i] \in Entries
        OBVIOUS
      <3>2. doc[i].retry \in 0..(MaxRetries - 1)
        BY <3>1 DEF Entries
      <3> QED BY <3>1, <3>2, Bounds
    <2>2. CASE doc[i].id = t
      <3>1. doc[i].retry + 1 \in 0..(MaxRetries - 1)
        BY <2>1, <2>2, Bounds
      <3>2. \A r \in Entries, c \in 0..(MaxRetries - 1) : [r EXCEPT !.retry = c] \in Entries /\ [r EXCEPT !.retry = c].id = r.id
        BY DEF Entries
      <3> QED BY <2>1, <2>2, <3>1, <3>2
    <2>3. CASE doc[i].id # t
      BY <2>1, <2>3
    <2> QED BY <2>2, <2>3
  <1> HIDE DEF f
  <1>2. Len(doc) \in Nat
    OBVIOUS
  <1>3. d \in Seq(Entries) /\ Len(d) = Len(doc)
    BY <1>1, <1>2
  <1>4. \A i \in 1..Len(doc) : d[i].id = doc[i].id
    BY <1>1
  <1> HIDE DEF d
  <1>5. d \in Seq(Entries) /\ Len(d) = Len(doc) /\ (\A i \in 1..Len(doc) : d[i].id = doc[i].id)
        /\ \A u : Has(doc, u) => Has(d, u)
    BY <1>3, <1>4 DEF Has
  <1> QED BY <1>5 DEF d, f, Counted

\* The List of agents.
LEMMA ListTypes ==
  ASSUME NEW l \in Seq(Agents)
  PROVE  /\ \A a \in Agents : <<a>> \o l \in Seq(Agents)
         /\ \A X : Keeping(l, X) \in Seq(Agents)
         /\ l # <<>> => Last(l) \in Agents /\ Front(l) \in Seq(Agents)
  <1>1. \A X : Keeping(l, X) \in Seq(Agents)
    BY KeepingElements
  <1>2. \A a \in Agents : <<a>> \o l \in Seq(Agents)
    OBVIOUS
  <1>3. ASSUME l # <<>> PROVE Last(l) \in Agents /\ Front(l) \in Seq(Agents)
    <2>1. Len(l) \in Nat /\ Len(l) # 0
      BY <1>3, EmptySeq
    <2>2. Len(l) \in 1..Len(l) /\ Len(l) - 1 \in 0..Len(l)
      BY <2>1
    <2> QED BY <2>1, <2>2 DEF Last, Front
  <1> QED BY <1>1, <1>2, <1>3

-----------------------------------------------------------------------------
(* What the handlers and the loops rely on.                                *)

USE DEF queue, locks, history

\* Every entry names an archive of the agent's sessions that was written.
Backed(doc, a) == \A i \in 1..Len(doc) : content[doc[i].id] # {} /\ AgentOf[doc[i].id[1]] = a

\* A message is in the archive of a registered task.
Archived(s, m) == \E t \in registered : t[1] = s /\ m \in content[t]

\* Phases of a loop that has taken the extraction lock, and those of its sections.
Claimed == {"head", "extract", "delete", "count", "rewrite", "srem", "lrem", "bury"}
Sections == {"rewrite", "srem", "lrem", "requeue", "relist"}
\* Phases after the rewrite that took a dead task out of the file.
TakenOut == {"srem", "lrem", "requeue", "relist", "bury"}

\* The task the loop has in hand is one whose archive exists, of the agent it
\* works for; it is extracted or dead before it is deleted; what it is about to
\* write is the file without that task only, as it holds the mutex since it read
\* the file; and it holds the extraction lock unless that has expired.
WorkSound(n) ==
  LET w == work[n] IN
  /\ w.phase = "idle" => w = NoWork
  /\ w.phase # "idle" => w.agent \in Agents
  /\ w.phase = "peeked" => w.held = {}
  /\ w.phase \in Claimed => "lease" \in w.held
  /\ w.dead => "lease" \in w.held /\ w.phase \in {"rewrite", "release"} \cup TakenOut
  /\ "mutex" \in w.held => w.phase \in Sections /\ mutex[w.agent] = n
  /\ w.phase = "rewrite" => "mutex" \in w.held
  /\ w.phase = "bury" => w.dead
  /\ w.phase \in {"extract", "delete", "count", "rewrite"} \/ w.dead =>
       w.id \in Tasks /\ AgentOf[w.id[1]] = w.agent /\ content[w.id] # {}
  /\ w.phase = "delete" => w.id \in extracted
  /\ w.phase = "rewrite" =>
       /\ Backed(w.doc, w.agent)
       /\ \A t \in Tasks : Has(file[w.agent], t) => Has(w.doc, t) \/ (t = w.id /\ (w.dead \/ t \in extracted))
  /\ ~overrun /\ "lease" \in w.held => lease[w.agent] = n

\* A handler that is to answer for one message more has all of the session's
\* messages in hand or archived; inside the mutex it writes the file it read with
\* its own task added.
HandSound(s) ==
  LET h == hand[s]
      a == AgentOf[s]
  IN
  /\ Inside(s) => mutex[a] = s
  /\ h.phase # "idle" =>
       accepted[s] < MaxMessages /\ \A m \in 1..(accepted[s] + 1) : m \in h.msgs \/ Archived(s, m)
  /\ h.phase = "back" => h.todo # {} /\ ("current" \notin h.todo => buffer[s].current = h.msgs)
  /\ h.phase = "archive" => \E t \in Tasks : t[1] = s /\ content[t] = {}
  /\ h.phase \in {"archive", "enter", "register", "sadd", "lpush"} => h.msgs # {}
  /\ h.phase \in {"enter", "register", "sadd", "lpush"} =>
       h.id \in Tasks /\ h.id[1] = s /\ content[h.id] = h.msgs
  /\ h.phase = "register" =>
       /\ Backed(h.doc, a) /\ Has(h.doc, h.id)
       /\ \A t \in Tasks : Has(file[a], t) => Has(h.doc, t)
  /\ h.phase \in {"sadd", "lpush"} => Has(file[a], h.id)

\* A registered task is in the file of its agent, at its end, or in the hand of a
\* loop that has taken it out to bury it.
TaskSafe(t) ==
  \/ Has(file[AgentOf[t[1]]], t)
  \/ t \in extracted \cup dropped \cup dlq[AgentOf[t[1]]]
  \/ \E n \in Nodes : work[n].dead /\ work[n].id = t /\ work[n].phase \in TakenOut

SkillInv ==
  /\ TypeOK
  /\ \A a \in Agents : Backed(file[a], a)
  /\ \A n \in Nodes : WorkSound(n)
  /\ \A s \in Sessions : HandSound(s)
  /\ \A s \in Sessions : \A m \in 1..accepted[s] : m \in buffer[s].current \/ Archived(s, m)
  /\ \A t \in registered : TaskSafe(t)

-----------------------------------------------------------------------------
(* Types.                                                                  *)

LEMMA IdleTypes ==
  /\ NoHandler \in Handlers /\ NoWork \in Loops /\ Down \in Pools /\ Running \in Pools
  /\ <<>> \in Seq(Entries)
  <1>1. <<>> \in Seq(Entries)
    OBVIOUS
  <1>2. NoHandler \in Handlers
    BY <1>1 DEF NoHandler, Handlers
  <1>3. NoWork \in Loops
    BY <1>1 DEF NoWork, Loops
  <1>4. Down \in Pools /\ Running \in Pools
    BY DEF Down, Running, Pools
  <1> QED BY <1>1, <1>2, <1>3, <1>4

LEMMA SkillTypeInit == Init => TypeOK
  <1> SUFFICES ASSUME Init PROVE TypeOK
    OBVIOUS
  <1>1. hand \in [Sessions -> Handlers] /\ work \in [Nodes -> Loops] /\ node \in [Nodes -> Pools]
    BY IdleTypes DEF Init
  <1>2. file \in [Agents -> Seq(Entries)] /\ list \in Seq(Agents)
    BY IdleTypes DEF Init
  <1>3. buffer \in [Sessions -> [current : SUBSET Messages, count : Nat]]
        /\ accepted \in [Sessions -> 0..MaxMessages] /\ faults \in 0..MaxFaults
    BY Bounds DEF Init
  <1> QED BY <1>1, <1>2, <1>3 DEF Init, TypeOK

LEMMA FaultType == ASSUME faults \in 0..MaxFaults, Fault PROVE faults' \in 0..MaxFaults
  BY Bounds DEF Fault

\* A session's next archive is one whose file was not written.
LEMMA FreshTask ==
  ASSUME TypeOK, NEW s \in Sessions, \E t \in Tasks : t[1] = s /\ content[t] = {}
  PROVE  Fresh(s) \in Tasks /\ Fresh(s)[1] = s /\ content[Fresh(s)] = {}
  <1> DEFINE I == {i \in Nat : i \in 1..MaxArchives /\ content[<<s, i>>] = {}}
  <1>1. I \in SUBSET Nat /\ I # {}
    <2>1. PICK t \in Tasks : t[1] = s /\ content[t] = {}
      OBVIOUS
    <2>2. t = <<s, t[2]>> /\ t[2] \in 1..MaxArchives /\ t[2] \in Nat
      BY <2>1, Bounds DEF Tasks
    <2> QED BY <2>1, <2>2
  <1>2. PICK x \in I : \A y \in I : x =< y
    <2> HIDE DEF I
    <2> QED BY <1>1, LeastNumber
  <1>3. x \in Nat /\ <<s, x>> \in Tasks /\ content[<<s, x>>] = {}
    BY <1>2 DEF Tasks
  <1>4. ASSUME NEW u \in Tasks, u[1] = s, u[2] < x PROVE content[u] # {}
    <2>1. u = <<s, u[2]>> /\ u[2] \in 1..MaxArchives /\ u[2] \in Nat
      BY <1>4, Bounds DEF Tasks
    <2> QED BY <1>2, <1>3, <1>4, <2>1
  <1> DEFINE P(t) == t[1] = s /\ content[t] = {} /\ \A u \in Tasks : u[1] = s /\ u[2] < t[2] => content[u] # {}
  <1>5. \E t \in Tasks : P(t)
    <2>1. P(<<s, x>>)
      BY <1>3, <1>4
    <2> HIDE DEF P
    <2> QED BY <1>3, <2>1
  <1>6. Fresh(s) \in Tasks /\ P(Fresh(s))
    <2>1. Fresh(s) = CHOOSE t \in Tasks : P(t)
      BY DEF Fresh
    <2> HIDE DEF P
    <2> QED BY <1>5, <2>1
  <1> QED BY <1>6

\* Setting fields of a handler, a loop or a pool keeps it one.
LEMMA Setting ==
  /\ \A h \in Handlers, ph \in {"enter", "register", "sadd", "lpush"} : [h EXCEPT !.phase = ph] \in Handlers
  /\ \A h \in Handlers, t \in Tasks : [h EXCEPT !.phase = "enter", !.id = t] \in Handlers
  /\ \A h \in Handlers, d \in Seq(Entries) : [h EXCEPT !.phase = "register", !.doc = d] \in Handlers
  /\ \A w \in Loops, ph \in {"requeue", "extract", "delete", "count", "release", "srem", "lrem", "relist"} :
       [w EXCEPT !.phase = ph] \in Loops
  /\ \A w \in Loops, a \in Agents : [w EXCEPT !.phase = "peeked", !.agent = a] \in Loops
  /\ \A w \in Loops : /\ [w EXCEPT !.phase = "head", !.held = {"lease"}] \in Loops
                      /\ [w EXCEPT !.phase = "srem", !.held = @ \cup {"mutex"}] \in Loops
  /\ \A w \in Loops, t \in Tasks : [w EXCEPT !.phase = "extract", !.id = t] \in Loops
  /\ \A w \in Loops, d \in Seq(Entries) :
       [w EXCEPT !.phase = "rewrite", !.doc = d, !.held = @ \cup {"mutex"}] \in Loops
  /\ \A w \in Loops, d \in Seq(Entries), b \in BOOLEAN :
       [w EXCEPT !.phase = "rewrite", !.dead = b, !.held = @ \cup {"mutex"}, !.doc = d] \in Loops
  /\ \A w \in Loops, ph \in {"bury", "release"} : [w EXCEPT !.phase = ph, !.held = @ \ {"mutex"}] \in Loops
  BY DEF Handlers, Loops

LEMMA AddsType == ASSUME TypeOK, NEW s \in Sessions, Adds(s) PROVE TypeOK'
  <1> DEFINE msgs == buffer[s].current \cup {accepted[s] + 1}
             count == buffer[s].count + 1
  <1>1. msgs \in SUBSET Messages /\ count \in Nat
    BY Bounds DEF TypeOK, Adds, Messages
  <1>2. PICK n \in Fronts : \E large \in BOOLEAN :
          hand' = [hand EXCEPT ![s] =
                     IF large \/ count >= Threshold
                     THEN [NoHandler EXCEPT !.phase = "archive", !.node = n, !.msgs = msgs]
                     ELSE [NoHandler EXCEPT !.phase = "back", !.node = n, !.msgs = msgs, !.count = count,
                                            !.todo = {"current", "meta"}]]
    BY DEF Adds
  <1> HIDE DEF msgs, count
  <1>3. n \in Nodes
    BY SkillAssumption
  <1>4. /\ [NoHandler EXCEPT !.phase = "archive", !.node = n, !.msgs = msgs] \in Handlers
        /\ [NoHandler EXCEPT !.phase = "back", !.node = n, !.msgs = msgs, !.count = count,
                             !.todo = {"current", "meta"}] \in Handlers
    BY <1>1, <1>3, IdleTypes DEF Handlers
  <1>5. hand' \in [Sessions -> Handlers]
    BY <1>2, <1>4 DEF TypeOK
  <1> QED BY <1>5 DEF TypeOK, Adds

LEMMA WritesBackType == ASSUME TypeOK, NEW s \in Sessions, accepted[s] < MaxMessages, WritesBack(s) PROVE TypeOK'
  <1>1. PICK part \in hand[s].todo :
       /\ buffer' = [buffer EXCEPT ![s] = IF part = "current" THEN [@ EXCEPT !.current = hand[s].msgs]
                                          ELSE [@ EXCEPT !.count = hand[s].count]]
       /\ IF hand[s].todo = {part}
          THEN hand' = [hand EXCEPT ![s] = NoHandler] /\ accepted' = [accepted EXCEPT ![s] = @ + 1]
          ELSE hand' = [hand EXCEPT ![s].todo = @ \ {part}] /\ UNCHANGED accepted
    BY DEF WritesBack
  <1>2. buffer' \in [Sessions -> [current : SUBSET Messages, count : Nat]]
    <2>1. hand[s].msgs \in SUBSET Messages /\ hand[s].count \in Nat /\ buffer[s] \in [current : SUBSET Messages, count : Nat]
      BY DEF TypeOK, Handlers
    <2>2. \A b \in [current : SUBSET Messages, count : Nat], c \in SUBSET Messages, i \in Nat :
            /\ [b EXCEPT !.current = c] \in [current : SUBSET Messages, count : Nat]
            /\ [b EXCEPT !.count = i] \in [current : SUBSET Messages, count : Nat]
      OBVIOUS
    <2>3. (IF part = "current" THEN [buffer[s] EXCEPT !.current = hand[s].msgs]
           ELSE [buffer[s] EXCEPT !.count = hand[s].count]) \in [current : SUBSET Messages, count : Nat]
      BY <2>1, <2>2
    <2> QED BY <1>1, <2>3 DEF TypeOK
  <1>3. hand' \in [Sessions -> Handlers]
    <2>1. [hand[s] EXCEPT !.todo = hand[s].todo \ {part}] \in Handlers /\ NoHandler \in Handlers
      <3>1. hand[s] \in Handlers
        BY DEF TypeOK
      <3>2. \A h \in Handlers : \A x : [h EXCEPT !.todo = h.todo \ x] \in Handlers
        BY DEF Handlers
      <3> QED BY <3>1, <3>2, IdleTypes
    <2>2. CASE hand[s].todo = {part}
      BY <1>1, <2>1, <2>2 DEF TypeOK
    <2>3. CASE hand[s].todo # {part}
      <3>1. hand' = [hand EXCEPT ![s] = [hand[s] EXCEPT !.todo = hand[s].todo \ {part}]]
        BY <1>1, <2>3
      <3> QED BY <2>1, <3>1 DEF TypeOK
    <2> QED BY <2>2, <2>3
  <1>4. accepted' \in [Sessions -> 0..MaxMessages]
    <2>1. accepted[s] + 1 \in 0..MaxMessages
      BY Bounds DEF TypeOK
    <2> QED BY <1>1, <2>1 DEF TypeOK
  <1> QED BY <1>2, <1>3, <1>4 DEF TypeOK, WritesBack

LEMMA ArchivesType ==
  ASSUME TypeOK, NEW s \in Sessions, \E t \in Tasks : t[1] = s /\ content[t] = {}, Archives(s)
  PROVE  TypeOK'
  <1>1. hand' = [hand EXCEPT ![s] = [@ EXCEPT !.phase = "enter", !.id = Fresh(s)]]
    BY DEF Archives, TypeOK
  <1>2. hand[s] \in Handlers /\ Fresh(s) \in Tasks /\ hand[s].msgs \in SUBSET Messages
    BY FreshTask DEF TypeOK, Handlers
  <1>3. [hand[s] EXCEPT !.phase = "enter", !.id = Fresh(s)] \in Handlers
    BY <1>2, Setting
  <1>4. hand' \in [Sessions -> Handlers] /\ content' \in [Tasks -> SUBSET Messages]
    BY <1>1, <1>2, <1>3 DEF TypeOK, Archives
  <1> QED BY <1>4 DEF TypeOK, Archives

LEMMA EntersType == ASSUME TypeOK, NEW s \in Sessions, hand[s].id \in Tasks, Enters(s) PROVE TypeOK'
  <1> DEFINE d == Append(file[AgentOf[s]], [id |-> hand[s].id, retry |-> 0])
  <1>1. hand' = [hand EXCEPT ![s] = [@ EXCEPT !.phase = "register", !.doc = d]]
    BY DEF Enters, TypeOK
  <1>2. [id |-> hand[s].id, retry |-> 0] \in Entries
    BY Bounds DEF Entries
  <1>3. d \in Seq(Entries)
    BY <1>2, Bounds, AppendedTask DEF TypeOK
  <1> HIDE DEF d
  <1>4. [hand[s] EXCEPT !.phase = "register", !.doc = d] \in Handlers
    BY <1>3, Setting DEF TypeOK
  <1>5. hand' \in [Sessions -> Handlers]
    BY <1>1, <1>4 DEF TypeOK
  <1>6. mutex' \in [Agents -> Nodes \cup Sessions \cup {None}]
    BY Bounds DEF TypeOK, Enters
  <1> QED BY <1>5, <1>6 DEF TypeOK, Enters

LEMMA RegistersType == ASSUME TypeOK, NEW s \in Sessions, Registers(s) PROVE TypeOK'
  <1>1. hand[s] \in Handlers /\ hand[s].doc \in Seq(Entries)
    BY DEF TypeOK, Handlers
  <1>2. file' \in [Agents -> Seq(Entries)]
    BY <1>1 DEF TypeOK, Registers
  <1>3. hand' \in [Sessions -> Handlers]
    <2>1. [hand[s] EXCEPT !.phase = "sadd"] \in Handlers
      BY <1>1, Setting
    <2> QED BY <2>1 DEF TypeOK, Registers, Moves
  <1> QED BY <1>2, <1>3 DEF TypeOK, Registers

\* The handler without a message in hand, which writes back an empty buffer.
LEMMA EmptyHanded ==
  ASSUME TypeOK, NEW s \in Sessions
  PROVE  [NoHandler EXCEPT !.phase = "back", !.node = hand[s].node, !.todo = {"current", "meta"}] \in Handlers
  <1>1. hand[s].node \in Nodes \cup {None}
    BY DEF TypeOK, Handlers
  <1> QED BY <1>1, IdleTypes DEF Handlers

LEMMA ReturnsType ==
  ASSUME TypeOK, NEW s \in Sessions, hand[s].id \in Tasks, Returns(s)
  PROVE  /\ mutex' \in [Agents -> Nodes \cup Sessions \cup {None}] /\ registered' \subseteq Tasks
         /\ hand' \in [Sessions -> Handlers]
  <1>1. hand' \in [Sessions -> Handlers]
    BY EmptyHanded DEF TypeOK, Returns
  <1>2. mutex' \in [Agents -> Nodes \cup Sessions \cup {None}]
    BY Bounds DEF TypeOK, Returns
  <1> QED BY <1>1, <1>2 DEF TypeOK, Returns

LEMMA EnqueuesType ==
  ASSUME TypeOK, NEW s \in Sessions, hand[s].id \in Tasks, SaddsAgent(s) \/ LpushesAgent(s)
  PROVE  TypeOK'
  <1>1. CASE SaddsAgent(s) /\ Returns(s)
    <2>1. pending' \subseteq Agents
      BY <1>1, Bounds DEF TypeOK, SaddsAgent
    <2> QED BY <1>1, <2>1, ReturnsType DEF TypeOK, SaddsAgent, Returns
  <1>2. CASE SaddsAgent(s) /\ Moves(s, "lpush") /\ UNCHANGED <<mutex, history>>
    <2>1. pending' \subseteq Agents
      BY <1>2, Bounds DEF TypeOK, SaddsAgent
    <2>2. hand' \in [Sessions -> Handlers]
      <3>1. [hand[s] EXCEPT !.phase = "lpush"] \in Handlers
        BY Setting DEF TypeOK
      <3> QED BY <1>2, <3>1 DEF TypeOK, Moves
    <2> QED BY <1>2, <2>1, <2>2 DEF TypeOK, SaddsAgent
  <1>3. CASE LpushesAgent(s)
    <2>1. list' \in Seq(Agents)
      BY <1>3, Bounds, ListTypes DEF TypeOK, LpushesAgent
    <2> QED BY <1>3, <2>1, ReturnsType DEF TypeOK, LpushesAgent, Returns
  <1> QED BY <1>1, <1>2, <1>3 DEF SaddsAgent

LEMMA HandlerFailsType == ASSUME TypeOK, NEW s \in Sessions, HandlerFails(s) PROVE TypeOK'
  <1>1. hand' \in [Sessions -> Handlers] /\ mutex' \in [Agents -> Nodes \cup Sessions \cup {None}]
    BY IdleTypes, Bounds DEF TypeOK, HandlerFails
  <1>2. faults' \in 0..MaxFaults
    BY FaultType DEF TypeOK, HandlerFails
  <1> QED BY <1>1, <1>2 DEF TypeOK, HandlerFails

LEMMA GivesMutexType ==
  ASSUME TypeOK, NEW n \in Nodes, GivesMutex(n)
  PROVE  mutex' \in [Agents -> Nodes \cup Sessions \cup {None}] /\ work' \in [Nodes -> Loops]
  <1>1. mutex' \in [Agents -> Nodes \cup Sessions \cup {None}]
    BY DEF TypeOK, GivesMutex, Freed
  <1>2. PICK ph \in {"bury", "release"} : ph = IF work[n].dead THEN "bury" ELSE "release"
    OBVIOUS
  <1>3. work[n] \in Loops
    BY DEF TypeOK
  <1>4. [work[n] EXCEPT !.phase = ph, !.held = work[n].held \ {"mutex"}] \in Loops
    BY <1>3, Setting
  <1>5. work' = [work EXCEPT ![n] = [work[n] EXCEPT !.phase = ph, !.held = work[n].held \ {"mutex"}]]
    BY <1>2 DEF TypeOK, GivesMutex, Loops
  <1>6. work' \in [Nodes -> Loops]
    BY <1>4, <1>5 DEF TypeOK
  <1> QED BY <1>1, <1>6

LEMMA GoesType ==
  ASSUME TypeOK, NEW n \in Nodes,
         NEW ph \in {"requeue", "extract", "delete", "count", "release", "srem", "lrem", "relist"}, Goes(n, ph)
  PROVE  work' \in [Nodes -> Loops]
  <1>1. [work[n] EXCEPT !.phase = ph] \in Loops
    BY Setting DEF TypeOK
  <1> QED BY <1>1 DEF TypeOK, Goes

LEMMA PeeksType == ASSUME TypeOK, NEW n \in Nodes, Peeks(n) PROVE TypeOK'
  <1>1. Last(list) \in Agents /\ Front(list) \in Seq(Agents)
    BY ListTypes DEF TypeOK, Peeks
  <1>2. list' \in Seq(Agents)
    <2>1. <<Last(list)>> \o Front(list) \in Seq(Agents)
      BY <1>1, ListTypes
    <2>2. <<>> \o Front(list) = Front(list)
      BY <1>1, ConcatEmptySeq
    <2> QED BY <1>1, <2>1, <2>2 DEF Peeks
  <1>3. work' \in [Nodes -> Loops]
    <2>1. [work[n] EXCEPT !.phase = "peeked", !.agent = Last(list)] \in Loops
      BY <1>1, Setting DEF TypeOK
    <2>2. work' = [work EXCEPT ![n] = [@ EXCEPT !.phase = "peeked", !.agent = Last(list)]]
      BY DEF TypeOK, Peeks
    <2> QED BY <2>1, <2>2 DEF TypeOK
  <1>4. node' \in [Nodes -> Pools]
    BY DEF TypeOK, Peeks, Pools
  <1> QED BY <1>2, <1>3, <1>4 DEF TypeOK, Peeks

LEMMA AcquiresType == ASSUME TypeOK, NEW n \in Nodes, AcquiresExtractLock(n) PROVE TypeOK'
  <1>1. lease' \in [Agents -> Nodes \cup {None}]
    BY DEF TypeOK, AcquiresExtractLock
  <1>2. work' \in [Nodes -> Loops]
    <2>1. CASE work' = [work EXCEPT ![n] = NoWork]
      BY <2>1, IdleTypes DEF TypeOK
    <2>2. CASE Goes(n, "requeue")
      BY <2>2, GoesType
    <2>3. CASE work' = [work EXCEPT ![n].phase = "head", ![n].held = {"lease"}]
      <3>1. [work[n] EXCEPT !.phase = "head", !.held = {"lease"}] \in Loops
        BY Setting DEF TypeOK
      <3>2. work' = [work EXCEPT ![n] = [@ EXCEPT !.phase = "head", !.held = {"lease"}]]
        BY <2>3 DEF TypeOK
      <3> QED BY <3>1, <3>2 DEF TypeOK
    <2> QED BY <2>1, <2>2, <2>3 DEF AcquiresExtractLock
  <1> QED BY <1>1, <1>2 DEF TypeOK, AcquiresExtractLock

LEMMA ReadsHeadType == ASSUME TypeOK, NEW n \in Nodes, work[n].agent \in Agents, ReadsHead(n) PROVE TypeOK'
  <1> DEFINE a == work[n].agent
  <1>1. CASE file[a] = <<>>
    <2>1. [work[n] EXCEPT !.phase = "srem", !.held = work[n].held \cup {"mutex"}] \in Loops
      BY Setting DEF TypeOK
    <2>2. work' = [work EXCEPT ![n] = [work[n] EXCEPT !.phase = "srem", !.held = work[n].held \cup {"mutex"}]]
      BY <1>1 DEF TypeOK, ReadsHead, Loops
    <2>3. work' \in [Nodes -> Loops] /\ mutex' \in [Agents -> Nodes \cup Sessions \cup {None}]
      BY <1>1, <2>1, <2>2 DEF TypeOK, ReadsHead, TakesMutex
    <2> QED BY <2>3 DEF TypeOK, ReadsHead
  <1>2. CASE file[a] # <<>>
    <2>1. file[a] \in Seq(Entries) /\ Head(file[a]).id \in Tasks
      <3>1. file[a] \in Seq(Entries)
        BY DEF TypeOK
      <3>2. Head(file[a]) \in Entries
        BY <1>2, <3>1, HeadTailProperties
      <3> QED BY <3>1, <3>2 DEF Entries
    <2>2. [work[n] EXCEPT !.phase = "extract", !.id = Head(file[a]).id] \in Loops
      BY <2>1, Setting DEF TypeOK
    <2>3. work' = [work EXCEPT ![n] = [@ EXCEPT !.phase = "extract", !.id = Head(file[a]).id]] /\ UNCHANGED mutex
      BY <1>2 DEF TypeOK, ReadsHead
    <2>4. work' \in [Nodes -> Loops]
      BY <2>2, <2>3 DEF TypeOK
    <2> QED BY <2>3, <2>4 DEF TypeOK, ReadsHead
  <1> QED BY <1>1, <1>2

LEMMA ExtractsType == ASSUME TypeOK, NEW n \in Nodes, work[n].id \in Tasks, Extracts(n) PROVE TypeOK'
  <1>1. work' \in [Nodes -> Loops]
    <2>1. PICK ph \in {"delete", "release", "requeue", "count"} : Goes(n, ph)
      BY DEF Extracts
    <2> QED BY <2>1, GoesType
  <1>2. faults' \in 0..MaxFaults
    BY FaultType DEF TypeOK, Extracts
  <1>3. extracted' \subseteq Tasks
    BY DEF TypeOK, Extracts
  <1> QED BY <1>1, <1>2, <1>3 DEF TypeOK, Extracts

LEMMA DeletesType == ASSUME TypeOK, NEW n \in Nodes, work[n].agent \in Agents, Deletes(n) PROVE TypeOK'
  <1> DEFINE d == Without(file[work[n].agent], work[n].id)
  <1>1. d \in Seq(Entries)
    BY WithoutTask DEF TypeOK
  <1>2. work' = [work EXCEPT ![n] = [work[n] EXCEPT !.phase = "rewrite", !.doc = d, !.held = work[n].held \cup {"mutex"}]]
    BY DEF TypeOK, Deletes, Loops
  <1> HIDE DEF d
  <1>3. [work[n] EXCEPT !.phase = "rewrite", !.doc = d, !.held = work[n].held \cup {"mutex"}] \in Loops
    BY <1>1, Setting DEF TypeOK
  <1>4. work' \in [Nodes -> Loops] /\ mutex' \in [Agents -> Nodes \cup Sessions \cup {None}]
    BY <1>2, <1>3 DEF TypeOK, Deletes, TakesMutex
  <1> QED BY <1>4 DEF TypeOK, Deletes

\* What a permanent failure makes of the file, and whether it was the last one.
LastFailure(n) == \E i \in 1..Len(file[work[n].agent]) :
  file[work[n].agent][i].id = work[n].id /\ file[work[n].agent][i].retry + 1 >= MaxRetries
CountedDoc(n) ==
  LET doc == file[work[n].agent] IN
  IF LastFailure(n) THEN Without(doc, work[n].id)
  ELSE Counted(doc, work[n].id)

LEMMA CountedDocFacts ==
  ASSUME TypeOK, NEW n \in Nodes, work[n].agent \in Agents
  PROVE  /\ CountedDoc(n) \in Seq(Entries) /\ LastFailure(n) \in BOOLEAN
         /\ \A i \in 1..Len(CountedDoc(n)) : \E j \in 1..Len(file[work[n].agent]) :
              CountedDoc(n)[i].id = file[work[n].agent][j].id
         /\ \A u : Has(file[work[n].agent], u) => Has(CountedDoc(n), u) \/ (u = work[n].id /\ LastFailure(n))
  <1>1. PICK doc \in Seq(Entries) : doc = file[work[n].agent]
    BY DEF TypeOK
  <1>2. PICK t : t = work[n].id
    OBVIOUS
  <1>3. CASE LastFailure(n)
    <2>1. CountedDoc(n) = Without(doc, t)
      BY <1>1, <1>2, <1>3 DEF CountedDoc
    <2> QED BY <1>1, <1>2, <1>3, <2>1, WithoutTask DEF LastFailure
  <1>4. CASE ~LastFailure(n)
    <2>1. CountedDoc(n) = Counted(doc, t)
      BY <1>1, <1>2, <1>4 DEF CountedDoc
    <2>2. \A i \in 1..Len(doc) : doc[i].id = t => doc[i].retry + 1 < MaxRetries
      <3>1. ASSUME NEW i \in 1..Len(doc), doc[i].id = t PROVE doc[i].retry + 1 < MaxRetries
        <4>1. doc[i] \in Entries
          OBVIOUS
        <4>2. doc[i].retry \in 0..(MaxRetries - 1)
          BY <4>1 DEF Entries
        <4>3. ~(doc[i].retry + 1 >= MaxRetries)
          BY <1>1, <1>2, <1>4, <3>1 DEF LastFailure
        <4> QED BY <4>2, <4>3, Bounds
      <3> QED BY <3>1
    <2>3. /\ Counted(doc, t) \in Seq(Entries) /\ Len(Counted(doc, t)) = Len(doc)
          /\ \A i \in 1..Len(doc) : Counted(doc, t)[i].id = doc[i].id
          /\ \A u : Has(doc, u) => Has(Counted(doc, t), u)
      BY <2>2, CountedTask
    <2> QED BY <1>1, <1>4, <2>1, <2>3 DEF LastFailure
  <1> QED BY <1>3, <1>4

LEMMA CountsType == ASSUME TypeOK, NEW n \in Nodes, work[n].agent \in Agents, Counts(n) PROVE TypeOK'
  <1>1. CountedDoc(n) \in Seq(Entries) /\ LastFailure(n) \in BOOLEAN
    BY CountedDocFacts
  <1>2. work' = [work EXCEPT ![n] = [work[n] EXCEPT !.phase = "rewrite", !.dead = LastFailure(n),
                                              !.held = work[n].held \cup {"mutex"}, !.doc = CountedDoc(n)]]
    BY DEF TypeOK, Counts, CountedDoc, LastFailure, Counted, Loops
  <1>3. [work[n] EXCEPT !.phase = "rewrite", !.dead = LastFailure(n), !.held = work[n].held \cup {"mutex"}, !.doc = CountedDoc(n)] \in Loops
    BY <1>1, Setting DEF TypeOK
  <1>4. work' \in [Nodes -> Loops]
    BY <1>2, <1>3 DEF TypeOK
  <1>5. mutex' = [mutex EXCEPT ![work[n].agent] = n]
    BY DEF Counts, TakesMutex
  <1>6. mutex' \in [Agents -> Nodes \cup Sessions \cup {None}]
    BY <1>5 DEF TypeOK
  <1> QED BY <1>4, <1>6 DEF TypeOK, Counts

LEMMA RewritesType == ASSUME TypeOK, NEW n \in Nodes, Rewrites(n) PROVE TypeOK'
  <1>1. file' \in [Agents -> Seq(Entries)]
    <2>1. work[n].doc \in Seq(Entries)
      BY DEF TypeOK, Loops
    <2> QED BY <2>1 DEF TypeOK, Rewrites
  <1>2. mutex' \in [Agents -> Nodes \cup Sessions \cup {None}] /\ work' \in [Nodes -> Loops]
    <2>1. CASE GivesMutex(n)
      BY <2>1, GivesMutexType
    <2>2. CASE UNCHANGED mutex /\ \E ph \in {"srem", "requeue"} : Goes(n, ph)
      BY <2>2, GoesType DEF TypeOK
    <2> QED BY <2>1, <2>2 DEF Rewrites
  <1> QED BY <1>1, <1>2 DEF TypeOK, Rewrites

LEMMA QueueingType ==
  ASSUME TypeOK, NEW n \in Nodes, work[n].agent \in Agents, Srems(n) \/ Lrems(n) \/ Requeues(n) \/ Relists(n)
  PROVE  TypeOK'
  <1>1. CASE Srems(n)
    <2>1. work' \in [Nodes -> Loops]
      BY <1>1, GoesType DEF Srems
    <2> QED BY <1>1, <2>1 DEF TypeOK, Srems
  <1>2. CASE Lrems(n)
    <2>1. list' \in Seq(Agents)
      BY <1>2, ListTypes DEF TypeOK, Lrems
    <2> QED BY <1>2, <2>1, GivesMutexType DEF TypeOK, Lrems
  <1>3. CASE Requeues(n)
    <2>1. work' \in [Nodes -> Loops]
      BY <1>3, GoesType DEF Requeues
    <2> QED BY <1>3, <2>1 DEF TypeOK, Requeues
  <1>4. CASE Relists(n)
    <2>1. list' \in Seq(Agents)
      BY <1>4, ListTypes DEF TypeOK, Relists
    <2> QED BY <1>4, <2>1, GivesMutexType DEF TypeOK, Relists
  <1> QED BY <1>1, <1>2, <1>3, <1>4

LEMMA LetGoType == ASSUME TypeOK, NEW n \in Nodes, LetGo(n) PROVE lease' \in [Agents -> Nodes \cup {None}]
  BY DEF TypeOK, LetGo

LEMMA EndingType ==
  ASSUME TypeOK, NEW n \in Nodes, work[n].agent \in Agents, work[n].dead => work[n].id \in Tasks,
         \/ Buries(n) /\ work[n].id \in Tasks
         \/ ReleasesExtractLock(n)
         \/ ConsumeThrows(n)
  PROVE  TypeOK'
  <1>1. CASE Buries(n) /\ work[n].id \in Tasks
    <2>1. work' \in [Nodes -> Loops]
      BY <1>1, GoesType DEF Buries
    <2>5. dlq' = [dlq EXCEPT ![work[n].agent] = dlq[work[n].agent] \cup {work[n].id}] \/ dlq' = dlq
      BY <1>1 DEF Buries
    <2>2. dlq' \in [Agents -> SUBSET Tasks]
      <3>1. dlq \in [Agents -> SUBSET Tasks] /\ dlq[work[n].agent] \cup {work[n].id} \in SUBSET Tasks
        BY <1>1 DEF TypeOK
      <3> QED BY <2>5, <3>1
    <2>4. dropped' \subseteq Tasks
      BY <1>1 DEF TypeOK, Buries
    <2>3. faults' \in 0..MaxFaults
      BY <1>1, FaultType DEF TypeOK, Buries
    <2> QED BY <1>1, <2>1, <2>2, <2>3, <2>4 DEF TypeOK, Buries
  <1>2. CASE ReleasesExtractLock(n)
    <2>1. lease' \in [Agents -> Nodes \cup {None}] /\ faults' \in 0..MaxFaults
      BY <1>2, LetGoType, FaultType DEF TypeOK, ReleasesExtractLock
    <2>2. work' \in [Nodes -> Loops]
      BY <1>2, IdleTypes DEF TypeOK, ReleasesExtractLock
    <2> QED BY <1>2, <2>1, <2>2 DEF TypeOK, ReleasesExtractLock
  <1>3. CASE ConsumeThrows(n)
    <2>1. lease' \in [Agents -> Nodes \cup {None}] /\ faults' \in 0..MaxFaults
      BY <1>3, LetGoType, FaultType DEF TypeOK, ConsumeThrows
    <2>2. work' \in [Nodes -> Loops] /\ mutex' \in [Agents -> Nodes \cup Sessions \cup {None}]
      BY <1>3, IdleTypes DEF TypeOK, ConsumeThrows, Freed
    <2>3. dropped' \subseteq Tasks
      BY <1>3 DEF TypeOK, ConsumeThrows
    <2> QED BY <1>3, <2>1, <2>2, <2>3 DEF TypeOK, ConsumeThrows
  <1> QED BY <1>1, <1>2, <1>3

LEMMA HealsType == ASSUME TypeOK, NEW n \in Nodes, Heals(n) PROVE TypeOK'
  <1>1. CASE StartsPool(n)
    <2>1. [Down EXCEPT !.up = TRUE, !.due = TRUE, !.periodic = node[n].probed /\ mode = "downgrade"] \in Pools
      BY DEF Down, Pools
    <2> QED BY <1>1, <2>1 DEF TypeOK, StartsPool
  <1>2. CASE Scans(n)
    <2>1. node' \in [Nodes -> Pools]
      <3>1. node[n] \in Pools /\ pending \subseteq Agents
        BY DEF TypeOK
      <3>2. [node[n] EXCEPT !.due = FALSE, !.todo = pending] \in Pools /\ [node[n] EXCEPT !.due = FALSE] \in Pools
        BY <3>1 DEF Pools
      <3>3. \/ node' = [node EXCEPT ![n] = [@ EXCEPT !.due = FALSE, !.todo = pending]]
            \/ node' = [node EXCEPT ![n] = [@ EXCEPT !.due = FALSE]]
        BY <1>2 DEF Scans, TypeOK
      <3> QED BY <3>2, <3>3 DEF TypeOK
    <2>2. faults' \in 0..MaxFaults
      BY <1>2, FaultType DEF TypeOK, Scans
    <2> QED BY <1>2, <2>1, <2>2 DEF TypeOK, Scans, Touches
  <1>3. CASE Looks(n)
    <2>0. PICK a \in node[n].todo :
            node' = [node EXCEPT ![n].todo = @ \ {a},
                                 ![n].push = IF \E i \in 1..Len(list) : list[i] = a THEN {} ELSE {a}]
      BY <1>3 DEF Looks
    <2>1. PICK P \in SUBSET {a} : node' = [node EXCEPT ![n].todo = @ \ {a}, ![n].push = P]
      BY <2>0
    <2>2. node[n] \in Pools /\ a \in Agents
      BY DEF TypeOK, Pools
    <2>3. [node[n] EXCEPT !.todo = node[n].todo \ {a}, !.push = P] \in Pools
      BY <2>2 DEF Pools
    <2>4. node' = [node EXCEPT ![n] = [node[n] EXCEPT !.todo = node[n].todo \ {a}, !.push = P]]
      BY <2>1 DEF TypeOK, Pools
    <2>5. node' \in [Nodes -> Pools]
      BY <2>3, <2>4 DEF TypeOK
    <2> QED BY <1>3, <2>5 DEF TypeOK, Looks, Touches
  <1>4. CASE Repushes(n)
    <2>1. node[n] \in Pools /\ node[n].push \subseteq Agents
      BY DEF TypeOK, Pools
    <2>2. list' \in Seq(Agents)
      BY <1>4, <2>1, ListTypes DEF TypeOK, Repushes
    <2>3. node' \in [Nodes -> Pools]
      BY <1>4, <2>1 DEF TypeOK, Repushes, Pools
    <2> QED BY <1>4, <2>2, <2>3 DEF TypeOK, Repushes, Touches
  <1> QED BY <1>1, <1>2, <1>3, <1>4 DEF Heals

LEMMA DiesType == ASSUME TypeOK, NEW n \in Nodes, work[n].dead => work[n].id \in Tasks, Dies(n) PROVE TypeOK'
  <1>1. node' \in [Nodes -> Pools] /\ work' \in [Nodes -> Loops] /\ hand' \in [Sessions -> Handlers]
    BY IdleTypes DEF TypeOK, Dies
  <1>2. faults' \in 0..MaxFaults /\ dropped' \subseteq Tasks
    BY FaultType DEF TypeOK, Dies
  <1> QED BY <1>1, <1>2 DEF TypeOK, Dies

LEMMA ExpiryType == ASSUME TypeOK, NEW a \in Agents, MutexExpires(a) \/ LeaseExpires(a) PROVE TypeOK'
  <1>1. CASE MutexExpires(a)
    BY <1>1 DEF TypeOK, MutexExpires
  <1>2. CASE LeaseExpires(a)
    <2>1. faults' \in 0..MaxFaults /\ overrun' \in BOOLEAN
      BY <1>2, FaultType DEF TypeOK, LeaseExpires
    <2> QED BY <1>2, <2>1 DEF TypeOK, LeaseExpires
  <1> QED BY <1>1, <1>2

SessionActs(s) == Adds(s) \/ Handles(s) \/ HandlerFails(s)
LoopActs(n) == Works(n) \/ ConsumeThrows(n)
PoolActs(n) == Heals(n) \/ Dies(n)
LockActs(a) == MutexExpires(a) \/ LeaseExpires(a)

LEMMA Actors ==
  ASSUME [Next]_vars
  PROVE  \/ \E s \in Sessions : SessionActs(s)
         \/ \E n \in Nodes : LoopActs(n) \/ PoolActs(n)
         \/ \E a \in Agents : LockActs(a)
         \/ UNCHANGED vars
  BY DEF Next, SessionActs, LoopActs, PoolActs, LockActs

LEMMA SessionType == ASSUME SkillInv, NEW s \in Sessions, SessionActs(s) PROVE TypeOK'
  <1>0. TypeOK /\ HandSound(s)
    BY DEF SkillInv
  <1>1. hand[s].phase # "idle" => accepted[s] < MaxMessages
    BY <1>0 DEF HandSound
  <1>2. hand[s].phase = "archive" => \E t \in Tasks : t[1] = s /\ content[t] = {}
    BY <1>0 DEF HandSound
  <1>3. hand[s].phase \in {"enter", "register", "sadd", "lpush"} => hand[s].id \in Tasks
    BY <1>0 DEF HandSound
  <1>4. CASE Adds(s)
    BY <1>0, <1>4, AddsType
  <1>5. CASE WritesBack(s)
    BY <1>0, <1>1, <1>5, WritesBackType DEF WritesBack, At
  <1>6. CASE Archives(s)
    BY <1>0, <1>2, <1>6, ArchivesType DEF Archives, At
  <1>7. CASE Enters(s)
    BY <1>0, <1>3, <1>7, EntersType DEF Enters, At
  <1>8. CASE Registers(s)
    BY <1>0, <1>8, RegistersType
  <1>9. CASE SaddsAgent(s) \/ LpushesAgent(s)
    BY <1>0, <1>3, <1>9, EnqueuesType DEF SaddsAgent, LpushesAgent, At
  <1>10. CASE HandlerFails(s)
    BY <1>0, <1>10, HandlerFailsType
  <1> QED BY <1>4, <1>5, <1>6, <1>7, <1>8, <1>9, <1>10 DEF SessionActs, Handles

LEMMA LoopType == ASSUME SkillInv, NEW n \in Nodes, LoopActs(n) PROVE TypeOK'
  <1>0. TypeOK /\ WorkSound(n)
    BY DEF SkillInv
  <1>1. work[n].phase # "idle" => work[n].agent \in Agents
    BY <1>0 DEF WorkSound
  <1>2. work[n].phase \in {"extract", "delete", "count", "rewrite", "bury"} \/ work[n].dead => work[n].id \in Tasks
    BY <1>0 DEF WorkSound
  <1>3. CASE Peeks(n)
    BY <1>0, <1>3, PeeksType
  <1>4. CASE AcquiresExtractLock(n)
    BY <1>0, <1>4, AcquiresType
  <1>5. CASE ReadsHead(n)
    BY <1>0, <1>1, <1>5, ReadsHeadType DEF ReadsHead, On
  <1>6. CASE Extracts(n)
    BY <1>0, <1>2, <1>6, ExtractsType DEF Extracts, On
  <1>7. CASE Deletes(n)
    BY <1>0, <1>1, <1>7, DeletesType DEF Deletes, On
  <1>8. CASE Counts(n)
    BY <1>0, <1>1, <1>8, CountsType DEF Counts, On
  <1>9. CASE Rewrites(n)
    BY <1>0, <1>9, RewritesType
  <1>10. CASE Srems(n) \/ Lrems(n) \/ Requeues(n) \/ Relists(n)
    BY <1>0, <1>1, <1>10, QueueingType DEF Srems, Lrems, Requeues, Relists, On
  <1>11. CASE Buries(n)
    <2>1. work[n].agent \in Agents /\ work[n].id \in Tasks
      BY <1>1, <1>2, <1>11 DEF Buries, On
    <2> QED BY <1>0, <1>11, <2>1, EndingType
  <1>12. CASE ReleasesExtractLock(n) \/ ConsumeThrows(n)
    <2>1. work[n].agent \in Agents /\ (work[n].dead => work[n].id \in Tasks)
      BY <1>1, <1>2, <1>12 DEF ReleasesExtractLock, ConsumeThrows, On
    <2> QED BY <1>0, <1>12, <2>1, EndingType
  <1> QED BY <1>3, <1>4, <1>5, <1>6, <1>7, <1>8, <1>9, <1>10, <1>11, <1>12 DEF LoopActs, Works

LEMMA TypeStep == ASSUME SkillInv, [Next]_vars PROVE TypeOK'
  <1>0. TypeOK /\ \A n \in Nodes : work[n].dead => work[n].id \in Tasks
    BY DEF SkillInv, WorkSound
  <1>1. ASSUME NEW n \in Nodes, PoolActs(n) PROVE TypeOK'
    BY <1>0, <1>1, HealsType, DiesType DEF PoolActs
  <1>2. ASSUME NEW a \in Agents, LockActs(a) PROVE TypeOK'
    BY <1>0, <1>2, ExpiryType DEF LockActs
  <1>3. CASE UNCHANGED vars
    BY <1>0, <1>3 DEF vars, TypeOK
  <1> QED BY <1>1, <1>2, <1>3, Actors, SessionType, LoopType

-----------------------------------------------------------------------------
(* What a step of each actor leaves to the others.                         *)

\* What a session, an agent, a holder of a lock finds as it left it.
SameSession(s) ==
  /\ hand'[s] = hand[s] /\ buffer'[s] = buffer[s] /\ accepted'[s] = accepted[s]
  /\ \A t \in Tasks : t[1] = s => content'[t] = content[t]
Grows ==
  /\ registered \subseteq registered' /\ extracted \subseteq extracted' /\ dropped \subseteq dropped'
  /\ \A a \in Agents : dlq[a] \subseteq dlq'[a]
  /\ \A t \in Tasks : content[t] # {} => content'[t] = content[t]
  /\ overrun => overrun'

LEMMA SessionEffects ==
  ASSUME SkillInv, NEW s \in Sessions, SessionActs(s)
  PROVE  /\ Grows /\ UNCHANGED <<work, node, lease, dlq, extracted, dropped, overrun>>
         /\ \A r \in Sessions : r # s => SameSession(r)
         /\ \A a \in Agents : file'[a] = file[a] \/ (a = AgentOf[s] /\ Registers(s))
         /\ \A a \in Agents : mutex[a] # None /\ mutex[a] # s => mutex'[a] = mutex[a]
         /\ registered' = registered \/ (hand[s].phase \in {"sadd", "lpush"} /\ registered' = registered \cup {hand[s].id})
  <1>0. TypeOK /\ HandSound(s) /\ AgentOf[s] \in Agents
    BY Bounds DEF SkillInv
  <1>1. UNCHANGED <<work, node, lease, dlq, extracted, dropped, overrun>>
    <2>1. CASE Adds(s) \/ WritesBack(s) \/ Archives(s) \/ Enters(s) \/ Registers(s) \/ HandlerFails(s)
      BY <2>1 DEF Adds, WritesBack, Archives, Enters, Registers, HandlerFails
    <2>2. CASE SaddsAgent(s) \/ LpushesAgent(s)
      BY <2>2 DEF SaddsAgent, LpushesAgent, Returns
    <2> QED BY <2>1, <2>2 DEF SessionActs, Handles
  <1>2. registered' = registered \/ (hand[s].phase \in {"sadd", "lpush"} /\ registered' = registered \cup {hand[s].id})
    <2>1. CASE Adds(s) \/ WritesBack(s) \/ Archives(s) \/ Enters(s) \/ Registers(s) \/ HandlerFails(s)
      BY <2>1 DEF Adds, WritesBack, Archives, Enters, Registers, HandlerFails
    <2>2. CASE SaddsAgent(s) \/ LpushesAgent(s)
      BY <2>2 DEF SaddsAgent, LpushesAgent, Returns, At
    <2> QED BY <2>1, <2>2 DEF SessionActs, Handles
  <1>3. \A a \in Agents : file'[a] = file[a] \/ (a = AgentOf[s] /\ Registers(s))
    <2>1. CASE Adds(s) \/ WritesBack(s) \/ Archives(s) \/ Enters(s) \/ HandlerFails(s)
      BY <2>1 DEF Adds, WritesBack, Archives, Enters, HandlerFails
    <2>2. CASE SaddsAgent(s) \/ LpushesAgent(s)
      BY <2>2 DEF SaddsAgent, LpushesAgent
    <2>3. CASE Registers(s)
      <3>1. file' = [file EXCEPT ![AgentOf[s]] = hand[s].doc]
        BY <2>3 DEF Registers
      <3> QED BY <1>0, <2>3, <3>1 DEF TypeOK
    <2> QED BY <2>1, <2>2, <2>3 DEF SessionActs, Handles
  <1>4. \A a \in Agents : mutex[a] # None /\ mutex[a] # s => mutex'[a] = mutex[a]
    <2>1. CASE Adds(s) \/ WritesBack(s) \/ Archives(s) \/ Registers(s)
      BY <2>1 DEF Adds, WritesBack, Archives, Registers
    <2>2. CASE UNCHANGED mutex \/ Returns(s)
      BY <1>0, <2>2 DEF Returns, TypeOK
    <2>3. CASE Enters(s)
      BY <1>0, <2>3 DEF Enters, TypeOK
    <2>4. CASE HandlerFails(s)
      BY <1>0, <2>4 DEF HandlerFails, TypeOK
    <2> QED BY <2>1, <2>2, <2>3, <2>4 DEF SessionActs, Handles, SaddsAgent, LpushesAgent
  <1>5. \A t \in Tasks : t[1] # s \/ content[t] # {} => content'[t] = content[t]
    <2>1. CASE Adds(s) \/ WritesBack(s) \/ Registers(s) \/ Enters(s) \/ HandlerFails(s)
      BY <2>1 DEF Adds, WritesBack, Registers, Enters, HandlerFails
    <2>2. CASE SaddsAgent(s) \/ LpushesAgent(s)
      BY <2>2 DEF SaddsAgent, LpushesAgent
    <2>3. CASE Archives(s)
      <3>1. Fresh(s) \in Tasks /\ Fresh(s)[1] = s /\ content[Fresh(s)] = {}
        BY <1>0, <2>3, FreshTask DEF Archives, At, HandSound
      <3>2. content' = [content EXCEPT ![Fresh(s)] = hand[s].msgs]
        BY <2>3 DEF Archives
      <3> QED BY <1>0, <3>1, <3>2 DEF TypeOK
    <2> QED BY <2>1, <2>2, <2>3 DEF SessionActs, Handles
  <1>6. \A r \in Sessions : r # s => hand'[r] = hand[r]
    <2>1. CASE Adds(s)
      BY <1>0, <2>1 DEF Adds, TypeOK
    <2>2. CASE WritesBack(s)
      BY <1>0, <2>2 DEF WritesBack, TypeOK
    <2>3. CASE Archives(s) \/ Enters(s) \/ HandlerFails(s)
      BY <1>0, <2>3 DEF Archives, Enters, HandlerFails, TypeOK
    <2>4. CASE Returns(s) \/ \E ph : Moves(s, ph)
      BY <1>0, <2>4 DEF Returns, Moves, TypeOK
    <2> QED BY <2>1, <2>2, <2>3, <2>4 DEF SessionActs, Handles, SaddsAgent, LpushesAgent, Registers
  <1>7. \A r \in Sessions : r # s => buffer'[r] = buffer[r] /\ accepted'[r] = accepted[r]
    <2>1. CASE Adds(s) \/ Archives(s) \/ Enters(s) \/ Registers(s) \/ HandlerFails(s)
      BY <2>1 DEF Adds, Archives, Enters, Registers, HandlerFails
    <2>2. CASE SaddsAgent(s) \/ LpushesAgent(s)
      BY <2>2 DEF SaddsAgent, LpushesAgent, Returns
    <2>3. CASE WritesBack(s)
      BY <1>0, <2>3 DEF WritesBack, TypeOK
    <2> QED BY <2>1, <2>2, <2>3 DEF SessionActs, Handles
  <1>8. Grows
    BY <1>1, <1>2, <1>5 DEF Grows
  <1>9. \A r \in Sessions : r # s => SameSession(r)
    BY <1>5, <1>6, <1>7 DEF SameSession
  <1> QED BY <1>1, <1>2, <1>3, <1>4, <1>8, <1>9

LEMMA LoopEffects ==
  ASSUME SkillInv, NEW n \in Nodes, LoopActs(n)
  PROVE  /\ Grows /\ UNCHANGED <<hand, buffer, accepted, content, registered, overrun>>
         /\ \A m \in Nodes : m # n => work'[m] = work[m]
         /\ \A a \in Agents : file'[a] = file[a] \/ (a = work[n].agent /\ Rewrites(n))
         /\ \A a \in Agents : mutex[a] # None /\ mutex[a] # n => mutex'[a] = mutex[a]
         /\ \A a \in Agents : lease[a] # None /\ lease[a] # n => lease'[a] = lease[a]
  <1>0. TypeOK /\ WorkSound(n)
    BY DEF SkillInv
  <1> DEFINE Section == Deletes(n) \/ Counts(n) \/ Lrems(n) \/ Relists(n) \/ Rewrites(n)
             Queueing == Srems(n) \/ Requeues(n)
  <1>1. UNCHANGED <<hand, buffer, accepted, content, registered, overrun>>
    <2>1. CASE Peeks(n) \/ AcquiresExtractLock(n) \/ ReadsHead(n) \/ Extracts(n)
      BY <2>1 DEF Peeks, AcquiresExtractLock, ReadsHead, Extracts
    <2>2. CASE Section
      BY <2>2 DEF Deletes, Counts, Rewrites, Lrems, Relists
    <2>3. CASE Queueing \/ Buries(n) \/ ReleasesExtractLock(n) \/ ConsumeThrows(n)
      BY <2>3 DEF Srems, Requeues, Buries, ReleasesExtractLock, ConsumeThrows
    <2> QED BY <2>1, <2>2, <2>3 DEF LoopActs, Works
  <1>2. \A m \in Nodes : m # n => work'[m] = work[m]
    <2>1. CASE Peeks(n) \/ ReadsHead(n)
      BY <1>0, <2>1 DEF Peeks, ReadsHead, Goes, TypeOK
    <2>2. CASE GivesMutex(n)
      BY <1>0, <2>2 DEF GivesMutex, TypeOK
    <2>3. CASE AcquiresExtractLock(n)
      BY <1>0, <2>3 DEF AcquiresExtractLock, Goes, TypeOK
    <2>4. CASE \E ph : Goes(n, ph)
      BY <1>0, <2>4 DEF Goes, TypeOK
    <2>5. CASE Deletes(n)
      BY <1>0, <2>5 DEF Deletes, TypeOK
    <2>6. CASE Counts(n)
      BY <1>0, <2>6 DEF Counts, TypeOK
    <2>7. CASE ReleasesExtractLock(n) \/ ConsumeThrows(n)
      BY <1>0, <2>7 DEF ReleasesExtractLock, ConsumeThrows, TypeOK
    <2>8. Extracts(n) \/ Srems(n) \/ Requeues(n) \/ Buries(n) => \E ph : Goes(n, ph)
      BY DEF Extracts, Srems, Requeues, Buries
    <2>9. Lrems(n) \/ Relists(n) => GivesMutex(n)
      BY DEF Lrems, Relists
    <2>10. Rewrites(n) => GivesMutex(n) \/ \E ph : Goes(n, ph)
      BY DEF Rewrites
    <2> QED BY <2>1, <2>2, <2>3, <2>4, <2>5, <2>6, <2>7, <2>8, <2>9, <2>10 DEF LoopActs, Works
  <1>3. \A a \in Agents : file'[a] = file[a] \/ (a = work[n].agent /\ Rewrites(n))
    <2>1. CASE Peeks(n) \/ AcquiresExtractLock(n) \/ ReadsHead(n) \/ Extracts(n)
      BY <2>1 DEF Peeks, AcquiresExtractLock, ReadsHead, Extracts
    <2>2. CASE Deletes(n) \/ Counts(n) \/ Lrems(n) \/ Relists(n)
      BY <2>2 DEF Deletes, Counts, Lrems, Relists
    <2>3. CASE Queueing \/ Buries(n) \/ ReleasesExtractLock(n) \/ ConsumeThrows(n)
      BY <2>3 DEF Srems, Requeues, Buries, ReleasesExtractLock, ConsumeThrows
    <2>4. CASE Rewrites(n)
      <3>1. file' = [file EXCEPT ![work[n].agent] = work[n].doc]
        BY <2>4 DEF Rewrites
      <3> QED BY <1>0, <2>4, <3>1 DEF TypeOK
    <2> QED BY <2>1, <2>2, <2>3, <2>4 DEF LoopActs, Works
  <1>4. \A a \in Agents : mutex[a] # None /\ mutex[a] # n => mutex'[a] = mutex[a]
    <2>1. CASE Peeks(n) \/ AcquiresExtractLock(n) \/ Extracts(n)
      BY <2>1 DEF Peeks, AcquiresExtractLock, Extracts
    <2>2. CASE Queueing \/ Buries(n) \/ ReleasesExtractLock(n)
      BY <2>2 DEF Srems, Requeues, Buries, ReleasesExtractLock
    <2>3. CASE mutex[work[n].agent] = None /\ TakesMutex(n)
      BY <1>0, <2>3 DEF TakesMutex, TypeOK
    <2>4. CASE mutex' = Freed(n)
      BY <1>0, <2>4 DEF Freed, TypeOK
    <2>5. ReadsHead(n) \/ Deletes(n) \/ Counts(n) => UNCHANGED mutex \/ (mutex[work[n].agent] = None /\ TakesMutex(n))
      BY DEF ReadsHead, Deletes, Counts
    <2>6. Rewrites(n) \/ Lrems(n) \/ Relists(n) \/ ConsumeThrows(n) => UNCHANGED mutex \/ mutex' = Freed(n)
      BY DEF Rewrites, Lrems, Relists, ConsumeThrows, GivesMutex
    <2> QED BY <2>1, <2>2, <2>3, <2>4, <2>5, <2>6 DEF LoopActs, Works
  <1>5. \A a \in Agents : lease[a] # None /\ lease[a] # n => lease'[a] = lease[a]
    <2>1. CASE Peeks(n) \/ ReadsHead(n) \/ Extracts(n)
      BY <2>1 DEF Peeks, ReadsHead, Extracts
    <2>2. CASE Section
      BY <2>2 DEF Deletes, Counts, Lrems, Relists, Rewrites
    <2>3. CASE Queueing \/ Buries(n)
      BY <2>3 DEF Srems, Requeues, Buries
    <2>4. CASE AcquiresExtractLock(n)
      BY <1>0, <2>4 DEF AcquiresExtractLock, TypeOK
    <2>5. CASE UNCHANGED lease \/ LetGo(n)
      BY <1>0, <2>5 DEF LetGo, TypeOK
    <2> QED BY <2>1, <2>2, <2>3, <2>4, <2>5 DEF LoopActs, Works, ReleasesExtractLock, ConsumeThrows
  <1>6. Grows
    <2>1. extracted \subseteq extracted' /\ dropped \subseteq dropped'
      <3>1. CASE Peeks(n) \/ AcquiresExtractLock(n) \/ ReadsHead(n) \/ Extracts(n)
        BY <3>1 DEF Peeks, AcquiresExtractLock, ReadsHead, Extracts
      <3>2. CASE Section
        BY <3>2 DEF Deletes, Counts, Rewrites, Lrems, Relists
      <3>3. CASE Queueing \/ Buries(n) \/ ReleasesExtractLock(n) \/ ConsumeThrows(n)
        BY <3>3 DEF Srems, Requeues, Buries, ReleasesExtractLock, ConsumeThrows
      <3> QED BY <3>1, <3>2, <3>3 DEF LoopActs, Works
    <2>2. \A a \in Agents : dlq[a] \subseteq dlq'[a]
      <3>1. CASE Peeks(n) \/ AcquiresExtractLock(n) \/ ReadsHead(n) \/ Extracts(n)
        BY <3>1 DEF Peeks, AcquiresExtractLock, ReadsHead, Extracts
      <3>2. CASE Section
        BY <3>2 DEF Deletes, Counts, Rewrites, Lrems, Relists
      <3>3. CASE Queueing \/ ReleasesExtractLock(n) \/ ConsumeThrows(n)
        BY <3>3 DEF Srems, Requeues, ReleasesExtractLock, ConsumeThrows
      <3>4. CASE Buries(n)
        BY <1>0, <3>4 DEF Buries, TypeOK
      <3> QED BY <3>1, <3>2, <3>3, <3>4 DEF LoopActs, Works
    <2> QED BY <1>1, <2>1, <2>2 DEF Grows
  <1> QED BY <1>1, <1>2, <1>3, <1>4, <1>5, <1>6

LEMMA PoolEffects ==
  ASSUME SkillInv, NEW n \in Nodes, PoolActs(n)
  PROVE  /\ Grows /\ UNCHANGED <<file, dlq, mutex, lease, buffer, accepted, content, registered, extracted, overrun>>
         /\ \A m \in Nodes : work'[m] = work[m] \/ (m = n /\ Dies(n) /\ work'[n] = NoWork)
         /\ \A s \in Sessions : hand'[s] = hand[s] \/ hand'[s] = NoHandler
  <1>0. TypeOK
    BY DEF SkillInv
  <1>1. CASE Heals(n)
    BY <1>1 DEF Heals, StartsPool, Scans, Looks, Repushes, Touches, Grows
  <1>2. CASE Dies(n)
    <2>1. \A m \in Nodes : work'[m] = work[m] \/ (m = n /\ Dies(n) /\ work'[n] = NoWork)
      BY <1>0, <1>2 DEF Dies, TypeOK
    <2>2. \A s \in Sessions : hand'[s] = hand[s] \/ hand'[s] = NoHandler
      BY <1>2 DEF Dies
    <2> QED BY <1>2, <2>1, <2>2 DEF Dies, Grows
  <1> QED BY <1>1, <1>2 DEF PoolActs

LEMMA LockEffects ==
  ASSUME SkillInv, NEW a \in Agents, LockActs(a)
  PROVE  /\ Grows
         /\ UNCHANGED <<hand, work, file, dlq, buffer, accepted, content, registered, extracted, dropped>>
         /\ \A b \in Agents : mutex'[b] = mutex[b] \/ ~InSection(mutex[b], b)
         /\ \A b \in Agents : lease'[b] = lease[b] \/ overrun' \/ ~Extracting(lease[b], b)
  <1>0. TypeOK
    BY DEF SkillInv
  <1>1. CASE MutexExpires(a)
    BY <1>0, <1>1 DEF MutexExpires, Grows, TypeOK
  <1>2. CASE LeaseExpires(a)
    BY <1>0, <1>2 DEF LeaseExpires, Grows, TypeOK
  <1> QED BY <1>1, <1>2 DEF LockActs

LEMMA Growing == ASSUME SkillInv, [Next]_vars PROVE Grows
  <1>1. ASSUME UNCHANGED vars PROVE Grows
    BY <1>1 DEF vars, Grows
  <1> QED BY <1>1, Actors, SessionEffects, LoopEffects, PoolEffects, LockEffects

LEMMA BackedStays ==
  ASSUME SkillInv, [Next]_vars
  PROVE  \A d \in Seq(Entries) : \A a : Backed(d, a) => \A i \in 1..Len(d) : content'[d[i].id] # {} /\ AgentOf[d[i].id[1]] = a
  <1> SUFFICES ASSUME NEW d \in Seq(Entries), NEW a, Backed(d, a), NEW i \in 1..Len(d)
               PROVE  content'[d[i].id] # {} /\ AgentOf[d[i].id[1]] = a
    OBVIOUS
  <1>1. d[i] \in Entries
    OBVIOUS
  <1>2. d[i].id \in Tasks
    BY <1>1 DEF Entries
  <1> QED BY <1>2, Growing DEF Backed, Grows

\* What a loop holds by its locks stays as it is when others step.
LEMMA LoopHolds ==
  ASSUME SkillInv, [Next]_vars, NEW n \in Nodes, ~LoopActs(n), work'[n] = work[n]
  PROVE  /\ "mutex" \in work[n].held => mutex'[work[n].agent] = n /\ file'[work[n].agent] = file[work[n].agent]
         /\ ~overrun' /\ "lease" \in work[n].held => lease'[work[n].agent] = n
  <1>0. TypeOK /\ WorkSound(n) /\ n \notin Sessions /\ n # None
    BY Bounds DEF SkillInv
  <1>1. PICK a : a = work[n].agent
    OBVIOUS
  <1>2. work[n].held # {} => a \in Agents
    BY <1>0, <1>1 DEF WorkSound, NoWork
  <1>3. ASSUME "mutex" \in work[n].held PROVE mutex'[a] = n /\ file'[a] = file[a]
    <2>1. mutex[a] = n /\ a \in Agents
      BY <1>0, <1>1, <1>2, <1>3 DEF WorkSound
    <2>2. ASSUME NEW s \in Sessions, SessionActs(s) PROVE mutex'[a] = n /\ file'[a] = file[a]
      <3>1. ~(a = AgentOf[s] /\ Registers(s))
        <4>1. HandSound(s)
          BY DEF SkillInv
        <4> QED BY <1>0, <2>1, <4>1 DEF HandSound, Inside, Registers, At
      <3> QED BY <1>0, <2>1, <2>2, <3>1, SessionEffects
    <2>3. ASSUME NEW m \in Nodes, LoopActs(m) PROVE mutex'[a] = n /\ file'[a] = file[a]
      <3>1. m # n
        BY <2>3
      <3>2. ~(a = work[m].agent /\ Rewrites(m))
        <4>1. WorkSound(m)
          BY DEF SkillInv
        <4> QED BY <2>1, <3>1, <4>1 DEF WorkSound, Rewrites, On
      <3> QED BY <1>0, <2>1, <2>3, <3>1, <3>2, LoopEffects
    <2>4. ASSUME NEW m \in Nodes, PoolActs(m) PROVE mutex'[a] = n /\ file'[a] = file[a]
      BY <2>1, <2>4, PoolEffects
    <2>5. ASSUME NEW b \in Agents, LockActs(b) PROVE mutex'[a] = n /\ file'[a] = file[a]
      <3>1. InSection(n, a)
        BY <1>0, <1>1, <1>3 DEF InSection
      <3> QED BY <2>1, <2>5, <3>1, LockEffects
    <2>6. CASE UNCHANGED vars
      BY <2>1, <2>6 DEF vars
    <2> QED BY <2>2, <2>3, <2>4, <2>5, <2>6, Actors
  <1>4. ASSUME ~overrun', "lease" \in work[n].held PROVE lease'[a] = n
    <2>1. lease[a] = n /\ a \in Agents
      <3>1. ~overrun
        BY <1>4, Growing DEF Grows
      <3> QED BY <1>0, <1>1, <1>2, <1>4, <3>1 DEF WorkSound
    <2>2. ASSUME NEW s \in Sessions, SessionActs(s) PROVE lease'[a] = n
      BY <2>1, <2>2, SessionEffects
    <2>3. ASSUME NEW m \in Nodes, LoopActs(m) PROVE lease'[a] = n
      <3>1. m # n
        BY <2>3
      <3> QED BY <1>0, <2>1, <2>3, <3>1, LoopEffects
    <2>4. ASSUME NEW m \in Nodes, PoolActs(m) PROVE lease'[a] = n
      BY <2>1, <2>4, PoolEffects
    <2>5. ASSUME NEW b \in Agents, LockActs(b) PROVE lease'[a] = n
      <3>1. Extracting(n, a)
        BY <1>1, <1>4, <2>1 DEF Extracting
      <3> QED BY <1>4, <2>1, <2>5, <3>1, LockEffects
    <2>6. CASE UNCHANGED vars
      BY <2>1, <2>6 DEF vars
    <2> QED BY <2>2, <2>3, <2>4, <2>5, <2>6, Actors
  <1> QED BY <1>1, <1>3, <1>4

\* Another's step leaves a loop sound, or dead with its process.
LEMMA LoopFrame ==
  ASSUME SkillInv, [Next]_vars, NEW n \in Nodes, ~LoopActs(n)
  PROVE  WorkSound(n)'
  <1>0. TypeOK /\ WorkSound(n)
    BY DEF SkillInv
  <1>1. work'[n] = work[n] \/ work'[n] = NoWork
    <2>1. ASSUME UNCHANGED vars PROVE work'[n] = work[n]
      BY <2>1 DEF vars
    <2> QED BY <2>1, Actors, SessionEffects, LoopEffects, PoolEffects, LockEffects
  <1>2. CASE work'[n] = NoWork
    BY <1>2 DEF WorkSound, NoWork, Claimed, Sections, TakenOut
  <1>3. CASE work'[n] = work[n]
    <2>1. PICK w \in Loops : w = work[n] /\ w = work'[n]
      BY <1>0, <1>3 DEF TypeOK
    <2>2. /\ "mutex" \in w.held => mutex'[w.agent] = n /\ file'[w.agent] = file[w.agent]
          /\ ~overrun' /\ "lease" \in w.held => lease'[w.agent] = n
      BY <1>3, <2>1, LoopHolds
    <2>3. w.phase = "rewrite" => \A i \in 1..Len(w.doc) : content'[w.doc[i].id] # {} /\ AgentOf[w.doc[i].id[1]] = w.agent
      <3>1. w.doc \in Seq(Entries)
        BY <2>1 DEF Loops
      <3> QED BY <1>0, <2>1, <3>1, BackedStays DEF WorkSound
    <2>4. Grows
      BY Growing
    <2>5. /\ w.phase \in {"extract", "delete", "count", "rewrite"} \/ w.dead =>
               w.id \in Tasks /\ AgentOf[w.id[1]] = w.agent /\ content'[w.id] # {}
          /\ w.phase = "delete" => w.id \in extracted'
      BY <1>0, <2>1, <2>4 DEF WorkSound, Grows
    <2>6. w.phase = "rewrite" =>
            \A t \in Tasks : Has(file'[w.agent], t) => Has(w.doc, t) \/ (t = w.id /\ (w.dead \/ t \in extracted'))
      BY <1>0, <2>1, <2>2, <2>4 DEF WorkSound, Grows
    <2>7. /\ w.phase = "idle" => w = NoWork
          /\ w.phase # "idle" => w.agent \in Agents
          /\ w.phase = "peeked" => w.held = {}
          /\ w.phase \in Claimed => "lease" \in w.held
          /\ w.dead => "lease" \in w.held /\ w.phase \in {"rewrite", "release"} \cup TakenOut
          /\ "mutex" \in w.held => w.phase \in Sections
          /\ w.phase = "rewrite" => "mutex" \in w.held
          /\ w.phase = "bury" => w.dead
      BY <1>0, <2>1 DEF WorkSound
    <2> QED BY <2>1, <2>2, <2>3, <2>5, <2>6, <2>7 DEF WorkSound, Backed
  <1> QED BY <1>1, <1>2, <1>3

LEMMA ArchivedStays ==
  ASSUME SkillInv, [Next]_vars
  PROVE  \A s \in Sessions : \A m : Archived(s, m) => Archived(s, m)'
  BY Growing DEF SkillInv, TypeOK, Archived, Grows

\* What a handler has in hand, and holds by the mutex, stays when others step.
LEMMA HandHolds ==
  ASSUME SkillInv, [Next]_vars, NEW s \in Sessions, ~SessionActs(s)
  PROVE  /\ hand'[s] = hand[s] \/ hand'[s] = NoHandler
         /\ buffer'[s] = buffer[s] /\ accepted'[s] = accepted[s]
         /\ \A t \in Tasks : t[1] = s => content'[t] = content[t]
         /\ Inside(s) => mutex'[AgentOf[s]] = s /\ file'[AgentOf[s]] = file[AgentOf[s]]
  <1>0. TypeOK /\ HandSound(s) /\ s \notin Nodes /\ s # None /\ AgentOf[s] \in Agents
    BY Bounds DEF SkillInv
  <1> DEFINE a == AgentOf[s]
             Goal == /\ hand'[s] = hand[s] \/ hand'[s] = NoHandler
                     /\ buffer'[s] = buffer[s] /\ accepted'[s] = accepted[s]
                     /\ \A t \in Tasks : t[1] = s => content'[t] = content[t]
                     /\ Inside(s) => mutex'[a] = s /\ file'[a] = file[a]
  <1>1. Inside(s) => mutex[a] = s
    BY <1>0 DEF HandSound
  <1>2. ASSUME NEW r \in Sessions, SessionActs(r) PROVE Goal
    <2>1. r # s
      BY <1>2
    <2>2. SameSession(s) /\ (mutex[a] = s => mutex'[a] = s)
      BY <1>0, <1>2, <2>1, SessionEffects
    <2>3. file'[a] = file[a] \/ (a = AgentOf[r] /\ Registers(r))
      BY <1>0, <1>2, SessionEffects
    <2>4. a = AgentOf[r] /\ Registers(r) => mutex[a] = r
      <3>1. HandSound(r)
        BY DEF SkillInv
      <3> QED BY <3>1 DEF HandSound, Inside, Registers, At
    <2> QED BY <1>1, <2>1, <2>2, <2>3, <2>4 DEF SameSession
  <1>3. ASSUME NEW m \in Nodes, LoopActs(m) PROVE Goal
    <2>1. /\ UNCHANGED <<hand, buffer, accepted, content>> /\ (mutex[a] = s => mutex'[a] = s)
          /\ file'[a] = file[a] \/ (a = work[m].agent /\ Rewrites(m))
      BY <1>0, <1>3, LoopEffects
    <2>2. a = work[m].agent /\ Rewrites(m) => mutex[a] = m
      <3>1. WorkSound(m)
        BY DEF SkillInv
      <3> QED BY <3>1 DEF WorkSound, Rewrites, On
    <2> QED BY <1>0, <1>1, <2>1, <2>2
  <1>4. ASSUME NEW m \in Nodes, PoolActs(m) PROVE Goal
    BY <1>1, <1>4, PoolEffects
  <1>5. ASSUME NEW b \in Agents, LockActs(b) PROVE Goal
    <2>1. /\ UNCHANGED <<hand, file, buffer, accepted, content>>
          /\ mutex'[a] = mutex[a] \/ ~InSection(mutex[a], a)
      BY <1>0, <1>5, LockEffects
    <2>2. Inside(s) => InSection(s, a)
      BY DEF InSection
    <2> QED BY <1>1, <2>1, <2>2
  <1>6. CASE UNCHANGED vars
    BY <1>1, <1>6 DEF vars
  <1> QED BY <1>2, <1>3, <1>4, <1>5, <1>6, Actors

\* Another's step leaves a handler sound, or gone with its process.
LEMMA HandFrame ==
  ASSUME SkillInv, [Next]_vars, NEW s \in Sessions, ~SessionActs(s)
  PROVE  HandSound(s)'
  <1>0. TypeOK /\ HandSound(s)
    BY DEF SkillInv
  <1>1. CASE hand'[s] = NoHandler
    BY <1>1 DEF HandSound, NoHandler, Inside
  <1>2. CASE hand'[s] = hand[s]
    <2>1. PICK h \in Handlers : h = hand[s] /\ h = hand'[s]
      BY <1>0, <1>2 DEF TypeOK
    <2>2. /\ buffer'[s] = buffer[s] /\ accepted'[s] = accepted[s]
          /\ \A t \in Tasks : t[1] = s => content'[t] = content[t]
          /\ Inside(s) => mutex'[AgentOf[s]] = s /\ file'[AgentOf[s]] = file[AgentOf[s]]
      BY HandHolds
    <2>3. Inside(s)' <=> Inside(s)
      BY <2>1 DEF Inside
    <2>4. h.phase # "idle" =>
            accepted'[s] < MaxMessages /\ \A m \in 1..(accepted'[s] + 1) : m \in h.msgs \/ Archived(s, m)'
      BY <1>0, <2>1, <2>2, ArchivedStays DEF HandSound
    <2>5. h.phase = "register" =>
            \A i \in 1..Len(h.doc) : content'[h.doc[i].id] # {} /\ AgentOf[h.doc[i].id[1]] = AgentOf[s]
      <3>1. h.doc \in Seq(Entries)
        BY DEF Handlers
      <3> QED BY <1>0, <2>1, <3>1, BackedStays DEF HandSound
    <2>6. /\ h.phase = "back" => h.todo # {} /\ ("current" \notin h.todo => buffer'[s].current = h.msgs)
          /\ h.phase = "archive" => \E t \in Tasks : t[1] = s /\ content'[t] = {}
          /\ h.phase \in {"archive", "enter", "register", "sadd", "lpush"} => h.msgs # {}
          /\ h.phase \in {"enter", "register", "sadd", "lpush"} =>
               h.id \in Tasks /\ h.id[1] = s /\ content'[h.id] = h.msgs
      BY <1>0, <2>1, <2>2 DEF HandSound
    <2>7. /\ h.phase = "register" => Has(h.doc, h.id) /\ \A t \in Tasks : Has(file'[AgentOf[s]], t) => Has(h.doc, t)
          /\ h.phase \in {"sadd", "lpush"} => Has(file'[AgentOf[s]], h.id)
      BY <1>0, <2>1, <2>2 DEF HandSound, Inside
    <2> QED BY <2>1, <2>2, <2>3, <2>4, <2>5, <2>6, <2>7 DEF HandSound, Backed, Inside
  <1> QED BY <1>1, <1>2, HandHolds

-----------------------------------------------------------------------------
(* A handler's own step.                                                   *)

LEMMA HandStep == ASSUME SkillInv, [Next]_vars, NEW s \in Sessions, SessionActs(s) PROVE HandSound(s)'
  <1>0. TypeOK /\ HandSound(s) /\ AgentOf[s] \in Agents
    BY Bounds DEF SkillInv
  <1>1. accepted[s] \in Nat /\ (hand[s].phase # "idle" => \A m \in 1..(accepted[s] + 1) : m \in hand[s].msgs \/ Archived(s, m))
    BY <1>0, Bounds DEF HandSound, TypeOK
  <1>2. CASE Adds(s)
    <2> DEFINE msgs == buffer[s].current \cup {accepted[s] + 1}
               count == buffer[s].count + 1
    <2>1. \A m \in 1..(accepted[s] + 1) : m \in msgs \/ Archived(s, m)
      <3>1. \A m \in 1..accepted[s] : m \in buffer[s].current \/ Archived(s, m)
        BY DEF SkillInv
      <3> QED BY <1>1, <3>1
    <2>2. msgs # {} /\ accepted[s] < MaxMessages /\ \E t \in Tasks : t[1] = s /\ content[t] = {}
      BY <1>2 DEF Adds
    <2>3. PICK n : \/ hand'[s] = [NoHandler EXCEPT !.phase = "archive", !.node = n, !.msgs = msgs]
                   \/ hand'[s] = [NoHandler EXCEPT !.phase = "back", !.node = n, !.msgs = msgs, !.count = count,
                                                   !.todo = {"current", "meta"}]
      BY <1>0, <1>2 DEF Adds, TypeOK
    <2>4. UNCHANGED <<content, accepted, registered>>
      BY <1>2 DEF Adds
    <2> HIDE DEF msgs, count
    <2>5. /\ hand'[s].phase \in {"archive", "back"} /\ hand'[s].msgs = msgs
          /\ hand'[s].phase = "back" => hand'[s].todo = {"current", "meta"}
      BY <2>3 DEF NoHandler
    <2>6. \A m \in 1..(accepted'[s] + 1) : m \in hand'[s].msgs \/ Archived(s, m)'
      BY <2>1, <2>4, <2>5, ArchivedStays
    <2> QED BY <2>2, <2>4, <2>5, <2>6 DEF HandSound, Inside
  <1>3. CASE WritesBack(s)
    <2>1. PICK part \in hand[s].todo :
         /\ buffer' = [buffer EXCEPT ![s] = IF part = "current" THEN [@ EXCEPT !.current = hand[s].msgs]
                                            ELSE [@ EXCEPT !.count = hand[s].count]]
         /\ IF hand[s].todo = {part}
            THEN hand' = [hand EXCEPT ![s] = NoHandler] /\ accepted' = [accepted EXCEPT ![s] = @ + 1]
            ELSE hand' = [hand EXCEPT ![s].todo = @ \ {part}] /\ UNCHANGED accepted
      BY <1>3 DEF WritesBack
    <2>2. CASE hand[s].todo = {part}
      <3>1. hand'[s] = NoHandler
        BY <1>0, <2>1, <2>2 DEF TypeOK
      <3> QED BY <3>1 DEF HandSound, NoHandler, Inside
    <2>3. CASE hand[s].todo # {part}
      <3>0. hand[s] \in Handlers /\ buffer[s] \in [current : SUBSET Messages, count : Nat]
        BY <1>0 DEF TypeOK
      <3>1. /\ hand'[s].phase = "back" /\ hand'[s].msgs = hand[s].msgs
            /\ hand'[s].todo = hand[s].todo \ {part} /\ accepted' = accepted
        BY <1>0, <1>3, <2>1, <2>3, <3>0 DEF TypeOK, WritesBack, At, Handlers
      <3>2. part = "current" => buffer'[s].current = hand[s].msgs
        BY <1>0, <2>1, <3>0 DEF TypeOK
      <3>3. part # "current" => buffer'[s].current = buffer[s].current
        BY <1>0, <2>1, <3>0 DEF TypeOK
      <3>4. accepted[s] < MaxMessages /\ ("current" \notin hand[s].todo => buffer[s].current = hand[s].msgs)
            /\ hand[s].phase = "back"
        BY <1>0, <1>3 DEF HandSound, WritesBack, At
      <3>5. \A m \in 1..(accepted'[s] + 1) : m \in hand'[s].msgs \/ Archived(s, m)'
        BY <1>1, <3>1, <3>4, ArchivedStays
      <3> QED BY <2>1, <2>3, <3>1, <3>2, <3>3, <3>4, <3>5 DEF HandSound, Inside
    <2> QED BY <2>2, <2>3
  <1>4. CASE Archives(s)
    <2>1. PICK f \in Tasks : f = Fresh(s) /\ f[1] = s
      BY <1>0, <1>4, FreshTask DEF Archives, At, HandSound
    <2>2. /\ hand'[s].phase = "enter" /\ hand'[s].id = f /\ hand'[s].msgs = hand[s].msgs
          /\ content'[f] = hand[s].msgs /\ accepted' = accepted
      BY <1>0, <1>4, <2>1 DEF Archives, TypeOK, Handlers
    <2>3. accepted[s] < MaxMessages /\ hand[s].msgs # {} /\ hand[s].phase = "archive"
      BY <1>0, <1>4 DEF HandSound, Archives, At
    <2>4. \A m \in 1..(accepted'[s] + 1) : m \in hand'[s].msgs \/ Archived(s, m)'
      BY <1>1, <2>2, <2>3, ArchivedStays
    <2> QED BY <2>1, <2>2, <2>3, <2>4 DEF HandSound, Inside
  <1>5. CASE Enters(s)
    <2>0. hand[s].phase = "enter" /\ accepted[s] < MaxMessages /\ hand[s].msgs # {}
          /\ hand[s].id \in Tasks /\ hand[s].id[1] = s /\ content[hand[s].id] = hand[s].msgs
      BY <1>0, <1>5 DEF HandSound, Enters, At
    <2>1. PICK a \in Agents, t \in Tasks : a = AgentOf[s] /\ t = hand[s].id
      BY <1>0, <2>0
    <2>2. PICK d \in Seq(Entries) : d = file[a]
      BY <1>0, <2>1 DEF TypeOK
    <2>3. PICK e \in Entries : e = [id |-> t, retry |-> 0]
      <3>1. 0 \in 0..(MaxRetries - 1)
        BY Bounds
      <3> QED BY <3>1 DEF Entries
    <2>4. /\ hand'[s].phase = "register" /\ hand'[s].doc = Append(d, e) /\ hand'[s].id = t
          /\ hand'[s].msgs = hand[s].msgs
      <3>1. hand[s] \in Handlers
        BY <1>0 DEF TypeOK
      <3>2. hand' = [hand EXCEPT ![s].phase = "register", ![s].doc = Append(d, e)]
        BY <1>5, <2>1, <2>2, <2>3 DEF Enters
      <3> HIDE <2>3
      <3> QED BY <1>0, <2>1, <3>1, <3>2 DEF TypeOK, Handlers
    <2>5. mutex'[a] = s /\ UNCHANGED <<file, content, accepted>>
      BY <1>0, <1>5, <2>1 DEF Enters, TypeOK
    <2>6. \A m \in 1..(accepted'[s] + 1) : m \in hand'[s].msgs \/ Archived(s, m)'
      BY <1>1, <2>0, <2>4, <2>5, ArchivedStays
    <2>7. \A i \in 1..Len(d) : content[d[i].id] # {} /\ AgentOf[d[i].id[1]] = a
      BY <2>2 DEF SkillInv, Backed
    <2>8. PICK doc : doc = Append(d, e)
      OBVIOUS
    <2>9. /\ Has(doc, t) /\ \A u : Has(d, u) => Has(doc, u)
          /\ \A i \in 1..Len(doc) : content[doc[i].id] # {} /\ AgentOf[doc[i].id[1]] = a
      <3>1. e.id = t
        BY <2>3
      <3>2. /\ Has(doc, t) /\ \A u : Has(d, u) => Has(doc, u)
            /\ \A i \in 1..Len(doc) : doc[i] = e \/ \E j \in 1..Len(d) : doc[i] = d[j]
        BY <2>8, <3>1, AppendedTask
      <3> QED BY <2>0, <2>1, <2>7, <3>1, <3>2
    <2> QED BY <2>0, <2>1, <2>2, <2>4, <2>5, <2>6, <2>8, <2>9 DEF HandSound, Inside, Backed
  <1>6. CASE Registers(s)
    <2>0. hand[s] \in Handlers /\ hand[s].phase = "register"
      BY <1>0, <1>6 DEF TypeOK, Registers, At
    <2>1. /\ hand'[s].phase = "sadd" /\ hand'[s].id = hand[s].id /\ hand'[s].msgs = hand[s].msgs
          /\ file'[AgentOf[s]] = hand[s].doc /\ UNCHANGED <<mutex, content, accepted>>
      BY <1>0, <1>6, <2>0 DEF Registers, Moves, TypeOK, Handlers
    <2>2. \A m \in 1..(accepted'[s] + 1) : m \in hand'[s].msgs \/ Archived(s, m)'
      BY <1>1, <2>0, <2>1, ArchivedStays
    <2> QED BY <1>0, <2>0, <2>1, <2>2 DEF HandSound, Inside
  <1>7. CASE Returns(s) /\ hand[s].phase \in {"sadd", "lpush"} /\ UNCHANGED content
    <2>1. /\ hand'[s].phase = "back" /\ hand'[s].todo = {"current", "meta"}
          /\ registered' = registered \cup {hand[s].id} /\ accepted' = accepted
      BY <1>0, <1>7 DEF Returns, TypeOK, NoHandler
    <2>2. accepted[s] < MaxMessages /\ hand[s].id[1] = s /\ content'[hand[s].id] = hand[s].msgs
      BY <1>0, <1>7 DEF HandSound
    <2>3. \A m \in hand[s].msgs : Archived(s, m)'
      BY <2>1, <2>2 DEF Archived
    <2>4. \A m \in 1..(accepted'[s] + 1) : Archived(s, m)'
      BY <1>1, <1>7, <2>1, <2>3, ArchivedStays
    <2> QED BY <2>1, <2>2, <2>4 DEF HandSound, Inside
  <1>8. CASE SaddsAgent(s) /\ Moves(s, "lpush") /\ UNCHANGED <<mutex, history>>
    <2>0. hand[s] \in Handlers /\ hand[s].phase = "sadd"
      BY <1>0, <1>8 DEF TypeOK, SaddsAgent, At
    <2>1. /\ hand'[s].phase = "lpush" /\ hand'[s].id = hand[s].id /\ hand'[s].msgs = hand[s].msgs
          /\ UNCHANGED <<mutex, content, accepted, file>>
      BY <1>0, <1>8, <2>0 DEF SaddsAgent, Moves, TypeOK, Handlers
    <2>2. \A m \in 1..(accepted'[s] + 1) : m \in hand'[s].msgs \/ Archived(s, m)'
      BY <1>1, <2>0, <2>1, ArchivedStays
    <2> QED BY <1>0, <2>0, <2>1, <2>2 DEF HandSound, Inside
  <1>9. CASE HandlerFails(s)
    <2>1. hand'[s] = NoHandler
      BY <1>0, <1>9 DEF HandlerFails, TypeOK
    <2> QED BY <2>1 DEF HandSound, NoHandler, Inside
  <1> QED BY <1>2, <1>3, <1>4, <1>5, <1>6, <1>7, <1>8, <1>9 DEF SessionActs, Handles, SaddsAgent, LpushesAgent, At

-----------------------------------------------------------------------------
(* A loop's own step.                                                      *)

LEMMA GoesFields ==
  ASSUME TypeOK, NEW n \in Nodes, NEW ph, Goes(n, ph)
  PROVE  /\ work'[n].phase = ph /\ work'[n].agent = work[n].agent /\ work'[n].id = work[n].id
         /\ work'[n].dead = work[n].dead /\ work'[n].held = work[n].held /\ work'[n].doc = work[n].doc
  BY DEF TypeOK, Goes, Loops

LEMMA GivesFields ==
  ASSUME TypeOK, NEW n \in Nodes, GivesMutex(n)
  PROVE  /\ work'[n].phase = IF work[n].dead THEN "bury" ELSE "release"
         /\ work'[n].agent = work[n].agent /\ work'[n].id = work[n].id
         /\ work'[n].dead = work[n].dead /\ work'[n].held = work[n].held \ {"mutex"}
  <1>1. work[n] \in Loops
    BY DEF TypeOK
  <1> QED BY <1>1 DEF TypeOK, GivesMutex, Loops

\* A loop that has given back the mutex at the end of a section.
LEMMA GivesSound ==
  ASSUME SkillInv, [Next]_vars, NEW n \in Nodes, work[n].phase \in {"rewrite", "lrem", "relist"}, GivesMutex(n),
         UNCHANGED <<lease, overrun>>
  PROVE  WorkSound(n)'
  <1>0. TypeOK /\ WorkSound(n) /\ Grows
    BY Growing DEF SkillInv
  <1>1. /\ work'[n].phase = IF work[n].dead THEN "bury" ELSE "release"
        /\ work'[n].agent = work[n].agent /\ work'[n].id = work[n].id
        /\ work'[n].dead = work[n].dead /\ work'[n].held = work[n].held \ {"mutex"}
    BY <1>0, GivesFields
  <1>2. work[n].dead => work[n].id \in Tasks /\ AgentOf[work[n].id[1]] = work[n].agent /\ content'[work[n].id] # {}
    BY <1>0 DEF WorkSound, Grows
  <1> QED BY <1>0, <1>1, <1>2 DEF WorkSound, Claimed, Sections, TakenOut

LEMMA NoWorkSound == ASSUME NEW n \in Nodes, work'[n] = NoWork PROVE WorkSound(n)'
  BY DEF WorkSound, NoWork, Claimed, Sections, TakenOut

LEMMA LoopStep == ASSUME SkillInv, [Next]_vars, NEW n \in Nodes, LoopActs(n) PROVE WorkSound(n)'
  <1>0. TypeOK /\ WorkSound(n) /\ Grows /\ work[n] \in Loops /\ overrun' = overrun
    BY Growing, LoopEffects DEF SkillInv, TypeOK
  <1>1. CASE Peeks(n)
    <2>1. Last(list) \in Agents
      BY <1>0, <1>1, ListTypes DEF Peeks, TypeOK
    <2>2. work[n] = NoWork
      BY <1>0, <1>1 DEF Peeks, On, WorkSound
    <2>3. /\ work'[n].phase = "peeked" /\ work'[n].agent = Last(list) /\ work'[n].held = {} /\ ~work'[n].dead
      BY <1>0, <1>1, <2>2 DEF Peeks, TypeOK, NoWork
    <2> QED BY <2>1, <2>3 DEF WorkSound, Claimed, Sections, TakenOut
  <1>2. CASE AcquiresExtractLock(n)
    <2>1. work[n].phase = "peeked" /\ work[n].held = {} /\ work[n].agent \in Agents /\ ~work[n].dead
      BY <1>0, <1>2 DEF AcquiresExtractLock, On, WorkSound, TakenOut
    <2>2. CASE work' = [work EXCEPT ![n] = NoWork]
      BY <1>0, <2>2, NoWorkSound DEF TypeOK
    <2>3. CASE Goes(n, "requeue")
      BY <1>0, <2>1, <2>3, GoesFields DEF WorkSound, Claimed, Sections, TakenOut
    <2>4. CASE /\ lease' = [lease EXCEPT ![work[n].agent] = n]
               /\ work' = [work EXCEPT ![n].phase = "head", ![n].held = {"lease"}]
      <3>1. /\ work'[n].phase = "head" /\ work'[n].held = {"lease"} /\ work'[n].agent = work[n].agent /\ ~work'[n].dead
            /\ lease'[work[n].agent] = n
        BY <1>0, <2>1, <2>4 DEF TypeOK, Loops
      <3> QED BY <2>1, <3>1 DEF WorkSound, Claimed, Sections, TakenOut
    <2> QED BY <1>2, <2>2, <2>3, <2>4 DEF AcquiresExtractLock
  <1>3. CASE ReadsHead(n)
    <2>1. /\ work[n].phase = "head" /\ "lease" \in work[n].held /\ "mutex" \notin work[n].held
          /\ work[n].agent \in Agents /\ ~work[n].dead
      BY <1>0, <1>3 DEF ReadsHead, On, WorkSound, Claimed, Sections, TakenOut
    <2>2. lease' = lease /\ content' = content
      BY <1>3 DEF ReadsHead
    <2>3. CASE file[work[n].agent] = <<>>
      <3>1. mutex'[work[n].agent] = n
        BY <1>0, <1>3, <2>1, <2>3 DEF ReadsHead, TakesMutex, TypeOK
      <3>2. /\ work'[n].phase = "srem" /\ work'[n].held = work[n].held \cup {"mutex"}
            /\ work'[n].agent = work[n].agent /\ ~work'[n].dead
        <4>1. work' = [work EXCEPT ![n].phase = "srem", ![n].held = @ \cup {"mutex"}]
          BY <1>3, <2>3 DEF ReadsHead
        <4> QED BY <1>0, <2>1, <4>1 DEF TypeOK, Loops
      <3> QED BY <1>0, <2>1, <2>2, <3>1, <3>2 DEF WorkSound, Claimed, Sections, TakenOut
    <2>4. CASE file[work[n].agent] # <<>>
      <3>1. PICK a \in Agents, d \in Seq(Entries) : a = work[n].agent /\ d = file[a] /\ d # <<>>
        BY <1>0, <2>1, <2>4 DEF TypeOK
      <3>2. 1 \in 1..Len(d) /\ Head(d) = d[1] /\ d[1] \in Entries
        BY <3>1
      <3>3. PICK t \in Tasks : t = Head(d).id
        BY <3>2 DEF Entries
      <3>4. content[t] # {} /\ AgentOf[t[1]] = a
        BY <3>1, <3>2, <3>3 DEF SkillInv, Backed
      <3>5. /\ work'[n].phase = "extract" /\ work'[n].held = work[n].held /\ work'[n].agent = a
            /\ work'[n].id = t /\ ~work'[n].dead
        <4>1. work' = [work EXCEPT ![n].phase = "extract", ![n].id = t]
          BY <1>3, <2>4, <3>1, <3>3 DEF ReadsHead
        <4> QED BY <1>0, <2>1, <3>1, <4>1 DEF TypeOK, Loops
      <3> QED BY <1>0, <2>1, <2>2, <3>1, <3>3, <3>4, <3>5 DEF WorkSound, Claimed, Sections, TakenOut
    <2> QED BY <2>3, <2>4
  <1>4. CASE Extracts(n)
    <2>1. /\ work[n].phase = "extract" /\ "lease" \in work[n].held /\ "mutex" \notin work[n].held
          /\ work[n].agent \in Agents /\ ~work[n].dead
          /\ work[n].id \in Tasks /\ AgentOf[work[n].id[1]] = work[n].agent /\ content[work[n].id] # {}
      BY <1>0, <1>4 DEF Extracts, On, WorkSound, Claimed, Sections, TakenOut
    <2>2. lease' = lease /\ content' = content
      BY <1>4 DEF Extracts
    <2>3. PICK ph \in {"delete", "release", "requeue", "count"} : Goes(n, ph) /\ (ph = "delete" => work[n].id \in extracted')
      BY <1>4, <2>1 DEF Extracts
    <2> QED BY <1>0, <2>1, <2>2, <2>3, GoesFields DEF WorkSound, Claimed, Sections, TakenOut
  <1>5. CASE Deletes(n)
    <2>1. /\ work[n].phase = "delete" /\ "lease" \in work[n].held /\ work[n].id \in extracted
          /\ work[n].agent \in Agents /\ ~work[n].dead
          /\ work[n].id \in Tasks /\ AgentOf[work[n].id[1]] = work[n].agent /\ content[work[n].id] # {}
      BY <1>0, <1>5 DEF Deletes, On, WorkSound, Claimed, TakenOut
    <2>2. PICK a \in Agents, t \in Tasks, d \in Seq(Entries) : a = work[n].agent /\ t = work[n].id /\ d = file[a]
      BY <1>0, <2>1 DEF TypeOK
    <2>3. PICK doc \in Seq(Entries) : doc = Without(d, t)
      BY WithoutTask
    <2>4. /\ work'[n].phase = "rewrite" /\ work'[n].held = work[n].held \cup {"mutex"} /\ work'[n].agent = a
          /\ work'[n].id = t /\ ~work'[n].dead /\ work'[n].doc = doc
      <3>1. work' = [work EXCEPT ![n].phase = "rewrite", ![n].doc = doc, ![n].held = @ \cup {"mutex"}]
        BY <1>5, <2>2, <2>3 DEF Deletes
      <3> QED BY <1>0, <2>1, <2>2, <3>1 DEF TypeOK, Loops
    <2>5. mutex'[a] = n
      BY <1>0, <1>5, <2>2 DEF Deletes, TakesMutex, TypeOK
    <2>6. UNCHANGED <<lease, content, file, extracted>>
      BY <1>5 DEF Deletes
    <2>7. Backed(d, a)
      BY <2>2 DEF SkillInv
    <2>8. \A i \in 1..Len(doc) : content[doc[i].id] # {} /\ AgentOf[doc[i].id[1]] = a
      <3>1. \A i \in 1..Len(doc) : \E j \in 1..Len(d) : doc[i] = d[j]
        BY <2>3, WithoutTask
      <3> QED BY <2>7, <3>1 DEF Backed
    <2>9. \A u \in Tasks : Has(d, u) => Has(doc, u) \/ u = t
      BY <2>3, WithoutTask
    <2> QED BY <1>0, <2>1, <2>2, <2>4, <2>5, <2>6, <2>8, <2>9 DEF WorkSound, Claimed, Sections, TakenOut, Backed
  <1>6. CASE Counts(n)
    <2>1. /\ work[n].phase = "count" /\ "lease" \in work[n].held
          /\ work[n].agent \in Agents /\ ~work[n].dead
          /\ work[n].id \in Tasks /\ AgentOf[work[n].id[1]] = work[n].agent /\ content[work[n].id] # {}
      BY <1>0, <1>6 DEF Counts, On, WorkSound, Claimed, TakenOut
    <2>2. PICK a \in Agents, t \in Tasks, d \in Seq(Entries) : a = work[n].agent /\ t = work[n].id /\ d = file[a]
      BY <1>0, <2>1 DEF TypeOK
    <2>3. PICK doc \in Seq(Entries), last \in BOOLEAN : doc = CountedDoc(n) /\ last = LastFailure(n)
      BY <1>0, <2>1, CountedDocFacts
    <2>4. /\ work'[n].phase = "rewrite" /\ work'[n].held = work[n].held \cup {"mutex"} /\ work'[n].agent = a
          /\ work'[n].id = t /\ work'[n].dead = last /\ work'[n].doc = doc
      <3>1. work' = [work EXCEPT ![n].phase = "rewrite", ![n].dead = last, ![n].held = @ \cup {"mutex"}, ![n].doc = doc]
        BY <1>6, <2>3 DEF Counts, CountedDoc, LastFailure, Counted
      <3> QED BY <1>0, <2>1, <2>2, <3>1 DEF TypeOK, Loops
    <2>5. mutex'[a] = n
      <3>1. mutex' = [mutex EXCEPT ![a] = n]
        BY <1>6, <2>2 DEF Counts, TakesMutex
      <3> QED BY <1>0, <3>1 DEF TypeOK
    <2>6. UNCHANGED <<lease, content, file, extracted>>
      BY <1>6 DEF Counts
    <2>7. Backed(d, a)
      BY <2>2 DEF SkillInv
    <2>8. \A i \in 1..Len(doc) : content[doc[i].id] # {} /\ AgentOf[doc[i].id[1]] = a
      BY <1>0, <2>2, <2>3, <2>7, CountedDocFacts DEF Backed
    <2>9. \A u \in Tasks : Has(d, u) => Has(doc, u) \/ (u = t /\ last)
      BY <1>0, <2>2, <2>3, CountedDocFacts
    <2> QED BY <1>0, <2>1, <2>2, <2>4, <2>5, <2>6, <2>8, <2>9 DEF WorkSound, Claimed, Sections, TakenOut, Backed
  <1>7. CASE Rewrites(n)
    <2>1. UNCHANGED <<lease, content>> /\ work[n].phase = "rewrite"
      BY <1>7 DEF Rewrites, On
    <2>2. CASE GivesMutex(n)
      BY <1>0, <2>1, <2>2, GivesSound
    <2>3. CASE UNCHANGED mutex /\ \E ph \in {"srem", "requeue"} : Goes(n, ph)
      <3>1. /\ "lease" \in work[n].held /\ "mutex" \in work[n].held /\ mutex[work[n].agent] = n
            /\ work[n].agent \in Agents
            /\ work[n].id \in Tasks /\ AgentOf[work[n].id[1]] = work[n].agent /\ content[work[n].id] # {}
        BY <1>0, <2>1 DEF WorkSound, Claimed
      <3> QED BY <1>0, <2>1, <2>3, <3>1, GoesFields DEF WorkSound, Claimed, Sections, TakenOut
    <2> QED BY <1>7, <2>2, <2>3 DEF Rewrites
  <1>8. CASE Srems(n)
    <2>1. UNCHANGED <<lease, content, mutex>> /\ work[n].phase = "srem" /\ Goes(n, "lrem")
      BY <1>8 DEF Srems, On
    <2> QED BY <1>0, <2>1, GoesFields DEF WorkSound, Claimed, Sections, TakenOut
  <1>9. CASE Requeues(n)
    <2>1. UNCHANGED <<lease, content, mutex>> /\ work[n].phase = "requeue" /\ Goes(n, "relist")
      BY <1>9 DEF Requeues, On
    <2> QED BY <1>0, <2>1, GoesFields DEF WorkSound, Claimed, Sections, TakenOut
  <1>10. CASE Lrems(n) \/ Relists(n)
    BY <1>0, <1>10, GivesSound DEF Lrems, Relists, On
  <1>11. CASE Buries(n)
    <2>1. UNCHANGED <<lease, content, mutex>> /\ work[n].phase = "bury" /\ Goes(n, "release")
      BY <1>11 DEF Buries, On
    <2> QED BY <1>0, <2>1, GoesFields DEF WorkSound, Claimed, Sections, TakenOut
  <1>12. CASE ReleasesExtractLock(n) \/ ConsumeThrows(n)
    <2>1. work'[n] = NoWork
      BY <1>0, <1>12 DEF ReleasesExtractLock, ConsumeThrows, TypeOK
    <2> QED BY <2>1, NoWorkSound
  <1> QED BY <1>1, <1>2, <1>3, <1>4, <1>5, <1>6, <1>7, <1>8, <1>9, <1>10, <1>11, <1>12 DEF LoopActs, Works

-----------------------------------------------------------------------------
(* The tasks file, the confirmed messages, the registered tasks.           *)

LEMMA FileStep == ASSUME SkillInv, [Next]_vars, NEW a \in Agents PROVE Backed(file[a], a)'
  <1>0. TypeOK /\ Backed(file[a], a)
    BY DEF SkillInv
  <1>1. CASE file'[a] = file[a]
    <2>1. PICK d \in Seq(Entries) : d = file[a] /\ d = file'[a]
      BY <1>0, <1>1 DEF TypeOK
    <2>2. \A i \in 1..Len(d) : content'[d[i].id] # {} /\ AgentOf[d[i].id[1]] = a
      BY <1>0, <2>1, BackedStays
    <2> QED BY <2>1, <2>2 DEF Backed
  <1>2. ASSUME NEW s \in Sessions, a = AgentOf[s], Registers(s) PROVE Backed(file[a], a)'
    <2>1. PICK d \in Seq(Entries) : d = hand[s].doc
      BY <1>0 DEF TypeOK, Handlers
    <2>2. Backed(d, a)
      <3>1. HandSound(s)
        BY DEF SkillInv
      <3> QED BY <1>2, <2>1, <3>1 DEF HandSound, Registers, At
    <2>3. file'[a] = d
      BY <1>0, <1>2, <2>1 DEF Registers, TypeOK
    <2>4. \A i \in 1..Len(d) : content'[d[i].id] # {} /\ AgentOf[d[i].id[1]] = a
      BY <2>2, BackedStays
    <2> QED BY <2>3, <2>4 DEF Backed
  <1>3. ASSUME NEW n \in Nodes, a = work[n].agent, Rewrites(n) PROVE Backed(file[a], a)'
    <2>1. PICK d \in Seq(Entries) : d = work[n].doc
      BY <1>0 DEF TypeOK, Loops
    <2>2. Backed(d, a)
      <3>1. WorkSound(n)
        BY DEF SkillInv
      <3> QED BY <1>3, <2>1, <3>1 DEF WorkSound, Rewrites, On
    <2>3. file'[a] = d
      <3>1. file' = [file EXCEPT ![a] = d]
        BY <1>3, <2>1 DEF Rewrites
      <3> QED BY <1>0, <3>1 DEF TypeOK
    <2>4. \A i \in 1..Len(d) : content'[d[i].id] # {} /\ AgentOf[d[i].id[1]] = a
      BY <2>2, BackedStays
    <2> QED BY <2>3, <2>4 DEF Backed
  <1>4. UNCHANGED vars => file'[a] = file[a]
    BY DEF vars
  <1> QED BY <1>1, <1>2, <1>3, <1>4, Actors, SessionEffects, LoopEffects, PoolEffects, LockEffects

LEMMA KeptStep ==
  ASSUME SkillInv, [Next]_vars, NEW s \in Sessions
  PROVE  \A m \in 1..accepted'[s] : m \in buffer'[s].current \/ Archived(s, m)'
  <1>0. TypeOK /\ HandSound(s) /\ accepted[s] \in Nat
    BY Bounds DEF SkillInv, TypeOK
  <1>1. \A m \in 1..accepted[s] : m \in buffer[s].current \/ Archived(s, m)
    BY DEF SkillInv
  <1>2. CASE buffer'[s] = buffer[s] /\ accepted'[s] = accepted[s]
    BY <1>1, <1>2, ArchivedStays
  <1>3. CASE WritesBack(s)
    <2>1. PICK part \in hand[s].todo :
         /\ buffer' = [buffer EXCEPT ![s] = IF part = "current" THEN [@ EXCEPT !.current = hand[s].msgs]
                                            ELSE [@ EXCEPT !.count = hand[s].count]]
         /\ IF hand[s].todo = {part}
            THEN hand' = [hand EXCEPT ![s] = NoHandler] /\ accepted' = [accepted EXCEPT ![s] = @ + 1]
            ELSE hand' = [hand EXCEPT ![s].todo = @ \ {part}] /\ UNCHANGED accepted
      BY <1>3 DEF WritesBack
    <2>2. buffer[s] \in [current : SUBSET Messages, count : Nat]
      BY <1>0 DEF TypeOK
    <2>3. buffer'[s].current = IF part = "current" THEN hand[s].msgs ELSE buffer[s].current
      BY <1>0, <2>1, <2>2 DEF TypeOK
    <2>4. /\ \A m \in 1..(accepted[s] + 1) : m \in hand[s].msgs \/ Archived(s, m)
          /\ "current" \notin hand[s].todo => buffer[s].current = hand[s].msgs
      BY <1>0, <1>3 DEF HandSound, WritesBack, At
    <2>5. \/ accepted'[s] = accepted[s]
          \/ accepted'[s] = accepted[s] + 1 /\ hand[s].todo = {part}
      BY <1>0, <2>1 DEF TypeOK
    <2>6. \/ buffer'[s].current = hand[s].msgs
          \/ buffer'[s].current = buffer[s].current /\ accepted'[s] = accepted[s]
      BY <2>3, <2>4, <2>5
    <2> QED BY <1>0, <1>1, <2>4, <2>5, <2>6, ArchivedStays
  <1>4. SessionActs(s) /\ ~WritesBack(s) => buffer' = buffer /\ accepted' = accepted
    <2>1. CASE Adds(s) \/ Archives(s) \/ Enters(s) \/ Registers(s) \/ HandlerFails(s)
      BY <2>1 DEF Adds, Archives, Enters, Registers, HandlerFails
    <2>2. CASE SaddsAgent(s) \/ LpushesAgent(s)
      BY <2>2 DEF SaddsAgent, LpushesAgent, Returns
    <2> QED BY <2>1, <2>2 DEF SessionActs, Handles
  <1> QED BY <1>2, <1>3, <1>4, HandHolds

\* The loop that has taken a dead task out carries it to the dead letters.
LEMMA CarriedStep ==
  ASSUME SkillInv, [Next]_vars, NEW n \in Nodes, work[n].dead, work[n].phase \in TakenOut
  PROVE  \/ work'[n].dead /\ work'[n].id = work[n].id /\ work'[n].phase \in TakenOut
         \/ work[n].id \in dropped' \cup dlq'[work[n].agent]
  <1>0. TypeOK /\ WorkSound(n) /\ work[n].agent \in Agents
    BY DEF SkillInv, WorkSound, TakenOut
  <1>1. CASE work'[n] = work[n]
    BY <1>1
  <1>2. CASE Dies(n)
    BY <1>2 DEF Dies, TakenOut
  <1>3. CASE LoopActs(n)
    <2>1. CASE Srems(n)
      BY <1>0, <2>1, GoesFields DEF Srems, TakenOut
    <2>2. CASE Requeues(n)
      BY <1>0, <2>2, GoesFields DEF Requeues, TakenOut
    <2>3. CASE Lrems(n) \/ Relists(n)
      BY <1>0, <2>3, GivesFields DEF Lrems, Relists, TakenOut
    <2>4. CASE Buries(n)
      <3>1. CASE dlq' = [dlq EXCEPT ![work[n].agent] = @ \cup {work[n].id}]
        BY <1>0, <3>1 DEF TypeOK
      <3> QED BY <2>4, <3>1 DEF Buries
    <2>5. CASE ConsumeThrows(n)
      BY <2>5 DEF ConsumeThrows, TakenOut
    <2>6. CASE Peeks(n) \/ AcquiresExtractLock(n) \/ ReadsHead(n) \/ Extracts(n) \/ Deletes(n)
               \/ Counts(n) \/ Rewrites(n) \/ ReleasesExtractLock(n)
      BY <2>6 DEF TakenOut, On, Peeks, AcquiresExtractLock, ReadsHead, Extracts, Deletes, Counts,
                  Rewrites, ReleasesExtractLock
    <2> QED BY <1>3, <2>1, <2>2, <2>3, <2>4, <2>5, <2>6 DEF LoopActs, Works
  <1>4. UNCHANGED vars => work'[n] = work[n]
    BY DEF vars
  <1> QED BY <1>1, <1>2, <1>3, <1>4, Actors, SessionEffects, LoopEffects, PoolEffects, LockEffects

LEMMA SafeStep == ASSUME SkillInv, [Next]_vars, NEW t \in registered' PROVE TaskSafe(t)'
  <1>0. TypeOK /\ TypeOK' /\ Grows
    BY TypeStep, Growing DEF SkillInv
  <1>1. PICK a \in Agents : t \in Tasks /\ a = AgentOf[t[1]]
    <2>1. t \in Tasks
      BY <1>0 DEF TypeOK
    <2>2. t[1] \in Sessions
      BY <2>1 DEF Tasks
    <2> QED BY <2>1, <2>2, Bounds
  <1>2. CASE t \in extracted \cup dropped \cup dlq[a]
    BY <1>0, <1>1, <1>2 DEF Grows, TaskSafe
  <1>3. CASE Has(file[a], t)
    <2>1. CASE file'[a] = file[a]
      BY <1>1, <1>3, <2>1 DEF TaskSafe
    <2>2. ASSUME NEW s \in Sessions, a = AgentOf[s], Registers(s) PROVE TaskSafe(t)'
      <3>1. HandSound(s)
        BY DEF SkillInv
      <3>2. Has(hand[s].doc, t)
        BY <1>1, <1>3, <2>2, <3>1 DEF HandSound, Registers, At
      <3>3. file'[a] = hand[s].doc
        BY <1>0, <2>2 DEF Registers, TypeOK
      <3> QED BY <1>1, <3>2, <3>3 DEF TaskSafe
    <2>3. ASSUME NEW n \in Nodes, a = work[n].agent, Rewrites(n) PROVE TaskSafe(t)'
      <3>1. WorkSound(n) /\ work[n].phase = "rewrite"
        BY <2>3 DEF SkillInv, Rewrites, On
      <3>2. file'[a] = work[n].doc
        <4>1. file' = [file EXCEPT ![a] = work[n].doc]
          BY <2>3 DEF Rewrites
        <4> QED BY <1>0, <4>1 DEF TypeOK
      <3>3. Has(work[n].doc, t) \/ (t = work[n].id /\ (work[n].dead \/ t \in extracted))
        BY <1>1, <1>3, <2>3, <3>1 DEF WorkSound
      <3>4. CASE t = work[n].id /\ work[n].dead
        <4>1. work'[n].dead /\ work'[n].id = t /\ work'[n].phase \in TakenOut
          <5>1. CASE GivesMutex(n)
            BY <1>0, <3>4, <5>1, GivesFields DEF TakenOut
          <5>2. CASE \E ph \in {"srem", "requeue"} : Goes(n, ph)
            BY <1>0, <3>4, <5>2, GoesFields DEF TakenOut
          <5> QED BY <2>3, <5>1, <5>2 DEF Rewrites
        <4> QED BY <4>1 DEF TaskSafe
      <3> QED BY <1>0, <1>1, <3>2, <3>3, <3>4 DEF TaskSafe, Grows
    <2>4. UNCHANGED vars => file'[a] = file[a]
      BY DEF vars
    <2> QED BY <2>1, <2>2, <2>3, <2>4, Actors, SessionEffects, LoopEffects, PoolEffects, LockEffects
  <1>4. ASSUME NEW n \in Nodes, work[n].dead, work[n].id = t, work[n].phase \in TakenOut PROVE TaskSafe(t)'
    <2>1. work[n].agent = a
      <3>1. WorkSound(n)
        BY DEF SkillInv
      <3> QED BY <1>1, <1>4, <3>1 DEF WorkSound
    <2> QED BY <1>1, <1>4, <2>1, CarriedStep DEF TaskSafe
  <1>5. CASE t \in registered
    <2>1. TaskSafe(t)
      BY <1>5 DEF SkillInv
    <2> QED BY <1>1, <1>2, <1>3, <1>4, <2>1 DEF TaskSafe
  <1>6. CASE t \notin registered
    <2>1. PICK s \in Sessions : hand[s].phase \in {"sadd", "lpush"} /\ t = hand[s].id
      <3>1. registered' # registered
        BY <1>6
      <3>2. UNCHANGED vars => registered' = registered
        BY DEF vars
      <3> QED BY <1>6, <3>1, <3>2, Actors, SessionEffects, LoopEffects, PoolEffects, LockEffects
    <2>2. HandSound(s)
      BY DEF SkillInv
    <2> QED BY <1>1, <1>3, <2>1, <2>2 DEF HandSound
  <1> QED BY <1>5, <1>6

-----------------------------------------------------------------------------
(* Theorems.                                                               *)

LEMMA SkillInit == Init => SkillInv
  <1> SUFFICES ASSUME Init PROVE SkillInv
    OBVIOUS
  <1>1. TypeOK
    BY SkillTypeInit
  <1>2. ASSUME NEW n \in Nodes PROVE WorkSound(n)
    <2>1. work[n] = NoWork
      BY DEF Init
    <2> QED BY <2>1 DEF WorkSound, NoWork, Claimed, Sections, TakenOut
  <1>3. ASSUME NEW s \in Sessions PROVE HandSound(s)
    <2>1. hand[s] = NoHandler
      BY DEF Init
    <2> QED BY <2>1 DEF HandSound, NoHandler, Inside
  <1>4. ASSUME NEW a \in Agents PROVE Backed(file[a], a)
    BY DEF Init, Backed
  <1>5. ASSUME NEW s \in Sessions PROVE 1..accepted[s] = {}
    BY DEF Init
  <1>6. registered = {}
    BY DEF Init
  <1> QED BY <1>1, <1>2, <1>3, <1>4, <1>5, <1>6 DEF SkillInv

LEMMA SkillStep == SkillInv /\ [Next]_vars => SkillInv'
  <1> SUFFICES ASSUME SkillInv, [Next]_vars PROVE SkillInv'
    OBVIOUS
  <1>1. \A n \in Nodes : WorkSound(n)'
    BY LoopFrame, LoopStep
  <1>2. \A s \in Sessions : HandSound(s)'
    BY HandFrame, HandStep
  <1> QED BY <1>1, <1>2, TypeStep, FileStep, KeptStep, SafeStep DEF SkillInv

\* SkillInv is an invariant of the specification; type correctness is part of it.
THEOREM SkillSound == Spec => []SkillInv
  <1> QED BY SkillInit, SkillStep, PTL DEF Spec

\* Every variable keeps its type.
THEOREM SkillTypes == Spec => []TypeOK
  <1>1. SkillInv => TypeOK
    BY DEF SkillInv
  <1> QED BY <1>1, SkillSound, PTL

\* A task that archive() has confirmed is in its agent's file until it is
\* extracted, dead-lettered or dropped on the way there: read-modify-write of
\* the file by handlers and loops loses none, whatever fails or dies.
THEOREM SkillNoTaskLost == Spec => []NoTaskLost
  <1>1. SkillInv => NoTaskLost
    BY DEF SkillInv, TaskSafe, NoTaskLost
  <1> QED BY <1>1, SkillSound, PTL

\* A message whose request was answered with success is in the buffer or in the
\* archive of a registered task.
THEOREM SkillMessagesKept == Spec => []MessagesKept
  <1>1. SkillInv => MessagesKept
    BY DEF SkillInv, Archived, MessagesKept
  <1> QED BY <1>1, SkillSound, PTL

\* Two loops work on one agent's tasks only after a lock expired under its owner.
THEOREM SkillOneExtractor == Spec => []OneExtractor
  <1>1. ASSUME SkillInv PROVE OneExtractor
    <2> SUFFICES ASSUME NEW n \in Nodes, NEW m \in Nodes, n # m,
                        {work[n].phase, work[m].phase} \subseteq
                          {"head", "extract", "delete", "count", "rewrite", "bury"},
                        work[n].agent = work[m].agent, ~overrun
                 PROVE  FALSE
      BY DEF OneExtractor
    <2>1. WorkSound(n) /\ WorkSound(m)
      BY <1>1 DEF SkillInv
    <2>2. lease[work[n].agent] = n /\ lease[work[m].agent] = m
      BY <2>1 DEF WorkSound, Claimed
    <2> QED BY <2>2
  <1> QED BY <1>1, SkillSound, PTL
=============================================================================
