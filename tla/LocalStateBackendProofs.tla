----------------------- MODULE LocalStateBackendProofs -----------------------
(***************************************************************************)
(* The in-process backend keeps its queue, its pending list and its        *)
(* waiters consistent, for any number of workers, tasks, messages,         *)
(* instances, waiters and any clock, and implements the queue the workers  *)
(* rely on (TaskQueue).                                                    *)
(***************************************************************************)
EXTENDS LocalStateBackend, SequenceTheorems, NaturalsInduction, WellFoundedInduction, TLAPS

-----------------------------------------------------------------------------
(* What Keeping returns, for every sequence.  The library's induction      *)
(* rules take an operator as a parameter; the arguments by induction are   *)
(* over a least counterexample instead.                                    *)

\* A non-empty set of numbers has a least one.
LEMMA LeastNumber ==
  ASSUME NEW I \in SUBSET Nat, I # {}
  PROVE  \E x \in I : \A y \in I : x =< y
  <1> DEFINE R == {p \in Nat \X Nat : p[1] < p[2]}
  <1>1. IsWellFoundedOn(R, Nat)
    BY NatLessThanWellFounded DEF OpToRel
  <1>2. PICK x \in I : \A y \in I : ~ (<<y, x>> \in R)
    BY <1>1, WFMin
  <1>3. ASSUME NEW y \in I PROVE x =< y
    <2>1. x \in Nat /\ y \in Nat
      OBVIOUS
    <2>2. y < x => <<y, x>> \in R
      BY <2>1
    <2> QED BY <1>2, <2>1, <2>2
  <1> QED BY <1>2, <1>3

-----------------------------------------------------------------------------
\* What the definition says of the values of kept up to n.
Filled(f, s, X, n) ==
  [i \in 0..n |-> IF i = 0 THEN <<>>
                  ELSE IF s[i] \in X THEN Append(f[i - 1], s[i]) ELSE f[i - 1]]

USE DEF Filled

\* The recursive function Keeping is defined by exists and has the values its
\* definition gives it.
LEMMA KeepingDefined ==
  ASSUME NEW S, NEW s \in Seq(S), NEW X
  PROVE  \E f : /\ f = Filled(f, s, X, Len(s))
                /\ Keeping(s, X) = f[Len(s)]
  <1> DEFINE D(f, n) == f = Filled(f, s, X, n)
             Bad == {n \in Nat : ~ \E f : D(f, n)}
  <1>1. \E f : D(f, 0)
    <2> DEFINE f == [i \in 0..0 |-> <<>>]
    <2>1. D(f, 0)
      OBVIOUS
    <2> QED BY <2>1
  <1>2. ASSUME NEW n \in Nat, NEW g, D(g, n) PROVE \E f : D(f, n + 1)
    <2> DEFINE f == [i \in 0..(n + 1) |->
                       IF i = n + 1 THEN IF s[i] \in X THEN Append(g[n], s[i]) ELSE g[n] ELSE g[i]]
    <2>1. D(f, n + 1)
      <3>1. ASSUME NEW i \in 0..(n + 1)
            PROVE  f[i] = IF i = 0 THEN <<>> ELSE IF s[i] \in X THEN Append(f[i - 1], s[i]) ELSE f[i - 1]
        <4>1. CASE i = n + 1
          BY <4>1
        <4>2. CASE i # n + 1
          <5>1. i \in 0..n
            BY <4>2
          <5>2. g[i] = IF i = 0 THEN <<>> ELSE IF s[i] \in X THEN Append(g[i - 1], s[i]) ELSE g[i - 1]
            BY <1>2, <5>1
          <5>3. f[i] = g[i] /\ (i # 0 => f[i - 1] = g[i - 1])
            BY <5>1
          <5> QED BY <5>2, <5>3
        <4> QED BY <4>1, <4>2
      <3> HIDE DEF f
      <3>2. f = [i \in 0..(n + 1) |-> f[i]]
        BY DEF f
      <3> QED BY <3>1, <3>2
    <2> HIDE DEF f
    <2> QED BY <2>1
  <1>3. \A n \in Nat : \E f : D(f, n)
    <2>1. SUFFICES ASSUME Bad # {} PROVE FALSE
      OBVIOUS
    <2> HIDE DEF D
    <2>2. PICK x \in Bad : \A y \in Bad : x =< y
      <3> Bad \in SUBSET Nat
        OBVIOUS
      <3> HIDE DEF Bad
      <3> QED BY <2>1, LeastNumber
    <2>3. x # 0
      BY <1>1
    <2>4. x - 1 \in Nat /\ x - 1 \notin Bad
      BY <2>2, <2>3
    <2>5. PICK g : D(g, x - 1)
      BY <2>4
    <2> QED BY <1>2, <2>4, <2>5
  <1>4. PICK f : D(f, Len(s))
    BY <1>3
  <1> DEFINE c == CHOOSE h : D(h, Len(s))
  <1>5. D(c, Len(s))
    BY <1>4
  <1>6. Keeping(s, X) = c[Len(s)]
    BY DEF Keeping
  <1> QED BY <1>5, <1>6

-----------------------------------------------------------------------------
\* t is what s[1..n] leaves: every element of X in it, in the same order.
Embeds(t, s, n, X) ==
  \E h \in [1..Len(t) -> 1..n] :
    /\ \A k \in 1..Len(t) : t[k] = s[h[k]] /\ s[h[k]] \in X
    /\ \A i \in 1..n : s[i] \in X => \E k \in 1..Len(t) : h[k] = i
    /\ \A j, k \in 1..Len(t) : j < k => h[j] < h[k]

\* An element outside X changes nothing.
LEMMA EmbedsSkip ==
  ASSUME NEW S, NEW s \in Seq(S), NEW X, NEW n \in Nat, n < Len(s), NEW t \in Seq(S), Embeds(t, s, n, X),
         s[n + 1] \notin X
  PROVE  Embeds(t, s, n + 1, X)
  <1>1. PICK h \in [1..Len(t) -> 1..n] :
              /\ \A k \in 1..Len(t) : t[k] = s[h[k]] /\ s[h[k]] \in X
              /\ \A i \in 1..n : s[i] \in X => \E k \in 1..Len(t) : h[k] = i
              /\ \A j, k \in 1..Len(t) : j < k => h[j] < h[k]
    BY DEF Embeds
  <1>2. h \in [1..Len(t) -> 1..(n + 1)]
    <2>1. 1..n \subseteq 1..(n + 1)
      OBVIOUS
    <2> QED BY <2>1
  <1>3. \A i \in 1..(n + 1) : s[i] \in X => i \in 1..n
    OBVIOUS
  <1> QED BY <1>1, <1>2, <1>3 DEF Embeds

\* An element of X is appended.
LEMMA EmbedsAppend ==
  ASSUME NEW S, NEW s \in Seq(S), NEW X, NEW n \in Nat, n < Len(s), NEW t \in Seq(S), Embeds(t, s, n, X),
         s[n + 1] \in X
  PROVE  Append(t, s[n + 1]) \in Seq(S) /\ Embeds(Append(t, s[n + 1]), s, n + 1, X)
  <1>1. PICK h \in [1..Len(t) -> 1..n] :
              /\ \A k \in 1..Len(t) : t[k] = s[h[k]] /\ s[h[k]] \in X
              /\ \A i \in 1..n : s[i] \in X => \E k \in 1..Len(t) : h[k] = i
              /\ \A j, k \in 1..Len(t) : j < k => h[j] < h[k]
    BY DEF Embeds
  <1> DEFINE u == Append(t, s[n + 1])
             m == Len(t)
             g == [k \in 1..(m + 1) |-> IF k = m + 1 THEN n + 1 ELSE h[k]]
  <1>2. m \in Nat /\ s[n + 1] \in S
    BY ElementOfSeq, LenProperties
  <1>3. u \in Seq(S) /\ Len(u) = m + 1 /\ u[m + 1] = s[n + 1] /\ \A k \in 1..m : u[k] = t[k]
    BY <1>2, AppendProperties
  <1> HIDE DEF u, m
  <1>4. \A k \in 1..(m + 1) : k # m + 1 => k \in 1..m /\ h[k] \in 1..n
    BY <1>2 DEF m
  <1>5. g \in [1..(m + 1) -> 1..(n + 1)]
    <2>1. ASSUME NEW k \in 1..(m + 1) PROVE g[k] \in 1..(n + 1)
      <3>1. k # m + 1 => h[k] \in 1..n
        BY <1>4
      <3> QED BY <3>1
    <2> QED BY <2>1
  <1>6. ASSUME NEW k \in 1..(m + 1) PROVE u[k] = s[g[k]] /\ s[g[k]] \in X
    BY <1>1, <1>3, <1>4 DEF m
  <1>7. ASSUME NEW i \in 1..(n + 1), s[i] \in X PROVE \E k \in 1..(m + 1) : g[k] = i
    <2>1. CASE i = n + 1
      BY <2>1, <1>2
    <2>2. CASE i # n + 1
      <3>1. PICK k \in 1..m : h[k] = i
        BY <1>1, <1>7, <2>2 DEF m
      <3>2. k \in 1..(m + 1) /\ k # m + 1
        BY <1>2
      <3> QED BY <3>1, <3>2
    <2> QED BY <2>1, <2>2
  <1>8. ASSUME NEW j \in 1..(m + 1), NEW k \in 1..(m + 1), j < k PROVE g[j] < g[k]
    <2>1. j \in 1..m /\ h[j] \in 1..n /\ g[j] = h[j]
      BY <1>2, <1>4, <1>8
    <2>2. CASE k = m + 1
      BY <2>1, <2>2
    <2>3. CASE k # m + 1
      BY <1>1, <1>4, <1>8, <2>1, <2>3 DEF m
    <2> QED BY <2>2, <2>3
  <1> HIDE DEF g
  <1>9. Embeds(u, s, n + 1, X)
    <2>1. g \in [1..Len(u) -> 1..(n + 1)]
      BY <1>3, <1>5
    <2>2. \A k \in 1..Len(u) : u[k] = s[g[k]] /\ s[g[k]] \in X
      BY <1>3, <1>6
    <2>3. \A i \in 1..(n + 1) : s[i] \in X => \E k \in 1..Len(u) : g[k] = i
      BY <1>3, <1>7
    <2>4. \A j, k \in 1..Len(u) : j < k => g[j] < g[k]
      BY <1>3, <1>8
    <2> QED BY <2>1, <2>2, <2>3, <2>4 DEF Embeds
  <1> QED BY <1>3, <1>9 DEF u

\* Keeping(s, X) is a sequence over the same elements that embeds into s.
LEMMA KeepingProperties ==
  ASSUME NEW S, NEW s \in Seq(S), NEW X
  PROVE  Keeping(s, X) \in Seq(S) /\ Embeds(Keeping(s, X), s, Len(s), X)
  <1>1. PICK f : /\ f = Filled(f, s, X, Len(s))
                 /\ Keeping(s, X) = f[Len(s)]
    BY KeepingDefined
  <1> DEFINE Good(n) == f[n] \in Seq(S) /\ Embeds(f[n], s, n, X)
             Bad == {n \in 0..Len(s) : ~Good(n)}
  <1>2. Len(s) \in Nat
    BY LenProperties
  <1>3. Good(0)
    <2>1. f[0] = <<>>
      BY <1>1, <1>2
    <2>2. <<>> \in Seq(S) /\ Len(<<>>) = 0
      BY EmptySeq
    <2>3. <<>> \in [1..0 -> 1..0]
      OBVIOUS
    <2>4. Embeds(<<>>, s, 0, X)
      <3> DEFINE e == <<>>
      <3>1. e \in [1..Len(e) -> 1..0] /\ Len(e) = 0
        BY <2>2, <2>3
      <3> HIDE DEF e
      <3>2. \A k \in 1..Len(e) : FALSE
        BY <3>1
      <3>3. \A i \in 1..0 : FALSE
        OBVIOUS
      <3>4. /\ \A k \in 1..Len(e) : e[k] = s[e[k]] /\ s[e[k]] \in X
            /\ \A i \in 1..0 : s[i] \in X => \E k \in 1..Len(e) : e[k] = i
            /\ \A j, k \in 1..Len(e) : j < k => e[j] < e[k]
        BY <3>2, <3>3, Zenon
      <3>5. Embeds(e, s, 0, X)
        BY <3>1, <3>4 DEF Embeds
      <3> QED BY <3>5 DEF e
    <2> QED BY <2>1, <2>2, <2>4
  <1>4. ASSUME NEW n \in Nat, n < Len(s), Good(n) PROVE Good(n + 1)
    <2>1. f[n + 1] = IF s[n + 1] \in X THEN Append(f[n], s[n + 1]) ELSE f[n]
      <3>1. n + 1 \in 0..Len(s) /\ n + 1 # 0 /\ (n + 1) - 1 = n
        BY <1>2, <1>4
      <3> QED BY <1>1, <3>1
    <2> QED BY <1>4, <2>1, EmbedsSkip, EmbedsAppend
  <1>5. Bad = {}
    <2>1. SUFFICES ASSUME Bad # {} PROVE FALSE
      OBVIOUS
    <2> HIDE DEF Good
    <2>2. PICK x \in Bad : \A y \in Bad : x =< y
      <3> Bad \in SUBSET Nat
        BY <1>2
      <3> HIDE DEF Bad
      <3> QED BY <2>1, LeastNumber
    <2>3. x # 0 /\ x \in 0..Len(s) /\ ~Good(x)
      BY <1>3, <2>2
    <2>4. x - 1 \in Nat /\ x - 1 < Len(s) /\ x - 1 \in 0..Len(s) /\ x - 1 \notin Bad
      BY <1>2, <2>2, <2>3
    <2>5. Good(x - 1)
      BY <2>4
    <2> QED BY <1>4, <2>3, <2>4, <2>5
  <1>6. Good(Len(s))
    BY <1>2, <1>5
  <1> QED BY <1>1, <1>6

HIDE DEF Filled

-----------------------------------------------------------------------------
(* The inductive invariant.                                                *)

Bodies == [task : Tasks \cup {NoTask}, retry : 0..MaxRetries, createdAt : -1..MaxTime]
Entries == [msg : Msgs, owner : Workers, claimedAt : -MinIdle..MaxTime]
Waits == [worker : Workers, due : 0..(MaxTime + Block)]

\* Every message sent carries a task.
Carried == \A m \in Msgs : m < nextId => payload[m].task \in Tasks

\* The messages of a queue q and a pending list pd were sent, and each is in one
\* place, once.
Apart(q, pd, n) ==
  /\ \A i \in 1..Len(q) : q[i] < n
  /\ \A i \in 1..Len(pd) : pd[i].msg < n
  /\ \A i, j \in 1..Len(q) : q[i] = q[j] => i = j
  /\ \A i, j \in 1..Len(pd) : pd[i].msg = pd[j].msg => i = j
  /\ \A i \in 1..Len(q), j \in 1..Len(pd) : q[i] # pd[j].msg

\* The order DeliveryOrder asks of a queue q of messages with the payloads b.
Ordered(q, b) ==
  \A i, j \in 1..Len(q) :
    i < j => \/ Precedes(b[q[i]], b[q[j]])
             \/ ~Precedes(b[q[j]], b[q[i]]) /\ q[i] < q[j]

\* The inductive invariant.
BackendInv ==
  TypeOK /\ Carried /\ Apart(queue, pending, nextId) /\ NoWaiterWhileQueued /\ Ordered(queue, payload)

-----------------------------------------------------------------------------
(* Sequences.                                                              *)

\* Keeping leaves a sequence of the same elements, in the same order, and all
\* those of X.
LEMMA Kept3 ==
  ASSUME NEW S, NEW s \in Seq(S), NEW X, NEW t, t = Keeping(s, X)
  PROVE  /\ t \in Seq(S)
         /\ \A k \in 1..Len(t) : t[k] \in X
         /\ \A i \in 1..Len(s) : s[i] \in X => \E k \in 1..Len(t) : t[k] = s[i]
         /\ \E h \in [1..Len(t) -> 1..Len(s)] :
              /\ \A k \in 1..Len(t) : t[k] = s[h[k]]
              /\ \A j, k \in 1..Len(t) : j < k => h[j] < h[k]
  <1>1. t \in Seq(S) /\ Embeds(t, s, Len(s), X)
    BY KeepingProperties
  <1>2. PICK h \in [1..Len(t) -> 1..Len(s)] :
              /\ \A k \in 1..Len(t) : t[k] = s[h[k]] /\ s[h[k]] \in X
              /\ \A i \in 1..Len(s) : s[i] \in X => \E k \in 1..Len(t) : h[k] = i
              /\ \A j, k \in 1..Len(t) : j < k => h[j] < h[k]
    BY <1>1 DEF Embeds
  <1>3. \A k \in 1..Len(t) : t[k] \in X
    BY <1>2
  <1>4. \A i \in 1..Len(s) : s[i] \in X => \E k \in 1..Len(t) : t[k] = s[i]
    BY <1>2
  <1>5. \E g \in [1..Len(t) -> 1..Len(s)] :
              /\ \A k \in 1..Len(t) : t[k] = s[g[k]]
              /\ \A j, k \in 1..Len(t) : j < k => g[j] < g[k]
    BY <1>2
  <1> QED BY <1>1, <1>3, <1>4, <1>5

\* InsertAt moves what follows by one.
LEMMA InsertAtShape ==
  ASSUME NEW S, NEW s \in Seq(S), NEW e \in S, NEW i \in 1..Len(s)
  PROVE  /\ InsertAt(s, i, e) \in Seq(S)
         /\ Len(InsertAt(s, i, e)) = Len(s) + 1
         /\ \A j \in 1..(Len(s) + 1) :
              InsertAt(s, i, e)[j] = IF j < i THEN s[j] ELSE IF j = i THEN e ELSE s[j - 1]
  <1> DEFINE a == SubSeq(s, 1, i - 1)
             b == <<e>>
             c == SubSeq(s, i, Len(s))
  <1>1. a \in Seq(S) /\ Len(a) = i - 1 /\ \A j \in 1..(i - 1) : a[j] = s[j]
    BY SubSeqProperties
  <1>2. b \in Seq(S) /\ Len(b) = 1 /\ b[1] = e
    OBVIOUS
  <1>3. c \in Seq(S) /\ Len(c) = Len(s) - i + 1 /\ \A j \in 1..(Len(s) - i + 1) : c[j] = s[i + j - 1]
    BY SubSeqProperties
  <1> HIDE DEF a, b, c
  <1> DEFINE d == a \o b
  <1>4. /\ d \in Seq(S) /\ Len(d) = Len(a) + Len(b)
        /\ \A j \in 1..(Len(a) + Len(b)) : d[j] = IF j <= Len(a) THEN a[j] ELSE b[j - Len(a)]
    BY <1>1, <1>2, ConcatProperties
  <1> HIDE DEF d
  <1>5. Len(d) = i /\ \A j \in 1..i : d[j] = IF j < i THEN s[j] ELSE e
    BY <1>1, <1>2, <1>4
  <1> DEFINE f == d \o c
  <1>6. /\ f \in Seq(S) /\ Len(f) = Len(d) + Len(c)
        /\ \A j \in 1..(Len(d) + Len(c)) : f[j] = IF j <= Len(d) THEN d[j] ELSE c[j - Len(d)]
    <2>1. d \in Seq(S) /\ c \in Seq(S)
      BY <1>3, <1>4
    <2> QED BY <2>1, ConcatProperties
  <1> HIDE DEF f
  <1>8. Len(s) \in Nat
    OBVIOUS
  <1>9. ASSUME NEW j \in 1..(Len(s) + 1)
        PROVE  f[j] = IF j < i THEN s[j] ELSE IF j = i THEN e ELSE s[j - 1]
    <2>1. CASE j =< i
      BY <1>3, <1>5, <1>6, <1>8, <2>1
    <2>2. CASE j > i
      <3>1. j - i \in 1..(Len(s) - i + 1) /\ i + (j - i) - 1 = j - 1
        BY <1>8, <2>2
      <3>2. f[j] = c[j - i]
        BY <1>3, <1>5, <1>6, <1>8, <2>2
      <3>3. c[j - i] = s[i + (j - i) - 1]
        BY <1>3, <3>1
      <3> QED BY <2>2, <3>1, <3>2, <3>3
    <2> QED BY <1>8, <2>1, <2>2
  <1>7. InsertAt(s, i, e) = f
    BY DEF InsertAt, a, b, c, d, f
  <1> QED BY <1>3, <1>5, <1>6, <1>7, <1>8, <1>9

\* RemoveAt stays a sequence.
LEMMA RemoveAtType ==
  ASSUME NEW S, NEW s \in Seq(S), NEW i \in 1..Len(s)
  PROVE  RemoveAt(s, i) \in Seq(S)
  <1>1. SubSeq(s, 1, i - 1) \in Seq(S) /\ SubSeq(s, i + 1, Len(s)) \in Seq(S)
    BY SubSeqProperties
  <1> QED BY <1>1, ConcatProperties DEF RemoveAt

\* t is the sequence q with m at position i.
Shifted(t, q, i, m) ==
  /\ Len(t) = Len(q) + 1
  /\ \A j \in 1..(Len(q) + 1) : t[j] = IF j < i THEN q[j] ELSE IF j = i THEN m ELSE q[j - 1]

\* A message is inserted before the first one it precedes.
LEMMA InsertShape ==
  ASSUME queue \in Seq(Msgs), NEW p, NEW m \in Msgs
  PROVE  /\ Insert(m, p) \in Seq(Msgs)
         /\ \E i \in 1..(Len(queue) + 1) :
              /\ \A j \in 1..Len(queue) : j < i => ~Precedes(p, payload[queue[j]])
              /\ i =< Len(queue) => Precedes(p, payload[queue[i]])
              /\ Shifted(Insert(m, p), queue, i, m)
  <1> DEFINE I == {j \in 1..Len(queue) : Precedes(p, payload[queue[j]])}
             k == IF I # {} THEN Min(I) ELSE 0
  <1>1. Insert(m, p) = IF k = 0 THEN Append(queue, m) ELSE InsertAt(queue, k, m)
    BY DEF Insert, SelectInSeq
  <1>2. Len(queue) \in Nat
    OBVIOUS
  <1>3. I = {} => k = 0
    OBVIOUS
  <1>4. I # {} => k \in I /\ \A y \in I : k =< y
    <2>1. I \in SUBSET Nat
      BY <1>2
    <2> HIDE DEF I
    <2>2. I # {} => \E x \in I : \A y \in I : x =< y
      BY <2>1, LeastNumber
    <2> QED BY <2>2 DEF Min
  <1>5. CASE I = {}
    <2>1. /\ Append(queue, m) \in Seq(Msgs) /\ Len(Append(queue, m)) = Len(queue) + 1
          /\ \A j \in 1..(Len(queue) + 1) :
               Append(queue, m)[j] = IF j < Len(queue) + 1 THEN queue[j] ELSE m
      BY AppendProperties
    <2>2. Insert(m, p) = Append(queue, m)
      BY <1>1, <1>3, <1>5
    <2>3. Shifted(Insert(m, p), queue, Len(queue) + 1, m)
      BY <1>2, <2>1, <2>2 DEF Shifted
    <2>4. \A j \in 1..Len(queue) : ~Precedes(p, payload[queue[j]])
      BY <1>5
    <2> QED BY <1>2, <2>1, <2>2, <2>3, <2>4
  <1>6. CASE I # {}
    <2>1. k \in 1..Len(queue) /\ k # 0 /\ Precedes(p, payload[queue[k]])
      BY <1>2, <1>4, <1>6
    <2>2. \A j \in 1..Len(queue) : j < k => ~Precedes(p, payload[queue[j]])
      BY <1>2, <1>4, <1>6
    <2> HIDE DEF I, k
    <2>3. Insert(m, p) = InsertAt(queue, k, m)
      BY <1>1, <2>1
    <2>4. /\ InsertAt(queue, k, m) \in Seq(Msgs)
          /\ Len(InsertAt(queue, k, m)) = Len(queue) + 1
          /\ \A j \in 1..(Len(queue) + 1) :
               InsertAt(queue, k, m)[j] = IF j < k THEN queue[j] ELSE IF j = k THEN m ELSE queue[j - 1]
      BY <2>1, InsertAtShape
    <2>5. Shifted(Insert(m, p), queue, k, m)
      BY <2>3, <2>4 DEF Shifted
    <2>6. k \in 1..(Len(queue) + 1)
      BY <1>2, <2>1
    <2> QED BY <2>1, <2>2, <2>3, <2>4, <2>5, <2>6
  <1> QED BY <1>5, <1>6

\* The messages of a queue q are distinct and older than m.
Below(q, m) ==
  /\ \A j \in 1..Len(q) : q[j] < m
  /\ \A j, k \in 1..Len(q) : q[j] = q[k] => j = k

\* t holds the messages of q and m, once each, m at position i.
Gains(t, q, i, m) ==
  /\ \A j \in 1..Len(t) : t[j] = m \/ \E k \in 1..Len(q) : t[j] = q[k]
  /\ \A k \in 1..Len(q) : \E j \in 1..Len(t) : t[j] = q[k]
  /\ t[i] = m /\ i \in 1..Len(t)
  /\ \A j, k \in 1..Len(t) : t[j] = t[k] => j = k

\* Inserting a message not in the queue keeps its entries distinct and adds
\* nothing but the message.
LEMMA InsertApart ==
  ASSUME NEW q \in Seq(Nat), NEW t \in Seq(Nat), NEW m \in Nat, NEW i \in 1..(Len(q) + 1),
         Shifted(t, q, i, m), Below(q, m)
  PROVE  Gains(t, q, i, m)
  <1> USE DEF Below
  <1>1. Len(q) \in Nat /\ Len(t) = Len(q) + 1
    BY DEF Shifted
  <1>2. \A j \in 1..Len(t) : t[j] = IF j < i THEN q[j] ELSE IF j = i THEN m ELSE q[j - 1]
    BY <1>1 DEF Shifted
  <1>3. \A j \in 1..Len(t) : j # i => IF j < i THEN j \in 1..Len(q) ELSE j - 1 \in 1..Len(q)
    BY <1>1
  <1>4. \A j \in 1..Len(t) : t[j] = m \/ \E k \in 1..Len(q) : t[j] = q[k]
    BY <1>2, <1>3
  <1>5. ASSUME NEW k \in 1..Len(q) PROVE \E j \in 1..Len(t) : t[j] = q[k]
    <2>1. CASE k < i
      <3>1. k \in 1..Len(t) /\ t[k] = q[k]
        BY <1>1, <1>2, <2>1
      <3> QED BY <3>1
    <2>2. CASE k >= i
      <3>1. k + 1 \in 1..Len(t) /\ ~(k + 1 < i) /\ k + 1 # i /\ (k + 1) - 1 = k
        BY <1>1, <2>2
      <3>2. t[k + 1] = q[k]
        BY <1>2, <3>1
      <3> QED BY <3>1, <3>2
    <2> QED BY <2>1, <2>2
  <1>6. t[i] = m /\ i \in 1..Len(t)
    BY <1>1, <1>2
  <1>7. \A j \in 1..Len(t) : j # i => t[j] < m
    BY <1>2, <1>3
  <1>8. ASSUME NEW j \in 1..Len(t), NEW k \in 1..Len(t), t[j] = t[k] PROVE j = k
    <2>1. CASE j = i \/ k = i
      BY <1>6, <1>7, <1>8, <2>1
    <2>2. CASE j # i /\ k # i
      <3>1. i \in Int /\ j \in Int /\ k \in Int
        BY <1>1
      <3>2. t[j] = IF j < i THEN q[j] ELSE q[j - 1]
        BY <1>2, <2>2
      <3>3. t[k] = IF k < i THEN q[k] ELSE q[k - 1]
        BY <1>2, <2>2
      <3>4. IF j < i THEN j \in 1..Len(q) ELSE j - 1 \in 1..Len(q)
        BY <1>3, <2>2
      <3>5. IF k < i THEN k \in 1..Len(q) ELSE k - 1 \in 1..Len(q)
        BY <1>3, <2>2
      <3>6. CASE j < i /\ k < i
        BY <1>8, <3>2, <3>3, <3>4, <3>5, <3>6
      <3>7. CASE j < i /\ ~(k < i)
        <4>1. j = k - 1
          BY <1>8, <3>2, <3>3, <3>4, <3>5, <3>7
        <4> QED BY <2>2, <3>1, <3>7, <4>1
      <3>8. CASE ~(j < i) /\ k < i
        <4>1. j - 1 = k
          BY <1>8, <3>2, <3>3, <3>4, <3>5, <3>8
        <4> QED BY <2>2, <3>1, <3>8, <4>1
      <3>9. CASE ~(j < i) /\ ~(k < i)
        <4>1. j - 1 = k - 1
          BY <1>8, <3>2, <3>3, <3>4, <3>5, <3>9
        <4> QED BY <3>1, <4>1
      <3> QED BY <3>6, <3>7, <3>8, <3>9
    <2> QED BY <2>1, <2>2
  <1> QED BY <1>4, <1>5, <1>6, <1>8 DEF Gains

\* t is what is left of s, in the same order.
Sub(t, s) ==
  \E h \in [1..Len(t) -> 1..Len(s)] :
    /\ \A k \in 1..Len(t) : t[k] = s[h[k]]
    /\ \A j, k \in 1..Len(t) : j < k => h[j] < h[k]

LEMMA SubSelf ==
  ASSUME NEW S, NEW s \in Seq(S)
  PROVE  Sub(s, s)
  <1> DEFINE h == [k \in 1..Len(s) |-> k]
  <1>1. h \in [1..Len(s) -> 1..Len(s)]
    OBVIOUS
  <1>2. \A k \in 1..Len(s) : s[k] = s[h[k]]
    OBVIOUS
  <1>3. \A j, k \in 1..Len(s) : j < k => h[j] < h[k]
    OBVIOUS
  <1> HIDE DEF h
  <1> QED BY <1>1, <1>2, <1>3 DEF Sub

LEMMA SubEmpty ==
  ASSUME NEW S, NEW s \in Seq(S)
  PROVE  Sub(<<>>, s)
  <1> DEFINE e == <<>>
  <1>1. Len(e) = 0 /\ e \in [1..0 -> 1..Len(s)]
    OBVIOUS
  <1> HIDE DEF e
  <1>2. \A k \in 1..Len(e) : FALSE
    BY <1>1
  <1>3. /\ \A k \in 1..Len(e) : e[k] = s[e[k]]
        /\ \A j, k \in 1..Len(e) : j < k => e[j] < e[k]
    BY <1>2, Zenon
  <1>4. Sub(e, s)
    BY <1>1, <1>3 DEF Sub
  <1> QED BY <1>4 DEF e

LEMMA SubTail ==
  ASSUME NEW S, NEW s \in Seq(S), s # <<>>
  PROVE  Sub(Tail(s), s)
  <1> DEFINE t == Tail(s)
             h == [k \in 1..Len(t) |-> k + 1]
  <1>1. t \in Seq(S) /\ Len(t) = Len(s) - 1 /\ Len(s) \in Nat /\ \A k \in 1..Len(t) : t[k] = s[k + 1]
    BY HeadTailProperties
  <1> HIDE DEF t
  <1>2. h \in [1..Len(t) -> 1..Len(s)]
    BY <1>1
  <1>3. \A k \in 1..Len(t) : t[k] = s[h[k]]
    BY <1>1
  <1>4. \A j, k \in 1..Len(t) : j < k => h[j] < h[k]
    OBVIOUS
  <1> HIDE DEF h
  <1>5. Sub(t, s)
    BY <1>2, <1>3, <1>4 DEF Sub
  <1> QED BY <1>5 DEF t

LEMMA SubKeeping ==
  ASSUME NEW S, NEW s \in Seq(S), NEW X
  PROVE  Keeping(s, X) \in Seq(S) /\ Sub(Keeping(s, X), s)
  BY Kept3 DEF Sub

\* What is apart and ordered stays so when messages leave.
LEMMA SubApart ==
  ASSUME NEW S, NEW q \in Seq(Nat), NEW pd \in Seq(S), NEW n \in Nat, Apart(q, pd, n),
         NEW q2 \in Seq(Nat), NEW pd2 \in Seq(S), Sub(q2, q), Sub(pd2, pd)
  PROVE  Apart(q2, pd2, n)
  <1>1. PICK h \in [1..Len(q2) -> 1..Len(q)] :
               /\ \A k \in 1..Len(q2) : q2[k] = q[h[k]]
               /\ \A j, k \in 1..Len(q2) : j < k => h[j] < h[k]
    BY DEF Sub
  <1>2. PICK g \in [1..Len(pd2) -> 1..Len(pd)] :
               /\ \A k \in 1..Len(pd2) : pd2[k] = pd[g[k]]
               /\ \A j, k \in 1..Len(pd2) : j < k => g[j] < g[k]
    BY DEF Sub
  <1>20. \A x \in 1..Len(q) : q[x] < n
    BY DEF Apart
  <1>21. \A x \in 1..Len(pd) : pd[x].msg < n
    BY DEF Apart
  <1>22. \A x, y \in 1..Len(q) : q[x] = q[y] => x = y
    BY DEF Apart
  <1>23. \A x, y \in 1..Len(pd) : pd[x].msg = pd[y].msg => x = y
    BY DEF Apart
  <1>24. \A x \in 1..Len(q), y \in 1..Len(pd) : q[x] # pd[y].msg
    BY DEF Apart
  <1>8. \A k \in 1..Len(q2) : h[k] \in 1..Len(q)
    BY <1>1
  <1>9. \A k \in 1..Len(pd2) : g[k] \in 1..Len(pd)
    BY <1>2
  <1>3. ASSUME NEW j \in 1..Len(q2), NEW k \in 1..Len(q2), q2[j] = q2[k] PROVE j = k
    <2>1. h[j] = h[k]
      <3>1. q2[j] = q[h[j]] /\ q2[k] = q[h[k]] /\ h[j] \in 1..Len(q) /\ h[k] \in 1..Len(q)
        BY <1>1, <1>8
      <3> QED BY <1>3, <1>22, <3>1
    <2>2. ~(j < k) /\ ~(k < j)
      <3>1. h[j] \in Int /\ h[k] \in Int /\ j \in Int /\ k \in Int
        BY <1>8
      <3> QED BY <1>1, <2>1, <3>1
    <2> QED BY <2>2
  <1>4. ASSUME NEW j \in 1..Len(pd2), NEW k \in 1..Len(pd2), pd2[j].msg = pd2[k].msg PROVE j = k
    <2>1. g[j] = g[k]
      <3>1. pd2[j] = pd[g[j]] /\ pd2[k] = pd[g[k]] /\ g[j] \in 1..Len(pd) /\ g[k] \in 1..Len(pd)
        BY <1>2, <1>9
      <3> QED BY <1>4, <1>23, <3>1
    <2>2. ~(j < k) /\ ~(k < j)
      <3>1. g[j] \in Int /\ g[k] \in Int /\ j \in Int /\ k \in Int
        BY <1>9
      <3> QED BY <1>2, <2>1, <3>1
    <2> QED BY <2>2
  <1>5. \A j \in 1..Len(q2) : q2[j] < n
    BY <1>1, <1>8, <1>20
  <1>6. \A k \in 1..Len(pd2) : pd2[k].msg < n
    BY <1>2, <1>9, <1>21
  <1>7. ASSUME NEW j \in 1..Len(q2), NEW k \in 1..Len(pd2) PROVE q2[j] # pd2[k].msg
    <2>1. q2[j] = q[h[j]] /\ h[j] \in 1..Len(q)
      BY <1>1, <1>8
    <2>2. pd2[k] = pd[g[k]] /\ g[k] \in 1..Len(pd)
      BY <1>2, <1>9
    <2> QED BY <1>24, <2>1, <2>2
  <1> QED BY <1>3, <1>4, <1>5, <1>6, <1>7 DEF Apart

LEMMA SubOrdered ==
  ASSUME NEW q \in Seq(Nat), NEW b, Ordered(q, b), NEW q2 \in Seq(Nat), Sub(q2, q)
  PROVE  Ordered(q2, b)
  <1>1. PICK h \in [1..Len(q2) -> 1..Len(q)] :
               /\ \A k \in 1..Len(q2) : q2[k] = q[h[k]]
               /\ \A j, k \in 1..Len(q2) : j < k => h[j] < h[k]
    BY DEF Sub
  <1>2. SUFFICES ASSUME NEW j \in 1..Len(q2), NEW k \in 1..Len(q2), j < k
                 PROVE  \/ Precedes(b[q2[j]], b[q2[k]])
                        \/ ~Precedes(b[q2[k]], b[q2[j]]) /\ q2[j] < q2[k]
    BY DEF Ordered
  <1>3. /\ h[j] \in 1..Len(q) /\ h[k] \in 1..Len(q) /\ h[j] < h[k]
        /\ q2[j] = q[h[j]] /\ q2[k] = q[h[k]]
    BY <1>1, <1>2
  <1>4. \/ Precedes(b[q[h[j]]], b[q[h[k]]])
        \/ ~Precedes(b[q[h[k]]], b[q[h[j]]]) /\ q[h[j]] < q[h[k]]
    BY <1>3 DEF Ordered
  <1> QED BY <1>3, <1>4

\* A message leaves the queue for the pending list.
LEMMA DeliverApart ==
  ASSUME NEW S, NEW q \in Seq(Nat), NEW pd \in Seq(S), NEW n \in Nat, Apart(q, pd, n), q # <<>>,
         NEW e \in S, e.msg = Head(q)
  PROVE  Apart(Tail(q), Append(pd, e), n)
  <1> DEFINE t == Tail(q)
             u == Append(pd, e)
  <1>1. /\ t \in Seq(Nat) /\ Len(t) = Len(q) - 1 /\ Len(q) \in Nat /\ Len(q) # 0 /\ Head(q) = q[1]
        /\ \A k \in 1..Len(t) : t[k] = q[k + 1]
    BY HeadTailProperties
  <1>2. /\ u \in Seq(S) /\ Len(u) = Len(pd) + 1 /\ Len(pd) \in Nat
        /\ \A k \in 1..Len(u) : u[k] = IF k = Len(pd) + 1 THEN e ELSE pd[k]
    BY AppendProperties
  <1> HIDE DEF t, u
  <1>20. \A x \in 1..Len(q) : q[x] < n
    BY DEF Apart
  <1>21. \A x \in 1..Len(pd) : pd[x].msg < n
    BY DEF Apart
  <1>22. \A x, y \in 1..Len(q) : q[x] = q[y] => x = y
    BY DEF Apart
  <1>23. \A x, y \in 1..Len(pd) : pd[x].msg = pd[y].msg => x = y
    BY DEF Apart
  <1>24. \A x \in 1..Len(q), y \in 1..Len(pd) : q[x] # pd[y].msg
    BY DEF Apart
  <1>3. 1 \in 1..Len(q) /\ \A k \in 1..Len(t) : k + 1 \in 1..Len(q) /\ k + 1 # 1
    BY <1>1
  <1>4. \A k \in 1..Len(u) : k # Len(pd) + 1 => k \in 1..Len(pd)
    BY <1>2
  <1>5. \A j \in 1..Len(t) : t[j] < n
    BY <1>1, <1>3, <1>20
  <1>6. \A k \in 1..Len(u) : u[k].msg < n
    BY <1>1, <1>2, <1>3, <1>4, <1>20, <1>21
  <1>7. ASSUME NEW j \in 1..Len(t), NEW k \in 1..Len(t), t[j] = t[k] PROVE j = k
    <2>1. j + 1 = k + 1
      BY <1>1, <1>3, <1>7, <1>22
    <2> QED BY <2>1
  <1>11. \A k \in 1..Len(u) : IF k = Len(pd) + 1 THEN u[k].msg = q[1]
                             ELSE k \in 1..Len(pd) /\ u[k] = pd[k]
    BY <1>1, <1>2, <1>4
  <1>8. ASSUME NEW j \in 1..Len(u), NEW k \in 1..Len(u), u[j].msg = u[k].msg PROVE j = k
    <2>1. CASE j = Len(pd) + 1 \/ k = Len(pd) + 1
      BY <1>3, <1>8, <1>11, <1>24, <2>1
    <2>2. CASE j # Len(pd) + 1 /\ k # Len(pd) + 1
      <3>1. j \in 1..Len(pd) /\ k \in 1..Len(pd) /\ u[j] = pd[j] /\ u[k] = pd[k]
        BY <1>11, <2>2
      <3> QED BY <1>8, <1>23, <3>1
    <2> QED BY <2>1, <2>2
  <1>9. ASSUME NEW j \in 1..Len(t), NEW k \in 1..Len(u) PROVE t[j] # u[k].msg
    <2>1. t[j] = q[j + 1] /\ j + 1 \in 1..Len(q) /\ j + 1 # 1
      BY <1>1, <1>3
    <2>2. CASE k = Len(pd) + 1
      BY <1>3, <1>11, <1>22, <2>1, <2>2
    <2>3. CASE k # Len(pd) + 1
      <3>1. k \in 1..Len(pd) /\ u[k] = pd[k]
        BY <1>11, <2>3
      <3> QED BY <1>24, <2>1, <3>1
    <2> QED BY <2>2, <2>3
  <1>10. Apart(t, u, n)
    BY <1>5, <1>6, <1>7, <1>8, <1>9 DEF Apart
  <1> QED BY <1>10 DEF t, u

USE LocalAssumption

\* A new message is queued.
LEMMA InsertedApart ==
  ASSUME NEW S, NEW q \in Seq(Nat), NEW pd \in Seq(S), NEW n \in Nat, Apart(q, pd, n),
         NEW t \in Seq(Nat), NEW i \in 1..(Len(q) + 1), Shifted(t, q, i, n),
         \A k \in 1..Len(pd) : pd[k].msg \in Nat
  PROVE  Apart(t, pd, n + 1)
  <1>1. (\A x \in 1..Len(q) : q[x] < n) /\ (\A x \in 1..Len(pd) : pd[x].msg < n)
    BY DEF Apart
  <1>2. \A x, y \in 1..Len(q) : q[x] = q[y] => x = y
    BY DEF Apart
  <1>3. \A x, y \in 1..Len(pd) : pd[x].msg = pd[y].msg => x = y
    BY DEF Apart
  <1>4. \A x \in 1..Len(q), y \in 1..Len(pd) : q[x] # pd[y].msg
    BY DEF Apart
  <1>5. /\ \A j \in 1..Len(t) : t[j] = n \/ \E k \in 1..Len(q) : t[j] = q[k]
        /\ \A j, k \in 1..Len(t) : t[j] = t[k] => j = k
    <2>1. Below(q, n)
      BY <1>1, <1>2 DEF Below
    <2>2. Gains(t, q, i, n)
      BY <2>1, InsertApart
    <2> QED BY <2>2 DEF Gains
  <1>6. \A k \in 1..Len(q) : q[k] \in Nat
    OBVIOUS
  <1>7. \A j \in 1..Len(t) : t[j] < n + 1
    <2>1. SUFFICES ASSUME NEW j \in 1..Len(t) PROVE t[j] < n + 1
      OBVIOUS
    <2>2. CASE t[j] = n
      BY <2>2
    <2>3. CASE t[j] # n
      <3>1. PICK k \in 1..Len(q) : t[j] = q[k]
        BY <1>5, <2>3
      <3>2. q[k] < n /\ q[k] \in Nat
        BY <1>1, <1>6
      <3> QED BY <3>1, <3>2
    <2> QED BY <2>2, <2>3
  <1>8. \A k \in 1..Len(pd) : pd[k].msg < n + 1
    BY <1>1
  <1>9. ASSUME NEW j \in 1..Len(t), NEW k \in 1..Len(pd) PROVE t[j] # pd[k].msg
    <2>1. CASE t[j] = n
      BY <1>1, <2>1
    <2>2. CASE t[j] # n
      BY <1>4, <1>5, <2>2
    <2> QED BY <2>1, <2>2
  <1> QED BY <1>3, <1>5, <1>7, <1>8, <1>9 DEF Apart

\* The order of two bodies that carry tasks.
Body(x) == x.task \in Tasks /\ x.createdAt \in Int

LEMMA PrecedesThrough ==
  ASSUME NEW x, NEW y, NEW z, Body(x), Body(y), Body(z), Precedes(x, y), ~Precedes(z, y)
  PROVE  Precedes(x, z)
  <1>1. Priority[x.task] \in Int /\ Priority[y.task] \in Int /\ Priority[z.task] \in Int
    BY DEF Body
  <1> QED BY <1>1 DEF Precedes, Body

LEMMA PrecedesOneWay ==
  ASSUME NEW x, NEW y, Body(x), Body(y), Precedes(x, y)
  PROVE  ~Precedes(y, x)
  <1>1. Priority[x.task] \in Int /\ Priority[y.task] \in Int
    BY DEF Body
  <1> QED BY <1>1 DEF Precedes, Body

\* Insertion before the first message it precedes keeps the queue in order.
LEMMA InsertOrdered ==
  ASSUME NEW q \in Seq(Nat), NEW n \in Nat, NEW b, NEW c, Ordered(q, b),
         NEW t \in Seq(Nat), NEW i \in 1..(Len(q) + 1), Shifted(t, q, i, n),
         \A j \in 1..Len(q) : q[j] < n /\ c[q[j]] = b[q[j]] /\ Body(b[q[j]]),
         Body(c[n]),
         \A j \in 1..Len(q) : j < i => ~Precedes(c[n], b[q[j]]),
         i =< Len(q) => Precedes(c[n], b[q[i]])
  PROVE  Ordered(t, c)
  <1>1. /\ Len(q) \in Nat /\ Len(t) = Len(q) + 1
        /\ \A j \in 1..Len(t) : t[j] = IF j < i THEN q[j] ELSE IF j = i THEN n ELSE q[j - 1]
        /\ \A j \in 1..Len(t) : j # i => IF j < i THEN j \in 1..Len(q) ELSE j - 1 \in 1..Len(q)
    BY DEF Shifted
  <1>2. ASSUME NEW j \in 1..Len(q), NEW k \in 1..Len(q), j < k
        PROVE  \/ Precedes(b[q[j]], b[q[k]])
               \/ ~Precedes(b[q[k]], b[q[j]]) /\ q[j] < q[k]
    BY <1>2 DEF Ordered
  <1>3. ASSUME NEW k \in 1..Len(q), i =< k PROVE Precedes(c[n], b[q[k]])
    <2>1. i \in 1..Len(q) /\ Precedes(c[n], b[q[i]])
      BY <1>1, <1>3
    <2>2. CASE i = k
      BY <2>1, <2>2
    <2>3. CASE i # k
      <3>1. i < k
        BY <1>1, <1>3, <2>3
      <3>2. ~Precedes(b[q[k]], b[q[i]])
        BY <1>2, <2>1, <3>1, PrecedesOneWay
      <3> QED BY <2>1, <3>2, PrecedesThrough
    <2> QED BY <2>2, <2>3
  <1>4. SUFFICES ASSUME NEW j \in 1..Len(t), NEW k \in 1..Len(t), j < k
                 PROVE  \/ Precedes(c[t[j]], c[t[k]])
                        \/ ~Precedes(c[t[k]], c[t[j]]) /\ t[j] < t[k]
    BY DEF Ordered
  <1>5. i \in Int /\ j \in Int /\ k \in Int
    BY <1>1
  <1>6. CASE j = i
    <2>1. t[j] = n /\ t[k] = q[k - 1] /\ k - 1 \in 1..Len(q) /\ i =< k - 1
      BY <1>1, <1>4, <1>5, <1>6
    <2> QED BY <1>3, <2>1
  <1>7. CASE k = i
    <2>1. t[k] = n /\ t[j] = q[j] /\ j \in 1..Len(q) /\ j < i
      BY <1>1, <1>4, <1>5, <1>7
    <2> QED BY <2>1
  <1>8. CASE j # i /\ k # i
    <2>1. CASE j < i /\ k < i
      <3>1. t[j] = q[j] /\ j \in 1..Len(q) /\ t[k] = q[k] /\ k \in 1..Len(q)
        BY <1>1, <1>8, <2>1
      <3> QED BY <1>2, <1>4, <3>1
    <2>2. CASE j < i /\ ~(k < i)
      <3>1. t[j] = q[j] /\ j \in 1..Len(q) /\ t[k] = q[k - 1] /\ k - 1 \in 1..Len(q)
        BY <1>1, <1>8, <2>2
      <3>2. j < k - 1
        BY <1>5, <1>8, <2>2
      <3> QED BY <1>2, <3>1, <3>2
    <2>3. CASE ~(j < i) /\ ~(k < i)
      <3>1. t[j] = q[j - 1] /\ j - 1 \in 1..Len(q) /\ t[k] = q[k - 1] /\ k - 1 \in 1..Len(q)
        BY <1>1, <1>8, <2>3
      <3>2. j - 1 < k - 1
        BY <1>4, <1>5
      <3>3. \/ Precedes(b[q[j - 1]], b[q[k - 1]])
            \/ ~Precedes(b[q[k - 1]], b[q[j - 1]]) /\ q[j - 1] < q[k - 1]
        BY <1>2, <3>1, <3>2
      <3>4. c[q[j - 1]] = b[q[j - 1]] /\ c[q[k - 1]] = b[q[k - 1]]
        BY <3>1
      <3> QED BY <3>1, <3>3, <3>4
    <2> QED BY <1>4, <1>5, <2>1, <2>2, <2>3
  <1> QED BY <1>6, <1>7, <1>8

-----------------------------------------------------------------------------
(* The steps.                                                              *)

\* The ids of messages are numbers.
LEMMA IdsAreNumbers ==
  /\ \A q \in Seq(Msgs) : q \in Seq(Nat)
  /\ \A pd \in Seq(Entries) : \A k \in 1..Len(pd) : pd[k] \in Entries /\ pd[k].msg \in Msgs /\ pd[k].msg \in Nat
  <1>1. Msgs \subseteq Nat
    BY DEF Msgs
  <1>2. ASSUME NEW q \in Seq(Msgs) PROVE q \in Seq(Nat)
    <2>1. Len(q) \in Nat /\ q \in [1..Len(q) -> Msgs]
      BY LenProperties
    <2>2. q \in [1..Len(q) -> Nat]
      BY <1>1, <2>1
    <2> QED BY <2>1, <2>2, IsASeq
  <1>3. ASSUME NEW pd \in Seq(Entries), NEW k \in 1..Len(pd)
        PROVE  pd[k] \in Entries /\ pd[k].msg \in Msgs /\ pd[k].msg \in Nat
    <2>1. pd[k] \in Entries
      BY ElementOfSeq
    <2> QED BY <1>1, <2>1 DEF Entries
  <1> QED BY <1>2, <1>3

\* What the invariant says of the queue.
LEMMA QueueFacts ==
  ASSUME BackendInv
  PROVE  /\ queue \in Seq(Msgs) /\ queue \in Seq(Nat) /\ pending \in Seq(Entries) /\ nextId \in Nat
         /\ \A k \in 1..Len(queue) : queue[k] \in Msgs /\ queue[k] < nextId /\ Body(payload[queue[k]])
  <1>1. queue \in Seq(Msgs) /\ pending \in Seq(Entries) /\ nextId \in Nat
    BY DEF BackendInv, TypeOK, Entries
  <1>2. ASSUME NEW k \in 1..Len(queue)
        PROVE  queue[k] \in Msgs /\ queue[k] < nextId /\ Body(payload[queue[k]])
    <2>1. queue[k] \in Msgs
      BY <1>1, ElementOfSeq
    <2>2. queue[k] < nextId
      BY DEF BackendInv, Apart
    <2>3. payload[queue[k]].task \in Tasks /\ payload[queue[k]].createdAt \in -1..MaxTime
      BY <2>1, <2>2 DEF BackendInv, TypeOK, Carried
    <2> QED BY <2>1, <2>2, <2>3 DEF Body
  <1> QED BY <1>1, <1>2, IdsAreNumbers

\* enqueueTaskPayload beside a waiting consumer: the queue was empty, so what is
\* delivered is the message itself.
Woken(e, p, kept) ==
  /\ e.msg = nextId /\ e.owner \in Workers /\ e.claimedAt = now
  /\ queue = <<>> /\ queue' = <<>> /\ pending' = Append(kept, e) /\ waiters' = Tail(waiters)
  /\ Insert(nextId, p) # <<>> /\ Head(Insert(nextId, p)) = nextId /\ Tail(Insert(nextId, p)) = <<>>

LEMMA PayloadWakes ==
  ASSUME BackendInv, NEW p, NEW kept, EnqueuePayload(p, kept), waiters # <<>>
  PROVE  \E e \in Entries : Woken(e, p, kept)
  <1> DEFINE t == Insert(nextId, p)
             e == Delivery(nextId, Head(waiters).worker)
  <1>1. nextId \in Msgs
    BY DEF EnqueuePayload, BackendInv, TypeOK, Msgs
  <1>2. queue = <<>>
    BY DEF BackendInv, NoWaiterWhileQueued
  <1>3. PICK i \in 1..(Len(queue) + 1) : t \in Seq(Msgs) /\ Shifted(t, queue, i, nextId)
    BY <1>1, QueueFacts, InsertShape
  <1> HIDE DEF t
  <1>4. Len(t) = 1 /\ t[1] = nextId
    <2>1. Len(queue) = 0
      BY <1>2
    <2>2. i = 1
      BY <2>1
    <2> QED BY <1>3, <2>1, <2>2 DEF Shifted
  <1>5. t # <<>> /\ Head(t) = nextId
    <2>1. Len(<<>>) # 1
      BY EmptySeq
    <2>2. t # <<>>
      BY <1>4, <2>1, Zenon
    <2> QED BY <1>3, <1>4, <2>2
  <1>6. Tail(t) = <<>>
    <2>1. Tail(t) \in Seq(Msgs) /\ Len(Tail(t)) = 0
      BY <1>3, <1>4, <1>5, HeadTailProperties
    <2> QED BY <2>1, EmptySeq
  <1>7. e \in Entries /\ e.msg = nextId /\ e.owner \in Workers /\ e.claimedAt = now
    <2>1. now \in 0..MaxTime
      BY DEF BackendInv, TypeOK
    <2>2. now \in -MinIdle..MaxTime
      BY <2>1
    <2>3. Head(waiters) \in Waits
      BY HeadTailProperties DEF BackendInv, TypeOK, Waits
    <2>4. Head(waiters).worker \in Workers
      BY <2>3 DEF Waits
    <2> QED BY <1>1, <2>2, <2>4 DEF Delivery, Entries
  <1> HIDE DEF e
  <1>8. queue' = <<>> /\ pending' = Append(kept, e) /\ waiters' = Tail(waiters)
    BY <1>5, <1>6 DEF EnqueuePayload, t, e
  <1> QED BY <1>2, <1>5, <1>6, <1>7, <1>8 DEF Woken, t

\* enqueueTaskPayload, on what its caller leaves of the pending list.
LEMMA PayloadStep ==
  ASSUME BackendInv, NEW p \in Bodies, p.task \in Tasks, NEW kept \in Seq(Entries), Sub(kept, pending),
         EnqueuePayload(p, kept), UNCHANGED <<now, locks>>
  PROVE  BackendInv'
  <1> DEFINE t == Insert(nextId, p)
  <1>1. nextId \in Msgs /\ nextId' = nextId + 1 /\ payload' = [payload EXCEPT ![nextId] = p]
    BY DEF EnqueuePayload, BackendInv, TypeOK, Msgs
  <1>2. Body(p)
    BY DEF Body, Bodies
  <1>3. t \in Seq(Msgs) /\ t \in Seq(Nat)
    BY <1>1, QueueFacts, InsertShape, IdsAreNumbers
  <1>4. PICK i \in 1..(Len(queue) + 1) :
               /\ \A j \in 1..Len(queue) : j < i => ~Precedes(p, payload[queue[j]])
               /\ i =< Len(queue) => Precedes(p, payload[queue[i]])
               /\ Shifted(t, queue, i, nextId)
    BY <1>1, QueueFacts, InsertShape
  <1> HIDE DEF t
  <1>5. /\ payload' \in [Msgs -> Bodies] /\ nextId' \in 1..(MaxMsgs + 1)
        /\ Carried'
    BY <1>1 DEF BackendInv, TypeOK, Bodies, Carried, Msgs
  <1>6. Apart(queue, kept, nextId)
    BY QueueFacts, SubApart, SubSelf DEF BackendInv
  <1>7. Apart(t, kept, nextId + 1)
    BY <1>3, <1>4, <1>6, QueueFacts, IdsAreNumbers, InsertedApart
  <1>8. CASE waiters = <<>>
    <2>1. queue' = t /\ pending' = kept /\ waiters' = waiters
      BY <1>8 DEF EnqueuePayload, t
    <2>2. TypeOK'
      BY <1>3, <1>5, <2>1 DEF BackendInv, TypeOK, Bodies, Entries
    <2>3. \A j \in 1..Len(queue) : queue[j] < nextId /\ payload'[queue[j]] = payload[queue[j]]
                                   /\ Body(payload[queue[j]])
      BY <1>1, QueueFacts DEF BackendInv, TypeOK
    <2>4. payload'[nextId] = p
      BY <1>1 DEF BackendInv, TypeOK
    <2>5. Ordered(t, payload')
      BY <1>2, <1>3, <1>4, <2>3, <2>4, QueueFacts, InsertOrdered DEF BackendInv
    <2>6. NoWaiterWhileQueued'
      BY <1>8, <2>1 DEF NoWaiterWhileQueued
    <2> QED BY <1>1, <1>5, <1>7, <2>1, <2>2, <2>5, <2>6 DEF BackendInv
  <1>9. CASE waiters # <<>>
    <2> PICK e \in Entries : Woken(e, p, kept)
      BY <1>9, PayloadWakes
    <2>2. t # <<>> /\ Head(t) = nextId /\ Tail(t) = <<>> /\ e.msg = nextId
      BY DEF Woken, t
    <2>4. Tail(waiters) \in Seq(Waits)
      BY <1>9, HeadTailProperties DEF BackendInv, TypeOK, Waits
    <2>6. queue' = <<>> /\ pending' = Append(kept, e) /\ waiters' = Tail(waiters)
      BY DEF Woken
    <2>7. Apart(queue', pending', nextId')
      <3>1. nextId + 1 \in Nat /\ e.msg = Head(t)
        BY <2>2, QueueFacts
      <3>2. Apart(Tail(t), Append(kept, e), nextId + 1)
        BY <1>3, <1>7, <2>2, <3>1, DeliverApart
      <3> QED BY <1>1, <2>2, <2>6, <3>2
    <2>8. TypeOK'
      BY <1>5, <2>4, <2>6, EmptySeq, AppendProperties DEF BackendInv, TypeOK, Bodies, Entries, Waits
    <2>9. Ordered(queue', payload') /\ NoWaiterWhileQueued'
      BY <2>6 DEF Ordered, NoWaiterWhileQueued
    <2> QED BY <1>5, <2>7, <2>8, <2>9 DEF BackendInv
  <1> QED BY <1>8, <1>9

\* The parts of the invariant a call that sends nothing has to preserve.
Rest ==
  /\ queue \in Seq(Msgs) /\ pending \in Seq(Entries) /\ waiters \in Seq(Waits)
  /\ Apart(queue, pending, nextId) /\ NoWaiterWhileQueued /\ Ordered(queue, payload)

LEMMA RestSuffices ==
  ASSUME BackendInv, UNCHANGED <<nextId, payload>>, Rest', now' \in 0..MaxTime,
         locks' \in [Scopes -> [owner : Workers \cup {NoOne}, expireAt : 0..(MaxTime + TTL)]]
  PROVE  BackendInv'
  BY DEF BackendInv, TypeOK, Carried, Rest, Entries, Waits

LEMMA RestHolds ==
  ASSUME BackendInv
  PROVE  /\ Rest /\ now \in 0..MaxTime /\ now \in -MinIdle..MaxTime
         /\ locks \in [Scopes -> [owner : Workers \cup {NoOne}, expireAt : 0..(MaxTime + TTL)]]
  <1>1. now \in 0..MaxTime
    BY DEF BackendInv, TypeOK
  <1>2. now \in -MinIdle..MaxTime
    BY <1>1
  <1> QED BY <1>1, <1>2 DEF BackendInv, TypeOK, Rest, Entries, Waits

LEMMA EnqueueStep ==
  ASSUME BackendInv, NEW t \in Tasks, NEW c \in {now, now - 1}, EnqueueTask(t, c)
  PROVE  BackendInv'
  <1> DEFINE p == [task |-> t, retry |-> 0, createdAt |-> c]
  <1>1. now \in 0..MaxTime
    BY RestHolds
  <1>2. c \in -1..MaxTime
    BY <1>1
  <1>3. p \in Bodies /\ p.task \in Tasks
    BY <1>2 DEF Bodies
  <1> HIDE DEF p
  <1>4. EnqueuePayload(p, pending) /\ UNCHANGED <<now, locks>>
    BY DEF EnqueueTask, p
  <1>5. pending \in Seq(Entries) /\ Sub(pending, pending)
    BY QueueFacts, SubSelf
  <1> QED BY <1>3, <1>4, <1>5, PayloadStep

\* The payload of a retry.
LEMMA RetryBody ==
  ASSUME NEW x \in Bodies, NEW c \in -1..MaxTime, x.retry < MaxRetries
  PROVE  LET p == [x EXCEPT !.retry = @ + 1, !.createdAt = c]
         IN  p \in Bodies /\ p.task = x.task /\ p.retry = x.retry + 1
  <1>1. x.task \in Tasks \cup {NoTask} /\ x.retry \in 0..MaxRetries /\ x.retry + 1 \in 0..MaxRetries
    BY DEF Bodies
  <1> DEFINE r == x.retry + 1
  <1>2. r \in 0..MaxRetries
    BY <1>1
  <1> HIDE DEF r
  <1>3. [x EXCEPT !.retry = r, !.createdAt = c] \in Bodies
    BY <1>2 DEF Bodies
  <1>4. [x EXCEPT !.retry = r, !.createdAt = c].task = x.task
    BY DEF Bodies
  <1>5. [x EXCEPT !.retry = r, !.createdAt = c].retry = r
    BY DEF Bodies
  <1> QED BY <1>3, <1>4, <1>5 DEF r

LEMMA ReplaceStep ==
  ASSUME BackendInv, NEW m \in Msgs, NEW w \in Workers, ReplacePendingTask(m, w)
  PROVE  BackendInv'
  <1> DEFINE p == [payload[m] EXCEPT !.retry = @ + 1, !.createdAt = now]
  <1>1. payload[m] \in Bodies /\ now \in -1..MaxTime /\ payload[m].retry < MaxRetries
    <2>1. now \in 0..MaxTime
      BY RestHolds
    <2>2. now \in -1..MaxTime
      BY <2>1
    <2> QED BY <2>2 DEF BackendInv, TypeOK, Bodies, ReplacePendingTask
  <1>2. PICK i \in 1..Len(pending) : pending[i].msg = m
    <2>1. DOMAIN pending = 1..Len(pending)
      BY QueueFacts, LenProperties
    <2>2. Holds(m, w)
      BY DEF ReplacePendingTask
    <2> QED BY <2>1, <2>2 DEF Holds
  <1>3. payload[m].task \in Tasks
    BY <1>2 DEF BackendInv, Apart, Carried
  <1>4. p \in Bodies /\ p.task \in Tasks
    BY <1>1, <1>3, RetryBody
  <1> HIDE DEF p
  <1>5. Without(m) \in Seq(Entries) /\ Sub(Without(m), pending)
    BY QueueFacts, SubKeeping DEF Without
  <1>6. EnqueuePayload(p, Without(m)) /\ UNCHANGED <<now, locks>>
    BY DEF ReplacePendingTask, p
  <1> QED BY <1>4, <1>5, <1>6, PayloadStep

\* Messages leave the queue or the pending list.
LEMMA LeaveStep ==
  ASSUME BackendInv, queue' \in Seq(Msgs), Sub(queue', queue), pending' \in Seq(Entries), Sub(pending', pending),
         waiters' \in Seq(Waits), NoWaiterWhileQueued', UNCHANGED <<nextId, payload>>
  PROVE  Rest'
  <1>1. queue' \in Seq(Nat)
    BY IdsAreNumbers
  <1>2. Apart(queue', pending', nextId)
    BY <1>1, QueueFacts, SubApart DEF BackendInv
  <1>3. Ordered(queue', payload)
    BY <1>1, QueueFacts, SubOrdered DEF BackendInv
  <1> QED BY <1>2, <1>3 DEF Rest

\* Entries of the pending list are written over.
LEMMA RewriteStep ==
  ASSUME BackendInv, UNCHANGED <<nextId, payload, queue, waiters>>,
         NEW I \in SUBSET (1..Len(pending)), NEW f \in [I -> Entries], \A i \in I : f[i].msg = pending[i].msg,
         pending' = [i \in 1..Len(pending) |-> IF i \in I THEN f[i] ELSE pending[i]]
  PROVE  Rest'
  <1>1. pending \in Seq(Entries) /\ Len(pending) \in Nat /\ \A i \in 1..Len(pending) : pending[i] \in Entries
    BY QueueFacts, LenProperties, ElementOfSeq
  <1>2. pending' \in Seq(Entries) /\ Len(pending') = Len(pending)
    BY <1>1
  <1>3. \A i \in 1..Len(pending) : pending'[i].msg = pending[i].msg
    OBVIOUS
  <1>4. Apart(queue', pending', nextId')
    BY <1>2, <1>3 DEF Apart, BackendInv
  <1> QED BY <1>2, <1>4, RestHolds DEF Rest, NoWaiterWhileQueued

LEMMA ConsumeStep ==
  ASSUME BackendInv, NEW w \in Workers, ConsumeTask(w)
  PROVE  BackendInv'
  <1>1. Rest /\ now \in 0..MaxTime /\ now \in -MinIdle..MaxTime /\ queue \in Seq(Nat)
    BY RestHolds, QueueFacts
  <1>2. CASE queue # <<>>
    <2> DEFINE e == Delivery(Head(queue), w)
    <2>1. Head(queue) \in Msgs /\ Tail(queue) \in Seq(Msgs)
      BY <1>1, <1>2, HeadTailProperties DEF Rest
    <2>2. e \in Entries /\ e.msg = Head(queue)
      BY <1>1, <2>1 DEF Delivery, Entries
    <2>3. waiters = <<>>
      BY <1>1, <1>2 DEF Rest, NoWaiterWhileQueued
    <2> HIDE DEF e
    <2>4. /\ queue' = Tail(queue) /\ pending' = Append(pending, e)
          /\ UNCHANGED <<waiters, now, nextId, payload, locks>>
      BY <1>2 DEF ConsumeTask, e
    <2>5. Apart(Tail(queue), Append(pending, e), nextId)
      BY <1>1, <1>2, <2>2, QueueFacts, DeliverApart DEF Rest
    <2>6. Ordered(Tail(queue), payload)
      <3>1. Tail(queue) \in Seq(Nat) /\ Sub(Tail(queue), queue)
        BY <1>1, <1>2, HeadTailProperties, SubTail
      <3> QED BY <1>1, <3>1, SubOrdered DEF Rest
    <2>7. Append(pending, e) \in Seq(Entries)
      BY <1>1, <2>2, AppendProperties DEF Rest
    <2>8. Rest'
      BY <1>1, <2>1, <2>3, <2>4, <2>5, <2>6, <2>7 DEF Rest, NoWaiterWhileQueued
    <2> QED BY <2>4, <2>8, RestHolds, RestSuffices
  <1>3. CASE queue = <<>>
    <2> DEFINE v == [worker |-> w, due |-> now + Block]
    <2>1. v \in Waits
      BY <1>1 DEF Waits
    <2> HIDE DEF v
    <2>2. /\ waiters' = Append(waiters, v)
          /\ UNCHANGED <<queue, pending, now, nextId, payload, locks>>
      BY <1>3 DEF ConsumeTask, v
    <2>3. Append(waiters, v) \in Seq(Waits)
      BY <1>1, <2>1, AppendProperties DEF Rest
    <2>4. Rest'
      BY <1>1, <1>3, <2>2, <2>3 DEF Rest, NoWaiterWhileQueued
    <2> QED BY <2>2, <2>4, RestHolds, RestSuffices
  <1> QED BY <1>2, <1>3

LEMMA TimeoutStep ==
  ASSUME BackendInv, NEW i \in 1..MaxWaiters, WaitTimesOut(i)
  PROVE  BackendInv'
  <1>1. waiters \in Seq(Waits) /\ i \in 1..Len(waiters) /\ waiters # <<>>
    <2>1. waiters \in Seq(Waits)
      BY RestHolds DEF Rest
    <2>2. i \in 1..Len(waiters)
      BY <2>1, LenProperties DEF WaitTimesOut
    <2> QED BY <2>1, <2>2
  <1>2. RemoveAt(waiters, i) \in Seq(Waits)
    BY <1>1, RemoveAtType
  <1>3. Rest'
    BY <1>1, <1>2, RestHolds DEF WaitTimesOut, Rest, NoWaiterWhileQueued
  <1> QED BY <1>3, RestHolds, RestSuffices DEF WaitTimesOut

LEMMA RefreshStep ==
  ASSUME BackendInv, NEW m \in Msgs, NEW w \in Workers, NEW idle \in {0, MinIdle}, RefreshTaskClaim(m, w, idle)
  PROVE  BackendInv'
  <1>1. pending \in Seq(Entries) /\ DOMAIN pending = 1..Len(pending)
    BY QueueFacts, LenProperties
  <1>2. now - idle \in -MinIdle..MaxTime
    <2>1. now \in 0..MaxTime
      BY RestHolds
    <2> QED BY <2>1
  <1> DEFINE I == {i \in 1..Len(pending) : pending[i].msg = m}
             f == [i \in I |-> [pending[i] EXCEPT !.claimedAt = now - idle]]
  <1>3. ASSUME NEW i \in I
        PROVE  [pending[i] EXCEPT !.claimedAt = now - idle] \in Entries
               /\ [pending[i] EXCEPT !.claimedAt = now - idle].msg = pending[i].msg
    <2>1. pending[i] \in Entries
      BY <1>1, ElementOfSeq
    <2> QED BY <1>2, <2>1 DEF Entries
  <1>4. f \in [I -> Entries] /\ I \in SUBSET (1..Len(pending)) /\ \A i \in I : f[i].msg = pending[i].msg
    BY <1>3
  <1>5. pending' = [i \in 1..Len(pending) |-> IF i \in I THEN f[i] ELSE pending[i]]
    BY <1>1 DEF RefreshTaskClaim
  <1> HIDE DEF I, f
  <1>6. UNCHANGED <<nextId, payload, queue, waiters, now, locks>>
    BY DEF RefreshTaskClaim
  <1>7. Rest'
    BY <1>4, <1>5, <1>6, RewriteStep
  <1> QED BY <1>6, <1>7, RestHolds, RestSuffices

LEMMA ClaimStep ==
  ASSUME BackendInv, NEW w \in Workers, NEW count \in 1..MaxMsgs, ClaimStaleTasks(w, count)
  PROVE  BackendInv'
  <1>1. pending \in Seq(Entries) /\ DOMAIN pending = 1..Len(pending) /\ now \in -MinIdle..MaxTime
    BY QueueFacts, LenProperties, RestHolds
  <1> DEFINE I == {i \in IdleMsgs : Cardinality({j \in IdleMsgs : j < i}) < count}
             f == [i \in I |-> [pending[i] EXCEPT !.owner = w, !.claimedAt = now]]
  <1>2. I \subseteq 1..Len(pending)
    BY <1>1 DEF IdleMsgs
  <1>3. pending' = [i \in 1..Len(pending) |-> IF i \in I THEN f[i] ELSE pending[i]]
    BY <1>1 DEF ClaimStaleTasks
  <1> HIDE DEF I
  <1>4. ASSUME NEW i \in I
        PROVE  [pending[i] EXCEPT !.owner = w, !.claimedAt = now] \in Entries
               /\ [pending[i] EXCEPT !.owner = w, !.claimedAt = now].msg = pending[i].msg
    <2>1. pending[i] \in Entries
      BY <1>1, <1>2, ElementOfSeq
    <2> QED BY <1>1, <2>1 DEF Entries
  <1>5. f \in [I -> Entries] /\ \A i \in I : f[i].msg = pending[i].msg
    BY <1>4
  <1> HIDE DEF f
  <1>6. UNCHANGED <<nextId, payload, queue, waiters, now, locks>>
    BY DEF ClaimStaleTasks
  <1>7. Rest'
    BY <1>2, <1>3, <1>5, <1>6, RewriteStep
  <1> QED BY <1>6, <1>7, RestHolds, RestSuffices

\* Acknowledgements.
LEMMA AckStep ==
  ASSUME BackendInv, NEW m \in Msgs, AckTask(m) \/ \E w \in Workers : AckTaskIfOwned(m, w)
  PROVE  BackendInv'
  <1>1. pending' = Without(m) /\ UNCHANGED <<now, nextId, payload, queue, waiters, locks>>
    BY DEF AckTask, AckTaskIfOwned
  <1>2. pending' \in Seq(Entries) /\ Sub(pending', pending)
    BY <1>1, QueueFacts, SubKeeping DEF Without
  <1>3. queue' \in Seq(Msgs) /\ Sub(queue', queue)
    BY <1>1, QueueFacts, SubSelf
  <1>4. waiters' \in Seq(Waits) /\ NoWaiterWhileQueued'
    BY <1>1, RestHolds DEF Rest, NoWaiterWhileQueued
  <1>5. Rest'
    BY <1>1, <1>2, <1>3, <1>4, LeaveStep
  <1> QED BY <1>1, <1>5, RestHolds, RestSuffices

\* purgeInstance and destroy.
LEMMA PurgeStep ==
  ASSUME BackendInv, NEW i \in Instances, PurgeInstance(i)
  PROVE  BackendInv'
  <1>1. queue' \in Seq(Msgs) /\ Sub(queue', queue)
    BY QueueFacts, SubKeeping DEF PurgeInstance
  <1>2. pending' \in Seq(Entries) /\ Sub(pending', pending)
    BY QueueFacts, SubKeeping DEF PurgeInstance
  <1>3. waiters' # <<>> => queue' = <<>>
    <2>1. SUFFICES ASSUME queue = <<>> PROVE queue' = <<>>
      BY RestHolds DEF Rest, NoWaiterWhileQueued, PurgeInstance
    <2>2. PICK h \in [1..Len(queue') -> 1..Len(queue)] : TRUE
      BY <1>1 DEF Sub
    <2>3. Len(queue) = 0
      BY <2>1
    <2>4. Len(queue') = 0
      <3>1. Len(queue') \in Nat
        BY <1>1, LenProperties
      <3>2. ASSUME 1 \in 1..Len(queue') PROVE FALSE
        BY <2>2, <2>3, <3>2
      <3> QED BY <3>1, <3>2
    <2> QED BY <1>1, <2>4, EmptySeq
  <1>4. Rest'
    BY <1>1, <1>2, <1>3, RestHolds, LeaveStep DEF PurgeInstance, Rest, NoWaiterWhileQueued
  <1> QED BY <1>4, RestHolds, RestSuffices DEF PurgeInstance

LEMMA DestroyStep ==
  ASSUME BackendInv, Destroy
  PROVE  BackendInv'
  <1>1. <<>> \in Seq(Msgs) /\ <<>> \in Seq(Entries) /\ <<>> \in Seq(Waits)
    BY EmptySeq
  <1>2. Sub(queue', queue) /\ Sub(pending', pending)
    BY QueueFacts, SubEmpty DEF Destroy
  <1>3. Rest'
    BY <1>1, <1>2, LeaveStep DEF Destroy, NoWaiterWhileQueued
  <1>4. locks' \in [Scopes -> [owner : Workers \cup {NoOne}, expireAt : 0..(MaxTime + TTL)]]
    BY DEF Destroy, Unlocked
  <1> QED BY <1>3, <1>4, RestHolds, RestSuffices DEF Destroy

\* The locks and the clock.
LEMMA LockStep ==
  ASSUME BackendInv, NEW s \in Scopes, NEW w \in Workers,
         AcquireLock(s, w) \/ RenewLock(s, w) \/ ReleaseLock(s, w)
  PROVE  BackendInv'
  <1>1. UNCHANGED <<now, nextId, payload, queue, pending, waiters>>
    BY DEF AcquireLock, RenewLock, ReleaseLock
  <1>2. now + TTL \in 0..(MaxTime + TTL)
    BY RestHolds
  <1>3. locks' \in [Scopes -> [owner : Workers \cup {NoOne}, expireAt : 0..(MaxTime + TTL)]]
    BY <1>2, RestHolds DEF AcquireLock, RenewLock, ReleaseLock, Unlocked
  <1>4. Rest'
    BY <1>1, RestHolds DEF Rest, NoWaiterWhileQueued
  <1> QED BY <1>1, <1>3, <1>4, RestHolds, RestSuffices

LEMMA TickStep ==
  ASSUME BackendInv, Tick
  PROVE  BackendInv'
  <1>1. now' \in 0..MaxTime
    BY RestHolds DEF Tick
  <1>2. Rest'
    BY RestHolds DEF Tick, Rest, NoWaiterWhileQueued
  <1> QED BY <1>1, <1>2, RestHolds, RestSuffices DEF Tick

LEMMA InitBackend == Init => BackendInv
  <1> SUFFICES ASSUME Init PROVE BackendInv
    OBVIOUS
  <1>1. <<>> \in Seq(Msgs) /\ <<>> \in Seq([msg : Msgs, owner : Workers, claimedAt : -MinIdle..MaxTime])
        /\ <<>> \in Seq([worker : Workers, due : 0..(MaxTime + Block)])
    BY EmptySeq
  <1>2. TypeOK
    BY <1>1 DEF Init, TypeOK, Unsent, Unlocked
  <1>3. Carried /\ NoWaiterWhileQueued
    BY DEF Init, Carried, NoWaiterWhileQueued, Msgs
  <1>4. Apart(queue, pending, nextId) /\ Ordered(queue, payload)
    BY DEF Init, Apart, Ordered
  <1> QED BY <1>2, <1>3, <1>4 DEF BackendInv

LEMMA NextBackend == BackendInv /\ [Next]_vars => BackendInv'
  <1> SUFFICES ASSUME BackendInv, [Next]_vars PROVE BackendInv'
    OBVIOUS
  <1>1. CASE \E t \in Tasks, c \in {now, now - 1} : EnqueueTask(t, c)
    BY <1>1, EnqueueStep
  <1>2. CASE \E i \in 1..MaxWaiters : WaitTimesOut(i)
    BY <1>2, TimeoutStep
  <1>3. CASE \E m \in Msgs : AckTask(m) \/ \E w \in Workers : AckTaskIfOwned(m, w)
    BY <1>3, AckStep
  <1>4. CASE \E w \in Workers : ConsumeTask(w)
    BY <1>4, ConsumeStep
  <1>5. CASE \E w \in Workers, m \in Msgs, idle \in {0, MinIdle} : RefreshTaskClaim(m, w, idle)
    BY <1>5, RefreshStep
  <1>6. CASE \E w \in Workers, m \in Msgs : ReplacePendingTask(m, w)
    BY <1>6, ReplaceStep
  <1>7. CASE \E w \in Workers, count \in 1..MaxMsgs : ClaimStaleTasks(w, count)
    BY <1>7, ClaimStep
  <1>8. CASE \E w \in Workers, s \in Scopes : AcquireLock(s, w) \/ RenewLock(s, w) \/ ReleaseLock(s, w)
    BY <1>8, LockStep
  <1>9. CASE \E i \in Instances : PurgeInstance(i)
    BY <1>9, PurgeStep
  <1>10. CASE Destroy \/ Tick
    BY <1>10, DestroyStep, TickStep
  <1>11. CASE UNCHANGED vars
    <2>1. UNCHANGED <<nextId, payload, now, locks, queue, pending, waiters>>
      BY <1>11 DEF vars
    <2>2. Rest'
      BY <2>1, RestHolds DEF Rest, NoWaiterWhileQueued
    <2> QED BY <2>1, <2>2, RestHolds, RestSuffices
  <1> QED BY <1>1, <1>2, <1>3, <1>4, <1>5, <1>6, <1>7, <1>8, <1>9, <1>10, <1>11 DEF Next

-----------------------------------------------------------------------------
\* Every message is in one place, once, and the queue is in order.
THEOREM BackendConsistent == Spec => []BackendInv
  BY InitBackend, NextBackend, PTL DEF Spec

\* The type invariant.
THEOREM TypeCorrect == Spec => []TypeOK
  <1>1. BackendInv => TypeOK
    BY DEF BackendInv
  <1> QED BY BackendConsistent, <1>1, PTL

\* No consumer waits beside a queued message, whatever calls arrive and in
\* whatever order (enqueueTaskPayload, consumeTask).
THEOREM NobodyWaitsBesideWork == Spec => []NoWaiterWhileQueued
  <1>1. BackendInv => NoWaiterWhileQueued
    BY DEF BackendInv
  <1> QED BY BackendConsistent, <1>1, PTL

\* The queue is in the order it is delivered: priority, creation, arrival.
THEOREM QueueAlwaysInOrder == Spec => []DeliveryOrder
  <1>1. BackendInv => DeliveryOrder
    <2> SUFFICES ASSUME BackendInv PROVE DeliveryOrder
      OBVIOUS
    <2>1. DOMAIN queue = 1..Len(queue)
      BY QueueFacts, LenProperties
    <2> QED BY <2>1 DEF BackendInv, Ordered, DeliveryOrder
  <1> QED BY BackendConsistent, <1>1, PTL

\* A lock changes hands only after it has expired or was released.
THEOREM LocksHeldUntilExpiry == Spec => LockTakenOnlyWhenExpired
  <1>1. BackendInv /\ [Next]_vars
          => [\A s \in Scopes : ~Expired(s) => locks'[s].owner \in {locks[s].owner, NoOne}]_vars
    <2> SUFFICES ASSUME BackendInv, Next, NEW s \in Scopes, ~Expired(s)
                 PROVE  locks'[s].owner \in {locks[s].owner, NoOne}
      OBVIOUS
    <2>1. locks \in [Scopes -> [owner : Workers \cup {NoOne}, expireAt : 0..(MaxTime + TTL)]]
      BY RestHolds
    <2>2. ASSUME NEW z \in Scopes, NEW w \in Workers, AcquireLock(z, w) \/ RenewLock(z, w) \/ ReleaseLock(z, w)
          PROVE  locks'[s].owner \in {locks[s].owner, NoOne}
      BY <2>1, <2>2 DEF AcquireLock, RenewLock, ReleaseLock, Unlocked
    <2>3. CASE Destroy
      BY <2>3 DEF Destroy, Unlocked
    <2>4. CASE UNCHANGED locks
      BY <2>4
    <2> QED BY <2>2, <2>3, <2>4
         DEF Next, EnqueueTask, WaitTimesOut, AckTask, ConsumeTask, RefreshTaskClaim, AckTaskIfOwned,
             ReplacePendingTask, ClaimStaleTasks, PurgeInstance, Tick
  <1> QED BY BackendConsistent, <1>1, PTL DEF Spec, LockTakenOnlyWhenExpired

-----------------------------------------------------------------------------
(* The queue of the contract, as LocalStateBackend maps it.                *)

Q(q, m) == \E i \in 1..Len(q) : q[i] = m
Pend(pd, m) == \E i \in 1..Len(pd) : pd[i].msg = m

BodyFn(b) == [m \in Msgs |-> [task |-> b[m].task, retry |-> b[m].retry]]
PlaceFn(q, pd, n) ==
  [m \in Msgs |-> IF m >= n THEN "unsent"
                  ELSE IF m \in Range(q) THEN "queued"
                  ELSE IF \E e \in Range(pd) : e.msg = m THEN "pending" ELSE "settled"]
EntryFn(pd, m) == CHOOSE e \in Range(pd) : e.msg = m
OwnerFn(pd) ==
  [m \in Msgs |-> IF \E e \in Range(pd) : e.msg = m THEN EntryFn(pd, m).owner ELSE NoOne]
FreshFn(pd, t) ==
  {m \in Msgs : (\E e \in Range(pd) : e.msg = m) /\ t - EntryFn(pd, m).claimedAt < MinIdle}

\* What the mapping says of a message, by the positions of the entries.
PlaceIs(q, pd, n) ==
  \A m \in Msgs : PlaceFn(q, pd, n)[m] = IF m >= n THEN "unsent" ELSE IF Q(q, m) THEN "queued"
                                        ELSE IF Pend(pd, m) THEN "pending" ELSE "settled"
OwnerIs(pd) ==
  /\ \A m \in Msgs : ~Pend(pd, m) => OwnerFn(pd)[m] = NoOne
  /\ \A i \in 1..Len(pd) : OwnerFn(pd)[pd[i].msg] = pd[i].owner
FreshIs(pd, t) ==
  /\ \A m \in Msgs : ~Pend(pd, m) => m \notin FreshFn(pd, t)
  /\ \A i \in 1..Len(pd) : pd[i].msg \in FreshFn(pd, t) <=> t - pd[i].claimedAt < MinIdle

LEMMA Values ==
  ASSUME NEW q \in Seq(Msgs), NEW pd \in Seq(Entries), NEW n \in Nat, Apart(q, pd, n), NEW t
  PROVE  PlaceIs(q, pd, n) /\ OwnerIs(pd) /\ FreshIs(pd, t)
  <1>1. DOMAIN q = 1..Len(q) /\ DOMAIN pd = 1..Len(pd)
    BY LenProperties
  <1>2. \A m : m \in Range(q) <=> Q(q, m)
    BY <1>1 DEF Range, Q
  <1>3. \A m : (\E e \in Range(pd) : e.msg = m) <=> Pend(pd, m)
    BY <1>1 DEF Range, Pend
  <1>4. ASSUME NEW i \in 1..Len(pd) PROVE EntryFn(pd, pd[i].msg) = pd[i]
    <2>1. \A x, y \in 1..Len(pd) : pd[x].msg = pd[y].msg => x = y
      BY DEF Apart
    <2>2. pd[i] \in Range(pd)
      BY <1>1 DEF Range
    <2>3. \A e \in Range(pd) : e.msg = pd[i].msg => e = pd[i]
      BY <1>1, <2>1 DEF Range
    <2> QED BY <2>2, <2>3 DEF EntryFn
  <1>5. ASSUME NEW m \in Msgs
        PROVE  /\ PlaceFn(q, pd, n)[m] =
                    IF m >= n THEN "unsent" ELSE IF Q(q, m) THEN "queued"
                    ELSE IF Pend(pd, m) THEN "pending" ELSE "settled"
               /\ ~Pend(pd, m) => OwnerFn(pd)[m] = NoOne /\ m \notin FreshFn(pd, t)
    <2>1. PlaceFn(q, pd, n)[m] =
            IF m >= n THEN "unsent" ELSE IF m \in Range(q) THEN "queued"
            ELSE IF \E e \in Range(pd) : e.msg = m THEN "pending" ELSE "settled"
      BY DEF PlaceFn
    <2>2. OwnerFn(pd)[m] = IF \E e \in Range(pd) : e.msg = m THEN EntryFn(pd, m).owner ELSE NoOne
      BY DEF OwnerFn
    <2>3. m \in FreshFn(pd, t) => \E e \in Range(pd) : e.msg = m
      BY DEF FreshFn
    <2> QED BY <1>2, <1>3, <2>1, <2>2, <2>3
  <1>6. ASSUME NEW i \in 1..Len(pd)
        PROVE  /\ OwnerFn(pd)[pd[i].msg] = pd[i].owner
               /\ pd[i].msg \in FreshFn(pd, t) <=> t - pd[i].claimedAt < MinIdle
    <2>1. pd[i].msg \in Msgs /\ \E e \in Range(pd) : e.msg = pd[i].msg
      BY <1>1, IdsAreNumbers DEF Range
    <2>2. OwnerFn(pd)[pd[i].msg] = EntryFn(pd, pd[i].msg).owner
      BY <2>1 DEF OwnerFn
    <2>3. pd[i].msg \in FreshFn(pd, t) <=> t - EntryFn(pd, pd[i].msg).claimedAt < MinIdle
      BY <2>1 DEF FreshFn
    <2> QED BY <1>4, <2>2, <2>3
  <1> QED BY <1>5, <1>6 DEF PlaceIs, OwnerIs, FreshIs

\* A function changed at one argument.
LEMMA OneChanged ==
  ASSUME NEW D, NEW f, NEW g, f = [x \in D |-> f[x]], g = [x \in D |-> g[x]],
         NEW d \in D, NEW v, g[d] = v, \A x \in D : x # d => g[x] = f[x]
  PROVE  g = [f EXCEPT ![d] = v]
  <1>1. [f EXCEPT ![d] = v] = [x \in D |-> IF x = d THEN v ELSE f[x]]
    OBVIOUS
  <1> QED BY <1>1

LEMMA MappedFunctions ==
  /\ \A q, pd, n : PlaceFn(q, pd, n) = [m \in Msgs |-> PlaceFn(q, pd, n)[m]]
  /\ \A pd : OwnerFn(pd) = [m \in Msgs |-> OwnerFn(pd)[m]]
  /\ \A b : BodyFn(b) = [m \in Msgs |-> BodyFn(b)[m]]
  BY DEF PlaceFn, OwnerFn, BodyFn

\* Messages leave: those of S are settled.
Leaving(q, pd, q2, pd2, S) ==
  /\ \A i \in 1..Len(q2) : Q(q, q2[i])
  /\ \A i \in 1..Len(pd2) : \E j \in 1..Len(pd) : pd2[i] = pd[j]
  /\ S = {m \in Msgs : (Q(q, m) \/ Pend(pd, m)) /\ ~Q(q2, m) /\ ~Pend(pd2, m)}
Left(q, pd, q2, pd2, n, S, t) ==
  /\ S \subseteq {m \in Msgs : PlaceFn(q, pd, n)[m] \in {"queued", "pending"}}
  /\ PlaceFn(q2, pd2, n) = [m \in Msgs |-> IF m \in S THEN "settled" ELSE PlaceFn(q, pd, n)[m]]
  /\ OwnerFn(pd2) = [m \in Msgs |-> IF m \in S THEN NoOne ELSE OwnerFn(pd)[m]]
  /\ FreshFn(pd2, t) = FreshFn(pd, t) \ S

LEMMA MapsLeaving ==
  ASSUME NEW q \in Seq(Msgs), NEW pd \in Seq(Entries), NEW n \in Nat, Apart(q, pd, n), NEW t,
         NEW q2 \in Seq(Msgs), NEW pd2 \in Seq(Entries), Apart(q2, pd2, n),
         NEW S, Leaving(q, pd, q2, pd2, S)
  PROVE  Left(q, pd, q2, pd2, n, S, t)
  <1> USE DEF Leaving
  <1>1. ASSUME NEW m \in Msgs
        PROVE  /\ Q(q2, m) => Q(q, m)
               /\ Pend(pd2, m) => Pend(pd, m)
               /\ ~(Q(q, m) /\ Pend(pd, m))
               /\ Q(q, m) \/ Pend(pd, m) => ~(m >= n)
    <2>1. Q(q2, m) => Q(q, m)
      BY DEF Q
    <2>2. Pend(pd2, m) => Pend(pd, m)
      BY DEF Pend
    <2>3. ~(Q(q, m) /\ Pend(pd, m))
      BY DEF Q, Pend, Apart
    <2>4. Q(q, m) \/ Pend(pd, m) => ~(m >= n)
      <3>1. SUFFICES ASSUME Q(q, m) \/ Pend(pd, m) PROVE ~(m >= n)
        OBVIOUS
      <3>2. m < n /\ m \in Nat
        BY <3>1 DEF Q, Pend, Apart, Msgs
      <3> QED BY <3>2
    <2> QED BY <2>1, <2>2, <2>3, <2>4
  <1>10. /\ PlaceIs(q, pd, n) /\ OwnerIs(pd) /\ FreshIs(pd, t)
         /\ PlaceIs(q2, pd2, n) /\ OwnerIs(pd2) /\ FreshIs(pd2, t)
    BY Values
  <1>12. \A m \in Msgs : m \in S <=> (Q(q, m) \/ Pend(pd, m)) /\ ~Q(q2, m) /\ ~Pend(pd2, m)
    OBVIOUS
  <1>2. ASSUME NEW m \in Msgs
        PROVE  /\ PlaceFn(q2, pd2, n)[m] = IF m \in S THEN "settled" ELSE PlaceFn(q, pd, n)[m]
               /\ m \in S => PlaceFn(q, pd, n)[m] \in {"queued", "pending"}
    <2>1. PlaceFn(q, pd, n)[m] = IF m >= n THEN "unsent" ELSE IF Q(q, m) THEN "queued"
                                 ELSE IF Pend(pd, m) THEN "pending" ELSE "settled"
      BY <1>10 DEF PlaceIs
    <2>2. PlaceFn(q2, pd2, n)[m] = IF m >= n THEN "unsent" ELSE IF Q(q2, m) THEN "queued"
                                   ELSE IF Pend(pd2, m) THEN "pending" ELSE "settled"
      BY <1>10 DEF PlaceIs
    <2>8. /\ Q(q2, m) => Q(q, m)
          /\ Pend(pd2, m) => Pend(pd, m)
          /\ ~(Q(q, m) /\ Pend(pd, m))
          /\ Q(q, m) \/ Pend(pd, m) => ~(m >= n)
      BY <1>1
    <2>9. m \in S <=> (Q(q, m) \/ Pend(pd, m)) /\ ~Q(q2, m) /\ ~Pend(pd2, m)
      BY <1>12
    <2>3. CASE m \in S
      <3>1. (Q(q, m) \/ Pend(pd, m)) /\ ~Q(q2, m) /\ ~Pend(pd2, m) /\ ~(m >= n)
        BY <2>3, <2>8, <2>9
      <3> QED BY <2>1, <2>2, <2>3, <3>1, Zenon
    <2>4. CASE m \notin S
      <3>1. (Q(q, m) <=> Q(q2, m)) /\ (Pend(pd, m) <=> Pend(pd2, m))
        BY <2>4, <2>8, <2>9
      <3> QED BY <2>1, <2>2, <2>4, <3>1, Zenon
    <2> QED BY <2>3, <2>4
  <1>4. ASSUME NEW m \in Msgs
        PROVE  /\ OwnerFn(pd2)[m] = IF m \in S THEN NoOne ELSE OwnerFn(pd)[m]
               /\ m \in FreshFn(pd2, t) <=> m \in FreshFn(pd, t) /\ m \notin S
    <2>1. CASE Pend(pd2, m)
      <3>1. PICK i \in 1..Len(pd2) : pd2[i].msg = m
        BY <2>1 DEF Pend
      <3>2. PICK j \in 1..Len(pd) : pd2[i] = pd[j]
        OBVIOUS
      <3>3. OwnerFn(pd2)[m] = pd2[i].owner /\ OwnerFn(pd)[m] = pd2[i].owner
        BY <1>10, <3>1, <3>2 DEF OwnerIs
      <3>4. /\ m \in FreshFn(pd2, t) <=> t - pd2[i].claimedAt < MinIdle
            /\ m \in FreshFn(pd, t) <=> t - pd2[i].claimedAt < MinIdle
        BY <1>10, <3>1, <3>2 DEF FreshIs
      <3> QED BY <1>12, <2>1, <3>3, <3>4
    <2>8. /\ Q(q2, m) => Q(q, m)
          /\ Pend(pd2, m) => Pend(pd, m)
          /\ ~(Q(q, m) /\ Pend(pd, m))
          /\ Q(q, m) \/ Pend(pd, m) => ~(m >= n)
      BY <1>1
    <2>9. m \in S <=> (Q(q, m) \/ Pend(pd, m)) /\ ~Q(q2, m) /\ ~Pend(pd2, m)
      BY <1>12
    <2>2. CASE ~Pend(pd2, m)
      <3>1. OwnerFn(pd2)[m] = NoOne /\ m \notin FreshFn(pd2, t)
        BY <1>10, <2>2 DEF OwnerIs, FreshIs
      <3>2. CASE Pend(pd, m)
        <4>1. m \in S
          BY <2>2, <2>8, <2>9, <3>2
        <4> QED BY <3>1, <4>1
      <3>3. CASE ~Pend(pd, m)
        <4>1. OwnerFn(pd)[m] = NoOne /\ m \notin FreshFn(pd, t)
          BY <1>10, <3>3 DEF OwnerIs, FreshIs
        <4> QED BY <3>1, <4>1
      <3> QED BY <3>2, <3>3
    <2> QED BY <2>1, <2>2
  <1>5. PlaceFn(q2, pd2, n) = [m \in Msgs |-> PlaceFn(q2, pd2, n)[m]]
        /\ OwnerFn(pd2) = [m \in Msgs |-> OwnerFn(pd2)[m]]
    BY DEF PlaceFn, OwnerFn
  <1>6. FreshFn(pd, t) \subseteq Msgs /\ FreshFn(pd2, t) \subseteq Msgs
    BY DEF FreshFn
  <1>7. FreshFn(pd2, t) = FreshFn(pd, t) \ S
    BY <1>4, <1>6
  <1>8. S \subseteq {m \in Msgs : PlaceFn(q, pd, n)[m] \in {"queued", "pending"}}
    BY <1>2
  <1> QED BY <1>2, <1>4, <1>5, <1>7, <1>8 DEF Left

\* A new message is queued.
LEMMA MapsQueued ==
  ASSUME NEW q \in Seq(Msgs), NEW pd \in Seq(Entries), NEW n \in Msgs, Apart(q, pd, n),
         NEW q2 \in Seq(Msgs), Apart(q2, pd, n + 1), \A m \in Msgs : Q(q2, m) <=> Q(q, m) \/ m = n
  PROVE  /\ PlaceFn(q2, pd, n + 1) = [PlaceFn(q, pd, n) EXCEPT ![n] = "queued"]
         /\ OwnerFn(pd) = [OwnerFn(pd) EXCEPT ![n] = NoOne]
  <1>1. n \in Nat /\ n + 1 \in Nat /\ ~(n >= n + 1)
    BY DEF Msgs
  <1>2. PlaceIs(q, pd, n) /\ OwnerIs(pd) /\ PlaceIs(q2, pd, n + 1)
    BY <1>1, Values
  <1>3. ~Pend(pd, n)
    BY <1>1 DEF Pend, Apart
  <1>4. ASSUME NEW m \in Msgs
        PROVE  PlaceFn(q2, pd, n + 1)[m] = IF m = n THEN "queued" ELSE PlaceFn(q, pd, n)[m]
    <2>1. PlaceFn(q, pd, n)[m] = IF m >= n THEN "unsent" ELSE IF Q(q, m) THEN "queued"
                                 ELSE IF Pend(pd, m) THEN "pending" ELSE "settled"
      BY <1>2 DEF PlaceIs
    <2>2. PlaceFn(q2, pd, n + 1)[m] = IF m >= n + 1 THEN "unsent" ELSE IF Q(q2, m) THEN "queued"
                                      ELSE IF Pend(pd, m) THEN "pending" ELSE "settled"
      BY <1>2 DEF PlaceIs
    <2>3. Q(q2, m) <=> Q(q, m) \/ m = n
      OBVIOUS
    <2>4. m # n => (m >= n + 1 <=> m >= n)
      BY <1>1 DEF Msgs
    <2>5. CASE m = n
      BY <1>1, <2>2, <2>3, <2>5
    <2>6. CASE m # n
      BY <2>1, <2>2, <2>3, <2>4, <2>6
    <2> QED BY <2>5, <2>6
  <1>5. OwnerFn(pd)[n] = NoOne
    BY <1>2, <1>3 DEF OwnerIs
  <1>6. PlaceFn(q2, pd, n + 1) = [PlaceFn(q, pd, n) EXCEPT ![n] = "queued"]
    BY <1>4, MappedFunctions, OneChanged
  <1>7. OwnerFn(pd) = [OwnerFn(pd) EXCEPT ![n] = NoOne]
    BY <1>5, MappedFunctions, OneChanged
  <1> QED BY <1>6, <1>7

\* A message is delivered to a consumer.
LEMMA MapsDelivered ==
  ASSUME NEW q \in Seq(Msgs), NEW pd \in Seq(Entries), NEW n \in Nat, Apart(q, pd, n),
         NEW q2 \in Seq(Msgs), NEW e \in Entries, NEW n2 \in Nat, Apart(q2, Append(pd, e), n2),
         NEW t, t - e.claimedAt < MinIdle,
         \A m \in Msgs : m # e.msg => (Q(q2, m) <=> Q(q, m)) /\ (m >= n2 <=> m >= n)
  PROVE  /\ PlaceFn(q2, Append(pd, e), n2) = [PlaceFn(q, pd, n) EXCEPT ![e.msg] = "pending"]
         /\ OwnerFn(Append(pd, e)) = [OwnerFn(pd) EXCEPT ![e.msg] = e.owner]
         /\ FreshFn(Append(pd, e), t) = FreshFn(pd, t) \cup {e.msg}
  <1> DEFINE u == Append(pd, e)
  <1>1. /\ u \in Seq(Entries) /\ Len(u) = Len(pd) + 1 /\ Len(pd) \in Nat
        /\ \A k \in 1..Len(u) : u[k] = IF k = Len(pd) + 1 THEN e ELSE pd[k]
    BY AppendProperties
  <1>2. Apart(q2, u, n2)
    OBVIOUS
  <1> HIDE DEF u
  <1>3. /\ Len(pd) + 1 \in 1..Len(u) /\ u[Len(pd) + 1] = e
        /\ \A k \in 1..Len(pd) : k \in 1..Len(u) /\ u[k] = pd[k]
        /\ \A k \in 1..Len(u) : k # Len(pd) + 1 => k \in 1..Len(pd)
    BY <1>1
  <1>4. /\ PlaceIs(q, pd, n) /\ OwnerIs(pd) /\ FreshIs(pd, t)
        /\ PlaceIs(q2, u, n2) /\ OwnerIs(u) /\ FreshIs(u, t)
    BY <1>1, <1>2, Values
  <1>5. e.msg \in Msgs /\ Pend(u, e.msg) /\ ~Q(q2, e.msg) /\ ~(e.msg >= n2)
    <2>1. e.msg \in Msgs /\ e.msg \in Nat
      BY DEF Entries, Msgs
    <2>2. Pend(u, e.msg)
      BY <1>3 DEF Pend
    <2>3. ~Q(q2, e.msg)
      BY <1>2, <1>3 DEF Q, Apart
    <2>4. e.msg < n2
      BY <1>2, <1>3 DEF Apart
    <2> QED BY <2>1, <2>2, <2>3, <2>4
  <1>6. ASSUME NEW m \in Msgs, m # e.msg
        PROVE  /\ PlaceFn(q2, u, n2)[m] = PlaceFn(q, pd, n)[m]
               /\ OwnerFn(u)[m] = OwnerFn(pd)[m]
               /\ m \in FreshFn(u, t) <=> m \in FreshFn(pd, t)
    <2>1. Pend(u, m) <=> Pend(pd, m)
      <3>1. ASSUME Pend(u, m) PROVE Pend(pd, m)
        <4>1. PICK k \in 1..Len(u) : u[k].msg = m
          BY <3>1 DEF Pend
        <4>2. k # Len(pd) + 1
          BY <1>3, <1>6, <4>1
        <4> QED BY <1>1, <1>3, <4>1, <4>2 DEF Pend
      <3>2. ASSUME Pend(pd, m) PROVE Pend(u, m)
        BY <1>3, <3>2 DEF Pend
      <3> QED BY <3>1, <3>2
    <2>2. (Q(q2, m) <=> Q(q, m)) /\ (m >= n2 <=> m >= n)
      BY <1>6
    <2>3. PlaceFn(q, pd, n)[m] = IF m >= n THEN "unsent" ELSE IF Q(q, m) THEN "queued"
                                 ELSE IF Pend(pd, m) THEN "pending" ELSE "settled"
      BY <1>4 DEF PlaceIs
    <2>4. PlaceFn(q2, u, n2)[m] = IF m >= n2 THEN "unsent" ELSE IF Q(q2, m) THEN "queued"
                                  ELSE IF Pend(u, m) THEN "pending" ELSE "settled"
      BY <1>4 DEF PlaceIs
    <2>5. PlaceFn(q2, u, n2)[m] = PlaceFn(q, pd, n)[m]
      BY <2>1, <2>2, <2>3, <2>4
    <2>6. CASE Pend(pd, m)
      <3>1. PICK k \in 1..Len(pd) : pd[k].msg = m
        BY <2>6 DEF Pend
      <3>2. k \in 1..Len(u) /\ u[k] = pd[k]
        BY <1>3
      <3>3. OwnerFn(u)[m] = pd[k].owner /\ OwnerFn(pd)[m] = pd[k].owner
        BY <1>4, <3>1, <3>2 DEF OwnerIs
      <3>4. /\ m \in FreshFn(u, t) <=> t - pd[k].claimedAt < MinIdle
            /\ m \in FreshFn(pd, t) <=> t - pd[k].claimedAt < MinIdle
        BY <1>4, <3>1, <3>2 DEF FreshIs
      <3> QED BY <2>5, <3>3, <3>4
    <2>7. CASE ~Pend(pd, m)
      <3>1. ~Pend(u, m)
        BY <2>1, <2>7
      <3>2. OwnerFn(u)[m] = NoOne /\ OwnerFn(pd)[m] = NoOne
        BY <1>4, <2>7, <3>1 DEF OwnerIs
      <3>3. m \notin FreshFn(u, t) /\ m \notin FreshFn(pd, t)
        BY <1>4, <2>7, <3>1 DEF FreshIs
      <3> QED BY <2>5, <3>2, <3>3
    <2> QED BY <2>6, <2>7
  <1>7. /\ PlaceFn(q2, u, n2)[e.msg] = "pending"
        /\ OwnerFn(u)[e.msg] = e.owner /\ e.msg \in FreshFn(u, t)
    <2>1. PlaceFn(q2, u, n2)[e.msg] = "pending"
      BY <1>4, <1>5 DEF PlaceIs
    <2>2. OwnerFn(u)[e.msg] = e.owner
      BY <1>3, <1>4 DEF OwnerIs
    <2>3. e.msg \in FreshFn(u, t)
      BY <1>3, <1>4 DEF FreshIs
    <2> QED BY <2>1, <2>2, <2>3
  <1>8. PlaceFn(q2, u, n2) = [PlaceFn(q, pd, n) EXCEPT ![e.msg] = "pending"]
    BY <1>5, <1>6, <1>7, MappedFunctions, OneChanged
  <1>9. OwnerFn(u) = [OwnerFn(pd) EXCEPT ![e.msg] = e.owner]
    BY <1>5, <1>6, <1>7, MappedFunctions, OneChanged
  <1>10. FreshFn(u, t) = FreshFn(pd, t) \cup {e.msg}
    <2>1. FreshFn(u, t) \subseteq Msgs /\ FreshFn(pd, t) \subseteq Msgs
      BY DEF FreshFn
    <2> QED BY <1>5, <1>6, <1>7, <2>1
  <1> QED BY <1>8, <1>9, <1>10 DEF u

\* The entries of I, those of the messages S, are written over and owned by w.
Rewritten(pd, pd2, I, w, S) ==
  /\ I \in SUBSET (1..Len(pd)) /\ Len(pd2) = Len(pd)
  /\ \A i \in 1..Len(pd) : pd2[i].msg = pd[i].msg
  /\ \A i \in I : pd2[i].owner = w
  /\ \A i \in 1..Len(pd) : i \notin I => pd2[i] = pd[i]
  /\ S = {pd[i].msg : i \in I}

RewrittenIs(q, pd, pd2, n, I, w, S, t) ==
  /\ PlaceFn(q, pd2, n) = PlaceFn(q, pd, n)
  /\ OwnerFn(pd2) = [m \in Msgs |-> IF m \in S THEN w ELSE OwnerFn(pd)[m]]
  /\ (\A i \in I : t - pd2[i].claimedAt < MinIdle) => FreshFn(pd2, t) = FreshFn(pd, t) \cup S
  /\ (\A i \in I : ~(t - pd2[i].claimedAt < MinIdle)) => FreshFn(pd2, t) = FreshFn(pd, t) \ S

LEMMA MapsRewritten ==
  ASSUME NEW q \in Seq(Msgs), NEW pd \in Seq(Entries), NEW n \in Nat, Apart(q, pd, n), NEW t,
         NEW pd2 \in Seq(Entries), Apart(q, pd2, n),
         NEW I, NEW w, NEW S, Rewritten(pd, pd2, I, w, S)
  PROVE  RewrittenIs(q, pd, pd2, n, I, w, S, t)
  <1> USE DEF Rewritten
  <1>1. /\ PlaceIs(q, pd, n) /\ OwnerIs(pd) /\ FreshIs(pd, t)
        /\ PlaceIs(q, pd2, n) /\ OwnerIs(pd2) /\ FreshIs(pd2, t)
    BY Values
  <1>2. \A m \in Msgs : Pend(pd2, m) <=> Pend(pd, m)
    BY DEF Pend
  <1>3. \A m \in Msgs : PlaceFn(q, pd2, n)[m] = PlaceFn(q, pd, n)[m]
    BY <1>1, <1>2 DEF PlaceIs
  <1>4. S \subseteq Msgs /\ \A i \in I : i \in 1..Len(pd) /\ pd[i].msg \in S
    <2>1. \A i \in 1..Len(pd) : pd[i].msg \in Msgs
      BY IdsAreNumbers
    <2> QED BY <2>1
  <1>5. ASSUME NEW m \in Msgs, m \notin S
        PROVE  OwnerFn(pd2)[m] = OwnerFn(pd)[m] /\ (m \in FreshFn(pd2, t) <=> m \in FreshFn(pd, t))
    <2>1. CASE Pend(pd, m)
      <3>1. PICK k \in 1..Len(pd) : pd[k].msg = m
        BY <2>1 DEF Pend
      <3>2. pd2[k] = pd[k] /\ k \in 1..Len(pd2)
        BY <1>4, <1>5, <3>1
      <3>3. OwnerFn(pd2)[m] = pd[k].owner /\ OwnerFn(pd)[m] = pd[k].owner
        BY <1>1, <3>1, <3>2 DEF OwnerIs
      <3>4. /\ m \in FreshFn(pd2, t) <=> t - pd[k].claimedAt < MinIdle
            /\ m \in FreshFn(pd, t) <=> t - pd[k].claimedAt < MinIdle
        BY <1>1, <3>1, <3>2 DEF FreshIs
      <3> QED BY <3>3, <3>4
    <2>2. CASE ~Pend(pd, m)
      <3>1. ~Pend(pd2, m)
        BY <1>2, <2>2
      <3>2. OwnerFn(pd2)[m] = NoOne /\ OwnerFn(pd)[m] = NoOne
        BY <1>1, <2>2, <3>1 DEF OwnerIs
      <3>3. m \notin FreshFn(pd2, t) /\ m \notin FreshFn(pd, t)
        BY <1>1, <2>2, <3>1 DEF FreshIs
      <3> QED BY <3>2, <3>3
    <2> QED BY <2>1, <2>2
  <1>6. ASSUME NEW m \in S
        PROVE  /\ OwnerFn(pd2)[m] = w
               /\ (\A i \in I : t - pd2[i].claimedAt < MinIdle) => m \in FreshFn(pd2, t)
               /\ (\A i \in I : ~(t - pd2[i].claimedAt < MinIdle)) => m \notin FreshFn(pd2, t)
    <2>1. PICK i \in I : pd[i].msg = m
      OBVIOUS
    <2>2. i \in 1..Len(pd2) /\ pd2[i].msg = m /\ pd2[i].owner = w
      BY <2>1
    <2>3. OwnerFn(pd2)[m] = w
      BY <1>1, <2>2 DEF OwnerIs
    <2>4. m \in FreshFn(pd2, t) <=> t - pd2[i].claimedAt < MinIdle
      BY <1>1, <2>2 DEF FreshIs
    <2> QED BY <2>3, <2>4
  <1>7. PlaceFn(q, pd2, n) = PlaceFn(q, pd, n)
    BY <1>3 DEF PlaceFn
  <1>8. OwnerFn(pd2) = [m \in Msgs |-> IF m \in S THEN w ELSE OwnerFn(pd)[m]]
    <2>1. OwnerFn(pd2) = [m \in Msgs |-> OwnerFn(pd2)[m]]
      BY DEF OwnerFn
    <2> QED BY <1>5, <1>6, <2>1
  <1>9. FreshFn(pd2, t) \subseteq Msgs /\ FreshFn(pd, t) \subseteq Msgs
    BY DEF FreshFn
  <1>10. (\A i \in I : t - pd2[i].claimedAt < MinIdle) => FreshFn(pd2, t) = FreshFn(pd, t) \cup S
    BY <1>4, <1>5, <1>6, <1>9
  <1>11. (\A i \in I : ~(t - pd2[i].claimedAt < MinIdle)) => FreshFn(pd2, t) = FreshFn(pd, t) \ S
    BY <1>4, <1>5, <1>6, <1>9
  <1> QED BY <1>7, <1>8, <1>10, <1>11 DEF RewrittenIs

\* Time passes: no claim becomes fresh.
LEMMA MapsAging ==
  ASSUME NEW pd \in Seq(Entries), NEW t \in Int, NEW q \in Seq(Msgs), NEW n \in Nat, Apart(q, pd, n)
  PROVE  FreshFn(pd, t + 1) \subseteq FreshFn(pd, t)
  <1>1. FreshIs(pd, t) /\ FreshIs(pd, t + 1)
    BY Values
  <1>2. SUFFICES ASSUME NEW m \in Msgs, m \in FreshFn(pd, t + 1) PROVE m \in FreshFn(pd, t)
    BY DEF FreshFn
  <1>3. PICK k \in 1..Len(pd) : pd[k].msg = m
    BY <1>1, <1>2 DEF FreshIs, Pend
  <1>4. pd[k].claimedAt \in Int
    <2>1. pd[k] \in Entries
      BY IdsAreNumbers
    <2> QED BY <2>1 DEF Entries
  <1>5. (t + 1) - pd[k].claimedAt < MinIdle
    BY <1>1, <1>2, <1>3 DEF FreshIs
  <1>6. t - pd[k].claimedAt < MinIdle
    BY <1>4, <1>5
  <1> QED BY <1>1, <1>3, <1>6 DEF FreshIs

-----------------------------------------------------------------------------
(* The mapped calls of the contract.                                       *)

LEMMA MapInit ==
  ASSUME nextId = 1, BodyFn(payload) = [m \in Msgs |-> [task |-> NoTask, retry |-> 0]],
         PlaceFn(queue, pending, nextId) = [m \in Msgs |-> "unsent"],
         OwnerFn(pending) = [m \in Msgs |-> NoOne], FreshFn(pending, now) = {}
  PROVE  Abstract!QueueInit
  BY DEF BodyFn, PlaceFn, OwnerFn, FreshFn, EntryFn, IsPending, Entry, Msgs, Abstract!QueueInit, Abstract!Msgs

LEMMA MapExpire ==
  ASSUME NEW S, S \subseteq FreshFn(pending, now),
         BodyFn(payload') = BodyFn(payload), nextId' = nextId,
         PlaceFn(queue', pending', nextId') = PlaceFn(queue, pending, nextId),
         OwnerFn(pending') = OwnerFn(pending),
         FreshFn(pending', now') = FreshFn(pending, now) \ S
  PROVE  Abstract!Expire(S)
  BY DEF BodyFn, PlaceFn, OwnerFn, FreshFn, EntryFn, IsPending, Entry, Abstract!Expire

LEMMA MapEnqueue ==
  ASSUME NEW t, NEW r, NEW o, nextId <= MaxMsgs, nextId' = nextId + 1,
         BodyFn(payload') = [BodyFn(payload) EXCEPT ![nextId] = [task |-> t, retry |-> r]],
         PlaceFn(queue', pending', nextId') =
           [PlaceFn(queue, pending, nextId) EXCEPT ![nextId] = IF o = NoOne THEN "queued" ELSE "pending"],
         OwnerFn(pending') = [OwnerFn(pending) EXCEPT ![nextId] = o],
         FreshFn(pending', now') =
           IF o = NoOne THEN FreshFn(pending, now) ELSE FreshFn(pending, now) \cup {nextId}
  PROVE  Abstract!Enqueue(t, r, o)
  BY DEF BodyFn, PlaceFn, OwnerFn, FreshFn, EntryFn, IsPending, Entry, Abstract!Enqueue

LEMMA MapReplace ==
  ASSUME NEW m, NEW w, NEW r, NEW o, nextId <= MaxMsgs, nextId' = nextId + 1,
         PlaceFn(queue, pending, nextId)[m] = "pending", OwnerFn(pending)[m] = w,
         BodyFn(payload') =
           [BodyFn(payload) EXCEPT ![nextId] = [task |-> BodyFn(payload)[m].task, retry |-> r]],
         PlaceFn(queue', pending', nextId') =
           [PlaceFn(queue, pending, nextId) EXCEPT ![m] = "settled",
                                                  ![nextId] = IF o = NoOne THEN "queued" ELSE "pending"],
         OwnerFn(pending') = [OwnerFn(pending) EXCEPT ![m] = NoOne, ![nextId] = o],
         FreshFn(pending', now') =
           IF o = NoOne THEN FreshFn(pending, now) \ {m} ELSE (FreshFn(pending, now) \ {m}) \cup {nextId}
  PROVE  Abstract!Replace(m, w, r, o)
  BY DEF BodyFn, PlaceFn, OwnerFn, FreshFn, EntryFn, IsPending, Entry, Abstract!Replace, Abstract!Owned

LEMMA MapConsume ==
  ASSUME NEW m \in Msgs, NEW w, PlaceFn(queue, pending, nextId)[m] = "queued",
         BodyFn(payload') = BodyFn(payload), nextId' = nextId,
         PlaceFn(queue', pending', nextId') = [PlaceFn(queue, pending, nextId) EXCEPT ![m] = "pending"],
         OwnerFn(pending') = [OwnerFn(pending) EXCEPT ![m] = w],
         FreshFn(pending', now') = FreshFn(pending, now) \cup {m}
  PROVE  Abstract!Consume(m, w)
  BY DEF BodyFn, PlaceFn, OwnerFn, FreshFn, EntryFn, IsPending, Entry, Msgs,
         Abstract!Consume, Abstract!Queued, Abstract!Msgs

LEMMA MapClaim ==
  ASSUME NEW S, NEW w, S \subseteq {m \in Msgs : PlaceFn(queue, pending, nextId)[m] = "pending"},
         S \cap FreshFn(pending, now) = {},
         BodyFn(payload') = BodyFn(payload), nextId' = nextId,
         PlaceFn(queue', pending', nextId') = PlaceFn(queue, pending, nextId),
         OwnerFn(pending') = [m \in Msgs |-> IF m \in S THEN w ELSE OwnerFn(pending)[m]],
         FreshFn(pending', now') = FreshFn(pending, now) \cup S
  PROVE  Abstract!Claim(S, w)
  <1>1. S \subseteq {m \in Msgs : PlaceFn(queue, pending, nextId)[m] = "pending"} \ FreshFn(pending, now)
    OBVIOUS
  <1> QED BY <1>1 DEF BodyFn, PlaceFn, OwnerFn, FreshFn, EntryFn, IsPending, Entry, Msgs,
         Abstract!Claim, Abstract!Stale, Abstract!Pending, Abstract!Msgs

LEMMA MapPurge ==
  ASSUME NEW S, S \subseteq {m \in Msgs : PlaceFn(queue, pending, nextId)[m] \in {"queued", "pending"}},
         BodyFn(payload') = BodyFn(payload), nextId' = nextId,
         PlaceFn(queue', pending', nextId') =
           [m \in Msgs |-> IF m \in S THEN "settled" ELSE PlaceFn(queue, pending, nextId)[m]],
         OwnerFn(pending') = [m \in Msgs |-> IF m \in S THEN NoOne ELSE OwnerFn(pending)[m]],
         FreshFn(pending', now') = FreshFn(pending, now) \ S
  PROVE  Abstract!Purge(S)
  <1>1. S \subseteq {m \in Msgs : PlaceFn(queue, pending, nextId)[m] = "queued"}
                      \cup {m \in Msgs : PlaceFn(queue, pending, nextId)[m] = "pending"}
    OBVIOUS
  <1> QED BY <1>1 DEF BodyFn, PlaceFn, OwnerFn, FreshFn, EntryFn, IsPending, Entry, Msgs,
         Abstract!Purge, Abstract!Live, Abstract!Queued, Abstract!Pending, Abstract!Msgs

LEMMA MapRefresh ==
  ASSUME NEW m, NEW w, PlaceFn(queue, pending, nextId)[m] = "pending", OwnerFn(pending)[m] = w,
         BodyFn(payload') = BodyFn(payload), nextId' = nextId,
         PlaceFn(queue', pending', nextId') = PlaceFn(queue, pending, nextId),
         OwnerFn(pending') = OwnerFn(pending)
  PROVE  /\ FreshFn(pending', now') = FreshFn(pending, now) \cup {m} => Abstract!Refresh(m, w)
         /\ FreshFn(pending', now') = FreshFn(pending, now) \ {m} => Abstract!Age(m, w)
  BY DEF BodyFn, PlaceFn, OwnerFn, FreshFn, EntryFn, IsPending, Entry,
         Abstract!Refresh, Abstract!Age, Abstract!Owned

LEMMA MapStutter ==
  ASSUME BodyFn(payload') = BodyFn(payload), nextId' = nextId,
         PlaceFn(queue', pending', nextId') = PlaceFn(queue, pending, nextId),
         OwnerFn(pending') = OwnerFn(pending), FreshFn(pending', now') = FreshFn(pending, now)
  PROVE  UNCHANGED Abstract!queueVars
  BY DEF BodyFn, PlaceFn, OwnerFn, FreshFn, EntryFn, IsPending, Entry, Abstract!queueVars

Contract == Abstract!QueueNext \/ UNCHANGED Abstract!queueVars

LEMMA ContractCases ==
  /\ \A t \in Tasks, r \in 0..MaxRetries, o \in Workers \cup {NoOne} : Abstract!Enqueue(t, r, o) => Contract
  /\ \A S \in SUBSET Msgs : Abstract!Expire(S) \/ Abstract!Purge(S) => Contract
  /\ \A m \in Msgs, w \in Workers :
       Abstract!Consume(m, w) \/ Abstract!Refresh(m, w) \/ Abstract!Age(m, w) => Contract
  /\ \A m \in Msgs, w \in Workers, r \in 0..MaxRetries, o \in Workers \cup {NoOne} :
       Abstract!Replace(m, w, r, o) => Contract
  /\ \A S \in SUBSET Msgs, w \in Workers : Abstract!Claim(S, w) => Contract
  BY DEF Contract, Abstract!QueueNext, Abstract!Msgs, Msgs

-----------------------------------------------------------------------------
(* Every call of the backend is a call of the contract, or none.           *)

LEMMA OwnedMaps ==
  ASSUME BackendInv, NEW i \in 1..Len(pending)
  PROVE  /\ pending[i] \in Entries /\ pending[i].msg \in Msgs
         /\ PlaceFn(queue, pending, nextId)[pending[i].msg] = "pending"
         /\ OwnerFn(pending)[pending[i].msg] = pending[i].owner
         /\ pending[i].msg \in FreshFn(pending, now) <=> now - pending[i].claimedAt < MinIdle
  <1>1. PlaceIs(queue, pending, nextId) /\ OwnerIs(pending) /\ FreshIs(pending, now)
    BY QueueFacts, Values DEF BackendInv
  <1>2. pending[i] \in Entries /\ pending[i].msg \in Msgs /\ pending[i].msg \in Nat
    BY QueueFacts, IdsAreNumbers
  <1>3. /\ pending[i].msg < nextId /\ nextId \in Nat
        /\ \A j \in 1..Len(queue) : queue[j] # pending[i].msg
    BY QueueFacts DEF BackendInv, Apart
  <1>4. ~(pending[i].msg >= nextId) /\ ~Q(queue, pending[i].msg) /\ Pend(pending, pending[i].msg)
    BY <1>2, <1>3 DEF Q, Pend
  <1>5. PlaceFn(queue, pending, nextId)[pending[i].msg] = "pending"
    BY <1>1, <1>2, <1>4 DEF PlaceIs
  <1>6. /\ OwnerFn(pending)[pending[i].msg] = pending[i].owner
        /\ pending[i].msg \in FreshFn(pending, now) <=> now - pending[i].claimedAt < MinIdle
    BY <1>1 DEF OwnerIs, FreshIs
  <1> QED BY <1>2, <1>5, <1>6

\* The message a holder names.
LEMMA HoldsMaps ==
  ASSUME BackendInv, NEW m \in Msgs, NEW w, Holds(m, w)
  PROVE  /\ \E i \in 1..Len(pending) : pending[i].msg = m /\ pending[i].owner = w
         /\ PlaceFn(queue, pending, nextId)[m] = "pending" /\ OwnerFn(pending)[m] = w
  <1>1. DOMAIN pending = 1..Len(pending)
    BY QueueFacts, LenProperties
  <1>2. PICK i \in 1..Len(pending) : pending[i].msg = m /\ pending[i].owner = w
    BY <1>1 DEF Holds
  <1> QED BY <1>2, OwnedMaps

\* What enqueueTaskPayload adds to a pending list kept.
Added(p, kept, o) ==
  /\ nextId \in Msgs /\ nextId' = nextId + 1
  /\ BodyFn(payload') = [BodyFn(payload) EXCEPT ![nextId] = [task |-> p.task, retry |-> p.retry]]
  /\ PlaceFn(queue', pending', nextId') =
       [PlaceFn(queue, kept, nextId) EXCEPT ![nextId] = IF o = NoOne THEN "queued" ELSE "pending"]
  /\ OwnerFn(pending') = [OwnerFn(kept) EXCEPT ![nextId] = o]
  /\ FreshFn(pending', now') =
       IF o = NoOne THEN FreshFn(kept, now) ELSE FreshFn(kept, now) \cup {nextId}

LEMMA PayloadMaps ==
  ASSUME BackendInv, NEW p \in Bodies, p.task \in Tasks, NEW kept \in Seq(Entries), Sub(kept, pending),
         EnqueuePayload(p, kept), UNCHANGED <<now, locks>>
  PROVE  \E o \in Workers \cup {NoOne} : Added(p, kept, o)
  <1>1. nextId \in Msgs /\ nextId \in Nat /\ nextId' = nextId + 1 /\ payload' = [payload EXCEPT ![nextId] = p]
    BY QueueFacts DEF EnqueuePayload, BackendInv, TypeOK, Msgs
  <1>2. BackendInv'
    BY PayloadStep
  <1>3. Apart(queue, kept, nextId)
    BY QueueFacts, SubApart, SubSelf DEF BackendInv
  <1>4. Apart(queue', pending', nextId + 1) /\ queue' \in Seq(Msgs) /\ pending' \in Seq(Entries)
    BY <1>1, <1>2 DEF BackendInv, TypeOK, Entries
  <1>5. BodyFn(payload') = [BodyFn(payload) EXCEPT ![nextId] = [task |-> p.task, retry |-> p.retry]]
    <2>1. payload'[nextId] = p /\ \A m \in Msgs : m # nextId => payload'[m] = payload[m]
      BY <1>1 DEF BackendInv, TypeOK
    <2>2. /\ BodyFn(payload')[nextId] = [task |-> p.task, retry |-> p.retry]
          /\ \A m \in Msgs : m # nextId => BodyFn(payload')[m] = BodyFn(payload)[m]
      BY <1>1, <2>1 DEF BodyFn
    <2> DEFINE f == BodyFn(payload)
               g == BodyFn(payload')
    <2>3. f = [m \in Msgs |-> f[m]] /\ g = [m \in Msgs |-> g[m]]
      BY MappedFunctions
    <2> HIDE DEF f, g
    <2>4. g[nextId] = [task |-> p.task, retry |-> p.retry] /\ \A m \in Msgs : m # nextId => g[m] = f[m]
      BY <2>2 DEF f, g
    <2>5. g = [f EXCEPT ![nextId] = [task |-> p.task, retry |-> p.retry]]
      BY <1>1, <2>3, <2>4, OneChanged
    <2> QED BY <2>5 DEF f, g
  <1>6. CASE waiters = <<>>
    <2> DEFINE t == Insert(nextId, p)
    <2>1. queue' = t /\ pending' = kept
      BY <1>6 DEF EnqueuePayload
    <2>2. PICK i \in 1..(Len(queue) + 1) : Shifted(t, queue, i, nextId)
      BY <1>1, QueueFacts, InsertShape
    <2>3. t \in Seq(Nat) /\ t \in Seq(Msgs)
      BY <1>4, <2>1, IdsAreNumbers
    <2> HIDE DEF t
    <2>4. Below(queue, nextId)
      BY <1>3 DEF Apart, Below
    <2>5. Gains(t, queue, i, nextId)
      <3>1. queue \in Seq(Nat) /\ nextId \in Nat
        BY <1>1, QueueFacts
      <3>2. t \in Seq(Nat)
        BY <2>3
      <3>3. i \in 1..(Len(queue) + 1)
        OBVIOUS
      <3> QED BY <2>2, <2>4, <3>1, <3>2, <3>3, InsertApart
    <2>6. ASSUME NEW m \in Msgs PROVE Q(t, m) <=> Q(queue, m) \/ m = nextId
      <3>1. ASSUME Q(t, m), m # nextId PROVE Q(queue, m)
        <4>1. PICK j \in 1..Len(t) : t[j] = m
          BY <3>1 DEF Q
        <4>2. PICK k \in 1..Len(queue) : t[j] = queue[k]
          BY <2>5, <3>1, <4>1 DEF Gains
        <4> QED BY <4>1, <4>2 DEF Q
      <3>2. Q(queue, m) => Q(t, m)
        <4>1. SUFFICES ASSUME NEW k \in 1..Len(queue), queue[k] = m PROVE Q(t, m)
          BY DEF Q
        <4>2. PICK j \in 1..Len(t) : t[j] = queue[k]
          BY <2>5 DEF Gains
        <4> QED BY <4>1, <4>2 DEF Q
      <3>3. m = nextId => Q(t, m)
        BY <2>5 DEF Q, Gains
      <3> QED BY <3>1, <3>2, <3>3
    <2>7. /\ PlaceFn(t, kept, nextId + 1) = [PlaceFn(queue, kept, nextId) EXCEPT ![nextId] = "queued"]
          /\ OwnerFn(kept) = [OwnerFn(kept) EXCEPT ![nextId] = NoOne]
      <3>1. Apart(t, kept, nextId + 1)
        BY <1>4, <2>1
      <3> QED BY <1>1, <1>3, <2>3, <2>6, <3>1, QueueFacts, MapsQueued
    <2>8. Added(p, kept, NoOne)
      BY <1>1, <1>5, <2>1, <2>7 DEF Added
    <2> QED BY <2>8
  <1>7. CASE waiters # <<>>
    <2> PICK e \in Entries : Woken(e, p, kept)
      BY <1>7, PayloadWakes
    <2>1. /\ e.msg = nextId /\ e.owner \in Workers /\ e.claimedAt = now
          /\ queue = <<>> /\ queue' = <<>> /\ pending' = Append(kept, e)
      BY DEF Woken
    <2>2. \A m \in Msgs : m # e.msg => (Q(queue', m) <=> Q(queue, m)) /\ (m >= nextId + 1 <=> m >= nextId)
      BY <1>1, <2>1 DEF Msgs
    <2>3. now - e.claimedAt < MinIdle
      <3>1. now \in 0..MaxTime
        BY RestHolds
      <3> QED BY <2>1, <3>1
    <2>4. Apart(queue', Append(kept, e), nextId + 1) /\ nextId + 1 \in Nat
      BY <1>1, <1>4, <2>1
    <2>5. /\ PlaceFn(queue', Append(kept, e), nextId + 1) =
               [PlaceFn(queue, kept, nextId) EXCEPT ![e.msg] = "pending"]
          /\ OwnerFn(Append(kept, e)) = [OwnerFn(kept) EXCEPT ![e.msg] = e.owner]
          /\ FreshFn(Append(kept, e), now) = FreshFn(kept, now) \cup {e.msg}
      <3> DEFINE n2 == nextId + 1
      <3>1. Apart(queue', Append(kept, e), n2) /\ n2 \in Nat /\ queue' \in Seq(Msgs) /\ queue \in Seq(Msgs)
        BY <1>4, <2>4, QueueFacts
      <3>2. \A m \in Msgs : m # e.msg => (Q(queue', m) <=> Q(queue, m)) /\ (m >= n2 <=> m >= nextId)
        BY <2>2
      <3> HIDE DEF n2
      <3>3. /\ PlaceFn(queue', Append(kept, e), n2) = [PlaceFn(queue, kept, nextId) EXCEPT ![e.msg] = "pending"]
            /\ OwnerFn(Append(kept, e)) = [OwnerFn(kept) EXCEPT ![e.msg] = e.owner]
            /\ FreshFn(Append(kept, e), now) = FreshFn(kept, now) \cup {e.msg}
        BY <1>1, <1>3, <2>3, <3>1, <3>2, MapsDelivered
      <3> QED BY <3>3 DEF n2
    <2>6. e.owner # NoOne
      BY <2>1
    <2>7. Added(p, kept, e.owner)
      BY <1>1, <1>5, <2>1, <2>5, <2>6 DEF Added
    <2> QED BY <2>1, <2>7
  <1> QED BY <1>6, <1>7

LEMMA EnqueueMaps ==
  ASSUME BackendInv, NEW t \in Tasks, NEW c \in {now, now - 1}, EnqueueTask(t, c)
  PROVE  Contract
  <1> DEFINE p == [task |-> t, retry |-> 0, createdAt |-> c]
  <1>1. now \in 0..MaxTime
    BY RestHolds
  <1>2. c \in -1..MaxTime
    BY <1>1
  <1>3. p \in Bodies /\ p.task = t /\ p.retry = 0
    BY <1>2 DEF Bodies
  <1> HIDE DEF p
  <1>4. EnqueuePayload(p, pending) /\ UNCHANGED <<now, locks>>
    BY DEF EnqueueTask, p
  <1>5. pending \in Seq(Entries) /\ Sub(pending, pending)
    BY QueueFacts, SubSelf
  <1>6. PICK o \in Workers \cup {NoOne} : Added(p, pending, o)
    BY <1>3, <1>4, <1>5, PayloadMaps
  <1>7. nextId <= MaxMsgs
    BY <1>4 DEF EnqueuePayload
  <1>8. Abstract!Enqueue(t, 0, o)
    BY <1>3, <1>6, <1>7, MapEnqueue DEF Added
  <1>9. 0 \in 0..MaxRetries
    OBVIOUS
  <1> QED BY <1>8, <1>9, ContractCases

LEMMA ConsumeMaps ==
  ASSUME BackendInv, NEW w \in Workers, ConsumeTask(w)
  PROVE  Contract
  <1>1. CASE queue # <<>>
    <2> DEFINE e == Delivery(Head(queue), w)
    <2>1. Head(queue) = queue[1] /\ 1 \in 1..Len(queue) /\ Head(queue) \in Msgs
      BY <1>1, QueueFacts, HeadTailProperties
    <2>2. now \in 0..MaxTime /\ now \in -MinIdle..MaxTime
      BY RestHolds
    <2>3. e \in Entries /\ e.msg = Head(queue) /\ e.owner = w /\ e.claimedAt = now
      BY <2>1, <2>2 DEF Delivery, Entries
    <2> HIDE DEF e
    <2>4. /\ queue' = Tail(queue) /\ pending' = Append(pending, e)
          /\ UNCHANGED <<now, nextId, payload>>
      BY <1>1 DEF ConsumeTask, e
    <2>5. BackendInv'
      BY ConsumeStep
    <2>6. Apart(queue', Append(pending, e), nextId) /\ queue' \in Seq(Msgs)
      BY <2>4, <2>5 DEF BackendInv, TypeOK
    <2>7. ASSUME NEW m \in Msgs, m # e.msg PROVE Q(queue', m) <=> Q(queue, m)
      <3>1. /\ Len(queue') = Len(queue) - 1 /\ Len(queue) \in Nat
            /\ \A k \in 1..Len(queue') : queue'[k] = queue[k + 1]
        BY <1>1, <2>4, QueueFacts, HeadTailProperties
      <3>2. ASSUME Q(queue', m) PROVE Q(queue, m)
        <4>1. PICK k \in 1..Len(queue') : queue'[k] = m
          BY <3>2 DEF Q
        <4>2. k + 1 \in 1..Len(queue) /\ queue[k + 1] = m
          BY <3>1, <4>1
        <4> QED BY <4>2 DEF Q
      <3>3. ASSUME Q(queue, m) PROVE Q(queue', m)
        <4>1. PICK k \in 1..Len(queue) : queue[k] = m
          BY <3>3 DEF Q
        <4>2. k # 1
          BY <2>1, <2>3, <2>7, <4>1
        <4>3. k - 1 \in 1..Len(queue') /\ (k - 1) + 1 = k
          BY <3>1, <4>2
        <4>4. queue'[k - 1] = m
          BY <3>1, <4>1, <4>3
        <4> QED BY <4>3, <4>4 DEF Q
      <3> QED BY <3>2, <3>3
    <2>8. now - e.claimedAt < MinIdle
      BY <2>2, <2>3
    <2>9. /\ PlaceFn(queue', Append(pending, e), nextId) =
               [PlaceFn(queue, pending, nextId) EXCEPT ![e.msg] = "pending"]
          /\ OwnerFn(Append(pending, e)) = [OwnerFn(pending) EXCEPT ![e.msg] = e.owner]
          /\ FreshFn(Append(pending, e), now) = FreshFn(pending, now) \cup {e.msg}
      <3>1. Apart(queue, pending, nextId)
        BY DEF BackendInv
      <3> QED BY <2>3, <2>6, <2>7, <2>8, <3>1, QueueFacts, MapsDelivered
    <2>10. PlaceFn(queue, pending, nextId)[e.msg] = "queued" /\ e.msg \in Msgs
      <3>1. PlaceIs(queue, pending, nextId)
        BY QueueFacts, Values DEF BackendInv
      <3>2. Q(queue, e.msg) /\ ~(e.msg >= nextId) /\ e.msg \in Msgs
        <4>1. Q(queue, e.msg)
          BY <2>1, <2>3 DEF Q
        <4>2. queue[1] < nextId /\ nextId \in Nat
          BY <2>1, QueueFacts
        <4> QED BY <2>1, <2>3, <4>1, <4>2 DEF Msgs
      <3> QED BY <3>1, <3>2 DEF PlaceIs
    <2>11. Abstract!Consume(e.msg, w)
      BY <2>3, <2>4, <2>9, <2>10, MapConsume
    <2> QED BY <2>10, <2>11, ContractCases
  <1>2. CASE queue = <<>>
    <2>1. UNCHANGED <<now, nextId, payload, queue, pending>>
      BY <1>2 DEF ConsumeTask
    <2> QED BY <2>1, MapStutter DEF Contract
  <1> QED BY <1>1, <1>2

\* The entries of I, those of the messages S, are written over with f by w.
Rewriting(I, f, w, S) ==
  /\ I \in SUBSET (1..Len(pending)) /\ f \in [I -> Entries]
  /\ \A i \in I : f[i].msg = pending[i].msg /\ f[i].owner = w
  /\ pending' = [i \in 1..Len(pending) |-> IF i \in I THEN f[i] ELSE pending[i]]
  /\ S = {pending[i].msg : i \in I}

LEMMA RewriteMaps ==
  ASSUME BackendInv, BackendInv', NEW w \in Workers, UNCHANGED <<now, nextId, payload, queue>>,
         NEW I, NEW f, NEW S, Rewriting(I, f, w, S)
  PROVE  /\ S \subseteq Msgs
         /\ PlaceFn(queue', pending', nextId') = PlaceFn(queue, pending, nextId)
         /\ OwnerFn(pending') = [m \in Msgs |-> IF m \in S THEN w ELSE OwnerFn(pending)[m]]
         /\ (\A i \in I : now - f[i].claimedAt < MinIdle)
              => FreshFn(pending', now') = FreshFn(pending, now) \cup S
         /\ (\A i \in I : ~(now - f[i].claimedAt < MinIdle))
              => FreshFn(pending', now') = FreshFn(pending, now) \ S
  <1> DEFINE pd2 == pending'
  <1>1. pending \in Seq(Entries) /\ Len(pending) \in Nat /\ queue \in Seq(Msgs) /\ nextId \in Nat
    BY QueueFacts, LenProperties
  <1>2. Apart(queue, pending, nextId)
    BY DEF BackendInv
  <1>3. pd2 \in Seq(Entries) /\ Apart(queue, pd2, nextId)
    BY DEF BackendInv, TypeOK, Entries
  <1>4. Len(pd2) = Len(pending)
    BY <1>1 DEF Rewriting
  <1>5. /\ \A i \in 1..Len(pending) : i \notin I => pd2[i] = pending[i]
        /\ \A i \in I : pd2[i] = f[i]
        /\ \A i \in 1..Len(pending) : pd2[i].msg = pending[i].msg
    BY DEF Rewriting
  <1>6. \A i \in 1..Len(pending) : pending[i].msg \in Msgs
    BY <1>1, IdsAreNumbers
  <1> HIDE DEF pd2
  <1>7. /\ PlaceFn(queue, pd2, nextId) = PlaceFn(queue, pending, nextId)
        /\ OwnerFn(pd2) = [m \in Msgs |-> IF m \in S THEN w ELSE OwnerFn(pending)[m]]
        /\ (\A i \in I : now - pd2[i].claimedAt < MinIdle) => FreshFn(pd2, now) = FreshFn(pending, now) \cup S
        /\ (\A i \in I : ~(now - pd2[i].claimedAt < MinIdle)) => FreshFn(pd2, now) = FreshFn(pending, now) \ S
    <2>1. \A i \in I : pd2[i].owner = w
      BY <1>5 DEF Rewriting
    <2>2. /\ \A i \in 1..Len(pending) : pd2[i].msg = pending[i].msg
          /\ \A i \in 1..Len(pending) : i \notin I => pd2[i] = pending[i]
      BY <1>5
    <2>3. Rewritten(pending, pd2, I, w, S)
      BY <1>4, <2>1, <2>2 DEF Rewriting, Rewritten
    <2>4. RewrittenIs(queue, pending, pd2, nextId, I, w, S, now)
      BY <1>1, <1>2, <1>3, <2>3, MapsRewritten
    <2> QED BY <2>4 DEF RewrittenIs
  <1>8. S \subseteq Msgs
    BY <1>6 DEF Rewriting
  <1>9. /\ (\A i \in I : now - f[i].claimedAt < MinIdle) => \A i \in I : now - pd2[i].claimedAt < MinIdle
        /\ (\A i \in I : ~(now - f[i].claimedAt < MinIdle)) => \A i \in I : ~(now - pd2[i].claimedAt < MinIdle)
    BY <1>5
  <1> QED BY <1>7, <1>8, <1>9 DEF pd2

LEMMA RefreshMaps ==
  ASSUME BackendInv, NEW m \in Msgs, NEW w \in Workers, NEW idle \in {0, MinIdle}, RefreshTaskClaim(m, w, idle)
  PROVE  Contract
  <1>1. pending \in Seq(Entries) /\ DOMAIN pending = 1..Len(pending)
    BY QueueFacts, LenProperties
  <1>2. now \in 0..MaxTime /\ now - idle \in -MinIdle..MaxTime
    <2>1. now \in 0..MaxTime
      BY RestHolds
    <2> QED BY <2>1
  <1>3. PICK k \in 1..Len(pending) : pending[k].msg = m /\ pending[k].owner = w
    BY HoldsMaps DEF RefreshTaskClaim
  <1>4. PlaceFn(queue, pending, nextId)[m] = "pending" /\ OwnerFn(pending)[m] = w
    BY HoldsMaps DEF RefreshTaskClaim
  <1>5. \A i \in 1..Len(pending) : pending[i].msg = m => i = k
    BY <1>3 DEF BackendInv, Apart
  <1> DEFINE I == {k}
             e == [pending[k] EXCEPT !.claimedAt = now - idle]
             f == [i \in I |-> e]
  <1>6. e \in Entries /\ e.msg = m /\ e.owner = w /\ e.claimedAt = now - idle
    <2>1. pending[k] \in Entries
      BY <1>1, ElementOfSeq
    <2>2. e \in Entries
      BY <1>2, <2>1 DEF Entries
    <2> QED BY <1>3, <2>1, <2>2 DEF Entries
  <1>7. pending' = [i \in 1..Len(pending) |-> IF i \in I THEN f[i] ELSE pending[i]]
    <2>1. \A i \in 1..Len(pending) : i \in I <=> pending[i].msg = m
      BY <1>3, <1>5
    <2> QED BY <1>1, <2>1 DEF RefreshTaskClaim
  <1> HIDE DEF e
  <1>8. /\ f \in [I -> Entries] /\ I \in SUBSET (1..Len(pending))
        /\ \A i \in I : f[i].msg = pending[i].msg /\ f[i].owner = w /\ f[i].claimedAt = now - idle
        /\ {m} = {pending[i].msg : i \in I}
    BY <1>3, <1>6
  <1> HIDE DEF I, f
  <1>9. UNCHANGED <<now, nextId, payload, queue>> /\ BackendInv'
    BY RefreshStep DEF RefreshTaskClaim
  <1>10. /\ PlaceFn(queue', pending', nextId') = PlaceFn(queue, pending, nextId)
         /\ OwnerFn(pending') = [n \in Msgs |-> IF n \in {m} THEN w ELSE OwnerFn(pending)[n]]
         /\ (\A i \in I : now - f[i].claimedAt < MinIdle)
              => FreshFn(pending', now') = FreshFn(pending, now) \cup {m}
         /\ (\A i \in I : ~(now - f[i].claimedAt < MinIdle))
              => FreshFn(pending', now') = FreshFn(pending, now) \ {m}
    <2>1. Rewriting(I, f, w, {m})
      BY <1>7, <1>8 DEF Rewriting
    <2> QED BY <1>9, <2>1, RewriteMaps
  <1>11. OwnerFn(pending') = OwnerFn(pending)
    <2>1. OwnerFn(pending) = [n \in Msgs |-> OwnerFn(pending)[n]]
      BY MappedFunctions
    <2>2. \A n \in Msgs : OwnerFn(pending)[n] = IF n \in {m} THEN w ELSE OwnerFn(pending)[n]
      BY <1>4
    <2> QED BY <1>10, <2>1, <2>2
  <1>12. BodyFn(payload') = BodyFn(payload) /\ nextId' = nextId
    BY <1>9
  <1>13. CASE idle = 0
    <2>1. \A i \in I : now - f[i].claimedAt < MinIdle
      BY <1>2, <1>8, <1>13
    <2>2. Abstract!Refresh(m, w)
      BY <1>4, <1>10, <1>11, <1>12, <2>1, MapRefresh
    <2> QED BY <2>2, ContractCases
  <1>14. CASE idle = MinIdle
    <2>1. \A i \in I : ~(now - f[i].claimedAt < MinIdle)
      BY <1>2, <1>8, <1>14
    <2>2. Abstract!Age(m, w)
      BY <1>4, <1>10, <1>11, <1>12, <2>1, MapRefresh
    <2> QED BY <2>2, ContractCases
  <1> QED BY <1>13, <1>14

LEMMA ClaimMaps ==
  ASSUME BackendInv, NEW w \in Workers, NEW count \in 1..MaxMsgs, ClaimStaleTasks(w, count)
  PROVE  Contract
  <1>1. pending \in Seq(Entries) /\ DOMAIN pending = 1..Len(pending)
    BY QueueFacts, LenProperties
  <1>2. now \in 0..MaxTime /\ now \in -MinIdle..MaxTime
    BY RestHolds
  <1> DEFINE I == {i \in IdleMsgs : Cardinality({j \in IdleMsgs : j < i}) < count}
             f == [i \in I |-> [pending[i] EXCEPT !.owner = w, !.claimedAt = now]]
             S == {pending[i].msg : i \in I}
  <1>3. I \subseteq IdleMsgs
    OBVIOUS
  <1>4. pending' = [i \in 1..Len(pending) |-> IF i \in I THEN f[i] ELSE pending[i]]
    BY <1>1 DEF ClaimStaleTasks
  <1> HIDE DEF I
  <1>5. \A i \in I : i \in 1..Len(pending) /\ now - pending[i].claimedAt >= MinIdle
    BY <1>1, <1>3 DEF IdleMsgs
  <1>6. ASSUME NEW i \in I
        PROVE  LET e == [pending[i] EXCEPT !.owner = w, !.claimedAt = now]
               IN  e \in Entries /\ e.msg = pending[i].msg /\ e.owner = w /\ e.claimedAt = now
    <2>1. pending[i] \in Entries
      BY <1>1, <1>5, ElementOfSeq
    <2> QED BY <1>2, <2>1 DEF Entries
  <1>7. /\ f \in [I -> Entries]
        /\ \A i \in I : f[i].msg = pending[i].msg /\ f[i].owner = w /\ f[i].claimedAt = now
    BY <1>6
  <1> HIDE DEF f
  <1>8. UNCHANGED <<now, nextId, payload, queue>> /\ BackendInv'
    BY ClaimStep DEF ClaimStaleTasks
  <1>9. \A i \in I : now - f[i].claimedAt < MinIdle
    BY <1>2, <1>7
  <1>10. /\ S \subseteq Msgs
         /\ PlaceFn(queue', pending', nextId') = PlaceFn(queue, pending, nextId)
         /\ OwnerFn(pending') = [m \in Msgs |-> IF m \in S THEN w ELSE OwnerFn(pending)[m]]
         /\ FreshFn(pending', now') = FreshFn(pending, now) \cup S
    <2>1. Rewriting(I, f, w, S)
      BY <1>4, <1>5, <1>7 DEF Rewriting
    <2> HIDE DEF S
    <2> QED BY <1>8, <1>9, <2>1, RewriteMaps
  <1>11. ASSUME NEW m \in S
         PROVE  PlaceFn(queue, pending, nextId)[m] = "pending" /\ m \notin FreshFn(pending, now)
    <2>1. PICK i \in I : m = pending[i].msg
      OBVIOUS
    <2>2. i \in 1..Len(pending) /\ pending[i] \in Entries /\ now - pending[i].claimedAt >= MinIdle
      BY <1>1, <1>5, ElementOfSeq
    <2>3. ~(now - pending[i].claimedAt < MinIdle)
      BY <1>2, <2>2 DEF Entries
    <2> QED BY <2>1, <2>2, <2>3, OwnedMaps
  <1> HIDE DEF S
  <1>12. /\ S \subseteq {m \in Msgs : PlaceFn(queue, pending, nextId)[m] = "pending"}
         /\ S \cap FreshFn(pending, now) = {}
    BY <1>10, <1>11
  <1>13. Abstract!Claim(S, w)
    BY <1>8, <1>10, <1>12, MapClaim
  <1> QED BY <1>10, <1>13, ContractCases

\* Messages leave.
LEMMA LeaveMaps ==
  ASSUME BackendInv, BackendInv', UNCHANGED <<now, nextId, payload>>, Sub(queue', queue), Sub(pending', pending)
  PROVE  Contract
  <1> DEFINE q2 == queue'
             pd2 == pending'
  <1>1. /\ queue \in Seq(Msgs) /\ pending \in Seq(Entries) /\ nextId \in Nat /\ Apart(queue, pending, nextId)
        /\ q2 \in Seq(Msgs) /\ pd2 \in Seq(Entries) /\ Apart(q2, pd2, nextId)
    BY QueueFacts DEF BackendInv, TypeOK, Entries
  <1>2. Sub(q2, queue) /\ Sub(pd2, pending)
    OBVIOUS
  <1> HIDE DEF q2, pd2
  <1>3. \A i \in 1..Len(q2) : Q(queue, q2[i])
    BY <1>2 DEF Sub, Q
  <1>4. \A i \in 1..Len(pd2) : \E j \in 1..Len(pending) : pd2[i] = pending[j]
    BY <1>2 DEF Sub
  <1>5. PICK S : Leaving(queue, pending, q2, pd2, S)
    BY <1>3, <1>4 DEF Leaving
  <1>6. Left(queue, pending, q2, pd2, nextId, S, now)
    BY <1>1, <1>5, MapsLeaving
  <1>7. Abstract!Purge(S)
    BY <1>6, MapPurge DEF q2, pd2, Left
  <1>8. S \in SUBSET Msgs
    BY <1>6 DEF Left
  <1> QED BY <1>7, <1>8, ContractCases

LEMMA AckMaps ==
  ASSUME BackendInv, NEW m \in Msgs, AckTask(m) \/ \E w \in Workers : AckTaskIfOwned(m, w)
  PROVE  Contract
  <1>1. pending' = Without(m) /\ UNCHANGED <<now, nextId, payload, queue>>
    BY DEF AckTask, AckTaskIfOwned
  <1>2. Sub(pending', pending) /\ Sub(queue', queue)
    BY <1>1, QueueFacts, SubKeeping, SubSelf DEF Without
  <1> QED BY <1>1, <1>2, AckStep, LeaveMaps

LEMMA PurgeMaps ==
  ASSUME BackendInv, NEW i \in Instances, PurgeInstance(i)
  PROVE  Contract
  <1>1. Sub(queue', queue) /\ Sub(pending', pending) /\ UNCHANGED <<now, nextId, payload>>
    BY QueueFacts, SubKeeping DEF PurgeInstance
  <1> QED BY <1>1, PurgeStep, LeaveMaps

LEMMA TickMaps ==
  ASSUME BackendInv, Tick
  PROVE  Contract
  <1> DEFINE S == FreshFn(pending, now) \ FreshFn(pending, now + 1)
  <1>1. pending' = pending /\ queue' = queue /\ nextId' = nextId /\ payload' = payload /\ now' = now + 1
    BY DEF Tick
  <1>2. now \in Int
    BY RestHolds
  <1>3. FreshFn(pending, now + 1) \subseteq FreshFn(pending, now)
    BY <1>2, QueueFacts, MapsAging DEF BackendInv
  <1>4. S \subseteq FreshFn(pending, now) /\ FreshFn(pending, now + 1) = FreshFn(pending, now) \ S
    BY <1>3
  <1>5. S \in SUBSET Msgs
    BY DEF FreshFn
  <1> HIDE DEF S
  <1>6. Abstract!Expire(S)
    BY <1>1, <1>4, MapExpire
  <1> QED BY <1>5, <1>6, ContractCases

LEMMA ReplaceMaps ==
  ASSUME BackendInv, NEW m \in Msgs, NEW w \in Workers, ReplacePendingTask(m, w)
  PROVE  Contract
  <1> DEFINE p == [payload[m] EXCEPT !.retry = @ + 1, !.createdAt = now]
             kept == Without(m)
             X == {e \in Range(pending) : e.msg # m}
  <1>1. payload[m] \in Bodies /\ now \in -1..MaxTime /\ payload[m].retry < MaxRetries
    <2>1. now \in 0..MaxTime
      BY RestHolds
    <2>2. now \in -1..MaxTime
      BY <2>1
    <2> QED BY <2>2 DEF BackendInv, TypeOK, Bodies, ReplacePendingTask
  <1>2. /\ \E i \in 1..Len(pending) : pending[i].msg = m
        /\ PlaceFn(queue, pending, nextId)[m] = "pending" /\ OwnerFn(pending)[m] = w
    BY HoldsMaps DEF ReplacePendingTask
  <1>3. payload[m].task \in Tasks
    BY <1>2 DEF BackendInv, Apart, Carried
  <1>4. p \in Bodies /\ p.task = payload[m].task /\ p.retry = payload[m].retry + 1
    BY <1>1, RetryBody
  <1> HIDE DEF p
  <1>5. kept \in Seq(Entries) /\ Sub(kept, pending)
    BY QueueFacts, SubKeeping DEF Without
  <1>6. /\ \A k \in 1..Len(kept) : kept[k] \in X
        /\ \A i \in 1..Len(pending) : pending[i] \in X => \E k \in 1..Len(kept) : kept[k] = pending[i]
    <2>1. kept = Keeping(pending, X)
      BY DEF Without
    <2>2. pending \in Seq(Entries)
      BY QueueFacts
    <2> HIDE DEF kept, X
    <2>3. /\ \A k \in 1..Len(Keeping(pending, X)) : Keeping(pending, X)[k] \in X
          /\ \A i \in 1..Len(pending) : pending[i] \in X =>
               \E k \in 1..Len(Keeping(pending, X)) : Keeping(pending, X)[k] = pending[i]
      BY <2>2, Kept3
    <2> QED BY <2>1, <2>3
  <1>7. EnqueuePayload(p, kept) /\ UNCHANGED <<now, locks>>
    BY DEF ReplacePendingTask, p
  <1> HIDE DEF kept
  <1>8. \A k \in 1..Len(kept) : kept[k].msg # m
    BY <1>6
  <1>9. \A i \in 1..Len(pending) : pending[i].msg # m => \E k \in 1..Len(kept) : kept[k] = pending[i]
    <2>1. DOMAIN pending = 1..Len(pending)
      BY QueueFacts, LenProperties
    <2>2. \A i \in 1..Len(pending) : pending[i] \in Range(pending)
      BY <2>1 DEF Range
    <2> QED BY <1>6, <2>2
  <1> HIDE DEF X
  <1>10. Apart(queue, pending, nextId) /\ Apart(queue, kept, nextId)
    BY <1>5, QueueFacts, SubApart, SubSelf DEF BackendInv
  <1>11. {m} = {x \in Msgs : (Q(queue, x) \/ Pend(pending, x)) /\ ~Q(queue, x) /\ ~Pend(kept, x)}
    <2>1. Pend(pending, m) /\ ~Q(queue, m) /\ ~Pend(kept, m)
      BY <1>2, <1>8, <1>10 DEF Pend, Q, Apart
    <2>2. ASSUME NEW x \in Msgs, x # m, Pend(pending, x) PROVE Pend(kept, x)
      <3>1. PICK i \in 1..Len(pending) : pending[i].msg = x
        BY <2>2 DEF Pend
      <3>2. PICK k \in 1..Len(kept) : kept[k] = pending[i]
        BY <1>9, <2>2, <3>1
      <3> QED BY <3>1, <3>2 DEF Pend
    <2> QED BY <2>1, <2>2
  <1>12. /\ \A i \in 1..Len(queue) : Q(queue, queue[i])
         /\ \A i \in 1..Len(kept) : \E j \in 1..Len(pending) : kept[i] = pending[j]
    BY <1>5 DEF Q, Sub
  <1>13. /\ PlaceFn(queue, kept, nextId) =
              [x \in Msgs |-> IF x \in {m} THEN "settled" ELSE PlaceFn(queue, pending, nextId)[x]]
         /\ OwnerFn(kept) = [x \in Msgs |-> IF x \in {m} THEN NoOne ELSE OwnerFn(pending)[x]]
         /\ FreshFn(kept, now) = FreshFn(pending, now) \ {m}
    <2>1. Leaving(queue, pending, queue, kept, {m})
      BY <1>11, <1>12 DEF Leaving
    <2>2. Left(queue, pending, queue, kept, nextId, {m}, now)
      BY <1>5, <1>10, <2>1, QueueFacts, MapsLeaving
    <2> QED BY <2>2 DEF Left
  <1>14. /\ PlaceFn(queue, kept, nextId) = [PlaceFn(queue, pending, nextId) EXCEPT ![m] = "settled"]
         /\ OwnerFn(kept) = [OwnerFn(pending) EXCEPT ![m] = NoOne]
    <2>1. /\ PlaceFn(queue, pending, nextId) = [x \in Msgs |-> PlaceFn(queue, pending, nextId)[x]]
          /\ OwnerFn(pending) = [x \in Msgs |-> OwnerFn(pending)[x]]
      BY MappedFunctions
    <2> QED BY <1>13, <2>1
  <1>15. PICK o \in Workers \cup {NoOne} : Added(p, kept, o)
    BY <1>3, <1>4, <1>5, <1>7, PayloadMaps
  <1>16. nextId <= MaxMsgs
    BY <1>7 DEF EnqueuePayload
  <1>17. BodyFn(payload)[m].task = p.task /\ p.retry \in 0..MaxRetries
    BY <1>4 DEF BodyFn, Bodies
  <1>18. Abstract!Replace(m, w, p.retry, o)
    <2>1. nextId' = nextId + 1
          /\ BodyFn(payload') =
               [BodyFn(payload) EXCEPT ![nextId] = [task |-> BodyFn(payload)[m].task, retry |-> p.retry]]
      BY <1>15, <1>17 DEF Added
    <2>2. /\ PlaceFn(queue', pending', nextId') =
               [PlaceFn(queue, pending, nextId) EXCEPT ![m] = "settled",
                                                      ![nextId] = IF o = NoOne THEN "queued" ELSE "pending"]
          /\ OwnerFn(pending') = [OwnerFn(pending) EXCEPT ![m] = NoOne, ![nextId] = o]
      BY <1>14, <1>15 DEF Added
    <2>3. FreshFn(pending', now') =
            IF o = NoOne THEN FreshFn(pending, now) \ {m} ELSE (FreshFn(pending, now) \ {m}) \cup {nextId}
      BY <1>13, <1>15 DEF Added
    <2> QED BY <1>2, <1>16, <2>1, <2>2, <2>3, MapReplace
  <1> QED BY <1>17, <1>18, ContractCases

LEMMA InitMaps == Init => Abstract!QueueInit
  <1> SUFFICES ASSUME Init PROVE Abstract!QueueInit
    OBVIOUS
  <1>1. Range(<<>>) = {}
    BY DEF Range
  <1>2. queue = <<>> /\ pending = <<>> /\ nextId = 1
    BY DEF Init
  <1>3. \A m \in Msgs : m >= 1
    BY DEF Msgs
  <1>4. PlaceFn(queue, pending, nextId) = [m \in Msgs |-> "unsent"]
    BY <1>2, <1>3 DEF PlaceFn
  <1>5. OwnerFn(pending) = [m \in Msgs |-> NoOne] /\ FreshFn(pending, now) = {}
    BY <1>1, <1>2 DEF OwnerFn, FreshFn
  <1>6. BodyFn(payload) = [m \in Msgs |-> [task |-> NoTask, retry |-> 0]]
    BY DEF Init, Unsent, BodyFn
  <1> QED BY <1>2, <1>4, <1>5, <1>6, MapInit

LEMMA NextMaps == BackendInv /\ [Next]_vars => Contract
  <1> SUFFICES ASSUME BackendInv, [Next]_vars PROVE Contract
    OBVIOUS
  <1>1. CASE \E t \in Tasks, c \in {now, now - 1} : EnqueueTask(t, c)
    BY <1>1, EnqueueMaps
  <1>2. CASE \E m \in Msgs : AckTask(m) \/ \E w \in Workers : AckTaskIfOwned(m, w)
    BY <1>2, AckMaps
  <1>3. CASE \E w \in Workers : ConsumeTask(w)
    BY <1>3, ConsumeMaps
  <1>4. CASE \E w \in Workers, m \in Msgs, idle \in {0, MinIdle} : RefreshTaskClaim(m, w, idle)
    BY <1>4, RefreshMaps
  <1>5. CASE \E w \in Workers, m \in Msgs : ReplacePendingTask(m, w)
    BY <1>5, ReplaceMaps
  <1>6. CASE \E w \in Workers, count \in 1..MaxMsgs : ClaimStaleTasks(w, count)
    BY <1>6, ClaimMaps
  <1>7. CASE \E i \in Instances : PurgeInstance(i)
    BY <1>7, PurgeMaps
  <1>8. CASE Tick
    BY <1>8, TickMaps
  <1>9. CASE Destroy
    <2>1. Sub(queue', queue) /\ Sub(pending', pending) /\ UNCHANGED <<now, nextId, payload>>
      BY <1>9, QueueFacts, SubEmpty DEF Destroy
    <2> QED BY <1>9, <2>1, DestroyStep, LeaveMaps
  <1>10. CASE UNCHANGED <<now, nextId, payload, queue, pending>>
    BY <1>10, MapStutter DEF Contract
  <1>11. ASSUME NEW s \in Scopes, NEW w \in Workers, AcquireLock(s, w) \/ RenewLock(s, w) \/ ReleaseLock(s, w)
         PROVE  UNCHANGED <<now, nextId, payload, queue, pending>>
    BY <1>11 DEF AcquireLock, RenewLock, ReleaseLock
  <1>12. ASSUME NEW i \in 1..MaxWaiters, WaitTimesOut(i)
         PROVE  UNCHANGED <<now, nextId, payload, queue, pending>>
    BY <1>12 DEF WaitTimesOut
  <1>13. UNCHANGED vars => UNCHANGED <<now, nextId, payload, queue, pending>>
    BY DEF vars
  <1> QED BY <1>1, <1>2, <1>3, <1>4, <1>5, <1>6, <1>7, <1>8, <1>9, <1>10, <1>11, <1>12, <1>13 DEF Next

-----------------------------------------------------------------------------
\* The backend implements the queue of the contract: every call has the effect
\* TaskQueue allows, whatever the order of the queue, the waiters and the clock.
THEOREM QueueImplemented == Spec => ImplementsTaskQueue
  <1>1. Contract => [Abstract!QueueNext]_(Abstract!queueVars)
    BY DEF Contract
  <1> QED BY <1>1, InitMaps, NextMaps, BackendConsistent, PTL
          DEF Spec, ImplementsTaskQueue, Abstract!QueueSpec
=============================================================================
