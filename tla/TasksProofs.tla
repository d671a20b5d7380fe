---------------------------- MODULE TasksProofs ----------------------------
(***************************************************************************)
(* The linked list of tasks: for any number of slots, priorities and pids, *)
(* every call of Tasks leaves a list that is sound, sorted where it should *)
(* be, and that implements the queue of RunQueue.                          *)
(***************************************************************************)
EXTENDS Tasks, TLAPS, SequenceTheorems, FiniteSetTheorems, WellFoundedInduction

-----------------------------------------------------------------------------
(* Induction over data: a set of numbers has a least one.                  *)

LEMMA LeastNumber ==
    ASSUME NEW S \in SUBSET Nat, S # {}
    PROVE  \E m \in S : \A k \in S : m <= k
<1>1. PICK R : R = OpToRel(<, Nat)
  OBVIOUS
<1>2. IsWellFoundedOn(R, Nat)
  BY <1>1, NatLessThanWellFounded
<1>3. PICK m \in S : \A k \in S : ~(<<k, m>> \in R)
  BY <1>2, WFMin
<1>4. \A i, j \in Nat : i < j => <<i, j>> \in R
  BY <1>1 DEF OpToRel
<1>5. \A k \in S : ~(k < m)
  BY <1>3, <1>4
<1> QED BY <1>5

\* A set of the numbers up to n that has 0 and with each number the next one has all.
LEMMA UpToIs ==
    ASSUME NEW n \in Nat, NEW S, 0 \in S, \A i \in 0 .. n - 1 : i \in S => i + 1 \in S
    PROVE  \A i \in 0 .. n : i \in S
<1> DEFINE rest == {i \in 0 .. n : i \notin S}
<1> SUFFICES ASSUME rest # {} PROVE FALSE
  OBVIOUS
<1>1. rest \in SUBSET Nat
  OBVIOUS
<1>2. PICK m \in rest : \A k \in rest : m <= k
  BY <1>1, LeastNumber
<1>3. m # 0 /\ m - 1 \in 0 .. n - 1 /\ m - 1 + 1 = m
  OBVIOUS
<1>4. m - 1 \in S
  BY <1>2, <1>3
<1> QED BY <1>3, <1>4

LEMMA IntervalSize ==
    ASSUME NEW n \in Nat
    PROVE  Cardinality(1 .. n) = n /\ Cardinality(0 .. n - 1) = n
<1>1. /\ Cardinality(1 .. n) = IF 1 > n THEN 0 ELSE n - 1 + 1
      /\ Cardinality(0 .. n - 1) = IF 0 > n - 1 THEN 0 ELSE n - 1 - 0 + 1
  BY FS_Interval
<1> QED BY <1>1

-----------------------------------------------------------------------------
(* Sequences with an element more or less.                                 *)

LEMMA RemovedAt ==
    ASSUME NEW S, NEW q \in Seq(S), NEW i \in DOMAIN q
    PROVE  /\ RemoveAt(q, i) \in Seq(S) /\ Len(RemoveAt(q, i)) = Len(q) - 1
           /\ \A k \in 1 .. Len(q) - 1 :
                 RemoveAt(q, i)[k] = IF k < i THEN q[k] ELSE q[k + 1]
<1> DEFINE n == Len(q)
           a == SubSeq(q, 1, i - 1)
           b == SubSeq(q, i + 1, n)
<1>1. n \in Nat /\ i \in 1 .. n /\ \A k \in 1 .. n : q[k] \in S
  OBVIOUS
<1>2. a \in Seq(S) /\ Len(a) = i - 1 /\ \A k \in 1 .. i - 1 : a[k] = q[k]
  BY <1>1
<1>3. b \in Seq(S) /\ Len(b) = n - i /\ \A k \in 1 .. n - i : b[k] = q[i + k]
  BY <1>1
<1> HIDE DEF n, a, b
<1>4. /\ a \o b \in Seq(S) /\ Len(a \o b) = n - 1
      /\ \A k \in 1 .. n - 1 : (a \o b)[k] = IF k < i THEN a[k] ELSE b[k - i + 1]
  <2>1. /\ a \o b \in Seq(S) /\ Len(a \o b) = (i - 1) + (n - i)
        /\ \A k \in 1 .. (i - 1) + (n - i) :
              (a \o b)[k] = IF k <= i - 1 THEN a[k] ELSE b[k - (i - 1)]
    <3>1. /\ a \o b \in Seq(S) /\ Len(a \o b) = Len(a) + Len(b)
          /\ \A k \in 1 .. Len(a) + Len(b) :
                (a \o b)[k] = IF k <= Len(a) THEN a[k] ELSE b[k - Len(a)]
      BY <1>2, <1>3, ConcatProperties
    <3> QED BY <1>2, <1>3, <3>1
  <2>2. (i - 1) + (n - i) = n - 1
    BY <1>1
  <2>3. \A k \in 1 .. n - 1 : (k < i <=> k <= i - 1) /\ k - (i - 1) = k - i + 1
    BY <1>1
  <2> QED BY <2>1, <2>2, <2>3
<1>5. RemoveAt(q, i) = a \o b
  BY DEF RemoveAt, n, a, b
<1>6. ASSUME NEW k \in 1 .. n - 1
      PROVE  RemoveAt(q, i)[k] = IF k < i THEN q[k] ELSE q[k + 1]
  <2>1. CASE k < i
    BY <1>1, <1>2, <1>4, <1>5, <2>1
  <2>2. CASE ~(k < i)
    <3>1. k - i + 1 \in 1 .. n - i /\ i + (k - i + 1) = k + 1
      BY <1>1, <2>2
    <3> QED BY <1>3, <1>4, <1>5, <2>2, <3>1
  <2> QED BY <2>1, <2>2
<1> QED BY <1>4, <1>5, <1>6 DEF n

LEMMA InsertedAt ==
    ASSUME NEW S, NEW q \in Seq(S), NEW i \in 1 .. Len(q) + 1, NEW t \in S
    PROVE  /\ InsertAt(q, i, t) \in Seq(S) /\ Len(InsertAt(q, i, t)) = Len(q) + 1
           /\ \A k \in 1 .. Len(q) + 1 :
                 InsertAt(q, i, t)[k] = IF k < i THEN q[k] ELSE IF k = i THEN t ELSE q[k - 1]
<1> DEFINE n == Len(q)
           a == SubSeq(q, 1, i - 1)
           b == SubSeq(q, i, n)
           c == a \o <<t>>
<1>1. n \in Nat /\ i \in 1 .. n + 1 /\ \A k \in 1 .. n : q[k] \in S
  OBVIOUS
<1>2. a \in Seq(S) /\ Len(a) = i - 1 /\ \A k \in 1 .. i - 1 : a[k] = q[k]
  BY <1>1
<1>3. b \in Seq(S) /\ Len(b) = n - i + 1 /\ \A k \in 1 .. n - i + 1 : b[k] = q[i + k - 1]
  BY <1>1
<1>4. InsertAt(q, i, t) = c \o b
  BY DEF InsertAt
<1> HIDE DEF n, a, b
<1>5. /\ c \in Seq(S) /\ Len(c) = i
      /\ \A k \in 1 .. i : c[k] = IF k < i THEN q[k] ELSE t
  BY <1>1, <1>2
<1> HIDE DEF c
<1>6. /\ c \o b \in Seq(S) /\ Len(c \o b) = n + 1
      /\ \A k \in 1 .. n + 1 : (c \o b)[k] = IF k <= i THEN c[k] ELSE b[k - i]
  <2>1. /\ c \o b \in Seq(S) /\ Len(c \o b) = Len(c) + Len(b)
        /\ \A k \in 1 .. Len(c) + Len(b) :
              (c \o b)[k] = IF k <= Len(c) THEN c[k] ELSE b[k - Len(c)]
    BY <1>3, <1>5, ConcatProperties
  <2>2. Len(c) + Len(b) = n + 1
    BY <1>1, <1>3, <1>5
  <2> QED BY <1>5, <2>1, <2>2
<1>7. ASSUME NEW k \in 1 .. n + 1
      PROVE  (c \o b)[k] = IF k < i THEN q[k] ELSE IF k = i THEN t ELSE q[k - 1]
  <2>1. CASE k <= i
    BY <1>1, <1>5, <1>6, <2>1
  <2>2. CASE k > i
    <3>1. k - i \in 1 .. n - i + 1 /\ i + (k - i) - 1 = k - 1
      BY <1>1, <2>2
    <3> QED BY <1>1, <1>3, <1>6, <2>2, <3>1
  <2>3. k <= i \/ k > i
    BY <1>1
  <2> QED BY <2>1, <2>2, <2>3
<1> QED BY <1>4, <1>6, <1>7 DEF n

-----------------------------------------------------------------------------
(* Lists.                                                                  *)

\* The slots of q, each once, are linked from head to the end.
IsList(q, head, nx) ==
    /\ q \in Seq(Slots)
    /\ \A i, j \in 1 .. Len(q) : q[i] = q[j] => i = j
    /\ head = IF Len(q) = 0 THEN NULL ELSE q[1]
    /\ \A i \in 1 .. Len(q) : nx[q[i]] = IF i = Len(q) THEN NULL ELSE q[i + 1]

Links == [Slots -> Slots \cup {NULL}]

LEMMA ListIsShort ==
    ASSUME NEW q, NEW head, NEW nx, IsList(q, head, nx)
    PROVE  Len(q) \in 0 .. Cardinality(Slots) /\ Cardinality(Slots) \in Nat
<1>1. q \in Injection(1 .. Len(q), Slots) /\ Len(q) \in Nat
  BY DEF IsList, Injection, IsInjective
<1>2. Cardinality(1 .. Len(q)) <= Cardinality(Slots)
  BY <1>1, FS_Injection, SlotsAssumption
<1>3. Cardinality(1 .. Len(q)) = Len(q)
  BY <1>1, IntervalSize
<1>4. Cardinality(Slots) \in Nat
  BY FS_CardinalityType, SlotsAssumption
<1> QED BY <1>1, <1>2, <1>3, <1>4

\* Walking a list gives its slots.
LEMMA ChainIs ==
    ASSUME NEW q, NEW head, NEW nx, IsList(q, head, nx)
    PROVE  Chain(head, nx) = q
<1> DEFINE C == Cardinality(Slots)
           Walk(f) == f = [n \in 0 .. C |-> IF n = 0 THEN head
                                           ELSE IF f[n-1] = NULL THEN NULL ELSE nx[f[n-1]]]
           g == [n \in 0 .. C |-> IF n < Len(q) THEN q[n + 1] ELSE NULL]
<1>1. Len(q) \in 0 .. C /\ C \in Nat
  BY ListIsShort
<1>2. /\ q \in Seq(Slots)
      /\ head = IF Len(q) = 0 THEN NULL ELSE q[1]
      /\ \A i \in 1 .. Len(q) : q[i] # NULL /\ nx[q[i]] = IF i = Len(q) THEN NULL ELSE q[i + 1]
  BY PointersAssumption DEF IsList
<1> HIDE DEF C
<1>3. Walk(g)
  <2>1. ASSUME NEW n \in 0 .. C
        PROVE  g[n] = IF n = 0 THEN head ELSE IF g[n-1] = NULL THEN NULL ELSE nx[g[n-1]]
    <3>1. CASE n = 0
      BY <1>1, <1>2, <3>1
    <3>2. CASE n # 0 /\ n <= Len(q)
      BY <1>1, <1>2, <3>2
    <3>3. CASE n > Len(q) + 1 \/ (n = Len(q) + 1)
      BY <1>1, <1>2, <3>3
    <3> QED BY <1>1, <3>1, <3>2, <3>3
  <2> QED BY <2>1
<1> DEFINE w == CHOOSE f : Walk(f)
<1>4. Walk(w)
  BY <1>3
<1> HIDE DEF w
<1>5. \A n \in 0 .. C : w[n] = g[n]
  <2> DEFINE S == {n \in 0 .. C : w[n] = g[n]}
  <2>1. 0 \in S
    <3>1. w[0] = head /\ g[0] = head /\ 0 \in 0 .. C
      BY <1>1, <1>2, <1>4
    <3> QED BY <3>1
  <2>2. ASSUME NEW n \in 0 .. C - 1, n \in S PROVE n + 1 \in S
    <3>1. n \in Nat /\ n + 1 \in 0 .. C /\ n + 1 # 0 /\ (n + 1) - 1 = n
      BY <1>1, <2>2
    <3>2. w[n + 1] = IF w[n] = NULL THEN NULL ELSE nx[w[n]]
      BY <1>4, <3>1
    <3> HIDE DEF g
    <3>3. g[n + 1] = IF g[n] = NULL THEN NULL ELSE nx[g[n]]
      BY <1>3, <3>1
    <3>4. w[n] = g[n]
      BY <2>2
    <3> QED BY <3>1, <3>2, <3>3, <3>4
  <2>3. \A n \in 0 .. C : n \in S
    BY <1>1, <2>1, <2>2, UpToIs
  <2> QED BY <2>3
<1>6. DOMAIN w = 0 .. C
  BY <1>4
<1>7. {n \in DOMAIN w : w[n] # NULL} = 0 .. Len(q) - 1
  BY <1>1, <1>2, <1>5, <1>6
<1>8. Cardinality({n \in DOMAIN w : w[n] # NULL}) = Len(q)
  <2>1. Cardinality(0 .. Len(q) - 1) = Len(q)
    BY <1>1, IntervalSize
  <2> QED BY <1>7, <2>1
<1>9. [i \in 1 .. Len(q) |-> w[i - 1]] = q
  BY <1>1, <1>2, <1>5
<1>10. Chain(head, nx) = [i \in 1 .. Cardinality({n \in DOMAIN w : w[n] # NULL}) |-> w[i - 1]]
  BY DEF Chain, w, C
<1> QED BY <1>8, <1>9, <1>10

\* What is left of a list from one of its tasks on is a list.
LEMMA ListTail ==
    ASSUME NEW q, NEW head, NEW nx, IsList(q, head, nx), NEW c \in 1 .. Len(q)
    PROVE  IsList(SubSeq(q, c, Len(q)), q[c], nx)
<1> DEFINE r == SubSeq(q, c, Len(q))
           n == Len(q)
<1>1. /\ q \in Seq(Slots) /\ n \in Nat /\ c \in 1 .. n
      /\ \A i, j \in 1 .. n : q[i] = q[j] => i = j
      /\ \A i \in 1 .. n : nx[q[i]] = IF i = n THEN NULL ELSE q[i + 1]
  BY DEF IsList
<1>2. /\ r \in Seq(Slots) /\ Len(r) = n - c + 1
      /\ \A i \in 1 .. n - c + 1 : r[i] = q[c + i - 1]
  BY <1>1
<1> HIDE DEF r, n
<1>3. \A i, j \in 1 .. Len(r) : r[i] = r[j] => i = j
  <2> SUFFICES ASSUME NEW i \in 1 .. Len(r), NEW j \in 1 .. Len(r), r[i] = r[j] PROVE i = j
    OBVIOUS
  <2>1. c + i - 1 \in 1 .. n /\ c + j - 1 \in 1 .. n
    BY <1>1, <1>2
  <2>2. c + i - 1 = c + j - 1
    BY <1>1, <1>2, <2>1
  <2> QED BY <1>1, <1>2, <2>2
<1>4. Len(r) # 0 /\ r[1] = q[c]
  BY <1>1, <1>2
<1>5. ASSUME NEW i \in 1 .. Len(r) PROVE nx[r[i]] = IF i = Len(r) THEN NULL ELSE r[i + 1]
  <2>1. c + i - 1 \in 1 .. n /\ r[i] = q[c + i - 1] /\ (i = Len(r) <=> c + i - 1 = n)
    <3>1. i \in 1 .. n - c + 1 /\ Len(r) = n - c + 1
      BY <1>1, <1>2
    <3>2. c + i - 1 \in 1 .. n /\ (i = n - c + 1 <=> c + i - 1 = n)
      BY <1>1, <3>1
    <3> QED BY <1>2, <3>1, <3>2
  <2>2. CASE i = Len(r)
    BY <1>1, <2>1, <2>2
  <2>3. CASE i # Len(r)
    <3>1. i + 1 \in 1 .. n - c + 1 /\ c + (i + 1) - 1 = (c + i - 1) + 1
      BY <1>1, <1>2, <2>3
    <3>2. r[i + 1] = q[(c + i - 1) + 1]
      BY <1>2, <3>1
    <3> QED BY <1>1, <2>1, <2>3, <3>2
  <2> QED BY <2>2, <2>3
<1> QED BY <1>2, <1>3, <1>4, <1>5 DEF IsList, r, n

LEMMA ListFacts ==
    ASSUME NEW q, NEW head, NEW nx, IsList(q, head, nx)
    PROVE  /\ q \in Seq(Slots) /\ Len(q) \in Nat /\ DOMAIN q = 1 .. Len(q)
           /\ ToSet(q) = {q[i] : i \in 1 .. Len(q)} /\ ToSet(q) \subseteq Slots
           /\ \A i \in 1 .. Len(q) : q[i] \in Slots /\ q[i] # NULL
           /\ \A i, j \in 1 .. Len(q) : q[i] = q[j] => i = j
BY PointersAssumption DEF IsList, ToSet

\* parent_of_task finds the task before, and none before the first one.
LEMMA ParentIs ==
    ASSUME NEW q, NEW head, NEW nx, IsList(q, head, nx), NEW c \in 1 .. Len(q)
    PROVE  parent_of_task(q[c], head, nx) = IF c = 1 THEN NULL ELSE q[c - 1]
<1> DEFINE parents == {p \in ToSet(Chain(head, nx)) : nx[p] = q[c]}
<1>1. Chain(head, nx) = q
  BY ChainIs
<1>2. /\ ToSet(q) = {q[i] : i \in 1 .. Len(q)} /\ Len(q) \in Nat
      /\ \A i \in 1 .. Len(q) : q[i] # NULL
      /\ \A i, j \in 1 .. Len(q) : q[i] = q[j] => i = j
      /\ \A i \in 1 .. Len(q) : nx[q[i]] = IF i = Len(q) THEN NULL ELSE q[i + 1]
  BY ListFacts DEF IsList
<1>3. \A i \in 1 .. Len(q) : nx[q[i]] = q[c] <=> i = c - 1
  BY <1>2
<1>4. CASE c = 1
  <2>1. parents = {}
    BY <1>1, <1>2, <1>3, <1>4
  <2> QED BY <1>4, <2>1 DEF parent_of_task
<1>5. CASE c # 1
  <2>1. c - 1 \in 1 .. Len(q)
    BY <1>2, <1>5
  <2>2. parents = {q[c - 1]}
    BY <1>1, <1>2, <1>3, <2>1
  <2> HIDE DEF parents
  <2>3. parents # {} /\ (CHOOSE p \in parents : TRUE) = q[c - 1]
    BY <2>2
  <2>4. parent_of_task(q[c], head, nx) = IF parents = {} THEN NULL ELSE CHOOSE p \in parents : TRUE
    BY DEF parent_of_task, parents
  <2> QED BY <1>5, <2>3, <2>4
<1> QED BY <1>4, <1>5

\* nx2 is nx with t linked into the i-th place of q, head2 the head then.
LinksIn(q, i, t, head, nx, head2, nx2) ==
    /\ head2 = IF i = 1 THEN t ELSE head
    /\ nx2[t] = IF i = Len(q) + 1 THEN NULL ELSE q[i]
    /\ \A k \in 1 .. Len(q) : nx2[q[k]] = IF k = i - 1 THEN t ELSE nx[q[k]]

LEMMA ListInsert ==
    ASSUME NEW q, NEW head, NEW nx, IsList(q, head, nx),
           NEW i \in 1 .. Len(q) + 1, NEW t \in Slots, t \notin ToSet(q),
           NEW head2, NEW nx2, LinksIn(q, i, t, head, nx, head2, nx2)
    PROVE  /\ IsList(InsertAt(q, i, t), head2, nx2)
           /\ ToSet(InsertAt(q, i, t)) = ToSet(q) \cup {t}
           /\ Len(InsertAt(q, i, t)) = Len(q) + 1
<1> DEFINE r == InsertAt(q, i, t)
           n == Len(q)
<1>1. /\ q \in Seq(Slots) /\ n \in Nat /\ i \in 1 .. n + 1
      /\ head = IF n = 0 THEN NULL ELSE q[1]
      /\ \A k, l \in 1 .. n : q[k] = q[l] => k = l
      /\ \A k \in 1 .. n : nx[q[k]] = IF k = n THEN NULL ELSE q[k + 1]
      /\ \A k \in 1 .. n : q[k] # t
      /\ ToSet(q) = {q[k] : k \in 1 .. n}
  BY ListFacts DEF IsList
<1>2. /\ r \in Seq(Slots) /\ Len(r) = n + 1
      /\ \A k \in 1 .. n + 1 : r[k] = IF k < i THEN q[k] ELSE IF k = i THEN t ELSE q[k - 1]
  <2>1. r \in Seq(Slots) /\ Len(r) = n + 1
    BY <1>1, InsertedAt
  <2>2. \A k \in 1 .. n + 1 : r[k] = IF k < i THEN q[k] ELSE IF k = i THEN t ELSE q[k - 1]
    BY <1>1, InsertedAt
  <2> QED BY <2>1, <2>2
<1>3. /\ head2 = IF i = 1 THEN t ELSE head
      /\ nx2[t] = IF i = n + 1 THEN NULL ELSE q[i]
      /\ \A k \in 1 .. n : nx2[q[k]] = IF k = i - 1 THEN t ELSE nx[q[k]]
  BY DEF LinksIn
<1> HIDE DEF r, n
<1>4. \A k, l \in 1 .. n + 1 : r[k] = r[l] => k = l
  <2> SUFFICES ASSUME NEW k \in 1 .. n + 1, NEW l \in 1 .. n + 1, r[k] = r[l] PROVE k = l
    OBVIOUS
  <2>1. CASE k = i \/ l = i
    <3>1. ASSUME NEW j \in 1 .. n + 1, j # i PROVE r[j] # t
      <4>1. j < i \/ j > i
        BY <1>1, <3>1
      <4>2. CASE j < i
        <5>1. j \in 1 .. n /\ r[j] = q[j]
          BY <1>1, <1>2, <4>2
        <5> QED BY <1>1, <5>1
      <4>3. CASE j > i
        <5>1. j - 1 \in 1 .. n /\ r[j] = q[j - 1]
          BY <1>1, <1>2, <4>3
        <5> QED BY <1>1, <5>1
      <4> QED BY <4>1, <4>2, <4>3
    <3>2. r[i] = t
      BY <1>1, <1>2
    <3> QED BY <2>1, <3>1, <3>2
  <2>2. CASE k # i /\ l # i
    <3>1. PICK k1 \in 1 .. n : k1 = (IF k < i THEN k ELSE k - 1) /\ r[k] = q[k1]
      BY <1>1, <1>2, <2>2
    <3>2. PICK l1 \in 1 .. n : l1 = (IF l < i THEN l ELSE l - 1) /\ r[l] = q[l1]
      BY <1>1, <1>2, <2>2
    <3>3. k1 = l1
      BY <1>1, <3>1, <3>2
    <3> QED BY <1>1, <2>2, <3>1, <3>2, <3>3
  <2> QED BY <2>1, <2>2
<1>5. head2 = r[1] /\ n + 1 # 0
  BY <1>1, <1>2, <1>3
<1>6. ASSUME NEW k \in 1 .. n + 1 PROVE nx2[r[k]] = IF k = n + 1 THEN NULL ELSE r[k + 1]
  <2>1. CASE k < i - 1
    <3>1. k \in 1 .. n /\ k # n /\ k + 1 \in 1 .. n + 1 /\ k + 1 < i /\ k # n + 1
      BY <1>1, <2>1
    <3>2. r[k] = q[k] /\ r[k + 1] = q[k + 1]
      BY <1>1, <1>2, <2>1, <3>1
    <3> QED BY <1>1, <1>3, <2>1, <3>1, <3>2
  <2>2. CASE k = i - 1
    <3>1. k \in 1 .. n /\ r[k] = q[k] /\ r[k + 1] = t /\ k # n + 1
      BY <1>1, <1>2, <2>2
    <3> QED BY <1>3, <2>2, <3>1
  <2>3. CASE k = i
    <3>1. r[k] = t
      BY <1>2, <2>3
    <3>2. k # n + 1 => k + 1 \in 1 .. n + 1 /\ r[k + 1] = q[i]
      BY <1>1, <1>2, <2>3
    <3> QED BY <1>3, <2>3, <3>1, <3>2
  <2>4. CASE k > i
    <3>1. k - 1 \in 1 .. n /\ k - 1 # i - 1 /\ r[k] = q[k - 1] /\ (k - 1 = n <=> k = n + 1)
      BY <1>1, <1>2, <2>4
    <3>2. k # n + 1 => r[k + 1] = q[k] /\ k = (k - 1) + 1
      <4>1. k # n + 1 => k + 1 \in 1 .. n + 1 /\ ~(k + 1 < i) /\ k + 1 # i /\ k + 1 - 1 = k
        BY <1>1, <2>4
      <4> QED BY <1>1, <1>2, <4>1
    <3>3. nx2[r[k]] = nx[q[k - 1]]
      BY <1>3, <3>1
    <3> QED BY <1>1, <3>1, <3>2, <3>3
  <2> QED BY <1>1, <2>1, <2>2, <2>3, <2>4
<1>7. IsList(r, head2, nx2)
  BY <1>1, <1>2, <1>4, <1>5, <1>6 DEF IsList
<1>8. ToSet(r) = ToSet(q) \cup {t}
  <2>1. ToSet(r) = {r[k] : k \in 1 .. n + 1}
    BY <1>2 DEF ToSet
  <2>2. \A k \in 1 .. n + 1 : r[k] \in ToSet(q) \cup {t}
    BY <1>1, <1>2
  <2>3. ASSUME NEW k \in 1 .. n PROVE \E j \in 1 .. n + 1 : r[j] = q[k]
    <3>1. CASE k < i
      <4>1. k \in 1 .. n + 1 /\ r[k] = q[k]
        BY <1>1, <1>2, <3>1
      <4> QED BY <4>1
    <3>2. CASE ~(k < i)
      <4>1. k + 1 \in 1 .. n + 1 /\ ~(k + 1 < i) /\ k + 1 # i /\ k + 1 - 1 = k
        BY <1>1, <3>2
      <4>2. r[k + 1] = q[k]
        BY <1>2, <4>1
      <4> QED BY <4>1, <4>2
    <3> QED BY <3>1, <3>2
  <2>4. i \in 1 .. n + 1 /\ r[i] = t
    BY <1>1, <1>2
  <2>5. ASSUME NEW x \in ToSet(q) PROVE x \in ToSet(r)
    <3>1. PICK k \in 1 .. n : x = q[k]
      BY <1>1
    <3>2. PICK j \in 1 .. n + 1 : r[j] = q[k]
      BY <2>3
    <3> QED BY <2>1, <3>1, <3>2
  <2>6. t \in ToSet(r)
    BY <2>1, <2>4
  <2> QED BY <2>1, <2>2, <2>5, <2>6
<1> QED BY <1>2, <1>7, <1>8 DEF r, n

\* nx2 is nx with the i-th task of q linked out, head2 the head then.
LinksOut(q, i, head, nx, head2, nx2) ==
    /\ head2 = IF i = 1 THEN nx[q[1]] ELSE head
    /\ \A k \in 1 .. Len(q) :
          k # i => nx2[q[k]] = IF k = i - 1 THEN nx[q[i]] ELSE nx[q[k]]

LEMMA ListRemove ==
    ASSUME NEW q, NEW head, NEW nx, IsList(q, head, nx), NEW i \in 1 .. Len(q),
           NEW head2, NEW nx2, LinksOut(q, i, head, nx, head2, nx2)
    PROVE  /\ IsList(RemoveAt(q, i), head2, nx2)
           /\ ToSet(RemoveAt(q, i)) = ToSet(q) \ {q[i]}
           /\ Len(RemoveAt(q, i)) = Len(q) - 1
<1> DEFINE r == RemoveAt(q, i)
           n == Len(q)
<1>1. /\ q \in Seq(Slots) /\ n \in Nat /\ i \in 1 .. n /\ DOMAIN q = 1 .. n
      /\ head = IF n = 0 THEN NULL ELSE q[1]
      /\ \A k, l \in 1 .. n : q[k] = q[l] => k = l
      /\ \A k \in 1 .. n : nx[q[k]] = IF k = n THEN NULL ELSE q[k + 1]
      /\ ToSet(q) = {q[k] : k \in 1 .. n}
  BY ListFacts DEF IsList
<1>2. /\ r \in Seq(Slots) /\ Len(r) = n - 1
      /\ \A k \in 1 .. n - 1 : r[k] = IF k < i THEN q[k] ELSE q[k + 1]
  <2>1. q \in Seq(Slots) /\ i \in DOMAIN q
    BY <1>1
  <2> HIDE DEF r, n
  <2>2. /\ RemoveAt(q, i) \in Seq(Slots) /\ Len(RemoveAt(q, i)) = Len(q) - 1
        /\ \A k \in 1 .. Len(q) - 1 :
              RemoveAt(q, i)[k] = IF k < i THEN q[k] ELSE q[k + 1]
    BY <2>1, RemovedAt
  <2> QED BY <2>2 DEF r, n
<1>3. /\ head2 = IF i = 1 THEN nx[q[1]] ELSE head
      /\ \A k \in 1 .. n : k # i => nx2[q[k]] = IF k = i - 1 THEN nx[q[i]] ELSE nx[q[k]]
  BY DEF LinksOut
<1> HIDE DEF r, n
<1>4. ASSUME NEW k \in 1 .. n - 1
      PROVE  \E k1 \in 1 .. n : k1 = (IF k < i THEN k ELSE k + 1) /\ r[k] = q[k1] /\ k1 # i
  BY <1>1, <1>2
<1>5. \A k, l \in 1 .. n - 1 : r[k] = r[l] => k = l
  <2> SUFFICES ASSUME NEW k \in 1 .. n - 1, NEW l \in 1 .. n - 1, r[k] = r[l] PROVE k = l
    OBVIOUS
  <2>1. PICK k1 \in 1 .. n : k1 = (IF k < i THEN k ELSE k + 1) /\ r[k] = q[k1]
    BY <1>4
  <2>2. PICK l1 \in 1 .. n : l1 = (IF l < i THEN l ELSE l + 1) /\ r[l] = q[l1]
    BY <1>4
  <2>3. k1 = l1
    BY <1>1, <2>1, <2>2
  <2> QED BY <1>1, <2>1, <2>2, <2>3
<1>6. head2 = IF n - 1 = 0 THEN NULL ELSE r[1]
  <2>1. CASE i = 1
    <3>1. n - 1 # 0 => 1 \in 1 .. n - 1 /\ r[1] = q[2]
      BY <1>1, <1>2, <2>1
    <3> QED BY <1>1, <1>3, <2>1, <3>1
  <2>2. CASE i # 1
    <3>1. n - 1 # 0 /\ 1 \in 1 .. n - 1 /\ 1 < i
      BY <1>1, <2>2
    <3> QED BY <1>1, <1>2, <1>3, <2>2, <3>1
  <2> QED BY <2>1, <2>2
<1>7. ASSUME NEW k \in 1 .. n - 1 PROVE nx2[r[k]] = IF k = n - 1 THEN NULL ELSE r[k + 1]
  <2>1. CASE k < i - 1
    <3>1. /\ k \in 1 .. n /\ k # i /\ k # i - 1 /\ k # n /\ k # n - 1
          /\ k < i /\ k + 1 \in 1 .. n - 1 /\ k + 1 < i
      BY <1>1, <2>1
    <3>2. r[k] = q[k] /\ r[k + 1] = q[k + 1]
      BY <1>2, <3>1
    <3> QED BY <1>1, <1>3, <3>1, <3>2
  <2>2. CASE k = i - 1
    <3>1. k \in 1 .. n /\ k # i /\ k < i /\ r[k] = q[k] /\ (i = n <=> k = n - 1)
      BY <1>1, <1>2, <2>2
    <3>2. nx2[r[k]] = nx[q[i]]
      BY <1>3, <2>2, <3>1
    <3>3. k # n - 1 => k + 1 \in 1 .. n - 1 /\ ~(k + 1 < i) /\ k + 1 + 1 = i + 1
      BY <1>1, <2>2
    <3>4. k # n - 1 => r[k + 1] = q[i + 1]
      BY <1>2, <3>3
    <3> QED BY <1>1, <3>1, <3>2, <3>4
  <2>3. CASE k >= i
    <3>1. /\ k + 1 \in 1 .. n /\ k + 1 # i /\ k + 1 # i - 1 /\ ~(k < i)
          /\ (k + 1 = n <=> k = n - 1)
      BY <1>1, <2>3
    <3>2. r[k] = q[k + 1]
      BY <1>2, <3>1
    <3>3. nx2[r[k]] = nx[q[k + 1]]
      BY <1>3, <3>1, <3>2
    <3>4. k # n - 1 => k + 1 \in 1 .. n - 1 /\ ~(k + 1 < i)
      BY <1>1, <2>3
    <3>5. k # n - 1 => r[k + 1] = q[(k + 1) + 1]
      BY <1>2, <3>4
    <3> QED BY <1>1, <3>1, <3>3, <3>5
  <2>4. k < i - 1 \/ k = i - 1 \/ k >= i
    BY <1>1
  <2> QED BY <2>1, <2>2, <2>3, <2>4
<1>8. IsList(r, head2, nx2)
  BY <1>2, <1>5, <1>6, <1>7 DEF IsList
<1>9. ToSet(r) = ToSet(q) \ {q[i]}
  <2>1. ToSet(r) = {r[k] : k \in 1 .. n - 1}
    BY <1>1, <1>2 DEF ToSet
  <2>2. ASSUME NEW k \in 1 .. n - 1 PROVE r[k] \in ToSet(q) \ {q[i]}
    BY <1>1, <1>4
  <2>3. ASSUME NEW k \in 1 .. n, k # i PROVE q[k] \in ToSet(r)
    <3>1. CASE k < i
      <4>1. k \in 1 .. n - 1 /\ r[k] = q[k]
        BY <1>1, <1>2, <3>1
      <4> QED BY <2>1, <4>1
    <3>2. CASE k > i
      <4>1. k - 1 \in 1 .. n - 1 /\ ~(k - 1 < i) /\ k - 1 + 1 = k
        BY <1>1, <3>2
      <4>2. r[k - 1] = q[k]
        BY <1>2, <4>1
      <4> QED BY <2>1, <4>1, <4>2
    <3> QED BY <1>1, <2>3, <3>1, <3>2
  <2>4. ASSUME NEW x \in ToSet(r) PROVE x \in ToSet(q) \ {q[i]}
    BY <2>1, <2>2
  <2>5. ASSUME NEW x \in ToSet(q) \ {q[i]} PROVE x \in ToSet(r)
    <3>1. PICK k \in 1 .. n : x = q[k]
      BY <1>1
    <3> QED BY <2>3, <3>1
  <2> QED BY <2>4, <2>5
<1> QED BY <1>2, <1>8, <1>9 DEF r, n

-----------------------------------------------------------------------------
(* The invariant of the list.                                              *)

\* The pointers form a list of the live tasks, counted by nTasks, the running
\* one among them.
ListInv ==
    /\ TypeOK
    /\ IsList(Queue, ready_queue, next)
    /\ ToSet(Queue) = live
    /\ nTasks = Len(Queue)
    /\ current_task \in live
    /\ algorithm \in {0, 1}

LEMMA QueueFacts ==
    ASSUME ListInv
    PROVE  /\ IsList(Queue, ready_queue, next)
           /\ Queue \in Seq(Slots) /\ Len(Queue) \in Nat \ {0} /\ DOMAIN Queue = 1 .. Len(Queue)
           /\ ready_queue = Queue[1] /\ ready_queue \in Slots
           /\ \A i \in 1 .. Len(Queue) : Queue[i] \in live /\ Queue[i] \in Slots /\ Queue[i] # NULL
           /\ \A i, j \in 1 .. Len(Queue) : Queue[i] = Queue[j] => i = j
           /\ \A i \in 1 .. Len(Queue) :
                 next[Queue[i]] = IF i = Len(Queue) THEN NULL ELSE Queue[i + 1]
           /\ \A t \in live : \E i \in 1 .. Len(Queue) : t = Queue[i]
           /\ InList
<1> DEFINE q == Queue
<1>1. IsList(q, ready_queue, next) /\ ToSet(q) = live /\ current_task \in live /\ live \subseteq Slots
  BY DEF ListInv, TypeOK
<1>2. InList
  BY <1>1 DEF InList
<1> HIDE DEF q
<1>3. /\ q \in Seq(Slots) /\ Len(q) \in Nat /\ DOMAIN q = 1 .. Len(q)
      /\ live = {q[i] : i \in 1 .. Len(q)}
      /\ \A i \in 1 .. Len(q) : q[i] \in Slots /\ q[i] # NULL
      /\ \A i, j \in 1 .. Len(q) : q[i] = q[j] => i = j
      /\ ready_queue = IF Len(q) = 0 THEN NULL ELSE q[1]
      /\ \A i \in 1 .. Len(q) : next[q[i]] = IF i = Len(q) THEN NULL ELSE q[i + 1]
  <2>1. /\ q \in Seq(Slots) /\ Len(q) \in Nat /\ DOMAIN q = 1 .. Len(q)
        /\ ToSet(q) = {q[i] : i \in 1 .. Len(q)}
        /\ \A i \in 1 .. Len(q) : q[i] \in Slots /\ q[i] # NULL
        /\ \A i, j \in 1 .. Len(q) : q[i] = q[j] => i = j
    BY <1>1, ListFacts
  <2>2. /\ ready_queue = IF Len(q) = 0 THEN NULL ELSE q[1]
        /\ \A i \in 1 .. Len(q) : next[q[i]] = IF i = Len(q) THEN NULL ELSE q[i + 1]
    BY <1>1 DEF IsList
  <2> QED BY <1>1, <2>1, <2>2
<1>4. PICK c \in 1 .. Len(q) : current_task = q[c]
  BY <1>1, <1>3
<1>5. Len(q) # 0 /\ 1 \in 1 .. Len(q)
  <2>1. Len(q) \in Nat
    BY <1>3
  <2> QED BY <2>1
<1> QED BY <1>1, <1>2, <1>3, <1>5 DEF q

\* preempt_task links the new task in somewhere, and right before the running
\* task when it is to run at once.
LEMMA Preempts ==
    ASSUME ListInv, NEW t \in Slots, t \notin live, NEW avg \in Nat
    PROVE  \E i \in 1 .. Len(Queue) + 1 :
              /\ LinksIn(Queue, i, t, ready_queue, next,
                         preempt_task(t, avg).head, preempt_task(t, avg).nx)
              /\ Outranks(avg) => i <= Len(Queue) /\ Queue[i] = current_task
              /\ preempt_task(t, avg).nx \in [Slots -> Slots \cup {NULL}]
<1> DEFINE q == Queue
           n == Len(q)
           p == preempt_task(t, avg)
<1>1. /\ IsList(q, ready_queue, next) /\ q \in Seq(Slots) /\ n \in Nat \ {0}
      /\ ready_queue = q[1] /\ current_task \in live
      /\ \A i \in 1 .. n : q[i] \in live /\ q[i] \in Slots /\ q[i] # NULL
      /\ \A i, j \in 1 .. n : q[i] = q[j] => i = j
      /\ \A i \in 1 .. n : next[q[i]] = IF i = n THEN NULL ELSE q[i + 1]
      /\ \A s \in live : \E i \in 1 .. n : s = q[i]
      /\ next \in [Slots -> Slots \cup {NULL}]
      /\ algorithm \in {0, 1}
      /\ \A i \in 1 .. n : q[i] # t
  BY QueueFacts DEF ListInv, TypeOK
<1>2. PICK c \in 1 .. n : current_task = q[c]
  BY <1>1
<1>3. CASE algorithm = 0
  <2>1. Last(Queue) = q[n] /\ n \in 1 .. n
    BY <1>1 DEF Last
  <2>2. p = [head |-> ready_queue, nx |-> [next EXCEPT ![Last(Queue)] = t, ![t] = NULL]]
    BY <1>3 DEF preempt_task, Append0
  <2>3. ~Outranks(avg)
    BY <1>3 DEF Outranks
  <2> HIDE DEF q, p, n
  <2>4. p.head = ready_queue /\ p.nx = [next EXCEPT ![q[n]] = t, ![t] = NULL]
    BY <2>1, <2>2
  <2>5. LinksIn(q, n + 1, t, ready_queue, next, p.head, p.nx)
    BY <1>1, <2>1, <2>4 DEF LinksIn, n
  <2>6. p.nx \in [Slots -> Slots \cup {NULL}] /\ n + 1 \in 1 .. n + 1
    <3>1. n \in Nat /\ next \in [Slots -> Slots \cup {NULL}]
      BY <1>1
    <3>2. p.nx \in [Slots -> Slots \cup {NULL}]
      BY <2>4, <3>1
    <3> QED BY <3>1, <3>2
  <2>7. \E i \in 1 .. n + 1 : LinksIn(q, i, t, ready_queue, next, p.head, p.nx)
    BY <2>5, <2>6
  <2> QED BY <2>3, <2>6, <2>7 DEF q, n, p
<1>4. CASE algorithm = 1 /\ Outranks(avg)
  <2>1. p = Before(t)
    BY <1>4 DEF preempt_task
  <2>2. parent_of_task(q[c], ready_queue, next) = IF c = 1 THEN NULL ELSE q[c - 1]
    BY <1>1, ParentIs
  <2>3. current_task = ready_queue <=> c = 1
    <3> HIDE DEF q, n, p
    <3> QED BY <1>1, <1>2
  <2>4. p = IF c = 1 THEN [head |-> t, nx |-> [next EXCEPT ![t] = current_task]]
            ELSE [head |-> ready_queue,
                  nx |-> [next EXCEPT ![q[c - 1]] = t, ![t] = current_task]]
    BY <1>2, <2>1, <2>2, <2>3 DEF Before
  <2> HIDE DEF q, p, n
  <2>5. CASE c = 1
    <3>1. p.head = t /\ p.nx = [next EXCEPT ![t] = current_task]
      BY <2>4, <2>5
    <3>2. LinksIn(q, 1, t, ready_queue, next, p.head, p.nx)
      BY <1>1, <1>2, <2>5, <3>1 DEF LinksIn, n
    <3>3. p.nx \in [Slots -> Slots \cup {NULL}] /\ 1 \in 1 .. n + 1 /\ 1 <= n
      BY <1>1, <1>2, <3>1
    <3> QED BY <1>2, <2>5, <3>2, <3>3 DEF q, n, p
  <2>6. CASE c # 1
    <3>1. p.head = ready_queue /\ p.nx = [next EXCEPT ![q[c - 1]] = t, ![t] = current_task]
      BY <2>4, <2>6
    <3>2. c - 1 \in 1 .. n /\ c # n + 1 /\ c \in 1 .. n + 1 /\ c <= n
      BY <1>1, <1>2, <2>6
    <3>3. LinksIn(q, c, t, ready_queue, next, p.head, p.nx)
      <4>1. p.nx[t] = q[c]
        BY <1>1, <1>2, <3>1
      <4>2. \A k \in 1 .. n : p.nx[q[k]] = IF k = c - 1 THEN t ELSE next[q[k]]
        BY <1>1, <1>2, <3>1, <3>2
      <4> QED BY <2>6, <3>1, <3>2, <4>1, <4>2 DEF LinksIn, n
    <3>4. p.nx \in [Slots -> Slots \cup {NULL}]
      BY <1>1, <1>2, <3>1
    <3> QED BY <1>2, <3>2, <3>3, <3>4 DEF q, n, p
  <2> QED BY <2>5, <2>6
<1>5. CASE algorithm = 1 /\ ~Outranks(avg)
  <2> DEFINE chain == Chain(current_task, next)
             stops == {i \in DOMAIN chain :
                         next[chain[i]] = NULL \/ task[next[chain[i]]].avg <= avg}
             m == CHOOSE i \in stops : \A k \in stops : i <= k
  <2>1. p = After(t, avg)
    BY <1>5 DEF preempt_task
  <2>2. p = [head |-> ready_queue,
             nx |-> [next EXCEPT ![t] = next[chain[m]], ![chain[m]] = t]]
    BY <2>1 DEF After
  <2>3. chain = SubSeq(q, c, n)
    <3> HIDE DEF q, p, m, stops
    <3>1. IsList(SubSeq(q, c, Len(q)), q[c], next)
      BY <1>1, ListTail
    <3> HIDE DEF n
    <3>2. Chain(q[c], next) = SubSeq(q, c, Len(q))
      BY <3>1, ChainIs
    <3> QED BY <1>2, <3>2 DEF n
  <2> HIDE DEF q, n, p
  <2>4. /\ DOMAIN chain = 1 .. n - c + 1
        /\ \A i \in 1 .. n - c + 1 : chain[i] = q[c + i - 1]
    BY <1>1, <1>2, <2>3 DEF n
  <2> HIDE DEF chain
  <2>5. n - c + 1 \in stops
    <3>1. n - c + 1 \in 1 .. n - c + 1 /\ c + (n - c + 1) - 1 = n /\ n \in 1 .. n
      BY <1>1, <1>2
    <3> QED BY <1>1, <2>4, <3>1
  <2>6. stops \in SUBSET Nat /\ stops \subseteq 1 .. n - c + 1
    BY <1>1, <1>2, <2>4
  <2> HIDE DEF stops
  <2>7. m \in stops
    BY <2>5, <2>6, LeastNumber
  <2>8. m \in 1 .. n - c + 1
    BY <2>6, <2>7
  <2> HIDE DEF m
  <2>9. PICK a \in 1 .. n : a = c + m - 1 /\ chain[m] = q[a]
    <3>1. c + m - 1 \in 1 .. n
      BY <1>1, <1>2, <2>8
    <3>2. chain[m] = q[c + m - 1]
      BY <2>4, <2>8
    <3> QED BY <3>1, <3>2
  <2>10. p.head = ready_queue /\ p.nx = [next EXCEPT ![t] = next[q[a]], ![q[a]] = t]
    BY <2>2, <2>9
  <2>11. LinksIn(q, a + 1, t, ready_queue, next, p.head, p.nx)
    <3>1. p.nx[t] = next[q[a]]
      BY <1>1, <2>10
    <3>2. \A k \in 1 .. n : p.nx[q[k]] = IF k = a THEN t ELSE next[q[k]]
      BY <1>1, <2>10
    <3>3. a + 1 # 1 /\ (a + 1 = n + 1 <=> a = n) /\ a + 1 - 1 = a
      BY <1>1
    <3> QED BY <1>1, <2>10, <3>1, <3>2, <3>3 DEF LinksIn, n
  <2>12. p.nx \in [Slots -> Slots \cup {NULL}]
    <3>1. q[a] \in Slots /\ next[q[a]] \in Slots \cup {NULL}
      BY <1>1
    <3> QED BY <1>1, <2>10, <3>1
  <2>13. a + 1 \in 1 .. n + 1
    BY <1>1
  <2> QED BY <1>5, <2>11, <2>12, <2>13 DEF q, n, p
<1> QED BY <1>1, <1>3, <1>4, <1>5 DEF Outranks

-----------------------------------------------------------------------------
(* Taking a task out.                                                      *)

\* exit_task and kill_task link the task out, whichever place it has.
LEMMA Unlinks ==
    ASSUME ListInv, NEW c \in 1 .. Len(Queue)
    PROVE  LET l == Unlink(Queue[c], ready_queue, next)
               nx == [l.nx EXCEPT ![Queue[c]] = NULL]
           IN  /\ LinksOut(Queue, c, ready_queue, next, l.head, nx)
               /\ nx \in Links
               /\ c # 1 => l.head = ready_queue
<1> DEFINE q == Queue
           n == Len(q)
           l == Unlink(q[c], ready_queue, next)
           nx == [l.nx EXCEPT ![q[c]] = NULL]
<1>1. /\ IsList(q, ready_queue, next) /\ n \in Nat \ {0} /\ c \in 1 .. n
      /\ ready_queue = q[1]
      /\ \A i \in 1 .. n : q[i] \in Slots /\ q[i] # NULL
      /\ \A i, j \in 1 .. n : q[i] = q[j] => i = j
      /\ \A i \in 1 .. n : next[q[i]] = IF i = n THEN NULL ELSE q[i + 1]
      /\ next \in Links
  BY QueueFacts DEF ListInv, TypeOK, Links
<1>2. q[c] = ready_queue <=> c = 1
  <2> HIDE DEF q, n
  <2> QED BY <1>1
<1>3. parent_of_task(q[c], ready_queue, next) = IF c = 1 THEN NULL ELSE q[c - 1]
  BY <1>1, ParentIs
<1>4. l = IF c = 1 THEN [head |-> next[q[c]], nx |-> next]
          ELSE [head |-> ready_queue, nx |-> [next EXCEPT ![q[c - 1]] = next[q[c]]]]
  BY <1>2, <1>3 DEF Unlink
<1> HIDE DEF q, l, n
<1>5. CASE c = 1
  <2>1. l.head = next[q[1]] /\ nx = [next EXCEPT ![q[1]] = NULL]
    BY <1>4, <1>5
  <2>2. \A k \in 1 .. n : k # 1 => nx[q[k]] = next[q[k]]
    <3>1. \A k \in 1 .. n : k # 1 => q[k] # q[1] /\ q[k] \in Slots
      BY <1>1, <1>5
    <3> QED BY <1>1, <2>1, <3>1 DEF Links
  <2>3. nx \in Links
    BY <1>1, <2>1 DEF Links
  <2>4. \A k \in 1 .. n : k # 1 - 1
    OBVIOUS
  <2> QED BY <1>5, <2>1, <2>2, <2>3, <2>4 DEF LinksOut, q, l, n
<1>6. CASE c # 1
  <2>1. l.head = ready_queue /\ nx = [[next EXCEPT ![q[c - 1]] = next[q[c]]] EXCEPT ![q[c]] = NULL]
    BY <1>4, <1>6
  <2>2. c - 1 \in 1 .. n /\ c - 1 # c
    BY <1>1, <1>6
  <2>3. \A k \in 1 .. n : k # c => nx[q[k]] = IF k = c - 1 THEN next[q[c]] ELSE next[q[k]]
    BY <1>1, <2>1, <2>2 DEF Links
  <2>4. next[q[c]] \in Slots \cup {NULL}
    BY <1>1 DEF Links
  <2>5. nx \in Links
    BY <1>1, <2>1, <2>4 DEF Links
  <2> QED BY <1>6, <2>1, <2>3, <2>5 DEF LinksOut, q, l, n
<1> QED BY <1>5, <1>6

-----------------------------------------------------------------------------
(* The bubble sort.                                                        *)

\* q with its k-th task and the next one exchanged.
Exchanged(q, k) ==
    [i \in 1 .. Len(q) |-> IF i = k THEN q[k + 1] ELSE IF i = k + 1 THEN q[k] ELSE q[i]]

LEMMA ExchangedIs ==
    ASSUME NEW S, NEW q \in Seq(S), NEW k \in 1 .. Len(q) - 1
    PROVE  /\ Exchanged(q, k) \in Seq(S) /\ Len(Exchanged(q, k)) = Len(q)
           /\ ToSet(Exchanged(q, k)) = ToSet(q)
           /\ \A i \in 1 .. Len(q) :
                 Exchanged(q, k)[i] =
                   IF i = k THEN q[k + 1] ELSE IF i = k + 1 THEN q[k] ELSE q[i]
<1> DEFINE r == Exchanged(q, k)
           n == Len(q)
<1>1. n \in Nat /\ k \in 1 .. n /\ k + 1 \in 1 .. n /\ k # k + 1
      /\ \A i \in 1 .. n : q[i] \in S
  OBVIOUS
<1>2. \A i \in 1 .. n : r[i] = IF i = k THEN q[k + 1] ELSE IF i = k + 1 THEN q[k] ELSE q[i]
  BY DEF Exchanged
<1>3. r \in Seq(S) /\ Len(r) = n /\ DOMAIN r = 1 .. n
  <2>1. r \in [1 .. n -> S]
    BY <1>1 DEF Exchanged
  <2> QED BY <1>1, <2>1
<1>4. ToSet(r) = {r[i] : i \in 1 .. n} /\ ToSet(q) = {q[i] : i \in 1 .. n}
  BY <1>3 DEF ToSet
<1> HIDE DEF r, n
<1>5. ASSUME NEW x \in ToSet(q) PROVE x \in ToSet(r)
  <2>1. PICK i \in 1 .. n : x = q[i]
    BY <1>4
  <2>2. \E j \in 1 .. n : r[j] = q[i]
    <3>1. CASE i = k
      BY <1>1, <1>2, <3>1
    <3>2. CASE i = k + 1
      BY <1>1, <1>2, <3>2
    <3>3. CASE i # k /\ i # k + 1
      BY <1>2, <3>3
    <3> QED BY <3>1, <3>2, <3>3
  <2> QED BY <1>4, <2>1, <2>2
<1>6. ASSUME NEW x \in ToSet(r) PROVE x \in ToSet(q)
  BY <1>1, <1>2, <1>4
<1> QED BY <1>2, <1>3, <1>5, <1>6 DEF r, n

\* swap_task_locations exchanges two neighbours.
LEMMA Swaps ==
    ASSUME NEW q, NEW l \in [head : Slots, nx : Links], IsList(q, l.head, l.nx),
           NEW k \in 1 .. Len(q) - 1
    PROVE  LET s == Swap(l, q[k], q[k + 1])
           IN  IsList(Exchanged(q, k), s.head, s.nx) /\ s.nx \in Links /\ s.head \in Slots
<1> DEFINE r == Exchanged(q, k)
           n == Len(q)
           s == Swap(l, q[k], q[k + 1])
           nx == [l.nx EXCEPT ![q[k + 1]] = q[k], ![q[k]] = l.nx[q[k + 1]]]
<1>1. /\ q \in Seq(Slots) /\ n \in Nat /\ k \in 1 .. n /\ k + 1 \in 1 .. n /\ k # n
      /\ l.head = q[1] /\ l.nx \in Links /\ l.head \in Slots
      /\ \A i \in 1 .. n : q[i] \in Slots /\ q[i] # NULL
      /\ \A i, j \in 1 .. n : q[i] = q[j] => i = j
      /\ \A i \in 1 .. n : l.nx[q[i]] = IF i = n THEN NULL ELSE q[i + 1]
  <2>1. q \in Seq(Slots) /\ n \in Nat /\ k \in 1 .. n /\ k + 1 \in 1 .. n /\ k # n
    BY DEF IsList
  <2>2. n # 0
    BY <2>1
  <2>3. l.nx \in Links /\ l.head \in Slots
    OBVIOUS
  <2>4. /\ l.head = IF n = 0 THEN NULL ELSE q[1]
        /\ \A i \in 1 .. n : l.nx[q[i]] = IF i = n THEN NULL ELSE q[i + 1]
    BY DEF IsList
  <2>5. /\ \A i \in 1 .. n : q[i] \in Slots /\ q[i] # NULL
        /\ \A i, j \in 1 .. n : q[i] = q[j] => i = j
    BY ListFacts
  <2> QED BY <2>1, <2>2, <2>3, <2>4, <2>5
<1>2. /\ r \in Seq(Slots) /\ Len(r) = n
      /\ \A i \in 1 .. n : r[i] = IF i = k THEN q[k + 1] ELSE IF i = k + 1 THEN q[k] ELSE q[i]
  <2>1. q \in Seq(Slots)
    BY <1>1
  <2> HIDE DEF r, n, s, nx
  <2>2. /\ Exchanged(q, k) \in Seq(Slots) /\ Len(Exchanged(q, k)) = Len(q)
        /\ \A i \in 1 .. Len(q) :
              Exchanged(q, k)[i] =
                IF i = k THEN q[k + 1] ELSE IF i = k + 1 THEN q[k] ELSE q[i]
    BY <2>1, ExchangedIs
  <2> QED BY <2>2 DEF r, n
<1>3. parent_of_task(q[k], l.head, l.nx) = IF k = 1 THEN NULL ELSE q[k - 1]
  BY <1>1, ParentIs
<1>4. s = IF k = 1 THEN [head |-> q[k + 1], nx |-> nx]
          ELSE [head |-> l.head, nx |-> [nx EXCEPT ![q[k - 1]] = q[k + 1]]]
  <2>1. k # 1 => q[k - 1] # NULL
    <3> HIDE DEF nx, s, r, n
    <3> QED BY <1>1
  <2> QED BY <1>3, <2>1 DEF Swap
<1> HIDE DEF r, n, s
<1>5. nx \in Links /\ \A i \in 1 .. n :
        nx[q[i]] = IF i = k + 1 THEN q[k] ELSE IF i = k THEN l.nx[q[k + 1]] ELSE l.nx[q[i]]
  <2>1. l.nx[q[k + 1]] \in Slots \cup {NULL} /\ q[k] \in Slots /\ q[k + 1] \in Slots /\ q[k] # q[k + 1]
    BY <1>1 DEF Links
  <2>2. nx \in Links
    BY <1>1, <2>1 DEF Links
  <2>3. ASSUME NEW i \in 1 .. n
        PROVE  nx[q[i]] = IF i = k + 1 THEN q[k] ELSE IF i = k THEN l.nx[q[k + 1]] ELSE l.nx[q[i]]
    <3>1. q[i] \in Slots /\ (q[i] = q[k] <=> i = k) /\ (q[i] = q[k + 1] <=> i = k + 1)
      BY <1>1
    <3> QED BY <1>1, <2>1, <3>1 DEF Links
  <2> QED BY <2>2, <2>3
<1> HIDE DEF nx
<1>6. /\ s.head = IF k = 1 THEN q[2] ELSE q[1]
      /\ s.nx \in Links
      /\ \A i \in 1 .. n :
           s.nx[q[i]] = IF i = k - 1 THEN q[k + 1] ELSE IF i = k + 1 THEN q[k]
                        ELSE IF i = k THEN l.nx[q[k + 1]] ELSE l.nx[q[i]]
  <2>1. CASE k = 1
    <3>1. s.head = q[2] /\ s.nx = nx
      BY <1>4, <2>1
    <3>2. \A i \in 1 .. n : i # k - 1
      BY <2>1
    <3> QED BY <1>5, <2>1, <3>1, <3>2
  <2>2. CASE k # 1
    <3>1. s.head = q[1] /\ s.nx = [nx EXCEPT ![q[k - 1]] = q[k + 1]]
      BY <1>1, <1>4, <2>2
    <3>2. k - 1 \in 1 .. n /\ k - 1 # k /\ k - 1 # k + 1
      BY <1>1, <2>2
    <3>3. q[k - 1] \in Slots /\ q[k + 1] \in Slots
      BY <1>1, <3>2
    <3>4. s.nx \in Links
      BY <1>5, <3>1, <3>3 DEF Links
    <3>5. \A i \in 1 .. n : s.nx[q[i]] = IF i = k - 1 THEN q[k + 1] ELSE nx[q[i]]
      BY <1>1, <1>5, <3>1, <3>2, <3>3 DEF Links
    <3> QED BY <1>5, <2>2, <3>1, <3>4, <3>5
  <2> QED BY <2>1, <2>2
<1>7. \A i, j \in 1 .. n : r[i] = r[j] => i = j
  <2> SUFFICES ASSUME NEW i \in 1 .. n, NEW j \in 1 .. n, r[i] = r[j] PROVE i = j
    OBVIOUS
  <2>1. PICK i1 \in 1 .. n : i1 = (IF i = k THEN k + 1 ELSE IF i = k + 1 THEN k ELSE i) /\ r[i] = q[i1]
    BY <1>1, <1>2
  <2>2. PICK j1 \in 1 .. n : j1 = (IF j = k THEN k + 1 ELSE IF j = k + 1 THEN k ELSE j) /\ r[j] = q[j1]
    BY <1>1, <1>2
  <2>3. i1 = j1
    <3>1. q[i1] = q[j1]
      BY <2>1, <2>2
    <3> QED BY <1>1, <3>1
  <2> QED BY <1>1, <2>1, <2>2, <2>3
<1>8. s.head = r[1] /\ n # 0 /\ s.head \in Slots
  <2>1. 1 \in 1 .. n /\ n # 0
    BY <1>1
  <2>2. r[1] = IF k = 1 THEN q[2] ELSE q[1]
    BY <1>1, <1>2, <2>1
  <2> QED BY <1>1, <1>2, <1>6, <2>1, <2>2
<1>9. ASSUME NEW i \in 1 .. n PROVE s.nx[r[i]] = IF i = n THEN NULL ELSE r[i + 1]
  <2>1. CASE i = k
    <3>1. r[i] = q[k + 1] /\ r[i + 1] = q[k] /\ i # n /\ k + 1 # k - 1
      BY <1>1, <1>2, <2>1
    <3> QED BY <1>1, <1>6, <3>1
  <2>2. CASE i = k + 1
    <3>1. r[i] = q[k] /\ k # k - 1 /\ k # k + 1
      BY <1>1, <1>2, <2>2
    <3>2. s.nx[r[i]] = l.nx[q[k + 1]]
      BY <1>1, <1>6, <3>1
    <3>3. i # n => i + 1 \in 1 .. n /\ r[i + 1] = q[i + 1]
      BY <1>1, <1>2, <2>2
    <3> QED BY <1>1, <2>2, <3>2, <3>3
  <2>3. CASE i = k - 1
    <3>1. r[i] = q[i] /\ r[i + 1] = q[k + 1] /\ i # n
      BY <1>1, <1>2, <2>3
    <3> QED BY <1>6, <2>3, <3>1
  <2>4. CASE i # k /\ i # k + 1 /\ i # k - 1
    <3>1. r[i] = q[i] /\ s.nx[q[i]] = l.nx[q[i]]
      BY <1>2, <1>6, <2>4
    <3>2. i # n => i + 1 \in 1 .. n /\ i + 1 # k /\ i + 1 # k + 1
      BY <1>1, <2>4
    <3>3. i # n => r[i + 1] = q[i + 1]
      BY <1>2, <3>2
    <3> QED BY <1>1, <3>1, <3>3
  <2> QED BY <2>1, <2>2, <2>3, <2>4
<1>10. IsList(r, s.head, s.nx)
  BY <1>2, <1>7, <1>8, <1>9 DEF IsList
<1> QED BY <1>6, <1>8, <1>10 DEF r, s

\* Any number of iterations of an operation can be written as one function.
Iterates(f, S, G, b, N) ==
    /\ f \in [0 .. N -> S]
    /\ \A i \in 0 .. N : f[i] = IF i = 0 THEN b ELSE G[f[i - 1]]

LEMMA IterationExists ==
    ASSUME NEW S, NEW G \in [S -> S], NEW b \in S, NEW N \in Nat
    PROVE  \E f : Iterates(f, S, G, b, N)
<1> DEFINE P == {n \in 0 .. N : \E f : Iterates(f, S, G, b, n)}
<1>1. 0 \in P
  <2> DEFINE f == [i \in 0 .. 0 |-> b]
  <2>1. f \in [0 .. 0 -> S] /\ \A i \in 0 .. 0 : f[i] = IF i = 0 THEN b ELSE G[f[i - 1]]
    OBVIOUS
  <2> HIDE DEF f
  <2>2. Iterates(f, S, G, b, 0)
    BY <2>1 DEF Iterates
  <2> QED BY <2>2
<1>2. ASSUME NEW n \in 0 .. N - 1, n \in P PROVE n + 1 \in P
  <2>1. PICK f \in [0 .. n -> S] : \A i \in 0 .. n : f[i] = IF i = 0 THEN b ELSE G[f[i - 1]]
    BY <1>2 DEF Iterates
  <2> DEFINE g == [i \in 0 .. n + 1 |-> IF i = n + 1 THEN G[f[n]] ELSE f[i]]
  <2>2. n \in 0 .. n /\ f[n] \in S /\ G[f[n]] \in S
    OBVIOUS
  <2>3. g \in [0 .. n + 1 -> S]
    BY <2>2
  <2>4. ASSUME NEW i \in 0 .. n + 1
        PROVE  g[i] = IF i = 0 THEN b ELSE G[g[i - 1]]
    <3>1. CASE i = n + 1
      <4>1. g[i] = G[f[n]] /\ g[i - 1] = f[n] /\ i # 0
        BY <3>1
      <4> QED BY <4>1
    <3>2. CASE i # n + 1
      <4>1. i \in 0 .. n /\ g[i] = f[i] /\ (i # 0 => i - 1 \in 0 .. n + 1 /\ g[i - 1] = f[i - 1])
        BY <3>2
      <4> QED BY <2>1, <4>1
    <3> QED BY <3>1, <3>2
  <2>5. n + 1 \in 0 .. N
    OBVIOUS
  <2> HIDE DEF g
  <2>6. Iterates(g, S, G, b, n + 1)
    BY <2>3, <2>4 DEF Iterates
  <2> QED BY <2>5, <2>6
<1> HIDE DEF P
<1>3. \A n \in 0 .. N : n \in P
  BY <1>1, <1>2, UpToIs
<1> QED BY <1>3 DEF P

\* What the sort works on.
SortStates ==
    [list : [head : Slots, nx : Links], prev : Slots, cur : Slots \cup {NULL},
     changed : BOOLEAN]

LEMMA CompareKeepsType ==
    ASSUME NEW s \in SortStates
    PROVE  Compare(s) \in SortStates
<1>1. /\ s.list \in [head : Slots, nx : Links] /\ s.prev \in Slots /\ s.cur \in Slots \cup {NULL}
      /\ s.list.head \in Slots /\ s.list.nx \in Links /\ s.changed \in BOOLEAN
      /\ s = [list |-> s.list, prev |-> s.prev, cur |-> s.cur, changed |-> s.changed]
  BY DEF SortStates
<1>2. CASE s.cur = NULL
  BY <1>2 DEF Compare
<1>3. CASE s.cur # NULL /\ task[s.cur].avg > task[s.prev].avg
  <2> DEFINE l == Swap(s.list, s.prev, s.cur)
  <2>1. l.head \in Slots /\ l.nx \in Links /\ l = [head |-> l.head, nx |-> l.nx]
    <3> DEFINE nx == [s.list.nx EXCEPT ![s.cur] = s.prev, ![s.prev] = s.list.nx[s.cur]]
               parent == parent_of_task(s.prev, s.list.head, s.list.nx)
    <3>1. nx \in Links
      BY <1>1, <1>3 DEF Links
    <3>2. [nx EXCEPT ![parent] = s.cur] \in Links
      BY <1>1, <1>3, <3>1 DEF Links
    <3>3. l = IF parent = NULL THEN [head |-> s.cur, nx |-> nx]
              ELSE [head |-> s.list.head, nx |-> [nx EXCEPT ![parent] = s.cur]]
      BY DEF Swap
    <3> HIDE DEF nx, parent, l
    <3> QED BY <1>1, <1>3, <3>1, <3>2, <3>3
  <2>2. Compare(s) = [list |-> l, prev |-> s.prev, cur |-> l.nx[s.prev], changed |-> TRUE]
    BY <1>3 DEF Compare
  <2> HIDE DEF l
  <2>3. l.nx[s.prev] \in Slots \cup {NULL}
    BY <1>1, <2>1 DEF Links
  <2> QED BY <1>1, <2>1, <2>2, <2>3 DEF SortStates
<1>4. CASE s.cur # NULL /\ ~(task[s.cur].avg > task[s.prev].avg)
  <2>1. Compare(s) = [s EXCEPT !.prev = s.cur, !.cur = s.list.nx[s.cur]]
    BY <1>4 DEF Compare
  <2>2. s.list.nx[s.cur] \in Slots \cup {NULL}
    BY <1>1, <1>4 DEF Links
  <2> QED BY <1>1, <1>4, <2>1, <2>2 DEF SortStates
<1> QED BY <1>2, <1>3, <1>4

\* q is the list l, some order of the tasks.
IsOrder(q, l) ==
    IsList(q, l.head, l.nx) /\ ToSet(q) = live /\ Len(q) = nTasks

Avg(t) == task[t].avg

\* The tasks behind the m-th one are where they belong.
SortedBehind(q, m) ==
    \A i, j \in 1 .. Len(q) : i < j /\ m < j => Avg(q[i]) >= Avg(q[j])

\* Where the inner loop is after k iterations of the pass after a passes: prev is
\* the lowest so far, and one more task has its place once the a places that were
\* left are passed.
Bubbled(q, s, k, a) ==
    /\ IsOrder(q, s.list)
    /\ s.prev = q[k + 1]
    /\ s.cur = IF k + 1 = nTasks THEN NULL ELSE q[k + 2]
    /\ \A i \in 1 .. k + 1 : Avg(q[i]) >= Avg(q[k + 1])
    /\ SortedBehind(q, IF k + 1 < nTasks - a THEN nTasks - a ELSE nTasks - a - 1)
    /\ ~s.changed => \A i, j \in 1 .. k + 1 : i < j => Avg(q[i]) >= Avg(q[j])

LEMMA CompareBubbles ==
    ASSUME TypeOK, nTasks # 0, NEW s \in SortStates, NEW q,
           NEW k \in 0 .. nTasks - 2, NEW a \in 0 .. nTasks - 1, Bubbled(q, s, k, a)
    PROVE  \E r : Bubbled(r, Compare(s), k + 1, a)
<1> DEFINE n == nTasks
           m == IF k + 1 < n - a THEN n - a ELSE n - a - 1
           m1 == IF k + 2 < n - a THEN n - a ELSE n - a - 1
<1>1. /\ n \in Nat \ {0} /\ k \in 0 .. n - 2 /\ a \in 0 .. n - 1
      /\ k + 1 \in 1 .. n /\ k + 2 \in 1 .. n /\ k + 1 # n /\ (k + 1) + 1 = k + 2
      /\ m \in Nat \cup {-1} /\ m1 \in Nat \cup {-1}
  BY DEF TypeOK
<1>2. /\ IsList(q, s.list.head, s.list.nx) /\ ToSet(q) = live /\ Len(q) = n
      /\ s.prev = q[k + 1] /\ s.cur = q[k + 2]
      /\ \A i \in 1 .. k + 1 : Avg(q[i]) >= Avg(q[k + 1])
      /\ \A i, j \in 1 .. n : i < j /\ m < j => Avg(q[i]) >= Avg(q[j])
      /\ ~s.changed => \A i, j \in 1 .. k + 1 : i < j => Avg(q[i]) >= Avg(q[j])
  BY <1>1 DEF Bubbled, IsOrder, SortedBehind
<1>3. /\ q \in Seq(Slots)
      /\ \A i \in 1 .. n : q[i] \in Slots /\ q[i] # NULL /\ Avg(q[i]) \in Nat
      /\ \A i \in 1 .. n : s.list.nx[q[i]] = IF i = n THEN NULL ELSE q[i + 1]
  <2>1. q \in Seq(Slots) /\ \A i \in 1 .. n : q[i] \in Slots /\ q[i] # NULL
    BY <1>2, ListFacts
  <2>2. \A t \in Slots : Avg(t) \in Nat
    BY DEF TypeOK, Task, Avg
  <2> QED BY <1>2, <2>1, <2>2 DEF IsList
<1>4. s.list \in [head : Slots, nx : Links] /\ s.prev \in Slots
  BY DEF SortStates
<1>5. (Avg(s.cur) > Avg(s.prev)) <=> (task[s.cur].avg > task[s.prev].avg)
  BY DEF Avg
<1> HIDE DEF n, m, m1
<1>6. CASE Avg(q[k + 2]) > Avg(q[k + 1])
  <2> DEFINE l == Swap(s.list, q[k + 1], q[k + 2])
             r == Exchanged(q, k + 1)
  <2>1. Compare(s) = [list |-> l, prev |-> q[k + 1], cur |-> l.nx[q[k + 1]], changed |-> TRUE]
    BY <1>1, <1>2, <1>3, <1>5, <1>6 DEF Compare
  <2>2. k + 1 \in 1 .. Len(q) - 1
    BY <1>1, <1>2
  <2>3. IsList(r, l.head, l.nx)
    BY <1>1, <1>2, <1>4, <2>2, Swaps
  <2>4. /\ Len(r) = n /\ ToSet(r) = ToSet(q)
        /\ \A i \in 1 .. n : r[i] = IF i = k + 1 THEN q[k + 2] ELSE IF i = k + 2 THEN q[k + 1] ELSE q[i]
    <3> HIDE DEF l
    <3>1. q \in Seq(Slots)
      BY <1>3
    <3> HIDE DEF r
    <3>2. /\ Len(Exchanged(q, k + 1)) = Len(q) /\ ToSet(Exchanged(q, k + 1)) = ToSet(q)
          /\ \A i \in 1 .. Len(q) :
                Exchanged(q, k + 1)[i] =
                  IF i = k + 1 THEN q[(k + 1) + 1] ELSE IF i = (k + 1) + 1 THEN q[k + 1] ELSE q[i]
      BY <2>2, <3>1, ExchangedIs
    <3> QED BY <1>1, <1>2, <3>2 DEF r
  <2> HIDE DEF l, r
  <2>5. IsOrder(r, l)
    BY <1>2, <2>3, <2>4 DEF IsOrder, n
  <2>6. r[k + 2] = q[k + 1] /\ l.nx[r[k + 2]] = IF k + 2 = n THEN NULL ELSE r[(k + 2) + 1]
    BY <1>1, <2>3, <2>4 DEF IsList
  <2>7. ASSUME NEW i \in 1 .. k + 2 PROVE Avg(r[i]) >= Avg(r[k + 2])
    <3>1. CASE i = k + 2
      BY <1>1, <1>3, <2>6, <3>1
    <3>2. CASE i = k + 1
      BY <1>1, <1>3, <1>6, <2>4, <2>6, <3>2
    <3>3. CASE i # k + 1 /\ i # k + 2
      <4>1. i \in 1 .. k + 1 /\ i \in 1 .. n /\ r[i] = q[i]
        BY <1>1, <2>4, <3>3
      <4> QED BY <1>2, <2>6, <4>1
    <3> QED BY <3>1, <3>2, <3>3
  <2>8. k + 2 <= m
    <3>1. ~(k + 1 < k + 2 /\ m < k + 2 /\ ~(Avg(q[k + 2]) > Avg(q[k + 1])))
      BY <1>6
    <3>2. ~(m < k + 2)
      <4>1. k + 1 \in 1 .. n /\ k + 2 \in 1 .. n /\ k + 1 < k + 2
        BY <1>1
      <4>2. Avg(q[k + 1]) \in Nat /\ Avg(q[k + 2]) \in Nat
        BY <1>3, <4>1
      <4> QED BY <1>2, <1>6, <4>1, <4>2
    <3> QED BY <1>1, <3>2
  <2>9. m = n - a /\ (m1 # m => m1 = k + 1 /\ m = k + 2)
    BY <1>1, <2>8 DEF m, m1
  <2>10. ASSUME NEW i \in 1 .. n, NEW j \in 1 .. n, i < j, m1 < j
         PROVE  Avg(r[i]) >= Avg(r[j])
    <3>1. CASE j > m
      <4>1. r[j] = q[j]
        BY <1>1, <2>4, <2>8, <3>1
      <4>2. PICK i1 \in 1 .. n : r[i] = q[i1] /\ i1 < j
        <5>1. CASE i = k + 1
          BY <1>1, <2>4, <2>8, <3>1, <5>1
        <5>2. CASE i = k + 2
          BY <1>1, <2>4, <2>8, <3>1, <5>2
        <5>3. CASE i # k + 1 /\ i # k + 2
          BY <2>4, <2>10, <5>3
        <5> QED BY <5>1, <5>2, <5>3
      <4> QED BY <1>2, <3>1, <4>1, <4>2
    <3>2. CASE ~(j > m)
      <4>1. j = k + 2 /\ i \in 1 .. k + 2
        BY <1>1, <2>9, <2>10, <3>2
      <4> QED BY <2>7, <4>1
    <3> QED BY <3>1, <3>2
  <2>11. Bubbled(r, Compare(s), k + 1, a)
    <3>1. /\ Compare(s).list = l /\ Compare(s).prev = r[k + 2] /\ Compare(s).changed
          /\ Compare(s).cur = IF k + 2 = n THEN NULL ELSE r[(k + 2) + 1]
      BY <2>1, <2>6
    <3>2. SortedBehind(r, m1)
      BY <2>4, <2>10 DEF SortedBehind
    <3>3. (k + 1) + 1 = k + 2 /\ (k + 1) + 2 = (k + 2) + 1
      BY <1>1
    <3> QED BY <2>5, <2>7, <3>1, <3>2, <3>3 DEF Bubbled, m1, n
  <2> QED BY <2>11
<1>7. CASE ~(Avg(q[k + 2]) > Avg(q[k + 1]))
  <2>1. Compare(s) = [s EXCEPT !.prev = q[k + 2], !.cur = s.list.nx[q[k + 2]]]
    BY <1>1, <1>2, <1>3, <1>5, <1>7 DEF Compare
  <2>2. /\ Compare(s).list = s.list /\ Compare(s).prev = q[k + 2]
        /\ Compare(s).changed = s.changed
        /\ Compare(s).cur = IF k + 2 = n THEN NULL ELSE q[(k + 2) + 1]
    BY <1>1, <1>3, <2>1 DEF SortStates
  <2>3. Avg(q[k + 1]) >= Avg(q[k + 2]) /\ Avg(q[k + 1]) \in Nat /\ Avg(q[k + 2]) \in Nat
    BY <1>1, <1>3, <1>7
  <2>4. ASSUME NEW i \in 1 .. k + 2 PROVE Avg(q[i]) >= Avg(q[k + 2])
    <3>1. CASE i = k + 2
      BY <2>3, <3>1
    <3>2. CASE i # k + 2
      <4>1. i \in 1 .. k + 1 /\ i \in 1 .. n
        BY <1>1, <3>2
      <4>2. Avg(q[i]) >= Avg(q[k + 1]) /\ Avg(q[i]) \in Nat
        BY <1>2, <1>3, <4>1
      <4> QED BY <2>3, <4>2
    <3> QED BY <3>1, <3>2
  <2>5. ASSUME NEW i \in 1 .. n, NEW j \in 1 .. n, i < j, m1 < j
        PROVE  Avg(q[i]) >= Avg(q[j])
    <3>1. CASE m < j
      BY <1>2, <2>5, <3>1
    <3>2. CASE ~(m < j)
      <4>1. j = k + 2
        BY <1>1, <2>5, <3>2 DEF m, m1
      <4> QED BY <2>4, <2>5, <4>1
    <3> QED BY <3>1, <3>2
  <2>6. ASSUME ~s.changed, NEW i \in 1 .. k + 2, NEW j \in 1 .. k + 2, i < j
        PROVE  Avg(q[i]) >= Avg(q[j])
    <3>1. CASE j = k + 2
      BY <2>4, <3>1
    <3>2. CASE j # k + 2
      <4>1. i \in 1 .. k + 1 /\ j \in 1 .. k + 1
        BY <1>1, <2>6, <3>2
      <4> QED BY <1>2, <2>6, <4>1
    <3> QED BY <3>1, <3>2
  <2>7. Bubbled(q, Compare(s), k + 1, a)
    <3>1. SortedBehind(q, m1)
      BY <1>2, <2>5 DEF SortedBehind
    <3>2. IsOrder(q, Compare(s).list)
      BY <1>2, <2>2 DEF IsOrder, n
    <3>3. (k + 1) + 1 = k + 2 /\ (k + 1) + 2 = (k + 2) + 1
      BY <1>1
    <3> QED BY <2>2, <2>4, <2>6, <3>1, <3>2, <3>3 DEF Bubbled, m1, n
  <2> QED BY <2>7
<1> QED BY <1>6, <1>7

\* A pass is its iterations, one after the other.
LEMMA PassIs ==
    ASSUME nTasks \in Nat \ {0}, NEW s \in SortStates, s.changed
    PROVE  \E f \in [0 .. nTasks - 1 -> SortStates] :
              /\ Pass(s) = f[nTasks - 1]
              /\ f[0] = [list |-> s.list, prev |-> s.list.head,
                         cur |-> s.list.nx[s.list.head], changed |-> FALSE]
              /\ \A i \in 0 .. nTasks - 2 : f[i + 1] = Compare(f[i])
<1> DEFINE start == [list |-> s.list, prev |-> s.list.head,
                     cur |-> s.list.nx[s.list.head], changed |-> FALSE]
           n == nTasks - 1
           G == [u \in SortStates |-> Compare(u)]
           Loop(f) == f = [i \in 0 .. n |-> IF i = 0 THEN start ELSE Compare(f[i - 1])]
           w == CHOOSE f : Loop(f)
<1>1. start \in SortStates
  <2>1. s.list \in [head : Slots, nx : Links] /\ s.list.head \in Slots /\ s.list.nx \in Links
    BY DEF SortStates
  <2>2. s.list.nx[s.list.head] \in Slots \cup {NULL}
    BY <2>1 DEF Links
  <2> QED BY <2>1, <2>2 DEF SortStates
<1>2. G \in [SortStates -> SortStates] /\ \A u \in SortStates : G[u] = Compare(u)
  BY CompareKeepsType
<1>3. n \in Nat
  OBVIOUS
<1>4. Pass(s) = w[n]
  BY DEF Pass
<1>5. n = nTasks - 1 /\ n - 1 = nTasks - 2
  OBVIOUS
<1> HIDE DEF start, G, n
<1>6. PICK f \in [0 .. n -> SortStates] :
             \A i \in 0 .. n : f[i] = IF i = 0 THEN start ELSE G[f[i - 1]]
  <2> HIDE DEF w
  <2>1. G \in [SortStates -> SortStates]
    BY <1>2
  <2>2. PICK f : Iterates(f, SortStates, G, start, n)
    BY <1>1, <1>3, <2>1, IterationExists
  <2> QED BY <2>2 DEF Iterates
<1>7. Loop(f)
  <2>1. ASSUME NEW i \in 0 .. n PROVE f[i] = IF i = 0 THEN start ELSE Compare(f[i - 1])
    <3>1. i # 0 => i - 1 \in 0 .. n
      BY <1>3
    <3>2. i # 0 => f[i - 1] \in SortStates
      BY <3>1
    <3> QED BY <1>2, <1>6, <3>2
  <2> QED BY <2>1
<1>8. Loop(w)
  BY <1>7
<1> HIDE DEF w
<1>9. \A i \in 0 .. n : w[i] = IF i = 0 THEN start ELSE Compare(w[i - 1])
  BY <1>8
<1>10. \A i \in 0 .. n : w[i] \in SortStates
  <2> DEFINE P == {i \in 0 .. n : w[i] \in SortStates}
  <2>1. 0 \in P
    BY <1>1, <1>3, <1>9
  <2>2. ASSUME NEW i \in 0 .. n - 1, i \in P PROVE i + 1 \in P
    <3>1. i + 1 \in 0 .. n /\ i + 1 # 0 /\ (i + 1) - 1 = i
      BY <1>3
    <3>2. w[i + 1] = Compare(w[i])
      BY <1>9, <3>1
    <3> QED BY <2>2, <3>1, <3>2, CompareKeepsType
  <2> HIDE DEF P
  <2>3. \A i \in 0 .. n : i \in P
    BY <1>3, <2>1, <2>2, UpToIs
  <2> QED BY <2>3 DEF P
<1>11. w \in [0 .. n -> SortStates]
  BY <1>8, <1>10
<1>12. w[0] = start
  BY <1>3, <1>9
<1>13. ASSUME NEW i \in 0 .. n - 1 PROVE w[i + 1] = Compare(w[i])
  <2>1. i + 1 \in 0 .. n /\ i + 1 # 0 /\ (i + 1) - 1 = i
    BY <1>3
  <2> QED BY <1>9, <2>1
<1> QED BY <1>4, <1>5, <1>11, <1>12, <1>13 DEF start

LEMMA PassKeepsType ==
    ASSUME nTasks \in Nat \ {0}, NEW s \in SortStates
    PROVE  Pass(s) \in SortStates
<1>1. CASE s.changed
  <2>1. PICK f \in [0 .. nTasks - 1 -> SortStates] : Pass(s) = f[nTasks - 1]
    BY <1>1, PassIs
  <2> QED BY <2>1
<1>2. CASE ~s.changed
  BY <1>2 DEF Pass
<1> QED BY <1>1, <1>2

\* After a passes: as many tasks have their place, all of them when the last
\* pass changed nothing.
Passed(q, s, a) ==
    IsOrder(q, s.list) /\ SortedBehind(q, IF s.changed THEN nTasks - a ELSE 0)

LEMMA PassSorts ==
    ASSUME TypeOK, nTasks # 0, NEW s \in SortStates, NEW q, NEW a \in 0 .. nTasks - 1,
           Passed(q, s, a)
    PROVE  Pass(s) \in SortStates /\ \E r : Passed(r, Pass(s), a + 1)
<1>1. nTasks \in Nat \ {0}
  BY DEF TypeOK
<1>2. CASE ~s.changed
  <2>1. Pass(s) = s
    BY <1>2 DEF Pass
  <2> QED BY <1>2, <2>1 DEF Passed
<1>3. CASE s.changed
  <2>1. PICK f \in [0 .. nTasks - 1 -> SortStates] :
               /\ Pass(s) = f[nTasks - 1]
               /\ f[0] = [list |-> s.list, prev |-> s.list.head,
                          cur |-> s.list.nx[s.list.head], changed |-> FALSE]
               /\ \A i \in 0 .. nTasks - 2 : f[i + 1] = Compare(f[i])
    BY <1>1, <1>3, PassIs
  <2> DEFINE P == {k \in 0 .. nTasks - 1 : \E r : Bubbled(r, f[k], k, a)}
  <2>2. 0 \in P
    <3>1. /\ IsList(q, s.list.head, s.list.nx) /\ IsOrder(q, s.list) /\ Len(q) = nTasks
          /\ SortedBehind(q, nTasks - a)
      BY <1>3 DEF Passed, IsOrder
    <3>2. /\ s.list.head = q[1] /\ 1 \in 1 .. nTasks /\ q[1] \in Slots
          /\ s.list.nx[q[1]] = IF 1 = nTasks THEN NULL ELSE q[2]
      BY <1>1, <3>1, ListFacts DEF IsList
    <3>3. /\ f[0].list = s.list /\ f[0].prev = q[1] /\ ~f[0].changed
          /\ f[0].cur = IF 1 = nTasks THEN NULL ELSE q[2]
      BY <2>1, <3>2
    <3>4. Avg(q[1]) \in Nat
      BY <3>2 DEF Avg, TypeOK, Task
    <3>5. \A i \in 1 .. 0 + 1 : Avg(q[i]) >= Avg(q[0 + 1])
      BY <3>4
    <3>6. \A i, j \in 1 .. 0 + 1 : ~(i < j)
      OBVIOUS
    <3>7. SortedBehind(q, IF 0 + 1 < nTasks - a THEN nTasks - a ELSE nTasks - a - 1)
      <4>1. ASSUME ~(0 + 1 < nTasks - a), NEW i \in 1 .. nTasks, NEW j \in 1 .. nTasks,
                   i < j, nTasks - a - 1 < j
            PROVE  nTasks - a < j
        BY <1>1, <4>1
      <4> QED BY <3>1, <4>1 DEF SortedBehind
    <3>8. Bubbled(q, f[0], 0, a)
      BY <3>1, <3>3, <3>5, <3>6, <3>7 DEF Bubbled
    <3> QED BY <1>1, <3>8
  <2>3. ASSUME NEW k \in 0 .. (nTasks - 1) - 1, k \in P PROVE k + 1 \in P
    <3>1. PICK r : Bubbled(r, f[k], k, a)
      BY <2>3
    <3>2. k \in 0 .. nTasks - 2 /\ k \in 0 .. nTasks - 1 /\ k + 1 \in 0 .. nTasks - 1
      BY <1>1
    <3>3. f[k] \in SortStates /\ f[k + 1] = Compare(f[k])
      BY <2>1, <3>2
    <3>4. \E u : Bubbled(u, Compare(f[k]), k + 1, a)
      BY <3>1, <3>2, <3>3, CompareBubbles
    <3> QED BY <3>2, <3>3, <3>4
  <2> HIDE DEF P
  <2>4. \A k \in 0 .. nTasks - 1 : k \in P
    BY <1>1, <2>2, <2>3, UpToIs
  <2>5. nTasks - 1 \in 0 .. nTasks - 1
    BY <1>1
  <2>6. PICK r : Bubbled(r, f[nTasks - 1], nTasks - 1, a)
    BY <2>4, <2>5 DEF P
  <2>7. Bubbled(r, Pass(s), nTasks - 1, a) /\ Pass(s) \in SortStates
    BY <2>1, <2>5, <2>6
  <2>8. /\ IsOrder(r, Pass(s).list) /\ Len(r) = nTasks
        /\ SortedBehind(r, nTasks - a - 1)
        /\ ~Pass(s).changed => \A i, j \in 1 .. nTasks : i < j => Avg(r[i]) >= Avg(r[j])
    <3>1. (nTasks - 1) + 1 = nTasks /\ ~(nTasks < nTasks - a)
      BY <1>1
    <3> QED BY <2>7, <3>1 DEF Bubbled, IsOrder
  <2>9. nTasks - a - 1 = nTasks - (a + 1)
    BY <1>1
  <2>10. Passed(r, Pass(s), a + 1)
    BY <2>8, <2>9 DEF Passed, SortedBehind
  <2> QED BY <2>7, <2>10
<1> QED BY <1>2, <1>3

\* sjf_arrange leaves the list of the same tasks, in the order of their priority.
LEMMA ArrangeIs ==
    ASSUME ListInv
    PROVE  /\ sjf_arrange \in [head : Slots, nx : Links]
           /\ \E r : IsOrder(r, sjf_arrange) /\ SortedBehind(r, 0)
<1> DEFINE n == nTasks
           G == [u \in SortStates |-> Pass(u)]
           Loop(f) == f = [a \in 0 .. n |-> IF a = 0 THEN Unsorted ELSE Pass(f[a - 1])]
           w == CHOOSE f : Loop(f)
<1>1. TypeOK /\ n \in Nat \ {0} /\ nTasks # 0
  BY QueueFacts DEF ListInv
<1>2. sjf_arrange = w[n].list
  BY DEF sjf_arrange
<1> HIDE DEF n
<1>3. Unsorted \in SortStates
  BY QueueFacts DEF ListInv, TypeOK, Unsorted, SortStates, Links
<1> DEFINE Sorts(u, a) == u \in SortStates /\ \E r : Passed(r, u, a)
<1>4. Sorts(Unsorted, 0)
  <2>1. IsOrder(Queue, Unsorted.list) /\ Unsorted.changed /\ Len(Queue) = nTasks
    BY DEF ListInv, IsOrder, Unsorted
  <2>2. \A j \in 1 .. Len(Queue) : ~(nTasks - 0 < j)
    BY <1>1, <2>1 DEF n
  <2> QED BY <1>3, <2>1, <2>2 DEF Passed, SortedBehind
<1>5. ASSUME NEW a \in 0 .. n - 1, NEW u, Sorts(u, a) PROVE Sorts(Pass(u), a + 1)
  BY <1>1, <1>5, PassSorts DEF n
<1>6. G \in [SortStates -> SortStates] /\ \A u \in SortStates : G[u] = Pass(u)
  BY <1>1, PassKeepsType DEF n
<1> HIDE DEF G
<1>7. PICK f \in [0 .. n -> SortStates] :
             \A a \in 0 .. n : f[a] = IF a = 0 THEN Unsorted ELSE G[f[a - 1]]
  <2> HIDE DEF w
  <2>1. G \in [SortStates -> SortStates]
    BY <1>6
  <2>2. PICK f : Iterates(f, SortStates, G, Unsorted, n)
    BY <1>1, <1>3, <2>1, IterationExists
  <2> QED BY <2>2 DEF Iterates
<1>8. Loop(f)
  <2>1. ASSUME NEW a \in 0 .. n PROVE f[a] = IF a = 0 THEN Unsorted ELSE Pass(f[a - 1])
    <3>1. a # 0 => a - 1 \in 0 .. n
      BY <1>1
    <3>2. a # 0 => f[a - 1] \in SortStates
      BY <3>1
    <3> QED BY <1>6, <1>7, <3>2
  <2> QED BY <2>1
<1>9. Loop(w)
  BY <1>8
<1> HIDE DEF w
<1>10. \A a \in 0 .. n : w[a] = IF a = 0 THEN Unsorted ELSE Pass(w[a - 1])
  BY <1>9
<1> DEFINE P == {a \in 0 .. n : Sorts(w[a], a)}
<1> HIDE DEF Sorts
<1>11. 0 \in P
  <2>1. 0 \in 0 .. n /\ w[0] = Unsorted
    BY <1>1, <1>10
  <2> QED BY <1>4, <2>1
<1>12. ASSUME NEW a \in 0 .. n - 1, a \in P PROVE a + 1 \in P
  <2>1. a + 1 \in 0 .. n /\ a + 1 # 0 /\ (a + 1) - 1 = a
    BY <1>1
  <2>2. w[a + 1] = Pass(w[a])
    BY <1>10, <2>1
  <2> QED BY <1>5, <1>12, <2>1, <2>2
<1> HIDE DEF P
<1>13. \A a \in 0 .. n : a \in P
  BY <1>1, <1>11, <1>12, UpToIs
<1>14. Sorts(w[n], n)
  <2>1. n \in 0 .. n
    BY <1>1
  <2> QED BY <1>13, <2>1 DEF P
<1>15. PICK r : Passed(r, w[n], n)
  BY <1>14 DEF Sorts
<1>16. nTasks - n = 0
  BY <1>1 DEF n
<1>17. IsOrder(r, w[n].list) /\ SortedBehind(r, 0)
  BY <1>15, <1>16 DEF Passed
<1>18. w[n].list \in [head : Slots, nx : Links]
  BY <1>14 DEF Sorts, SortStates
<1> QED BY <1>2, <1>17, <1>18

-----------------------------------------------------------------------------
(* The switch.                                                             *)

LEMMA SavedIs ==
    ASSUME NEW tasks \in [Slots -> Task], current_task \in Slots
    PROVE  /\ Saved(tasks) \in [Slots -> Task]
           /\ \A s \in Slots : s # current_task => Saved(tasks)[s] = tasks[s]
           /\ \A s \in Slots :
                 /\ Saved(tasks)[s].id = tasks[s].id
                 /\ Saved(tasks)[s].avg = tasks[s].avg
                 /\ Saved(tasks)[s].eip = IF s = current_task THEN "switch" ELSE tasks[s].eip
<1>1. tasks[current_task] \in Task
  OBVIOUS
<1>2. [tasks[current_task] EXCEPT !.eip = "switch"] \in Task
  BY <1>1 DEF Task, Eip
<1>3. Saved(tasks) = [tasks EXCEPT ![current_task] = [tasks[current_task] EXCEPT !.eip = "switch"]]
  BY DEF Saved
<1>4. \A s \in Slots : s # current_task => Saved(tasks)[s] = tasks[s]
  BY <1>3
<1>5. Saved(tasks)[current_task] = [tasks[current_task] EXCEPT !.eip = "switch"]
  BY <1>3
<1>6. /\ Saved(tasks)[current_task].id = tasks[current_task].id
      /\ Saved(tasks)[current_task].avg = tasks[current_task].avg
      /\ Saved(tasks)[current_task].eip = "switch"
  BY <1>1, <1>5 DEF Task
<1>7. Saved(tasks) \in [Slots -> Task]
  BY <1>2, <1>3
<1> QED BY <1>4, <1>6, <1>7

LEMMA ResumeIs ==
    ASSUME NEW tasks \in [Slots -> Task], NEW t \in Slots, current_directory \in Dirs,
           Resume(t, tasks)
    PROVE  /\ current_task' = t /\ current_directory' \in Dirs
           /\ wild' \in BOOLEAN /\ (wild' <=> tasks[t].eip = "none")
<1>1. tasks[t].pd \in Dirs \cup {NULL} /\ t # NULL
  BY PointersAssumption DEF Task
<1> QED BY <1>1 DEF Resume

\* What start_task and fork_task have in common.
Added(t, avg) ==
    /\ t \in Slots /\ t \notin live /\ avg \in Nat
    /\ Relink(preempt_task(t, avg))
    /\ live' = live \cup {t} /\ nTasks' = nTasks + 1
    /\ next_pid <= MaxPid /\ next_pid' = next_pid + 1
    /\ task' \in [Slots -> Task] /\ task'[t].id = next_pid /\ task'[t].avg = avg
    /\ \A s \in Slots \ {t} :
          /\ task'[s].id = task[s].id /\ task'[s].avg = task[s].avg
          /\ task'[s].eip # task[s].eip => s = current_task /\ task'[s].eip = "switch"
    /\ Outranks(avg) => task'[current_task].eip = "switch"
    /\ current_task' = IF Outranks(avg) THEN t ELSE current_task
    /\ current_directory' \in Dirs /\ dirs' \subseteq Dirs
    /\ wild' \in BOOLEAN /\ algorithm' = algorithm
    /\ task'[t].eip = "none" => Outranks(avg) /\ task'[t].pd # NULL
    /\ wild' => wild \/ task'[t].eip = "none"

LEMMA StartAdds ==
    ASSUME ListInv, NEW t \in Slots, NEW avg \in Priorities, start_task(t, avg)
    PROVE  Added(t, avg)
<1> DEFINE new == [id |-> next_pid, avg |-> avg, eip |-> "func", pd |-> NULL]
           tasks == [task EXCEPT ![t] = new]
<1>1. /\ TypeOK /\ avg \in Nat /\ t \notin live /\ current_task \in Slots /\ current_task # t
      /\ next_pid \in Nat /\ current_directory \in Dirs /\ wild \in BOOLEAN
  BY PrioritiesAssumption DEF ListInv, TypeOK, start_task, Allocate
<1>2. /\ Relink(preempt_task(t, avg)) /\ Allocate(t) /\ algorithm' = algorithm /\ dirs' = dirs
      /\ IF Outranks(avg)
           THEN set_current_task(t, tasks)
           ELSE task' = tasks /\ UNCHANGED <<current_task, current_directory, wild>>
  BY DEF start_task
<1>3. new \in Task
  BY <1>1 DEF Task, Eip
<1>4. /\ tasks \in [Slots -> Task] /\ tasks[t] = new
      /\ \A s \in Slots \ {t} : tasks[s] = task[s]
  BY <1>1, <1>3 DEF TypeOK
<1>5. new.id = next_pid /\ new.avg = avg /\ new.eip = "func"
  OBVIOUS
<1> HIDE DEF new, tasks
<1>6. CASE Outranks(avg)
  <2>1. task' = Saved(tasks) /\ Resume(t, tasks)
    BY <1>2, <1>6 DEF set_current_task
  <2>2. /\ current_task' = t /\ current_directory' \in Dirs
        /\ wild' \in BOOLEAN /\ (wild' <=> tasks[t].eip = "none")
    BY <1>1, <1>4, <2>1, ResumeIs
  <2>3. /\ task' \in [Slots -> Task]
        /\ \A s \in Slots :
              /\ task'[s].id = tasks[s].id
              /\ task'[s].avg = tasks[s].avg
              /\ task'[s].eip = IF s = current_task THEN "switch" ELSE tasks[s].eip
    BY <1>1, <1>4, <2>1, SavedIs
  <2> QED BY <1>1, <1>2, <1>4, <1>5, <1>6, <2>2, <2>3 DEF Added, Allocate, TypeOK
<1>7. CASE ~Outranks(avg)
  <2>1. task' = tasks /\ UNCHANGED <<current_task, current_directory, wild>>
    BY <1>2, <1>7
  <2> QED BY <1>1, <1>2, <1>4, <1>5, <1>7, <2>1 DEF Added, Allocate, TypeOK
<1> QED BY <1>6, <1>7

LEMMA ForkAdds ==
    ASSUME ListInv, NEW t \in Slots, NEW avg \in Priorities, NEW d \in Dirs,
           fork_task(t, avg, d)
    PROVE  Added(t, avg)
<1> DEFINE new == [id |-> next_pid, avg |-> avg, eip |-> "none", pd |-> d]
           tasks == [task EXCEPT ![t] = new]
           forked == [tasks EXCEPT ![t].eip = "fork"]
<1>1. /\ TypeOK /\ avg \in Nat /\ t \notin live /\ current_task \in Slots /\ current_task # t
      /\ next_pid \in Nat /\ current_directory \in Dirs /\ wild \in BOOLEAN
  BY PrioritiesAssumption DEF ListInv, TypeOK, fork_task, Allocate
<1>2. /\ Relink(preempt_task(t, avg)) /\ Allocate(t) /\ algorithm' = algorithm
      /\ dirs' = dirs \cup {d}
      /\ IF Outranks(avg)
           THEN set_current_task(t, tasks)
           ELSE task' = forked /\ UNCHANGED <<current_task, current_directory, wild>>
  BY DEF fork_task
<1>3. new \in Task
  BY <1>1 DEF Task, Eip
<1>4. /\ tasks \in [Slots -> Task] /\ tasks[t] = new
      /\ \A s \in Slots \ {t} : tasks[s] = task[s]
  BY <1>1, <1>3 DEF TypeOK
<1>5. new.id = next_pid /\ new.avg = avg /\ new.eip = "none" /\ new.pd # NULL
  BY PointersAssumption
<1>6. [new EXCEPT !.eip = "fork"] \in Task /\ [new EXCEPT !.eip = "fork"].id = next_pid
      /\ [new EXCEPT !.eip = "fork"].avg = avg /\ [new EXCEPT !.eip = "fork"].eip = "fork"
  BY <1>1 DEF Task, Eip
<1>7. forked = [tasks EXCEPT ![t] = [new EXCEPT !.eip = "fork"]]
  BY <1>4
<1> HIDE DEF new, tasks, forked
<1>8. /\ forked \in [Slots -> Task] /\ forked[t] = [new EXCEPT !.eip = "fork"]
      /\ \A s \in Slots \ {t} : forked[s] = task[s]
  BY <1>4, <1>6, <1>7
<1>9. CASE Outranks(avg)
  <2>1. task' = Saved(tasks) /\ Resume(t, tasks)
    BY <1>2, <1>9 DEF set_current_task
  <2>2. current_task' = t /\ current_directory' \in Dirs /\ wild' \in BOOLEAN
    BY <1>1, <1>4, <2>1, ResumeIs
  <2>4. task'[t] = new
    BY <1>1, <1>4, <2>1, SavedIs
  <2>3. /\ task' \in [Slots -> Task]
        /\ \A s \in Slots :
              /\ task'[s].id = tasks[s].id
              /\ task'[s].avg = tasks[s].avg
              /\ task'[s].eip = IF s = current_task THEN "switch" ELSE tasks[s].eip
    BY <1>1, <1>4, <2>1, SavedIs
  <2> QED BY <1>1, <1>2, <1>4, <1>5, <1>9, <2>2, <2>3, <2>4 DEF Added, Allocate, TypeOK
<1>10. CASE ~Outranks(avg)
  <2>1. task' = forked /\ UNCHANGED <<current_task, current_directory, wild>>
    BY <1>2, <1>10
  <2> QED BY <1>1, <1>2, <1>6, <1>8, <1>10, <2>1 DEF Added, Allocate, TypeOK
<1> QED BY <1>9, <1>10

-----------------------------------------------------------------------------
(* What each call does to the list.                                        *)

\* A sound list again, of the tasks that are live then.
GoodList ==
    /\ IsList(Queue', ready_queue', next')
    /\ ToSet(Queue') = live'
    /\ nTasks' = Len(Queue')
    /\ next' \in Links /\ ready_queue' \in Slots

LEMMA AddedList ==
    ASSUME ListInv, NEW t, NEW avg, Added(t, avg)
    PROVE  /\ GoodList
           /\ \E i \in 1 .. Len(Queue) + 1 :
                 /\ Queue' = InsertAt(Queue, i, t)
                 /\ Outranks(avg) => i <= Len(Queue) /\ Queue[i] = current_task
<1> DEFINE p == preempt_task(t, avg)
<1>1. t \in Slots /\ t \notin live /\ avg \in Nat /\ ready_queue' = p.head /\ next' = p.nx
  BY DEF Added, Relink
<1>2. PICK i \in 1 .. Len(Queue) + 1 :
             /\ LinksIn(Queue, i, t, ready_queue, next, p.head, p.nx)
             /\ Outranks(avg) => i <= Len(Queue) /\ Queue[i] = current_task
             /\ p.nx \in [Slots -> Slots \cup {NULL}]
  BY <1>1, Preempts
<1> HIDE DEF p
<1>3. LinksIn(Queue, i, t, ready_queue, next, ready_queue', next')
  BY <1>1, <1>2
<1>4. IsList(Queue, ready_queue, next) /\ ToSet(Queue) = live /\ nTasks = Len(Queue)
      /\ ready_queue \in Slots
  BY QueueFacts DEF ListInv
<1>5. /\ IsList(InsertAt(Queue, i, t), ready_queue', next')
      /\ ToSet(InsertAt(Queue, i, t)) = live \cup {t}
      /\ Len(InsertAt(Queue, i, t)) = Len(Queue) + 1
  BY <1>1, <1>3, <1>4, ListInsert
<1>6. Queue' = InsertAt(Queue, i, t)
  BY <1>5, ChainIs DEF Queue
<1>7. ready_queue' \in Slots
  BY <1>1, <1>3, <1>4 DEF LinksIn
<1>8. live' = live \cup {t} /\ nTasks' = nTasks + 1
  BY DEF Added
<1> QED BY <1>1, <1>2, <1>4, <1>5, <1>6, <1>7, <1>8 DEF GoodList, Links

LEMMA RemovedList ==
    ASSUME ListInv, NEW c \in 1 .. Len(Queue), Len(Queue) > 1,
           LinksOut(Queue, c, ready_queue, next, ready_queue', next'), next' \in Links,
           live' = live \ {Queue[c]}, nTasks' = nTasks - 1
    PROVE  GoodList /\ Queue' = RemoveAt(Queue, c)
<1> DEFINE r == RemoveAt(Queue, c)
<1>1. /\ IsList(Queue, ready_queue, next) /\ ToSet(Queue) = live /\ nTasks = Len(Queue)
      /\ Len(Queue) \in Nat
  BY QueueFacts DEF ListInv
<1>2. /\ IsList(r, ready_queue', next') /\ ToSet(r) = ToSet(Queue) \ {Queue[c]}
      /\ Len(r) = Len(Queue) - 1
  BY <1>1, ListRemove
<1> HIDE DEF r
<1>3. Queue' = r
  BY <1>2, ChainIs DEF Queue
<1>4. ready_queue' \in Slots
  <2>1. Len(r) # 0 /\ 1 \in 1 .. Len(r)
    BY <1>1, <1>2
  <2>2. ready_queue' = r[1]
    BY <1>2, <2>1 DEF IsList
  <2> QED BY <1>2, <2>1, <2>2, ListFacts
<1> QED BY <1>1, <1>2, <1>3, <1>4 DEF GoodList, r

LEMMA ExitList ==
    ASSUME ListInv, exit_task
    PROVE  /\ GoodList /\ Len(Queue) > 1
           /\ \E c \in 1 .. Len(Queue) :
                 /\ Queue[c] = current_task /\ Queue' = RemoveAt(Queue, c)
                 /\ current_task' = IF c = Len(Queue) THEN Queue[1] ELSE Queue[c + 1]
           /\ current_task' \in live /\ current_task' # current_task
           /\ Resume(current_task', task)
<1>1. /\ Len(Queue) \in Nat \ {0} /\ current_task \in live /\ nTasks = Len(Queue)
      /\ ready_queue = Queue[1]
      /\ \A i \in 1 .. Len(Queue) : Queue[i] \in live /\ Queue[i] \in Slots /\ Queue[i] # NULL
      /\ \A i, j \in 1 .. Len(Queue) : Queue[i] = Queue[j] => i = j
      /\ \A i \in 1 .. Len(Queue) :
            next[Queue[i]] = IF i = Len(Queue) THEN NULL ELSE Queue[i + 1]
      /\ \A t \in live : \E i \in 1 .. Len(Queue) : t = Queue[i]
  BY QueueFacts DEF ListInv
<1>2. PICK c \in 1 .. Len(Queue) : current_task = Queue[c]
  BY <1>1
<1> DEFINE l == Unlink(Queue[c], ready_queue, next)
           nx == [l.nx EXCEPT ![Queue[c]] = NULL]
<1>3. /\ nTasks > 1 /\ nTasks' = nTasks - 1 /\ live' = live \ {current_task}
      /\ Relink([l EXCEPT !.nx[current_task] = NULL])
      /\ Resume(Following(next, l.head), task)
  BY <1>2 DEF exit_task
<1>4. l.head = (IF c = 1 THEN next[Queue[c]] ELSE ready_queue)
      /\ l = [head |-> l.head, nx |-> l.nx]
  <2>1. Queue[c] = ready_queue <=> c = 1
    BY <1>1
  <2> QED BY <2>1 DEF Unlink
<1>5. /\ LinksOut(Queue, c, ready_queue, next, l.head, nx) /\ nx \in Links
  BY Unlinks
<1>6. ready_queue' = l.head /\ next' = nx
  <2> DEFINE m == [l EXCEPT !.nx[current_task] = NULL]
  <2>1. m.head = l.head /\ m.nx = nx
    BY <1>2, <1>4
  <2>2. Relink(m)
    BY <1>3
  <2> HIDE DEF m, l, nx
  <2> QED BY <2>1, <2>2 DEF Relink
<1> HIDE DEF nx, l
<1>7. GoodList /\ Queue' = RemoveAt(Queue, c)
  BY <1>1, <1>2, <1>3, <1>5, <1>6, RemovedList
<1>8. Following(next, l.head) = IF c = Len(Queue) THEN Queue[1] ELSE Queue[c + 1]
  <2>1. CASE c = Len(Queue)
    <3>1. c # 1
      BY <1>1, <1>3, <2>1
    <3> QED BY <1>1, <1>2, <1>4, <2>1, <3>1 DEF Following
  <2>2. CASE c # Len(Queue)
    <3>1. c + 1 \in 1 .. Len(Queue)
      BY <1>1, <2>2
    <3> QED BY <1>1, <1>2, <2>2, <3>1 DEF Following
  <2> QED BY <2>1, <2>2
<1>9. current_task' = Following(next, l.head)
  BY <1>3 DEF Resume
<1>10. PICK d \in 1 .. Len(Queue) : d # c /\ Following(next, l.head) = Queue[d]
  <2>1. 1 \in 1 .. Len(Queue) /\ (c = Len(Queue) => 1 # c)
    BY <1>1, <1>3
  <2>2. c # Len(Queue) => c + 1 \in 1 .. Len(Queue) /\ c + 1 # c
    BY <1>1
  <2> QED BY <1>8, <2>1, <2>2
<1>11. current_task' \in live /\ current_task' # current_task
  BY <1>1, <1>2, <1>9, <1>10
<1> QED BY <1>1, <1>2, <1>3, <1>7, <1>8, <1>9, <1>11

LEMMA KillList ==
    ASSUME ListInv, NEW pid, kill_task(pid), "kill_self" \notin Permitted
    PROVE  /\ GoodList
           /\ \E c \in 1 .. Len(Queue) :
                 /\ Queue[c] # current_task /\ Queue' = RemoveAt(Queue, c)
                 /\ live' = live \ {Queue[c]} /\ task[Queue[c]].id = pid
                 /\ task' = [task EXCEPT ![Queue[c]] = Blank]
<1>1. /\ Len(Queue) \in Nat \ {0} /\ current_task \in live /\ nTasks = Len(Queue)
      /\ ready_queue = Queue[1]
      /\ \A i, j \in 1 .. Len(Queue) : Queue[i] = Queue[j] => i = j
      /\ \A t \in live : \E i \in 1 .. Len(Queue) : t = Queue[i]
      /\ ToSet(Queue) = live
  BY QueueFacts DEF ListInv
<1>2. PICK t \in Victim(pid) :
             /\ next' = [Unlink(t, ready_queue, next).nx EXCEPT ![t] = NULL]
             /\ task' = [task EXCEPT ![t] = Blank]
             /\ live' = live \ {t}
  BY DEF kill_task
<1>3. /\ pid # task[current_task].id /\ nTasks' = nTasks - 1 /\ ready_queue' = ready_queue
  BY DEF kill_task
<1>4. t \in live /\ t # ready_queue /\ task[t].id = pid /\ t # current_task
  BY <1>1, <1>2, <1>3 DEF Victim
<1>5. PICK c \in 1 .. Len(Queue) : t = Queue[c]
  BY <1>1, <1>4
<1>6. c # 1 /\ Len(Queue) > 1
  BY <1>1, <1>4, <1>5
<1> DEFINE l == Unlink(Queue[c], ready_queue, next)
           nx == [l.nx EXCEPT ![Queue[c]] = NULL]
<1>7. LinksOut(Queue, c, ready_queue, next, l.head, nx) /\ nx \in Links /\ l.head = ready_queue
  BY <1>6, Unlinks
<1>8. next' = nx
  BY <1>2, <1>5
<1> HIDE DEF nx, l
<1>9. GoodList /\ Queue' = RemoveAt(Queue, c)
  BY <1>1, <1>2, <1>3, <1>5, <1>6, <1>7, <1>8, RemovedList
<1> QED BY <1>2, <1>4, <1>5, <1>9

\* The tasks that give way go on with the next one of a list of the same tasks,
\* sorted if the last one gave way under shortest job first, else as it was.
LEMMA ScheduleList ==
    ASSUME ListInv, schedule
    PROVE  /\ GoodList /\ live' = live /\ Len(Queue') = Len(Queue)
           /\ IF next[current_task] = NULL /\ algorithm = 1
                THEN SortedBehind(Queue', 0) ELSE Queue' = Queue
           /\ \E c \in 1 .. Len(Queue') :
                 /\ Queue'[c] = current_task
                 /\ current_task' = IF c = Len(Queue') THEN Queue'[1] ELSE Queue'[c + 1]
           /\ current_task' \in live
           /\ task' = Saved(task) /\ Resume(current_task', Saved(task))
<1>1. /\ IsList(Queue, ready_queue, next) /\ ToSet(Queue) = live /\ nTasks = Len(Queue)
      /\ ready_queue \in Slots /\ next \in Links /\ current_task \in live
      /\ Len(Queue) \in Nat \ {0}
  BY QueueFacts DEF ListInv, TypeOK, Links
<1> DEFINE sorts == next[current_task] = NULL /\ algorithm = 1
           l == IF sorts THEN sjf_arrange ELSE [head |-> ready_queue, nx |-> next]
<1>2. Relink(l) /\ switch_task(l) /\ live' = live /\ nTasks' = nTasks
  BY DEF schedule
<1>3. PICK q : /\ IsOrder(q, l) /\ l \in [head : Slots, nx : Links]
               /\ IF sorts THEN SortedBehind(q, 0) ELSE q = Queue
  <2>1. CASE sorts
    BY <2>1, ArrangeIs
  <2>2. CASE ~sorts
    <3>1. IsOrder(Queue, l)
      BY <1>1, <2>2 DEF IsOrder
    <3>2. l \in [head : Slots, nx : Links]
      BY <1>1, <2>2
    <3> QED BY <2>2, <3>1, <3>2
  <2> QED BY <2>1, <2>2
<1> HIDE DEF l, sorts
<1>4. ready_queue' = l.head /\ next' = l.nx /\ l.head \in Slots /\ l.nx \in Links
  BY <1>2, <1>3 DEF Relink
<1>5. IsList(q, ready_queue', next') /\ ToSet(q) = live /\ Len(q) = nTasks
  BY <1>3, <1>4 DEF IsOrder
<1>6. Queue' = q
  BY <1>5, ChainIs DEF Queue
<1>7. GoodList
  BY <1>2, <1>4, <1>5, <1>6 DEF GoodList
<1>8. /\ ToSet(q) = {q[i] : i \in 1 .. Len(q)} /\ l.head = q[1] /\ 1 \in 1 .. Len(q)
      /\ \A i \in 1 .. Len(q) : q[i] # NULL
      /\ \A i \in 1 .. Len(q) : l.nx[q[i]] = IF i = Len(q) THEN NULL ELSE q[i + 1]
  <2>1. Len(q) # 0 /\ 1 \in 1 .. Len(q)
    BY <1>1, <1>5
  <2>2. /\ l.head = q[1]
        /\ \A i \in 1 .. Len(q) : l.nx[q[i]] = IF i = Len(q) THEN NULL ELSE q[i + 1]
    BY <1>4, <1>5, <2>1 DEF IsList
  <2>3. ToSet(q) = {q[i] : i \in 1 .. Len(q)} /\ \A i \in 1 .. Len(q) : q[i] # NULL
    BY <1>5, ListFacts
  <2> QED BY <2>1, <2>2, <2>3
<1>9. PICK c \in 1 .. Len(q) : current_task = q[c]
  BY <1>1, <1>5, <1>8
<1>10. Following(l.nx, l.head) = IF c = Len(q) THEN q[1] ELSE q[c + 1]
  <2>1. c # Len(q) => c + 1 \in 1 .. Len(q)
    BY <1>1, <1>5
  <2> QED BY <1>8, <1>9, <2>1 DEF Following
<1>11. task' = Saved(task) /\ Resume(Following(l.nx, l.head), Saved(task))
  BY <1>2 DEF switch_task
<1>12. current_task' = Following(l.nx, l.head)
  BY <1>11 DEF Resume
<1>13. current_task' \in live
  <2>1. c # Len(q) => c + 1 \in 1 .. Len(q)
    BY <1>1, <1>5
  <2> QED BY <1>5, <1>8, <1>10, <1>12, <2>1
<1> QED BY <1>1, <1>2, <1>3, <1>5, <1>6, <1>7, <1>9, <1>10, <1>11, <1>12, <1>13 DEF sorts

-----------------------------------------------------------------------------
(* The list is sound, whatever calls are made.                             *)

LEMMA InitList == Init => ListInv /\ Len(Queue) = 1
<1> SUFFICES ASSUME Init PROVE ListInv /\ Len(Queue) = 1
  OBVIOUS
<1>1. PICK s \in Slots, d \in Dirs :
             /\ live = {s} /\ dirs = {d}
             /\ task = [t \in Slots |->
                          IF t = s THEN [Blank EXCEPT !.id = 1, !.pd = d] ELSE Blank]
             /\ current_task = s /\ ready_queue = s /\ current_directory = d
  BY DEF Init
<1>2. next = [t \in Slots |-> NULL] /\ next_pid = 2 /\ nTasks = 1 /\ algorithm = 1
      /\ wild = FALSE
  BY DEF Init
<1>3. Blank \in Task /\ [Blank EXCEPT !.id = 1, !.pd = d] \in Task
  BY DEF Blank, Task, Eip
<1>4. TypeOK
  <2>1. task \in [Slots -> Task]
    BY <1>1, <1>3
  <2>2. next \in [Slots -> Slots \cup {NULL}]
    BY <1>2
  <2>3. live \subseteq Slots /\ dirs \subseteq Dirs /\ next_pid \in Nat /\ nTasks \in Nat
    BY <1>1, <1>2
  <2>4. current_task \in Slots /\ ready_queue \in Slots /\ current_directory \in Dirs
    BY <1>1
  <2>5. algorithm \in 0 .. 2
    BY <1>2
  <2>6. wild \in BOOLEAN
    BY <1>2
  <2> QED BY <2>1, <2>2, <2>3, <2>4, <2>5, <2>6 DEF TypeOK
<1>5. IsList(<<s>>, ready_queue, next) /\ ToSet(<<s>>) = {s} /\ Len(<<s>>) = 1
  BY <1>1, <1>2 DEF IsList, ToSet
<1>6. Queue = <<s>>
  BY <1>5, ChainIs DEF Queue
<1> QED BY <1>1, <1>2, <1>4, <1>5, <1>6 DEF ListInv

LEMMA GoodListKeeps ==
    ASSUME GoodList, task' \in [Slots -> Task], live' \subseteq Slots, nTasks' \in Nat,
           next_pid' \in Nat, algorithm' \in {0, 1}, current_directory' \in Dirs,
           dirs' \subseteq Dirs, wild' \in BOOLEAN, current_task' \in live'
    PROVE  ListInv'
BY DEF GoodList, ListInv, TypeOK, Links

LEMMA StepList ==
    ListInv /\ [Next]_vars /\ {"kill_self", "algorithm_2"} \cap Permitted = {} => ListInv'
<1> SUFFICES ASSUME ListInv, [Next]_vars, {"kill_self", "algorithm_2"} \cap Permitted = {}
             PROVE  ListInv'
  OBVIOUS
<1>1. /\ TypeOK /\ live \subseteq Slots /\ current_task \in live /\ task \in [Slots -> Task]
      /\ nTasks \in Nat /\ next_pid \in Nat /\ algorithm \in {0, 1} /\ dirs \subseteq Dirs
      /\ current_directory \in Dirs /\ wild \in BOOLEAN
      /\ nTasks = Len(Queue) /\ Blank \in Task
  BY DEF ListInv, TypeOK, Blank, Task, Eip
<1>2. ASSUME NEW t \in Slots, NEW avg \in Priorities,
             start_task(t, avg) \/ \E d \in Dirs : fork_task(t, avg, d)
      PROVE  ListInv'
  <2>1. Added(t, avg)
    BY <1>2, StartAdds, ForkAdds
  <2>2. GoodList
    BY <2>1, AddedList
  <2> QED BY <1>1, <2>1, <2>2, GoodListKeeps DEF Added
<1>3. CASE exit_task
  <2>1. GoodList /\ Len(Queue) > 1 /\ current_task' \in live /\ current_task' # current_task
        /\ Resume(current_task', task)
    BY <1>3, ExitList
  <2>2. /\ nTasks' = nTasks - 1 /\ live' = live \ {current_task}
        /\ dirs' = dirs \ {task[current_task].pd}
        /\ task' = [task EXCEPT ![current_task] = Blank]
        /\ next_pid' = next_pid /\ algorithm' = algorithm
    BY <1>3 DEF exit_task
  <2>3. current_directory' \in Dirs /\ wild' \in BOOLEAN
    BY <1>1, <2>1, ResumeIs
  <2>4. nTasks' \in Nat
    BY <1>1, <2>1, <2>2
  <2> QED BY <1>1, <2>1, <2>2, <2>3, <2>4, GoodListKeeps
<1>4. ASSUME NEW pid \in 1 .. MaxPid, kill_task(pid) PROVE ListInv'
  <2>1. PICK c \in 1 .. Len(Queue) :
               /\ Queue[c] # current_task /\ live' = live \ {Queue[c]}
               /\ task' = [task EXCEPT ![Queue[c]] = Blank]
    BY <1>4, KillList
  <2>2. GoodList
    BY <1>4, KillList
  <2>3. /\ nTasks' = nTasks - 1 /\ current_task' = current_task /\ next_pid' = next_pid
        /\ algorithm' = algorithm /\ current_directory' = current_directory /\ dirs' = dirs
        /\ wild' = wild
    BY <1>4 DEF kill_task, spaces
  <2>4. nTasks' \in Nat
    BY <1>1, <2>1, <2>3
  <2> QED BY <1>1, <2>1, <2>2, <2>3, <2>4, GoodListKeeps
<1>5. CASE schedule
  <2>1. GoodList /\ live' = live /\ current_task' \in live
        /\ task' = Saved(task) /\ Resume(current_task', Saved(task))
    BY <1>5, ScheduleList
  <2>2. nTasks' = nTasks /\ next_pid' = next_pid /\ algorithm' = algorithm /\ dirs' = dirs
    BY <1>5 DEF schedule
  <2>3. task' \in [Slots -> Task]
    BY <1>1, <2>1, SavedIs
  <2>4. current_directory' \in Dirs /\ wild' \in BOOLEAN
    BY <1>1, <2>1, <2>3, ResumeIs
  <2> QED BY <1>1, <2>1, <2>2, <2>3, <2>4, GoodListKeeps
<1>6. ASSUME NEW n \in 0 .. 2, set_scheduling_algorithm(n) PROVE ListInv'
  <2>1. algorithm' \in {0, 1}
    BY <1>6 DEF set_scheduling_algorithm
  <2>2. /\ UNCHANGED <<live, task, list, current_task, next_pid, spaces, wild>>
    BY <1>6 DEF set_scheduling_algorithm
  <2>3. Queue' = Queue
    BY <2>2 DEF Queue, list
  <2> QED BY <2>1, <2>2, <2>3 DEF ListInv, TypeOK, list, spaces
<1>7. CASE UNCHANGED vars
  <2>1. Queue' = Queue
    BY <1>7 DEF Queue, vars, list
  <2> QED BY <1>7, <2>1 DEF ListInv, TypeOK, vars, list, spaces
<1> QED BY <1>2, <1>3, <1>4, <1>5, <1>6, <1>7 DEF Next

\* Whatever is started, forked, ended, killed and scheduled in whatever order, the
\* list of task.c ends, holds each live task once and nothing freed, and nTasks
\* counts it: for a caller that does not kill the running task or set a number
\* that is no algorithm.
THEOREM ListIsSound ==
    {"kill_self", "algorithm_2"} \cap Permitted = {} => (Spec => []ListSound)
<1> SUFFICES ASSUME {"kill_self", "algorithm_2"} \cap Permitted = {}
             PROVE  Spec => []ListSound
  OBVIOUS
<1>1. Init => ListInv
  BY InitList
<1>2. ListInv /\ [Next]_vars => ListInv'
  BY StepList
<1>3. ListInv => ListSound
  <2> SUFFICES ASSUME ListInv PROVE ListSound
    OBVIOUS
  <2>1. IsInjective(Queue)
    BY QueueFacts DEF IsInjective
  <2> QED BY <2>1 DEF ListInv, ListSound
<1> QED BY <1>1, <1>2, <1>3, PTL DEF Spec

-----------------------------------------------------------------------------
(* Every task has a place to resume at.                                    *)

ResumeInv ==
    /\ ListInv
    /\ wild => SwitchedTooEarly
    /\ \A t \in live \ {current_task} : task[t].eip # "none"
    /\ \A t \in live : task[t].id \in 1 .. next_pid - 1
    /\ \A s, t \in live : task[s].id = task[t].id => s = t
    /\ next_pid \in 2 .. MaxPid + 1

LEMMA StepResume ==
    ResumeInv /\ [Next]_vars /\ {"kill_self", "algorithm_2"} \cap Permitted = {} => ResumeInv'
<1> SUFFICES ASSUME ResumeInv, [Next]_vars,
                    {"kill_self", "algorithm_2"} \cap Permitted = {}
             PROVE  ResumeInv'
  OBVIOUS
<1>1. /\ ListInv /\ live \subseteq Slots /\ current_task \in live /\ task \in [Slots -> Task]
      /\ next_pid \in Nat /\ next_pid \in 2 .. MaxPid + 1
      /\ \A t \in live \ {current_task} : task[t].eip # "none"
      /\ \A t \in live : task[t].id \in 1 .. next_pid - 1
      /\ \A s, t \in live : task[s].id = task[t].id => s = t
      /\ current_directory \in Dirs /\ MaxPid \in Nat
  BY MaxPidAssumption DEF ResumeInv, ListInv, TypeOK
<1>2. ListInv'
  BY <1>1, StepList
<1>3. ASSUME NEW t \in Slots, NEW avg \in Priorities,
             start_task(t, avg) \/ \E d \in Dirs : fork_task(t, avg, d)
      PROVE  ResumeInv'
  <2>1. Added(t, avg)
    BY <1>1, <1>3, StartAdds, ForkAdds
  <2>2. /\ t \notin live /\ live' = live \cup {t} /\ next_pid <= MaxPid
        /\ next_pid' = next_pid + 1 /\ task'[t].id = next_pid
        /\ \A s \in live : /\ task'[s].id = task[s].id
                           /\ task'[s].eip # task[s].eip => task'[s].eip = "switch"
        /\ current_task' # t => task'[t].eip # "none"
        /\ current_task' = IF Outranks(avg) THEN t ELSE current_task
        /\ Outranks(avg) => task'[current_task].eip = "switch"
    BY <1>1, <2>1 DEF Added
  <2>3. \A s \in live' \ {current_task'} : task'[s].eip # "none"
    BY <1>1, <2>2
  <2>7. wild' => SwitchedTooEarly'
    <3>1. ~wild
      BY <1>3 DEF start_task, fork_task, Running
    <3>2. ASSUME wild'
          PROVE  /\ task'[t].eip = "none" /\ task'[t].pd # NULL /\ task'[t].avg = avg
                 /\ Outranks(avg) /\ algorithm' = algorithm /\ next' = preempt_task(t, avg).nx
                 /\ task'[current_task].avg = task[current_task].avg
      BY <1>1, <2>1, <3>1, <3>2 DEF Added, Relink
    <3>3. Outranks(avg) => preempt_task(t, avg).nx[t] = current_task
      <4>1. next \in [Slots -> Slots \cup {NULL}] /\ t \in Slots
        BY <1>1 DEF ListInv, TypeOK
      <4> QED BY <4>1 DEF preempt_task, Outranks, Before
    <3>4. current_task # NULL /\ current_task \in Slots
      BY <1>1, PointersAssumption
    <3> QED BY <2>2, <3>2, <3>3, <3>4, <1>1 DEF SwitchedTooEarly, Outranks
  <2>4. next_pid' \in 2 .. MaxPid + 1 /\ next_pid' - 1 = next_pid
    BY <1>1, <2>2
  <2>5. \A s \in live' : task'[s].id \in 1 .. next_pid' - 1
    BY <1>1, <2>2, <2>4
  <2>6. \A r, s \in live' : task'[r].id = task'[s].id => r = s
    <3>1. \A s \in live : task'[s].id # next_pid
      BY <1>1, <2>2
    <3> QED BY <1>1, <2>2, <3>1
  <2> QED BY <1>2, <2>3, <2>4, <2>5, <2>6, <2>7 DEF ResumeInv
<1>4. CASE exit_task
  <2>1. current_task' \in live /\ current_task' # current_task /\ Resume(current_task', task)
    BY <1>1, <1>4, ExitList
  <2>2. /\ live' = live \ {current_task} /\ task' = [task EXCEPT ![current_task] = Blank]
        /\ next_pid' = next_pid
    BY <1>4 DEF exit_task
  <2>3. ~wild'
    BY <1>1, <2>1, ResumeIs
  <2>4. \A s \in live' : s \in live /\ s # current_task /\ task'[s] = task[s]
    BY <1>1, <2>2
  <2> QED BY <1>1, <1>2, <2>2, <2>3, <2>4 DEF ResumeInv
<1>5. ASSUME NEW pid \in 1 .. MaxPid, kill_task(pid) PROVE ResumeInv'
  <2>1. PICK c \in 1 .. Len(Queue) :
               /\ Queue[c] # current_task /\ live' = live \ {Queue[c]}
               /\ task' = [task EXCEPT ![Queue[c]] = Blank]
    BY <1>1, <1>5, KillList
  <2>2. current_task' = current_task /\ next_pid' = next_pid /\ ~wild'
    BY <1>5 DEF kill_task, Running
  <2>3. \A s \in live' : s \in live /\ task'[s] = task[s]
    BY <1>1, <2>1
  <2> QED BY <1>1, <1>2, <2>2, <2>3 DEF ResumeInv
<1>6. CASE schedule
  <2>1. /\ live' = live /\ current_task' \in live
        /\ task' = Saved(task) /\ Resume(current_task', Saved(task))
    BY <1>1, <1>6, ScheduleList
  <2>2. next_pid' = next_pid
    BY <1>6 DEF schedule
  <2>3. /\ Saved(task) \in [Slots -> Task]
        /\ \A s \in live : /\ task'[s].id = task[s].id
                           /\ task'[s].eip # "none"
    BY <1>1, <2>1, SavedIs
  <2>4. ~wild'
    BY <1>1, <2>1, <2>3, ResumeIs
  <2> QED BY <1>1, <1>2, <2>1, <2>2, <2>3, <2>4 DEF ResumeInv
<1>7. ASSUME NEW n \in 0 .. 2, set_scheduling_algorithm(n) PROVE ResumeInv'
  <2>1. UNCHANGED <<live, task, current_task, next_pid>> /\ ~wild'
    BY <1>7 DEF set_scheduling_algorithm, Running
  <2> QED BY <1>1, <1>2, <2>1 DEF ResumeInv
<1>8. CASE UNCHANGED vars
  BY <1>1, <1>2, <1>8 DEF ResumeInv, SwitchedTooEarly, vars, list
<1> QED BY <1>3, <1>4, <1>5, <1>6, <1>7, <1>8 DEF Next

LEMMA ResumeInvHolds ==
    {"kill_self", "algorithm_2"} \cap Permitted = {} => (Spec => []ResumeInv)
<1> SUFFICES ASSUME {"kill_self", "algorithm_2"} \cap Permitted = {}
             PROVE  Spec => []ResumeInv
  OBVIOUS
<1>1. Init => ResumeInv
  <2> SUFFICES ASSUME Init PROVE ResumeInv
    OBVIOUS
  <2>1. PICK s \in Slots, d \in Dirs :
               /\ live = {s} /\ current_task = s
               /\ task = [t \in Slots |->
                            IF t = s THEN [Blank EXCEPT !.id = 1, !.pd = d] ELSE Blank]
    BY DEF Init
  <2>2. task[s].id = 1
    BY <2>1 DEF Blank
  <2>3. next_pid = 2 /\ wild = FALSE /\ 2 \in 2 .. MaxPid + 1
    BY MaxPidAssumption DEF Init
  <2> QED BY <2>1, <2>2, <2>3, InitList DEF ResumeInv
<1>2. ResumeInv /\ [Next]_vars => ResumeInv'
  BY StepResume
<1> QED BY <1>1, <1>2, PTL DEF Spec

\* A task that does not run always has a place to resume at and a pid of its own,
\* whatever forks, starts and switches came before, and no switch but the one to a
\* child forked above its parent's priority goes to an eip that nobody has set.
THEOREM TasksResume ==
    {"kill_self", "algorithm_2"} \cap Permitted = {} => (Spec => []ResumeSound)
<1> SUFFICES ASSUME {"kill_self", "algorithm_2"} \cap Permitted = {}
             PROVE  Spec => []ResumeSound
  OBVIOUS
<1>1. ResumeInv => ResumeSound
  BY DEF ResumeInv, ResumeSound
<1> QED BY <1>1, ResumeInvHolds, PTL

-----------------------------------------------------------------------------
(* What a step may do to the order of the tasks.                           *)

LEMMA ListInvHolds ==
    {"kill_self", "algorithm_2"} \cap Permitted = {} => (Spec => []ListInv)
<1> SUFFICES ASSUME {"kill_self", "algorithm_2"} \cap Permitted = {}
             PROVE  Spec => []ListInv
  OBVIOUS
<1>1. Init => ListInv
  BY InitList
<1>2. ListInv /\ [Next]_vars => ListInv'
  BY StepList
<1> QED BY <1>1, <1>2, PTL DEF Spec

\* Under shortest job first preempt_task gives the processor to a new task of
\* higher priority at once, and to no other.
THEOREM TasksPreempt ==
    {"kill_self", "algorithm_2"} \cap Permitted = {} => (Spec => PreemptsByPriority)
<1> SUFFICES ASSUME {"kill_self", "algorithm_2"} \cap Permitted = {}
             PROVE  Spec => PreemptsByPriority
  OBVIOUS
<1> DEFINE A == \A t \in live' \ live : algorithm = 1 =>
                  /\ task'[t].avg <= task'[current_task'].avg
                  /\ current_task' # current_task =>
                        current_task' = t /\ task'[t].avg > task'[current_task].avg
<1>1. ListInv /\ [Next]_vars => [A]_vars
  <2> SUFFICES ASSUME ListInv, Next, NEW t \in live' \ live, algorithm = 1
               PROVE  /\ task'[t].avg <= task'[current_task'].avg
                      /\ current_task' # current_task =>
                            current_task' = t /\ task'[t].avg > task'[current_task].avg
    OBVIOUS
  <2>1. live' \subseteq live \/ \E s \in Slots, avg \in Priorities :
            start_task(s, avg) \/ \E d \in Dirs : fork_task(s, avg, d)
    <3>1. CASE exit_task
      BY <3>1 DEF exit_task
    <3>2. ASSUME NEW pid \in 1 .. MaxPid, kill_task(pid) PROVE live' \subseteq live
      BY <3>2 DEF kill_task
    <3>3. CASE schedule
      BY <3>3 DEF schedule
    <3>4. ASSUME NEW n \in 0 .. 2, set_scheduling_algorithm(n) PROVE live' \subseteq live
      BY <3>4 DEF set_scheduling_algorithm
    <3> QED BY <3>1, <3>2, <3>3, <3>4 DEF Next
  <2>2. PICK s \in Slots, avg \in Priorities :
            start_task(s, avg) \/ \E d \in Dirs : fork_task(s, avg, d)
    BY <2>1
  <2>3. Added(s, avg)
    BY <2>2, StartAdds, ForkAdds
  <2>4. t = s
    BY <2>3 DEF Added
  <2>5. /\ task'[t].avg = avg /\ avg \in Nat /\ current_task \in Slots \ {t}
        /\ current_task' = IF Outranks(avg) THEN t ELSE current_task
        /\ task'[current_task].avg = task[current_task].avg
        /\ task[current_task].avg \in Nat
    BY <2>3, <2>4 DEF Added, ListInv, TypeOK, Task
  <2>6. Outranks(avg) <=> avg > task[current_task].avg
    BY DEF Outranks
  <2> QED BY <2>5, <2>6
<1>2. Spec => []ListInv
  BY ListInvHolds
<1> QED BY <1>1, <1>2, PTL DEF Spec, PreemptsByPriority

\* sjf_arrange sorts: when the last task of the list gives way under shortest
\* job first, the same tasks are in the list after it, those of higher priority
\* first, for any number of tasks in any order.
THEOREM TasksAreSorted ==
    {"kill_self", "algorithm_2"} \cap Permitted = {} => (Spec => ArrangeSorts)
<1> SUFFICES ASSUME {"kill_self", "algorithm_2"} \cap Permitted = {}
             PROVE  Spec => ArrangeSorts
  OBVIOUS
<1> DEFINE A == schedule /\ next[current_task] = NULL /\ algorithm = 1 =>
                  Descending(Queue', task) /\ ToSet(Queue') = ToSet(Queue)
<1>1. ListInv => [A]_vars
  <2> SUFFICES ASSUME ListInv, schedule, next[current_task] = NULL, algorithm = 1
               PROVE  Descending(Queue', task) /\ ToSet(Queue') = ToSet(Queue)
    OBVIOUS
  <2>1. GoodList /\ live' = live /\ SortedBehind(Queue', 0)
    BY ScheduleList
  <2>2. ToSet(Queue') = ToSet(Queue)
    BY <2>1 DEF GoodList, ListInv
  <2>3. DOMAIN Queue' = 1 .. Len(Queue') /\ \A j \in 1 .. Len(Queue') : 0 < j
    BY <2>1, ListFacts DEF GoodList
  <2>4. Descending(Queue', task)
    BY <2>1, <2>3 DEF SortedBehind, Descending, Avg
  <2> QED BY <2>2, <2>4
<1>2. Spec => []ListInv
  BY ListInvHolds
<1> QED BY <1>1, <1>2, PTL DEF Spec, ArrangeSorts

-----------------------------------------------------------------------------
(* The linked list implements the run queue.                               *)

\* The pids of the tasks in q.
Ids(q, tasks) == [i \in DOMAIN q |-> tasks[q[i]].id]
Pids == Ids(Queue, task)

LEMMA IdsAre ==
    ASSUME NEW q \in Seq(Slots), NEW tasks \in [Slots -> Task]
    PROVE  /\ Ids(q, tasks) \in Seq(Nat) /\ Len(Ids(q, tasks)) = Len(q)
           /\ DOMAIN Ids(q, tasks) = 1 .. Len(q)
           /\ \A i \in 1 .. Len(q) : Ids(q, tasks)[i] = tasks[q[i]].id
<1>1. \A i \in 1 .. Len(q) : tasks[q[i]].id \in Nat
  BY DEF Task
<1>2. Len(q) \in Nat /\ DOMAIN q = 1 .. Len(q)
  OBVIOUS
<1>3. Ids(q, tasks) \in [1 .. Len(q) -> Nat]
  BY <1>1, <1>2 DEF Ids
<1> QED BY <1>2, <1>3 DEF Ids

LEMMA IdsInserted ==
    ASSUME NEW q \in Seq(Slots), NEW tasks \in [Slots -> Task], NEW tasks2 \in [Slots -> Task],
           NEW t \in Slots, NEW i \in 1 .. Len(q) + 1,
           \A k \in 1 .. Len(q) : tasks2[q[k]].id = tasks[q[k]].id
    PROVE  Ids(InsertAt(q, i, t), tasks2) = InsertAt(Ids(q, tasks), i, tasks2[t].id)
<1> DEFINE r == InsertAt(q, i, t)
           p == Ids(q, tasks)
           id == tasks2[t].id
           n == Len(q)
<1>1. n \in Nat /\ i \in 1 .. n + 1 /\ id \in Nat
  BY DEF Task
<1>2. /\ p \in Seq(Nat) /\ Len(p) = n /\ \A k \in 1 .. n : p[k] = tasks[q[k]].id
  BY IdsAre
<1>3. /\ r \in Seq(Slots) /\ Len(r) = n + 1
      /\ \A k \in 1 .. n + 1 : r[k] = IF k < i THEN q[k] ELSE IF k = i THEN t ELSE q[k - 1]
  <2> HIDE DEF r, p, n, id
  <2>1. /\ InsertAt(q, i, t) \in Seq(Slots) /\ Len(InsertAt(q, i, t)) = Len(q) + 1
        /\ \A k \in 1 .. Len(q) + 1 :
             InsertAt(q, i, t)[k] = IF k < i THEN q[k] ELSE IF k = i THEN t ELSE q[k - 1]
    BY InsertedAt
  <2> QED BY <2>1 DEF r, n
<1> HIDE DEF r, p, id
<1>4. /\ InsertAt(p, i, id) \in Seq(Nat) /\ Len(InsertAt(p, i, id)) = n + 1
      /\ \A k \in 1 .. n + 1 :
           InsertAt(p, i, id)[k] = IF k < i THEN p[k] ELSE IF k = i THEN id ELSE p[k - 1]
  <2>1. i \in 1 .. Len(p) + 1
    BY <1>1, <1>2
  <2> HIDE DEF n
  <2>2. /\ InsertAt(p, i, id) \in Seq(Nat) /\ Len(InsertAt(p, i, id)) = Len(p) + 1
        /\ \A k \in 1 .. Len(p) + 1 :
             InsertAt(p, i, id)[k] = IF k < i THEN p[k] ELSE IF k = i THEN id ELSE p[k - 1]
    <3>1. p \in Seq(Nat) /\ id \in Nat
      BY <1>1, <1>2
    <3> QED BY <2>1, <3>1, InsertedAt
  <2> QED BY <1>2, <2>2
<1>5. /\ Ids(r, tasks2) \in Seq(Nat) /\ Len(Ids(r, tasks2)) = n + 1
      /\ \A k \in 1 .. n + 1 : Ids(r, tasks2)[k] = tasks2[r[k]].id
  BY <1>3, IdsAre
<1> HIDE DEF n
<1>6. ASSUME NEW k \in 1 .. n + 1 PROVE Ids(r, tasks2)[k] = InsertAt(p, i, id)[k]
  <2>1. CASE k < i
    <3>1. k \in 1 .. n
      BY <1>1, <2>1
    <3>2. tasks2[q[k]].id = tasks[q[k]].id
      BY <3>1 DEF n
    <3> QED BY <1>2, <1>3, <1>4, <1>5, <2>1, <3>1, <3>2
  <2>2. CASE k = i
    <3>1. ~(k < i)
      BY <1>1, <2>2
    <3> QED BY <1>3, <1>4, <1>5, <2>2, <3>1 DEF id
  <2>3. CASE k > i
    <3>1. k - 1 \in 1 .. n /\ ~(k < i) /\ k # i
      BY <1>1, <2>3
    <3>2. tasks2[q[k - 1]].id = tasks[q[k - 1]].id
      BY <3>1 DEF n
    <3> QED BY <1>2, <1>3, <1>4, <1>5, <3>1, <3>2
  <2> QED BY <1>1, <2>1, <2>2, <2>3
<1>7. Ids(r, tasks2) = InsertAt(p, i, id)
  BY <1>4, <1>5, <1>6
<1> QED BY <1>7 DEF r, p, id

LEMMA IdsRemoved ==
    ASSUME NEW q \in Seq(Slots), NEW tasks \in [Slots -> Task], NEW tasks2 \in [Slots -> Task],
           NEW i \in 1 .. Len(q),
           \A k \in 1 .. Len(q) : k # i => tasks2[q[k]].id = tasks[q[k]].id
    PROVE  Ids(RemoveAt(q, i), tasks2) = RemoveAt(Ids(q, tasks), i)
<1> DEFINE r == RemoveAt(q, i)
           p == Ids(q, tasks)
           n == Len(q)
<1>1. n \in Nat /\ i \in 1 .. n
  OBVIOUS
<1>2. /\ p \in Seq(Nat) /\ Len(p) = n /\ DOMAIN p = 1 .. n
      /\ \A k \in 1 .. n : p[k] = tasks[q[k]].id
  BY IdsAre
<1>3. /\ r \in Seq(Slots) /\ Len(r) = n - 1
      /\ \A k \in 1 .. n - 1 : r[k] = IF k < i THEN q[k] ELSE q[k + 1]
  <2>1. i \in DOMAIN q
    OBVIOUS
  <2> HIDE DEF r, p, n
  <2>2. /\ RemoveAt(q, i) \in Seq(Slots) /\ Len(RemoveAt(q, i)) = Len(q) - 1
        /\ \A k \in 1 .. Len(q) - 1 :
              RemoveAt(q, i)[k] = IF k < i THEN q[k] ELSE q[k + 1]
    BY <2>1, RemovedAt
  <2> QED BY <2>2 DEF r, n
<1> HIDE DEF r, p
<1>4. /\ RemoveAt(p, i) \in Seq(Nat) /\ Len(RemoveAt(p, i)) = n - 1
      /\ \A k \in 1 .. n - 1 : RemoveAt(p, i)[k] = IF k < i THEN p[k] ELSE p[k + 1]
  <2>1. i \in DOMAIN p
    BY <1>1, <1>2
  <2> HIDE DEF n
  <2>2. /\ RemoveAt(p, i) \in Seq(Nat) /\ Len(RemoveAt(p, i)) = Len(p) - 1
        /\ \A k \in 1 .. Len(p) - 1 :
              RemoveAt(p, i)[k] = IF k < i THEN p[k] ELSE p[k + 1]
    BY <1>2, <2>1, RemovedAt
  <2> QED BY <1>2, <2>2
<1>5. /\ Ids(r, tasks2) \in Seq(Nat) /\ Len(Ids(r, tasks2)) = n - 1
      /\ \A k \in 1 .. n - 1 : Ids(r, tasks2)[k] = tasks2[r[k]].id
  BY <1>3, IdsAre
<1> HIDE DEF n
<1>6. ASSUME NEW k \in 1 .. n - 1 PROVE Ids(r, tasks2)[k] = RemoveAt(p, i)[k]
  <2>1. CASE k < i
    <3>1. k \in 1 .. n /\ k # i
      BY <1>1, <2>1
    <3>2. tasks2[q[k]].id = tasks[q[k]].id
      BY <3>1 DEF n
    <3> QED BY <1>2, <1>3, <1>4, <1>5, <2>1, <3>1, <3>2
  <2>2. CASE ~(k < i)
    <3>1. k + 1 \in 1 .. n /\ k + 1 # i
      BY <1>1, <2>2
    <3>2. tasks2[q[k + 1]].id = tasks[q[k + 1]].id
      BY <3>1 DEF n
    <3> QED BY <1>2, <1>3, <1>4, <1>5, <2>2, <3>1, <3>2
  <2> QED BY <2>1, <2>2
<1>7. Ids(r, tasks2) = RemoveAt(p, i)
  BY <1>4, <1>5, <1>6
<1> QED BY <1>7 DEF r, p

\* In a queue of tasks with pids of their own the abstract successor is the pid
\* of the next task.
LEMMA SuccessorIs ==
    ASSUME NEW q \in Seq(Slots), NEW tasks \in [Slots -> Task], NEW c \in 1 .. Len(q),
           \A i, j \in 1 .. Len(q) : tasks[q[i]].id = tasks[q[j]].id => i = j
    PROVE  Abstract!Successor(Ids(q, tasks), tasks[q[c]].id) =
             IF c = Len(q) THEN tasks[q[1]].id ELSE tasks[q[c + 1]].id
<1> DEFINE p == Ids(q, tasks)
           x == tasks[q[c]].id
           k == CHOOSE j \in DOMAIN p : p[j] = x
<1>1. /\ Len(p) = Len(q) /\ DOMAIN p = 1 .. Len(q) /\ Len(q) \in Nat
      /\ \A i \in 1 .. Len(q) : p[i] = tasks[q[i]].id
  BY IdsAre
<1> HIDE DEF p
<1>2. k = c
  BY <1>1
<1>3. Abstract!Successor(p, x) = IF k = Len(p) THEN p[1] ELSE p[k + 1]
  BY DEF Abstract!Successor
<1> HIDE DEF k
<1>4. 1 \in 1 .. Len(q) /\ (c # Len(q) => c + 1 \in 1 .. Len(q))
  <2>1. Len(q) \in Nat
    BY <1>1
  <2> QED BY <2>1
<1>5. Abstract!Successor(p, x) = IF c = Len(q) THEN tasks[q[1]].id ELSE tasks[q[c + 1]].id
  BY <1>1, <1>2, <1>3, <1>4
<1> QED BY <1>5 DEF p

Pid == task[current_task].id

\* The steps of RunQueue on the pids.
LEMMA AbstractStart ==
    ASSUME next_pid \in Nat, next_pid <= MaxPid, next_pid' = next_pid + 1,
           NEW i \in 1 .. Len(Pids) + 1, Pids' = InsertAt(Pids, i, next_pid),
           \/ Pid' = Pid
           \/ i <= Len(Pids) /\ Pids[i] = Pid /\ Pid' = next_pid
    PROVE  Abstract!Start
<1>1. next_pid' - 1 = (next_pid - 1) + 1 /\ next_pid' - 1 = next_pid /\ next_pid - 1 < MaxPid
  BY MaxPidAssumption
<1>2. Abstract!InsertAt(Pids, i, next_pid) = InsertAt(Pids, i, next_pid)
  BY DEF Abstract!InsertAt, InsertAt
<1> QED BY <1>1, <1>2 DEF Abstract!Start, Pids, Ids, Pid

LEMMA AbstractExit ==
    ASSUME next_pid' = next_pid, Len(Pids) > 1, Pid' = Abstract!Successor(Pids, Pid),
           NEW i \in DOMAIN Pids, Pids[i] = Pid, Pids' = RemoveAt(Pids, i)
    PROVE  Abstract!Exit
<1>1. Abstract!RemoveAt(Pids, i) = RemoveAt(Pids, i)
  BY DEF Abstract!RemoveAt, RemoveAt
<1>2. Abstract!Leaves(Pid)
  BY <1>1 DEF Abstract!Leaves, Pids, Ids, Pid
<1> QED BY <1>2 DEF Abstract!Exit, Pids, Ids, Pid

LEMMA AbstractKill ==
    ASSUME next_pid' = next_pid, Pid' = Pid,
           NEW i \in DOMAIN Pids, Pids[i] # Pid, Pids' = RemoveAt(Pids, i)
    PROVE  \E r \in Abstract!ToSet(Pids) : Abstract!Kill(r)
<1>1. Abstract!RemoveAt(Pids, i) = RemoveAt(Pids, i)
  BY DEF Abstract!RemoveAt, RemoveAt
<1>2. Abstract!Leaves(Pids[i])
  BY <1>1 DEF Abstract!Leaves, Pids, Ids
<1>3. Abstract!Kill(Pids[i])
  BY <1>2 DEF Abstract!Kill, Pids, Ids, Pid
<1>4. Pids[i] \in Abstract!ToSet(Pids)
  BY DEF Abstract!ToSet
<1> HIDE DEF Pids
<1> QED BY <1>3, <1>4 DEF Abstract!Kill, Abstract!Leaves

LEMMA AbstractYield ==
    ASSUME next_pid' = next_pid, Pid' = Abstract!Successor(Pids', Pid),
           Pids' = Pids \/ /\ Pids[Len(Pids)] = Pid
                           /\ Pids' \in [1 .. Len(Pids) -> ToSet(Pids)]
                           /\ ToSet(Pids') = ToSet(Pids),
           Pids \in [1 .. Len(Pids) -> ToSet(Pids)]
    PROVE  Abstract!Yield
<1>1. Abstract!ToSet(Pids) = ToSet(Pids) /\ Abstract!ToSet(Pids') = ToSet(Pids')
  BY DEF Abstract!ToSet, ToSet
<1>2. Abstract!Rearranged(Pids) =
        IF Pids[Len(Pids)] = Pid
          THEN {r \in [1 .. Len(Pids) -> ToSet(Pids)] : Abstract!ToSet(r) = ToSet(Pids)}
          ELSE {Pids}
  BY <1>1 DEF Abstract!Rearranged, Pid
<1>3. Pids' \in Abstract!Rearranged(Pids)
  <2> HIDE DEF Pids
  <2> QED BY <1>1, <1>2
<1> QED BY <1>3 DEF Abstract!Yield, Pids, Ids, Pid

LEMMA PidsAre ==
    ASSUME ResumeInv
    PROVE  /\ ListInv /\ Queue \in Seq(Slots) /\ task \in [Slots -> Task]
           /\ Len(Queue) \in Nat \ {0} /\ current_task \in live /\ live \subseteq Slots
           /\ \A i \in 1 .. Len(Queue) : Queue[i] \in live
           /\ \A i, j \in 1 .. Len(Queue) : Queue[i] = Queue[j] => i = j
           /\ \A i, j \in 1 .. Len(Queue) : task[Queue[i]].id = task[Queue[j]].id => i = j
           /\ \A t \in live : \E i \in 1 .. Len(Queue) : t = Queue[i]
           /\ Pids \in Seq(Nat) /\ Len(Pids) = Len(Queue) /\ DOMAIN Pids = 1 .. Len(Queue)
           /\ \A i \in 1 .. Len(Queue) : Pids[i] = task[Queue[i]].id
           /\ next_pid \in Nat
<1>1. /\ ListInv /\ Queue \in Seq(Slots) /\ task \in [Slots -> Task]
      /\ Len(Queue) \in Nat \ {0} /\ current_task \in live /\ live \subseteq Slots
      /\ \A i \in 1 .. Len(Queue) : Queue[i] \in live
      /\ \A i, j \in 1 .. Len(Queue) : Queue[i] = Queue[j] => i = j
      /\ \A t \in live : \E i \in 1 .. Len(Queue) : t = Queue[i]
      /\ next_pid \in Nat
  BY QueueFacts DEF ResumeInv, ListInv, TypeOK
<1>2. \A s, t \in live : task[s].id = task[t].id => s = t
  BY DEF ResumeInv
<1>3. /\ Pids \in Seq(Nat) /\ Len(Pids) = Len(Queue) /\ DOMAIN Pids = 1 .. Len(Queue)
      /\ \A i \in 1 .. Len(Queue) : Pids[i] = task[Queue[i]].id
  BY <1>1, IdsAre DEF Pids
<1>4. \A i, j \in 1 .. Len(Queue) : task[Queue[i]].id = task[Queue[j]].id => i = j
  BY <1>1, <1>2
<1> QED BY <1>1, <1>3, <1>4

LEMMA StartStep ==
    ASSUME ResumeInv, NEW t \in Slots, NEW avg, Added(t, avg)
    PROVE  Abstract!Start
<1>1. PICK i \in 1 .. Len(Queue) + 1 :
             /\ Queue' = InsertAt(Queue, i, t)
             /\ Outranks(avg) => i <= Len(Queue) /\ Queue[i] = current_task
  BY PidsAre, AddedList
<1>2. /\ task' \in [Slots -> Task] /\ t \notin live /\ task'[t].id = next_pid
      /\ next_pid' = next_pid + 1 /\ next_pid <= MaxPid
      /\ \A s \in Slots \ {t} : task'[s].id = task[s].id
      /\ current_task' = IF Outranks(avg) THEN t ELSE current_task
  BY DEF Added
<1>3. Pids' = InsertAt(Pids, i, next_pid)
  <2>1. \A k \in 1 .. Len(Queue) : task'[Queue[k]].id = task[Queue[k]].id
    BY <1>2, PidsAre
  <2>2. Queue \in Seq(Slots) /\ task \in [Slots -> Task] /\ task' \in [Slots -> Task]
    BY <1>2, PidsAre
  <2>3. Ids(InsertAt(Queue, i, t), task') = InsertAt(Ids(Queue, task), i, task'[t].id)
    BY <2>1, <2>2, IdsInserted
  <2> QED BY <1>1, <1>2, <2>3 DEF Pids
<1>4. \/ Pid' = Pid
      \/ i <= Len(Pids) /\ Pids[i] = Pid /\ Pid' = next_pid
  <2>1. CASE Outranks(avg)
    <3>1. i \in 1 .. Len(Queue) /\ Queue[i] = current_task
      BY <1>1, <2>1, PidsAre
    <3>2. i <= Len(Pids) /\ Pids[i] = Pid
      BY <3>1, PidsAre DEF Pid
    <3> QED BY <1>2, <2>1, <3>2 DEF Pid
  <2>2. CASE ~Outranks(avg)
    BY <1>2, <2>2, PidsAre DEF Pid
  <2> QED BY <2>1, <2>2
<1>5. next_pid \in Nat /\ i \in 1 .. Len(Pids) + 1
  BY PidsAre
<1> QED BY <1>2, <1>3, <1>4, <1>5, AbstractStart

LEMMA ExitStep ==
    ASSUME ResumeInv, exit_task
    PROVE  Abstract!Exit
<1>1. ListInv /\ Len(Queue) \in Nat /\ task \in [Slots -> Task] /\ live \subseteq Slots
  BY PidsAre
<1>2. PICK c \in 1 .. Len(Queue) :
             /\ Queue[c] = current_task /\ Queue' = RemoveAt(Queue, c)
             /\ current_task' = IF c = Len(Queue) THEN Queue[1] ELSE Queue[c + 1]
  BY <1>1, ExitList
<1>3. Len(Queue) > 1 /\ current_task' \in live /\ current_task' # current_task
  BY <1>1, ExitList
<1>4. task' = [task EXCEPT ![current_task] = Blank] /\ next_pid' = next_pid
  BY DEF exit_task
<1>5. task' \in [Slots -> Task]
  BY <1>1, <1>4 DEF Blank, Task, Eip
<1>6. \A k \in 1 .. Len(Queue) : k # c => task'[Queue[k]].id = task[Queue[k]].id
  BY <1>2, <1>4, PidsAre
<1>7. Pids' = RemoveAt(Pids, c)
  <2>1. Queue \in Seq(Slots)
    BY PidsAre
  <2>2. Ids(RemoveAt(Queue, c), task') = RemoveAt(Ids(Queue, task), c)
    BY <1>1, <1>5, <1>6, <2>1, IdsRemoved
  <2> QED BY <1>2, <2>2 DEF Pids
<1>8. Pid' = Abstract!Successor(Pids, Pid)
  <2>1. /\ \A i, j \in 1 .. Len(Queue) : task[Queue[i]].id = task[Queue[j]].id => i = j
        /\ Queue \in Seq(Slots)
    BY PidsAre
  <2>2. Abstract!Successor(Ids(Queue, task), task[Queue[c]].id) =
          IF c = Len(Queue) THEN task[Queue[1]].id ELSE task[Queue[c + 1]].id
    BY <1>1, <2>1, SuccessorIs
  <2>3. task'[current_task'].id = task[current_task'].id
    BY <1>1, <1>3, <1>4
  <2> QED BY <1>2, <2>2, <2>3 DEF Pids, Pid
<1>9. c \in DOMAIN Pids /\ Pids[c] = Pid /\ Len(Pids) > 1
  BY <1>2, <1>3, PidsAre DEF Pid
<1> QED BY <1>4, <1>7, <1>8, <1>9, AbstractExit

LEMMA KillStep ==
    ASSUME ResumeInv, NEW pid, kill_task(pid), "kill_self" \notin Permitted
    PROVE  \E r \in Abstract!ToSet(Pids) : Abstract!Kill(r)
<1>1. ListInv /\ Len(Queue) \in Nat /\ task \in [Slots -> Task] /\ live \subseteq Slots
      /\ current_task \in live
  BY PidsAre
<1>2. PICK c \in 1 .. Len(Queue) :
             /\ Queue[c] # current_task /\ Queue' = RemoveAt(Queue, c)
             /\ task' = [task EXCEPT ![Queue[c]] = Blank]
  BY <1>1, KillList
<1>3. current_task' = current_task /\ next_pid' = next_pid
  BY DEF kill_task
<1>4. task' \in [Slots -> Task]
  BY <1>1, <1>2 DEF Blank, Task, Eip
<1>5. \A k \in 1 .. Len(Queue) : k # c => task'[Queue[k]].id = task[Queue[k]].id
  BY <1>2, PidsAre
<1>6. Pids' = RemoveAt(Pids, c)
  <2>1. Queue \in Seq(Slots)
    BY PidsAre
  <2>2. Ids(RemoveAt(Queue, c), task') = RemoveAt(Ids(Queue, task), c)
    BY <1>1, <1>4, <1>5, <2>1, IdsRemoved
  <2> QED BY <1>2, <2>2 DEF Pids
<1>7. c \in DOMAIN Pids /\ Pids[c] = task[Queue[c]].id /\ Queue[c] \in live
  BY PidsAre
<1>8. Pids[c] # Pid
  BY <1>1, <1>2, <1>7 DEF ResumeInv, Pid
<1>9. Pid' = Pid
  BY <1>1, <1>2, <1>3, <1>7 DEF Pid
<1> QED BY <1>3, <1>6, <1>7, <1>8, <1>9, AbstractKill

LEMMA ScheduleStep ==
    ASSUME ResumeInv, schedule
    PROVE  Abstract!Yield
<1>1. ListInv /\ Len(Queue) \in Nat \ {0} /\ task \in [Slots -> Task] /\ live \subseteq Slots
      /\ current_task \in live
  BY PidsAre
<1>2. /\ GoodList /\ live' = live /\ Len(Queue') = Len(Queue)
      /\ IF next[current_task] = NULL /\ algorithm = 1
           THEN SortedBehind(Queue', 0) ELSE Queue' = Queue
      /\ task' = Saved(task) /\ current_task' \in live
  BY <1>1, ScheduleList
<1>3. PICK c \in 1 .. Len(Queue') :
             /\ Queue'[c] = current_task
             /\ current_task' = IF c = Len(Queue') THEN Queue'[1] ELSE Queue'[c + 1]
  BY <1>1, ScheduleList
<1>4. next_pid' = next_pid
  BY DEF schedule
<1>5. task' \in [Slots -> Task] /\ \A s \in Slots : task'[s].id = task[s].id
  BY <1>1, <1>2, SavedIs
<1>6. /\ Queue' \in Seq(Slots) /\ ToSet(Queue') = {Queue'[i] : i \in 1 .. Len(Queue)}
      /\ ToSet(Queue') = live
      /\ \A i, j \in 1 .. Len(Queue) : Queue'[i] = Queue'[j] => i = j
  <2>1. IsList(Queue', ready_queue', next') /\ ToSet(Queue') = live
    BY <1>2 DEF GoodList
  <2> QED BY <1>2, <2>1, ListFacts
<1>7. \A i \in 1 .. Len(Queue) : Queue'[i] \in live /\ Queue'[i] \in Slots
  BY <1>1, <1>6
<1>8. /\ Pids' \in Seq(Nat) /\ Len(Pids') = Len(Queue) /\ DOMAIN Pids' = 1 .. Len(Queue)
      /\ \A i \in 1 .. Len(Queue) : Pids'[i] = task[Queue'[i]].id
  <2>1. /\ Ids(Queue', task') \in Seq(Nat) /\ Len(Ids(Queue', task')) = Len(Queue')
        /\ DOMAIN Ids(Queue', task') = 1 .. Len(Queue')
        /\ \A i \in 1 .. Len(Queue') : Ids(Queue', task')[i] = task'[Queue'[i]].id
    BY <1>5, <1>6, IdsAre
  <2> QED BY <1>2, <1>5, <1>7, <2>1 DEF Pids
<1>9. Pid' = Abstract!Successor(Pids', Pid)
  <2>1. \A i, j \in 1 .. Len(Queue') : task'[Queue'[i]].id = task'[Queue'[j]].id => i = j
    BY <1>2, <1>5, <1>6, <1>7 DEF ResumeInv
  <2>2. Abstract!Successor(Ids(Queue', task'), task'[Queue'[c]].id) =
          IF c = Len(Queue') THEN task'[Queue'[1]].id ELSE task'[Queue'[c + 1]].id
    BY <1>5, <1>6, <2>1, SuccessorIs
  <2>3. task'[Queue'[c]].id = Pid
    BY <1>1, <1>3, <1>5 DEF Pid
  <2> QED BY <1>3, <2>2, <2>3 DEF Pids, Pid
<1>10. \A t \in live : \E i \in 1 .. Len(Queue) : t = Queue'[i]
  BY <1>6
<1>11. /\ \A i \in 1 .. Len(Queue) : Pids[i] = task[Queue[i]].id /\ Queue[i] \in live
       /\ \A t \in live : \E i \in 1 .. Len(Queue) : t = Queue[i]
       /\ Pids \in Seq(Nat) /\ Len(Pids) = Len(Queue) /\ DOMAIN Pids = 1 .. Len(Queue)
  BY PidsAre
<1>12. Pids \in [1 .. Len(Pids) -> ToSet(Pids)]
  BY <1>11 DEF ToSet
<1>13. CASE next[current_task] = NULL /\ algorithm = 1
  <2>1. current_task = Queue[Len(Queue)] /\ Len(Queue) \in 1 .. Len(Queue)
    <3>1. PICK i \in 1 .. Len(Queue) : current_task = Queue[i]
      BY <1>1, <1>11
    <3>2. \A k \in 1 .. Len(Queue) :
              Queue[k] # NULL /\ next[Queue[k]] = IF k = Len(Queue) THEN NULL ELSE Queue[k + 1]
      BY <1>1, QueueFacts
    <3>3. i # Len(Queue) => i + 1 \in 1 .. Len(Queue)
      BY <1>1
    <3>4. i = Len(Queue)
      BY <1>13, <3>1, <3>2, <3>3
    <3> QED BY <3>1, <3>4
  <2>2. Pids[Len(Pids)] = Pid
    BY <1>11, <2>1 DEF Pid
  <2>3. ToSet(Pids') = ToSet(Pids)
    <3>1. /\ ToSet(Pids) = {Pids[i] : i \in 1 .. Len(Queue)}
          /\ ToSet(Pids') = {Pids'[i] : i \in 1 .. Len(Queue)}
      BY <1>8, <1>11 DEF ToSet
    <3>2. ASSUME NEW i \in 1 .. Len(Queue) PROVE \E j \in 1 .. Len(Queue) : Pids[i] = Pids'[j]
      <4>1. PICK j \in 1 .. Len(Queue) : Queue[i] = Queue'[j]
        BY <1>10, <1>11
      <4>2. Pids[i] = Pids'[j]
        BY <1>8, <1>11, <4>1
      <4> QED BY <4>2
    <3>3. ASSUME NEW j \in 1 .. Len(Queue) PROVE \E i \in 1 .. Len(Queue) : Pids[i] = Pids'[j]
      <4>1. PICK i \in 1 .. Len(Queue) : Queue'[j] = Queue[i]
        BY <1>7, <1>11
      <4>2. Pids[i] = Pids'[j]
        BY <1>8, <1>11, <4>1
      <4> QED BY <4>2
    <3> QED BY <3>1, <3>2, <3>3
  <2>4. Pids' \in [1 .. Len(Pids) -> ToSet(Pids)]
    <3>1. \A i \in 1 .. Len(Queue) : Pids'[i] \in ToSet(Pids')
      BY <1>8 DEF ToSet
    <3> QED BY <1>8, <1>11, <2>3, <3>1
  <2> QED BY <1>4, <1>9, <1>12, <2>2, <2>3, <2>4, AbstractYield
<1>14. CASE ~(next[current_task] = NULL /\ algorithm = 1)
  <2>1. Queue' = Queue
    BY <1>2, <1>14
  <2>2. \A i \in 1 .. Len(Queue) : Pids'[i] = Pids[i]
    BY <1>8, <1>11, <2>1
  <2>3. Pids' = Pids
    BY <1>8, <1>11, <2>2
  <2> QED BY <1>4, <1>9, <1>12, <2>3, AbstractYield
<1> QED BY <1>13, <1>14

LEMMA QueueStep ==
    ResumeInv /\ [Next]_vars /\ {"kill_self", "algorithm_2"} \cap Permitted = {}
        => [Abstract!Next]_(Abstract!vars)
<1> SUFFICES ASSUME ResumeInv, [Next]_vars,
                    {"kill_self", "algorithm_2"} \cap Permitted = {}
             PROVE  [Abstract!Next]_(Abstract!vars)
  OBVIOUS
<1>1. ASSUME NEW t \in Slots, NEW avg \in Priorities,
             start_task(t, avg) \/ \E d \in Dirs : fork_task(t, avg, d)
      PROVE  Abstract!Next
  <2>1. Added(t, avg)
    BY <1>1, PidsAre, StartAdds, ForkAdds
  <2> QED BY <2>1, StartStep DEF Abstract!Next
<1>2. CASE exit_task
  BY <1>2, ExitStep DEF Abstract!Next
<1>3. ASSUME NEW pid \in 1 .. MaxPid, kill_task(pid) PROVE Abstract!Next
  BY <1>3, KillStep DEF Abstract!Next, Pids, Ids
<1>4. CASE schedule
  BY <1>4, ScheduleStep DEF Abstract!Next
<1>5. ASSUME UNCHANGED <<task, list, current_task, next_pid>> PROVE UNCHANGED (Abstract!vars)
  BY <1>5 DEF list, Queue, Abstract!vars
<1>6. ASSUME NEW m \in 0 .. 2, set_scheduling_algorithm(m) PROVE UNCHANGED (Abstract!vars)
  BY <1>5, <1>6 DEF set_scheduling_algorithm
<1>7. CASE UNCHANGED vars
  BY <1>5, <1>7 DEF vars
<1> QED BY <1>1, <1>2, <1>3, <1>4, <1>6, <1>7 DEF Next

\* The tasks linked by their next fields, whichever place preempt_task, exit_task,
\* kill_task and sjf_arrange give or take, are a queue of pids: each step of
\* task.c and schedule.c is one of the queue's or changes nothing in it.
THEOREM ListImplementsQueue ==
    {"kill_self", "algorithm_2"} \cap Permitted = {} => (Spec => ImplementsRunQueue)
<1> SUFFICES ASSUME {"kill_self", "algorithm_2"} \cap Permitted = {}
             PROVE  Spec => ImplementsRunQueue
  OBVIOUS
<1>1. Init => Abstract!Init
  <2> SUFFICES ASSUME Init PROVE Abstract!Init
    OBVIOUS
  <2>1. ListInv /\ Len(Queue) = 1
    BY InitList
  <2>2. Queue[1] = current_task /\ DOMAIN Queue = 1 .. 1
    <3>1. current_task \in live /\ \A t \in live : \E i \in 1 .. 1 : t = Queue[i]
      BY <2>1, QueueFacts DEF ListInv
    <3> QED BY <2>1, <3>1, QueueFacts
  <2>3. task[current_task].id = 1
    BY DEF Init, Blank
  <2>4. [i \in DOMAIN Queue |-> task[Queue[i]].id] = <<1>>
    BY <2>2, <2>3
  <2>5. next_pid - 1 = 1
    BY DEF Init
  <2> QED BY <2>3, <2>4, <2>5 DEF Abstract!Init
<1>2. ResumeInv /\ [Next]_vars => [Abstract!Next]_(Abstract!vars)
  BY QueueStep
<1>3. Spec => []ResumeInv
  BY ResumeInvHolds
<1> QED BY <1>1, <1>2, <1>3, PTL DEF Spec, ImplementsRunQueue, Abstract!Spec
=============================================================================
