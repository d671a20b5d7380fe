---------------------------- MODULE KheapProofs ----------------------------
(***************************************************************************)
(* The kernel heap: for any page size, any heap and any requests, chunks   *)
(* tile the heap, neighbouring holes are merged and legal calls return, in *)
(* the situations that the code handles.                                   *)
(***************************************************************************)
EXTENDS Kheap, TLAPS, SequenceTheorems, WellFoundedInduction

-----------------------------------------------------------------------------
(* Numbers and sequences.                                                  *)

LEMMA LeastNumber ==
    ASSUME NEW S \in SUBSET Nat, S # {}
    PROVE  \E m \in S : \A k \in S : m <= k
<1>1. PICK R : R = OpToRel(<, Nat)
  OBVIOUS
<1>2. IsWellFoundedOn(R, Nat)
  BY <1>1, NatLessThanWellFounded
<1>3. PICK m \in S : \A k \in S : ~(<<k, m>> \in R)
  BY <1>2, WFMin
<1>4. \A i, j \in Nat : i < j => <<i, j>> \in R
  BY <1>1 DEF OpToRel
<1>5. \A k \in S : ~(k < m)
  BY <1>3, <1>4
<1> QED BY <1>5

\* The sizes of the heap are far from the width at which they wrap.
LEMMA Sizes32 ==
    /\ {PAGE, W, START, HOLE, INITIAL_END, MAX} \subseteq Nat
    /\ PAGE >= 6 /\ START >= PAGE /\ MAX >= START + 6
    /\ HEAP_MAGIC \in 0 .. W - 1 /\ MAX < HEAP_MAGIC
    /\ W \div 2 \in Nat /\ MAX - START < W \div 2
    /\ {0, 1} \subseteq 0 .. W - 1 /\ HEAP_MAGIC # 0
BY LayoutAssumption DEF H, F, HEAP_MAGIC

LEMMA Unwrapped == \A x \in 0 .. W - 1 : x % W = x
BY Sizes32

\* Where the page of a word ends, and how far the heap grows.
LEMMA PageEnd ==
    ASSUME NEW a \in Nat
    PROVE  a % PAGE \in 0 .. PAGE - 1
BY Sizes32

LEMMA WholePages ==
    ASSUME NEW n \in Nat
    PROVE  (n \div PAGE + 1) * PAGE \in Nat /\ (n \div PAGE + 1) * PAGE > n
<1>1. PAGE \in Nat /\ PAGE > 0
  BY Sizes32
<1>2. n = PAGE * (n \div PAGE) + (n % PAGE) /\ n % PAGE \in 0 .. PAGE - 1 /\ n \div PAGE \in Nat
  BY <1>1
<1> QED BY <1>1, <1>2

-----------------------------------------------------------------------------
(* The index as a sequence.                                                *)

Distinct(q) == \A i, j \in DOMAIN q : q[i] = q[j] => i = j

LEMMA RemovedAt ==
    ASSUME NEW S, NEW q \in Seq(S), NEW i \in DOMAIN q
    PROVE  /\ RemoveAt(q, i) \in Seq(S) /\ Len(RemoveAt(q, i)) = Len(q) - 1
           /\ \A k \in 1 .. Len(q) - 1 :
                 RemoveAt(q, i)[k] = IF k < i THEN q[k] ELSE q[k + 1]
<1> DEFINE n == Len(q)
           a == SubSeq(q, 1, i - 1)
           b == SubSeq(q, i + 1, n)
<1>1. n \in Nat /\ i \in 1 .. n /\ \A k \in 1 .. n : q[k] \in S
  OBVIOUS
<1>2. a \in Seq(S) /\ Len(a) = i - 1 /\ \A k \in 1 .. i - 1 : a[k] = q[k]
  BY <1>1
<1>3. b \in Seq(S) /\ Len(b) = n - i /\ \A k \in 1 .. n - i : b[k] = q[i + k]
  BY <1>1
<1> HIDE DEF n, a, b
<1>4. /\ a \o b \in Seq(S) /\ Len(a \o b) = n - 1
      /\ \A k \in 1 .. n - 1 : (a \o b)[k] = IF k < i THEN a[k] ELSE b[k - i + 1]
  <2>1. /\ a \o b \in Seq(S) /\ Len(a \o b) = (i - 1) + (n - i)
        /\ \A k \in 1 .. (i - 1) + (n - i) :
              (a \o b)[k] = IF k <= i - 1 THEN a[k] ELSE b[k - (i - 1)]
    <3>1. /\ a \o b \in Seq(S) /\ Len(a \o b) = Len(a) + Len(b)
          /\ \A k \in 1 .. Len(a) + Len(b) :
                (a \o b)[k] = IF k <= Len(a) THEN a[k] ELSE b[k - Len(a)]
      BY <1>2, <1>3, ConcatProperties
    <3> QED BY <1>2, <1>3, <3>1
  <2>2. (i - 1) + (n - i) = n - 1
    BY <1>1
  <2>3. \A k \in 1 .. n - 1 : (k < i <=> k <= i - 1) /\ k - (i - 1) = k - i + 1
    BY <1>1
  <2> QED BY <2>1, <2>2, <2>3
<1>5. RemoveAt(q, i) = a \o b
  BY DEF RemoveAt, n, a, b
<1>6. ASSUME NEW k \in 1 .. n - 1
      PROVE  RemoveAt(q, i)[k] = IF k < i THEN q[k] ELSE q[k + 1]
  <2>1. CASE k < i
    BY <1>1, <1>2, <1>4, <1>5, <2>1
  <2>2. CASE ~(k < i)
    <3>1. k - i + 1 \in 1 .. n - i /\ i + (k - i + 1) = k + 1
      BY <1>1, <2>2
    <3> QED BY <1>3, <1>4, <1>5, <2>2, <3>1
  <2> QED BY <2>1, <2>2
<1> QED BY <1>4, <1>5, <1>6 DEF n

LEMMA InsertedAt ==
    ASSUME NEW S, NEW q \in Seq(S), NEW i \in 1 .. Len(q) + 1, NEW t \in S
    PROVE  /\ InsertAt(q, i, t) \in Seq(S) /\ Len(InsertAt(q, i, t)) = Len(q) + 1
           /\ \A k \in 1 .. Len(q) + 1 :
                 InsertAt(q, i, t)[k] = IF k < i THEN q[k] ELSE IF k = i THEN t ELSE q[k - 1]
<1> DEFINE n == Len(q)
           a == SubSeq(q, 1, i - 1)
           b == SubSeq(q, i, n)
           c == a \o <<t>>
<1>1. n \in Nat /\ i \in 1 .. n + 1 /\ \A k \in 1 .. n : q[k] \in S
  OBVIOUS
<1>2. a \in Seq(S) /\ Len(a) = i - 1 /\ \A k \in 1 .. i - 1 : a[k] = q[k]
  BY <1>1
<1>3. b \in Seq(S) /\ Len(b) = n - i + 1 /\ \A k \in 1 .. n - i + 1 : b[k] = q[i + k - 1]
  BY <1>1
<1>4. InsertAt(q, i, t) = c \o b
  BY DEF InsertAt
<1> HIDE DEF n, a, b
<1>5. /\ c \in Seq(S) /\ Len(c) = i
      /\ \A k \in 1 .. i : c[k] = IF k < i THEN q[k] ELSE t
  BY <1>1, <1>2
<1> HIDE DEF c
<1>6. /\ c \o b \in Seq(S) /\ Len(c \o b) = n + 1
      /\ \A k \in 1 .. n + 1 : (c \o b)[k] = IF k <= i THEN c[k] ELSE b[k - i]
  <2>1. /\ c \o b \in Seq(S) /\ Len(c \o b) = Len(c) + Len(b)
        /\ \A k \in 1 .. Len(c) + Len(b) :
              (c \o b)[k] = IF k <= Len(c) THEN c[k] ELSE b[k - Len(c)]
    BY <1>3, <1>5, ConcatProperties
  <2>2. Len(c) + Len(b) = n + 1
    BY <1>1, <1>3, <1>5
  <2> QED BY <1>5, <2>1, <2>2
<1>7. ASSUME NEW k \in 1 .. n + 1
      PROVE  (c \o b)[k] = IF k < i THEN q[k] ELSE IF k = i THEN t ELSE q[k - 1]
  <2>1. CASE k <= i
    BY <1>1, <1>5, <1>6, <2>1
  <2>2. CASE k > i
    <3>1. k - i \in 1 .. n - i + 1 /\ i + (k - i) - 1 = k - 1
      BY <1>1, <2>2
    <3> QED BY <1>1, <1>3, <1>6, <2>2, <3>1
  <2>3. k <= i \/ k > i
    BY <1>1
  <2> QED BY <2>1, <2>2, <2>3
<1> QED BY <1>4, <1>6, <1>7 DEF n

LEMMA RemovedEntry ==
    ASSUME NEW S, NEW q \in Seq(S), Distinct(q), NEW i \in DOMAIN q
    PROVE  /\ RemoveAt(q, i) \in Seq(S) /\ Distinct(RemoveAt(q, i))
           /\ ToSet(RemoveAt(q, i)) = ToSet(q) \ {q[i]}
<1> DEFINE r == RemoveAt(q, i)
           n == Len(q)
<1>1. /\ r \in Seq(S) /\ Len(r) = n - 1
      /\ \A k \in 1 .. n - 1 : r[k] = IF k < i THEN q[k] ELSE q[k + 1]
  BY RemovedAt
<1>2. n \in Nat /\ i \in 1 .. n /\ DOMAIN q = 1 .. n /\ DOMAIN r = 1 .. n - 1
  BY <1>1
<1> HIDE DEF r, n
<1>3. \A k, l \in 1 .. n : q[k] = q[l] => k = l
  BY <1>2 DEF Distinct
<1>4. ASSUME NEW k \in 1 .. n - 1, NEW l \in 1 .. n - 1, r[k] = r[l] PROVE k = l
  BY <1>1, <1>2, <1>3, <1>4
<1>5. ASSUME NEW x \in ToSet(r) PROVE x \in ToSet(q) \ {q[i]}
  <2>1. PICK k \in 1 .. n - 1 : x = r[k]
    BY <1>2 DEF ToSet
  <2>2. CASE k < i
    BY <1>1, <1>2, <1>3, <2>1, <2>2 DEF ToSet
  <2>3. CASE ~(k < i)
    <3>1. k + 1 \in 1 .. n /\ k + 1 # i /\ x = q[k + 1]
      BY <1>1, <1>2, <2>1, <2>3
    <3> QED BY <1>2, <1>3, <3>1 DEF ToSet
  <2> QED BY <2>2, <2>3
<1>6. ASSUME NEW x \in ToSet(q) \ {q[i]} PROVE x \in ToSet(r)
  <2>1. PICK k \in 1 .. n : x = q[k] /\ k # i
    BY <1>2 DEF ToSet
  <2>2. CASE k < i
    BY <1>1, <1>2, <2>1, <2>2 DEF ToSet
  <2>3. CASE k > i
    <3>1. k - 1 \in 1 .. n - 1 /\ ~(k - 1 < i) /\ k - 1 + 1 = k
      BY <1>2, <2>1, <2>3
    <3>2. r[k - 1] = x
      BY <1>1, <2>1, <3>1
    <3> QED BY <1>2, <3>1, <3>2 DEF ToSet
  <2> QED BY <1>2, <2>1, <2>2, <2>3
<1> QED BY <1>1, <1>2, <1>4, <1>5, <1>6 DEF r, Distinct

LEMMA InsertedEntry ==
    ASSUME NEW S, NEW q \in Seq(S), Distinct(q), NEW i \in 1 .. Len(q) + 1,
           NEW t \in S, t \notin ToSet(q)
    PROVE  /\ InsertAt(q, i, t) \in Seq(S) /\ Distinct(InsertAt(q, i, t))
           /\ ToSet(InsertAt(q, i, t)) = ToSet(q) \cup {t}
<1> DEFINE r == InsertAt(q, i, t)
           n == Len(q)
<1>1. /\ r \in Seq(S) /\ Len(r) = n + 1
      /\ \A k \in 1 .. n + 1 : r[k] = IF k < i THEN q[k] ELSE IF k = i THEN t ELSE q[k - 1]
  BY InsertedAt
<1>2. n \in Nat /\ i \in 1 .. n + 1 /\ DOMAIN q = 1 .. n /\ DOMAIN r = 1 .. n + 1
  BY <1>1
<1> HIDE DEF r, n
<1>3. /\ \A k, l \in 1 .. n : q[k] = q[l] => k = l
      /\ \A k \in 1 .. n : q[k] # t
  BY <1>2 DEF Distinct, ToSet
<1>4. ASSUME NEW k \in 1 .. n + 1, NEW l \in 1 .. n + 1, r[k] = r[l] PROVE k = l
  BY <1>1, <1>2, <1>3, <1>4
<1>5. ASSUME NEW x \in ToSet(r) PROVE x \in ToSet(q) \cup {t}
  <2>1. PICK k \in 1 .. n + 1 : x = r[k]
    BY <1>2 DEF ToSet
  <2>2. CASE k < i
    BY <1>1, <1>2, <2>1, <2>2 DEF ToSet
  <2>3. CASE k = i
    BY <1>1, <1>2, <2>1, <2>3
  <2>4. CASE k > i
    <3>1. k - 1 \in 1 .. n /\ x = q[k - 1]
      BY <1>1, <1>2, <2>1, <2>4
    <3> QED BY <1>2, <3>1 DEF ToSet
  <2> QED BY <1>2, <2>2, <2>3, <2>4
<1>6. ASSUME NEW x \in ToSet(q) PROVE x \in ToSet(r)
  <2>1. PICK k \in 1 .. n : x = q[k]
    BY <1>2 DEF ToSet
  <2>2. CASE k < i
    BY <1>1, <1>2, <2>1, <2>2 DEF ToSet
  <2>3. CASE k >= i
    <3>1. k + 1 \in 1 .. n + 1 /\ ~(k + 1 < i) /\ k + 1 # i /\ k + 1 - 1 = k
      BY <1>2, <2>1, <2>3
    <3>2. r[k + 1] = x
      BY <1>1, <2>1, <3>1
    <3> QED BY <1>2, <3>1, <3>2 DEF ToSet
  <2> QED BY <1>2, <2>1, <2>2, <2>3
<1>7. t \in ToSet(r)
  BY <1>1, <1>2 DEF ToSet
<1> QED BY <1>1, <1>2, <1>4, <1>5, <1>6, <1>7 DEF r, Distinct

-----------------------------------------------------------------------------
(* Words: what each store leaves.                                          *)

IsHeap(h) ==
    h \in [mem : [START .. h.end - 1 -> 0 .. W - 1], index : Seq(START .. MAX),
           end : START .. MAX, status : Status]
Ok(h) == IsHeap(h) /\ h.status = "ok"

\* g is h but for the words from a on, n of them.
Stores(g, h, a, n) ==
    /\ Ok(g) /\ g.index = h.index /\ g.end = h.end
    /\ \A x \in Int : x \notin a .. a + n - 1 => Word(g, x) = Word(h, x)

LEMMA HeapFacts ==
    ASSUME NEW h, Ok(h)
    PROVE  /\ h.end \in Nat /\ START <= h.end /\ h.end <= MAX /\ h.end < W
           /\ h.index \in Seq(START .. MAX) /\ h.status = "ok"
           /\ DOMAIN h.mem = START .. h.end - 1
           /\ \A x : Word(h, x) \in 0 .. W - 1
           /\ \A x \in Int : x < START \/ h.end <= x => Word(h, x) = 0
<1>1. /\ h.end \in START .. MAX /\ h.index \in Seq(START .. MAX) /\ h.status = "ok"
      /\ h.mem \in [START .. h.end - 1 -> 0 .. W - 1]
  BY DEF Ok, IsHeap
<1>2. START \in Nat /\ MAX \in Nat /\ W \in Nat /\ MAX < W - 2 /\ 0 \in 0 .. W - 1
  BY Sizes32 DEF HEAP_MAGIC
<1>3. DOMAIN h.mem = START .. h.end - 1 /\ \A x \in START .. h.end - 1 : h.mem[x] \in 0 .. W - 1
  BY <1>1
<1>4. \A x : Word(h, x) \in 0 .. W - 1
  BY <1>2, <1>3 DEF Word
<1>5. \A x \in Int : x < START \/ h.end <= x => Word(h, x) = 0
  BY <1>1, <1>2, <1>3 DEF Word
<1>6. h.end \in Nat /\ START <= h.end /\ h.end <= MAX /\ h.end < W
  BY <1>1, <1>2
<1> QED BY <1>1, <1>3, <1>4, <1>5, <1>6

LEMMA SizeFacts ==
    ASSUME NEW h, Ok(h) PROVE \A a : SizeAt(h, a) \in Nat /\ SizeAt(h, a) \in 0 .. W - 1
BY HeapFacts, Sizes32 DEF SizeAt

LEMMA StoreIs ==
    ASSUME NEW h, Ok(h), NEW a \in Int, NEW ws \in Seq(0 .. W - 1),
           START <= a, a + Len(ws) <= h.end
    PROVE  /\ Stores(Store(h, a, ws), h, a, Len(ws))
           /\ \A i \in 1 .. Len(ws) : Word(Store(h, a, ws), a + i - 1) = ws[i]
<1> DEFINE mem == [x \in DOMAIN h.mem |->
                     IF x \in a .. a + Len(ws) - 1 THEN ws[x - a + 1] ELSE h.mem[x]]
           g == [h EXCEPT !.mem = mem]
<1>1. Store(h, a, ws) = g
  BY DEF Store, Mapped, Ok
<1>2. DOMAIN h.mem = START .. h.end - 1 /\ START \in Int /\ h.end \in Int
  BY Sizes32 DEF Ok, IsHeap
<1>3. mem \in [START .. h.end - 1 -> 0 .. W - 1]
  <2> SUFFICES ASSUME NEW x \in START .. h.end - 1
               PROVE  mem[x] \in 0 .. W - 1
    BY <1>2
  <2>1. CASE x \in a .. a + Len(ws) - 1
    <3>1. x - a + 1 \in 1 .. Len(ws)
      BY <1>2, <2>1
    <3>2. \A i \in 1 .. Len(ws) : ws[i] \in 0 .. W - 1
      BY ElementOfSeq
    <3>3. mem[x] = ws[x - a + 1]
      BY <1>2, <2>1
    <3> QED BY <3>1, <3>2, <3>3
  <2>2. CASE x \notin a .. a + Len(ws) - 1
    BY <1>2, <2>2 DEF Ok, IsHeap
  <2> QED BY <2>1, <2>2
<1>4. DOMAIN mem = START .. h.end - 1
  BY <1>2
<1>5. ASSUME NEW x \in Int, x \notin a .. a + Len(ws) - 1
      PROVE  (IF x \in DOMAIN mem THEN mem[x] ELSE 0) = Word(h, x)
  BY <1>2, <1>4, <1>5 DEF Word
<1>6. ASSUME NEW i \in 1 .. Len(ws)
      PROVE  (IF a + i - 1 \in DOMAIN mem THEN mem[a + i - 1] ELSE 0) = ws[i]
  <2>1. a + i - 1 \in START .. h.end - 1 /\ a + i - 1 \in a .. a + Len(ws) - 1
    BY <1>2
  <2>2. a + i - 1 - a + 1 = i
    BY <1>2
  <2> QED BY <1>2, <1>4, <2>1, <2>2
<1> HIDE DEF mem
<1>7. /\ g \in [mem : [START .. h.end - 1 -> 0 .. W - 1], index : Seq(START .. MAX),
                end : START .. MAX, status : Status]
      /\ g.mem = mem /\ g.end = h.end /\ g.index = h.index /\ g.status = "ok"
  BY <1>3 DEF Ok, IsHeap
<1>8. Ok(g)
  BY <1>7 DEF Ok, IsHeap
<1>9. \A x : Word(g, x) = IF x \in DOMAIN mem THEN mem[x] ELSE 0
  BY <1>7 DEF Word
<1> HIDE DEF g
<1> QED BY <1>1, <1>5, <1>6, <1>7, <1>8, <1>9 DEF Stores

LEMMA HeaderIs ==
    ASSUME NEW h, Ok(h), NEW a \in Int, START <= a, a + H <= h.end,
           NEW hole \in {0, 1}, NEW sz \in 0 .. W - 1
    PROVE  /\ Stores(Header(h, a, hole, sz), h, a, H)
           /\ Word(Header(h, a, hole, sz), a) = HEAP_MAGIC
           /\ Word(Header(h, a, hole, sz), a + 1) = hole
           /\ SizeAt(Header(h, a, hole, sz), a) = sz
<1> DEFINE ws == <<HEAP_MAGIC, hole, sz>>
<1>1. ws \in Seq(0 .. W - 1) /\ Len(ws) = H /\ ws[1] = HEAP_MAGIC /\ ws[2] = hole /\ ws[3] = sz
  BY Sizes32 DEF H
<1>2. Header(h, a, hole, sz) = Store(h, a, ws)
  BY Unwrapped DEF Header
<1> HIDE DEF ws
<1>3. /\ Stores(Store(h, a, ws), h, a, H)
      /\ \A i \in 1 .. H : Word(Store(h, a, ws), a + i - 1) = ws[i]
  BY <1>1, StoreIs
<1>4. 1 \in 1 .. H /\ 2 \in 1 .. H /\ 3 \in 1 .. H /\ a + 1 - 1 = a /\ a + 2 - 1 = a + 1
      /\ a + 3 - 1 = a + 2
  BY DEF H
<1> QED BY <1>1, <1>2, <1>3, <1>4 DEF SizeAt

LEMMA FooterIs ==
    ASSUME NEW h, Ok(h), NEW a \in Int, START <= a, a + F <= h.end, NEW hd \in 0 .. W - 1
    PROVE  /\ Stores(Footer(h, a, hd), h, a, F)
           /\ Word(Footer(h, a, hd), a) = HEAP_MAGIC
           /\ Word(Footer(h, a, hd), a + 1) = hd
<1> DEFINE ws == <<HEAP_MAGIC, hd>>
<1>1. ws \in Seq(0 .. W - 1) /\ Len(ws) = F /\ ws[1] = HEAP_MAGIC /\ ws[2] = hd
  BY Sizes32 DEF F
<1>2. a \in 0 .. W - 1
  <2>1. h.end \in Nat /\ h.end < W
    BY HeapFacts
  <2>2. START \in Nat /\ W \in Nat
    BY Sizes32
  <2> QED BY <2>1, <2>2 DEF F
<1>3. Footer(h, a, hd) = Store(h, a, ws)
  BY <1>2, Unwrapped DEF Footer
<1> HIDE DEF ws
<1>4. /\ Stores(Store(h, a, ws), h, a, F)
      /\ \A i \in 1 .. F : Word(Store(h, a, ws), a + i - 1) = ws[i]
  BY <1>1, StoreIs
<1>5. 1 \in 1 .. F /\ 2 \in 1 .. F /\ a + 1 - 1 = a /\ a + 2 - 1 = a + 1
  BY DEF F
<1> QED BY <1>1, <1>3, <1>4, <1>5

LEMMA WordIs ==
    ASSUME NEW h, Ok(h), NEW a \in Int, START <= a, a + 1 <= h.end, NEW w \in 0 .. W - 1
    PROVE  Stores(Store(h, a, <<w>>), h, a, 1) /\ Word(Store(h, a, <<w>>), a) = w
<1> DEFINE ws == <<w>>
<1>1. ws \in Seq(0 .. W - 1) /\ Len(ws) = 1 /\ ws[1] = w
  OBVIOUS
<1> HIDE DEF ws
<1>2. /\ Stores(Store(h, a, ws), h, a, 1)
      /\ \A i \in 1 .. 1 : Word(Store(h, a, ws), a + i - 1) = ws[i]
  BY <1>1, StoreIs
<1>3. Word(Store(h, a, ws), a) = w
  BY <1>1, <1>2
<1> QED BY <1>2, <1>3 DEF ws

LEMMA ResizeIs ==
    ASSUME NEW h, Ok(h), NEW a \in Int, START <= a, a + H <= h.end, NEW sz \in 0 .. W - 1
    PROVE  Stores(Resize(h, a, sz), h, a + 2, 1) /\ SizeAt(Resize(h, a, sz), a) = sz
<1>1. Resize(h, a, sz) = Store(h, a + 2, <<sz>>)
  BY Unwrapped DEF Resize
<1>2. a + 2 \in Int /\ START <= a + 2 /\ a + 2 + 1 <= h.end
  BY Sizes32, HeapFacts DEF H
<1> QED BY <1>1, <1>2, WordIs DEF SizeAt

\* The index has an entry more or less; of the words, Delete takes the magic away.
LEMMA InsertIs ==
    ASSUME NEW h, Ok(h), NEW a \in START .. MAX, Distinct(h.index), a \notin ToSet(h.index)
    PROVE  /\ Ok(Insert(h, a)) /\ Insert(h, a).end = h.end
           /\ Distinct(Insert(h, a).index)
           /\ ToSet(Insert(h, a).index) = ToSet(h.index) \cup {a}
           /\ \A x : Word(Insert(h, a), x) = Word(h, x)
<1> DEFINE n == Len(h.index) + 1
           Good(i) == /\ i = n \/ ~header_t_less_than(h, h.index[i], a)
                      /\ \A k \in 1 .. i - 1 : header_t_less_than(h, h.index[k], a)
           place == CHOOSE i \in 1 .. n : Good(i)
           S == {i \in 1 .. n : i = n \/ ~header_t_less_than(h, h.index[i], a)}
<1>1. h.index \in Seq(START .. MAX) /\ n \in Nat /\ n >= 1
  BY DEF Ok, IsHeap
<1>2. S \in SUBSET Nat /\ S # {}
  BY <1>1
<1>3. PICK m \in S : \A k \in S : m <= k
  BY <1>2, LeastNumber
<1>4. Good(m) /\ m \in 1 .. n
  BY <1>1, <1>3
<1>5. place \in 1 .. Len(h.index) + 1
  BY <1>4
<1>6. Insert(h, a) = [h EXCEPT !.index = InsertAt(h.index, place, a)]
  BY DEF Insert, Ok
<1> HIDE DEF place, S, Good
<1>7. /\ InsertAt(h.index, place, a) \in Seq(START .. MAX)
      /\ Distinct(InsertAt(h.index, place, a))
      /\ ToSet(InsertAt(h.index, place, a)) = ToSet(h.index) \cup {a}
  <2>1. PICK q \in Seq(START .. MAX) : q = h.index
    BY <1>1
  <2>2. PICK i \in 1 .. Len(q) + 1 : i = place
    BY <1>5, <2>1
  <2>3. Distinct(q) /\ a \notin ToSet(q)
    BY <2>1
  <2>4. PICK S1 : S1 = START .. MAX
    OBVIOUS
  <2>5. q \in Seq(S1) /\ a \in S1
    BY <2>4
  <2>6. /\ InsertAt(q, i, a) \in Seq(S1) /\ Distinct(InsertAt(q, i, a))
        /\ ToSet(InsertAt(q, i, a)) = ToSet(q) \cup {a}
    BY <2>3, <2>5, InsertedEntry
  <2> QED BY <2>1, <2>2, <2>4, <2>6
<1>8. PICK q : q = InsertAt(h.index, place, a)
  OBVIOUS
<1>9. PICK g : g = [h EXCEPT !.index = q]
  OBVIOUS
<1>10. /\ g \in [mem : [START .. h.end - 1 -> 0 .. W - 1], index : Seq(START .. MAX),
                 end : START .. MAX, status : Status]
       /\ g.mem = h.mem /\ g.end = h.end /\ g.index = q /\ g.status = "ok"
  BY <1>7, <1>8, <1>9 DEF Ok, IsHeap
<1>11. Ok(g) /\ \A x : Word(g, x) = Word(h, x)
  BY <1>10 DEF Ok, IsHeap, Word
<1> QED BY <1>6, <1>7, <1>8, <1>9, <1>10, <1>11

Place(q, a) == CHOOSE i \in DOMAIN q : q[i] = a /\ \A k \in 1 .. i - 1 : q[k] # a

LEMMA DeleteIs ==
    ASSUME NEW h, Ok(h), NEW a \in ToSet(h.index), Distinct(h.index), a < h.end
    PROVE  /\ Ok(Delete(h, a)) /\ Delete(h, a).end = h.end
           /\ Distinct(Delete(h, a).index)
           /\ ToSet(Delete(h, a).index) = ToSet(h.index) \ {a}
           /\ Word(Delete(h, a), a) = 0
           /\ \A x \in Int : x # a => Word(Delete(h, a), x) = Word(h, x)
<1>1. h.index \in Seq(START .. MAX) /\ START \in Nat /\ MAX \in Nat /\ h.end \in Nat
  BY Sizes32 DEF Ok, IsHeap
<1>2. PICK m \in DOMAIN h.index : h.index[m] = a
  BY DEF ToSet
<1>3. DOMAIN h.index = 1 .. Len(h.index) /\ a \in START .. MAX
  BY <1>1, <1>2
<1>4. \A k \in 1 .. m - 1 : h.index[k] # a
  <2>1. \A k \in 1 .. m - 1 : k \in DOMAIN h.index /\ k # m
    BY <1>1, <1>3
  <2> QED BY <1>2, <2>1 DEF Distinct
<1>5. Place(h.index, a) \in DOMAIN h.index /\ h.index[Place(h.index, a)] = a
  BY <1>2, <1>4 DEF Place
<1>6. Delete(h, a) = [Store(h, a, <<0>>) EXCEPT !.index =
                        RemoveAt(Store(h, a, <<0>>).index, Place(Store(h, a, <<0>>).index, a))]
  BY DEF Delete, Ok, Place
<1>7. PICK s : s = Store(h, a, <<0>>)
  OBVIOUS
<1>8. Stores(s, h, a, 1) /\ Word(s, a) = 0
  <2>1. a \in Int /\ START <= a /\ a + 1 <= h.end /\ 0 \in 0 .. W - 1
    <3>1. 0 \in 0 .. W - 1
      BY Sizes32
    <3> QED BY <1>1, <1>3, <3>1
  <2> QED BY <1>7, <2>1, WordIs
<1>9. Delete(h, a) = [s EXCEPT !.index = RemoveAt(h.index, Place(h.index, a))]
  <2>1. s.index = h.index
    BY <1>8 DEF Stores
  <2> QED BY <1>6, <1>7, <2>1
<1>10. /\ RemoveAt(h.index, Place(h.index, a)) \in Seq(START .. MAX)
       /\ Distinct(RemoveAt(h.index, Place(h.index, a)))
       /\ ToSet(RemoveAt(h.index, Place(h.index, a))) = ToSet(h.index) \ {a}
  BY <1>1, <1>5, RemovedEntry
<1>11. PICK q : q = RemoveAt(h.index, Place(h.index, a))
  OBVIOUS
<1>12. PICK g : g = [s EXCEPT !.index = q]
  OBVIOUS
<1>13. /\ g \in [mem : [START .. s.end - 1 -> 0 .. W - 1], index : Seq(START .. MAX),
                 end : START .. MAX, status : Status]
       /\ g.mem = s.mem /\ g.end = s.end /\ g.index = q /\ g.status = "ok"
  BY <1>8, <1>10, <1>11, <1>12 DEF Stores, Ok, IsHeap
<1>14. Ok(g) /\ \A x : Word(g, x) = Word(s, x)
  BY <1>13 DEF Ok, IsHeap, Word
<1>15. \A x \in Int : x # a => Word(s, x) = Word(h, x)
  BY <1>3, <1>8, Sizes32 DEF Stores
<1> QED BY <1>8, <1>9, <1>10, <1>11, <1>12, <1>13, <1>14, <1>15 DEF Stores

-----------------------------------------------------------------------------
(* The chunks that the words of a heap describe.                           *)

Top(h, a) == a + SizeAt(h, a)
In(h, a, x) == a <= x /\ x < Top(h, a)
Cover(h, C, x) == \E a \in C : In(h, a, x)

Footed(h, a) == Word(h, Top(h, a) - F) = HEAP_MAGIC /\ Word(h, Top(h, a) - 1) = a

\* A last word is no magic: what stands before the gap is not taken for a footer.
Chunk(h, a) ==
    /\ START <= a /\ SizeAt(h, a) >= H + F /\ Top(h, a) <= h.end
    /\ Word(h, a) = HEAP_MAGIC /\ Word(h, Top(h, a) - 1) # HEAP_MAGIC

\* The holes Hs and the blocks Bs lie one behind the other, holes never next to each
\* other; a block has a footer, and outside of all chunks are zeros.
Layout(h, Hs, Bs) ==
    /\ Hs \cup Bs \subseteq Nat /\ Hs \cap Bs = {}
    /\ \A a \in Hs \cup Bs : Chunk(h, a)
    /\ \A a \in Hs : Word(h, a + 1) = 1
    /\ \A a \in Bs : Word(h, a + 1) = 0 /\ Footed(h, a)
    /\ \A a, b \in Hs \cup Bs : a < b => Top(h, a) <= b
    /\ \A a, b \in Hs : Top(h, a) # b
    /\ \A x \in Int : Word(h, x) = 0 \/ Cover(h, Hs \cup Bs, x)

\* The chunks in lo .. hi - 1, which they fill, give way to others that do.
Recuts(h, g, Hs, Bs, Hn, Bn, lo, hi) ==
    /\ Layout(h, Hs, Bs)
    /\ lo \in Hs \cup Bs /\ hi \in Int /\ hi <= h.end
    /\ \A x \in Int : x \notin lo .. hi - 1 => Word(g, x) = Word(h, x)
    /\ \A a \in Hs \cup Bs : Top(h, a) <= lo \/ hi <= a \/ (lo <= a /\ Top(h, a) <= hi)
    /\ \A x \in lo .. hi - 1 : Cover(h, Hs \cup Bs, x)
    /\ Hn \cup Bn \subseteq Nat /\ Hn \cap Bn = {}
    /\ \A a \in Int : a \notin lo .. hi - 1 => (a \in Hn <=> a \in Hs) /\ (a \in Bn <=> a \in Bs)
    /\ \A a \in Hn \cup Bn : a \in lo .. hi - 1 => Chunk(g, a) /\ Top(g, a) <= hi
    /\ \A a \in Hn : a \in lo .. hi - 1 =>
          Word(g, a + 1) = 1 /\ Top(g, a) \notin Hn
    /\ \A a \in Bn : a \in lo .. hi - 1 => Word(g, a + 1) = 0 /\ Footed(g, a)
    /\ \A a, b \in Hn \cup Bn : a \in lo .. hi - 1 /\ b \in lo .. hi - 1 /\ a < b => Top(g, a) <= b
    /\ lo \in Hn => \A a \in Hs : Top(h, a) # lo
    /\ \A x \in lo .. hi - 1 : Cover(g, Hn \cup Bn, x)

Refilled(h, g, Hs, Bs, Hn, Bn, lo, hi) ==
    /\ Layout(g, Hn, Bn)
    /\ \A x \in Int : Cover(g, Hn \cup Bn, x) <=> Cover(h, Hs \cup Bs, x)
    /\ \A a \in Hn \cup Bn : a \notin lo .. hi - 1 => SizeAt(g, a) = SizeAt(h, a)

LEMMA Recut ==
    ASSUME NEW h, NEW g, Ok(h), Ok(g), g.end = h.end,
           NEW Hs, NEW Bs, NEW Hn, NEW Bn, NEW lo, NEW hi, Recuts(h, g, Hs, Bs, Hn, Bn, lo, hi)
    PROVE  Refilled(h, g, Hs, Bs, Hn, Bn, lo, hi)
<1> DEFINE Cs == Hs \cup Bs
           Cn == Hn \cup Bn
           Out(a) == a \notin lo .. hi - 1
<1> USE DEF Recuts
<1>1. lo \in Nat /\ Cs \subseteq Nat /\ Cn \subseteq Nat
  BY DEF Layout
<1>2. \A a \in Cs : SizeAt(h, a) \in Nat /\ SizeAt(h, a) >= 5 /\ Chunk(h, a)
  <2>1. \A a \in Cs : Chunk(h, a)
    BY DEF Layout
  <2>2. \A a : SizeAt(h, a) \in Nat
    BY SizeFacts
  <2> QED BY <2>1, <2>2 DEF Chunk, H, F
<1>3. \A a : SizeAt(g, a) \in Nat
  BY SizeFacts
<1>4. ASSUME NEW a \in Cn, Out(a)
      PROVE  /\ a \in Cs /\ (a \in Hn <=> a \in Hs) /\ (a \in Bn <=> a \in Bs)
             /\ SizeAt(g, a) = SizeAt(h, a) /\ Top(g, a) = Top(h, a)
             /\ Top(h, a) <= lo \/ hi <= a
             /\ Word(g, a) = Word(h, a) /\ Word(g, a + 1) = Word(h, a + 1)
             /\ Word(g, Top(g, a) - 1) = Word(h, Top(h, a) - 1)
             /\ Word(g, Top(g, a) - F) = Word(h, Top(h, a) - F)
  <2>1. a \in Int /\ a \in Cs /\ (a \in Hn <=> a \in Hs) /\ (a \in Bn <=> a \in Bs)
    BY <1>1, <1>4
  <2>2. SizeAt(h, a) \in Nat /\ SizeAt(h, a) >= 5 /\ Top(h, a) = a + SizeAt(h, a)
    BY <1>2, <2>1 DEF Top
  <2>3. Top(h, a) <= lo \/ hi <= a
    BY <1>1, <1>4, <2>1, <2>2
  <2>4. \A x \in a .. a + SizeAt(h, a) - 1 : Word(g, x) = Word(h, x)
    BY <1>1, <2>1, <2>2, <2>3
  <2>5. SizeAt(g, a) = SizeAt(h, a)
    BY <2>1, <2>2, <2>4 DEF SizeAt
  <2>6. Top(g, a) = Top(h, a)
    BY <2>5 DEF Top
  <2>7. /\ a \in a .. a + SizeAt(h, a) - 1 /\ a + 1 \in a .. a + SizeAt(h, a) - 1
        /\ Top(h, a) - 1 \in a .. a + SizeAt(h, a) - 1
        /\ Top(h, a) - F \in a .. a + SizeAt(h, a) - 1
    BY <2>1, <2>2 DEF F
  <2> QED BY <2>1, <2>3, <2>4, <2>5, <2>6, <2>7
<1> HIDE DEF Out
<1>5. ASSUME NEW a \in Cs, a \notin lo .. hi - 1
      PROVE  a \in Cn /\ Out(a)
  BY <1>1, <1>5 DEF Out
<1>6. ASSUME NEW x \in Int
      PROVE  Cover(g, Cn, x) <=> Cover(h, Cs, x)
  <2>1. CASE x \in lo .. hi - 1
    BY <2>1
  <2>2. ASSUME x \notin lo .. hi - 1, NEW a \in Cn, In(g, a, x) PROVE In(h, a, x) /\ a \in Cs
    <3>1. CASE Out(a)
      BY <1>4, <2>2, <3>1 DEF In
    <3>2. CASE ~Out(a)
      <4>1. Top(g, a) <= hi /\ lo <= a /\ Top(g, a) \in Nat
        BY <1>1, <1>3, <3>2 DEF Out, Top
      <4> QED BY <1>1, <2>2, <4>1 DEF In
    <3> QED BY <3>1, <3>2
  <2>3. ASSUME x \notin lo .. hi - 1, NEW a \in Cs, In(h, a, x) PROVE In(g, a, x) /\ a \in Cn
    <3>1. CASE a \notin lo .. hi - 1
      <4>1. a \in Cn /\ Out(a)
        BY <1>5, <3>1
      <4> QED BY <1>4, <2>3, <4>1 DEF In
    <3>2. CASE a \in lo .. hi - 1
      <4>1. Top(h, a) <= hi /\ lo <= a /\ Top(h, a) \in Nat /\ a \in Nat
        BY <1>1, <1>2, <3>2 DEF Top
      <4> QED BY <1>1, <2>3, <4>1 DEF In
    <3> QED BY <3>1, <3>2
  <2> QED BY <2>1, <2>2, <2>3 DEF Cover
<1>7. \A a \in Cn : Chunk(g, a)
  <2> SUFFICES ASSUME NEW a \in Cn PROVE Chunk(g, a)
    OBVIOUS
  <2>1. CASE Out(a)
    BY <1>2, <1>4, <2>1 DEF Chunk
  <2> QED BY <2>1 DEF Out
<1>8. \A a \in Hn : Word(g, a + 1) = 1
  <2> SUFFICES ASSUME NEW a \in Hn PROVE Word(g, a + 1) = 1
    OBVIOUS
  <2>1. CASE Out(a)
    <3>1. a \in Hs /\ Word(g, a + 1) = Word(h, a + 1)
      BY <1>4, <2>1
    <3> QED BY <3>1 DEF Layout
  <2> QED BY <2>1 DEF Out
<1>9. \A a \in Bn : Word(g, a + 1) = 0 /\ Footed(g, a)
  <2> SUFFICES ASSUME NEW a \in Bn PROVE Word(g, a + 1) = 0 /\ Footed(g, a)
    OBVIOUS
  <2>1. CASE Out(a)
    <3>1. a \in Bs /\ Word(g, a + 1) = Word(h, a + 1) /\ (Footed(h, a) => Footed(g, a))
      BY <1>4, <2>1 DEF Footed
    <3> QED BY <3>1 DEF Layout
  <2> QED BY <2>1 DEF Out
<1>10. ASSUME NEW a \in Cn, NEW b \in Cn, a < b PROVE Top(g, a) <= b
  <2>1. a \in Nat /\ b \in Nat /\ SizeAt(g, a) \in Nat /\ Top(g, a) = a + SizeAt(g, a)
    BY <1>1, <1>3 DEF Top
  <2>2. CASE Out(a) /\ Out(b)
    <3>1. Top(g, a) = Top(h, a) /\ a \in Cs /\ b \in Cs
      BY <1>4, <2>2
    <3> QED BY <1>10, <3>1 DEF Layout
  <2>3. CASE Out(a) /\ ~Out(b)
    <3>1. /\ Top(h, a) <= lo \/ hi <= a
          /\ Top(g, a) = Top(h, a) /\ lo <= b /\ b < hi
      BY <1>1, <1>4, <2>1, <2>3 DEF Out
    <3> QED BY <1>1, <1>10, <2>1, <3>1
  <2>4. CASE ~Out(a) /\ Out(b)
    <3>1. Top(g, a) <= hi /\ lo <= a /\ (b < lo \/ hi <= b)
      BY <1>1, <2>1, <2>4 DEF Out
    <3> QED BY <1>1, <1>10, <2>1, <3>1
  <2>5. CASE ~Out(a) /\ ~Out(b)
    BY <1>10, <2>5 DEF Out
  <2> QED BY <2>2, <2>3, <2>4, <2>5
<1>12. ASSUME NEW a \in Hn, NEW b \in Hn, Top(g, a) = b PROVE FALSE
  <2>1. CASE Out(a)
    <3>1. /\ a \in Hs /\ Top(h, a) = b
          /\ Top(h, a) <= lo \/ hi <= a
      BY <1>4, <1>12, <2>1
    <3>2. Top(h, a) \in Nat /\ Top(h, a) > a /\ a \in Nat
      BY <1>1, <1>2, <3>1 DEF Top
    <3>3. CASE Out(b)
      <4>1. b \in Hs
        BY <1>4, <3>3
      <4> QED BY <3>1, <4>1 DEF Layout
    <3>4. CASE ~Out(b)
      <4>1. b = lo
        BY <1>1, <3>1, <3>2, <3>4 DEF Out
      <4> QED BY <3>1, <4>1
    <3> QED BY <3>3, <3>4
  <2>2. CASE ~Out(a)
    BY <1>12, <2>2 DEF Out
  <2> QED BY <2>1, <2>2
<1>13. ASSUME NEW x \in Int PROVE Word(g, x) = 0 \/ Cover(g, Cn, x)
  <2>1. CASE x \in lo .. hi - 1
    BY <2>1
  <2>2. CASE x \notin lo .. hi - 1
    BY <1>6, <2>2 DEF Layout
  <2> QED BY <2>1, <2>2
<1>14. Layout(g, Hn, Bn)
  BY <1>7, <1>8, <1>9, <1>10, <1>12, <1>13 DEF Layout
<1> QED BY <1>4, <1>6, <1>14 DEF Out, Refilled

-----------------------------------------------------------------------------
(* Carve.                                                                  *)

\* The second half of Carve: from at on the block, and behind it a hole of rest words.
Cut(f, at, sz, rest, end) ==
    LET block == Footer(Header(f, at, 0, sz + H + F), at + H + sz, at)
        behind == at + sz + H + F
        hdr == Header(block, behind, 1, rest)
        ftr == (behind + rest - F) % W
    IN  IF rest = 0 THEN block
        ELSE Insert(IF ftr < end THEN Footer(hdr, ftr, behind) ELSE hdr, behind)

Taken(hole, size) == IF hole - (size + H + F) < H + F THEN hole - (H + F) ELSE size

LEMMA CarveIs ==
    ASSUME NEW h, NEW pos, NEW size, NEW sz, sz = Taken(SizeAt(h, pos), size),
           NEW rest, rest = (SizeAt(h, pos) - (sz + H + F)) % W
    PROVE  Carve(h, pos, size, FALSE) =
             [heap |-> Cut(Delete(h, pos), pos, sz, rest, h.end), at |-> pos + H]
BY DEF Carve, Cut, Taken

BorderAfter(pos) == pos + PAGE - (pos % PAGE) - H
Result(g, at) == [heap |-> g, at |-> at + H]
FrontSize(pos) == PAGE - (pos % PAGE) - H
FrontHole(h, pos, at) == Footer(Header(h, pos, 1, at - pos), at - F, pos)
Behind(h, f, pos, sz) == (SizeAt(h, pos) - SizeAt(f, pos) - (sz + H + F)) % W

AlignedBlock(h, pos, sz, at, f) == Result(Cut(f, at, sz, Behind(h, f, pos, sz), h.end), at)

LEMMA AlignedIs ==
    ASSUME NEW h, NEW pos, NEW size
    PROVE  Carve(h, pos, size, TRUE) =
             AlignedBlock(h, pos, Taken(SizeAt(h, pos), size), BorderAfter(pos),
                          FrontHole(h, pos, BorderAfter(pos)))
BY DEF AlignedBlock, Result, Carve, Cut, Taken, BorderAfter, FrontHole, Behind

\* g is f with a block of n words at "at".
BlockAt(g, f, at, n) ==
    /\ Stores(g, f, at, n)
    /\ Word(g, at) = HEAP_MAGIC /\ Word(g, at + 1) = 0 /\ SizeAt(g, at) = n /\ Footed(g, at)

LEMMA BlockIs ==
    ASSUME NEW f, Ok(f), NEW at \in Int, START <= at, NEW sz \in Nat, at + sz + H + F <= f.end,
           NEW n, n = sz + H + F
    PROVE  BlockAt(Footer(Header(f, at, 0, n), at + H + sz, at), f, at, n)
<1>1. /\ f.end < W /\ n \in 0 .. W - 1 /\ at \in 0 .. W - 1 /\ f.end \in Nat
      /\ at + H <= f.end /\ W \in Nat
  <2>1. f.end \in Nat /\ f.end <= MAX /\ f.end < W
    BY HeapFacts
  <2>2. START \in Nat /\ W \in Nat
    BY Sizes32
  <2> QED BY <2>1, <2>2 DEF H, F
<1>2. PICK e : e = Header(f, at, 0, n)
  OBVIOUS
<1>3. /\ Stores(e, f, at, H)
      /\ Word(e, at) = HEAP_MAGIC /\ Word(e, at + 1) = 0 /\ SizeAt(e, at) = n
  BY <1>1, <1>2, HeaderIs
<1>4. Ok(e) /\ e.end = f.end /\ at + H + sz \in Int /\ START <= at + H + sz
      /\ at + H + sz + F <= e.end
  BY <1>1, <1>3, Sizes32 DEF Stores, H, F
<1>5. PICK g : g = Footer(e, at + H + sz, at)
  OBVIOUS
<1>6. /\ Stores(g, e, at + H + sz, F)
      /\ Word(g, at + H + sz) = HEAP_MAGIC /\ Word(g, at + H + sz + 1) = at
  BY <1>1, <1>4, <1>5, FooterIs
<1>7. \A x \in {at, at + 1, at + 2} : Word(g, x) = Word(e, x)
  BY <1>6 DEF Stores, H, F
<1>8. SizeAt(g, at) = n
  BY <1>3, <1>7 DEF SizeAt
<1>9. Top(g, at) - F = at + H + sz /\ Top(g, at) - 1 = at + H + sz + 1
  BY <1>8 DEF Top, H, F
<1>10. \A x \in Int : x \notin at .. at + n - 1 => Word(g, x) = Word(f, x)
  BY <1>3, <1>6 DEF Stores, H, F
<1> QED BY <1>2, <1>3, <1>5, <1>6, <1>7, <1>8, <1>9, <1>10 DEF Stores, Footed, BlockAt

LEMMA CutAll ==
    ASSUME NEW f, Ok(f), NEW at \in Int, START <= at, NEW sz \in Nat, at + sz + H + F <= f.end,
           NEW n, n = sz + H + F
    PROVE  BlockAt(Cut(f, at, sz, 0, f.end), f, at, n)
<1>1. Cut(f, at, sz, 0, f.end) = Footer(Header(f, at, 0, n), at + H + sz, at)
  BY DEF Cut
<1> QED BY <1>1, BlockIs

\* g is f with a block of n words at "at" and a hole of rest words behind it.
BlockAndHole(g, f, at, n, behind, rest) ==
    /\ Ok(g) /\ g.end = f.end /\ Distinct(g.index)
    /\ ToSet(g.index) = ToSet(f.index) \cup {behind}
    /\ \A x \in Int : x \notin at .. behind + rest - 1 => Word(g, x) = Word(f, x)
    /\ Word(g, at) = HEAP_MAGIC /\ Word(g, at + 1) = 0 /\ SizeAt(g, at) = n /\ Footed(g, at)
    /\ Word(g, behind) = HEAP_MAGIC /\ Word(g, behind + 1) = 1
    /\ SizeAt(g, behind) = rest /\ Footed(g, behind)

LEMMA CutSome ==
    ASSUME NEW f, Ok(f), NEW at \in Int, START <= at, NEW sz \in Nat, NEW n, n = sz + H + F,
           NEW behind, behind = at + n, NEW rest \in Nat, rest >= H + F,
           behind + rest <= f.end, Distinct(f.index), behind \notin ToSet(f.index)
    PROVE  BlockAndHole(Cut(f, at, sz, rest, f.end), f, at, n, behind, rest)
<1>1. /\ f.end < W /\ f.end \in Nat /\ f.end <= MAX /\ behind \in Nat /\ W \in Nat /\ MAX \in Nat
      /\ rest \in 0 .. W - 1 /\ behind \in 0 .. W - 1 /\ behind \in START .. MAX /\ rest # 0
      /\ behind + rest - F \in 0 .. W - 1 /\ behind + rest - F < f.end
      /\ at + sz + H + F <= f.end
  <2>1. f.end \in Nat /\ f.end <= MAX /\ f.end < W
    BY HeapFacts
  <2>2. START \in Nat /\ W \in Nat /\ MAX \in Nat
    BY Sizes32
  <2> QED BY <2>1, <2>2 DEF H, F
<1>3. (behind + rest - F) % W = behind + rest - F
  BY <1>1, Unwrapped
<1>4. PICK b : b = Footer(Header(f, at, 0, n), at + H + sz, at) /\ BlockAt(b, f, at, n)
  BY <1>1, BlockIs
<1>5. PICK e : e = Header(b, behind, 1, rest)
  OBVIOUS
<1>6. Ok(b) /\ b.end = f.end /\ b.index = f.index
  BY <1>4 DEF Stores, BlockAt
<1>7. /\ Stores(e, b, behind, H)
      /\ Word(e, behind) = HEAP_MAGIC /\ Word(e, behind + 1) = 1 /\ SizeAt(e, behind) = rest
  <2>1. behind \in Int /\ START <= behind /\ behind + H <= b.end
    BY <1>1, <1>6 DEF H, F
  <2> QED BY <1>1, <1>5, <1>6, <2>1, HeaderIs
<1>8. Ok(e) /\ e.end = f.end /\ e.index = f.index
  BY <1>6, <1>7 DEF Stores
<1>9. PICK i : i = Footer(e, behind + rest - F, behind)
  OBVIOUS
<1>10. /\ Stores(i, e, behind + rest - F, F)
       /\ Word(i, behind + rest - F) = HEAP_MAGIC /\ Word(i, behind + rest - F + 1) = behind
  <2>1. /\ behind + rest - F \in Int /\ START <= behind + rest - F
        /\ behind + rest - F + F <= e.end
    BY <1>1, <1>8, Sizes32 DEF H, F
  <2> QED BY <1>1, <1>8, <1>9, <2>1, FooterIs
<1>11. PICK g : g = Insert(i, behind)
  OBVIOUS
<1>12. Ok(i) /\ i.end = f.end /\ i.index = f.index
  BY <1>8, <1>10 DEF Stores
<1>13. /\ Ok(g) /\ g.end = f.end /\ Distinct(g.index)
       /\ ToSet(g.index) = ToSet(f.index) \cup {behind}
       /\ \A x : Word(g, x) = Word(i, x)
  BY <1>1, <1>11, <1>12, InsertIs
<1>14. g = Cut(f, at, sz, rest, f.end)
  <2>1. rest # 0
    BY <1>1
  <2>2. \A ftr : ftr = (behind + rest - F) % W => ftr < f.end /\ i = Footer(e, ftr, behind)
    BY <1>1, <1>3, <1>9
  <2>3. behind = at + sz + H + F
    BY DEF H, F
  <2> QED BY <1>4, <1>5, <1>11, <2>1, <2>2, <2>3 DEF Cut
<1>15. \A x \in Int : /\ x \notin behind .. behind + rest - 1 => Word(g, x) = Word(b, x)
                      /\ x \in behind .. behind + 2 => Word(g, x) = Word(e, x)
  BY <1>1, <1>7, <1>10, <1>13 DEF Stores, H, F
<1>16. \A x \in Int : x \notin at .. behind + rest - 1 => Word(g, x) = Word(f, x)
  BY <1>1, <1>4, <1>15 DEF Stores, BlockAt, H, F
<1>17. /\ Word(g, at) = HEAP_MAGIC /\ Word(g, at + 1) = 0 /\ SizeAt(g, at) = n
  BY <1>4, <1>15 DEF SizeAt, BlockAt, H, F
<1>18. Footed(g, at)
  <2>1. Top(g, at) = behind /\ Top(b, at) = behind
    BY <1>4, <1>17 DEF Top, BlockAt
  <2>2. Word(g, behind - F) = Word(b, behind - F) /\ Word(g, behind - 1) = Word(b, behind - 1)
    BY <1>1, <1>15 DEF F
  <2> QED BY <1>4, <2>1, <2>2 DEF Footed, BlockAt
<1>19. Word(g, behind) = HEAP_MAGIC /\ Word(g, behind + 1) = 1 /\ SizeAt(g, behind) = rest
  BY <1>1, <1>7, <1>15 DEF SizeAt
<1>20. Footed(g, behind)
  <2>1. Top(g, behind) - F = behind + rest - F /\ Top(g, behind) - 1 = behind + rest - F + 1
    BY <1>1, <1>19 DEF Top, F
  <2> QED BY <1>10, <1>13, <2>1 DEF Footed
<1> QED BY <1>13, <1>14, <1>16, <1>17, <1>18, <1>19, <1>20 DEF BlockAndHole

LEMMA Chunks32 ==
    ASSUME NEW h, Ok(h), NEW Hs, NEW Bs, Layout(h, Hs, Bs), NEW a \in Hs \cup Bs
    PROVE  /\ a \in Nat /\ START <= a /\ a < h.end /\ a \in START .. MAX
           /\ SizeAt(h, a) \in Nat /\ SizeAt(h, a) >= 5 /\ SizeAt(h, a) <= MAX - START
           /\ Top(h, a) = a + SizeAt(h, a) /\ Top(h, a) \in Nat /\ Top(h, a) <= h.end
           /\ Word(h, a) = HEAP_MAGIC
<1>1. a \in Nat /\ Chunk(h, a)
  BY DEF Layout
<1>2. SizeAt(h, a) \in Nat
  BY SizeFacts
<1>3. h.end \in Nat /\ h.end <= MAX /\ START \in Nat /\ MAX \in Nat
  BY HeapFacts, Sizes32
<1> QED BY <1>1, <1>2, <1>3 DEF Chunk, Top, H, F

\* In the place of hole pos, which ends at hi, are the holes Hi and the blocks Bi.
Splits(h, g, Hs, Bs, pos, hi, Hi, Bi) ==
    /\ Layout(h, Hs, Bs) /\ pos \in Hs /\ hi = Top(h, pos)
    /\ \A x \in Int : x \notin pos .. hi - 1 => Word(g, x) = Word(h, x)
    /\ Hi \subseteq pos .. hi - 1 /\ Bi \subseteq pos .. hi - 1 /\ Hi \cap Bi = {}
    /\ \A a \in Hi \cup Bi : /\ Word(g, a) = HEAP_MAGIC /\ Footed(g, a)
                             /\ SizeAt(g, a) >= H + F /\ Top(g, a) <= hi
    /\ \A a \in Hi : Word(g, a + 1) = 1 /\ Top(g, a) \notin Hi
    /\ \A a \in Bi : Word(g, a + 1) = 0
    /\ \A a, b \in Hi \cup Bi : a < b => Top(g, a) <= b
    /\ \A x \in pos .. hi - 1 : Cover(g, Hi \cup Bi, x)

\* The holes Hn and the blocks Bn cover in g what Hs and Bs did in h.
Retiled(h, g, Hs, Bs, Hn, Bn) ==
    /\ Layout(g, Hn, Bn)
    /\ \A x \in Int : Cover(g, Hn \cup Bn, x) <=> Cover(h, Hs \cup Bs, x)
    /\ \A b \in Bs \cap Bn : SizeAt(g, b) = SizeAt(h, b)

LEMMA RecutHole ==
    ASSUME NEW h, NEW g, Ok(h), Ok(g), g.end = h.end, NEW Hs, NEW Bs, NEW pos, NEW hi,
           NEW Hi, NEW Bi, Splits(h, g, Hs, Bs, pos, hi, Hi, Bi)
    PROVE  Retiled(h, g, Hs, Bs, (Hs \ {pos}) \cup Hi, Bs \cup Bi) /\ Bs \cap Bi = {}
<1> DEFINE Hn == (Hs \ {pos}) \cup Hi
           Bn == Bs \cup Bi
           Cs == Hs \cup Bs
<1> USE DEF Splits
<1>1. /\ pos \in Nat /\ START <= pos /\ hi \in Nat /\ hi <= h.end /\ pos < hi
      /\ SizeAt(h, pos) \in Nat /\ START \in Nat
  BY Chunks32, Sizes32
<1>2. ASSUME NEW a \in Cs PROVE Top(h, a) <= pos \/ hi <= a \/ a = pos
  <2>1. a \in Nat /\ pos \in Cs
    BY Chunks32
  <2>2. a < pos \/ pos < a \/ a = pos
    BY <1>1, <2>1
  <2> QED BY <2>1, <2>2 DEF Layout
<1>3. \A a \in Cs : a \in Nat /\ Top(h, a) \in Nat /\ Top(h, a) > a
  BY Chunks32
<1>4. \A a \in Cs : a \in pos .. hi - 1 => a = pos
  BY <1>1, <1>2, <1>3
<1>5. pos \notin Bs /\ Bs \cap Bi = {} /\ (Hs \ {pos}) \cap Bi = {} /\ Bs \cap Hi = {}
  <2>1. pos \notin Bs
    BY DEF Layout
  <2> QED BY <1>4, <2>1
<1>6. Hn \cup Bn \subseteq Nat /\ Hn \cap Bn = {}
  <2>1. \A x \in pos .. hi - 1 : x \in Nat
    BY <1>1
  <2>2. Hs \cap Bs = {}
    BY DEF Layout
  <2>3. Hi \subseteq Nat /\ Bi \subseteq Nat
    BY <2>1
  <2> QED BY <1>3, <1>5, <2>2, <2>3
<1>7. \A a \in Int : a \notin pos .. hi - 1 =>
         (a \in Hn <=> a \in Hs) /\ (a \in Bn <=> a \in Bs)
  BY <1>1
<1>8. \A a \in Hn \cup Bn : a \in pos .. hi - 1 => (a \in Hi <=> a \in Hn) /\ (a \in Bi <=> a \in Bn)
  BY <1>4, <1>5
<1>9. ASSUME NEW a \in Hi \cup Bi PROVE Chunk(g, a) /\ Top(g, a) <= hi /\ Top(g, a) > a /\ Top(g, a) \in Nat
  <2>1. a \in Nat /\ START <= a /\ a <= MAX /\ MAX < HEAP_MAGIC
    <3>1. h.end \in Nat /\ h.end <= MAX
      BY HeapFacts
    <3>2. MAX \in Nat /\ MAX < HEAP_MAGIC
      BY Sizes32
    <3>3. a \in pos .. hi - 1
      OBVIOUS
    <3> QED BY <1>1, <3>1, <3>2, <3>3
  <2>2. SizeAt(g, a) \in Nat /\ h.end \in Nat
    BY SizeFacts, HeapFacts
  <2>3. Top(g, a) <= h.end
    BY <1>1, <2>1, <2>2 DEF Top
  <2>4. Word(g, Top(g, a) - 1) # HEAP_MAGIC
    <3>1. Word(g, Top(g, a) - 1) = a
      BY DEF Footed
    <3> QED BY <2>1, <3>1, Sizes32
  <2> QED BY <2>1, <2>2, <2>3, <2>4 DEF Chunk, Top, H, F
<1>10. hi \notin Hs /\ \A a \in Hs : Top(h, a) # pos
  BY DEF Layout
<1>11. ASSUME NEW a \in Hi PROVE Top(g, a) \notin Hn
  <2>1. Top(g, a) \notin Hi /\ Top(g, a) <= hi /\ Top(g, a) > a /\ Top(g, a) \in Nat /\ a \in pos .. hi - 1
    BY <1>9
  <2>2. Top(g, a) = hi \/ (Top(g, a) \in pos .. hi - 1 /\ Top(g, a) # pos)
    BY <1>1, <2>1
  <2> QED BY <1>4, <1>10, <2>1, <2>2
<1>12. \A x \in pos .. hi - 1 : Cover(h, Cs, x)
  BY <1>1 DEF Cover, In
<1>13. \A x \in pos .. hi - 1 : Cover(g, Hn \cup Bn, x)
  BY DEF Cover
<1>14. \A a \in Cs : Top(h, a) <= pos \/ hi <= a \/ (pos <= a /\ Top(h, a) <= hi)
  BY <1>1, <1>2
<1>15. \A a \in Hn \cup Bn : a \in pos .. hi - 1 => Chunk(g, a) /\ Top(g, a) <= hi
  BY <1>8, <1>9
<1>16. \A a \in Hn : a \in pos .. hi - 1 =>
          Word(g, a + 1) = 1 /\ Top(g, a) \notin Hn
  BY <1>8, <1>11
<1>17. \A a \in Bn : a \in pos .. hi - 1 => Word(g, a + 1) = 0 /\ Footed(g, a)
  BY <1>8
<1>18. \A a, b \in Hn \cup Bn :
          a \in pos .. hi - 1 /\ b \in pos .. hi - 1 /\ a < b => Top(g, a) <= b
  BY <1>8
<1>19. pos \in Cs /\ hi \in Int
  BY <1>1
<1> HIDE DEF Hn, Bn, Cs
<1>20. Recuts(h, g, Hs, Bs, Hn, Bn, pos, hi)
  BY <1>1, <1>6, <1>7, <1>10, <1>12, <1>13, <1>14, <1>15, <1>16, <1>17, <1>18, <1>19 DEF Recuts, Cs
<1>21. Refilled(h, g, Hs, Bs, Hn, Bn, pos, hi)
  BY <1>20, Recut
<1>22. \A b \in Bs : b \in Bn /\ b \notin pos .. hi - 1
  BY <1>4, <1>5 DEF Bn, Cs
<1> QED BY <1>5, <1>21, <1>22 DEF Refilled, Retiled, Hn, Bn

\* r is what Carve gives: a heap with one block more, at "at", of need words or more.
Carved(h, r, Bs, need) ==
    \E g, at :
       /\ r = [heap |-> g, at |-> at + H] /\ at \in Nat /\ at \notin Bs
       /\ Ok(g) /\ g.end = h.end /\ Distinct(g.index) /\ SizeAt(g, at) >= need
       /\ Retiled(h, g, ToSet(h.index), Bs, ToSet(g.index), Bs \cup {at})

LEMMA CarvePlain ==
    ASSUME NEW h, Ok(h), Distinct(h.index), NEW Bs, Layout(h, ToSet(h.index), Bs),
           NEW pos \in ToSet(h.index), NEW size \in Nat, SizeAt(h, pos) >= size + H + F
    PROVE  Carved(h, Carve(h, pos, size, FALSE), Bs, size + H + F)
<1>1. PICK Hs : Hs = ToSet(h.index)
  OBVIOUS
<1>2. PICK hole : hole = SizeAt(h, pos)
  OBVIOUS
<1>3. PICK hi : hi = Top(h, pos)
  OBVIOUS
<1>4. /\ pos \in Nat /\ START <= pos /\ pos < h.end /\ hole \in Nat /\ hole <= MAX - START
      /\ hi = pos + hole /\ hi <= h.end
  BY <1>1, <1>2, <1>3, Chunks32
<1>5. PICK d : d = Delete(h, pos)
  OBVIOUS
<1>6. /\ Ok(d) /\ d.end = h.end /\ Distinct(d.index) /\ ToSet(d.index) = Hs \ {pos}
      /\ \A x \in Int : x # pos => Word(d, x) = Word(h, x)
  BY <1>1, <1>4, <1>5, DeleteIs
<1>7. /\ h.end \in Nat /\ W \in Nat /\ MAX \in Nat /\ START \in Nat /\ MAX < W
      /\ 0 \in 0 .. W - 1 /\ 0 % W = 0 /\ hole >= size + 5
  BY <1>2, HeapFacts, Sizes32, Unwrapped DEF H, F, HEAP_MAGIC
<1>8. \A x \in pos .. hi - 1 : x \in Int /\ pos <= x /\ x < hi
  BY <1>4
<1>9. CASE hole - (size + H + F) < H + F
  <2>1. PICK sz : sz = hole - (H + F)
    OBVIOUS
  <2>2. sz \in Nat /\ hole = sz + H + F /\ pos + sz + H + F <= d.end
    BY <1>4, <1>6, <1>7, <2>1 DEF H, F
  <2>3. PICK g : g = Cut(d, pos, sz, 0, d.end)
    OBVIOUS
  <2>4. BlockAt(g, d, pos, hole)
    BY <1>4, <1>6, <2>2, <2>3, CutAll
  <2>5. Carve(h, pos, size, FALSE) = [heap |-> g, at |-> pos + H]
    <3>1. sz = Taken(SizeAt(h, pos), size)
      BY <1>2, <1>9, <2>1 DEF Taken
    <3>2. hole - (sz + H + F) = 0
      BY <1>4, <2>2
    <3>3. 0 = (SizeAt(h, pos) - (sz + H + F)) % W
      BY <1>2, <1>7, <3>2
    <3> QED BY <1>5, <1>6, <2>3, <3>1, <3>3, CarveIs
  <2>6. Ok(g) /\ g.end = h.end /\ g.index = d.index /\ Top(g, pos) = hi
    BY <1>4, <1>6, <2>4 DEF BlockAt, Stores, Top
  <2>7. Splits(h, g, Hs, Bs, pos, hi, {}, {pos})
    <3>1. \A x \in Int : x \notin pos .. hi - 1 => Word(g, x) = Word(h, x)
      BY <1>4, <1>6, <1>7, <2>4 DEF BlockAt, Stores
    <3>2. {pos} \subseteq pos .. hi - 1 /\ SizeAt(g, pos) >= H + F /\ hi <= hi
      BY <1>4, <1>7, <2>4 DEF BlockAt, H, F
    <3>3. \A x \in pos .. hi - 1 : Cover(g, {} \cup {pos}, x)
      BY <1>8, <2>6 DEF Cover, In
    <3> QED BY <1>1, <1>3, <2>4, <2>6, <3>1, <3>2, <3>3 DEF BlockAt, Splits
  <2>8. Retiled(h, g, Hs, Bs, (Hs \ {pos}) \cup {}, Bs \cup {pos}) /\ Bs \cap {pos} = {}
    BY <2>6, <2>7, RecutHole
  <2>9. ToSet(g.index) = (Hs \ {pos}) \cup {} /\ pos \notin Bs /\ Distinct(g.index)
    BY <1>6, <2>6, <2>8
  <2>10. SizeAt(g, pos) >= size + H + F
    BY <1>2, <2>4 DEF BlockAt
  <2>11. Retiled(h, g, ToSet(h.index), Bs, ToSet(g.index), Bs \cup {pos})
    BY <1>1, <2>8, <2>9
  <2> QED BY <1>4, <2>5, <2>6, <2>9, <2>10, <2>11 DEF Carved
<1>10. CASE ~(hole - (size + H + F) < H + F)
  <2>1. PICK n : n = size + H + F
    OBVIOUS
  <2>2. PICK rest : rest = hole - n
    OBVIOUS
  <2>3. PICK behind : behind = pos + n
    OBVIOUS
  <2>4. /\ n \in Nat /\ rest \in Nat /\ rest >= H + F /\ rest < W /\ behind + rest = hi
        /\ behind \in Nat /\ behind + rest <= d.end /\ pos < behind /\ behind < hi
    BY <1>4, <1>6, <1>7, <1>10, <2>1, <2>2, <2>3 DEF H, F
  <2>5. behind \notin ToSet(d.index)
    <3> SUFFICES ASSUME behind \in Hs PROVE FALSE
      BY <1>6
    <3>1. hi <= behind
      BY <1>1, <1>3, <2>4 DEF Layout
    <3> QED BY <1>4, <2>4, <3>1
  <2>6. PICK g : g = Cut(d, pos, size, rest, d.end)
    OBVIOUS
  <2>7. BlockAndHole(g, d, pos, n, behind, rest)
    BY <1>4, <1>6, <2>1, <2>3, <2>4, <2>5, <2>6, CutSome
  <2>8. Carve(h, pos, size, FALSE) = [heap |-> g, at |-> pos + H]
    <3>1. size = Taken(SizeAt(h, pos), size)
      BY <1>2, <1>10 DEF Taken
    <3>2. rest \in 0 .. W - 1
      BY <1>7, <2>4
    <3>3. rest = (SizeAt(h, pos) - (size + H + F)) % W
      BY <1>2, <2>1, <2>2, <3>2, Unwrapped
    <3> QED BY <1>5, <1>6, <2>6, <3>1, <3>3, CarveIs
  <2>9. Top(g, pos) = behind /\ Top(g, behind) = hi
    BY <2>3, <2>4, <2>7 DEF BlockAndHole, Top
  <2>10. Splits(h, g, Hs, Bs, pos, hi, {behind}, {pos})
    <3>1. \A x \in Int : x \notin pos .. hi - 1 => Word(g, x) = Word(h, x)
      BY <1>4, <1>6, <2>4, <2>7 DEF BlockAndHole
    <3>2. /\ {behind} \subseteq pos .. hi - 1 /\ {pos} \subseteq pos .. hi - 1
          /\ {behind} \cap {pos} = {} /\ hi <= hi /\ behind <= hi
          /\ Top(g, behind) \notin {behind}
      BY <1>4, <2>4, <2>9
    <3>3. SizeAt(g, pos) >= H + F /\ SizeAt(g, behind) >= H + F
      BY <2>1, <2>4, <2>7 DEF BlockAndHole, H, F
    <3>4. \A x \in pos .. hi - 1 : Cover(g, {behind} \cup {pos}, x)
      BY <1>8, <2>4, <2>9 DEF Cover, In
    <3>5. \A a, b \in {behind} \cup {pos} : a < b => Top(g, a) <= b
      BY <1>4, <2>4, <2>9
    <3> QED BY <1>1, <1>3, <2>7, <2>9, <3>1, <3>2, <3>3, <3>4, <3>5 DEF BlockAndHole, Splits
  <2>11. Ok(g) /\ g.end = h.end /\ ToSet(g.index) = (Hs \ {pos}) \cup {behind} /\ Distinct(g.index)
    BY <1>6, <2>7 DEF BlockAndHole
  <2>12. Retiled(h, g, Hs, Bs, (Hs \ {pos}) \cup {behind}, Bs \cup {pos}) /\ Bs \cap {pos} = {}
    BY <2>10, <2>11, RecutHole
  <2>13. Retiled(h, g, ToSet(h.index), Bs, ToSet(g.index), Bs \cup {pos}) /\ pos \notin Bs
    BY <1>1, <2>11, <2>12
  <2>14. SizeAt(g, pos) >= size + H + F
    BY <2>1, <2>4, <2>7 DEF BlockAndHole
  <2> QED BY <1>4, <2>8, <2>11, <2>13, <2>14 DEF Carved
<1> QED BY <1>9, <1>10

\* The hole that stays in front of an aligned block.
LEMMA FrontIs ==
    ASSUME NEW h, Ok(h), NEW pos \in Nat, START <= pos, NEW k \in Nat, k >= H + F,
           NEW at, at = pos + k, at <= h.end
    PROVE  \E f : /\ f = Footer(Header(h, pos, 1, at - pos), at - F, pos)
                  /\ Stores(f, h, pos, k)
                  /\ Word(f, pos) = HEAP_MAGIC /\ Word(f, pos + 1) = 1
                  /\ SizeAt(f, pos) = k /\ Footed(f, pos)
<1>1. /\ h.end < W /\ h.end \in Nat /\ W \in Nat /\ START \in Nat
  BY HeapFacts, Sizes32
<1>2. /\ at - pos = k /\ k \in 0 .. W - 1 /\ pos + H <= h.end /\ pos \in 0 .. W - 1
      /\ at - F \in Int /\ START <= at - F /\ at - F + F <= h.end
  BY <1>1 DEF H, F
<1>3. PICK e : e = Header(h, pos, 1, k)
  OBVIOUS
<1>4. /\ Stores(e, h, pos, H)
      /\ Word(e, pos) = HEAP_MAGIC /\ Word(e, pos + 1) = 1 /\ SizeAt(e, pos) = k
  BY <1>2, <1>3, HeaderIs
<1>5. Ok(e) /\ e.end = h.end /\ e.index = h.index
  BY <1>4 DEF Stores
<1>6. PICK f : f = Footer(e, at - F, pos)
  OBVIOUS
<1>7. Stores(f, e, at - F, F) /\ Word(f, at - F) = HEAP_MAGIC /\ Word(f, at - F + 1) = pos
  BY <1>2, <1>5, <1>6, FooterIs
<1>8. \A x \in {pos, pos + 1, pos + 2} : Word(f, x) = Word(e, x)
  BY <1>1, <1>7 DEF Stores, H, F
<1>9. Word(f, pos) = HEAP_MAGIC /\ Word(f, pos + 1) = 1 /\ SizeAt(f, pos) = k
  BY <1>4, <1>8 DEF SizeAt
<1>10. Top(f, pos) - F = at - F /\ Top(f, pos) - 1 = at - F + 1
  BY <1>9 DEF Top, F
<1>11. \A x \in Int : x \notin pos .. pos + k - 1 => Word(f, x) = Word(h, x)
  BY <1>4, <1>7 DEF Stores, H, F
<1> QED BY <1>2, <1>3, <1>5, <1>6, <1>7, <1>9, <1>10, <1>11 DEF Stores, Footed

LEMMA CarveAligned ==
    ASSUME NEW h, Ok(h), Distinct(h.index), NEW Bs, Layout(h, ToSet(h.index), Bs),
           NEW pos \in ToSet(h.index), NEW size \in Nat,
           NEW k, k = FrontSize(pos), k >= H + F,
           NEW n, n = size + H + F,
           NEW rest, rest = SizeAt(h, pos) - k - n, rest = 0 \/ rest >= H + F
    PROVE  Carved(h, Carve(h, pos, size, TRUE), Bs, n)
<1>1. PICK Hs : Hs = ToSet(h.index)
  OBVIOUS
<1>2. PICK hole : hole = SizeAt(h, pos)
  OBVIOUS
<1>3. PICK hi : hi = Top(h, pos)
  OBVIOUS
<1>4. /\ pos \in Nat /\ START <= pos /\ pos < h.end /\ hole \in Nat /\ hole <= MAX - START
      /\ hi = pos + hole /\ hi <= h.end
  BY <1>1, <1>2, <1>3, Chunks32
<1>5. PICK at : at = pos + PAGE - (pos % PAGE) - H
  OBVIOUS
<1>6. k \in Nat /\ at = pos + k
  BY <1>4, <1>5, PageEnd, Sizes32 DEF FrontSize, H, F
<1>7. /\ h.end \in Nat /\ W \in Nat /\ MAX \in Nat /\ START \in Nat /\ MAX < W /\ 0 % W = 0
      /\ n \in Nat /\ rest \in Nat /\ rest \in 0 .. W - 1
      /\ at \in Nat /\ at < hi /\ pos < at /\ at + n + rest = hi /\ at + n <= hi
      /\ at <= h.end /\ START <= at
  <2>1. /\ h.end \in Nat /\ W \in Nat /\ MAX \in Nat /\ START \in Nat /\ MAX < W
        /\ 0 \in 0 .. W - 1
    BY HeapFacts, Sizes32 DEF HEAP_MAGIC
  <2> QED BY <1>2, <1>4, <1>6, <2>1, Unwrapped DEF H, F
<1>8. \A x \in pos .. hi - 1 : x \in Int /\ pos <= x /\ x < hi
  BY <1>4
<1>9. PICK f : /\ f = Footer(Header(h, pos, 1, at - pos), at - F, pos)
               /\ Stores(f, h, pos, k)
               /\ Word(f, pos) = HEAP_MAGIC /\ Word(f, pos + 1) = 1
               /\ SizeAt(f, pos) = k /\ Footed(f, pos)
  BY <1>4, <1>6, <1>7, FrontIs
<1>10. Ok(f) /\ f.end = h.end /\ f.index = h.index
  BY <1>9 DEF Stores
<1>11. PICK g : g = Cut(f, at, size, rest, f.end)
  OBVIOUS
<1>12. Carve(h, pos, size, TRUE) = [heap |-> g, at |-> at + H]
  <2>1. size = Taken(SizeAt(h, pos), size)
    <3>1. hole - n = rest + k /\ ~(hole - n < H + F)
      BY <1>2, <1>4, <1>6, <1>7 DEF H, F
    <3> QED BY <1>2, <3>1 DEF Taken
  <2>2. rest = Behind(h, f, pos, size)
    BY <1>7, <1>9, Unwrapped DEF Behind
  <2>3. g = Cut(f, at, size, rest, h.end)
    BY <1>10, <1>11
  <2>4. f = FrontHole(h, pos, at) /\ at = BorderAfter(pos)
    BY <1>5, <1>9 DEF FrontHole, BorderAfter
  <2>5. Carve(h, pos, size, TRUE) = Result(Cut(f, at, size, rest, h.end), at)
    <3>1. Carve(h, pos, size, TRUE) = AlignedBlock(h, pos, size, at, f)
      BY <2>1, <2>4, AlignedIs
    <3> QED BY <2>2, <3>1 DEF AlignedBlock
  <2> QED BY <2>3, <2>5 DEF Result
<1>13. /\ \A x \in Int : x \notin at .. hi - 1 => Word(g, x) = Word(f, x)
       /\ Ok(g) /\ g.end = h.end
       => /\ \A x \in Int : x \notin pos .. hi - 1 => Word(g, x) = Word(h, x)
          /\ Word(g, pos) = HEAP_MAGIC /\ Word(g, pos + 1) = 1
          /\ SizeAt(g, pos) = k /\ Top(g, pos) = at /\ Footed(g, pos)
  <2> SUFFICES ASSUME \A x \in Int : x \notin at .. hi - 1 => Word(g, x) = Word(f, x)
               PROVE  /\ \A x \in Int : x \notin pos .. hi - 1 => Word(g, x) = Word(h, x)
                      /\ Word(g, pos) = HEAP_MAGIC /\ Word(g, pos + 1) = 1
                      /\ SizeAt(g, pos) = k /\ Top(g, pos) = at /\ Footed(g, pos)
    OBVIOUS
  <2>1. \A x \in Int : x \notin pos .. hi - 1 => Word(g, x) = Word(h, x)
    BY <1>4, <1>6, <1>7, <1>9 DEF Stores
  <2>2. \A x \in {pos, pos + 1, pos + 2, at - F, at - 1} : Word(g, x) = Word(f, x)
    BY <1>4, <1>6, <1>7 DEF H, F
  <2>3. Word(g, pos) = HEAP_MAGIC /\ Word(g, pos + 1) = 1 /\ SizeAt(g, pos) = k
    BY <1>9, <2>2 DEF SizeAt
  <2>4. Top(g, pos) = at /\ Top(f, pos) = at
    BY <1>6, <1>9, <2>3 DEF Top
  <2> QED BY <1>9, <2>1, <2>2, <2>3, <2>4 DEF Footed
<1>14. CASE rest = 0
  <2>1. BlockAt(g, f, at, n)
    <3>1. at + size + H + F <= f.end
      BY <1>4, <1>7, <1>10 DEF H, F
    <3> QED BY <1>7, <1>10, <1>11, <1>14, <3>1, CutAll
  <2>2. Ok(g) /\ g.end = h.end /\ g.index = h.index
    BY <1>10, <2>1 DEF BlockAt, Stores
  <2>3. at + n = hi /\ Top(g, at) = hi
    BY <1>7, <1>14, <2>1 DEF BlockAt, Top
  <2>4. \A x \in Int : x \notin at .. hi - 1 => Word(g, x) = Word(f, x)
    BY <1>7, <2>1, <2>3 DEF BlockAt, Stores
  <2>5. Splits(h, g, Hs, Bs, pos, hi, {pos}, {at})
    <3>1. /\ {pos} \subseteq pos .. hi - 1 /\ {at} \subseteq pos .. hi - 1 /\ {pos} \cap {at} = {}
          /\ at <= hi /\ hi <= hi /\ at \notin {pos}
      BY <1>4, <1>7
    <3>2. SizeAt(g, pos) >= H + F /\ SizeAt(g, at) >= H + F
      BY <1>7, <1>13, <2>1, <2>2, <2>4 DEF BlockAt, H, F
    <3>3. \A x \in pos .. hi - 1 : Cover(g, {pos} \cup {at}, x)
      BY <1>7, <1>8, <1>13, <2>2, <2>3, <2>4 DEF Cover, In
    <3>4. \A a, b \in {pos} \cup {at} : a < b => Top(g, a) <= b
      BY <1>4, <1>7, <1>13, <2>2, <2>4
    <3> QED BY <1>1, <1>3, <1>13, <2>1, <2>2, <2>3, <2>4, <3>1, <3>2, <3>3, <3>4 DEF BlockAt, Splits
  <2>6. Retiled(h, g, Hs, Bs, (Hs \ {pos}) \cup {pos}, Bs \cup {at}) /\ Bs \cap {at} = {}
    BY <2>2, <2>5, RecutHole
  <2>7. ToSet(g.index) = (Hs \ {pos}) \cup {pos}
    BY <1>1, <2>2
  <2>8. Retiled(h, g, ToSet(h.index), Bs, ToSet(g.index), Bs \cup {at}) /\ at \notin Bs
    BY <1>1, <2>6, <2>7
  <2>9. SizeAt(g, at) >= n /\ Distinct(g.index)
    BY <1>7, <2>1, <2>2 DEF BlockAt
  <2> QED BY <1>7, <1>12, <2>2, <2>8, <2>9 DEF Carved
<1>15. CASE rest >= H + F
  <2>1. PICK behind : behind = at + n
    OBVIOUS
  <2>2. /\ behind \in Nat /\ behind + rest = hi /\ behind < hi /\ at < behind /\ pos < behind
        /\ behind + rest <= f.end
    BY <1>4, <1>7, <1>10, <1>15, <2>1 DEF H, F
  <2>3. behind \notin ToSet(f.index)
    <3> SUFFICES ASSUME behind \in Hs PROVE FALSE
      BY <1>1, <1>10
    <3>1. hi <= behind
      BY <1>1, <1>3, <2>2 DEF Layout
    <3> QED BY <1>4, <2>2, <3>1
  <2>4. BlockAndHole(g, f, at, n, behind, rest)
    BY <1>7, <1>10, <1>11, <1>15, <2>1, <2>2, <2>3, CutSome
  <2>5. /\ Ok(g) /\ g.end = h.end /\ ToSet(g.index) = (Hs \ {pos}) \cup {pos, behind}
        /\ Distinct(g.index)
    BY <1>1, <1>10, <2>4 DEF BlockAndHole
  <2>6. Top(g, at) = behind /\ Top(g, behind) = hi
    BY <2>1, <2>2, <2>4 DEF BlockAndHole, Top
  <2>7. \A x \in Int : x \notin at .. hi - 1 => Word(g, x) = Word(f, x)
    BY <2>2, <2>4 DEF BlockAndHole
  <2>8. Splits(h, g, Hs, Bs, pos, hi, {pos, behind}, {at})
    <3>1. /\ {pos, behind} \subseteq pos .. hi - 1 /\ {at} \subseteq pos .. hi - 1
          /\ {pos, behind} \cap {at} = {} /\ at <= hi /\ hi <= hi /\ behind <= hi
          /\ at \notin {pos, behind} /\ hi \notin {pos, behind}
      BY <1>4, <1>7, <2>2
    <3>2. SizeAt(g, pos) >= H + F /\ SizeAt(g, at) >= H + F /\ SizeAt(g, behind) >= H + F
      BY <1>7, <1>13, <1>15, <2>4, <2>5, <2>7 DEF BlockAndHole, H, F
    <3>3. \A x \in pos .. hi - 1 : Cover(g, {pos, behind} \cup {at}, x)
      BY <1>7, <1>8, <1>13, <2>2, <2>5, <2>6, <2>7 DEF Cover, In
    <3>4. \A a, b \in {pos, behind} \cup {at} : a < b => Top(g, a) <= b
      BY <1>4, <1>7, <1>13, <2>2, <2>5, <2>6, <2>7
    <3> QED BY <1>1, <1>3, <1>13, <2>4, <2>5, <2>6, <2>7, <3>1, <3>2, <3>3, <3>4 DEF BlockAndHole, Splits
  <2>9. Retiled(h, g, Hs, Bs, (Hs \ {pos}) \cup {pos, behind}, Bs \cup {at}) /\ Bs \cap {at} = {}
    BY <2>5, <2>8, RecutHole
  <2>10. Retiled(h, g, ToSet(h.index), Bs, ToSet(g.index), Bs \cup {at}) /\ at \notin Bs
    BY <1>1, <2>5, <2>9
  <2>11. SizeAt(g, at) >= n
    BY <1>7, <2>4 DEF BlockAndHole
  <2> QED BY <1>7, <1>12, <2>5, <2>10, <2>11 DEF Carved
<1> QED BY <1>14, <1>15

-----------------------------------------------------------------------------
(* Grow.                                                                   *)

\* The words that no chunk covers are LeftOut in number and in one piece.
Gap(h, C) ==
    \E gap \in START .. h.end - LeftOut :
       \A x \in START .. h.end - 1 : Cover(h, C, x) <=> x \notin gap .. gap + LeftOut - 1

LEMMA ExpandIs ==
    ASSUME NEW h, Ok(h), NEW need \in Nat, NEW e, e = expand(h, h.end - START + need)
    PROVE  \/ IsHeap(e) /\ e.status = "full"
           \/ /\ Ok(e) /\ e.index = h.index /\ e.end \in Nat /\ e.end > h.end + need
              /\ \A x : Word(e, x) = Word(h, x)
<1>1. /\ h.end \in Nat /\ START <= h.end /\ h.end <= MAX /\ START \in Nat /\ MAX \in Nat
      /\ DOMAIN h.mem = START .. h.end - 1 /\ \A x : Word(h, x) \in 0 .. W - 1
      /\ h.status = "ok"
  BY HeapFacts, Sizes32
<1>2. PICK n : n = h.end - START + need
  OBVIOUS
<1>3. PICK size : size = (n \div PAGE + 1) * PAGE
  OBVIOUS
<1>4. size \in Nat /\ size > n /\ n \in Nat
  <2>1. n \in Nat
    BY <1>1, <1>2
  <2>2. (n \div PAGE + 1) * PAGE \in Nat /\ (n \div PAGE + 1) * PAGE > n
    BY <2>1, WholePages
  <2> QED BY <1>3, <2>1, <2>2
<1>5. CASE START + size > MAX
  <2>1. e = [h EXCEPT !.status = "full"]
    BY <1>1, <1>2, <1>3, <1>5 DEF expand, Fail
  <2>2. IsHeap(e) /\ e.status = "full"
    BY <2>1 DEF Ok, IsHeap, Status
  <2> QED BY <2>2
<1>6. CASE ~(START + size > MAX)
  <2>0. PICK end : end = START + size
    OBVIOUS
  <2>1. PICK mem : mem = [x \in START .. end - 1 |-> Word(h, x)]
    OBVIOUS
  <2>2. e = [h EXCEPT !.end = end, !.mem = mem]
    <3>1. e = [h EXCEPT !.end = START + size,
                        !.mem = [x \in START .. START + size - 1 |-> Word(h, x)]]
      BY <1>2, <1>3, <1>6 DEF expand
    <3>2. mem = [x \in START .. START + size - 1 |-> Word(h, x)]
      <4>1. START + size - 1 = end - 1
        BY <1>1, <1>4, <2>0
      <4> QED BY <2>1, <4>1, Zenon
    <3> QED BY <2>0, <3>1, <3>2, Zenon
  <2>3. end \in START .. MAX /\ end > h.end + need
    BY <1>1, <1>2, <1>4, <1>6, <2>0
  <2>4. mem \in [START .. end - 1 -> 0 .. W - 1]
    BY <1>1, <2>1
  <2>5. e.end = end /\ e.mem = mem /\ e.index = h.index /\ e.status = "ok" /\ Ok(e)
    <3>1. /\ e \in [mem : [START .. end - 1 -> 0 .. W - 1], index : Seq(START .. MAX),
                    end : START .. MAX, status : Status]
          /\ e.end = end /\ e.mem = mem /\ e.index = h.index /\ e.status = "ok"
      BY <2>2, <2>3, <2>4 DEF Ok, IsHeap
    <3> QED BY <3>1 DEF Ok, IsHeap
  <2>6. ASSUME NEW x PROVE Word(e, x) = Word(h, x)
    <3>1. CASE x \in START .. end - 1
      BY <2>1, <2>5, <3>1 DEF Word
    <3>2. CASE x \notin START .. end - 1
      <4>1. x \notin START .. h.end - 1
        BY <1>1, <1>4, <2>0, <2>3, <3>2
      <4> QED BY <1>1, <2>1, <2>5, <3>2, <4>1 DEF Word
    <3> QED BY <3>1, <3>2
  <2>7. e.end \in Nat /\ e.end > h.end + need
    BY <1>1, <1>4, <2>3, <2>5
  <2> QED BY <2>5, <2>6, <2>7
<1> QED BY <1>5, <1>6

\* Behind all other chunks of h, the words from lo on are in g a hole up to "top".
Extends(h, g, Hs, Bs, lo, top) ==
    /\ Layout(h, Hs, Bs) /\ lo \in Nat /\ START <= lo /\ lo \notin Bs
    /\ top = Top(g, lo) /\ top <= g.end /\ h.end <= g.end
    /\ \A a \in (Hs \cup Bs) \ {lo} : Top(h, a) <= lo
    /\ \A a \in Hs : Top(h, a) # lo
    /\ lo \in Hs => Top(h, lo) <= top
    /\ SizeAt(g, lo) >= H + F
    /\ Word(g, lo) = HEAP_MAGIC /\ Word(g, lo + 1) = 1 /\ Footed(g, lo)
    /\ \A x \in Int : x \notin lo .. top - 1 => Word(g, x) = Word(h, x)

Extended(h, g, Hs, Bs, lo, top) ==
    /\ Layout(g, Hs \cup {lo}, Bs)
    /\ \A x \in Int : Cover(g, Hs \cup {lo} \cup Bs, x)
                         <=> Cover(h, Hs \cup Bs, x) \/ x \in lo .. top - 1
    /\ \A b \in Bs : SizeAt(g, b) = SizeAt(h, b)

LEMMA Extend ==
    ASSUME NEW h, NEW g, Ok(h), Ok(g), NEW Hs, NEW Bs, NEW lo, NEW top,
           Extends(h, g, Hs, Bs, lo, top)
    PROVE  Extended(h, g, Hs, Bs, lo, top)
<1> DEFINE Cs == Hs \cup Bs
           Hn == Hs \cup {lo}
           Cn == Hs \cup {lo} \cup Bs
<1> USE DEF Extends
<1>1. /\ lo \in Nat /\ top \in Nat /\ top = lo + SizeAt(g, lo) /\ lo < top /\ top <= g.end
      /\ h.end \in Nat /\ g.end \in Nat /\ h.end <= g.end
  <2>1. SizeAt(g, lo) \in Nat /\ h.end \in Nat /\ g.end \in Nat
    BY SizeFacts, HeapFacts
  <2> QED BY <2>1 DEF Top, H, F
<1>2. Chunk(g, lo)
  <2>1. lo <= MAX /\ MAX < HEAP_MAGIC
    <3>1. g.end <= MAX
      BY HeapFacts
    <3>2. MAX \in Nat /\ MAX < HEAP_MAGIC
      BY Sizes32
    <3> QED BY <1>1, <3>1, <3>2
  <2>2. Word(g, Top(g, lo) - 1) # HEAP_MAGIC
    <3>1. Word(g, Top(g, lo) - 1) = lo
      BY DEF Footed
    <3>2. HEAP_MAGIC \in Int /\ MAX \in Nat
      BY Sizes32
    <3> QED BY <1>1, <2>1, <3>1, <3>2
  <2> QED BY <2>2 DEF Chunk
<1>3. \A a \in Cs : /\ a \in Nat /\ SizeAt(h, a) \in Nat /\ SizeAt(h, a) >= 5
                    /\ Top(h, a) = a + SizeAt(h, a) /\ Chunk(h, a) /\ Top(h, a) <= h.end
  <2> SUFFICES ASSUME NEW a \in Cs
               PROVE  /\ a \in Nat /\ SizeAt(h, a) \in Nat /\ SizeAt(h, a) >= 5
                      /\ Top(h, a) = a + SizeAt(h, a) /\ Chunk(h, a) /\ Top(h, a) <= h.end
    OBVIOUS
  <2>1. Layout(h, Hs, Bs) /\ a \in Hs \cup Bs
    OBVIOUS
  <2>2. Chunk(h, a)
    BY <2>1 DEF Layout
  <2> QED BY <2>1, <2>2, Chunks32
<1>4. ASSUME NEW a \in Cs, a # lo
      PROVE  /\ SizeAt(g, a) = SizeAt(h, a) /\ Top(g, a) = Top(h, a)
             /\ a < Top(g, a) /\ Top(g, a) <= lo
             /\ Word(g, a) = Word(h, a) /\ Word(g, a + 1) = Word(h, a + 1)
             /\ Word(g, Top(g, a) - 1) = Word(h, Top(h, a) - 1)
             /\ Word(g, Top(g, a) - F) = Word(h, Top(h, a) - F)
  <2>1. Top(h, a) <= lo
    BY <1>4
  <2>2. a \in Nat /\ SizeAt(h, a) \in Nat /\ SizeAt(h, a) >= 5 /\ Top(h, a) = a + SizeAt(h, a)
    BY <1>3
  <2>3. \A x \in a .. a + SizeAt(h, a) - 1 : Word(g, x) = Word(h, x)
    BY <1>1, <2>1, <2>2
  <2>4. SizeAt(g, a) = SizeAt(h, a)
    BY <2>2, <2>3 DEF SizeAt
  <2>5. Top(g, a) = Top(h, a)
    BY <2>4 DEF Top
  <2>6. /\ a \in a .. a + SizeAt(h, a) - 1 /\ a + 1 \in a .. a + SizeAt(h, a) - 1
        /\ Top(h, a) - 1 \in a .. a + SizeAt(h, a) - 1
        /\ Top(h, a) - F \in a .. a + SizeAt(h, a) - 1
    BY <2>2 DEF F
  <2> QED BY <2>1, <2>2, <2>3, <2>4, <2>5, <2>6
<1>5. ASSUME NEW x \in Int
      PROVE  Cover(g, Cn, x) <=> Cover(h, Cs, x) \/ x \in lo .. top - 1
  <2>1. ASSUME NEW a \in Cs, a # lo PROVE In(g, a, x) <=> In(h, a, x)
    BY <1>4, <2>1 DEF In
  <2>2. In(g, lo, x) <=> x \in lo .. top - 1
    BY <1>1 DEF In
  <2>3. lo \in Hs => (In(h, lo, x) => x \in lo .. top - 1)
    BY <1>1, <1>3 DEF In
  <2> QED BY <2>1, <2>2, <2>3 DEF Cover
<1>6. Cn \subseteq Nat /\ Hn \cap Bs = {} /\ Cn = Hn \cup Bs
  BY <1>1 DEF Layout
<1>7. \A a \in Cn : Chunk(g, a)
  <2> SUFFICES ASSUME NEW a \in Cs, a # lo PROVE Chunk(g, a)
    BY <1>2
  <2>1. Chunk(h, a)
    BY <1>3
  <2>2. Top(h, a) <= g.end
    BY <1>1, <1>3
  <2> QED BY <1>4, <2>1, <2>2 DEF Chunk
<1>8. \A a \in Hn : Word(g, a + 1) = 1
  BY <1>4 DEF Layout
<1>9. \A a \in Bs : Word(g, a + 1) = 0 /\ Footed(g, a) /\ SizeAt(g, a) = SizeAt(h, a)
  BY <1>4 DEF Layout, Footed
<1>10. ASSUME NEW a \in Cn, NEW b \in Cn, a < b PROVE Top(g, a) <= b
  <2>1. CASE a # lo /\ b # lo
    <3>1. Top(g, a) = Top(h, a) /\ a \in Cs /\ b \in Cs
      BY <1>4, <2>1
    <3> QED BY <1>10, <3>1 DEF Layout
  <2>2. CASE b = lo
    <3>1. a # lo
      BY <1>1, <1>10, <2>2
    <3> QED BY <1>4, <2>2, <3>1
  <2>3. CASE a = lo
    <3>1. b # lo /\ b \in Cs
      BY <1>1, <1>10, <2>3
    <3>2. b < Top(g, b) /\ Top(g, b) <= lo /\ b \in Nat /\ Top(g, b) \in Nat
      BY <1>3, <1>4, <3>1
    <3> QED BY <1>1, <1>10, <2>3, <3>2
  <2> QED BY <2>1, <2>2, <2>3
<1>12. ASSUME NEW a \in Hn, NEW b \in Hn, Top(g, a) = b PROVE FALSE
  <2>1. CASE a = lo
    <3>1. b = top
      BY <1>12, <2>1
    <3>11. b # lo /\ b \in Cs
      BY <1>1, <3>1
    <3>2. b < Top(g, b) /\ Top(g, b) <= lo /\ b \in Nat /\ Top(g, b) \in Nat
      BY <1>3, <1>4, <3>11
    <3> QED BY <1>1, <3>1, <3>2
  <2>2. CASE a # lo
    <3>1. Top(g, a) = Top(h, a) /\ a \in Hs
      BY <1>4, <2>2
    <3> QED BY <1>12, <3>1 DEF Layout
  <2> QED BY <2>1, <2>2
<1>13. ASSUME NEW x \in Int PROVE Word(g, x) = 0 \/ Cover(g, Cn, x)
  <2>1. CASE x \in lo .. top - 1
    BY <1>5, <2>1
  <2>2. CASE x \notin lo .. top - 1
    BY <1>5, <2>2 DEF Layout
  <2> QED BY <2>1, <2>2
<1>14. Layout(g, Hn, Bs)
  BY <1>6, <1>7, <1>8, <1>9, <1>10, <1>12, <1>13 DEF Layout
<1> QED BY <1>5, <1>9, <1>14 DEF Extended

\* The last hole is longer by what the heap is: the gap stays, or moves up with it.
LEMMA GapMoves ==
    ASSUME NEW h, NEW g, Ok(h), Ok(g), NEW Cs, NEW Cn, NEW lo \in Nat, NEW t \in Nat,
           NEW more \in Nat, g.end = h.end + more, Gap(h, Cs), START <= lo, lo <= t, t <= h.end,
           t = h.end \/ lo < t,
           \A x \in Int : Cover(h, Cs, x) => x < t,
           \A x \in lo .. t - 1 : Cover(h, Cs, x),
           \A x \in Int : Cover(g, Cn, x) <=> Cover(h, Cs, x) \/ x \in lo .. t + more - 1
    PROVE  Gap(g, Cn)
<1>1. /\ h.end \in Nat /\ g.end \in Nat /\ START \in Nat /\ LeftOut \in Nat
  <2>1. h.end \in Nat /\ g.end \in Nat
    BY HeapFacts
  <2>2. START \in Nat /\ LeftOut \in Nat
    BY LayoutAssumption DEF LeftOut
  <2> QED BY <2>1, <2>2
<1>2. PICK gap \in START .. h.end - LeftOut :
          \A x \in START .. h.end - 1 : Cover(h, Cs, x) <=> x \notin gap .. gap + LeftOut - 1
  BY DEF Gap
<1>3. gap \in Nat /\ START <= gap /\ gap + LeftOut <= h.end
  BY <1>1, <1>2
<1>4. CASE t = h.end
  <2>1. gap \in START .. g.end - LeftOut
    BY <1>1, <1>3
  <2>2. ASSUME NEW x \in START .. g.end - 1
        PROVE  Cover(g, Cn, x) <=> x \notin gap .. gap + LeftOut - 1
    <3>1. x \in Int /\ START <= x /\ x < g.end
      BY <1>1
    <3>2. CASE x < h.end
      <4>1. Cover(h, Cs, x) <=> x \notin gap .. gap + LeftOut - 1
        BY <1>1, <1>2, <3>1, <3>2
      <4>2. x \in lo .. t + more - 1 => Cover(h, Cs, x)
        BY <1>4, <3>1, <3>2
      <4> QED BY <3>1, <4>1, <4>2
    <3>3. CASE h.end <= x
      <4>1. x \in lo .. t + more - 1 /\ x \notin gap .. gap + LeftOut - 1
        BY <1>1, <1>3, <1>4, <3>1, <3>3
      <4> QED BY <3>1, <4>1
    <3> QED BY <1>1, <3>1, <3>2, <3>3
  <2> QED BY <2>1, <2>2 DEF Gap
<1>5. CASE t < h.end
  <2>1. gap = t /\ gap + LeftOut = h.end
    <3>1. ~Cover(h, Cs, t) /\ ~Cover(h, Cs, h.end - 1) /\ Cover(h, Cs, t - 1)
      BY <1>1, <1>5
    <3>2. t \in START .. h.end - 1 /\ h.end - 1 \in START .. h.end - 1 /\ t - 1 \in START .. h.end - 1
      BY <1>1, <1>5
    <3>3. /\ t \in gap .. gap + LeftOut - 1 /\ h.end - 1 \in gap .. gap + LeftOut - 1
          /\ t - 1 \notin gap .. gap + LeftOut - 1
      BY <1>2, <3>1, <3>2
    <3> QED BY <1>1, <1>3, <3>3
  <2>2. PICK new : new = t + more
    OBVIOUS
  <2>3. new \in START .. g.end - LeftOut /\ new + LeftOut = g.end
    BY <1>1, <1>3, <2>1, <2>2
  <2>4. ASSUME NEW x \in START .. g.end - 1
        PROVE  Cover(g, Cn, x) <=> x \notin new .. new + LeftOut - 1
    <3>1. x \in Int /\ START <= x /\ x < g.end
      BY <1>1
    <3>2. CASE x < t
      <4>1. x \in START .. h.end - 1 /\ x \notin gap .. gap + LeftOut - 1
        BY <1>1, <1>5, <2>1, <3>1, <3>2
      <4>2. Cover(g, Cn, x)
        BY <1>2, <3>1, <4>1
      <4> QED BY <2>2, <3>1, <3>2, <4>2
    <3>3. CASE t <= x /\ x < new
      <4>1. x \in lo .. t + more - 1 /\ x \notin new .. new + LeftOut - 1
        BY <2>2, <3>1, <3>3
      <4> QED BY <3>1, <4>1
    <3>4. CASE new <= x
      <4>1. x \notin lo .. t + more - 1 /\ ~(x < t) /\ x \in new .. new + LeftOut - 1
        BY <1>1, <2>2, <2>3, <3>1, <3>4
      <4> QED BY <3>1, <4>1
    <3> QED BY <2>2, <3>1, <3>2, <3>3, <3>4
  <2> QED BY <2>3, <2>4 DEF Gap
<1> QED BY <1>1, <1>4, <1>5

\* g is h with more pages: no block has changed, and a hole of need words is there.
Grown(h, g, Bs, need) ==
    /\ Ok(g) /\ Distinct(g.index) /\ Layout(g, ToSet(g.index), Bs)
    /\ Gap(g, ToSet(g.index) \cup Bs)
    /\ \E a \in ToSet(g.index) : SizeAt(g, a) >= need
    /\ \A b \in Bs : SizeAt(g, b) = SizeAt(h, b)

\* e is h with more pages in no chunk.
Larger(h, e, need) ==
    /\ Ok(e) /\ e.index = h.index /\ e.end \in Nat /\ e.end > h.end + need
    /\ \A x : Word(e, x) = Word(h, x)

LEMMA NewHole ==
    ASSUME NEW h, Ok(h), Distinct(h.index), ToSet(h.index) = {}, NEW Bs, Layout(h, {}, Bs),
           Gap(h, Bs), NEW need \in Nat, need >= H + F, NEW e, Larger(h, e, need),
           NEW more, more = e.end - h.end
    PROVE  Grown(h, Insert(Footer(Header(e, h.end, 1, more), h.end + more - F, h.end), h.end),
                 Bs, need)
<1>1. /\ h.end \in Nat /\ START <= h.end /\ e.end \in Nat /\ e.end <= MAX /\ START \in Nat
      /\ MAX \in Nat /\ Ok(e)
  BY HeapFacts, Sizes32 DEF Larger
<1>2. more \in Nat /\ more > need /\ more >= H + F /\ e.end = h.end + more
      /\ h.end \in START .. MAX /\ h.end + more - F = e.end - F /\ h.end < e.end
  BY <1>1 DEF Larger, H, F
<1>3. PICK f : /\ f = Footer(Header(e, h.end, 1, e.end - h.end), e.end - F, h.end)
               /\ Stores(f, e, h.end, more)
               /\ Word(f, h.end) = HEAP_MAGIC /\ Word(f, h.end + 1) = 1
               /\ SizeAt(f, h.end) = more /\ Footed(f, h.end)
  <2>1. PICK pos : pos = h.end
    OBVIOUS
  <2>2. PICK at : at = e.end
    OBVIOUS
  <2>3. /\ pos \in Nat /\ START <= pos /\ more \in Nat /\ more >= H + F
        /\ at = pos + more /\ at <= e.end /\ Ok(e)
    BY <1>1, <1>2, <2>1, <2>2
  <2>4. \E f : /\ f = Footer(Header(e, pos, 1, at - pos), at - F, pos)
               /\ Stores(f, e, pos, more)
               /\ Word(f, pos) = HEAP_MAGIC /\ Word(f, pos + 1) = 1
               /\ SizeAt(f, pos) = more /\ Footed(f, pos)
    BY <2>3, FrontIs
  <2> QED BY <2>1, <2>2, <2>4
<1>4. PICK g : g = Insert(f, h.end)
  OBVIOUS
<1>5. Ok(f) /\ f.end = e.end /\ f.index = h.index
  BY <1>3 DEF Stores, Larger
<1>6. /\ Ok(g) /\ g.end = e.end /\ Distinct(g.index) /\ ToSet(g.index) = {h.end}
      /\ \A x : Word(g, x) = Word(f, x)
  BY <1>2, <1>4, <1>5, InsertIs
<1>7. SizeAt(g, h.end) = more /\ Top(g, h.end) = e.end
  BY <1>2, <1>3, <1>6 DEF SizeAt, Top
<1>8. Footed(g, h.end) /\ Word(g, h.end) = HEAP_MAGIC /\ Word(g, h.end + 1) = 1
  <2>1. Top(f, h.end) = e.end
    BY <1>2, <1>3 DEF Top
  <2> QED BY <1>3, <1>6, <1>7, <2>1 DEF Footed
<1>9. \A x \in Int : x \notin h.end .. e.end - 1 => Word(g, x) = Word(h, x)
  BY <1>1, <1>2, <1>3, <1>6 DEF Stores, Larger
<1>10. \A a \in Bs : Top(h, a) <= h.end /\ a < h.end
  <2>1. \A a \in Bs : a \in {} \cup Bs
    OBVIOUS
  <2> QED BY <2>1, Chunks32
<1>11. Extends(h, g, {}, Bs, h.end, e.end)
  <2>1. h.end \notin Bs
    BY <1>1, <1>10
  <2>2. e.end <= g.end /\ h.end <= g.end /\ SizeAt(g, h.end) >= H + F
    <3>1. g.end = e.end /\ SizeAt(g, h.end) = more
      BY <1>6, <1>7
    <3>2. e.end <= g.end
      BY <1>1, <3>1
    <3>3. h.end <= g.end
      BY <1>1, <1>2, <3>1
    <3>4. SizeAt(g, h.end) >= H + F
      BY <1>2, <3>1 DEF H, F
    <3> QED BY <3>2, <3>3, <3>4
  <2> QED BY <1>1, <1>7, <1>8, <1>9, <1>10, <2>1, <2>2 DEF Extends
<1>12. Extended(h, g, {}, Bs, h.end, e.end)
  BY <1>6, <1>11, Extend
<1>13. Layout(g, ToSet(g.index), Bs) /\ \A b \in Bs : SizeAt(g, b) = SizeAt(h, b)
  <2>1. {} \cup {h.end} = ToSet(g.index)
    BY <1>6
  <2> QED BY <1>12, <2>1 DEF Extended
<1>14. Gap(g, ToSet(g.index) \cup Bs)
  <2>1. \A x \in Int : Cover(g, ToSet(g.index) \cup Bs, x)
                          <=> Cover(h, Bs, x) \/ x \in h.end .. h.end + more - 1
    <3>1. {} \cup {h.end} \cup Bs = ToSet(g.index) \cup Bs /\ {} \cup Bs = Bs
      BY <1>6
    <3>2. \A x \in Int : Cover(g, {} \cup {h.end} \cup Bs, x)
                            <=> Cover(h, {} \cup Bs, x) \/ x \in h.end .. e.end - 1
      BY <1>12 DEF Extended
    <3>3. h.end + more - 1 = e.end - 1
      BY <1>1, <1>2
    <3> QED BY <3>1, <3>2, <3>3, Zenon
  <2>2. \A x \in Int : Cover(h, Bs, x) => x < h.end
    <3>1. \A a \in Bs : Top(h, a) \in Nat /\ Top(h, a) <= h.end
      <4>1. \A a \in Bs : a \in {} \cup Bs
        OBVIOUS
      <4> QED BY <4>1, Chunks32
    <3> QED BY <1>1, <3>1 DEF Cover, In
  <2>3. \A x \in h.end .. h.end - 1 : Cover(h, Bs, x)
    BY <1>1
  <2>4. g.end = h.end + more /\ h.end <= h.end
    BY <1>1, <1>2, <1>6
  <2> QED BY <1>1, <1>2, <1>6, <2>1, <2>2, <2>3, <2>4, GapMoves
<1>15. \E a \in ToSet(g.index) : SizeAt(g, a) >= need
  BY <1>2, <1>6, <1>7
<1>16. g = Insert(Footer(Header(e, h.end, 1, more), h.end + more - F, h.end), h.end)
  BY <1>2, <1>3, <1>4
<1> QED BY <1>6, <1>13, <1>14, <1>15, <1>16 DEF Grown

LEMMA Lengthen ==
    ASSUME NEW h, Ok(h), Distinct(h.index), NEW Bs, Layout(h, ToSet(h.index), Bs),
           Gap(h, ToSet(h.index) \cup Bs), NEW need \in Nat, NEW e, Larger(h, e, need),
           NEW more, more = e.end - h.end, NEW last \in ToSet(h.index),
           \A a \in ToSet(h.index) \cup Bs : a <= last,
           NEW size, size = SizeAt(h, last) + more
    PROVE  Grown(h, Footer(Resize(e, last, size), last + size - F, last), Bs, need)
<1>1. /\ h.end \in Nat /\ START <= h.end /\ e.end \in Nat /\ e.end <= MAX /\ START \in Nat
      /\ MAX \in Nat /\ W \in Nat /\ MAX < W /\ Ok(e)
  BY HeapFacts, Sizes32 DEF Larger, HEAP_MAGIC
<1>2. PICK Hs : Hs = ToSet(h.index)
  OBVIOUS
<1>3. /\ last \in Nat /\ START <= last /\ last < h.end /\ last \in Hs
      /\ SizeAt(h, last) \in Nat /\ SizeAt(h, last) >= 5 /\ Top(h, last) = last + SizeAt(h, last)
      /\ Top(h, last) \in Nat /\ Top(h, last) <= h.end /\ Word(h, last) = HEAP_MAGIC
  BY <1>2, Chunks32
<1>4. Word(h, last + 1) = 1
  BY DEF Layout
<1>5. /\ more \in Nat /\ more > need /\ e.end = h.end + more /\ size \in 0 .. W - 1 /\ size \in Nat
      /\ last \in 0 .. W - 1 /\ last + H <= e.end /\ last + size <= e.end /\ size >= 6
  <2>1. more \in Nat /\ more > need /\ e.end = h.end + more
    BY <1>1 DEF Larger
  <2> QED BY <1>1, <1>3, <2>1 DEF H
<1>6. PICK r : r = Resize(e, last, size)
  OBVIOUS
<1>7. Stores(r, e, last + 2, 1) /\ SizeAt(r, last) = size
  <2>1. last \in Int
    BY <1>3
  <2>2. Ok(e) /\ START <= last /\ last + H <= e.end /\ size \in 0 .. W - 1
    BY <1>1, <1>3, <1>5
  <2> QED BY <1>6, <2>1, <2>2, ResizeIs
<1>8. Ok(r) /\ r.end = e.end /\ r.index = h.index
  BY <1>7 DEF Stores, Larger
<1>9. PICK g : g = Footer(r, last + size - F, last)
  OBVIOUS
<1>10. /\ Stores(g, r, last + size - F, F)
       /\ Word(g, last + size - F) = HEAP_MAGIC /\ Word(g, last + size - F + 1) = last
  <2>1. last + size - F \in Int /\ START <= last + size - F /\ last + size - F + F <= r.end
    BY <1>1, <1>3, <1>5, <1>8 DEF F
  <2>2. PICK a : a = last + size - F
    OBVIOUS
  <2>3. Stores(Footer(r, a, last), r, a, F) /\ Word(Footer(r, a, last), a) = HEAP_MAGIC
        /\ Word(Footer(r, a, last), a + 1) = last
    <3>1. Ok(r) /\ a \in Int /\ START <= a /\ a + F <= r.end /\ last \in 0 .. W - 1
      BY <1>5, <1>8, <2>1, <2>2
    <3> QED BY <3>1, FooterIs
  <2> QED BY <1>9, <2>2, <2>3
<1>11. Ok(g) /\ g.end = e.end /\ g.index = h.index
  BY <1>8, <1>10 DEF Stores
<1>12. \A x \in {last, last + 1, last + 2} : Word(g, x) = Word(r, x)
  BY <1>3, <1>5, <1>10 DEF Stores, F
<1>13. Word(r, last) = HEAP_MAGIC /\ Word(r, last + 1) = 1
  BY <1>3, <1>4, <1>7 DEF Stores, Larger
<1>14. /\ SizeAt(g, last) = size /\ Top(g, last) = last + size
       /\ Word(g, last) = HEAP_MAGIC /\ Word(g, last + 1) = 1
  BY <1>7, <1>12, <1>13 DEF SizeAt, Top
<1>15. Footed(g, last)
  <2>1. last + size - F + 1 = last + size - 1
    BY <1>3, <1>5 DEF F
  <2>2. Top(g, last) = last + size
    BY <1>14
  <2>3. (last + size) - F = last + size - F /\ (last + size) - 1 = last + size - F + 1
    BY <1>3, <1>5 DEF F
  <2> QED BY <1>10, <2>2, <2>3, Zenon DEF Footed
<1>16. \A x \in Int : x \notin last .. last + size - 1 => Word(g, x) = Word(h, x)
  <2>1. ASSUME NEW x \in Int, x \notin last .. last + size - 1
        PROVE  x \notin last + size - F .. last + size - F + F - 1 /\ x \notin last + 2 .. last + 2 + 1 - 1
    BY <1>3, <1>5, <2>1 DEF F
  <2> QED BY <1>7, <1>10, <2>1 DEF Stores, Larger
<1>17. \A a \in Hs \cup Bs : a \in Nat /\ Top(h, a) \in Nat /\ Top(h, a) > a
  BY <1>2, Chunks32
<1>18. \A a \in (Hs \cup Bs) \ {last} : Top(h, a) <= last
  <2> SUFFICES ASSUME NEW a \in (Hs \cup Bs) \ {last} PROVE Top(h, a) <= last
    OBVIOUS
  <2>1. a <= last /\ a # last /\ a \in Nat
    BY <1>2, <1>17
  <2>2. a < last
    BY <1>3, <2>1
  <2> QED BY <1>2, <1>3, <2>2 DEF Layout
<1>19. Extends(h, g, Hs, Bs, last, last + size)
  <2>1. last \notin Bs /\ \A a \in Hs : Top(h, a) # last
    BY <1>2, <1>3 DEF Layout
  <2>2. /\ last + size <= g.end /\ h.end <= g.end /\ SizeAt(g, last) >= H + F
        /\ Top(h, last) <= last + size
    <3>1. g.end = e.end /\ SizeAt(g, last) = size
      BY <1>11, <1>14
    <3>2. last + size <= g.end
      BY <1>5, <3>1
    <3>3. h.end <= g.end
      BY <1>1, <1>5, <3>1
    <3>4. SizeAt(g, last) >= H + F
      <4>1. size >= H + F
        BY <1>5 DEF H, F
      <4> QED BY <3>1, <4>1
    <3>5. Top(h, last) <= last + size
      BY <1>3, <1>5
    <3> QED BY <3>2, <3>3, <3>4, <3>5
  <2> QED BY <1>2, <1>3, <1>14, <1>15, <1>16, <1>18, <2>1, <2>2 DEF Extends
<1>20. Extended(h, g, Hs, Bs, last, last + size)
  BY <1>11, <1>19, Extend
<1>21. Layout(g, ToSet(g.index), Bs) /\ \A b \in Bs : SizeAt(g, b) = SizeAt(h, b)
  <2>1. Hs \cup {last} = ToSet(g.index)
    BY <1>2, <1>3, <1>11
  <2> QED BY <1>20, <2>1 DEF Extended
<1>22. Gap(g, ToSet(g.index) \cup Bs)
  <2>1. PICK t : t = Top(h, last)
    OBVIOUS
  <2>2. t \in Nat /\ t + more = last + size /\ last <= t /\ last < t /\ t <= h.end
    BY <1>3, <1>5, <2>1
  <2>3. \A x \in Int : Cover(g, ToSet(g.index) \cup Bs, x)
                          <=> Cover(h, Hs \cup Bs, x) \/ x \in last .. t + more - 1
    <3>1. Hs \cup {last} \cup Bs = ToSet(g.index) \cup Bs
      BY <1>2, <1>3, <1>11
    <3>2. \A x \in Int : Cover(g, Hs \cup {last} \cup Bs, x)
                            <=> Cover(h, Hs \cup Bs, x) \/ x \in last .. (last + size) - 1
      BY <1>20, Zenon DEF Extended
    <3>3. (last + size) - 1 = t + more - 1
      BY <1>3, <1>5, <2>2
    <3> QED BY <3>1, <3>2, <3>3, Zenon
  <2>4. \A x \in Int : Cover(h, Hs \cup Bs, x) => x < t
    <3>1. \A a \in Hs \cup Bs : Top(h, a) \in Nat /\ Top(h, a) <= t
      BY <1>3, <1>17, <1>18, <2>1, <2>2
    <3> QED BY <2>2, <3>1 DEF Cover, In
  <2>5. \A x \in last .. t - 1 : Cover(h, Hs \cup Bs, x)
    BY <1>3, <2>1, <2>2 DEF Cover, In
  <2>6. g.end = h.end + more /\ Gap(h, Hs \cup Bs) /\ Ok(g)
    BY <1>2, <1>5, <1>11
  <2> QED BY <1>3, <1>5, <2>2, <2>3, <2>4, <2>5, <2>6, GapMoves
<1>23. \E a \in ToSet(g.index) : SizeAt(g, a) >= need
  BY <1>3, <1>5, <1>11, <1>14, <1>2
<1> QED BY <1>6, <1>9, <1>11, <1>21, <1>22, <1>23 DEF Grown

LEMMA EndmostHole ==
    ASSUME NEW h, Ok(h), ToSet(h.index) # {}
    PROVE  \E a \in ToSet(h.index) : \A b \in ToSet(h.index) : b <= a
<1>1. h.index \in Seq(START .. MAX) /\ START \in Nat /\ MAX \in Nat
  BY HeapFacts, Sizes32
<1>2. \A a \in ToSet(h.index) : a \in Nat /\ a <= MAX
  BY <1>1 DEF ToSet
<1>3. PICK S : S = {MAX - a : a \in ToSet(h.index)}
  OBVIOUS
<1>4. S \in SUBSET Nat /\ S # {}
  BY <1>1, <1>2, <1>3
<1>5. PICK m \in S : \A k \in S : m <= k
  BY <1>4, LeastNumber
<1>6. PICK a \in ToSet(h.index) : m = MAX - a
  BY <1>3, <1>5
<1>7. \A b \in ToSet(h.index) : MAX - a <= MAX - b
  BY <1>3, <1>5, <1>6
<1>8. \A b \in ToSet(h.index) : b <= a
  BY <1>1, <1>2, <1>7
<1> QED BY <1>8

\* Unless a block lies behind the last hole.
LEMMA GrowIs ==
    ASSUME NEW h, Ok(h), Distinct(h.index), NEW Bs, Layout(h, ToSet(h.index), Bs),
           Gap(h, ToSet(h.index) \cup Bs), NEW need \in Nat, need >= H + F,
           ToSet(h.index) # {} => \A b \in Bs : \E a \in ToSet(h.index) : b <= a
    PROVE  \/ IsHeap(Grow(h, need)) /\ Grow(h, need).status = "full"
           \/ Grown(h, Grow(h, need), Bs, need)
<1>1. PICK e : e = expand(h, h.end - START + need)
  OBVIOUS
<1>2. (IsHeap(e) /\ e.status = "full") \/ Larger(h, e, need)
  BY <1>1, ExpandIs DEF Larger
<1>3. CASE IsHeap(e) /\ e.status = "full"
  <2>1. Grow(h, need) = e
    BY <1>1, <1>3 DEF Grow
  <2> QED BY <1>3, <2>1
<1>4. CASE Larger(h, e, need)
  <2>1. PICK more : more = e.end - h.end
    OBVIOUS
  <2>2. e.status = "ok"
    BY <1>4 DEF Larger, Ok
  <2>3. CASE ToSet(h.index) = {}
    <3>1. Grow(h, need) =
            Insert(Footer(Header(e, h.end, 1, more), h.end + more - F, h.end), h.end)
      BY <1>1, <2>1, <2>2, <2>3 DEF Grow
    <3>2. Layout(h, {}, Bs) /\ Gap(h, Bs)
      <4>1. {} \cup Bs = Bs
        OBVIOUS
      <4> QED BY <2>3, <4>1
    <3> QED BY <1>4, <2>1, <2>3, <3>1, <3>2, NewHole
  <2>4. CASE ToSet(h.index) # {}
    <3>1. PICK last : last = CHOOSE a \in ToSet(h.index) : \A b \in ToSet(h.index) : b <= a
      OBVIOUS
    <3>2. last \in ToSet(h.index) /\ \A b \in ToSet(h.index) : b <= last
      BY <2>4, <3>1, EndmostHole
    <3>3. PICK size : size = SizeAt(h, last) + more
      OBVIOUS
    <3>4. SizeAt(e, last) = SizeAt(h, last)
      BY <1>4 DEF Larger, SizeAt
    <3>5. Grow(h, need) = Footer(Resize(e, last, size), last + size - F, last)
      BY <1>1, <2>1, <2>2, <2>4, <3>1, <3>3 DEF Grow
    <3>6. \A a \in ToSet(h.index) \cup Bs : a <= last
      <4> SUFFICES ASSUME NEW b \in Bs PROVE b <= last
        BY <3>2
      <4>1. PICK a \in ToSet(h.index) : b <= a
        BY <2>4
      <4>2. a \in Nat /\ b \in Nat /\ last \in Nat /\ a <= last
        BY <3>2 DEF Layout
      <4> QED BY <4>1, <4>2
    <3> QED BY <1>4, <2>1, <3>2, <3>3, <3>5, <3>6, Lengthen
  <2> QED BY <2>3, <2>4
<1> QED BY <1>2, <1>3, <1>4

-----------------------------------------------------------------------------
(* kalloc.                                                                 *)

\* The heap h is in order, with the blocks Bs.
Sound(h, Bs) ==
    /\ Ok(h) /\ Distinct(h.index) /\ Layout(h, ToSet(h.index), Bs)
    /\ Gap(h, ToSet(h.index) \cup Bs)

LEMMA SoundRetiled ==
    ASSUME NEW h, NEW g, NEW Bs, NEW Bn, Sound(h, Bs), Ok(g), g.end = h.end, Distinct(g.index),
           Retiled(h, g, ToSet(h.index), Bs, ToSet(g.index), Bn)
    PROVE  Sound(g, Bn)
<1>1. START \in Nat /\ h.end \in Nat
  BY HeapFacts, Sizes32 DEF Sound
<1>2. PICK gap \in START .. h.end - LeftOut : \A x \in START .. h.end - 1 :
         Cover(h, ToSet(h.index) \cup Bs, x) <=> x \notin gap .. gap + LeftOut - 1
  BY DEF Sound, Gap
<1>3. \A x \in START .. h.end - 1 :
         Cover(g, ToSet(g.index) \cup Bn, x) <=> Cover(h, ToSet(h.index) \cup Bs, x)
  <2>1. \A x \in Int :
         Cover(g, ToSet(g.index) \cup Bn, x) <=> Cover(h, ToSet(h.index) \cup Bs, x)
    BY DEF Retiled
  <2>2. \A x \in START .. h.end - 1 : x \in Int
    BY <1>1
  <2> QED BY <2>1, <2>2
<1>4. Gap(g, ToSet(g.index) \cup Bn)
  BY <1>2, <1>3 DEF Gap
<1> QED BY <1>4 DEF Sound, Retiled

\* find_smallest_hole gives 0 when no hole is big enough, else one that is.
Found(h, need, k) ==
    \/ k = 0 /\ \A a \in ToSet(h.index) : SizeAt(h, a) < need
    \/ /\ k \in Nat /\ k >= 1 /\ h.index[k] \in ToSet(h.index)
       /\ SizeAt(h, h.index[k]) >= need

LEMMA FindIs ==
    ASSUME NEW h, NEW Bs, Sound(h, Bs), NEW need \in Nat, NEW align \in BOOLEAN
    PROVE  Found(h, need, find_smallest_hole(h, need, align))
<1> DEFINE fit == {i \in DOMAIN h.index : Fits(h, h.index[i], need, align)}
           bad == {i \in DOMAIN h.index : Word(h, h.index[i]) # HEAP_MAGIC}
           first(S) == CHOOSE i \in S : \A k \in S : i <= k
<1>1. h.index \in Seq(START .. MAX) /\ DOMAIN h.index = 1 .. Len(h.index) /\ Len(h.index) \in Nat
  BY HeapFacts DEF Sound
<1>2. \A i \in DOMAIN h.index : h.index[i] \in ToSet(h.index)
  BY DEF ToSet
<1>3. \A a \in ToSet(h.index) : /\ Word(h, a) = HEAP_MAGIC /\ SizeAt(h, a) \in Nat
                                /\ SizeAt(h, a) <= MAX - START
  BY Chunks32 DEF Sound
<1>4. bad = {}
  BY <1>2, <1>3
<1>5. \A a \in ToSet(h.index) : Fits(h, a, need, align) <=> SizeAt(h, a) >= need
  <2>1. W \div 2 \in Nat /\ MAX - START < W \div 2 /\ MAX \in Nat /\ START \in Nat
    BY Sizes32
  <2>2. \A a \in ToSet(h.index) : SizeAt(h, a) < W \div 2
    BY <1>3, <2>1
  <2> QED BY <2>2 DEF Fits
<1>6. find_smallest_hole(h, need, align) = IF fit = {} THEN 0 ELSE first(fit)
  BY <1>4 DEF find_smallest_hole
<1>7. CASE fit = {}
  <2>1. \A a \in ToSet(h.index) : ~(SizeAt(h, a) >= need)
    BY <1>5, <1>7 DEF ToSet
  <2>2. \A a \in ToSet(h.index) : SizeAt(h, a) < need
    BY <1>3, <2>1
  <2>3. find_smallest_hole(h, need, align) = 0
    BY <1>6, <1>7
  <2> QED BY <2>2, <2>3 DEF Found
<1>8. CASE fit # {}
  <2>1. fit \in SUBSET Nat
    BY <1>1
  <2>2. \E m \in fit : \A k \in fit : m <= k
    BY <1>8, <2>1, LeastNumber
  <2>3. PICK k : k = first(fit)
    OBVIOUS
  <2>4. k \in fit
    BY <2>2, <2>3
  <2>5. k \in Nat /\ k >= 1 /\ h.index[k] \in ToSet(h.index) /\ SizeAt(h, h.index[k]) >= need
    BY <1>1, <1>2, <1>5, <2>4
  <2>6. find_smallest_hole(h, need, align) = k
    BY <1>6, <1>8, <2>3
  <2> QED BY <2>5, <2>6 DEF Found
<1> QED BY <1>7, <1>8

\* r is what kalloc gives: the heap g, with a new block of need words or more.
Allocated(h, r, Bs, need) ==
    \E g, at :
       /\ r = [heap |-> g, at |-> at + H] /\ at \in Nat /\ at \notin Bs
       /\ Sound(g, Bs \cup {at}) /\ SizeAt(g, at) >= need
       /\ \A b \in Bs : SizeAt(g, b) = SizeAt(h, b)

LEMMA CarvedIs ==
    ASSUME NEW h, NEW g, NEW r, NEW Bs, NEW need, Sound(g, Bs), Carved(g, r, Bs, need),
           \A b \in Bs : SizeAt(g, b) = SizeAt(h, b)
    PROVE  Allocated(h, r, Bs, need)
<1>1. PICK i, at :
         /\ r = [heap |-> i, at |-> at + H] /\ at \in Nat /\ at \notin Bs
         /\ Ok(i) /\ i.end = g.end /\ Distinct(i.index) /\ SizeAt(i, at) >= need
         /\ Retiled(g, i, ToSet(g.index), Bs, ToSet(i.index), Bs \cup {at})
  BY DEF Carved
<1>2. Sound(i, Bs \cup {at})
  BY <1>1, SoundRetiled
<1>3. \A b \in Bs : SizeAt(i, b) = SizeAt(h, b)
  <2>1. \A b \in Bs : b \in Bs \cap (Bs \cup {at})
    OBVIOUS
  <2> QED BY <1>1, <2>1 DEF Retiled
<1> QED BY <1>1, <1>2, <1>3 DEF Allocated

\* The heap from which kalloc takes the block.
Ready(h, need, align) ==
    IF find_smallest_hole(h, need, align) = 0 THEN Grow(h, need) ELSE h

\* No block lies behind the last hole of the index.
LastIsHole(h, Bs) == \A b \in Bs : \E a \in ToSet(h.index) : b <= a

\* g is h with a hole of need words.
Prepared(h, g, Bs, need) ==
    /\ Sound(g, Bs) /\ \A b \in Bs : SizeAt(g, b) = SizeAt(h, b)
    /\ \E a \in ToSet(g.index) : SizeAt(g, a) >= need

LEMMA ReadyIs ==
    ASSUME NEW h, NEW Bs, Sound(h, Bs), NEW need \in Nat, need >= H + F, NEW align \in BOOLEAN,
           Grows(h, need, align) /\ h.index # <<>> => LastIsHole(h, Bs),
           NEW g, g = Ready(h, need, align)
    PROVE  (IsHeap(g) /\ g.status = "full") \/ Prepared(h, g, Bs, need)
<1>1. Found(h, need, find_smallest_hole(h, need, align))
  BY FindIs
<1>2. CASE find_smallest_hole(h, need, align) = 0
  <2>1. g = Grow(h, need) /\ Grows(h, need, align)
    BY <1>2 DEF Ready, Grows
  <2>2. ToSet(h.index) # {} => \A b \in Bs : \E a \in ToSet(h.index) : b <= a
    <3>1. h.index = <<>> => ToSet(h.index) = {}
      BY DEF ToSet
    <3> QED BY <2>1, <3>1 DEF LastIsHole
  <2>3. (IsHeap(Grow(h, need)) /\ Grow(h, need).status = "full") \/ Grown(h, Grow(h, need), Bs, need)
    BY <2>2, GrowIs DEF Sound
  <2> QED BY <2>1, <2>3 DEF Grown, Sound, Prepared
<1>3. CASE find_smallest_hole(h, need, align) # 0
  <2>1. g = h
    BY <1>3 DEF Ready
  <2>2. \E a \in ToSet(h.index) : SizeAt(h, a) >= need
    BY <1>1, <1>3 DEF Found
  <2> QED BY <2>1, <2>2 DEF Prepared
<1> QED BY <1>2, <1>3

LEMMA KallocIs ==
    ASSUME NEW h, NEW Bs, Sound(h, Bs), NEW size \in Nat, NEW align \in BOOLEAN,
           NEW need, need = size + H + F,
           Grows(h, need, align) /\ h.index # <<>> => LastIsHole(h, Bs),
           align => ~Tight(h, need),
           NEW r, r = kalloc(h, size, align)
    PROVE  \/ IsHeap(r.heap) /\ r.heap.status = "full"
           \/ Allocated(h, r, Bs, need)
<1>1. need \in Nat /\ need >= H + F
  BY DEF H, F
<1>2. PICK g : g = Ready(h, need, align)
  OBVIOUS
<1>3. PICK k : k = find_smallest_hole(g, need, align)
  OBVIOUS
<1>4. r = IF g.status # "ok" THEN [heap |-> g, at |-> 0]
          ELSE IF k < 1 THEN [heap |-> Fail(g, "panic"), at |-> 0]
          ELSE Carve(g, g.index[k], size, align)
  BY <1>2, <1>3 DEF kalloc, Ready
<1>5. (IsHeap(g) /\ g.status = "full") \/ Prepared(h, g, Bs, need)
  BY <1>1, <1>2, ReadyIs
<1>6. CASE IsHeap(g) /\ g.status = "full"
  BY <1>4, <1>6
<1>7. CASE Prepared(h, g, Bs, need)
  <2>1. Found(g, need, k)
    BY <1>1, <1>3, <1>7, FindIs DEF Prepared
  <2>2. PICK a \in ToSet(g.index) : SizeAt(g, a) >= need
    BY <1>7 DEF Prepared
  <2>3. ~(SizeAt(g, a) < need)
    <3>1. SizeAt(g, a) \in Nat
      BY <1>7, SizeFacts DEF Sound, Prepared
    <3> QED BY <1>1, <2>2, <3>1
  <2>4. k \in Nat /\ k >= 1 /\ g.index[k] \in ToSet(g.index) /\ SizeAt(g, g.index[k]) >= need
    BY <2>1, <2>2, <2>3 DEF Found
  <2>5. g.status = "ok"
    BY <1>7 DEF Prepared, Sound, Ok
  <2>6. PICK pos \in ToSet(g.index) : pos = g.index[k]
    BY <2>4
  <2>7. r = Carve(g, pos, size, align)
    BY <1>4, <2>4, <2>5, <2>6
  <2>8. Ok(g) /\ Distinct(g.index) /\ Layout(g, ToSet(g.index), Bs)
    BY <1>7 DEF Prepared, Sound
  <2>9. CASE align = FALSE
    <3>1. SizeAt(g, pos) >= size + H + F
      BY <2>4, <2>6
    <3>2. Carved(g, r, Bs, need)
      BY <2>7, <2>8, <2>9, <3>1, CarvePlain
    <3> QED BY <1>7, <3>2, CarvedIs DEF Prepared
  <2>10. CASE align = TRUE
    <3>1. PICK front : front = FrontSize(pos)
      OBVIOUS
    <3>2. PICK rest : rest = SizeAt(g, pos) - front - need
      OBVIOUS
    <3>3. ~(front < H + F) /\ ~(rest < H + F /\ rest # 0)
      <4>1. ~Tight(h, need) /\ k > 0
        BY <2>4, <2>10
      <4> QED BY <1>2, <1>3, <2>5, <2>6, <2>10, <3>1, <3>2, <4>1 DEF Tight, Ready, Grows, FrontSize
    <3>4. front >= H + F /\ (rest = 0 \/ rest >= H + F)
      <4>1. pos \in Nat /\ SizeAt(g, pos) \in Nat
        BY <2>8, Chunks32
      <4>2. front \in Int
        <5>1. pos % PAGE \in 0 .. PAGE - 1
          BY <4>1, PageEnd
        <5>2. PAGE \in Nat
          BY Sizes32
        <5>3. pos % PAGE \in Nat
          BY <5>1, <5>2
        <5> QED BY <3>1, <5>2, <5>3 DEF FrontSize, H
      <4>3. rest \in Int
        BY <1>1, <3>2, <4>1, <4>2
      <4> QED BY <3>3, <4>2, <4>3 DEF H, F
    <3>5. Carved(g, r, Bs, need)
      BY <2>7, <2>8, <2>10, <3>1, <3>2, <3>4, CarveAligned
    <3> QED BY <1>7, <3>5, CarvedIs DEF Prepared
  <2> QED BY <2>9, <2>10
<1> QED BY <1>5, <1>6, <1>7

-----------------------------------------------------------------------------
(* freeh.                                                                  *)

\* hd is the hole that ends where own begins, own itself when there is none.
LeftOf(h, Hs, own, hd) ==
    \/ hd = own /\ \A a \in Hs : Top(h, a) # own
    \/ hd \in Hs /\ Top(h, hd) = own

LEMMA LeftIs ==
    ASSUME NEW h, Ok(h), NEW Hs, Hs = ToSet(h.index), NEW Bs, Layout(h, Hs, Bs),
           NEW own \in Bs, ~StaleLeft(h, own)
    PROVE  LeftOf(h, Hs, own, LeftHole(h, own))
<1>1. \A a \in Hs \cup Bs : /\ a \in Nat /\ SizeAt(h, a) \in Nat /\ SizeAt(h, a) >= 5
                            /\ Top(h, a) = a + SizeAt(h, a) /\ Top(h, a) \in Nat
  BY Chunks32
<1>2. own \in Nat
  BY <1>1
<1>3. HEAP_MAGIC # 0
  BY Sizes32
<1>4. CASE \E c \in Hs \cup Bs : In(h, c, own - 1)
  <2>1. PICK c \in Hs \cup Bs : In(h, c, own - 1)
    BY <1>4
  <2>2. Top(h, c) = own
    <3>1. c < own /\ own - 1 < Top(h, c)
      BY <1>1, <1>2, <2>1 DEF In
    <3>2. Top(h, c) <= own
      BY <3>1 DEF Layout
    <3> QED BY <1>1, <1>2, <3>1, <3>2
  <2>3. CASE c \in Hs
    <3>1. Footed(h, c)
      BY <2>2, <2>3 DEF StaleLeft, HasFooter, RightOf, Footed, Top
    <3>2. Word(h, own - F) = HEAP_MAGIC /\ Word(h, own - 1) = c
      BY <2>2, <3>1 DEF Footed
    <3>3. Word(h, c + 1) = 1
      BY <2>3 DEF Layout
    <3>4. LeftHole(h, own) = c
      BY <3>2, <3>3 DEF LeftHole
    <3> QED BY <2>2, <2>3, <3>4 DEF LeftOf
  <2>4. CASE c \in Bs
    <3>1. Footed(h, c) /\ Word(h, c + 1) = 0
      BY <2>4 DEF Layout
    <3>2. Word(h, own - 1) = c
      BY <2>2, <3>1 DEF Footed
    <3>3. LeftHole(h, own) = own
      BY <3>1, <3>2 DEF LeftHole
    <3>4. ASSUME NEW a \in Hs, Top(h, a) = own PROVE FALSE
      <4>1. a # c
        BY <2>4 DEF Layout
      <4>2. a < c \/ c < a
        BY <1>1, <4>1
      <4>3. Top(h, a) <= c \/ Top(h, c) <= a
        BY <4>2 DEF Layout
      <4>4. /\ a \in Nat /\ SizeAt(h, a) \in Nat /\ SizeAt(h, a) >= 5
            /\ Top(h, a) = a + SizeAt(h, a)
        BY <1>1
      <4>5. /\ c \in Nat /\ SizeAt(h, c) \in Nat /\ SizeAt(h, c) >= 5
            /\ Top(h, c) = c + SizeAt(h, c)
        BY <1>1
      <4> QED BY <1>2, <2>2, <3>4, <4>3, <4>4, <4>5
    <3> QED BY <3>3, <3>4 DEF LeftOf
  <2> QED BY <2>3, <2>4
<1>5. CASE ~ \E c \in Hs \cup Bs : In(h, c, own - 1)
  <2>1. ASSUME NEW a \in Hs, Top(h, a) = own PROVE FALSE
    <3>1. a <= own - 1 /\ own - 1 < Top(h, a)
      BY <1>1, <2>1
    <3> QED BY <1>5, <3>1 DEF In
  <2>2. Word(h, own - F) # HEAP_MAGIC
    <3> SUFFICES ASSUME Word(h, own - F) = HEAP_MAGIC PROVE FALSE
      OBVIOUS
    <3>1. PICK c \in Hs \cup Bs : In(h, c, own - F)
      <4>1. own - F \in Int /\ Word(h, own - F) # 0
        BY <1>2, <1>3 DEF F
      <4> QED BY <4>1 DEF Layout, Cover
    <3>2. ~In(h, c, own - 1)
      BY <1>5
    <3>3. Top(h, c) = own - 1
      BY <1>1, <1>2, <3>1, <3>2 DEF In, F
    <3>4. Top(h, c) - 1 = own - F
      BY <1>2, <3>3 DEF F
    <3>5. Word(h, Top(h, c) - 1) # HEAP_MAGIC
      BY DEF Layout, Chunk
    <3> QED BY <3>4, <3>5
  <2>3. LeftHole(h, own) = own
    BY <2>2 DEF LeftHole
  <2> QED BY <2>1, <2>3 DEF LeftOf
<1> QED BY <1>4, <1>5

\* In l the words from hd to right are one hole.
Merged(h, l, hd, right) ==
    /\ Ok(l) /\ l.end = h.end /\ l.index = h.index
    /\ Word(l, hd) = HEAP_MAGIC /\ Word(l, hd + 1) = 1 /\ SizeAt(l, hd) = right - hd
    /\ Word(l, right - F) = HEAP_MAGIC /\ Word(l, right - 1) = hd
    /\ \A x \in Int : x \notin hd .. right - 1 => Word(l, x) = Word(h, x)

LEMMA MergedLeft ==
    ASSUME NEW h, Ok(h), NEW Hs, NEW Bs, Layout(h, Hs, Bs), NEW own \in Bs,
           NEW hd, LeftOf(h, Hs, own, hd), NEW right, right = Top(h, own)
    PROVE  Merged(h, UnifyLeft(Store(h, own + 1, <<1>>), own, hd, right - F), hd, right)
<1>1. /\ own \in Nat /\ START <= own /\ SizeAt(h, own) \in Nat /\ SizeAt(h, own) >= 5
      /\ right = own + SizeAt(h, own) /\ right \in Nat /\ right <= h.end
      /\ Word(h, own) = HEAP_MAGIC
  <2>1. own \in Hs \cup Bs
    OBVIOUS
  <2> QED BY <2>1, Chunks32
<1>2. Word(h, right - F) = HEAP_MAGIC /\ Word(h, right - 1) = own
  BY DEF Layout, Footed
<1>3. /\ h.end \in Nat /\ h.end < W /\ W \in Nat /\ START \in Nat /\ 1 \in 0 .. W - 1
  BY HeapFacts, Sizes32
<1>4. PICK s : s = Store(h, own + 1, <<1>>)
  OBVIOUS
<1>5. Stores(s, h, own + 1, 1) /\ Word(s, own + 1) = 1
  <2>1. own + 1 \in Int /\ START <= own + 1 /\ own + 1 + 1 <= h.end
    BY <1>1, <1>3
  <2> QED BY <1>3, <1>4, <2>1, WordIs
<1>6. Ok(s) /\ s.end = h.end /\ s.index = h.index
  BY <1>5 DEF Stores
<1>7. \A x \in Int : x # own + 1 => Word(s, x) = Word(h, x)
  BY <1>1, <1>5 DEF Stores
<1>8. CASE hd = own
  <2>1. UnifyLeft(s, own, hd, right - F) = s
    BY <1>8 DEF UnifyLeft
  <2>2. /\ Word(s, own) = HEAP_MAGIC /\ Word(s, own + 2) = Word(h, own + 2)
        /\ Word(s, right - F) = HEAP_MAGIC /\ Word(s, right - 1) = own
    BY <1>1, <1>2, <1>7 DEF F
  <2>3. SizeAt(s, own) = right - own
    <3>1. SizeAt(s, own) = SizeAt(h, own)
      BY <2>2 DEF SizeAt
    <3> QED BY <1>1, <3>1
  <2>4. \A x \in Int : x \notin own .. right - 1 => Word(s, x) = Word(h, x)
    BY <1>1, <1>7
  <2> QED BY <1>4, <1>5, <1>6, <1>8, <2>1, <2>2, <2>3, <2>4 DEF Merged
<1>9. CASE hd # own
  <2>1. hd \in Hs /\ Top(h, hd) = own
    BY <1>9 DEF LeftOf
  <2>2. /\ hd \in Nat /\ START <= hd /\ SizeAt(h, hd) \in Nat /\ SizeAt(h, hd) >= 5
        /\ own = hd + SizeAt(h, hd) /\ Word(h, hd) = HEAP_MAGIC
    BY <2>1, Chunks32
  <2>3. Word(h, hd + 1) = 1
    BY <2>1 DEF Layout
  <2>4. PICK u : u = Store(s, right - F + 1, <<hd>>)
    OBVIOUS
  <2>5. Stores(u, s, right - 1, 1) /\ Word(u, right - 1) = hd
    <3>1. right - F + 1 = right - 1
      BY <1>1 DEF F
    <3>2. right - 1 \in Int /\ START <= right - 1 /\ right - 1 + 1 <= s.end /\ hd \in 0 .. W - 1
      BY <1>1, <1>3, <1>6, <2>2
    <3>3. u = Store(s, right - 1, <<hd>>)
      BY <2>4, <3>1
    <3> QED BY <1>6, <3>2, <3>3, WordIs
  <2>6. Ok(u) /\ u.end = h.end /\ u.index = h.index
    BY <1>6, <2>5 DEF Stores
  <2>7. SizeAt(s, hd) = SizeAt(h, hd) /\ SizeAt(s, own) = SizeAt(h, own)
    <3>1. Word(s, hd + 2) = Word(h, hd + 2) /\ Word(s, own + 2) = Word(h, own + 2)
      BY <1>1, <1>7, <2>2
    <3> QED BY <3>1 DEF SizeAt
  <2>8. SizeAt(s, hd) + SizeAt(s, own) = right - hd /\ right - hd \in 0 .. W - 1
    <3>1. SizeAt(s, hd) + SizeAt(s, own) = SizeAt(h, hd) + SizeAt(h, own)
      BY <2>7
    <3> QED BY <1>1, <1>3, <2>2, <3>1
  <2>9. PICK l : l = Resize(u, hd, right - hd)
    OBVIOUS
  <2>10. UnifyLeft(s, own, hd, right - F) = l
    BY <1>9, <2>4, <2>8, <2>9 DEF UnifyLeft
  <2>11. Stores(l, u, hd + 2, 1) /\ SizeAt(l, hd) = right - hd
    <3>1. hd \in Int /\ START <= hd /\ hd + H <= u.end
      <4>1. hd \in Int /\ hd + H <= own
        BY <2>2 DEF H
      <4>2. own <= u.end
        BY <1>1, <1>3, <2>6
      <4>3. u.end \in Int
        BY <1>3, <2>6
      <4>4. hd + H <= u.end
        BY <1>1, <4>1, <4>2, <4>3 DEF H
      <4> QED BY <2>2, <4>1, <4>4
    <3> QED BY <2>6, <2>8, <2>9, <3>1, ResizeIs
  <2>12. Ok(l) /\ l.end = h.end /\ l.index = h.index
    BY <2>6, <2>11 DEF Stores
  <2>13. \A x \in Int : x # hd + 2 => Word(l, x) = Word(u, x)
    BY <2>2, <2>11 DEF Stores
  <2>14. \A x \in Int : x # right - 1 => Word(u, x) = Word(s, x)
    BY <1>1, <2>5 DEF Stores
  <2>15. Word(l, hd) = HEAP_MAGIC /\ Word(l, hd + 1) = 1
    BY <1>1, <1>7, <2>2, <2>3, <2>13, <2>14
  <2>16. Word(l, right - F) = HEAP_MAGIC /\ Word(l, right - 1) = hd
    BY <1>1, <1>2, <1>7, <2>2, <2>5, <2>13, <2>14 DEF F
  <2>17. \A x \in Int : x \notin hd .. right - 1 => Word(l, x) = Word(h, x)
    BY <1>1, <1>7, <2>2, <2>13, <2>14
  <2> QED BY <1>4, <2>10, <2>11, <2>12, <2>15, <2>16, <2>17 DEF Merged
<1> QED BY <1>8, <1>9

\* What begins where own ends is a hole in the index or no hole at all.
LEMMA RightIs ==
    ASSUME NEW h, Ok(h), NEW Hs, NEW Bs, Layout(h, Hs, Bs), NEW own \in Bs,
           NEW right, right = Top(h, own)
    PROVE  IsHole(h, right) <=> right \in Hs
<1>1. own \in Nat /\ right \in Nat /\ right > own /\ own \in Hs \cup Bs
  BY Chunks32
<1>2. ASSUME right \in Hs PROVE IsHole(h, right)
  BY <1>2 DEF Layout, Chunk, IsHole
<1>3. ASSUME IsHole(h, right) PROVE right \in Hs
  <2>1. Word(h, right) # 0 /\ Word(h, right + 1) = 1
    BY <1>3, Sizes32 DEF IsHole
  <2>2. PICK c \in Hs \cup Bs : In(h, c, right)
    BY <1>1, <2>1 DEF Layout, Cover
  <2>3. c \in Nat /\ c <= right /\ right < Top(h, c) /\ Top(h, c) \in Nat
    BY <2>2, Chunks32 DEF In
  <2>4. c = right
    <3>1. c # own
      BY <1>1, <2>3
    <3>2. CASE c < own
      <4>1. Top(h, c) <= own
        BY <1>1, <3>2 DEF Layout
      <4> QED BY <1>1, <2>3, <4>1
    <3>3. CASE own < c
      <4>1. right <= c
        BY <1>1, <3>3 DEF Layout
      <4> QED BY <1>1, <2>3, <4>1
    <3> QED BY <1>1, <2>3, <3>1, <3>2, <3>3
  <2> QED BY <2>1, <2>4 DEF Layout
<1> QED BY <1>2, <1>3

\* In g the block own, the hole hd in front of it and the hole behind it are one.
Frees(h, g, Hs, Bs, own, hd, right, hi) ==
    /\ Layout(h, Hs, Bs) /\ own \in Bs /\ LeftOf(h, Hs, own, hd) /\ right = Top(h, own)
    /\ \/ right \notin Hs /\ hi = right /\ Word(g, hi - F) = HEAP_MAGIC /\ Word(g, hi - 1) = hd
       \/ /\ right \in Hs /\ hi = Top(h, right)
          /\ Word(g, hi - 1) = Word(h, hi - 1)
    /\ Word(g, hd) = HEAP_MAGIC /\ Word(g, hd + 1) = 1 /\ SizeAt(g, hd) = hi - hd
    /\ \A x \in Int : x \notin hd .. hi - 1 => Word(g, x) = Word(h, x)

LEMMA FreesIs ==
    ASSUME NEW h, NEW g, Ok(h), Ok(g), g.end = h.end, NEW Hs, NEW Bs, NEW own, NEW hd,
           NEW right, NEW hi, Frees(h, g, Hs, Bs, own, hd, right, hi)
    PROVE  Retiled(h, g, Hs, Bs, (Hs \cup {hd}) \ {right}, Bs \ {own})
<1> DEFINE Hn == (Hs \cup {hd}) \ {right}
           Bn == Bs \ {own}
           Cs == Hs \cup Bs
<1>1. Layout(h, Hs, Bs) /\ own \in Bs /\ LeftOf(h, Hs, own, hd) /\ right = Top(h, own)
  BY DEF Frees
<1>2. \/ right \notin Hs /\ hi = right /\ Word(g, hi - F) = HEAP_MAGIC /\ Word(g, hi - 1) = hd
      \/ /\ right \in Hs /\ hi = Top(h, right)
         /\ Word(g, hi - 1) = Word(h, hi - 1)
  BY DEF Frees
<1>3. /\ Word(g, hd) = HEAP_MAGIC /\ Word(g, hd + 1) = 1 /\ SizeAt(g, hd) = hi - hd
      /\ \A x \in Int : x \notin hd .. hi - 1 => Word(g, x) = Word(h, x)
  BY DEF Frees
<1>4. \A a \in Cs : /\ a \in Nat /\ START <= a /\ SizeAt(h, a) \in Nat /\ SizeAt(h, a) >= 5
                    /\ Top(h, a) = a + SizeAt(h, a) /\ Top(h, a) \in Nat /\ Top(h, a) <= h.end
  BY <1>1, Chunks32
<1>5. \A a, b \in Cs : a < b => Top(h, a) <= b
  BY <1>1 DEF Layout
<1>6. Hs \cap Bs = {} /\ Cs \subseteq Nat
  BY <1>1 DEF Layout
<1>7. /\ own \in Cs /\ hd \in Cs /\ hd \in Nat /\ hd <= own /\ own \in Nat /\ START <= hd
      /\ hd = own \/ (Top(h, hd) = own /\ hd \in Hs /\ hd < own)
  BY <1>1, <1>4 DEF LeftOf
<1>8. right \in Nat /\ own < right /\ right <= h.end /\ hd < right /\ right >= hd + 5
  BY <1>1, <1>4, <1>7
<1>9. /\ hi \in Nat /\ right <= hi /\ hi <= h.end
      /\ right \in Hs => right < hi /\ hi = Top(h, right) /\ hi >= right + 5
      /\ right \notin Hs => hi = right
  BY <1>2, <1>4, <1>8
<1>10. h.end \in Nat /\ h.end <= MAX /\ MAX \in Nat /\ MAX < HEAP_MAGIC /\ HEAP_MAGIC \in Int
  BY HeapFacts, Sizes32
<1>11. ASSUME NEW a \in Cs, a # hd, a # own, a # right \/ right \notin Hs
       PROVE  Top(h, a) <= hd \/ hi <= a
  <2>1. /\ a \in Nat /\ Top(h, a) \in Nat /\ Top(h, a) > a
    BY <1>4
  <2>2. CASE a < hd
    BY <1>5, <1>7, <2>2
  <2>3. CASE hd < a /\ a < own
    <3>1. Top(h, hd) = own /\ Top(h, hd) <= a
      BY <1>5, <1>7, <2>1, <2>3
    <3> QED BY <1>7, <2>1, <2>3, <3>1
  <2>4. CASE own < a
    <3>1. right <= a
      BY <1>1, <1>5, <1>7, <2>4
    <3>2. CASE right \notin Hs
      BY <1>9, <3>1, <3>2
    <3>3. CASE right \in Hs
      <4>1. right < a
        BY <1>8, <1>11, <2>1, <3>1, <3>3
      <4> QED BY <1>5, <1>9, <3>3, <4>1
    <3> QED BY <3>2, <3>3
  <2> QED BY <1>7, <1>11, <2>1, <2>2, <2>3, <2>4
<1>12. \A a \in Cs : Top(h, a) <= hd \/ hi <= a \/ (hd <= a /\ Top(h, a) <= hi)
  <2>1. hd <= hd /\ Top(h, hd) <= hi /\ hd <= own /\ Top(h, own) <= hi
    BY <1>1, <1>7, <1>8, <1>9
  <2>2. hd <= right /\ (right \in Hs => Top(h, right) <= hi)
    <3>1. hi <= hi
      BY <1>9
    <3> QED BY <1>7, <1>8, <1>9, <3>1
  <2> QED BY <1>11, <2>1, <2>2
<1>13. ASSUME NEW x \in hd .. hi - 1 PROVE Cover(h, Cs, x)
  <2>1. x \in Int /\ hd <= x /\ x < hi
    BY <1>7, <1>9
  <2>2. CASE x < own
    <3>1. In(h, hd, x)
      BY <1>7, <2>1, <2>2 DEF In
    <3> QED BY <1>7, <3>1 DEF Cover
  <2>3. CASE own <= x /\ x < right
    <3>1. In(h, own, x)
      BY <1>1, <2>3 DEF In
    <3> QED BY <1>7, <3>1 DEF Cover
  <2>4. CASE right <= x
    <3>1. right \in Hs /\ In(h, right, x)
      BY <1>8, <1>9, <2>1, <2>4 DEF In
    <3> QED BY <3>1 DEF Cover
  <2> QED BY <1>7, <1>8, <2>1, <2>2, <2>3, <2>4
<1>14. Hn \cup Bn \subseteq Nat /\ Hn \cap Bn = {}
  <2>1. hd \notin Bn
    BY <1>6, <1>7
  <2> QED BY <1>6, <1>7, <2>1
<1>15. hd \in Hn /\ hd \notin Bn
  BY <1>6, <1>7, <1>8
<1>16. \A a \in Hn \cup Bn : a \in hd .. hi - 1 => a = hd /\ a \in Hn
  <2> SUFFICES ASSUME NEW a \in Hn \cup Bn, a \in hd .. hi - 1, a # hd PROVE FALSE
    BY <1>15
  <2>1. a \in Cs /\ a # own
    BY <1>1, <1>6
  <2>2. a # right \/ right \notin Hs
    BY <1>6
  <2>3. Top(h, a) <= hd \/ hi <= a
    BY <1>11, <2>1, <2>2
  <2>4. a \in Nat /\ Top(h, a) \in Nat /\ Top(h, a) > a
    BY <1>4, <2>1
  <2> QED BY <1>7, <1>9, <2>3, <2>4
<1>17. \A a \in Int : a \notin hd .. hi - 1 => (a \in Hn <=> a \in Hs) /\ (a \in Bn <=> a \in Bs)
  <2> SUFFICES ASSUME NEW a \in Int, a \notin hd .. hi - 1
               PROVE  (a \in Hn <=> a \in Hs) /\ (a \in Bn <=> a \in Bs)
    OBVIOUS
  <2>1. a # hd /\ a # own
    BY <1>7, <1>8, <1>9
  <2>2. a = right => right \notin Hs
    BY <1>7, <1>8, <1>9
  <2> QED BY <2>1, <2>2
<1>18. Top(g, hd) = hi
  BY <1>3, <1>7, <1>9 DEF Top
<1>19. Word(g, hi - 1) # HEAP_MAGIC
  <2>1. CASE right \notin Hs
    <3>1. Word(g, hi - 1) = hd /\ hd < HEAP_MAGIC
      BY <1>2, <1>7, <1>8, <1>10, <2>1
    <3> QED BY <1>7, <1>10, <3>1
  <2>2. CASE right \in Hs
    <3>1. Word(h, Top(h, right) - 1) # HEAP_MAGIC
      BY <1>1, <2>2 DEF Layout, Chunk
    <3> QED BY <1>2, <2>2, <3>1
  <2> QED BY <2>1, <2>2
<1>20. Chunk(g, hd)
  <2>1. SizeAt(g, hd) >= H + F
    <3>1. hi - hd >= H + F
      BY <1>7, <1>8, <1>9 DEF H, F
    <3> QED BY <1>3, <3>1
  <2> QED BY <1>3, <1>7, <1>9, <1>18, <1>19, <2>1 DEF Chunk
<1>21. hi \notin Hn
  <2>1. CASE right \notin Hs
    BY <1>9, <2>1
  <2>2. CASE right \in Hs
    <3>1. hi \notin Hs
      BY <1>1, <1>9, <2>2 DEF Layout
    <3> QED BY <1>7, <1>8, <1>9, <3>1
  <2> QED BY <2>1, <2>2
<1>23. \A a \in Hs : Top(h, a) # hd
  <2>1. CASE hd = own /\ \A a \in Hs : Top(h, a) # own
    BY <2>1
  <2>2. CASE hd \in Hs
    BY <1>1, <2>2 DEF Layout
  <2> QED BY <1>1, <2>1, <2>2 DEF LeftOf
<1>24. \A x \in hd .. hi - 1 : Cover(g, Hn \cup Bn, x)
  <2> SUFFICES ASSUME NEW x \in hd .. hi - 1 PROVE Cover(g, Hn \cup Bn, x)
    OBVIOUS
  <2>1. In(g, hd, x)
    BY <1>7, <1>9, <1>18 DEF In
  <2> QED BY <1>15, <2>1 DEF Cover
<1>25. hd \in Cs /\ hi \in Int /\ hi <= h.end
  BY <1>7, <1>9
<1> HIDE DEF Hn, Bn
<1>26. \A a \in Hn \cup Bn : a \in hd .. hi - 1 => Chunk(g, a) /\ Top(g, a) <= hi
  <2>1. Chunk(g, hd) /\ Top(g, hd) <= hi
    BY <1>9, <1>18, <1>20
  <2> QED BY <1>16, <2>1
<1>27. \A a \in Hn : a \in hd .. hi - 1 =>
          Word(g, a + 1) = 1 /\ Top(g, a) \notin Hn
  BY <1>3, <1>16, <1>18, <1>21
<1>28. \A a \in Bn : a \notin hd .. hi - 1
  BY <1>14, <1>16
<1>29. \A a, b \in Hn \cup Bn : a \in hd .. hi - 1 /\ b \in hd .. hi - 1 /\ a < b => Top(g, a) <= b
  <2>1. ~(hd < hd)
    BY <1>7
  <2> QED BY <1>16, <2>1
<1>30. Recuts(h, g, Hs, Bs, Hn, Bn, hd, hi)
  BY <1>1, <1>3, <1>12, <1>13, <1>14, <1>17, <1>23, <1>24, <1>25, <1>26, <1>27, <1>28, <1>29
     DEF Recuts
<1>31. Refilled(h, g, Hs, Bs, Hn, Bn, hd, hi)
  BY <1>30, Recut
<1>32. \A b \in Bs \cap Bn : SizeAt(g, b) = SizeAt(h, b)
  BY <1>28, <1>31 DEF Refilled
<1> QED BY <1>31, <1>32 DEF Refilled, Retiled, Hn, Bn

\* Except in the situations that Permitted names.
LEMMA FreehIs ==
    ASSUME NEW h, NEW Bs, Sound(h, Bs), NEW own \in Bs, ~StaleLeft(h, own),
           ~FreesLast(h, own), ~Contracts(h, own)
    PROVE  /\ Sound(freeh(h, own + H), Bs \ {own})
           /\ \A b \in Bs \ {own} : SizeAt(freeh(h, own + H), b) = SizeAt(h, b)
<1>1. PICK Hs : Hs = ToSet(h.index)
  OBVIOUS
<1>2. Ok(h) /\ Distinct(h.index) /\ Layout(h, Hs, Bs)
  BY <1>1 DEF Sound
<1>3. PICK right : right = Top(h, own)
  OBVIOUS
<1>4. PICK hd : hd = LeftHole(h, own)
  OBVIOUS
<1>5. LeftOf(h, Hs, own, hd)
  BY <1>1, <1>2, <1>4, LeftIs
<1>6. own \in Hs \cup Bs
  OBVIOUS
<1>7. /\ own \in Nat /\ START <= own /\ right = own + SizeAt(h, own) /\ SizeAt(h, own) \in Nat
      /\ SizeAt(h, own) >= 5 /\ right \in Nat /\ right <= h.end /\ Word(h, own) = HEAP_MAGIC
      /\ own \in START .. MAX
  BY <1>2, <1>3, <1>6, Chunks32
<1>8. /\ hd \in Nat /\ START <= hd /\ hd <= own
      /\ hd = own \/ hd \in Hs
  <2>1. CASE hd = own
    BY <1>7, <2>1
  <2>2. CASE hd # own
    <3>1. hd \in Hs /\ Top(h, hd) = own
      BY <1>5, <2>2 DEF LeftOf
    <3>2. /\ hd \in Nat /\ START <= hd /\ SizeAt(h, hd) \in Nat
          /\ Top(h, hd) = hd + SizeAt(h, hd)
      BY <1>2, <3>1, Chunks32
    <3> QED BY <3>1, <3>2
  <2> QED BY <2>1, <2>2
<1>9. h.end \in Nat /\ h.end < W /\ W \in Nat /\ START \in Nat /\ h.end <= MAX /\ MAX \in Nat
  BY <1>2, HeapFacts, Sizes32
<1>10. PICK footer : footer = right - F
  OBVIOUS
<1>11. /\ (own + SizeAt(h, own) - F) % W = footer /\ footer + F = right
       /\ Word(h, footer) = HEAP_MAGIC
  <2>1. own + SizeAt(h, own) - F = footer /\ footer \in 0 .. W - 1 /\ footer + F = right
    BY <1>7, <1>9, <1>10 DEF F
  <2>2. Word(h, right - F) = HEAP_MAGIC
    BY <1>2, <1>3 DEF Layout, Footed
  <2> QED BY <1>10, <2>1, <2>2, Unwrapped
<1>12. PICK l : l = UnifyLeft(Store(h, own + 1, <<1>>), own, hd, footer)
  OBVIOUS
<1>13. Merged(h, l, hd, right)
  BY <1>2, <1>3, <1>5, <1>10, <1>12, MergedLeft
<1>14. Ok(l) /\ l.end = h.end /\ l.index = h.index
  BY <1>13 DEF Merged
<1>15. \A x \in Int : right <= x => Word(l, x) = Word(h, x)
  BY <1>7, <1>8, <1>13 DEF Merged
<1>16. /\ IsHole(l, right) <=> right \in Hs
       /\ SizeAt(l, right) = SizeAt(h, right)
  <2>1. /\ Word(l, right) = Word(h, right) /\ Word(l, right + 1) = Word(h, right + 1)
        /\ Word(l, right + 2) = Word(h, right + 2)
    BY <1>7, <1>15
  <2>2. IsHole(h, right) <=> right \in Hs
    BY <1>2, <1>3, RightIs
  <2> QED BY <2>1, <2>2 DEF IsHole, SizeAt
<1>17. right # h.end /\ right < h.end
  <2>1. right # h.end
    BY <1>3 DEF FreesLast, RightOf, Top
  <2> QED BY <1>7, <1>9, <2>1
<1>18. Mapped(l, right, 1)
  BY <1>7, <1>9, <1>14, <1>17 DEF Mapped
<1>19. PICK both : both = UnifyRight(l, hd, right)
  OBVIOUS
<1>20. PICK hi : hi = IF right \in Hs THEN Top(h, right) ELSE right
  OBVIOUS
<1>21. freeh(h, own + H) = IF hd # own THEN both ELSE Insert(both, hd)
  <2>1. PICK end : end = IF IsHole(l, right) THEN right + SizeAt(l, right) ELSE right
    OBVIOUS
  <2>2. end # h.end
    <3>1. CASE right \in Hs
      <4>1. IsHole(h, right)
        BY <1>2, <1>3, <3>1, RightIs
      <4>2. right + SizeAt(h, right) # h.end
        BY <1>3, <4>1 DEF Contracts, RightOf, Top
      <4> QED BY <1>16, <2>1, <3>1, <4>2
    <3>2. CASE right \notin Hs
      BY <1>16, <1>17, <2>1, <3>2
    <3> QED BY <3>1, <3>2
  <2>3. \A p : p - H = own =>
           freeh(h, p) = IF Word(h, own) # HEAP_MAGIC \/ Word(h, footer) # HEAP_MAGIC
                           THEN Fail(h, "panic")
                         ELSE IF hd # own THEN IF end = h.end THEN Contract(both, hd, right) ELSE both
                         ELSE Insert(IF end = h.end THEN Contract(both, hd, right) ELSE both, hd)
    BY <1>4, <1>11, <1>12, <1>19, <2>1 DEF freeh
  <2>4. ~(Word(h, own) # HEAP_MAGIC \/ Word(h, footer) # HEAP_MAGIC)
    BY <1>7, <1>11
  <2>5. PICK p : p = own + H
    OBVIOUS
  <2>6. p - H = own
    BY <1>7, <2>5 DEF H
  <2>7. freeh(h, p) = IF hd # own THEN both ELSE Insert(both, hd)
    BY <2>2, <2>3, <2>4, <2>6
  <2> QED BY <2>5, <2>7
\* What UnifyRight leaves.
<1>22. /\ Ok(both) /\ both.end = h.end /\ Distinct(both.index)
       /\ ToSet(both.index) = Hs \ {right}
       /\ Frees(h, both, Hs, Bs, own, hd, right, hi)
  <2>1. /\ Word(l, hd) = HEAP_MAGIC /\ Word(l, hd + 1) = 1 /\ SizeAt(l, hd) = right - hd
        /\ Word(l, right - F) = HEAP_MAGIC /\ Word(l, right - 1) = hd
        /\ \A x \in Int : x \notin hd .. right - 1 => Word(l, x) = Word(h, x)
    BY <1>13 DEF Merged
  <2>2. CASE right \notin Hs
    <3>1. both = l /\ hi = right
      BY <1>16, <1>18, <1>19, <1>20, <2>2 DEF UnifyRight
    <3>2. Frees(h, l, Hs, Bs, own, hd, right, right)
      BY <1>2, <1>3, <1>5, <2>1, <2>2 DEF Frees
    <3>3. Hs \ {right} = Hs
      BY <2>2
    <3> QED BY <1>1, <1>2, <1>14, <3>1, <3>2, <3>3
  <2>3. CASE right \in Hs
    <3>1. hi = Top(h, right)
      BY <1>20, <2>3
    <3>2. /\ SizeAt(h, right) \in Nat /\ SizeAt(h, right) >= 5 /\ hi = right + SizeAt(h, right)
          /\ hi <= h.end /\ hi \in Nat
      BY <1>2, <2>3, <3>1, Chunks32
    <3>3. PICK r : r = Resize(l, hd, hi - hd)
      OBVIOUS
    <3>4. both = Delete(r, right)
      <4>1. SizeAt(l, hd) + SizeAt(l, right) = hi - hd
        <5>1. SizeAt(l, hd) + SizeAt(l, right) = (right - hd) + SizeAt(h, right)
          BY <1>16, <2>1
        <5> QED BY <1>7, <1>8, <3>2, <5>1
      <4>2. IsHole(l, right) /\ right \in ToSet(l.index)
        BY <1>1, <1>14, <1>16, <2>3
      <4> QED BY <1>18, <1>19, <3>3, <4>1, <4>2 DEF UnifyRight
    <3>5. Stores(r, l, hd + 2, 1) /\ SizeAt(r, hd) = hi - hd
      <4>1. hd \in Int /\ START <= hd /\ hi - hd \in 0 .. W - 1
        BY <1>7, <1>8, <1>9, <3>2
      <4>2. hd + H <= l.end
        <5>1. hd + H <= h.end
          BY <1>7, <1>8, <1>9 DEF H
        <5> QED BY <1>14, <5>1
      <4> QED BY <1>14, <3>3, <4>1, <4>2, ResizeIs
    <3>6. Ok(r) /\ r.end = h.end /\ r.index = h.index
      BY <1>14, <3>5 DEF Stores
    <3>7. \A x \in Int : x # hd + 2 => Word(r, x) = Word(l, x)
      BY <1>8, <3>5 DEF Stores
    <3>8. /\ Ok(both) /\ both.end = h.end /\ Distinct(both.index)
          /\ ToSet(both.index) = Hs \ {right}
          /\ \A x \in Int : x # right => Word(both, x) = Word(r, x)
      <4>1. right \in ToSet(r.index) /\ Distinct(r.index) /\ right < r.end
        BY <1>1, <1>2, <1>17, <2>3, <3>6
      <4> QED BY <1>1, <3>4, <3>6, <4>1, DeleteIs
    <3>9. SizeAt(both, hd) = hi - hd
      <4>1. Word(both, hd + 2) = Word(r, hd + 2)
        BY <1>7, <1>8, <3>8
      <4> QED BY <3>5, <4>1 DEF SizeAt
    <3>10. Word(both, hd) = HEAP_MAGIC /\ Word(both, hd + 1) = 1
      BY <1>7, <1>8, <2>1, <3>7, <3>8
    <3>11. \A x \in Int : x \notin hd .. hi - 1 => Word(both, x) = Word(h, x)
      BY <1>7, <1>8, <2>1, <3>2, <3>7, <3>8
    <3>12. Word(both, hi - 1) = Word(h, hi - 1)
      BY <1>7, <1>8, <2>1, <3>2, <3>7, <3>8
    <3>14. Frees(h, both, Hs, Bs, own, hd, right, hi)
      BY <1>2, <1>3, <1>5, <2>3, <3>1, <3>9, <3>10, <3>11, <3>12 DEF Frees
    <3> QED BY <3>8, <3>14
  <2> QED BY <2>2, <2>3
<1>23. hd # right
  BY <1>7, <1>8
<1>24. PICK g : g = freeh(h, own + H)
  OBVIOUS
<1>25. /\ Ok(g) /\ g.end = h.end /\ Distinct(g.index)
       /\ ToSet(g.index) = (Hs \cup {hd}) \ {right}
       /\ \A x : Word(g, x) = Word(both, x)
  <2>1. CASE hd # own
    <3>1. g = both
      BY <1>21, <1>24, <2>1
    <3>2. Hs \ {right} = (Hs \cup {hd}) \ {right}
      BY <1>8, <2>1
    <3> QED BY <1>22, <3>1, <3>2
  <2>2. CASE hd = own
    <3>1. g = Insert(both, own)
      BY <1>21, <1>24, <2>2
    <3>2. own \notin ToSet(both.index)
      <4>1. own \notin Hs
        BY <1>2 DEF Layout
      <4> QED BY <1>22, <4>1
    <3>3. /\ Ok(g) /\ g.end = both.end /\ Distinct(g.index)
          /\ ToSet(g.index) = ToSet(both.index) \cup {own}
          /\ \A x : Word(g, x) = Word(both, x)
      BY <1>7, <1>22, <3>1, <3>2, InsertIs
    <3>4. (Hs \ {right}) \cup {own} = (Hs \cup {hd}) \ {right}
      BY <1>23, <2>2
    <3> QED BY <1>22, <3>3, <3>4
  <2> QED BY <2>1, <2>2
<1>26. Frees(h, g, Hs, Bs, own, hd, right, hi)
  <2>1. SizeAt(g, hd) = SizeAt(both, hd)
    BY <1>25 DEF SizeAt
  <2> QED BY <1>22, <1>25, <2>1 DEF Frees
<1>27. Retiled(h, g, ToSet(h.index), Bs, ToSet(g.index), Bs \ {own})
  <2>1. Retiled(h, g, Hs, Bs, (Hs \cup {hd}) \ {right}, Bs \ {own})
    BY <1>2, <1>25, <1>26, FreesIs
  <2> QED BY <1>1, <1>25, <2>1
<1>28. Sound(g, Bs \ {own})
  BY <1>25, <1>27, SoundRetiled
<1>29. \A b \in Bs \ {own} : SizeAt(g, b) = SizeAt(h, b)
  <2>1. \A b \in Bs \ {own} : b \in Bs \cap (Bs \ {own})
    OBVIOUS
  <2> QED BY <1>27, <2>1 DEF Retiled
<1> QED BY <1>24, <1>28, <1>29

-----------------------------------------------------------------------------
(* The invariant.                                                          *)

Owners(bs) == {b.at - H : b \in bs}

\* No two blocks are at the same place, and each has the words its user asked for.
Served(h, bs) ==
    /\ \A b, c \in bs : b.at = c.at => b = c
    /\ \A b \in bs : SizeAt(h, b.at - H) >= b.size + H + F

InOrder ==
    /\ IsHeap(heap) /\ heap.status \in {"ok", "full"}
    /\ blocks \subseteq [at : Nat, size : Nat]
    /\ Running => Sound(heap, Owners(blocks)) /\ Served(heap, blocks)

LEMMA InitIsInOrder == Init => InOrder
<1> SUFFICES ASSUME Init PROVE InOrder
  OBVIOUS
<1>1. /\ {PAGE, W, START, HOLE, INITIAL_END, MAX} \subseteq Nat
      /\ HOLE > 5 /\ START + HOLE <= INITIAL_END /\ INITIAL_END <= MAX /\ START > 0
      /\ LeftOut = INITIAL_END - START - HOLE
  BY LayoutAssumption DEF LeftOut, H, F
<1>2. MAX < W /\ {0, 1, HEAP_MAGIC, HOLE} \subseteq 0 .. W - 1 /\ HEAP_MAGIC # 0
  BY <1>1, Sizes32, LayoutAssumption
<1>3. PICK mem : mem = [x \in START .. INITIAL_END - 1 |->
                          CASE x = START -> HEAP_MAGIC [] x = START + 1 -> 1
                            [] x = START + 2 -> HOLE [] OTHER -> 0]
  OBVIOUS
<1>4. /\ mem \in [START .. INITIAL_END - 1 -> 0 .. W - 1]
      /\ mem[START] = HEAP_MAGIC /\ mem[START + 1] = 1 /\ mem[START + 2] = HOLE
      /\ \A x \in START .. INITIAL_END - 1 : x \notin START .. START + 2 => mem[x] = 0
      /\ DOMAIN mem = START .. INITIAL_END - 1
  <2>1. DOMAIN mem = START .. INITIAL_END - 1
    BY <1>3
  <2>2. {START, START + 1, START + 2} \subseteq START .. INITIAL_END - 1
    BY <1>1
  <2>3. START # START + 1 /\ START # START + 2 /\ START + 1 # START + 2
    BY <1>1
  <2>4. mem[START] = HEAP_MAGIC /\ mem[START + 1] = 1 /\ mem[START + 2] = HOLE
    BY <1>3, <2>2, <2>3
  <2>5. ASSUME NEW x \in START .. INITIAL_END - 1, x \notin START .. START + 2 PROVE mem[x] = 0
    <3>1. x # START /\ x # START + 1 /\ x # START + 2
      BY <1>1, <2>5
    <3> QED BY <1>3, <3>1
  <2>6. \A x \in START .. INITIAL_END - 1 : mem[x] \in 0 .. W - 1
    <3>1. \A x \in START .. START + 2 : x = START \/ x = START + 1 \/ x = START + 2
      BY <1>1
    <3> QED BY <1>2, <2>4, <2>5, <3>1
  <2>7. mem \in [START .. INITIAL_END - 1 -> 0 .. W - 1]
    <3>1. mem = [x \in START .. INITIAL_END - 1 |-> mem[x]]
      BY <1>3
    <3> QED BY <2>6, <3>1
  <2> QED BY <2>1, <2>4, <2>5, <2>7
<1>5. /\ heap.mem = mem /\ heap.index = <<START>> /\ heap.end = INITIAL_END
      /\ heap.status = "ok"
      /\ heap \in [mem : [START .. INITIAL_END - 1 -> 0 .. W - 1], index : Seq(START .. MAX),
                   end : START .. MAX, status : Status]
  <2>1. heap = [mem |-> mem, index |-> <<START>>, end |-> INITIAL_END, status |-> "ok"]
    BY <1>3 DEF Init
  <2>2. <<START>> \in Seq(START .. MAX) /\ INITIAL_END \in START .. MAX /\ "ok" \in Status
    BY <1>1 DEF Status
  <2> QED BY <1>4, <2>1, <2>2
<1>6. Ok(heap)
  BY <1>5 DEF Ok, IsHeap
<1>7. /\ Word(heap, START) = HEAP_MAGIC /\ Word(heap, START + 1) = 1
      /\ SizeAt(heap, START) = HOLE
      /\ \A x \in Int : x \notin START .. START + 2 => Word(heap, x) = 0
  <2>1. \A x \in Int : Word(heap, x) = IF x \in START .. INITIAL_END - 1 THEN mem[x] ELSE 0
    BY <1>4, <1>5 DEF Word
  <2>2. {START, START + 1, START + 2} \subseteq START .. INITIAL_END - 1
    BY <1>1
  <2>3. /\ Word(heap, START) = HEAP_MAGIC /\ Word(heap, START + 1) = 1
        /\ Word(heap, START + 2) = HOLE
    <3>1. START \in Int /\ START + 1 \in Int /\ START + 2 \in Int
      BY <1>1
    <3>2. /\ Word(heap, START) = mem[START] /\ Word(heap, START + 1) = mem[START + 1]
          /\ Word(heap, START + 2) = mem[START + 2]
      BY <2>1, <2>2, <3>1
    <3> QED BY <1>4, <3>2
  <2>4. \A x \in Int : x \notin START .. START + 2 => Word(heap, x) = 0
    BY <1>4, <2>1
  <2> QED BY <2>3, <2>4 DEF SizeAt
<1>8. Distinct(heap.index) /\ ToSet(heap.index) = {START} /\ {START} \cup {} = {START}
  BY <1>5 DEF Distinct, ToSet
<1>9. Top(heap, START) = START + HOLE
  BY <1>7 DEF Top
<1>10. Layout(heap, {START}, {})
  <2>1. Chunk(heap, START)
    <3>1. Word(heap, START + HOLE - 1) = 0
      BY <1>1, <1>7
    <3>2. HOLE >= H + F
      BY <1>1 DEF H, F
    <3>3. Word(heap, (START + HOLE) - 1) # HEAP_MAGIC
      <4>1. (START + HOLE) - 1 = START + HOLE - 1
        BY <1>1
      <4> QED BY <1>2, <3>1, <4>1
    <3> QED BY <1>1, <1>5, <1>7, <1>9, <3>2, <3>3 DEF Chunk
  <2>2. Top(heap, START) # START
    BY <1>1, <1>9
  <2>3. ASSUME NEW x \in Int PROVE Word(heap, x) = 0 \/ Cover(heap, {START}, x)
    <3>1. CASE x \in START .. START + 2
      <4>1. START <= x /\ x < START + HOLE
        BY <1>1, <3>1
      <4> QED BY <1>9, <4>1 DEF Cover, In
    <3> QED BY <1>7, <3>1
  <2>4. ~(START < START)
    BY <1>1
  <2> QED BY <1>1, <1>7, <1>8, <2>1, <2>2, <2>3, <2>4 DEF Layout
<1>11. Gap(heap, {START})
  <2>1. PICK gap : gap = START + HOLE
    OBVIOUS
  <2>2. gap \in START .. heap.end - LeftOut /\ gap + LeftOut = INITIAL_END
    <3>1. heap.end = INITIAL_END
      BY <1>5
    <3>2. gap + LeftOut = INITIAL_END
      BY <1>1, <2>1
    <3>3. gap \in Nat /\ START <= gap /\ gap <= INITIAL_END - LeftOut /\ LeftOut \in Nat
      BY <1>1, <2>1
    <3> QED BY <1>1, <3>1, <3>2, <3>3
  <2>3. ASSUME NEW x \in START .. heap.end - 1
        PROVE  Cover(heap, {START}, x) <=> x \notin gap .. gap + LeftOut - 1
    <3>1. x \in Int /\ START <= x /\ x < INITIAL_END
      BY <1>1, <1>5
    <3>2. Cover(heap, {START}, x) <=> x < gap
      BY <1>9, <2>1, <3>1 DEF Cover, In
    <3>3. x \notin gap .. gap + LeftOut - 1 <=> x < gap
      BY <1>1, <2>1, <2>2, <3>1
    <3> QED BY <3>2, <3>3
  <2> QED BY <2>2, <2>3 DEF Gap
<1>12. blocks = {} /\ Owners(blocks) = {}
  BY DEF Init, Owners
<1>13. Sound(heap, Owners(blocks))
  <2>1. Layout(heap, ToSet(heap.index), {})
    BY <1>8, <1>10
  <2>2. Gap(heap, ToSet(heap.index) \cup {})
    BY <1>8, <1>11
  <2> QED BY <1>6, <1>8, <1>12, <2>1, <2>2 DEF Sound
<1>14. Served(heap, blocks)
  BY <1>12 DEF Served
<1>15. IsHeap(heap)
  BY <1>6 DEF Ok
<1> QED BY <1>5, <1>12, <1>13, <1>14, <1>15 DEF InOrder

LEMMA AllocateKeeps ==
    ASSUME InOrder, Permitted = {}, NEW size \in Nat, NEW align \in BOOLEAN,
           Allocate(size, align)
    PROVE  InOrder'
<1>1. PICK h : h = heap
  OBVIOUS
<1>2. PICK bs : bs = blocks
  OBVIOUS
<1>3. PICK need : need = size + H + F
  OBVIOUS
<1>4. PICK Bs : Bs = Owners(bs)
  OBVIOUS
<1>5. /\ ~GrowsOver(h, need, align) /\ ~(align /\ Tight(h, need)) /\ h.status = "ok"
  BY <1>1, <1>3 DEF Allocate, Allow
<1>6. PICK r : /\ r = kalloc(h, size, align) /\ heap' = r.heap
               /\ blocks' = IF r.heap.status = "ok"
                              THEN bs \cup {[at |-> r.at, size |-> size]} ELSE bs
  BY <1>1, <1>2 DEF Allocate
<1>7. Sound(h, Bs) /\ Served(h, bs) /\ bs \subseteq [at : Nat, size : Nat]
  BY <1>1, <1>2, <1>4, <1>5 DEF InOrder, Running
<1>8. Grows(h, need, align) /\ h.index # <<>> => LastIsHole(h, Bs)
  <2> SUFFICES ASSUME Grows(h, need, align), h.index # <<>>, NEW b \in bs
               PROVE  \E a \in ToSet(h.index) : b.at - H <= a
    BY <1>4 DEF Owners, LastIsHole
  <2>1. ~ \A a \in ToSet(h.index) : a < b.at
    BY <1>2, <1>5 DEF GrowsOver
  <2>2. PICK a \in ToSet(h.index) : ~(a < b.at)
    BY <2>1
  <2>3. a \in Nat /\ b.at \in Nat
    <3>1. b \in [at : Nat, size : Nat]
      BY <1>7
    <3>2. a \in Nat
      BY <1>7 DEF Sound, Layout
    <3> QED BY <3>1, <3>2
  <2>4. b.at - H <= a
    BY <2>2, <2>3 DEF H
  <2> QED BY <2>4
<1>9. (IsHeap(r.heap) /\ r.heap.status = "full") \/ Allocated(h, r, Bs, need)
  BY <1>3, <1>5, <1>6, <1>7, <1>8, KallocIs
<1>10. CASE IsHeap(r.heap) /\ r.heap.status = "full"
  BY <1>6, <1>7, <1>10 DEF InOrder, Running
<1>11. CASE Allocated(h, r, Bs, need)
  <2>1. PICK g, at : /\ r = [heap |-> g, at |-> at + H] /\ at \in Nat /\ at \notin Bs
                     /\ Sound(g, Bs \cup {at}) /\ SizeAt(g, at) >= need
                     /\ \A b \in Bs : SizeAt(g, b) = SizeAt(h, b)
    BY <1>11 DEF Allocated
  <2>2. PICK new : new = [at |-> at + H, size |-> size]
    OBVIOUS
  <2>3. heap' = g /\ g.status = "ok" /\ IsHeap(g)
    BY <1>6, <2>1 DEF Sound, Ok
  <2>4. blocks' = bs \cup {new}
    BY <1>6, <2>1, <2>2, <2>3
  <2>5. new \in [at : Nat, size : Nat] /\ new.at - H = at /\ new.size = size
    BY <2>1, <2>2 DEF H
  <2>6. bs \cup {new} \subseteq [at : Nat, size : Nat]
    BY <1>7, <2>5
  <2>7. Owners(bs \cup {new}) = Bs \cup {at}
    BY <1>4, <2>5 DEF Owners
  <2>8. \A b \in bs : b.at - H \in Bs /\ b.at # new.at
    BY <1>4, <2>1, <2>5 DEF Owners
  <2>9. Served(g, bs \cup {new})
    <3>1. \A b \in bs : SizeAt(g, b.at - H) >= b.size + H + F
      BY <1>7, <2>1, <2>8 DEF Served
    <3>2. SizeAt(g, new.at - H) >= new.size + H + F
      BY <1>3, <2>1, <2>5
    <3>3. \A b, c \in bs \cup {new} : b.at = c.at => b = c
      BY <1>7, <2>8 DEF Served
    <3> QED BY <3>1, <3>2, <3>3 DEF Served
  <2>10. Sound(heap', Owners(blocks')) /\ Served(heap', blocks')
    BY <2>1, <2>3, <2>4, <2>7, <2>9
  <2> QED BY <2>3, <2>4, <2>6, <2>10 DEF InOrder
<1> QED BY <1>9, <1>10, <1>11

LEMMA FreeKeeps ==
    ASSUME InOrder, Permitted = {}, NEW b \in blocks, kfree(b)
    PROVE  InOrder'
<1>1. PICK h : h = heap
  OBVIOUS
<1>2. PICK bs : bs = blocks
  OBVIOUS
<1>3. PICK Bs : Bs = Owners(bs)
  OBVIOUS
<1>4. PICK own : own = b.at - H
  OBVIOUS
<1>5. /\ ~StaleLeft(h, own) /\ ~FreesLast(h, own) /\ ~Contracts(h, own) /\ h.status = "ok"
      /\ heap' = freeh(h, b.at) /\ blocks' = bs \ {b}
  BY <1>1, <1>2, <1>4 DEF kfree, Allow
<1>6. Sound(h, Bs) /\ Served(h, bs) /\ bs \subseteq [at : Nat, size : Nat]
  BY <1>1, <1>2, <1>3, <1>5 DEF InOrder, Running
<1>7. own \in Bs /\ own + H = b.at
  <2>1. b \in [at : Nat, size : Nat]
    BY <1>2, <1>6
  <2> QED BY <1>2, <1>3, <1>4, <2>1 DEF Owners, H
<1>8. PICK g : g = freeh(h, own + H)
  OBVIOUS
<1>9. Sound(g, Bs \ {own}) /\ \A a \in Bs \ {own} : SizeAt(g, a) = SizeAt(h, a)
  BY <1>5, <1>6, <1>7, <1>8, FreehIs
<1>10. heap' = g /\ g.status = "ok" /\ IsHeap(g)
  BY <1>5, <1>7, <1>8, <1>9 DEF Sound, Ok
<1>11. \A c \in bs : c.at \in Nat
  BY <1>6
<1>12. ASSUME NEW c \in bs, c # b PROVE c.at - H # own
  <2>1. c.at # b.at
    BY <1>2, <1>6, <1>12 DEF Served
  <2> QED BY <1>2, <1>4, <1>11, <2>1 DEF H
<1>13. Owners(bs \ {b}) = Bs \ {own}
  BY <1>3, <1>4, <1>12 DEF Owners
<1>14. \A c \in bs \ {b} : c.at - H \in Bs \ {own}
  BY <1>3, <1>12 DEF Owners
<1>15. Served(g, bs \ {b})
  BY <1>6, <1>9, <1>14 DEF Served
<1>16. Sound(heap', Owners(blocks')) /\ Served(heap', blocks')
  BY <1>5, <1>9, <1>10, <1>13, <1>15
<1>17. blocks' \subseteq [at : Nat, size : Nat]
  BY <1>5, <1>6
<1> QED BY <1>10, <1>16, <1>17 DEF InOrder

LEMMA StaysInOrder == InOrder /\ [Next]_vars /\ Permitted = {} => InOrder'
<1> SUFFICES ASSUME InOrder, [Next]_vars, Permitted = {} PROVE InOrder'
  OBVIOUS
<1>1. \A size \in Sizes \cup Aligned : size \in Nat
  BY SizesAssumption
<1>2. ASSUME NEW size \in Sizes, kmalloc(size) PROVE InOrder'
  BY <1>1, <1>2, AllocateKeeps DEF kmalloc
<1>3. ASSUME NEW size \in Aligned, kmalloc_a(size) PROVE InOrder'
  BY <1>1, <1>3, AllocateKeeps DEF kmalloc_a
<1>4. ASSUME NEW b \in blocks, kfree(b) PROVE InOrder'
  BY <1>4, FreeKeeps
<1>5. CASE UNCHANGED vars
  BY <1>5 DEF vars, InOrder, Running
<1> QED BY <1>2, <1>3, <1>4, <1>5 DEF Next

LEMMA InOrderHolds == Permitted = {} => (Spec => []InOrder)
<1> SUFFICES ASSUME Permitted = {} PROVE Spec => []InOrder
  OBVIOUS
<1>1. InOrder /\ [Next]_vars => InOrder'
  BY StaysInOrder
<1> QED BY <1>1, InitIsInOrder, PTL DEF Spec

LEMMA InOrderIsTiled == InOrder => HeapIsTiled
<1> SUFFICES ASSUME InOrder PROVE HeapIsTiled
  OBVIOUS
<1>1. TypeOK
  <2>1. /\ heap.status \in Status /\ heap.end \in START .. MAX
        /\ heap.mem \in [START .. heap.end - 1 -> 0 .. W - 1]
        /\ heap.index \in Seq(START .. MAX)
    BY DEF InOrder, IsHeap
  <2>2. ToSet(heap.index) \subseteq START .. MAX
    <3>1. PICK S : S = START .. MAX
      OBVIOUS
    <3>2. heap.index \in Seq(S)
      BY <2>1, <3>1
    <3>3. \A i \in DOMAIN heap.index : heap.index[i] \in S
      BY <3>2
    <3> QED BY <3>1, <3>3 DEF ToSet
  <2> QED BY <2>1, <2>2 DEF TypeOK
<1>2. ASSUME Running
      PROVE  /\ \A a, b \in Chunks : a # b => Span(a) \cap Span(b) = {}
             /\ \A a \in Chunks : START <= a /\ a + SizeAt(heap, a) <= heap.end
             /\ \A b \in blocks : SizeAt(heap, b.at - H) >= b.size + H + F
             /\ NothingLeaked
  <2>1. /\ Ok(heap) /\ Layout(heap, ToSet(heap.index), Owners(blocks))
        /\ Gap(heap, ToSet(heap.index) \cup Owners(blocks)) /\ Served(heap, blocks)
    BY <1>2 DEF InOrder, Sound
  <2>2. Chunks = ToSet(heap.index) \cup Owners(blocks)
    BY DEF Chunks, Holes, Owners
  <2>3. \A a \in Chunks : /\ a \in Nat /\ START <= a /\ SizeAt(heap, a) \in Nat
                          /\ Top(heap, a) = a + SizeAt(heap, a) /\ Top(heap, a) <= heap.end
    BY <2>1, <2>2, Chunks32
  <2>4. \A a \in Chunks : \A x \in Int : x \in Span(a) <=> In(heap, a, x)
    BY <2>3 DEF Span, In
  <2>5. ASSUME NEW a \in Chunks, NEW b \in Chunks, a # b PROVE Span(a) \cap Span(b) = {}
    <3>1. a \in Nat /\ b \in Nat
      BY <2>3
    <3>2. Top(heap, a) <= b \/ Top(heap, b) <= a
      <4>1. a < b \/ b < a
        BY <2>5, <3>1
      <4> QED BY <2>1, <2>2, <4>1 DEF Layout
    <3>3. a + SizeAt(heap, a) <= b \/ b + SizeAt(heap, b) <= a
      BY <3>2 DEF Top
    <3>4. SizeAt(heap, a) \in Nat /\ SizeAt(heap, b) \in Nat
      BY <2>3
    <3>5. \A x \in Span(a) : x \notin Span(b)
      BY <3>1, <3>3, <3>4 DEF Span
    <3> QED BY <3>5
  <2>6. \A a \in Chunks : START <= a /\ a + SizeAt(heap, a) <= heap.end
    BY <2>3
  <2>7. NothingLeaked
    <3>1. PICK gap \in START .. heap.end - LeftOut : \A x \in START .. heap.end - 1 :
             Cover(heap, Chunks, x) <=> x \notin gap .. gap + LeftOut - 1
      BY <2>1, <2>2 DEF Gap
    <3>2. START \in Int /\ heap.end \in Int
      BY <1>1, Sizes32 DEF TypeOK
    <3>3. \A x \in START .. heap.end - 1 : (\E a \in Chunks : x \in Span(a)) <=> Cover(heap, Chunks, x)
      BY <2>4, <3>2 DEF Cover
    <3>4. gap \in Int /\ LeftOut \in Int /\ START <= gap /\ gap + LeftOut <= heap.end
      <4>1. LeftOut \in Int
        BY LayoutAssumption DEF LeftOut
      <4> QED BY <3>2, <4>1
    <3>5. ASSUME NEW x PROVE (x \in (START .. heap.end - 1) \ UNION {Span(a) : a \in Chunks})
                                 <=> x \in gap .. gap + LeftOut - 1
      <4>1. CASE x \in START .. heap.end - 1
        <5>1. x \in UNION {Span(a) : a \in Chunks} <=> (\E a \in Chunks : x \in Span(a))
          OBVIOUS
        <5> QED BY <3>1, <3>3, <4>1, <5>1
      <4>2. CASE x \notin START .. heap.end - 1
        BY <3>2, <3>4, <4>2
      <4> QED BY <4>1, <4>2
    <3>6. (START .. heap.end - 1) \ UNION {Span(a) : a \in Chunks} = gap .. gap + LeftOut - 1
      BY <3>5
    <3> QED BY <3>6 DEF NothingLeaked
  <2> QED BY <2>1, <2>5, <2>6, <2>7 DEF Served
<1>3. NothingLeaked
  BY <1>2 DEF NothingLeaked
<1> QED BY <1>1, <1>2, <1>3 DEF HeapIsTiled, ChunksDisjoint

\* However blocks are allocated, aligned or not, freed and merged, and however the
\* heap grows, no word belongs to two chunks and none is lost.
THEOREM TilingHolds == Permitted = {} => (Spec => []HeapIsTiled)
BY InOrderHolds, InOrderIsTiled, PTL

\* freeh merges the block with the hole on its left and with the hole on its right,
\* and neither kalloc nor expand ever puts one hole next to another.  Permitted = {}
\* leaves out the free of a block behind a footer that an earlier merge to the right
\* has left stale, of a block or with a hole that ends the heap, growth over a
\* block and tight aligned requests; merges to the right themselves are in.
THEOREM MergingHolds == Permitted = {} => (Spec => []HolesMerged)
<1>1. InOrder => HolesMerged
  <2> SUFFICES ASSUME InOrder, Running, NEW a \in Holes, NEW b \in Holes,
                      a + SizeAt(heap, a) = b
               PROVE  FALSE
    BY DEF HolesMerged
  <2>1. Layout(heap, ToSet(heap.index), Owners(blocks))
    BY DEF InOrder, Sound
  <2> QED BY <2>1 DEF Layout, Top, Holes
<1> QED BY <1>1, InOrderHolds, PTL

\* kmalloc and kfree of a block in use return: no assertion on a magic number fails,
\* every header and footer that is looked at is inside the heap, and a hole that is
\* merged is in the index.
THEOREM CallsDoReturn == Permitted = {} => (Spec => []CallsReturn)
<1>1. InOrder => CallsReturn
  BY DEF InOrder, CallsReturn
<1> QED BY <1>1, InOrderHolds, PTL

=============================================================================
