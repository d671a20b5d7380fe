--------------------------- MODULE KlmallocProofs ---------------------------
(***************************************************************************)
(* What is proved of Klmalloc: one thread at a time works on the heap; the *)
(* blocks in use are apart from each other and keep what their users store *)
(* in them; and the lists of free memory are complete and in order.        *)
(*                                                                         *)
(* The allocator is a record s and the places in use are a set U; Good     *)
(* says what holds of them between two calls, and Keeps what an operation  *)
(* leaves to the blocks in use, also when an assertion of it fails.  For   *)
(* the blocks the order of the skip list and of the lists of pages is not  *)
(* needed: a wrong find runs into an assertion, and no block in use is     *)
(* given away.  Ordered adds that order, with which no assertion fails.    *)
(***************************************************************************)
EXTENDS Klmalloc, TLAPS, WellFoundedInduction, FiniteSetTheorems

-----------------------------------------------------------------------------
(* Sizes and addresses.                                                    *)

\* The bin of whole pages exists.
LEMMA BigBinType == BIG_BIN \in 0 .. PAGE_SIZE
BY LayoutAssumption DEF BIG_BIN

\* What is used of the constants.
LEMMA Constants ==
    /\ BIG_BIN \in Nat /\ NUM_BINS = BIG_BIN + 1
    /\ PAGE_SIZE \in Nat /\ BIG_HEADER \in Nat /\ BIG_HEADER >= 6 /\ BIN_HEADER = 4
    /\ 2 * BIG_HEADER < PAGE_SIZE /\ PAGE_SIZE - BIG_HEADER > NUM_BINS
    /\ MAX \in Nat /\ MAX < W /\ SKIP_MAX_LEVEL \in Nat /\ W \in Int
    /\ NULL = 0 /\ HEAD = -1
BY LayoutAssumption, BigBinType DEF NUM_BINS, BIG_HEADER, BIN_HEADER, NULL, HEAD

Aligned(a) == \E q \in Nat : a = q * PAGE_SIZE

\* The page of an address.
LEMMA PageIs ==
    ASSUME NEW h \in Nat, Aligned(h), NEW r \in Nat, r < PAGE_SIZE
    PROVE  Page(h + r) = h /\ (h + r) % PAGE_SIZE = r
<1>1. PICK q \in Nat : h = q * PAGE_SIZE
  BY DEF Aligned
<1>2. PAGE_SIZE \in Nat \ {0} /\ r \in 0 .. PAGE_SIZE - 1
  BY Constants
<1>3. (q * PAGE_SIZE + r) % PAGE_SIZE = r
  BY <1>2
<1> QED BY <1>1, <1>2, <1>3 DEF Page

\* Sums of whole pages are whole pages.
LEMMA AlignedSum ==
    ASSUME NEW a \in Nat, NEW b \in Nat, Aligned(a), Aligned(b)
    PROVE  Aligned(a + b)
<1>1. PICK q \in Nat : a = q * PAGE_SIZE
  BY DEF Aligned
<1>2. PICK k \in Nat : b = k * PAGE_SIZE
  BY DEF Aligned
<1>3. a + b = (q + k) * PAGE_SIZE /\ q + k \in Nat
  BY <1>1, <1>2, Constants
<1> QED BY <1>3 DEF Aligned

\* How many cells of p words go into a words.
LEMMA Division ==
    ASSUME NEW p \in Nat \ {0}, NEW a \in Nat
    PROVE  /\ a \div p \in Nat
           /\ a < (a \div p + 1) * p
           /\ \A k \in Nat : k < a \div p => k * p + p <= a
           /\ a >= p => a \div p >= 1
<1>1. a \div p \in Nat /\ a = (a \div p) * p + (a % p) /\ a % p \in 0 .. p - 1
  OBVIOUS
<1>2. PICK d \in Nat : d = a \div p
  BY <1>1
<1>3. PICK r \in 0 .. p - 1 : r = a % p
  BY <1>1
<1>4. a = d * p + r
  BY <1>1, <1>2, <1>3
<1>5. (d + 1) * p = d * p + p
  OBVIOUS
<1>6. ASSUME NEW k \in Nat, k < d PROVE k * p + p <= d * p
  BY <1>6
<1>7. d = 0 => a < p
  BY <1>4
<1> QED BY <1>2, <1>4, <1>5, <1>6, <1>7

\* Cells of p words one behind the other.
LEMMA Multiples ==
    ASSUME NEW p \in Nat \ {0}, NEW i \in Nat, NEW j \in Nat
    PROVE  /\ i * p \in Nat
           /\ i < j => i * p + p <= j * p
           /\ (i + 1) * p = i * p + p
OBVIOUS

Bins == 0 .. BIG_BIN - 1

\* A cell is not empty and no longer than half a page.
LEMMA Power ==
    ASSUME NEW b \in Bins
    PROVE  2 ^ b \in Nat \ {0} /\ 2 * 2 ^ b <= PAGE_SIZE
BY PowersAssumption DEF Bins

\* The cells of a page of a bin.
CellsOf(h, b) == {h + BIN_HEADER + k * 2 ^ b : k \in 0 .. (PAGE_SIZE - BIN_HEADER) \div 2 ^ b - 1}

\* The cells of a page are in it and apart from each other.
LEMMA CellsFit ==
    ASSUME NEW h \in Nat, NEW b \in Bins
    PROVE  /\ (PAGE_SIZE - BIN_HEADER) \div 2 ^ b \in Nat \ {0}
           /\ \A c \in CellsOf(h, b) : c \in Nat /\ h + BIN_HEADER <= c /\ c + 2 ^ b <= h + PAGE_SIZE
           /\ \A c, d \in CellsOf(h, b) : c < d => c + 2 ^ b <= d
<1>1. PICK p \in Nat \ {0} : p = 2 ^ b /\ 2 * p <= PAGE_SIZE
  BY Power
<1>2. PICK a \in Nat : a = PAGE_SIZE - BIN_HEADER /\ a >= p
  BY <1>1, Constants
<1>3. PICK n \in Nat : n = a \div p /\ n >= 1 /\ \A k \in Nat : k < n => k * p + p <= a
  BY <1>2, Division
<1>4. CellsOf(h, b) = {h + BIN_HEADER + k * p : k \in 0 .. n - 1}
  BY <1>1, <1>2, <1>3 DEF CellsOf
<1>5. ASSUME NEW k \in 0 .. n - 1
      PROVE  /\ h + BIN_HEADER + k * p \in Nat /\ h + BIN_HEADER <= h + BIN_HEADER + k * p
             /\ h + BIN_HEADER + k * p + p <= h + PAGE_SIZE
  <2>1. k * p \in Nat /\ k * p + p <= a
    BY <1>3
  <2> QED BY <2>1, <1>2, Constants
<1>6. ASSUME NEW k \in 0 .. n - 1, NEW j \in 0 .. n - 1, h + BIN_HEADER + k * p < h + BIN_HEADER + j * p
      PROVE  h + BIN_HEADER + k * p + p <= h + BIN_HEADER + j * p
  <2>1. k * p \in Nat /\ j * p \in Nat /\ k * p < j * p
    BY <1>6, Constants, Multiples
  <2>2. k < j
    <3>1. j < k => j * p + p <= k * p
      BY Multiples
    <3>2. j # k
      BY <2>1
    <3> QED BY <2>1, <3>1, <3>2
  <2>3. k * p + p <= j * p
    BY <2>2, Multiples
  <2> QED BY <2>1, <2>3, Constants
<1>7. \A c \in CellsOf(h, b) : \E k \in 0 .. n - 1 : c = h + BIN_HEADER + k * p
  BY <1>4
<1>8. \A c \in CellsOf(h, b) : c \in Nat /\ h + BIN_HEADER <= c /\ c + p <= h + PAGE_SIZE
  BY <1>5, <1>7
<1>9. \A c, d \in CellsOf(h, b) : c < d => c + p <= d
  BY <1>6, <1>7
<1> QED BY <1>1, <1>2, <1>3, <1>8, <1>9

\* Induction from a to b, by the least counterexample.
LEMMA UpFrom ==
    ASSUME NEW a \in Nat, NEW b \in Nat, NEW S, a \in S, \A n \in a .. b - 1 : n \in S => n + 1 \in S
    PROVE  \A n \in a .. b : n \in S
<1> SUFFICES ASSUME NEW n \in a .. b, n \notin S PROVE FALSE
  OBVIOUS
<1>1. PICK R : R = OpToRel(<, Nat)
  OBVIOUS
<1>2. IsWellFoundedOn(R, Nat)
  BY <1>1, NatLessThanWellFounded
<1>3. PICK T : T = (a .. b) \ S
  OBVIOUS
<1>4. T \subseteq Nat /\ T # {}
  BY <1>3
<1>5. PICK least \in T : \A j \in T : ~(<<j, least>> \in R)
  BY <1>2, <1>4, WFMin
<1>6. \A i, j \in Nat : i < j => <<i, j>> \in R
  BY <1>1 DEF OpToRel
<1>7. least \in a .. b /\ least # a /\ least \notin S
  BY <1>3
<1>8. least - 1 \in a .. b - 1 /\ least - 1 \in Nat /\ least \in Nat /\ least - 1 < least
  BY <1>7
<1>9. least - 1 \notin T
  BY <1>5, <1>6, <1>8
<1>10. least - 1 \in a .. b /\ least - 1 + 1 = least
  BY <1>8
<1>11. least - 1 \in S
  BY <1>3, <1>9, <1>10
<1> QED BY <1>7, <1>8, <1>10, <1>11

\* A function of a number and of its value at the number before exists.
Iterable(n, X, x, F) == n \in Nat /\ x \in X /\ F \in [1 .. n -> [X -> X]]
Iterates(n, X, x, F, f) ==
    f \in [0 .. n -> X] /\ f[0] = x /\ \A k \in 1 .. n : f[k] = F[k][f[k - 1]]
LEMMA Iterate ==
    ASSUME NEW n, NEW X, NEW x, NEW F, Iterable(n, X, x, F)
    PROVE  \E f : Iterates(n, X, x, F, f)
<1> DEFINE Runs(j, f) == f[0] = x /\ \A k \in 1 .. j : f[k] = F[k][f[k - 1]]
           S == {j \in 0 .. n : \E f \in [0 .. j -> X] : Runs(j, f)}
<1> USE DEF Iterable
<1>1. 0 \in S
  <2>1. [j \in 0 .. 0 |-> x] \in [0 .. 0 -> X] /\ Runs(0, [j \in 0 .. 0 |-> x])
    OBVIOUS
  <2>2. 0 \in 0 .. n
    OBVIOUS
  <2> QED BY <2>1, <2>2
<1>2. ASSUME NEW j \in 0 .. n - 1, j \in S PROVE j + 1 \in S
  <2>1. PICK f \in [0 .. j -> X] : Runs(j, f)
    BY <1>2
  <2>2. j + 1 \in 1 .. n /\ j + 1 \in 0 .. n /\ j \in Nat
    OBVIOUS
  <2>3. f[j] \in X
    BY <2>1
  <2>4. F[j + 1] \in [X -> X]
    BY <2>2
  <2>5. PICK y \in X : y = F[j + 1][f[j]]
    BY <2>3, <2>4
  <2>6. PICK g : g = [k \in 0 .. j + 1 |-> IF k = j + 1 THEN y ELSE f[k]]
    OBVIOUS
  <2>7. g \in [0 .. j + 1 -> X]
    BY <2>1, <2>5, <2>6
  <2>8. \A k \in 0 .. j : g[k] = f[k]
    BY <2>2, <2>6
  <2>9. g[j + 1] = y
    BY <2>2, <2>6
  <2>10. g[0] = x
    BY <2>1, <2>2, <2>8
  <2>11. ASSUME NEW k \in 1 .. j PROVE g[k] = F[k][g[k - 1]]
    <3>1. k \in 0 .. j /\ k - 1 \in 0 .. j
      BY <2>2
    <3> QED BY <2>1, <2>8, <3>1
  <2>12. g[j + 1] = F[j + 1][g[j + 1 - 1]]
    <3>1. j + 1 - 1 = j /\ j \in 0 .. j
      BY <2>2
    <3> QED BY <2>5, <2>8, <2>9, <3>1
  <2>13. \A k \in 1 .. j + 1 : k \in 1 .. j \/ k = j + 1
    BY <2>2
  <2>14. Runs(j + 1, g)
    BY <2>10, <2>11, <2>12, <2>13
  <2> QED BY <2>2, <2>7, <2>14
<1>3. \A j \in 0 .. n : j \in S
  <2>1. 0 \in Nat /\ n \in Nat
    OBVIOUS
  <2> HIDE DEF S
  <2> QED BY <1>1, <1>2, <2>1, UpFrom
<1>4. n \in 0 .. n
  OBVIOUS
<1> QED BY <1>3, <1>4 DEF Iterates

-----------------------------------------------------------------------------
(* The stack of free cells of a page: from start on through mem, the cells  *)
(* of S, each once.  The witness gives each cell the number of those behind *)
(* it.                                                                     *)

Stack(start, mem, S) ==
    /\ S \subseteq DOMAIN mem /\ NULL \notin S
    /\ start = NULL => S = {}
    /\ \E behind \in [S -> Nat] :
         /\ start # NULL => start \in S /\ \A x \in S : behind[x] <= behind[start]
         /\ \A x \in S : behind[x] = 0 => mem[x] = NULL
         /\ \A x \in S : behind[x] # 0 => mem[x] \in S /\ behind[mem[x]] = behind[x] - 1
         /\ \A x, y \in S : behind[x] = behind[y] => x = y

\* The top of the stack is a free cell, the rest is the stack of the others.
LEMMA StackPop ==
    ASSUME NEW start, NEW mem, NEW S, Stack(start, mem, S), start # NULL
    PROVE  start \in S /\ Stack(mem[start], mem, S \ {start})
<1>1. PICK behind \in [S -> Nat] :
         /\ start \in S /\ \A x \in S : behind[x] <= behind[start]
         /\ \A x \in S : behind[x] = 0 => mem[x] = NULL
         /\ \A x \in S : behind[x] # 0 => mem[x] \in S /\ behind[mem[x]] = behind[x] - 1
         /\ \A x, y \in S : behind[x] = behind[y] => x = y
  BY DEF Stack
<1>2. S \subseteq DOMAIN mem /\ NULL \notin S
  BY DEF Stack
<1>3. PICK T : T = S \ {start}
  OBVIOUS
<1>4. PICK b : b = [x \in T |-> behind[x]]
  OBVIOUS
<1>5. b \in [T -> Nat] /\ \A x \in T : b[x] = behind[x] /\ x \in S /\ b[x] \in Nat
  BY <1>1, <1>3, <1>4
<1>6. \A x \in T : behind[x] < behind[start]
  BY <1>1, <1>3
<1>7. \A x \in T : b[x] = 0 => mem[x] = NULL
  BY <1>1, <1>5
<1>8. \A x \in T : b[x] # 0 => mem[x] \in T /\ b[mem[x]] = b[x] - 1
  <2> SUFFICES ASSUME NEW x \in T, b[x] # 0 PROVE mem[x] \in T /\ b[mem[x]] = b[x] - 1
    OBVIOUS
  <2>1. mem[x] \in S /\ behind[mem[x]] = behind[x] - 1 /\ behind[x] < behind[start]
    BY <1>1, <1>5, <1>6
  <2>2. behind[x] \in Nat /\ behind[start] \in Nat
    BY <1>1, <1>5
  <2>3. mem[x] # start
    BY <2>1, <2>2
  <2> QED BY <1>3, <1>5, <2>1, <2>3
<1>9. \A x, y \in T : b[x] = b[y] => x = y
  BY <1>1, <1>5
<1>10. mem[start] = NULL => T = {}
  <2> SUFFICES ASSUME mem[start] = NULL, NEW x \in T PROVE FALSE
    OBVIOUS
  <2>1. behind[start] = 0
    BY <1>1, <1>2
  <2> QED BY <1>1, <1>5, <1>6, <2>1
<1>11. mem[start] # NULL => mem[start] \in T /\ \A x \in T : b[x] <= b[mem[start]]
  <2> SUFFICES ASSUME mem[start] # NULL
               PROVE  mem[start] \in T /\ \A x \in T : b[x] <= b[mem[start]]
    OBVIOUS
  <2>1. mem[start] \in S /\ behind[mem[start]] = behind[start] - 1
    BY <1>1
  <2>2. behind[start] \in Nat
    BY <1>1
  <2>3. mem[start] # start
    BY <2>1, <2>2
  <2>4. mem[start] \in T
    BY <1>3, <2>1, <2>3
  <2>5. \A x \in T : behind[x] \in Nat /\ behind[x] < behind[start]
    BY <1>5, <1>6
  <2> QED BY <1>5, <2>1, <2>2, <2>4, <2>5
<1>12. T \subseteq DOMAIN mem /\ NULL \notin T
  BY <1>2, <1>3
<1>13. Stack(mem[start], mem, T)
  BY <1>5, <1>7, <1>8, <1>9, <1>10, <1>11, <1>12 DEF Stack
<1> QED BY <1>1, <1>3, <1>13

\* A cell that is not on the stack goes on top.
LEMMA StackPush ==
    ASSUME NEW start, NEW mem, NEW S, Stack(start, mem, S), NEW a, a # NULL, a \notin S
    PROVE  Stack(a, Put(mem, a, start), S \cup {a})
<1>1. PICK behind \in [S -> Nat] :
         /\ start # NULL => start \in S /\ \A x \in S : behind[x] <= behind[start]
         /\ \A x \in S : behind[x] = 0 => mem[x] = NULL
         /\ \A x \in S : behind[x] # 0 => mem[x] \in S /\ behind[mem[x]] = behind[x] - 1
         /\ \A x, y \in S : behind[x] = behind[y] => x = y
  BY DEF Stack
<1>2. S \subseteq DOMAIN mem /\ NULL \notin S /\ (start = NULL => S = {})
  BY DEF Stack
<1>3. PICK T : T = S \cup {a}
  OBVIOUS
<1>4. PICK n \in Nat : n = IF start = NULL THEN 0 ELSE behind[start] + 1
  BY <1>1
<1>5. PICK b : b = [x \in T |-> IF x = a THEN n ELSE behind[x]]
  OBVIOUS
<1>6. PICK new : new = Put(mem, a, start)
  OBVIOUS
<1>7. DOMAIN new = DOMAIN mem \cup {a} /\ new[a] = start /\ \A x \in S : new[x] = mem[x]
  BY <1>2, <1>6 DEF Put
<1>8. b \in [T -> Nat] /\ b[a] = n /\ \A x \in S : x \in T /\ b[x] = behind[x] /\ b[x] \in Nat
  BY <1>1, <1>3, <1>4, <1>5
<1>9. \A x \in S : b[x] < n
  <2> SUFFICES ASSUME NEW x \in S PROVE b[x] < n
    OBVIOUS
  <2>1. start # NULL
    BY <1>2
  <2>2. behind[x] <= behind[start] /\ n = behind[start] + 1 /\ behind[start] \in Nat
    BY <1>1, <1>4, <2>1
  <2> QED BY <1>8, <2>2
<1>10. \A x \in T : b[x] <= b[a]
  BY <1>3, <1>8, <1>9
<1>11. \A x \in T : b[x] = 0 => new[x] = NULL
  BY <1>1, <1>3, <1>4, <1>7, <1>8
<1>12. \A x \in T : b[x] # 0 => new[x] \in T /\ b[new[x]] = b[x] - 1
  <2>1. ASSUME n # 0 PROVE start \in S /\ b[start] = n - 1
    <3>1. start # NULL
      BY <1>4, <2>1
    <3>2. start \in S /\ n = behind[start] + 1 /\ behind[start] \in Nat
      BY <1>1, <1>4, <3>1
    <3> QED BY <1>8, <3>2
  <2> QED BY <1>1, <1>3, <1>7, <1>8, <2>1
<1>13. \A x, y \in T : b[x] = b[y] => x = y
  BY <1>1, <1>3, <1>8, <1>9
<1>14. T \subseteq DOMAIN new /\ NULL \notin T /\ a \in T
  BY <1>2, <1>3, <1>7
<1>15. Stack(a, new, T)
  BY <1>8, <1>10, <1>11, <1>12, <1>13, <1>14 DEF Stack
<1> QED BY <1>3, <1>6, <1>15

\* Words that are no cells of the stack do not matter.
LEMMA StackFrame ==
    ASSUME NEW start, NEW mem, NEW S, Stack(start, mem, S), NEW new,
           \A x \in S : x \in DOMAIN new /\ new[x] = mem[x]
    PROVE  Stack(start, new, S)
<1>1. PICK behind \in [S -> Nat] :
         /\ start # NULL => start \in S /\ \A x \in S : behind[x] <= behind[start]
         /\ \A x \in S : behind[x] = 0 => mem[x] = NULL
         /\ \A x \in S : behind[x] # 0 => mem[x] \in S /\ behind[mem[x]] = behind[x] - 1
         /\ \A x, y \in S : behind[x] = behind[y] => x = y
  BY DEF Stack
<1> QED BY <1>1 DEF Stack

\* The stack of a new page, which links each cell to the one behind it.
LEMMA StackNew ==
    ASSUME NEW h \in Nat, NEW p \in Nat \ {0}, NEW n \in Nat \ {0}, NEW mem,
           \A k \in 0 .. n - 1 : /\ h + k * p \in DOMAIN mem
                                 /\ mem[h + k * p] = IF k = n - 1 THEN NULL ELSE h + (k + 1) * p,
           h # 0
    PROVE  Stack(h, mem, {h + k * p : k \in 0 .. n - 1})
<1>1. PICK S : S = {h + k * p : k \in 0 .. n - 1}
  OBVIOUS
<1>2. PICK at : at = [k \in 0 .. n - 1 |-> h + k * p]
  OBVIOUS
<1>3. \A k \in 0 .. n - 1 : at[k] = h + k * p /\ at[k] \in Nat \ {0}
  BY <1>2
<1>4. \A j, k \in 0 .. n - 1 : j < k => at[j] < at[k]
  <2> SUFFICES ASSUME NEW j \in 0 .. n - 1, NEW k \in 0 .. n - 1, j < k PROVE at[j] < at[k]
    OBVIOUS
  <2>1. j * p + p <= k * p /\ j * p \in Nat /\ k * p \in Nat
    BY Multiples
  <2> QED BY <1>3, <2>1
<1>5. \A j, k \in 0 .. n - 1 : at[j] = at[k] => j = k
  BY <1>3, <1>4
<1>6. at[0] = h
  BY <1>3
<1>7. \A k \in 0 .. n - 1 : at[k] \in DOMAIN mem /\ (k = n - 1 => mem[at[k]] = NULL)
                            /\ (k # n - 1 => mem[at[k]] = at[k + 1])
  BY <1>3
<1>8. S = {at[k] : k \in 0 .. n - 1}
  <2>1. \A k \in 0 .. n - 1 : at[k] = h + k * p
    BY <1>3
  <2>2. ASSUME NEW x \in S PROVE \E k \in 0 .. n - 1 : x = at[k]
    BY <1>1, <2>1
  <2>3. ASSUME NEW k \in 0 .. n - 1 PROVE at[k] \in S
    BY <1>1, <2>1
  <2> QED BY <2>2, <2>3
<1> HIDE <1>2, <1>3, <1>1
<1>9. PICK place : place = [x \in S |-> CHOOSE k \in 0 .. n - 1 : at[k] = x]
  OBVIOUS
<1>10. \A x \in S : place[x] \in 0 .. n - 1 /\ at[place[x]] = x
  BY <1>8, <1>9
<1>11. \A k \in 0 .. n - 1 : at[k] \in S /\ place[at[k]] = k
  BY <1>5, <1>8, <1>10
<1>12. PICK behind : behind = [x \in S |-> n - 1 - place[x]]
  OBVIOUS
<1>13. behind \in [S -> Nat] /\ \A x \in S : behind[x] = n - 1 - place[x]
  BY <1>10, <1>12
<1>14. h \in S /\ place[h] = 0
  BY <1>6, <1>11
<1>15. \A x \in S : behind[x] <= behind[h]
  BY <1>10, <1>13, <1>14
<1>16. \A x \in S : behind[x] = 0 => mem[x] = NULL
  BY <1>7, <1>10, <1>13
<1>17. \A x \in S : behind[x] # 0 => mem[x] \in S /\ behind[mem[x]] = behind[x] - 1
  <2> SUFFICES ASSUME NEW x \in S, behind[x] # 0
               PROVE  mem[x] \in S /\ behind[mem[x]] = behind[x] - 1
    OBVIOUS
  <2>1. PICK k \in 0 .. n - 1 : k = place[x] /\ at[k] = x
    BY <1>10
  <2>2. k # n - 1 /\ k + 1 \in 0 .. n - 1
    BY <1>13, <2>1
  <2>3. mem[x] = at[k + 1]
    BY <1>7, <2>1, <2>2
  <2>4. mem[x] \in S /\ place[mem[x]] = k + 1
    BY <1>11, <2>2, <2>3
  <2> QED BY <1>13, <2>1, <2>4
<1>18. \A x, y \in S : behind[x] = behind[y] => x = y
  <2> SUFFICES ASSUME NEW x \in S, NEW y \in S, behind[x] = behind[y] PROVE x = y
    OBVIOUS
  <2>1. place[x] = place[y]
    BY <1>10, <1>13
  <2> QED BY <1>10, <2>1
<1>19. S \subseteq DOMAIN mem /\ NULL \notin S
  <2>1. \A x \in S : x \in DOMAIN mem /\ x \in Nat \ {0}
    BY <1>3, <1>7, <1>8
  <2> QED BY <2>1 DEF NULL
<1>20. h # NULL
  BY DEF NULL
<1>21. Stack(h, mem, S)
  BY <1>13, <1>14, <1>15, <1>16, <1>17, <1>18, <1>19, <1>20 DEF Stack
<1> QED BY <1>1, <1>21

\* A set of numbers has a least one.
LEMMA Least ==
    ASSUME NEW T, T \subseteq Nat, T # {}
    PROVE  \E m0 \in T : \A j \in T : m0 <= j
<1>1. PICK R : R = OpToRel(<, Nat)
  OBVIOUS
<1>2. IsWellFoundedOn(R, Nat)
  BY <1>1, NatLessThanWellFounded
<1>3. PICK l \in T : \A j \in T : ~(<<j, l>> \in R)
  BY <1>2, WFMin
<1>4. \A i, j \in Nat : i < j => <<i, j>> \in R
  BY <1>1 DEF OpToRel
<1>5. \A j \in T : ~(j < l) /\ j \in Nat /\ l \in Nat
  BY <1>3, <1>4
<1> QED BY <1>3, <1>5

\* So Min gives an element,
LEMMA MinIn ==
    ASSUME NEW T, T \subseteq Nat, T # {}
    PROVE  Min(T) \in T /\ \A x \in T : Min(T) <= x
BY Least, Zenon DEF Min

\* and Max does when there is a bound.
LEMMA MaxIn ==
    ASSUME NEW T, NEW n \in Nat, T \subseteq 0 .. n, T # {}
    PROVE  Max(T) \in T /\ \A x \in T : x <= Max(T)
<1>1. PICK V : V = {n - x : x \in T}
  OBVIOUS
<1>2. V \subseteq Nat /\ V # {}
  <2>1. \A x \in T : x \in 0 .. n /\ n - x \in Nat /\ n - x \in V
    BY <1>1
  <2>2. \A v \in V : \E x \in T : v = n - x
    BY <1>1
  <2> QED BY <2>1, <2>2
<1>3. PICK v \in V : \A j \in V : v <= j
  BY <1>2, Least
<1>4. PICK x \in T : v = n - x
  BY <1>1, <1>3
<1>5. ASSUME NEW y \in T PROVE x >= y
  <2>1. n - y \in V
    BY <1>1
  <2>2. n - x <= n - y /\ x \in 0 .. n /\ y \in 0 .. n
    BY <1>3, <1>4, <2>1
  <2> QED BY <2>2
<1>6. \E z \in T : \A y \in T : z >= y
  BY <1>5
<1>7. Max(T) \in T /\ \A y \in T : Max(T) >= y
  BY <1>6, Zenon DEF Max
<1> QED BY <1>7

-----------------------------------------------------------------------------
(* The skip list, as far as its links lead from free blocks or the head to *)
(* big blocks: what is sure of any walk on it.                             *)

SkipOk(s, B) ==
    /\ IsFiniteSet(B) /\ B \subseteq Nat \ {0}
    /\ s.fwd \in [B \cup {HEAD} -> [Levels -> B \cup {NULL}]]
    /\ s.level \in Levels

\* A walk of c steps on a level goes on while the next node is smaller,
LevelWalk(s, N, size, i, c, walk) ==
    \A k \in 0 .. c, x \in N :
      walk[k][x] = IF k > 0 /\ s.fwd[x][i] # NULL /\ s.hdr[s.fwd[x][i]].size < size
                     THEN walk[k - 1][s.fwd[x][i]] ELSE x
LEMMA AlongWalk ==
    ASSUME NEW s, NEW B, SkipOk(s, B), NEW size, NEW from, NEW i \in Levels
    PROVE  \E walk : /\ Along(s, size, from, i) = walk[Cardinality(B \cup {HEAD})][from]
                     /\ LevelWalk(s, B \cup {HEAD}, size, i, Cardinality(B \cup {HEAD}), walk)
<1> DEFINE next(x) == s.fwd[x][i]
           smaller(x) == x # NULL /\ s.hdr[x].size < size
           Eq(f) == f = [k \in 0 .. Cardinality(Nodes(s)) |->
                           [x \in Nodes(s) |-> IF k > 0 /\ smaller(next(x)) THEN f[k - 1][next(x)] ELSE x]]
<1>1. PICK N : N = B \cup {HEAD}
  OBVIOUS
<1>2. Nodes(s) = N
  BY <1>1 DEF SkipOk, Nodes
<1>3. IsFiniteSet(N)
  BY <1>1, FS_Union, FS_Singleton DEF SkipOk
<1>4. PICK c \in Nat : c = Cardinality(N)
  BY <1>3, FS_CardinalityType
<1>5. \A x \in N : smaller(next(x)) => next(x) \in N
  BY <1>1 DEF SkipOk
<1>6. PICK small : small = [x \in N |-> smaller(next(x))]
  OBVIOUS
<1>7. PICK nx : nx = [x \in N |-> next(x)]
  OBVIOUS
<1>8. \A x \in N : small[x] <=> smaller(next(x))
  BY <1>6
<1>9. \A x \in N : nx[x] = next(x) /\ (small[x] => nx[x] \in N)
  BY <1>5, <1>7, <1>8
<1> HIDE DEF next, smaller
<1>10. \A f : Eq(f) <=> f = [k \in 0 .. c |-> [x \in N |-> IF k > 0 /\ small[x] THEN f[k - 1][nx[x]] ELSE x]]
  <2> SUFFICES ASSUME NEW f
               PROVE  [k \in 0 .. c |-> [x \in N |-> IF k > 0 /\ small[x] THEN f[k - 1][nx[x]] ELSE x]]
                    = [k \in 0 .. c |-> [x \in N |-> IF k > 0 /\ smaller(next(x)) THEN f[k - 1][next(x)] ELSE x]]
    BY <1>2, <1>4
  <2>1. \A k \in 0 .. c : [x \in N |-> IF k > 0 /\ small[x] THEN f[k - 1][nx[x]] ELSE x]
                       = [x \in N |-> IF k > 0 /\ smaller(next(x)) THEN f[k - 1][next(x)] ELSE x]
    BY <1>8, <1>9
  <2> QED BY <2>1
<1>11. Along(s, size, from, i) = (CHOOSE f : Eq(f))[c][from]
  BY <1>2, <1>4 DEF Along, next, smaller
<1> HIDE DEF Eq
<1>12. PICK X : X = [N -> N]
  OBVIOUS
<1>13. PICK F : F = [k \in 1 .. c |-> [g \in X |-> [x \in N |-> IF small[x] THEN g[nx[x]] ELSE x]]]
  OBVIOUS
<1>14. F \in [1 .. c -> [X -> X]]
  <2>1. ASSUME NEW g \in X PROVE [x \in N |-> IF small[x] THEN g[nx[x]] ELSE x] \in X
    BY <1>9, <1>12, <2>1
  <2> QED BY <1>13, <2>1
<1>15. PICK id : id = [x \in N |-> x] /\ id \in X
  <2>1. [x \in N |-> x] \in [N -> N]
    OBVIOUS
  <2> QED BY <1>12, <2>1
<1>16. PICK f \in [0 .. c -> X] : f[0] = id /\ \A k \in 1 .. c : f[k] = F[k][f[k - 1]]
  <2>1. Iterable(c, X, id, F)
    BY <1>4, <1>14, <1>15 DEF Iterable
  <2>2. \E f : Iterates(c, X, id, F, f)
    BY <2>1, Iterate
  <2> QED BY <2>2 DEF Iterates
<1>17. \A k \in 0 .. c : f[k] = [x \in N |-> IF k > 0 /\ small[x] THEN f[k - 1][nx[x]] ELSE x]
  <2> SUFFICES ASSUME NEW k \in 0 .. c
               PROVE  f[k] = [x \in N |-> IF k > 0 /\ small[x] THEN f[k - 1][nx[x]] ELSE x]
    OBVIOUS
  <2>1. CASE k = 0
    BY <1>15, <1>16, <2>1
  <2>2. CASE k # 0
    <3>1. k \in 1 .. c /\ k - 1 \in 0 .. c /\ k > 0
      BY <2>2
    <3>2. f[k - 1] \in X
      BY <1>16, <3>1
    <3> QED BY <1>13, <1>16, <3>1, <3>2
  <2> QED BY <2>1, <2>2
<1>18. Eq(f)
  <2>1. f = [k \in 0 .. c |-> f[k]]
    BY <1>16
  <2> QED BY <1>10, <1>17, <2>1
<1>19. PICK walk : walk = CHOOSE g : Eq(g)
  OBVIOUS
<1>20. Eq(walk)
  BY <1>18, <1>19
<1>21. \A k \in 0 .. c : walk[k] = [x \in N |-> IF k > 0 /\ small[x] THEN walk[k - 1][nx[x]] ELSE x]
  BY <1>10, <1>20
<1>22. \A k \in 0 .. c, x \in N : walk[k][x] = IF k > 0 /\ small[x] THEN walk[k - 1][nx[x]] ELSE x
  BY <1>21
<1>23. \A x \in N : small[x] <=> (s.fwd[x][i] # NULL /\ s.hdr[s.fwd[x][i]].size < size)
  BY <1>8 DEF smaller, next
<1>24. \A x \in N : nx[x] = s.fwd[x][i]
  BY <1>9 DEF next
<1>25. Along(s, size, from, i) = walk[c][from]
  BY <1>11, <1>19
<1>26. LevelWalk(s, N, size, i, c, walk)
  BY <1>22, <1>23, <1>24 DEF LevelWalk
<1> QED BY <1>1, <1>4, <1>25, <1>26

\* so that it stays among the nodes,
LEMMA AlongType ==
    ASSUME NEW s, NEW B, SkipOk(s, B), NEW size, NEW from \in B \cup {HEAD}, NEW i \in Levels
    PROVE  Along(s, size, from, i) \in B \cup {HEAD}
<1>1. PICK N : N = B \cup {HEAD}
  OBVIOUS
<1>2. IsFiniteSet(N)
  BY <1>1, FS_Union, FS_Singleton DEF SkipOk
<1>3. PICK c \in Nat : c = Cardinality(N)
  BY <1>2, FS_CardinalityType
<1>4. PICK walk : Along(s, size, from, i) = walk[c][from] /\ LevelWalk(s, N, size, i, c, walk)
  BY <1>1, <1>3, AlongWalk
<1>5. \A x \in N : s.fwd[x][i] # NULL => s.fwd[x][i] \in N
  BY <1>1 DEF SkipOk
<1>6. PICK S : S = {k \in 0 .. c : \A x \in N : walk[k][x] \in N}
  OBVIOUS
<1>7. 0 \in S
  <2>1. 0 \in 0 .. c /\ ~(0 > 0)
    OBVIOUS
  <2> QED BY <1>4, <1>6, <2>1 DEF LevelWalk
<1>8. ASSUME NEW k \in 0 .. c - 1, k \in S PROVE k + 1 \in S
  <2>1. PICK j : j = k + 1 /\ j \in 0 .. c /\ j - 1 = k
    OBVIOUS
  <2>2. \A x \in N : walk[j][x] \in N
    BY <1>4, <1>5, <1>6, <1>8, <2>1 DEF LevelWalk
  <2> QED BY <1>6, <2>1, <2>2
<1>9. c \in S
  <2>1. \A k \in 0 .. c : k \in S
    BY <1>7, <1>8, UpFrom
  <2> QED BY <2>1
<1>10. from \in N
  BY <1>1
<1> QED BY <1>1, <1>4, <1>6, <1>9, <1>10

\* and each level begins where the one above ended,
LEMMA BeforeIs ==
    ASSUME NEW s, NEW B, SkipOk(s, B), NEW size
    PROVE  \A i \in 0 .. s.level :
             Before(s, size)[i] = Along(s, size, IF i = s.level THEN HEAD ELSE Before(s, size)[i + 1], i)
<1> DEFINE Eq(f) == f = [i \in 0 .. s.level |-> Along(s, size, IF i = s.level THEN HEAD ELSE f[i + 1], i)]
<1>1. PICK N : N = B \cup {HEAD} /\ HEAD \in N
  <2>1. HEAD \in B \cup {HEAD}
    OBVIOUS
  <2> QED BY <2>1, Zenon
<1>2. PICK n \in Nat : n = s.level /\ 0 .. n \subseteq Levels
  BY Constants DEF SkipOk, Levels
<1>3. \A x \in N, i \in 0 .. n : Along(s, size, x, i) \in N
  BY <1>1, <1>2, AlongType
<1>4. PICK al : al = [i \in 0 .. n |-> [x \in N |-> Along(s, size, x, i)]]
  OBVIOUS
<1>5. \A x \in N, i \in 0 .. n : al[i][x] = Along(s, size, x, i) /\ al[i][x] \in N
  BY <1>3, <1>4
<1>6. Before(s, size) = CHOOSE f : Eq(f)
  BY DEF Before
<1>7. PICK F : F = [k \in 1 .. n |-> [x \in N |-> al[n - k][x]]]
  OBVIOUS
<1>8. F \in [1 .. n -> [N -> N]] /\ \A k \in 1 .. n, x \in N : F[k][x] = al[n - k][x]
  <2>1. \A k \in 1 .. n : n - k \in 0 .. n
    OBVIOUS
  <2> QED BY <1>5, <1>7, <2>1
<1>9. al[n][HEAD] \in N
  BY <1>1, <1>5
<1>10. PICK f \in [0 .. n -> N] : f[0] = al[n][HEAD] /\ \A k \in 1 .. n : f[k] = F[k][f[k - 1]]
  <2>1. Iterable(n, N, al[n][HEAD], F)
    BY <1>8, <1>9 DEF Iterable
  <2>2. \E f : Iterates(n, N, al[n][HEAD], F, f)
    BY <2>1, Iterate
  <2> QED BY <2>2 DEF Iterates
<1>11. PICK u : u = [i \in 0 .. n |-> f[n - i]]
  OBVIOUS
<1>12. \A i \in 0 .. n : u[i] = Along(s, size, IF i = n THEN HEAD ELSE u[i + 1], i)
  <2> SUFFICES ASSUME NEW i \in 0 .. n
               PROVE  u[i] = Along(s, size, IF i = n THEN HEAD ELSE u[i + 1], i)
    OBVIOUS
  <2>1. CASE i = n
    <3>1. n - n = 0 /\ n \in 0 .. n
      OBVIOUS
    <3>2. u[n] = al[n][HEAD]
      BY <1>10, <1>11, <3>1
    <3> QED BY <1>1, <1>5, <2>1, <3>1, <3>2
  <2>2. CASE i # n
    <3>1. n - i \in 1 .. n /\ n - i - 1 \in 0 .. n /\ i + 1 \in 0 .. n /\ n - (i + 1) = n - i - 1 /\ n - (n - i) = i
      BY <2>2
    <3>2. u[i] = f[n - i] /\ u[i + 1] = f[n - i - 1] /\ f[n - i - 1] \in N
      BY <1>10, <1>11, <3>1
    <3>3. f[n - i] = F[n - i][f[n - i - 1]]
      BY <1>10, <3>1
    <3>4. F[n - i][f[n - i - 1]] = al[i][f[n - i - 1]]
      BY <1>8, <3>1, <3>2
    <3> QED BY <1>5, <2>2, <3>2, <3>3, <3>4
  <2> QED BY <2>1, <2>2
<1>13. Eq(u)
  <2>1. u = [i \in 0 .. n |-> u[i]]
    BY <1>11
  <2> QED BY <1>2, <1>12, <2>1
<1> HIDE DEF Eq
<1>14. PICK b : b = Before(s, size)
  OBVIOUS
<1>15. Eq(b)
  BY <1>6, <1>13, <1>14
<1>16. \A i \in 0 .. n : b[i] = Along(s, size, IF i = n THEN HEAD ELSE b[i + 1], i)
  BY <1>2, <1>15 DEF Eq
<1> QED BY <1>2, <1>14, <1>16

\* among the nodes, too.
LEMMA BeforeType ==
    ASSUME NEW s, NEW B, SkipOk(s, B), NEW size
    PROVE  \A i \in 0 .. s.level : Before(s, size)[i] \in B \cup {HEAD}
<1>1. PICK N : N = B \cup {HEAD} /\ HEAD \in N
  <2>1. HEAD \in B \cup {HEAD}
    OBVIOUS
  <2> QED BY <2>1, Zenon
<1>2. PICK n \in Nat : n = s.level /\ 0 .. n \subseteq Levels
  BY Constants DEF SkipOk, Levels
<1>3. \A x \in N, i \in 0 .. n : Along(s, size, x, i) \in N
  BY <1>1, <1>2, AlongType
<1>4. PICK b : b = Before(s, size)
  OBVIOUS
<1>5. \A i \in 0 .. n : b[i] = Along(s, size, IF i = n THEN HEAD ELSE b[i + 1], i)
  BY <1>2, <1>4, BeforeIs
<1>6. PICK S : S = {k \in 0 .. n : b[n - k] \in N}
  OBVIOUS
<1>7. 0 \in S
  <2>1. n \in 0 .. n /\ n - 0 = n /\ 0 \in 0 .. n
    OBVIOUS
  <2>2. b[n] = Along(s, size, HEAD, n)
    BY <1>5, <2>1
  <2> QED BY <1>1, <1>3, <1>6, <2>1, <2>2
<1>8. ASSUME NEW k \in 0 .. n - 1, k \in S PROVE k + 1 \in S
  <2>1. PICK i \in 0 .. n : i = n - (k + 1) /\ i # n /\ i + 1 = n - k /\ k + 1 \in 0 .. n
    OBVIOUS
  <2>2. b[i + 1] \in N
    BY <1>6, <1>8, <2>1
  <2>3. b[i] = Along(s, size, b[i + 1], i)
    BY <1>5, <2>1
  <2>4. b[i] \in N
    BY <1>3, <2>2, <2>3
  <2> QED BY <1>6, <2>1, <2>4
<1>9. \A k \in 0 .. n : k \in S
  BY <1>7, <1>8, UpFrom
<1>10. ASSUME NEW i \in 0 .. n PROVE b[i] \in N
  <2>1. n - i \in 0 .. n /\ n - (n - i) = i
    OBVIOUS
  <2> QED BY <1>6, <1>9, <2>1
<1> QED BY <1>1, <1>2, <1>4, <1>10

\* The search finds a big block or none.
LEMMA FindType ==
    ASSUME NEW s, NEW B, SkipOk(s, B), NEW size
    PROVE  klmalloc_skip_list_findbest(s, size) \in B \cup {NULL}
<1>1. 0 \in 0 .. s.level /\ 0 \in Levels
  BY Constants DEF SkipOk, Levels
<1>2. Before(s, size)[0] \in B \cup {HEAD}
  BY <1>1, BeforeType
<1> QED BY <1>1, <1>2 DEF klmalloc_skip_list_findbest, SkipOk

Fields == {"brk", "hdr", "first", "fwd", "level", "newest", "mem", "status"}
IsState(s) == DOMAIN s = Fields

\* What the skip list does not touch.
OnlySkips(s, t) ==
    /\ IsState(t) /\ t.brk = s.brk /\ t.hdr = s.hdr /\ t.first = s.first
    /\ t.newest = s.newest /\ t.mem = s.mem

\* A failed assertion leaves the skip list alone.
LEMMA FailOnly ==
    ASSUME NEW s, IsState(s), NEW B, SkipOk(s, B), NEW why
    PROVE  OnlySkips(s, Fail(s, why)) /\ SkipOk(Fail(s, why), B)
BY DEF Fail, OnlySkips, SkipOk, IsState, Fields

\* Whatever order the list is in, an insertion links nodes to nodes only,
LEMMA SkipInsert ==
    ASSUME NEW s, IsState(s), NEW B, SkipOk(s, B), NEW h \in B, NEW level \in Levels
    PROVE  /\ OnlySkips(s, klmalloc_skip_list_insert(s, h, level))
           /\ SkipOk(klmalloc_skip_list_insert(s, h, level), B)
<1> DEFINE update == Before(s, s.hdr[h].size)
           at(i) == IF i <= s.level THEN update[i] ELSE HEAD
           next(n, i) == IF i <= level /\ n = h THEN s.fwd[at(i)][i]
                         ELSE IF i <= level /\ n = at(i) THEN h ELSE s.fwd[n][i]
           fwd == [n \in Nodes(s) |-> [i \in Levels |-> next(n, i)]]
           top == Max({s.level, level})
           t == [s EXCEPT !.fwd = fwd, !.level = top]
<1>1. PICK N : N = B \cup {HEAD} /\ HEAD \in N /\ B \subseteq N
  <2>1. HEAD \in B \cup {HEAD} /\ B \subseteq B \cup {HEAD}
    OBVIOUS
  <2> QED BY <2>1, Zenon
<1>2. Nodes(s) = N /\ s.fwd \in [N -> [Levels -> B \cup {NULL}]]
  BY <1>1 DEF SkipOk, Nodes
<1>3. \A i \in 0 .. s.level : update[i] \in N
  BY <1>1, BeforeType
<1>4. \A i \in Levels : at(i) \in N
  BY <1>1, <1>3 DEF Levels
<1> HIDE DEF update, at
<1>5. \A n \in N, i \in Levels : next(n, i) \in B \cup {NULL}
  <2> SUFFICES ASSUME NEW n \in N, NEW i \in Levels PROVE next(n, i) \in B \cup {NULL}
    OBVIOUS
  <2>1. s.fwd[n][i] \in B \cup {NULL} /\ s.fwd[at(i)][i] \in B \cup {NULL}
    BY <1>2, <1>4
  <2>2. h \in B \cup {NULL}
    OBVIOUS
  <2> QED BY <2>1, <2>2
<1> HIDE DEF next
<1>6. fwd \in [N -> [Levels -> B \cup {NULL}]]
  BY <1>2, <1>5
<1>7. top \in Levels
  <2>1. {s.level, level} \subseteq 0 .. SKIP_MAX_LEVEL /\ {s.level, level} # {} /\ SKIP_MAX_LEVEL \in Nat
    BY Constants DEF SkipOk, Levels
  <2>2. top \in {s.level, level}
    BY <2>1, MaxIn
  <2> QED BY <2>2 DEF SkipOk
<1> HIDE DEF fwd, top
<1>8. t.fwd = fwd /\ t.level = top /\ OnlySkips(s, t)
  BY DEF OnlySkips, IsState, Fields
<1>9. SkipOk(t, B)
  BY <1>1, <1>6, <1>7, <1>8 DEF SkipOk
<1>10. klmalloc_skip_list_insert(s, h, level) \in {t, s, Fail(s, "panic")}
  BY DEF klmalloc_skip_list_insert, t, fwd, top, next, at, update
<1>11. OnlySkips(s, s)
  BY DEF OnlySkips
<1> HIDE DEF t
<1> QED BY <1>8, <1>9, <1>10, <1>11, FailOnly

\* and so does a removal.
LEMMA SkipDelete ==
    ASSUME NEW s, IsState(s), NEW B, SkipOk(s, B), NEW h \in B
    PROVE  /\ OnlySkips(s, klmalloc_skip_list_delete(s, h))
           /\ SkipOk(klmalloc_skip_list_delete(s, h), B)
           /\ klmalloc_skip_list_delete(s, h).status = "ok" => s.hdr[h].head # NULL
<1> DEFINE update == Before(s, s.hdr[h].size)
           off == {i \in 0 .. s.level : s.fwd[update[i]][i] # h}
           top == IF off = {} THEN s.level ELSE Min(off) - 1
           next(n, i) == IF i <= top /\ n = update[i] THEN s.fwd[h][i] ELSE s.fwd[n][i]
           fwd == [n \in Nodes(s) |-> [i \in Levels |-> next(n, i)]]
           used == {0} \cup {i \in 1 .. s.level : fwd[HEAD][i] # NULL}
           t == [s EXCEPT !.fwd = fwd, !.level = Max(used)]
<1>1. PICK N : N = B \cup {HEAD} /\ HEAD \in N /\ B \subseteq N
  <2>1. HEAD \in B \cup {HEAD} /\ B \subseteq B \cup {HEAD}
    OBVIOUS
  <2> QED BY <2>1, Zenon
<1>2. Nodes(s) = N /\ s.fwd \in [N -> [Levels -> B \cup {NULL}]]
  BY <1>1 DEF SkipOk, Nodes
<1> HIDE DEF update, top
<1>3. \A n \in N, i \in Levels : next(n, i) \in B \cup {NULL}
  BY <1>1, <1>2
<1> HIDE DEF next
<1>4. fwd \in [N -> [Levels -> B \cup {NULL}]]
  BY <1>2, <1>3
<1> HIDE DEF fwd
<1>5. Max(used) \in Levels
  <2>1. used \subseteq 0 .. s.level /\ used # {} /\ s.level \in Nat /\ 0 .. s.level \subseteq Levels
    BY Constants DEF SkipOk, Levels
  <2> HIDE DEF used
  <2>2. Max(used) \in used
    BY <2>1, MaxIn
  <2> QED BY <2>1, <2>2
<1> HIDE DEF used
<1>6. t.fwd = fwd /\ t.level = Max(used) /\ OnlySkips(s, t)
  BY DEF OnlySkips, IsState, Fields
<1>7. SkipOk(t, B)
  BY <1>1, <1>4, <1>5, <1>6 DEF SkipOk
<1>8. klmalloc_skip_list_delete(s, h) = IF s.hdr[h].head = NULL \/ ~Inside(s, h, s.hdr[h].head)
                                          THEN Fail(s, "panic") ELSE t
  BY DEF klmalloc_skip_list_delete, t, used, fwd, next, top, off, update
<1>9. Fail(s, "panic").status # "ok"
  BY DEF Fail, IsState, Fields
<1> HIDE DEF t
<1> QED BY <1>6, <1>7, <1>8, <1>9, FailOnly

-----------------------------------------------------------------------------
(* The pages that sbrk gave, and what is a place for a block in them.      *)

HeaderFields == {"next", "head", "size", "prev"}
Headers(s) == DOMAIN s.hdr
BigOf(s) == {h \in Headers(s) : IsBig(s, h)}
SmallOf(s, b) == {h \in Headers(s) : s.hdr[h].size = b}
Length(s, h) == IF IsBig(s, h) THEN s.hdr[h].size + BIG_HEADER ELSE PAGE_SIZE

Layout(s) ==
    /\ IsState(s) /\ IsFiniteSet(Headers(s))
    /\ s.brk \in Nat /\ s.brk >= PAGE_SIZE /\ Aligned(s.brk)
    /\ \A h \in Headers(s) :
         /\ h \in Nat /\ h >= PAGE_SIZE /\ Aligned(h) /\ DOMAIN s.hdr[h] = HeaderFields
         /\ s.hdr[h].size \in Nat
         /\ IsBig(s, h) \/ s.hdr[h].size \in Bins
         /\ Length(s, h) >= PAGE_SIZE /\ h + Length(s, h) <= s.brk
    /\ \A g, h \in Headers(s) : g < h => g + Length(s, g) <= h

Slot(s, h, u) == IF IsBig(s, h) THEN u = h + BIG_HEADER ELSE u \in CellsOf(h, s.hdr[h].size)
SlotSize(s, h) == IF IsBig(s, h) THEN s.hdr[h].size ELSE 2 ^ s.hdr[h].size

\* The headers of small pages hold the number of a bin.
LEMMA BinsAreSmall ==
    ASSUME NEW s, NEW h, s.hdr[h].size \in Bins
    PROVE  ~IsBig(s, h)
BY Constants DEF IsBig, Bins

\* A slot is in its page behind the header, and not where a page begins.
LEMMA SlotFits ==
    ASSUME NEW s, Layout(s), NEW h \in Headers(s), NEW u, Slot(s, h, u)
    PROVE  /\ u \in Nat /\ h + BIN_HEADER <= u /\ u < h + PAGE_SIZE
           /\ SlotSize(s, h) \in Nat \ {0} /\ u + SlotSize(s, h) <= h + Length(s, h)
           /\ Page(u) = h /\ u % PAGE_SIZE # 0
<1>1. h \in Nat /\ Aligned(h) /\ s.hdr[h].size \in Nat /\ (IsBig(s, h) \/ s.hdr[h].size \in Bins)
  BY DEF Layout
<1>2. CASE IsBig(s, h)
  <2>1. u = h + BIG_HEADER /\ SlotSize(s, h) = s.hdr[h].size /\ Length(s, h) = s.hdr[h].size + BIG_HEADER
    BY <1>2 DEF Slot, SlotSize, Length
  <2>2. s.hdr[h].size > NUM_BINS
    BY <1>2 DEF IsBig
  <2>3. Page(h + BIG_HEADER) = h /\ (h + BIG_HEADER) % PAGE_SIZE = BIG_HEADER
    BY <1>1, Constants, PageIs
  <2> QED BY <1>1, <2>1, <2>2, <2>3, Constants
<1>3. CASE ~IsBig(s, h)
  <2>1. PICK b \in Bins : b = s.hdr[h].size
    BY <1>1, <1>3
  <2>2. u \in CellsOf(h, b) /\ SlotSize(s, h) = 2 ^ b /\ Length(s, h) = PAGE_SIZE
    BY <1>3, <2>1 DEF Slot, SlotSize, Length
  <2>3. PICK p \in Nat \ {0} : p = 2 ^ b
    BY Power
  <2>4. u \in Nat /\ h + BIN_HEADER <= u /\ u + p <= h + PAGE_SIZE
    BY <1>1, <2>2, <2>3, CellsFit
  <2>5. PICK r \in Nat : u = h + r /\ r < PAGE_SIZE /\ r # 0
    <3>1. u - h \in Nat /\ u = h + (u - h) /\ u - h < PAGE_SIZE /\ u - h # 0
      BY <1>1, <2>4, Constants
    <3> QED BY <3>1
  <2>6. Page(u) = h /\ u % PAGE_SIZE = r
    BY <1>1, <2>5, PageIs
  <2> QED BY <1>1, <2>2, <2>3, <2>4, <2>5, <2>6, Constants
<1> QED BY <1>2, <1>3

\* No slot reaches into another.
LEMMA SlotsApart ==
    ASSUME NEW s, Layout(s), NEW h \in Headers(s), NEW u, Slot(s, h, u),
           NEW g \in Headers(s), NEW v, Slot(s, g, v)
    PROVE  /\ u = v => g = h
           /\ u < v => u + SlotSize(s, h) <= v
<1>1. /\ u \in Nat /\ h + BIN_HEADER <= u /\ u < h + PAGE_SIZE
      /\ SlotSize(s, h) \in Nat /\ u + SlotSize(s, h) <= h + Length(s, h) /\ Page(u) = h
  BY SlotFits
<1>2. v \in Nat /\ g + BIN_HEADER <= v /\ v < g + PAGE_SIZE /\ Page(v) = g
  BY SlotFits
<1>3. h \in Nat /\ g \in Nat /\ (g < h => g + Length(s, g) <= h) /\ (h < g => h + Length(s, h) <= g)
  BY DEF Layout
<1>4. Length(s, g) >= PAGE_SIZE /\ Length(s, g) \in Nat /\ Length(s, h) \in Nat
  BY Constants DEF Layout, Length
<1>5. ASSUME u < v, g = h PROVE u + SlotSize(s, h) <= v
  <2>1. CASE IsBig(s, h)
    BY <1>1, <1>5, <2>1 DEF Slot
  <2>2. CASE ~IsBig(s, h)
    <3>1. PICK b \in Bins : b = s.hdr[h].size
      BY <2>2 DEF Layout
    <3>2. u \in CellsOf(h, b) /\ v \in CellsOf(h, b) /\ SlotSize(s, h) = 2 ^ b
      BY <1>5, <2>2, <3>1 DEF Slot, SlotSize
    <3> QED BY <1>3, <1>5, <3>2, CellsFit
  <2> QED BY <2>1, <2>2
<1>6. ASSUME u < v, h < g PROVE u + SlotSize(s, h) <= v
  BY <1>1, <1>2, <1>3, <1>4, <1>6, Constants
<1>7. ASSUME u < v, g < h PROVE FALSE
  BY <1>1, <1>2, <1>3, <1>4, <1>7, Constants
<1> QED BY <1>1, <1>2, <1>3, <1>5, <1>6, <1>7

\* Only the sizes and places of the headers count.
SameHeaders(s, t) ==
    /\ IsState(t) /\ t.brk = s.brk /\ Headers(t) = Headers(s)
    /\ \A g \in Headers(s) : DOMAIN t.hdr[g] = HeaderFields /\ t.hdr[g].size = s.hdr[g].size

\* The slots stay where they are as long as the sizes do.
LEMMA HeadersFrame ==
    ASSUME NEW s, NEW t, Layout(s), SameHeaders(s, t)
    PROVE  /\ Layout(t) /\ BigOf(t) = BigOf(s) /\ \A b : SmallOf(t, b) = SmallOf(s, b)
           /\ \A g \in Headers(s) :
                /\ IsBig(t, g) <=> IsBig(s, g)
                /\ Length(t, g) = Length(s, g) /\ SlotSize(t, g) = SlotSize(s, g)
                /\ \A u : Slot(t, g, u) <=> Slot(s, g, u)
<1>1. \A g \in Headers(s) :
        /\ IsBig(t, g) <=> IsBig(s, g)
        /\ t.hdr[g].size = s.hdr[g].size /\ DOMAIN t.hdr[g] = HeaderFields
  BY DEF SameHeaders, IsBig
<1>2. \A g \in Headers(s) :
        /\ Length(t, g) = Length(s, g) /\ SlotSize(t, g) = SlotSize(s, g)
        /\ \A u : Slot(t, g, u) <=> Slot(s, g, u)
  BY <1>1 DEF Length, SlotSize, Slot
<1>3. BigOf(t) = BigOf(s) /\ \A b : SmallOf(t, b) = SmallOf(s, b)
  BY <1>1 DEF BigOf, SmallOf, SameHeaders
<1>4. Layout(t)
  BY <1>1, <1>2 DEF Layout, SameHeaders
<1> QED BY <1>1, <1>2, <1>3, <1>4

-----------------------------------------------------------------------------
(* The allocator with the places of U in use.                              *)

SmallOk(s, U) ==
    /\ DOMAIN s.first = Bins /\ \A b \in Bins : s.first[b] \in {NULL} \cup SmallOf(s, b)
    /\ \A h \in Headers(s) : ~IsBig(s, h) =>
         /\ s.hdr[h].next \in {NULL} \cup SmallOf(s, s.hdr[h].size)
         /\ Stack(s.hdr[h].head, s.mem, CellsOf(h, s.hdr[h].size) \ U)
BigOk(s, U) ==
    /\ SkipOk(s, BigOf(s)) /\ s.newest \in {NULL} \cup BigOf(s)
    /\ \A h \in BigOf(s) :
         /\ s.hdr[h].head \in {NULL, h + BIG_HEADER}
         /\ s.hdr[h].head = NULL <=> h + BIG_HEADER \in U
         /\ s.hdr[h].head # NULL => h + BIG_HEADER \in DOMAIN s.mem /\ s.mem[h + BIG_HEADER] = NULL
Good(s, U) ==
    /\ Layout(s) /\ SmallOk(s, U) /\ BigOk(s, U)
    /\ \A u \in U : \E h \in Headers(s) : Slot(s, h, u)

\* What an operation leaves to the blocks in use, when it may write at the places W.
Keeps(s, t, written) ==
    /\ Headers(s) \subseteq Headers(t)
    /\ \A g \in Headers(s) : t.hdr[g].size = s.hdr[g].size
    /\ \A x \in DOMAIN s.mem \ written : x <= s.brk => x \in DOMAIN t.mem /\ t.mem[x] = s.mem[x]

\* t is s with the stack of h beginning at x.
HeadSet(s, t, h, x) ==
    /\ SameHeaders(s, t) /\ t.first = s.first /\ t.fwd = s.fwd /\ t.level = s.level
    /\ t.newest = s.newest /\ t.status = s.status
    /\ \A g \in Headers(s) : t.hdr[g].next = s.hdr[g].next /\ (g # h => t.hdr[g].head = s.hdr[g].head)
    /\ t.hdr[h].head = x

\* A new head of the stack of h changes no size.
LEMMA SetHead ==
    ASSUME NEW s, Layout(s), NEW h \in Headers(s), NEW x
    PROVE  HeadSet(s, [s EXCEPT !.hdr[h].head = x], h, x) /\ [s EXCEPT !.hdr[h].head = x].mem = s.mem
<1>1. IsState(s) /\ \A g \in Headers(s) : DOMAIN s.hdr[g] = HeaderFields
  BY DEF Layout
<1>2. PICK page : page = [s.hdr[h] EXCEPT !.head = x]
  OBVIOUS
<1>3. PICK hdr : hdr = [s.hdr EXCEPT ![h] = page]
  OBVIOUS
<1>4. [s EXCEPT !.hdr[h].head = x] = [s EXCEPT !.hdr = hdr]
  BY <1>2, <1>3
<1>5. PICK t : t = [s EXCEPT !.hdr = hdr]
  OBVIOUS
<1>6. DOMAIN page = HeaderFields /\ page.head = x /\ page.next = s.hdr[h].next /\ page.size = s.hdr[h].size
  BY <1>1, <1>2 DEF HeaderFields
<1>7. DOMAIN hdr = Headers(s) /\ hdr[h] = page /\ \A g \in Headers(s) : g # h => hdr[g] = s.hdr[g]
  BY <1>3 DEF Headers
<1>8. /\ IsState(t) /\ t.hdr = hdr /\ t.brk = s.brk /\ t.first = s.first /\ t.fwd = s.fwd
      /\ t.level = s.level /\ t.newest = s.newest /\ t.status = s.status /\ t.mem = s.mem
  BY <1>1, <1>5 DEF IsState, Fields
<1>9. SameHeaders(s, t)
  BY <1>1, <1>6, <1>7, <1>8 DEF SameHeaders, Headers
<1>10. \A g \in Headers(s) : t.hdr[g].next = s.hdr[g].next /\ (g # h => t.hdr[g].head = s.hdr[g].head)
  BY <1>6, <1>7, <1>8
<1>11. HeadSet(s, t, h, x)
  BY <1>6, <1>7, <1>8, <1>9, <1>10 DEF HeadSet
<1> QED BY <1>4, <1>5, <1>8, <1>11

\* A place is in one page only.
LEMMA OnePage ==
    ASSUME NEW s, Layout(s), NEW h \in Headers(s), NEW u, Slot(s, h, u), NEW g \in Headers(s), g # h
    PROVE  /\ ~Slot(s, g, u)
           /\ ~IsBig(s, g) => u \notin CellsOf(g, s.hdr[g].size)
           /\ IsBig(s, g) => g + BIG_HEADER # u
<1>1. ~Slot(s, g, u)
  BY SlotsApart
<1> QED BY <1>1 DEF Slot

\* The skip list is about the same blocks as long as the sizes stay.
LEMMA BigSame ==
    ASSUME NEW s, NEW t, NEW B, SkipOk(s, B), t.fwd = s.fwd, t.level = s.level
    PROVE  SkipOk(t, B)
BY DEF SkipOk

\* A cell or block taken from h was free, and is a place in use from now on.
LEMMA PopKeeps ==
    ASSUME NEW s, NEW U, Good(s, U), NEW h \in Headers(s), NEW t, t = klmalloc_stack_pop(s, h),
           t.status = "ok", NEW item, item = s.hdr[h].head
    PROVE  /\ Good(t, U \cup {item}) /\ item \notin U /\ Slot(s, h, item) /\ item # NULL
           /\ HeadSet(s, t, h, s.mem[item]) /\ t.mem = s.mem
<1>1. Layout(s) /\ SmallOk(s, U) /\ BigOk(s, U) /\ IsState(s) /\ h \in Nat /\ h >= PAGE_SIZE
  BY DEF Good, Layout
<1>2. Inside(s, h, item) /\ t = [s EXCEPT !.hdr[h].head = s.mem[item]]
  <2>1. Fail(s, "panic").status # "ok"
    BY <1>1 DEF Fail, IsState, Fields
  <2> QED BY <2>1 DEF klmalloc_stack_pop
<1>3. item # NULL
  BY <1>1, <1>2, Constants DEF Inside
<1>4. HeadSet(s, t, h, s.mem[item]) /\ t.mem = s.mem
  BY <1>1, <1>2, SetHead
<1>5. SameHeaders(s, t)
  BY <1>4 DEF HeadSet
<1>6. /\ Layout(t) /\ BigOf(t) = BigOf(s) /\ \A b : SmallOf(t, b) = SmallOf(s, b)
      /\ \A g \in Headers(s) : (IsBig(t, g) <=> IsBig(s, g)) /\ \A u : Slot(t, g, u) <=> Slot(s, g, u)
  BY <1>1, <1>5, HeadersFrame
<1>7. Headers(t) = Headers(s) /\ \A g \in Headers(s) : t.hdr[g].size = s.hdr[g].size
  BY <1>5 DEF SameHeaders
<1>8. CASE IsBig(s, h)
  <2>1. item = h + BIG_HEADER /\ item \notin U /\ s.mem[item] = NULL
    BY <1>1, <1>3, <1>8 DEF BigOk, BigOf
  <2>2. Slot(s, h, item)
    BY <1>8, <2>1 DEF Slot
  <2>3. \A g \in Headers(s) : g # h => /\ ~IsBig(s, g) => item \notin CellsOf(g, s.hdr[g].size)
                                       /\ IsBig(s, g) => g + BIG_HEADER # item
    BY <1>1, <2>2, OnePage
  <2>4. \A g \in Headers(s) : ~IsBig(s, g) => CellsOf(g, s.hdr[g].size) \ (U \cup {item}) = CellsOf(g, s.hdr[g].size) \ U
    BY <1>8, <2>3
  <2>5. SmallOk(t, U \cup {item})
    BY <1>1, <1>4, <1>6, <1>7, <1>8, <2>4 DEF SmallOk, HeadSet
  <2>6. \A g \in BigOf(s) : /\ t.hdr[g].head \in {NULL, g + BIG_HEADER}
                            /\ t.hdr[g].head = NULL <=> g + BIG_HEADER \in U \cup {item}
                            /\ t.hdr[g].head # NULL => g + BIG_HEADER \in DOMAIN s.mem /\ s.mem[g + BIG_HEADER] = NULL
    <3> SUFFICES ASSUME NEW g \in BigOf(s)
                 PROVE  /\ t.hdr[g].head \in {NULL, g + BIG_HEADER}
                        /\ t.hdr[g].head = NULL <=> g + BIG_HEADER \in U \cup {item}
                        /\ t.hdr[g].head # NULL => g + BIG_HEADER \in DOMAIN s.mem /\ s.mem[g + BIG_HEADER] = NULL
      OBVIOUS
    <3>1. CASE g = h
      BY <1>4, <2>1, <3>1 DEF HeadSet
    <3>2. CASE g # h
      <4>1. t.hdr[g].head = s.hdr[g].head /\ g + BIG_HEADER # item
        BY <1>4, <2>3, <3>2 DEF HeadSet, BigOf
      <4> QED BY <1>1, <4>1 DEF BigOk
    <3> QED BY <3>1, <3>2
  <2>7. SkipOk(t, BigOf(s)) /\ t.newest = s.newest
    BY <1>1, <1>4, BigSame DEF BigOk, HeadSet
  <2>8. BigOk(t, U \cup {item})
    BY <1>1, <1>4, <1>6, <2>6, <2>7 DEF BigOk
  <2>9. Good(t, U \cup {item})
    BY <1>6, <1>7, <2>2, <2>5, <2>8 DEF Good
  <2> QED BY <1>3, <1>4, <2>1, <2>2, <2>9
<1>9. CASE ~IsBig(s, h)
  <2> DEFINE C == CellsOf(h, s.hdr[h].size)
  <2>1. Stack(item, s.mem, C \ U)
    BY <1>1, <1>9 DEF SmallOk
  <2>2. item \in C \ U /\ Stack(s.mem[item], s.mem, (C \ U) \ {item})
    BY <1>3, <2>1, StackPop
  <2>3. Slot(s, h, item) /\ item \notin U
    BY <1>9, <2>2 DEF Slot
  <2>4. (C \ U) \ {item} = C \ (U \cup {item})
    OBVIOUS
  <2> HIDE DEF C
  <2>5. \A g \in Headers(s) : g # h => /\ ~IsBig(s, g) => item \notin CellsOf(g, s.hdr[g].size)
                                       /\ IsBig(s, g) => g + BIG_HEADER # item
    BY <1>1, <2>3, OnePage
  <2>6. \A g \in Headers(s) : g # h /\ ~IsBig(s, g) =>
           CellsOf(g, s.hdr[g].size) \ (U \cup {item}) = CellsOf(g, s.hdr[g].size) \ U
    BY <2>5
  <2>7. \A g \in Headers(s) : ~IsBig(t, g) =>
           /\ t.hdr[g].next \in {NULL} \cup SmallOf(t, t.hdr[g].size)
           /\ Stack(t.hdr[g].head, t.mem, CellsOf(g, t.hdr[g].size) \ (U \cup {item}))
    <3> SUFFICES ASSUME NEW g \in Headers(s), ~IsBig(t, g)
                 PROVE  /\ t.hdr[g].next \in {NULL} \cup SmallOf(t, t.hdr[g].size)
                        /\ Stack(t.hdr[g].head, t.mem, CellsOf(g, t.hdr[g].size) \ (U \cup {item}))
      OBVIOUS
    <3>1. t.hdr[g].size = s.hdr[g].size /\ ~IsBig(s, g) /\ t.hdr[g].next = s.hdr[g].next
      BY <1>4, <1>6, <1>7 DEF HeadSet
    <3>2. t.hdr[g].next \in {NULL} \cup SmallOf(t, t.hdr[g].size)
      BY <1>1, <1>6, <3>1 DEF SmallOk
    <3>3. CASE g = h
      BY <1>4, <2>2, <2>4, <3>1, <3>2, <3>3 DEF HeadSet, C
    <3>4. CASE g # h
      <4>1. t.hdr[g].head = s.hdr[g].head
        BY <1>4, <3>4 DEF HeadSet
      <4>2. Stack(s.hdr[g].head, s.mem, CellsOf(g, s.hdr[g].size) \ U)
        BY <1>1, <3>1 DEF SmallOk
      <4> QED BY <1>4, <2>6, <3>1, <3>2, <3>4, <4>1, <4>2
    <3> QED BY <3>3, <3>4
  <2>8. SmallOk(t, U \cup {item})
    BY <1>1, <1>4, <1>6, <1>7, <2>7 DEF SmallOk, HeadSet
  <2>9. \A g \in BigOf(s) : g # h /\ g + BIG_HEADER # item /\ t.hdr[g].head = s.hdr[g].head
    BY <1>4, <1>9, <2>5 DEF BigOf, HeadSet
  <2>10. SkipOk(t, BigOf(s)) /\ t.newest = s.newest
    BY <1>1, <1>4, BigSame DEF BigOk, HeadSet
  <2>11. BigOk(t, U \cup {item})
    BY <1>1, <1>4, <1>6, <2>9, <2>10 DEF BigOk
  <2>12. Good(t, U \cup {item})
    BY <1>6, <1>7, <2>3, <2>8, <2>11 DEF Good
  <2> QED BY <1>3, <1>4, <2>3, <2>12
<1> QED BY <1>8, <1>9

\* The same, said of the pop itself.
LEMMA PopIs ==
    ASSUME NEW s, NEW U, Good(s, U), NEW h \in Headers(s), klmalloc_stack_pop(s, h).status = "ok"
    PROVE  /\ Good(klmalloc_stack_pop(s, h), U \cup {s.hdr[h].head})
           /\ HeadSet(s, klmalloc_stack_pop(s, h), h, s.mem[s.hdr[h].head])
BY PopKeeps

\* The other way round, a place given back is free.
LEMMA PushKeeps ==
    ASSUME NEW s, NEW U, Good(s, U), NEW h \in Headers(s), NEW a, Slot(s, h, a), a \in U,
           NEW t, t = klmalloc_stack_push(s, h, a), t.status = "ok"
    PROVE  /\ Good(t, U \ {a}) /\ HeadSet(s, t, h, a)
           /\ t.mem = Put(s.mem, a, s.hdr[h].head)
<1>1. Layout(s) /\ SmallOk(s, U) /\ BigOk(s, U) /\ IsState(s) /\ h \in Nat /\ h >= PAGE_SIZE
  BY DEF Good, Layout
<1>2. PICK mem : mem = Put(s.mem, a, s.hdr[h].head)
  OBVIOUS
<1>3. PICK w : w = [s EXCEPT !.hdr[h].head = a]
  OBVIOUS
<1>4. t = [w EXCEPT !.mem = mem]
  <2>1. Fail(s, "panic").status # "ok"
    BY <1>1 DEF Fail, IsState, Fields
  <2>2. t = [s EXCEPT !.mem = mem, !.hdr[h].head = a]
    BY <1>2, <2>1 DEF klmalloc_stack_push
  <2> QED BY <1>1, <1>3, <2>2 DEF IsState, Fields
<1>5. HeadSet(s, w, h, a)
  BY <1>1, <1>3, SetHead
<1>6. HeadSet(s, t, h, a) /\ t.mem = mem
  BY <1>4, <1>5 DEF HeadSet, SameHeaders, IsState, Fields, Headers
<1>7. SameHeaders(s, t)
  BY <1>6 DEF HeadSet
<1>8. /\ Layout(t) /\ BigOf(t) = BigOf(s) /\ \A b : SmallOf(t, b) = SmallOf(s, b)
      /\ \A g \in Headers(s) : (IsBig(t, g) <=> IsBig(s, g)) /\ \A u : Slot(t, g, u) <=> Slot(s, g, u)
  BY <1>1, <1>7, HeadersFrame
<1>9. Headers(t) = Headers(s) /\ \A g \in Headers(s) : t.hdr[g].size = s.hdr[g].size
  BY <1>7 DEF SameHeaders
<1>10. a \in DOMAIN mem /\ mem[a] = s.hdr[h].head /\ \A x \in DOMAIN s.mem : x \in DOMAIN mem /\ (x # a => mem[x] = s.mem[x])
  BY <1>2 DEF Put
<1>11. \A g \in Headers(s) : g # h => /\ ~IsBig(s, g) => a \notin CellsOf(g, s.hdr[g].size)
                                      /\ IsBig(s, g) => g + BIG_HEADER # a
  BY <1>1, OnePage
<1>12. \A g \in Headers(s) : g # h /\ ~IsBig(s, g) =>
         /\ CellsOf(g, s.hdr[g].size) \ (U \ {a}) = CellsOf(g, s.hdr[g].size) \ U
         /\ Stack(s.hdr[g].head, mem, CellsOf(g, s.hdr[g].size) \ (U \ {a}))
  <2> SUFFICES ASSUME NEW g \in Headers(s), g # h, ~IsBig(s, g)
               PROVE  /\ CellsOf(g, s.hdr[g].size) \ (U \ {a}) = CellsOf(g, s.hdr[g].size) \ U
                      /\ Stack(s.hdr[g].head, mem, CellsOf(g, s.hdr[g].size) \ (U \ {a}))
    OBVIOUS
  <2>1. PICK S : S = CellsOf(g, s.hdr[g].size) \ U
    OBVIOUS
  <2>2. Stack(s.hdr[g].head, s.mem, S)
    BY <1>1, <2>1 DEF SmallOk
  <2>3. S \subseteq DOMAIN s.mem /\ a \notin S
    BY <1>11, <2>1, <2>2 DEF Stack
  <2>4. Stack(s.hdr[g].head, mem, S)
    BY <1>10, <2>2, <2>3, StackFrame
  <2>5. CellsOf(g, s.hdr[g].size) \ (U \ {a}) = S
    BY <1>11, <2>1
  <2> QED BY <2>1, <2>4, <2>5
<1>13. \A g \in BigOf(s) : g # h =>
         /\ t.hdr[g].head \in {NULL, g + BIG_HEADER}
         /\ t.hdr[g].head = NULL <=> g + BIG_HEADER \in U \ {a}
         /\ t.hdr[g].head # NULL => g + BIG_HEADER \in DOMAIN mem /\ mem[g + BIG_HEADER] = NULL
  <2> SUFFICES ASSUME NEW g \in BigOf(s), g # h
               PROVE  /\ t.hdr[g].head \in {NULL, g + BIG_HEADER}
                      /\ t.hdr[g].head = NULL <=> g + BIG_HEADER \in U \ {a}
                      /\ t.hdr[g].head # NULL => g + BIG_HEADER \in DOMAIN mem /\ mem[g + BIG_HEADER] = NULL
    OBVIOUS
  <2>1. t.hdr[g].head = s.hdr[g].head /\ g + BIG_HEADER # a
    BY <1>6, <1>11 DEF HeadSet, BigOf
  <2>2. /\ s.hdr[g].head \in {NULL, g + BIG_HEADER}
        /\ s.hdr[g].head = NULL <=> g + BIG_HEADER \in U
        /\ s.hdr[g].head # NULL => g + BIG_HEADER \in DOMAIN s.mem /\ s.mem[g + BIG_HEADER] = NULL
    BY <1>1 DEF BigOk
  <2>3. g + BIG_HEADER \in U \ {a} <=> g + BIG_HEADER \in U
    BY <2>1
  <2>4. g + BIG_HEADER \in DOMAIN s.mem => g + BIG_HEADER \in DOMAIN mem /\ mem[g + BIG_HEADER] = s.mem[g + BIG_HEADER]
    BY <1>10, <2>1
  <2> QED BY <2>1, <2>2, <2>3, <2>4
<1>14. SkipOk(t, BigOf(s)) /\ t.newest = s.newest
  BY <1>1, <1>6, BigSame DEF BigOk, HeadSet
<1>15. \A u \in U \ {a} : \E g \in Headers(t) : Slot(t, g, u)
  BY <1>8, <1>9 DEF Good
<1>16. \A g \in Headers(s) : ~IsBig(s, g) =>
         t.hdr[g].next = s.hdr[g].next /\ t.hdr[g].next \in {NULL} \cup SmallOf(t, t.hdr[g].size)
  <2> SUFFICES ASSUME NEW g \in Headers(s), ~IsBig(s, g)
               PROVE  /\ t.hdr[g].next = s.hdr[g].next
                      /\ t.hdr[g].next \in {NULL} \cup SmallOf(t, t.hdr[g].size)
    OBVIOUS
  <2>1. t.hdr[g].next = s.hdr[g].next /\ t.hdr[g].size = s.hdr[g].size
    BY <1>6, <1>9 DEF HeadSet
  <2>2. s.hdr[g].next \in {NULL} \cup SmallOf(s, s.hdr[g].size)
    BY <1>1 DEF SmallOk
  <2> QED BY <1>8, <2>1, <2>2
<1>17. a # NULL
  BY <1>1, SlotFits, Constants
<1>18. CASE IsBig(s, h)
  <2>1. a = h + BIG_HEADER /\ s.hdr[h].head = NULL /\ h \in BigOf(s)
    BY <1>1, <1>18 DEF Slot, BigOk, BigOf
  <2>2. t.hdr[h].head = a
    BY <1>6 DEF HeadSet
  <2>3. \A g \in BigOf(s) :
         /\ t.hdr[g].head \in {NULL, g + BIG_HEADER}
         /\ t.hdr[g].head = NULL <=> g + BIG_HEADER \in U \ {a}
         /\ t.hdr[g].head # NULL => g + BIG_HEADER \in DOMAIN mem /\ mem[g + BIG_HEADER] = NULL
    BY <1>10, <1>13, <1>17, <2>1, <2>2
  <2>4. BigOk(t, U \ {a})
    BY <1>1, <1>6, <1>8, <1>14, <2>3 DEF BigOk
  <2>5. \A g \in Headers(s) : ~IsBig(s, g) => Stack(t.hdr[g].head, mem, CellsOf(g, t.hdr[g].size) \ (U \ {a}))
    BY <1>6, <1>9, <1>12, <1>18 DEF HeadSet
  <2>6. SmallOk(t, U \ {a})
    BY <1>1, <1>6, <1>8, <1>9, <1>16, <2>5 DEF SmallOk, HeadSet
  <2>7. Good(t, U \ {a})
    BY <1>8, <1>15, <2>4, <2>6 DEF Good
  <2> QED BY <1>2, <1>6, <2>7
<1>19. CASE ~IsBig(s, h)
  <2>1. PICK C : C = CellsOf(h, s.hdr[h].size) /\ a \in C
    BY <1>19 DEF Slot
  <2>2. Stack(s.hdr[h].head, s.mem, C \ U)
    BY <1>1, <1>19, <2>1 DEF SmallOk
  <2>3. Stack(a, mem, (C \ U) \cup {a})
    BY <1>2, <1>17, <2>2, StackPush
  <2>4. (C \ U) \cup {a} = C \ (U \ {a})
    BY <2>1
  <2>5. t.hdr[h].head = a
    BY <1>6 DEF HeadSet
  <2>6. \A g \in Headers(s) : ~IsBig(s, g) => Stack(t.hdr[g].head, mem, CellsOf(g, t.hdr[g].size) \ (U \ {a}))
    <3> SUFFICES ASSUME NEW g \in Headers(s), ~IsBig(s, g)
                 PROVE  Stack(t.hdr[g].head, mem, CellsOf(g, t.hdr[g].size) \ (U \ {a}))
      OBVIOUS
    <3>1. t.hdr[g].size = s.hdr[g].size
      BY <1>9
    <3>2. CASE g = h
      BY <2>1, <2>3, <2>4, <2>5, <3>1, <3>2
    <3>3. CASE g # h
      <4>1. t.hdr[g].head = s.hdr[g].head
        BY <1>6, <3>3 DEF HeadSet
      <4>2. Stack(s.hdr[g].head, mem, CellsOf(g, s.hdr[g].size) \ (U \ {a}))
        BY <1>12, <3>3
      <4> QED BY <3>1, <4>1, <4>2
    <3> QED BY <3>2, <3>3
  <2>7. SmallOk(t, U \ {a})
    BY <1>1, <1>6, <1>8, <1>9, <1>16, <2>6 DEF SmallOk, HeadSet
  <2>8. \A g \in BigOf(s) : g # h
    BY <1>19 DEF BigOf
  <2>9. BigOk(t, U \ {a})
    BY <1>1, <1>6, <1>8, <1>13, <1>14, <2>8 DEF BigOk
  <2>10. Good(t, U \ {a})
    BY <1>8, <1>15, <2>7, <2>9 DEF Good
  <2> QED BY <1>2, <1>6, <2>10
<1> QED BY <1>18, <1>19

\* t is s with other links between the pages of a bin.
NextSet(s, t, h, x, bin, f) ==
    /\ SameHeaders(s, t) /\ t.fwd = s.fwd /\ t.level = s.level /\ t.newest = s.newest
    /\ t.status = s.status /\ t.mem = s.mem
    /\ \A g \in Headers(s) : t.hdr[g].head = s.hdr[g].head /\ (g # h => t.hdr[g].next = s.hdr[g].next)
    /\ t.hdr[h].next = x
    /\ DOMAIN t.first = DOMAIN s.first /\ t.first[bin] = f
    /\ \A b \in DOMAIN s.first : b # bin => t.first[b] = s.first[b]

\* A new link of the list of a bin changes no size.
LEMMA SetNext ==
    ASSUME NEW s, Layout(s), NEW h \in Headers(s), NEW x, NEW bin \in DOMAIN s.first, NEW f
    PROVE  NextSet(s, [s EXCEPT !.hdr[h].next = x, !.first[bin] = f], h, x, bin, f)
<1>1. IsState(s) /\ \A g \in Headers(s) : DOMAIN s.hdr[g] = HeaderFields
  BY DEF Layout
<1>2. PICK page : page = [s.hdr[h] EXCEPT !.next = x]
  OBVIOUS
<1>3. PICK hdr : hdr = [s.hdr EXCEPT ![h] = page]
  OBVIOUS
<1>4. PICK first : first = [s.first EXCEPT ![bin] = f]
  OBVIOUS
<1>5. PICK t : t = [s EXCEPT !.hdr = hdr, !.first = first]
  OBVIOUS
<1>6. [s EXCEPT !.hdr[h].next = x, !.first[bin] = f] = t
  BY <1>1, <1>2, <1>3, <1>4, <1>5 DEF IsState, Fields
<1>7. DOMAIN page = HeaderFields /\ page.next = x /\ page.head = s.hdr[h].head /\ page.size = s.hdr[h].size
  BY <1>1, <1>2 DEF HeaderFields
<1>8. DOMAIN hdr = Headers(s) /\ hdr[h] = page /\ \A g \in Headers(s) : g # h => hdr[g] = s.hdr[g]
  BY <1>3 DEF Headers
<1>9. DOMAIN first = DOMAIN s.first /\ first[bin] = f /\ \A b \in DOMAIN s.first : b # bin => first[b] = s.first[b]
  BY <1>4
<1>10. /\ IsState(t) /\ t.hdr = hdr /\ t.brk = s.brk /\ t.first = first /\ t.fwd = s.fwd
       /\ t.level = s.level /\ t.newest = s.newest /\ t.status = s.status /\ t.mem = s.mem
  BY <1>1, <1>5 DEF IsState, Fields
<1>11. SameHeaders(s, t)
  BY <1>1, <1>7, <1>8, <1>10 DEF SameHeaders, Headers
<1>12. \A g \in Headers(s) : t.hdr[g].head = s.hdr[g].head /\ (g # h => t.hdr[g].next = s.hdr[g].next)
  BY <1>7, <1>8, <1>10
<1>13. NextSet(s, t, h, x, bin, f)
  BY <1>7, <1>8, <1>9, <1>10, <1>11, <1>12 DEF NextSet
<1> QED BY <1>6, <1>13

\* Links from pages of a bin to pages of the bin are all that the lists need.
LEMMA RelinkKeeps ==
    ASSUME NEW s, NEW U, Good(s, U), NEW bin \in Bins, NEW h \in SmallOf(s, bin), NEW t,
           NEW x \in {NULL} \cup SmallOf(s, bin), NEW f \in {NULL} \cup SmallOf(s, bin),
           NextSet(s, t, h, x, bin, f)
    PROVE  Good(t, U)
<1>1. Layout(s) /\ SmallOk(s, U) /\ BigOk(s, U)
  BY DEF Good
<1>2. SameHeaders(s, t)
  BY DEF NextSet
<1>3. /\ Layout(t) /\ BigOf(t) = BigOf(s) /\ \A b : SmallOf(t, b) = SmallOf(s, b)
      /\ \A g \in Headers(s) : (IsBig(t, g) <=> IsBig(s, g)) /\ \A u : Slot(t, g, u) <=> Slot(s, g, u)
  BY <1>1, <1>2, HeadersFrame
<1>4. Headers(t) = Headers(s) /\ \A g \in Headers(s) : t.hdr[g].size = s.hdr[g].size
  BY <1>2 DEF SameHeaders
<1>5. h \in Headers(s) /\ s.hdr[h].size = bin
  BY DEF SmallOf
<1>6. \A g \in Headers(s) : ~IsBig(s, g) =>
        /\ t.hdr[g].next \in {NULL} \cup SmallOf(t, t.hdr[g].size)
        /\ Stack(t.hdr[g].head, t.mem, CellsOf(g, t.hdr[g].size) \ U)
  BY <1>1, <1>3, <1>4, <1>5 DEF SmallOk, NextSet
<1>7. DOMAIN t.first = Bins /\ \A b \in Bins : t.first[b] \in {NULL} \cup SmallOf(t, b)
  BY <1>1, <1>3 DEF SmallOk, NextSet
<1>8. SmallOk(t, U)
  BY <1>3, <1>4, <1>6, <1>7 DEF SmallOk
<1>9. SkipOk(t, BigOf(s))
  BY <1>1, BigSame DEF BigOk, NextSet
<1>10. BigOk(t, U)
  BY <1>1, <1>3, <1>9 DEF BigOk, NextSet, BigOf
<1> QED BY <1>1, <1>3, <1>4, <1>8, <1>10 DEF Good

\* klmalloc_list_decouple is such a change,
LEMMA DecoupleKeeps ==
    ASSUME NEW s, NEW U, Good(s, U), NEW bin \in Bins, NEW h \in SmallOf(s, bin)
    PROVE  /\ Good(klmalloc_list_decouple(s, bin, h), U)
           /\ NextSet(s, klmalloc_list_decouple(s, bin, h), h, NULL, bin, s.hdr[h].next)
<1>1. Layout(s) /\ SmallOk(s, U) /\ h \in Headers(s) /\ s.hdr[h].size = bin /\ ~IsBig(s, h)
  BY BinsAreSmall DEF Good, SmallOf
<1>2. bin \in DOMAIN s.first /\ s.hdr[h].next \in {NULL} \cup SmallOf(s, bin) /\ IsState(s)
  BY <1>1 DEF SmallOk, Layout
<1>3. PICK t : t = [s EXCEPT !.hdr[h].next = NULL, !.first[bin] = s.hdr[h].next]
  OBVIOUS
<1>4. klmalloc_list_decouple(s, bin, h) = t
  BY <1>2, <1>3 DEF klmalloc_list_decouple, IsState, Fields
<1>5. NextSet(s, t, h, NULL, bin, s.hdr[h].next)
  BY <1>1, <1>2, <1>3, SetNext
<1>6. Good(t, U)
  BY <1>2, <1>5, RelinkKeeps
<1> QED BY <1>4, <1>5, <1>6

\* and klmalloc_list_insert is another.
LEMMA InsertKeeps ==
    ASSUME NEW s, NEW U, Good(s, U), NEW bin \in Bins, NEW h \in SmallOf(s, bin)
    PROVE  /\ Good(klmalloc_list_insert(s, bin, h), U)
           /\ NextSet(s, klmalloc_list_insert(s, bin, h), h, s.first[bin], bin, h)
<1>1. Layout(s) /\ SmallOk(s, U) /\ h \in Headers(s) /\ s.hdr[h].size = bin /\ ~IsBig(s, h)
  BY BinsAreSmall DEF Good, SmallOf
<1>2. bin \in DOMAIN s.first /\ s.first[bin] \in {NULL} \cup SmallOf(s, bin)
  BY <1>1 DEF SmallOk
<1>3. NextSet(s, klmalloc_list_insert(s, bin, h), h, s.first[bin], bin, h)
  BY <1>1, <1>2, SetNext DEF klmalloc_list_insert
<1> QED BY <1>2, <1>3, RelinkKeeps

-----------------------------------------------------------------------------
(* New pages.                                                              *)

\* w is s with a header at its end for n more words.
Extends(s, w, n) ==
    /\ IsState(w) /\ w.brk = s.brk + n /\ n \in Nat /\ Aligned(n) /\ n >= PAGE_SIZE
    /\ Headers(w) = Headers(s) \cup {s.brk}
    /\ \A g \in Headers(s) : DOMAIN w.hdr[g] = HeaderFields /\ w.hdr[g].size = s.hdr[g].size
    /\ DOMAIN w.hdr[s.brk] = HeaderFields /\ w.hdr[s.brk].size \in Nat
    /\ IsBig(w, s.brk) \/ w.hdr[s.brk].size \in Bins
    /\ Length(w, s.brk) = n

\* New memory is behind all the rest.
LEMMA ExtendsLayout ==
    ASSUME NEW s, Layout(s), NEW w, NEW n, Extends(s, w, n)
    PROVE  /\ Layout(w) /\ s.brk \notin Headers(s)
           /\ \A g \in Headers(s) : /\ IsBig(w, g) <=> IsBig(s, g)
                                    /\ Length(w, g) = Length(s, g) /\ SlotSize(w, g) = SlotSize(s, g)
                                    /\ \A u : Slot(w, g, u) <=> Slot(s, g, u)
           /\ \A g \in Headers(s) : \A u : Slot(s, g, u) => u \in Nat /\ u < s.brk
<1>1. \A g \in Headers(s) : (IsBig(w, g) <=> IsBig(s, g)) /\ w.hdr[g].size = s.hdr[g].size
  BY DEF Extends, IsBig
<1>2. \A g \in Headers(s) : /\ Length(w, g) = Length(s, g) /\ SlotSize(w, g) = SlotSize(s, g)
                            /\ \A u : Slot(w, g, u) <=> Slot(s, g, u)
  BY <1>1 DEF Length, SlotSize, Slot
<1>3. \A g \in Headers(s) : /\ g \in Nat /\ Length(s, g) \in Nat /\ Length(s, g) >= PAGE_SIZE
                            /\ g + Length(s, g) <= s.brk /\ g < s.brk
  <2> SUFFICES ASSUME NEW g \in Headers(s)
               PROVE  /\ g \in Nat /\ Length(s, g) \in Nat /\ Length(s, g) >= PAGE_SIZE
                      /\ g + Length(s, g) <= s.brk /\ g < s.brk
    OBVIOUS
  <2>1. g \in Nat /\ Length(s, g) >= PAGE_SIZE /\ g + Length(s, g) <= s.brk /\ s.brk \in Nat /\ s.hdr[g].size \in Nat
    BY DEF Layout
  <2>2. Length(s, g) \in Nat
    BY <2>1, Constants DEF Length
  <2> QED BY <2>1, <2>2, Constants
<1>4. s.brk \notin Headers(s) /\ s.brk \in Nat /\ s.brk >= PAGE_SIZE /\ Aligned(s.brk)
  BY <1>3 DEF Layout
<1>5. \A g \in Headers(s) : \A u : Slot(s, g, u) => u \in Nat /\ u < s.brk
  <2> SUFFICES ASSUME NEW g \in Headers(s), NEW u, Slot(s, g, u) PROVE u \in Nat /\ u < s.brk
    OBVIOUS
  <2>1. u \in Nat /\ SlotSize(s, g) \in Nat \ {0} /\ u + SlotSize(s, g) <= g + Length(s, g)
    BY SlotFits
  <2> QED BY <1>3, <1>4, <2>1
<1>6. IsFiniteSet(Headers(w))
  <2>1. IsFiniteSet(Headers(s)) /\ IsFiniteSet({s.brk})
    BY FS_Singleton DEF Layout
  <2>2. IsFiniteSet(Headers(s) \cup {s.brk})
    BY <2>1, FS_Union
  <2> QED BY <2>2 DEF Extends
<1>7. w.brk \in Nat /\ w.brk >= PAGE_SIZE /\ Aligned(w.brk) /\ w.brk >= s.brk
  BY <1>4, AlignedSum, Constants DEF Extends
<1>8. ASSUME NEW h \in Headers(w)
      PROVE  /\ h \in Nat /\ h >= PAGE_SIZE /\ Aligned(h) /\ DOMAIN w.hdr[h] = HeaderFields
             /\ w.hdr[h].size \in Nat /\ (IsBig(w, h) \/ w.hdr[h].size \in Bins)
             /\ Length(w, h) >= PAGE_SIZE /\ h + Length(w, h) <= w.brk
  <2>1. CASE h = s.brk
    BY <1>4, <1>7, <2>1 DEF Extends
  <2>2. CASE h \in Headers(s)
    <3>1. h + Length(s, h) <= w.brk
      BY <1>3, <1>4, <1>7, <2>2
    <3> QED BY <1>1, <1>2, <2>2, <3>1 DEF Layout, Extends
  <2> QED BY <2>1, <2>2 DEF Extends
<1>9. ASSUME NEW g \in Headers(w), NEW h \in Headers(w), g < h
      PROVE  g + Length(w, g) <= h
  <2>1. CASE g \in Headers(s) /\ h \in Headers(s)
    BY <1>2, <1>9, <2>1 DEF Layout
  <2>2. CASE g \in Headers(s) /\ h = s.brk
    BY <1>2, <1>3, <2>2
  <2>3. CASE g = s.brk
    BY <1>3, <1>4, <1>9, <2>3 DEF Extends
  <2> QED BY <2>1, <2>2, <2>3 DEF Extends
<1>10. Layout(w)
  BY <1>6, <1>7, <1>8, <1>9 DEF Layout, Extends
<1> QED BY <1>1, <1>2, <1>4, <1>5, <1>10

\* t is s with one more header, at h; the newest big block may now be linked to it.
Grows(s, t, h) ==
    /\ Headers(t) = Headers(s) \cup {h} /\ h \notin Headers(s) /\ t.brk <= MAX /\ t.level = s.level
    /\ \A g \in Headers(s) : /\ t.hdr[g].size = s.hdr[g].size /\ t.hdr[g].head = s.hdr[g].head
                             /\ ~IsBig(s, g) => t.hdr[g].next = s.hdr[g].next
    /\ \A x \in BigOf(s) \cup {HEAD} : t.fwd[x] = s.fwd[x]

\* A new page of cells: all of them are free, and the page is the first of its bin.
LEMMA NewBinKeeps ==
    ASSUME NEW s, NEW U, Good(s, U), NEW bin \in Bins, NEW t, t = NewBin(s, bin), t.status = "ok"
    PROVE  /\ Good(t, U) /\ s.brk \in SmallOf(t, bin) /\ t.first[bin] = s.brk
           /\ Keeps(s, t, {}) /\ t.brk = s.brk + PAGE_SIZE
           /\ Grows(s, t, s.brk) /\ t.hdr[s.brk].head # NULL /\ t.hdr[s.brk].next = s.first[bin]
           /\ \A b \in Bins : b # bin => t.first[b] = s.first[b]
<1> DEFINE h == s.brk
           cells == (PAGE_SIZE - BIN_HEADER) \div 2 ^ bin
           cell(k) == h + BIN_HEADER + k * 2 ^ bin
           links == [a \in {cell(k) : k \in 0 .. cells - 1} |->
                       IF a = cell(cells - 1) THEN NULL ELSE a + 2 ^ bin]
           page == [next |-> NULL, head |-> cell(0), size |-> bin, prev |-> NULL]
           w == [Sbrk(s, PAGE_SIZE) EXCEPT !.hdr = Put(@, h, page), !.mem = Over(links, @)]
<1>1. Layout(s) /\ SmallOk(s, U) /\ BigOk(s, U) /\ IsState(s) /\ h \in Nat /\ h >= PAGE_SIZE
  BY DEF Good, Layout
<1>2. t = klmalloc_list_insert(w, bin, h)
  <2>1. Fail(s, "lost").status # "ok"
    BY <1>1 DEF Fail, IsState, Fields
  <2> QED BY <2>1 DEF NewBin
<1>3. PICK p \in Nat \ {0} : p = 2 ^ bin
  BY Power
<1>4. PICK n \in Nat \ {0} : n = cells
  BY <1>1, CellsFit
<1>5. PICK base \in Nat \ {0} : base = h + BIN_HEADER
  BY <1>1, Constants
<1>6. \A k : cell(k) = base + k * p
  BY <1>3, <1>5
<1>7. PICK C : C = {base + k * p : k \in 0 .. n - 1}
  OBVIOUS
<1>8. CellsOf(h, bin) = C
  BY <1>3, <1>4, <1>5, <1>7 DEF CellsOf
<1>9. PICK mem : mem = Over(links, s.mem)
  OBVIOUS
<1>10. DOMAIN links = C /\ \A a \in C : links[a] = IF a = base + (n - 1) * p THEN NULL ELSE a + p
  BY <1>3, <1>4, <1>6, <1>7
<1> HIDE DEF links
<1>11. /\ \A a \in C : a \in DOMAIN mem /\ mem[a] = IF a = base + (n - 1) * p THEN NULL ELSE a + p
       /\ \A a \in DOMAIN s.mem \ C : a \in DOMAIN mem /\ mem[a] = s.mem[a]
  BY <1>9, <1>10 DEF Over
<1>12. \A k \in 0 .. n - 1 : /\ base + k * p \in DOMAIN mem
                             /\ mem[base + k * p] = IF k = n - 1 THEN NULL ELSE base + (k + 1) * p
  <2> SUFFICES ASSUME NEW k \in 0 .. n - 1
               PROVE  /\ base + k * p \in DOMAIN mem
                      /\ mem[base + k * p] = IF k = n - 1 THEN NULL ELSE base + (k + 1) * p
    OBVIOUS
  <2>1. k * p \in Nat /\ (n - 1) * p \in Nat /\ (k + 1) * p = k * p + p /\ (k < n - 1 => k * p + p <= (n - 1) * p)
    BY Multiples
  <2>2. base + k * p \in C
    BY <1>7
  <2>3. base + k * p = base + (n - 1) * p <=> k = n - 1
    BY <2>1
  <2> QED BY <1>11, <2>1, <2>2, <2>3
<1>13. Stack(base, mem, C)
  BY <1>7, <1>12, StackNew
<1>14. cell(0) = base
  BY <1>6
<1>15. DOMAIN page = HeaderFields /\ page.next = NULL /\ page.head = base /\ page.size = bin
  BY <1>14 DEF HeaderFields
<1> HIDE DEF page
<1>16. PICK hdr : hdr = Put(s.hdr, h, page)
  OBVIOUS
<1>17. DOMAIN hdr = Headers(s) \cup {h} /\ hdr[h] = page /\ \A g \in Headers(s) : g # h => hdr[g] = s.hdr[g]
  BY <1>16 DEF Put, Headers
<1>18. /\ IsState(w) /\ w.brk = s.brk + PAGE_SIZE /\ w.hdr = hdr /\ w.mem = mem /\ w.first = s.first
       /\ w.fwd = s.fwd /\ w.level = s.level /\ w.newest = s.newest /\ w.status = s.status
  <2>1. PICK v : v = Sbrk(s, PAGE_SIZE)
    OBVIOUS
  <2>2. /\ IsState(v) /\ v.brk = s.brk + PAGE_SIZE /\ v.hdr = s.hdr /\ v.mem = s.mem /\ v.first = s.first
        /\ v.fwd = s.fwd /\ v.level = s.level /\ v.newest = s.newest /\ v.status = s.status
    BY <1>1, <2>1 DEF Sbrk, IsState, Fields
  <2>3. w = [v EXCEPT !.hdr = hdr, !.mem = mem]
    BY <1>9, <1>16, <2>1, <2>2
  <2> QED BY <2>2, <2>3 DEF IsState, Fields
<1> HIDE DEF w
<1>19. h \notin Headers(s)
  <2>1. \A g \in Headers(s) : g \in Nat /\ Length(s, g) >= PAGE_SIZE /\ g + Length(s, g) <= s.brk /\ s.hdr[g].size \in Nat
    BY <1>1 DEF Layout
  <2>2. \A g \in Headers(s) : Length(s, g) \in Nat
    BY <2>1, Constants DEF Length
  <2> QED BY <1>1, <2>1, <2>2, Constants
<1>20. Extends(s, w, PAGE_SIZE)
  <2>1. w.hdr[h].size = bin /\ ~IsBig(w, h) /\ bin \in Nat
    BY <1>15, <1>17, <1>18, BinsAreSmall DEF Bins
  <2>2. Aligned(PAGE_SIZE) /\ PAGE_SIZE \in Nat
    <3>1. PAGE_SIZE = 1 * PAGE_SIZE
      BY Constants
    <3> QED BY <3>1, Constants DEF Aligned
  <2>3. Headers(w) = Headers(s) \cup {s.brk}
    BY <1>17, <1>18 DEF Headers
  <2>4. \A g \in Headers(s) : DOMAIN w.hdr[g] = HeaderFields /\ w.hdr[g].size = s.hdr[g].size
    BY <1>1, <1>17, <1>18, <1>19 DEF Layout
  <2> QED BY <1>15, <1>17, <1>18, <2>1, <2>2, <2>3, <2>4 DEF Extends, Length
<1>21. /\ Layout(w)
       /\ \A g \in Headers(s) : (IsBig(w, g) <=> IsBig(s, g)) /\ \A u : Slot(w, g, u) <=> Slot(s, g, u)
       /\ \A g \in Headers(s) : \A u : Slot(s, g, u) => u \in Nat /\ u < s.brk
  BY <1>1, <1>20, ExtendsLayout
<1>22. ~IsBig(w, h) /\ Headers(w) = Headers(s) \cup {h} /\ w.hdr[h].size = bin
  <2>1. w.hdr[h].size = bin
    BY <1>15, <1>17, <1>18
  <2> QED BY <1>20, <2>1, BinsAreSmall DEF Extends
<1>23. \A g \in Headers(s) : w.hdr[g] = s.hdr[g]
  BY <1>17, <1>18, <1>19
<1>24. BigOf(w) = BigOf(s)
  BY <1>21, <1>22 DEF BigOf
<1>25. \A b \in Bins : SmallOf(s, b) \subseteq SmallOf(w, b)
  BY <1>22, <1>23 DEF SmallOf
<1>26. \A u \in U : u \in Nat /\ u < h
  BY <1>21 DEF Good
<1>27. \A c \in C : c \in Nat /\ c >= h + BIN_HEADER
  BY <1>1, <1>8, CellsFit
<1>28. C \ U = C
  BY <1>1, <1>26, <1>27, Constants
<1>29. \A g \in Headers(s) : ~IsBig(s, g) => Stack(s.hdr[g].head, mem, CellsOf(g, s.hdr[g].size) \ U)
  <2> SUFFICES ASSUME NEW g \in Headers(s), ~IsBig(s, g)
               PROVE  Stack(s.hdr[g].head, mem, CellsOf(g, s.hdr[g].size) \ U)
    OBVIOUS
  <2>1. PICK S : S = CellsOf(g, s.hdr[g].size) \ U
    OBVIOUS
  <2>2. Stack(s.hdr[g].head, s.mem, S)
    BY <1>1, <2>1 DEF SmallOk
  <2>3. \A x \in S : Slot(s, g, x)
    BY <2>1 DEF Slot
  <2>4. \A x \in S : x \in DOMAIN s.mem /\ x \notin C
    BY <1>1, <1>21, <1>27, <2>2, <2>3, Constants DEF Stack
  <2>5. Stack(s.hdr[g].head, mem, S)
    BY <1>11, <2>2, <2>4, StackFrame
  <2> QED BY <2>1, <2>5
<1>30. \A g \in Headers(w) : ~IsBig(w, g) =>
         /\ w.hdr[g].next \in {NULL} \cup SmallOf(w, w.hdr[g].size)
         /\ Stack(w.hdr[g].head, w.mem, CellsOf(g, w.hdr[g].size) \ U)
  <2> SUFFICES ASSUME NEW g \in Headers(w), ~IsBig(w, g)
               PROVE  /\ w.hdr[g].next \in {NULL} \cup SmallOf(w, w.hdr[g].size)
                      /\ Stack(w.hdr[g].head, w.mem, CellsOf(g, w.hdr[g].size) \ U)
    OBVIOUS
  <2>1. CASE g = h
    <3>1. w.hdr[g].next = NULL /\ w.hdr[g].head = base /\ w.hdr[g].size = bin
      BY <1>15, <1>17, <1>18, <2>1
    <3> QED BY <1>8, <1>13, <1>18, <1>28, <2>1, <3>1
  <2>2. CASE g \in Headers(s)
    <3>1. w.hdr[g] = s.hdr[g] /\ ~IsBig(s, g) /\ s.hdr[g].size \in Bins
      BY <1>1, <1>21, <1>23, <2>2 DEF Layout
    <3>2. s.hdr[g].next \in {NULL} \cup SmallOf(s, s.hdr[g].size)
      BY <1>1, <2>2, <3>1 DEF SmallOk
    <3> QED BY <1>18, <1>25, <1>29, <2>2, <3>1, <3>2
  <2> QED BY <1>22, <2>1, <2>2
<1>31. SmallOk(w, U)
  BY <1>1, <1>18, <1>25, <1>30 DEF SmallOk
<1>32. \A g \in BigOf(s) : g + BIG_HEADER \in DOMAIN s.mem =>
          g + BIG_HEADER \in DOMAIN mem /\ mem[g + BIG_HEADER] = s.mem[g + BIG_HEADER]
  <2> SUFFICES ASSUME NEW g \in BigOf(s), g + BIG_HEADER \in DOMAIN s.mem
               PROVE  g + BIG_HEADER \in DOMAIN mem /\ mem[g + BIG_HEADER] = s.mem[g + BIG_HEADER]
    OBVIOUS
  <2>1. g \in Headers(s) /\ Slot(s, g, g + BIG_HEADER)
    BY DEF BigOf, Slot
  <2>2. g + BIG_HEADER \notin C
    BY <1>1, <1>21, <1>27, <2>1, Constants
  <2> QED BY <1>11, <2>2
<1>33. SkipOk(w, BigOf(s))
  BY <1>1, <1>18, BigSame DEF BigOk
<1>34. \A g \in BigOf(s) : w.hdr[g] = s.hdr[g]
  BY <1>23 DEF BigOf
<1>35. BigOk(w, U)
  BY <1>1, <1>18, <1>24, <1>32, <1>33, <1>34 DEF BigOk
<1>36. Good(w, U)
  BY <1>20, <1>21, <1>31, <1>35 DEF Good, Extends
<1>37. h \in SmallOf(w, bin)
  BY <1>22 DEF SmallOf
<1>38. Good(t, U) /\ NextSet(w, t, h, w.first[bin], bin, h)
  BY <1>2, <1>36, <1>37, InsertKeeps
<1>39. SameHeaders(w, t) /\ t.mem = w.mem /\ t.first[bin] = h
  BY <1>38 DEF NextSet
<1>40. t.brk = s.brk + PAGE_SIZE /\ Headers(t) = Headers(w) /\ \A g \in Headers(w) : t.hdr[g].size = w.hdr[g].size
  BY <1>18, <1>39 DEF SameHeaders
<1>41. h \in SmallOf(t, bin)
  BY <1>37, <1>40 DEF SmallOf
<1>42. Keeps(s, t, {})
  <2>1. \A x \in DOMAIN s.mem : x <= s.brk => x \notin C
    BY <1>1, <1>27, Constants
  <2>2. \A x \in DOMAIN s.mem : x <= s.brk => x \in DOMAIN t.mem /\ t.mem[x] = s.mem[x]
    BY <1>11, <1>18, <1>39, <2>1
  <2> QED BY <1>22, <1>23, <1>40, <2>2 DEF Keeps
<1>43. CanSbrk(s, PAGE_SIZE)
  <2>1. Fail(s, "lost").status # "ok"
    BY <1>1 DEF Fail, IsState, Fields
  <2> QED BY <2>1 DEF NewBin
<1>44. /\ \A g \in Headers(s) : /\ t.hdr[g].size = s.hdr[g].size /\ t.hdr[g].head = s.hdr[g].head
                               /\ t.hdr[g].next = s.hdr[g].next
       /\ t.hdr[h].head = base /\ t.hdr[h].next = s.first[bin]
       /\ \A b \in Bins : b # bin => t.first[b] = s.first[b]
       /\ t.fwd = s.fwd /\ t.level = s.level
  <2>1. /\ \A g \in Headers(w) : t.hdr[g].head = w.hdr[g].head /\ (g # h => t.hdr[g].next = w.hdr[g].next)
        /\ t.hdr[h].next = w.first[bin] /\ \A b \in Bins : b # bin => t.first[b] = w.first[b]
        /\ t.fwd = w.fwd /\ t.level = w.level
    BY <1>1, <1>18, <1>38 DEF NextSet, SmallOk
  <2>2. w.hdr[h].head = base
    BY <1>15, <1>17, <1>18
  <2> QED BY <1>18, <1>19, <1>22, <1>23, <1>40, <2>1, <2>2
<1>45. Grows(s, t, s.brk)
  <2>1. t.brk <= MAX
    BY <1>40, <1>43 DEF CanSbrk
  <2> QED BY <1>19, <1>22, <1>40, <1>44, <2>1 DEF Grows
<1>46. t.hdr[s.brk].head # NULL /\ t.hdr[s.brk].next = s.first[bin]
  BY <1>44, Constants
<1> QED BY <1>38, <1>39, <1>40, <1>41, <1>42, <1>44, <1>45, <1>46

\* The pages of a big block hold what was asked for and its header.
LEMMA PagesFit ==
    ASSUME NEW size \in Nat
    PROVE  /\ PAGE_SIZE * PagesFor(size) \in Nat /\ Aligned(PAGE_SIZE * PagesFor(size))
           /\ PAGE_SIZE * PagesFor(size) >= PAGE_SIZE
           /\ size <= PAGE_SIZE * PagesFor(size) - BIG_HEADER
<1>1. PICK a \in Nat : a = size + BIG_HEADER
  BY Constants
<1>2. PAGE_SIZE \in Nat \ {0}
  BY Constants
<1>3. PICK d \in Nat : d = a \div PAGE_SIZE /\ a < (d + 1) * PAGE_SIZE
  BY <1>2, Division
<1>4. PagesFor(size) = d + 1
  BY <1>1, <1>3 DEF PagesFor
<1>5. PAGE_SIZE * (d + 1) = (d + 1) * PAGE_SIZE /\ (d + 1) * PAGE_SIZE \in Nat
      /\ (d + 1) * PAGE_SIZE = d * PAGE_SIZE + PAGE_SIZE /\ d * PAGE_SIZE \in Nat
  BY <1>2
<1>6. Aligned((d + 1) * PAGE_SIZE)
  BY DEF Aligned
<1> QED BY <1>1, <1>2, <1>3, <1>4, <1>5, <1>6, Constants

\* A new big block: it is in use.
LEMMA NewBigKeeps ==
    ASSUME NEW s, NEW U, Good(s, U), NEW size \in Nat, NEW t, t = NewBig(s, size), t.status = "ok",
           NEW at, at = s.brk + BIG_HEADER
    PROVE  /\ Good(t, U \cup {at}) /\ at \notin U /\ Keeps(s, t, {}) /\ at \in Nat
           /\ s.brk \in BigOf(t) /\ Slot(t, s.brk, at) /\ size <= t.hdr[s.brk].size
           /\ Grows(s, t, s.brk) /\ t.hdr[s.brk].head = NULL /\ Rounded(t, s.brk) /\ t.first = s.first
<1> DEFINE h == s.brk
           block(n) == [next |-> NULL, head |-> NULL, size |-> n - BIG_HEADER, prev |-> s.newest]
           linked == IF s.newest = NULL THEN s.hdr ELSE [s.hdr EXCEPT ![s.newest].next = h]
           none == [i \in Levels |-> NULL]
           w(n) == [Sbrk(s, n) EXCEPT !.hdr = Put(linked, h, block(n)), !.newest = h,
                      !.fwd = Put(@, h, none), !.mem = Put(@, h + BIG_HEADER, NULL)]
<1>1. Layout(s) /\ SmallOk(s, U) /\ BigOk(s, U) /\ IsState(s) /\ h \in Nat /\ h >= PAGE_SIZE
  BY DEF Good, Layout
<1>2. PICK n \in Nat : /\ n = PAGE_SIZE * PagesFor(size) /\ Aligned(n) /\ n >= PAGE_SIZE
                       /\ size <= n - BIG_HEADER
  BY PagesFit
<1>3. t = w(n)
  <2>1. Fail(s, "lost").status # "ok"
    BY <1>1 DEF Fail, IsState, Fields
  <2> QED BY <1>2, <2>1 DEF NewBig
<1>4. h \notin Headers(s) /\ \A g \in Headers(s) : g \in Nat /\ g < h
  <2>1. \A g \in Headers(s) : g \in Nat /\ Length(s, g) >= PAGE_SIZE /\ g + Length(s, g) <= s.brk /\ s.hdr[g].size \in Nat
    BY <1>1 DEF Layout
  <2>2. \A g \in Headers(s) : Length(s, g) \in Nat
    BY <2>1, Constants DEF Length
  <2> QED BY <1>1, <2>1, <2>2, Constants
<1>5. /\ DOMAIN linked = Headers(s)
      /\ \A g \in Headers(s) : /\ DOMAIN linked[g] = HeaderFields
                               /\ linked[g].size = s.hdr[g].size /\ linked[g].head = s.hdr[g].head
                               /\ g \notin BigOf(s) => linked[g].next = s.hdr[g].next
  <2>1. \A g \in Headers(s) : DOMAIN s.hdr[g] = HeaderFields
    BY <1>1 DEF Layout
  <2>2. CASE s.newest = NULL
    BY <2>1, <2>2 DEF Headers
  <2>3. CASE s.newest # NULL
    <3>1. PICK k \in BigOf(s) : k = s.newest
      BY <1>1, <2>3 DEF BigOk
    <3>2. PICK page : page = [s.hdr[k] EXCEPT !.next = h]
      OBVIOUS
    <3>3. linked = [s.hdr EXCEPT ![k] = page]
      BY <2>3, <3>1, <3>2
    <3>4. DOMAIN page = HeaderFields /\ page.size = s.hdr[k].size /\ page.head = s.hdr[k].head
      BY <2>1, <3>1, <3>2 DEF BigOf, HeaderFields
    <3> QED BY <2>1, <3>1, <3>3, <3>4 DEF Headers, BigOf
  <2> QED BY <2>2, <2>3
<1> HIDE DEF linked
<1>6. PICK page : page = block(n)
  OBVIOUS
<1>7. DOMAIN page = HeaderFields /\ page.next = NULL /\ page.head = NULL /\ page.size = n - BIG_HEADER
  BY <1>6 DEF HeaderFields
<1>8. PICK hdr : hdr = Put(linked, h, page)
  OBVIOUS
<1>9. DOMAIN hdr = Headers(s) \cup {h} /\ hdr[h] = page /\ \A g \in Headers(s) : hdr[g] = linked[g]
  BY <1>4, <1>5, <1>8 DEF Put
<1>10. PICK mem : mem = Put(s.mem, at, NULL)
  OBVIOUS
<1>11. \A x \in DOMAIN s.mem : x # at => x \in DOMAIN mem /\ mem[x] = s.mem[x]
  BY <1>10 DEF Put
<1>12. PICK fwd : fwd = Put(s.fwd, h, none)
  OBVIOUS
<1>13. /\ IsState(t) /\ t.brk = s.brk + n /\ t.hdr = hdr /\ t.mem = mem /\ t.first = s.first
       /\ t.fwd = fwd /\ t.level = s.level /\ t.newest = h
  <2>1. PICK v : v = Sbrk(s, n)
    OBVIOUS
  <2>2. /\ IsState(v) /\ v.brk = s.brk + n /\ v.hdr = s.hdr /\ v.mem = s.mem /\ v.first = s.first
        /\ v.fwd = s.fwd /\ v.level = s.level
    BY <1>1, <2>1 DEF Sbrk, IsState, Fields
  <2> HIDE DEF block, none
  <2>3. t = [v EXCEPT !.hdr = hdr, !.newest = h, !.fwd = fwd, !.mem = mem]
    BY <1>3, <1>6, <1>8, <1>10, <1>12, <2>1, <2>2
  <2> QED BY <2>2, <2>3 DEF IsState, Fields
<1>14. t.hdr[h].size = n - BIG_HEADER /\ n - BIG_HEADER \in Nat /\ n - BIG_HEADER > NUM_BINS
  BY <1>2, <1>7, <1>9, <1>13, Constants
<1>15. IsBig(t, h) /\ Length(t, h) = n
  <2>1. IsBig(t, h)
    BY <1>14 DEF IsBig
  <2> QED BY <1>2, <1>14, <2>1, Constants DEF Length
<1>16. Headers(t) = Headers(s) \cup {h}
  BY <1>9, <1>13 DEF Headers
<1>17. \A g \in Headers(s) : /\ DOMAIN t.hdr[g] = HeaderFields
                             /\ t.hdr[g].size = s.hdr[g].size /\ t.hdr[g].head = s.hdr[g].head
                             /\ g \notin BigOf(s) => t.hdr[g].next = s.hdr[g].next
  BY <1>5, <1>9, <1>13
<1>18. Extends(s, t, n)
  <2>1. DOMAIN t.hdr[h] = HeaderFields
    BY <1>7, <1>9, <1>13
  <2> QED BY <1>2, <1>13, <1>14, <1>15, <1>16, <1>17, <2>1 DEF Extends
<1>19. /\ Layout(t)
       /\ \A g \in Headers(s) : (IsBig(t, g) <=> IsBig(s, g)) /\ \A u : Slot(t, g, u) <=> Slot(s, g, u)
       /\ \A g \in Headers(s) : \A u : Slot(s, g, u) => u \in Nat /\ u < h
  BY <1>1, <1>18, ExtendsLayout
<1>20. BigOf(t) = BigOf(s) \cup {h}
  BY <1>15, <1>16, <1>19 DEF BigOf
<1>21. \A b \in Bins : SmallOf(s, b) \subseteq SmallOf(t, b)
  BY <1>16, <1>17 DEF SmallOf
<1>22. at \in Nat /\ at > h
  BY <1>1, Constants
<1>23. at \notin U
  BY <1>1, <1>19, <1>22 DEF Good
<1>24. Slot(t, h, at)
  BY <1>15 DEF Slot
<1>25. \A g \in Headers(t) : ~IsBig(t, g) =>
         /\ t.hdr[g].next \in {NULL} \cup SmallOf(t, t.hdr[g].size)
         /\ Stack(t.hdr[g].head, t.mem, CellsOf(g, t.hdr[g].size) \ (U \cup {at}))
  <2> SUFFICES ASSUME NEW g \in Headers(t), ~IsBig(t, g)
               PROVE  /\ t.hdr[g].next \in {NULL} \cup SmallOf(t, t.hdr[g].size)
                      /\ Stack(t.hdr[g].head, t.mem, CellsOf(g, t.hdr[g].size) \ (U \cup {at}))
    OBVIOUS
  <2>1. g \in Headers(s) /\ ~IsBig(s, g) /\ g \notin BigOf(s)
    BY <1>15, <1>16, <1>19 DEF BigOf
  <2>2. t.hdr[g].size = s.hdr[g].size /\ t.hdr[g].head = s.hdr[g].head /\ t.hdr[g].next = s.hdr[g].next
        /\ s.hdr[g].size \in Bins
    BY <1>1, <1>17, <2>1 DEF Layout
  <2>3. PICK S : S = CellsOf(g, s.hdr[g].size) \ U
    OBVIOUS
  <2>4. \A x \in CellsOf(g, s.hdr[g].size) : x # at
    <3>1. \A x \in CellsOf(g, s.hdr[g].size) : Slot(s, g, x)
      BY <2>1 DEF Slot
    <3> QED BY <1>1, <1>19, <1>22, <2>1, <3>1
  <2>5. CellsOf(g, s.hdr[g].size) \ (U \cup {at}) = S
    BY <2>3, <2>4
  <2>6. Stack(s.hdr[g].head, s.mem, S)
    BY <1>1, <2>1, <2>3 DEF SmallOk
  <2>7. S \subseteq DOMAIN s.mem
    BY <2>6 DEF Stack
  <2>8. Stack(s.hdr[g].head, mem, S)
    BY <1>11, <2>3, <2>4, <2>6, <2>7, StackFrame
  <2>9. s.hdr[g].next \in {NULL} \cup SmallOf(s, s.hdr[g].size)
    BY <1>1, <2>1 DEF SmallOk
  <2> QED BY <1>13, <1>21, <2>2, <2>5, <2>8, <2>9
<1>26. SmallOk(t, U \cup {at})
  BY <1>1, <1>13, <1>21, <1>25 DEF SmallOk
<1>27. SkipOk(t, BigOf(t))
  <2>1. PICK B : B = BigOf(s)
    OBVIOUS
  <2>2. IsFiniteSet(B) /\ B \subseteq Nat \ {0} /\ s.level \in Levels
        /\ s.fwd \in [B \cup {HEAD} -> [Levels -> B \cup {NULL}]]
    BY <1>1, <2>1 DEF BigOk, SkipOk
  <2>3. IsFiniteSet(B \cup {h})
    BY <2>2, FS_Union, FS_Singleton
  <2>4. h \in Nat \ {0}
    BY <1>1, Constants
  <2>5. none \in [Levels -> (B \cup {h}) \cup {NULL}]
    OBVIOUS
  <2> HIDE DEF none
  <2>6. DOMAIN s.fwd = B \cup {HEAD} /\ \A x \in B \cup {HEAD} : s.fwd[x] \in [Levels -> (B \cup {h}) \cup {NULL}]
    <3>1. \A x \in B \cup {HEAD} : s.fwd[x] \in [Levels -> B \cup {NULL}]
      BY <2>2
    <3>2. \A f \in [Levels -> B \cup {NULL}] : f \in [Levels -> (B \cup {h}) \cup {NULL}]
      OBVIOUS
    <3> QED BY <2>2, <3>1, <3>2
  <2>7. fwd \in [(B \cup {h}) \cup {HEAD} -> [Levels -> (B \cup {h}) \cup {NULL}]]
    BY <1>12, <2>5, <2>6 DEF Put
  <2> QED BY <1>13, <1>20, <2>1, <2>2, <2>3, <2>4, <2>7 DEF SkipOk
<1>28. \A g \in BigOf(t) :
         /\ t.hdr[g].head \in {NULL, g + BIG_HEADER}
         /\ t.hdr[g].head = NULL <=> g + BIG_HEADER \in U \cup {at}
         /\ t.hdr[g].head # NULL => g + BIG_HEADER \in DOMAIN t.mem /\ t.mem[g + BIG_HEADER] = NULL
  <2> SUFFICES ASSUME NEW g \in BigOf(t)
               PROVE  /\ t.hdr[g].head \in {NULL, g + BIG_HEADER}
                      /\ t.hdr[g].head = NULL <=> g + BIG_HEADER \in U \cup {at}
                      /\ t.hdr[g].head # NULL => g + BIG_HEADER \in DOMAIN t.mem /\ t.mem[g + BIG_HEADER] = NULL
    OBVIOUS
  <2>1. CASE g = h
    <3>1. t.hdr[g].head = NULL
      BY <1>7, <1>9, <1>13, <2>1
    <3> QED BY <2>1, <3>1
  <2>2. CASE g \in BigOf(s)
    <3>1. g \in Headers(s) /\ t.hdr[g].head = s.hdr[g].head /\ g \in Nat /\ g < h
      BY <1>4, <1>17, <2>2 DEF BigOf
    <3>2. g + BIG_HEADER # at
      BY <1>1, <3>1, Constants
    <3>3. /\ s.hdr[g].head \in {NULL, g + BIG_HEADER}
          /\ s.hdr[g].head = NULL <=> g + BIG_HEADER \in U
          /\ s.hdr[g].head # NULL => g + BIG_HEADER \in DOMAIN s.mem /\ s.mem[g + BIG_HEADER] = NULL
      BY <1>1, <2>2 DEF BigOk
    <3> QED BY <1>11, <1>13, <3>1, <3>2, <3>3
  <2> QED BY <1>20, <2>1, <2>2
<1>29. BigOk(t, U \cup {at})
  BY <1>13, <1>20, <1>27, <1>28 DEF BigOk
<1>30. \A u \in U \cup {at} : \E g \in Headers(t) : Slot(t, g, u)
  BY <1>16, <1>19, <1>24 DEF Good
<1>31. Good(t, U \cup {at})
  BY <1>19, <1>26, <1>29, <1>30 DEF Good
<1>32. Keeps(s, t, {})
  <2>1. \A x \in DOMAIN s.mem : x <= s.brk => x # at
    BY <1>1, <1>22
  <2>2. \A x \in DOMAIN s.mem : x <= s.brk => x \in DOMAIN t.mem /\ t.mem[x] = s.mem[x]
    BY <1>11, <1>13, <2>1
  <2> QED BY <1>16, <1>17, <2>2 DEF Keeps
<1>33. t.brk <= MAX
  <2>1. Fail(s, "lost").status # "ok"
    BY <1>1 DEF Fail, IsState, Fields
  <2>2. CanSbrk(s, n)
    BY <1>2, <2>1 DEF NewBig
  <2> QED BY <1>13, <2>2 DEF CanSbrk
<1>34. \A x \in BigOf(s) \cup {HEAD} : t.fwd[x] = s.fwd[x]
  <2>1. DOMAIN s.fwd = BigOf(s) \cup {HEAD}
    BY <1>1 DEF BigOk, SkipOk
  <2>2. \A x \in BigOf(s) \cup {HEAD} : x # h
    BY <1>1, <1>4, Constants DEF BigOf
  <2> QED BY <1>12, <1>13, <2>1, <2>2 DEF Put
<1>35. Grows(s, t, s.brk)
  BY <1>4, <1>13, <1>16, <1>17, <1>33, <1>34 DEF Grows, BigOf
<1>36. Rounded(t, h)
  <2>1. t.hdr[h].size + BIG_HEADER = n
    BY <1>2, <1>14, Constants
  <2>2. n \in Nat /\ 0 \in Nat /\ 0 < PAGE_SIZE /\ n + 0 = n
    BY <1>2, Constants
  <2>3. n % PAGE_SIZE = 0
    BY <1>2, <2>2, PageIs
  <2> QED BY <2>1, <2>3 DEF Rounded
<1>37. t.hdr[h].head = NULL
  BY <1>7, <1>9, <1>13
<1> QED BY <1>2, <1>13, <1>14, <1>20, <1>22, <1>23, <1>24, <1>31, <1>32, <1>35, <1>36, <1>37

-----------------------------------------------------------------------------
(* klmalloc and klfree.                                                    *)

\* The bin of a size holds it, and what is longer than half a page is big.
LEMMA BinSize ==
    ASSUME NEW size \in Nat, NEW bin, bin = klmalloc_bin_size(size)
    PROVE  /\ bin \in 0 .. BIG_BIN
           /\ bin < BIG_BIN => bin \in Bins /\ size <= 2 ^ bin
           /\ 2 * size > PAGE_SIZE => bin = BIG_BIN
<1>1. PICK T : T = {BIG_BIN} \cup {b \in 0 .. BIG_BIN : size <= 2 ^ b}
  OBVIOUS
<1>2. T \subseteq Nat /\ T # {} /\ BIG_BIN \in Nat
  BY <1>1, Constants
<1>3. bin \in T
  BY <1>1, <1>2, MinIn DEF klmalloc_bin_size
<1>4. bin \in 0 .. BIG_BIN /\ (bin # BIG_BIN => bin \in Bins /\ size <= 2 ^ bin)
  BY <1>1, <1>2, <1>3 DEF Bins
<1>5. ASSUME 2 * size > PAGE_SIZE, bin # BIG_BIN PROVE FALSE
  <2>1. PICK p \in Nat : p = 2 ^ bin /\ 2 * p <= PAGE_SIZE
    BY <1>4, <1>5, Power
  <2>2. size <= p
    BY <1>4, <1>5, <2>1
  <2> QED BY <1>5, <2>1, <2>2, Constants
<1> QED BY <1>2, <1>4, <1>5

\* t looks like s to whoever has blocks.
Quiet(s, t) ==
    /\ t.brk = s.brk /\ Headers(t) = Headers(s) /\ t.mem = s.mem
    /\ \A g \in Headers(s) : t.hdr[g].size = s.hdr[g].size

\* Quiet steps may follow,
LEMMA KeepsThenQuiet ==
    ASSUME NEW s, NEW t, NEW u, NEW written, Keeps(s, t, written), Quiet(t, u)
    PROVE  Keeps(s, u, written)
BY DEF Keeps, Quiet

\* and keep everything themselves;
LEMMA QuietKeeps ==
    ASSUME NEW s, NEW t, Quiet(s, t)
    PROVE  Keeps(s, t, {})
BY DEF Keeps, Quiet

\* a failed assertion is one,
LEMMA FailIsQuiet ==
    ASSUME NEW s, IsState(s), NEW why, why # "ok"
    PROVE  Quiet(s, Fail(s, why)) /\ Fail(s, why).status # "ok" /\ IsState(Fail(s, why))
BY DEF Quiet, Fail, IsState, Fields, Headers

\* changes to the skip list are,
LEMMA SkipsKeep ==
    ASSUME NEW s, NEW U, Good(s, U), NEW t, OnlySkips(s, t), SkipOk(t, BigOf(s))
    PROVE  Good(t, U) /\ Quiet(s, t)
<1>1. Layout(s) /\ SmallOk(s, U) /\ BigOk(s, U)
  BY DEF Good
<1>2. SameHeaders(s, t) /\ Quiet(s, t)
  BY <1>1 DEF SameHeaders, Quiet, OnlySkips, Headers, Layout
<1>3. /\ Layout(t) /\ BigOf(t) = BigOf(s) /\ \A b : SmallOf(t, b) = SmallOf(s, b)
      /\ \A g \in Headers(s) : (IsBig(t, g) <=> IsBig(s, g)) /\ \A u : Slot(t, g, u) <=> Slot(s, g, u)
  BY <1>1, <1>2, HeadersFrame
<1>4. SmallOk(t, U)
  BY <1>1, <1>2, <1>3 DEF SmallOk, OnlySkips, Quiet
<1>5. BigOk(t, U)
  BY <1>1, <1>3 DEF BigOk, OnlySkips
<1> QED BY <1>2, <1>3, <1>4, <1>5 DEF Good, Quiet

\* and so is a pop, whether its assertions hold or not.
LEMMA PopFails ==
    ASSUME NEW s, Layout(s), s.status = "ok", NEW h \in Headers(s)
    PROVE  /\ Quiet(s, klmalloc_stack_pop(s, h)) /\ IsState(klmalloc_stack_pop(s, h))
           /\ klmalloc_stack_pop(s, h).status \in {"ok", "panic"}
<1>1. IsState(s)
  BY DEF Layout
<1>2. PICK w : w = [s EXCEPT !.hdr[h].head = s.mem[s.hdr[h].head]]
  OBVIOUS
<1>3. HeadSet(s, w, h, s.mem[s.hdr[h].head]) /\ w.mem = s.mem
  BY <1>2, SetHead
<1>4. Quiet(s, w) /\ w.status = "ok" /\ IsState(w)
  BY <1>3 DEF HeadSet, SameHeaders, Quiet
<1>5. Fail(s, "panic").status = "panic"
  BY <1>1 DEF Fail, IsState, Fields
<1>6. klmalloc_stack_pop(s, h) \in {w, Fail(s, "panic")}
  BY <1>2 DEF klmalloc_stack_pop
<1> QED BY <1>1, <1>4, <1>5, <1>6, FailIsQuiet

\* klmalloc gives a place that is not in use and has room; all blocks stay as they are,
\* also when an assertion fails.
Gives(s, U, size, r) ==
    /\ Keeps(s, r.m, {})
    /\ r.m.status = "ok" =>
         /\ Good(r.m, U \cup {r.at}) /\ r.at \notin U
         /\ \E h \in Headers(r.m) : /\ Slot(r.m, h, r.at) /\ size <= SlotSize(r.m, h)
                                    /\ 2 * size > PAGE_SIZE => IsBig(r.m, h)

\* A page with a free cell, or a new one.
LEMMA SmallGives ==
    ASSUME NEW s, NEW U, Good(s, U), s.status = "ok", NEW size \in Nat,
           NEW bin \in Bins, size <= 2 ^ bin, ~(2 * size > PAGE_SIZE)
    PROVE  Gives(s, U, size, SmallFrom(s, bin, s.first[bin]))
<1>1. PICK found : found = s.first[bin]
  OBVIOUS
<1>2. PICK t : t = IF found = NULL THEN NewBin(s, bin) ELSE s
  OBVIOUS
<1>3. Layout(s) /\ SmallOk(s, U) /\ IsState(s)
  BY DEF Good, Layout
<1>4. PICK r : r = SmallFrom(s, bin, found)
  OBVIOUS
<1>5. CASE t.status # "ok"
  <2>1. r.m = t
    BY <1>2, <1>4, <1>5 DEF SmallFrom
  <2>2. t = NewBin(s, bin)
    BY <1>2, <1>5
  <2>3. t = Fail(s, "lost")
    <3>1. SUFFICES ASSUME t # Fail(s, "lost") PROVE FALSE
      OBVIOUS
    <3>2. PICK hdr, mem : t = klmalloc_list_insert([Sbrk(s, PAGE_SIZE) EXCEPT !.hdr = hdr, !.mem = mem], bin, s.brk)
      <4>1. CanSbrk(s, PAGE_SIZE)
        BY <2>2, <3>1 DEF NewBin
      <4> QED BY <2>2, <4>1, Zenon DEF NewBin
    <3>3. t.status = s.status
      BY <1>3, <3>2 DEF klmalloc_list_insert, Sbrk, IsState, Fields
    <3> QED BY <1>5, <3>3
  <2>4. Keeps(s, t, {})
    BY <1>3, <2>3, FailIsQuiet, QuietKeeps
  <2> QED BY <1>1, <1>4, <1>5, <2>1, <2>4 DEF Gives
<1>6. CASE t.status = "ok"
  <2>1. Good(t, U) /\ Keeps(s, t, {}) /\ t.first[bin] \in SmallOf(t, bin)
    <3>1. CASE found = NULL
      BY <1>2, <1>6, <3>1, NewBinKeeps
    <3>2. CASE found # NULL
      <4>1. t = s /\ Quiet(s, s)
        BY <1>2, <3>2 DEF Quiet
      <4> QED BY <1>1, <1>3, <3>2, <4>1, QuietKeeps DEF SmallOk
    <3> QED BY <3>1, <3>2
  <2>2. PICK h \in SmallOf(t, bin) : h = t.first[bin]
    BY <2>1
  <2>3. h \in Headers(t) /\ t.hdr[h].size = bin /\ ~IsBig(t, h)
    BY BinsAreSmall DEF SmallOf
  <2>4. PICK item : item = t.hdr[h].head
    OBVIOUS
  <2>5. PICK p : p = klmalloc_stack_pop(t, h)
    OBVIOUS
  <2>6. r.m = (IF klmalloc_stack_empty(p, h) THEN klmalloc_list_decouple(p, bin, h) ELSE p) /\ r.at = item
    BY <1>2, <1>4, <1>6, <2>2, <2>4, <2>5 DEF SmallFrom, klmalloc_list_head
  <2>7. Layout(t)
    BY <2>1 DEF Good
  <2>8. Quiet(t, p) /\ IsState(p) /\ (p.status # "ok" => p.status = "panic")
    BY <1>6, <2>3, <2>5, <2>7, PopFails
  <2>9. CASE p.status # "ok"
    <3>1. klmalloc_list_decouple(p, bin, h).status = p.status /\ Quiet(p, klmalloc_list_decouple(p, bin, h))
      <4>1. PICK page : page = [p.hdr[h] EXCEPT !.next = NULL]
        OBVIOUS
      <4>2. p = Fail(t, "panic")
        <5>1. PICK w : w = [t EXCEPT !.hdr[h].head = t.mem[t.hdr[h].head]]
          OBVIOUS
        <5>2. HeadSet(t, w, h, t.mem[t.hdr[h].head])
          BY <2>3, <2>7, <5>1, SetHead
        <5>3. w.status = "ok"
          BY <1>6, <5>2 DEF HeadSet
        <5> QED BY <2>5, <2>9, <5>1, <5>3 DEF klmalloc_stack_pop
      <4>3. p.hdr = t.hdr /\ DOMAIN t.hdr[h] = HeaderFields
        BY <2>3, <2>7, <4>2 DEF Fail, Layout, IsState, Fields
      <4>4. page.size = p.hdr[h].size
        BY <4>1, <4>3 DEF HeaderFields
      <4>5. PICK hdr : hdr = [p.hdr EXCEPT ![h] = page]
        OBVIOUS
      <4>6. DOMAIN hdr = DOMAIN p.hdr /\ \A g \in DOMAIN p.hdr : hdr[g].size = p.hdr[g].size
        BY <4>4, <4>5
      <4>7. PICK first : first = [p.first EXCEPT ![bin] = p.hdr[h].next]
        OBVIOUS
      <4>8. klmalloc_list_decouple(p, bin, h) = [p EXCEPT !.first = first, !.hdr = hdr]
        BY <2>8, <4>1, <4>5, <4>7 DEF klmalloc_list_decouple, IsState, Fields
      <4> QED BY <2>8, <4>6, <4>8 DEF Quiet, IsState, Fields, Headers
    <3>2. r.m.status # "ok"
      BY <2>6, <2>9, <3>1
    <3>3. Keeps(s, p, {})
      BY <2>1, <2>8, KeepsThenQuiet
    <3>4. Keeps(s, r.m, {})
      BY <2>6, <3>1, <3>3, KeepsThenQuiet
    <3> QED BY <1>1, <1>4, <3>2, <3>4 DEF Gives
  <2>10. CASE p.status = "ok"
    <3>1. /\ Good(p, U \cup {item}) /\ item \notin U /\ Slot(t, h, item)
          /\ HeadSet(t, p, h, t.mem[item])
      BY <2>1, <2>3, <2>4, <2>5, <2>10, PopKeeps
    <3>2. SameHeaders(t, p)
      BY <3>1 DEF HeadSet
    <3>3. h \in SmallOf(p, bin) /\ Slot(p, h, item) /\ SlotSize(p, h) = 2 ^ bin
      BY <2>3, <2>7, <3>1, <3>2, HeadersFrame DEF SlotSize
    <3>4. Keeps(s, p, {})
      BY <2>1, <2>8, KeepsThenQuiet
    <3>5. CASE ~klmalloc_stack_empty(p, h)
      BY <1>1, <1>4, <2>6, <3>1, <3>3, <3>4, <3>5 DEF Gives, SmallOf
    <3>6. CASE klmalloc_stack_empty(p, h)
      <4>1. PICK q : q = klmalloc_list_decouple(p, bin, h)
        OBVIOUS
      <4>2. Good(q, U \cup {item}) /\ NextSet(p, q, h, NULL, bin, p.hdr[h].next)
        BY <3>1, <3>3, <4>1, DecoupleKeeps
      <4>3. SameHeaders(p, q) /\ Quiet(p, q)
        BY <4>2 DEF NextSet, SameHeaders, Quiet
      <4>4. Layout(p)
        BY <3>1 DEF Good
      <4>5. h \in Headers(p)
        BY <3>3 DEF SmallOf
      <4>6. h \in Headers(q) /\ Slot(q, h, item) /\ SlotSize(q, h) = 2 ^ bin
        BY <3>3, <4>3, <4>4, <4>5, HeadersFrame DEF SameHeaders
      <4>7. Keeps(s, q, {})
        BY <3>4, <4>3, KeepsThenQuiet
      <4>8. r.m = q /\ r.at = item
        BY <2>6, <3>6, <4>1
      <4> QED BY <1>1, <1>4, <3>1, <4>2, <4>6, <4>7, <4>8 DEF Gives
    <3> QED BY <3>5, <3>6
  <2> QED BY <2>9, <2>10
<1> QED BY <1>5, <1>6

\* What NewBigKeeps says of the new block, by its own name.
LEMMA NewBigIs ==
    ASSUME NEW s, NEW U, Good(s, U), NEW size \in Nat, NewBig(s, size).status = "ok"
    PROVE  /\ Good(NewBig(s, size), U \cup {s.brk + BIG_HEADER}) /\ s.brk + BIG_HEADER \notin U
           /\ Keeps(s, NewBig(s, size), {}) /\ s.brk \in BigOf(NewBig(s, size))
           /\ Slot(NewBig(s, size), s.brk, s.brk + BIG_HEADER)
           /\ size <= NewBig(s, size).hdr[s.brk].size
BY NewBigKeeps

\* A free block, or a new one.
LEMMA BigGives ==
    ASSUME NEW s, NEW U, Good(s, U), s.status = "ok", NEW size \in Nat,
           NEW found \in BigOf(s) \cup {NULL}
    PROVE  Gives(s, U, size, BigFrom(s, size, found))
<1>1. Layout(s) /\ BigOk(s, U) /\ IsState(s) /\ SkipOk(s, BigOf(s))
  BY DEF Good, Layout, BigOk
<1>2. PICK r : r = BigFrom(s, size, found)
  OBVIOUS
<1>3. CASE found = NULL
  <2>1. r.m = NewBig(s, size) /\ r.at = s.brk + BIG_HEADER
    BY <1>2, <1>3 DEF BigFrom
  <2>2. CASE r.m.status = "ok"
    <3>1. PICK t : t = NewBig(s, size)
      OBVIOUS
    <3>2. PICK at : at = s.brk + BIG_HEADER
      OBVIOUS
    <3>3. /\ Good(t, U \cup {at}) /\ at \notin U /\ Keeps(s, t, {}) /\ s.brk \in BigOf(t)
          /\ Slot(t, s.brk, at) /\ size <= t.hdr[s.brk].size
      <4>1. t.status = "ok"
        BY <2>1, <2>2, <3>1
      <4>2. Good(s, U) /\ size \in Nat /\ NewBig(s, size).status = "ok"
        BY <3>1, <4>1
      <4> QED BY <3>1, <3>2, <4>2, NewBigIs
    <3>4. s.brk \in Headers(t) /\ IsBig(t, s.brk) /\ SlotSize(t, s.brk) = t.hdr[s.brk].size
      BY <3>3 DEF BigOf, SlotSize
    <3> QED BY <1>2, <2>1, <3>1, <3>2, <3>3, <3>4 DEF Gives
  <2>3. CASE r.m.status # "ok"
    <3>1. r.m = Fail(s, "lost")
      <4>1. SUFFICES ASSUME r.m # Fail(s, "lost") PROVE FALSE
        OBVIOUS
      <4>2. CanSbrk(s, PAGE_SIZE * PagesFor(size))
        BY <2>1, <4>1 DEF NewBig
      <4>3. r.m.status = s.status
        BY <1>1, <2>1, <4>2 DEF NewBig, Sbrk, IsState, Fields
      <4> QED BY <2>3, <4>3
    <3>2. Keeps(s, r.m, {})
      BY <1>1, <3>1, FailIsQuiet, QuietKeeps
    <3> QED BY <1>2, <2>3, <3>2 DEF Gives
  <2> QED BY <2>2, <2>3
<1>4. CASE found # NULL /\ s.hdr[found].size < size
  <2>1. r.m = Fail(s, "panic")
    BY <1>2, <1>4 DEF BigFrom
  <2>2. Keeps(s, r.m, {}) /\ r.m.status # "ok"
    BY <1>1, <2>1, FailIsQuiet, QuietKeeps
  <2> QED BY <1>2, <2>2 DEF Gives
<1>5. CASE found # NULL /\ ~(s.hdr[found].size < size)
  <2>1. found \in BigOf(s) /\ found \in Headers(s) /\ IsBig(s, found) /\ s.hdr[found].size \in Nat
    BY <1>1, <1>5 DEF BigOf, Layout
  <2>2. PICK d : d = klmalloc_skip_list_delete(s, found)
    OBVIOUS
  <2>3. OnlySkips(s, d) /\ SkipOk(d, BigOf(s))
    BY <1>1, <2>1, <2>2, SkipDelete
  <2>4. Good(d, U) /\ Quiet(s, d) /\ IsState(d) /\ d.hdr = s.hdr
    BY <2>3, SkipsKeep DEF OnlySkips
  <2>5. PICK t : t = klmalloc_stack_pop(d, found)
    OBVIOUS
  <2>6. r.m = t /\ r.at = s.hdr[found].head
    BY <1>2, <1>5, <2>2, <2>5 DEF BigFrom
  <2>7. found \in Headers(d) /\ Layout(d)
    BY <2>1, <2>4 DEF Good, Headers
  <2>8. HeadSet(d, [d EXCEPT !.hdr[found].head = d.mem[d.hdr[found].head]], found, d.mem[d.hdr[found].head])
        /\ [d EXCEPT !.hdr[found].head = d.mem[d.hdr[found].head]].mem = d.mem
    BY <2>7, SetHead
  <2>9. Quiet(d, t)
    <3>1. Quiet(d, [d EXCEPT !.hdr[found].head = d.mem[d.hdr[found].head]])
      BY <2>8 DEF HeadSet, SameHeaders, Quiet
    <3>2. Quiet(d, Fail(d, "panic"))
      BY <2>4, FailIsQuiet
    <3> QED BY <2>5, <3>1, <3>2 DEF klmalloc_stack_pop
  <2>10. Keeps(s, t, {})
    BY <2>4, <2>9, QuietKeeps, KeepsThenQuiet
  <2>11. CASE t.status # "ok"
    BY <1>2, <2>6, <2>10, <2>11 DEF Gives
  <2>12. CASE t.status = "ok"
    <3>1. PICK item : item = s.hdr[found].head
      OBVIOUS
    <3>2. /\ Good(t, U \cup {item}) /\ item \notin U /\ Slot(d, found, item)
          /\ HeadSet(d, t, found, d.mem[item])
      BY <2>4, <2>5, <2>7, <2>12, <3>1, PopKeeps
    <3>3. SameHeaders(d, t)
      BY <3>2 DEF HeadSet
    <3>4. IsBig(d, found)
      BY <2>1, <2>4 DEF IsBig
    <3>5. found \in Headers(t) /\ Slot(t, found, item) /\ IsBig(t, found) /\ t.hdr[found].size = s.hdr[found].size
      BY <2>4, <2>7, <3>2, <3>3, <3>4, HeadersFrame DEF SameHeaders
    <3>6. size <= SlotSize(t, found)
      BY <1>5, <2>1, <3>5 DEF SlotSize
    <3> QED BY <1>2, <2>6, <2>10, <3>1, <3>2, <3>5, <3>6 DEF Gives
  <2> QED BY <2>11, <2>12
<1> QED BY <1>3, <1>4, <1>5

\* The header that Find found fits to the allocator as long as nobody changes it.
FoundOk(s, size, found) ==
    IF klmalloc_bin_size(size) < BIG_BIN THEN found = s.first[klmalloc_bin_size(size)]
    ELSE found \in BigOf(s) \cup {NULL}

\* What Find finds is such a header.
LEMMA FindFinds ==
    ASSUME NEW s, NEW U, Good(s, U), NEW size
    PROVE  FoundOk(s, size, BinHeader(s, size))
<1>1. SkipOk(s, BigOf(s))
  BY DEF Good, BigOk
<1> QED BY <1>1, FindType DEF FoundOk, BinHeader, klmalloc_list_head

\* klmalloc, for every size and with whatever it found.
LEMMA KlmallocGives ==
    ASSUME NEW s, NEW U, Good(s, U), s.status = "ok", NEW size \in Nat, NEW found, FoundOk(s, size, found)
    PROVE  Gives(s, U, size, klmalloc(s, size, found))
<1>1. PICK bin : bin = klmalloc_bin_size(size)
  OBVIOUS
<1>2. /\ bin \in 0 .. BIG_BIN /\ (bin < BIG_BIN => bin \in Bins /\ size <= 2 ^ bin)
      /\ (2 * size > PAGE_SIZE => bin = BIG_BIN)
  BY <1>1, BinSize
<1>3. CASE bin < BIG_BIN
  <2>1. bin \in Bins /\ size <= 2 ^ bin /\ ~(2 * size > PAGE_SIZE)
    BY <1>2, <1>3, Constants
  <2>2. klmalloc(s, size, found) = SmallFrom(s, bin, s.first[bin])
    BY <1>1, <1>3 DEF klmalloc, FoundOk
  <2> QED BY <2>1, <2>2, SmallGives
<1>4. CASE ~(bin < BIG_BIN)
  <2>1. klmalloc(s, size, found) = BigFrom(s, size, found) /\ found \in BigOf(s) \cup {NULL}
    BY <1>1, <1>4 DEF klmalloc, FoundOk
  <2> QED BY <2>1, BigGives
<1> QED BY <1>3, <1>4

\* Nothing goes well again after a failed assertion.
LEMMA InsertKeepsStatus ==
    ASSUME NEW s, IsState(s), s.status # "ok", NEW h, NEW level
    PROVE  klmalloc_skip_list_insert(s, h, level).status # "ok"
<1>1. Fail(s, "panic").status # "ok"
  BY FailIsQuiet
<1>2. PICK fwd, top : klmalloc_skip_list_insert(s, h, level) \in {s, Fail(s, "panic"), [s EXCEPT !.fwd = fwd, !.level = top]}
  BY DEF klmalloc_skip_list_insert
<1> QED BY <1>1, <1>2 DEF IsState, Fields

\* A block at ptr takes the place u of the page h: valloc moves to the next page.
TakesPlace(s, h, u, ptr) ==
    h \in Headers(s) /\ Slot(s, h, u) /\ (ptr = u \/ (IsBig(s, h) /\ ptr = h + PAGE_SIZE))

\* What klfree does with the block of a page.
LEMMA FreeIs ==
    ASSUME NEW s, Layout(s), NEW h, NEW u, NEW ptr, TakesPlace(s, h, u, ptr), NEW level
    PROVE  /\ ~IsBig(s, h) => klfree(s, ptr, level) =
                klmalloc_stack_push(IF klmalloc_stack_empty(s, h)
                                      THEN klmalloc_list_insert(s, s.hdr[h].size, h) ELSE s, h, u)
           /\ IsBig(s, h) => klfree(s, ptr, level) =
                IF ~klmalloc_stack_empty(s, h) \/ ~Rounded(s, h) THEN Fail(s, "panic")
                ELSE klmalloc_skip_list_insert(klmalloc_stack_push(s, h, u), h, level)
<1>1. h \in Headers(s) /\ h \in Nat /\ h >= PAGE_SIZE /\ Aligned(h) /\ Slot(s, h, u)
  BY DEF TakesPlace, Layout
<1>2. u \in Nat /\ h + BIN_HEADER <= u /\ Page(u) = h /\ u % PAGE_SIZE # 0
  BY <1>1, SlotFits
<1>3. PICK a : a = IF ptr % PAGE_SIZE = 0 THEN ptr - 1 ELSE ptr
  OBVIOUS
<1>4. Page(a) = h /\ ptr # NULL /\ (~IsBig(s, h) => a = u)
  <2>1. CASE ptr = u
    BY <1>1, <1>2, <1>3, <2>1, Constants
  <2>2. CASE IsBig(s, h) /\ ptr = h + PAGE_SIZE
    <3>1. PICK k \in Nat : k = PAGE_SIZE - 1 /\ k < PAGE_SIZE /\ h + PAGE_SIZE - 1 = h + k
      BY <1>1, Constants
    <3>2. Page(h + k) = h
      BY <1>1, <3>1, PageIs
    <3>3. (h + PAGE_SIZE) % PAGE_SIZE = 0
      <4>1. Aligned(h + PAGE_SIZE) /\ h + PAGE_SIZE \in Nat
        <5>1. PICK q \in Nat : h = q * PAGE_SIZE
          BY <1>1 DEF Aligned
        <5>2. h + PAGE_SIZE = (q + 1) * PAGE_SIZE /\ q + 1 \in Nat
          BY <5>1, Constants
        <5> QED BY <1>1, <5>2, Constants DEF Aligned
      <4>2. 0 \in Nat /\ 0 < PAGE_SIZE /\ h + PAGE_SIZE + 0 = h + PAGE_SIZE
        BY <1>1, Constants
      <4> QED BY <4>1, <4>2, PageIs
    <3>4. ptr # NULL
      BY <1>1, <2>2, Constants
    <3>5. a = ptr - 1 /\ ptr - 1 = h + k
      BY <1>1, <1>3, <2>2, <3>1, <3>3, Constants
    <3> QED BY <2>2, <3>2, <3>4, <3>5
  <2> QED BY <2>1, <2>2 DEF TakesPlace
<1>5. h \in DOMAIN s.hdr
  BY <1>1 DEF Headers
<1>6. IsBig(s, h) => u = h + BIG_HEADER
  BY <1>1 DEF Slot
<1> QED BY <1>3, <1>4, <1>5, <1>6 DEF klfree

\* klfree gives the place back and writes nowhere else.
LEMMA FreeKeeps ==
    ASSUME NEW s, NEW U, Good(s, U), s.status = "ok", NEW h, NEW u \in U, NEW ptr, TakesPlace(s, h, u, ptr),
           NEW level \in Levels, NEW r, r = klfree(s, ptr, level)
    PROVE  /\ Keeps(s, r, {u})
           /\ r.status = "ok" => Good(r, U \ {u})
<1>1. Layout(s) /\ SmallOk(s, U) /\ BigOk(s, U) /\ IsState(s)
  BY DEF Good, Layout
<1>2. h \in Headers(s) /\ h \in Nat /\ h >= PAGE_SIZE /\ Aligned(h) /\ Slot(s, h, u) /\ (IsBig(s, h) \/ s.hdr[h].size \in Bins)
  BY <1>1 DEF TakesPlace, Layout
<1>3. u \in Nat
  BY <1>1, <1>2, SlotFits
<1>7. CASE ~IsBig(s, h)
  <2>1. PICK bin \in Bins : bin = s.hdr[h].size
    BY <1>2, <1>7
  <2>2. PICK l : l = IF klmalloc_stack_empty(s, h) THEN klmalloc_list_insert(s, bin, h) ELSE s
    OBVIOUS
  <2>3. r = klmalloc_stack_push(l, h, u)
    BY <1>1, <1>7, <2>1, <2>2, FreeIs
  <2>4. h \in SmallOf(s, bin)
    BY <1>2, <2>1 DEF SmallOf
  <2>5. PICK q : q = klmalloc_list_insert(s, bin, h)
    OBVIOUS
  <2>6. Good(q, U) /\ NextSet(s, q, h, s.first[bin], bin, h)
    BY <2>4, <2>5, InsertKeeps
  <2>7. SameHeaders(s, q) /\ Quiet(s, q)
    BY <2>6 DEF NextSet, SameHeaders, Quiet
  <2>8. h \in Headers(q) /\ Slot(q, h, u)
    BY <1>1, <1>2, <2>7, HeadersFrame DEF SameHeaders
  <2>9. Good(l, U) /\ Quiet(s, l) /\ h \in Headers(l) /\ Slot(l, h, u)
    BY <1>2, <2>2, <2>5, <2>6, <2>7, <2>8 DEF Quiet
  <2>10. Layout(l) /\ IsState(l) /\ u \in Nat /\ l.brk \in Nat
    BY <1>3, <2>9 DEF Good, Layout
  <2>11. CASE r.status = "ok"
    <3>1. Good(r, U \ {u}) /\ HeadSet(l, r, h, u) /\ r.mem = Put(l.mem, u, l.hdr[h].head)
      BY <2>3, <2>9, <2>11, PushKeeps
    <3>2. Headers(r) = Headers(l) /\ \A g \in Headers(l) : r.hdr[g].size = l.hdr[g].size
      BY <3>1 DEF HeadSet, SameHeaders
    <3>3. \A x \in DOMAIN s.mem \ {u} : x \in DOMAIN r.mem /\ r.mem[x] = s.mem[x]
      BY <2>9, <3>1 DEF Put, Quiet
    <3>4. Keeps(s, r, {u})
      BY <2>9, <3>2, <3>3 DEF Keeps, Quiet
    <3> QED BY <3>1, <3>4
  <2>12. CASE r.status # "ok"
    <3>1. Quiet(l, Fail(l, "panic"))
      BY <2>10, FailIsQuiet
    <3>2. Keeps(s, Fail(l, "panic"), {u})
      <4>1. Quiet(s, Fail(l, "panic"))
        BY <2>9, <3>1 DEF Quiet
      <4> QED BY <4>1 DEF Quiet, Keeps
    <3>3. r = Fail(l, "panic")
      <4>1. SUFFICES ASSUME r # Fail(l, "panic") PROVE FALSE
        OBVIOUS
      <4>2. PICK w : w = [l EXCEPT !.hdr[h].head = u]
        OBVIOUS
      <4>3. HeadSet(l, w, h, u)
        BY <2>9, <2>10, <4>2, SetHead
      <4>4. PICK mem : mem = Put(l.mem, u, l.hdr[h].head)
        OBVIOUS
      <4>5. r = [l EXCEPT !.mem = mem, !.hdr[h].head = u]
        BY <2>3, <4>1, <4>4 DEF klmalloc_stack_push
      <4>6. r.status = l.status
        BY <2>10, <4>5 DEF IsState, Fields
      <4>7. l.status = "ok"
        BY <2>2, <2>5, <2>6 DEF NextSet
      <4> QED BY <2>12, <4>6, <4>7
    <3> QED BY <2>12, <3>2, <3>3
  <2> QED BY <2>11, <2>12
<1>8. CASE IsBig(s, h)
  <2>1. u = h + BIG_HEADER /\ h \in BigOf(s)
    BY <1>2, <1>8 DEF Slot, BigOf
  <2>2. PICK p : p = klmalloc_stack_push(s, h, u)
    OBVIOUS
  <2>3. r = Fail(s, "panic") \/ r = klmalloc_skip_list_insert(p, h, level)
    BY <1>1, <1>8, <2>2, FreeIs
  <2>4. CASE r = Fail(s, "panic")
    BY <1>1, <2>4, FailIsQuiet, QuietKeeps DEF Keeps
  <2>5. CASE r = klmalloc_skip_list_insert(p, h, level)
    <3>1. IsState(p) /\ SkipOk(p, BigOf(s)) /\ Keeps(s, p, {u}) /\ p.brk = s.brk
          /\ (p.status = "ok" => Good(p, U \ {u}) /\ BigOf(p) = BigOf(s))
      <4>1. CASE p = Fail(s, "panic")
        <5>1. OnlySkips(s, p) /\ SkipOk(p, BigOf(s)) /\ Quiet(s, p) /\ p.status # "ok" /\ IsState(p)
          BY <1>1, <4>1, FailOnly, FailIsQuiet DEF BigOk
        <5> QED BY <5>1 DEF Quiet, Keeps
      <4>2. CASE p # Fail(s, "panic")
        <5>1. PICK w : w = [s EXCEPT !.hdr[h].head = u]
          OBVIOUS
        <5>2. HeadSet(s, w, h, u)
          BY <1>1, <1>2, <5>1, SetHead
        <5>3. PICK mem : mem = Put(s.mem, u, s.hdr[h].head)
          OBVIOUS
        <5>4. p = [s EXCEPT !.mem = mem, !.hdr[h].head = u]
          BY <2>2, <4>2, <5>3 DEF klmalloc_stack_push
        <5>5. p.status = "ok"
          BY <1>1, <5>4 DEF IsState, Fields
        <5>6. Good(p, U \ {u}) /\ HeadSet(s, p, h, u) /\ p.mem = mem
          BY <1>2, <2>2, <5>3, <5>5, PushKeeps
        <5>7. SameHeaders(s, p) /\ SkipOk(p, BigOf(s))
          BY <1>1, <5>6, BigSame DEF HeadSet, BigOk
        <5>8. BigOf(p) = BigOf(s)
          BY <1>1, <5>7, HeadersFrame
        <5>9. \A x \in DOMAIN s.mem \ {u} : x \in DOMAIN p.mem /\ p.mem[x] = s.mem[x]
          BY <5>3, <5>6 DEF Put
        <5>10. Keeps(s, p, {u})
          BY <5>7, <5>9 DEF Keeps, SameHeaders
        <5> QED BY <5>6, <5>7, <5>8, <5>10 DEF SameHeaders
      <4> QED BY <4>1, <4>2
    <3>2. OnlySkips(p, r) /\ SkipOk(r, BigOf(s))
      BY <2>1, <2>5, <3>1, SkipInsert
    <3>3. Quiet(p, r)
      BY <3>2 DEF OnlySkips, Quiet, Headers
    <3>4. Keeps(s, r, {u})
      BY <3>1, <3>3, KeepsThenQuiet
    <3>5. ASSUME r.status = "ok" PROVE p.status = "ok"
      <4>1. CASE p.status = "ok"
        BY <4>1
      <4>2. CASE p.status # "ok"
        BY <2>5, <3>1, <3>5, <4>2, InsertKeepsStatus
      <4> QED BY <4>1, <4>2
    <3>6. ASSUME r.status = "ok" PROVE Good(r, U \ {u})
      BY <3>1, <3>2, <3>5, <3>6, SkipsKeep
    <3> QED BY <3>4, <3>6
  <2> QED BY <2>3, <2>4, <2>5
<1> QED BY <1>7, <1>8

-----------------------------------------------------------------------------
(* The blocks of the users.                                                *)

\* The place of a block: valloc gave one that begins with the next page.
Base(a) == IF a % PAGE_SIZE = 0 THEN a - PAGE_SIZE + BIG_HEADER ELSE a

\* Base undoes what valloc does with the address.
LEMMA BaseIs ==
    ASSUME NEW s, Layout(s), NEW h, NEW u, NEW a, TakesPlace(s, h, u, a)
    PROVE  /\ Base(a) = u /\ Base(u) = u /\ u \in Nat /\ a \in Nat /\ a # NULL /\ u <= a /\ a <= s.brk
           /\ (a % PAGE_SIZE # 0 => a = u /\ Page(a) = h)
<1>1. h \in Headers(s) /\ Slot(s, h, u) /\ h \in Nat /\ Aligned(h) /\ h >= PAGE_SIZE
      /\ h + Length(s, h) <= s.brk /\ Length(s, h) >= PAGE_SIZE /\ s.brk \in Nat /\ s.hdr[h].size \in Nat
  BY DEF TakesPlace, Layout
<1>2. u \in Nat /\ h + BIN_HEADER <= u /\ u < h + PAGE_SIZE /\ u % PAGE_SIZE # 0 /\ Page(u) = h
  BY <1>1, SlotFits
<1>3. Base(u) = u
  BY <1>2 DEF Base
<1>4. Length(s, h) \in Nat
  BY <1>1, Constants DEF Length
<1>5. CASE a = u
  BY <1>1, <1>2, <1>3, <1>4, <1>5, Constants
<1>6. CASE IsBig(s, h) /\ a = h + PAGE_SIZE
  <2>1. u = h + BIG_HEADER
    BY <1>1, <1>6 DEF Slot
  <2>2. (h + PAGE_SIZE) % PAGE_SIZE = 0
    <3>1. Aligned(h + PAGE_SIZE) /\ h + PAGE_SIZE \in Nat
      <4>1. PICK q \in Nat : h = q * PAGE_SIZE
        BY <1>1 DEF Aligned
      <4>2. h + PAGE_SIZE = (q + 1) * PAGE_SIZE /\ q + 1 \in Nat
        BY <4>1, Constants
      <4> QED BY <1>1, <4>2, Constants DEF Aligned
    <3>2. 0 \in Nat /\ 0 < PAGE_SIZE /\ h + PAGE_SIZE + 0 = h + PAGE_SIZE
      BY <1>1, Constants
    <3> QED BY <3>1, <3>2, PageIs
  <2>3. Base(a) = a - PAGE_SIZE + BIG_HEADER
    BY <1>6, <2>2 DEF Base
  <2>4. a - PAGE_SIZE + BIG_HEADER = h + BIG_HEADER /\ h + PAGE_SIZE - PAGE_SIZE = h
    BY <1>1, <1>6, Constants
  <2> QED BY <1>1, <1>2, <1>3, <1>4, <1>6, <2>1, <2>2, <2>3, <2>4, Constants
<1> QED BY <1>5, <1>6 DEF TakesPlace

Addresses(bs) == {b.at : b \in bs}
Places(A) == {Base(a) : a \in A}
Fits(s, a, size) ==
    \E h : TakesPlace(s, h, Base(a), a) /\ size \in Nat /\ a + size <= Base(a) + SlotSize(s, h)

\* The blocks bs and the addresses H, which are on their way to a caller, are in use.
Sound(s, bs, H) ==
    /\ Good(s, Places(Addresses(bs) \cup H))
    /\ \A a \in Addresses(bs) \cup H : \E h : TakesPlace(s, h, Base(a), a)
    /\ \A a, c \in Addresses(bs) \cup H : Base(a) = Base(c) => a = c
    /\ Addresses(bs) \cap H = {}
    /\ \A b, c \in bs : b.at = c.at => b = c
    /\ \A b \in bs : Fits(s, b.at, b.size) /\ b.at \in DOMAIN s.mem /\ s.mem[b.at] = b.data

BlocksOk(s, bs) ==
    /\ \A b, c \in bs : b # c => Span(b) \cap Span(c) = {}
    /\ \A b \in bs : \E h \in Headers(s) :
         Span(b) \subseteq IF IsBig(s, h) THEN h + BIG_HEADER .. h + BIG_HEADER + s.hdr[h].size - 1
                           ELSE h + BIN_HEADER .. h + PAGE_SIZE - 1
    /\ \A b \in bs : (IF b.at \in DOMAIN s.mem THEN s.mem[b.at] ELSE NULL) = b.data

\* What a block occupies.
Occupies(s, b, h) ==
    /\ h \in Headers(s) /\ b.at \in Nat /\ b.size \in Nat /\ Base(b.at) \in Nat /\ b.at <= s.brk
    /\ Slot(s, h, Base(b.at)) /\ SlotSize(s, h) \in Nat
    /\ Base(b.at) <= b.at /\ b.at + b.size <= Base(b.at) + SlotSize(s, h)

\* A block is in its slot.
LEMMA BlockOccupies ==
    ASSUME NEW s, NEW bs, NEW H, Sound(s, bs, H), NEW b \in bs
    PROVE  \E h : Occupies(s, b, h)
<1>1. Layout(s)
  BY DEF Sound, Good
<1>2. PICK h : TakesPlace(s, h, Base(b.at), b.at) /\ b.size \in Nat /\ b.at + b.size <= Base(b.at) + SlotSize(s, h)
  BY DEF Sound, Fits
<1>3. Base(b.at) \in Nat /\ b.at \in Nat /\ Base(b.at) <= b.at /\ b.at <= s.brk
  BY <1>1, <1>2, BaseIs
<1>4. h \in Headers(s) /\ Slot(s, h, Base(b.at))
  BY <1>2 DEF TakesPlace
<1>5. SlotSize(s, h) \in Nat
  BY <1>1, <1>4, SlotFits
<1> QED BY <1>2, <1>3, <1>4, <1>5 DEF Occupies

\* Operations that keep the blocks of cs keep what is sure of them.
LEMMA KeptBlocks ==
    ASSUME NEW s, NEW bs, NEW H, Sound(s, bs, H), NEW t, NEW written, Keeps(s, t, written),
           NEW cs, cs \subseteq bs, \A b \in cs : b.at \notin written
    PROVE  BlocksOk(t, cs)
<1>1. Layout(s)
  BY DEF Sound, Good
<1>2. ASSUME NEW b \in cs, NEW c \in cs, b # c PROVE Span(b) \cap Span(c) = {}
  <2>1. PICK h : Occupies(s, b, h)
    BY BlockOccupies
  <2>2. PICK g : Occupies(s, c, g)
    BY BlockOccupies
  <2>3. b.at # c.at
    BY <1>2 DEF Sound
  <2>4. Base(b.at) # Base(c.at)
    BY <2>3 DEF Sound, Addresses
  <2>5. /\ Base(b.at) < Base(c.at) => Base(b.at) + SlotSize(s, h) <= Base(c.at)
        /\ Base(c.at) < Base(b.at) => Base(c.at) + SlotSize(s, g) <= Base(b.at)
    BY <1>1, <2>1, <2>2, SlotsApart DEF Occupies
  <2>6. PICK x \in Nat : x = b.at
    BY <2>1 DEF Occupies
  <2>7. PICK y \in Nat : y = c.at
    BY <2>2 DEF Occupies
  <2>8. PICK m1 \in Nat : m1 = b.size
    BY <2>1 DEF Occupies
  <2>9. PICK m2 \in Nat : m2 = c.size
    BY <2>2 DEF Occupies
  <2>10. x + m1 <= y \/ y + m2 <= x
    BY <2>1, <2>2, <2>4, <2>5, <2>6, <2>7, <2>8, <2>9 DEF Occupies
  <2>11. Span(b) = x .. x + m1 - 1 /\ Span(c) = y .. y + m2 - 1
    BY <2>6, <2>7, <2>8, <2>9 DEF Span
  <2> QED BY <2>10, <2>11
<1>3. ASSUME NEW b \in cs
      PROVE  \E h \in Headers(t) :
               Span(b) \subseteq IF IsBig(t, h) THEN h + BIG_HEADER .. h + BIG_HEADER + t.hdr[h].size - 1
                                 ELSE h + BIN_HEADER .. h + PAGE_SIZE - 1
  <2>1. PICK h : Occupies(s, b, h)
    BY BlockOccupies
  <2>2. h \in Headers(s) /\ h \in Headers(t) /\ t.hdr[h].size = s.hdr[h].size /\ (IsBig(t, h) <=> IsBig(s, h))
    BY <2>1 DEF Occupies, Keeps, IsBig
  <2>3. PICK x \in Nat : x = b.at
    BY <2>1 DEF Occupies
  <2>4. PICK n \in Nat : n = b.size
    BY <2>1 DEF Occupies
  <2>5. Span(b) = x .. x + n - 1
    BY <2>3, <2>4 DEF Span
  <2>6. h \in Nat /\ s.hdr[h].size \in Nat
    BY <1>1, <2>2 DEF Layout
  <2>7. CASE IsBig(s, h)
    <3>1. Base(b.at) = h + BIG_HEADER /\ SlotSize(s, h) = s.hdr[h].size
      BY <2>1, <2>7 DEF Occupies, Slot, SlotSize
    <3>2. h + BIG_HEADER <= x /\ x + n <= h + BIG_HEADER + s.hdr[h].size
      BY <2>1, <2>3, <2>4, <3>1 DEF Occupies
    <3>3. x .. x + n - 1 \subseteq h + BIG_HEADER .. h + BIG_HEADER + s.hdr[h].size - 1
      BY <2>6, <3>2, Constants
    <3> QED BY <2>2, <2>5, <2>7, <3>3
  <2>8. CASE ~IsBig(s, h)
    <3>1. h + BIN_HEADER <= Base(b.at) /\ Base(b.at) + SlotSize(s, h) <= h + PAGE_SIZE
      BY <1>1, <2>1, <2>8, SlotFits DEF Occupies, Length
    <3>2. h + BIN_HEADER <= x /\ x + n <= h + PAGE_SIZE
      BY <2>1, <2>3, <2>4, <2>6, <3>1, Constants DEF Occupies
    <3>3. x .. x + n - 1 \subseteq h + BIN_HEADER .. h + PAGE_SIZE - 1
      BY <2>6, <3>2, Constants
    <3> QED BY <2>2, <2>5, <2>8, <3>3
  <2> QED BY <2>7, <2>8
<1>4. ASSUME NEW b \in cs PROVE (IF b.at \in DOMAIN t.mem THEN t.mem[b.at] ELSE NULL) = b.data
  <2>1. b.at \in DOMAIN s.mem /\ s.mem[b.at] = b.data
    BY DEF Sound
  <2>2. b.at <= s.brk
    BY BlockOccupies DEF Occupies
  <2> QED BY <2>1, <2>2 DEF Keeps
<1> QED BY <1>2, <1>3, <1>4 DEF BlocksOk

\* In particular nothing has to happen.
LEMMA SoundBlocks ==
    ASSUME NEW s, NEW bs, NEW H, Sound(s, bs, H)
    PROVE  BlocksOk(s, bs)
<1>1. Keeps(s, s, {})
  BY DEF Keeps
<1> QED BY <1>1, KeptBlocks

\* A place and what it holds stay as they are.
LEMMA KeepsPlace ==
    ASSUME NEW s, NEW t, NEW written, Keeps(s, t, written), NEW h, NEW u, NEW a, TakesPlace(s, h, u, a)
    PROVE  TakesPlace(t, h, u, a) /\ SlotSize(t, h) = SlotSize(s, h)
<1>1. h \in Headers(s) /\ h \in Headers(t) /\ t.hdr[h].size = s.hdr[h].size
  BY DEF Keeps, TakesPlace
<1>2. IsBig(t, h) <=> IsBig(s, h)
  BY <1>1 DEF IsBig
<1> QED BY <1>1, <1>2 DEF TakesPlace, Slot, SlotSize

\* A block still fits where it did.
LEMMA KeepsFit ==
    ASSUME NEW s, NEW t, NEW written, Keeps(s, t, written), NEW a, NEW size, Fits(s, a, size)
    PROVE  Fits(t, a, size)
<1>1. PICK h : TakesPlace(s, h, Base(a), a) /\ size \in Nat /\ a + size <= Base(a) + SlotSize(s, h)
  BY DEF Fits
<1>2. TakesPlace(t, h, Base(a), a) /\ SlotSize(t, h) = SlotSize(s, h)
  BY <1>1, KeepsPlace
<1> QED BY <1>1, <1>2 DEF Fits

\* klmalloc gives the place of a to nobody else.
LEMMA TakeSound ==
    ASSUME NEW s, NEW bs, Sound(s, bs, {}), NEW t, Keeps(s, t, {}), NEW u, u \notin Places(Addresses(bs)),
           Good(t, Places(Addresses(bs)) \cup {u}), NEW h, NEW a, TakesPlace(t, h, u, a)
    PROVE  Sound(t, bs, {a})
<1>1. Layout(s) /\ Layout(t)
  BY DEF Sound, Good
<1>2. PICK A : A = Addresses(bs) /\ Addresses(bs) \cup {} = A
  OBVIOUS
<1>3. Base(a) = u
  BY <1>1, BaseIs
<1>4. \A c \in A : Base(c) \in Places(A)
  BY DEF Places
<1>5. a \notin A
  BY <1>2, <1>3, <1>4
<1>6. Places(A \cup {a}) = Places(A) \cup {u}
  BY <1>3 DEF Places
<1>7. \A c \in A \cup {a} : \E g : TakesPlace(t, g, Base(c), c)
  BY <1>2, <1>3, KeepsPlace DEF Sound
<1>8. \A c, d \in A \cup {a} : Base(c) = Base(d) => c = d
  BY <1>2, <1>3, <1>4 DEF Sound
<1>9. ASSUME NEW b \in bs PROVE Fits(t, b.at, b.size) /\ b.at \in DOMAIN t.mem /\ t.mem[b.at] = b.data
  <2>1. Fits(s, b.at, b.size) /\ b.at \in DOMAIN s.mem /\ s.mem[b.at] = b.data
    BY DEF Sound
  <2>2. b.at <= s.brk
    BY BlockOccupies DEF Occupies
  <2> QED BY <2>1, <2>2, KeepsFit DEF Keeps
<1>10. A \cap {a} = {} /\ \A b, c \in bs : b.at = c.at => b = c
  BY <1>5 DEF Sound
<1> QED BY <1>2, <1>6, <1>7, <1>8, <1>9, <1>10 DEF Sound

Write(s, a, v) == [s EXCEPT !.mem = Put(s.mem, a, v)]

\* The user of a place stores in it.
LEMMA WriteSound ==
    ASSUME NEW s, NEW bs, NEW H, Sound(s, bs, H), NEW a \in H, NEW v, NEW t, t = Write(s, a, v)
    PROVE  /\ Sound(t, bs, H) /\ a \in DOMAIN t.mem /\ t.mem[a] = v /\ t.status = s.status
           /\ \A c, size : Fits(s, c, size) => Fits(t, c, size)
<1>1. PICK A : A = Addresses(bs) \cup H
  OBVIOUS
<1>2. PICK U : U = Places(A)
  OBVIOUS
<1>3. Good(s, U) /\ Layout(s) /\ SmallOk(s, U) /\ BigOk(s, U) /\ IsState(s)
  BY <1>1, <1>2 DEF Sound, Good, Layout
<1>4. PICK h : TakesPlace(s, h, Base(a), a)
  BY DEF Sound
<1>5. /\ IsState(t) /\ t.brk = s.brk /\ t.hdr = s.hdr /\ t.first = s.first /\ t.fwd = s.fwd
      /\ t.level = s.level /\ t.newest = s.newest /\ t.status = s.status /\ t.mem = Put(s.mem, a, v)
  BY <1>3 DEF Write, IsState, Fields
<1>6. a \in DOMAIN t.mem /\ t.mem[a] = v /\ \A x \in DOMAIN s.mem : x # a => x \in DOMAIN t.mem /\ t.mem[x] = s.mem[x]
  BY <1>5 DEF Put
<1>7. Base(a) \in U /\ (a % PAGE_SIZE # 0 => a \in U)
  BY <1>1, <1>2, <1>3, <1>4, BaseIs DEF Places
<1>8. \A g \in Headers(s) : \A x : Slot(s, g, x) /\ x \notin U => x # a
  BY <1>3, <1>7, SlotFits
<1>9. SameHeaders(s, t)
  BY <1>3, <1>5 DEF SameHeaders, Layout, Headers
<1>10. /\ Layout(t) /\ BigOf(t) = BigOf(s) /\ \A b : SmallOf(t, b) = SmallOf(s, b)
       /\ \A g \in Headers(s) : (IsBig(t, g) <=> IsBig(s, g)) /\ \A u : Slot(t, g, u) <=> Slot(s, g, u)
  BY <1>3, <1>9, HeadersFrame
<1>11. Headers(t) = Headers(s)
  BY <1>5 DEF Headers
<1>12. ASSUME NEW g \in Headers(s), ~IsBig(s, g)
       PROVE  Stack(s.hdr[g].head, t.mem, CellsOf(g, s.hdr[g].size) \ U)
  <2>1. PICK S : S = CellsOf(g, s.hdr[g].size) \ U
    OBVIOUS
  <2>2. Stack(s.hdr[g].head, s.mem, S)
    BY <1>3, <1>12, <2>1 DEF SmallOk
  <2>3. \A x \in S : x \in DOMAIN s.mem /\ x # a
    BY <1>8, <1>12, <2>1, <2>2 DEF Stack, Slot
  <2>4. Stack(s.hdr[g].head, t.mem, S)
    BY <1>6, <2>2, <2>3, StackFrame
  <2> QED BY <2>1, <2>4
<1>13. SmallOk(t, U)
  BY <1>3, <1>5, <1>10, <1>11, <1>12 DEF SmallOk
<1>14. SkipOk(t, BigOf(s))
  BY <1>3, <1>5, BigSame DEF BigOk
<1>15. \A g \in BigOf(s) : s.hdr[g].head # NULL => g + BIG_HEADER \in DOMAIN t.mem /\ t.mem[g + BIG_HEADER] = NULL
  <2> SUFFICES ASSUME NEW g \in BigOf(s), s.hdr[g].head # NULL
               PROVE  g + BIG_HEADER \in DOMAIN t.mem /\ t.mem[g + BIG_HEADER] = NULL
    OBVIOUS
  <2>1. g + BIG_HEADER \notin U /\ g + BIG_HEADER \in DOMAIN s.mem /\ s.mem[g + BIG_HEADER] = NULL
    BY <1>3 DEF BigOk
  <2>2. g \in Headers(s) /\ Slot(s, g, g + BIG_HEADER)
    BY DEF BigOf, Slot
  <2> QED BY <1>6, <1>8, <2>1, <2>2
<1>16. BigOk(t, U)
  BY <1>3, <1>5, <1>10, <1>14, <1>15 DEF BigOk
<1>17. Good(t, U)
  BY <1>3, <1>10, <1>11, <1>13, <1>16 DEF Good
<1>18. Keeps(s, t, {a})
  BY <1>5, <1>6, <1>11 DEF Keeps
<1>19. \A c \in A : \E g : TakesPlace(t, g, Base(c), c)
  BY <1>1, <1>18, KeepsPlace DEF Sound
<1>20. \A c, size : Fits(s, c, size) => Fits(t, c, size)
  BY <1>18, KeepsFit
<1>21. \A b \in bs : b.at # a
  BY DEF Sound, Addresses
<1>22. \A b \in bs : Fits(t, b.at, b.size) /\ b.at \in DOMAIN t.mem /\ t.mem[b.at] = b.data
  BY <1>6, <1>20, <1>21 DEF Sound
<1>23. Sound(t, bs, H)
  BY <1>1, <1>2, <1>17, <1>19, <1>22 DEF Sound
<1> QED BY <1>5, <1>6, <1>20, <1>23

Without(bs, a) == {b \in bs : b.at # a}

\* The block at a is the user's, with another size if he had one there.
Hands(s, bs, H, a, size, cs) ==
    /\ Sound(s, bs, H) /\ a \in Addresses(bs) \cup H /\ Fits(s, a, size) /\ a \in DOMAIN s.mem
    /\ cs = Without(bs, a) \cup {[at |-> a, size |-> size, data |-> s.mem[a]]}

LEMMA HandSound ==
    ASSUME NEW s, NEW bs, NEW H, NEW a, NEW size, NEW cs, Hands(s, bs, H, a, size, cs)
    PROVE  Sound(s, cs, H \ {a}) /\ Addresses(cs) = Addresses(bs) \cup {a}
<1> USE DEF Hands
<1>1. PICK new : new = [at |-> a, size |-> size, data |-> s.mem[a]]
  OBVIOUS
<1>2. new.at = a /\ new.size = size /\ new.data = s.mem[a]
  BY <1>1
<1>3. cs = Without(bs, a) \cup {new}
  BY <1>1
<1>4. Addresses(cs) = Addresses(bs) \cup {a}
  <2>1. \A b \in cs : b.at \in Addresses(bs) \cup {a}
    BY <1>2, <1>3 DEF Without, Addresses
  <2>2. \A b \in bs : b.at = a \/ b \in cs
    BY <1>3 DEF Without
  <2>3. new \in cs
    BY <1>3
  <2>4. \A x \in Addresses(bs) \cup {a} : \E b \in cs : b.at = x
    BY <1>2, <2>2, <2>3 DEF Addresses
  <2>5. \A x \in Addresses(bs) \cup {a} : x \in Addresses(cs)
    BY <2>4 DEF Addresses
  <2>6. \A x \in Addresses(cs) : x \in Addresses(bs) \cup {a}
    <3> SUFFICES ASSUME NEW x \in Addresses(cs) PROVE x \in Addresses(bs) \cup {a}
      OBVIOUS
    <3>1. PICK b \in cs : x = b.at
      BY DEF Addresses
    <3> QED BY <2>1, <3>1
  <2> QED BY <2>5, <2>6
<1>5. Addresses(cs) \cup (H \ {a}) = Addresses(bs) \cup H
  BY <1>4
<1>6. Addresses(cs) \cap (H \ {a}) = {}
  BY <1>4 DEF Sound
<1>7. \A b, c \in cs : b.at = c.at => b = c
  BY <1>2, <1>3 DEF Sound, Without
<1>8. \A b \in cs : Fits(s, b.at, b.size) /\ b.at \in DOMAIN s.mem /\ s.mem[b.at] = b.data
  BY <1>2, <1>3 DEF Sound, Without
<1>9. Sound(s, cs, H \ {a})
  BY <1>5, <1>6, <1>7, <1>8 DEF Sound
<1> QED BY <1>4, <1>9

\* klfree takes the block at p, and nothing else.
LEMMA FreeSound ==
    ASSUME NEW s, NEW bs, NEW H, Sound(s, bs, H), s.status = "ok", NEW p \in Addresses(bs),
           NEW level \in Levels, NEW r, r = klfree(s, p, level)
    PROVE  /\ BlocksOk(r, Without(bs, p))
           /\ r.status = "ok" => Sound(r, Without(bs, p), H)
<1>1. PICK A : A = Addresses(bs) \cup H
  OBVIOUS
<1>2. PICK U : U = Places(A)
  OBVIOUS
<1>3. Good(s, U) /\ Layout(s)
  BY <1>1, <1>2 DEF Sound, Good
<1>4. PICK u : u = Base(p)
  OBVIOUS
<1>5. PICK h : TakesPlace(s, h, u, p)
  BY <1>4 DEF Sound
<1>6. u \in U
  BY <1>1, <1>2, <1>4 DEF Places
<1>7. Keeps(s, r, {u}) /\ (r.status = "ok" => Good(r, U \ {u}))
  BY <1>3, <1>5, <1>6, FreeKeeps
<1>8. Base(u) = u
  BY <1>3, <1>5, BaseIs
<1>9. \A a, c \in A : Base(a) = Base(c) => a = c
  BY <1>1 DEF Sound
<1>10. ASSUME NEW b \in Without(bs, p) PROVE b.at # u
  <2>1. b.at \in A /\ p \in A /\ b.at # p
    BY <1>1 DEF Without, Addresses
  <2>2. b.at = u => Base(b.at) = Base(p)
    BY <1>4, <1>8
  <2> QED BY <1>9, <2>1, <2>2
<1>11. Without(bs, p) \subseteq bs
  BY DEF Without
<1>12. BlocksOk(r, Without(bs, p))
  BY <1>7, <1>10, <1>11, KeptBlocks
<1>13. Addresses(Without(bs, p)) = Addresses(bs) \ {p}
  <2>1. \A x \in Addresses(bs) \ {p} : \E b \in Without(bs, p) : b.at = x
    BY DEF Addresses, Without
  <2>2. \A b \in Without(bs, p) : b.at \in Addresses(bs) \ {p}
    BY DEF Addresses, Without
  <2> QED BY <2>1, <2>2 DEF Addresses
<1>14. p \notin H /\ Addresses(Without(bs, p)) \cup H = A \ {p}
  BY <1>1, <1>13 DEF Sound
<1>15. Places(A \ {p}) = U \ {u}
  <2>1. \A a \in A \ {p} : Base(a) \in U \ {u}
    BY <1>1, <1>2, <1>4, <1>9 DEF Places
  <2>2. \A x \in U \ {u} : \E a \in A \ {p} : x = Base(a)
    BY <1>2, <1>4 DEF Places
  <2> QED BY <2>1, <2>2 DEF Places
<1>16. \A a \in A : \E g : TakesPlace(r, g, Base(a), a)
  BY <1>1, <1>7, KeepsPlace DEF Sound
<1>17. ASSUME NEW b \in Without(bs, p)
       PROVE  Fits(r, b.at, b.size) /\ b.at \in DOMAIN r.mem /\ r.mem[b.at] = b.data
  <2>1. Fits(s, b.at, b.size) /\ b.at \in DOMAIN s.mem /\ s.mem[b.at] = b.data
    BY <1>11 DEF Sound
  <2>2. b.at <= s.brk
    BY <1>11, BlockOccupies DEF Occupies
  <2>3. b.at # u
    BY <1>10
  <2> QED BY <1>7, <2>1, <2>2, <2>3, KeepsFit DEF Keeps
<1>18. Addresses(Without(bs, p)) \cap H = {} /\ \A b, c \in Without(bs, p) : b.at = c.at => b = c
  BY <1>11, <1>13 DEF Sound
<1>19. ASSUME r.status = "ok" PROVE Sound(r, Without(bs, p), H)
  BY <1>7, <1>9, <1>14, <1>15, <1>16, <1>17, <1>18, <1>19 DEF Sound
<1> QED BY <1>12, <1>19

-----------------------------------------------------------------------------
(* The spin lock.                                                          *)

\* What EXCEPT needs to know of the records of the threads, and no more.
ThreadFields == {"pc", "call", "ptr", "size", "found", "ret"}
Shape == DOMAIN thread = Threads /\ \A t \in Threads : DOMAIN thread[t] = ThreadFields

\* The lock is taken exactly when a thread works.
LockInv ==
    /\ Shape
    /\ mem_lock \in {0, 1}
    /\ \A t \in Threads : Working(t) => mem_lock = 1
    /\ OneThreadInside

\* The threads other than t stay where they are and t comes to pc.
Moves(t, pc) ==
    /\ thread'[t].pc = pc
    /\ \A u \in Threads : u # t => thread'[u] = thread[u]

\* A step that only moves t, and within the locked part when it starts there,
\* preserves the invariant as long as the lock stays as it is.
LEMMA InsideStep ==
    ASSUME LockInv, NEW t \in Threads, NEW pc \in {"relock", "enter", "take", "unlock"},
           Working(t), Moves(t, pc), Shape', mem_lock' = mem_lock
    PROVE  LockInv'
<1>1. \A u \in Threads : Working(u)' => Working(u)
  BY DEF Working, Moves
<1>2. OneThreadInside'
  BY <1>1 DEF LockInv, OneThreadInside
<1> QED BY <1>1, <1>2 DEF LockInv

\* A Step moves its thread,
LEMMA StepMoves ==
    ASSUME Shape, NEW t \in Threads, NEW pc, Step(t, pc)
    PROVE  Moves(t, pc) /\ Shape'
BY DEF Step, Moves, Shape, ThreadFields

\* and so does a Return.
LEMMA ReturnMoves ==
    ASSUME Shape, NEW t \in Threads, NEW r, Return(t, r)
    PROVE  Moves(t, "unlock") /\ Shape'
BY DEF Return, Moves, Shape, ThreadFields

\* A call does not touch the lock.
LEMMA CallKeeps ==
    ASSUME LockInv, NEW t \in Threads, NEW call, NEW ptr, NEW size, Call(t, call, ptr, size)
    PROVE  LockInv'
<1>1. Moves(t, "lock") /\ Shape'
  BY DEF Call, Moves, LockInv, Shape, ThreadFields, Idle
<1>2. \A u \in Threads : Working(u)' => Working(u)
  BY <1>1 DEF Moves, Working
<1>3. mem_lock' = mem_lock
  BY DEF Call
<1> QED BY <1>1, <1>2, <1>3 DEF LockInv, OneThreadInside

\* Whoever takes the lock was right to: nobody works.
LEMMA LockKeeps ==
    ASSUME LockInv, NEW t \in Threads, spin_lock(t)
    PROVE  LockInv'
<1>1. Moves(t, "enter") /\ Shape'
  BY StepMoves DEF spin_lock, LockInv
<1>2. mem_lock = 0 /\ mem_lock' = 1
  BY DEF spin_lock
<1>3. \A u \in Threads : ~Working(u)
  BY <1>2 DEF LockInv
<1>4. \A u \in Threads : Working(u)' => u = t
  BY <1>1, <1>3 DEF Moves, Working
<1> QED BY <1>1, <1>2, <1>4 DEF LockInv, OneThreadInside

\* Whoever gives it back was the only one.
LEMMA UnlockKeeps ==
    ASSUME LockInv, NEW t \in Threads, spin_unlock(t)
    PROVE  LockInv'
<1>1. Moves(t, "idle") /\ Shape'
  BY DEF spin_unlock, Moves, LockInv, Shape, ThreadFields, Idle
<1>2. \A u \in Threads : Working(u) => u = t
  BY DEF spin_unlock, LockInv, OneThreadInside, Working
<1>3. \A u \in Threads : ~Working(u)'
  BY <1>1, <1>2 DEF Moves, Working
<1>4. mem_lock' = 0
  BY DEF spin_unlock
<1> QED BY <1>1, <1>3, <1>4 DEF LockInv, OneThreadInside

\* All else happens while the lock is taken.
LEMMA WorkKeeps ==
    ASSUME LockInv, NEW t \in Threads, Free(t) \/ Reallocate(t) \/ Find(t) \/ Take(t)
    PROVE  LockInv'
<1>1. Working(t) /\ mem_lock' = mem_lock
  BY DEF Free, Reallocate, Find, Take, Working
<1>2. \E pc \in {"relock", "enter", "take", "unlock"} : Moves(t, pc) /\ Shape'
  <2>1. CASE Free(t)
    BY <2>1, ReturnMoves DEF Free, LockInv
  <2>2. CASE Reallocate(t)
    <3>1. CASE thread[t].size # 0
      BY <2>2, <3>1, ReturnMoves DEF Reallocate, LockInv
    <3>2. CASE thread[t].size = 0
      <4>1. thread' = [thread EXCEPT ![t].pc = "relock", ![t].call = "free"]
        BY <2>2, <3>2 DEF Reallocate
      <4> QED BY <4>1 DEF Moves, LockInv, Shape, ThreadFields
    <3> QED BY <3>1, <3>2
  <2>3. CASE Find(t)
    <3> DEFINE asked == Asked(thread[t].call, thread[t].size)
    <3>1. CASE asked = 0
      BY <2>3, <3>1, ReturnMoves DEF Find, LockInv
    <3>2. CASE asked # 0
      <4>1. PICK h : thread' = [thread EXCEPT ![t].pc = "take", ![t].found = h]
        BY <2>3, <3>2 DEF Find
      <4> QED BY <4>1 DEF Moves, LockInv, Shape, ThreadFields
    <3> QED BY <3>1, <3>2
  <2>4. CASE Take(t)
    <3>1. CASE thread' = thread
      BY <2>4, <3>1 DEF Take, Moves, LockInv, Shape
    <3>2. CASE thread' # thread
      <4>1. PICK r : Return(t, r)
        BY <2>4, <3>2 DEF Take
      <4> QED BY <4>1, ReturnMoves DEF LockInv
    <3> QED BY <3>1, <3>2
  <2> QED BY <2>1, <2>2, <2>3, <2>4
<1> QED BY <1>1, <1>2, InsideStep

\* So every step keeps it,
LEMMA NextKeepsLock ==
    ASSUME LockInv, [Next]_vars
    PROVE  LockInv'
<1>1. CASE Next
  <2>1. PICK t \in Threads : Begin(t) \/ Progress(t)
    BY <1>1 DEF Next
  <2>2. CASE Begin(t)
    BY <2>2, CallKeeps DEF Begin
  <2>3. CASE Progress(t)
    BY <2>3, LockKeeps, UnlockKeeps, WorkKeeps DEF Progress
  <2> QED BY <2>1, <2>2, <2>3
<1>2. CASE UNCHANGED vars
  BY <1>2 DEF vars, LockInv, Shape, OneThreadInside, Working
<1> QED BY <1>1, <1>2

\* and it holds at first.
LEMMA InitLock == Init => LockInv
BY DEF Init, LockInv, Shape, ThreadFields, Idle, OneThreadInside, Working

\* The spin lock keeps all threads but one out of klmalloc, klfree and the functions
\* around them, for every number of threads and whatever is in the memory.
THEOREM MutualExclusion == Spec => []OneThreadInside
<1>1. LockInv => OneThreadInside
  BY DEF LockInv
<1> QED BY <1>1, InitLock, NextKeepsLock, PTL DEF Spec

-----------------------------------------------------------------------------
(* The calls of the threads.                                               *)

\* A call as it can be under way without the situations it does not handle.
IsCall(r) ==
    /\ r.call \in Calls /\ r.size \in Nat
    /\ r.call = "calloc" => r.size < W
    /\ r.call \in {"malloc", "calloc", "valloc"} => r.ptr = NULL
    /\ r.call = "realloc" /\ r.ptr # NULL => r.ptr % PAGE_SIZE # 0

\* The place that a thread got is not yet a block.
IsFresh(r) == r.call \in {"malloc", "valloc"} \/ (r.call = "realloc" /\ r.ptr = NULL)
Holds(r) == r.pc = "unlock" /\ r.ret # NULL /\ (IsFresh(r) \/ r.call = "calloc")
HeldBy(r) == IF Holds(r) THEN {r.ret} ELSE {}
Held(th) == {th[t].ret : t \in {u \in Threads : Holds(th[u])}}

Returns(s, bs, r) ==
    /\ r.call # "free" /\ Fits(s, r.ret, r.size)
    /\ r.call = "calloc" => r.ret \in DOMAIN s.mem /\ s.mem[r.ret] = 0
    /\ ~Holds(r) => r.ret \in Addresses(bs)

ThreadOk(s, bs, r) ==
    /\ IsCall(r)
    /\ r.pc \in {"lock", "relock", "enter", "take"} /\ r.ptr # NULL => r.ptr \in Addresses(bs)
    /\ r.pc = "take" => /\ r.call # "free" /\ Asked(r.call, r.size) # 0
                        /\ FoundOk(s, Asked(r.call, r.size), r.found)
    /\ r.pc = "unlock" /\ r.ret # NULL => Returns(s, bs, r)

\* No two threads are about the same block.
Distinct(th) == \A t, u \in Threads :
    t # u /\ th[t].pc # "idle" /\ th[u].pc # "idle" /\ th[t].ptr # NULL => th[t].ptr # th[u].ptr

Consistent(s, bs, th) ==
    /\ Sound(s, bs, Held(th)) /\ Distinct(th)
    /\ \A t \in Threads : ThreadOk(s, bs, th[t])

HeapInv ==
    /\ LockInv
    /\ m.status = "ok" => Consistent(m, blocks, thread)
    /\ m.status # "ok" => BlocksOk(m, blocks)

\* Only t is inside, and the others wait or do not call.
Alone(th, t) == \A u \in Threads : u # t => th[u].pc \notin {"relock", "enter", "take", "unlock"}

\* That is what the lock is for.
LEMMA WorkerAlone ==
    ASSUME LockInv, NEW t \in Threads, Working(t)
    PROVE  Alone(thread, t)
BY DEF LockInv, OneThreadInside, Working, Alone

\* Then only t holds a place.
LEMMA HeldAlone ==
    ASSUME NEW th, NEW t \in Threads, Alone(th, t)
    PROVE  Held(th) = HeldBy(th[t])
<1>1. \A u \in Threads : Holds(th[u]) => u = t
  BY DEF Alone, Holds
<1>2. CASE Holds(th[t])
  <2>1. {u \in Threads : Holds(th[u])} = {t}
    BY <1>1, <1>2
  <2> QED BY <1>2, <2>1 DEF Held, HeldBy
<1>3. CASE ~Holds(th[t])
  <2>1. {u \in Threads : Holds(th[u])} = {}
    BY <1>1, <1>3
  <2> QED BY <1>3, <2>1 DEF Held, HeldBy
<1> QED BY <1>2, <1>3

\* What t has to see to when it works, so that all stays consistent.
Leads(s, bs, th, t, s2, bs2, th2) ==
    /\ t \in Threads /\ Consistent(s, bs, th) /\ Alone(th, t) /\ th[t].pc # "idle"
    /\ \A u \in Threads : u # t => th2[u] = th[u]
    /\ Sound(s2, bs2, HeldBy(th2[t])) /\ ThreadOk(s2, bs2, th2[t])
    /\ Addresses(bs) \ {th[t].ptr} \subseteq Addresses(bs2)
    /\ th2[t].ptr = th[t].ptr \/ th2[t].pc = "idle"

LEMMA WorkConsistent ==
    ASSUME NEW s, NEW bs, NEW th, NEW t, NEW s2, NEW bs2, NEW th2, Leads(s, bs, th, t, s2, bs2, th2)
    PROVE  Consistent(s2, bs2, th2)
<1> USE DEF Leads
<1>1. Alone(th2, t)
  BY DEF Alone
<1>2. Held(th2) = HeldBy(th2[t])
  BY <1>1, HeldAlone
<1>3. Distinct(th) /\ \A u \in Threads : ThreadOk(s, bs, th[u])
  BY DEF Consistent
<1>4. Distinct(th2)
  <2> SUFFICES ASSUME NEW v \in Threads, NEW u \in Threads, v # u, th2[v].pc # "idle", th2[u].pc # "idle",
                      th2[v].ptr # NULL
               PROVE  th2[v].ptr # th2[u].ptr
    BY DEF Distinct
  <2>1. th[v].pc # "idle" /\ th[u].pc # "idle" /\ th2[v].ptr = th[v].ptr /\ th2[u].ptr = th[u].ptr
    OBVIOUS
  <2> QED BY <1>3, <2>1 DEF Distinct
<1>5. ASSUME NEW u \in Threads, u # t PROVE ThreadOk(s2, bs2, th2[u])
  <2>1. th2[u] = th[u] /\ ThreadOk(s, bs, th[u]) /\ th[u].pc \notin {"relock", "enter", "take", "unlock"}
    BY <1>3, <1>5 DEF Alone
  <2>2. ASSUME th[u].pc = "lock", th[u].ptr # NULL PROVE th[u].ptr \in Addresses(bs2)
    <3>1. th[u].ptr # th[t].ptr
      BY <1>3, <1>5, <2>2 DEF Distinct
    <3> QED BY <2>1, <2>2, <3>1 DEF ThreadOk
  <2> QED BY <2>1, <2>2 DEF ThreadOk
<1> QED BY <1>2, <1>4, <1>5 DEF Consistent

\* The situations the theorem leaves out: a product of calloc beyond the width of a
\* word, and realloc of a block from valloc.
NoWrap == {"calloc_wrap", "realloc_valloc"} \cap Permitted = {}

\* A call comes with a block of somebody, and without the two situations.
LEMMA BeginCalls ==
    ASSUME NoWrap, NEW t \in Threads, Begin(t)
    PROVE  \E call, ptr, size :
             /\ Call(t, call, ptr, size)
             /\ ptr # NULL => ptr \in Addresses(blocks)
             /\ call \in Calls /\ size \in Nat
             /\ call = "calloc" => size < W
             /\ call \in {"malloc", "calloc", "valloc"} => ptr = NULL
             /\ call = "realloc" /\ ptr # NULL => ptr % PAGE_SIZE # 0
<1>1. /\ Sizes \subseteq Nat /\ ReallocSizes \subseteq Nat /\ CallocSizes \subseteq Nat
      /\ VallocSizes \subseteq Nat
  BY CallsAssumption
<1>2. "calloc_wrap" \notin Permitted /\ "realloc_valloc" \notin Permitted
  BY DEF NoWrap
<1>3. ASSUME NEW size \in CallocSizes, Call(t, "calloc", NULL, size) PROVE size < W
  BY <1>1, <1>2, <1>3, Constants DEF Call, Allow
<1>4. ASSUME NEW ptr, NEW size, Call(t, "realloc", ptr, size) PROVE ptr # NULL => ptr % PAGE_SIZE # 0
  BY <1>2, <1>4 DEF Call, Allow
<1>5. CASE \E size \in Sizes : Call(t, "malloc", NULL, size)
  BY <1>1, <1>5 DEF Calls
<1>6. CASE \E size \in CallocSizes : Call(t, "calloc", NULL, size)
  BY <1>1, <1>3, <1>6 DEF Calls
<1>7. CASE \E size \in VallocSizes : Call(t, "valloc", NULL, size)
  BY <1>1, <1>7 DEF Calls
<1>8. CASE \E ptr \in {NULL} \cup {b.at : b \in blocks} :
             Call(t, "free", ptr, 0) \/ \E size \in ReallocSizes : Call(t, "realloc", ptr, size)
  <2>1. PICK ptr \in {NULL} \cup Addresses(blocks) :
               Call(t, "free", ptr, 0) \/ \E size \in ReallocSizes : Call(t, "realloc", ptr, size)
    BY <1>8 DEF Addresses
  <2>2. CASE Call(t, "free", ptr, 0)
    BY <2>1, <2>2 DEF Calls
  <2>3. CASE \E size \in ReallocSizes : Call(t, "realloc", ptr, size)
    BY <1>1, <1>4, <2>1, <2>3 DEF Calls
  <2> QED BY <2>1, <2>2, <2>3
<1> QED BY <1>5, <1>6, <1>7, <1>8 DEF Begin

\* A call changes nothing but where its thread is.
LEMMA BeginConsistent ==
    ASSUME NoWrap, Shape, Consistent(m, blocks, thread), NEW t \in Threads, Begin(t)
    PROVE  Consistent(m, blocks, thread') /\ m' = m /\ blocks' = blocks /\ m.status = "ok"
<1>1. PICK call, ptr, size :
             /\ Call(t, call, ptr, size)
             /\ ptr # NULL => ptr \in Addresses(blocks)
             /\ call \in Calls /\ size \in Nat
             /\ call = "calloc" => size < W
             /\ call \in {"malloc", "calloc", "valloc"} => ptr = NULL
             /\ call = "realloc" /\ ptr # NULL => ptr % PAGE_SIZE # 0
  BY BeginCalls
<1>2. PICK th : th = thread
  OBVIOUS
<1>3. PICK r : r = [Idle EXCEPT !.pc = "lock", !.call = call, !.ptr = ptr, !.size = size]
  OBVIOUS
<1>4. thread' = [th EXCEPT ![t] = r] /\ th[t].pc = "idle" /\ m' = m /\ blocks' = blocks /\ m.status = "ok"
      /\ \A u \in Threads : ptr # NULL /\ th[u].pc # "idle" => th[u].ptr # ptr
  BY <1>1, <1>2, <1>3 DEF Call
<1>5. r.pc = "lock" /\ r.call = call /\ r.ptr = ptr /\ r.size = size
  BY <1>3 DEF Idle
<1>6. PICK th2 : th2 = thread'
  OBVIOUS
<1>7. th2[t] = r /\ \A u \in Threads : u # t => th2[u] = th[u]
  BY <1>2, <1>4, <1>6 DEF Shape
<1>8. \A u \in Threads : (Holds(th2[u]) <=> Holds(th[u])) /\ (Holds(th[u]) => th2[u].ret = th[u].ret)
  BY <1>4, <1>5, <1>7 DEF Holds
<1>9. Held(th2) = Held(th)
  <2>1. {u \in Threads : Holds(th2[u])} = {u \in Threads : Holds(th[u])}
    BY <1>8
  <2>2. \A u \in {v \in Threads : Holds(th[v])} : th2[u].ret = th[u].ret
    BY <1>8
  <2> QED BY <2>1, <2>2 DEF Held
<1>10. Distinct(th2)
  <2>1. Distinct(th)
    BY <1>2 DEF Consistent
  <2> SUFFICES ASSUME NEW v \in Threads, NEW u \in Threads, v # u, th2[v].pc # "idle", th2[u].pc # "idle",
                      th2[v].ptr # NULL
               PROVE  th2[v].ptr # th2[u].ptr
    BY DEF Distinct
  <2>2. CASE v = t
    BY <1>4, <1>5, <1>7, <2>2
  <2>3. CASE u = t
    BY <1>4, <1>5, <1>7, <2>3
  <2>4. CASE v # t /\ u # t
    BY <1>7, <2>1, <2>4 DEF Distinct
  <2> QED BY <2>2, <2>3, <2>4
<1>11. ThreadOk(m, blocks, r)
  BY <1>1, <1>5 DEF ThreadOk, IsCall
<1>12. \A u \in Threads : ThreadOk(m, blocks, th2[u])
  BY <1>2, <1>7, <1>11 DEF Consistent
<1>13. Sound(m, blocks, Held(th2))
  BY <1>2, <1>9 DEF Consistent
<1> QED BY <1>4, <1>6, <1>10, <1>12, <1>13 DEF Consistent

\* What the steps of a thread that works begin with.
Works(s, bs, th, t) ==
    /\ Consistent(s, bs, th) /\ Alone(th, t) /\ th[t].pc # "idle" /\ s.status = "ok"
    /\ DOMAIN th = Threads /\ DOMAIN th[t] = ThreadFields /\ t \in Threads

\* What such a thread knows of the allocator.
LEMMA WorkerSound ==
    ASSUME NEW s, NEW bs, NEW th, NEW t, Works(s, bs, th, t)
    PROVE  /\ Sound(s, bs, HeldBy(th[t])) /\ ThreadOk(s, bs, th[t]) /\ t \in Threads
           /\ Good(s, Places(Addresses(bs) \cup HeldBy(th[t]))) /\ Layout(s) /\ IsState(s)
           /\ \A a \in Addresses(bs) \cup HeldBy(th[t]) : a # NULL
<1>1. Sound(s, bs, HeldBy(th[t])) /\ ThreadOk(s, bs, th[t])
  BY HeldAlone DEF Works, Consistent
<1>2. Good(s, Places(Addresses(bs) \cup HeldBy(th[t]))) /\ Layout(s) /\ IsState(s)
  BY <1>1 DEF Sound, Good, Layout
<1>3. \A a \in Addresses(bs) \cup HeldBy(th[t]) : a # NULL
  BY <1>1, <1>2, BaseIs DEF Sound
<1> QED BY <1>1, <1>2, <1>3 DEF Works

After(s, bs, th) ==
    /\ s.status = "ok" => Consistent(s, bs, th)
    /\ s.status # "ok" => BlocksOk(s, bs)

\* A step of t that comes to "unlock" with the result ret.
LEMMA ReturnsWith ==
    ASSUME NEW th, NEW t \in Threads, DOMAIN th = Threads, DOMAIN th[t] = ThreadFields, NEW ret,
           NEW th2, th2 = [th EXCEPT ![t].pc = "unlock", ![t].ret = ret]
    PROVE  /\ \A u \in Threads : u # t => th2[u] = th[u]
           /\ th2[t].pc = "unlock" /\ th2[t].ret = ret /\ th2[t].call = th[t].call
           /\ th2[t].ptr = th[t].ptr /\ th2[t].size = th[t].size
BY DEF ThreadFields

\* A call that gives nothing back to its caller.
LEMMA ReturnNull ==
    ASSUME NEW s, NEW bs, NEW th, NEW t, Works(s, bs, th, t), HeldBy(th[t]) = {},
           NEW th2, th2 = [th EXCEPT ![t].pc = "unlock", ![t].ret = NULL],
           NEW s2, NEW bs2, s2.status = "ok" => Sound(s2, bs2, {}),
           Addresses(bs) \ {th[t].ptr} \subseteq Addresses(bs2), s2.status # "ok" => BlocksOk(s2, bs2)
    PROVE  After(s2, bs2, th2)
<1>1. t \in Threads /\ ThreadOk(s, bs, th[t])
  BY WorkerSound
<1>2. /\ \A u \in Threads : u # t => th2[u] = th[u]
      /\ th2[t].pc = "unlock" /\ th2[t].ret = NULL /\ th2[t].call = th[t].call
      /\ th2[t].ptr = th[t].ptr /\ th2[t].size = th[t].size
  BY <1>1, ReturnsWith DEF Works
<1>3. ThreadOk(s2, bs2, th2[t]) /\ HeldBy(th2[t]) = {}
  BY <1>1, <1>2 DEF ThreadOk, IsCall, HeldBy, Holds
<1>4. ASSUME s2.status = "ok" PROVE Consistent(s2, bs2, th2)
  <2>1. Sound(s2, bs2, HeldBy(th2[t]))
    BY <1>3, <1>4
  <2>2. Consistent(s, bs, th) /\ Alone(th, t) /\ th[t].pc # "idle"
    BY DEF Works
  <2>3. t \in Threads /\ ThreadOk(s2, bs2, th2[t]) /\ (\A u \in Threads : u # t => th2[u] = th[u])
        /\ th2[t].ptr = th[t].ptr /\ Addresses(bs) \ {th[t].ptr} \subseteq Addresses(bs2)
    BY <1>1, <1>2, <1>3
  <2>4. Leads(s, bs, th, t, s2, bs2, th2)
    BY <2>1, <2>2, <2>3 DEF Leads
  <2> QED BY <2>4, WorkConsistent
<1> QED BY <1>4 DEF After

\* A step of t that changes no more than where t is.
LEMMA StepConsistent ==
    ASSUME NEW s, NEW bs, NEW th, NEW t, Works(s, bs, th, t), NEW th2,
           \A u \in Threads : u # t => th2[u] = th[u],
           HeldBy(th2[t]) = HeldBy(th[t]), ThreadOk(s, bs, th2[t]), th2[t].ptr = th[t].ptr
    PROVE  After(s, bs, th2)
<1>1. t \in Threads /\ Sound(s, bs, HeldBy(th2[t])) /\ Addresses(bs) \ {th[t].ptr} \subseteq Addresses(bs)
  BY WorkerSound
<1>2. Leads(s, bs, th, t, s, bs, th2)
  BY <1>1 DEF Works, Leads
<1>3. Consistent(s, bs, th2)
  BY <1>2, WorkConsistent
<1> QED BY <1>3 DEF After, Works

\* spin_lock: the thread is inside.
LEMMA LockConsistent ==
    ASSUME NEW t, Works(m, blocks, thread, t), spin_lock(t)
    PROVE  After(m', blocks', thread')
<1>1. PICK s, bs, th : s = m /\ bs = blocks /\ th = thread
  OBVIOUS
<1>2. PICK th2 : th2 = thread'
  OBVIOUS
<1>3. Works(s, bs, th, t)
  BY <1>1
<1>4. th2 = [th EXCEPT ![t].pc = "enter"] /\ th[t].pc \in {"lock", "relock"} /\ m' = s /\ blocks' = bs
  BY <1>1, <1>2 DEF spin_lock, Step
<1>5. t \in Threads /\ DOMAIN th = Threads /\ DOMAIN th[t] = ThreadFields /\ ThreadOk(s, bs, th[t])
  BY <1>3, WorkerSound DEF Works
<1>6. /\ \A u \in Threads : u # t => th2[u] = th[u]
      /\ th2[t].pc = "enter" /\ th2[t].ret = th[t].ret /\ th2[t].call = th[t].call
      /\ th2[t].ptr = th[t].ptr /\ th2[t].size = th[t].size
  BY <1>4, <1>5 DEF ThreadFields
<1>7. ThreadOk(s, bs, th2[t])
  BY <1>4, <1>5, <1>6 DEF ThreadOk, IsCall
<1>8. HeldBy(th2[t]) = HeldBy(th[t])
  BY <1>4, <1>6 DEF HeldBy, Holds
<1>9. After(s, bs, th2)
  BY <1>3, <1>6, <1>7, <1>8, StepConsistent
<1> QED BY <1>2, <1>4, <1>9

\* klfree takes the block out, and NULL is no block.
LEMMA FreeConsistent ==
    ASSUME NEW t, Works(m, blocks, thread, t), Free(t)
    PROVE  After(m', blocks', thread')
<1>1. PICK s, bs, th : s = m /\ bs = blocks /\ th = thread
  OBVIOUS
<1>2. PICK s2, bs2, th2 : s2 = m' /\ bs2 = blocks' /\ th2 = thread'
  OBVIOUS
<1>3. Works(s, bs, th, t)
  BY <1>1
<1>4. PICK ptr : ptr = th[t].ptr
  OBVIOUS
<1>5. PICK level \in Levels : s2 = klfree(s, ptr, level)
  BY <1>1, <1>2, <1>4 DEF Free
<1>6. bs2 = Without(bs, ptr) /\ th2 = [th EXCEPT ![t].pc = "unlock", ![t].ret = NULL] /\ th[t].pc = "enter"
  BY <1>1, <1>2, <1>4 DEF Free, Without, Return
<1>7. HeldBy(th[t]) = {}
  BY <1>6 DEF HeldBy, Holds
<1>8. Sound(s, bs, {}) /\ (ptr # NULL => ptr \in Addresses(bs)) /\ \A a \in Addresses(bs) : a # NULL
  <2>1. /\ Sound(s, bs, HeldBy(th[t])) /\ ThreadOk(s, bs, th[t])
        /\ \A a \in Addresses(bs) \cup HeldBy(th[t]) : a # NULL
    BY <1>3, WorkerSound
  <2> QED BY <1>4, <1>6, <1>7, <2>1 DEF ThreadOk
<1>9. s.status = "ok"
  BY <1>3 DEF Works
<1>10. Addresses(bs) \ {ptr} \subseteq Addresses(bs2)
  BY <1>6 DEF Without, Addresses
<1>11. (s2.status = "ok" => Sound(s2, bs2, {})) /\ (s2.status # "ok" => BlocksOk(s2, bs2))
  <2>1. CASE ptr = NULL
    <3>1. s2 = s
      BY <1>5, <2>1 DEF klfree
    <3>2. bs2 = bs
      BY <1>6, <1>8, <2>1 DEF Without, Addresses
    <3> QED BY <1>8, <1>9, <3>1, <3>2
  <2>2. CASE ptr # NULL
    BY <1>5, <1>6, <1>8, <1>9, <2>2, FreeSound
  <2> QED BY <2>1, <2>2
<1>12. After(s2, bs2, th2)
  BY <1>3, <1>4, <1>6, <1>7, <1>10, <1>11, ReturnNull
<1> QED BY <1>2, <1>12

\* What klrealloc computes is the room of a block that is not from valloc.
LEMMA OldSizeIs ==
    ASSUME NEW h \in Headers(m), Layout(m)
    PROVE  OldSize(h) = SlotSize(m, h)
<1>1. m.hdr[h].size \in Nat /\ (IsBig(m, h) \/ m.hdr[h].size \in Bins)
  BY DEF Layout
<1>2. CASE IsBig(m, h)
  BY <1>1, <1>2, Constants DEF IsBig, OldSize, SlotSize
<1>3. CASE ~IsBig(m, h)
  BY <1>1, <1>3, Constants DEF Bins, OldSize, SlotSize
<1> QED BY <1>2, <1>3

\* klrealloc where the block is long enough, and where it frees it.
LEMMA ReallocateConsistent ==
    ASSUME NEW t, Works(m, blocks, thread, t), Reallocate(t)
    PROVE  After(m', blocks', thread') /\ m' = m
<1>1. PICK s, bs, th : s = m /\ bs = blocks /\ th = thread
  OBVIOUS
<1>2. PICK s2, th2 : s2 = m' /\ th2 = thread'
  OBVIOUS
<1>3. Works(s, bs, th, t)
  BY <1>1
<1>4. PICK ptr, size : ptr = th[t].ptr /\ size = th[t].size
  OBVIOUS
<1>5. /\ th[t].pc = "enter" /\ th[t].call = "realloc" /\ ptr # NULL /\ blocks' = bs
      /\ ~Resizable(ptr, size)
      /\ s2 = IF size # 0 /\ ~HasMagic(ptr) THEN Fail(s, "panic") ELSE s
      /\ IF size # 0 THEN Return(t, IF HasMagic(ptr) THEN ptr ELSE NULL)
         ELSE th2 = [th EXCEPT ![t].pc = "relock", ![t].call = "free"]
  BY <1>1, <1>2, <1>4 DEF Reallocate, Resizes
<1>6. /\ t \in Threads /\ DOMAIN th = Threads /\ DOMAIN th[t] = ThreadFields /\ ThreadOk(s, bs, th[t])
      /\ Sound(s, bs, HeldBy(th[t])) /\ Layout(s)
  BY <1>3, WorkerSound DEF Works
<1>7. HeldBy(th[t]) = {}
  BY <1>5 DEF HeldBy, Holds
<1>8. CASE size = 0
  <2>1. th2 = [th EXCEPT ![t].pc = "relock", ![t].call = "free"] /\ s2 = s
    BY <1>5, <1>8
  <2>2. /\ \A u \in Threads : u # t => th2[u] = th[u]
        /\ th2[t].pc = "relock" /\ th2[t].call = "free" /\ th2[t].ptr = th[t].ptr /\ th2[t].size = th[t].size
    BY <1>6, <2>1 DEF ThreadFields
  <2>3. ThreadOk(s, bs, th2[t]) /\ HeldBy(th2[t]) = {}
    BY <1>5, <1>6, <2>2 DEF ThreadOk, IsCall, Calls, HeldBy, Holds
  <2>4. After(s, bs, th2)
    BY <1>3, <1>7, <2>2, <2>3, StepConsistent
  <2> QED BY <1>1, <1>2, <1>5, <2>1, <2>4
<1>9. CASE size # 0
  <2>1. ptr \in Addresses(bs) /\ ptr % PAGE_SIZE # 0 /\ size \in Nat
    BY <1>4, <1>5, <1>6 DEF ThreadOk, IsCall
  <2>2. PICK h : TakesPlace(s, h, Base(ptr), ptr)
    BY <1>6, <2>1 DEF Sound
  <2>3. ptr = Base(ptr) /\ Page(ptr) = h
    BY <1>6, <2>1, <2>2, BaseIs
  <2>4. h \in Headers(s) /\ Slot(s, h, ptr)
    BY <2>2, <2>3 DEF TakesPlace
  <2>5. HasMagic(ptr)
    BY <1>1, <2>3, <2>4 DEF HasMagic, Headers
  <2>6. SlotSize(s, h) \in Nat /\ ptr \in Nat
    BY <1>6, <2>4, SlotFits
  <2>7. size <= SlotSize(s, h)
    <3>1. OldSize(h) = SlotSize(s, h)
      BY <1>1, <1>6, <2>4, OldSizeIs
    <3>2. ~(OldSize(h) < size)
      BY <1>5, <1>9, <2>3, <2>5 DEF Resizable
    <3> QED BY <2>1, <2>6, <3>1, <3>2
  <2>8. ptr + size <= ptr + SlotSize(s, h)
    BY <2>1, <2>6, <2>7
  <2>9. Fits(s, ptr, size)
    BY <2>1, <2>2, <2>3, <2>8 DEF Fits
  <2>10. s2 = s /\ th2 = [th EXCEPT ![t].pc = "unlock", ![t].ret = ptr]
    BY <1>1, <1>2, <1>5, <1>9, <2>5 DEF Return
  <2>11. /\ \A u \in Threads : u # t => th2[u] = th[u]
         /\ th2[t].pc = "unlock" /\ th2[t].ret = ptr /\ th2[t].call = th[t].call
         /\ th2[t].ptr = th[t].ptr /\ th2[t].size = th[t].size
    BY <1>6, <2>10, ReturnsWith
  <2>12. ~Holds(th2[t])
    BY <1>4, <1>5, <2>11 DEF Holds, IsFresh
  <2>13. ThreadOk(s, bs, th2[t])
    BY <1>4, <1>5, <1>6, <2>1, <2>9, <2>11, <2>12 DEF ThreadOk, IsCall, Returns
  <2>14. After(s, bs, th2)
    BY <1>3, <1>7, <2>11, <2>12, <2>13, StepConsistent DEF HeldBy
  <2> QED BY <1>1, <1>2, <1>5, <2>10, <2>14
<1> QED BY <1>8, <1>9

\* The first half of klmalloc changes nothing,
LEMMA FindConsistent ==
    ASSUME NEW t, Works(m, blocks, thread, t), Find(t)
    PROVE  After(m', blocks', thread')
<1>1. PICK s, bs, th : s = m /\ bs = blocks /\ th = thread
  OBVIOUS
<1>2. PICK th2 : th2 = thread'
  OBVIOUS
<1>3. Works(s, bs, th, t)
  BY <1>1
<1>4. PICK asked : asked = Asked(th[t].call, th[t].size)
  OBVIOUS
<1>5. /\ th[t].pc = "enter" /\ th[t].call # "free" /\ m' = s /\ blocks' = bs
      /\ IF asked = 0 THEN Return(t, NULL)
         ELSE th2 = [th EXCEPT ![t].pc = "take", ![t].found = BinHeader(s, asked)]
  BY <1>1, <1>2, <1>4 DEF Find
<1>6. /\ t \in Threads /\ DOMAIN th = Threads /\ DOMAIN th[t] = ThreadFields /\ ThreadOk(s, bs, th[t])
      /\ Sound(s, bs, HeldBy(th[t])) /\ Good(s, Places(Addresses(bs) \cup HeldBy(th[t])))
  BY <1>3, WorkerSound DEF Works
<1>7. HeldBy(th[t]) = {} /\ s.status = "ok"
  BY <1>3, <1>5 DEF HeldBy, Holds, Works
<1>8. CASE asked = 0
  <2>1. th2 = [th EXCEPT ![t].pc = "unlock", ![t].ret = NULL]
    BY <1>1, <1>2, <1>5, <1>8 DEF Return
  <2>2. After(s, bs, th2)
    BY <1>3, <1>6, <1>7, <2>1, ReturnNull
  <2> QED BY <1>2, <1>5, <2>2
<1>9. CASE asked # 0
  <2>1. PICK found : found = BinHeader(s, asked)
    OBVIOUS
  <2>2. FoundOk(s, asked, found)
    BY <1>6, <2>1, FindFinds
  <2>3. th2 = [th EXCEPT ![t].pc = "take", ![t].found = found]
    BY <1>5, <1>9, <2>1
  <2>4. /\ \A u \in Threads : u # t => th2[u] = th[u]
        /\ th2[t].pc = "take" /\ th2[t].found = found /\ th2[t].call = th[t].call
        /\ th2[t].ptr = th[t].ptr /\ th2[t].size = th[t].size
    BY <1>6, <2>3 DEF ThreadFields
  <2>5. ThreadOk(s, bs, th2[t]) /\ HeldBy(th2[t]) = {}
    BY <1>4, <1>5, <1>6, <1>9, <2>2, <2>4 DEF ThreadOk, IsCall, HeldBy, Holds
  <2>6. After(s, bs, th2)
    BY <1>3, <1>7, <2>4, <2>5, StepConsistent
  <2> QED BY <1>2, <1>5, <2>6
<1> QED BY <1>8, <1>9

\* The sizes asked for are those of the callers, as no product wraps.
LEMMA AskedIs ==
    ASSUME NEW r, IsCall(r)
    PROVE  /\ Asked(r.call, r.size) \in Nat
           /\ r.call = "valloc" => Asked(r.call, r.size) = r.size + PAGE_SIZE - BIG_HEADER
           /\ r.call # "valloc" => Asked(r.call, r.size) = r.size
<1>1. r.size \in Nat /\ W \in Nat /\ MAX \in Nat /\ W > MAX
  BY LayoutAssumption DEF IsCall
<1>2. CASE r.call = "calloc"
  <2>1. r.size \in 0 .. W - 1
    BY <1>1, <1>2 DEF IsCall
  <2>2. r.size % W = r.size
    BY <1>1, <2>1
  <2> QED BY <1>1, <1>2, <2>2 DEF Asked
<1>3. CASE r.call # "calloc"
  BY <1>1, <1>3, Constants DEF Asked
<1> QED BY <1>2, <1>3

\* The step that comes to "unlock" with a place that nobody has yet.
GotPlace(s, bs, th, t, a, s2, th2) ==
    /\ Works(s, bs, th, t) /\ a # NULL
    /\ th2 = [th EXCEPT ![t].pc = "unlock", ![t].ret = a]
    /\ s2.status = "ok" /\ Sound(s2, bs, {a}) /\ Fits(s2, a, th[t].size) /\ th[t].call # "free"
    /\ IsFresh(th[t]) \/ (th[t].call = "calloc" /\ a \in DOMAIN s2.mem /\ s2.mem[a] = 0)

LEMMA ReturnPlace ==
    ASSUME NEW s, NEW bs, NEW th, NEW t, NEW a, NEW s2, NEW th2, GotPlace(s, bs, th, t, a, s2, th2)
    PROVE  After(s2, bs, th2)
<1> USE DEF GotPlace
<1>1. t \in Threads /\ ThreadOk(s, bs, th[t])
  BY WorkerSound
<1>2. /\ \A u \in Threads : u # t => th2[u] = th[u]
      /\ th2[t].pc = "unlock" /\ th2[t].ret = a /\ th2[t].call = th[t].call
      /\ th2[t].ptr = th[t].ptr /\ th2[t].size = th[t].size
  BY <1>1, ReturnsWith DEF Works
<1>3. Holds(th2[t]) /\ HeldBy(th2[t]) = {a}
  BY <1>2 DEF HeldBy, Holds, IsFresh
<1>4. Returns(s2, bs, th2[t])
  BY <1>2, <1>3 DEF Returns, IsFresh
<1>5. ThreadOk(s2, bs, th2[t])
  BY <1>1, <1>2, <1>4 DEF ThreadOk, IsCall
<1>6. Leads(s, bs, th, t, s2, bs, th2)
  BY <1>1, <1>2, <1>3, <1>5 DEF Works, Leads
<1>7. Consistent(s2, bs, th2)
  BY <1>6, WorkConsistent
<1> QED BY <1>7 DEF After

\* klmalloc gives a place for what was asked, at the beginning of a slot or, to valloc,
\* at the next page.
LEMMA PlaceIs ==
    ASSUME NEW s, NEW bs, Sound(s, bs, {}), NEW asked \in Nat, NEW r,
           Gives(s, Places(Addresses(bs)), asked, r), r.m.status = "ok"
    PROVE  /\ Sound(r.m, bs, {r.at}) /\ r.at # NULL
           /\ \A size \in Nat : size <= asked => Fits(r.m, r.at, size)
           /\ \A size \in Nat : asked = size + PAGE_SIZE - BIG_HEADER =>
                LET a == r.at + PAGE_SIZE - BIG_HEADER
                IN  Sound(r.m, bs, {a}) /\ a # NULL /\ Fits(r.m, a, size)
<1>1. PICK s2, u : s2 = r.m /\ u = r.at
  OBVIOUS
<1>2. PICK U : U = Places(Addresses(bs))
  OBVIOUS
<1>3. Keeps(s, s2, {}) /\ Good(s2, U \cup {u}) /\ u \notin U /\ Layout(s2)
  BY <1>1, <1>2 DEF Gives, Good
<1>4. PICK h \in Headers(s2) : /\ Slot(s2, h, u) /\ asked <= SlotSize(s2, h)
                               /\ 2 * asked > PAGE_SIZE => IsBig(s2, h)
  BY <1>1 DEF Gives
<1>5. TakesPlace(s2, h, u, u)
  BY <1>4 DEF TakesPlace
<1>6. u \in Nat /\ SlotSize(s2, h) \in Nat /\ h \in Nat
  BY <1>3, <1>4, SlotFits DEF Layout
<1>7. Base(u) = u /\ u # NULL
  BY <1>3, <1>5, BaseIs
<1>8. Sound(s2, bs, {u})
  BY <1>2, <1>3, <1>5, TakeSound
<1>9. ASSUME NEW size \in Nat, size <= asked PROVE Fits(s2, u, size)
  <2>1. u + size <= u + SlotSize(s2, h)
    BY <1>4, <1>6, <1>9
  <2> QED BY <1>5, <1>7, <2>1 DEF Fits
<1>10. ASSUME NEW size \in Nat, asked = size + PAGE_SIZE - BIG_HEADER, NEW a, a = u + PAGE_SIZE - BIG_HEADER
       PROVE  Sound(s2, bs, {a}) /\ a # NULL /\ Fits(s2, a, size)
  <2>1. 2 * asked > PAGE_SIZE
    BY <1>10, Constants
  <2>2. IsBig(s2, h) /\ u = h + BIG_HEADER
    BY <1>4, <2>1 DEF Slot
  <2>3. a = h + PAGE_SIZE
    BY <1>6, <1>10, <2>2, Constants
  <2>4. TakesPlace(s2, h, u, a)
    BY <1>4, <2>2, <2>3 DEF TakesPlace
  <2>5. Base(a) = u /\ a # NULL
    BY <1>3, <2>4, BaseIs
  <2>6. Sound(s2, bs, {a})
    BY <1>2, <1>3, <2>4, TakeSound
  <2>7. a + size <= u + SlotSize(s2, h)
    BY <1>4, <1>6, <1>10, Constants
  <2> QED BY <2>4, <2>5, <2>6, <2>7 DEF Fits
<1> QED BY <1>1, <1>7, <1>8, <1>9, <1>10

\* klrealloc with a new place: the content is copied and the old block is freed.
Moved(s, bs, u, size, old, data, s2, bs2) ==
    /\ Sound(s, bs, {u}) /\ s.status = "ok" /\ Fits(s, u, size) /\ old \in Addresses(bs)
    /\ \E level \in Levels : s2 = klfree(Write(s, u, data), old, level)
    /\ bs2 = Without(bs, old) \cup {[at |-> u, size |-> size, data |-> data]}

LEMMA MoveSound ==
    ASSUME NEW s, NEW bs, NEW u, NEW size, NEW old, NEW data, NEW s2, NEW bs2,
           Moved(s, bs, u, size, old, data, s2, bs2)
    PROVE  /\ BlocksOk(s2, bs2)
           /\ s2.status = "ok" => Sound(s2, bs2, {}) /\ Fits(s2, u, size) /\ u \in Addresses(bs2)
           /\ Addresses(bs) \ {old} \subseteq Addresses(bs2)
<1> USE DEF Moved
<1>1. PICK copied : copied = Write(s, u, data)
  OBVIOUS
<1>2. /\ Sound(copied, bs, {u}) /\ u \in DOMAIN copied.mem /\ copied.mem[u] = data
      /\ copied.status = "ok" /\ Fits(copied, u, size)
  BY <1>1, WriteSound
<1>3. PICK new : new = [at |-> u, size |-> size, data |-> data]
  OBVIOUS
<1>4. new.at = u /\ new.size = size
  BY <1>3
<1>5. PICK cs : cs = Without(bs, u) \cup {new}
  OBVIOUS
<1>6. Sound(copied, cs, {}) /\ Addresses(cs) = Addresses(bs) \cup {u}
  <2>1. {u} \ {u} = {} /\ u \in Addresses(bs) \cup {u}
    OBVIOUS
  <2>2. cs = Without(bs, u) \cup {[at |-> u, size |-> size, data |-> copied.mem[u]]}
    BY <1>2, <1>3, <1>5
  <2>3. Sound(copied, cs, {u} \ {u}) /\ Addresses(cs) = Addresses(bs) \cup {u}
    <3>1. Hands(copied, bs, {u}, u, size, cs)
      BY <1>2, <2>1, <2>2 DEF Hands
    <3> QED BY <3>1, HandSound
  <2> QED BY <2>1, <2>3
<1>7. u \notin Addresses(bs) /\ u # old
  BY DEF Sound
<1>8. Without(cs, old) = bs2
  <2>1. \A b \in bs : b.at # u
    BY <1>7 DEF Addresses
  <2> QED BY <1>3, <1>4, <1>5, <1>7, <2>1 DEF Without
<1>9. BlocksOk(s2, Without(cs, old)) /\ (s2.status = "ok" => Sound(s2, Without(cs, old), {}))
  BY <1>1, <1>2, <1>6, FreeSound
<1>10. new \in bs2
  BY <1>3
<1>11. u \in Addresses(bs2)
  BY <1>4, <1>10 DEF Addresses
<1>12. s2.status = "ok" => Fits(s2, u, size)
  BY <1>4, <1>8, <1>9, <1>10 DEF Sound
<1>13. Addresses(bs) \ {old} \subseteq Addresses(bs2)
  BY DEF Without, Addresses
<1> QED BY <1>8, <1>9, <1>11, <1>12, <1>13

\* What the history says of a block is in the memory.
LEMMA BlockIs ==
    ASSUME Sound(m, blocks, {}), NEW a \in Addresses(blocks)
    PROVE  Block(a) \in blocks /\ Block(a).at = a /\ a \in DOMAIN m.mem /\ m.mem[a] = Block(a).data
<1>1. \E b \in blocks : b.at = a
  BY DEF Addresses
<1>2. Block(a) \in blocks /\ Block(a).at = a
  BY <1>1, Zenon DEF Block
<1> QED BY <1>2 DEF Sound

\* and the second half takes a place, which each function treats in its way.
LEMMA TakeConsistent ==
    ASSUME NEW t, Works(m, blocks, thread, t), Take(t)
    PROVE  After(m', blocks', thread')
<1>1. PICK s, bs, th : s = m /\ bs = blocks /\ th = thread
  OBVIOUS
<1>2. PICK s2, bs2, th2 : s2 = m' /\ bs2 = blocks' /\ th2 = thread'
  OBVIOUS
<1>3. Works(s, bs, th, t)
  BY <1>1
<1>4. PICK asked, size, call, old : asked = Asked(call, size) /\ size = th[t].size /\ call = th[t].call /\ old = th[t].ptr
  OBVIOUS
<1>5. PICK r : r = klmalloc(s, asked, th[t].found)
  OBVIOUS
<1>6. PICK copied : copied = Write(r.m, r.at, Content(old))
  OBVIOUS
<1>7. /\ th[t].pc = "take"
      /\ r.m.status # "ok" => s2 = r.m /\ th2 = th /\ bs2 = bs
      /\ r.m.status = "ok" /\ call = "valloc" =>
           s2 = r.m /\ Return(t, r.at + PAGE_SIZE - BIG_HEADER) /\ bs2 = bs
      /\ r.m.status = "ok" /\ call = "calloc" =>
           s2 = Write(r.m, r.at, 0) /\ Return(t, r.at) /\ bs2 = bs
      /\ r.m.status = "ok" /\ call \notin {"valloc", "calloc"} /\ Resizes(t) =>
           /\ \E level \in Levels : s2 = klfree(copied, old, level)
           /\ bs2 = Without(bs, old) \cup {[at |-> r.at, size |-> size, data |-> Block(old).data]}
           /\ Return(t, r.at)
      /\ r.m.status = "ok" /\ call \notin {"valloc", "calloc"} /\ ~Resizes(t) =>
           s2 = r.m /\ Return(t, r.at) /\ bs2 = bs
  <2>1. th[t].pc = "take"
    BY <1>1 DEF Take
  <2>2. ASSUME r.m.status # "ok" PROVE s2 = r.m /\ th2 = th /\ bs2 = bs
    BY <1>1, <1>2, <1>4, <1>5, <2>2 DEF Take
  <2>3. ASSUME r.m.status = "ok", call = "valloc"
        PROVE  s2 = r.m /\ Return(t, r.at + PAGE_SIZE - BIG_HEADER) /\ bs2 = bs
    BY <1>1, <1>2, <1>4, <1>5, <2>3 DEF Take, Resizes
  <2>4. ASSUME r.m.status = "ok", call = "calloc" PROVE s2 = Write(r.m, r.at, 0) /\ Return(t, r.at) /\ bs2 = bs
    BY <1>1, <1>2, <1>4, <1>5, <2>4 DEF Take, Write, Resizes
  <2>5. ASSUME r.m.status = "ok", call \notin {"valloc", "calloc"}, Resizes(t)
        PROVE  /\ \E level \in Levels : s2 = klfree(copied, old, level)
               /\ bs2 = Without(bs, old) \cup {[at |-> r.at, size |-> size, data |-> Block(old).data]}
               /\ Return(t, r.at)
    BY <1>1, <1>2, <1>4, <1>5, <1>6, <2>5 DEF Take, Write, Without
  <2>6. ASSUME r.m.status = "ok", call \notin {"valloc", "calloc"}, ~Resizes(t)
        PROVE  s2 = r.m /\ Return(t, r.at) /\ bs2 = bs
    BY <1>1, <1>2, <1>4, <1>5, <2>6 DEF Take
  <2> QED BY <2>1, <2>2, <2>3, <2>4, <2>5, <2>6
<1>8. \A a : Return(t, a) => th2 = [th EXCEPT ![t].pc = "unlock", ![t].ret = a]
  BY <1>1, <1>2 DEF Return
<1>9. /\ t \in Threads /\ DOMAIN th = Threads /\ DOMAIN th[t] = ThreadFields /\ ThreadOk(s, bs, th[t])
      /\ s.status = "ok" /\ IsCall(th[t]) /\ call # "free" /\ asked # 0 /\ FoundOk(s, asked, th[t].found)
  BY <1>3, <1>4, <1>7, WorkerSound DEF Works, ThreadOk
<1>10. HeldBy(th[t]) = {}
  BY <1>7 DEF HeldBy, Holds
<1>11. Sound(s, bs, {}) /\ Good(s, Places(Addresses(bs)))
  <2>1. Addresses(bs) \cup {} = Addresses(bs)
    OBVIOUS
  <2> QED BY <1>3, <1>10, <2>1, WorkerSound
<1>12. /\ asked \in Nat /\ size \in Nat
       /\ call = "valloc" => asked = size + PAGE_SIZE - BIG_HEADER
       /\ call # "valloc" => asked = size
  BY <1>4, <1>9, AskedIs DEF IsCall
<1>13. Gives(s, Places(Addresses(bs)), asked, r)
  BY <1>5, <1>9, <1>11, <1>12, KlmallocGives
<1>14. CASE r.m.status # "ok"
  <2>1. s2 = r.m /\ th2 = th /\ bs2 = bs
    BY <1>7, <1>14
  <2>2. Keeps(s, s2, {})
    BY <1>13, <2>1 DEF Gives
  <2>3. BlocksOk(s2, bs)
    BY <1>11, <2>2, KeptBlocks
  <2> QED BY <1>2, <1>14, <2>1, <2>3 DEF After
<1>15. CASE r.m.status = "ok"
  <2>1. PICK u : u = r.at
    OBVIOUS
  <2>2. /\ Sound(r.m, bs, {u}) /\ u # NULL
        /\ \A n \in Nat : n <= asked => Fits(r.m, u, n)
        /\ \A n \in Nat : asked = n + PAGE_SIZE - BIG_HEADER =>
             LET a == u + PAGE_SIZE - BIG_HEADER
             IN  Sound(r.m, bs, {a}) /\ a # NULL /\ Fits(r.m, a, n)
    BY <1>11, <1>12, <1>13, <1>15, <2>1, PlaceIs
  <2>3. call # "valloc" => Fits(r.m, u, size)
    BY <1>12, <2>2
  <2>4. CASE call = "valloc"
    <3>1. PICK a : a = u + PAGE_SIZE - BIG_HEADER
      OBVIOUS
    <3>2. s2 = r.m /\ th2 = [th EXCEPT ![t].pc = "unlock", ![t].ret = a] /\ bs2 = bs
      <4>1. s2 = r.m /\ Return(t, r.at + PAGE_SIZE - BIG_HEADER) /\ bs2 = bs
        BY <1>7, <1>15, <2>4
      <4>2. a = r.at + PAGE_SIZE - BIG_HEADER
        BY <2>1, <3>1
      <4> QED BY <1>8, <4>1, <4>2
    <3>3. Sound(s2, bs, {a}) /\ a # NULL /\ Fits(s2, a, th[t].size) /\ s2.status = "ok"
      BY <1>4, <1>12, <1>15, <2>2, <2>4, <3>1, <3>2
    <3>4. IsFresh(th[t])
      BY <1>4, <2>4 DEF IsFresh
    <3>5. GotPlace(s, bs, th, t, a, s2, th2)
      BY <1>3, <1>4, <1>9, <3>2, <3>3, <3>4 DEF GotPlace
    <3>6. After(s2, bs, th2)
      BY <3>5, ReturnPlace
    <3> QED BY <1>2, <3>2, <3>6
  <2>5. CASE call = "calloc"
    <3>1. s2 = Write(r.m, u, 0) /\ th2 = [th EXCEPT ![t].pc = "unlock", ![t].ret = u] /\ bs2 = bs
      <4>1. s2 = Write(r.m, r.at, 0) /\ Return(t, r.at) /\ bs2 = bs
        BY <1>7, <1>15, <2>5
      <4> QED BY <1>8, <2>1, <4>1
    <3>2. Fits(r.m, u, th[t].size)
      BY <1>4, <2>3, <2>5
    <3>3. /\ Sound(s2, bs, {u}) /\ u \in DOMAIN s2.mem /\ s2.mem[u] = 0 /\ s2.status = "ok"
          /\ Fits(s2, u, th[t].size)
      BY <1>15, <2>2, <3>1, <3>2, WriteSound
    <3>4. GotPlace(s, bs, th, t, u, s2, th2)
      BY <1>3, <1>4, <1>9, <2>2, <2>5, <3>1, <3>3 DEF GotPlace
    <3>5. After(s2, bs, th2)
      BY <3>4, ReturnPlace
    <3> QED BY <1>2, <3>1, <3>5
  <2>6. CASE call \notin {"valloc", "calloc"} /\ Resizes(t)
    <3>1. PICK data : data = Block(old).data
      OBVIOUS
    <3>2. /\ \E level \in Levels : s2 = klfree(copied, old, level)
          /\ bs2 = Without(bs, old) \cup {[at |-> u, size |-> size, data |-> data]}
          /\ th2 = [th EXCEPT ![t].pc = "unlock", ![t].ret = u]
      BY <1>7, <1>8, <1>15, <2>1, <2>6, <3>1
    <3>3. old # NULL /\ call = "realloc" /\ old \in Addresses(bs)
      BY <1>1, <1>4, <1>7, <1>9, <2>6 DEF Resizes, ThreadOk
    <3>4. Content(old) = data
      BY <1>1, <1>11, <3>1, <3>3, BlockIs DEF Content
    <3>5. PICK level \in Levels : s2 = klfree(Write(r.m, u, data), old, level)
      BY <1>6, <2>1, <3>2, <3>4
    <3>6. PICK w : w = r.m
      OBVIOUS
    <3>7. /\ BlocksOk(s2, bs2) /\ Addresses(bs) \ {old} \subseteq Addresses(bs2)
          /\ s2.status = "ok" => Sound(s2, bs2, {}) /\ Fits(s2, u, size) /\ u \in Addresses(bs2)
      <4>1. Sound(w, bs, {u}) /\ w.status = "ok" /\ Fits(w, u, size)
        BY <1>15, <2>2, <2>3, <2>6, <3>6
      <4>2. s2 = klfree(Write(w, u, data), old, level)
        BY <3>5, <3>6
      <4>3. Moved(w, bs, u, size, old, data, s2, bs2)
        BY <3>2, <3>3, <4>1, <4>2 DEF Moved
      <4> QED BY <4>3, MoveSound
    <3>8. /\ \A v \in Threads : v # t => th2[v] = th[v]
          /\ th2[t].pc = "unlock" /\ th2[t].ret = u /\ th2[t].call = th[t].call
          /\ th2[t].ptr = th[t].ptr /\ th2[t].size = th[t].size
      BY <1>9, <3>2, ReturnsWith
    <3>9. ~Holds(th2[t]) /\ HeldBy(th2[t]) = {}
      BY <1>4, <3>3, <3>8 DEF Holds, IsFresh, HeldBy
    <3>10. ASSUME s2.status = "ok" PROVE Consistent(s2, bs2, th2)
      <4>1. Returns(s2, bs2, th2[t])
        BY <1>4, <3>3, <3>7, <3>8, <3>9, <3>10 DEF Returns
      <4>2. ThreadOk(s2, bs2, th2[t])
        BY <1>9, <3>8, <4>1 DEF ThreadOk, IsCall
      <4>3. Leads(s, bs, th, t, s2, bs2, th2)
        BY <1>3, <1>4, <1>9, <3>7, <3>8, <3>9, <3>10, <4>2 DEF Works, Leads
      <4> QED BY <4>3, WorkConsistent
    <3> QED BY <1>2, <3>7, <3>10 DEF After
  <2>7. CASE call \notin {"valloc", "calloc"} /\ ~Resizes(t)
    <3>1. s2 = r.m /\ th2 = [th EXCEPT ![t].pc = "unlock", ![t].ret = u] /\ bs2 = bs
      BY <1>7, <1>8, <1>15, <2>1, <2>7
    <3>2. IsFresh(th[t])
      BY <1>1, <1>4, <1>9, <2>7 DEF IsFresh, Resizes, IsCall, Calls
    <3>3. Sound(s2, bs, {u}) /\ Fits(s2, u, th[t].size) /\ s2.status = "ok"
      BY <1>4, <1>15, <2>2, <2>3, <2>7, <3>1
    <3>4. GotPlace(s, bs, th, t, u, s2, th2)
      BY <1>3, <1>4, <1>9, <2>2, <3>1, <3>2, <3>3 DEF GotPlace
    <3>5. After(s2, bs, th2)
      BY <3>4, ReturnPlace
    <3> QED BY <1>2, <3>1, <3>5
  <2> QED BY <2>4, <2>5, <2>6, <2>7
<1> QED BY <1>14, <1>15

\* The caller gets what he asked for.
LEMMA UnlockConsistent ==
    ASSUME NEW t, Works(m, blocks, thread, t), spin_unlock(t)
    PROVE  After(m', blocks', thread')
<1>1. PICK s, bs, th : s = m /\ bs = blocks /\ th = thread
  OBVIOUS
<1>2. PICK s2, bs2, th2 : s2 = m' /\ bs2 = blocks' /\ th2 = thread'
  OBVIOUS
<1>3. Works(s, bs, th, t)
  BY <1>1
<1>4. PICK a, size, call : a = th[t].ret /\ size = th[t].size /\ call = th[t].call
  OBVIOUS
<1>5. PICK r : r = Result(t)
  OBVIOUS
<1>6. r = [at |-> a, size |-> size,
           data |-> IF call = "calloc" THEN 0 ELSE IF IsFresh(th[t]) THEN t ELSE Block(a).data]
  BY <1>1, <1>4, <1>5 DEF Result, Fresh, IsFresh
<1>7. /\ th[t].pc = "unlock" /\ th2 = [th EXCEPT ![t] = Idle]
      /\ bs2 = IF a = NULL THEN bs ELSE Without(bs, a) \cup {r}
      /\ s2 = IF a # NULL /\ IsFresh(th[t]) THEN Write(s, a, t) ELSE s
  BY <1>1, <1>2, <1>4, <1>5 DEF spin_unlock, Fresh, IsFresh, Write, Without
<1>8. /\ t \in Threads /\ DOMAIN th = Threads /\ ThreadOk(s, bs, th[t]) /\ s.status = "ok"
      /\ Sound(s, bs, HeldBy(th[t]))
  BY <1>3, WorkerSound DEF Works
<1>9. /\ \A u \in Threads : u # t => th2[u] = th[u]
      /\ th2[t] = Idle
  BY <1>7, <1>8
<1>10. Idle.pc = "idle" /\ Idle.call = "free" /\ Idle.size = 0
  BY DEF Idle
<1>11. HeldBy(Idle) = {} /\ \A w, cs : ThreadOk(w, cs, Idle)
  BY <1>10 DEF HeldBy, Holds, ThreadOk, IsCall, Calls
<1>12. s2.status = "ok" /\ Sound(s2, bs2, {}) /\ Addresses(bs) \subseteq Addresses(bs2)
  <2>1. CASE a = NULL
    <3>1. HeldBy(th[t]) = {} /\ s2 = s /\ bs2 = bs
      BY <1>4, <1>7, <2>1 DEF HeldBy, Holds
    <3> QED BY <1>8, <3>1
  <2>2. CASE a # NULL
    <3>1. Returns(s, bs, th[t])
      BY <1>4, <1>7, <1>8, <2>2 DEF ThreadOk
    <3>2. /\ Fits(s, a, size) /\ call # "free"
          /\ call = "calloc" => a \in DOMAIN s.mem /\ s.mem[a] = 0
      BY <1>4, <3>1 DEF Returns
    <3>3. PICK H : H = HeldBy(th[t])
      OBVIOUS
    <3>4. Sound(s, bs, H) /\ bs2 = Without(bs, a) \cup {r}
      BY <1>7, <1>8, <2>2, <3>3
    <3>5. CASE IsFresh(th[t])
      <4>1. H = {a} /\ s2 = Write(s, a, t) /\ call # "calloc"
        BY <1>4, <1>7, <2>2, <3>3, <3>5 DEF HeldBy, Holds, IsFresh
      <4>2. r = [at |-> a, size |-> size, data |-> t]
        BY <1>6, <3>5, <4>1
      <4>3. /\ Sound(s2, bs, H) /\ a \in DOMAIN s2.mem /\ s2.mem[a] = t /\ s2.status = "ok"
            /\ Fits(s2, a, size)
        BY <1>8, <3>2, <3>4, <4>1, WriteSound
      <4>4. Hands(s2, bs, H, a, size, bs2)
        BY <3>4, <4>1, <4>2, <4>3 DEF Hands
      <4>5. Sound(s2, bs2, H \ {a}) /\ Addresses(bs2) = Addresses(bs) \cup {a}
        BY <4>4, HandSound
      <4> QED BY <4>1, <4>3, <4>5
    <3>6. CASE call = "calloc"
      <4>1. ~IsFresh(th[t])
        BY <1>4, <3>6 DEF IsFresh
      <4>2. H = {a} /\ s2 = s
        BY <1>4, <1>7, <2>2, <3>3, <3>6, <4>1 DEF HeldBy, Holds
      <4>3. r = [at |-> a, size |-> size, data |-> 0]
        BY <1>6, <3>6
      <4>4. Hands(s, bs, H, a, size, bs2)
        BY <3>2, <3>4, <3>6, <4>2, <4>3 DEF Hands
      <4>5. Sound(s, bs2, H \ {a}) /\ Addresses(bs2) = Addresses(bs) \cup {a}
        BY <4>4, HandSound
      <4> QED BY <1>8, <4>2, <4>5
    <3>7. CASE ~IsFresh(th[t]) /\ call # "calloc"
      <4>1. ~Holds(th[t]) /\ H = {} /\ s2 = s
        BY <1>4, <1>7, <3>3, <3>7 DEF HeldBy, Holds
      <4>2. a \in Addresses(bs)
        BY <1>4, <3>1, <4>1 DEF Returns
      <4>3. a \in DOMAIN s.mem /\ s.mem[a] = Block(a).data
        BY <1>1, <3>4, <4>1, <4>2, BlockIs
      <4>4. r = [at |-> a, size |-> size, data |-> Block(a).data]
        BY <1>6, <3>7
      <4>5. Hands(s, bs, H, a, size, bs2)
        BY <3>2, <3>4, <4>2, <4>3, <4>4 DEF Hands
      <4>6. Sound(s, bs2, H \ {a}) /\ Addresses(bs2) = Addresses(bs) \cup {a}
        BY <4>5, HandSound
      <4>7. H \ {a} = {}
        BY <4>1
      <4> QED BY <1>8, <4>1, <4>6, <4>7
    <3> QED BY <3>5, <3>6, <3>7
  <2> QED BY <2>1, <2>2
<1>13. Leads(s, bs, th, t, s2, bs2, th2)
  BY <1>3, <1>8, <1>9, <1>10, <1>11, <1>12 DEF Works, Leads
<1>14. After(s2, bs2, th2)
  BY <1>12, <1>13, WorkConsistent DEF After
<1> QED BY <1>2, <1>14

-----------------------------------------------------------------------------
(* The blocks of the users stay apart.                                     *)

\* At first there is nothing,
LEMMA InitSound == Init => Sound(m, blocks, {}) /\ m.status = "ok"
<1> SUFFICES ASSUME Init PROVE Sound(m, blocks, {}) /\ m.status = "ok"
  OBVIOUS
<1>1. PICK s : s = m
  OBVIOUS
<1>2. /\ s.brk = PAGE_SIZE /\ s.hdr = <<>> /\ s.first = [b \in Bins |-> NULL]
      /\ s.fwd = [n \in {HEAD} |-> [i \in Levels |-> NULL]] /\ s.level = 0
      /\ s.newest = NULL /\ s.status = "ok" /\ IsState(s)
  BY <1>1 DEF Init, Bins, IsState, Fields
<1>3. Headers(s) = {} /\ BigOf(s) = {}
  BY <1>2 DEF Headers, BigOf
<1>4. Aligned(PAGE_SIZE)
  <2>1. PAGE_SIZE = 1 * PAGE_SIZE /\ 1 \in Nat
    BY Constants
  <2> QED BY <2>1 DEF Aligned
<1>5. Layout(s)
  BY <1>2, <1>3, <1>4, Constants, FS_EmptySet DEF Layout
<1>6. SmallOk(s, {})
  BY <1>2, <1>3 DEF SmallOk
<1>7. SkipOk(s, {})
  <2>1. 0 \in Levels
    BY Constants DEF Levels
  <2> QED BY <1>2, <2>1, FS_EmptySet DEF SkipOk
<1>8. BigOk(s, {})
  BY <1>2, <1>3, <1>7 DEF BigOk
<1>9. Good(s, {})
  BY <1>5, <1>6, <1>8 DEF Good
<1>10. blocks = {}
  BY DEF Init
<1>11. Addresses({}) = {} /\ Places({}) = {}
  BY DEF Addresses, Places
<1>12. Places(Addresses({}) \cup {}) = {}
  BY <1>11
<1>13. Sound(s, {}, {})
  BY <1>9, <1>11, <1>12 DEF Sound
<1> QED BY <1>1, <1>2, <1>10, <1>13

\* and all threads are idle.
LEMMA InitHeap == Init => HeapInv
<1> SUFFICES ASSUME Init PROVE HeapInv
  OBVIOUS
<1>1. Sound(m, blocks, {}) /\ m.status = "ok"
  BY InitSound
<1>2. \A t \in Threads : thread[t] = Idle
  BY DEF Init
<1>3. Idle.pc = "idle" /\ Idle.call = "free" /\ Idle.size = 0
  BY DEF Idle
<1>4. Held(thread) = {}
  BY <1>2, <1>3 DEF Held, Holds
<1>5. \A t \in Threads : ThreadOk(m, blocks, thread[t])
  BY <1>2, <1>3 DEF ThreadOk, IsCall, Calls
<1>6. Distinct(thread)
  BY <1>2, <1>3 DEF Distinct
<1> QED BY <1>1, <1>4, <1>5, <1>6, InitLock DEF HeapInv, Consistent

\* A thread that goes on has the lock, or takes it while nobody has it.
LEMMA ProgressWorks ==
    ASSUME HeapInv, NEW t \in Threads, Progress(t)
    PROVE  Works(m, blocks, thread, t)
<1>1. m.status = "ok" /\ Consistent(m, blocks, thread) /\ LockInv /\ Shape
  BY DEF Progress, HeapInv, LockInv
<1>2. ASSUME spin_lock(t) PROVE Alone(thread, t) /\ thread[t].pc # "idle"
  BY <1>1, <1>2 DEF spin_lock, LockInv, Working, Alone
<1>3. ASSUME Free(t) \/ Reallocate(t) \/ Find(t) \/ Take(t) \/ spin_unlock(t)
      PROVE  Alone(thread, t) /\ thread[t].pc # "idle"
  <2>1. Working(t) /\ thread[t].pc # "idle"
    BY <1>3 DEF Free, Reallocate, Find, Take, spin_unlock, Working
  <2> QED BY <1>1, <2>1, WorkerAlone
<1> QED BY <1>1, <1>2, <1>3 DEF Works, Shape, Progress

\* Every step keeps the invariant, and after a failed assertion there is none.
LEMMA NextHeap ==
    ASSUME NoWrap, HeapInv, [Next]_vars
    PROVE  HeapInv'
<1>1. LockInv'
  BY NextKeepsLock DEF HeapInv
<1>2. After(m', blocks', thread')
  <2>1. CASE UNCHANGED vars
    BY <2>1 DEF vars, HeapInv, After
  <2>2. CASE Next
    <3>1. PICK t \in Threads : Begin(t) \/ Progress(t)
      BY <2>2 DEF Next
    <3>2. m.status = "ok"
      BY <3>1 DEF Begin, Call, Progress
    <3>3. Consistent(m, blocks, thread) /\ LockInv /\ Shape
      BY <3>2 DEF HeapInv, LockInv
    <3>4. CASE Begin(t)
      BY <3>2, <3>3, <3>4, BeginConsistent DEF After
    <3>5. CASE Progress(t)
      <4>1. Works(m, blocks, thread, t)
        BY <3>5, ProgressWorks
      <4> QED BY <3>5, <4>1, LockConsistent, FreeConsistent, ReallocateConsistent, FindConsistent,
                 TakeConsistent, UnlockConsistent DEF Progress
    <3> QED BY <3>1, <3>4, <3>5
  <2> QED BY <2>1, <2>2
<1> QED BY <1>1, <1>2 DEF HeapInv, After

\* The invariant is strong enough.
LEMMA HeapIsSound == HeapInv => BlocksSound
<1> SUFFICES ASSUME HeapInv PROVE BlocksSound
  OBVIOUS
<1>1. BlocksOk(m, blocks)
  BY SoundBlocks DEF HeapInv, Consistent
<1> QED BY <1>1 DEF BlocksOk, BlocksSound, Headers, Room, Big, Content

\* However many threads call malloc, calloc, valloc, realloc and free, whatever the
\* sizes and wherever the memory ends: no two blocks overlap, none reaches into a
\* header, and each holds what its user stored until he frees it.
THEOREM BlocksStaySound == NoWrap => (Spec => []BlocksSound)
<1> SUFFICES ASSUME NoWrap PROVE Spec => []BlocksSound
  OBVIOUS
<1>1. Init => HeapInv
  BY InitHeap
<1>2. HeapInv /\ [Next]_vars => HeapInv'
  BY NextHeap
<1>3. HeapInv => BlocksSound
  BY HeapIsSound
<1> QED BY <1>1, <1>2, <1>3, PTL DEF Spec

-----------------------------------------------------------------------------
(* Lists.  A list falls by ranks: the one behind x is the highest of those *)
(* below x.                                                                *)

\* y is behind x in the list of T, NULL for none.
Follows(r, T, x, y) ==
    IF y = NULL THEN \A z \in T : ~(r[z] < r[x])
    ELSE y \in T /\ r[y] < r[x] /\ \A z \in T : r[z] < r[x] => r[z] <= r[y]

\* The list from start through nx holds the elements of S, by their ranks r.
Falls(start, nx, S, r) ==
    /\ IsFiniteSet(S) /\ NULL \notin S /\ r \in [S -> Nat]
    /\ \A x, y \in S : r[x] = r[y] => x = y
    /\ start = NULL => S = {}
    /\ start # NULL => start \in S /\ \A x \in S : r[x] <= r[start]
    /\ \A x \in S : Follows(r, S, x, nx[x])

\* c is a walk of N steps along it.
Walks(c, N, start, nx, S) ==
    c[0] = start /\ \A k \in 1 .. N : c[k] = IF c[k - 1] \in S THEN nx[c[k - 1]] ELSE NULL

\* There is a walk along every list.
LEMMA WalkExists ==
    ASSUME NEW start, NEW nx, NEW S, NEW r, Falls(start, nx, S, r), NEW N \in Nat
    PROVE  \E c \in [0 .. N -> S \cup {NULL}] : Walks(c, N, start, nx, S)
<1>1. PICK X : X = S \cup {NULL} /\ NULL \in X
  <2>1. NULL \in S \cup {NULL}
    OBVIOUS
  <2> QED BY <2>1, Zenon
<1>2. start \in X /\ \A x \in S : nx[x] \in X
  BY <1>1 DEF Falls, Follows
<1>3. PICK g : g = [x \in X |-> IF x \in S THEN nx[x] ELSE NULL]
  OBVIOUS
<1>4. g \in [X -> X] /\ \A x \in X : g[x] = IF x \in S THEN nx[x] ELSE NULL
  BY <1>1, <1>2, <1>3
<1>5. PICK F : F = [k \in 1 .. N |-> g]
  OBVIOUS
<1>6. F \in [1 .. N -> [X -> X]] /\ \A k \in 1 .. N : F[k] = g
  BY <1>4, <1>5
<1>7. PICK c \in [0 .. N -> X] : c[0] = start /\ \A k \in 1 .. N : c[k] = g[c[k - 1]]
  <2>1. Iterable(N, X, start, F)
    BY <1>2, <1>6 DEF Iterable
  <2>2. PICK c : Iterates(N, X, start, F, c)
    BY <2>1, Iterate
  <2>3. c \in [0 .. N -> X] /\ c[0] = start /\ \A k \in 1 .. N : c[k] = g[c[k - 1]]
    BY <2>2, <1>6 DEF Iterates
  <2> QED BY <2>3
<1>8. \A k \in 1 .. N : c[k - 1] \in X
  <2>1. \A k \in 1 .. N : k - 1 \in 0 .. N
    OBVIOUS
  <2> QED BY <1>7, <2>1
<1>9. Walks(c, N, start, nx, S)
  BY <1>4, <1>7, <1>8 DEF Walks
<1>10. c \in [0 .. N -> S \cup {NULL}]
  BY <1>1, <1>7, Zenon
<1> QED BY <1>9, <1>10

\* A walk as long as the list visits every element once, by the ranks, and ends.
Visits(c, n, N, S, r) ==
    /\ \A k \in 0 .. n - 1 : c[k] \in S
    /\ \A k \in n .. N : c[k] = NULL
    /\ \A x \in S : \E k \in 0 .. n - 1 : c[k] = x
    /\ \A j, k \in 0 .. n - 1 : j < k => r[c[k]] < r[c[j]]
LEMMA WalkVisits ==
    ASSUME NEW start, NEW nx, NEW S, NEW r, Falls(start, nx, S, r), NEW N \in Nat,
           NEW n \in Nat, n = Cardinality(S), n <= N, NEW c, Walks(c, N, start, nx, S)
    PROVE  Visits(c, n, N, S, r)
<1> DEFINE D(k) == {z \in S : c[k] \in S /\ r[z] <= r[c[k]]}
<1>1. PICK Z : Z = {k \in 0 .. n : /\ Cardinality(D(k)) = n - k
                                   /\ \A x \in S \ D(k) : \E j \in 0 .. k - 1 : c[j] = x
                                   /\ \A j \in 0 .. k - 1 : c[j] \in S /\ c[j] \notin D(k)}
  OBVIOUS
<1>2. IsFiniteSet(S) /\ NULL \notin S /\ r \in [S -> Nat] /\ \A x \in S : Follows(r, S, x, nx[x])
  BY DEF Falls
<1>3. c[0] = start /\ \A k \in 0 .. N - 1 : c[k + 1] = IF c[k] \in S THEN nx[c[k]] ELSE NULL
  <2>1. \A k \in 0 .. N - 1 : k + 1 \in 1 .. N /\ k + 1 - 1 = k
    OBVIOUS
  <2> QED BY <2>1 DEF Walks
<1>4. D(0) = S
  <2>1. CASE start = NULL
    BY <2>1 DEF Falls
  <2>2. CASE start # NULL
    BY <1>3, <2>2 DEF Falls
  <2> QED BY <2>1, <2>2
<1>5. 0 \in Z
  BY <1>1, <1>4
<1>6. ASSUME NEW k \in 0 .. n - 1, k \in Z PROVE k + 1 \in Z /\ c[k] \in S
  <2>1. /\ Cardinality(D(k)) = n - k /\ n - k # 0
        /\ \A x \in S \ D(k) : \E j \in 0 .. k - 1 : c[j] = x
        /\ \A j \in 0 .. k - 1 : c[j] \in S /\ c[j] \notin D(k)
    BY <1>1, <1>6
  <2>2. c[k] \in S
    <3>1. D(k) # {}
      BY <2>1, FS_EmptySet
    <3> QED BY <3>1
  <2>3. c[k] \in D(k)
    BY <1>2, <2>2
  <2>4. PICK y : y = c[k + 1] /\ Follows(r, S, c[k], y)
    BY <1>2, <1>3, <2>2
  <2>5. D(k + 1) = D(k) \ {c[k]}
    <3>1. \A x, z \in S : r[x] = r[z] => x = z
      BY DEF Falls
    <3>2. CASE y = NULL
      <4>1. \A z \in S : ~(r[z] < r[c[k]])
        BY <2>4, <3>2 DEF Follows
      <4>2. \A z \in D(k) : z = c[k]
        BY <1>2, <2>2, <3>1, <4>1
      <4>3. D(k + 1) = {}
        BY <1>2, <2>4, <3>2
      <4> QED BY <4>2, <4>3
    <3>3. CASE y # NULL
      <4>1. y \in S /\ r[y] < r[c[k]] /\ \A z \in S : r[z] < r[c[k]] => r[z] <= r[y]
        BY <2>4, <3>3 DEF Follows
      <4>2. \A z \in S : r[z] <= r[y] <=> (r[z] <= r[c[k]] /\ z # c[k])
        BY <1>2, <2>2, <3>1, <4>1
      <4> QED BY <2>2, <2>4, <4>1, <4>2
    <3> QED BY <3>2, <3>3
  <2>6. IsFiniteSet(D(k))
    <3>1. D(k) \subseteq S
      OBVIOUS
    <3> QED BY <1>2, <3>1, FS_Subset
  <2> HIDE DEF D
  <2>7. Cardinality(D(k + 1)) = n - (k + 1)
    <3>1. Cardinality(D(k) \ {c[k]}) = Cardinality(D(k)) - 1
      BY <2>3, <2>6, FS_RemoveElement
    <3>2. n - k - 1 = n - (k + 1)
      OBVIOUS
    <3>3. Cardinality(D(k + 1)) = n - k - 1
      BY <2>1, <2>5, <3>1, Zenon
    <3> QED BY <3>2, <3>3, Zenon
  <2>8. \A x \in S \ D(k + 1) : \E j \in 0 .. k + 1 - 1 : c[j] = x
    <3> SUFFICES ASSUME NEW x \in S \ D(k + 1) PROVE \E j \in 0 .. k + 1 - 1 : c[j] = x
      OBVIOUS
    <3>1. \A j \in 0 .. k - 1 : j \in 0 .. k + 1 - 1
      OBVIOUS
    <3>2. k \in 0 .. k + 1 - 1
      OBVIOUS
    <3>3. x = c[k] \/ x \in S \ D(k)
      BY <2>5
    <3> QED BY <2>1, <3>1, <3>2, <3>3
  <2>9. \A j \in 0 .. k + 1 - 1 : c[j] \in S /\ c[j] \notin D(k + 1)
    <3> SUFFICES ASSUME NEW j \in 0 .. k + 1 - 1 PROVE c[j] \in S /\ c[j] \notin D(k + 1)
      OBVIOUS
    <3>1. CASE j \in 0 .. k - 1
      BY <2>1, <2>5, <3>1
    <3>2. CASE j \notin 0 .. k - 1
      <4>1. j = k
        BY <3>2
      <4> QED BY <2>2, <2>5, <4>1
    <3> QED BY <3>1, <3>2
  <2>10. k + 1 \in 0 .. n
    OBVIOUS
  <2> QED BY <1>1, <2>2, <2>7, <2>8, <2>9, <2>10
<1>7. \A k \in 0 .. n : k \in Z
  BY <1>5, <1>6, UpFrom
<1>8. \A k \in 0 .. n - 1 : c[k] \in S
  <2>1. \A k \in 0 .. n - 1 : k \in 0 .. n
    OBVIOUS
  <2> QED BY <1>6, <1>7, <2>1
<1>9. D(n) = {} /\ (\A x \in S : \E j \in 0 .. n - 1 : c[j] = x)
  <2>1. Cardinality(D(n)) = n - n /\ \A x \in S \ D(n) : \E j \in 0 .. n - 1 : c[j] = x
    <3>1. n \in Z
      BY <1>7
    <3> QED BY <1>1, <3>1
  <2>2. IsFiniteSet(D(n))
    <3>1. D(n) \subseteq S
      OBVIOUS
    <3> QED BY <1>2, <3>1, FS_Subset
  <2> HIDE DEF D
  <2>3. D(n) = {}
    BY <2>1, <2>2, FS_EmptySet
  <2> QED BY <2>1, <2>3
<1>10. c[n] \notin S
  BY <1>2, <1>9
<1>11. c[n] = NULL
  <2>1. CASE n = 0
    <3>1. S = {}
      BY <1>2, <2>1, FS_EmptySet
    <3> QED BY <1>3, <2>1, <3>1 DEF Falls
  <2>2. CASE n # 0
    <3>1. n - 1 \in 0 .. n - 1 /\ n - 1 \in 0 .. N - 1 /\ n - 1 + 1 = n
      BY <2>2
    <3>2. c[n - 1] \in S /\ c[n] = nx[c[n - 1]]
      BY <1>3, <1>8, <3>1
    <3> QED BY <1>2, <1>10, <3>2 DEF Follows
  <2> QED BY <2>1, <2>2
<1>12. \A k \in n .. N : c[k] = NULL
  <2>1. PICK Y : Y = {k \in n .. N : c[k] = NULL}
    OBVIOUS
  <2>2. n \in Y
    BY <1>11, <2>1
  <2>3. ASSUME NEW k \in n .. N - 1, k \in Y PROVE k + 1 \in Y
    <3>1. k \in 0 .. N - 1 /\ k + 1 \in n .. N
      OBVIOUS
    <3>2. c[k] = NULL
      BY <2>1, <2>3
    <3> QED BY <1>2, <1>3, <2>1, <3>1, <3>2
  <2>4. \A k \in n .. N : k \in Y
    BY <2>2, <2>3, UpFrom
  <2> QED BY <2>1, <2>4
<1>13. ASSUME NEW j \in 0 .. n - 1, NEW k \in 0 .. n - 1, j < k PROVE r[c[k]] < r[c[j]]
  <2>1. k \in Z /\ j \in 0 .. k - 1
    BY <1>7, <1>13
  <2>2. c[j] \in S /\ c[j] \notin D(k) /\ c[k] \in S
    BY <1>1, <1>8, <2>1
  <2> QED BY <1>2, <2>2
<1> QED BY <1>8, <1>9, <1>12, <1>13 DEF Visits

\* A stack is such a list.
LEMMA StackFalls ==
    ASSUME NEW start, NEW mem, NEW S, Stack(start, mem, S), IsFiniteSet(S)
    PROVE  \E r : Falls(start, mem, S, r)
<1>1. PICK behind \in [S -> Nat] :
         /\ start # NULL => start \in S /\ \A x \in S : behind[x] <= behind[start]
         /\ \A x \in S : behind[x] = 0 => mem[x] = NULL
         /\ \A x \in S : behind[x] # 0 => mem[x] \in S /\ behind[mem[x]] = behind[x] - 1
         /\ \A x, y \in S : behind[x] = behind[y] => x = y
  BY DEF Stack
<1>2. NULL \notin S /\ (start = NULL => S = {})
  BY DEF Stack
<1>3. ASSUME NEW x \in S PROVE Follows(behind, S, x, mem[x])
  <2>1. CASE behind[x] = 0
    <3>1. mem[x] = NULL /\ \A z \in S : ~(behind[z] < behind[x])
      BY <1>1, <2>1
    <3> QED BY <3>1 DEF Follows
  <2>2. CASE behind[x] # 0
    <3>1. mem[x] \in S /\ behind[mem[x]] = behind[x] - 1
      BY <1>1, <2>2
    <3>2. behind[mem[x]] < behind[x] /\ \A z \in S : behind[z] < behind[x] => behind[z] <= behind[mem[x]]
      BY <1>1, <3>1
    <3> QED BY <1>2, <3>1, <3>2 DEF Follows
  <2> QED BY <2>1, <2>2
<1>4. Falls(start, mem, S, behind)
  BY <1>1, <1>2, <1>3 DEF Falls
<1> QED BY <1>4

\* A walk as long as such a list is what Lists says.
LEMMA FallsLists ==
    ASSUME NEW start, NEW nx, NEW S, NEW r, Falls(start, nx, S, r), NEW n, n = Cardinality(S),
           NEW c, Walks(c, n, start, nx, S)
    PROVE  {c[k] : k \in 0 .. n - 1} = S /\ c[n] = NULL
<1>1. IsFiniteSet(S)
  BY DEF Falls
<1>2. n \in Nat /\ n <= n
  BY <1>1, FS_CardinalityType
<1>3. Visits(c, n, n, S, r)
  BY <1>2, WalkVisits
<1>4. n \in n .. n
  BY <1>2
<1> QED BY <1>3, <1>4 DEF Visits

-----------------------------------------------------------------------------
(* The skip list of the free blocks F: the ranks r fall from HEAD on with  *)
(* the sizes rising, T[i] are the blocks of level i.                       *)

Ranks(s, F, r) ==
    /\ \A x \in F \cup {HEAD} : r[x] \in Nat
    /\ \A x \in F : r[x] < r[HEAD]
    /\ \A x, y \in F : r[x] = r[y] => x = y
    /\ \A x, y \in F : r[x] < r[y] => s.hdr[y].size <= s.hdr[x].size
LevelIs(s, T, r, i) == \A x \in T \cup {HEAD} : Follows(r, T, x, s.fwd[x][i])
Skip(s, F, r, T) ==
    /\ F \subseteq BigOf(s) /\ \A x \in F : s.hdr[x].size \in Nat
    /\ Ranks(s, F, r)
    /\ T \in [Levels -> SUBSET F] /\ T[0] = F
    /\ \A i \in Levels \ {0} : T[i] \subseteq T[i - 1]
    /\ \A i \in Levels : LevelIs(s, T[i], r, i)
    /\ \A i \in Levels : i > s.level => T[i] = {}
Skips(s, F) == \E r, T : Skip(s, F, r, T)

\* The nodes of a level in front of the blocks that have the size.
Smaller(s, x, size) == x = HEAD \/ s.hdr[x].size < size
LastSmaller(s, T, size, i, x) ==
    /\ x \in T \cup {HEAD} /\ Smaller(s, x, size)
    /\ s.fwd[x][i] # NULL => ~(s.hdr[s.fwd[x][i]].size < size)

\* Nodes that are not blocks.
LEMMA Ends == ASSUME NEW s, NEW B, SkipOk(s, B) PROVE NULL \notin B \cup {HEAD} /\ HEAD \notin B
BY Constants DEF SkipOk

\* Below x on a level there are fewer blocks than nodes, so that a walk comes to the
\* last smaller one.
LEMMA AlongReaches ==
    ASSUME NEW s, NEW B, SkipOk(s, B), NEW F, NEW r, Ranks(s, F, r), F \subseteq B, NEW T, T \subseteq F,
           NEW i \in Levels, LevelIs(s, T, r, i), NEW size, NEW from \in T \cup {HEAD}, Smaller(s, from, size)
    PROVE  LastSmaller(s, T, size, i, Along(s, size, from, i))
<1>1. PICK N : N = B \cup {HEAD} /\ T \cup {HEAD} \subseteq N
  <2>1. T \cup {HEAD} \subseteq B \cup {HEAD}
    OBVIOUS
  <2> QED BY <2>1, Zenon
<1>2. IsFiniteSet(N) /\ IsFiniteSet(T) /\ IsFiniteSet(B)
  <2>1. T \subseteq B
    OBVIOUS
  <2> QED BY <1>1, <2>1, FS_Union, FS_Singleton, FS_Subset DEF SkipOk
<1>3. PICK c \in Nat : c = Cardinality(N)
  BY <1>2, FS_CardinalityType
<1>4. PICK walk : Along(s, size, from, i) = walk[c][from] /\ LevelWalk(s, N, size, i, c, walk)
  BY <1>1, <1>3, AlongWalk
<1> DEFINE Below(x) == {z \in T : r[z] < r[x]}
<1>5. \A x \in T \cup {HEAD} : IsFiniteSet(Below(x)) /\ Cardinality(Below(x)) \in Nat
  <2> SUFFICES ASSUME NEW x \in T \cup {HEAD} PROVE IsFiniteSet(Below(x)) /\ Cardinality(Below(x)) \in Nat
    OBVIOUS
  <2>1. Below(x) \subseteq T
    OBVIOUS
  <2> QED BY <1>2, <2>1, FS_Subset, FS_CardinalityType
<1>6. PICK Z : Z = {k \in 0 .. c : \A x \in T \cup {HEAD} :
                     Smaller(s, x, size) /\ Cardinality(Below(x)) <= k => LastSmaller(s, T, size, i, walk[k][x])}
  OBVIOUS
<1>7. NULL \notin T /\ HEAD # NULL
  BY Ends
<1>8. \A x \in T \cup {HEAD} : s.fwd[x][i] # NULL =>
         /\ s.fwd[x][i] \in T /\ s.fwd[x][i] \in Below(x)
         /\ Below(s.fwd[x][i]) = Below(x) \ {s.fwd[x][i]}
  <2> SUFFICES ASSUME NEW x \in T \cup {HEAD}, NEW y, y = s.fwd[x][i], y # NULL
               PROVE  y \in T /\ y \in Below(x) /\ Below(y) = Below(x) \ {y}
    OBVIOUS
  <2>1. y \in T /\ r[y] < r[x] /\ \A z \in T : r[z] < r[x] => r[z] <= r[y]
    BY DEF LevelIs, Follows
  <2>2. r[x] \in Nat /\ \A z \in T : r[z] \in Nat /\ (r[z] = r[y] => z = y)
    BY <2>1 DEF Ranks
  <2>3. \A z \in T : r[z] < r[y] <=> (r[z] < r[x] /\ z # y)
    BY <2>1, <2>2
  <2> QED BY <2>1, <2>3
<1> HIDE DEF Below
<1>9. ASSUME NEW k \in 0 .. c, NEW x \in T \cup {HEAD}, Smaller(s, x, size),
             ~(k > 0 /\ s.fwd[x][i] # NULL /\ s.hdr[s.fwd[x][i]].size < size), Cardinality(Below(x)) <= k
      PROVE  LastSmaller(s, T, size, i, walk[k][x])
  <2>1. walk[k][x] = x
    BY <1>1, <1>4, <1>9 DEF LevelWalk
  <2>2. ASSUME s.fwd[x][i] # NULL PROVE ~(s.hdr[s.fwd[x][i]].size < size)
    <3>1. CASE k = 0
      <4>1. Cardinality(Below(x)) = 0
        BY <1>5, <1>9, <3>1
      <4>2. Below(x) = {}
        BY <1>5, <4>1, FS_EmptySet
      <4> QED BY <1>8, <2>2, <4>2
    <3>2. CASE k # 0
      BY <1>9, <2>2, <3>2
    <3> QED BY <3>1, <3>2
  <2> QED BY <1>9, <2>1, <2>2 DEF LastSmaller
<1>10. 0 \in Z
  <2>1. 0 \in 0 .. c /\ ~(0 > 0)
    OBVIOUS
  <2> QED BY <1>6, <1>9, <2>1
<1>11. ASSUME NEW k \in 0 .. c - 1, k \in Z PROVE k + 1 \in Z
  <2>1. PICK j : j = k + 1 /\ j \in 0 .. c /\ j > 0 /\ j - 1 = k
    OBVIOUS
  <2>2. ASSUME NEW x \in T \cup {HEAD}, Smaller(s, x, size), Cardinality(Below(x)) <= j
        PROVE  LastSmaller(s, T, size, i, walk[j][x])
    <3>1. CASE ~(j > 0 /\ s.fwd[x][i] # NULL /\ s.hdr[s.fwd[x][i]].size < size)
      BY <1>9, <2>1, <2>2, <3>1
    <3>2. CASE j > 0 /\ s.fwd[x][i] # NULL /\ s.hdr[s.fwd[x][i]].size < size
      <4>1. PICK y : y = s.fwd[x][i]
        OBVIOUS
      <4>2. y \in T /\ y \in Below(x) /\ Below(y) = Below(x) \ {y} /\ Smaller(s, y, size)
        BY <1>8, <3>2, <4>1 DEF Smaller
      <4>3. Cardinality(Below(y)) = Cardinality(Below(x)) - 1
        <5>1. PICK A : A = Below(x) /\ IsFiniteSet(A)
          BY <1>5
        <5>2. y \in A /\ Below(y) = A \ {y}
          BY <4>2, <5>1
        <5>3. Cardinality(A \ {y}) = Cardinality(A) - 1
          BY <5>1, <5>2, FS_RemoveElement
        <5> QED BY <5>1, <5>2, <5>3, Zenon
      <4>4. Cardinality(Below(y)) <= k
        BY <1>5, <2>1, <2>2, <4>3
      <4>5. walk[j][x] = walk[k][y]
        BY <1>1, <1>4, <2>1, <3>2, <4>1 DEF LevelWalk
      <4> QED BY <1>6, <1>11, <4>2, <4>4, <4>5
    <3> QED BY <3>1, <3>2
  <2> QED BY <1>6, <2>1, <2>2
<1>12. c \in Z
  <2>1. \A k \in 0 .. c : k \in Z
    BY <1>10, <1>11, UpFrom
  <2> QED BY <2>1
<1>13. Cardinality(Below(from)) <= c
  <2>1. Below(from) \subseteq N
    BY <1>1 DEF Below
  <2> QED BY <1>2, <1>3, <2>1, FS_Subset
<1> QED BY <1>4, <1>6, <1>12, <1>13

\* So on every level the search stops at the last smaller node.
LEMMA BeforeReaches ==
    ASSUME NEW s, SkipOk(s, BigOf(s)), NEW F, NEW r, NEW T, Skip(s, F, r, T), NEW size
    PROVE  \A i \in 0 .. s.level : LastSmaller(s, T[i], size, i, Before(s, size)[i])
<1>1. PICK n \in Nat : n = s.level /\ 0 .. n \subseteq Levels
  BY Constants DEF SkipOk, Levels
<1>2. PICK b : b = Before(s, size)
  OBVIOUS
<1>3. \A i \in 0 .. n : b[i] = Along(s, size, IF i = n THEN HEAD ELSE b[i + 1], i)
  BY <1>1, <1>2, BeforeIs
<1>4. \A i \in 0 .. n : T[i] \subseteq F /\ LevelIs(s, T[i], r, i) /\ i \in Levels
  BY <1>1 DEF Skip
<1>5. \A i \in 0 .. n : i + 1 \in 0 .. n => T[i + 1] \subseteq T[i]
  <2> SUFFICES ASSUME NEW i \in 0 .. n, i + 1 \in 0 .. n PROVE T[i + 1] \subseteq T[i]
    OBVIOUS
  <2>1. i + 1 \in Levels \ {0} /\ i + 1 - 1 = i
    BY <1>1
  <2> QED BY <2>1 DEF Skip
<1>6. ASSUME NEW i \in 0 .. n, NEW from \in T[i] \cup {HEAD}, Smaller(s, from, size)
      PROVE  LastSmaller(s, T[i], size, i, Along(s, size, from, i))
  <2>1. Ranks(s, F, r) /\ F \subseteq BigOf(s)
    BY DEF Skip
  <2> QED BY <1>4, <1>6, <2>1, AlongReaches
<1>7. PICK Z : Z = {k \in 0 .. n : LastSmaller(s, T[n - k], size, n - k, b[n - k])}
  OBVIOUS
<1>8. 0 \in Z
  <2>1. n \in 0 .. n /\ n - 0 = n /\ 0 \in 0 .. n
    OBVIOUS
  <2>2. b[n] = Along(s, size, HEAD, n)
    BY <1>3, <2>1
  <2>3. HEAD \in T[n] \cup {HEAD} /\ Smaller(s, HEAD, size)
    BY DEF Smaller
  <2>4. LastSmaller(s, T[n], size, n, b[n])
    BY <1>6, <2>1, <2>2, <2>3
  <2> QED BY <1>7, <2>1, <2>4
<1>9. ASSUME NEW k \in 0 .. n - 1, k \in Z PROVE k + 1 \in Z
  <2>1. PICK i \in 0 .. n : i = n - (k + 1) /\ i # n /\ i + 1 = n - k /\ i + 1 \in 0 .. n /\ k + 1 \in 0 .. n
    OBVIOUS
  <2>2. LastSmaller(s, T[i + 1], size, i + 1, b[i + 1])
    BY <1>7, <1>9, <2>1
  <2>3. b[i + 1] \in T[i] \cup {HEAD} /\ Smaller(s, b[i + 1], size)
    BY <1>5, <2>1, <2>2 DEF LastSmaller
  <2>4. b[i] = Along(s, size, b[i + 1], i)
    BY <1>3, <2>1
  <2>5. LastSmaller(s, T[i], size, i, b[i])
    BY <1>6, <2>3, <2>4
  <2> QED BY <1>7, <2>1, <2>5
<1>10. \A k \in 0 .. n : k \in Z
  BY <1>8, <1>9, UpFrom
<1>11. ASSUME NEW i \in 0 .. n PROVE LastSmaller(s, T[i], size, i, b[i])
  <2>1. n - i \in 0 .. n /\ n - (n - i) = i
    OBVIOUS
  <2> QED BY <1>7, <1>10, <2>1
<1> QED BY <1>1, <1>2, <1>11

\* The search finds the first block that is long enough.
FirstOf(s, F, r, size, h) ==
    /\ h \in F /\ ~(s.hdr[h].size < size)
    /\ \A x \in F : r[h] < r[x] => s.hdr[x].size < size
LEMMA FindReaches ==
    ASSUME NEW s, SkipOk(s, BigOf(s)), NEW F, NEW r, NEW T, Skip(s, F, r, T), NEW size \in Nat,
           NEW h, h = klmalloc_skip_list_findbest(s, size), h # NULL
    PROVE  FirstOf(s, F, r, size, h)
<1>1. 0 \in 0 .. s.level /\ 0 \in Levels
  BY Constants DEF SkipOk, Levels
<1>2. PICK x : x = Before(s, size)[0] /\ LastSmaller(s, F, size, 0, x)
  BY <1>1, BeforeReaches DEF Skip
<1>3. h = s.fwd[x][0] /\ x \in F \cup {HEAD} /\ Smaller(s, x, size) /\ ~(s.hdr[h].size < size)
  BY <1>2 DEF klmalloc_skip_list_findbest, LastSmaller
<1>4. h \in F /\ r[h] < r[x] /\ \A z \in F : r[z] < r[x] => r[z] <= r[h]
  BY <1>1, <1>3 DEF Skip, LevelIs, Follows
<1>5. ASSUME NEW z \in F, r[h] < r[z] PROVE s.hdr[z].size < size
  <2>1. r[z] \in Nat /\ r[h] \in Nat /\ r[x] \in Nat /\ s.hdr[z].size \in Nat
    BY <1>3, <1>4 DEF Skip, Ranks
  <2>2. ~(r[z] < r[x])
    BY <1>4, <1>5, <2>1
  <2>3. x \in F
    <3>1. r[z] < r[HEAD]
      BY DEF Skip, Ranks
    <3> QED BY <1>3, <2>1, <2>2, <3>1
  <2>4. s.hdr[x].size < size /\ s.hdr[x].size \in Nat
    <3>1. x # HEAD
      BY <2>1, <2>2, <2>3 DEF Skip, Ranks
    <3> QED BY <1>3, <2>3, <3>1 DEF Smaller, Skip
  <2>5. z = x \/ s.hdr[z].size <= s.hdr[x].size
    <3>1. r[x] = r[z] \/ r[x] < r[z]
      BY <2>1, <2>2
    <3> QED BY <2>3, <3>1 DEF Skip, Ranks
  <2> QED BY <2>1, <2>4, <2>5
<1> QED BY <1>3, <1>4, <1>5 DEF FirstOf

\* A rank for a new block h: below the smaller nodes, above the others.
Fitted(s, F, h, r, r2) ==
    /\ \A x \in F \cup {h} \cup {HEAD} : r2[x] \in Nat
    /\ \A x, y \in F \cup {HEAD} : r2[x] < r2[y] <=> r[x] < r[y]
    /\ \A x \in F \cup {HEAD} : IF Smaller(s, x, s.hdr[h].size) THEN r2[h] < r2[x] ELSE r2[x] < r2[h]
LEMMA RankFor ==
    ASSUME NEW s, NEW F, NEW r, Ranks(s, F, r), NEW h, h \notin F, h # HEAD, HEAD \notin F,
           \A x \in F \cup {h} : s.hdr[x].size \in Nat
    PROVE  \E r2 : Fitted(s, F, h, r, r2) /\ Ranks(s, F \cup {h}, r2)
<1> DEFINE size == s.hdr[h].size
           M == {x \in F \cup {HEAD} : Smaller(s, x, size)}
<1>1. (\A x \in F \cup {HEAD} : r[x] \in Nat) /\ (\A x \in F : r[x] < r[HEAD]) /\ (\A x, y \in F : r[x] = r[y] => x = y)
  BY DEF Ranks
<1>2. \A x, y \in F : r[x] < r[y] => s.hdr[y].size <= s.hdr[x].size
  BY DEF Ranks
<1>3. HEAD \in M /\ M \subseteq F \cup {HEAD}
  BY DEF Smaller
<1>4. PICK low \in M : \A x \in M : r[low] <= r[x]
  <2>1. PICK V : V = {r[x] : x \in M}
    OBVIOUS
  <2>2. V \subseteq Nat /\ V # {}
    BY <1>1, <1>3, <2>1
  <2>3. PICK v \in V : \A j \in V : v <= j
    BY <2>2, Least
  <2> QED BY <2>1, <2>3
<1>5. PICK v \in Nat : v = r[low]
  BY <1>1, <1>3, <1>4
<1>6. ASSUME NEW x \in F \cup {HEAD} PROVE x \in M <=> v <= r[x]
  <2>1. ASSUME x \notin M PROVE r[x] < v
    <3>1. x \in F /\ ~(s.hdr[x].size < size) /\ x # HEAD
      BY <2>1 DEF Smaller
    <3>2. CASE low = HEAD
      BY <1>1, <1>5, <3>1, <3>2
    <3>3. CASE low # HEAD
      <4>1. low \in F /\ s.hdr[low].size < size
        BY <1>3, <3>3 DEF Smaller
      <4>2. ~(r[low] < r[x]) /\ low # x
        BY <1>2, <3>1, <4>1
      <4> QED BY <1>1, <1>5, <3>1, <4>1, <4>2
    <3> QED BY <3>2, <3>3
  <2>2. r[x] \in Nat
    BY <1>1
  <2> QED BY <1>4, <1>5, <2>1, <2>2
<1>7. PICK r2 : r2 = [x \in F \cup {h} \cup {HEAD} |-> IF x = h THEN v ELSE IF v <= r[x] THEN r[x] + 1 ELSE r[x]]
  OBVIOUS
<1>8. r2[h] = v /\ \A x \in F \cup {HEAD} : r[x] \in Nat /\ r2[x] = IF v <= r[x] THEN r[x] + 1 ELSE r[x]
  BY <1>1, <1>7
<1>9. \A x \in F \cup {h} \cup {HEAD} : r2[x] \in Nat
  BY <1>8
<1>10. \A x, y \in F \cup {HEAD} : r2[x] < r2[y] <=> r[x] < r[y]
  BY <1>8
<1>11. \A x \in F \cup {HEAD} : IF Smaller(s, x, size) THEN r2[h] < r2[x] ELSE r2[x] < r2[h]
  BY <1>6, <1>8
<1> HIDE DEF M
<1>12. Fitted(s, F, h, r, r2)
  BY <1>9, <1>10, <1>11 DEF Fitted
<1>13. \A x \in F \cup {h} : r2[x] < r2[HEAD]
  <2>1. r2[h] < r2[HEAD]
    BY <1>11 DEF Smaller
  <2> QED BY <1>1, <1>10, <2>1
<1>14. \A x, y \in F \cup {h} : r2[x] = r2[y] => x = y
  <2>1. \A x, y \in F : r2[x] = r2[y] => x = y
    BY <1>1, <1>8
  <2>2. \A x \in F : r2[x] # r2[h]
    BY <1>8
  <2> QED BY <2>1, <2>2
<1>15. \A x, y \in F \cup {h} : r2[x] < r2[y] => s.hdr[y].size <= s.hdr[x].size
  <2> SUFFICES ASSUME NEW x \in F \cup {h}, NEW y \in F \cup {h}, r2[x] < r2[y] PROVE s.hdr[y].size <= s.hdr[x].size
    OBVIOUS
  <2>1. CASE x \in F /\ y \in F
    BY <1>2, <1>10, <2>1
  <2>2. CASE x = h /\ y \in F
    <3>1. Smaller(s, y, size) /\ y # HEAD
      BY <1>8, <1>11, <2>2
    <3> QED BY <2>2, <3>1 DEF Smaller
  <2>3. CASE x \in F /\ y = h
    <3>1. ~Smaller(s, x, size)
      BY <1>8, <1>11, <2>3
    <3> QED BY <2>3, <3>1 DEF Smaller
  <2>4. CASE x = h /\ y = h
    BY <2>4
  <2> QED BY <2>1, <2>2, <2>3, <2>4
<1>16. Ranks(s, F \cup {h}, r2)
  BY <1>9, <1>13, <1>14, <1>15 DEF Ranks
<1> QED BY <1>12, <1>16

\* One level of the list, with h behind the last smaller node.
Linked(s, T, r, i, h, at, fwd) ==
    /\ LevelIs(s, T, r, i) /\ LastSmaller(s, T, s.hdr[h].size, i, at)
    /\ fwd[at] = h /\ fwd[h] = s.fwd[at][i]
    /\ \A x \in T \cup {HEAD} : x # at => fwd[x] = s.fwd[x][i]
LEMMA LevelInsert ==
    ASSUME NEW s, NEW F, NEW r, Ranks(s, F, r), NEW h, h \notin F, h # HEAD, h # NULL, HEAD \notin F, NULL \notin F,
           NEW r2, Fitted(s, F, h, r, r2), NEW T, T \subseteq F, NEW i, NEW at, NEW fwd, Linked(s, T, r, i, h, at, fwd)
    PROVE  \A x \in T \cup {h} \cup {HEAD} : Follows(r2, T \cup {h}, x, fwd[x])
<1> DEFINE size == s.hdr[h].size
           small(x) == Smaller(s, x, size)
<1>1. \A x \in T \cup {HEAD} : r[x] \in Nat /\ r2[x] \in Nat /\ r2[h] \in Nat
  BY DEF Ranks, Fitted
<1>2. \A x, y \in T \cup {HEAD} : r2[x] < r2[y] <=> r[x] < r[y]
  BY DEF Fitted
<1>3. \A x \in T \cup {HEAD} : IF small(x) THEN r2[h] < r2[x] ELSE r2[x] < r2[h]
  BY DEF Fitted
<1>4. \A x \in T \cup {HEAD} : Follows(r, T, x, s.fwd[x][i])
  BY DEF Linked, LevelIs
<1>5. PICK y : y = s.fwd[at][i]
  OBVIOUS
<1>6. at \in T \cup {HEAD} /\ small(at) /\ (y # NULL => y \in T /\ ~small(y)) /\ Follows(r, T, at, y)
  <2>1. y # NULL => y \in T
    BY <1>4, <1>5 DEF Linked, LastSmaller, Follows
  <2>2. y # NULL => ~small(y)
    BY <1>5, <2>1 DEF Linked, LastSmaller, Smaller
  <2> QED BY <1>4, <1>5, <2>1, <2>2 DEF Linked, LastSmaller
<1>7. \A x, z \in T \cup {HEAD} : r[x] = r[z] => x = z
  BY DEF Ranks
<1>8. fwd[at] = h /\ fwd[h] = y /\ \A x \in T \cup {HEAD} : x # at => fwd[x] = s.fwd[x][i]
  BY <1>5 DEF Linked
<1> HIDE DEF small
<1>9. \A x, z \in T \cup {HEAD} : small(x) /\ r[x] <= r[z] => small(z)
  BY <1>1, <1>2, <1>3
<1>10. \A z \in T : r[z] < r[at] => ~small(z)
  <2> SUFFICES ASSUME NEW z \in T, r[z] < r[at], small(z) PROVE FALSE
    OBVIOUS
  <2>1. y \in T /\ r[z] <= r[y]
    BY <1>6 DEF Follows
  <2> QED BY <1>6, <1>9, <2>1
<1>11. h \notin T
  OBVIOUS
<1>12. Follows(r2, T \cup {h}, at, h)
  <2>1. r2[h] < r2[at]
    BY <1>3, <1>6
  <2>2. ASSUME NEW z \in T \cup {h}, r2[z] < r2[at] PROVE r2[z] <= r2[h]
    <3>1. CASE z = h
      BY <1>1, <3>1
    <3>2. CASE z \in T
      BY <1>1, <1>2, <1>3, <1>6, <1>10, <2>2, <3>2
    <3> QED BY <3>1, <3>2
  <2> QED BY <2>1, <2>2 DEF Follows
<1>13. \A z \in T : r2[z] < r2[h] => r[z] < r[at]
  BY <1>1, <1>2, <1>3, <1>6, <1>7, <1>9
<1>14. Follows(r2, T \cup {h}, h, y)
  <2>1. CASE y = NULL
    <3>1. \A z \in T : ~(r[z] < r[at])
      BY <1>6, <2>1 DEF Follows
    <3>2. ~(r2[h] < r2[h])
      BY <1>1
    <3> QED BY <1>13, <2>1, <3>1, <3>2 DEF Follows
  <2>2. CASE y # NULL
    <3>1. y \in T /\ r2[y] < r2[h] /\ \A z \in T : r[z] < r[at] => r[z] <= r[y]
      BY <1>3, <1>6, <2>2 DEF Follows
    <3>2. ASSUME NEW z \in T \cup {h}, r2[z] < r2[h] PROVE r2[z] <= r2[y]
      <4>1. z \in T
        BY <1>1, <3>2
      <4>2. r[z] <= r[y]
        BY <1>13, <3>1, <3>2, <4>1
      <4> QED BY <1>1, <1>2, <3>1, <4>1, <4>2
    <3> QED BY <2>2, <3>1, <3>2 DEF Follows
  <2> QED BY <2>1, <2>2
<1>15. ASSUME NEW x \in T \cup {HEAD}, x # at, NEW w, w = s.fwd[x][i] PROVE Follows(r2, T \cup {h}, x, w)
  <2>1. Follows(r, T, x, w)
    BY <1>4, <1>15
  <2>2. w # NULL => w \in T /\ r[w] < r[x] /\ (\A z \in T : r[z] < r[x] => r[z] <= r[w]) /\ w # h
    BY <2>1 DEF Follows
  <2>3. w = NULL => \A z \in T : ~(r[z] < r[x])
    BY <2>1 DEF Follows
  <2>4. CASE small(x)
    <3>1. r[at] < r[x]
      <4>1. x \in T => ~(r[x] < r[at])
        BY <1>10, <2>4
      <4>2. x = HEAD => r[at] < r[x]
        BY <1>6, <1>15 DEF Ranks
      <4> QED BY <1>1, <1>6, <1>7, <1>15, <4>1, <4>2
    <3>2. at \in T
      <4>1. at # HEAD
        BY <1>1, <1>15, <3>1 DEF Ranks
      <4> QED BY <1>6, <4>1
    <3>3. w # NULL /\ r[at] <= r[w]
      BY <2>2, <2>3, <3>1, <3>2
    <3>4. r2[h] <= r2[w] /\ r2[w] < r2[x]
      BY <1>1, <1>2, <1>3, <1>6, <1>9, <2>2, <3>2, <3>3
    <3>5. \A z \in T \cup {h} : r2[z] < r2[x] => r2[z] <= r2[w]
      BY <1>1, <1>2, <2>2, <3>3, <3>4
    <3> QED BY <2>2, <3>3, <3>4, <3>5 DEF Follows
  <2>5. CASE ~small(x)
    <3>1. ~(r2[h] < r2[x])
      BY <1>1, <1>3, <2>5
    <3>2. CASE w = NULL
      BY <1>2, <2>3, <3>1, <3>2 DEF Follows
    <3>3. CASE w # NULL
      <4>1. w \in T /\ r2[w] < r2[x]
        BY <1>2, <2>2, <3>3
      <4>2. \A z \in T \cup {h} : r2[z] < r2[x] => r2[z] <= r2[w]
        BY <1>1, <1>2, <2>2, <3>1, <3>3
      <4> QED BY <3>3, <4>1, <4>2 DEF Follows
    <3> QED BY <3>2, <3>3
  <2> QED BY <2>4, <2>5
<1> QED BY <1>5, <1>8, <1>12, <1>14, <1>15

\* Ranks in the same order make the same list.
LEMMA FollowsSame ==
    ASSUME NEW T, NEW r, NEW r2, \A x, y \in T \cup {HEAD} : r2[x] < r2[y] <=> r[x] < r[y],
           \A x \in T \cup {HEAD} : r[x] \in Nat /\ r2[x] \in Nat,
           NEW x \in T \cup {HEAD}, NEW y, Follows(r, T, x, y)
    PROVE  Follows(r2, T, x, y)
<1>1. CASE y = NULL
  BY <1>1 DEF Follows
<1>2. CASE y # NULL
  <2>1. y \in T /\ r[y] < r[x] /\ \A z \in T : r[z] < r[x] => r[z] <= r[y]
    BY <1>2 DEF Follows
  <2>2. \A z \in T : r2[z] < r2[x] => ~(r2[y] < r2[z])
    BY <2>1
  <2> QED BY <1>2, <2>1, <2>2 DEF Follows
<1> QED BY <1>1, <1>2

\* klmalloc_skip_list_insert puts a new block where its size belongs.
LEMMA InsertSkips ==
    ASSUME NEW s, IsState(s), SkipOk(s, BigOf(s)), NEW F, Skips(s, F),
           NEW h \in BigOf(s), h \notin F, s.hdr[h].size \in Nat, NEW level \in Levels,
           s.hdr[h].head # NULL, Inside(s, h, s.hdr[h].head), Rounded(s, h),
           NEW t, t = klmalloc_skip_list_insert(s, h, level)
    PROVE  Skips(t, F \cup {h}) /\ t.status = s.status
<1> DEFINE update == Before(s, s.hdr[h].size)
           at(i) == IF i <= s.level THEN update[i] ELSE HEAD
           next(n, i) == IF i <= level /\ n = h THEN s.fwd[at(i)][i]
                         ELSE IF i <= level /\ n = at(i) THEN h ELSE s.fwd[n][i]
           fwd == [n \in Nodes(s) |-> [i \in Levels |-> next(n, i)]]
           top == Max({s.level, level})
<1>1. PICK r, T : Skip(s, F, r, T)
  BY DEF Skips
<1>2. /\ NULL \notin F /\ HEAD \notin F /\ F \subseteq BigOf(s) /\ h # HEAD /\ h # NULL /\ HEAD # NULL
      /\ \A x \in F \cup {h} : s.hdr[x].size \in Nat
  <2>1. NULL \notin BigOf(s) \cup {HEAD} /\ HEAD \notin BigOf(s)
    BY Ends
  <2> QED BY <1>1, <2>1 DEF Skip
<1>3. Ranks(s, F, r)
  BY <1>1 DEF Skip
<1>4. PICK r2 : Fitted(s, F, h, r, r2) /\ Ranks(s, F \cup {h}, r2)
  BY <1>2, <1>3, RankFor
<1>5. \A i \in Levels : T[i] \subseteq F /\ LevelIs(s, T[i], r, i)
  BY <1>1 DEF Skip
<1>6. ASSUME NEW i \in Levels PROVE LastSmaller(s, T[i], s.hdr[h].size, i, at(i))
  <2>1. CASE i <= s.level
    <3>1. i \in 0 .. s.level
      BY <2>1 DEF Levels, SkipOk
    <3> QED BY <1>1, <2>1, <3>1, BeforeReaches
  <2>2. CASE ~(i <= s.level)
    <3>1. T[i] = {} /\ at(i) = HEAD
      <4>1. i > s.level
        BY <2>2, Constants DEF Levels, SkipOk
      <4> QED BY <1>1, <2>2, <4>1 DEF Skip
    <3>2. s.fwd[HEAD][i] = NULL
      BY <1>5, <3>1 DEF LevelIs, Follows
    <3> QED BY <3>1, <3>2 DEF LastSmaller, Smaller
  <2> QED BY <2>1, <2>2
<1> HIDE DEF update, at
<1>7. \A i \in Levels : at(i) \in T[i] \cup {HEAD} /\ at(i) \in F \cup {HEAD} /\ at(i) # h
  BY <1>2, <1>5, <1>6 DEF LastSmaller
<1>8. Nodes(s) = BigOf(s) \cup {HEAD} /\ 0 \in Levels /\ s.level \in Levels /\ SKIP_MAX_LEVEL \in Nat
  BY Constants DEF SkipOk, Nodes, Levels
<1>9. s.fwd[update[0]][0] # h
  <2>1. at(0) = update[0]
    BY <1>8 DEF at, Levels
  <2>2. Follows(r, T[0], at(0), s.fwd[at(0)][0])
    BY <1>5, <1>7, <1>8 DEF LevelIs
  <2>3. s.fwd[at(0)][0] = NULL \/ s.fwd[at(0)][0] \in F
    BY <1>5, <1>8, <2>2 DEF Follows
  <2> QED BY <1>2, <2>1, <2>3
<1>10. t = [s EXCEPT !.fwd = fwd, !.level = top]
  BY <1>9 DEF klmalloc_skip_list_insert, fwd, top, next, at, update
<1>11. t.fwd = fwd /\ t.level = top /\ t.hdr = s.hdr /\ t.status = s.status /\ BigOf(t) = BigOf(s)
  <2>1. t.fwd = fwd /\ t.level = top /\ t.hdr = s.hdr /\ t.status = s.status
    BY <1>10 DEF IsState, Fields
  <2> QED BY <2>1 DEF BigOf, Headers, IsBig
<1>12. \A n \in F \cup {h} \cup {HEAD}, i \in Levels : t.fwd[n][i] = next(n, i)
  BY <1>2, <1>8, <1>11
<1>13. top \in Levels /\ level <= top /\ s.level <= top
  <2>1. {s.level, level} \subseteq 0 .. SKIP_MAX_LEVEL /\ {s.level, level} # {}
    BY <1>8 DEF Levels
  <2>2. top \in {s.level, level} /\ \A x \in {s.level, level} : x <= top
    BY <1>8, <2>1, MaxIn
  <2> QED BY <1>8, <2>2
<1>14. PICK T2 : T2 = [i \in Levels |-> IF i <= level THEN T[i] \cup {h} ELSE T[i]]
  OBVIOUS
<1> HIDE DEF fwd, top
<1>15. ASSUME NEW i \in Levels PROVE LevelIs(t, T2[i], r2, i)
  <2>1. CASE i <= level
    <3>1. T2[i] = T[i] \cup {h}
      BY <1>14, <2>1
    <3>2. PICK f : f = [n \in F \cup {h} \cup {HEAD} |-> t.fwd[n][i]]
      OBVIOUS
    <3>3. \A n \in F \cup {h} \cup {HEAD} : f[n] = next(n, i)
      BY <1>12, <3>2
    <3>4. f[at(i)] = h /\ f[h] = s.fwd[at(i)][i]
      BY <1>7, <2>1, <3>3
    <3>5. \A x \in T[i] \cup {HEAD} : x # at(i) => f[x] = s.fwd[x][i]
      BY <1>2, <1>5, <2>1, <3>3
    <3>6. Linked(s, T[i], r, i, h, at(i), f)
      BY <1>5, <1>6, <3>4, <3>5 DEF Linked
    <3>7. \A x \in T[i] \cup {h} \cup {HEAD} : Follows(r2, T[i] \cup {h}, x, f[x])
      BY <1>2, <1>3, <1>4, <1>5, <3>6, LevelInsert
    <3>8. \A x \in T[i] \cup {h} \cup {HEAD} : f[x] = t.fwd[x][i]
      BY <1>5, <3>2
    <3> QED BY <3>1, <3>7, <3>8 DEF LevelIs
  <2>2. CASE ~(i <= level)
    <3>1. T2[i] = T[i]
      BY <1>14, <2>2
    <3>2. \A x \in T[i] \cup {HEAD} : t.fwd[x][i] = s.fwd[x][i] /\ Follows(r, T[i], x, s.fwd[x][i])
      BY <1>5, <1>12, <2>2 DEF LevelIs
    <3>3. \A x, y \in T[i] \cup {HEAD} : r2[x] < r2[y] <=> r[x] < r[y]
      BY <1>4, <1>5 DEF Fitted
    <3>4. \A x \in T[i] \cup {HEAD} : r[x] \in Nat /\ r2[x] \in Nat
      BY <1>3, <1>4, <1>5 DEF Fitted, Ranks
    <3>5. \A x \in T[i] \cup {HEAD} : Follows(r2, T[i], x, s.fwd[x][i])
      BY <3>2, <3>3, <3>4, FollowsSame
    <3> QED BY <3>1, <3>2, <3>5 DEF LevelIs
  <2> QED BY <2>1, <2>2
<1>16. T2 \in [Levels -> SUBSET (F \cup {h})] /\ T2[0] = F \cup {h}
  <2>1. 0 <= level
    BY <1>8 DEF Levels
  <2> QED BY <1>1, <1>5, <1>8, <1>14, <2>1 DEF Skip
<1>17. \A i \in Levels \ {0} : T2[i] \subseteq T2[i - 1]
  <2> SUFFICES ASSUME NEW i \in Levels \ {0} PROVE T2[i] \subseteq T2[i - 1]
    OBVIOUS
  <2>1. i - 1 \in Levels /\ (i <= level => i - 1 <= level) /\ T[i] \subseteq T[i - 1]
    BY <1>1, <1>8 DEF Skip, Levels
  <2> QED BY <1>14, <2>1
<1>18. \A i \in Levels : i > t.level => T2[i] = {}
  <2> SUFFICES ASSUME NEW i \in Levels, i > t.level PROVE T2[i] = {}
    OBVIOUS
  <2>1. i > s.level /\ ~(i <= level)
    BY <1>8, <1>11, <1>13 DEF Levels
  <2> QED BY <1>1, <1>14, <2>1 DEF Skip
<1>19. Ranks(t, F \cup {h}, r2)
  BY <1>4, <1>11 DEF Ranks
<1>20. Skip(t, F \cup {h}, r2, T2)
  BY <1>2, <1>11, <1>15, <1>16, <1>17, <1>18, <1>19 DEF Skip
<1> QED BY <1>11, <1>20 DEF Skips

\* One level of the list without h, which was behind at.
Unlinked(s, T, r, i, h, at, f) ==
    /\ LevelIs(s, T, r, i) /\ h \in T /\ at \in T \cup {HEAD}
    /\ s.fwd[at][i] = h /\ f[at] = s.fwd[h][i]
    /\ \A x \in T \cup {HEAD} : x # at => f[x] = s.fwd[x][i]
LEMMA LevelDelete ==
    ASSUME NEW s, NEW F, NEW r, Ranks(s, F, r), NULL \notin F, HEAD \notin F, NEW T, T \subseteq F,
           NEW i, NEW h, NEW at, NEW f, Unlinked(s, T, r, i, h, at, f)
    PROVE  \A x \in (T \ {h}) \cup {HEAD} : Follows(r, T \ {h}, x, f[x])
<1>1. \A x \in T \cup {HEAD} : r[x] \in Nat /\ Follows(r, T, x, s.fwd[x][i])
  BY DEF Ranks, LevelIs, Unlinked
<1>2. \A x, y \in T : r[x] = r[y] => x = y
  BY DEF Ranks
<1>3. r[h] < r[at] /\ h # NULL /\ h # HEAD /\ \A z \in T : r[z] < r[at] => r[z] <= r[h]
  BY <1>1 DEF Follows, Unlinked
<1>u. h \in T /\ at \in T \cup {HEAD} /\ f[at] = s.fwd[h][i] /\ \A x \in T \cup {HEAD} : x # at => f[x] = s.fwd[x][i]
  BY DEF Unlinked
<1>4. ASSUME NEW x \in T \cup {HEAD}, x # h, x # at PROVE Follows(r, T \ {h}, x, s.fwd[x][i])
  <2>1. PICK y : y = s.fwd[x][i] /\ Follows(r, T, x, y)
    BY <1>1
  <2>2. CASE y = NULL
    BY <2>1, <2>2 DEF Follows
  <2>3. CASE y # NULL
    <3>1. y \in T /\ r[y] < r[x] /\ \A z \in T : r[z] < r[x] => r[z] <= r[y]
      BY <2>1, <2>3 DEF Follows
    <3>2. y # h
      <4> SUFFICES ASSUME y = h PROVE FALSE
        OBVIOUS
      <4>1. x \in T => ~(r[x] < r[at])
        BY <1>1, <1>3, <3>1
      <4>2. at \in T => ~(r[at] < r[x])
        BY <1>1, <1>3, <1>u, <3>1
      <4>3. \A z \in T : r[z] < r[HEAD]
        BY DEF Ranks
      <4>4. x \in T /\ at \in T => FALSE
        BY <1>1, <1>2, <1>4, <4>1, <4>2
      <4>5. x = HEAD => FALSE
        BY <1>1, <1>3, <1>4, <1>u, <4>2, <4>3
      <4>6. at = HEAD => FALSE
        BY <1>1, <1>3, <1>4, <1>u, <4>1, <4>3
      <4> QED BY <1>4, <1>u, <4>4, <4>5, <4>6
    <3> QED BY <2>1, <2>3, <3>1, <3>2 DEF Follows
  <2> QED BY <2>1, <2>2, <2>3
<1>5. Follows(r, T \ {h}, at, s.fwd[h][i])
  <2>1. PICK y : y = s.fwd[h][i] /\ Follows(r, T, h, y)
    BY <1>1, <1>u
  <2>2. \A z \in T \ {h} : r[z] < r[at] => r[z] < r[h]
    BY <1>1, <1>2, <1>3, <1>u
  <2>3. CASE y = NULL
    BY <2>1, <2>2, <2>3 DEF Follows
  <2>4. CASE y # NULL
    <3>1. y \in T /\ r[y] < r[h] /\ \A z \in T : r[z] < r[h] => r[z] <= r[y]
      BY <2>1, <2>4 DEF Follows
    <3>2. y # h /\ r[y] < r[at]
      BY <1>1, <1>3, <1>u, <3>1
    <3> QED BY <2>1, <2>2, <2>4, <3>1, <3>2 DEF Follows
  <2> QED BY <2>1, <2>3, <2>4
<1> QED BY <1>4, <1>5, <1>u

\* A level is a part of every level below.
LEMMA Nested ==
    ASSUME NEW s, NEW F, NEW r, NEW T, Skip(s, F, r, T), NEW i \in Levels, NEW j \in Levels, i <= j
    PROVE  T[j] \subseteq T[i]
<1>1. i \in Nat /\ j \in Nat /\ i .. j \subseteq Levels
  BY Constants DEF Levels
<1>2. PICK Z : Z = {k \in i .. j : T[k] \subseteq T[i]}
  OBVIOUS
<1>3. i \in Z
  BY <1>1, <1>2
<1>4. ASSUME NEW k \in i .. j - 1, k \in Z PROVE k + 1 \in Z
  <2>1. PICK a : a = k + 1 /\ a \in i .. j /\ a \in Levels \ {0} /\ a - 1 = k
    BY <1>1
  <2>2. T[a] \subseteq T[a - 1]
    BY <2>1 DEF Skip
  <2>3. T[k] \subseteq T[i]
    BY <1>2, <1>4
  <2>4. a \in Z
    BY <1>2, <2>1, <2>2, <2>3
  <2> QED BY <2>1, <2>4
<1>5. \A k \in i .. j : k \in Z
  BY <1>1, <1>3, <1>4, UpFrom
<1>6. j \in i .. j
  BY <1>1
<1> QED BY <1>2, <1>5, <1>6

\* klmalloc_skip_list_delete takes out the block that the search found.
LEMMA DeleteSkips ==
    ASSUME NEW s, IsState(s), SkipOk(s, BigOf(s)), NEW F, NEW r, NEW T, Skip(s, F, r, T),
           NEW asked \in Nat, NEW h, FirstOf(s, F, r, asked, h),
           s.hdr[h].head # NULL, Inside(s, h, s.hdr[h].head), NEW t, t = klmalloc_skip_list_delete(s, h)
    PROVE  Skips(t, F \ {h}) /\ t.status = s.status
<1> DEFINE size == s.hdr[h].size
           update == Before(s, size)
           off == {i \in 0 .. s.level : s.fwd[update[i]][i] # h}
           top == IF off = {} THEN s.level ELSE Min(off) - 1
           next(n, i) == IF i <= top /\ n = update[i] THEN s.fwd[h][i] ELSE s.fwd[n][i]
           fwd == [n \in Nodes(s) |-> [i \in Levels |-> next(n, i)]]
           used == {0} \cup {i \in 1 .. s.level : fwd[HEAD][i] # NULL}
<1>1. /\ NULL \notin F /\ HEAD \notin F /\ F \subseteq BigOf(s) /\ HEAD # NULL
      /\ Ranks(s, F, r) /\ \A x \in F : s.hdr[x].size \in Nat
  <2>1. NULL \notin BigOf(s) \cup {HEAD} /\ HEAD \notin BigOf(s)
    BY Ends
  <2>2. F \subseteq BigOf(s) /\ Ranks(s, F, r) /\ \A x \in F : s.hdr[x].size \in Nat
    BY DEF Skip
  <2> QED BY <2>1, <2>2
<1>2. h \in F /\ size \in Nat /\ \A x \in F : r[h] < r[x] => s.hdr[x].size < size
  BY <1>1 DEF FirstOf
<1>3. PICK n \in Nat : n = s.level /\ 0 .. n \subseteq Levels
  BY Constants DEF SkipOk, Levels
<1>4. \A i \in Levels : T[i] \subseteq F /\ LevelIs(s, T[i], r, i)
  BY DEF Skip
<1>5. \A i \in 0 .. n : LastSmaller(s, T[i], size, i, update[i])
  BY <1>3, BeforeReaches
<1> HIDE DEF update
<1>6. \A i \in 0 .. n : update[i] \in T[i] \cup {HEAD}
  BY <1>5 DEF LastSmaller
<1>7. ASSUME NEW i \in 0 .. n PROVE s.fwd[update[i]][i] = h <=> h \in T[i]
  <2>1. PICK x, y : x = update[i] /\ y = s.fwd[x][i]
    OBVIOUS
  <2>2. x \in T[i] \cup {HEAD} /\ Follows(r, T[i], x, y) /\ Smaller(s, x, size) /\ T[i] \subseteq F
    BY <1>3, <1>4, <1>5, <2>1 DEF LastSmaller, LevelIs
  <2>3. y = h => h \in T[i]
    BY <1>1, <1>2, <2>2 DEF Follows
  <2>4. ASSUME h \in T[i] PROVE y = h
    <3>1. r[h] < r[x]
      <4>1. CASE x = HEAD
        BY <1>1, <1>2, <4>1 DEF Ranks
      <4>2. CASE x # HEAD
        <5>1. x \in F /\ s.hdr[x].size < size
          BY <2>2, <4>2 DEF Smaller
        <5>2. x # h /\ ~(r[x] < r[h])
          BY <1>1, <1>2, <5>1 DEF Ranks
        <5> QED BY <1>1, <1>2, <5>1, <5>2 DEF Ranks
      <4> QED BY <4>1, <4>2
    <3>2. y \in T[i] /\ r[h] <= r[y]
      BY <2>2, <2>4, <3>1 DEF Follows
    <3>3. ~(s.hdr[y].size < size)
      BY <1>1, <1>5, <2>1, <2>2, <3>2 DEF LastSmaller
    <3>4. ~(r[h] < r[y])
      BY <1>2, <2>2, <3>2, <3>3
    <3> QED BY <1>1, <1>2, <2>2, <3>2, <3>4 DEF Ranks
  <2> QED BY <2>1, <2>3, <2>4
<1>8. off = {i \in 0 .. n : h \notin T[i]}
  BY <1>3, <1>7
<1> HIDE DEF off
<1>9. ASSUME NEW i \in Levels PROVE (i <= top <=> h \in T[i]) /\ (i <= top => i \in 0 .. n)
  <2>1. i \in Nat /\ (i > n => T[i] = {})
    BY <1>3, Constants DEF Skip, Levels
  <2>2. CASE off = {}
    <3>1. top = n
      BY <1>3, <2>2
    <3>2. i <= n => i \in 0 .. n /\ h \in T[i]
      BY <1>8, <2>1, <2>2
    <3> QED BY <2>1, <3>1, <3>2
  <2>3. CASE off # {}
    <3>1. off \subseteq Nat
      BY <1>8
    <3>2. PICK low : low = Min(off) /\ low \in off /\ \A x \in off : low <= x
      BY <2>3, <3>1, MinIn
    <3>3. low \in 0 .. n /\ h \notin T[low] /\ low \in Levels
      BY <1>3, <1>8, <3>2
    <3>4. top = low - 1
      BY <2>3, <3>2
    <3>5. i < low => i \in 0 .. n /\ h \in T[i]
      BY <1>8, <2>1, <3>2, <3>3
    <3>6. low <= i => h \notin T[i]
      BY <3>3, Nested
    <3> QED BY <2>1, <3>3, <3>4, <3>5, <3>6
  <2> QED BY <2>2, <2>3
<1> HIDE DEF top
<1>10. t = [s EXCEPT !.fwd = fwd, !.level = Max(used)]
  BY DEF klmalloc_skip_list_delete, used, fwd, next, top, off, update
<1>11. t.fwd = fwd /\ t.level = Max(used) /\ t.hdr = s.hdr /\ t.status = s.status /\ BigOf(t) = BigOf(s)
  <2>1. t.fwd = fwd /\ t.level = Max(used) /\ t.hdr = s.hdr /\ t.status = s.status
    BY <1>10 DEF IsState, Fields
  <2> QED BY <2>1 DEF BigOf, Headers, IsBig
<1>12. Nodes(s) = BigOf(s) \cup {HEAD} /\ 0 \in Levels
  BY <1>3 DEF SkipOk, Nodes
<1>13. \A x \in F \cup {HEAD}, i \in Levels : t.fwd[x][i] = next(x, i)
  BY <1>1, <1>11, <1>12
<1>14. used = {0} \cup {i \in 1 .. n : t.fwd[HEAD][i] # NULL}
  BY <1>3, <1>11
<1> HIDE DEF fwd, used
<1>15. Max(used) \in used /\ \A i \in used : i <= Max(used)
  <2>1. used \subseteq 0 .. n /\ used # {}
    BY <1>14
  <2> QED BY <2>1, MaxIn
<1>16. PICK T2 : T2 = [i \in Levels |-> T[i] \ {h}]
  OBVIOUS
<1>17. ASSUME NEW i \in Levels PROVE LevelIs(t, T2[i], r, i)
  <2>1. CASE i <= top
    <3>1. h \in T[i] /\ i \in 0 .. n
      BY <1>9, <2>1
    <3>2. PICK f : f = [x \in F \cup {HEAD} |-> t.fwd[x][i]]
      OBVIOUS
    <3>3. \A x \in F \cup {HEAD} : f[x] = next(x, i)
      BY <1>13, <3>2
    <3>4. update[i] \in T[i] \cup {HEAD} /\ s.fwd[update[i]][i] = h
      BY <1>6, <1>7, <3>1
    <3>5. f[update[i]] = s.fwd[h][i] /\ \A x \in T[i] \cup {HEAD} : x # update[i] => f[x] = s.fwd[x][i]
      BY <1>4, <2>1, <3>3, <3>4
    <3>6. PICK S, at : S = T[i] /\ at = update[i]
      OBVIOUS
    <3>7. S \subseteq F /\ LevelIs(s, S, r, i) /\ h \in S /\ at \in S \cup {HEAD}
      BY <1>4, <3>1, <3>4, <3>6
    <3>8. s.fwd[at][i] = h /\ f[at] = s.fwd[h][i] /\ \A x \in S \cup {HEAD} : x # at => f[x] = s.fwd[x][i]
      BY <3>4, <3>5, <3>6
    <3>u. Unlinked(s, S, r, i, h, at, f)
      BY <3>7, <3>8 DEF Unlinked
    <3>9. \A x \in (S \ {h}) \cup {HEAD} : Follows(r, S \ {h}, x, f[x])
      BY <1>1, <3>7, <3>u, LevelDelete
    <3>10. \A x \in (S \ {h}) \cup {HEAD} : f[x] = t.fwd[x][i]
      BY <3>2, <3>7
    <3> QED BY <1>16, <3>6, <3>9, <3>10 DEF LevelIs
  <2>2. CASE ~(i <= top)
    <3>1. T2[i] = T[i]
      BY <1>9, <1>16, <2>2
    <3>2. \A x \in T[i] \cup {HEAD} : t.fwd[x][i] = s.fwd[x][i]
      BY <1>4, <1>13, <2>2
    <3> QED BY <1>4, <3>1, <3>2 DEF LevelIs
  <2> QED BY <2>1, <2>2
<1>18. T2 \in [Levels -> SUBSET (F \ {h})] /\ T2[0] = F \ {h}
  BY <1>4, <1>12, <1>16 DEF Skip
<1>19. \A i \in Levels \ {0} : T2[i] \subseteq T2[i - 1]
  <2> SUFFICES ASSUME NEW i \in Levels \ {0} PROVE T2[i] \subseteq T2[i - 1]
    OBVIOUS
  <2>1. i - 1 \in Levels /\ T[i] \subseteq T[i - 1]
    BY Constants DEF Skip, Levels
  <2> QED BY <1>16, <2>1
<1>20. \A i \in Levels : i > t.level => T2[i] = {}
  <2> SUFFICES ASSUME NEW i \in Levels, i > t.level PROVE T2[i] = {}
    OBVIOUS
  <2>1. i \in Nat /\ i \notin used /\ i # 0
    BY <1>11, <1>14, <1>15, Constants DEF Levels
  <2>2. CASE i > n
    BY <1>3, <1>16, <2>2 DEF Skip
  <2>3. CASE ~(i > n)
    <3>1. t.fwd[HEAD][i] = NULL
      BY <1>14, <2>1, <2>3
    <3>2. \A z \in T2[i] : ~(r[z] < r[HEAD])
      BY <1>17, <3>1 DEF LevelIs, Follows
    <3>3. \A z \in T2[i] : r[z] < r[HEAD]
      BY <1>1, <1>4, <1>16 DEF Ranks
    <3> QED BY <3>2, <3>3
  <2> QED BY <2>2, <2>3
<1>21. Ranks(t, F \ {h}, r)
  BY <1>1, <1>11 DEF Ranks
<1>22. Skip(t, F \ {h}, r, T2)
  BY <1>1, <1>11, <1>17, <1>18, <1>19, <1>20, <1>21 DEF Skip
<1> QED BY <1>11, <1>22 DEF Skips

-----------------------------------------------------------------------------
(* The lists of the allocator: those of the bins, of the pages with a free *)
(* cell, and the skip list, of the big blocks that are free.               *)

NextOf(s) == [h \in Headers(s) |-> s.hdr[h].next]
Avail(s, b) == {h \in SmallOf(s, b) : s.hdr[h].head # NULL}
FreeOf(s) == {h \in BigOf(s) : s.hdr[h].head # NULL}
BinList(s, b) == Stack(s.first[b], NextOf(s), Avail(s, b))

\* The big blocks have whole pages, of those the kernel gives.
Paged(s) == s.brk <= MAX /\ \A h \in BigOf(s) : Rounded(s, h)

Ordered(s) == (\A b \in Bins : BinList(s, b)) /\ Skips(s, FreeOf(s)) /\ Paged(s)

\* The list of b is the same in s and t,
SameBin(s, t, b) ==
    /\ Avail(t, b) = Avail(s, b) /\ t.first[b] = s.first[b]
    /\ \A h \in Avail(s, b) : t.hdr[h].next = s.hdr[h].next
LEMMA BinFrame ==
    ASSUME NEW s, NEW t, NEW b, BinList(s, b), SameBin(s, t, b)
    PROVE  BinList(t, b)
<1>1. \A h \in Avail(s, b) : h \in Headers(s) /\ h \in Headers(t)
  BY DEF SameBin, Avail, SmallOf
<1>2. \A h \in Avail(s, b) : h \in DOMAIN NextOf(t) /\ NextOf(t)[h] = NextOf(s)[h]
  BY <1>1 DEF SameBin, NextOf
<1>3. Stack(s.first[b], NextOf(t), Avail(s, b))
  BY <1>2, StackFrame DEF BinList
<1> QED BY <1>3 DEF BinList, SameBin

\* and so is the skip list of F.
SameSkips(s, t, F) ==
    /\ F \subseteq BigOf(t) /\ t.level = s.level
    /\ \A x \in F : t.hdr[x].size = s.hdr[x].size
    /\ \A x \in F \cup {HEAD} : t.fwd[x] = s.fwd[x]
LEMMA SkipsFrame ==
    ASSUME NEW s, NEW t, NEW F, Skips(s, F), SameSkips(s, t, F)
    PROVE  Skips(t, F)
<1>1. PICK r, T : Skip(s, F, r, T)
  BY DEF Skips
<1>2. Ranks(t, F, r)
  BY <1>1 DEF Skip, Ranks, SameSkips
<1>3. \A i \in Levels : T[i] \subseteq F
  BY <1>1 DEF Skip
<1>4. \A i \in Levels : LevelIs(t, T[i], r, i)
  <2> SUFFICES ASSUME NEW i \in Levels, NEW x \in T[i] \cup {HEAD} PROVE Follows(r, T[i], x, t.fwd[x][i])
    BY DEF LevelIs
  <2>1. Follows(r, T[i], x, s.fwd[x][i])
    BY <1>1 DEF Skip, LevelIs
  <2>2. t.fwd[x] = s.fwd[x]
    BY <1>3 DEF SameSkips
  <2> QED BY <2>1, <2>2
<1>5. Skip(t, F, r, T)
  BY <1>1, <1>2, <1>4 DEF Skip, SameSkips
<1> QED BY <1>5 DEF Skips

\* t differs from s in the list of bin, and in nothing else that the lists know of.
Leaves(s, t, bin) ==
    /\ \A b \in Bins \ {bin} : SameBin(s, t, b)
    /\ FreeOf(t) = FreeOf(s) /\ SameSkips(s, t, FreeOf(s))
    /\ Paged(t)
LEMMA LeavesOrdered ==
    ASSUME NEW s, NEW t, NEW bin, Ordered(s), Leaves(s, t, bin), bin \in Bins => BinList(t, bin)
    PROVE  Ordered(t)
<1>1. \A b \in Bins : BinList(t, b)
  BY BinFrame DEF Leaves, Ordered
<1>2. Skips(t, FreeOf(t))
  BY SkipsFrame DEF Leaves, Ordered
<1> QED BY <1>1, <1>2 DEF Leaves, Ordered

LEMMA LeavesTwice ==
    ASSUME NEW s, NEW t, NEW u, NEW bin, Leaves(s, t, bin), Leaves(t, u, bin)
    PROVE  Leaves(s, u, bin)
<1>1. \A b \in Bins \ {bin} : SameBin(s, u, b)
  BY DEF Leaves, SameBin
<1>2. FreeOf(u) = FreeOf(s)
  BY DEF Leaves
<1>3. SameSkips(s, u, FreeOf(s))
  BY DEF Leaves, SameSkips
<1> QED BY <1>1, <1>2, <1>3 DEF Leaves

\* With other heads of stacks and the same sizes, the blocks and their pages stay.
LEMMA PagedSame ==
    ASSUME NEW s, NEW t, Layout(s), SameHeaders(s, t), Paged(s)
    PROVE  Paged(t)
<1>1. BigOf(t) = BigOf(s) /\ t.brk = s.brk /\ \A h \in BigOf(s) : t.hdr[h].size = s.hdr[h].size
  BY HeadersFrame DEF SameHeaders, BigOf
<1> QED BY <1>1 DEF Paged, Rounded

\* A new head of a stack: the page has a free cell or the block is free, or not.
LEMMA HeadLeaves ==
    ASSUME NEW s, NEW t, Layout(s), Paged(s), NEW h \in Headers(s), NEW x, HeadSet(s, t, h, x)
    PROVE  /\ \A b \in Bins : h \notin SmallOf(s, b) => SameBin(s, t, b)
           /\ \A b \in Bins : h \in SmallOf(s, b) =>
                Avail(t, b) = IF x = NULL THEN Avail(s, b) \ {h} ELSE Avail(s, b) \cup {h}
           /\ ~IsBig(s, h) => FreeOf(t) = FreeOf(s)
           /\ IsBig(s, h) => FreeOf(t) = IF x = NULL THEN FreeOf(s) \ {h} ELSE FreeOf(s) \cup {h}
           /\ BigOf(t) = BigOf(s) /\ \A F \in SUBSET BigOf(s) : SameSkips(s, t, F)
           /\ Paged(t)
<1>1. SameHeaders(s, t) /\ Headers(t) = Headers(s)
  BY DEF HeadSet, SameHeaders
<1>2. BigOf(t) = BigOf(s) /\ \A b : SmallOf(t, b) = SmallOf(s, b)
  BY <1>1, HeadersFrame
<1>3. /\ \A g \in Headers(s) : t.hdr[g].size = s.hdr[g].size
      /\ \A g \in Headers(s) : t.hdr[g].next = s.hdr[g].next /\ (g # h => t.hdr[g].head = s.hdr[g].head)
      /\ t.hdr[h].head = x /\ t.first = s.first /\ t.fwd = s.fwd /\ t.level = s.level
  BY <1>1 DEF HeadSet, SameHeaders
<1>4. ASSUME NEW b \in Bins, h \notin SmallOf(s, b) PROVE SameBin(s, t, b)
  <2>1. Avail(t, b) = Avail(s, b)
    BY <1>2, <1>3, <1>4 DEF Avail, SmallOf
  <2> QED BY <1>3, <2>1 DEF SameBin, Avail, SmallOf
<1>5. ASSUME NEW b \in Bins, h \in SmallOf(s, b)
      PROVE  Avail(t, b) = IF x = NULL THEN Avail(s, b) \ {h} ELSE Avail(s, b) \cup {h}
  <2>1. \A g \in SmallOf(s, b) : g # h => t.hdr[g].head = s.hdr[g].head
    BY <1>3 DEF SmallOf
  <2> QED BY <1>2, <1>3, <1>5, <2>1 DEF Avail
<1>6. \A g \in BigOf(s) : g # h => t.hdr[g].head = s.hdr[g].head
  BY <1>3 DEF BigOf
<1>7. ASSUME ~IsBig(s, h) PROVE FreeOf(t) = FreeOf(s)
  <2>1. h \notin BigOf(s)
    BY <1>7 DEF BigOf
  <2> QED BY <1>2, <1>6, <2>1 DEF FreeOf
<1>8. ASSUME IsBig(s, h) PROVE FreeOf(t) = IF x = NULL THEN FreeOf(s) \ {h} ELSE FreeOf(s) \cup {h}
  <2>1. h \in BigOf(s)
    BY <1>8 DEF BigOf
  <2> QED BY <1>2, <1>3, <1>6, <2>1 DEF FreeOf
<1>9. \A F \in SUBSET BigOf(s) : SameSkips(s, t, F)
  BY <1>2, <1>3 DEF SameSkips, BigOf
<1> QED BY <1>1, <1>2, <1>4, <1>5, <1>7, <1>8, <1>9, PagedSame

\* Other links of a bin change which pages have a free cell no more than the blocks.
LEMMA NextLeaves ==
    ASSUME NEW s, NEW t, Layout(s), Paged(s), NEW bin \in Bins, NEW h \in SmallOf(s, bin), NEW x, NEW f,
           DOMAIN s.first = Bins, NextSet(s, t, h, x, bin, f)
    PROVE  Leaves(s, t, bin) /\ Avail(t, bin) = Avail(s, bin)
<1>1. SameHeaders(s, t) /\ Headers(t) = Headers(s)
  BY DEF NextSet, SameHeaders
<1>2. BigOf(t) = BigOf(s) /\ \A b : SmallOf(t, b) = SmallOf(s, b)
  BY <1>1, HeadersFrame
<1>3. /\ \A g \in Headers(s) : t.hdr[g].size = s.hdr[g].size
      /\ \A g \in Headers(s) : t.hdr[g].head = s.hdr[g].head /\ (g # h => t.hdr[g].next = s.hdr[g].next)
      /\ t.fwd = s.fwd /\ t.level = s.level
      /\ \A b \in Bins : b # bin => t.first[b] = s.first[b]
  BY <1>1 DEF NextSet, SameHeaders
<1>4. \A b : Avail(t, b) = Avail(s, b)
  BY <1>2, <1>3 DEF Avail, SmallOf
<1>5. \A b \in Bins \ {bin} : \A g \in Avail(s, b) : g # h /\ g \in Headers(s)
  BY DEF Avail, SmallOf
<1>6. \A b \in Bins \ {bin} : SameBin(s, t, b)
  BY <1>3, <1>4, <1>5 DEF SameBin
<1>7. FreeOf(t) = FreeOf(s)
  BY <1>2, <1>3 DEF FreeOf, BigOf
<1>8. SameSkips(s, t, FreeOf(s))
  BY <1>2, <1>3 DEF SameSkips, FreeOf, BigOf
<1>9. Paged(t)
  BY <1>1, PagedSame
<1> QED BY <1>4, <1>6, <1>7, <1>8, <1>9 DEF Leaves

\* No assertion of pop and push is about anything else than a place of the page.
LEMMA SlotInside ==
    ASSUME NEW s, Layout(s), NEW h \in Headers(s), NEW u, Slot(s, h, u)
    PROVE  Inside(s, h, u) /\ (IsBig(s, h) \/ u >= h + BIN_HEADER)
<1>1. u \in Nat /\ h + BIN_HEADER <= u /\ u < h + PAGE_SIZE /\ h \in Nat /\ s.hdr[h].size \in Nat
      /\ Length(s, h) >= PAGE_SIZE
  BY SlotFits DEF Layout
<1>2. CASE IsBig(s, h)
  <2>1. u = h + BIG_HEADER /\ s.hdr[h].size + BIG_HEADER >= PAGE_SIZE
    BY <1>1, <1>2 DEF Slot, Length
  <2> QED BY <1>1, <1>2, <2>1, Constants DEF Inside
<1>3. CASE ~IsBig(s, h)
  BY <1>1, <1>3, Constants DEF Inside
<1> QED BY <1>2, <1>3

\* The first free cell is a place of its page.
LEMMA HeadIsSlot ==
    ASSUME NEW s, NEW U, Good(s, U), NEW h \in Headers(s), s.hdr[h].head # NULL
    PROVE  Slot(s, h, s.hdr[h].head) /\ Inside(s, h, s.hdr[h].head)
<1>1. Layout(s) /\ SmallOk(s, U) /\ BigOk(s, U)
  BY DEF Good
<1>2. CASE IsBig(s, h)
  <2>1. s.hdr[h].head = h + BIG_HEADER
    BY <1>1, <1>2 DEF BigOk, BigOf
  <2>2. Slot(s, h, s.hdr[h].head)
    BY <1>2, <2>1 DEF Slot
  <2> QED BY <1>1, <2>2, SlotInside
<1>3. CASE ~IsBig(s, h)
  <2>1. s.hdr[h].head \in CellsOf(h, s.hdr[h].size) \ U
    BY <1>1, <1>3, StackPop DEF SmallOk
  <2>2. Slot(s, h, s.hdr[h].head)
    BY <1>3, <2>1 DEF Slot
  <2> QED BY <1>1, <2>2, SlotInside
<1> QED BY <1>2, <1>3

\* So a pop from a page with a free cell goes well,
LEMMA PopOk ==
    ASSUME NEW s, NEW U, Good(s, U), s.status = "ok", NEW h \in Headers(s), s.hdr[h].head # NULL
    PROVE  klmalloc_stack_pop(s, h).status = "ok"
<1>1. PICK item : item = s.hdr[h].head
  OBVIOUS
<1>2. Layout(s) /\ Slot(s, h, item)
  BY <1>1, HeadIsSlot DEF Good
<1>3. klmalloc_stack_pop(s, h) = [s EXCEPT !.hdr[h].head = s.mem[item]]
  BY <1>1, <1>2, SlotInside DEF klmalloc_stack_pop
<1>4. HeadSet(s, [s EXCEPT !.hdr[h].head = s.mem[item]], h, s.mem[item])
  BY <1>2, SetHead
<1> QED BY <1>3, <1>4 DEF HeadSet

\* and so does a push of a place.
LEMMA PushOk ==
    ASSUME NEW s, Layout(s), s.status = "ok", NEW h \in Headers(s), NEW a, Slot(s, h, a)
    PROVE  klmalloc_stack_push(s, h, a).status = "ok"
<1>1. PICK mem : mem = Put(s.mem, a, s.hdr[h].head)
  OBVIOUS
<1>2. klmalloc_stack_push(s, h, a) = [s EXCEPT !.mem = mem, !.hdr[h].head = a]
  BY <1>1, SlotInside DEF klmalloc_stack_push
<1>3. IsState(s)
  BY DEF Layout
<1> QED BY <1>2, <1>3 DEF IsState, Fields

\* The list of a bin with one more page in front.
LEMMA BinPush ==
    ASSUME NEW s, NEW b, BinList(s, b), NEW h, h # NULL, h \notin Avail(s, b), NEW t, h \in Headers(t),
           Avail(t, b) = Avail(s, b) \cup {h}, t.first[b] = h, t.hdr[h].next = s.first[b],
           \A g \in Avail(s, b) : t.hdr[g].next = s.hdr[g].next
    PROVE  BinList(t, b)
<1>1. PICK S : S = Avail(s, b)
  OBVIOUS
<1>2. PICK new : new = Put(NextOf(s), h, s.first[b])
  OBVIOUS
<1>3. Stack(h, new, S \cup {h})
  BY <1>1, <1>2, StackPush DEF BinList
<1>4. \A g \in S : g \in Headers(s) /\ g \in Headers(t) /\ g # h
  BY <1>1 DEF Avail, SmallOf
<1>5. \A g \in S \cup {h} : g \in DOMAIN NextOf(t) /\ NextOf(t)[g] = new[g]
  BY <1>1, <1>2, <1>4 DEF NextOf, Put
<1>6. Stack(h, NextOf(t), S \cup {h})
  BY <1>3, <1>5, StackFrame
<1> QED BY <1>1, <1>6 DEF BinList

\* The list of a bin without its first page.
LEMMA BinPop ==
    ASSUME NEW s, NEW b, BinList(s, b), NEW h, h = s.first[b], h # NULL, NEW t,
           Avail(t, b) = Avail(s, b) \ {h}, t.first[b] = s.hdr[h].next,
           \A g \in Avail(s, b) \ {h} : t.hdr[g].next = s.hdr[g].next
    PROVE  BinList(t, b)
<1>1. PICK S : S = Avail(s, b)
  OBVIOUS
<1>2. PICK nx : nx = NextOf(s)
  OBVIOUS
<1>3. h \in S /\ Stack(nx[h], nx, S \ {h})
  BY <1>1, <1>2, StackPop DEF BinList
<1>4. h \in Headers(s) /\ nx[h] = s.hdr[h].next
  BY <1>1, <1>2, <1>3 DEF Avail, SmallOf, NextOf
<1>5. \A g \in S \ {h} : g \in Headers(s) /\ g \in Headers(t)
  BY <1>1 DEF Avail, SmallOf
<1>6. \A g \in S \ {h} : g \in DOMAIN NextOf(t) /\ NextOf(t)[g] = nx[g]
  BY <1>1, <1>2, <1>5 DEF NextOf
<1>7. Stack(nx[h], NextOf(t), S \ {h})
  BY <1>3, <1>6, StackFrame
<1> QED BY <1>1, <1>4, <1>7 DEF BinList

\* New pages disturb no list but the one they come to.
LEMMA GrowsLeaves ==
    ASSUME NEW s, NEW t, NEW U, Good(s, U), Paged(s), NEW h, Grows(s, t, h), NEW bin,
           IsBig(t, h) => Rounded(t, h) /\ t.hdr[h].head = NULL,
           ~IsBig(t, h) => t.hdr[h].size = bin,
           \A b \in Bins \ {bin} : t.first[b] = s.first[b]
    PROVE  Leaves(s, t, bin)
<1>1. Layout(s) /\ BigOk(s, U)
  BY DEF Good
<1>2. /\ Headers(t) = Headers(s) \cup {h} /\ h \notin Headers(s) /\ t.brk <= MAX /\ t.level = s.level
      /\ \A g \in Headers(s) : /\ t.hdr[g].size = s.hdr[g].size /\ t.hdr[g].head = s.hdr[g].head
                               /\ ~IsBig(s, g) => t.hdr[g].next = s.hdr[g].next
      /\ \A x \in BigOf(s) \cup {HEAD} : t.fwd[x] = s.fwd[x]
  BY DEF Grows
<1>3. \A g \in Headers(s) : IsBig(t, g) <=> IsBig(s, g)
  BY <1>2 DEF IsBig
<1>4. ASSUME NEW b \in Bins \ {bin} PROVE SameBin(s, t, b)
  <2>1. t.hdr[h].size # b
    <3>1. CASE IsBig(t, h)
      BY <3>1, Constants DEF IsBig, Bins
    <3> QED BY <3>1
  <2>2. SmallOf(t, b) = SmallOf(s, b)
    BY <1>2, <2>1 DEF SmallOf
  <2>3. Avail(t, b) = Avail(s, b)
    BY <1>2, <2>2 DEF Avail, SmallOf
  <2>4. \A g \in Avail(s, b) : g \in Headers(s) /\ ~IsBig(s, g)
    BY BinsAreSmall DEF Avail, SmallOf
  <2> QED BY <1>2, <2>3, <2>4 DEF SameBin
<1>5. FreeOf(t) = FreeOf(s)
  BY <1>2, <1>3 DEF FreeOf, BigOf
<1>6. BigOf(s) \subseteq BigOf(t) /\ \A g \in BigOf(s) : t.hdr[g].size = s.hdr[g].size
  BY <1>2, <1>3 DEF BigOf
<1>7. SameSkips(s, t, FreeOf(s))
  BY <1>2, <1>6 DEF SameSkips, FreeOf
<1>8. \A g \in BigOf(t) : Rounded(t, g)
  <2> SUFFICES ASSUME NEW g \in BigOf(t) PROVE Rounded(t, g)
    OBVIOUS
  <2>1. CASE g = h
    BY <2>1 DEF BigOf
  <2>2. CASE g \in Headers(s)
    <3>1. g \in BigOf(s)
      BY <1>3, <2>2 DEF BigOf
    <3> QED BY <1>2, <2>2, <3>1 DEF Paged, Rounded
  <2> QED BY <1>2, <2>1, <2>2 DEF BigOf
<1> QED BY <1>2, <1>4, <1>5, <1>7, <1>8 DEF Leaves, Paged

\* The kernel gives memory or does not.
LEMMA NewBinStatus ==
    ASSUME NEW s, IsState(s), NEW bin
    PROVE  NewBin(s, bin) = Fail(s, "lost") \/ NewBin(s, bin).status = s.status
<1> SUFFICES ASSUME NewBin(s, bin) # Fail(s, "lost") PROVE NewBin(s, bin).status = s.status
  OBVIOUS
<1>1. PICK hdr, mem : NewBin(s, bin) = klmalloc_list_insert([Sbrk(s, PAGE_SIZE) EXCEPT !.hdr = hdr, !.mem = mem], bin, s.brk)
  <2>1. CanSbrk(s, PAGE_SIZE)
    BY DEF NewBin
  <2> QED BY <2>1, Zenon DEF NewBin
<1> QED BY <1>1 DEF klmalloc_list_insert, Sbrk, IsState, Fields
LEMMA NewBigStatus ==
    ASSUME NEW s, IsState(s), NEW size
    PROVE  NewBig(s, size) = Fail(s, "lost") \/ NewBig(s, size).status = s.status
<1> SUFFICES ASSUME NewBig(s, size) # Fail(s, "lost") PROVE NewBig(s, size).status = s.status
  OBVIOUS
<1>1. CanSbrk(s, PAGE_SIZE * PagesFor(size))
  BY DEF NewBig
<1> QED BY <1>1 DEF NewBig, Sbrk, IsState, Fields

\* klmalloc gets a place from lists in order and leaves them so, as long as the kernel
\* gives memory.
Serves(s, t) == t = Fail(s, "lost") \/ (t.status = "ok" /\ Ordered(t))

\* The first page of a bin is one with a free cell, if need be a new one.
LEMMA SmallServes ==
    ASSUME NEW s, NEW U, Good(s, U), s.status = "ok", Ordered(s), NEW bin \in Bins
    PROVE  Serves(s, SmallFrom(s, bin, s.first[bin]).m)
<1>1. PICK found : found = s.first[bin]
  OBVIOUS
<1>2. PICK t : t = IF found = NULL THEN NewBin(s, bin) ELSE s
  OBVIOUS
<1>3. Layout(s) /\ SmallOk(s, U) /\ IsState(s)
  BY DEF Good, Layout
<1>4. PICK r : r = SmallFrom(s, bin, found).m
  OBVIOUS
<1>5. CASE t.status # "ok"
  <2>1. r = t /\ t = NewBin(s, bin)
    BY <1>2, <1>4, <1>5 DEF SmallFrom
  <2> QED BY <1>1, <1>3, <1>4, <1>5, <2>1, NewBinStatus DEF Serves
<1>6. CASE t.status = "ok"
  <2>1. Good(t, U) /\ Ordered(t) /\ t.first[bin] # NULL
    <3>1. CASE found = NULL
      <4>1. t = NewBin(s, bin)
        BY <1>2, <3>1
      <4>2. PICK h : h = s.brk
        OBVIOUS
      <4>3. /\ Good(t, U) /\ h \in SmallOf(t, bin) /\ t.first[bin] = h /\ Grows(s, t, h)
            /\ t.hdr[h].head # NULL /\ t.hdr[h].next = s.first[bin]
            /\ \A b \in Bins : b # bin => t.first[b] = s.first[b]
        BY <1>6, <4>1, <4>2, NewBinKeeps
      <4>4. h \in Headers(t) /\ t.hdr[h].size = bin /\ ~IsBig(t, h) /\ h # NULL
        <5>1. h \in Headers(t) /\ t.hdr[h].size = bin /\ ~IsBig(t, h)
          BY <4>3, BinsAreSmall DEF SmallOf
        <5> QED BY <4>3, <5>1, Constants DEF Good, Layout
      <4>5. Leaves(s, t, bin)
        BY <4>3, <4>4, GrowsLeaves DEF Ordered
      <4>6. h \notin Avail(s, bin) /\ Avail(t, bin) = Avail(s, bin) \cup {h}
            /\ \A g \in Avail(s, bin) : t.hdr[g].next = s.hdr[g].next
        <5>1. h \notin Headers(s) /\ Headers(t) = Headers(s) \cup {h}
              /\ \A g \in Headers(s) : /\ t.hdr[g].size = s.hdr[g].size /\ t.hdr[g].head = s.hdr[g].head
                                       /\ ~IsBig(s, g) => t.hdr[g].next = s.hdr[g].next
          BY <4>3 DEF Grows
        <5>2. \A g \in SmallOf(s, bin) : g \in Headers(s) /\ ~IsBig(s, g)
          BY BinsAreSmall DEF SmallOf
        <5>3. SmallOf(t, bin) = SmallOf(s, bin) \cup {h}
          BY <4>4, <5>1 DEF SmallOf
        <5> QED BY <4>3, <5>1, <5>2, <5>3 DEF Avail
      <4>7. BinList(t, bin)
        BY <4>3, <4>4, <4>6, BinPush DEF Ordered
      <4> QED BY <4>3, <4>4, <4>5, <4>7, LeavesOrdered
    <3>2. CASE found # NULL
      BY <1>1, <1>2, <3>2
    <3> QED BY <3>1, <3>2
  <2>2. PICK h : h = t.first[bin]
    OBVIOUS
  <2>3. h \in Avail(t, bin) /\ BinList(t, bin)
    BY <2>1, <2>2, StackPop DEF Ordered, BinList
  <2>4. h \in SmallOf(t, bin) /\ h \in Headers(t) /\ ~IsBig(t, h) /\ t.hdr[h].head # NULL
    BY <2>3, BinsAreSmall DEF Avail, SmallOf
  <2>5. PICK p : p = klmalloc_stack_pop(t, h)
    OBVIOUS
  <2>6. r = IF klmalloc_stack_empty(p, h) THEN klmalloc_list_decouple(p, bin, h) ELSE p
    BY <1>2, <1>4, <1>6, <2>2, <2>5 DEF SmallFrom, klmalloc_list_head
  <2>7. p.status = "ok"
    BY <1>6, <2>1, <2>4, <2>5, PopOk
  <2>8. PICK item : item = t.hdr[h].head
    OBVIOUS
  <2>9. PICK x : x = t.mem[item]
    OBVIOUS
  <2>10. Good(p, U \cup {item}) /\ HeadSet(t, p, h, x) /\ Layout(t) /\ Layout(p)
    <3>1. Good(t, U) /\ h \in Headers(t)
      BY <2>1, <2>4
    <3>2. klmalloc_stack_pop(t, h).status = "ok"
      BY <2>5, <2>7
    <3>3. Good(p, U \cup {item}) /\ HeadSet(t, p, h, x)
      BY <2>5, <2>8, <2>9, <3>1, <3>2, PopIs
    <3> QED BY <3>1, <3>3 DEF Good
  <2>11. /\ \A b \in Bins : h \notin SmallOf(t, b) => SameBin(t, p, b)
         /\ Avail(p, bin) = IF x = NULL THEN Avail(t, bin) \ {h} ELSE Avail(t, bin) \cup {h}
         /\ FreeOf(p) = FreeOf(t) /\ SameSkips(t, p, FreeOf(t)) /\ Paged(p)
    <3>1. FreeOf(t) \in SUBSET BigOf(t) /\ Paged(t)
      BY <2>1 DEF FreeOf, Ordered
    <3> QED BY <2>4, <2>10, <3>1, HeadLeaves
  <2>12. \A b \in Bins \ {bin} : h \notin SmallOf(t, b)
    BY <2>4 DEF SmallOf
  <2>13. Leaves(t, p, bin)
    BY <2>11, <2>12 DEF Leaves
  <2>14. /\ SameHeaders(t, p) /\ p.first = t.first /\ p.hdr[h].head = x
         /\ \A g \in Headers(t) : p.hdr[g].next = t.hdr[g].next
    BY <2>10 DEF HeadSet
  <2>15. CASE x # NULL
    <3>1. r = p
      BY <2>6, <2>14, <2>15 DEF klmalloc_stack_empty
    <3>2. Avail(p, bin) = Avail(t, bin)
      BY <2>3, <2>11, <2>15
    <3>3. SameBin(t, p, bin)
      BY <2>14, <3>2 DEF SameBin, Avail, SmallOf
    <3>4. Ordered(p)
      BY <2>1, <2>3, <2>13, <3>3, BinFrame, LeavesOrdered
    <3> QED BY <1>1, <1>4, <2>7, <3>1, <3>4 DEF Serves
  <2>16. CASE x = NULL
    <3>1. PICK q : q = klmalloc_list_decouple(p, bin, h)
      OBVIOUS
    <3>2. r = q
      BY <2>6, <2>14, <2>16, <3>1 DEF klmalloc_stack_empty
    <3>3. h \in SmallOf(p, bin)
      BY <2>4, <2>10, <2>14, HeadersFrame
    <3>4. NextSet(p, q, h, NULL, bin, p.hdr[h].next)
      BY <2>10, <3>1, <3>3, DecoupleKeeps
    <3>5. DOMAIN p.first = Bins
      BY <2>10 DEF Good, SmallOk
    <3>6. Leaves(p, q, bin) /\ Avail(q, bin) = Avail(p, bin)
      BY <2>10, <2>11, <3>3, <3>4, <3>5, NextLeaves
    <3>7. q.status = "ok" /\ q.first[bin] = p.hdr[h].next /\ \A g \in Headers(p) : g # h => q.hdr[g].next = p.hdr[g].next
      BY <2>7, <3>4 DEF NextSet
    <3>8. Headers(p) = Headers(t)
      BY <2>14 DEF SameHeaders
    <3>9. /\ Avail(q, bin) = Avail(t, bin) \ {h} /\ q.first[bin] = t.hdr[h].next
          /\ \A g \in Avail(t, bin) \ {h} : q.hdr[g].next = t.hdr[g].next
      BY <2>4, <2>11, <2>14, <2>16, <3>6, <3>7, <3>8 DEF Avail, SmallOf
    <3>10. BinList(q, bin)
      BY <2>1, <2>2, <2>3, <3>9, BinPop
    <3>11. Ordered(q)
      BY <2>1, <2>13, <3>6, <3>10, LeavesTwice, LeavesOrdered
    <3> QED BY <1>1, <1>4, <3>2, <3>7, <3>11 DEF Serves
  <2> QED BY <2>15, <2>16
<1> QED BY <1>5, <1>6

\* The block that the search found leaves the skip list, or there is a new one.
LEMMA BigServes ==
    ASSUME NEW s, NEW U, Good(s, U), s.status = "ok", Ordered(s), NEW size \in Nat,
           NEW found, found = klmalloc_skip_list_findbest(s, size)
    PROVE  Serves(s, BigFrom(s, size, found).m)
<1>1. Layout(s) /\ BigOk(s, U) /\ IsState(s) /\ SkipOk(s, BigOf(s))
  BY DEF Good, Layout, BigOk
<1>2. PICK r : r = BigFrom(s, size, found).m
  OBVIOUS
<1>3. CASE found = NULL
  <2>1. r = NewBig(s, size)
    BY <1>2, <1>3 DEF BigFrom
  <2>2. CASE r.status # "ok"
    BY <1>1, <1>2, <2>1, <2>2, NewBigStatus DEF Serves
  <2>3. CASE r.status = "ok"
    <3>1. PICK h : h = s.brk
      OBVIOUS
    <3>2. PICK at : at = h + BIG_HEADER
      OBVIOUS
    <3>3. /\ h \in BigOf(r) /\ Grows(s, r, h) /\ r.hdr[h].head = NULL /\ Rounded(r, h) /\ r.first = s.first
      BY <2>1, <2>3, <3>1, <3>2, NewBigKeeps
    <3>4. Leaves(s, r, BIG_BIN)
      <4>1. IsBig(r, h)
        BY <3>3 DEF BigOf
      <4>2. \A b \in Bins \ {BIG_BIN} : r.first[b] = s.first[b]
        BY <3>3
      <4> QED BY <3>3, <4>1, <4>2, GrowsLeaves DEF Ordered
    <3>5. BIG_BIN \notin Bins
      BY Constants DEF Bins
    <3>6. Ordered(r)
      BY <3>4, <3>5, LeavesOrdered
    <3> QED BY <1>2, <2>3, <3>6 DEF Serves
  <2> QED BY <2>2, <2>3
<1>4. CASE found # NULL
  <2>1. PICK F : F = FreeOf(s)
    OBVIOUS
  <2>2. PICK ranks, T : Skip(s, F, ranks, T)
    BY <2>1 DEF Ordered, Skips
  <2>3. FirstOf(s, F, ranks, size, found)
    BY <1>1, <1>4, <2>2, FindReaches
  <2>4. found \in F /\ ~(s.hdr[found].size < size)
    BY <2>3 DEF FirstOf
  <2>5. found \in BigOf(s) /\ found \in Headers(s) /\ IsBig(s, found) /\ s.hdr[found].head # NULL
    BY <2>1, <2>4 DEF FreeOf, BigOf
  <2>6. Inside(s, found, s.hdr[found].head)
    BY <2>5, HeadIsSlot
  <2>7. PICK d : d = klmalloc_skip_list_delete(s, found)
    OBVIOUS
  <2>8. Skips(d, F \ {found}) /\ d.status = "ok"
    BY <1>1, <2>2, <2>3, <2>5, <2>6, <2>7, DeleteSkips
  <2>9. OnlySkips(s, d) /\ SkipOk(d, BigOf(s))
    BY <1>1, <2>5, <2>7, SkipDelete
  <2>10. d.hdr = s.hdr /\ d.first = s.first /\ d.brk = s.brk /\ d.mem = s.mem
    BY <2>9 DEF OnlySkips
  <2>11. Good(d, U) /\ Layout(d)
    BY <2>9, SkipsKeep DEF Good
  <2>12. PICK t : t = klmalloc_stack_pop(d, found)
    OBVIOUS
  <2>13. r = t
    BY <1>2, <1>4, <2>4, <2>7, <2>12 DEF BigFrom
  <2>14. BigOf(d) = BigOf(s) /\ Headers(d) = Headers(s) /\ FreeOf(d) = F /\ (\A b : SmallOf(d, b) = SmallOf(s, b))
         /\ (\A b : Avail(d, b) = Avail(s, b)) /\ IsBig(d, found) /\ d.hdr[found].head # NULL
    BY <2>1, <2>5, <2>10 DEF BigOf, Headers, FreeOf, SmallOf, Avail, IsBig
  <2>15. Paged(d)
    BY <2>10, <2>14 DEF Ordered, Paged, Rounded
  <2>16. t.status = "ok"
    BY <2>5, <2>8, <2>11, <2>12, <2>14, PopOk
  <2>17. PICK item : item = d.hdr[found].head
    OBVIOUS
  <2>18. d.mem[item] = NULL
    BY <1>1, <2>5, <2>10, <2>17 DEF BigOk
  <2>19. HeadSet(d, t, found, NULL)
    <3>1. found \in Headers(d)
      BY <2>5, <2>14
    <3>2. klmalloc_stack_pop(d, found).status = "ok"
      BY <2>12, <2>16
    <3>3. HeadSet(d, t, found, d.mem[item])
      BY <2>11, <2>12, <2>17, <3>1, <3>2, PopIs
    <3> QED BY <2>18, <3>3
  <2>20. \A b \in Bins : found \notin SmallOf(d, b)
    BY <2>14, BinsAreSmall DEF SmallOf
  <2>21. /\ \A b \in Bins : SameBin(d, t, b)
         /\ FreeOf(t) = F \ {found} /\ SameSkips(d, t, F \ {found}) /\ Paged(t)
    <3>1. F \ {found} \in SUBSET BigOf(d)
      BY <2>1, <2>14 DEF FreeOf
    <3>2. found \in Headers(d) /\ IsBig(d, found) /\ FreeOf(d) = F
      BY <2>5, <2>14
    <3>3. /\ \A b \in Bins : found \notin SmallOf(d, b) => SameBin(d, t, b)
          /\ FreeOf(t) = FreeOf(d) \ {found}
          /\ \A G \in SUBSET BigOf(d) : SameSkips(d, t, G)
          /\ Paged(t)
      <4>1. PICK x : x = NULL /\ HeadSet(d, t, found, x)
        BY <2>19
      <4>2. IsBig(d, found) => FreeOf(t) = IF x = NULL THEN FreeOf(d) \ {found} ELSE FreeOf(d) \cup {found}
        BY <2>11, <2>15, <3>2, <4>1, HeadLeaves
      <4>3. /\ \A b \in Bins : found \notin SmallOf(d, b) => SameBin(d, t, b)
            /\ \A G \in SUBSET BigOf(d) : SameSkips(d, t, G)
            /\ Paged(t)
        BY <2>11, <2>15, <3>2, <4>1, HeadLeaves
      <4> QED BY <3>2, <4>1, <4>2, <4>3
    <3> QED BY <2>20, <3>1, <3>2, <3>3
  <2>22. \A b \in Bins : BinList(t, b)
    <3>1. \A b \in Bins : SameBin(s, d, b)
      BY <2>10, <2>14 DEF SameBin
    <3> QED BY <2>21, <3>1, BinFrame DEF Ordered
  <2>23. Skips(t, FreeOf(t))
    BY <2>8, <2>21, SkipsFrame
  <2> QED BY <1>2, <2>13, <2>16, <2>21, <2>22, <2>23 DEF Serves, Ordered
<1> QED BY <1>3, <1>4

\* klmalloc with the header that the search found.
LEMMA KlmallocServes ==
    ASSUME NEW s, NEW U, Good(s, U), s.status = "ok", Ordered(s), NEW size \in Nat
    PROVE  Serves(s, klmalloc(s, size, BinHeader(s, size)).m)
<1>1. PICK bin : bin = klmalloc_bin_size(size)
  OBVIOUS
<1>2. bin < BIG_BIN => bin \in Bins
  BY <1>1, BinSize
<1>3. CASE bin < BIG_BIN
  <2>1. klmalloc(s, size, BinHeader(s, size)) = SmallFrom(s, bin, s.first[bin])
    BY <1>1, <1>3 DEF klmalloc, BinHeader, klmalloc_list_head
  <2> QED BY <1>2, <1>3, <2>1, SmallServes
<1>4. CASE ~(bin < BIG_BIN)
  <2>1. PICK found : found = klmalloc_skip_list_findbest(s, size)
    OBVIOUS
  <2>2. klmalloc(s, size, BinHeader(s, size)) = BigFrom(s, size, found)
    BY <1>1, <1>4, <2>1 DEF klmalloc, BinHeader
  <2> QED BY <2>1, <2>2, BigServes
<1> QED BY <1>3, <1>4

\* klfree puts a place back: no assertion fails, and the lists stay in order.
LEMMA FreeServes ==
    ASSUME NEW s, NEW U, Good(s, U), s.status = "ok", Ordered(s), NEW h, NEW u \in U, NEW ptr,
           TakesPlace(s, h, u, ptr), NEW level \in Levels, NEW r, r = klfree(s, ptr, level)
    PROVE  r.status = "ok" /\ Ordered(r)
<1>1. Layout(s) /\ SmallOk(s, U) /\ BigOk(s, U) /\ IsState(s) /\ Paged(s)
  BY DEF Good, Layout, Ordered
<1>2. h \in Headers(s) /\ Slot(s, h, u) /\ (IsBig(s, h) \/ s.hdr[h].size \in Bins)
  BY <1>1 DEF TakesPlace, Layout
<1>3. u # NULL /\ h # NULL
  BY <1>1, <1>2, SlotFits, Constants DEF Layout
<1>4. CASE ~IsBig(s, h)
  <2>1. PICK bin \in Bins : bin = s.hdr[h].size
    BY <1>2, <1>4
  <2>2. PICK l : l = IF klmalloc_stack_empty(s, h) THEN klmalloc_list_insert(s, bin, h) ELSE s
    OBVIOUS
  <2>3. r = klmalloc_stack_push(l, h, u)
    BY <1>1, <1>4, <2>1, <2>2, FreeIs
  <2>4. h \in SmallOf(s, bin)
    BY <1>2, <2>1 DEF SmallOf
  <2>5. /\ Good(l, U) /\ SameHeaders(s, l) /\ Leaves(s, l, bin) /\ Avail(l, bin) = Avail(s, bin) /\ l.status = "ok"
        /\ h \in Avail(s, bin) => l = s
        /\ h \notin Avail(s, bin) => l.first[bin] = h /\ l.hdr[h].next = s.first[bin]
        /\ \A g \in Headers(s) : g # h => l.hdr[g].next = s.hdr[g].next
    <3>1. CASE klmalloc_stack_empty(s, h)
      <4>1. l = klmalloc_list_insert(s, bin, h) /\ DOMAIN s.first = Bins
        BY <1>1, <2>2, <3>1 DEF SmallOk
      <4>2. Good(l, U) /\ NextSet(s, l, h, s.first[bin], bin, h)
        BY <2>4, <4>1, InsertKeeps
      <4>3. Leaves(s, l, bin) /\ Avail(l, bin) = Avail(s, bin)
        BY <1>1, <2>4, <4>1, <4>2, NextLeaves
      <4>4. h \notin Avail(s, bin)
        BY <3>1 DEF Avail, klmalloc_stack_empty
      <4> QED BY <4>2, <4>3, <4>4 DEF NextSet
    <3>2. CASE ~klmalloc_stack_empty(s, h)
      <4>1. l = s /\ h \in Avail(s, bin)
        BY <2>2, <2>4, <3>2 DEF Avail, klmalloc_stack_empty
      <4>2. SameHeaders(s, s)
        BY <1>1 DEF SameHeaders, Layout
      <4>3. Leaves(s, s, bin)
        BY <1>1 DEF Leaves, SameBin, SameSkips, FreeOf
      <4> QED BY <4>1, <4>2, <4>3
    <3> QED BY <3>1, <3>2
  <2>6. /\ Layout(l) /\ h \in Headers(l) /\ Slot(l, h, u) /\ h \in SmallOf(l, bin) /\ ~IsBig(l, h)
        /\ Paged(l) /\ Headers(l) = Headers(s)
    BY <1>1, <1>2, <1>4, <2>4, <2>5, HeadersFrame DEF SameHeaders, Leaves
  <2>7. r.status = "ok"
    BY <2>3, <2>5, <2>6, PushOk
  <2>8. HeadSet(l, r, h, u)
    BY <2>3, <2>5, <2>6, <2>7, PushKeeps
  <2>9. /\ \A b \in Bins : h \notin SmallOf(l, b) => SameBin(l, r, b)
        /\ Avail(r, bin) = Avail(l, bin) \cup {h}
        /\ FreeOf(r) = FreeOf(l) /\ SameSkips(l, r, FreeOf(l)) /\ Paged(r)
    <3>1. FreeOf(l) \in SUBSET BigOf(l)
      BY DEF FreeOf
    <3> QED BY <1>3, <2>6, <2>8, <3>1, HeadLeaves
  <2>10. Leaves(s, r, bin)
    <3>1. \A b \in Bins \ {bin} : h \notin SmallOf(l, b)
      BY <2>6 DEF SmallOf
    <3>2. Leaves(l, r, bin)
      BY <2>9, <3>1 DEF Leaves
    <3> QED BY <2>5, <3>2, LeavesTwice
  <2>11. r.first = l.first /\ Headers(r) = Headers(l) /\ \A g \in Headers(l) : r.hdr[g].next = l.hdr[g].next
    BY <2>8 DEF HeadSet, SameHeaders
  <2>12. BinList(r, bin)
    <3>1. BinList(s, bin)
      BY DEF Ordered
    <3>2. CASE h \in Avail(s, bin)
      <4>1. Avail(r, bin) = Avail(s, bin) /\ l = s
        BY <2>5, <2>9, <3>2
      <4>2. SameBin(s, r, bin)
        BY <2>11, <4>1 DEF SameBin, Avail, SmallOf
      <4> QED BY <3>1, <4>2, BinFrame
    <3>3. CASE h \notin Avail(s, bin)
      <4>1. /\ Avail(r, bin) = Avail(s, bin) \cup {h} /\ r.first[bin] = h /\ r.hdr[h].next = s.first[bin]
            /\ h \in Headers(r)
        BY <2>5, <2>6, <2>9, <2>11, <3>3
      <4>2. \A g \in Avail(s, bin) : r.hdr[g].next = s.hdr[g].next
        BY <2>5, <2>6, <2>11, <3>3 DEF Avail, SmallOf
      <4> QED BY <1>3, <3>1, <3>3, <4>1, <4>2, BinPush
    <3> QED BY <3>2, <3>3
  <2> QED BY <2>7, <2>10, <2>12, LeavesOrdered
<1>5. CASE IsBig(s, h)
  <2>1. u = h + BIG_HEADER /\ h \in BigOf(s)
    BY <1>2, <1>5 DEF Slot, BigOf
  <2>2. s.hdr[h].head = NULL /\ Rounded(s, h)
    BY <1>1, <2>1 DEF BigOk, Paged
  <2>3. PICK p : p = klmalloc_stack_push(s, h, u)
    OBVIOUS
  <2>4. r = klmalloc_skip_list_insert(p, h, level)
    BY <1>1, <1>5, <2>2, <2>3, FreeIs DEF klmalloc_stack_empty
  <2>5. p.status = "ok"
    BY <1>1, <1>2, <2>3, PushOk
  <2>6. Good(p, U \ {u}) /\ HeadSet(s, p, h, u)
    BY <1>2, <2>3, <2>5, PushKeeps
  <2>7. PICK F : F = FreeOf(s)
    OBVIOUS
  <2>8. h \notin F /\ F \in SUBSET BigOf(s)
    BY <2>2, <2>7 DEF FreeOf
  <2>9. /\ \A b \in Bins : SameBin(s, p, b)
        /\ FreeOf(p) = F \cup {h} /\ BigOf(p) = BigOf(s) /\ SameSkips(s, p, F) /\ Paged(p)
    <3>1. \A b \in Bins : h \notin SmallOf(s, b)
      BY <1>5, BinsAreSmall DEF SmallOf
    <3>2. h \in Headers(s) /\ HeadSet(s, p, h, u)
      BY <1>2, <2>6
    <3>3. /\ \A b \in Bins : h \notin SmallOf(s, b) => SameBin(s, p, b)
          /\ IsBig(s, h) => FreeOf(p) = IF u = NULL THEN FreeOf(s) \ {h} ELSE FreeOf(s) \cup {h}
          /\ BigOf(p) = BigOf(s) /\ (\A G \in SUBSET BigOf(s) : SameSkips(s, p, G)) /\ Paged(p)
      BY <1>1, <3>2, HeadLeaves
    <3> QED BY <1>3, <1>5, <2>7, <2>8, <3>1, <3>3
  <2>10. Skips(p, F)
    BY <2>7, <2>9, SkipsFrame DEF Ordered
  <2>11. /\ IsState(p) /\ SkipOk(p, BigOf(p)) /\ h \in BigOf(p) /\ h \in Headers(p) /\ p.hdr[h].head = u
         /\ p.hdr[h].size \in Nat
    BY <2>1, <2>6, <2>9 DEF Good, Layout, BigOk, HeadSet, BigOf
  <2>12. Inside(p, h, p.hdr[h].head) /\ p.hdr[h].head # NULL
    BY <1>3, <2>6, <2>11, HeadIsSlot
  <2>13. Skips(r, F \cup {h}) /\ r.status = "ok"
    BY <2>4, <2>5, <2>8, <2>9, <2>10, <2>11, <2>12, InsertSkips DEF Paged
  <2>14. OnlySkips(p, r)
    BY <2>4, <2>11, SkipInsert
  <2>15. r.hdr = p.hdr /\ r.first = p.first /\ r.brk = p.brk
    BY <2>14 DEF OnlySkips
  <2>16. BigOf(r) = BigOf(p) /\ FreeOf(r) = FreeOf(p) /\ (\A b : Avail(r, b) = Avail(p, b))
         /\ \A g \in BigOf(p) : Rounded(p, g) => Rounded(r, g)
    BY <2>15 DEF BigOf, Headers, FreeOf, SmallOf, Avail, IsBig, Rounded
  <2>17. Paged(r)
    BY <2>9, <2>15, <2>16 DEF Paged
  <2>18. \A b \in Bins : BinList(r, b)
    <3>1. \A b \in Bins : SameBin(p, r, b)
      BY <2>15, <2>16 DEF SameBin
    <3> QED BY <2>9, <3>1, BinFrame DEF Ordered
  <2> QED BY <2>9, <2>13, <2>16, <2>17, <2>18 DEF Ordered
<1> QED BY <1>4, <1>5

\* What the users store is nothing to the lists.
LEMMA WriteOrdered ==
    ASSUME NEW s, IsState(s), Ordered(s), NEW a, NEW v
    PROVE  Ordered(Write(s, a, v)) /\ Write(s, a, v).status = s.status
<1>1. PICK t : t = Write(s, a, v)
  OBVIOUS
<1>2. t.hdr = s.hdr /\ t.first = s.first /\ t.fwd = s.fwd /\ t.level = s.level /\ t.brk = s.brk /\ t.status = s.status
  BY <1>1 DEF Write, IsState, Fields
<1>3. BigOf(t) = BigOf(s) /\ FreeOf(t) = FreeOf(s) /\ (\A b : Avail(t, b) = Avail(s, b))
      /\ \A g \in BigOf(s) : Rounded(s, g) => Rounded(t, g)
  BY <1>2 DEF BigOf, Headers, FreeOf, SmallOf, Avail, IsBig, Rounded
<1>4. Leaves(s, t, BIG_BIN)
  <2>1. \A b \in Bins : SameBin(s, t, b)
    BY <1>2, <1>3 DEF SameBin
  <2>2. SameSkips(s, t, FreeOf(s)) /\ Paged(t)
    BY <1>2, <1>3 DEF SameSkips, FreeOf, Paged, Ordered
  <2> QED BY <1>3, <2>1, <2>2 DEF Leaves
<1>5. BIG_BIN \notin Bins
  BY Constants DEF Bins
<1> QED BY <1>1, <1>2, <1>4, <1>5, LeavesOrdered

-----------------------------------------------------------------------------
(* The lists while threads work.                                           *)

\* The addresses of headers are in the memory the kernel gives.
Typed(s) ==
    /\ s.brk \in PAGE_SIZE .. MAX /\ s.level \in Levels
    /\ Headers(s) \cup ({s.newest} \ {NULL}) \subseteq PAGE_SIZE .. MAX - 1
LEMMA OrderedTyped ==
    ASSUME NEW s, NEW U, Good(s, U), Ordered(s)
    PROVE  Typed(s)
<1>1. Layout(s) /\ BigOk(s, U) /\ s.brk <= MAX
  BY DEF Good, Ordered, Paged
<1>2. s.brk \in PAGE_SIZE .. MAX
  BY <1>1, Constants DEF Layout
<1>3. ASSUME NEW h \in Headers(s) PROVE h \in PAGE_SIZE .. MAX - 1
  <2>1. h \in Nat /\ h >= PAGE_SIZE /\ Length(s, h) >= PAGE_SIZE /\ h + Length(s, h) <= s.brk /\ s.hdr[h].size \in Nat
    BY <1>1 DEF Layout
  <2>2. Length(s, h) \in Nat
    BY <2>1, Constants DEF Length
  <2> QED BY <1>1, <1>2, <2>1, <2>2, Constants
<1>4. s.newest \in {NULL} \cup Headers(s) /\ s.level \in Levels
  BY <1>1 DEF BigOk, BigOf, SkipOk
<1> QED BY <1>2, <1>3, <1>4 DEF Typed

\* klfree of a block in use.
LEMMA BlockServes ==
    ASSUME NEW s, NEW bs, NEW H, Sound(s, bs, H), s.status = "ok", Ordered(s), NEW p \in Addresses(bs),
           NEW level \in Levels
    PROVE  klfree(s, p, level).status = "ok" /\ Ordered(klfree(s, p, level))
<1>1. PICK U : U = Places(Addresses(bs) \cup H)
  OBVIOUS
<1>2. Good(s, U)
  BY <1>1 DEF Sound
<1>3. PICK h : TakesPlace(s, h, Base(p), p)
  BY DEF Sound
<1>4. Base(p) \in U
  BY <1>1 DEF Places
<1> QED BY <1>2, <1>3, <1>4, FreeServes

\* Free serves a thread,
LEMMA FreeStep ==
    ASSUME NEW t, Works(m, blocks, thread, t), Ordered(m), Free(t)
    PROVE  Serves(m, m')
<1>1. PICK s, bs, p : s = m /\ bs = blocks /\ p = thread[t].ptr
  OBVIOUS
<1>2. PICK level \in Levels : m' = klfree(s, p, level)
  BY <1>1 DEF Free
<1>3. Sound(s, bs, HeldBy(thread[t])) /\ ThreadOk(s, bs, thread[t]) /\ s.status = "ok" /\ Ordered(s)
  BY <1>1, WorkerSound DEF Works
<1>4. CASE p = NULL
  BY <1>1, <1>2, <1>3, <1>4 DEF klfree, Serves
<1>5. CASE p # NULL
  <2>1. p \in Addresses(bs)
    BY <1>1, <1>3, <1>5 DEF Free, ThreadOk
  <2> QED BY <1>2, <1>3, <2>1, BlockServes DEF Serves
<1> QED BY <1>4, <1>5

\* What Take stores in the place it took.
Stores(t, r) ==
    \/ m' = r.m
    \/ m' = [r.m EXCEPT !.mem = Put(@, r.at, 0)]
    \/ /\ Resizes(t)
       /\ \E level \in Levels :
             m' = klfree([r.m EXCEPT !.mem = Put(@, r.at, Content(thread[t].ptr))], thread[t].ptr, level)

\* and so does Take, with what Find found.
LEMMA TakeStep ==
    ASSUME NEW t, Works(m, blocks, thread, t), Ordered(m), Take(t),
           thread[t].found = BinHeader(m, Asked(thread[t].call, thread[t].size))
    PROVE  Serves(m, m') /\ (m'.status # "ok" => thread' = thread)
<1>1. PICK s, bs, th : s = m /\ bs = blocks /\ th = thread
  OBVIOUS
<1>2. PICK asked, old : asked = Asked(th[t].call, th[t].size) /\ old = th[t].ptr
  OBVIOUS
<1>3. PICK found : found = BinHeader(s, asked) /\ found = th[t].found
  BY <1>1, <1>2
<1>4. PICK r : r = klmalloc(s, asked, found)
  OBVIOUS
<1>5. PICK w, data : w = r.m /\ data = Content(old)
  OBVIOUS
<1>6. /\ th[t].pc = "take"
      /\ w.status # "ok" => m' = w /\ thread' = th
      /\ w.status = "ok" => \/ m' = w
                            \/ m' = Write(w, r.at, 0)
                            \/ Resizes(t) /\ \E level \in Levels : m' = klfree(Write(w, r.at, data), old, level)
  <2>1. th[t].pc = "take"
    BY <1>1 DEF Take
  <2>2. ASSUME w.status # "ok" PROVE m' = w /\ thread' = th
    BY <1>1, <1>2, <1>3, <1>4, <1>5, <2>2 DEF Take
  <2>3. ASSUME w.status = "ok"
        PROVE  \/ m' = w
               \/ m' = Write(w, r.at, 0)
               \/ Resizes(t) /\ \E level \in Levels : m' = klfree(Write(w, r.at, data), old, level)
    <3>1. r = klmalloc(m, Asked(thread[t].call, thread[t].size), thread[t].found) /\ r.m.status = "ok"
      BY <1>1, <1>2, <1>3, <1>4, <1>5, <2>3
    <3>2. Stores(t, r)
      BY <3>1 DEF Take, Stores
    <3> QED BY <1>1, <1>2, <1>5, <3>2 DEF Stores, Write
  <2> QED BY <2>1, <2>2, <2>3
<1>7. Works(s, bs, th, t) /\ s.status = "ok" /\ Ordered(s)
  BY <1>1 DEF Works
<1>8. ThreadOk(s, bs, th[t]) /\ IsCall(th[t]) /\ FoundOk(s, asked, found) /\ IsState(s)
  <2>1. ThreadOk(s, bs, th[t]) /\ IsState(s)
    BY <1>7, WorkerSound
  <2>2. IsCall(th[t]) /\ FoundOk(s, Asked(th[t].call, th[t].size), th[t].found)
    BY <1>6, <2>1 DEF ThreadOk
  <2>3. FoundOk(s, asked, found)
    BY <1>2, <1>3, <2>2, Zenon
  <2> QED BY <2>1, <2>2, <2>3
<1>9. Sound(s, bs, {}) /\ Good(s, Places(Addresses(bs)))
  <2>1. HeldBy(th[t]) = {} /\ Addresses(bs) \cup {} = Addresses(bs)
    BY <1>6 DEF HeldBy, Holds
  <2> QED BY <1>7, <2>1, WorkerSound
<1>10. asked \in Nat
  BY <1>2, <1>8, AskedIs
<1>11. Serves(s, w)
  BY <1>3, <1>4, <1>5, <1>7, <1>9, <1>10, KlmallocServes
<1>12. CASE w.status # "ok"
  BY <1>1, <1>6, <1>11, <1>12
<1>13. CASE w.status = "ok"
  <2>1. Ordered(w)
    <3>1. Fail(s, "lost").status # "ok"
      BY <1>8, FailIsQuiet
    <3> QED BY <1>11, <1>13, <3>1 DEF Serves
  <2>2. PICK u : u = r.at
    OBVIOUS
  <2>3. Sound(w, bs, {u})
    <3>1. Gives(s, Places(Addresses(bs)), asked, r)
      BY <1>4, <1>7, <1>8, <1>9, <1>10, KlmallocGives
    <3> QED BY <1>5, <1>9, <1>10, <1>13, <2>2, <3>1, PlaceIs
  <2>4. IsState(w)
    BY <2>3 DEF Sound, Good, Layout
  <2>5. \A v : Ordered(Write(w, u, v)) /\ Write(w, u, v).status = "ok"
    BY <1>13, <2>1, <2>4, WriteOrdered
  <2>6. ASSUME Resizes(t), NEW level \in Levels
        PROVE  /\ klfree(Write(w, u, data), old, level).status = "ok"
               /\ Ordered(klfree(Write(w, u, data), old, level))
    <3>1. old \in Addresses(bs)
      BY <1>1, <1>2, <1>6, <1>8, <2>6 DEF Resizes, ThreadOk
    <3>2. PICK copied : copied = Write(w, u, data)
      OBVIOUS
    <3>3. Sound(copied, bs, {u})
      BY <2>3, <3>2, WriteSound
    <3>4. copied.status = "ok" /\ Ordered(copied)
      BY <2>5, <3>2
    <3> QED BY <3>1, <3>2, <3>3, <3>4, BlockServes
  <2>7. m'.status = "ok" /\ Ordered(m')
    BY <1>6, <1>13, <2>1, <2>2, <2>5, <2>6
  <2> QED BY <2>7 DEF Serves
<1> QED BY <1>12, <1>13

\* What a user stores in his block does not disturb the lists.
LEMMA UnlockStep ==
    ASSUME NEW t, Works(m, blocks, thread, t), Ordered(m), spin_unlock(t)
    PROVE  m'.status = "ok" /\ Ordered(m')
<1>1. PICK s : s = m
  OBVIOUS
<1>2. PICK a : a = thread[t].ret
  OBVIOUS
<1>3. m' = s \/ m' = Write(s, a, t)
  BY <1>1, <1>2 DEF spin_unlock, Write
<1>4. IsState(s) /\ s.status = "ok" /\ Ordered(s)
  BY <1>1, WorkerSound DEF Works
<1> QED BY <1>3, <1>4, WriteOrdered

-----------------------------------------------------------------------------
(* The invariant of the lists.                                             *)

\* What Find found is still there when Take takes it.
Finds(s, th) ==
    \A t \in Threads : th[t].pc = "take" => th[t].found = BinHeader(s, Asked(th[t].call, th[t].size))
Pcs == {"idle", "lock", "relock", "enter", "take", "unlock"}

InOrder ==
    /\ \A t \in Threads : thread[t].pc \in Pcs
    /\ m.status = "ok" => Ordered(m) /\ Finds(m, thread)
    /\ m.status # "ok" => m.status = "lost" /\ Typed(m) /\ mem_lock = 1
ListInv == HeapInv /\ InOrder

\* When memory ends all else is as it was.
LEMMA LostTyped ==
    ASSUME NEW s, NEW U, Good(s, U), Ordered(s), s.status = "ok", NEW r, Serves(s, r), r.status # "ok"
    PROVE  r.status = "lost" /\ Typed(r)
<1>1. r = [s EXCEPT !.status = "lost"]
  BY DEF Serves, Fail
<1>2. IsState(s) /\ Typed(s)
  BY OrderedTyped DEF Good, Layout
<1>3. r.status = "lost" /\ r.brk = s.brk /\ r.level = s.level /\ r.hdr = s.hdr /\ r.newest = s.newest
  BY <1>1, <1>2 DEF IsState, Fields
<1> QED BY <1>2, <1>3 DEF Typed, Headers

\* A step of a thread that works.
LEMMA WorkOrder ==
    ASSUME NEW t, Works(m, blocks, thread, t), InOrder, Serves(m, m'), NEW pc \in Pcs, Moves(t, pc),
           pc = "take" /\ m'.status = "ok" =>
               thread'[t].found = BinHeader(m', Asked(thread'[t].call, thread'[t].size)),
           m'.status # "ok" => mem_lock' = 1
    PROVE  InOrder'
<1>1. m.status = "ok" /\ Ordered(m) /\ Alone(thread, t)
  BY DEF Works, InOrder
<1>2. \A u \in Threads : thread'[u].pc \in Pcs
  BY DEF InOrder, Moves
<1>3. \A u \in Threads : u # t => thread'[u].pc # "take"
  BY <1>1 DEF Alone, Moves
<1>4. ASSUME m'.status = "ok" PROVE Ordered(m') /\ Finds(m', thread')
  <2>1. Ordered(m')
    <3>1. Fail(m, "lost").status # "ok"
      BY <1>1, WorkerSound, FailIsQuiet
    <3> QED BY <1>4, <3>1 DEF Serves
  <2>2. Finds(m', thread')
    BY <1>3, <1>4 DEF Finds, Moves
  <2> QED BY <2>1, <2>2
<1>5. ASSUME m'.status # "ok" PROVE m'.status = "lost" /\ Typed(m') /\ mem_lock' = 1
  <2>1. PICK U : Good(m, U)
    BY WorkerSound
  <2> QED BY <1>1, <1>5, <2>1, LostTyped
<1>6. (\A u \in Threads : thread'[u].pc \in Pcs)
  BY <1>2
<1> QED BY <1>4, <1>5, <1>6 DEF InOrder, Ordered, Finds, Typed

\* A thread that took a cell returns.
LEMMA TakeReturns ==
    ASSUME NEW t, Take(t), m'.status = "ok"
    PROVE  \E r : Return(t, r)
<1>1. PICK r : r = klmalloc(m, Asked(thread[t].call, thread[t].size), thread[t].found)
  OBVIOUS
<1>2. CASE r.m.status # "ok"
  <2>1. m' = r.m
    BY <1>1, <1>2 DEF Take
  <2> QED BY <1>2, <2>1
<1>3. CASE r.m.status = "ok"
  BY <1>1, <1>3 DEF Take
<1> QED BY <1>2, <1>3

\* A call begins outside.
LEMMA BeginOrder ==
    ASSUME NoWrap, ListInv, m.status = "ok", NEW t \in Threads, Begin(t)
    PROVE  InOrder'
<1>1. Shape /\ Consistent(m, blocks, thread) /\ InOrder
  BY DEF ListInv, HeapInv, LockInv
<1>2. m' = m
  BY <1>1, BeginConsistent
<1>3. PICK call, ptr, size : Call(t, call, ptr, size)
  BY DEF Begin
<1>4. Moves(t, "lock")
  BY <1>1, <1>3 DEF Call, Moves, Shape, ThreadFields, Idle
<1>5. \A u \in Threads : thread'[u].pc \in Pcs
  BY <1>1, <1>4 DEF Moves, InOrder, Pcs
<1>6. Ordered(m) /\ Finds(m, thread)
  BY <1>1 DEF InOrder
<1>7. Finds(m, thread')
  BY <1>4, <1>6 DEF Finds, Moves
<1>8. Ordered(m') /\ Finds(m', thread') /\ m'.status = "ok"
  BY <1>2, <1>6, <1>7
<1> QED BY <1>5, <1>8 DEF InOrder, Ordered, Finds

\* The other steps are those of a thread that works.
LEMMA WorkKeepsOrder ==
    ASSUME LockInv, InOrder, NEW t, Works(m, blocks, thread, t),
           spin_lock(t) \/ Free(t) \/ Reallocate(t) \/ Find(t) \/ Take(t) \/ spin_unlock(t)
    PROVE  InOrder'
<1>1. m.status = "ok" /\ Ordered(m) /\ Finds(m, thread) /\ t \in Threads /\ Shape
  BY DEF Works, InOrder, LockInv
<1>2. Serves(m, m)
  BY <1>1 DEF Serves
<1>3. CASE spin_lock(t)
  <2>1. Moves(t, "enter") /\ m' = m
    BY <1>1, <1>3, StepMoves DEF spin_lock
  <2> QED BY <1>1, <1>2, <2>1, WorkOrder DEF Pcs
<1>4. CASE Free(t)
  <2>1. Moves(t, "unlock") /\ mem_lock' = mem_lock /\ Working(t)
    BY <1>1, <1>4, ReturnMoves DEF Free, Working
  <2>2. mem_lock' = 1
    BY <1>1, <2>1 DEF LockInv
  <2>3. Serves(m, m')
    BY <1>1, <1>4, FreeStep
  <2> QED BY <1>1, <2>1, <2>2, <2>3, WorkOrder DEF Pcs
<1>5. CASE Reallocate(t)
  <2>1. m' = m
    BY <1>5, ReallocateConsistent
  <2>2. \E pc \in {"relock", "unlock"} : Moves(t, pc)
    <3>1. CASE thread[t].size # 0
      BY <1>1, <1>5, <3>1, ReturnMoves DEF Reallocate
    <3>2. CASE thread[t].size = 0
      <4>1. thread' = [thread EXCEPT ![t].pc = "relock", ![t].call = "free"]
        BY <1>5, <3>2 DEF Reallocate
      <4> QED BY <1>1, <4>1 DEF Moves, Shape, ThreadFields
    <3> QED BY <3>1, <3>2
  <2>3. PICK pc \in Pcs : Moves(t, pc) /\ pc # "take"
    BY <2>2 DEF Pcs
  <2> QED BY <1>1, <1>2, <2>1, <2>3, WorkOrder
<1>6. CASE Find(t)
  <2>1. m' = m
    BY <1>6 DEF Find
  <2>2. PICK asked : asked = Asked(thread[t].call, thread[t].size)
    OBVIOUS
  <2>3. CASE asked = 0
    <3>1. Moves(t, "unlock")
      BY <1>1, <1>6, <2>2, <2>3, ReturnMoves DEF Find
    <3> QED BY <1>1, <1>2, <2>1, <3>1, WorkOrder DEF Pcs
  <2>4. CASE asked # 0
    <3>1. PICK found : found = BinHeader(m, asked)
      OBVIOUS
    <3>2. thread' = [thread EXCEPT ![t].pc = "take", ![t].found = found]
      BY <1>6, <2>2, <2>4, <3>1 DEF Find
    <3>3. /\ Moves(t, "take") /\ thread'[t].found = found
          /\ thread'[t].call = thread[t].call /\ thread'[t].size = thread[t].size
      BY <1>1, <3>2 DEF Moves, Shape, ThreadFields
    <3>4. thread'[t].found = BinHeader(m, Asked(thread'[t].call, thread'[t].size))
      BY <2>2, <3>1, <3>3
    <3> QED BY <1>1, <1>2, <2>1, <3>3, <3>4, WorkOrder DEF Pcs
  <2> QED BY <2>3, <2>4
<1>7. CASE Take(t)
  <2>1. thread[t].pc = "take" /\ mem_lock' = mem_lock /\ Working(t)
    BY <1>7 DEF Take, Working
  <2>2. thread[t].found = BinHeader(m, Asked(thread[t].call, thread[t].size))
    BY <1>1, <2>1 DEF Finds
  <2>3. Serves(m, m') /\ (m'.status # "ok" => thread' = thread)
    BY <1>1, <1>7, <2>2, TakeStep
  <2>4. mem_lock' = 1
    BY <1>1, <2>1 DEF LockInv
  <2>5. CASE m'.status # "ok"
    <3>1. Moves(t, "take")
      BY <2>1, <2>3, <2>5 DEF Moves
    <3> QED BY <2>3, <2>4, <2>5, <3>1, WorkOrder DEF Pcs
  <2>6. CASE m'.status = "ok"
    <3>1. PICK r : Return(t, r)
      BY <1>7, <2>6, TakeReturns
    <3>2. Moves(t, "unlock")
      BY <1>1, <3>1, ReturnMoves
    <3> QED BY <2>3, <2>4, <2>6, <3>2, WorkOrder DEF Pcs
  <2> QED BY <2>5, <2>6
<1>8. CASE spin_unlock(t)
  <2>1. Moves(t, "idle")
    BY <1>1, <1>8 DEF spin_unlock, Moves, Shape, ThreadFields, Idle
  <2>2. m'.status = "ok" /\ Ordered(m')
    BY <1>1, <1>8, UnlockStep
  <2> QED BY <2>1, <2>2, WorkOrder DEF Pcs, Serves
<1> QED BY <1>3, <1>4, <1>5, <1>6, <1>7, <1>8

\* The invariant of the lists is inductive.
LEMMA NextList ==
    ASSUME NoWrap, ListInv, [Next]_vars
    PROVE  ListInv'
<1>1. HeapInv'
  BY NextHeap DEF ListInv
<1>2. InOrder'
  <2>1. CASE UNCHANGED vars
    BY <2>1 DEF vars, ListInv, InOrder, Ordered, Finds, Typed
  <2>2. CASE Next
    <3>1. PICK t \in Threads : Begin(t) \/ Progress(t)
      BY <2>2 DEF Next
    <3>2. m.status = "ok"
      BY <3>1 DEF Begin, Call, Progress
    <3>3. CASE Begin(t)
      BY <3>2, <3>3, BeginOrder
    <3>4. CASE Progress(t)
      <4>1. LockInv /\ InOrder /\ HeapInv
        BY DEF ListInv, HeapInv
      <4>2. Works(m, blocks, thread, t)
        BY <3>4, <4>1, ProgressWorks
      <4> QED BY <3>4, <4>1, <4>2, WorkKeepsOrder DEF Progress
    <3> QED BY <3>1, <3>3, <3>4
  <2> QED BY <2>1, <2>2
<1> QED BY <1>1, <1>2 DEF ListInv

\* At first the lists are empty.
LEMMA InitList == Init => ListInv
<1> SUFFICES ASSUME Init PROVE ListInv
  OBVIOUS
<1>1. PICK s : s = m
  OBVIOUS
<1>2. /\ s.brk = PAGE_SIZE /\ s.hdr = <<>> /\ s.first = [b \in Bins |-> NULL]
      /\ s.fwd = [n \in {HEAD} |-> [i \in Levels |-> NULL]] /\ s.level = 0 /\ s.status = "ok"
  BY <1>1 DEF Init, Bins
<1>3. Headers(s) = {} /\ BigOf(s) = {} /\ FreeOf(s) = {} /\ \A b : Avail(s, b) = {}
  BY <1>2 DEF Headers, BigOf, FreeOf, Avail, SmallOf
<1>4. ASSUME NEW b \in Bins PROVE BinList(s, b)
  <2>1. s.first[b] = NULL
    BY <1>2
  <2>2. Stack(NULL, NextOf(s), {})
    <3>1. PICK behind : behind = [x \in {} |-> 0]
      OBVIOUS
    <3>2. behind \in [{} -> Nat]
      BY <3>1
    <3> QED BY <3>2 DEF Stack
  <2> QED BY <1>3, <2>1, <2>2 DEF BinList
<1>5. Skips(s, {})
  <2>1. PICK r : r = [x \in {HEAD} |-> 0]
    OBVIOUS
  <2>2. PICK T : T = [i \in Levels |-> {}]
    OBVIOUS
  <2>3. Ranks(s, {}, r)
    BY <2>1 DEF Ranks
  <2>4. ASSUME NEW i \in Levels PROVE T[i] = {} /\ LevelIs(s, T[i], r, i)
    <3>1. T[i] = {} /\ s.fwd[HEAD][i] = NULL
      BY <1>2, <2>2
    <3>2. Follows(r, {}, HEAD, NULL)
      BY DEF Follows
    <3> QED BY <3>1, <3>2 DEF LevelIs
  <2>5. T \in [Levels -> SUBSET {}] /\ 0 \in Levels /\ \A i \in Levels \ {0} : i - 1 \in Levels
    BY <2>2, Constants DEF Levels
  <2>6. Skip(s, {}, r, T)
    BY <2>3, <2>4, <2>5 DEF Skip
  <2> QED BY <2>6 DEF Skips
<1>6. Paged(s)
  BY <1>2, <1>3, LayoutAssumption DEF Paged
<1>7. Ordered(m) /\ m.status = "ok"
  BY <1>1, <1>2, <1>3, <1>4, <1>5, <1>6 DEF Ordered
<1>8. \A t \in Threads : thread[t].pc = "idle"
  BY DEF Init, Idle
<1> QED BY <1>7, <1>8, InitHeap DEF ListInv, InOrder, Pcs, Finds

-----------------------------------------------------------------------------
(* What the lists are while nobody holds the lock.                         *)

\* The header of a block is the one whose place it takes.
LEMMA OwnerIs ==
    ASSUME Layout(m), NEW b, NEW h, TakesPlace(m, h, Base(b.at), b.at)
    PROVE  Owner(b) = h
<1>1. \A g \in Headers(m) : /\ g \in Nat /\ Length(m, g) \in Nat /\ Length(m, g) >= PAGE_SIZE
                            /\ \A k \in Headers(m) : g < k => g + Length(m, g) <= k
  BY Constants DEF Layout, Length
<1>2. PICK u : u = Base(b.at)
  OBVIOUS
<1>3. h \in Headers(m) /\ Slot(m, h, u) /\ (b.at = u \/ b.at = h + PAGE_SIZE)
  BY <1>2 DEF TakesPlace
<1>4. u \in Nat /\ h + BIN_HEADER <= u /\ u < h + PAGE_SIZE
  BY <1>3, SlotFits
<1>5. PICK a : a = b.at - 1
  OBVIOUS
<1>6. a \in Nat /\ h <= a /\ a < h + Length(m, h)
  BY <1>1, <1>3, <1>4, <1>5, Constants
<1>7. \A g \in Headers(m) : a \in g .. g + Length(m, g) - 1 => g = h
  BY <1>1, <1>3, <1>6
<1>8. a \in h .. h + Length(m, h) - 1
  BY <1>1, <1>3, <1>6
<1>9. \A g \in Headers(m) :
        (IF g \in Big THEN BIG_HEADER + m.hdr[g].size ELSE PAGE_SIZE) = Length(m, g)
  <2>1. \A g \in Headers(m) : m.hdr[g].size \in Nat
    BY DEF Layout
  <2> QED BY <2>1, Constants DEF Big, Headers, Length
<1>10. \A g \in DOMAIN m.hdr :
         b.at - 1 \in g .. g + (IF g \in Big THEN BIG_HEADER + m.hdr[g].size ELSE PAGE_SIZE) - 1 <=> g = h
  BY <1>3, <1>5, <1>7, <1>8, <1>9 DEF Headers
<1> QED BY <1>3, <1>10 DEF Owner, Headers

\* The free blocks are those of nobody.
LEMMA FreeBlocks ==
    ASSUME Sound(m, blocks, {})
    PROVE  FreeBig = Big \ {Owner(b) : b \in blocks} /\ Big = BigOf(m) /\ FreeBig = FreeOf(m)
<1>1. Layout(m) /\ \A b \in blocks : \E h : TakesPlace(m, h, Base(b.at), b.at)
  BY DEF Sound, Good, Addresses
<1>2. Big = BigOf(m) /\ FreeBig = FreeOf(m)
  BY DEF Big, BigOf, FreeBig, FreeOf, Headers
<1>3. PICK U : U = Places(Addresses(blocks)) /\ BigOk(m, U)
  <2>1. Addresses(blocks) \cup {} = Addresses(blocks)
    OBVIOUS
  <2> QED BY <2>1 DEF Sound, Good
<1>4. ASSUME NEW h \in BigOf(m) PROVE m.hdr[h].head = NULL <=> \E b \in blocks : Owner(b) = h
  <2>1. h \in Headers(m) /\ IsBig(m, h) /\ Slot(m, h, h + BIG_HEADER)
    BY DEF BigOf, Slot
  <2>2. ASSUME NEW b \in blocks, Owner(b) = h PROVE h + BIG_HEADER \in U
    <3>1. TakesPlace(m, h, Base(b.at), b.at)
      BY <1>1, <2>2, OwnerIs
    <3>2. Base(b.at) = h + BIG_HEADER
      BY <2>1, <3>1 DEF TakesPlace, Slot
    <3> QED BY <1>3, <3>2 DEF Places, Addresses
  <2>3. ASSUME h + BIG_HEADER \in U PROVE \E b \in blocks : Owner(b) = h
    <3>1. PICK b \in blocks : Base(b.at) = h + BIG_HEADER
      BY <1>3, <2>3 DEF Places, Addresses
    <3>2. PICK g : TakesPlace(m, g, Base(b.at), b.at)
      BY <1>1
    <3>3. g = h
      BY <1>1, <2>1, <3>1, <3>2, SlotsApart DEF TakesPlace
    <3> QED BY <1>1, <3>2, <3>3, OwnerIs
  <2>4. m.hdr[h].head = NULL <=> h + BIG_HEADER \in U
    BY <1>3 DEF BigOk
  <2> QED BY <2>2, <2>3, <2>4
<1>5. FreeOf(m) = BigOf(m) \ {Owner(b) : b \in blocks}
  BY <1>4 DEF FreeOf
<1> QED BY <1>2, <1>5

\* The free cells of a page are those of nobody.
LEMMA FreeCells ==
    ASSUME NEW s, NEW bs, Sound(s, bs, {}), NEW h \in Headers(s), ~IsBig(s, h)
    PROVE  CellsOf(h, s.hdr[h].size) \ Places(Addresses(bs)) = CellsOf(h, s.hdr[h].size) \ Addresses(bs)
<1>1. Layout(s) /\ \A a \in Addresses(bs) : \E g : TakesPlace(s, g, Base(a), a)
  BY DEF Sound, Good
<1>2. ASSUME NEW c \in CellsOf(h, s.hdr[h].size)
      PROVE  c \in Places(Addresses(bs)) <=> c \in Addresses(bs)
  <2>1. Slot(s, h, c) /\ c % PAGE_SIZE # 0
    BY <1>1, SlotFits DEF Slot
  <2>2. ASSUME NEW a \in Addresses(bs), Base(a) = c PROVE a = c
    <3>1. PICK g : TakesPlace(s, g, c, a)
      BY <1>1, <2>2
    <3>2. g = h
      BY <1>1, <2>1, <3>1, SlotsApart DEF TakesPlace
    <3> QED BY <3>1, <3>2 DEF TakesPlace
  <2>3. Base(c) = c
    BY <2>1 DEF Base
  <2> QED BY <2>2, <2>3 DEF Places
<1> QED BY <1>2

\* The stack of a page,
LEMMA PageLists ==
    ASSUME Sound(m, blocks, {}), NEW h \in Small
    PROVE  Lists(m.hdr[h].head, Content, Cells(h) \ {b.at : b \in blocks})
<1>1. h \in Headers(m) /\ ~IsBig(m, h)
  BY DEF Small, Big, Headers
<1>2. PICK mem : mem = m.mem
  OBVIOUS
<1>3. PICK start : start = m.hdr[h].head
  OBVIOUS
<1>4. PICK S : S = Cells(h) \ {b.at : b \in blocks} /\ Stack(start, mem, S)
  <2>1. Stack(start, mem, CellsOf(h, m.hdr[h].size) \ Places(Addresses(blocks)))
    <3>1. Addresses(blocks) \cup {} = Addresses(blocks)
      OBVIOUS
    <3> QED BY <1>1, <1>2, <1>3, <3>1 DEF Sound, Good, SmallOk
  <2>2. Cells(h) = CellsOf(h, m.hdr[h].size)
    BY DEF Cells, CellsOf
  <2>3. Cells(h) \ {b.at : b \in blocks} = CellsOf(h, m.hdr[h].size) \ Places(Addresses(blocks))
    BY <1>1, <2>2, FreeCells DEF Addresses
  <2> QED BY <2>1, <2>3
<1>5. IsFiniteSet(S)
  <2>1. m.hdr[h].size \in Bins /\ h \in Nat
    BY <1>1 DEF Sound, Good, Layout
  <2>2. S \subseteq h .. h + PAGE_SIZE
    <3>1. S \subseteq CellsOf(h, m.hdr[h].size)
      BY <1>4 DEF Cells, CellsOf
    <3>2. \A c \in CellsOf(h, m.hdr[h].size) : c \in h .. h + PAGE_SIZE
      <4>1. \A c \in CellsOf(h, m.hdr[h].size) :
              c \in Nat /\ h + BIN_HEADER <= c /\ c + 2 ^ m.hdr[h].size <= h + PAGE_SIZE
        BY <2>1, CellsFit
      <4>2. 2 ^ m.hdr[h].size \in Nat
        BY <2>1, Power
      <4> QED BY <2>1, <4>1, <4>2, Constants
    <3> QED BY <3>1, <3>2
  <2>3. IsFiniteSet(h .. h + PAGE_SIZE)
    BY <2>1, Constants, FS_Interval
  <2> QED BY <2>2, <2>3, FS_Subset
<1>6. PICK r : Falls(start, mem, S, r)
  BY <1>4, <1>5, StackFalls
<1>7. PICK n \in Nat : n = Cardinality(S)
  BY <1>5, FS_CardinalityType
<1>8. PICK w \in [0 .. n -> S \cup {NULL}] : Walks(w, n, start, mem, S)
  BY <1>6, WalkExists
<1>9. \A a \in S : Content(a) = mem[a]
  BY <1>2, <1>4 DEF Content, Stack
<1>10. w = [k \in 0 .. n |-> IF k = 0 THEN start ELSE IF w[k - 1] \in S THEN Content(w[k - 1]) ELSE NULL]
  <2>1. w = [k \in 0 .. n |-> w[k]]
    OBVIOUS
  <2>2. \A k \in 0 .. n : k # 0 => k \in 1 .. n
    OBVIOUS
  <2>3. \A k \in 0 .. n : w[k] = IF k = 0 THEN start ELSE IF w[k - 1] \in S THEN Content(w[k - 1]) ELSE NULL
    BY <1>8, <1>9, <2>2 DEF Walks
  <2> QED BY <2>1, <2>3
<1>11. PICK c : c = CHOOSE f : f = [k \in 0 .. n |-> IF k = 0 THEN start ELSE IF f[k - 1] \in S THEN Content(f[k - 1]) ELSE NULL]
  OBVIOUS
<1>12. c = [k \in 0 .. n |-> IF k = 0 THEN start ELSE IF c[k - 1] \in S THEN Content(c[k - 1]) ELSE NULL]
  BY <1>10, <1>11
<1>13. Walks(c, n, start, mem, S)
  BY <1>9, <1>12 DEF Walks
<1>14. {c[k] : k \in 0 .. n - 1} = S /\ c[n] = NULL
  BY <1>6, <1>7, <1>13, FallsLists
<1>15. Lists(start, Content, S)
  BY <1>7, <1>11, <1>14 DEF Lists
<1> QED BY <1>3, <1>4, <1>15

\* the list of a bin,
LEMMA BinLists ==
    ASSUME Sound(m, blocks, {}), Ordered(m), NEW bin \in Bins
    PROVE  Lists(m.first[bin], LAMBDA h : m.hdr[h].next,
                 {h \in Small : m.hdr[h].size = bin /\ m.hdr[h].head # NULL})
<1>1. PICK nx : nx = NextOf(m)
  OBVIOUS
<1>2. PICK start : start = m.first[bin]
  OBVIOUS
<1>3. PICK S : S = {h \in Small : m.hdr[h].size = bin /\ m.hdr[h].head # NULL} /\ Stack(start, nx, S) /\ S \subseteq Headers(m)
  <2>1. BinList(m, bin)
    BY DEF Ordered
  <2>2. \A h : m.hdr[h].size = bin => ~IsBig(m, h)
    BY BinsAreSmall
  <2>3. {h \in Small : m.hdr[h].size = bin /\ m.hdr[h].head # NULL} = Avail(m, bin)
    BY <2>2 DEF Small, Big, Avail, SmallOf, Headers
  <2>4. Avail(m, bin) \subseteq Headers(m)
    BY DEF Avail, SmallOf
  <2> QED BY <1>1, <1>2, <2>1, <2>3, <2>4 DEF BinList
<1>4. IsFiniteSet(S)
  BY <1>3, FS_Subset DEF Sound, Good, Layout
<1>5. PICK r : Falls(start, nx, S, r)
  BY <1>3, <1>4, StackFalls
<1>6. PICK n \in Nat : n = Cardinality(S)
  BY <1>4, FS_CardinalityType
<1>7. PICK w \in [0 .. n -> S \cup {NULL}] : Walks(w, n, start, nx, S)
  BY <1>5, WalkExists
<1>8. \A h \in S : m.hdr[h].next = nx[h]
  BY <1>1, <1>3 DEF NextOf
<1>9. w = [k \in 0 .. n |-> IF k = 0 THEN start ELSE IF w[k - 1] \in S THEN m.hdr[w[k - 1]].next ELSE NULL]
  <2>1. w = [k \in 0 .. n |-> w[k]]
    OBVIOUS
  <2>2. \A k \in 0 .. n : k # 0 => k \in 1 .. n
    OBVIOUS
  <2>3. \A k \in 0 .. n : w[k] = IF k = 0 THEN start ELSE IF w[k - 1] \in S THEN m.hdr[w[k - 1]].next ELSE NULL
    BY <1>7, <1>8, <2>2 DEF Walks
  <2> QED BY <2>1, <2>3
<1>10. PICK c : c = CHOOSE f : f = [k \in 0 .. n |-> IF k = 0 THEN start ELSE IF f[k - 1] \in S THEN m.hdr[f[k - 1]].next ELSE NULL]
  OBVIOUS
<1>11. c = [k \in 0 .. n |-> IF k = 0 THEN start ELSE IF c[k - 1] \in S THEN m.hdr[c[k - 1]].next ELSE NULL]
  BY <1>9, <1>10
<1>12. Walks(c, n, start, nx, S)
  BY <1>8, <1>11 DEF Walks
<1>13. {c[k] : k \in 0 .. n - 1} = S /\ c[n] = NULL
  BY <1>5, <1>6, <1>12, FallsLists
<1>14. Lists(start, LAMBDA h : m.hdr[h].next, S)
  BY <1>6, <1>10, <1>13 DEF Lists
<1> QED BY <1>2, <1>3, <1>14

\* A level of the skip list is a list by the ranks of its blocks.
LEMMA LevelFalls ==
    ASSUME NEW s, NEW F, IsFiniteSet(F), NULL \notin F, HEAD \notin F, NEW r, NEW T, Skip(s, F, r, T),
           NEW i \in Levels, NEW nx, \A x \in T[i] : nx[x] = s.fwd[x][i]
    PROVE  Falls(s.fwd[HEAD][i], nx, T[i], [x \in T[i] |-> r[x]])
<1>1. PICK S : S = T[i]
  OBVIOUS
<1>2. S \subseteq F /\ LevelIs(s, S, r, i) /\ Ranks(s, F, r)
  BY <1>1 DEF Skip
<1>3. PICK q : q = [x \in S |-> r[x]]
  OBVIOUS
<1>4. IsFiniteSet(S) /\ NULL \notin S
  BY <1>2, FS_Subset
<1>5. q \in [S -> Nat] /\ \A x, y \in S : q[x] = q[y] => x = y
  BY <1>2, <1>3 DEF Ranks
<1>6. PICK start : start = s.fwd[HEAD][i]
  OBVIOUS
<1>7. Follows(r, S, HEAD, start) /\ \A x \in S : r[x] < r[HEAD]
  BY <1>2, <1>6 DEF LevelIs, Ranks
<1>8. start = NULL => S = {}
  BY <1>7 DEF Follows
<1>9. start # NULL => start \in S /\ \A x \in S : q[x] <= q[start]
  BY <1>3, <1>7 DEF Follows
<1>10. ASSUME NEW x \in S PROVE Follows(q, S, x, nx[x])
  <2>1. Follows(r, S, x, nx[x])
    BY <1>1, <1>2 DEF LevelIs
  <2>2. \A z \in S : q[z] = r[z]
    BY <1>3
  <2> QED BY <2>1, <2>2 DEF Follows
<1>11. Falls(start, nx, S, q)
  BY <1>4, <1>5, <1>8, <1>9, <1>10 DEF Falls
<1> QED BY <1>1, <1>3, <1>6, <1>11

\* The blocks of the skip list.
Listed(F, r, T) ==
    /\ Skip(m, F, r, T) /\ FreeBig = F /\ IsFiniteSet(F) /\ NULL \notin F \cup {HEAD} /\ HEAD \notin F
    /\ Nodes(m) = BigOf(m) \cup {HEAD} /\ NULL \notin Nodes(m) /\ m.level \in Nat
LEMMA SkipListed ==
    ASSUME Sound(m, blocks, {}), Ordered(m)
    PROVE  \E F, r, T : Listed(F, r, T)
<1>1. SkipOk(m, BigOf(m))
  BY DEF Sound, Good, BigOk
<1>2. PICK F : F = FreeOf(m) /\ F \subseteq BigOf(m) /\ FreeBig = F
  BY FreeBlocks DEF FreeOf
<1>3. PICK r, T : Skip(m, F, r, T)
  BY <1>2 DEF Ordered, Skips
<1>4. NULL \notin BigOf(m) \cup {HEAD} /\ HEAD \notin BigOf(m)
  BY <1>1, Ends
<1>5. IsFiniteSet(F)
  BY <1>1, <1>2, FS_Subset DEF SkipOk
<1>6. Nodes(m) = BigOf(m) \cup {HEAD}
  BY <1>1 DEF SkipOk, Nodes
<1>7. m.level \in Nat
  BY <1>1, Constants DEF SkipOk, Levels
<1>8. Listed(F, r, T)
  BY <1>2, <1>3, <1>4, <1>5, <1>6, <1>7 DEF Listed
<1> QED BY <1>8

\* and that list itself, by the sizes of its blocks.
LEMMA BigLists ==
    ASSUME NEW F, NEW r, NEW T, Listed(F, r, T)
    PROVE  /\ Lists(m.fwd[HEAD][0], LAMBDA h : m.fwd[h][0], F)
           /\ \A h \in F : m.fwd[h][0] # NULL => m.hdr[h].size <= m.hdr[m.fwd[h][0]].size
<1>1. 0 \in Levels /\ T[0] = F
  BY Constants DEF Levels, Listed, Skip
<1>2. PICK nx : nx = [x \in F |-> m.fwd[x][0]]
  OBVIOUS
<1>3. PICK start : start = m.fwd[HEAD][0]
  OBVIOUS
<1>4. \A x \in F : nx[x] = m.fwd[x][0]
  BY <1>2
<1>5. PICK q : Falls(start, nx, F, q)
  <2>1. Falls(m.fwd[HEAD][0], nx, T[0], [x \in T[0] |-> r[x]])
    BY <1>1, <1>4, LevelFalls DEF Listed
  <2> QED BY <1>1, <1>3, <2>1
<1>6. PICK n \in Nat : n = Cardinality(F)
  BY FS_CardinalityType DEF Listed
<1>7. PICK w \in [0 .. n -> F \cup {NULL}] : Walks(w, n, start, nx, F)
  BY <1>5, WalkExists
<1>8. w = [k \in 0 .. n |-> IF k = 0 THEN start ELSE IF w[k - 1] \in F THEN m.fwd[w[k - 1]][0] ELSE NULL]
  <2>1. w = [k \in 0 .. n |-> w[k]]
    OBVIOUS
  <2>2. \A k \in 0 .. n : k # 0 => k \in 1 .. n
    OBVIOUS
  <2>3. \A k \in 0 .. n : w[k] = IF k = 0 THEN start ELSE IF w[k - 1] \in F THEN m.fwd[w[k - 1]][0] ELSE NULL
    BY <1>7, <1>4, <2>2 DEF Walks
  <2> QED BY <2>1, <2>3
<1>9. PICK c : c = CHOOSE f : f = [k \in 0 .. n |-> IF k = 0 THEN start ELSE IF f[k - 1] \in F THEN m.fwd[f[k - 1]][0] ELSE NULL]
  OBVIOUS
<1>10. c = [k \in 0 .. n |-> IF k = 0 THEN start ELSE IF c[k - 1] \in F THEN m.fwd[c[k - 1]][0] ELSE NULL]
  BY <1>8, <1>9
<1>11. Walks(c, n, start, nx, F)
  BY <1>4, <1>10 DEF Walks
<1>12. {c[k] : k \in 0 .. n - 1} = F /\ c[n] = NULL
  BY <1>5, <1>6, <1>11, FallsLists
<1>13. Lists(start, LAMBDA h : m.fwd[h][0], F)
  BY <1>6, <1>9, <1>12, SMTT(60) DEF Lists
<1>14. ASSUME NEW h \in F, m.fwd[h][0] # NULL PROVE m.hdr[h].size <= m.hdr[m.fwd[h][0]].size
  <2>1. Follows(r, F, h, m.fwd[h][0]) /\ Ranks(m, F, r)
    BY <1>1 DEF Listed, Skip, LevelIs
  <2> QED BY <1>14, <2>1 DEF Follows, Ranks
<1> QED BY <1>3, <1>13, <1>14

\* LevelOf walks along a level.
LEMMA LevelVisits ==
    ASSUME NEW F, NEW r, NEW T, Listed(F, r, T), NEW i \in Levels, NEW N \in Nat, N = Cardinality(F)
    PROVE  DOMAIN LevelOf(i) = 0 .. N /\ \E n \in 0 .. N : Visits(LevelOf(i), n, N, T[i], r)
<1>1. PICK S : S = T[i] /\ S \subseteq F
  BY DEF Listed, Skip
<1>2. PICK D : D = Nodes(m) /\ HEAD \in D /\ NULL \notin D /\ S \subseteq D
  BY <1>1 DEF Listed, Skip
<1>3. PICK nx : nx = [x \in D |-> m.fwd[x][i]]
  OBVIOUS
<1>4. PICK start : start = m.fwd[HEAD][i]
  OBVIOUS
<1>5. \A x \in D : nx[x] = m.fwd[x][i]
  BY <1>3
<1>6. PICK q : q = [x \in S |-> r[x]] /\ Falls(start, nx, S, q)
  <2>1. \A x \in T[i] : nx[x] = m.fwd[x][i]
    BY <1>1, <1>2, <1>5
  <2>2. Falls(m.fwd[HEAD][i], nx, T[i], [x \in T[i] |-> r[x]])
    BY <2>1, LevelFalls DEF Listed
  <2> QED BY <1>1, <1>4, <2>2
<1>7. PICK w \in [0 .. N -> S \cup {NULL}] : Walks(w, N, start, nx, S)
  BY <1>6, WalkExists
<1>8. \A k \in 1 .. N : w[k - 1] \in S <=> w[k - 1] \in D
  <2> SUFFICES ASSUME NEW k \in 1 .. N PROVE w[k - 1] \in S <=> w[k - 1] \in D
    OBVIOUS
  <2>1. w[k - 1] \in S \cup {NULL}
    <3>1. k - 1 \in 0 .. N
      OBVIOUS
    <3> QED BY <3>1
  <2> QED BY <1>2, <2>1
<1>9. w = [k \in 0 .. N |-> LET before == IF k = 0 THEN HEAD ELSE w[k - 1]
                            IN  IF before \in D THEN m.fwd[before][i] ELSE NULL]
  <2>1. w = [k \in 0 .. N |-> w[k]]
    OBVIOUS
  <2>2. \A k \in 0 .. N : k # 0 => k \in 1 .. N
    OBVIOUS
  <2>3. \A k \in 0 .. N : w[k] = LET before == IF k = 0 THEN HEAD ELSE w[k - 1]
                                 IN  IF before \in D THEN m.fwd[before][i] ELSE NULL
    <3> SUFFICES ASSUME NEW k \in 0 .. N
                 PROVE  w[k] = LET before == IF k = 0 THEN HEAD ELSE w[k - 1]
                               IN  IF before \in D THEN m.fwd[before][i] ELSE NULL
      OBVIOUS
    <3>1. CASE k = 0
      BY <1>2, <1>4, <1>7, <3>1 DEF Walks
    <3>2. CASE k # 0
      BY <1>5, <1>7, <1>8, <2>2, <3>2 DEF Walks
    <3> QED BY <3>1, <3>2
  <2> QED BY <2>1, <2>3
<1>10. PICK c : c = LevelOf(i)
  OBVIOUS
<1>11. c = [k \in 0 .. N |-> LET before == IF k = 0 THEN HEAD ELSE c[k - 1]
                             IN  IF before \in D THEN m.fwd[before][i] ELSE NULL]
  <2>1. FreeBig = F
    BY DEF Listed
  <2>2. c = CHOOSE f : f = [k \in 0 .. N |-> LET before == IF k = 0 THEN HEAD ELSE f[k - 1]
                                             IN  IF before \in D THEN m.fwd[before][i] ELSE NULL]
    BY <1>2, <1>10, <2>1 DEF LevelOf
  <2> QED BY <1>9, <2>2
<1>12. DOMAIN c = 0 .. N /\ c[0] = start /\ \A k \in 1 .. N : c[k] = IF c[k - 1] \in D THEN nx[c[k - 1]] ELSE NULL
  <2>1. 0 \in 0 .. N /\ \A k \in 1 .. N : k \in 0 .. N /\ k # 0
    OBVIOUS
  <2> QED BY <1>2, <1>4, <1>5, <1>11, <2>1
<1>13. \A k \in 0 .. N : c[k] = w[k]
  <2>1. PICK Z : Z = {k \in 0 .. N : c[k] = w[k]}
    OBVIOUS
  <2>2. 0 \in Z
    BY <1>7, <1>12, <2>1 DEF Walks
  <2>3. ASSUME NEW k \in 0 .. N - 1, k \in Z PROVE k + 1 \in Z
    <3>1. PICK l \in 1 .. N : l = k + 1 /\ l - 1 = k
      OBVIOUS
    <3>2. c[l] = IF c[k] \in D THEN nx[c[k]] ELSE NULL
      BY <1>12, <3>1
    <3>3. w[l] = IF w[k] \in D THEN nx[w[k]] ELSE NULL
      BY <1>7, <1>8, <3>1 DEF Walks
    <3>4. c[k] = w[k]
      BY <2>1, <2>3
    <3> QED BY <2>1, <3>1, <3>2, <3>3, <3>4
  <2>4. \A k \in 0 .. N : k \in Z
    BY <2>2, <2>3, UpFrom
  <2> QED BY <2>1, <2>4
<1>14. Walks(c, N, start, nx, S)
  <2>1. \A k \in 1 .. N : k \in 0 .. N /\ k - 1 \in 0 .. N
    OBVIOUS
  <2> QED BY <1>7, <1>12, <1>13, <2>1 DEF Walks
<1>15. PICK n \in 0 .. N : n = Cardinality(S)
  <2>1. Cardinality(S) \in Nat /\ Cardinality(S) <= N
    BY <1>1, FS_Subset, FS_CardinalityType DEF Listed
  <2> QED BY <2>1
<1>16. Visits(c, n, N, S, q)
  <2>1. n \in Nat /\ n <= N
    OBVIOUS
  <2> QED BY <1>6, <1>14, <1>15, <2>1, WalkVisits
<1>17. Visits(c, n, N, S, r)
  <2>1. \A x \in S : q[x] = r[x]
    BY <1>6
  <2> QED BY <1>16, <2>1 DEF Visits
<1> QED BY <1>1, <1>10, <1>12, <1>17

\* A list by the same ranks is a part of one that holds its elements.
LEMMA VisitsPart ==
    ASSUME NEW r, NEW N \in Nat, NEW S, NEW U, S \subseteq U, \A x \in U : r[x] \in Nat, NULL \notin U,
           NEW c, DOMAIN c = 0 .. N, NEW n \in 0 .. N, Visits(c, n, N, S, r),
           NEW d, DOMAIN d = 0 .. N, NEW l \in 0 .. N, Visits(d, l, N, U, r)
    PROVE  PartOf(c, d)
<1>1. \A k \in 0 .. n - 1 : \E j \in 0 .. l - 1 : d[j] = c[k]
  BY DEF Visits
<1>2. PICK place : place = [k \in 0 .. N |-> IF k < n THEN CHOOSE j \in 0 .. l - 1 : d[j] = c[k] ELSE N]
  OBVIOUS
<1>3. \A k \in 0 .. n - 1 : place[k] \in 0 .. l - 1 /\ d[place[k]] = c[k]
  <2> SUFFICES ASSUME NEW k \in 0 .. n - 1 PROVE place[k] \in 0 .. l - 1 /\ d[place[k]] = c[k]
    OBVIOUS
  <2>1. PICK j \in 0 .. l - 1 : d[j] = c[k]
    BY <1>1
  <2>2. place[k] = CHOOSE e \in 0 .. l - 1 : d[e] = c[k]
    BY <1>2
  <2> QED BY <2>1, <2>2
<1>4. \A k \in n .. N : place[k] = N /\ d[N] = NULL /\ c[k] = NULL
  BY <1>2 DEF Visits
<1>5. place \in [DOMAIN c -> DOMAIN d]
  <2>1. \A k \in 0 .. N : place[k] \in 0 .. N
    <3> SUFFICES ASSUME NEW k \in 0 .. N PROVE place[k] \in 0 .. N
      OBVIOUS
    <3>1. CASE k < n
      BY <1>3, <3>1
    <3>2. CASE ~(k < n)
      BY <1>4, <3>2
    <3> QED BY <3>1, <3>2
  <2>2. place = [k \in 0 .. N |-> place[k]]
    BY <1>2
  <2> QED BY <2>1, <2>2
<1>6. ASSUME NEW k \in 0 .. N PROVE c[k] = d[place[k]] /\ (k > 0 /\ c[k] # NULL => place[k - 1] < place[k])
  <2>1. CASE k < n
    <3>1. c[k] = d[place[k]]
      BY <1>3, <2>1
    <3>2. ASSUME k > 0 PROVE place[k - 1] < place[k]
      <4>1. PICK a, b : a = place[k - 1] /\ b = place[k]
        OBVIOUS
      <4>2. a \in 0 .. l - 1 /\ b \in 0 .. l - 1 /\ d[a] = c[k - 1] /\ d[b] = c[k]
        BY <1>3, <2>1, <3>2, <4>1
      <4>3. r[c[k]] < r[c[k - 1]]
        BY <2>1, <3>2 DEF Visits
      <4>4. d[a] \in U /\ d[b] \in U
        BY <4>2 DEF Visits
      <4>5. b < a => r[d[a]] < r[d[b]]
        BY <4>2 DEF Visits
      <4>6. r[d[b]] < r[d[a]] /\ r[d[a]] \in Nat /\ r[d[b]] \in Nat
        BY <4>2, <4>3, <4>4
      <4>7. ~(b < a) /\ a # b
        BY <4>5, <4>6
      <4> QED BY <4>1, <4>2, <4>7
    <3> QED BY <3>1, <3>2
  <2>2. CASE ~(k < n)
    BY <1>4, <2>2
  <2> QED BY <2>1, <2>2
<1> QED BY <1>5, <1>6 DEF PartOf

\* Each level is a part of the one below.
LEMMA LevelParts ==
    ASSUME NEW F, NEW r, NEW T, Listed(F, r, T), NEW i \in 1 .. SKIP_MAX_LEVEL
    PROVE  PartOf(LevelOf(i), LevelOf(i - 1)) /\ (m.fwd[HEAD][i] # NULL => i <= m.level)
<1>1. i \in Levels \ {0} /\ i - 1 \in Levels
  BY Constants DEF Levels
<1>2. PICK N \in Nat : N = Cardinality(F)
  BY FS_CardinalityType DEF Listed
<1>3. PICK c : c = LevelOf(i)
  OBVIOUS
<1>4. PICK d : d = LevelOf(i - 1)
  OBVIOUS
<1>5. PICK n \in 0 .. N : DOMAIN c = 0 .. N /\ Visits(c, n, N, T[i], r)
  BY <1>1, <1>2, <1>3, LevelVisits
<1>6. PICK l \in 0 .. N : DOMAIN d = 0 .. N /\ Visits(d, l, N, T[i - 1], r)
  BY <1>1, <1>2, <1>4, LevelVisits
<1>7. T[i] \subseteq T[i - 1] /\ T[i - 1] \subseteq F
  BY <1>1 DEF Listed, Skip
<1>8. (\A x \in T[i - 1] : r[x] \in Nat) /\ NULL \notin T[i - 1]
  BY <1>7 DEF Listed, Skip, Ranks
<1>9. PartOf(c, d)
  BY <1>5, <1>6, <1>7, <1>8, VisitsPart
<1>10. ASSUME m.fwd[HEAD][i] # NULL PROVE i <= m.level
  <2>1. Follows(r, T[i], HEAD, m.fwd[HEAD][i])
    BY <1>1 DEF Listed, Skip, LevelIs
  <2>2. T[i] # {}
    BY <1>10, <2>1 DEF Follows
  <2>3. ~(i > m.level)
    BY <1>1, <2>2 DEF Listed, Skip
  <2>4. m.level \in Nat
    BY DEF Listed
  <2> QED BY <2>3, <2>4
<1> QED BY <1>3, <1>4, <1>9, <1>10

\* The invariant is strong enough.
LEMMA ListIsSound == ListInv => FreeListsSound
<1> SUFFICES ASSUME ListInv PROVE FreeListsSound
  OBVIOUS
<1>1. HeapInv /\ InOrder /\ LockInv
  BY DEF ListInv, HeapInv
<1>2. ASSUME m.status = "ok" PROVE \E U : Good(m, U)
  BY <1>1, <1>2 DEF HeapInv, Consistent, Sound
<1>3. TypeOK /\ m.status # "panic"
  <2>1. m.status \in {"ok", "lost"} /\ Typed(m)
    <3>1. CASE m.status = "ok"
      <4>1. PICK U : Good(m, U)
        BY <1>2, <3>1
      <4> QED BY <1>1, <3>1, <4>1, OrderedTyped DEF InOrder
    <3>2. CASE m.status # "ok"
      BY <1>1, <3>2 DEF InOrder
    <3> QED BY <3>1, <3>2
  <2> QED BY <1>1, <2>1 DEF TypeOK, Typed, Headers, LockInv, InOrder, Pcs
<1>4. ASSUME mem_lock = 0 PROVE m.status = "ok" /\ Ordered(m) /\ Sound(m, blocks, {})
  <2>1. m.status = "ok" /\ Ordered(m)
    BY <1>1, <1>4 DEF InOrder
  <2>2. \A t \in Threads : ~Holds(thread[t])
    BY <1>1, <1>4 DEF LockInv, Working, Holds
  <2>3. Held(thread) = {}
    BY <2>2 DEF Held
  <2>4. Sound(m, blocks, Held(thread))
    BY <1>1, <2>1 DEF HeapInv, Consistent
  <2> QED BY <2>1, <2>3, <2>4
<1>5. ASSUME mem_lock = 0, NEW h \in Small
      PROVE  Lists(m.hdr[h].head, Content, Cells(h) \ {b.at : b \in blocks})
  BY <1>4, <1>5, PageLists
<1>6. ASSUME mem_lock = 0, NEW bin \in DOMAIN m.first
      PROVE  Lists(m.first[bin], LAMBDA h : m.hdr[h].next,
                   {h \in Small : m.hdr[h].size = bin /\ m.hdr[h].head # NULL})
  <2>1. bin \in Bins
    BY <1>4, <1>6 DEF Sound, Good, SmallOk
  <2> QED BY <1>4, <1>6, <2>1, BinLists
<1>7. ASSUME mem_lock = 0
      PROVE  /\ FreeBig = Big \ {Owner(b) : b \in blocks}
             /\ Lists(m.fwd[HEAD][0], LAMBDA h : m.fwd[h][0], FreeBig)
             /\ \A h \in FreeBig :
                  m.fwd[h][0] # NULL => m.hdr[h].size <= m.hdr[m.fwd[h][0]].size
             /\ \A i \in 1 .. SKIP_MAX_LEVEL : /\ PartOf(LevelOf(i), LevelOf(i - 1))
                                               /\ m.fwd[HEAD][i] # NULL => i <= m.level
  <2>1. FreeBig = Big \ {Owner(b) : b \in blocks}
    BY <1>4, <1>7, FreeBlocks
  <2>2. PICK F, r, T : Listed(F, r, T)
    BY <1>4, <1>7, SkipListed
  <2>3. FreeBig = F
    BY <2>2 DEF Listed
  <2>4. Lists(m.fwd[HEAD][0], LAMBDA h : m.fwd[h][0], FreeBig)
    BY <2>2, <2>3, BigLists
  <2>5. \A h \in FreeBig : m.fwd[h][0] # NULL => m.hdr[h].size <= m.hdr[m.fwd[h][0]].size
    BY <2>2, <2>3, BigLists
  <2>6. \A i \in 1 .. SKIP_MAX_LEVEL : /\ PartOf(LevelOf(i), LevelOf(i - 1))
                                       /\ m.fwd[HEAD][i] # NULL => i <= m.level
    BY <2>2, LevelParts
  <2> QED BY <2>1, <2>4, <2>5, <2>6
<1> QED BY <1>3, <1>4, <1>5, <1>6, <1>7 DEF FreeListsSound

\* However many threads call malloc, calloc, valloc, realloc and free, whatever the
\* sizes and wherever the memory ends: no assertion about the lists ever fails, and
\* while nobody holds the lock every cell that no block has is in the stack of its
\* page, every page with such a cell in the list of its bin, and every free big block
\* in the skip list, which is in order on every level.
THEOREM FreeListsStaySound == NoWrap => (Spec => []FreeListsSound)
<1> SUFFICES ASSUME NoWrap PROVE Spec => []FreeListsSound
  OBVIOUS
<1>1. Init => ListInv
  BY InitList
<1>2. ListInv /\ [Next]_vars => ListInv'
  BY NextList
<1>3. ListInv => FreeListsSound
  BY ListIsSound
<1> QED BY <1>1, <1>2, <1>3, PTL DEF Spec

=============================================================================
