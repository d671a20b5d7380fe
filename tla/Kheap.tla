------------------------------- MODULE Kheap -------------------------------
(***************************************************************************)
(* The kernel heap of OGOS (kheap.c, ordered_array.c): blocks and holes    *)
(* laid out in memory with a header before and a footer behind each, and   *)
(* an index of the holes sorted by size.                                   *)
(*                                                                         *)
(* Memory is modelled word by word, headers and footers as the words they  *)
(* are, so that what the code finds where it looks for a neighbour is what *)
(* was written there last, by whomever.  What the users write into their   *)
(* blocks is left out: a block keeps what was there.                       *)
(*                                                                         *)
(* All sizes are in words of 4 bytes: every caller in the kernel asks for  *)
(* a multiple of 4, and the case of an odd address in find_smallest_hole   *)
(* does not arise.  Calls do not overlap: no interrupt handler allocates.  *)
(***************************************************************************)
EXTENDS Integers, FiniteSets, SequencesExt

CONSTANTS
    PAGE,           \* words of a page
    W,              \* 2^width of an unsigned integer, in words
    START,          \* start_address
    HOLE,           \* size of the hole create_heap makes
    INITIAL_END,    \* end_address after initialise_paging has expanded the heap
    MAX,            \* max_address
    HEAP_MIN_SIZE,
    Sizes,          \* the sizes kmalloc is asked for
    Aligned,        \* the sizes kmalloc_a is asked for
    MaxBlocks,      \* bound: blocks in use at the same time
    Permitted       \* situations the callers bring about; see AllSituations

H == 3              \* header_t: magic, is_hole, size
F == 2              \* footer_t: magic, header
HEAP_MAGIC == W - 2 \* no address, and no size of a block

ASSUME LayoutAssumption ==
    /\ {PAGE, W, START, HOLE, INITIAL_END, MAX, HEAP_MIN_SIZE} \subseteq Nat
    /\ PAGE > H + F
    /\ START % PAGE = 0 /\ START >= PAGE
    /\ HOLE > H + F /\ START + HOLE <= INITIAL_END /\ INITIAL_END <= MAX
    /\ INITIAL_END % PAGE = 0 /\ HEAP_MIN_SIZE < HOLE
    /\ 2 * MAX < W
ASSUME SizesAssumption == Sizes \cup Aligned \subseteq Nat \ {0} /\ MaxBlocks \in Nat

\* The situations the code does not handle.  "stale_footer": a block is freed
\* behind a hole whose footer names another header, that of a hole which kfree has
\* merged into it from the right.  "free_last": the freed block ends
\* at end_address.  "contract": the hole it is merged with ends there.
\* "grow_over": the heap grows with a block behind its last hole.  "tight": an
\* aligned request meets a hole in which the block does not fit behind the page
\* border, or a hole in front of it or behind it does not.
AllSituations == {"stale_footer", "free_last", "contract", "grow_over", "tight"}
ASSUME PermittedAssumption == Permitted \subseteq AllSituations

VARIABLES
    heap,           \* the memory, the index, end_address; how the kernel fares
    blocks          \* history: what was handed out and not freed

vars == <<heap, blocks>>

\* "full": expand has failed its assertion on max_address.  "panic": another
\* assertion has failed.  "lost": the heap accessed an address outside its pages.
\* The kernel goes on from none of them.
Status == {"ok", "full", "panic", "lost"}

-----------------------------------------------------------------------------
(* Memory.  Each definition takes a heap and gives the one it leaves.      *)

Mapped(h, a, n) == START <= a /\ a + n <= h.end
Fail(h, s) == IF h.status = "ok" THEN [h EXCEPT !.status = s] ELSE h

\* Store the words ws from address a on.
Store(h, a, ws) ==
    IF h.status # "ok" THEN h
    ELSE IF ~Mapped(h, a, Len(ws)) THEN Fail(h, "lost")
    ELSE [h EXCEPT !.mem = [x \in DOMAIN h.mem |->
            IF x \in a .. a + Len(ws) - 1 THEN ws[x - a + 1] ELSE h.mem[x]]]

Header(h, a, hole, sz) == Store(h, a, <<HEAP_MAGIC, hole, sz % W>>)
Footer(h, a, hd) == Store(h, a % W, <<HEAP_MAGIC, hd>>)

\* A word; 0 below the heap, where the unused end of the index is.
Word(h, a) == IF a \in DOMAIN h.mem THEN h.mem[a] ELSE 0
SizeAt(h, a) == Word(h, a + 2)
Resize(h, a, sz) == Store(h, a + 2, <<sz % W>>)
IsHole(h, a) == Word(h, a) = HEAP_MAGIC /\ Word(h, a + 1) = 1

-----------------------------------------------------------------------------
(* ordered_array.c: the index.                                             *)

\* insert_ordered_array: before the first hole that is not smaller.
header_t_less_than(h, a, b) == SizeAt(h, a) < SizeAt(h, b)
Insert(h, a) ==
    LET smaller(i) == header_t_less_than(h, h.index[i], a)
        n == Len(h.index) + 1
        i == CHOOSE i \in 1 .. n : /\ i = n \/ ~smaller(i)
                                   /\ \A k \in 1 .. i - 1 : smaller(k)
    IN  IF h.status # "ok" THEN h ELSE [h EXCEPT !.index = InsertAt(@, i, a)]

\* remove_ordered_array, of the entry a: the magic is wiped out.
Delete_Smallest(h, a) ==                                               \* mutant
    IF h.status # "ok" THEN h ELSE [Store(h, a, <<0>>) EXCEPT !.index = Tail(@)]
Delete(h, a) ==
    IF h.status # "ok" THEN h
    ELSE [Store(h, a, <<0>>) EXCEPT !.index =
            RemoveAt(@, CHOOSE i \in DOMAIN @ : @[i] = a /\ \A k \in 1 .. i - 1 : @[k] # a)]

-----------------------------------------------------------------------------
(* kalloc.                                                                 *)

\* Whether a hole is big enough.  Without alignment the sizes are compared as
\* signed integers.  With it the room that alignment takes is not counted.
Fits(h, a, need, align) ==
    SizeAt(h, a) >= need /\ (align \/ SizeAt(h, a) < W \div 2)

\* find_smallest_hole: the first index entry that fits, 0 for none, -1 when an
\* entry on the way is no header.
find_smallest_hole(h, need, align) ==
    LET fit == {i \in DOMAIN h.index : Fits(h, h.index[i], need, align)}
        bad == {i \in DOMAIN h.index : Word(h, h.index[i]) # HEAP_MAGIC}
        first(S) == CHOOSE i \in S : \A k \in S : i <= k
    IN  IF bad # {} /\ (fit = {} \/ first(bad) <= first(fit)) THEN -1
        ELSE IF fit = {} THEN 0 ELSE first(fit)

\* expand, by whole pages (one more when the size is a multiple of a page).
expand(h, new_size) ==
    LET size == (new_size \div PAGE + 1) * PAGE
    IN  IF START + size > MAX THEN Fail(h, "full")
        ELSE [h EXCEPT !.end = START + size,
                       !.mem = [x \in START .. START + size - 1 |-> Word(h, x)]]

\* No hole fits: more pages go to the hole at the highest address, wherever it
\* ends, or are a hole of their own.
Grow(h, need) ==
    LET g == expand(h, h.end - START + need)
        more == g.end - h.end
        holes == ToSet(h.index)
        endmost == CHOOSE a \in holes : \A b \in holes : b <= a
        size == SizeAt(h, endmost) + more
    IN  IF g.status # "ok" THEN g
        ELSE IF holes = {}
          THEN Insert(Footer(Header(g, h.end, 1, more), h.end + more - F, h.end), h.end)
          ELSE Footer(Resize(g, endmost, size), endmost + size - F, endmost)

\* Take the block from hole pos: all of it when the rest would not hold a header
\* and a footer; for alignment from the first page border on, the hole before
\* it staying in the index at its place; the hole behind goes to the index.
Carve(h, pos, size, align) ==
    LET hole == SizeAt(h, pos)
        sz == IF hole - (size + H + F) < H + F THEN hole - (H + F) ELSE size
        at == IF align THEN pos + PAGE - (pos % PAGE) - H ELSE pos
        front == IF align THEN Footer(Header(h, pos, 1, at - pos), at - F, pos)
                 ELSE Delete(h, pos)
        room == IF align THEN hole - SizeAt(front, pos) ELSE hole
        block == Footer(Header(front, at, 0, sz + H + F), at + H + sz, at)
        behind == at + sz + H + F
        rest == (room - (sz + H + F)) % W
        hdr == Header(block, behind, 1, rest)
        ftr == (behind + rest - F) % W
    IN  [heap |-> IF rest = 0 THEN block
                  ELSE Insert(IF ftr < h.end THEN Footer(hdr, ftr, behind) ELSE hdr, behind),
         at |-> at + H]

\* kalloc: once the heap has grown a hole fits.
kalloc(h, size, align) ==
    LET need == size + H + F
        i == find_smallest_hole(h, need, align)
        g == IF i = 0 THEN Grow(h, need) ELSE h
        k == find_smallest_hole(g, need, align)
    IN  IF g.status # "ok" THEN [heap |-> g, at |-> 0]
        ELSE IF k < 1 THEN [heap |-> Fail(g, "panic"), at |-> 0]
        ELSE Carve(g, g.index[k], size, align)

-----------------------------------------------------------------------------
(* freeh.                                                                  *)

\* contract: the new size.  The rounding keeps one bit of the size only.
Contracted(size) ==
    LET rounded == IF (size \div PAGE) % 2 = 1 THEN 2 * PAGE ELSE size
    IN  IF rounded < HEAP_MIN_SIZE THEN HEAP_MIN_SIZE ELSE rounded

\* The hole at hd reaches end_address; right is the hole that was merged into it.
Contract(h, hd, right) ==
    LET new == Contracted(hd - START)
        size == (SizeAt(h, hd) - (h.end - START - new)) % W
        g == [h EXCEPT !.end = START + new,
                       !.mem = [x \in START .. START + new - 1 |-> Word(h, x)]]
    IN  IF h.status # "ok" THEN h
        ELSE IF size # 0 THEN Footer(Resize(g, hd, size), hd + size - F, hd)
        ELSE IF right \in ToSet(g.index) THEN Delete(g, right) ELSE g

\* The footer before us belongs to a hole: then that hole, else ourselves.
LeftHole_Never(h, own) == own                                          \* mutant
LeftHole(h, own) ==
    IF Word(h, own - F) = HEAP_MAGIC /\ Word(h, Word(h, own - 1) + 1) = 1
      THEN Word(h, own - 1) ELSE own

\* Our footer names hd, and hd takes our size.
UnifyLeft_PlusFooter(h, own, hd, footer) ==                            \* mutant
    IF hd = own THEN h
    ELSE Resize(Store(h, footer + 1, <<hd>>), hd, SizeAt(h, hd) + SizeAt(h, own) + F)
UnifyLeft(h, own, hd, footer) ==
    IF hd = own THEN h
    ELSE Resize(Store(h, footer + 1, <<hd>>), hd, SizeAt(h, hd) + SizeAt(h, own))

\* The header behind us belongs to a hole: hd takes its size, its footer keeps
\* naming its own header.  A hole that is not in the index would have the word
\* behind the index taken for an entry.
UnifyRight(h, hd, right) ==
    IF ~Mapped(h, right, 1) THEN Fail(h, "lost")
    ELSE IF ~IsHole(h, right) THEN h
    ELSE IF right \notin ToSet(h.index) THEN Fail(h, "lost")
    ELSE Delete(Resize(h, hd, SizeAt(h, hd) + SizeAt(h, right)), right)

freeh(h, p) ==
    LET own == p - H
        footer == (own + SizeAt(h, own) - F) % W
        right == footer + F
        hd == LeftHole(h, own)
        left == UnifyLeft(Store(h, own + 1, <<1>>), own, hd, footer)
        end == IF IsHole(left, right) THEN right + SizeAt(left, right) ELSE right
        both == UnifyRight(left, hd, right)
        rest == IF end = h.end THEN Contract(both, hd, right) ELSE both
    IN  IF Word(h, own) # HEAP_MAGIC \/ Word(h, footer) # HEAP_MAGIC
          THEN Fail(h, "panic")
        ELSE IF hd # own THEN rest ELSE Insert(rest, hd)

-----------------------------------------------------------------------------

\* create_heap: one hole, without a footer.
Init ==
    /\ heap = [mem |-> [x \in START .. INITIAL_END - 1 |->
                          CASE x = START -> HEAP_MAGIC [] x = START + 1 -> 1
                            [] x = START + 2 -> HOLE [] OTHER -> 0],
               index |-> <<START>>, end |-> INITIAL_END, status |-> "ok"]
    /\ blocks = {}

(* The situations of Permitted.                                            *)

Grows(h, need, align) == find_smallest_hole(h, need, align) = 0
GrowsOver(h, need, align) ==
    /\ Grows(h, need, align)
    /\ h.index # <<>>
    /\ \E b \in blocks : \A a \in ToSet(h.index) : a < b.at

\* The hole found, were the heap as big as it needs to be.
Tight(h, need) ==
    LET g == IF Grows(h, need, TRUE) THEN Grow(h, need) ELSE h
        k == find_smallest_hole(g, need, TRUE)
        front == PAGE - (g.index[k] % PAGE) - H
        rest == SizeAt(g, g.index[k]) - front - need
    IN  /\ g.status = "ok" /\ k > 0
        /\ front < H + F \/ (rest < H + F /\ rest # 0)

RightOf(h, own) == own + SizeAt(h, own)
HasFooter(h, a) ==
    Word(h, RightOf(h, a) - F) = HEAP_MAGIC /\ Word(h, RightOf(h, a) - 1) = a
StaleLeft(h, own) ==
    \E a \in ToSet(h.index) : RightOf(h, a) = own /\ ~HasFooter(h, a)
FreesLast(h, own) == RightOf(h, own) = h.end
Contracts(h, own) ==
    /\ IsHole(h, RightOf(h, own))
    /\ RightOf(h, own) + SizeAt(h, RightOf(h, own)) = h.end

Allow(situation, holds) == holds => situation \in Permitted

-----------------------------------------------------------------------------

Allocate(size, align) ==
    /\ heap.status = "ok" /\ Cardinality(blocks) < MaxBlocks
    /\ Allow("grow_over", GrowsOver(heap, size + H + F, align))
    /\ Allow("tight", align /\ Tight(heap, size + H + F))
    /\ \E r \in {kalloc(heap, size, align)} :
         /\ heap' = r.heap
         /\ blocks' = IF r.heap.status = "ok"
                      THEN blocks \cup {[at |-> r.at, size |-> size]} ELSE blocks

kmalloc(size) == Allocate(size, FALSE)
kmalloc_a(size) == Allocate(size, TRUE)

\* kfree, of a block that is in use.
kfree(b) ==
    /\ heap.status = "ok"
    /\ Allow("stale_footer", StaleLeft(heap, b.at - H))
    /\ Allow("free_last", FreesLast(heap, b.at - H))
    /\ Allow("contract", Contracts(heap, b.at - H))
    /\ heap' = freeh(heap, b.at)
    /\ blocks' = blocks \ {b}

Next ==
    \/ \E size \in Sizes : kmalloc(size)
    \/ \E size \in Aligned : kmalloc_a(size)
    \/ \E b \in blocks : kfree(b)

Spec == Init /\ [][Next]_vars

-----------------------------------------------------------------------------
(* Properties. *)

TypeOK ==
    /\ heap.status \in Status
    /\ heap.end \in START .. MAX
    /\ heap.mem \in [START .. heap.end - 1 -> 0 .. W - 1]
    /\ ToSet(heap.index) \subseteq START .. MAX

\* What the heap accounts for: the holes of the index and the blocks in use.
Holes == ToSet(heap.index)
Chunks == Holes \cup {b.at - H : b \in blocks}
Span(a) == a .. a + SizeAt(heap, a) - 1
Running == heap.status = "ok"

\* Whatever is split, merged and grown, no word belongs to two chunks: every
\* block keeps its header, its footer and the words its user was promised, inside
\* the heap.
ChunksDisjoint ==
    /\ TypeOK
    /\ Running =>
        /\ \A a, b \in Chunks : a # b => Span(a) \cap Span(b) = {}
        /\ \A a \in Chunks : START <= a /\ a + SizeAt(heap, a) <= heap.end
        /\ \A b \in blocks : SizeAt(heap, b.at - H) >= b.size + H + F

\* No word is lost to the heap, however often it is split and merged: only as many
\* as create_heap leaves out of its hole are in no chunk, and they are in one piece.
LeftOut == INITIAL_END - START - HOLE
NothingLeaked ==
    LET unclaimed == (START .. heap.end - 1) \ UNION {Span(a) : a \in Chunks}
    IN  Running => \E gap \in START .. heap.end - LeftOut :
                      unclaimed = gap .. gap + LeftOut - 1

\* The chunks that the headers and footers describe tile the heap.
HeapIsTiled == ChunksDisjoint /\ NothingLeaked

\* Whether a kfree finds a hole on the left of its block, on the right, on both
\* sides or on none, and whatever earlier calls have left between them, no two holes
\* lie next to each other afterwards: memory that was freed can be handed out in
\* larger blocks.  (A block behind a stale footer is not freed without
\* "stale_footer"; the one kfree that leaves such a footer is covered.)
HolesMerged == Running => \A a, b \in Holes : a + SizeAt(heap, a) # b

\* "Releases a block allocated with 'alloc'." (kheap.h): kfree of a block in use
\* returns, and so does kmalloc while there is memory: no assertion fails on a
\* header or footer, and nothing outside the heap is touched.
CallsReturn == heap.status \in {"ok", "full"}

=============================================================================
