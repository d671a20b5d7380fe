------------------------------ MODULE Klmalloc ------------------------------
(***************************************************************************)
(* malloc() and its family in the C library of the toolchain (klmalloc.c): *)
(* a slab allocator with a stack of free cells in each page of a small     *)
(* bin, a skip list of free big blocks, and one spin lock around it all.   *)
(*                                                                         *)
(* The unit of sizes and addresses is a word, the smallest cell.  A        *)
(* header is a record at the address of its page; a page without one has   *)
(* no BIN_MAGIC.  The content of a cell or block is the word at its        *)
(* beginning: a link while it is free, what the user stored afterwards.    *)
(* An operator on the allocator takes its state m and gives the new one.   *)
(***************************************************************************)
EXTENDS Integers, FiniteSetsExt

CONSTANTS
    Threads,        \* threads that share the heap
    PAGE_SIZE,      \* words of a page
    MAX,            \* where the kernel stops giving memory
    W,              \* 2^width of uintptr_t
    SKIP_MAX_LEVEL,
    Sizes,          \* the sizes asked of malloc
    ReallocSizes,   \* the sizes asked of realloc
    CallocSizes,    \* the products asked of calloc, as the caller means them
    VallocSizes,    \* the sizes asked of valloc
    MaxBlocks,      \* bound: blocks in use or asked for
    Permitted       \* situations the code does not handle; see AllSituations

\* "realloc_zero": realloc of a block to size 0.  "realloc_valloc": realloc of a
\* block from valloc.  "calloc_wrap": a product beyond the width.  "no_memory":
\* sbrk fails.
AllSituations == {"realloc_zero", "realloc_valloc", "calloc_wrap", "no_memory"}

BIN_HEADER == 4                             \* sizeof(klmalloc_bin_header)
BIG_HEADER == 5 + SKIP_MAX_LEVEL + 1        \* sizeof(klmalloc_big_bin_header)
BIG_BIN == CHOOSE b \in 0 .. PAGE_SIZE : 2 ^ b = PAGE_SIZE
NUM_BINS == BIG_BIN + 1
Levels == 0 .. SKIP_MAX_LEVEL

ASSUME LayoutAssumption ==
    /\ PAGE_SIZE \in Nat /\ \E b \in 0 .. PAGE_SIZE : 2 ^ b = PAGE_SIZE
    /\ SKIP_MAX_LEVEL \in Nat /\ 2 * BIG_HEADER < PAGE_SIZE
    /\ PAGE_SIZE - BIG_HEADER > NUM_BINS
    /\ {MAX, W} \subseteq Nat /\ MAX >= PAGE_SIZE /\ MAX % PAGE_SIZE = 0 /\ W > MAX
ASSUME PowersAssumption ==
    \A b \in 0 .. BIG_BIN - 1 : 2 ^ b \in Nat \ {0} /\ 2 * 2 ^ b <= PAGE_SIZE
ASSUME CallsAssumption ==
    /\ Sizes \cup ReallocSizes \cup CallocSizes \cup VallocSizes \subseteq Nat
    /\ MaxBlocks \in Nat /\ Permitted \subseteq AllSituations

VARIABLES
    m,              \* the allocator: headers, lists, memory; see Init
    mem_lock,
    thread,         \* of each thread: where it is in which call
    blocks          \* history: what was handed out and not freed

vars == <<m, mem_lock, thread, blocks>>

NULL == 0
HEAD == -1          \* klmalloc_big_bins.head, a node before all others

\* f with v at a; f over g.
Put(f, a, v) == [x \in DOMAIN f \cup {a} |-> IF x = a THEN v ELSE f[x]]
Over(f, g) == [x \in DOMAIN f \cup DOMAIN g |-> IF x \in DOMAIN f THEN f[x] ELSE g[x]]

Fail(s, status) == IF s.status = "ok" THEN [s EXCEPT !.status = status] ELSE s
Page(a) == a - (a % PAGE_SIZE)
Nodes(s) == DOMAIN s.fwd

\* klmalloc_bin_size: the smallest bin whose cells hold size words.
klmalloc_bin_size(size) == Min({BIG_BIN} \cup {b \in 0 .. BIG_BIN : size <= 2 ^ b})

IsBig(s, h) == s.hdr[h].size > NUM_BINS

-----------------------------------------------------------------------------
(* The stack of free cells of a page, and the lists of pages.              *)

\* Where the assertions of pop, push and the skip list want a cell of h to be.
Inside(s, h, a) == a > h /\ a < h + (IF IsBig(s, h) THEN s.hdr[h].size ELSE PAGE_SIZE)
Rounded(s, h) == (s.hdr[h].size + BIG_HEADER) % PAGE_SIZE = 0

klmalloc_stack_pop(s, h) ==
    LET item == s.hdr[h].head
    IN  IF Inside(s, h, item) /\ (IsBig(s, h) \/ item >= h + BIN_HEADER)
          THEN [s EXCEPT !.hdr[h].head = s.mem[item]]
          ELSE Fail(s, "panic")

klmalloc_stack_push(s, h, a) ==
    IF Inside(s, h, a)
      THEN [s EXCEPT !.mem = Put(@, a, s.hdr[h].head), !.hdr[h].head = a]
      ELSE Fail(s, "panic")

klmalloc_stack_empty(s, h) == s.hdr[h].head = NULL

klmalloc_list_insert(s, bin, h) ==
    [s EXCEPT !.hdr[h].next = s.first[bin], !.first[bin] = h]
klmalloc_list_decouple(s, bin, h) ==
    [s EXCEPT !.first[bin] = s.hdr[h].next, !.hdr[h].next = NULL]
klmalloc_list_head(s, bin) == s.first[bin]

-----------------------------------------------------------------------------
(* The skip list of the free big blocks.                                   *)

\* The last node smaller than size of those that follow from at level i; a walk has
\* at most as many steps as there are nodes.
Along(s, size, from, i) ==
    LET next(n) == s.fwd[n][i]
        smaller(n) == n # NULL /\ s.hdr[n].size < size
        walk[k \in 0 .. Cardinality(Nodes(s))] ==
            [n \in Nodes(s) |-> IF k > 0 /\ smaller(next(n)) THEN walk[k - 1][next(n)] ELSE n]
    IN  walk[Cardinality(Nodes(s))][from]

\* That node of each level, from the one of the level above on.
Before(s, size) ==
    LET update[i \in 0 .. s.level] ==
            Along(s, size, IF i = s.level THEN HEAD ELSE update[i + 1], i)
    IN  update

klmalloc_skip_list_findbest(s, size) == s.fwd[Before(s, size)[0]][0]

\* Insert h, which reaches up to level.
klmalloc_skip_list_insert(s, h, level) ==
    LET update == Before(s, s.hdr[h].size)
        at(i) == IF i <= s.level THEN update[i] ELSE HEAD
        next(n, i) == IF i <= level /\ n = h THEN s.fwd[at(i)][i]
                      ELSE IF i <= level /\ n = at(i) THEN h ELSE s.fwd[n][i]
    IN  IF s.hdr[h].head = NULL \/ ~Inside(s, h, s.hdr[h].head) \/ ~Rounded(s, h)
          THEN Fail(s, "panic")
        ELSE IF s.fwd[update[0]][0] = h THEN s
        ELSE [s EXCEPT !.fwd = [n \in Nodes(s) |-> [i \in Levels |-> next(n, i)]],
                       !.level = Max({@, level})]

\* Remove h, the first of its size: level by level until one does not hold it.
klmalloc_skip_list_delete(s, h) ==
    LET update == Before(s, s.hdr[h].size)
        off == {i \in 0 .. s.level : s.fwd[update[i]][i] # h}
        top == IF off = {} THEN s.level ELSE Min(off) - 1
        fwd == [n \in Nodes(s) |-> [i \in Levels |->
                  IF i <= top /\ n = update[i] THEN s.fwd[h][i] ELSE s.fwd[n][i]]]
        used == {0} \cup {i \in 1 .. s.level : fwd[HEAD][i] # NULL}
    IN  IF s.hdr[h].head = NULL \/ ~Inside(s, h, s.hdr[h].head) THEN Fail(s, "panic")
        ELSE [s EXCEPT !.fwd = fwd, !.level = Max(used)]

-----------------------------------------------------------------------------
(* klmalloc and klfree.                                                    *)

\* sbrk, external: the next pages of the address space.  When it fails it gives -1,
\* which is no page, so that the assertion behind it ends the program.
Sbrk(s, n) == [s EXCEPT !.brk = @ + n]
CanSbrk(s, n) == s.brk + n <= MAX

\* A new page of small cells, each with a link to the one behind it.
NewBin(s, bin) ==
    LET h == s.brk
        cells == (PAGE_SIZE - BIN_HEADER) \div 2 ^ bin
        cell(k) == h + BIN_HEADER + k * 2 ^ bin
        links == [a \in {cell(k) : k \in 0 .. cells - 1} |->
                    IF a = cell(cells - 1) THEN NULL ELSE a + 2 ^ bin]
        page == [next |-> NULL, head |-> cell(0), size |-> bin, prev |-> NULL]
    IN  IF ~CanSbrk(s, PAGE_SIZE) THEN Fail(s, "lost")
        ELSE klmalloc_list_insert([Sbrk(s, PAGE_SIZE) EXCEPT
                                     !.hdr = Put(@, h, page), !.mem = Over(links, @)], bin, h)

\* A new big block, linked behind the newest one.
PagesFor(size) == (size + BIG_HEADER) \div PAGE_SIZE + 1
NewBig(s, size) ==
    LET h == s.brk
        n == PAGE_SIZE * PagesFor(size)
        block == [next |-> NULL, head |-> NULL, size |-> n - BIG_HEADER, prev |-> s.newest]
        linked == IF s.newest = NULL THEN s.hdr ELSE [s.hdr EXCEPT ![s.newest].next = h]
    IN  IF ~CanSbrk(s, n) THEN Fail(s, "lost")
        ELSE [Sbrk(s, n) EXCEPT !.hdr = Put(linked, h, block), !.newest = h,
                !.fwd = Put(@, h, [i \in Levels |-> NULL]),
                !.mem = Put(@, h + BIG_HEADER, NULL)]

\* What klmalloc looks for first: a page with a free cell, or the best free block.
BinHeader(s, size) ==
    IF klmalloc_bin_size(size) < BIG_BIN THEN klmalloc_list_head(s, klmalloc_bin_size(size))
    ELSE klmalloc_skip_list_findbest(s, size)

\* The rest of klmalloc, with the header it found.
SmallFrom(s, bin, found) ==
    LET t == IF found = NULL THEN NewBin(s, bin) ELSE s
        h == klmalloc_list_head(t, bin)
        popped == klmalloc_stack_pop(t, h)
    IN  IF t.status # "ok" THEN [m |-> t, at |-> NULL]
        ELSE [m |-> IF klmalloc_stack_empty(popped, h)
                      THEN klmalloc_list_decouple(popped, bin, h) ELSE popped,
              at |-> t.hdr[h].head]
BigFrom(s, size, found) ==
    IF found = NULL THEN [m |-> NewBig(s, size), at |-> s.brk + BIG_HEADER]
    ELSE IF s.hdr[found].size < size THEN [m |-> Fail(s, "panic"), at |-> NULL]
    ELSE [m |-> klmalloc_stack_pop(klmalloc_skip_list_delete(s, found), found),
          at |-> s.hdr[found].head]
klmalloc(s, size, found) ==
    IF klmalloc_bin_size(size) < BIG_BIN
      THEN SmallFrom(s, klmalloc_bin_size(size), found)
      ELSE BigFrom(s, size, found)

\* klfree; level is what klmalloc_random_level comes to.
klfree_ForgetsValloc(s, ptr, level) ==                                 \* mutant
    LET a == ptr
        h == Page(a)
        listed == IF klmalloc_stack_empty(s, h) THEN klmalloc_list_insert(s, s.hdr[h].size, h) ELSE s
    IN  IF ptr = NULL \/ h \notin DOMAIN s.hdr THEN s
        ELSE IF ~IsBig(s, h) THEN klmalloc_stack_push(listed, h, a)
        ELSE IF ~klmalloc_stack_empty(s, h) \/ ~Rounded(s, h) THEN Fail(s, "panic")
        ELSE klmalloc_skip_list_insert(klmalloc_stack_push(s, h, h + BIG_HEADER), h, level)
klfree(s, ptr, level) ==
    LET a == IF ptr % PAGE_SIZE = 0 THEN ptr - 1 ELSE ptr
        h == Page(a)
        listed == IF klmalloc_stack_empty(s, h) THEN klmalloc_list_insert(s, s.hdr[h].size, h) ELSE s
    IN  IF ptr = NULL \/ h \notin DOMAIN s.hdr THEN s
        ELSE IF ~IsBig(s, h) THEN klmalloc_stack_push(listed, h, a)
        ELSE IF ~klmalloc_stack_empty(s, h) \/ ~Rounded(s, h) THEN Fail(s, "panic")
        ELSE klmalloc_skip_list_insert(klmalloc_stack_push(s, h, h + BIG_HEADER), h, level)

-----------------------------------------------------------------------------
(* The calls.                                                              *)

Calls == {"malloc", "calloc", "valloc", "realloc", "free"}
Idle == [pc |-> "idle", call |-> "free", ptr |-> NULL, size |-> 0, found |-> NULL, ret |-> NULL]

Init ==
    /\ m = [brk |-> PAGE_SIZE, hdr |-> <<>>, first |-> [b \in 0 .. BIG_BIN - 1 |-> NULL],
            fwd |-> [n \in {HEAD} |-> [i \in Levels |-> NULL]], level |-> 0, newest |-> NULL,
            mem |-> <<>>, status |-> "ok"]
    /\ mem_lock = 0
    /\ thread = [t \in Threads |-> Idle]
    /\ blocks = {}

Content(a) == IF a \in DOMAIN m.mem THEN m.mem[a] ELSE NULL
Block(a) == CHOOSE b \in blocks : b.at = a
Step(t, pc) == thread' = [thread EXCEPT ![t].pc = pc]
Return(t, r) == thread' = [thread EXCEPT ![t].pc = "unlock", ![t].ret = r]

\* The size klmalloc is asked for in the end.
Asked(call, size) ==
    CASE call = "calloc" -> size % W
      [] call = "valloc" -> size + PAGE_SIZE - BIG_HEADER
      [] OTHER -> size

\* What the calls under way may still take from sbrk.
Takes(call, size) ==
    LET asked == Asked(call, size)
    IN  IF call = "free" \/ asked = 0 THEN 0
        ELSE IF klmalloc_bin_size(asked) < BIG_BIN THEN PAGE_SIZE
        ELSE PAGE_SIZE * PagesFor(asked)
Pending == MapThenSumSet(LAMBDA t : Takes(thread[t].call, thread[t].size),
                         {t \in Threads : thread[t].pc \in {"lock", "enter", "take"}})

Allow(situation, holds) == holds => situation \in Permitted

\* A thread calls one of the functions, with a pointer that nobody else is using.
Call(t, call, ptr, size) ==
    /\ thread[t].pc = "idle" /\ m.status = "ok"
    /\ \A u \in Threads : ptr # NULL /\ thread[u].pc # "idle" => thread[u].ptr # ptr
    /\ Cardinality(blocks) + Cardinality({u \in Threads : thread[u].pc # "idle"}) < MaxBlocks
         \/ call = "free"
    /\ Allow("no_memory", ~CanSbrk(m, Pending + Takes(call, size)))
    /\ Allow("realloc_zero", call = "realloc" /\ ptr # NULL /\ size = 0)
    /\ Allow("realloc_valloc", call = "realloc" /\ ptr # NULL /\ ptr % PAGE_SIZE = 0)
    /\ Allow("calloc_wrap", size >= W)
    /\ thread' = [thread EXCEPT ![t] =
                    [Idle EXCEPT !.pc = "lock", !.call = call, !.ptr = ptr, !.size = size]]
    /\ UNCHANGED <<m, mem_lock, blocks>>

\* spin_lock, the test-and-set that succeeds; else the thread yields and tries again.
spin_lock_NoTest(t) ==                                                 \* mutant
    /\ thread[t].pc \in {"lock", "relock"}
    /\ mem_lock' = 1
    /\ Step(t, "enter")
    /\ UNCHANGED <<m, blocks>>
spin_lock(t) ==
    /\ thread[t].pc \in {"lock", "relock"}
    /\ mem_lock = 0 /\ mem_lock' = 1
    /\ Step(t, "enter")
    /\ UNCHANGED <<m, blocks>>

\* The words behind a pointer, as klrealloc computes them.
OldSize_NextBin(h) ==                                                  \* mutant
    IF m.hdr[h].size < BIG_BIN THEN 2 ^ (m.hdr[h].size + 2) ELSE m.hdr[h].size
OldSize(h) == IF m.hdr[h].size < BIG_BIN THEN 2 ^ m.hdr[h].size ELSE m.hdr[h].size

\* klfree, and klrealloc where it allocates nothing.
Free(t) ==
    /\ thread[t].pc = "enter" /\ thread[t].call = "free"
    /\ \E level \in Levels : m' = klfree(m, thread[t].ptr, level)
    /\ blocks' = {b \in blocks : b.at # thread[t].ptr}
    /\ Return(t, NULL)
    /\ UNCHANGED mem_lock
Resizes(t) == thread[t].call = "realloc" /\ thread[t].ptr # NULL
HasMagic(ptr) == Page(ptr) \in DOMAIN m.hdr
Resizable(ptr, size) == size # 0 /\ HasMagic(ptr) /\ OldSize(Page(ptr)) < size
Reallocate(t) ==
    /\ thread[t].pc = "enter" /\ Resizes(t)
    /\ LET ptr == thread[t].ptr
           size == thread[t].size
       IN  /\ ~Resizable(ptr, size)
           /\ m' = IF size # 0 /\ ~HasMagic(ptr) THEN Fail(m, "panic") ELSE m
           /\ IF size # 0 THEN Return(t, IF HasMagic(ptr) THEN ptr ELSE NULL)
              ELSE \* free(), which takes the lock again
                   thread' = [thread EXCEPT ![t].pc = "relock", ![t].call = "free"]
    /\ UNCHANGED <<mem_lock, blocks>>

\* klmalloc, in all functions but free: nothing for size 0, else it looks for a
\* header ...
Find(t) ==
    /\ thread[t].pc = "enter" /\ thread[t].call # "free"
    /\ Resizes(t) => Resizable(thread[t].ptr, thread[t].size)
    /\ LET asked == Asked(thread[t].call, thread[t].size)
       IN  IF asked = 0 THEN Return(t, NULL)
           ELSE thread' = [thread EXCEPT ![t].pc = "take", ![t].found = BinHeader(m, asked)]
    /\ UNCHANGED <<m, mem_lock, blocks>>

\* ... and takes a cell or a block from it, or from sbrk.  Then the function does
\* what it wants with it.
Take(t) ==
    /\ thread[t].pc = "take"
    /\ \E r \in {klmalloc(m, Asked(thread[t].call, thread[t].size), thread[t].found)} :
         LET old == thread[t].ptr
             copied == [r.m EXCEPT !.mem = Put(@, r.at, Content(old))]
         IN  CASE r.m.status # "ok" -> m' = r.m /\ UNCHANGED <<thread, blocks>>
               [] r.m.status = "ok" /\ thread[t].call = "valloc" ->
                    /\ m' = r.m
                    /\ Return(t, r.at + PAGE_SIZE - BIG_HEADER)
                    /\ UNCHANGED blocks
               [] r.m.status = "ok" /\ thread[t].call = "calloc" ->
                    /\ m' = [r.m EXCEPT !.mem = Put(@, r.at, 0)]
                    /\ Return(t, r.at)
                    /\ UNCHANGED blocks
               [] r.m.status = "ok" /\ Resizes(t) ->
                    /\ \E level \in Levels : m' = klfree(copied, old, level)
                    /\ blocks' = {b \in blocks : b.at # old}
                                 \cup {[at |-> r.at, size |-> thread[t].size,
                                        data |-> Block(old).data]}
                    /\ Return(t, r.at)
               [] OTHER -> m' = r.m /\ Return(t, r.at) /\ UNCHANGED blocks
    /\ UNCHANGED mem_lock

\* The block that goes back to the caller.  The caller of malloc and valloc, and of
\* realloc without a block, stores something in it; calloc promises zeros.
Fresh(t) == thread[t].call \in {"malloc", "valloc"}
            \/ (thread[t].call = "realloc" /\ thread[t].ptr = NULL)
Result(t) ==
    [at |-> thread[t].ret, size |-> thread[t].size,
     data |-> IF thread[t].call = "calloc" THEN 0
              ELSE IF Fresh(t) THEN t ELSE Block(thread[t].ret).data]

spin_unlock_NotForNull(t) ==                                           \* mutant
    /\ thread[t].pc = "unlock"
    /\ mem_lock' = IF thread[t].ret = NULL THEN mem_lock ELSE 0
    /\ thread' = [thread EXCEPT ![t] = Idle]
    /\ blocks' = IF thread[t].ret = NULL THEN blocks
                 ELSE {b \in blocks : b.at # thread[t].ret} \cup {Result(t)}
    /\ m' = IF thread[t].ret # NULL /\ Fresh(t)
              THEN [m EXCEPT !.mem = Put(@, thread[t].ret, t)] ELSE m
spin_unlock(t) ==
    /\ thread[t].pc = "unlock"
    /\ mem_lock' = 0
    /\ thread' = [thread EXCEPT ![t] = Idle]
    /\ blocks' = IF thread[t].ret = NULL THEN blocks
                 ELSE {b \in blocks : b.at # thread[t].ret} \cup {Result(t)}
    /\ m' = IF thread[t].ret # NULL /\ Fresh(t)
              THEN [m EXCEPT !.mem = Put(@, thread[t].ret, t)] ELSE m

Begin(t) ==
    \/ \E size \in Sizes : Call(t, "malloc", NULL, size)
    \/ \E size \in CallocSizes : Call(t, "calloc", NULL, size)
    \/ \E size \in VallocSizes : Call(t, "valloc", NULL, size)
    \/ \E ptr \in {NULL} \cup {b.at : b \in blocks} :
         \/ Call(t, "free", ptr, 0)
         \/ \E size \in ReallocSizes : Call(t, "realloc", ptr, size)

\* Nothing goes on after a failed assertion.
Progress(t) ==
    /\ m.status = "ok"
    /\ \/ spin_lock(t)
       \/ Free(t)
       \/ Reallocate(t)
       \/ Find(t)
       \/ Take(t)
       \/ spin_unlock(t)

Next == \E t \in Threads : Begin(t) \/ Progress(t)

\* Every thread gets the processor again and again; that it finds the lock free
\* is not assumed.
Spec == Init /\ [][Next]_vars /\ \A t \in Threads : WF_vars(Progress(t))

-----------------------------------------------------------------------------
(* Properties.                                                             *)

TypeOK ==
    /\ mem_lock \in {0, 1}
    /\ m.status \in {"ok", "panic", "lost"}
    /\ m.brk \in PAGE_SIZE .. MAX /\ m.level \in Levels
    /\ DOMAIN m.hdr \cup ({m.newest} \ {NULL}) \subseteq PAGE_SIZE .. MAX - 1
    /\ \A t \in Threads : thread[t].pc \in {"idle", "lock", "relock", "enter", "take", "unlock"}

Big == {h \in DOMAIN m.hdr : IsBig(m, h)}
Small == DOMAIN m.hdr \ Big

\* The words of a block, and those a header has for its user.
Span(b) == b.at .. b.at + b.size - 1
Room(h) == IF h \in Big THEN h + BIG_HEADER .. h + BIG_HEADER + m.hdr[h].size - 1
           ELSE h + BIN_HEADER .. h + PAGE_SIZE - 1

\* Whatever threads allocate, resize and free: no two blocks share a word, none
\* reaches into a header, each is as long as it was asked for; and until a block is
\* freed it holds what its user stored, realloc copies it and calloc gives zeros.
BlocksSound ==
    /\ \A b, c \in blocks : b # c => Span(b) \cap Span(c) = {}
    /\ \A b \in blocks : \E h \in DOMAIN m.hdr : Span(b) \subseteq Room(h)
    /\ \A b \in blocks : Content(b.at) = b.data

\* spin_lock: one thread at a time works on the lists, up to its spin_unlock.
Working(t) == thread[t].pc \in {"relock", "enter", "take", "unlock"}
OneThreadInside == \A t, u \in Threads : Working(t) /\ Working(u) => t = u

\* A chain of links from start holds the elements of S, each once, and ends.
Lists(start, next(_), S) ==
    LET n == Cardinality(S)
        c[k \in 0 .. n] == IF k = 0 THEN start
                           ELSE IF c[k - 1] \in S THEN next(c[k - 1]) ELSE NULL
    IN  {c[k] : k \in 0 .. n - 1} = S /\ c[n] = NULL

\* The header whose words a block is behind, also a block of no words.
Owner(b) == CHOOSE h \in DOMAIN m.hdr :
               b.at - 1 \in h .. h + (IF h \in Big THEN BIG_HEADER + m.hdr[h].size ELSE PAGE_SIZE) - 1
Cells(h) == {h + BIN_HEADER + k * 2 ^ m.hdr[h].size :
               k \in 0 .. (PAGE_SIZE - BIN_HEADER) \div 2 ^ m.hdr[h].size - 1}
FreeBig == {h \in Big : m.hdr[h].head # NULL}
\* The nodes of a level of the skip list, in order and NULL behind the last.
LevelOf(i) ==
    LET c[k \in 0 .. Cardinality(FreeBig)] ==
            LET before == IF k = 0 THEN HEAD ELSE c[k - 1]
            IN  IF before \in Nodes(m) THEN m.fwd[before][i] ELSE NULL
    IN  c
PartOf(c, d) ==
    \E place \in [DOMAIN c -> DOMAIN d] :
        \A k \in DOMAIN c : /\ c[k] = d[place[k]]
                            /\ k > 0 /\ c[k] # NULL => place[k - 1] < place[k]

\* No assertion about the lists ever fails, and while nobody holds the lock no memory
\* is lost: the stack of a page holds the cells that are not in use, the list of a bin
\* the pages with a free cell, the skip list the free big blocks by size; a level of
\* it is a part of the one below and empty above the highest.
FreeListsSound ==
    /\ TypeOK /\ m.status # "panic"
    /\ mem_lock = 0 =>
           /\ m.status = "ok"
           /\ \A h \in Small : Lists(m.hdr[h].head, Content, Cells(h) \ {b.at : b \in blocks})
           /\ \A bin \in DOMAIN m.first :
                Lists(m.first[bin], LAMBDA h : m.hdr[h].next,
                      {h \in Small : m.hdr[h].size = bin /\ m.hdr[h].head # NULL})
           /\ FreeBig = Big \ {Owner(b) : b \in blocks}
           /\ Lists(m.fwd[HEAD][0], LAMBDA h : m.fwd[h][0], FreeBig)
           /\ \A h \in FreeBig :
                m.fwd[h][0] # NULL => m.hdr[h].size <= m.hdr[m.fwd[h][0]].size
           /\ \A i \in 1 .. SKIP_MAX_LEVEL : /\ PartOf(LevelOf(i), LevelOf(i - 1))
                                             /\ m.fwd[HEAD][i] # NULL => i <= m.level

\* Whoever gets the lock gives it back, on every path through the five calls, also
\* when nothing is allocated, so that the calls of other threads can go on; with two
\* exceptions: realloc to size 0 waits in free() for the lock it holds itself, and
\* when sbrk has failed (or an assertion) the program ends with the lock held.
LockComesFree ==
    mem_lock = 1 ~> \/ mem_lock = 0
                    \/ \E t \in Threads : thread[t].pc = "relock"
                    \/ m.status # "ok"

\* "For a size of zero, free the pointer and return NULL" (klmalloc.c, klrealloc):
\* a realloc to size 0 that has the lock comes to its end.
ReallocToZeroReturns ==
    \A t \in Threads : thread[t].pc = "relock" ~> thread[t].pc = "idle"

=============================================================================
