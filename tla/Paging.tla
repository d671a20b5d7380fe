------------------------------- MODULE Paging -------------------------------
(***************************************************************************)
(* Paging in the OGOS kernel (paging.c): the bitset of physical frames,    *)
(* page tables, and the page directories of the kernel and of the tasks.   *)
(* The heap grows and shrinks through it, a fork clones a directory, an    *)
(* exit frees one.  Each of these is one call that runs to its end.        *)
(*                                                                         *)
(* Addresses are page numbers: kernel code and data from 0 on, the user    *)
(* stack up to STACK, the heap from HEAP on.  A page table covers TABLE    *)
(* pages.  The kernel runs in ring 0, so that the flags rw and user decide *)
(* nothing and are left out.  A frame holds one value of Contents.         *)
(***************************************************************************)
EXTENDS Integers, FiniteSets, Functions

CONSTANTS
    nframes,            \* physical frames
    TABLE,              \* pages of a page table
    KERNEL,             \* pages that initialise_paging maps to their own frames
    STACK, STACK_SIZE,  \* last page of the user stack; pages before it
    HEAP, INITIAL_END,  \* the heap's first page, and its end after boot
    MAX,                \* max_address of the heap, in pages
    MaxTables,          \* bound: page tables ever made
    Dirs, kernel_directory, \* addresses of page directories
    NULL,
    Writable,           \* pages the tasks write to
    Contents, Blank,    \* what a frame may hold, and holds at first
    Permitted           \* what the code accepts and does not survive

\* "new_table": the heap grows past its last page table; "full": a frame is asked
\* for when none is free; "stay": the task after one that exits has no directory
\* of its own, and goes on in the freed one.
AllPermitted == {"new_table", "full", "stay"}

ASSUME SizesAssumption ==
    /\ nframes \in Nat /\ TABLE \in Nat \ {0} /\ MaxTables \in Nat
    /\ KERNEL \in 1 .. nframes
    /\ {STACK, STACK_SIZE, HEAP, INITIAL_END, MAX} \subseteq Nat
    /\ KERNEL + STACK_SIZE <= STACK /\ STACK < HEAP
    /\ HEAP < INITIAL_END /\ INITIAL_END <= MAX
    /\ KERNEL + INITIAL_END - HEAP <= nframes
ASSUME DirsAssumption == kernel_directory \in Dirs
ASSUME ContentsAssumption == Blank \in Contents
ASSUME WritableAssumption == Writable \subseteq 0 .. MAX - 1
ASSUME PermittedAssumption == Permitted \subseteq AllPermitted

Frames == 0 .. nframes - 1
Tables == 1 .. MaxTables
Offsets == 0 .. TABLE - 1
Pages == 0 .. MAX - 1
Index(v) == v \div TABLE
Indices == 0 .. Index(MAX - 1)
ASSUME NullAssumption == NULL \notin Tables
\* The kernel, the user stack (below 0x10000000) and the heap (0x40000000) share no
\* page table.
ASSUME LayoutAssumption ==
    Index(KERNEL - 1) < Index(STACK - STACK_SIZE) /\ Index(STACK) < Index(HEAP)

VARIABLES
    frames,             \* the set bits of the bitset
    made,               \* page tables that are allocated
    tables,             \* their entries
    allocated,          \* page directories that are allocated
    dirs,               \* their pointers to page tables
    current_directory,
    end,                \* end_address of the heap, in pages
    memory              \* what is in the frames

vars == <<frames, made, tables, allocated, dirs, current_directory, end, memory>>

Entry == [present : {0, 1}, frame : Frames]
Zero == [present |-> 0, frame |-> 0]

\* The entry of page v in directory d; Zero where there is no table.
Lookup(d, v) ==
    IF dirs[d][Index(v)] = NULL THEN Zero
    ELSE tables[dirs[d][Index(v)]][v % TABLE]

\* What is read at page v in directory d.
Reads(d, v) == memory[Lookup(d, v).frame]

-----------------------------------------------------------------------------
(* Allocation.                                                             *)

\* The ways to give each of the numbers "for" one of "free", lowest first.
Lowest(for, free) ==
    {got \in [for -> free] :
       /\ \A p, q \in for : p < q => got[p] < got[q]
       /\ \A p \in for, f \in free : f < got[p] => \E q \in for : got[q] = f}

\* first_frame and set_frame for each of the pages.  Without a free frame
\* first_frame ends without a return statement.
Free_All == Frames                                                     \* mutant
Free == Frames \ frames
first_frame(pages) ==
    IF Cardinality(pages) <= Cardinality(Free) THEN Lowest(pages, Free)
    ELSE IF "full" \in Permitted
      THEN {got \in [pages -> Frames] : Free \subseteq Range(got)}
      ELSE {}

\* The bitset: set_frame gets back the number of which alloc_frame made an address;
\* clear_frame divides as well, but free_frame gives it the number.
PAGE == 4096
set_frame(taken) == frames \cup taken
clear_frame(numbers) == frames \ {f \div PAGE : f \in numbers}

\* kmalloc_ap, for page tables: which address it gives makes no difference.
NewTables(indices) == Lowest(indices, Tables \ made)

\* The tables with the pages given frames by alloc_frame, in a directory dir.
Filled(dir, got) ==
    [t \in Tables |-> [o \in Offsets |->
       IF \E v \in DOMAIN got : dir[Index(v)] = t /\ v % TABLE = o
         THEN [present |-> 1,
               frame |-> got[CHOOSE v \in DOMAIN got :
                               dir[Index(v)] = t /\ v % TABLE = o]]
         ELSE tables[t][o]]]

\* alloc_frame(get_page(v, 1, d)) for each of the pages: get_page makes the
\* tables that are missing, alloc_frame passes over an entry that has a frame.
Missing(d, pages) == {i \in {Index(v) : v \in pages} : dirs[d][i] = NULL}

MapPages(d, pages) ==
    \E ids \in NewTables(Missing(d, pages)),
       got \in first_frame({v \in pages : Lookup(d, v).frame = 0}) :
         LET dir == [i \in Indices |-> IF i \in DOMAIN ids THEN ids[i] ELSE dirs[d][i]]
         IN  /\ dirs' = [dirs EXCEPT ![d] = dir]
             /\ made' = made \cup Range(ids)
             /\ tables' = Filled(dir, got)
             /\ frames' = set_frame(Range(got))

-----------------------------------------------------------------------------
(* initialise_paging up to the first clone: frames are handed out in order, *)
(* to the kernel's pages first, then to the heap's.                        *)

BootPages == 0 .. KERNEL - 1 \cup HEAP .. INITIAL_END - 1
BootFrame(v) == IF v < KERNEL THEN v ELSE v - HEAP + KERNEL
ASSUME BootAssumption == Lowest({Index(v) : v \in BootPages}, Tables) # {}
BootTable == CHOOSE ids \in Lowest({Index(v) : v \in BootPages}, Tables) : TRUE

Init ==
    /\ frames = 0 .. KERNEL + INITIAL_END - HEAP - 1
    /\ made = Range(BootTable)
    /\ dirs = [d \in Dirs |-> [i \in Indices |->
                 IF d = kernel_directory /\ i \in DOMAIN BootTable
                   THEN BootTable[i] ELSE NULL]]
    /\ tables = [t \in Tables |-> [o \in Offsets |->
                   IF \E v \in BootPages : BootTable[Index(v)] = t /\ v % TABLE = o
                     THEN [present |-> 1,
                           frame |-> BootFrame(CHOOSE v \in BootPages :
                                       BootTable[Index(v)] = t /\ v % TABLE = o)]
                     ELSE Zero]]
    /\ allocated = {kernel_directory}
    /\ current_directory = kernel_directory
    /\ end = INITIAL_END
    /\ memory = [f \in Frames |-> Blank]

-----------------------------------------------------------------------------
(* The calls.                                                              *)

\* clone_directory(current_directory): tables of the kernel directory are
\* shared, others copied page by page with their contents (clone_table).
Shared_WithCurrent(i) == TRUE                                          \* mutant
Shared_Nothing(i) == FALSE                                             \* mutant
Shared(i) == dirs[kernel_directory][i] = dirs[current_directory][i]

Copied_Back(got) ==                                                    \* mutant
    [f \in Frames |-> IF f \in {Lookup(current_directory, v).frame : v \in DOMAIN got}
                        THEN Blank ELSE memory[f]]
Copied(got) ==
    [f \in Frames |->
       IF f \in Range(got)
         THEN Reads(current_directory, CHOOSE v \in DOMAIN got : got[v] = f)
         ELSE memory[f]]

Clone(d) ==
    LET src == dirs[current_directory]
        private == {i \in Indices : src[i] # NULL /\ ~Shared(i)}
    IN  /\ d \notin allocated /\ allocated' = allocated \cup {d}
        /\ \E ids \in NewTables(private),
              got \in first_frame({v \in Pages : /\ Index(v) \in private
                                                 /\ Lookup(current_directory, v).frame # 0}) :
             LET dir == [i \in Indices |-> IF i \in private THEN ids[i] ELSE src[i]]
             IN  /\ dirs' = [dirs EXCEPT ![d] = dir]
                 /\ made' = made \cup Range(ids)
                 /\ tables' = Filled(dir, got)
                 /\ frames' = set_frame(Range(got))
                 /\ memory' = Copied(got)
        /\ UNCHANGED end

\* The end of initialise_paging: the first task's directory.
initialise_paging(d) ==
    /\ allocated = {kernel_directory}
    /\ Clone(d)
    /\ current_directory' = d

\* move_stack, called once by initialise_tasking.
StackPages == STACK - STACK_SIZE .. STACK
move_stack ==
    /\ current_directory # kernel_directory
    /\ \A d \in allocated : dirs[d][Index(STACK)] = NULL
    /\ MapPages(current_directory, StackPages)
    /\ UNCHANGED <<allocated, current_directory, end, memory>>

\* Tasks run once the first one has its stack.
Tasking == dirs[current_directory][Index(STACK)] # NULL

\* fork_task.
clone_directory(d) == Tasking /\ Clone(d) /\ UNCHANGED current_directory

\* A switch to a task with a directory of its own.
switch_page_directory(d) ==
    /\ Tasking
    /\ d \in allocated \ {kernel_directory}
    /\ current_directory' = d
    /\ UNCHANGED <<frames, made, tables, allocated, dirs, end, memory>>

\* exit_task: kfree of a task's directory, before the switch to another.  Its
\* tables and their frames are kept by nobody.
exit_task_Stay(d, new) ==                                              \* mutant
    /\ Tasking /\ d \in allocated \ {kernel_directory}
    /\ allocated' = allocated \ {d}
    /\ UNCHANGED <<frames, made, tables, dirs, current_directory, end, memory>>
exit_task(d, new) ==
    /\ Tasking
    /\ {d, new} \subseteq allocated \ {kernel_directory}
    /\ d = new => d = current_directory /\ "stay" \in Permitted
    /\ allocated' = allocated \ {d}
    /\ current_directory' = new
    /\ UNCHANGED <<frames, made, tables, dirs, end, memory>>

\* expand by n pages; beyond max_address it panics.
expand(n) ==
    LET pages == end .. end + n - 1
    IN  /\ Tasking
        /\ end + n <= MAX
        /\ Missing(current_directory, pages) # {} => "new_table" \in Permitted
        /\ MapPages(current_directory, pages)
        /\ end' = end + n
        /\ UNCHANGED <<allocated, current_directory, memory>>

\* free_frame of pages in the current directory: it hands the number of a frame to
\* clear_frame, where the address of one is expected, and leaves the entry present.
free_frame(pages) ==
    LET freed == {v \in pages : Lookup(current_directory, v).frame # 0}
    IN  /\ frames' = clear_frame({Lookup(current_directory, v).frame : v \in freed})
        /\ tables' = [t \in Tables |-> [o \in Offsets |->
                        IF \E v \in freed : /\ dirs[current_directory][Index(v)] = t
                                            /\ v % TABLE = o
                          THEN [tables[t][o] EXCEPT !.frame = 0]
                          ELSE tables[t][o]]]

\* contract by n pages, not counting how it rounds: the pages above the new end but
\* for the one that begins there.
contract(n) ==
    /\ Tasking
    /\ end - n >= HEAP
    /\ end' = end - n
    /\ free_frame(end - n + 1 .. end - 1)
    /\ UNCHANGED <<made, allocated, dirs, current_directory, memory>>

\* The running task writes to its memory.
write(v, c) ==
    /\ Tasking
    /\ Lookup(current_directory, v).present = 1
    /\ memory' = [memory EXCEPT ![Lookup(current_directory, v).frame] = c]
    /\ UNCHANGED <<frames, made, tables, allocated, dirs, current_directory, end>>

Next ==
    \/ \E d \in Dirs :
         \/ initialise_paging(d)
         \/ clone_directory(d)
         \/ switch_page_directory(d)
         \/ \E new \in Dirs : exit_task(d, new)
    \/ move_stack
    \/ \E n \in 1 .. TABLE : expand(n)
    \/ \E v \in Writable, c \in Contents : write(v, c)

Spec == Init /\ [][Next]_vars

\* The same with a heap that gives pages back.
ShrinkingSpec == Init /\ [][Next \/ \E n \in 1 .. TABLE : contract(n)]_vars

-----------------------------------------------------------------------------
(* Properties. *)

TypeOK ==
    /\ frames \subseteq Frames /\ made \subseteq Tables
    /\ tables \in [Tables -> [Offsets -> Entry]]
    /\ allocated \subseteq Dirs /\ dirs \in [Dirs -> [Indices -> made \cup {NULL}]]
    /\ current_directory \in allocated
    /\ end \in HEAP .. MAX
    /\ memory \in [Frames -> Contents]

\* However directories are cloned, freed and grown, a frame belongs to one page
\* of one table, and alloc_frame never hands out one that is in use.
Mapped(t, o) == tables[t][o].present = 1
FrameHasOneOwner ==
    \A t \in Tables, o \in Offsets : Mapped(t, o) =>
       /\ tables[t][o].frame \in frames
       /\ \A u \in Tables, p \in Offsets :
            Mapped(u, p) /\ tables[u][p].frame = tables[t][o].frame => t = u /\ o = p

\* Every directory shows the kernel and all of the heap, the same frames at the
\* same pages, whichever task was running when the heap grew.
KernelIsShared ==
    \A d \in allocated, v \in 0 .. KERNEL - 1 \cup HEAP .. end - 1 :
       /\ Lookup(d, v).present = 1
       /\ Lookup(d, v) = Lookup(kernel_directory, v)

\* A forked child finds in its memory what its parent has in its own.
CloneIsCopy ==
    [][\A d \in allocated' \ allocated, v \in Pages :
          /\ Lookup(d, v)'.present = Lookup(current_directory, v).present
          /\ Reads(d, v)' = Reads(current_directory, v)]_vars

\* What a task does to its stack, no other task sees: the pages of the others' stacks
\* stay where they are, and keep what they hold.
StacksArePrivate ==
    [][\A d \in allocated \cap allocated', v \in StackPages :
          d # current_directory =>
            /\ Lookup(d, v)' = Lookup(d, v)
            /\ Lookup(d, v).present = 1 => Reads(d, v)' = Reads(d, v)]_vars

\* "A bitset of frames - used or free." (paging.c): a mapped frame is marked as
\* used.
BitsetOfFrames ==
    \A t \in Tables, o \in Offsets : Mapped(t, o) => tables[t][o].frame \in frames
=============================================================================
