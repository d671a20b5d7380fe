# OGOS in TLA+

OGOS is a small 32-bit x86 kernel (`src/kernel`, about 5000 lines of C and
assembly): one address space, cooperative tasks, a kernel heap, a keyboard, a
text screen with a clock in its corner, a RAM disk and a shell. With it comes a
C library for its programs (`src/toolchain/patches/newlib/ogos`). This directory
holds a TLA+ model of both, the TLC runs that check the model, and theorems
about it that TLAPS proves. Paths below are relative to `src/kernel/src` unless
they begin with `include/`, which is `src/kernel/include`, or with `ogos/`, which
is `src/toolchain/patches/newlib/ogos`.

## 1. Inventory

| Component | State | Operations | Correct when |
|---|---|---|---|
| Interrupts (`cpu/irq.c`, `cpu/asm/irq.S`) | `irq_handlers`, the interrupt flag, the stack of interrupted code; in the 8259s: request and in-service bits | entry stub, `irq_handler`, `irq_send_eoi`, `irq_register_handler` | each interrupt is acknowledged once and to the right controller; handlers do not interrupt each other; kmain goes on with interrupts on |
| Keyboard and stdin (`devices/keyboard.c`, `devices/timer.c`, `libc/stdio.c`) | `inbuffer`, `in_size`, `stdin`, `kb_buffer`, `last`, `shift` | `keyboard_interrupt_handler`, `read_kb_buff`, `timer_callback`, `getch`, `init_keyboard`, `init_stdin` | keystrokes are read in order, once, and the last one is not lost; writes stay inside the buffers |
| Tasks (`sys/task.c`, `sys/schedule.c`) | the linked list from `ready_queue`, `current_task`, `next_pid`, `nTasks`, `algorithm`, `current_directory`, saved contexts | `start_task`, `fork_task`, `exit_task`, `kill_task`, `schedule`, `switch_task`, `preempt_task`, `sjf_arrange`, `set_scheduling_algorithm` | the list holds each live task once; what is switched to can run; priorities decide; nobody starves among tasks that give way once no more are started |
| Kernel heap (`mem/kheap.c`, `mem/ordered_array.c`) | headers and footers in memory, the index of holes, `end_address`, `phys_mem_usage` | `kmalloc*`, `kfree`, inside them `expand`, `contract`, `find_smallest_hole`, the ordered array | blocks never overlap, no memory is lost, holes are merged, legal calls return |
| Paging (`mem/paging.c`, `cpu/asm/process.asm`) | the bitmap `frames`, page tables and directories, `current_directory` | `alloc_frame`, `free_frame`, `get_page`, `clone_directory`, `switch_page_directory`, `page_fault` | a frame has one owner; a clone shares the kernel's tables and copies the others |
| Terminal (`devices/tty.c`) | cursor, colours, screen cells, static parser state, the VGA controller's cursor | `tty_putchar`, `tty_scrolldown`, `tty_interpret_ansi`, cursor and colour calls | the cursor stays on the screen, sequences are not torn, kmain's output looks as if no clock had printed |
| Clock (`misc/time.c`, `include/kernel/time.h`) | `ticks`, `time_us`; in the device: the date, registers A and B, the index register | `rtc_handler`, `time_install`, `tdate`, `ttime`, calendar functions | the date is read whole, counted on and converted back without loss; the interrupt comes at the rate the handler counts by |
| RAM disk and VFS (`fs/*.c`, `include/freebsd/queue.h`) | the list of tar files, the nodes, one static `dirent` | `tar_parse_mem`, `init_initrd`, `vfs_*`, the walk `vfs_print_content` | the nodes are the files of the archive; reads stay within a file |
| Line input, shell (`libc/stdio.c`, `sys/shell.c`, `kernel.c`) | the caller's line buffer | `gets`, `shell`, `main_loop` | the screen shows the line that is stored |
| C library allocator (`ogos/klmalloc.c`) | bins of pages, a stack of cells in each, a skip list of big blocks, the spin lock | `malloc`, `calloc`, `valloc`, `realloc`, `free` | blocks never overlap and keep their contents, the lists hold what is free, threads exclude each other and go on |
| C library above the system calls (`ogos/syscalls.c`, `ogos/pwent.c`, `ogos/crt0.s`) | `environ`, the open password file and its entry, `_username`, directory streams | `pre_main`, `getpw*`, `setpwent`, `endpwent`, `getlogin`, `opendir`, `readdir`, `closedir`, `execvp`, `sigaction` | answers do not depend on earlier calls; entries are read once; the command of the path is run; a query sets back what was there |
| Boot (`boot/*`, `kernel.c`) | none of its own | the order of the `init_*` calls | nothing is used before it is set up |
| Tables and exceptions (`cpu/gdt.c`, `cpu/idt.c`, `cpu/isr.c`) | GDT, IDT, `isr_handlers` | set-up, `isr_handler` | constant after boot |
| System calls (`sys/syscall.c`) | `syscall_handlers` | `init_syscall`, the handler | never enabled |
| Ports, CPU detection, `libc`, `misc` | almost none | wrappers and helpers | - |

The rest of `src/toolchain` (patches of binutils, gcc and newlib, tables of
character widths) and `src/util` are third-party code, build scripts and boot
images and are not part of what runs.

**How the parts interact.** Interrupt handlers run through gates that clear the
interrupt flag, and everything else through function calls. kmain and the
handlers share memory without locks: `inbuffer`/`in_size` (keyboard, timer,
`getch`), the terminal (clock handler, everything that prints), `time_us`, the
index registers of the VGA controller and of the real-time clock.
Handlers neither allocate nor touch the list of tasks, so the heap and the task
list are entered by one call at a time. Tasks use the heap for their
structures, stacks and page directories; the heap uses paging for its pages,
and paging uses the heap for its tables. The RAM disk is parsed once and read
only afterwards. Programs and their C library see the kernel through system
calls, which OGOS does not enable yet: there the kernel is external.

**What is hard.** Handlers that run between any two memory accesses of kmain;
nested interrupts, because `irq_handler` acknowledges first and re-enables
interrupts before it returns; spurious interrupts; a linked list that is
re-sorted in place while one of its elements is running and may be unlinked and
freed; a context switch in the middle of a call; a heap that recognises its
neighbours by what is written next to a block. A terminal whose parser
keeps its state between characters and is entered by a handler in the middle of
them; a device that counts on while its registers are read; a C library that
shares one lock, one file and one entry among threads and calls. There is no
network, no persistent state and no second processor, hence no crash recovery,
message loss or true parallelism to model. The hazards are listed line by line in
`PROJECT.json`.

## 2. Modules

| Module | What | Code |
|---|---|---|
| `ConsoleInput` | stdin and its three users | `keyboard.c`, `timer.c`, `stdio.c` `getch`, `kernel.c` |
| `Irq` | the two 8259s, interrupt entry to return | `irq.c`, `irq.S` |
| `RunQueue` | abstract: a queue of pids, one running | |
| `Tasks` | the linked list and the switch; implements `RunQueue` | `task.c`, `schedule.c` |
| `Kheap` | heap memory word by word and its index | `kheap.c`, `ordered_array.c` |
| `Paging` | frames, page tables, directories | `paging.c`, `process.asm`, `task.c` `move_stack` |
| `Terminal` | screen, cursor and parser as a record and operators on it | `tty.c` |
| `Display` | extends `Terminal` with its two users, kmain and the clock | `kernel.c`, `stdio.c` `gets`, `shell.c`, `time.c` |
| `Clock` | the device read while it counts, the calendar | `time.c`, `time.h` |
| `Ramdisk` | the archive, its parser, the nodes and the VFS | `tar.c`, `initrd.c`, `vfs.c`, `queue.h` |
| `Klmalloc` | the allocator and its lock | `ogos/klmalloc.c` |
| `UserLibrary` | accounts, directories, commands, queries of signals | `ogos/syscalls.c`, `ogos/pwent.c` |
| `ConsoleInputProofs`, `IrqProofs`, `PagingProofs`, `KlmallocProofs`, `ClockProofs`, `TasksProofs`, `KheapProofs`, `UserLibraryProofs` | theorems | |
| `MC...` | the instance of each for TLC | |

A definition marked `\* mutant` stands before the one it distorts and is used by
nothing in the model: put in its place it shows that a property can fail.

### ConsoleInput

A character is the serial number of its keystroke. `obf` and `irr` are the
keyboard controller's one-byte output buffer and the latched request; `mem` is
`inbuffer` with the byte before it and the bytes behind it, so that what the
code reads and writes outside is seen. `keyboard_interrupt_handler` (with
`read_kb_buff`) and `timer_callback` are single actions, since they run with
interrupts off; that they are atomic is the property `HandlersAtomic` of `Irq`.
kmain runs with interrupts on and is cut at each access to shared memory:
`init_keyboard`, `init_stdin`, `ClearCell` (an iteration of its loop), and
`getch` as `Poll` (the test), `Load` and `Store` (`in_size++` on a volatile) and
`Fetch` (the read, which loads `in_size` again). `Irq1Unhandled` is the interrupt
before the handler is registered: acknowledged, port 0x60 not read.
`shift` only selects between tables with the same empty entries and is left
out. The history variables `wrapped`, `stray`, `early` and `fresh` say whether the buffer
has been filled once, whether a store left it, whether an interrupt came before the
handler, and which character was stored last.

Nothing in the code bounds `in_size` but the tick that rewinds it: `getch` goes on as
long as it finds bytes that are not zero. `IndicesBounded` therefore says two things: inside the buffer
until it has been filled once, and after that how far behind it the polling comes, over
`MaxOverrun` bytes of other variables and one more for each keystroke stored there.
`SilentIffEarly` says exactly when the keyboard is lost: the default handler
acknowledges a key without reading the port, and no further interrupt comes.

### Irq

`irr`, `isrM`, `isrS` are the controllers' registers (external, after the
8259A's rules: priority by line, the slave on line 2, non-specific EOI, line 7 of
a controller for a request that went away). The processor is a stack of
frames: `Deliver`, `SpuriousMaster`, `SpuriousSlave` push one through a gate that
clears `intr`; `Acknowledge` is `irq_handler` up to the EOI or to the early return
for a spurious interrupt; `RunHandler` is the registered handler and the STI;
`Return` is the stub's tail with `iret`. `RegisterBegin` and `RegisterEnd` are
`irq_register_handler`. A handler's body is one step here; what handlers do is
in the component they belong to.

### Tasks and RunQueue

A task structure is a slot; `next` is its next field, kept apart from the
record `task`. Of a context the model keeps the class of the saved eip (never
set, entry point, `fork_task`, the switch), not the stack. One action is one call by
the running task up to the moment a task runs on; `start_task` and `fork_task`
include `preempt_task` and the immediate switch, `exit_task` includes
the unlink, the frees and the switch, `schedule` includes the re-sort.
`sjf_arrange` is the in-place bubble sort on the pointers, swap by swap, with its
bounds on `nTasks`. Time slices are not modelled, because `schedule` refills them
and nothing spends them.

`Permitted` names calls which the code accepts and which break it: `fork_above`,
`kill_self` and `algorithm_2`. A fork of a child above the caller's own priority, the only
one the repository makes (`__test__`), is in the run `tasks`: the child is
switched to before its eip is set, where the model stops (`wild`), and `ResumeSound` says
that there is no other way to such a switch (`SwitchedTooEarly`). The run leaves the other two
out; section 3 tells what each does to the list.

`RunQueue` says what this amounts to: a sequence of pids, the running one among
them; a new task comes anywhere, and runs at once only right before the running
one; the running one gives way to its successor, and the last one may have the
queue re-ordered. `Tasks` implements it under the mapping of the list to its pids.

### Kheap

`heap.mem` is the memory from `start_address` on, in words, with headers and
footers as the words they are: what `freeh` finds when it looks to its left and
right is what is there, stale or not. `heap.index` is the ordered array,
`heap.status` says whether an assertion has failed or an access has left the
mapped pages. `kmalloc`, `kmalloc_a` and `kfree` are the actions; the operators below
them give the heap that a piece of the code leaves: `find_smallest_hole` (with its
alignment test the wrong way round), `expand`, `Grow` and `Carve` (the two halves of
`kalloc`), `LeftHole`, `UnifyLeft`, `UnifyRight`, `Contract` (the parts of `freeh`),
`Insert` and `Delete` (the ordered array). `blocks` is a history of what was handed
out. `NothingLeaked` says that the words in no chunk are as many as `create_heap`
leaves out of its hole, however the heap was split, merged and grown since. Sizes
are in words because every caller asks for a multiple of four bytes.

`Permitted` again names situations that the code does not survive
(`stale_footer`, `free_last`, `contract`, `grow_over`, `tight`). The passing run shows
that apart from these five the heap is sound; section 3 tells what each of
the five breaks when it is permitted alone. A merge with the hole on the right is no such
situation: it leaves the heap tiled and the hole with a footer that names the
swallowed header (`freeh` sets its own pointer to that footer and never writes through it). What the code does not
survive is the next step, a free of the block behind that footer (`StaleLeft`).

### Paging

Addresses are page numbers. `frames` is the bitset as a set, `tables` holds the
entries of the page tables that are `made`, `dirs` the pointers of the directories
that are `allocated`. `Init` is the state in which `initialise_paging` clones the
kernel's directory; its clone, `move_stack`, `clone_directory` (a fork),
`switch_page_directory`, `exit_task` (the `kfree` of a directory, whose tables
leak) and `expand` are the actions, and `write` is a task that writes to its stack or
to the heap. Loops over pages are one step: `Lowest` says which numbers a loop of
first-fit allocations hands out, `MapPages` is `alloc_frame(get_page(...))` for a
range of pages, `Filled` the table entries it leaves. `contract` is an action of
`ShrinkingSpec` only, because `free_frame` breaks the bitset (run `paging_free`).

`Permitted` names three situations that the code meets and does not survive:
`full` (no free frame: `first_frame` returns an arbitrary number), `new_table` (the heap
grows past its last page table, and the new one is put into the current directory
only), `stay` (the next task has no directory of its own; see `CurrentDirectoryLive` in section 3).

### Terminal and Display

`Terminal` holds the state of `tty.c` in a record `t`. A call is a sequence of
operations, cut where the clock's handler can come between two stores: a
character goes to the parser, the cursor is moved, and each of the four writes to
the VGA controller (index, high byte, index, low byte) and each cell of a loop over
the screen is an operation of its own (`ByColumns` and `ByRows` are the two orders of such loops). `Effect(t, o)` is what one stores, `Rest(t, o)` what it goes on with,
`Run(t, ops)` the call that nobody interrupts. Only the loop that erases to the end
of the line is one operation, because no sequence that kmain prints has it.

`Display` composes it: kmain's operations stand in `todo`, `rtc_handler` runs
whole between any two of them, and kmain never between the handler's. `quiet` is
the same terminal without the clock, which is what `ClockIsInvisible` compares with.
kmain prompts, edits a line in `gets` and runs a command: one of the table by
what it does to the screen, `reboot` up to the halt, or none, for which it prints the line.
The keys are a printable character, backspace, tab, Escape (which `gets` stores and echoes,
so that the parser waits for the rest of a sequence) and a function key (stored, and
nothing on the screen). `mess` says what such keys have done to the line on the screen, `date` which
date stands whole in the first row; it is none from the moment kmain stores into one of
its cells, be it in the middle of a loop.

`Permitted` names two situations in which a tick leaves a trace: `at_edge` (the cursor is
off the screen, before a scroll that is due or at the end of a full row while the next key is
awaited) and `mid_sequence` (the parser is not at rest, after an Escape key, and the
handler's sequence is taken for the rest of kmain's).

### Clock

`time_install` reads the seven registers (`ReadRegister`, one at a time) until
two passes agree, while `UpdateBegins` and `UpdateEnds` are the device's: during
an update each register shows its old or its new value. `Convert` turns them from
any of the four formats to `time_us`, kept as days and seconds. `Setup` is one
port write at a time; interrupts come as soon as register B lets them
(`Interrupt`), and `Elapse` is a day of them. `calendar` counts on by the
calendar's own rules and not by those of `time.c`.

### Ramdisk

An archive is chosen and laid out in blocks by the rules of tar (external); the
code sees bytes only, and a byte is the pair of its file and its place. `Parse` is
one iteration of `tar_parse_mem` with the insertion into the tail queue, whose
`last` pointer is kept as the field it points to. `init_initrd` makes the nodes,
`Readdir` and `Show` are the walk of kmain, `Read` is any later call of the VFS,
`WriteOpenClose` one of those for which no node has a callback.

### Klmalloc

Memory is counted in words, the smallest cell. `m` is the allocator: headers by
page, the first page of each bin, the skip list's pointers, the words. Each thread
goes through `Call`, `spin_lock`, then `Find` and `Take` (malloc, calloc, valloc,
realloc), `Free` or `Reallocate`, then `spin_unlock`, so that what the lock does
not protect would be interleaved; `realloc` to 0 comes to the lock a second time
(`relock`). The level of a skip-list node, which the code draws at random, is a
choice. An assertion that fails is the status "panic" and ends the program, and so does
sbrk at its limit ("lost"): it gives -1, which the next assertion does not take for a page.
`LockComesFree` names the two ways in which the lock is kept; it stays true with everything
permitted. That one of them, realloc to 0, is not what the code says of itself is
`ReallocToZeroReturns` (section 3).

### UserLibrary

A program uses one of the library's four parts, which share no state: the password
file (`pwdb`, the line the open file is at, `pw_ent` and `_username`), directory
streams, `execvp` or a signal's handler. System calls are the kernel's and so
external; `Create`, `Unlink` and `chmod` are other processes, which come between
any two of them. An `execvp` that succeeds starts the next program with the
environment of this one (`pre_main`). A query of a signal's handler is two system calls
(`QueryTakes`, `QueryRestores`), between which other threads install handlers and
query; signals that arrive are not modelled.

## 3. Runs

Passing runs, each with the configuration of its module's name
(`library` is `UserLibrary.cfg`, `malloc` `Klmalloc.cfg`, `files` `Ramdisk.cfg`):

| Run | Question | Distinct states |
|---|---|---|
| `console` | do order and the newest key survive every interleaving of keyboard, timer and kmain, and how far do the indices go? is a full buffer rewound and the newest key returned? when is the keyboard lost? | 418k |
| `irq` | is every interrupt acknowledged once and rightly under nesting, on both controllers and with spurious interrupts? is a line ever blocked for good? | 87k |
| `tasks` | list, contexts and priorities under all calls, forks above the caller included; does the list implement `RunQueue`? | 18k |
| `tasks_live` | does every task run again when tasks give way and no more are started? | 3.7k |
| `kheap` | do split, merges on both sides, growth and alignment leave chunks that tile the heap, and do legal calls return? | 596k |
| `paging` | has every mapped frame one owner, do all directories show the same kernel and heap, is a fork a copy and private? | 179k |
| `display` | does the clock, printing between any two stores of the terminal, leave no trace but the date? does the screen show the line that `gets` holds, wrapped or scrolled? | 160k |
| `clock` | is the date that is read, converted, counted on and converted back the calendar's? is the interrupt's rate right? | 1.3M |
| `files` | does the parser find every file and the walk print it? are reads exact? | 73k |
| `malloc` | are blocks sound and the free lists complete under two threads, also when sbrk fails? is the lock given back on every path but the two that are named? | 257k |
| `library` | are accounts, entries and commands found whatever came before and happens meanwhile? | 321k |

One run shows a disagreement between the code and what it says of itself
(`paging_free`): freeing a frame marks frame 0 as free, which is mapped, and not
the one given. The quoted line is in `PROJECT.json`.

Situations that the passing runs leave out, because the code does not handle
them. Each breaks the property named here as soon as it is added to `Permitted` of
the run's configuration:

| Added to `Permitted` | Run | Breaks |
|---|---|---|
| `kill_self` | `tasks` | `ListSound`: the task goes on outside the list (`sys/task.c:557`) |
| `algorithm_2` | `tasks` | `ListSound`: a new task is in no list (`sys/schedule.c:182`) |
| `stale_footer` | `kheap` | `HeapIsTiled`, and alone `CallsReturn`: the block behind a hole whose footer names a swallowed header is freed, which revives that hole (`mem/kheap.c:393`, after a merge at 402) |
| `free_last` | `kheap` | `CallsReturn`: freeing the last block reads behind the heap (`mem/kheap.c:405`) |
| `contract` | `kheap` | `CallsReturn`: the end of the heap leaves the page boundary (`mem/kheap.c:146`) |
| `grow_over` (with `HOLE = 40`, `Sizes = {3, 11}`, `Aligned = {}`) | `kheap` | `HeapIsTiled`: the heap grows into its highest hole over a block behind it (`mem/kheap.c:294`) |
| `tight` | `kheap` | `HeapIsTiled`: an aligned block is put into a hole that is too small (`mem/kheap.c:180`) |
| `new_table` | `paging` | `KernelIsShared`: other directories do not show the new part of the heap (`mem/kheap.c:132`) |
| `full` (with `nframes = 11`) | `paging` | `FrameHasOneOwner`: a frame in use is handed out (`mem/paging.c:72`) |
| `stay` | `paging` | `TypeOK`: the current directory is a freed one (`sys/task.c:459`) |
| `at_edge` | `display` | `HardwareCursorFollows`, and alone `ClockIsInvisible`: the handler scrolls or wraps in kmain's place, and a line is lost (`devices/tty.c:237`) |
| `mid_sequence` | `display` | `ClockIsInvisible`: the handler's sequence ends the one begun by an Escape key, and the rest is printed as text (`devices/tty.c:281`) |
| `twelve` (with `Starts <- Noon`) | `clock` | `DatesAreRight`: noon becomes 0 and midnight 12 (`misc/time.c:260`) |
| `year_2100` (with `Years = 6`) | `clock` | `DatesAreRight`: 2100 is taken for a leap year (`misc/time.c:13`) |
| `dev_file` | `files` | `WalkShowsEveryFile`: the file is taken for the directory (`fs/initrd.c:58`) |
| `same_name` | `files` | `WalkShowsEveryFile`: the first file is shown twice (`fs/initrd.c:58`) |
| `wraps` (with `Lengths = {63}`) | `files` | `ReadsAreExact`: a read goes on behind the file (`fs/initrd.c:30`) |
| `realloc_valloc` | `malloc` | `FreeListsSound`: realloc takes the second page of the block for a header, and an assertion fails (`ogos/klmalloc.c:906`) |
| `calloc_wrap` (with `CallocSizes = {8, 260}`) | `malloc` | `BlocksSound`: the product wraps (`ogos/klmalloc.c:976`) |
| `unknown_uid` | `library` | `AccountsFound`: getlogin returns the name of its last call (`ogos/syscalls.c:382`) |
| `unlink_while_reading` | `library` | `EachEntryOnce`: an entry moves up and is skipped (`ogos/syscalls.c:412`) |

Six more such checks need no permission; each is a definition of the module that
breaks when it is added to the run:

- `WritesStayInStdin`, INVARIANT of `console`: an early key is stored through a null
  pointer, a key between the end of the buffer and the next tick behind it.
- `AnyKeyContinues`, PROPERTY of `console`: a key pressed before the handler is
  registered silences the keyboard.
- `ForkedChildReturns`, INVARIANT of `tasks`: a child forked above its parent is
  switched to before it has an eip (`sys/task.c:384`).
- `CurrentDirectoryLive`, INVARIANT of `tasks`: the current page directory is a freed one
  (`sys/task.c:459`).
- `ReallocToZeroReturns`, PROPERTY of `malloc`: the code says "For a size of zero, free
  the pointer and return NULL" (`ogos/klmalloc.c:897`), and waits for its own lock.
- `QuerySetsBack`, INVARIANT of `library`: a query of a signal's handler sets it, as the code says, "back to
  whatever it was" (`ogos/syscalls.c:663`), not to what another thread has installed
  meanwhile, and of two queries that overlap the second may leave the default.

With `Passwords <- WithEmptyField`, `library` breaks
`AccountsFound`: strtok_r swallows an empty field and the lookup ends at that line
(`ogos/pwent.c:62`).

Seen while reading, with no run of its own: `kill_task` never looks at the first
task of the list (`Victim`), the timer switches no task (`include/kernel/task.h`
says it does), the index of holes is not re-sorted when the size of an entry
changes (`freeh` does so), and a forked child of a started task runs on its
parent's stack, which lies in the heap that no clone copies.

### Bounds

- `ConsoleInput`: buffers of 3 and 2 cells instead of 4096 and 32, so that both
  wrap within 4 keystrokes; the handler and `getch` look only at the
  cell at `in_size` and its neighbour. `MaxOverrun` = 2: two
  bytes of other variables behind the buffer, each zero or not. No guard stops `getch` there: `Reach` shows that it
  comes no further than one cell for each keystroke. The run leaves out the make code of Shift, which
  does what any other make code without a character does; the theorems
  need no bounds on the sizes and hold for all kinds of keys.
- `Irq`: the timer and the clock, one line of each controller, and
  lines 7 and 15, the two a spurious interrupt arrives on; depth 3: a frame in each
  of its states above another one. The theorems hold for every set of lines and
  every depth.
- `Tasks`: four slots (a first, a middle, a last task and a new one), two
  priorities (a new task is above the running one, level or below), four
  pids. `MaxPid` ends the starts; slots and directories are reused. In `tasks_live` this bound
  would hide a starvation (a task of higher priority that starts the next one and
  ends, again and again), so `EveryTaskRuns` has the end of the starts as its hypothesis. That run has
  no symmetry.
- `Kheap`: pages of 16 words, a heap of 3 pages that may grow to 5, requests of 11
  words and aligned ones of 3, up to 4 blocks: exact fits, rests too small for a
  hole and rests that hold one occur, and a page-aligned block
  leaves a hole in front. `W` is the width at which size differences wrap; it is more
  than twice the heap, as 2^32 is.
- `Paging`: tables of 4 pages; two kernel pages, a stack of three pages
  across a table boundary (as at 0x10000000), a heap of one page that grows by up to three in
  its table; three tasks and 20 frames, enough for all three, until leaked frames and
  tables (12) run out. `MAX` leaves room for a table that is missing.
- `Display`: a screen of 3 by 3, tabs of 2, bytes that hold 0 to 7, so that lines
  wrap, the screen scrolls and the cursor's position needs both bytes within 4 keys
  (a character, a backspace, a tab, Escape, a function key and the newline); two dates of different lengths. Sequences
  have at most two parameters, as those that the kernel prints.
- `Clock`: four dates before the carries of a year, of February in a leap year and in
  another and of an hour, each in the four formats; up to three updates while the
  registers are read, five years in steps of a day, three single interrupts with
  `RTC_FREQ` = 2, so that one of them ends a second.
- `Ramdisk`: blocks of 2 bytes; up to three files of sizes 0, 1, 2, 3, 4 and 9 (none, less
  than a block, whole blocks, a byte more, more than one octal digit), reads at, before and
  behind the end, `W` = 64.
- `Klmalloc`: two threads, three blocks, pages of 32 words and two of them, so that sbrk fails soon, one skip-list level above
  the lowest; sizes that fill a page with three cells, that need a big block, and
  a block from valloc, which begins in the second page of its own.
- `UserLibrary`: password files of up to three lines with two names of one number,
  a name twice and an account that comes last; two directories, entries,
  streams and descriptors, a path of two; two handlers and two threads.
- Deadlock is not checked in runs with a bound on a history (keystrokes, pids, blocks, updates)
  or a final state (`heap.status`, `m.status`, a halted kernel), where the model stops; it is checked
  in `irq`, `files` and `library`.

### Fairness

- `ConsoleInput`: kmain, the timer and the keyboard interrupt are weakly fair: the
  PIT is never masked, interrupts are enabled in kmain (proved: `KmainEnabled`) and
  handlers return. The user is not obliged to type.
- `Irq`: the steps of the processor are weakly fair. Delivery of a line is strongly
  fair, since interrupts are switched off and on in between; devices
  and glitches owe nothing. `NoLineWedged` still allows that higher lines starve a
  lower one, as the hardware does.
- `Klmalloc`: each thread's steps are weakly fair: the kernel under the program gives every
  thread the processor, and `spin_lock` yields while it waits. That the lock is ever found free is not
  assumed; `LockComesFree` only says that who has it gives it back, but for the
  two exceptions it names.
- `Tasks`: `Cooperative` assumes that the running task calls `schedule` again and
  again while there is another one. The code preempts nobody, so this is an assumption about tasks. It is written without ENABLED as in
  `CanGiveWay`. Starting tasks for ever is not excluded by it but by the property's
  hypothesis.

## 4. Proofs

All theorems are about `Spec` of the component, for all values of the
constants under the assumptions named in the module.

`ConsoleInputProofs` (from `SizesAssumption`, `KindsAssumption`). The inductive
invariant is `IInv`: `TypeOK`, `Phases`, `Reach`, `Ordered`, `NewestPlace` and `SilentIffEarly`. `NewestKeySurvives`
alone is not inductive: a store between `Poll` and `Fetch` needs to
know that everything behind `in_size` is still empty and everything in front of
it was read (`Ordered`), that the register holds `in_size` between load and store
(`Phases`), and in which of the three places the newest character is
together with what the cell behind it holds (`NewestPlace`). How far the indices go needs that the cells
behind the buffer and its neighbours are empty but for stored keystrokes (`Reach`). Each step of `Next` is one
lemma. From `IInv`: `IndicesStayBounded`, `NewestSurvives`, `SilentOnlyIfEarly` and the action
property `InOrder`.

`IrqProofs` (from `LinesAssumption`, `MaxDepthAssumption`). The invariant `IInv`
adds to the properties `OwnService`: the in-service bits are those of the running
frame until its EOI and none after it, which is what makes a non-specific EOI
hit the right line, and the fact that a registration runs with interrupts off
outside any handler. From it: `TypeCorrect`, `NothingInService`, `AtomicHandlers`,
`EoisAreDue`, `KmainEnabled`.

`PagingProofs` (from the assumptions of `Paging`, and from `NeverFull`: no frame is
asked for in vain). `FInv == Typed /\ FrameHasOneOwner` is
inductive, since what `Filled` puts into tables are free frames, each once
(`FirstFrameGives`, `FilledKeepsOwners`): `TypeCorrect` and `OneOwner`, both also for a heap that
grows past its tables and for tasks that go on in a freed directory. `Typed` lacks of `TypeOK` that the
current directory is live; `TypeCorrect` adds that only an exit before a task without a directory takes the
processor into a freed one, so that it is live where that does not happen. What the directories
show is proved under `Supported`, which excludes that. `KernelShared` needs `KInv`: every directory has the kernel
directory's tables (`SharedTables`), and from the heap on no others, so that what
`expand` maps through the current directory lands in a shared table; an entry
with a frame is present. Without `new_table` this is preserved by each step;
`IndexMonotonic` keeps the stack's tables apart from the heap's. The action properties
`ClonesAreCopies` and `StacksStayPrivate` need `Private`: a directory other than the
kernel's shares none of its own tables, the tables of a stack belong to the directory
whose stack it is, a table stands at the same index wherever it stands, an entry that
has a frame is present, a table that was not made is empty, and frame 0, which an
entry without a frame seems to name, is the kernel's. That kernel, stack and heap
never meet in one table is an assumption on the layout (`LayoutAssumption`), which the
addresses in `sys/task.c` and `kheap.h` meet.

`KlmallocProofs`. `OneThreadInside` needs `LockInv` and no assumption: the lock is 1
while a thread is between `spin_lock` and `spin_unlock`. A step inside moves one
thread within the locked part and leaves the lock alone (`InsideStep`), whatever it
does to the memory, so that `MutualExclusion` holds for every number of threads and also where
realloc asks for the lock a second time (which the code answers by waiting for ever).

`BlocksStaySound` (from the module's assumptions and `NoWrap`: no product of calloc
wraps, realloc gets no block of valloc; sbrk may fail and realloc may be asked
for nothing). Its invariant `HeapInv` speaks of places: the cells of a small page and the room
of a big block. `Good(s, U)`: with the places of U in use, pages lie behind each other with
sizes that fill them (`Layout`), the stack of a page holds exactly its cells
outside U (`SmallOk`), a big block has a head exactly when it is not in U
(`BigOk`), and all links of the lists of pages and of the skip list lead to pages of that kind.
`Sound` relates this to the blocks: each is in a place of its own, long
enough (`Fits`), with its content; what a thread got and has not returned yet is in use too
(`Held`). `ThreadOk` says what a call under way may rely on: between `Find`
and `Take` the header found still fits, since the lock keeps others out. `klmalloc` and `klfree`
are taken apart into the code's functions, each shown to keep `Good` and
the blocks in use (`Keeps`), the second also when one of its assertions fails: a free
place becomes one in use (`PopKeeps`, `NewBinKeeps`, `NewBigKeeps`) or the other way round (`PushKeeps`).
The order of the skip list and which pages the lists hold are not part of
`HeapInv`, so that a search could find a block that is in use or too small; there the proof
uses the code's assertions (`bin_header->size >= size`, the bounds in
`klmalloc_stack_pop`), at which the program ends. `PowersAssumption` states what powers of
two the proof needs, as the provers know nothing of exponents.

`FreeListsStaySound` (from the same assumptions) shows that those assertions never fail. `ListInv`
adds `Ordered` to `HeapInv`: the list of a bin is a stack of exactly the pages of that size
with a free cell (`BinList`), every big block has whole pages (`Paged`), and there are ranks
for the free big blocks under which the skip list is one (`Skip`): they fall from `head` on as
the sizes rise, each level's blocks are among those of the level below, all free blocks are on
level 0 and none is above `level`, and the node behind x on a level is the one with the highest rank below
that of x (`Follows`). Ranks instead of positions let an insertion keep the other links:
the new block's rank is put between those of its neighbours (`RankFor`). A search on a level
comes to the last smaller node because ever fewer blocks have a rank below the current
node's (`AlongReaches`, `BeforeReaches`), so that `findbest` gives the first block that is long enough
(`FindReaches`), `insert` and `delete` relink each level they should (`InsertSkips`,
`DeleteSkips`), and what `Find` found is still what a search would find when `Take` takes it
(`Finds`). After that no function comes to a failed assertion other than the one behind sbrk
(`KlmallocServes`, `FreeServes`). `ListIsSound` turns ranks back into walks: a walk
along a list visits every element once, by its rank, and ends (`WalkVisits`), so that the
walk of one level is a part of the walk of the level below (`VisitsPart`).

`ClockProofs`. `RateIsSet` needs `SetupInv`, which says for each of the set-up's ten
steps which register the index names and what A, B and `prev` hold. The index stays
where the set-up puts it because the device is silent (`NoInterruptInSetup`): first B
has its interrupt off, and when B switches it on, A has rate 0 until the last write.
The theorem is `RateIsSetAlways`. `DatesStayRight` is for all dates of `StartsAssumption`
(from 1970 to 2099), all four formats, any number of interrupts and of gaps of up to a day, under
`InBounds`: no permitted situation, and fewer than 60 updates while `time_install` reads.
(With a day of updates between two reads of one pass, two torn passes can agree.) `DatesInv`
names, for each register read, the seconds in which it may have been read (`Reading`): those
of the pass before end where this pass begins. Within a minute the seconds take
no value twice and no other register changes twice, so passes that agree are both the date
at which the second began (`PassesAgree`). The rest is arithmetic: BCD and the hours of
twelve are undone (`RegistersBack`), `tdate_parseTime` undoes `ttime_parseDate` (`DateBack`,
from the closed form of the recursive count of days, `DaysForYear`), and adding up to a
day to the time is adding it to the calendar (`LaterAdds`), up to 1 January 2100.

`TasksProofs`. `ListIsSound`, `TasksPreempt` and `TasksAreSorted` hold unless the caller
kills itself or chooses algorithm 2, and so do `TasksResume` and `ListImplementsQueue`, forks above
the caller's own priority included: the first says that these are the only way to a switch without an eip. `ListInv` says of the pointers that they are a list:
there is a sequence of distinct slots that starts at `ready_queue`, in which each slot's
`next` is the one behind it and the last one's is none, and which are the live slots
with the running one among them. The walk along pointers (a recursive function) is shown to
follow that sequence, so that unlinking, insertion and the swaps are operations on
sequences. `sjf_arrange` has an invariant for each of its loops: after i passes the last i
tasks are in their places and above none of those before them, and within a pass the task
at the position reached is the lowest so far (ties left alone, as the code
does). `ResumeInv` adds that every task but the running one was left by a switch or a
start, and that pids are below `next_pid`. With the sequence at hand each action
is a step of `RunQueue` or a stutter.

`KheapProofs` (from `LayoutAssumption` and `SizesAssumption`, with `Permitted = {}`). The
invariant `InOrder` is about memory as much as about chunks. `Layout`: the chunks are the
holes of the index and the owners of blocks; each has its header at its
beginning, blocks and the holes in front of a chunk also have their footer, no last word
of a chunk looks like a magic number, no two chunks overlap or, if both are holes, touch,
and words in no chunk are 0. `Gap`: those words are one piece of the length that
`create_heap` leaves out. `Served`: a block is as large as asked for. The properties
alone are not inductive because `freeh` looks at the words to the left and right of a
block whether a chunk is there or not, and decides by what it finds. The argument takes a call apart as the code does: what
`find_smallest_hole` returns is a hole of the index (`FindIs`); a chunk is
replaced by up to three that cover the same words (`Recut`, for `CarvePlain` and
`CarveAligned`); the last hole is lengthened or a new one put at the end (`GrowIs`, for which
the gap moves or closes); `freeh` recognises a hole on the left exactly when there is one (`LeftIs`),
and so on the right, where it takes it out of the index (`RightIs`). A merge to the right leaves
the one kind of hole whose footer does not name its header; that no block behind such a hole is freed
is part of what `Permitted = {}` leaves out (`stale_footer`). `AllocateKeeps` and `FreeKeeps` put them together.

`UserLibraryProofs` (from `NullAssumption` and `LibraryAssumption`). `AccountsAreFound` and `EntriesAreRead` exclude the one
situation of section 3 that breaks them, and `AccountsAreFound` password files with an empty
field (`Complete`): in a complete file the loop of a lookup ends at the first match (`FirstMatch`),
wherever the calls before it left the file.
`CommandsAreFound` excludes nothing; it
needs `FilesInv` and `SearchSound`: what was found out about the directories already
tried is still true when the search ends, although `Create`, `Unlink` and `chmod` go on, between
stat and execve as well.
`EntriesAreRead` needs, for each stream, that what was read are the entries in
front of its index (`Reads`), which holds while nothing is unlinked.

`TypeOK` and `KmainEnabled` of `Irq` are proved and no longer part of its run.

Induction. The provers cannot use the library's induction rules, which take an
operator. Where a proof needs induction over numbers (the walk and the sort of
`Tasks`, the index of `Kheap`, the days of `Clock`, the walks of `Klmalloc`), it takes the least counterexample of a set
(`LeastNumber`, from `WFMin`) and contradicts it.

Only model-checked: `Display` and `Ramdisk`, and in each
module all liveness (the prover has no rules for fairness and ENABLED).

## 5. Not modelled, and the plan

Not modelled because there is nothing to check: constant tables, port wrappers,
CPU detection, system calls (never enabled), masking of interrupts (never
called; `irq_unmask` shifts by the mask instead of the line), printf's layout, and in
the C library the wrappers that pass their arguments to one system call, `errno`, the
stubs, the table of character widths and `setjmp`.

Left out of modelled components: placement allocation before the heap exists,
`krealloc*` (nothing calls them; with the words that they copy the states of the heap
exceed what TLC can visit) and `phys_mem_usage` in `Kheap`; `pageMem`,
`virtual_map_pages`, `tablesPhysical`, the flags of pages and where the bitset lies in
`Paging`; `tty_arrow` and `tty_set_blink`, which nothing calls, in `Terminal`;
microseconds, the day of the week and of the year in `Clock`; names by their characters in
`Ramdisk` and `UserLibrary`.

What the plan has left:

1. Compositions: `Tasks` with `Kheap` (what a kill leaks, what a freed structure still
   holds), `Kheap` with `Paging` (pages of the heap in several directories), the boot order.
2. Abstract specifications: a bag of blocks that `Kheap` and `Klmalloc` implement, a
   sequence of keys that `ConsoleInput` implements until the buffer wraps and that
   `gets` in `Display` reads.
3. Theorems: that a read of `Ramdisk` stays within its file
   and that its walk meets every node; that the clock leaves no trace in `Display`.

## 6. Running

    tlc -workers 2 -config ConsoleInput.cfg MCConsoleInput
    tlapm ConsoleInputProofs.tla
    tlapm IrqProofs.tla
    tlapm PagingProofs.tla
    tlapm KlmallocProofs.tla
    tlapm ClockProofs.tla
    tlapm TasksProofs.tla
    tlapm KheapProofs.tla
    tlapm UserLibraryProofs.tla

The longest runs, `display` and `kheap`, take about two minutes each with two workers,
`malloc` and `console` less than one.
