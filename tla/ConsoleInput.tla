---------------------------- MODULE ConsoleInput ----------------------------
(***************************************************************************)
(* Standard input of the OGOS kernel: how a keystroke travels from the     *)
(* keyboard controller through IRQ1 into the stdin buffer and out of       *)
(* getch().  Three parties share the buffer without a lock:                *)
(*                                                                         *)
(*   - kmain, which registers the keyboard handler, then sets the stdin    *)
(*     pointer, then loops in getch() (kernel.c, keyboard.c, stdio.c);     *)
(*   - the keyboard handler on IRQ1 (keyboard.c);                          *)
(*   - the timer handler on IRQ0, which rewinds the buffer (timer.c).      *)
(*                                                                         *)
(* Both handlers run with interrupts off, so each is one action.  kmain    *)
(* runs with interrupts on: every access it makes to shared memory is an   *)
(* action of its own, in_size++ being a load and a store (it is volatile). *)
(*                                                                         *)
(* A character is the serial number of its keystroke, so that a value read *)
(* back tells which keystroke it came from.  The shift flag only chooses   *)
(* between two tables whose zero entries are at the same codes; it decides *)
(* the case of a letter and is left out.                                   *)
(***************************************************************************)
EXTENDS Integers

CONSTANTS
    STDIO_SIZE,             \* bytes of inbuffer (4096 in the kernel)
    KEYBOARD_BUFFER_SIZE,   \* bytes of kb_buffer (32 in the kernel)
    MaxKeys,                \* bound: keystrokes that carry a character
    MaxOverrun,             \* bound: bytes behind inbuffer that may be in use
    Kinds                   \* the kinds of scancode the user produces

ASSUME SizesAssumption ==
    /\ STDIO_SIZE \in Nat \ {0}
    /\ KEYBOARD_BUFFER_SIZE \in Nat \ {0}
    /\ MaxKeys \in Nat
    /\ MaxOverrun \in Nat \ {0}

\* "char": a make code with a character; "dead": a make code whose table
\* entry is 0 (Ctrl, Alt, Caps Lock...); "shift": a Shift make code;
\* "release": any break code.
AllKinds == {"char", "dead", "shift", "release"}
ASSUME KindsAssumption == Kinds \subseteq AllKinds

NUL  == 0                   \* the empty cell getch() waits on
Junk == -1                  \* a non-zero byte that no keystroke wrote
Chars == 1 .. MaxKeys
Byte == {Junk, NUL} \cup Chars

\* stdin[-1], inbuffer itself, and the memory after it: other variables first,
\* and from Unused on nothing.  getch() stops at a zero byte, so that it comes
\* at most as far behind Unused as keystrokes are stored there.
Unused == STDIO_SIZE + MaxOverrun
Cells == -1 .. (Unused + MaxKeys)
Inside == 0 .. (STDIO_SIZE - 1)

VARIABLES
    obf,        \* 8042 output buffer: the scancode waiting at port 0x60
    irr,        \* IRQ1 latched in the interrupt controller
    typed,      \* how many characters the user has typed
    handler,    \* keyboard_interrupt_handler is registered for IRQ1
    stdin,      \* "NULL" until init_stdin, then "inbuffer"
    mem,        \* inbuffer and the bytes around it
    in_size,    \* the index getch() reads and the handler writes
    kb_buffer,  \* the driver's own buffer of characters
    last,       \* how many of them are in use
    pc,         \* where kmain is
    reg,        \* the register that in_size++ goes through, or clear's i
    got,        \* the last character getch() returned
    wrapped,    \* history: in_size has reached the end of inbuffer
    stray,      \* history: the handler wrote outside inbuffer
    early,      \* history: IRQ1 was acknowledged before the handler was there
    fresh       \* history: the newest character put in stdin for getch()

console == <<handler, stdin, mem, in_size, kb_buffer, last>>
main == <<pc, reg, got, wrapped>>
vars == <<obf, irr, typed, console, main, stray, early, fresh>>

PC == {"init_keyboard", "init_stdin", "clear", "poll", "load", "store", "fetch"}

\* The scancode of a kind, and the serial number when it is a character.
Scancode == [kind : AllKinds, char : {NUL} \cup Chars]
Empty == [kind |-> "none", char |-> NUL]

\* Interrupts have just been enabled by init_irq; nothing is pending.  The
\* bytes around inbuffer belong to other variables: zero or not.
Init ==
    /\ obf = Empty /\ irr = FALSE /\ typed = 0
    /\ handler = FALSE /\ stdin = "NULL" /\ in_size = 0
    /\ mem \in [Cells -> {NUL, Junk}]
    /\ \A i \in Inside \cup Unused .. Unused + MaxKeys : mem[i] = NUL
    /\ kb_buffer = [i \in 0 .. KEYBOARD_BUFFER_SIZE - 1 |-> NUL] /\ last = 0
    /\ pc = "init_keyboard" /\ reg = 0 /\ got = NUL
    /\ wrapped = FALSE /\ stray = FALSE /\ early = FALSE /\ fresh = NUL

-----------------------------------------------------------------------------
(* The user and the keyboard controller (external).                        *)

\* The controller puts the next scancode in its output buffer only when the
\* last one was read, and then raises IRQ1, an edge the 8259 latches.
Press(kind) ==
    /\ obf = Empty
    /\ kind = "char" => typed < MaxKeys
    /\ typed' = IF kind = "char" THEN typed + 1 ELSE typed
    /\ obf' = [kind |-> kind, char |-> IF kind = "char" THEN typed + 1 ELSE NUL]
    /\ irr' = TRUE
    /\ UNCHANGED <<console, main, stray, early, fresh>>

-----------------------------------------------------------------------------
(* IRQ1.                                                                   *)

\* irq_handler with no entry in irq_handlers: EOI and a message; nobody reads
\* port 0x60.
Irq1Unhandled ==
    /\ irr /\ ~handler
    /\ irr' = FALSE
    /\ early' = TRUE
    /\ UNCHANGED <<obf, typed, console, main, stray, fresh>>

\* Mutant: a character is dropped while the cell still holds an unread one.
read_kb_buff_KeepOld(c) ==
    /\ mem' = IF stdin = "inbuffer" /\ mem[in_size] = NUL
              THEN [mem EXCEPT ![in_size] = c] ELSE mem
    /\ stray' = (stray \/ stdin = "NULL" \/ in_size \notin Inside)
    /\ fresh' = IF stdin = "inbuffer" /\ pc # "clear" THEN c ELSE fresh

\* read_kb_buff: store the newest character at stdin[in_size]; in_size stays.
\* Through the NULL pointer the store goes to low memory.
read_kb_buff(c) ==
    /\ mem' = IF stdin = "inbuffer"
              THEN [mem EXCEPT ![in_size] = c] ELSE mem
    /\ stray' = (stray \/ stdin = "NULL" \/ in_size \notin Inside)
    /\ fresh' = IF stdin = "inbuffer" /\ pc # "clear" THEN c ELSE fresh

\* inportb(0x60), before anything else is decided.
ReadPort_MakeOnly == obf' = IF obf.kind = "release" THEN obf ELSE Empty \* mutant
ReadPort == obf' = Empty

\* last after one more character.
NextLast_Late == IF last = KEYBOARD_BUFFER_SIZE THEN 0 ELSE last + 1    \* mutant
NextLast == IF last + 1 = KEYBOARD_BUFFER_SIZE THEN 0 ELSE last + 1

\* keyboard_interrupt_handler: a make code is appended to kb_buffer; all but
\* Shift go to the callback; last rewinds when kb_buffer is full.
keyboard_interrupt_handler ==
    /\ irr /\ handler
    /\ irr' = FALSE /\ ReadPort
    /\ IF obf.kind = "release"
         THEN UNCHANGED <<mem, kb_buffer, last, stray, fresh>>
         ELSE /\ kb_buffer' = [kb_buffer EXCEPT ![last] = obf.char]
              /\ last' = NextLast
              /\ IF obf.kind = "shift"
                   THEN UNCHANGED <<mem, stray, fresh>>
                   ELSE read_kb_buff(kb_buffer'[last])
    /\ UNCHANGED <<typed, handler, stdin, in_size, main, early>>

(* IRQ0. *)

Full_Early == in_size >= STDIO_SIZE - 1     \* mutant
Full_Late == in_size > STDIO_SIZE           \* mutant
Full == in_size >= STDIO_SIZE

\* timer_callback rewinds a full buffer, without clearing it.
timer_callback ==
    /\ Full
    /\ in_size' = 0
    /\ UNCHANGED <<obf, irr, typed, handler, stdin, mem, kb_buffer, last, main,
                   stray, early, fresh>>

-----------------------------------------------------------------------------
(* kmain: initialisation.                                                  *)

init_keyboard ==
    /\ pc = "init_keyboard"
    /\ in_size' = 0 /\ last' = 0 /\ handler' = TRUE
    /\ pc' = "init_stdin"
    /\ UNCHANGED <<obf, irr, typed, stdin, mem, kb_buffer, reg, got, wrapped,
                   stray, early, fresh>>

init_stdin ==
    /\ pc = "init_stdin"
    /\ stdin' = "inbuffer" /\ reg' = 0
    /\ pc' = "clear"
    /\ UNCHANGED <<obf, irr, typed, handler, mem, in_size, kb_buffer, last, got,
                   wrapped, stray, early, fresh>>

\* One iteration of init_stdin's loop, interrupts on.
ClearCell ==
    /\ pc = "clear"
    /\ mem' = [mem EXCEPT ![reg] = NUL]
    /\ IF reg + 1 < STDIO_SIZE
         THEN reg' = reg + 1 /\ pc' = pc
         ELSE reg' = 0 /\ pc' = "poll"
    /\ UNCHANGED <<obf, irr, typed, handler, stdin, in_size, kb_buffer, last, got,
                   wrapped, stray, early, fresh>>

(* kmain: getch(), again and again. *)

\* The loop's test found a non-zero byte.
Poll ==
    /\ pc = "poll"
    /\ mem[in_size] # NUL
    /\ pc' = "load"
    /\ UNCHANGED <<obf, irr, typed, console, reg, got, wrapped, stray, early, fresh>>

\* in_size++: the load...
Load ==
    /\ pc = "load"
    /\ reg' = in_size
    /\ pc' = "store"
    /\ UNCHANGED <<obf, irr, typed, console, got, wrapped, stray, early, fresh>>

\* ...and the store.
Store ==
    /\ pc = "store"
    /\ in_size' = reg + 1
    /\ wrapped' = (wrapped \/ reg + 1 >= STDIO_SIZE)
    /\ pc' = "fetch"
    /\ UNCHANGED <<obf, irr, typed, handler, stdin, mem, kb_buffer, last, reg, got,
                   stray, early, fresh>>

\* return stdin[in_size - 1], with in_size read once more.
Fetch ==
    /\ pc = "fetch"
    /\ got' = mem[in_size - 1]
    /\ pc' = "poll"
    /\ UNCHANGED <<obf, irr, typed, console, reg, wrapped, stray, early, fresh>>

getch == Poll \/ Load \/ Store \/ Fetch
kmain == init_keyboard \/ init_stdin \/ ClearCell \/ getch
Interrupt == Irq1Unhandled \/ keyboard_interrupt_handler \/ timer_callback

Next ==
    \/ \E kind \in Kinds : Press(kind)
    \/ Interrupt
    \/ kmain

Spec == Init /\ [][Next]_vars

\* The PIT never stops, the processor takes a latched interrupt, and nothing
\* else runs on the processor: kmain always gets on.  The user is not obliged
\* to type.
Fairness ==
    /\ WF_vars(kmain)
    /\ WF_vars(timer_callback)
    /\ WF_vars(Irq1Unhandled \/ keyboard_interrupt_handler)

FairSpec == Spec /\ Fairness

-----------------------------------------------------------------------------
(* Properties. *)

\* Every variable keeps its type.
TypeOK ==
    /\ obf \in Scancode \cup {Empty} /\ irr \in BOOLEAN
    /\ typed \in 0 .. MaxKeys
    /\ handler \in BOOLEAN /\ stdin \in {"NULL", "inbuffer"}
    /\ mem \in [Cells -> Byte]
    /\ in_size \in 0 .. Unused + MaxKeys
    /\ kb_buffer \in [0 .. KEYBOARD_BUFFER_SIZE - 1 -> {NUL} \cup Chars]
    /\ last \in 0 .. KEYBOARD_BUFFER_SIZE - 1
    /\ pc \in PC /\ reg \in 0 .. Unused + MaxKeys
    /\ got \in Byte
    /\ wrapped \in BOOLEAN /\ stray \in BOOLEAN /\ early \in BOOLEAN
    /\ fresh \in {NUL} \cup Chars

\* The newest character the handler has taken from the controller.
Delivered == IF obf.kind = "char" THEN typed - 1 ELSE typed

\* How far the indices go, which no code bounds but timer_callback, and that
\* only at its next tick.  Until the buffer has been filled once, what getch()
\* tests and what it returns lies in inbuffer, wherever a tick rewinds in_size.
\* After that getch() may run on behind inbuffer, over the bytes in use there
\* and over a cell for each keystroke the handler stores, and no further (and
\* a tick before its last read makes it return stdin[-1]).  last never leaves
\* kb_buffer.
IndicesBounded ==
    /\ ~wrapped => /\ in_size \in Inside
                   /\ pc = "fetch" => in_size - 1 \in Inside
    /\ in_size \in 0 .. Unused + Delivered
    /\ last \in 0 .. KEYBOARD_BUFFER_SIZE - 1

\* Until the buffer has been filled once, getch() returns keystrokes in the
\* order they were typed and none twice, whatever the handler overwrites
\* between the test, the increment and the read.  It returns NUL only when a
\* key without a character erased the one that ended the wait.
ReadInOrder ==
    [][pc = "fetch" /\ pc' = "poll" /\ ~wrapped =>
          got' > got \/ ("dead" \in Kinds /\ got' = NUL)]_vars

\* The handler overwrites a keystroke getch() has not read, but only by a newer
\* one: until the buffer has been filled once, the newest character handed to
\* stdin is in the cell getch() reads next, or was just returned.
NewestKeySurvives ==
    ~wrapped /\ fresh # NUL =>
        \/ mem[in_size] = fresh
        \/ pc = "fetch" /\ mem[in_size - 1] = fresh
        \/ got = fresh

\* Where kmain is decides what has been set up, and what its register holds.
Phases ==
    /\ irr => obf # Empty
    /\ handler <=> pc # "init_keyboard"
    /\ stdin = "NULL" <=> pc \in {"init_keyboard", "init_stdin"}
    /\ pc \in {"init_keyboard", "init_stdin", "clear"} =>
          in_size = 0 /\ ~wrapped /\ got = NUL /\ fresh = NUL
    /\ pc = "clear" => reg \in Inside
    /\ ~wrapped => /\ in_size \in Inside
                   /\ pc = "store" => reg = in_size
                   /\ pc = "fetch" => in_size > 0

\* Why the indices are bounded: behind Unused the only bytes that are not zero
\* are characters, each behind the one before it.
Reach ==
    /\ in_size <= Unused + Delivered
    /\ pc = "load" => in_size < Unused + Delivered
    /\ pc = "store" => reg < Unused + Delivered
    /\ \A i \in Cells : i >= Unused /\ mem[i] # NUL => i < Unused + Delivered

\* Until the buffer has been filled once: nothing is stored beyond the cell
\* getch() reads; what is stored was delivered; what getch() has yet to read
\* is newer than what it returned.
Ordered ==
    /\ obf.kind \in Kinds \cup {"none"}
    /\ IF obf.kind = "char" THEN typed > 0 /\ obf.char = typed ELSE obf.char = NUL
    /\ ~wrapped =>
         /\ got \in 0 .. Delivered
         /\ \A i \in Inside : mem[i] \in 0 .. Delivered
         /\ \A i \in Inside : i > in_size => mem[i] = NUL
         /\ mem[in_size] # NUL => mem[in_size] > got
         /\ pc = "fetch" /\ mem[in_size - 1] # NUL =>
               /\ mem[in_size - 1] > got
               /\ mem[in_size] # NUL => mem[in_size] > mem[in_size - 1]
         /\ "dead" \notin Kinds =>
               /\ pc \in {"load", "store"} => mem[in_size] # NUL
               /\ pc = "fetch" => mem[in_size - 1] # NUL

\* NewestKeySurvives, with what makes it inductive: a cell beyond the newest
\* character is empty.
NewestPlace ==
    ~wrapped /\ fresh # NUL =>
        \/ mem[in_size] = fresh
        \/ pc = "fetch" /\ mem[in_size - 1] = fresh /\ mem[in_size] = NUL
        \/ pc = "poll" /\ got = fresh /\ mem[in_size] = NUL

\* A scancode at port 0x60 without a pending interrupt is never read, and the
\* controller has no room for another one: the keyboard is silent for good.
\* That is so exactly when IRQ1 was acknowledged while kmain had interrupts on
\* but had not registered the handler yet; every path through
\* keyboard_interrupt_handler reads the port.
SilentIffEarly == (obf # Empty /\ ~irr) <=> early

IInv == TypeOK /\ Phases /\ Reach /\ Ordered /\ NewestPlace /\ SilentIffEarly

\* getch() is not left waiting past the end of the buffer.
BufferRewinds == in_size >= STDIO_SIZE ~> in_size < STDIO_SIZE

\* Until the buffer has been filled once, a character handed to stdin is
\* returned by getch() unless a newer keystroke replaces it.
NewestKeyIsRead ==
    \A k \in Chars :
        fresh = k /\ ~wrapped ~> got = k \/ fresh # k \/ wrapped

\* "Read keyboard buffer to stdin." (keyboard.h): what read_kb_buff stores goes
\* into the stdin buffer.
WritesStayInStdin == ~stray

\* "Press any key to continue..." (kernel.c): when kmain waits in getch() and a
\* key with a character has been pressed, getch() returns.
AnyKeyContinues == pc = "poll" /\ obf.kind = "char" ~> got # NUL
=============================================================================
