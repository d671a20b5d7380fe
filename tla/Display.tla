------------------------------ MODULE Display ------------------------------
(***************************************************************************)
(* The terminal's two users.  kmain prompts, reads a line with gets, which *)
(* prints every key it takes, and runs a command (kernel.c, stdio.c,       *)
(* shell.c).  The interrupt of the real-time clock comes between any two   *)
(* of its operations and once a second prints the date at the right of the *)
(* first row (time.c).  kmain cannot run before the handler returns.       *)
(***************************************************************************)
EXTENDS Terminal

CONSTANTS
    DCOL,           \* the column of the date, 60
    Dates,          \* the texts of the dates, in their order
    Keys,           \* the keys that the user types
    MaxKeys,        \* keys in a run
    Permitted       \* situations the code does not handle; see AllSituations

\* "at_edge": the clock ticks while the cursor is beyond the last column or row: before
\* the scrolling that is due, or while the next key is awaited at the end of a full row.
\* "mid_sequence": it ticks while the parser is in a sequence, after an Escape key.
AllSituations == {"at_edge", "mid_sequence"}

ASSUME DisplayAssumption ==
    /\ DCOL \in Nat /\ \A i \in DOMAIN Dates : DCOL + Len(Dates[i]) <= WIDTH
    /\ MaxKeys \in Nat /\ Permitted \subseteq AllSituations

VARIABLES
    pc,             \* kmain: "prompt", "getch", "run", "cleared", "halted"
    todo,           \* operations left of the calls kmain has begun
    line,           \* the string that gets fills
    term,           \* the terminal
    quiet,          \* history: the terminal if the clock never ticked
    date,           \* history: the date on the screen, 0 for none
    mess,           \* history: what of the screen the keys have disarranged: "none",
                    \* the "line", or the "screen" until it is cleared
    typed           \* number of keys

vars == <<pc, todo, line, term, quiet, date, mess, typed>>

Prompt == <<"$">>
NotFound(cmd) == <<"?">> \o cmd \o <<"\n">>
Rebooting == <<"\n">>
\* The start: the screen cleared, the banner with its colour saved and restored, the
\* clock not yet installed.
Banner1 == <<ESC, "[", "1", "m", "\n">>
Banner2 == <<"8", "\n", ESC, "[", "2", "m", ESC, "[", "1", "m", ESC, "[", "3", "6", "m", "O",
             ESC, "[", "2", "m", "\n">>
tty_setcolor(t, fg, bg) == [t EXCEPT !.color = tty_make_color(fg, bg)]
AtStart ==
    Write(tty_setcolor(Write(Run(PowerOn, tty_clear), Banner1), "green", "dark_grey"), Banner2)

\* kmain begins to print: the operations, and at once on the quiet terminal.
Begin(ops) ==
    /\ todo' = ops
    /\ quiet' = Run(quiet, ops)
printf(text) == Begin(tty_write(text))

\* A cell of the date's place.
OfDate(x, y) == y = 0 /\ x \in DCOL .. WIDTH - 1

-----------------------------------------------------------------------------
(* kmain.                                                                  *)

Operation ==
    /\ todo # <<>>
    /\ term' = Effect(term, Head(todo))
    /\ todo' = Rest(term, Head(todo)) \o Tail(todo)
    /\ LET o == Head(todo)
       IN  date' = IF o.op \in {"entry", "store"} /\ OfDate(o.x, o.y) THEN 0 ELSE date
    /\ UNCHANGED <<pc, line, quiet, mess, typed>>

\* main_loop: the prompt, then gets.
PrintPrompt ==
    /\ todo = <<>> /\ pc \in {"prompt", "cleared"}
    /\ printf(Prompt)
    /\ pc' = "getch"
    /\ mess' = IF pc = "cleared" THEN "none" ELSE mess
    /\ UNCHANGED <<line, term, date, typed>>

\* A backspace in the first column goes up a row; a tab is as wide as TAB spaces, Escape
\* and the function keys are characters of the line and nothing on the screen.
Mess(c) ==
    IF c = BS /\ quiet.column = 0 THEN "screen"
    ELSE IF c \in {"\t", ESC, FKEY} /\ mess = "none" THEN "line" ELSE mess

\* gets: a key that is neither a newline nor, in an empty line, a backspace.
Gets_AlwaysEchoes(c) ==                                                \* mutant
    /\ todo = <<>> /\ pc = "getch" /\ typed < MaxKeys
    /\ c # "\n"
    /\ line' = IF c # BS THEN Append(line, c) ELSE IF line = <<>> THEN line ELSE Front(line)
    /\ printf(<<c>>)
    /\ mess' = Mess(c) /\ typed' = typed + 1
    /\ UNCHANGED <<pc, term, date>>
Gets(c) ==
    /\ todo = <<>> /\ pc = "getch" /\ typed < MaxKeys
    /\ c # "\n"
    /\ c = BS => line # <<>>
    /\ line' = IF c = BS THEN Front(line) ELSE Append(line, c)
    /\ printf(<<c>>)
    /\ mess' = Mess(c) /\ typed' = typed + 1
    /\ UNCHANGED <<pc, term, date>>

\* The newline ends the line.
GetsReturns ==
    /\ todo = <<>> /\ pc = "getch" /\ typed < MaxKeys
    /\ printf(<<"\n">>)
    /\ pc' = "run" /\ typed' = typed + 1
    /\ mess' = IF mess = "line" THEN "none" ELSE mess
    /\ UNCHANGED <<line, term, date>>

\* An empty line is no command; another is one of the table or is not found: help, cpu
\* and the message print lines, clear and reboot clear the screen, memtest is empty.
\* main_loop empties the line for the next prompt.
Shell ==
    /\ todo = <<>> /\ pc = "run"
    /\ \/ line # <<>> /\ printf(NotFound(line)) /\ pc' = "prompt"
       \/ line # <<>> /\ Begin(tty_clear) /\ pc' = "cleared"
       \/ UNCHANGED <<todo, quiet>> /\ pc' = "prompt"
    /\ line' = <<>>
    /\ UNCHANGED <<term, date, mess, typed>>

\* The rest of reboot: a line is printed, the processor halts with interrupts on.
cmd_reboot ==
    /\ todo = <<>> /\ pc = "cleared"
    /\ printf(Rebooting)
    /\ pc' = "halted"
    /\ UNCHANGED <<line, term, date, mess, typed>>

-----------------------------------------------------------------------------
(* The clock.                                                              *)

\* The handler's output: save the cursor and go to the date's place, erase the line from
\* there, save the colours, white on black, the date; restore the colours, the cursor.
\* Here col is the column in digits.
DateText(col, text) ==
    <<ESC, "[", "s", ESC, "[", "0", ";">> \o col \o <<"H", ESC, "[", "1", "K",
      ESC, "[", "3", "m", ESC, "[", "3", "7", "m", ESC, "[", "4", "0", "m">>
    \o text \o <<ESC, "[", "4", "m", ESC, "[", "u">>
DateColumn == <<Digits[(DCOL \div 10) + 1], Digits[(DCOL % 10) + 1]>>

\* rtc_handler when a second is over.
AtRest ==
    /\ "at_edge" \in Permitted \/ (term.column < WIDTH /\ term.row < HEIGHT)
    /\ "mid_sequence" \in Permitted \/ term.state = "normal"
rtc_handler_CursorStays ==                                             \* mutant
    /\ AtRest
    /\ date' = IF date = Len(Dates) THEN 1 ELSE date + 1
    /\ term' = Write(term, DateText(DateColumn, Dates[date']))
    /\ UNCHANGED <<pc, todo, line, quiet, mess, typed>>
rtc_handler ==
    /\ AtRest
    /\ date' = IF date = Len(Dates) THEN 1 ELSE date + 1
    /\ term' = Run(Write(term, DateText(DateColumn, Dates[date'])), <<Op("move")>>)
    /\ UNCHANGED <<pc, todo, line, quiet, mess, typed>>

-----------------------------------------------------------------------------

Init ==
    /\ pc = "prompt" /\ todo = <<>> /\ line = <<>>
    /\ term = AtStart /\ quiet = AtStart
    /\ date = 0 /\ mess = "none" /\ typed = 0

Next ==
    \/ Operation
    \/ PrintPrompt
    \/ \E c \in Keys : Gets(c)
    \/ GetsReturns
    \/ Shell
    \/ cmd_reboot
    \/ rtc_handler

Spec == Init /\ [][Next]_vars

-----------------------------------------------------------------------------
(* Properties.                                                             *)

Chars(row, first, last) == [i \in 1 .. last - first + 1 |-> row[first + i - 1].c]
Padded(text, n) == [i \in 1 .. n |-> IF i <= Len(text) THEN text[i] ELSE " "]

\* Between two calls of kmain the cursor, the colours, the parser and the rows below the
\* first are what they were had the clock never ticked: the handler, which runs the same
\* code on the same variables, leaves no trace of the ticks that came between any two
\* stores of tty.c with the cursor on the screen and the parser at rest.
ClockIsInvisible ==
    todo = <<>> =>
        /\ term.row = quiet.row /\ term.column = quiet.column
        /\ term.color = quiet.color /\ term.menu = quiet.menu /\ term.state = quiet.state
        /\ \A y \in 1 .. HEIGHT - 1 : term.cells[y] = quiet.cells[y]

\* Between two calls the cursor that the user sees is the terminal's, as far as two bytes
\* hold it: they go through one index register, between whose writes the handler writes
\* it too.
HardwareCursorFollows ==
    todo = <<>> =>
        term.high * BYTE + term.low = (term.row * WIDTH + term.column) % (BYTE * BYTE)

\* While gets waits for a key of a line of printable characters, the screen shows it:
\* the prompt and exactly the string that gets has stored end at the cursor, wrapped and
\* scrolled as the line grew and as backspace took it back, and nothing is behind them.
\* Not for a line with a tab, an Escape or a function key, which gets stores and which
\* show nothing or several columns; nor, until the screen is cleared, after a backspace
\* in the first column, which goes to the last but one of the row above.
LineIsShown ==
    (todo = <<>> /\ pc = "getch" /\ mess = "none") =>
        LET text == Prompt \o line
            place(k) == term.row * WIDTH + term.column - Len(text) + k - 1
        IN  /\ \A k \in DOMAIN text :
                  place(k) >= WIDTH =>
                      term.cells[place(k) \div WIDTH][place(k) % WIDTH].c = text[k]
            /\ \A x \in term.column .. WIDTH - 1 : term.cells[term.row][x].c = " "

\* The first row shows the last date, whole and in its colours, and nothing of the date
\* before it, until kmain itself stores into one of the date's cells: when it clears the
\* screen, cell by cell, or backspace has gone up to the first row.
DateIsShown ==
    date # 0 =>
        /\ Chars(term.cells[0], DCOL, WIDTH - 1) = Padded(Dates[date], WIDTH - DCOL)
        /\ \A x \in DCOL .. WIDTH - 1 : term.cells[0][x].color = WhiteOnBlack
=============================================================================
