------------------------------ MODULE Terminal ------------------------------
(***************************************************************************)
(* The text terminal (tty.c): the screen, the cursor and its copy in the   *)
(* VGA controller, the colours and the parser of escape sequences, as a    *)
(* record t and operators on it.                                           *)
(*                                                                         *)
(* The code has two users, kmain and the clock's interrupt handler, so it  *)
(* is cut where the handler may come between: a call is a sequence of      *)
(* operations, Effect(t, o) is what the operation o stores and Rest(t, o)  *)
(* the operations it continues with.  Run(t, ops) is a call that nobody    *)
(* interrupts.                                                             *)
(***************************************************************************)
EXTENDS Integers, Sequences, SequencesExt

CONSTANTS
    WIDTH, HEIGHT,  \* the screen, 80 x 25
    TAB,            \* columns of a tab, 4
    BYTE            \* 2^width of a byte

ASSUME ScreenAssumption ==
    WIDTH \in Nat \ {0, 1} /\ HEIGHT \in Nat \ {0, 1} /\ TAB \in Nat /\ BYTE \in Nat \ {0}

Columns == 0 .. WIDTH - 1
Rows == 0 .. HEIGHT - 1

ESC == "ESC"
BS == "BS"
FKEY == "F1"        \* a key with a code from 0x80 on: a function or an arrow key
Digits == <<"0", "1", "2", "3", "4", "5", "6", "7", "8", "9">>
DigitOf == [c \in ToSet(Digits) |-> CHOOSE d \in 0 .. 9 : Digits[d + 1] = c]
Letters == {"s", "u", "K", "H", "f", "A", "B", "C", "D", "J", "m"}
isprint(c) == c \notin {ESC, "\n", "\r", "\t", BS, FKEY}
isdigit(c) == c \in DOMAIN DigitOf
atoi(buf) ==
    LET n[i \in 0 .. Len(buf)] == IF i = 0 THEN 0 ELSE 10 * n[i - 1] + DigitOf[buf[i]]
    IN  n[Len(buf)]

tty_make_color(fg, bg) == [fg |-> fg, bg |-> bg]
tty_make_entry(c, color) == [c |-> c, color |-> color]
WhiteOnBlack == tty_make_color("white", "black")
\* The colours of the parameters 30 .. 37 and 40 .. 47.
Foreground == <<"black", "red", "green", "brown", "blue", "magenta", "cyan", "white">>
Background == [Foreground EXCEPT ![8] = "light_grey"]

\* The static variables before tty_init; what the screen shows then is the loader's.
PowerOn ==
    LET none == tty_make_color("black", "black")
    IN  [row |-> 0, column |-> 0, color |-> none, menu |-> none,
         cells |-> [y \in Rows |-> [x \in Columns |-> tty_make_entry(" ", none)]],
         state |-> "normal", buf |-> <<>>, args |-> <<0, 0>>, current_arg |-> 0,
         saved_row |-> 0, saved_col |-> 0, saved_color |-> none, saved_menu |-> none,
         index |-> 14, high |-> 0, low |-> 0]

\* ENTRY(x, y) = entry.
Entry(t, x, y, entry) == [t EXCEPT !.cells[y][x] = entry]
tty_putchar_at(t, c, x, y) ==
    IF y \in Rows /\ x \in Columns THEN Entry(t, x, y, tty_make_entry(c, t.color)) ELSE t

-----------------------------------------------------------------------------
(* tty_interpret_ansi.                                                     *)

\* It returns a value other than 0: the character belongs to a sequence.
InSequence(t, c) ==
    CASE t.state = "normal"  -> c = ESC
      [] t.state = "bracket" -> c = "["
      [] t.state = "params"  -> TRUE

\* args[current_arg++] = atoi(buf): the entries that no parameter sets keep their
\* last value.
Argument(t) == [t EXCEPT !.args[t.current_arg + 1] = atoi(t.buf),
                         !.current_arg = @ + 1, !.buf = <<>>]

\* One half of the colours set, the other one kept.
tty_set_bg_color(t, bg) == [t EXCEPT !.color = tty_make_color(@.fg, bg)]
tty_set_fg_color(t, fg) == [t EXCEPT !.color = tty_make_color(fg, @.bg)]

\* One parameter of a sequence that ends in m; the calls of tty_move_cursor on 0 and
\* 5 follow in Rest.
Graphics_4KeepsColor(t, arg) ==                                        \* mutant
    CASE arg = 1 -> [t EXCEPT !.saved_color = t.color]
      [] arg = 2 -> [t EXCEPT !.color = t.saved_color]
      [] arg = 3 -> [t EXCEPT !.saved_menu = t.menu, !.saved_color = t.color]
      [] arg = 4 -> [t EXCEPT !.menu = t.saved_menu]
      [] arg \in 30 .. 37 -> tty_set_fg_color(t, Foreground[arg - 29])
      [] arg \in 40 .. 47 -> tty_set_bg_color(t, Background[arg - 39])
      [] OTHER -> t
Graphics(t, arg) ==
    CASE arg = 1 -> [t EXCEPT !.saved_color = t.color]
      [] arg = 2 -> [t EXCEPT !.color = t.saved_color]
      [] arg = 3 -> [t EXCEPT !.saved_menu = t.menu, !.saved_color = t.color]
      [] arg = 4 -> [t EXCEPT !.menu = t.saved_menu, !.color = t.saved_color]
      [] arg \in 30 .. 37 -> tty_set_fg_color(t, Foreground[arg - 29])
      [] arg \in 40 .. 47 -> tty_set_bg_color(t, Background[arg - 39])
      [] OTHER -> t

\* The letter that ends a sequence, with the arguments before it.
Command_KeepsText(t, c) ==                                             \* mutant
    CASE c = "s" -> [t EXCEPT !.saved_row = t.row, !.saved_col = t.column]
      [] c = "u" -> [t EXCEPT !.row = t.saved_row, !.column = t.saved_col]
      [] c \in {"H", "f"} -> [t EXCEPT !.row = t.args[1], !.column = t.args[2]]
      [] c = "m" -> FoldLeft(Graphics, t, SubSeq(t.args, 1, t.current_arg))
      [] OTHER -> t
Command(t, c) ==
    CASE c = "s" -> [t EXCEPT !.saved_row = t.row, !.saved_col = t.column]
      [] c = "u" -> [t EXCEPT !.row = t.saved_row, !.column = t.saved_col]
      [] c = "K" -> LET color == IF t.args[1] # 0 THEN t.menu ELSE t.color
                    IN  [t EXCEPT !.cells[t.row] =
                            [x \in Columns |-> IF x >= t.column THEN tty_make_entry(" ", color)
                                                                ELSE @[x]]]
      [] c \in {"H", "f"} -> [t EXCEPT !.row = t.args[1], !.column = t.args[2]]
      [] c = "A" -> [t EXCEPT !.row = @ - t.args[1]]
      [] c = "B" -> [t EXCEPT !.row = @ + t.args[1]]
      [] c = "C" -> [t EXCEPT !.column = @ + t.args[1]]
      [] c = "D" -> [t EXCEPT !.column = @ - t.args[1]]
      [] c = "m" -> FoldLeft(Graphics, t, SubSeq(t.args, 1, t.current_arg))
      [] OTHER -> t

\* What tty_interpret_ansi calls: tty_init for 2J, tty_move_cursor for 0m and 5m.
AfterCommand(t, c) ==
    LET u == Argument(t)
    IN  IF t.state # "params" THEN <<>>
        ELSE IF c = "J" /\ u.args[1] = 2 THEN <<[op |-> "init"]>>
        ELSE IF c = "m" /\ \E i \in 1 .. u.current_arg : u.args[i] \in {0, 5}
          THEN <<[op |-> "move"]>>
        ELSE <<>>

Interpret(t, c) ==
    CASE t.state = "normal"  -> IF c = ESC THEN [t EXCEPT !.state = "bracket"] ELSE t
      [] t.state = "bracket" -> [t EXCEPT !.state = IF c = "[" THEN "params" ELSE "normal"]
      [] t.state = "params"  ->
           IF c = ";" THEN Argument(t)
           ELSE IF isdigit(c) THEN [t EXCEPT !.buf = Append(@, c)]
           ELSE IF c \in Letters
             THEN [Command(Argument(t), c) EXCEPT !.current_arg = 0, !.state = "normal"]
             ELSE t

-----------------------------------------------------------------------------
(* The operations.                                                         *)

Op(name) == [op |-> name]
Cursor(r, c) == [op |-> "cursor", row |-> r, column |-> c]
Store(c, x, y) == [op |-> "store", c |-> c, x |-> x, y |-> y]
Char(name, c) == [op |-> name, c |-> c]
\* tty_set_cursor: the two stores, then tty_move_cursor.
tty_set_cursor(r, c) == <<Cursor(r, c), Op("move")>>

\* A loop over the screen from row first on, one operation for each cell: columns
\* outside, or rows outside.
ByColumns(name, first) ==
    [i \in 1 .. WIDTH * (HEIGHT - first) |->
        [op |-> name, x |-> (i - 1) \div (HEIGHT - first), y |-> first + ((i - 1) % (HEIGHT - first))]]
ByRows(name, first) ==
    [i \in 1 .. WIDTH * (HEIGHT - first) |->
        [op |-> name, x |-> (i - 1) % WIDTH, y |-> first + (i - 1) \div WIDTH]]
\* ENTRY(x, y) = entry in such a loop.
Filled(cells, entry) ==
    [i \in DOMAIN cells |-> [op |-> "entry", x |-> cells[i].x, y |-> cells[i].y, entry |-> entry]]

\* tty_putchar and tty_clear; "init" is tty_init.
PutcharOps(c) ==
    CASE c \in {"\n", "\r"} -> <<Op("newline")>>
      [] c = "\t" -> [i \in 1 .. TAB |-> Char("put", " ")]
      [] c = BS -> <<Op("left"), Op("border"), Op("erase")>>
      [] OTHER -> <<>>
Putchar(c) == PutcharOps(c) \o <<Op("limits"), Char("interpret", c)>>
tty_clear == <<Op("init")>> \o ByColumns("bg", 1) \o <<Op("set_bg"), Op("menu_clear")>>

Effect(t, o) ==
    CASE o.op \in {"putchar", "move", "limits", "scroll"} -> t
      [] o.op = "interpret" -> Interpret(t, o.c)
      [] o.op = "cursor" -> [t EXCEPT !.row = o.row, !.column = o.column]
      [] o.op = "select" -> [t EXCEPT !.index = o.port]
      [] o.op = "data" -> IF t.index = 14 THEN [t EXCEPT !.high = o.byte]
                                          ELSE [t EXCEPT !.low = o.byte]
      [] o.op = "store" -> tty_putchar_at(t, o.c, o.x, o.y)
      [] o.op = "put" -> [t EXCEPT !.column = @ + 1]
      [] o.op = "scrolled" -> Entry(t, o.x, o.y, IF o.y < HEIGHT - 1 THEN t.cells[o.y + 1][o.x]
                                                 ELSE tty_make_entry(" ", t.color))
      [] o.op = "entry" -> Entry(t, o.x, o.y, o.entry)
      [] o.op = "bg" -> [t EXCEPT !.cells[o.y][o.x].color.bg = "dark_grey"]
      [] o.op = "init" -> [t EXCEPT !.color = WhiteOnBlack]
      [] o.op = "set_bg" -> tty_set_bg_color(t, "dark_grey")
      [] o.op = "menu_clear" -> [t EXCEPT !.menu = WhiteOnBlack]
      [] OTHER -> t

\* Backspace at the left border goes to the last column but one.  tty_init blanks the
\* screen in the colour from before it.
Rest(t, o) ==
    CASE o.op = "putchar" -> Putchar(o.c)
      [] o.op = "limits" ->
           IF t.column >= WIDTH THEN tty_set_cursor(t.row + 1, 0) \o <<Op("scroll")>>
           ELSE IF t.row >= HEIGHT THEN <<Op("scroll")>> ELSE <<>>
      [] o.op = "scroll" ->
           IF t.row >= HEIGHT
             THEN ByRows("scrolled", 1) \o <<Op("up")>>
             ELSE <<>>
      [] o.op = "interpret" ->
           IF InSequence(t, o.c) THEN AfterCommand(t, o.c)
           ELSE IF isprint(o.c) THEN <<Char("put", o.c)>> ELSE <<>>
      [] o.op = "put" -> <<Store(o.c, t.column, t.row), Op("move")>>
      [] o.op = "move" ->
           LET index == t.row * WIDTH + t.column
           IN  <<[op |-> "select", port |-> 14],
                 [op |-> "data", byte |-> (index \div BYTE) % BYTE],
                 [op |-> "select", port |-> 15],
                 [op |-> "data", byte |-> index % BYTE]>>
      [] o.op = "newline" -> tty_set_cursor(t.row + 1, 0)
      [] o.op = "left" -> tty_set_cursor(t.row, t.column - 1)
      [] o.op = "border" -> IF t.column < 0 THEN tty_set_cursor(t.row - 1, WIDTH - 2) ELSE <<>>
      [] o.op = "erase" -> <<Store(" ", t.column, t.row)>>
      [] o.op = "up" -> tty_set_cursor(t.row - 1, t.column)
      [] o.op = "init" ->
           tty_set_cursor(0, 0)
           \o Filled(ByColumns("entry", 0), tty_make_entry(" ", t.color)) \o tty_set_cursor(1, 0)
      [] o.op = "menu_clear" ->
           Filled([x \in 1 .. WIDTH |-> [x |-> x - 1, y |-> 0]], tty_make_entry(" ", WhiteOnBlack))
      [] OTHER -> <<>>

RECURSIVE Run(_, _)
Run(t, ops) ==
    IF ops = <<>> THEN t
    ELSE Run(Effect(t, Head(ops)), Rest(t, Head(ops)) \o Tail(ops))

\* tty_write: one character after the other.
tty_write(text) == [i \in DOMAIN text |-> Char("putchar", text[i])]
Write(t, text) == Run(t, tty_write(text))
=============================================================================
