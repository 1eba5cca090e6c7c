------------------------------- MODULE Console -------------------------------
(***************************************************************************)
(* The text console of NapalmOS: printf of the thread that has the CPU      *)
(* (lib/stdio.c), the cursor, scrolling and escape sequences of the VGA     *)
(* driver (hal/devices/vga.c, lib/ansi.c), and the keyboard interrupt, which *)
(* prints through the same buffer and moves the same cursor.                *)
(*                                                                          *)
(* A text is a sequence of characters. The buffer holds one character after *)
(* the other, and NUL behind its end; the thread reads and writes it one     *)
(* character at a time.                                                     *)
(***************************************************************************)
EXTENDS Integers, Sequences, FiniteSets

CONSTANTS
  W, H,       \* columns and rows
  Glyphs,     \* printable characters, other than those named below
  Typed,      \* the characters that keys give
  Messages,   \* texts that threads print
  WHITE,      \* the colour of both kinds that the console starts with
  COLOUR,     \* any other
  MaxPrints,  \* bound: how many texts are printed
  MaxKeys     \* bound: how many keys interrupt

NL == "nl"        \* '\n'
TAB == "tab"      \* '\t'
CR == "cr"        \* '\r' and '\b'
ESC == "esc"      \* '\x1b'
NUL == "nul"      \* the end of a text
SPACE == "space"
LB == "["
M == "m"
DIGITS == <<"0", "1", "2", "3", "4", "5", "6", "7", "8", "9">>
Digits == {DIGITS[d] : d \in 1..10}
BAR == "bar"      \* a cell of the line that krnl_redraw draws

Printable == Glyphs \cup {SPACE, LB, M} \cup Digits
Tokens == Printable \cup {NL, TAB, CR, ESC}
Cells == Printable \cup {BAR}

ASSUME ConsoleAssumption ==
  /\ W \in Nat \ {0} /\ H \in Nat \ {0, 1}
  /\ Messages \subseteq Seq(Tokens)
  /\ MaxPrints \in Nat /\ MaxKeys \in Nat
  /\ Glyphs \cap ({NL, TAB, CR, ESC, NUL, SPACE, LB, M, BAR} \cup Digits) = {}
  /\ Typed \subseteq Printable
  /\ WHITE # COLOUR

VARIABLES
  cx, cy,    \* the cursor
  cell,      \* what is on the screen
  fg, bg,    \* the current colours
  buffer,    \* _buffer of stdio.c
  pc,        \* where the thread's printf is
  todo,      \* what vsprintf has not added yet
  at,        \* the index of strlen's loop, and of what stradd or strcat stores
  i,         \* vga_write's index: the next character that it looks at
  ch,        \* the character that it has looked at
  code,      \* its array of four characters
  spaces,    \* how many of a tab's four spaces are left
  saved,     \* vga_write's ofg and obg
  pos,       \* vga_setpos's arguments, and where its caller goes on
  msg,       \* history: the text that is printed
  out,       \* history: the characters that vga_write took from the buffer
  hit,       \* history: a key came during this printf
  cut,       \* history: a key came while the code of an escape sequence was copied
  torn,      \* history: a key came while a character was put, since the last cls
  paper,     \* history: what was written since the last cls, on endless paper: the rows
             \* as far down as a screen has shown them
  pen,       \* history: column and row on it, and the row at the top of the screen
  prints, keys  \* bounds

screen == <<cx, cy, cell, fg, bg>>
maker == <<todo, at>>
reader == <<i, ch, code, spaces, out>>
ghost == <<hit, cut, torn, paper, pen, prints, keys>>
vars == <<cx, cy, cell, fg, bg, buffer, pc, todo, at, i, ch, code, spaces, saved, pos,
          msg, out, hit, cut, torn, paper, pen, prints, keys>>

Columns == 0 .. W - 1
Rows == 0 .. H - 1
Blank == [c \in Columns |-> SPACE]
BlankScreen == [r \in Rows |-> Blank]
Colours == {WHITE, COLOUR}

TypeOK ==
  /\ cx \in 0..W /\ cy \in 0..H
  /\ cell \in [Rows -> [Columns -> Cells]]
  /\ fg \in Colours /\ bg \in Colours
  /\ buffer \in Seq(Tokens \cup {NUL})
  /\ pc \in {"idle", "length", "store", "write", "next", "char", "code", "advance",
             "setx", "sety", "wrap", "over", "copy", "blank", "overrun"}
  /\ todo \in Seq(Tokens)
  /\ at \in Nat \ {0} /\ i \in Nat \ {0}
  /\ ch \in Tokens
  /\ code \in Seq(Tokens \cup {NUL}) /\ Len(code) <= 4
  /\ spaces \in 0..4
  /\ saved \in Colours \X Colours
  /\ pos \in [x : 0..W, y : 0..H, then : {"wrap", "over", "next"}]
  /\ hit \in BOOLEAN /\ cut \in BOOLEAN /\ torn \in BOOLEAN

Init ==
  /\ cx = 0 /\ cy = 0
  /\ cell = BlankScreen
  /\ fg = WHITE /\ bg = WHITE
  /\ buffer = <<>>
  /\ pc = "idle"
  /\ todo = <<>> /\ at = 1
  /\ i = 1 /\ ch = SPACE /\ code = <<>> /\ spaces = 0
  /\ saved = <<WHITE, WHITE>>
  /\ pos = [x |-> 0, y |-> 0, then |-> "next"]
  /\ msg = <<>> /\ out = <<>>
  /\ hit = FALSE /\ cut = FALSE /\ torn = FALSE
  /\ paper = [r \in 1..H |-> Blank]
  /\ pen = [x |-> 0, y |-> 0, top |-> 0]
  /\ prints = 0 /\ keys = 0

-----------------------------------------------------------------------------
(* The driver's operations as functions, for callers that nobody interrupts. *)

OnScreen(x, y) == x \in Columns /\ y \in Rows

\* vga_drawchar
Drawn(s, x, y, g) == IF OnScreen(x, y) THEN [s EXCEPT ![y][x] = g] ELSE s

\* vga_scroll's memcpy and memset16
Copied(s) == [r \in Rows |-> IF r < H - 1 THEN s[r + 1] ELSE s[r]]
Blanked(s) == [s EXCEPT ![H - 1] = Blank]

\* vga_putc of a glyph, from the cursor (x, y): where it leaves cursor and screen.
PutAt(x, y, g) ==
  LET s == Drawn(cell, x, y, g) IN
  IF x + 1 < W THEN [x |-> x + 1, y |-> y, s |-> s]
  ELSE IF y + 1 < H THEN [x |-> 0, y |-> y + 1, s |-> s]
  ELSE [x |-> 0, y |-> H - 1, s |-> Blanked(Copied(s))]

\* vga_delete
DeleteAt(x, y) ==
  IF x > 0 THEN [x |-> x - 1, y |-> y, s |-> Drawn(cell, x - 1, y, SPACE)]
  ELSE IF y > 0 THEN [x |-> W - 1, y |-> y - 1, s |-> Drawn(cell, W - 1, y - 1, SPACE)]
  ELSE [x |-> x, y |-> y, s |-> cell]

\* krnl_redraw: the line with name and time.
Redrawn(s) == [s EXCEPT ![0] = [c \in Columns |-> BAR]]

-----------------------------------------------------------------------------
(* Endless paper: what a terminal without a screen's limits would show. *)

Inked(x, y, g) == [paper EXCEPT ![y + 1] = [@ EXCEPT ![x] = g]]
Fed(p, x, y) ==
  IF y < pen.top + H
  THEN paper' = p /\ pen' = [pen EXCEPT !.x = x, !.y = y]
  ELSE paper' = Append(p, Blank) /\ pen' = [x |-> x, y |-> y, top |-> pen.top + 1]
PaperPut(g) ==
  IF pen.x + 1 < W THEN Fed(Inked(pen.x, pen.y, g), pen.x + 1, pen.y)
  ELSE Fed(Inked(pen.x, pen.y, g), 0, pen.y + 1)
PaperNewline == Fed(paper, 0, pen.y + 1)
PaperDelete ==
  IF pen.x > 0
  THEN /\ paper' = Inked(pen.x - 1, pen.y, SPACE)
       /\ pen' = [pen EXCEPT !.x = @ - 1]
  ELSE IF pen.y > pen.top
  THEN /\ paper' = Inked(W - 1, pen.y - 1, SPACE)
       /\ pen' = [pen EXCEPT !.x = W - 1, !.y = @ - 1]
  ELSE UNCHANGED <<paper, pen>>
PaperSame == UNCHANGED <<paper, pen>>

-----------------------------------------------------------------------------
(* printf in a thread: the text goes into the buffer. *)

\* What the buffer holds at k, and the buffer with c stored there.
At(k) == IF k <= Len(buffer) THEN buffer[k] ELSE NUL
Put(k, c) ==
  [l \in 1 .. (IF k > Len(buffer) THEN k ELSE Len(buffer)) |-> IF l = k THEN c ELSE At(l)]

\* vprintf: memset(_buffer, 0, ...)
Printf ==
  /\ pc = "idle"
  /\ prints < MaxPrints
  /\ prints' = prints + 1
  /\ \E t \in Messages :
       msg' = t /\ todo' = t /\ pc' = IF t = <<>> THEN "write" ELSE "length"
  /\ buffer' = <<>>
  /\ at' = 1
  /\ out' = <<>>
  /\ hit' = FALSE
  /\ UNCHANGED <<screen, i, ch, code, spaces, saved, pos, cut, torn, paper, pen, keys>>

\* vsprintf adds one piece after the other, with stradd or strcat, which begin with
\* strlen.
Length ==
  /\ pc = "length"
  /\ IF At(at) = NUL THEN pc' = "store" /\ UNCHANGED at ELSE at' = at + 1 /\ UNCHANGED pc
  /\ UNCHANGED <<screen, buffer, todo, reader, saved, pos, msg, ghost>>

\* After a character strcat stores its next one, or the next piece begins. The NUL
\* that both store at the end lands on a NUL.
Store ==
  /\ pc = "store"
  /\ buffer' = Put(at, Head(todo))
  /\ todo' = Tail(todo)
  /\ \/ todo' = <<>> /\ pc' = "write" /\ UNCHANGED at
     \/ todo' # <<>> /\ pc' = "length" /\ at' = 1
     \/ todo' # <<>> /\ pc' = "store" /\ at' = at + 1
  /\ UNCHANGED <<screen, reader, saved, pos, msg, ghost>>

-----------------------------------------------------------------------------
(* vga_write: the text goes to the screen. *)

\* Its beginning; an empty text is not written.
Write ==
  /\ pc = "write"
  /\ pc' = IF At(1) = NUL THEN "idle" ELSE "next"
  /\ saved' = <<fg, bg>>
  /\ i' = 1
  /\ UNCHANGED <<screen, buffer, maker, ch, code, spaces, pos, msg, out, ghost>>

\* Its end restores the colours.
WriteEnd ==
  /\ pc = "next" /\ spaces = 0 /\ At(i) = NUL
  /\ fg' = saved[1] /\ bg' = saved[2]
  /\ pc' = "idle"
  /\ UNCHANGED <<cx, cy, cell, buffer, maker, reader, saved, pos, msg, ghost>>

Taken(c) == i' = i + 1 /\ out' = Append(out, c)

\* The next character of the buffer, or of the tab's four spaces.
Look ==
  /\ pc = "next"
  /\ \/ spaces = 0 /\ At(i) # NUL /\ ch' = At(i) /\ Taken(ch') /\ UNCHANGED spaces
     \/ spaces > 0 /\ ch' = SPACE /\ spaces' = spaces - 1 /\ UNCHANGED <<i, out>>
  /\ pc' = "char"
  /\ UNCHANGED <<screen, buffer, maker, code, saved, pos, msg, ghost>>

\* vga_putc of '\r', '\b' and '\t'
Special ==
  /\ pc = "char" /\ ch \in {CR, TAB}
  /\ spaces' = IF ch = TAB THEN 4 ELSE spaces
  /\ pc' = "next"
  /\ UNCHANGED <<screen, buffer, maker, i, ch, code, saved, pos, msg, out, ghost>>

Escape_AnyBracket ==
  /\ pc = "char" /\ ch = ESC
  /\ IF At(i) = LB
     THEN pc' = "code" /\ code' = <<>> /\ Taken(LB)
     ELSE pc' = "next" /\ UNCHANGED <<code, i, out>>
  /\ UNCHANGED <<screen, buffer, maker, ch, spaces, saved, pos, msg, ghost>>

\* Does an escape sequence begin? An m must come within four characters.
Escape ==
  /\ pc = "char" /\ ch = ESC
  /\ IF At(i) = LB /\ \E k \in 2..4 : At(i + k) = M
     THEN pc' = "code" /\ code' = <<>> /\ Taken(LB)
     ELSE pc' = "next" /\ UNCHANGED <<code, i, out>>
  /\ UNCHANGED <<screen, buffer, maker, ch, spaces, saved, pos, msg, ghost>>

\* Its code is copied, as far as an m. A fifth character is stored outside the array,
\* into vga_write's own frame; what the machine does then is not modelled.
CopyCode ==
  /\ pc = "code" /\ At(i) # M
  /\ IF Len(code) < 4
     THEN code' = Append(code, At(i)) /\ Taken(At(i)) /\ UNCHANGED pc
     ELSE pc' = "overrun" /\ UNCHANGED <<code, i, out>>
  /\ UNCHANGED <<screen, buffer, maker, ch, spaces, saved, pos, msg, ghost>>

\* atol of a code, which has no space and no sign.
CodeNumber ==
  LET last == CHOOSE k \in 0..Len(code) : /\ \A j \in 1..k : code[j] \in Digits
                                          /\ k < Len(code) => code[k + 1] \notin Digits
      value[k \in 0..last] ==
        IF k = 0 THEN 0
        ELSE 10 * value[k - 1] + (CHOOSE d \in 0..9 : DIGITS[d + 1] = code[k])
  IN value[last]

\* ansi_fg_to_vga and ansi_bg_to_vga
FgColour(c) == IF c \in {37, 97} THEN WHITE ELSE COLOUR
BgColour(c) == IF c = 40 THEN WHITE ELSE COLOUR

SetColour ==
  /\ pc = "code" /\ At(i) = M
  /\ LET c == CodeNumber IN
     /\ fg' = CASE c = 0 -> saved[1] [] c \in 30..37 \cup 90..97 -> FgColour(c) [] OTHER -> fg
     /\ bg' = CASE c = 0 -> saved[2] [] c \in 40..47 \cup 100..107 -> BgColour(c) [] OTHER -> bg
  /\ Taken(M)
  /\ pc' = "next"
  /\ UNCHANGED <<cx, cy, cell, buffer, maker, ch, code, spaces, saved, pos, msg, ghost>>

\* vga_putc of any other character
Draw ==
  /\ pc = "char" /\ ch \in Printable
  /\ cell' = Drawn(cell, cx, cy, ch)
  /\ pc' = "advance"
  /\ IF torn THEN PaperSame ELSE PaperPut(ch)
  /\ UNCHANGED <<cx, cy, fg, bg, buffer, maker, reader, saved, pos, msg, hit, cut, torn,
                 prints, keys>>

\* The arguments of vga_setpos are evaluated before the call.
CallSetpos(from, x, y, then) ==
  /\ pc = from
  /\ pos' = [x |-> x, y |-> y, then |-> then]
  /\ pc' = "setx"

Advance ==
  /\ CallSetpos("advance", cx + 1, cy, "wrap")
  /\ UNCHANGED <<screen, buffer, maker, reader, saved, msg, ghost>>

SetX ==
  /\ pc = "setx"
  /\ cx' = pos.x
  /\ pc' = "sety"
  /\ UNCHANGED <<cy, cell, fg, bg, buffer, maker, reader, saved, pos, msg, ghost>>

SetY ==
  /\ pc = "sety"
  /\ cy' = pos.y
  /\ pc' = pos.then
  /\ UNCHANGED <<cx, cell, fg, bg, buffer, maker, reader, saved, pos, msg, ghost>>

\* Is the line full?
Wrap ==
  /\ IF cx >= W THEN CallSetpos("wrap", 0, cy + 1, "over")
     ELSE pc = "wrap" /\ pc' = "next" /\ UNCHANGED pos
  /\ UNCHANGED <<screen, buffer, maker, reader, saved, msg, ghost>>

\* vga_newline
Newline ==
  /\ ch = NL
  /\ CallSetpos("char", 0, cy + 1, "over")
  /\ IF torn THEN PaperSame ELSE PaperNewline
  /\ UNCHANGED <<screen, buffer, maker, reader, saved, msg, hit, cut, torn, prints, keys>>

\* Is the cursor below the screen?
Over ==
  /\ pc = "over"
  /\ pc' = IF cy >= H THEN "copy" ELSE "next"
  /\ UNCHANGED <<screen, buffer, maker, reader, saved, pos, msg, ghost>>

\* vga_scroll
Copy ==
  /\ pc = "copy"
  /\ cell' = Copied(cell)
  /\ pc' = "blank"
  /\ UNCHANGED <<cx, cy, fg, bg, buffer, maker, reader, saved, pos, msg, ghost>>

ScrollBlank ==
  /\ CallSetpos("blank", 0, H - 1, "next")
  /\ cell' = Blanked(cell)
  /\ UNCHANGED <<cx, cy, fg, bg, buffer, maker, reader, saved, msg, ghost>>

\* cmd_cls. display_clear clears the VBE frame buffer, since display_init prefers
\* that device: of the text console only the cursor moves. The paper starts anew
\* with what the screen shows.
Cls ==
  /\ pc = "idle"
  /\ prints > 0 \/ keys > 0
  /\ cx' = 0 /\ cy' = 1
  /\ torn' = FALSE
  /\ paper' = [r \in 1..H |-> cell[r - 1]]
  /\ pen' = [x |-> 0, y |-> 1, top |-> 0]
  /\ msg' = <<>> /\ out' = <<>> /\ hit' = FALSE
  /\ UNCHANGED <<cell, fg, bg, buffer, pc, maker, i, ch, code, spaces, saved, pos, cut,
                 prints, keys>>

-----------------------------------------------------------------------------
(* The keyboard interrupt: the handler runs to its end. *)

\* No character is half put.
AtRest == pc \in {"idle", "length", "store", "write", "next", "char", "code"}

Interrupted ==
  /\ pc # "overrun"
  /\ keys < MaxKeys
  /\ keys' = keys + 1
  /\ hit' = (hit \/ pc # "idle")
  /\ torn' = (torn \/ ~AtRest)
  /\ UNCHANGED <<fg, bg, pc, maker, reader, saved, pos, msg, prints>>

\* cmdhost_on_char: printf("%c", c), which clears and fills the same buffer, and
\* krnl_redraw.
KeyChar(g) ==
  /\ Interrupted
  /\ buffer' = <<g>>
  /\ cut' = (cut \/ pc = "code")
  /\ LET p == PutAt(cx, cy, g) IN cx' = p.x /\ cy' = p.y /\ cell' = Redrawn(p.s)
  /\ IF torn' THEN PaperSame ELSE PaperPut(g)

\* cmdhost_on_del with a line buffer that is not empty.
KeyDelete ==
  /\ Interrupted
  /\ LET p == DeleteAt(cx, cy) IN cx' = p.x /\ cy' = p.y /\ cell' = Redrawn(p.s)
  /\ IF torn' THEN PaperSame ELSE PaperDelete
  /\ UNCHANGED <<buffer, cut>>

-----------------------------------------------------------------------------

Next ==
  \/ Printf \/ Length \/ Store
  \/ Write \/ WriteEnd \/ Look \/ Special \/ Escape \/ CopyCode \/ SetColour
  \/ Draw \/ Advance \/ SetX \/ SetY \/ Wrap
  \/ Newline \/ Over \/ Copy \/ ScrollBlank
  \/ Cls
  \/ \E g \in Typed : KeyChar(g)
  \/ KeyDelete

Spec == Init /\ [][Next]_vars

-----------------------------------------------------------------------------
(* Properties. *)

\* Between two characters the cursor is on the screen, although the interrupt
\* handler moves it between any two of vga_putc's, vga_newline's, vga_scroll's and
\* vga_setpos's assignments.
CursorOnScreen == AtRest => OnScreen(cx, cy)

\* When nothing is printed the colours are those the console started with: the
\* escape sequences of a text end with it (vga.c:157-158).
ColoursRestored == pc = "idle" => fg = WHITE /\ bg = WHITE

\* What vga_write takes from the buffer is what printf was given, unless a key is
\* typed before it is through: the interrupt handler's printf clears the buffer.
PrintedWhole == pc = "idle" /\ ~hit => out = msg

\* The rows below the one that krnl_redraw draws, and the cursor, are those of a
\* terminal with endless paper, however the text wraps and scrolls, unless a key
\* is typed while a character is put.
ScreenIsPaper ==
  AtRest /\ ~torn =>
    /\ \A r \in Rows \ {0} : cell[r] = paper[pen.top + r + 1]
    /\ cx = pen.x
    /\ cy = pen.y - pen.top

\* vga_write reads the code of an escape sequence as far as the m that it has seen,
\* unless a key is typed meanwhile: then the buffer holds no m any more, and the driver
\* never comes back but stores outside its array (vga.c:137-145). Nothing else that is
\* printed or typed makes it do that.
OverrunsWhenCut ==
  /\ pc = "overrun" => cut
  /\ cut => pc \in {"code", "overrun"}

\* A thread's printf and the interrupt handler's, on one buffer, one cursor and one
\* screen: what comes out is what a terminal shows as long as no key comes in between,
\* the cursor and the colours come back unless a key comes while an escape sequence is
\* read, and then the driver overruns its array (stdio.c:99, vga.c:99-159).
TerminalTrue ==
  TypeOK /\ CursorOnScreen /\ ColoursRestored /\ PrintedWhole /\ ScreenIsPaper
    /\ OverrunsWhenCut
=============================================================================
