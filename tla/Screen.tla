------------------------------- MODULE Screen -------------------------------
(***************************************************************************)
(* What the user gets to see: the text console, the pixels of the graphics  *)
(* mode, the texts and numbers that are printed, and the time.  The five    *)
(* share no state, so each behaviour is one of one of them, and the others  *)
(* stay where one of their initial states has them.                         *)
(***************************************************************************)
EXTENDS Console

CONSTANTS
  Width, Height, CharW, CharH, SpaceX, SpaceY,             \* of Display
  Glyph, High, Wild, LineFeed, CLEAR, Colors,
  Places, Sizes, Pens, Levels, MaxText,
  BufferSize, Chars, Words, DELIM,                         \* of Strings
  WordBits, Aligns, Units,                                 \* of Numbers
  Size                                                     \* of Clock

VARIABLES
  unit,  \* which of the five this behaviour is about
  fbptr, w, h, call, painted, text, cells, halted,
  buf, copied,
  n,
  now, binary, tm, reg, snap, half, began, base, order, clockTorn, between

D == INSTANCE Display WITH Newline <- LineFeed
S == INSTANCE Strings WITH N <- BufferSize
N == INSTANCE Numbers WITH W <- WordBits
C == INSTANCE Clock WITH torn <- clockTorn

ASSUME ScreenAssumption ==
  D!DisplayAssumption /\ S!StringsAssumption /\ N!NumbersAssumption /\ C!ClockAssumption

displayVars == <<fbptr, w, h, call, painted, text, cells, halted>>
stringsVars == <<buf, copied>>
clockVars   == <<now, binary, tm, reg, snap, half, began, base, order, clockTorn, between>>
all         == <<unit, vars, displayVars, stringsVars, n, clockVars>>

AllInit ==
  /\ unit \in {"console", "display", "strings", "numbers", "clock"}
  /\ Init /\ D!Init /\ S!Init /\ N!Init /\ C!Init
  /\ unit # "clock" => binary

OnlyConsole == unit = "console" /\ UNCHANGED <<unit, displayVars, stringsVars, n, clockVars>>
OnlyDisplay == unit = "display" /\ UNCHANGED <<unit, vars, stringsVars, n, clockVars>>
OnlyStrings == unit = "strings" /\ UNCHANGED <<unit, vars, displayVars, n, clockVars>>
OnlyNumbers == unit = "numbers" /\ UNCHANGED <<unit, vars, displayVars, stringsVars, clockVars>>
OnlyClock   == unit = "clock"   /\ UNCHANGED <<unit, vars, displayVars, stringsVars, n>>

AllNext ==
  \/ OnlyConsole /\ Next
  \/ OnlyDisplay /\ D!Next
  \/ OnlyStrings /\ S!Next
  \/ OnlyNumbers /\ N!Next
  \/ OnlyClock /\ C!Next

AllSpec == AllInit /\ [][AllNext]_all

-----------------------------------------------------------------------------

\* Rectangles, frames and characters fill the pixels they should, cut off at the edges
\* of the screen, and a colour is matched with the nearest (vbe.c:100, display.c:40-134).
DrawnRight == unit = "display" => D!DrawnRight

\* The text that is read from a buffer is the one that was built, although strcpy and
\* strcat write no terminator (string.c:73-142).
T == INSTANCE Text WITH
       text <- S!StrOf(buf),
       Recodings <- {[c \in Chars |-> S!ToLower(c)], [c \in Chars |-> S!ToUpper(c)]}
BufferIsText == T!Spec

\* The buffer stays clean behind its text, and splitting and comparing it is right.
\* What is printed of a number is read back as that number, of a float cut off behind
\* the third decimal (string.c, stdlib.c).
TextsRight ==
  /\ unit = "strings" => S!TextsRight
  /\ unit = "numbers" => N!NumbersRight

\* A time that was torn by the clock's tick or by the interrupt is never behind
\* (rtc.c:54-92, time.c:20).
TimeAhead == unit = "clock" => C!TimeAhead
=============================================================================
