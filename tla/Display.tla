------------------------------ MODULE Display ------------------------------
(***************************************************************************)
(* The graphical screen of NapalmOS: core/display.c on hal/devices/vbe.c,   *)
(* with lib/gfx/font.c and lib/gfx/color.c. The VBE device is registered    *)
(* before display_init, so that _vga is NULL and the branches for it are    *)
(* never taken. Each call starts from a screen with nothing painted.        *)
(***************************************************************************)
EXTENDS Integers, Sequences

CONSTANTS
  Width, Height,   \* of the mode that is asked for: 640 and 480
  CharW, CharH,    \* size of a glyph: 8 and 16
  SpaceX, SpaceY,  \* between characters: 1 and 0
  Glyph,           \* points of the glyph of each character that has one
  High, Wild,      \* a negative character, and what the bytes before the font look like
  Newline,
  CLEAR, Colors,   \* the colour with alpha 0, and all colours
  Places, Sizes, Pens, Levels, MaxText  \* bounds: what the calls are made with

DisplayAssumption ==
  /\ {Width, Height, CharW, CharH} \subseteq Nat \ {0}
  /\ {SpaceX, SpaceY, MaxText} \subseteq Nat
  /\ Places \cup Sizes \subseteq Int /\ Pens \subseteq Nat /\ Levels \subseteq 0..255
  /\ {High, Newline} \cap DOMAIN Glyph = {} /\ CLEAR \in Colors
  /\ \A g \in {Glyph[c] : c \in DOMAIN Glyph} \cup Wild : g \subseteq (0 .. CharW - 1) \X (0 .. CharH - 1)

VARIABLES
  fbptr,    \* "NULL" or "mapped"
  w, h,     \* _vbe's
  call,     \* the call that is made, and its arguments
  painted,  \* colours of the pixels that it has written, by their index
  text,     \* what display_drawstr has still to draw, xx and yy
  cells,    \* history: where it drew which glyph for which character
  halted

vars == <<fbptr, w, h, call, painted, text, cells, halted>>

TypeOK ==
  /\ <<fbptr, w, h>> \in {<<"NULL", 0, 0>>, <<"mapped", Width, Height>>}
  /\ DOMAIN painted \subseteq 0 .. w * h - 1
  /\ halted \in BOOLEAN

NoText == [rest |-> <<>>, xx |-> 0, yy |-> 0]

Init ==
  /\ fbptr = "NULL" /\ w = 0 /\ h = 0 /\ call = [op |-> "boot"]
  /\ painted = <<>> /\ text = NoText /\ cells = {} /\ halted = FALSE

\* vbe_start: the machine stops when the BIOS does not know VBE, and when it does not
\* have the mode, the driver runs without a screen.
Start ==
  /\ call.op = "boot" /\ ~halted
  /\ \/ halted' = TRUE /\ UNCHANGED <<fbptr, w, h, call>>
     \/ fbptr' = "mapped" /\ w' = Width /\ h' = Height /\ call' = [op |-> "none"] /\ UNCHANGED halted
     \/ call' = [op |-> "none"] /\ UNCHANGED <<fbptr, w, h, halted>>
  /\ UNCHANGED <<painted, text, cells>>

-----------------------------------------------------------------------------
(* Points and their pixels. *)

Clipped_None(points) == {p[2] * w + p[1] : p \in points}

Clipped_Area(points) == Clipped_None(points) \cap 0 .. w * h - 1

\* vbe_blit compares unsigned: a negative coordinate is beyond the screen.
Clipped(points) == {p[2] * w + p[1] : p \in points \cap ((0 .. w - 1) \X (0 .. h - 1))}

Onto(pixels, indices, color) ==
  [k \in DOMAIN pixels \cup indices |-> IF k \in indices THEN color ELSE pixels[k]]

Abs(n) == IF n < 0 THEN -n ELSE n

\* vbe_fill counts to width times height; if both are negative the quotients are too.
Filled(b) ==
  {<<b.x + (i % Abs(b.w)), b.y + (IF b.w < 0 THEN -(i \div Abs(b.w)) ELSE i \div b.w)>> :
     i \in 0 .. b.w * b.h - 1}

Area(x, y, ww, hh) == [x |-> x, y |-> y, w |-> ww, h |-> hh]

Framed(b, pen) ==
  UNION {Filled(r) : r \in {
    Area(b.x, b.y, b.w, pen), Area(b.x, b.y + b.h - pen, b.w, pen),
    Area(b.x, b.y + pen, pen, b.h - pen * 2), Area(b.x + b.w - pen, b.y + pen, pen, b.h - pen * 2)}}

-----------------------------------------------------------------------------
(* display_clear, display_blit, display_rect_fill, display_rect, display_load. *)

Ready == call.op = "none"

Paints(op, args, pixels) ==
  /\ call' = [op |-> op, args |-> args]
  /\ painted' = pixels
  /\ UNCHANGED <<fbptr, w, h, text, cells, halted>>

Clear == Ready /\ \E c \in Colors : Paints("clear", c, [k \in 0 .. w * h - 1 |-> c])

Blit == Ready /\ \E x, y \in Places, c \in Colors : Paints("blit", <<x, y>>, Onto(<<>>, Clipped({<<x, y>>}), c))

RectFill == Ready /\ \E x, y \in Places, ww, hh \in Sizes, c \in Colors :
  LET b == Area(x, y, ww, hh) IN Paints("fill", b, Onto(<<>>, Clipped(Filled(b)), c))

Rect == Ready /\ \E x, y \in Places, ww, hh \in Sizes, pen \in Pens, c \in Colors :
  LET b == Area(x, y, ww, hh) IN
  Paints("rect", <<b, pen>>, Onto(<<>>, IF pen = 0 THEN {} ELSE Clipped(Framed(b, pen)), c))

Load == Ready /\ \E first, others \in Colors :
  Paints("load", <<first, others>>, [k \in 0 .. w * h - 1 |-> IF k = 0 THEN first ELSE others])

-----------------------------------------------------------------------------
(* display_drawstr and display_drawchar. *)

Texts == UNION {[1..len -> DOMAIN Glyph \cup {High, Newline}] : len \in 0..MaxText}

DrawStr ==
  /\ Ready
  /\ \E x, y \in Places, str \in Texts, fg, bg \in Colors :
       /\ call' = [op |-> "text", x |-> x, fg |-> fg, bg |-> bg]
       /\ text' = [rest |-> str, xx |-> x, yy |-> y]
  /\ UNCHANGED <<fbptr, w, h, painted, cells, halted>>

Advanced(t) ==
  IF Head(t.rest) = Newline
  THEN [rest |-> Tail(t.rest), xx |-> call.x, yy |-> t.yy + CharH + SpaceY]
  ELSE [rest |-> Tail(t.rest), xx |-> t.xx + CharW + SpaceX, yy |-> t.yy]

\* The glyph on a background of the size with the spaces; the glyph of a negative
\* character is whatever is in memory before the font.
WithGlyph(t, g) ==
  LET back == IF call.bg = CLEAR THEN {} ELSE Filled(Area(t.xx, t.yy, CharW + SpaceX, CharH + SpaceY))
  IN Onto(Onto(painted, Clipped(back), call.bg), Clipped({<<t.xx + p[1], t.yy + p[2]>> : p \in g}), call.fg)

DrawChar ==
  /\ call.op = "text" /\ text.rest # <<>>
  /\ LET c == Head(text.rest) IN
     IF c = Newline THEN UNCHANGED <<painted, cells>>
     ELSE \E g \in IF c = High THEN Wild ELSE {Glyph[c]} :
            /\ painted' = WithGlyph(text, g)
            /\ cells' = cells \cup {[x |-> text.xx, y |-> text.yy, char |-> c, glyph |-> g]}
  /\ text' = Advanced(text)
  /\ UNCHANGED <<fbptr, w, h, call, halted>>

Return ==
  /\ call.op \notin {"boot", "none"} /\ text.rest = <<>>
  /\ call' = [op |-> "none"] /\ painted' = <<>> /\ text' = NoText /\ cells' = {}
  /\ UNCHANGED <<fbptr, w, h, halted>>

-----------------------------------------------------------------------------
(* color4_from_argb. *)

COLOR4_PALETTE == LET L == 127 IN
  << <<0, 0, 0>>, <<0, 0, L>>, <<0, L, 0>>, <<0, L, L>>, <<L, 0, 0>>, <<L, 0, L>>, <<L, L, 0>>, <<L, L, L>>,
     <<L, L, L>>, <<L, L, 255>>, <<L, 255, L>>, <<L, 255, 255>>,
     <<255, L, L>>, <<255, L, 255>>, <<255, 255, L>>, <<255, 255, 255>> >>

Distance(c, k) ==
  LET d(n) == c[n] - COLOR4_PALETTE[k + 1][n] IN d(1) * d(1) + d(2) * d(2) + d(3) * d(3)

\* The loop over the palette: the nearest among the first colours.
Closest(c) ==
  LET best[k \in 0..15] ==
        IF k = 0 THEN 0
        ELSE IF Distance(c, k) < Distance(c, best[k - 1]) THEN k ELSE best[k - 1]
  IN best[15]

FromArgb == Ready /\ \E r, g, b \in Levels : Paints("color", <<<<r, g, b>>, Closest(<<r, g, b>>)>>, <<>>)

Next == Start \/ Clear \/ Blit \/ RectFill \/ Rect \/ Load \/ DrawStr \/ DrawChar \/ Return \/ FromArgb

Spec == Init /\ [][Next]_vars

-----------------------------------------------------------------------------
(* Properties. *)

\* The pixels on the screen whose points are in a set of columns and one of rows.
Seen(xs, ys) == {y * w + x : x \in xs \cap 0 .. w - 1, y \in ys \cap 0 .. h - 1}

\* A filled rectangle is the part of it that is on the screen, however far it reaches
\* beyond an edge; with one size that is not positive nothing is painted, and with two
\* negative ones a rectangle that goes up (vbe.c:108).
FillIsRect ==
  call.op = "fill" =>
    LET b == call.args IN
    DOMAIN painted =
      CASE b.w > 0 /\ b.h > 0 -> Seen(b.x .. b.x + b.w - 1, b.y .. b.y + b.h - 1)
        [] b.w < 0 /\ b.h < 0 -> Seen(b.x .. b.x - b.w - 1, b.y + b.h + 1 .. b.y)
        [] OTHER -> {}

\* A frame is the rectangle without the one that is smaller by the pen on each side,
\* as long as the pen is not wider than the rectangle (display.c:55).
RectIsFrame ==
  call.op = "rect" =>
    LET b == call.args[1]
        pen == call.args[2]
    IN pen \in 1 .. b.w /\ pen <= b.h =>
         DOMAIN painted = Seen(b.x .. b.x + b.w - 1, b.y .. b.y + b.h - 1)
                          \ Seen(b.x + pen .. b.x + b.w - pen - 1, b.y + pen .. b.y + b.h - pen - 1)

\* Each character of a string, with the space behind it, stays as it was drawn: no
\* later one nor its background paints over it (display.c:131).
TextReadable ==
  call.op = "text" =>
    \A c \in cells, p \in (0 .. CharW + SpaceX - 1) \X (0 .. CharH + SpaceY - 1) :
      LET k == Seen({c.x + p[1]}, {c.y + p[2]})
          color == IF p \in c.glyph THEN call.fg ELSE call.bg
      IN \A n \in k : IF p \in c.glyph \/ call.bg # CLEAR
                      THEN n \in DOMAIN painted /\ painted[n] = color
                      ELSE n \notin DOMAIN painted

\* The palette's colour that is found is the first of those that are nearest; the
\* ninth is the same as the eighth and never found (color.c:44).
ClosestFirst ==
  call.op = "color" =>
    LET c == call.args[1]
        found == call.args[2]
    IN /\ \A k \in 0..15 : Distance(c, found) <= Distance(c, k)
       /\ \A k \in 0 .. found - 1 : Distance(c, found) < Distance(c, k)
       /\ found # 8

\* What is known of every call that draws or matches a colour.
DrawnRight == TypeOK /\ FillIsRect /\ RectIsFrame /\ TextReadable /\ ClosestFirst
=============================================================================
