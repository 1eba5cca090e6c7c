--------------------------- MODULE ScreenProofs ---------------------------
(***************************************************************************)
(* Proofs of what the user gets to see: the terminal, the time, the texts   *)
(* and the pixels, for every size of the screen and of the buffers.         *)
(***************************************************************************)
EXTENDS Screen, TLAPS, FiniteSetTheorems, SequenceTheorems, WellFoundedInduction

\* Quotient and remainder.
LEMMA DivIs ==
  ASSUME NEW a \in Nat, NEW b \in Nat \ {0}
  PROVE  /\ a \div b \in Nat /\ a % b \in 0 .. b - 1
         /\ a = b * (a \div b) + (a % b)
OBVIOUS

\* They are the only ones.
LEMMA ModUnique ==
  ASSUME NEW d \in Nat \ {0}, NEW k \in Nat, NEW r \in 0 .. d - 1
  PROVE  (d * k + r) % d = r /\ (d * k + r) \div d = k
<1> DEFINE m == d * k + r
           q == m \div d
<1>1. m \in Nat /\ q \in Nat /\ m % d \in 0 .. d - 1 /\ m = d * q + (m % d)
  <2>1. m \in Nat
    OBVIOUS
  <2> HIDE DEF m
  <2>2. QED
    BY <2>1
<1> HIDE DEF q
<1>2. ASSUME NEW x \in Nat, NEW y \in Nat, x < y, NEW u \in 0 .. d - 1, NEW v \in 0 .. d - 1,
             d * x + u = d * y + v
      PROVE  FALSE
  <2>1. y = x + (y - x) /\ y - x \in Nat /\ y - x >= 1
    BY <1>2
  <2>2. d * y = d * x + d * (y - x)
    BY <2>1
  <2>3. d * (y - x) >= d
    BY <2>1
  <2>4. d * x \in Nat /\ d * (y - x) \in Nat
    BY <2>1
  <2>5. QED
    BY <1>2, <2>2, <2>3, <2>4
<1>3. q = k
  <2>1. ~ (q < k) /\ ~ (k < q)
    BY <1>1, <1>2 DEF m
  <2>2. QED
    BY <1>1, <2>1
<1>4. m % d = r
  BY <1>1, <1>3
<1>5. QED
  BY <1>3, <1>4 DEF q

-----------------------------------------------------------------------------
(* The inductive invariant of the text console.                             *)

\* Below its first line the screen shows the paper from row top + 1 on; or it still
\* has to scroll, and shows the paper from the row before.
Match(s, p, top) == \A r \in Rows \ {0} : s[r] = p[top + r + 1]
Lower(s, p, top) == (\A r \in Rows \ {0} : s[r] = p[top + r]) /\ p[top + H] = Blank

\* Where the pen is when the cursor is meant to be at (x, y), whether or not that is
\* still on the screen.
Follows(s, p, q, x, y) ==
  IF x < W /\ y < H THEN Match(s, p, q.top) /\ q.x = x /\ q.y = q.top + y
  ELSE IF y + 1 < H THEN Match(s, p, q.top) /\ q.x = 0 /\ q.y = q.top + y + 1
  ELSE Lower(s, p, q.top) /\ q.x = 0 /\ q.y = q.top + H - 1

\* The last row of the screen is the last of the paper, and the pen is between them.
OnPaper(p, q) ==
  /\ p \in Seq([Columns -> Cells])
  /\ q \in [x : Columns, y : Nat, top : Nat]
  /\ Len(p) = q.top + H
  /\ q.top <= q.y /\ q.y < q.top + H

\* What the buffer may hold.
Chars0 == Tokens \cup {NUL}

\* Where no character is half put; where a text is made.
Resting == {"idle", "length", "store", "write", "next", "char", "code"}
Making == {"length", "store", "write"}

\* How far the cursor may be out while it is moved, whatever the interrupt does to it.
CursorNear ==
  /\ pc \in Resting \cup {"advance", "over", "copy", "blank"} => cx < W
  /\ pc \in Resting \cup {"advance", "wrap"} => cy < H
  /\ pc \in {"setx", "sety"} =>
       CASE pos.then = "wrap" -> pos.y < H /\ cy < H /\ (pc = "setx" => cx < W)
         [] pos.then = "over" -> pos.x = 0 /\ cy < H /\ (pc = "sety" => cx < W)
         [] pos.then = "next" -> pos.x = 0 /\ pos.y = H - 1 /\ cx < W

Coloured ==
  /\ pc \in {"idle"} \cup Making => fg = WHITE /\ bg = WHITE
  /\ pc \notin {"idle"} \cup Making => saved = <<WHITE, WHITE>>

\* There is a character to store.
MoreLeft == pc \in {"length", "store"} => todo # <<>>

\* What was written, and what is still to be, is the text, if no key came.
Printed ==
  /\ msg \in Seq(Tokens) /\ out \in Seq(Chars0)
  /\ pc = "write" => todo = <<>>
  /\ ~hit =>
       /\ pc = "idle" => out = msg
       /\ pc \in Making => out = <<>> /\ buffer \in Seq(Tokens) /\ buffer \o todo = msg
       /\ pc = "length" => at <= Len(buffer) + 1
       /\ pc = "store" => at = Len(buffer) + 1
       /\ pc \notin {"idle"} \cup Making =>
            buffer = msg /\ Len(out) = i - 1 /\ i - 1 <= Len(msg)
              /\ \A j \in 1 .. i - 1 : out[j] = msg[j]

\* The m of an escape sequence is near, if no key took it away; then there is none.
Coded ==
  /\ cut => pc \in {"code", "overrun"} /\ hit /\ Len(buffer) = 1
  /\ pc = "overrun" => cut
  /\ pc = "code" => i >= 2
  /\ pc = "code" /\ ~cut => \E k \in Nat : k >= i /\ k + Len(code) <= i + 3 /\ At(k) = M

Mirrored ==
  /\ OnPaper(paper, pen)
  /\ ~torn =>
       /\ AtRest \/ pc \in {"wrap", "over", "copy"} => Follows(cell, paper, pen, cx, cy)
       /\ pc = "advance" => Follows(cell, paper, pen, cx + 1, cy)
       /\ pc = "setx" => Follows(cell, paper, pen, pos.x, pos.y)
       /\ pc = "sety" => pos.x = cx /\ Follows(cell, paper, pen, cx, pos.y)
       /\ pc = "copy" => cy >= H
       /\ pc = "blank" =>
            /\ \A r \in Rows \ {0, H - 1} : cell[r] = paper[pen.top + r + 1]
            /\ paper[pen.top + H] = Blank
            /\ pen.x = 0 /\ pen.y = pen.top + H - 1

ConsoleIInv ==
  TypeOK /\ CursorNear /\ Coloured /\ MoreLeft /\ Printed /\ Coded /\ Mirrored

-----------------------------------------------------------------------------
(* The paper and the screen.                                                *)

LEMMA SizesAre == W \in Nat \ {0} /\ H \in Nat /\ H >= 2
BY ConsoleAssumption

LEMMA BlankType == Blank \in [Columns -> Cells] /\ SPACE \in Cells /\ BAR \in Cells
BY DEF Blank, Cells, Printable

LEMMA NulIs == NUL \notin Tokens /\ M \in Tokens /\ LB \in Tokens /\ SPACE \in Tokens
<1>1. NUL \notin Digits
  <2>1. \A d \in 1 .. 10 : DIGITS[d] # "nul"
    BY DEF DIGITS
  <2>2. QED
    BY <2>1 DEF Digits, NUL
<1>2. NUL \notin Glyphs
  BY ConsoleAssumption
<1>3. NUL \notin {SPACE, LB, M, NL, TAB, CR, ESC}
  BY DEF NUL, SPACE, LB, M, NL, TAB, CR, ESC
<1>4. QED
  BY <1>1, <1>2, <1>3 DEF Tokens, Printable

\* The rows of the paper, as they are counted from one top and from the next.
LEMMA NextTop ==
  ASSUME NEW t \in Nat, NEW u, u = t + 1, NEW b \in Nat
  PROVE  /\ u \in Nat /\ u + b = t + b + 1
         /\ \A r \in Nat : r < b => u + r = t + r + 1 /\ t + r + 1 \in 1 .. t + b
OBVIOUS

\* Screens stay screens.
LEMMA ScreenTypes ==
  ASSUME NEW s \in [Rows -> [Columns -> Cells]]
  PROVE  /\ \A x, y : \A g \in Cells : Drawn(s, x, y, g) \in [Rows -> [Columns -> Cells]]
         /\ Copied(s) \in [Rows -> [Columns -> Cells]]
         /\ Blanked(s) \in [Rows -> [Columns -> Cells]]
         /\ Redrawn(s) \in [Rows -> [Columns -> Cells]]
<1>1. ASSUME NEW x, NEW y, NEW g \in Cells
      PROVE  Drawn(s, x, y, g) \in [Rows -> [Columns -> Cells]]
  BY DEF Drawn, OnScreen
<1>2. Copied(s) \in [Rows -> [Columns -> Cells]]
  <2>1. \A r \in Rows : r < H - 1 => r + 1 \in Rows
    BY SizesAre DEF Rows
  <2>2. QED
    BY <2>1 DEF Copied
<1>3. Blanked(s) \in [Rows -> [Columns -> Cells]]
  BY BlankType DEF Blanked
<1>4. Redrawn(s) \in [Rows -> [Columns -> Cells]]
  <2>1. [c \in Columns |-> BAR] \in [Columns -> Cells]
    BY BlankType
  <2>2. QED
    BY <2>1 DEF Redrawn
<1>5. QED
  BY <1>1, <1>2, <1>3, <1>4

\* Scrolling brings a screen that is a line behind up to the paper.
LEMMA ScrollMatches ==
  ASSUME NEW s \in [Rows -> [Columns -> Cells]], NEW p, NEW top \in Nat, Lower(s, p, top)
  PROVE  Match(Blanked(Copied(s)), p, top)
<1>1. Copied(s) \in [Rows -> [Columns -> Cells]]
  BY ScreenTypes
<1>2. ASSUME NEW r \in Rows \ {0} PROVE Blanked(Copied(s))[r] = p[top + r + 1]
  <2>1. r \in Nat /\ r <= H - 1 /\ r # 0 /\ H \in Nat
    BY SizesAre DEF Rows
  <2>2. CASE r = H - 1
    <3>1. Blanked(Copied(s))[r] = Blank
      BY <1>1, <2>2 DEF Blanked
    <3>2. top + r + 1 = top + H
      BY <2>1, <2>2
    <3>3. QED
      BY <3>1, <3>2 DEF Lower
  <2>3. CASE r # H - 1
    <3>1. r < H - 1 /\ r + 1 \in Rows \ {0}
      BY <2>1, <2>3 DEF Rows
    <3>2. Blanked(Copied(s))[r] = Copied(s)[r]
      BY <1>1, <2>3 DEF Blanked
    <3>3. Copied(s)[r] = s[r + 1]
      BY <3>1 DEF Copied
    <3>4. s[r + 1] = p[top + (r + 1)] /\ top + (r + 1) = top + r + 1
      BY <2>1, <3>1 DEF Lower
    <3>5. QED
      BY <3>2, <3>3, <3>4
  <2>4. QED
    BY <2>2, <2>3
<1>3. QED
  BY <1>2 DEF Match

\* The line that krnl_redraw draws is not compared.
LEMMA RedrawMatches ==
  ASSUME NEW s \in [Rows -> [Columns -> Cells]], NEW p, NEW top, Match(s, p, top)
  PROVE  Match(Redrawn(s), p, top)
BY DEF Match, Redrawn

\* A character that is put on the screen and on the paper.
LEMMA InkMatches ==
  ASSUME NEW s \in [Rows -> [Columns -> Cells]], NEW x \in Columns, NEW y \in Rows,
         NEW g \in Cells, OnPaper(paper, pen), Match(s, paper, pen.top)
  PROVE  /\ Inked(x, pen.top + y, g) \in Seq([Columns -> Cells])
         /\ Len(Inked(x, pen.top + y, g)) = Len(paper)
         /\ Match(Drawn(s, x, y, g), Inked(x, pen.top + y, g), pen.top)
<1>1. /\ pen.top \in Nat /\ x \in Columns /\ y \in Nat /\ y < H /\ H \in Nat
      /\ Len(paper) = pen.top + H /\ paper \in Seq([Columns -> Cells])
  BY SizesAre DEF OnPaper, Rows
<1> DEFINE j == pen.top + y + 1
           e == [paper[j] EXCEPT ![x] = g]
<1>2. j \in 1 .. Len(paper)
  BY <1>1
<1>3. paper[j] \in [Columns -> Cells]
  BY <1>1, <1>2, ElementOfSeq
<1>4. e \in [Columns -> Cells]
  BY <1>3
<1>5. Inked(x, pen.top + y, g) = [paper EXCEPT ![j] = e]
  BY DEF Inked
<1>6. /\ Inked(x, pen.top + y, g) \in Seq([Columns -> Cells])
      /\ Len(Inked(x, pen.top + y, g)) = Len(paper)
      /\ \A k \in 1 .. Len(paper) : Inked(x, pen.top + y, g)[k] = IF k = j THEN e ELSE paper[k]
  <2> HIDE DEF e, j
  <2>1. QED
    <3>1. /\ [paper EXCEPT ![j] = e] \in Seq([Columns -> Cells])
          /\ Len([paper EXCEPT ![j] = e]) = Len(paper)
          /\ \A k \in 1 .. Len(paper) : [paper EXCEPT ![j] = e][k] = IF k = j THEN e ELSE paper[k]
      BY <1>1, <1>2, <1>4, ExceptSeq
    <3>2. QED
      BY <1>5, <3>1
<1>7. Drawn(s, x, y, g) = [s EXCEPT ![y][x] = g]
  BY DEF Drawn, OnScreen
<1>8. ASSUME NEW r \in Rows \ {0}
      PROVE  Drawn(s, x, y, g)[r] = Inked(x, pen.top + y, g)[pen.top + r + 1]
  <2>1. r \in Nat /\ r < H
    BY <1>1 DEF Rows
  <2>2. pen.top + r + 1 \in 1 .. Len(paper) /\ (pen.top + r + 1 = j <=> r = y)
    BY <1>1, <2>1
  <2>3. s[r] = paper[pen.top + r + 1]
    BY DEF Match
  <2>4. CASE r = y
    <3>1. Drawn(s, x, y, g)[r] = [s[y] EXCEPT ![x] = g]
      BY <1>7, <2>4
    <3>2. s[y] = paper[j]
      BY <2>2, <2>3, <2>4
    <3>3. Inked(x, pen.top + y, g)[pen.top + r + 1] = e
      BY <1>6, <2>2, <2>4
    <3>4. QED
      BY <3>1, <3>2, <3>3
  <2>5. CASE r # y
    <3>1. Drawn(s, x, y, g)[r] = s[r]
      BY <1>7, <2>5
    <3>2. QED
      BY <1>6, <2>2, <2>3, <2>5, <3>1
  <2>6. QED
    BY <2>4, <2>5
<1>9. QED
  BY <1>6, <1>8 DEF Match

\* Paper that is fed by a row, or needs no feeding.
LEMMA FedIs ==
  ASSUME NEW p \in Seq([Columns -> Cells]), NEW x \in Columns, NEW y \in Nat,
         pen \in [x : Columns, y : Nat, top : Nat], Len(p) = pen.top + H,
         pen.top <= y, y <= pen.top + H, Fed(p, x, y)
  PROVE  /\ OnPaper(paper', pen')
         /\ pen'.x = x /\ pen'.y = y
         /\ y < pen.top + H => paper' = p /\ pen'.top = pen.top
         /\ y = pen.top + H =>
              /\ pen'.top = pen.top + 1
              /\ \A k \in 1 .. Len(p) : paper'[k] = p[k]
              /\ paper'[pen.top + H + 1] = Blank
<1>1. H \in Nat /\ H >= 2 /\ pen.top \in Nat
  BY SizesAre
<1>2. CASE y < pen.top + H
  <2>1. paper' = p /\ pen' = [pen EXCEPT !.x = x, !.y = y]
    BY <1>2 DEF Fed
  <2>2. pen' \in [x : Columns, y : Nat, top : Nat] /\ pen'.x = x /\ pen'.y = y /\ pen'.top = pen.top
    BY <2>1
  <2>3. OnPaper(paper', pen')
    BY <1>2, <2>1, <2>2 DEF OnPaper
  <2>4. QED
    BY <1>1, <1>2, <2>1, <2>2, <2>3
<1>3. CASE y = pen.top + H
  <2>1. paper' = Append(p, Blank) /\ pen' = [x |-> x, y |-> y, top |-> pen.top + 1]
    BY <1>1, <1>3 DEF Fed
  <2>2. /\ pen' \in [x : Columns, y : Nat, top : Nat]
        /\ pen'.x = x /\ pen'.y = y /\ pen'.top = pen.top + 1
    BY <1>1, <2>1
  <2>3. /\ paper' \in Seq([Columns -> Cells]) /\ Len(paper') = Len(p) + 1
        /\ \A k \in 1 .. Len(p) : paper'[k] = p[k]
        /\ paper'[Len(p) + 1] = Blank
    BY <2>1, AppendProperties, BlankType
  <2>4. OnPaper(paper', pen')
    <3>1. Len(paper') = pen'.top + H /\ pen'.top <= pen'.y /\ pen'.y < pen'.top + H
      <4>1. Len(paper') = pen.top + H + 1 /\ pen'.top = pen.top + 1 /\ pen'.y = pen.top + H
        BY <1>3, <2>2, <2>3
      <4>2. Len(paper') = pen'.top + H
        BY <1>1, <4>1
      <4>3. pen'.top <= pen'.y /\ pen'.y < pen'.top + H
        BY <1>1, <4>1
      <4>4. QED
        BY <4>2, <4>3
    <3>2. QED
      BY <2>2, <2>3, <3>1 DEF OnPaper
  <2>5. QED
    BY <1>1, <1>3, <2>2, <2>3, <2>4
<1>4. QED
  BY <1>1, <1>2, <1>3

\* Putting a character moves the pen where the cursor is meant to go.
LEMMA PutFollows ==
  ASSUME cell \in [Rows -> [Columns -> Cells]], NEW g \in Cells, OnPaper(paper, pen),
         cx \in Columns, cy \in Rows, Follows(cell, paper, pen, cx, cy), PaperPut(g)
  PROVE  /\ OnPaper(paper', pen')
         /\ Follows(Drawn(cell, cx, cy, g), paper', pen', cx + 1, cy)
<1> DEFINE s == Drawn(cell, cx, cy, g)
           p == Inked(cx, pen.top + cy, g)
<1>1. /\ W \in Nat /\ H \in Nat /\ H >= 2 /\ cx \in Nat /\ cx < W /\ cy \in Nat /\ cy < H
      /\ pen \in [x : Columns, y : Nat, top : Nat] /\ pen.top \in Nat
      /\ Len(paper) = pen.top + H
  BY SizesAre DEF OnPaper, Columns, Rows
<1>1a. H \in Nat /\ pen.top \in Nat /\ cy \in Nat
  BY <1>1
<1>2. Match(cell, paper, pen.top) /\ pen.x = cx /\ pen.y = pen.top + cy
  BY <1>1 DEF Follows
<1>3. /\ p \in Seq([Columns -> Cells]) /\ Len(p) = pen.top + H
      /\ Match(s, p, pen.top)
  BY <1>1, <1>2, InkMatches
<1> HIDE DEF s, p
<1>4. CASE cx + 1 < W
  <2>1. Fed(p, cx + 1, pen.top + cy)
    BY <1>1, <1>2, <1>4 DEF PaperPut, p
  <2>2. cx + 1 \in Columns /\ pen.top + cy \in Nat /\ pen.top <= pen.top + cy
        /\ pen.top + cy < pen.top + H
    BY <1>1, <1>4 DEF Columns
  <2>3. /\ OnPaper(paper', pen') /\ paper' = p /\ pen'.top = pen.top
        /\ pen'.x = cx + 1 /\ pen'.y = pen.top + cy
    BY <1>1, <1>3, <2>1, <2>2, FedIs
  <2>4. QED
    BY <1>1, <1>3, <1>4, <2>3 DEF Follows, s
<1>5. CASE ~(cx + 1 < W)
  <2>1. Fed(p, 0, pen.top + cy + 1)
    BY <1>1, <1>2, <1>5 DEF PaperPut, p
  <2>2. 0 \in Columns /\ pen.top + cy + 1 \in Nat /\ pen.top <= pen.top + cy + 1
        /\ pen.top + cy + 1 <= pen.top + H
    BY <1>1 DEF Columns
  <2>3. /\ OnPaper(paper', pen') /\ pen'.x = 0 /\ pen'.y = pen.top + cy + 1
        /\ pen.top + cy + 1 < pen.top + H => paper' = p /\ pen'.top = pen.top
        /\ pen.top + cy + 1 = pen.top + H =>
              /\ pen'.top = pen.top + 1
              /\ \A k \in 1 .. Len(p) : paper'[k] = p[k]
              /\ paper'[pen.top + H + 1] = Blank
    BY <1>1, <1>3, <2>1, <2>2, FedIs
  <2>4. CASE cy + 1 < H
    <3>1. paper' = p /\ pen'.top = pen.top
      BY <1>1, <2>3, <2>4
    <3>2. QED
      BY <1>1, <1>3, <1>5, <2>3, <2>4, <3>1 DEF Follows, s
  <2>5. CASE ~(cy + 1 < H)
    <3>1. cy + 1 = H /\ pen'.top = pen.top + 1 /\ pen'.top \in Nat
      BY <1>1, <2>3, <2>5
    <3>2. Lower(s, paper', pen'.top)
      <4>1. ASSUME NEW r \in Rows \ {0} PROVE s[r] = paper'[pen'.top + r]
        <5>1. r \in Nat /\ r < H
          BY <1>1 DEF Rows
        <5>2. pen'.top + r = pen.top + r + 1 /\ pen.top + r + 1 \in 1 .. Len(p)
          <6>1. pen'.top = pen.top + 1 /\ Len(p) = pen.top + H
            BY <1>3, <3>1
          <6>2. QED
            <7>1. pen'.top + r = pen.top + r + 1
              BY <1>1a, <5>1, <6>1
            <7>2. pen.top + r + 1 \in 1 .. pen.top + H
              BY <1>1a, <5>1
            <7>3. QED
              BY <6>1, <7>1, <7>2
        <5>3. paper'[pen.top + r + 1] = p[pen.top + r + 1]
          <6>1. pen.top + cy + 1 = pen.top + H
            BY <1>1, <3>1
          <6>2. QED
            BY <2>3, <5>2, <6>1
        <5>4. QED
          BY <1>3, <5>2, <5>3 DEF Match
      <4>2. paper'[pen'.top + H] = Blank
        <5>1. pen'.top + H = pen.top + H + 1 /\ pen.top + cy + 1 = pen.top + H
          <6>1. pen'.top = pen.top + 1 /\ cy + 1 = H
            BY <3>1
          <6>2. QED
            BY <1>1a, <6>1, NextTop
        <5>2. QED
          BY <2>3, <5>1
      <4>3. QED
        BY <4>1, <4>2 DEF Lower
    <3>3. pen'.y = pen'.top + H - 1
      BY <1>1, <2>3, <3>1
    <3>4. QED
      BY <1>1, <1>5, <2>3, <2>5, <3>2, <3>3 DEF Follows, s
  <2>6. QED
    BY <2>4, <2>5
<1>6. QED
  BY <1>4, <1>5

\* The same of a newline.
LEMMA NewlineFollows ==
  ASSUME OnPaper(paper, pen), cx \in Columns, cy \in Rows,
         Follows(cell, paper, pen, cx, cy), PaperNewline
  PROVE  /\ OnPaper(paper', pen')
         /\ Follows(cell, paper', pen', 0, cy + 1)
<1>1. /\ W \in Nat \ {0} /\ H \in Nat /\ H >= 2 /\ cx \in Nat /\ cx < W /\ cy \in Nat /\ cy < H
      /\ pen \in [x : Columns, y : Nat, top : Nat] /\ pen.top \in Nat
      /\ Len(paper) = pen.top + H /\ paper \in Seq([Columns -> Cells])
  BY SizesAre DEF OnPaper, Columns, Rows
<1>1a. H \in Nat /\ pen.top \in Nat /\ cy \in Nat
  BY <1>1
<1>2. Match(cell, paper, pen.top) /\ pen.y = pen.top + cy
  BY <1>1 DEF Follows
<1>3. Fed(paper, 0, pen.top + cy + 1)
  BY <1>1, <1>2 DEF PaperNewline
<1>4. 0 \in Columns /\ pen.top + cy + 1 \in Nat /\ pen.top <= pen.top + cy + 1
      /\ pen.top + cy + 1 <= pen.top + H
  BY <1>1 DEF Columns
<1>5. /\ OnPaper(paper', pen') /\ pen'.x = 0 /\ pen'.y = pen.top + cy + 1
      /\ pen.top + cy + 1 < pen.top + H => paper' = paper /\ pen'.top = pen.top
      /\ pen.top + cy + 1 = pen.top + H =>
            /\ pen'.top = pen.top + 1
            /\ \A k \in 1 .. Len(paper) : paper'[k] = paper[k]
            /\ paper'[pen.top + H + 1] = Blank
  BY <1>1, <1>3, <1>4, FedIs
<1>6. CASE cy + 1 < H
  <2>1. paper' = paper /\ pen'.top = pen.top
    BY <1>1, <1>5, <1>6
  <2>2. pen'.y = pen'.top + (cy + 1)
    BY <1>1, <1>5, <2>1
  <2>3. QED
    BY <1>1, <1>2, <1>5, <1>6, <2>1, <2>2 DEF Follows
<1>7. CASE ~(cy + 1 < H)
  <2>1. cy + 1 = H /\ pen'.top = pen.top + 1 /\ pen'.top \in Nat
    <3>1. cy + 1 = H /\ pen.top + cy + 1 = pen.top + H
      BY <1>1, <1>7
    <3>2. pen'.top = pen.top + 1
      BY <1>5, <3>1
    <3>3. QED
      BY <1>1, <3>1, <3>2
  <2>2. Lower(cell, paper', pen'.top)
    <3>1. ASSUME NEW r \in Rows \ {0} PROVE cell[r] = paper'[pen'.top + r]
      <4>1. r \in Nat /\ r < H
        BY <1>1 DEF Rows
      <4>2. pen'.top + r = pen.top + r + 1 /\ pen.top + r + 1 \in 1 .. Len(paper)
        <5>1. pen'.top = pen.top + 1 /\ Len(paper) = pen.top + H
          BY <1>1, <2>1
        <5>2. QED
          <6>1. pen'.top + r = pen.top + r + 1
            BY <1>1a, <4>1, <5>1
          <6>2. pen.top + r + 1 \in 1 .. pen.top + H
            BY <1>1a, <4>1
          <6>3. QED
            BY <5>1, <6>1, <6>2
      <4>3. paper'[pen.top + r + 1] = paper[pen.top + r + 1]
        <5>1. pen.top + cy + 1 = pen.top + H
          BY <1>1a, <2>1
        <5>2. QED
          BY <1>5, <4>2, <5>1
      <4>4. QED
        BY <1>2, <4>2, <4>3 DEF Match
    <3>2. paper'[pen'.top + H] = Blank
      <4>1. pen'.top + H = pen.top + H + 1 /\ pen.top + cy + 1 = pen.top + H
        <5>1. pen'.top = pen.top + 1 /\ cy + 1 = H
          BY <2>1
        <5>2. QED
          <6>1. pen'.top + H = pen.top + H + 1
            BY <1>1a, <5>1
          <6>2. pen.top + cy + 1 = pen.top + H
            BY <1>1a, <5>1
          <6>3. QED
            BY <6>1, <6>2
      <4>2. QED
        BY <1>5, <4>1
    <3>3. QED
      BY <3>1, <3>2 DEF Lower
  <2>3. pen'.y = pen'.top + H - 1
    BY <1>1, <1>5, <2>1
  <2>4. ~(cy + 1 + 1 < H)
    BY <1>1, <2>1
  <2>5. QED
    BY <1>1, <1>5, <1>7, <2>2, <2>3, <2>4 DEF Follows
<1>8. QED
  BY <1>6, <1>7

-----------------------------------------------------------------------------
(* The steps of the console.                                                *)

\* The interrupt's character leaves the cursor in a column of the screen, and never
\* brings it below the screen; so does its delete.
LEMMA PutAtIs ==
  ASSUME TypeOK, NEW g \in Cells
  PROVE  LET p == PutAt(cx, cy, g) IN
         /\ p.x \in Columns /\ p.y \in 0 .. H /\ (cy < H => p.y < H)
         /\ p.s \in [Rows -> [Columns -> Cells]]
<1> DEFINE s == Drawn(cell, cx, cy, g)
<1>1. /\ cx \in 0 .. W /\ cy \in 0 .. H /\ W \in Nat \ {0} /\ H \in Nat /\ H >= 2
      /\ cell \in [Rows -> [Columns -> Cells]]
  BY SizesAre DEF TypeOK
<1>2. s \in [Rows -> [Columns -> Cells]] /\ Blanked(Copied(s)) \in [Rows -> [Columns -> Cells]]
  BY <1>1, ScreenTypes
<1> HIDE DEF s
<1>3. CASE cx + 1 < W
  <2>1. PutAt(cx, cy, g) = [x |-> cx + 1, y |-> cy, s |-> s]
    BY <1>3 DEF PutAt, s
  <2>2. QED
    BY <1>1, <1>2, <1>3, <2>1 DEF Columns
<1>4. CASE ~(cx + 1 < W) /\ cy + 1 < H
  <2>1. PutAt(cx, cy, g) = [x |-> 0, y |-> cy + 1, s |-> s]
    BY <1>4 DEF PutAt, s
  <2>2. QED
    BY <1>1, <1>2, <1>4, <2>1 DEF Columns
<1>5. CASE ~(cx + 1 < W) /\ ~(cy + 1 < H)
  <2>1. PutAt(cx, cy, g) = [x |-> 0, y |-> H - 1, s |-> Blanked(Copied(s))]
    BY <1>5 DEF PutAt, s
  <2>2. QED
    BY <1>1, <1>2, <1>5, <2>1 DEF Columns
<1>6. QED
  BY <1>3, <1>4, <1>5

LEMMA DeleteAtIs ==
  ASSUME TypeOK
  PROVE  LET p == DeleteAt(cx, cy) IN
         /\ p.x \in Columns /\ p.y \in 0 .. H /\ (cy < H => p.y < H)
         /\ p.s \in [Rows -> [Columns -> Cells]]
<1>1. /\ cx \in 0 .. W /\ cy \in 0 .. H /\ W \in Nat \ {0} /\ H \in Nat /\ H >= 2
      /\ cell \in [Rows -> [Columns -> Cells]]
  BY SizesAre DEF TypeOK
<1>2. \A x, y : Drawn(cell, x, y, SPACE) \in [Rows -> [Columns -> Cells]]
  BY <1>1, ScreenTypes, BlankType
<1>3. CASE cx > 0
  <2>1. DeleteAt(cx, cy) = [x |-> cx - 1, y |-> cy, s |-> Drawn(cell, cx - 1, cy, SPACE)]
    BY <1>3 DEF DeleteAt
  <2>2. QED
    BY <1>1, <1>2, <1>3, <2>1 DEF Columns
<1>4. CASE ~(cx > 0) /\ cy > 0
  <2>1. DeleteAt(cx, cy) = [x |-> W - 1, y |-> cy - 1, s |-> Drawn(cell, W - 1, cy - 1, SPACE)]
    BY <1>4 DEF DeleteAt
  <2>2. QED
    BY <1>1, <1>2, <1>4, <2>1 DEF Columns
<1>5. CASE ~(cx > 0) /\ ~(cy > 0)
  <2>1. DeleteAt(cx, cy) = [x |-> cx, y |-> cy, s |-> cell]
    BY <1>5 DEF DeleteAt
  <2>2. QED
    BY <1>1, <1>5, <2>1 DEF Columns
<1>6. QED
  BY <1>3, <1>4, <1>5

\* Whatever key it is, the interrupt does this much.
Key ==
  /\ Interrupted
  /\ cx' \in Columns /\ cy' \in 0 .. H /\ (cy < H => cy' < H)
  /\ cell' \in [Rows -> [Columns -> Cells]]
  /\ buffer' \in Seq(Chars0)
  /\ \/ buffer' = buffer /\ cut' = cut
     \/ Len(buffer') = 1 /\ cut' = (cut \/ pc = "code")
  /\ pc = "idle" \/ hit'
  /\ pc = "idle" => hit' = hit
  /\ hit' \in BOOLEAN /\ cut' \in BOOLEAN /\ torn' \in BOOLEAN
  /\ AtRest => torn' = torn
  /\ ~AtRest => torn'

LEMMA KeyIs ==
  ASSUME TypeOK, (\E g \in Typed : KeyChar(g)) \/ KeyDelete
  PROVE  Key
<1>1. ASSUME Interrupted
      PROVE  /\ pc = "idle" \/ hit'
             /\ pc = "idle" => hit' = hit
             /\ hit' \in BOOLEAN /\ torn' \in BOOLEAN
             /\ AtRest => torn' = torn
             /\ ~AtRest => torn'
  BY <1>1, Zenon DEF Interrupted, TypeOK
<1>2. ASSUME NEW g \in Typed, KeyChar(g) PROVE Key
  <2>1. Interrupted /\ buffer' = <<g>> /\ cut' = (cut \/ pc = "code")
    BY <1>2, Zenon DEF KeyChar
  <2>2. LET p == PutAt(cx, cy, g) IN cx' = p.x /\ cy' = p.y /\ cell' = Redrawn(p.s)
    BY <1>2 DEF KeyChar
  <2>3. g \in Cells /\ g \in Chars0
    BY ConsoleAssumption DEF Cells, Tokens, Chars0
  <2>4. buffer' \in Seq(Chars0) /\ Len(buffer') = 1
    BY <2>1, <2>3
  <2>5. /\ cx' \in Columns /\ cy' \in 0 .. H /\ (cy < H => cy' < H)
        /\ cell' \in [Rows -> [Columns -> Cells]]
    BY <2>2, <2>3, PutAtIs, ScreenTypes
  <2>6. cut' \in BOOLEAN
    BY <2>1, Zenon DEF TypeOK
  <2>7. QED
    BY <1>1, <2>1, <2>4, <2>5, <2>6, Zenon DEF Key
<1>3. ASSUME KeyDelete PROVE Key
  <2>1. Interrupted /\ buffer' = buffer /\ cut' = cut
    BY <1>3 DEF KeyDelete
  <2>2. LET p == DeleteAt(cx, cy) IN cx' = p.x /\ cy' = p.y /\ cell' = Redrawn(p.s)
    BY <1>3 DEF KeyDelete
  <2>3. /\ cx' \in Columns /\ cy' \in 0 .. H /\ (cy < H => cy' < H)
        /\ cell' \in [Rows -> [Columns -> Cells]]
    BY <2>2, DeleteAtIs, ScreenTypes
  <2>4. buffer' \in Seq(Chars0) /\ cut' \in BOOLEAN
    BY <2>1 DEF TypeOK, Chars0
  <2>5. QED
    BY <1>1, <2>1, <2>3, <2>4, Zenon DEF Key
<1>4. QED
  BY <1>2, <1>3

\* The steps of the thread, and of the interrupt, one after the other.
LEMMA Steps ==
  ASSUME TypeOK, Next
  PROVE  \/ Printf \/ Length \/ Store \/ Write \/ WriteEnd
         \/ Look \/ Special \/ Escape \/ CopyCode \/ SetColour
         \/ Draw \/ Advance \/ SetX \/ SetY \/ Wrap
         \/ Newline \/ Over \/ Copy \/ ScrollBlank \/ Cls \/ Key
BY KeyIs DEF Next

LEMMA DrawnCell == Draw => ch \in Cells
BY DEF Draw, Cells

\* What is read from the buffer, and the buffer after a character was stored.
LEMMA AtType ==
  ASSUME TypeOK, NEW k \in Nat \ {0}
  PROVE  At(k) \in Chars0 /\ (At(k) # NUL => At(k) \in Tokens /\ k <= Len(buffer))
<1>1. buffer \in Seq(Chars0)
  BY DEF TypeOK, Chars0
<1>2. CASE k <= Len(buffer)
  <2>1. buffer[k] \in Chars0
    BY <1>1, <1>2, ElementOfSeq
  <2>2. QED
    BY <1>2, <2>1 DEF At, Chars0
<1>3. CASE ~(k <= Len(buffer))
  BY <1>3 DEF At, Chars0
<1>4. QED
  BY <1>2, <1>3

LEMMA PutIs ==
  ASSUME TypeOK, NEW k \in Nat \ {0}, NEW c \in Tokens
  PROVE  /\ Put(k, c) \in Seq(Chars0)
         /\ buffer \in Seq(Tokens) /\ k = Len(buffer) + 1 => Put(k, c) = Append(buffer, c)
<1> DEFINE wide == IF k > Len(buffer) THEN k ELSE Len(buffer)
           q == Put(k, c)
<1>1. Len(buffer) \in Nat /\ wide \in Nat
  BY DEF TypeOK
<1>2. q = [l \in 1 .. wide |-> IF l = k THEN c ELSE At(l)]
  BY DEF Put
<1>3. \A l \in 1 .. wide : (IF l = k THEN c ELSE At(l)) \in Chars0
  <2>1. \A l \in 1 .. wide : l \in Nat \ {0}
    BY <1>1
  <2>2. QED
    BY <2>1, AtType DEF Chars0
<1> HIDE DEF wide
<1>4. q \in Seq(Chars0) /\ Len(q) = wide
  BY <1>1, <1>2, <1>3
<1> HIDE DEF q
<1>5. ASSUME buffer \in Seq(Tokens), k = Len(buffer) + 1 PROVE q = Append(buffer, c)
  <2> DEFINE a == Append(buffer, c)
  <2>1. /\ a \in Seq(Tokens) /\ Len(a) = k /\ a[k] = c
        /\ \A l \in 1 .. Len(buffer) : a[l] = buffer[l]
    BY <1>5, AppendProperties
  <2>2. wide = k
    BY <1>1, <1>5 DEF wide
  <2> HIDE DEF a
  <2>3. ASSUME NEW l \in 1 .. k PROVE q[l] = a[l]
    <3>1. q[l] = IF l = k THEN c ELSE At(l)
      BY <1>2, <2>2
    <3>2. l # k => l \in 1 .. Len(buffer) /\ At(l) = buffer[l]
      BY <1>1, <1>5 DEF At
    <3>3. QED
      BY <2>1, <3>1, <3>2
  <2>4. a \in Seq(Chars0) /\ Len(q) = Len(a)
    <3>1. Tokens \subseteq Chars0
      BY DEF Chars0
    <3>2. QED
      BY <1>4, <2>1, <2>2, <3>1
  <2>5. QED
    BY <1>4, <2>1, <2>2, <2>3, <2>4, SeqEqual DEF a
<1>6. QED
  BY <1>4, <1>5 DEF q

\* vga_write takes a character.
LEMMA TakenIs ==
  ASSUME TypeOK, Printed, NEW c \in Chars0, Taken(c)
  PROVE  /\ i' \in Nat \ {0} /\ i' = i + 1
         /\ out' \in Seq(Chars0) /\ Len(out') = Len(out) + 1
         /\ \A j \in 1 .. Len(out) : out'[j] = out[j]
         /\ out'[Len(out) + 1] = c
<1>1. out \in Seq(Chars0) /\ i \in Nat \ {0}
  BY DEF Printed, TypeOK
<1>2. i' = i + 1 /\ out' = Append(out, c)
  BY DEF Taken
<1>3. QED
  BY <1>1, <1>2, AppendProperties

LEMMA TypesKept == TypeOK /\ CursorNear /\ MoreLeft /\ Next => TypeOK'
<1> SUFFICES ASSUME TypeOK, CursorNear, MoreLeft, Next PROVE TypeOK'
  OBVIOUS
<1> USE SizesAre
<1>0. /\ i \in Nat \ {0} /\ at \in Nat \ {0} /\ todo \in Seq(Tokens)
      /\ buffer \in Seq(Chars0) /\ At(i) \in Chars0 /\ code \in Seq(Chars0)
      /\ Len(code) \in Nat /\ Len(code) <= 4
  BY AtType DEF TypeOK, Chars0
<1>1. CASE Printf
  <2>1. todo' \in Seq(Tokens)
    BY <1>1, ConsoleAssumption DEF Printf
  <2>2. buffer' \in Seq(Tokens \cup {NUL})
    BY <1>1, EmptySeq DEF Printf
  <2>3. hit' \in BOOLEAN
    BY <1>1, Zenon DEF Printf
  <2>4. pc' \in {"write", "length"} /\ at' = 1
    BY <1>1 DEF Printf
  <2>5. QED
    BY <1>1, <2>1, <2>2, <2>3, <2>4 DEF Printf, TypeOK, screen
<1>2. CASE Length
  <2>1. at' \in Nat \ {0} /\ pc' \in {"length", "store"}
    BY <1>0, <1>2 DEF Length
  <2>2. QED
    BY <1>2, <2>1 DEF Length, TypeOK, screen, reader, ghost
<1>3. CASE Store
  <2>1. Head(todo) \in Tokens /\ Tail(todo) \in Seq(Tokens)
    BY <1>0, <1>3, HeadTailProperties DEF Store, MoreLeft
  <2>2. todo' \in Seq(Tokens) /\ buffer' \in Seq(Tokens \cup {NUL})
    BY <1>0, <1>3, <2>1, PutIs DEF Store, Chars0
  <2>3. at' \in Nat \ {0} /\ pc' \in {"write", "length", "store"}
    BY <1>0, <1>3 DEF Store
  <2>4. QED
    BY <1>3, <2>2, <2>3 DEF Store, TypeOK, screen, reader, ghost
<1>4. CASE Write
  BY <1>4 DEF Write, TypeOK, screen, maker, ghost
<1>5. CASE WriteEnd
  <2>1. fg' \in Colours /\ bg' \in Colours
    BY <1>5 DEF WriteEnd, TypeOK
  <2>2. QED
    BY <1>5, <2>1 DEF WriteEnd, TypeOK, maker, reader, ghost
<1>6. CASE Look
  <2>1. ch' \in Tokens /\ spaces' \in 0 .. 4 /\ i' \in Nat \ {0}
    <3>1. CASE spaces = 0 /\ At(i) # NUL /\ ch' = At(i) /\ Taken(ch') /\ UNCHANGED spaces
      BY <1>0, <3>1, AtType DEF Taken, TypeOK
    <3>2. CASE spaces > 0 /\ ch' = SPACE /\ spaces' = spaces - 1 /\ UNCHANGED <<i, out>>
      BY <3>2, NulIs DEF TypeOK
    <3>3. QED
      BY <1>6, <3>1, <3>2 DEF Look
  <2>2. QED
    BY <1>6, <2>1 DEF Look, TypeOK, screen, maker, ghost
<1>7. CASE Special
  <2>1. spaces' \in 0 .. 4
    BY <1>7 DEF Special, TypeOK
  <2>2. QED
    BY <1>7, <2>1 DEF Special, TypeOK, screen, maker, ghost
<1>8. CASE Escape
  <2>1. code' \in Seq(Tokens \cup {NUL}) /\ Len(code') <= 4 /\ i' \in Nat \ {0}
        /\ pc' \in {"code", "next"}
    <3>1. <<>> \in Seq(Tokens \cup {NUL}) /\ Len(<<>>) = 0
      BY EmptySeq
    <3>2. \/ pc' = "code" /\ code' = <<>> /\ i' = i + 1
          \/ pc' = "next" /\ code' = code /\ i' = i
      BY <1>8 DEF Escape, Taken
    <3>3. i + 1 \in Nat \ {0} /\ code \in Seq(Tokens \cup {NUL})
      BY <1>0 DEF Chars0
    <3>4. CASE pc' = "code" /\ code' = <<>> /\ i' = i + 1
      <4>1. code' \in Seq(Tokens \cup {NUL}) /\ Len(code') = 0
        BY <3>1, <3>4
      <4>2. QED
        BY <3>3, <3>4, <4>1
    <3>5. CASE pc' = "next" /\ code' = code /\ i' = i
      BY <1>0, <3>3, <3>5
    <3>6. QED
      BY <3>2, <3>4, <3>5
  <2>2. QED
    BY <1>8, <2>1 DEF Escape, TypeOK, screen, maker, ghost
<1>9. CASE CopyCode
  <2>1. code' \in Seq(Tokens \cup {NUL}) /\ Len(code') <= 4 /\ i' \in Nat \ {0}
        /\ pc' \in {"code", "overrun"}
    <3>1. CASE Len(code) < 4
      <4>1. code' = Append(code, At(i)) /\ i' = i + 1 /\ pc' = "code"
        BY <1>9, <3>1 DEF CopyCode, Taken
      <4>2. Append(code, At(i)) \in Seq(Chars0) /\ Len(Append(code, At(i))) = Len(code) + 1
        BY <1>0, AppendProperties
      <4>3. QED
        BY <1>0, <3>1, <4>1, <4>2 DEF Chars0
    <3>2. CASE ~(Len(code) < 4)
      BY <1>0, <1>9, <3>2 DEF CopyCode, Chars0
    <3>3. QED
      BY <3>1, <3>2
  <2>2. QED
    BY <1>9, <2>1 DEF CopyCode, TypeOK, screen, maker, ghost
<1>10. CASE SetColour
  <2> DEFINE c == CodeNumber
  <2>1. saved[1] \in Colours /\ saved[2] \in Colours /\ fg \in Colours /\ bg \in Colours
        /\ FgColour(c) \in Colours /\ BgColour(c) \in Colours
    BY DEF TypeOK, Colours, FgColour, BgColour
  <2>2. /\ fg' = CASE c = 0 -> saved[1] [] c \in 30..37 \cup 90..97 -> FgColour(c) [] OTHER -> fg
        /\ bg' = CASE c = 0 -> saved[2] [] c \in 40..47 \cup 100..107 -> BgColour(c) [] OTHER -> bg
    BY <1>10 DEF SetColour
  <2> HIDE DEF c
  <2>3. fg' \in Colours /\ bg' \in Colours
    BY <2>1, <2>2
  <2>4. i' \in Nat \ {0}
    <3>1. i' = i + 1
      BY <1>10 DEF SetColour, Taken
    <3>2. QED
      BY <1>0, <3>1
  <2>5. QED
    BY <1>10, <2>3, <2>4 DEF SetColour, TypeOK, maker, ghost
<1>11. CASE Draw
  <2>1. cell' \in [Rows -> [Columns -> Cells]]
    BY <1>11, DrawnCell, ScreenTypes DEF Draw, TypeOK
  <2>2. QED
    BY <1>11, <2>1 DEF Draw, TypeOK, maker, reader
<1>12. CASE Advance
  <2>1. pos' \in [x : 0 .. W, y : 0 .. H, then : {"wrap", "over", "next"}]
    <3>1. cx + 1 \in 0 .. W /\ cy \in 0 .. H
      BY <1>12 DEF Advance, CallSetpos, CursorNear, TypeOK
    <3>2. QED
      BY <1>12, <3>1 DEF Advance, CallSetpos
  <2>2. QED
    BY <1>12, <2>1 DEF Advance, CallSetpos, TypeOK, screen, ghost, maker, reader
<1>13. CASE SetX
  BY <1>13 DEF SetX, TypeOK, ghost, maker, reader
<1>14. CASE SetY
  BY <1>14 DEF SetY, TypeOK, ghost, maker, reader
<1>15. CASE Wrap
  <2>1. pos' \in [x : 0 .. W, y : 0 .. H, then : {"wrap", "over", "next"}]
    <3>1. CASE cx >= W
      <4>1. 0 \in 0 .. W /\ cy + 1 \in 0 .. H
        BY <1>15, <3>1 DEF Wrap, CallSetpos, CursorNear, TypeOK
      <4>2. QED
        BY <1>15, <3>1, <4>1 DEF Wrap, CallSetpos
    <3>2. CASE ~(cx >= W)
      BY <1>15, <3>2 DEF Wrap, TypeOK
    <3>3. QED
      BY <3>1, <3>2
  <2>2. QED
    BY <1>15, <2>1 DEF Wrap, CallSetpos, TypeOK, screen, ghost, maker, reader
<1>16. CASE Newline
  <2>1. pos' \in [x : 0 .. W, y : 0 .. H, then : {"wrap", "over", "next"}]
    <3>1. 0 \in 0 .. W /\ cy + 1 \in 0 .. H
      <4>1. cy < H /\ cy \in 0 .. H
        BY <1>16 DEF Newline, CallSetpos, CursorNear, Resting, TypeOK
      <4>2. QED
        BY <4>1
    <3>2. QED
      BY <1>16, <3>1 DEF Newline, CallSetpos
  <2>2. QED
    BY <1>16, <2>1 DEF Newline, CallSetpos, TypeOK, screen, maker, reader
<1>17. CASE Over
  BY <1>17 DEF Over, TypeOK, screen, ghost, maker, reader
<1>18. CASE Copy
  <2>1. cell' \in [Rows -> [Columns -> Cells]]
    BY <1>18, ScreenTypes DEF Copy, TypeOK
  <2>2. QED
    BY <1>18, <2>1 DEF Copy, TypeOK, ghost, maker, reader
<1>19. CASE ScrollBlank
  <2>1. cell' \in [Rows -> [Columns -> Cells]]
    BY <1>19, ScreenTypes DEF ScrollBlank, TypeOK
  <2>2. pos' \in [x : 0 .. W, y : 0 .. H, then : {"wrap", "over", "next"}]
    <3>1. 0 \in 0 .. W /\ H - 1 \in 0 .. H
      OBVIOUS
    <3>2. QED
      BY <1>19, <3>1 DEF ScrollBlank, CallSetpos
  <2>3. QED
    BY <1>19, <2>1, <2>2 DEF ScrollBlank, CallSetpos, TypeOK, ghost, maker, reader
<1>20. CASE Cls
  <2>1. hit' \in BOOLEAN /\ torn' \in BOOLEAN
    BY <1>20, Zenon DEF Cls
  <2>2. cx' \in 0 .. W /\ cy' \in 0 .. H
    BY <1>20 DEF Cls
  <2>3. QED
    BY <1>20, <2>1, <2>2 DEF Cls, TypeOK, maker
<1>21. CASE Key
  <2>1. cx' \in 0 .. W
    BY <1>21 DEF Key, Columns
  <2>2. QED
    BY <1>21, <2>1 DEF Key, Interrupted, TypeOK, Chars0, maker, reader
<1>22. QED
  BY <1>1, <1>2, <1>3, <1>4, <1>5, <1>6, <1>7, <1>8, <1>9, <1>10, <1>11, <1>12, <1>13,
     <1>14, <1>15, <1>16, <1>17, <1>18, <1>19, <1>20, <1>21, Steps

LEMMA NearKept == TypeOK /\ CursorNear /\ Next => CursorNear'
<1> SUFFICES ASSUME TypeOK, CursorNear, Next PROVE CursorNear'
  OBVIOUS
<1>0. /\ W \in Nat \ {0} /\ H \in Nat /\ H >= 2 /\ cx \in 0 .. W /\ cy \in 0 .. H
      /\ pos.x \in 0 .. W /\ pos.y \in 0 .. H /\ pos.then \in {"wrap", "over", "next"}
  BY SizesAre DEF TypeOK
<1>1. CASE Printf
  BY <1>1 DEF Printf, CursorNear, screen, Resting
<1>2. CASE Length
  BY <1>2 DEF Length, CursorNear, Resting, screen
<1>3. CASE Store
  BY <1>3 DEF Store, CursorNear, Resting, screen
<1>4. CASE Write
  BY <1>4 DEF Write, CursorNear, Resting, screen
<1>5. CASE WriteEnd
  BY <1>5 DEF WriteEnd, CursorNear, Resting
<1>6. CASE Look
  BY <1>6 DEF Look, CursorNear, Resting, screen
<1>7. CASE Special
  BY <1>7 DEF Special, CursorNear, Resting, screen
<1>8. CASE Escape
  BY <1>8 DEF Escape, CursorNear, Resting, screen
<1>9. CASE CopyCode
  BY <1>9 DEF CopyCode, CursorNear, Resting, screen
<1>10. CASE SetColour
  BY <1>10 DEF SetColour, CursorNear, Resting
<1>11. CASE Draw
  BY <1>11 DEF Draw, CursorNear, Resting
<1>12. CASE Advance
  BY <1>0, <1>12 DEF Advance, CallSetpos, CursorNear, screen, Resting
<1>13. CASE SetX
  <2>1. pc = "setx" /\ pc' = "sety" /\ cx' = pos.x /\ cy' = cy /\ pos' = pos
    BY <1>13 DEF SetX
  <2>2. CASE pos.then = "wrap"
    BY <1>0, <2>1, <2>2 DEF CursorNear, Resting
  <2>3. CASE pos.then = "over"
    BY <1>0, <2>1, <2>3 DEF CursorNear, Resting
  <2>4. CASE pos.then = "next"
    BY <1>0, <2>1, <2>4 DEF CursorNear, Resting
  <2>5. QED
    BY <1>0, <2>2, <2>3, <2>4
<1>14. CASE SetY
  <2>1. pc = "sety" /\ pc' = pos.then /\ cy' = pos.y /\ cx' = cx /\ pos' = pos
    BY <1>14 DEF SetY
  <2>2. CASE pos.then = "wrap"
    BY <1>0, <2>1, <2>2 DEF CursorNear, Resting
  <2>3. CASE pos.then = "over"
    BY <1>0, <2>1, <2>3 DEF CursorNear, Resting
  <2>4. CASE pos.then = "next"
    BY <1>0, <2>1, <2>4 DEF CursorNear, Resting
  <2>5. QED
    BY <1>0, <2>2, <2>3, <2>4
<1>15. CASE Wrap
  <2>1. cy < H /\ cx' = cx /\ cy' = cy
    BY <1>15 DEF Wrap, CallSetpos, CursorNear, screen, Resting
  <2>2. CASE cx >= W
    <3>1. pos'.x = 0 /\ pos'.then = "over" /\ pc' = "setx"
      BY <1>15, <2>2 DEF Wrap, CallSetpos
    <3>2. QED
      BY <1>0, <2>1, <3>1 DEF CursorNear, Resting
  <2>3. CASE ~(cx >= W)
    <3>1. pc' = "next" /\ cx < W
      BY <1>0, <1>15, <2>3 DEF Wrap
    <3>2. QED
      BY <1>0, <2>1, <3>1 DEF CursorNear, Resting
  <2>4. QED
    BY <2>2, <2>3
<1>16. CASE Newline
  BY <1>0, <1>16 DEF Newline, CallSetpos, CursorNear, screen, Resting
<1>17. CASE Over
  BY <1>0, <1>17 DEF Over, CursorNear, screen, Resting
<1>18. CASE Copy
  BY <1>18 DEF Copy, CursorNear, Resting
<1>19. CASE ScrollBlank
  BY <1>0, <1>19 DEF ScrollBlank, CallSetpos, CursorNear, Resting
<1>20. CASE Cls
  BY <1>0, <1>20 DEF Cls, CursorNear, Resting
<1>21. CASE Key
  <2>1. cx' < W /\ (cy < H => cy' < H) /\ UNCHANGED <<pc, pos>>
    BY <1>0, <1>21 DEF Key, Columns, Interrupted
  <2>2. QED
    BY <1>0, <2>1 DEF CursorNear, Resting
<1>22. QED
  BY <1>1, <1>2, <1>3, <1>4, <1>5, <1>6, <1>7, <1>8, <1>9, <1>10, <1>11, <1>12, <1>13,
     <1>14, <1>15, <1>16, <1>17, <1>18, <1>19, <1>20, <1>21, Steps

LEMMA ColoursKept == TypeOK /\ Coloured /\ Next => Coloured'
<1> SUFFICES ASSUME TypeOK, Coloured, Next PROVE Coloured'
  OBVIOUS
<1>1. CASE Printf
  BY <1>1 DEF Printf, Coloured, screen, Making
<1>2. CASE Length
  BY <1>2 DEF Length, Coloured, Making, screen
<1>3. CASE Store
  BY <1>3 DEF Store, Coloured, Making, screen
<1>4. CASE Write
  BY <1>4 DEF Write, Coloured, Making, screen
<1>5. CASE WriteEnd
  BY <1>5 DEF WriteEnd, Coloured, Making
<1>6. CASE Look
  BY <1>6 DEF Look, Coloured, Making, screen
<1>7. CASE Special
  BY <1>7 DEF Special, Coloured, Making, screen
<1>8. CASE Escape
  BY <1>8 DEF Escape, Coloured, Making, screen
<1>9. CASE CopyCode
  BY <1>9 DEF CopyCode, Coloured, Making, screen
<1>10. CASE SetColour
  BY <1>10 DEF SetColour, Coloured, Making
<1>11. CASE Draw
  BY <1>11 DEF Draw, Coloured, Making
<1>12. CASE Advance
  BY <1>12 DEF Advance, CallSetpos, Coloured, screen, Making
<1>13. CASE SetX
  BY <1>13 DEF SetX, Coloured, Making
<1>14. CASE SetY
  BY <1>14 DEF SetY, Coloured, TypeOK, Making
<1>15. CASE Wrap
  BY <1>15 DEF Wrap, CallSetpos, Coloured, screen, Making
<1>16. CASE Newline
  BY <1>16 DEF Newline, CallSetpos, Coloured, screen, Making
<1>17. CASE Over
  BY <1>17 DEF Over, Coloured, screen, Making
<1>18. CASE Copy
  BY <1>18 DEF Copy, Coloured, Making
<1>19. CASE ScrollBlank
  BY <1>19 DEF ScrollBlank, CallSetpos, Coloured, Making
<1>20. CASE Cls
  BY <1>20 DEF Cls, Coloured, Making
<1>21. CASE Key
  BY <1>21 DEF Key, Interrupted, Coloured, Making
<1>22. QED
  BY <1>1, <1>2, <1>3, <1>4, <1>5, <1>6, <1>7, <1>8, <1>9, <1>10, <1>11, <1>12, <1>13,
     <1>14, <1>15, <1>16, <1>17, <1>18, <1>19, <1>20, <1>21, Steps

LEMMA LeftKept == TypeOK /\ MoreLeft /\ Next => MoreLeft'
<1> SUFFICES ASSUME TypeOK, MoreLeft, Next PROVE MoreLeft'
  OBVIOUS
<1>1. CASE Printf
  <2>1. todo' = msg' /\ pc' = IF msg' = <<>> THEN "write" ELSE "length"
    BY <1>1 DEF Printf
  <2>2. QED
    BY <2>1 DEF MoreLeft
<1>2. CASE Store
  BY <1>2 DEF Store, MoreLeft
<1>3. CASE Length \/ Write \/ WriteEnd \/ Look \/ Special \/ Escape \/ CopyCode \/ SetColour
  BY <1>3 DEF Length, Write, WriteEnd, Look, Special, Escape, CopyCode, SetColour, MoreLeft, maker
<1>4. CASE Draw \/ Advance \/ SetX \/ SetY \/ Wrap \/ Newline \/ Over \/ Copy \/ ScrollBlank
  <2>1. pc' \notin {"length", "store"}
    BY <1>4 DEF Draw, Advance, SetX, SetY, Wrap, Newline, Over, Copy, ScrollBlank, CallSetpos, TypeOK
  <2>2. QED
    BY <2>1 DEF MoreLeft
<1>5. CASE Cls \/ Key
  BY <1>5 DEF Cls, Key, Interrupted, MoreLeft, maker
<1>6. QED
  BY <1>1, <1>2, <1>3, <1>4, <1>5, Steps

LEMMA PrintedKept == TypeOK /\ MoreLeft /\ Printed /\ Coded /\ Next => Printed'
<1> SUFFICES ASSUME TypeOK, MoreLeft, Printed, Coded, Next PROVE Printed'
  OBVIOUS
<1>0. /\ msg \in Seq(Tokens) /\ out \in Seq(Chars0) /\ buffer \in Seq(Chars0)
      /\ todo \in Seq(Tokens) /\ i \in Nat \ {0} /\ at \in Nat \ {0} /\ Len(buffer) \in Nat
      /\ At(i) \in Chars0 /\ (At(i) # NUL => i <= Len(buffer))
  BY AtType DEF TypeOK, Printed, Chars0
<1>1. CASE Printf
  <2>1. /\ msg' \in Messages /\ todo' = msg' /\ buffer' = <<>> /\ out' = <<>> /\ at' = 1
        /\ pc' = IF msg' = <<>> THEN "write" ELSE "length"
    BY <1>1 DEF Printf
  <2>2. /\ msg' \in Seq(Tokens) /\ <<>> \in Seq(Tokens) /\ <<>> \in Seq(Chars0)
        /\ Len(<<>>) = 0
    BY <2>1, ConsoleAssumption, EmptySeq
  <2>3. buffer' \o todo' = msg'
    BY <2>1, <2>2, ConcatEmptySeq
  <2>4. at' <= Len(buffer') + 1
    BY <2>1, <2>2
  <2>5. QED
    BY <2>1, <2>2, <2>3, <2>4 DEF Printed, Making
<1>2. CASE Length
  <2>1. /\ pc = "length" /\ pc' \in {"length", "store"}
        /\ UNCHANGED <<buffer, todo, msg, out, hit>>
        /\ IF At(at) = NUL THEN pc' = "store" /\ at' = at ELSE at' = at + 1 /\ pc' = "length"
    BY <1>2 DEF Length, reader, ghost
  <2>2. ASSUME ~hit
        PROVE  /\ out = <<>> /\ buffer \in Seq(Tokens) /\ buffer \o todo = msg
               /\ pc' = "length" => at' <= Len(buffer) + 1
               /\ pc' = "store" => at' = Len(buffer) + 1
    <3>1. out = <<>> /\ buffer \in Seq(Tokens) /\ buffer \o todo = msg /\ at <= Len(buffer) + 1
      BY <2>1, <2>2 DEF Printed, Making
    <3>2. at <= Len(buffer) => At(at) \in Tokens
      BY <1>0, <3>1, ElementOfSeq DEF At
    <3>3. at <= Len(buffer) => At(at) # NUL
      BY <3>2, NulIs
    <3>4. ~(at <= Len(buffer)) => At(at) = NUL
      BY DEF At
    <3>5. QED
      BY <1>0, <2>1, <3>1, <3>3, <3>4
  <2>3. QED
    BY <1>0, <2>1, <2>2 DEF Printed, Making
<1>3. CASE Store
  <2>1. /\ pc = "store" /\ pc' \in {"write", "length", "store"} /\ todo' = Tail(todo)
        /\ buffer' = Put(at, Head(todo)) /\ UNCHANGED <<msg, out, hit>>
        /\ pc' = "write" => todo' = <<>>
        /\ pc' = "length" => at' = 1
        /\ pc' = "store" => at' = at + 1
    BY <1>3 DEF Store, reader, ghost
  <2>2. /\ Head(todo) \in Tokens /\ Tail(todo) \in Seq(Tokens)
        /\ todo = <<Head(todo)>> \o Tail(todo)
    BY <1>0, <2>1 DEF MoreLeft
  <2>3. ASSUME ~hit
        PROVE  /\ out = <<>> /\ buffer' \in Seq(Tokens) /\ buffer' \o todo' = msg
               /\ Len(buffer') = at
    <3>1. out = <<>> /\ buffer \in Seq(Tokens) /\ buffer \o todo = msg /\ at = Len(buffer) + 1
      BY <2>1, <2>3 DEF Printed, Making
    <3>2. buffer' = Append(buffer, Head(todo))
      BY <1>0, <2>1, <2>2, <3>1, PutIs
    <3>3. buffer' \in Seq(Tokens) /\ Len(buffer') = at
      BY <2>2, <3>1, <3>2, AppendProperties
    <3>4. Append(buffer, Head(todo)) = buffer \o <<Head(todo)>>
      BY <2>2, <3>1, AppendIsConcat
    <3>5. <<Head(todo)>> \in Seq(Tokens)
      BY <2>2
    <3>6. (buffer \o <<Head(todo)>>) \o Tail(todo) = buffer \o (<<Head(todo)>> \o Tail(todo))
      BY <2>2, <3>1, <3>5, ConcatAssociative
    <3>7. buffer' \o todo' = buffer \o todo
      BY <2>1, <2>2, <3>2, <3>4, <3>6
    <3>8. QED
      BY <3>1, <3>3, <3>7
  <2>4. ~hit' => at' = 1 \/ at' = Len(buffer') + 1 \/ pc' = "write"
    BY <2>1, <2>3
  <2>5. ~hit' => (pc' = "length" => at' <= Len(buffer') + 1)
    <3>1. ~hit => Len(buffer') \in Nat
      BY <1>0, <2>3
    <3>2. QED
      BY <2>1, <3>1
  <2>6. QED
    BY <1>0, <2>1, <2>3, <2>5 DEF Printed, Making
<1>4. CASE Write
  <2>1. /\ pc = "write" /\ pc' = IF At(1) = NUL THEN "idle" ELSE "next"
        /\ i' = 1 /\ UNCHANGED <<buffer, msg, out, hit>>
    BY <1>4 DEF Write, ghost
  <2>2. ~hit => out = <<>> /\ buffer \in Seq(Tokens) /\ buffer = msg
    <3>1. ~hit => out = <<>> /\ buffer \in Seq(Tokens) /\ buffer \o todo = msg /\ todo = <<>>
      BY <2>1 DEF Printed, Making
    <3>2. QED
      BY <3>1, ConcatEmptySeq
  <2>3. CASE At(1) = NUL
    <3>1. ~hit => out = msg
      <4>1. SUFFICES ASSUME ~hit, buffer # <<>> PROVE FALSE
        BY <2>2
      <4>2. 1 <= Len(buffer) /\ buffer[1] \in Tokens
        BY <2>2, <4>1, EmptySeq, ElementOfSeq
      <4>3. QED
        BY <2>3, <4>2, NulIs DEF At
    <3>2. QED
      BY <1>0, <2>1, <2>3, <3>1 DEF Printed, Making
  <2>4. CASE At(1) # NUL
    <3>1. pc' = "next"
      BY <2>1, <2>4
    <3>2. ~hit => Len(out) = i' - 1 /\ i' - 1 <= Len(msg) /\ \A j \in 1 .. i' - 1 : out[j] = msg[j]
      BY <1>0, <2>1, <2>2
    <3>3. QED
      BY <1>0, <2>1, <2>2, <3>1, <3>2 DEF Printed, Making
  <2>5. QED
    BY <2>3, <2>4
<1>5. CASE WriteEnd
  <2>1. pc = "next" /\ pc' = "idle" /\ At(i) = NUL /\ UNCHANGED <<msg, out, hit>>
    BY <1>5 DEF WriteEnd, reader, ghost
  <2>2. ~hit => out = msg
    <3>1. SUFFICES ASSUME ~hit PROVE out = msg
      OBVIOUS
    <3>2. buffer = msg /\ Len(out) = i - 1 /\ i - 1 <= Len(msg) /\ \A j \in 1 .. i - 1 : out[j] = msg[j]
      BY <2>1, <3>1 DEF Printed, Making
    <3>3. ~(i <= Len(buffer))
      <4>1. i <= Len(buffer) => buffer[i] \in Tokens
        BY <1>0, <3>2, ElementOfSeq
      <4>2. QED
        BY <2>1, <4>1, NulIs DEF At
    <3>4. Len(out) = Len(msg)
      BY <1>0, <3>2, <3>3
    <3>5. msg \in Seq(Chars0)
      BY <1>0 DEF Chars0
    <3>6. QED
      BY <1>0, <3>2, <3>4, <3>5, SeqEqual
  <2>3. QED
    BY <1>0, <2>1, <2>2 DEF Printed, Making
<1>6. ASSUME pc \notin {"idle"} \cup Making, pc' \notin {"idle"} \cup Making,
             Taken(At(i)), ~hit => i <= Len(buffer), UNCHANGED <<buffer, msg, hit>>
      PROVE  Printed'
  <2>1. /\ i' = i + 1
        /\ out' \in Seq(Chars0) /\ Len(out') = Len(out) + 1
        /\ \A j \in 1 .. Len(out) : out'[j] = out[j]
        /\ out'[Len(out) + 1] = At(i)
    BY <1>0, <1>6, TakenIs
  <2>2. ASSUME ~hit
        PROVE  /\ buffer = msg /\ Len(out') = i' - 1 /\ i' - 1 <= Len(msg)
               /\ \A j \in 1 .. i' - 1 : out'[j] = msg[j]
    <3>1. buffer = msg /\ Len(out) = i - 1 /\ i - 1 <= Len(msg) /\ \A j \in 1 .. i - 1 : out[j] = msg[j]
      BY <1>6, <2>2 DEF Printed
    <3>2. \A j \in 1 .. i : j \in 1 .. i - 1 \/ j = i
      BY <1>0
    <3>3. At(i) = msg[i]
      BY <1>6, <2>2, <3>1 DEF At
    <3>4. out'[i] = msg[i] /\ \A j \in 1 .. i - 1 : out'[j] = msg[j]
      <4>1. Len(out) + 1 = i
        BY <1>0, <3>1
      <4>2. out'[i] = At(i)
        BY <2>1, <4>1
      <4>3. QED
        BY <2>1, <3>1, <3>3, <4>2
    <3>5. i' - 1 = i /\ Len(out') = i /\ i <= Len(msg)
      BY <1>0, <1>6, <2>1, <2>2, <3>1
    <3>6. QED
      BY <3>1, <3>2, <3>4, <3>5
  <2>3. QED
    BY <1>0, <1>6, <2>1, <2>2 DEF Printed, Making
<1>7. ASSUME pc \notin {"idle"} \cup Making, pc' \notin {"idle"} \cup Making,
             UNCHANGED <<i, out, buffer, msg, hit>>
      PROVE  Printed'
  BY <1>0, <1>7 DEF Printed, Making
<1>8. CASE Look
  <2>1. pc = "next" /\ pc' = "char" /\ UNCHANGED <<buffer, msg, hit>>
    BY <1>8 DEF Look, ghost
  <2>2. \/ At(i) # NUL /\ Taken(At(i))
        \/ UNCHANGED <<i, out>>
    BY <1>8 DEF Look
  <2>3. QED
    BY <1>0, <1>6, <1>7, <2>1, <2>2 DEF Making
<1>9. CASE Special
  BY <1>7, <1>9 DEF Special, ghost, Making
<1>10. CASE Escape
  <2>1. pc = "char" /\ pc' \in {"code", "next"} /\ UNCHANGED <<buffer, msg, hit>>
    BY <1>10 DEF Escape, ghost
  <2>2. \/ At(i) = LB /\ Taken(At(i))
        \/ UNCHANGED <<i, out>>
    BY <1>10 DEF Escape
  <2>3. LB # NUL
    BY NulIs
  <2>4. QED
    BY <1>0, <1>6, <1>7, <2>1, <2>2, <2>3 DEF Making
<1>11. CASE CopyCode
  <2>1. pc = "code" /\ pc' \in {"code", "overrun"} /\ UNCHANGED <<buffer, msg, hit>>
    BY <1>11 DEF CopyCode, ghost
  <2>2. \/ Taken(At(i))
        \/ UNCHANGED <<i, out>>
    BY <1>11 DEF CopyCode
  <2>3. ~hit => i <= Len(buffer)
    <3>1. SUFFICES ASSUME ~hit PROVE i <= Len(buffer)
      OBVIOUS
    <3>2. PICK k \in Nat : k >= i /\ At(k) = M
      BY <2>1, <3>1 DEF Coded
    <3>3. M # NUL
      BY NulIs
    <3>4. k <= Len(buffer)
      BY <3>2, <3>3 DEF At
    <3>5. QED
      BY <1>0, <3>2, <3>4
  <2>4. QED
    BY <1>6, <1>7, <2>1, <2>2, <2>3 DEF Making
<1>12. CASE SetColour
  <2>1. pc = "code" /\ pc' = "next" /\ At(i) = M /\ Taken(At(i)) /\ UNCHANGED <<buffer, msg, hit>>
    BY <1>12 DEF SetColour, ghost
  <2>2. M # NUL
    BY NulIs
  <2>3. QED
    BY <1>0, <1>6, <2>1, <2>2 DEF Making
<1>13. CASE Draw
  BY <1>7, <1>13 DEF Draw, reader, Making
<1>14. CASE Advance
  BY <1>7, <1>14 DEF Advance, CallSetpos, reader, ghost, Making
<1>15. CASE SetX \/ SetY
  <2>1. pc' \in {"sety", "wrap", "over", "next"}
    BY <1>15 DEF SetX, SetY, TypeOK
  <2>2. QED
    BY <1>7, <1>15, <2>1 DEF SetX, SetY, reader, ghost, Making
<1>16. CASE Wrap
  BY <1>7, <1>16 DEF Wrap, CallSetpos, reader, ghost, Making
<1>17. CASE Newline
  BY <1>7, <1>17 DEF Newline, CallSetpos, reader, Making
<1>18. CASE Over
  BY <1>7, <1>18 DEF Over, reader, ghost, Making
<1>19. CASE Copy \/ ScrollBlank
  BY <1>7, <1>19 DEF Copy, ScrollBlank, CallSetpos, reader, ghost, Making
<1>20. CASE Cls
  <2>1. pc = "idle" /\ pc' = "idle" /\ msg' = <<>> /\ out' = <<>>
    BY <1>20 DEF Cls
  <2>2. <<>> \in Seq(Tokens) /\ <<>> \in Seq(Chars0)
    BY EmptySeq
  <2>3. QED
    BY <2>1, <2>2 DEF Printed, Making
<1>21. CASE Key
  <2>1. /\ UNCHANGED <<pc, todo, msg, out, i>>
        /\ (pc = "idle" \/ hit') /\ (pc = "idle" => hit' = hit)
    BY <1>21 DEF Key, Interrupted, maker, reader
  <2>2. QED
    BY <1>0, <2>1 DEF Printed, Making
<1>22. QED
  BY <1>1, <1>2, <1>3, <1>4, <1>5, <1>8, <1>9, <1>10, <1>11, <1>12, <1>13, <1>14, <1>15,
     <1>16, <1>17, <1>18, <1>19, <1>20, <1>21, Steps

\* While no key takes the m away it is within the four characters that the array holds;
\* in the buffer that a key leaves there is none where the driver reads on.
LEMMA CodedKept == TypeOK /\ Printed /\ Coded /\ Next => Coded'
<1> SUFFICES ASSUME TypeOK, Printed, Coded, Next PROVE Coded'
  OBVIOUS
<1>0. i \in Nat \ {0} /\ Len(code) \in Nat /\ Len(code) <= 4 /\ buffer \in Seq(Chars0)
  BY DEF TypeOK, Chars0
<1>1. ASSUME pc \notin {"code", "overrun"}, pc' \notin {"code", "overrun"}, cut' = cut
      PROVE  Coded'
  BY <1>1 DEF Coded
<1>2. CASE Escape
  <2>1. /\ pc = "char" /\ pc' \in {"code", "next"} /\ ~cut /\ ~cut'
        /\ UNCHANGED <<buffer, hit>>
    BY <1>2 DEF Escape, ghost, Coded
  <2>2. CASE pc' = "next"
    BY <2>1, <2>2 DEF Coded
  <2>3. CASE pc' = "code"
    <3>1. code' = <<>> /\ i' = i + 1 /\ \E k \in 2 .. 4 : At(i + k) = M
      BY <1>2, <2>1, <2>3 DEF Escape, Taken
    <3>2. PICK k \in 2 .. 4 : At(i + k) = M
      BY <3>1
    <3>3. PICK l \in Nat : l = i + k
      BY <1>0
    <3>4. At(l) = M /\ At(l)' = At(l)
      BY <2>1, <3>2, <3>3 DEF At
    <3>5. Len(code') = 0
      BY <3>1, EmptySeq
    <3>6. i' \in Nat /\ i' >= 2 /\ l >= i' /\ l + Len(code') <= i' + 3
      BY <1>0, <3>1, <3>3, <3>5
    <3>7. \E e \in Nat : e >= i' /\ e + Len(code') <= i' + 3 /\ At(e)' = M
      BY <3>4, <3>6
    <3>8. QED
      BY <2>1, <2>3, <3>6, <3>7 DEF Coded
  <2>4. QED
    BY <2>1, <2>2, <2>3
<1>3. CASE CopyCode
  <2>1. pc = "code" /\ At(i) # M /\ UNCHANGED <<buffer, hit, cut>> /\ i >= 2
    BY <1>3 DEF CopyCode, ghost, Coded
  <2>2. \A l : At(l)' = At(l)
    BY <2>1 DEF At
  <2>3. ~cut => \E k \in Nat : k >= i + 1 /\ k + Len(code) <= i + 3 /\ At(k) = M
    <3>1. SUFFICES ASSUME ~cut PROVE \E k \in Nat : k >= i + 1 /\ k + Len(code) <= i + 3 /\ At(k) = M
      OBVIOUS
    <3>2. PICK k \in Nat : k >= i /\ k + Len(code) <= i + 3 /\ At(k) = M
      BY <2>1, <3>1 DEF Coded
    <3>3. k # i
      BY <2>1, <3>2
    <3>4. k >= i + 1
      BY <1>0, <3>2, <3>3
    <3>5. QED
      BY <3>2, <3>4
  <2>4. CASE Len(code) < 4
    <3>1. i' = i + 1 /\ pc' = "code" /\ code' = Append(code, At(i))
      BY <1>3, <2>1, <2>4 DEF CopyCode, Taken
    <3>2. Len(code') = Len(code) + 1
      BY <1>0, <3>1, AtType, AppendProperties DEF TypeOK, Chars0
    <3>3. ~cut => \E k \in Nat : k >= i' /\ k + Len(code') <= i' + 3 /\ At(k)' = M
      <4>1. \A k \in Nat : k >= i + 1 /\ k + Len(code) <= i + 3 =>
                             k >= i' /\ k + Len(code') <= i' + 3
        BY <1>0, <3>1, <3>2
      <4>2. QED
        BY <2>2, <2>3, <4>1
    <3>4. i' >= 2
      BY <1>0, <2>1, <3>1
    <3>5. QED
      BY <2>1, <3>1, <3>3, <3>4 DEF Coded
  <2>5. CASE ~(Len(code) < 4)
    <3>1. pc' = "overrun"
      BY <1>3, <2>5 DEF CopyCode
    <3>2. cut
      BY <1>0, <2>3, <2>5
    <3>3. QED
      BY <2>1, <3>1, <3>2 DEF Coded
  <2>6. QED
    BY <2>4, <2>5
<1>4. CASE SetColour
  <2>1. pc = "code" /\ pc' = "next" /\ At(i) = M /\ cut' = cut /\ i >= 2
    BY <1>4 DEF SetColour, ghost, Coded
  <2>2. ~cut
    <3>1. SUFFICES ASSUME cut PROVE FALSE
      OBVIOUS
    <3>2. Len(buffer) = 1 /\ ~(i <= Len(buffer))
      <4>1. Len(buffer) = 1
        BY <3>1 DEF Coded
      <4>2. QED
        BY <1>0, <2>1, <4>1
    <3>3. At(i) = NUL /\ M # NUL
      BY <3>2, NulIs DEF At
    <3>4. QED
      BY <2>1, <3>3
  <2>3. QED
    BY <2>1, <2>2 DEF Coded
<1>5. CASE Printf \/ Length \/ Store \/ Write \/ WriteEnd \/ Look \/ Special
  BY <1>1, <1>5 DEF Printf, Length, Store, Write, WriteEnd, Look, Special, ghost
<1>6. CASE Draw \/ Advance \/ SetX \/ Wrap \/ Newline \/ Over \/ Copy \/ ScrollBlank \/ Cls
  BY <1>1, <1>6
     DEF Draw, Advance, SetX, Wrap, Newline, Over, Copy, ScrollBlank, CallSetpos, Cls, ghost
<1>7. CASE SetY
  <2>1. pc = "sety" /\ pc' \in {"wrap", "over", "next"} /\ cut' = cut
    BY <1>7 DEF SetY, TypeOK, ghost
  <2>2. QED
    BY <1>1, <2>1
<1>8. CASE Key
  <2>1. /\ pc # "overrun" /\ UNCHANGED <<pc, i, code>>
        /\ \/ buffer' = buffer /\ cut' = cut
           \/ Len(buffer') = 1 /\ cut' = (cut \/ pc = "code")
        /\ pc = "idle" \/ hit'
    BY <1>8, Zenon DEF Key, Interrupted, reader
  <2>2. CASE buffer' = buffer /\ cut' = cut
    <3>1. \A l : At(l)' = At(l)
      BY <2>2 DEF At
    <3>2. QED
      BY <2>1, <2>2, <3>1 DEF Coded
  <2>3. CASE Len(buffer') = 1 /\ cut' = (cut \/ pc = "code")
    <3>1. CASE pc = "code"
      BY <2>1, <2>3, <3>1 DEF Coded
    <3>2. CASE pc # "code"
      BY <2>1, <2>3, <3>2 DEF Coded
    <3>3. QED
      BY <3>1, <3>2
  <2>4. QED
    BY <2>1, <2>2, <2>3
<1>9. QED
  BY <1>2, <1>3, <1>4, <1>5, <1>6, <1>7, <1>8, Steps

\* Nothing moves on the paper while only the state of the writer changes.
LEMMA MirroredSame ==
  ASSUME Mirrored, UNCHANGED <<paper, pen, torn, cell, cx, cy>>,
         AtRest, AtRest'
  PROVE  Mirrored'
BY DEF Mirrored, AtRest

LEMMA MirroredKept == TypeOK /\ CursorNear /\ Mirrored /\ Next => Mirrored'
<1> SUFFICES ASSUME TypeOK, CursorNear, Mirrored, Next PROVE Mirrored'
  OBVIOUS
<1>0. /\ W \in Nat \ {0} /\ H \in Nat /\ H >= 2 /\ cx \in 0 .. W /\ cy \in 0 .. H
      /\ pos.x \in 0 .. W /\ pos.y \in 0 .. H /\ pos.then \in {"wrap", "over", "next"}
      /\ cell \in [Rows -> [Columns -> Cells]] /\ torn \in BOOLEAN
      /\ OnPaper(paper, pen)
  BY SizesAre DEF TypeOK, Mirrored
<1>a. ASSUME pc \in Resting \cup {"advance"} PROVE cx \in Columns /\ cy \in Rows
  <2>1. cx \in Nat /\ cx < W /\ cy \in Nat /\ cy < H
    BY <1>0, <1>a DEF CursorNear, Resting
  <2>2. QED
    BY <1>0, <2>1 DEF Columns, Rows
<1>1. CASE Printf \/ Length \/ Store \/ Write \/ Look \/ Special \/ Escape
  <2>1. AtRest /\ AtRest' /\ UNCHANGED <<paper, pen, torn, cell, cx, cy>>
    BY <1>1 DEF Printf, Length, Store, Write, Look, Special, Escape, screen, ghost, AtRest
  <2>2. QED
    BY <2>1, MirroredSame
<1>2. CASE WriteEnd
  BY <1>2, MirroredSame DEF WriteEnd, ghost, AtRest
<1>3. CASE CopyCode
  <2>1. pc = "code" /\ pc' \in {"code", "overrun"} /\ UNCHANGED <<paper, pen, torn, cell, cx, cy>>
    BY <1>3 DEF CopyCode, screen, ghost
  <2>2. CASE pc' = "code"
    BY <2>1, <2>2, MirroredSame DEF AtRest
  <2>3. CASE pc' = "overrun"
    BY <2>1, <2>3 DEF Mirrored, AtRest
  <2>4. QED
    BY <2>1, <2>2, <2>3
<1>4. CASE SetColour
  BY <1>4, MirroredSame DEF SetColour, ghost, AtRest
<1>5. CASE Draw
  <2>1. /\ pc = "char" /\ pc' = "advance" /\ cell' = Drawn(cell, cx, cy, ch)
        /\ UNCHANGED <<cx, cy, torn>>
        /\ torn => paper' = paper /\ pen' = pen
        /\ ~torn => PaperPut(ch)
    BY <1>5 DEF Draw, PaperSame
  <2>2. CASE torn
    BY <1>0, <2>1, <2>2 DEF Mirrored
  <2>3. CASE ~torn
    <3>1. cx \in Columns /\ cy \in Rows /\ ch \in Cells /\ Follows(cell, paper, pen, cx, cy)
      BY <1>5, <1>a, <2>1, <2>3, DrawnCell DEF Mirrored, AtRest, Resting
    <3>2. OnPaper(paper', pen') /\ Follows(Drawn(cell, cx, cy, ch), paper', pen', cx + 1, cy)
      BY <1>0, <2>1, <2>3, <3>1, PutFollows
    <3>3. Follows(cell', paper', pen', cx' + 1, cy')
      BY <2>1, <3>2
    <3>4. QED
      BY <2>1, <3>2, <3>3 DEF Mirrored, AtRest
  <2>4. QED
    BY <2>2, <2>3
<1>6. CASE Advance
  <2>1. /\ pc = "advance" /\ pc' = "setx" /\ pos'.x = cx + 1 /\ pos'.y = cy
        /\ UNCHANGED <<cell, paper, pen, torn>>
    BY <1>6 DEF Advance, CallSetpos, screen, ghost
  <2>2. ~torn => Follows(cell', paper', pen', pos'.x, pos'.y)
    BY <2>1 DEF Mirrored
  <2>3. QED
    BY <2>1, <2>2 DEF Mirrored, AtRest
<1>7. CASE SetX
  <2>1. pc = "setx" /\ pc' = "sety" /\ cx' = pos.x /\ UNCHANGED <<cell, paper, pen, torn, pos>>
    BY <1>7 DEF SetX, ghost
  <2>2. QED
    BY <2>1 DEF Mirrored, AtRest
<1>8. CASE SetY
  <2>1. /\ pc = "sety" /\ pc' \in {"wrap", "over", "next"} /\ cy' = pos.y
        /\ UNCHANGED <<cx, cell, paper, pen, torn>>
    BY <1>0, <1>8 DEF SetY, ghost
  <2>2. QED
    BY <2>1 DEF Mirrored, AtRest
<1>9. CASE Wrap
  <2>1. pc = "wrap" /\ cy \in Nat /\ cy < H /\ UNCHANGED <<cx, cy, cell, paper, pen, torn>>
    BY <1>0, <1>9 DEF Wrap, CallSetpos, screen, ghost, CursorNear
  <2>2. ~torn => Follows(cell, paper, pen, cx, cy)
    BY <2>1 DEF Mirrored
  <2>3. CASE cx >= W
    <3>1. pc' = "setx" /\ pos'.x = 0 /\ pos'.y = cy + 1
      BY <1>9, <2>3 DEF Wrap, CallSetpos
    <3>2. ~torn => Follows(cell, paper, pen, 0, cy + 1)
      <4>1. SUFFICES ASSUME ~torn PROVE Follows(cell, paper, pen, 0, cy + 1)
        OBVIOUS
      <4>2. pen.top \in Nat
        BY <1>0 DEF OnPaper
      <4>3. CASE cy + 1 < H
        <5>1. Match(cell, paper, pen.top) /\ pen.x = 0 /\ pen.y = pen.top + cy + 1
          BY <1>0, <2>1, <2>2, <2>3, <4>1, <4>3 DEF Follows
        <5>2. pen.y = pen.top + (cy + 1)
          BY <2>1, <4>2, <5>1
        <5>3. QED
          BY <1>0, <4>3, <5>1, <5>2 DEF Follows
      <4>4. CASE ~(cy + 1 < H)
        <5>1. Lower(cell, paper, pen.top) /\ pen.x = 0 /\ pen.y = pen.top + H - 1
          BY <1>0, <2>1, <2>2, <2>3, <4>1, <4>4 DEF Follows
        <5>2. ~(cy + 1 + 1 < H)
          BY <1>0, <2>1, <4>4
        <5>3. QED
          BY <4>4, <5>1, <5>2 DEF Follows
      <4>5. QED
        BY <4>3, <4>4
    <3>3. ~torn' => Follows(cell', paper', pen', pos'.x, pos'.y)
      BY <2>1, <3>1, <3>2
    <3>4. OnPaper(paper', pen')
      BY <1>0, <2>1
    <3>5. QED
      BY <3>1, <3>3, <3>4 DEF Mirrored, AtRest
  <2>4. CASE ~(cx >= W)
    <3>1. pc' = "next"
      BY <1>9, <2>4 DEF Wrap
    <3>2. QED
      BY <1>0, <2>1, <2>2, <3>1 DEF Mirrored, AtRest
  <2>5. QED
    BY <2>3, <2>4
<1>10. CASE Newline
  <2>1. /\ pc = "char" /\ pc' = "setx" /\ pos'.x = 0 /\ pos'.y = cy + 1
        /\ UNCHANGED <<cx, cy, cell, torn>>
        /\ torn => paper' = paper /\ pen' = pen
        /\ ~torn => PaperNewline
    BY <1>10 DEF Newline, CallSetpos, PaperSame, screen
  <2>2. CASE torn
    BY <1>0, <2>1, <2>2 DEF Mirrored
  <2>3. CASE ~torn
    <3>1. cx \in Columns /\ cy \in Rows /\ Follows(cell, paper, pen, cx, cy)
      BY <1>a, <2>1, <2>3 DEF Mirrored, AtRest, Resting
    <3>2. OnPaper(paper', pen') /\ Follows(cell, paper', pen', 0, cy + 1)
      BY <1>0, <2>1, <2>3, <3>1, NewlineFollows
    <3>3. Follows(cell', paper', pen', pos'.x, pos'.y)
      BY <2>1, <3>2
    <3>4. QED
      BY <2>1, <3>2, <3>3 DEF Mirrored, AtRest
  <2>4. QED
    BY <2>2, <2>3
<1>11. CASE Over
  <2>1. /\ pc = "over" /\ pc' = IF cy >= H THEN "copy" ELSE "next"
        /\ UNCHANGED <<cx, cy, cell, paper, pen, torn>>
    BY <1>11 DEF Over, screen, ghost
  <2>2. QED
    BY <2>1 DEF Mirrored, AtRest
<1>12. CASE Copy
  <2>1. /\ pc = "copy" /\ pc' = "blank" /\ cell' = Copied(cell)
        /\ UNCHANGED <<cx, cy, paper, pen, torn>>
    BY <1>12 DEF Copy, ghost
  <2>2. ASSUME ~torn
        PROVE  /\ \A r \in Rows \ {0, H - 1} : Copied(cell)[r] = paper[pen.top + r + 1]
               /\ paper[pen.top + H] = Blank
               /\ pen.x = 0 /\ pen.y = pen.top + H - 1
    <3>1. Lower(cell, paper, pen.top) /\ pen.x = 0 /\ pen.y = pen.top + H - 1
      <4>1. Follows(cell, paper, pen, cx, cy) /\ cy >= H
        BY <2>1, <2>2 DEF Mirrored
      <4>2. ~(cy < H) /\ ~(cy + 1 < H)
        BY <1>0, <4>1
      <4>3. QED
        BY <4>1, <4>2 DEF Follows
    <3>2. ASSUME NEW r \in Rows \ {0, H - 1} PROVE Copied(cell)[r] = paper[pen.top + r + 1]
      <4>1. r \in Nat /\ r < H - 1 /\ r + 1 \in Rows \ {0}
        BY <1>0 DEF Rows
      <4>2. Copied(cell)[r] = cell[r + 1] /\ cell[r + 1] = paper[pen.top + (r + 1)]
        BY <3>1, <4>1 DEF Copied, Lower
      <4>3. pen.top + (r + 1) = pen.top + r + 1
        BY <1>0, <4>1 DEF OnPaper
      <4>4. QED
        BY <4>2, <4>3
    <3>3. QED
      BY <3>1, <3>2 DEF Lower
  <2>3. QED
    BY <1>0, <2>1, <2>2 DEF Mirrored, AtRest
<1>13. CASE ScrollBlank
  <2>1. /\ pc = "blank" /\ pc' = "setx" /\ cell' = Blanked(cell)
        /\ pos'.x = 0 /\ pos'.y = H - 1
        /\ UNCHANGED <<cx, cy, paper, pen, torn>>
    BY <1>13 DEF ScrollBlank, CallSetpos, ghost
  <2>2. ASSUME ~torn PROVE Follows(Blanked(cell), paper, pen, 0, H - 1)
    <3>1. /\ \A r \in Rows \ {0, H - 1} : cell[r] = paper[pen.top + r + 1]
          /\ paper[pen.top + H] = Blank
          /\ pen.x = 0 /\ pen.y = pen.top + H - 1 /\ pen.top \in Nat
      BY <1>0, <2>1, <2>2 DEF Mirrored, OnPaper
    <3>2. ASSUME NEW r \in Rows \ {0} PROVE Blanked(cell)[r] = paper[pen.top + r + 1]
      <4>1. CASE r = H - 1
        <5>1. Blanked(cell)[r] = Blank
          BY <1>0, <4>1 DEF Blanked
        <5>2. pen.top + r + 1 = pen.top + H
          BY <1>0, <3>1, <4>1
        <5>3. QED
          BY <3>1, <5>1, <5>2
      <4>2. CASE r # H - 1
        <5>1. Blanked(cell)[r] = cell[r]
          BY <1>0, <4>2 DEF Blanked
        <5>2. QED
          BY <3>1, <4>2, <5>1
      <4>3. QED
        BY <4>1, <4>2
    <3>3. Match(Blanked(cell), paper, pen.top)
      BY <3>2 DEF Match
    <3>4. pen.y = pen.top + (H - 1)
      BY <1>0, <3>1
    <3>5. 0 < W /\ H - 1 < H
      BY <1>0
    <3>6. QED
      BY <3>1, <3>3, <3>4, <3>5 DEF Follows
  <2>3. OnPaper(paper', pen') /\ (~torn' => Follows(cell', paper', pen', pos'.x, pos'.y))
    BY <1>0, <2>1, <2>2
  <2>4. QED
    BY <2>1, <2>3 DEF Mirrored, AtRest
<1>14. CASE Cls
  <2>1. /\ cx' = 0 /\ cy' = 1 /\ pc' = "idle" /\ cell' = cell
        /\ paper' = [r \in 1 .. H |-> cell[r - 1]]
        /\ pen' = [x |-> 0, y |-> 1, top |-> 0]
    BY <1>14 DEF Cls
  <2>2. \A r \in 1 .. H : r - 1 \in Rows
    BY <1>0 DEF Rows
  <2>3. \A r \in 1 .. H : cell[r - 1] \in [Columns -> Cells]
    BY <1>0, <2>2
  <2>4. paper' \in Seq([Columns -> Cells]) /\ Len(paper') = H
    BY <1>0, <2>1, <2>3
  <2>5. OnPaper(paper', pen')
    <3>1. pen' \in [x : Columns, y : Nat, top : Nat] /\ pen'.top = 0 /\ pen'.y = 1
      BY <1>0, <2>1 DEF Columns
    <3>2. QED
      BY <1>0, <2>4, <3>1 DEF OnPaper
  <2>6. Match(cell, paper', 0)
    <3>1. ASSUME NEW r \in Rows \ {0} PROVE cell[r] = paper'[0 + r + 1]
      <4>1. 0 + r + 1 \in 1 .. H /\ (0 + r + 1) - 1 = r
        BY <1>0 DEF Rows
      <4>2. QED
        BY <2>1, <4>1
    <3>2. QED
      BY <3>1 DEF Match
  <2>7. Follows(cell', paper', pen', cx', cy')
    <3>1. pen'.top = 0 /\ pen'.x = 0 /\ pen'.y = 0 + 1 /\ 0 < W /\ 1 < H
      BY <1>0, <2>1
    <3>2. QED
      BY <2>1, <2>6, <3>1 DEF Follows
  <2>8. QED
    BY <2>1, <2>5, <2>7 DEF Mirrored, AtRest
<1>15. ASSUME NEW g \in Typed, KeyChar(g) PROVE Mirrored'
  <2>1. /\ Key /\ pc' = pc /\ pos' = pos
        /\ torn' => paper' = paper /\ pen' = pen
        /\ ~torn' => PaperPut(g)
        /\ LET p == PutAt(cx, cy, g) IN cx' = p.x /\ cy' = p.y /\ cell' = Redrawn(p.s)
    BY <1>15, KeyIs DEF KeyChar, Interrupted, PaperSame
  <2>2. CASE torn'
    BY <1>0, <2>1, <2>2 DEF Mirrored
  <2>3. CASE ~torn'
    <3>1. AtRest /\ torn' = torn /\ g \in Cells
      BY <2>1, <2>3, ConsoleAssumption DEF Key, Cells
    <3>2. cx \in Columns /\ cy \in Rows /\ Follows(cell, paper, pen, cx, cy)
      BY <1>a, <2>3, <3>1 DEF Mirrored, AtRest, Resting
    <3> DEFINE s == Drawn(cell, cx, cy, g)
    <3>3. s \in [Rows -> [Columns -> Cells]] /\ Blanked(Copied(s)) \in [Rows -> [Columns -> Cells]]
      BY <1>0, <3>1, ScreenTypes
    <3>4. OnPaper(paper', pen') /\ Follows(s, paper', pen', cx + 1, cy)
      BY <1>0, <2>1, <2>3, <3>1, <3>2, PutFollows
    <3>5. PutAt(cx, cy, g) =
            IF cx + 1 < W THEN [x |-> cx + 1, y |-> cy, s |-> s]
            ELSE IF cy + 1 < H THEN [x |-> 0, y |-> cy + 1, s |-> s]
            ELSE [x |-> 0, y |-> H - 1, s |-> Blanked(Copied(s))]
      BY DEF PutAt
    <3>6. cx \in Nat /\ cy \in Nat /\ cx < W /\ cy < H
      BY <1>0, <3>2 DEF Columns, Rows
    <3> HIDE DEF s
    <3>7. Follows(cell', paper', pen', cx', cy')
      <4>0. pen'.top \in Nat
        BY <3>4 DEF OnPaper
      <4>1. CASE cx + 1 < W
        <5>1. cx' = cx + 1 /\ cy' = cy /\ cell' = Redrawn(s)
          BY <2>1, <3>5, <4>1
        <5>2. Match(s, paper', pen'.top) /\ pen'.x = cx + 1 /\ pen'.y = pen'.top + cy
          BY <3>4, <3>6, <4>1 DEF Follows
        <5>3. Match(Redrawn(s), paper', pen'.top)
          BY <3>3, <5>2, RedrawMatches
        <5>4. QED
          BY <3>6, <4>1, <5>1, <5>2, <5>3 DEF Follows
      <4>2. CASE ~(cx + 1 < W) /\ cy + 1 < H
        <5>1. cx' = 0 /\ cy' = cy + 1 /\ cell' = Redrawn(s)
          BY <2>1, <3>5, <4>2
        <5>2. Match(s, paper', pen'.top) /\ pen'.x = 0 /\ pen'.y = pen'.top + cy + 1
          BY <3>4, <3>6, <4>2 DEF Follows
        <5>3. Match(Redrawn(s), paper', pen'.top)
          BY <3>3, <5>2, RedrawMatches
        <5>4. pen'.y = pen'.top + (cy + 1)
          BY <3>6, <4>0, <5>2
        <5>5. QED
          BY <1>0, <3>6, <4>2, <5>1, <5>2, <5>3, <5>4 DEF Follows
      <4>3. CASE ~(cx + 1 < W) /\ ~(cy + 1 < H)
        <5>1. cx' = 0 /\ cy' = H - 1 /\ cell' = Redrawn(Blanked(Copied(s)))
          BY <2>1, <3>5, <4>3
        <5>2. Lower(s, paper', pen'.top) /\ pen'.x = 0 /\ pen'.y = pen'.top + H - 1
          BY <3>4, <3>6, <4>3 DEF Follows
        <5>3. Match(Redrawn(Blanked(Copied(s))), paper', pen'.top)
          BY <3>3, <4>0, <5>2, ScrollMatches, RedrawMatches
        <5>4. pen'.y = pen'.top + (H - 1) /\ 0 < W /\ H - 1 < H
          BY <1>0, <4>0, <5>2
        <5>5. QED
          BY <5>1, <5>2, <5>3, <5>4 DEF Follows
      <4>4. QED
        BY <4>1, <4>2, <4>3
    <3>8. QED
      BY <2>1, <3>1, <3>4, <3>7 DEF Mirrored, AtRest
  <2>4. QED
    BY <2>2, <2>3
<1>16. CASE KeyDelete
  <2>1. /\ Key /\ pc' = pc /\ pos' = pos
        /\ torn' => paper' = paper /\ pen' = pen
        /\ ~torn' => PaperDelete
        /\ LET p == DeleteAt(cx, cy) IN cx' = p.x /\ cy' = p.y /\ cell' = Redrawn(p.s)
    BY <1>16, KeyIs DEF KeyDelete, Interrupted, PaperSame
  <2>2. CASE torn'
    BY <1>0, <2>1, <2>2 DEF Mirrored
  <2>3. CASE ~torn'
    <3>1. AtRest /\ torn' = torn
      BY <2>1, <2>3 DEF Key
    <3>2. /\ cx \in Columns /\ cy \in Rows /\ Follows(cell, paper, pen, cx, cy)
          /\ cx \in Nat /\ cy \in Nat /\ cx < W /\ cy < H
      BY <1>0, <1>a, <2>3, <3>1 DEF Mirrored, AtRest, Resting, Columns, Rows
    <3>3. /\ Match(cell, paper, pen.top) /\ pen.x = cx /\ pen.y = pen.top + cy
          /\ pen \in [x : Columns, y : Nat, top : Nat] /\ pen.top \in Nat
          /\ Len(paper) = pen.top + H
      BY <1>0, <3>2 DEF Follows, OnPaper
    <3>4. ASSUME NEW x \in Columns, NEW y \in Rows,
                 paper' = Inked(x, pen.top + y, SPACE), pen' = [pen EXCEPT !.x = x, !.y = pen.top + y],
                 cx' = x, cy' = y, cell' = Redrawn(Drawn(cell, x, y, SPACE))
          PROVE  OnPaper(paper', pen') /\ Follows(cell', paper', pen', cx', cy')
      <4>1. /\ paper' \in Seq([Columns -> Cells]) /\ Len(paper') = Len(paper)
            /\ Match(Drawn(cell, x, y, SPACE), paper', pen.top)
        BY <1>0, <3>3, <3>4, InkMatches, BlankType
      <4>2. Drawn(cell, x, y, SPACE) \in [Rows -> [Columns -> Cells]]
        BY <1>0, ScreenTypes, BlankType
      <4>3. Match(cell', paper', pen.top)
        BY <3>4, <4>1, <4>2, RedrawMatches
      <4>4. x \in Nat /\ y \in Nat /\ x < W /\ y < H
        BY <1>0 DEF Columns, Rows
      <4>5. /\ pen' \in [x : Columns, y : Nat, top : Nat]
            /\ pen'.x = x /\ pen'.y = pen.top + y /\ pen'.top = pen.top
        <5>1. pen.top + y \in Nat
          BY <3>3, <4>4
        <5>2. QED
          BY <3>3, <3>4, <5>1
      <4>6. Len(paper') = pen'.top + H
        BY <3>3, <4>1, <4>5
      <4>7. pen'.top <= pen'.y /\ pen'.y < pen'.top + H
        <5>1. pen.top <= pen.top + y /\ pen.top + y < pen.top + H
          BY <1>0, <3>3, <4>4
        <5>2. QED
          BY <4>5, <5>1
      <4>8. OnPaper(paper', pen')
        BY <4>1, <4>5, <4>6, <4>7 DEF OnPaper
      <4>9. QED
        BY <3>4, <4>3, <4>4, <4>5, <4>8 DEF Follows
    <3>5. OnPaper(paper', pen') /\ Follows(cell', paper', pen', cx', cy')
      <4>1. CASE cx > 0
        <5>1. /\ cx' = cx - 1 /\ cy' = cy
              /\ cell' = Redrawn(Drawn(cell, cx - 1, cy, SPACE))
          BY <2>1, <4>1 DEF DeleteAt
        <5>2. /\ paper' = Inked(cx - 1, pen.top + cy, SPACE)
              /\ pen' = [pen EXCEPT !.x = cx - 1, !.y = pen.top + cy]
          <6>1. paper' = Inked(pen.x - 1, pen.y, SPACE) /\ pen' = [pen EXCEPT !.x = @ - 1]
            BY <2>1, <2>3, <3>3, <4>1 DEF PaperDelete
          <6>2. QED
            BY <3>3, <6>1
        <5>3. cx - 1 \in Columns
          BY <1>0, <3>2, <4>1 DEF Columns
        <5>4. QED
          BY <3>2, <3>4, <5>1, <5>2, <5>3
      <4>2. CASE ~(cx > 0) /\ cy > 0
        <5>1. /\ cx' = W - 1 /\ cy' = cy - 1
              /\ cell' = Redrawn(Drawn(cell, W - 1, cy - 1, SPACE))
          BY <2>1, <4>2 DEF DeleteAt
        <5>2. pen.y > pen.top /\ pen.y - 1 = pen.top + (cy - 1)
          BY <3>2, <3>3, <4>2
        <5>3. /\ paper' = Inked(W - 1, pen.top + (cy - 1), SPACE)
              /\ pen' = [pen EXCEPT !.x = W - 1, !.y = pen.top + (cy - 1)]
          <6>1. paper' = Inked(W - 1, pen.y - 1, SPACE) /\ pen' = [pen EXCEPT !.x = W - 1, !.y = @ - 1]
            BY <2>1, <2>3, <3>3, <4>2, <5>2 DEF PaperDelete
          <6>2. QED
            BY <3>3, <5>2, <6>1
        <5>4. W - 1 \in Columns /\ cy - 1 \in Rows
          BY <1>0, <3>2, <4>2 DEF Columns, Rows
        <5>5. QED
          BY <3>4, <5>1, <5>3, <5>4
      <4>3. CASE ~(cx > 0) /\ ~(cy > 0)
        <5>1. cx' = cx /\ cy' = cy /\ cell' = Redrawn(cell)
          BY <2>1, <4>3 DEF DeleteAt
        <5>2. ~(pen.x > 0) /\ ~(pen.y > pen.top)
          BY <3>2, <3>3, <4>3
        <5>3. paper' = paper /\ pen' = pen
          BY <2>1, <2>3, <5>2 DEF PaperDelete
        <5>4. Match(Redrawn(cell), paper, pen.top)
          BY <1>0, <3>3, RedrawMatches
        <5>5. QED
          BY <1>0, <3>2, <3>3, <5>1, <5>3, <5>4 DEF Follows
      <4>4. QED
        BY <4>1, <4>2, <4>3
    <3>6. QED
      BY <2>1, <3>1, <3>5 DEF Mirrored, AtRest
  <2>4. QED
    BY <2>2, <2>3
<1>17. QED
  BY <1>1, <1>2, <1>3, <1>4, <1>5, <1>6, <1>7, <1>8, <1>9, <1>10, <1>11, <1>12, <1>13,
     <1>14, <1>15, <1>16 DEF Next

LEMMA ConsoleInit == Init => ConsoleIInv
<1> SUFFICES ASSUME Init PROVE ConsoleIInv
  OBVIOUS
<1> USE SizesAre
<1>1. cell \in [Rows -> [Columns -> Cells]] /\ \A r \in Rows : cell[r] = Blank
  BY BlankType DEF Init, BlankScreen
<1>2. <<>> \in Seq(Tokens) /\ <<>> \in Seq(Chars0) /\ Len(<<>>) = 0
  BY EmptySeq
<1>3. TypeOK
  <2>1. hit \in BOOLEAN /\ cut \in BOOLEAN /\ torn \in BOOLEAN
    BY Zenon DEF Init
  <2>2. pos \in [x : 0 .. W, y : 0 .. H, then : {"wrap", "over", "next"}]
    BY DEF Init
  <2>3. saved \in Colours \X Colours /\ fg \in Colours /\ bg \in Colours
    BY DEF Init, Colours
  <2>4. /\ buffer \in Seq(Tokens \cup {NUL}) /\ todo \in Seq(Tokens)
        /\ code \in Seq(Tokens \cup {NUL}) /\ Len(code) <= 4
    BY <1>2 DEF Init, Chars0
  <2>6. ch \in Tokens
    BY NulIs DEF Init
  <2>5. QED
    BY <1>1, <2>1, <2>2, <2>3, <2>4, <2>6 DEF Init, TypeOK
<1>4. CursorNear /\ Coloured /\ MoreLeft /\ Coded
  BY DEF Init, CursorNear, Coloured, MoreLeft, Coded, Resting, Making
<1>5. Printed
  BY <1>2 DEF Init, Printed, Making
<1>6. paper \in Seq([Columns -> Cells]) /\ Len(paper) = H
  <2>1. paper = [r \in 1 .. H |-> Blank]
    BY DEF Init
  <2>2. QED
    BY <2>1, BlankType
<1>7. pen \in [x : Columns, y : Nat, top : Nat] /\ pen.x = 0 /\ pen.y = 0 /\ pen.top = 0
  BY DEF Init, Columns
<1>8. OnPaper(paper, pen)
  BY <1>6, <1>7 DEF OnPaper
<1>9. Match(cell, paper, pen.top)
  <2>1. ASSUME NEW r \in Rows \ {0} PROVE cell[r] = paper[pen.top + r + 1]
    <3>1. pen.top + r + 1 \in 1 .. H
      BY <1>7 DEF Rows
    <3>2. paper[pen.top + r + 1] = Blank
      BY <3>1 DEF Init
    <3>3. QED
      BY <1>1, <3>2
  <2>2. QED
    BY <2>1 DEF Match
<1>10. Follows(cell, paper, pen, cx, cy)
  <2>1. cx = 0 /\ cy = 0 /\ 0 < W /\ 0 < H
    BY DEF Init
  <2>2. QED
    BY <1>7, <1>9, <2>1 DEF Follows
<1>11. Mirrored
  BY <1>8, <1>10 DEF Init, Mirrored, AtRest
<1>12. QED
  BY <1>3, <1>4, <1>5, <1>11 DEF ConsoleIInv

LEMMA ConsoleStep == ConsoleIInv /\ [Next]_vars => ConsoleIInv'
<1> SUFFICES ASSUME ConsoleIInv, [Next]_vars PROVE ConsoleIInv'
  OBVIOUS
<1>1. CASE Next
  BY <1>1, TypesKept, NearKept, ColoursKept, LeftKept, PrintedKept, CodedKept, MirroredKept
  DEF ConsoleIInv
<1>2. CASE UNCHANGED vars
  <2>1. TypeOK'
    BY <1>2 DEF ConsoleIInv, TypeOK, vars
  <2>2. CursorNear' /\ Coloured' /\ MoreLeft'
    BY <1>2 DEF ConsoleIInv, CursorNear, Coloured, MoreLeft, vars
  <2>3. Printed' /\ Coded'
    BY <1>2 DEF ConsoleIInv, Printed, Coded, At, vars
  <2>4. Mirrored'
    BY <1>2 DEF ConsoleIInv, Mirrored, AtRest, vars
  <2>5. QED
    BY <2>1, <2>2, <2>3, <2>4 DEF ConsoleIInv
<1>3. QED
  BY <1>1, <1>2

LEMMA ConsoleHolds == ConsoleIInv => TerminalTrue
<1> SUFFICES ASSUME ConsoleIInv PROVE TerminalTrue
  OBVIOUS
<1> USE SizesAre DEF ConsoleIInv
<1>1. CursorOnScreen
  BY DEF CursorOnScreen, OnScreen, CursorNear, AtRest, Resting, TypeOK, Columns, Rows
<1>2. ColoursRestored /\ PrintedWhole /\ OverrunsWhenCut
  BY DEF ColoursRestored, PrintedWhole, OverrunsWhenCut, Coloured, Printed, Coded
<1>3. ScreenIsPaper
  <2>1. SUFFICES ASSUME AtRest, ~torn
                 PROVE  /\ \A r \in Rows \ {0} : cell[r] = paper[pen.top + r + 1]
                        /\ cx = pen.x /\ cy = pen.y - pen.top
    BY DEF ScreenIsPaper
  <2>2. Follows(cell, paper, pen, cx, cy) /\ cx < W /\ cy < H
    BY <2>1 DEF Mirrored, CursorNear, AtRest, Resting
  <2>3. Match(cell, paper, pen.top) /\ pen.x = cx /\ pen.y = pen.top + cy
    BY <2>2 DEF Follows
  <2>4. pen.top \in Nat /\ cy \in Nat
    BY DEF Mirrored, OnPaper, TypeOK
  <2>5. QED
    BY <2>3, <2>4 DEF Match
<1>4. QED
  BY <1>1, <1>2, <1>3 DEF TerminalTrue

\* Each behaviour of the whole is one of the console.
LEMMA ConsoleAlone == AllSpec => Spec
<1>1. AllInit => Init
  BY DEF AllInit
<1>2. [AllNext]_all => [Next]_vars
  BY DEF AllNext, all, vars, OnlyConsole, OnlyDisplay, OnlyStrings, OnlyNumbers, OnlyClock
<1>3. QED
  BY <1>1, <1>2, PTL DEF AllSpec, Spec

\* What printf writes is what a terminal without limits shows, through wrapping and
\* scrolling and whatever keys come between two characters, and the cursor and the
\* colours come back, unless a key comes while the code of an escape sequence is read:
\* only then does the driver read on behind the text and store outside its array
\* (stdio.c:99, vga.c:99-159).
THEOREM TerminalIsTrue == AllSpec => []TerminalTrue
BY ConsoleAlone, ConsoleInit, ConsoleStep, ConsoleHolds, PTL DEF Spec

-----------------------------------------------------------------------------
(* The clock: the fields of a time and their weights.                      *)

\* The weights are the products of the sizes of the fields below.
LEMMA WeightIs ==
  /\ C!Weight[1] = 1
  /\ \A f \in 1 .. 6 : C!Weight[f + 1] = C!Weight[f] * Size[f]
  /\ \A f \in 1 .. 6 : Size[f] \in 1 .. 100
  /\ \A f \in 1 .. 7 : C!Weight[f] \in Nat \ {0}
<1>1. \A f \in 1 .. 6 : Size[f] \in 1 .. 100
  <2>1. Size \in Seq(1 .. 100) /\ Len(Size) = 6
    BY ScreenAssumption DEF C!ClockAssumption
  <2>2. \A A : \A q \in Seq(A) : \A j \in 1 .. Len(q) : q[j] \in A
    OBVIOUS
  <2>3. QED
    BY <2>1, <2>2
<1> DEFINE g1 == 1
           g2 == g1 * Size[1]
           g3 == g2 * Size[2]
           g4 == g3 * Size[3]
           g5 == g4 * Size[4]
           g6 == g5 * Size[5]
           g7 == g6 * Size[6]
           g == [f \in 1 .. 7 |-> IF f = 1 THEN g1 ELSE IF f = 2 THEN g2 ELSE IF f = 3 THEN g3
                                  ELSE IF f = 4 THEN g4 ELSE IF f = 5 THEN g5
                                  ELSE IF f = 6 THEN g6 ELSE g7]
<1>2. g = [f \in 1 .. 7 |-> IF f = 1 THEN 1 ELSE g[f - 1] * Size[f - 1]]
  <2>1. /\ g[1] = 1 /\ g[2] = g[1] * Size[1] /\ g[3] = g[2] * Size[2] /\ g[4] = g[3] * Size[3]
        /\ g[5] = g[4] * Size[4] /\ g[6] = g[5] * Size[5] /\ g[7] = g[6] * Size[6]
    <3> HIDE DEF g2, g3, g4, g5, g6, g7
    <3>1. /\ g[1] = g1 /\ g[2] = g2 /\ g[3] = g3 /\ g[4] = g4 /\ g[5] = g5 /\ g[6] = g6
          /\ g[7] = g7
      OBVIOUS
    <3> HIDE DEF g
    <3>2. QED
      BY <3>1 DEF g2, g3, g4, g5, g6, g7
  <2>2. g = [f \in 1 .. 7 |-> g[f]]
    OBVIOUS
  <2> HIDE DEF g
  <2>3. ASSUME NEW f \in 1 .. 7 PROVE g[f] = IF f = 1 THEN 1 ELSE g[f - 1] * Size[f - 1]
    <3>1. f \in {1, 2, 3, 4, 5, 6, 7}
      OBVIOUS
    <3>2. QED
      BY <2>1, <3>1
  <2>4. QED
    BY <2>2, <2>3
<1> HIDE DEF g
<1>3. C!Weight = [f \in 1 .. 7 |-> IF f = 1 THEN 1 ELSE C!Weight[f - 1] * Size[f - 1]]
  BY <1>2 DEF C!Weight
<1>4. C!Weight[1] = 1
  BY <1>3
<1>5. ASSUME NEW f \in 1 .. 6 PROVE C!Weight[f + 1] = C!Weight[f] * Size[f]
  <2>1. f + 1 \in 1 .. 7 /\ f + 1 # 1 /\ (f + 1) - 1 = f
    OBVIOUS
  <2>2. QED
    BY <1>3, <2>1
<1>6. \A f \in 1 .. 7 : C!Weight[f] \in Nat \ {0}
  <2>1. \A x \in Nat \ {0}, y \in 1 .. 100 : x * y \in Nat \ {0}
    OBVIOUS
  <2>2. C!Weight[1] \in Nat \ {0}
    BY <1>4
  <2>3. \A f \in 1 .. 6 : C!Weight[f] \in Nat \ {0} => C!Weight[f + 1] \in Nat \ {0}
    BY <1>1, <1>5, <2>1
  <2>4. C!Weight[1 + 1] \in Nat \ {0}
    BY <2>2, <2>3
  <2>5. C!Weight[2 + 1] \in Nat \ {0}
    BY <2>3, <2>4
  <2>6. C!Weight[3 + 1] \in Nat \ {0}
    BY <2>3, <2>5
  <2>7. C!Weight[4 + 1] \in Nat \ {0}
    BY <2>3, <2>6
  <2>8. C!Weight[5 + 1] \in Nat \ {0}
    BY <2>3, <2>7
  <2>9. C!Weight[6 + 1] \in Nat \ {0}
    BY <2>3, <2>8
  <2>10. QED
    BY <2>2, <2>4, <2>5, <2>6, <2>7, <2>8, <2>9
<1>7. QED
  BY <1>1, <1>4, <1>5, <1>6

\* What a time's fields below the f-th are worth.
Below(f, t) == t % C!Weight[f]

LEMMA BelowIs ==
  ASSUME NEW t \in Nat
  PROVE  /\ \A f \in 1 .. 7 : Below(f, t) \in Nat
         /\ Below(1, t) = 0
         /\ t < C!Weight[7] => Below(7, t) = t
<1>1. ASSUME NEW f \in 1 .. 7 PROVE Below(f, t) \in Nat
  <2>1. C!Weight[f] \in Nat \ {0}
    BY WeightIs
  <2>2. t % C!Weight[f] \in 0 .. C!Weight[f] - 1
    BY <2>1, DivIs
  <2>3. QED
    BY <2>1, <2>2 DEF Below
<1>2. Below(1, t) = 0
  BY WeightIs DEF Below
<1>3. ASSUME t < C!Weight[7] PROVE Below(7, t) = t
  <2>1. \A d \in Nat \ {0} : t < d => t % d = t
    OBVIOUS
  <2>2. QED
    BY <1>3, <2>1, WeightIs DEF Below
<1>4. QED
  BY <1>1, <1>2, <1>3

LEMMA FieldIs ==
  ASSUME NEW t \in Nat, NEW f \in 1 .. 6
  PROVE  /\ C!Field(f, t) \in 0 .. Size[f] - 1
         /\ C!Field(f, t) * C!Weight[f] = Below(f + 1, t) - Below(f, t)
<1> DEFINE v == C!Weight[f]
           s == Size[f]
           q == t \div v
           r == t % v
           k == q \div s
           x == q % s
<1>1. v \in Nat \ {0} /\ s \in Nat \ {0} /\ C!Weight[f + 1] = v * s
  BY WeightIs
<1> HIDE DEF v, s
<1>2. q \in Nat /\ r \in 0 .. v - 1 /\ t = v * q + r
  BY <1>1, DivIs
<1>3. k \in Nat /\ x \in 0 .. s - 1 /\ q = s * k + x
  <2> HIDE DEF q
  <2>1. QED
    BY <1>1, <1>2, DivIs
<1>4. C!Field(f, t) = x
  BY DEF C!Field, v, s
<1> HIDE DEF q, r, k, x
<1>5. t = (v * s) * k + (v * x + r)
  <2>1. v * (s * k + x) = (v * s) * k + v * x
    BY <1>1, <1>3
  <2>2. (v * s) * k \in Nat /\ v * x \in Nat
    BY <1>1, <1>3
  <2>3. QED
    BY <1>2, <1>3, <2>1, <2>2
<1>6. v * x + r \in 0 .. (v * s) - 1
  <2>1. v * x + v <= v * s
    <3>1. x + 1 <= s /\ x + 1 \in Nat
      BY <1>1, <1>3
    <3>2. \A a, b, c \in Nat : a <= b => c * a <= c * b
      OBVIOUS
    <3>3. v * (x + 1) <= v * s /\ v * (x + 1) = v * x + v
      BY <1>1, <1>3, <3>1, <3>2
    <3>4. QED
      BY <3>3
  <2>2. v * x \in Nat /\ v * s \in Nat
    BY <1>1, <1>3
  <2>3. QED
    BY <1>1, <1>2, <2>1, <2>2
<1>7. t % (v * s) = v * x + r
  <2>1. v * s \in Nat \ {0}
    BY <1>1
  <2>2. QED
    BY <1>3, <1>5, <1>6, <2>1, ModUnique
<1>8. Below(f + 1, t) = v * x + r /\ Below(f, t) = r
  BY <1>1, <1>7 DEF Below, v, r
<1>9. x * v = v * x /\ v * x \in Nat /\ r \in Nat
  BY <1>1, <1>2, <1>3
<1>10. QED
  BY <1>3, <1>4, <1>8, <1>9 DEF v, s

-----------------------------------------------------------------------------
(* What the update reads when the clock ticks in the middle of it.          *)

\* The fields below the k-th as they were at t, the others a second later.
Mixed(k, t) == [f \in C!Fields |-> C!Field(f, IF f < k THEN t ELSE t + 1)]

\* What the two words of a time are worth, and what a time has above its month.
LowSum(x)  == x[1] * C!Weight[1] + x[2] * C!Weight[2] + x[3] * C!Weight[3] + x[4] * C!Weight[4]
HighSum(x) == x[5] * C!Weight[5] + x[6] * C!Weight[6]
Hi(t)      == t - Below(5, t)

LEMMA MeantIs ==
  ASSUME NEW x \in [C!Fields -> Nat]
  PROVE  /\ LowSum(x) \in Nat /\ HighSum(x) \in Nat
         /\ C!Meant(x) = LowSum(x) + HighSum(x)
<1>1. \A f \in 1 .. 6 : x[f] \in Nat /\ C!Weight[f] \in Nat
  BY WeightIs DEF C!Fields
<1>2. \A f \in 1 .. 6 : x[f] * C!Weight[f] \in Nat
  <2>1. \A a, b \in Nat : a * b \in Nat
    OBVIOUS
  <2>2. QED
    BY <1>1, <2>1
<1> DEFINE p(f) == x[f] * C!Weight[f]
<1>3. /\ LowSum(x) = p(1) + p(2) + p(3) + p(4)
      /\ HighSum(x) = p(5) + p(6)
      /\ C!Meant(x) = p(1) + p(2) + p(3) + p(4) + p(5) + p(6)
  BY DEF LowSum, HighSum, C!Meant
<1>4. /\ p(1) \in Nat /\ p(2) \in Nat /\ p(3) \in Nat
      /\ p(4) \in Nat /\ p(5) \in Nat /\ p(6) \in Nat
  BY <1>2
<1> HIDE DEF p
<1>5. QED
  BY <1>3, <1>4

\* A second later, the lower fields are worth one more or have run over.
LEMMA CarryIs ==
  ASSUME NEW t \in Nat, NEW f \in 1 .. 7
  PROVE  Below(f, t + 1) <= Below(f, t) + 1
<1> DEFINE d == C!Weight[f]
           q == t \div d
           r == t % d
<1>1. d \in Nat \ {0}
  BY WeightIs
<1> HIDE DEF d
<1>2. q \in Nat /\ r \in 0 .. d - 1 /\ t = d * q + r
  BY <1>1, DivIs
<1> HIDE DEF q, r
<1>3. CASE r < d - 1
  <2>1. r + 1 \in 0 .. d - 1 /\ t + 1 = d * q + (r + 1)
    BY <1>1, <1>2, <1>3
  <2>2. (t + 1) % d = r + 1
    BY <1>1, <1>2, <2>1, ModUnique
  <2>3. QED
    BY <1>1, <1>2, <2>2 DEF Below, d, r
<1>4. CASE r = d - 1
  <2>1. t + 1 = d * (q + 1) + 0 /\ q + 1 \in Nat /\ 0 \in 0 .. d - 1
    BY <1>1, <1>2, <1>4
  <2>2. (t + 1) % d = 0
    BY <1>1, <1>2, <2>1, ModUnique
  <2>3. Below(f, t + 1) = 0 /\ Below(f, t) = r
    BY <2>2 DEF Below, d, r
  <2>4. QED
    BY <1>1, <1>2, <2>3
<1>5. QED
  BY <1>1, <1>2, <1>3, <1>4

\* The months and years of a later time are not fewer.
LEMMA HiGrows ==
  ASSUME NEW a \in Nat, NEW b \in Nat, a <= b
  PROVE  Hi(a) \in Nat /\ Hi(a) <= Hi(b)
<1> DEFINE d == C!Weight[5]
           p == a \div d
           q == b \div d
<1>1. d \in Nat \ {0}
  BY WeightIs
<1> HIDE DEF d
<1>2. p \in Nat /\ a % d \in 0 .. d - 1 /\ a = d * p + (a % d)
  BY <1>1, DivIs
<1>3. q \in Nat /\ b % d \in 0 .. d - 1 /\ b = d * q + (b % d)
  BY <1>1, DivIs
<1> HIDE DEF p, q
<1>4. Hi(a) = d * p /\ Hi(b) = d * q
  <2>1. Below(5, a) = a % d /\ Below(5, b) = b % d
    BY DEF Below, d
  <2>2. d * p \in Nat /\ d * q \in Nat
    BY <1>1, <1>2, <1>3
  <2>3. QED
    BY <1>1, <1>2, <1>3, <2>1, <2>2 DEF Hi
<1>5. p <= q
  <2>1. ASSUME q < p PROVE FALSE
    <3>1. p = q + 1 + (p - q - 1) /\ p - q - 1 \in Nat
      BY <1>2, <1>3, <2>1
    <3>2. d * p = d * q + d + d * (p - q - 1) /\ d * (p - q - 1) \in Nat
      BY <1>1, <1>2, <1>3, <3>1
    <3>3. d * q \in Nat /\ d * p \in Nat
      BY <1>1, <1>2, <1>3
    <3>4. QED
      BY <1>1, <1>2, <1>3, <3>2, <3>3
  <2>2. QED
    BY <1>2, <1>3, <2>1
<1>6. QED
  <2>1. d * p \in Nat /\ d * p <= d * q
    <3>1. \A x, y, z \in Nat : x <= y => z * x \in Nat /\ z * x <= z * y
      OBVIOUS
    <3>2. QED
      BY <1>1, <1>2, <1>3, <1>5, <3>1
  <2>2. QED
    BY <1>4, <2>1

\* What a torn time is worth: never less than the time it was begun at, and so are
\* its low word with the months of any later time and its high word.
Ahead(k, t) ==
  /\ C!Meant(Mixed(k, t)) >= t
  /\ k = 7 => C!Meant(Mixed(k, t)) = t
  /\ HighSum(Mixed(k, t)) >= Hi(t)
  /\ \A u \in Nat : (IF k = 7 THEN t ELSE t + 1) <= u => LowSum(Mixed(k, t)) + Hi(u) >= t

LEMMA MixedType ==
  ASSUME NEW k \in 2 .. 7, NEW t \in Nat
  PROVE  /\ Mixed(k, t) \in [C!Fields -> 0 .. 99]
         /\ \A f \in C!Fields : Mixed(k, t)[f] < Size[f]
<1>1. ASSUME NEW f \in C!Fields PROVE Mixed(k, t)[f] \in 0 .. Size[f] - 1
  <2>1. f \in 1 .. 6 /\ (IF f < k THEN t ELSE t + 1) \in Nat
    BY DEF C!Fields
  <2>2. QED
    BY <2>1, FieldIs DEF Mixed
<1>2. \A f \in C!Fields : Size[f] \in 1 .. 100
  BY WeightIs DEF C!Fields
<1>3. \A f \in C!Fields : Mixed(k, t)[f] \in 0 .. 99 /\ Mixed(k, t)[f] < Size[f]
  <2>1. \A s \in 1 .. 100 : \A x \in 0 .. s - 1 : x \in 0 .. 99 /\ x < s
    OBVIOUS
  <2>2. QED
    BY <1>1, <1>2, <2>1
<1>4. QED
  BY <1>3 DEF Mixed

LEMMA MixedAhead ==
  ASSUME NEW k \in 2 .. 7, NEW t \in Nat, t < C!Weight[7],
         k # 7 => t + 1 < C!Weight[7]
  PROVE  Ahead(k, t)
<1> DEFINE a(f) == Below(f, t)
           b(f) == Below(f, t + 1)
           x == Mixed(k, t)
           e(f) == x[f] * C!Weight[f]
<1>1. \A f \in 1 .. 6 : e(f) = IF f < k THEN a(f + 1) - a(f) ELSE b(f + 1) - b(f)
  <2>1. ASSUME NEW f \in 1 .. 6
        PROVE  e(f) = IF f < k THEN a(f + 1) - a(f) ELSE b(f + 1) - b(f)
    <3>1. CASE f < k
      <4>1. x[f] = C!Field(f, t)
        BY <3>1 DEF Mixed, C!Fields
      <4>2. QED
        BY <3>1, <4>1, FieldIs
    <3>2. CASE ~(f < k)
      <4>1. x[f] = C!Field(f, t + 1)
        BY <3>2 DEF Mixed, C!Fields
      <4>2. t + 1 \in Nat
        OBVIOUS
      <4>3. QED
        BY <3>2, <4>1, <4>2, FieldIs
    <3>3. QED
      BY <3>1, <3>2
  <2>2. QED
    BY <2>1
<1>2. /\ a(1) = 0 /\ a(7) = t /\ b(1) = 0
      /\ k # 7 => b(7) = t + 1
  <2>1. t + 1 \in Nat
    OBVIOUS
  <2>2. QED
    BY <2>1, BelowIs
<1>3. \A f \in 1 .. 7 : a(f) \in Nat /\ b(f) \in Nat /\ b(f) <= a(f) + 1
  <2>1. t + 1 \in Nat
    OBVIOUS
  <2>2. QED
    BY <2>1, BelowIs, CarryIs
<1>4. /\ Hi(t) = t - a(5) /\ Hi(t + 1) = (t + 1) - b(5)
  BY DEF Hi
<1>5. Hi(t) \in Nat /\ Hi(t + 1) \in Nat /\ Hi(t) <= Hi(t + 1)
  <2>1. t + 1 \in Nat /\ t <= t + 1 /\ t + 1 <= t + 1
    OBVIOUS
  <2>2. QED
    BY <2>1, HiGrows
<1>6. /\ LowSum(x) = e(1) + e(2) + e(3) + e(4)
      /\ HighSum(x) = e(5) + e(6)
      /\ C!Meant(x) = LowSum(x) + HighSum(x)
      /\ LowSum(x) \in Nat /\ HighSum(x) \in Nat
  <2>1. x \in [C!Fields -> Nat]
    <3>1. x \in [C!Fields -> 0 .. 99]
      BY MixedType
    <3>2. 0 .. 99 \subseteq Nat
      OBVIOUS
    <3> HIDE DEF x
    <3>3. QED
      BY <3>1, <3>2
  <2>2. QED
    BY <2>1, MeantIs DEF LowSum, HighSum
<1> HIDE DEF a, b, x, e
<1>7. k \in {2, 3, 4, 5, 6, 7}
  OBVIOUS
<1>8. /\ LowSum(x) = IF k <= 4 THEN a(k) + b(5) - b(k) ELSE a(5)
      /\ HighSum(x) = IF k <= 5 THEN b(7) - b(5) ELSE IF k = 6 THEN a(6) - a(5) + b(7) - b(6) ELSE a(7) - a(5)
  <2>1. /\ e(1) = a(2) - a(1)
        /\ e(2) = IF 2 < k THEN a(3) - a(2) ELSE b(3) - b(2)
        /\ e(3) = IF 3 < k THEN a(4) - a(3) ELSE b(4) - b(3)
        /\ e(4) = IF 4 < k THEN a(5) - a(4) ELSE b(5) - b(4)
        /\ e(5) = IF 5 < k THEN a(6) - a(5) ELSE b(6) - b(5)
        /\ e(6) = IF 6 < k THEN a(7) - a(6) ELSE b(7) - b(6)
    BY <1>1
  <2>2. /\ a(1) = 0
        /\ a(2) \in Nat /\ a(3) \in Nat /\ a(4) \in Nat /\ a(5) \in Nat /\ a(6) \in Nat /\ a(7) \in Nat
        /\ b(2) \in Nat /\ b(3) \in Nat /\ b(4) \in Nat /\ b(5) \in Nat /\ b(6) \in Nat /\ b(7) \in Nat
    BY <1>2, <1>3
  <2>3. CASE k = 2
    BY <1>6, <2>1, <2>2, <2>3
  <2>4. CASE k = 3
    BY <1>6, <2>1, <2>2, <2>4
  <2>5. CASE k = 4
    BY <1>6, <2>1, <2>2, <2>5
  <2>6. CASE k = 5
    BY <1>6, <2>1, <2>2, <2>6
  <2>7. CASE k = 6
    BY <1>6, <2>1, <2>2, <2>7
  <2>8. CASE k = 7
    BY <1>6, <2>1, <2>2, <2>8
  <2>9. QED
    BY <1>7, <2>3, <2>4, <2>5, <2>6, <2>7, <2>8
<1>9. a(k) \in Nat /\ b(k) \in Nat /\ b(k) <= a(k) + 1 /\ a(5) \in Nat /\ b(5) \in Nat
  BY <1>3
<1>10. HighSum(x) >= Hi(t)
  <2>1. CASE k <= 5
    BY <1>2, <1>4, <1>5, <1>8, <1>9, <2>1
  <2>2. CASE k = 6
    <3>1. HighSum(x) = a(6) - a(5) + b(7) - b(6) /\ b(6) <= a(6) + 1 /\ b(7) = t + 1
      BY <1>2, <1>8, <1>9, <2>2
    <3>2. a(6) \in Nat /\ b(6) \in Nat
      BY <1>9, <2>2
    <3>3. QED
      BY <1>4, <1>9, <3>1, <3>2
  <2>3. CASE k = 7
    BY <1>2, <1>4, <1>8, <1>9, <2>3
  <2>4. QED
    BY <1>7, <2>1, <2>2, <2>3
<1>11. C!Meant(x) >= t /\ (k = 7 => C!Meant(x) = t)
  <2>1. CASE k <= 4
    <3>1. LowSum(x) = a(k) + b(5) - b(k) /\ HighSum(x) = (t + 1) - b(5)
      BY <1>2, <1>8, <2>1
    <3>2. QED
      BY <1>6, <1>9, <2>1, <3>1
  <2>2. CASE k = 5 \/ k = 6
    <3>1. LowSum(x) = a(5) /\ HighSum(x) >= t - a(5)
      BY <1>4, <1>8, <1>10, <2>2
    <3>2. QED
      BY <1>6, <1>9, <2>2, <3>1
  <2>3. CASE k = 7
    <3>1. LowSum(x) = a(5) /\ HighSum(x) = t - a(5)
      BY <1>2, <1>8, <2>3
    <3>2. QED
      BY <1>6, <1>9, <3>1
  <2>4. QED
    BY <1>7, <2>1, <2>2, <2>3
<1>12. ASSUME NEW u \in Nat, (IF k = 7 THEN t ELSE t + 1) <= u PROVE LowSum(x) + Hi(u) >= t
  <2>1. t <= u
    BY <1>12
  <2>2. Hi(t) <= Hi(u) /\ Hi(u) \in Nat
    <3>1. u <= u
      OBVIOUS
    <3>2. QED
      BY <2>1, <3>1, HiGrows
  <2>3. CASE k <= 4
    <3>1. t + 1 \in Nat /\ t + 1 <= u
      BY <1>12, <2>3
    <3>2. Hi(t + 1) <= Hi(u)
      BY <3>1, HiGrows
    <3>3. LowSum(x) = a(k) + b(5) - b(k)
      BY <1>8, <2>3
    <3>4. QED
      BY <1>4, <1>5, <1>9, <2>2, <3>2, <3>3
  <2>4. CASE ~(k <= 4)
    <3>1. LowSum(x) = a(5)
      BY <1>8, <2>4
    <3>2. QED
      BY <1>4, <1>5, <1>9, <2>2, <3>1
  <2>5. QED
    BY <2>3, <2>4
<1>13. QED
  BY <1>10, <1>11, <1>12 DEF Ahead, x

\* A value below a hundred that was read in BCD is converted to itself.
LEMMA ConvertedIs ==
  ASSUME NEW v \in 0 .. 99
  PROVE  C!Bcd(v) \in Nat /\ C!Converted(C!Bcd(v)) = v
<1> DEFINE q == v \div 10
           r == v % 10
<1>1. q \in Nat /\ r \in 0 .. 9 /\ v = 10 * q + r
  OBVIOUS
<1> HIDE DEF q, r
<1>2. C!Bcd(v) = 16 * q + r
  BY <1>1 DEF C!Bcd, q, r
<1>3. (16 * q + r) % 16 = r /\ (16 * q + r) \div 16 = q
  BY <1>1
<1>4. QED
  BY <1>1, <1>2, <1>3 DEF C!Converted

-----------------------------------------------------------------------------
(* The inductive invariant of the clock.                                    *)

\* What the k-th register showed while the update went on.
Shown(k, f) == IF binary THEN Mixed(k, began)[f] ELSE C!Bcd(Mixed(k, began)[f])

\* The update so far: k is the first register that was read after the tick, 7 if none.
Read(k) ==
  /\ k \in 2 .. 7
  /\ k # 7 <=> clockTorn
  /\ clockTorn /\ reg # 0 => k <= reg
  /\ reg = 0 => tm = Mixed(k, began)
  /\ reg # 0 => \A f \in C!Fields : f < reg => tm[f] = Shown(k, f)

ClockTypes ==
  /\ now \in Nat /\ began \in Nat /\ base \in Nat
  /\ began <= now /\ base <= began /\ now < C!Weight[7]
  /\ binary \in BOOLEAN /\ clockTorn \in BOOLEAN /\ between \in BOOLEAN
  /\ reg \in 0 .. 7
  /\ half \in {"none", "low", "high"} /\ order \in {"low", "high"}
  /\ tm \in [C!Fields -> Nat] /\ snap \in [C!Fields -> 0 .. 99]

\* Only one tick, and none before the first register.
Ticked ==
  /\ reg = 1 => ~clockTorn
  /\ clockTorn => began + 1 <= now
  /\ clockTorn /\ reg # 0 => now = began + 1
  /\ reg \in 2 .. 6 /\ ~clockTorn => now = began

\* A copy that was begun: its low word is good enough for every time from now on, and
\* as long as nothing came between it is half of tm.
Copying ==
  /\ half = "high" <=> half # "none" /\ order = "low"
  /\ half = "high" =>
       /\ LowSum(snap) + Hi(now) >= base
       /\ reg = 0 => LowSum(snap) + HighSum(tm) >= base
       /\ reg # 0 => LowSum(snap) + Hi(began) >= base
  /\ half # "none" /\ ~between =>
       /\ reg = 0 /\ ~clockTorn /\ base = began
       /\ \A f \in IF half = "high" THEN C!LowHalf ELSE C!HighHalf : snap[f] = tm[f]

Copies ==
  /\ half = "none" /\ ~between => C!Meant(snap) = base
  /\ half = "none" /\ order = "low" => C!Meant(snap) >= base

ClockIInv == ClockTypes /\ Ticked /\ (\E k \in 2 .. 7 : Read(k)) /\ Copying /\ Copies

-----------------------------------------------------------------------------

\* The parts of the invariant that a step which only ticks or only copies keeps.
LEMMA ReadSame ==
  ASSUME UNCHANGED <<began, binary, clockTorn, reg, tm>>, NEW k \in 2 .. 7, Read(k)
  PROVE  Read(k)'
BY DEF Read, Shown

LEMMA ClockInit == C!Init => ClockIInv
<1> SUFFICES ASSUME C!Init PROVE ClockIInv
  OBVIOUS
<1>1. C!Weight[7] \in Nat \ {0}
  BY WeightIs
<1>2. tm = [f \in C!Fields |-> 0] /\ snap = tm /\ began = 0 /\ base = 0 /\ now = 0
  BY DEF C!Init
<1>3. Mixed(7, 0) = tm
  <2>1. ASSUME NEW f \in C!Fields PROVE Mixed(7, 0)[f] = 0
    <3>1. f \in 1 .. 6 /\ f < 7
      BY DEF C!Fields
    <3>2. C!Weight[f] \in Nat \ {0} /\ Size[f] \in 1 .. 100
      BY <3>1, WeightIs
    <3>3. \A v \in Nat \ {0}, s \in 1 .. 100 : (0 \div v) % s = 0
      OBVIOUS
    <3>4. C!Field(f, 0) = 0
      BY <3>2, <3>3 DEF C!Field
    <3>5. QED
      BY <3>1, <3>4 DEF Mixed
  <2>2. QED
    BY <1>2, <2>1 DEF Mixed
<1>4. 7 \in 2 .. 7 /\ Read(7)
  BY <1>2, <1>3 DEF Read, C!Init
<1>5. C!Meant(snap) = base
  <2>1. Ahead(7, 0)
    BY <1>1, MixedAhead
  <2>2. QED
    BY <1>2, <1>3, <2>1 DEF Ahead
<1>6. ClockTypes
  <2>1. 0 < C!Weight[7]
    BY <1>1
  <2>2. tm \in [C!Fields -> Nat] /\ snap \in [C!Fields -> 0 .. 99]
    BY <1>2
  <2>3. /\ now \in Nat /\ began \in Nat /\ base \in Nat
        /\ began <= now /\ base <= began /\ now < C!Weight[7]
    BY <1>2, <2>1
  <2>4. /\ binary \in BOOLEAN /\ clockTorn \in BOOLEAN /\ between \in BOOLEAN
        /\ reg \in 0 .. 7 /\ half \in {"none", "low", "high"} /\ order \in {"low", "high"}
    <3>1. binary \in BOOLEAN
      BY DEF C!Init
    <3>2. ~clockTorn /\ ~between /\ reg = 0 /\ half = "none" /\ order = "low"
      BY DEF C!Init
    <3>3. clockTorn \in BOOLEAN /\ between \in BOOLEAN
      BY Zenon DEF C!Init
    <3>4. QED
      BY <3>1, <3>2, <3>3
  <2>5. QED
    BY <2>2, <2>3, <2>4 DEF ClockTypes
<1>7. QED
  BY <1>2, <1>4, <1>5, <1>6 DEF ClockIInv, Ticked, Copying, Copies, C!Init

\* Before a word is copied, tm is a mixed time that is ahead.
LEMMA TmAhead ==
  ASSUME ClockIInv, reg = 0, NEW k \in 2 .. 7, Read(k)
  PROVE  /\ tm = Mixed(k, began)
         /\ Ahead(k, began)
         /\ tm \in [C!Fields -> 0 .. 99] /\ \A f \in C!Fields : tm[f] < Size[f]
         /\ LowSum(tm) \in Nat /\ HighSum(tm) \in Nat /\ C!Meant(tm) = LowSum(tm) + HighSum(tm)
<1>1. tm = Mixed(k, began) /\ (k # 7 => clockTorn)
  BY DEF Read
<1>2. began \in Nat /\ now \in Nat /\ began <= now /\ now < C!Weight[7]
      /\ C!Weight[7] \in Nat \ {0} /\ tm \in [C!Fields -> Nat]
  BY WeightIs DEF ClockIInv, ClockTypes
<1>3. began < C!Weight[7] /\ (k # 7 => began + 1 < C!Weight[7])
  BY <1>1, <1>2 DEF ClockIInv, Ticked
<1>4. QED
  BY <1>1, <1>2, <1>3, MixedAhead, MixedType, MeantIs

LEMMA ClockTick == ClockIInv /\ C!Tick => ClockIInv'
<1> SUFFICES ASSUME ClockIInv, C!Tick PROVE ClockIInv'
  OBVIOUS
<1> USE DEF ClockIInv
<1>1. /\ reg = 0 \/ ~clockTorn
      /\ now + 1 < C!Weight[7] /\ now' = now + 1
      /\ clockTorn' = (clockTorn \/ reg \in 2 .. 6)
      /\ UNCHANGED <<binary, tm, reg, snap, half, began, base, order, between>>
  <2>1. now + 1 \in C!Times /\ C!Weight[7] \in Nat
    BY WeightIs DEF C!Tick
  <2>2. now + 1 < C!Weight[7]
    <3>1. now + 1 \in Nat
      BY DEF ClockTypes
    <3>2. QED
      BY <2>1, <3>1 DEF C!Times
  <2>3. QED
    BY <2>2 DEF C!Tick
<1>2. now \in Nat /\ began \in Nat /\ began <= now
  BY DEF ClockTypes
<1>2a. /\ clockTorn' \in BOOLEAN
       /\ reg \in 2 .. 6 => clockTorn'
       /\ reg \notin 2 .. 6 => clockTorn' = clockTorn
  BY <1>1, Zenon DEF ClockTypes
<1>3. ClockTypes'
  BY <1>1, <1>2, <1>2a DEF ClockTypes
<1>4. Ticked'
  <2>1. CASE reg \in 2 .. 6
    <3>1. now = began
      BY <1>1, <2>1 DEF Ticked
    <3>2. QED
      BY <1>1, <1>2, <1>2a, <2>1, <3>1 DEF Ticked
  <2>2. CASE reg \notin 2 .. 6
    BY <1>1, <1>2, <1>2a, <2>2 DEF Ticked
  <2>3. QED
    BY <2>1, <2>2
<1>5. \E k \in 2 .. 7 : Read(k)'
  <2>1. PICK k \in 2 .. 7 : Read(k)
    OBVIOUS
  <2>2. CASE clockTorn \/ reg \notin 2 .. 6
    <3>1. clockTorn' = clockTorn
      BY <1>1, <1>2a, <2>2 DEF ClockTypes
    <3>2. QED
      BY <1>1, <2>1, <3>1, ReadSame
  <2>3. CASE ~clockTorn /\ reg \in 2 .. 6
    <3>1. k = 7
      BY <2>1, <2>3 DEF Read
    <3>2. reg \in 2 .. 7 /\ reg # 7 /\ reg # 0 /\ clockTorn' /\ reg' = reg
      BY <1>1, <1>2a, <2>3
    <3>3. \A f \in C!Fields : f < reg => tm[f] = Shown(7, f)
      BY <2>1, <3>1, <3>2 DEF Read
    <3>4. \A f \in C!Fields : f < reg => Mixed(7, began)[f] = Mixed(reg, began)[f]
      BY <2>3 DEF Mixed, C!Fields
    <3>5. \A f \in C!Fields : f < reg => tm[f] = Shown(reg, f)
      BY <3>3, <3>4 DEF Shown
    <3>6. \A f \in C!Fields : Shown(reg, f)' = Shown(reg, f)
      BY <1>1 DEF Shown
    <3>7. PICK j \in 2 .. 7 : j = reg
      BY <3>2
    <3>8. \A f \in C!Fields : Shown(j, f)' = Shown(j, f) /\ (f < j => tm[f] = Shown(j, f))
      BY <1>1, <3>5, <3>7 DEF Shown
    <3>9. Read(j)'
      BY <1>1, <3>2, <3>7, <3>8 DEF Read
    <3>10. QED
      BY <3>9
  <2>4. QED
    BY <2>2, <2>3
<1>6. Copying'
  <2>1. Hi(now) <= Hi(now + 1) /\ Hi(now) \in Nat /\ Hi(now + 1) \in Nat
    BY <1>2, HiGrows
  <2>2. LowSum(snap) \in Nat /\ base \in Nat
    <3>1. snap \in [C!Fields -> Nat] /\ base \in Nat
      BY DEF ClockTypes
    <3>2. QED
      BY <3>1, MeantIs
  <2>3. half = "high" => LowSum(snap) + Hi(now + 1) >= base
    BY <2>1, <2>2 DEF Copying
  <2>4. half # "none" /\ ~between => ~clockTorn'
    BY <1>1, <1>2a DEF Copying
  <2>5. QED
    BY <1>1, <2>3, <2>4 DEF Copying
<1>7. Copies'
  BY <1>1 DEF Copies
<1>8. QED
  BY <1>3, <1>4, <1>5, <1>6, <1>7

LEMMA ClockInterrupt == ClockIInv /\ C!Interrupt => ClockIInv'
<1> SUFFICES ASSUME ClockIInv, C!Interrupt PROVE ClockIInv'
  OBVIOUS
<1> USE DEF ClockIInv
<1>1. /\ reg = 0 /\ reg' = 1 /\ began' = now /\ ~clockTorn'
      /\ between' = (between \/ half # "none")
      /\ UNCHANGED <<now, binary, tm, snap, half, base, order>>
  BY DEF C!Interrupt
<1>2. ClockTypes'
  <2>1. clockTorn' \in BOOLEAN /\ between' \in BOOLEAN
    BY DEF C!Interrupt, ClockTypes
  <2>2. QED
    BY <1>1, <2>1 DEF ClockTypes
<1>3. Ticked'
  BY <1>1 DEF Ticked
<1>4. 7 \in 2 .. 7 /\ Read(7)'
  BY <1>1 DEF Read, C!Fields
<1>5. Copying' /\ Copies'
  BY <1>1 DEF Copying, Copies, ClockTypes
<1>6. QED
  BY <1>2, <1>3, <1>4, <1>5

LEMMA ClockRead == ClockIInv /\ C!ReadRegister => ClockIInv'
<1> SUFFICES ASSUME ClockIInv, C!ReadRegister PROVE ClockIInv'
  OBVIOUS
<1> USE DEF ClockIInv
<1>1. /\ reg \in 1 .. 6 /\ reg' = reg + 1
      /\ tm' = [tm EXCEPT ![reg] = C!Register(reg)]
      /\ began' = IF reg = 1 THEN now ELSE began
      /\ UNCHANGED <<now, binary, snap, half, base, order, clockTorn, between>>
  BY DEF C!ReadRegister, C!Fields
<1>2. now \in Nat /\ began \in Nat /\ began <= now /\ base \in Nat /\ base <= began
      /\ tm \in [C!Fields -> Nat]
  BY DEF ClockTypes
<1>3. C!Field(reg, now) \in 0 .. 99
  <2>1. C!Field(reg, now) \in 0 .. Size[reg] - 1 /\ Size[reg] \in 1 .. 100
    BY <1>1, <1>2, FieldIs, WeightIs
  <2>2. QED
    BY <2>1
<1>4. ClockTypes'
  <2>1. C!Register(reg) \in Nat
    BY <1>3, ConvertedIs DEF C!Register, ClockTypes
  <2>2. tm' \in [C!Fields -> Nat]
    BY <1>1, <1>2, <2>1
  <2>3. began' \in Nat /\ began' <= now' /\ base' <= began' /\ reg' \in 0 .. 7
    BY <1>1, <1>2
  <2>4. QED
    BY <1>1, <2>2, <2>3 DEF ClockTypes
<1>5. Ticked'
  BY <1>1, <1>2 DEF Ticked
<1>6. \E k \in 2 .. 7 : Read(k)'
  <2>1. PICK k \in 2 .. 7 : Read(k)
    OBVIOUS
  <2>2. reg # 0 /\ reg' # 0 /\ (clockTorn => k <= reg)
    BY <1>1, <2>1 DEF Read
  <2>3. C!Field(reg, now) = Mixed(k, began')[reg]
    <3>1. CASE reg = 1
      <4>1. k = 7 /\ began' = now
        BY <1>1, <2>1, <3>1 DEF Ticked, Read
      <4>2. QED
        BY <1>1, <4>1 DEF Mixed, C!Fields
    <3>2. CASE reg # 1 /\ clockTorn
      <4>1. k <= reg /\ now = began + 1 /\ began' = began
        BY <1>1, <2>2, <3>2 DEF Ticked
      <4>2. ~(reg < k)
        BY <1>1, <4>1
      <4>3. QED
        BY <1>1, <4>1, <4>2 DEF Mixed, C!Fields
    <3>3. CASE reg # 1 /\ ~clockTorn
      <4>1. k = 7 /\ now = began /\ began' = began
        BY <1>1, <2>1, <3>3 DEF Ticked, Read
      <4>2. QED
        BY <1>1, <4>1 DEF Mixed, C!Fields
    <3>4. QED
      BY <3>1, <3>2, <3>3
  <2>4. ASSUME NEW f \in C!Fields, f = reg PROVE C!Register(reg) = Shown(k, f)'
    BY <1>1, <2>3, <2>4 DEF Shown, C!Register
  <2>5. ASSUME NEW f \in C!Fields, f < reg' PROVE tm'[f] = Shown(k, f)'
    <3>1. CASE f = reg
      <4>1. tm'[f] = C!Register(reg)
        BY <1>1, <1>2, <3>1
      <4>2. QED
        BY <2>4, <3>1, <4>1
    <3>2. CASE f # reg
      <4>1. f < reg /\ reg # 1 /\ began' = began
        BY <1>1, <2>5, <3>2 DEF C!Fields
      <4>2. tm'[f] = tm[f] /\ tm[f] = Shown(k, f)
        BY <1>1, <1>2, <2>1, <2>2, <3>2, <4>1 DEF Read
      <4>3. Shown(k, f)' = Shown(k, f)
        BY <1>1, <4>1 DEF Shown
      <4>4. QED
        BY <4>2, <4>3
    <3>3. QED
      BY <3>1, <3>2
  <2>6. Read(k)'
    BY <1>1, <2>1, <2>2, <2>5 DEF Read
  <2>7. QED
    BY <2>6
<1>7. Copying'
  <2>1. half = "high" => LowSum(snap) + Hi(began') >= base
    BY <1>1 DEF Copying
  <2>2. ~(half # "none" /\ ~between)
    BY <1>1 DEF Copying
  <2>3. QED
    BY <1>1, <2>1, <2>2 DEF Copying
<1>8. Copies'
  BY <1>1 DEF Copies
<1>9. QED
  BY <1>4, <1>5, <1>6, <1>7, <1>8

LEMMA ClockConvert == ClockIInv /\ C!Convert => ClockIInv'
<1> SUFFICES ASSUME ClockIInv, C!Convert PROVE ClockIInv'
  OBVIOUS
<1> USE DEF ClockIInv
<1>1. /\ reg = 7 /\ reg' = 0
      /\ tm' = IF binary THEN tm ELSE [f \in C!Fields |-> C!Converted(tm[f])]
      /\ UNCHANGED <<now, binary, snap, half, began, base, order, clockTorn, between>>
  BY DEF C!Convert
<1>2. PICK k \in 2 .. 7 : Read(k)
  OBVIOUS
<1>3. began \in Nat /\ now \in Nat /\ began <= now /\ now < C!Weight[7] /\ binary \in BOOLEAN
      /\ base \in Nat /\ tm \in [C!Fields -> Nat] /\ C!Weight[7] \in Nat
  BY WeightIs DEF ClockTypes
<1>4. tm' = Mixed(k, began)
  <2>1. \A f \in C!Fields : tm[f] = Shown(k, f) /\ Mixed(k, began)[f] \in 0 .. 99
    <3>1. \A f \in C!Fields : f < reg
      BY <1>1 DEF C!Fields
    <3>2. Mixed(k, began) \in [C!Fields -> 0 .. 99]
      BY <1>3, MixedType
    <3>3. QED
      BY <1>1, <1>2, <3>1, <3>2 DEF Read
  <2>2. Mixed(k, began) = [f \in C!Fields |-> Mixed(k, began)[f]]
    BY DEF Mixed
  <2>3. CASE binary
    <3>1. \A f \in C!Fields : tm[f] = Mixed(k, began)[f]
      BY <2>1, <2>3 DEF Shown
    <3>2. tm' = tm /\ tm = [f \in C!Fields |-> tm[f]]
      BY <1>1, <1>3, <2>3
    <3>3. QED
      BY <2>2, <3>1, <3>2
  <2>4. CASE ~binary
    <3>1. \A f \in C!Fields : C!Converted(tm[f]) = Mixed(k, began)[f]
      BY <2>1, <2>4, ConvertedIs DEF Shown
    <3>2. tm' = [f \in C!Fields |-> C!Converted(tm[f])]
      BY <1>1, <2>4
    <3>3. QED
      BY <2>2, <3>1, <3>2
  <2>5. QED
    BY <1>3, <2>3, <2>4
<1>5. Ahead(k, began)
  <2>1. began < C!Weight[7] /\ (k # 7 => began + 1 < C!Weight[7])
    BY <1>2, <1>3 DEF Read, Ticked
  <2>2. QED
    BY <1>3, <2>1, MixedAhead
<1>6. tm' \in [C!Fields -> Nat]
  <2>1. Mixed(k, began) \in [C!Fields -> 0 .. 99]
    BY <1>3, MixedType
  <2>2. 0 .. 99 \subseteq Nat
    OBVIOUS
  <2>3. QED
    BY <1>4, <2>1, <2>2
<1>7. ClockTypes' /\ Ticked'
  BY <1>1, <1>6 DEF ClockTypes, Ticked
<1>8. Read(k)'
  BY <1>1, <1>2, <1>4 DEF Read
<1>9. Copying'
  <2>1. half = "high" => LowSum(snap) + Hi(began) >= base
    BY <1>1 DEF Copying
  <2>2. HighSum(tm') >= Hi(began)
    BY <1>4, <1>5 DEF Ahead
  <2>3. LowSum(snap) \in Nat /\ HighSum(tm') \in Nat /\ Hi(began) \in Nat
    <3>1. snap \in [C!Fields -> Nat]
      BY DEF ClockTypes
    <3>2. began <= began
      BY <1>3
    <3>3. QED
      BY <1>3, <1>6, <3>1, <3>2, MeantIs, HiGrows
  <2>4. half = "high" => LowSum(snap) + HighSum(tm') >= base
    BY <1>3, <2>1, <2>2, <2>3
  <2>5. ~(half # "none" /\ ~between)
    BY <1>1 DEF Copying
  <2>6. LowSum(snap)' = LowSum(snap) /\ HighSum(tm)' = HighSum(tm') /\ Hi(now)' = Hi(now)
    BY <1>1
  <2>7. QED
    BY <1>1, <2>4, <2>5 DEF Copying
<1>10. Copies'
  BY <1>1 DEF Copies
<1>11. QED
  BY <1>7, <1>8, <1>9, <1>10

\* The two words are the whole of a copy.
LEMMA Words2 ==
  ASSUME NEW x \in [C!Fields -> Nat], NEW y \in [C!Fields -> Nat]
  PROVE  /\ (\A f \in C!LowHalf : x[f] = y[f]) => LowSum(x) = LowSum(y)
         /\ (\A f \in C!HighHalf : x[f] = y[f]) => HighSum(x) = HighSum(y)
<1>1. ASSUME \A f \in C!LowHalf : x[f] = y[f] PROVE LowSum(x) = LowSum(y)
  <2>1. x[1] = y[1] /\ x[2] = y[2] /\ x[3] = y[3] /\ x[4] = y[4]
    BY <1>1 DEF C!LowHalf
  <2>2. QED
    BY <2>1 DEF LowSum
<1>2. ASSUME \A f \in C!HighHalf : x[f] = y[f] PROVE HighSum(x) = HighSum(y)
  <2>1. x[5] = y[5] /\ x[6] = y[6]
    BY <1>2 DEF C!HighHalf
  <2>2. QED
    BY <2>1 DEF HighSum
<1>3. QED
  BY <1>1, <1>2

LEMMA CopiedIs ==
  ASSUME ClockIInv, reg = 0, NEW fs \in SUBSET C!Fields
  PROVE  /\ C!Copied(fs) \in [C!Fields -> 0 .. 99]
         /\ \A f \in fs : C!Copied(fs)[f] = tm[f]
         /\ \A f \in C!Fields \ fs : C!Copied(fs)[f] = snap[f]
<1>1. tm \in [C!Fields -> 0 .. 99]
  BY TmAhead DEF ClockIInv
<1>2. snap \in [C!Fields -> 0 .. 99]
  BY DEF ClockIInv, ClockTypes
<1>3. QED
  BY <1>1, <1>2 DEF C!Copied

LEMMA ClockFirst == ClockIInv /\ C!CopyFirst => ClockIInv'
<1> SUFFICES ASSUME ClockIInv, C!CopyFirst PROVE ClockIInv'
  OBVIOUS
<1>1. /\ reg = 0 /\ half = "none" /\ base' = began /\ between' = clockTorn
      /\ \/ snap' = C!Copied(C!LowHalf) /\ half' = "high" /\ order' = "low"
         \/ snap' = C!Copied(C!HighHalf) /\ half' = "low" /\ order' = "high"
      /\ UNCHANGED <<now, binary, tm, reg, began, clockTorn>>
  BY DEF C!CopyFirst
<1>2. PICK k \in 2 .. 7 : Read(k)
  BY DEF ClockIInv
<1>3. /\ tm = Mixed(k, began) /\ Ahead(k, began)
      /\ tm \in [C!Fields -> 0 .. 99]
      /\ LowSum(tm) \in Nat /\ HighSum(tm) \in Nat /\ C!Meant(tm) = LowSum(tm) + HighSum(tm)
  BY <1>1, <1>2, TmAhead
<1>4. C!LowHalf \subseteq C!Fields /\ C!HighHalf \subseteq C!Fields
  BY DEF C!LowHalf, C!HighHalf, C!Fields
<1>5. ClockTypes'
  <2>1. snap' \in [C!Fields -> 0 .. 99]
    BY <1>1, <1>4, CopiedIs
  <2>2. base' <= began'
    BY <1>1 DEF ClockIInv, ClockTypes
  <2>3. QED
    BY <1>1, <2>1, <2>2 DEF ClockIInv, ClockTypes
<1>6. Ticked' /\ Read(k)'
  BY <1>1, <1>2, ReadSame DEF ClockIInv, Ticked
<1>7. Copying'
  <2>1. half' = "high" <=> half' # "none" /\ order' = "low"
    BY <1>1
  <2>2. ASSUME half' = "high"
        PROVE  LowSum(snap') + Hi(now) >= began /\ LowSum(snap') + HighSum(tm) >= began
    <3>1. snap' = C!Copied(C!LowHalf)
      BY <1>1, <2>2
    <3>2. \A f \in C!LowHalf : snap'[f] = tm[f]
      BY <1>1, <1>4, <3>1, CopiedIs
    <3>3. LowSum(snap') = LowSum(tm)
      <4>1. tm \in [C!Fields -> Nat] /\ snap' \in [C!Fields -> Nat]
        BY <1>5 DEF ClockIInv, ClockTypes
      <4>2. QED
        BY <3>2, <4>1, Words2
    <3>4. (IF k = 7 THEN began ELSE began + 1) <= now
      BY <1>2 DEF ClockIInv, ClockTypes, Ticked, Read
    <3>5. LowSum(tm) + Hi(now) >= began /\ C!Meant(tm) >= began
      BY <1>3, <3>4 DEF Ahead, ClockIInv, ClockTypes
    <3>6. QED
      BY <1>3, <3>3, <3>5
  <2>3. \A f \in IF half' = "high" THEN C!LowHalf ELSE C!HighHalf : snap'[f] = tm'[f]
    BY <1>1, <1>4, CopiedIs
  <2>4. reg' = 0 /\ tm' = tm /\ now' = now /\ base' = began /\ began' = began
        /\ (~between' => ~clockTorn')
    BY <1>1
  <2>5. QED
    BY <2>1, <2>2, <2>3, <2>4 DEF Copying
<1>8. Copies'
  BY <1>1 DEF Copies
<1>9. QED
  BY <1>5, <1>6, <1>7, <1>8 DEF ClockIInv

LEMMA ClockSecond == ClockIInv /\ C!CopySecond => ClockIInv'
<1> SUFFICES ASSUME ClockIInv, C!CopySecond PROVE ClockIInv'
  OBVIOUS
<1> DEFINE fs == IF half = "low" THEN C!LowHalf ELSE C!HighHalf
<1>1. /\ reg = 0 /\ half # "none" /\ half' = "none" /\ snap' = C!Copied(fs)
      /\ UNCHANGED <<now, binary, tm, reg, began, base, order, clockTorn, between>>
  BY DEF C!CopySecond
<1>2. PICK k \in 2 .. 7 : Read(k)
  BY DEF ClockIInv
<1>3. /\ tm = Mixed(k, began) /\ Ahead(k, began)
      /\ tm \in [C!Fields -> 0 .. 99]
      /\ LowSum(tm) \in Nat /\ HighSum(tm) \in Nat /\ C!Meant(tm) = LowSum(tm) + HighSum(tm)
  BY <1>1, <1>2, TmAhead
<1>4. C!LowHalf \cup C!HighHalf = C!Fields /\ C!LowHalf \cap C!HighHalf = {}
  BY DEF C!LowHalf, C!HighHalf, C!Fields
<1>5. /\ snap' \in [C!Fields -> 0 .. 99]
      /\ \A f \in fs : snap'[f] = tm[f]
      /\ \A f \in C!Fields \ fs : snap'[f] = snap[f]
  <2>1. fs \subseteq C!Fields
    BY <1>4
  <2> HIDE DEF fs
  <2>2. QED
    BY <1>1, <2>1, CopiedIs
<1>6. half \in {"low", "high"}
  BY <1>1 DEF ClockIInv, ClockTypes
<1>7. /\ tm \in [C!Fields -> Nat] /\ snap \in [C!Fields -> Nat] /\ snap' \in [C!Fields -> Nat]
  BY <1>5 DEF ClockIInv, ClockTypes
<1>8. ClockTypes'
  BY <1>1, <1>5 DEF ClockIInv, ClockTypes
<1>9. Ticked' /\ Read(k)' /\ Copying'
  BY <1>1, <1>2, ReadSame DEF ClockIInv, Ticked, Copying
<1>10. ASSUME ~between PROVE C!Meant(snap') = base
  <2>1. /\ ~clockTorn /\ base = began
        /\ \A f \in IF half = "high" THEN C!LowHalf ELSE C!HighHalf : snap[f] = tm[f]
    BY <1>1, <1>10 DEF ClockIInv, Copying
  <2>2. \A f \in C!Fields : snap'[f] = tm[f]
    BY <1>4, <1>5, <1>6, <2>1
  <2>3. snap' = tm
    BY <1>7, <2>2
  <2>4. k = 7
    BY <1>2, <2>1 DEF Read
  <2>5. QED
    BY <1>3, <2>1, <2>3, <2>4 DEF Ahead
<1>11. ASSUME order = "low" PROVE C!Meant(snap') >= base
  <2>1. half = "high" /\ LowSum(snap) + HighSum(tm) >= base
    BY <1>1, <1>11 DEF ClockIInv, Copying
  <2>2. \A f \in C!LowHalf : snap'[f] = snap[f]
    BY <1>4, <1>5, <2>1
  <2>3. \A f \in C!HighHalf : snap'[f] = tm[f]
    BY <1>5, <2>1
  <2>4. LowSum(snap') = LowSum(snap) /\ HighSum(snap') = HighSum(tm)
    BY <1>7, <2>2, <2>3, Words2
  <2>5. QED
    BY <1>7, <2>1, <2>4, MeantIs
<1>12. Copies'
  BY <1>1, <1>10, <1>11 DEF Copies
<1>13. QED
  BY <1>8, <1>9, <1>12 DEF ClockIInv

LEMMA ClockStep == ClockIInv /\ [C!Next]_(C!vars) => ClockIInv'
<1> SUFFICES ASSUME ClockIInv, [C!Next]_(C!vars) PROVE ClockIInv'
  OBVIOUS
<1>1. CASE UNCHANGED C!vars
  <2>1. PICK k \in 2 .. 7 : Read(k)
    BY DEF ClockIInv
  <2>2. Read(k)'
    BY <1>1, <2>1, ReadSame DEF C!vars
  <2>3. ClockTypes' /\ Ticked' /\ Copying' /\ Copies'
    BY <1>1 DEF ClockIInv, ClockTypes, Ticked, Copying, Copies, C!vars
  <2>4. QED
    BY <2>2, <2>3 DEF ClockIInv
<1>2. QED
  BY <1>1, ClockTick, ClockInterrupt, ClockRead, ClockConvert, ClockFirst, ClockSecond DEF C!Next

LEMMA ClockHolds == ClockIInv => C!TimeAhead
<1> SUFFICES ASSUME ClockIInv PROVE C!TimeAhead
  OBVIOUS
<1>1. PICK k \in 2 .. 7 : Read(k)
  BY DEF ClockIInv
<1>2. C!TypeOK
  <2>1. /\ now \in Nat /\ began \in Nat /\ base \in Nat /\ began <= now /\ base <= began
        /\ now < C!Weight[7] /\ C!Weight[7] \in Nat
    BY WeightIs DEF ClockIInv, ClockTypes
  <2>2. now \in C!Times /\ began \in C!Times /\ base \in C!Times
    BY <2>1 DEF C!Times
  <2>3. \A f \in C!Fields : reg = 0 => tm[f] < Size[f]
    BY <1>1, TmAhead
  <2>4. QED
    BY <2>2, <2>3 DEF C!TypeOK, ClockIInv, ClockTypes
<1>3. C!TornRunsAhead
  <2>1. SUFFICES ASSUME reg = 0
                 PROVE  IF clockTorn THEN C!Meant(tm) >= began ELSE C!Meant(tm) = began
    BY DEF C!TornRunsAhead
  <2>2. tm = Mixed(k, began) /\ Ahead(k, began) /\ (~clockTorn => k = 7)
    BY <1>1, <2>1, TmAhead DEF Read
  <2>3. QED
    BY <2>2 DEF Ahead
<1>4. C!CopyTrue /\ C!CopyRunsAhead
  BY DEF ClockIInv, Copies, C!CopyTrue, C!CopyRunsAhead
<1>5. QED
  BY <1>2, <1>3, <1>4 DEF C!TimeAhead

\* Each behaviour of the whole is one of the clock: the other four do not touch it.
LEMMA ClockAlone == AllSpec => C!Spec
<1>1. AllInit => C!Init
  BY DEF AllInit
<1>2. [AllNext]_all => [C!Next]_(C!vars)
  BY DEF AllNext, all, clockVars, C!vars, OnlyConsole, OnlyDisplay, OnlyStrings, OnlyNumbers, OnlyClock
<1>3. QED
  BY <1>1, <1>2, PTL DEF AllSpec, C!Spec

\* The time of day is never behind the last update that was through, whatever tick or
\* interrupt tears it, unless the high word was copied first (rtc.c:54-92, time.c:20).
THEOREM TimeNeverBehind == AllSpec => []TimeAhead
<1>1. ClockIInv => TimeAhead
  BY ClockHolds DEF TimeAhead
<1>2. QED
  BY <1>1, ClockAlone, ClockInit, ClockStep, PTL DEF C!Spec
LEMMA Least ==
  ASSUME NEW A, A \subseteq Nat, A # {} PROVE \E x \in A : \A y \in A : x <= y
<1> DEFINE O == StrictSubsetOrdering(Nat)
           J == {0 .. m : m \in A}
<1>1. J \subseteq FiniteSubsetsOf(Nat) /\ J # {}
  <2>1. ASSUME NEW m \in A PROVE 0 .. m \in FiniteSubsetsOf(Nat)
    <3>1. IsFiniteSet(0 .. m)
      BY FS_Interval
    <3>2. 0 .. m \subseteq Nat
      OBVIOUS
    <3>3. QED
      BY <3>1, <3>2 DEF FiniteSubsetsOf
  <2>2. QED
    BY <2>1
<1>2. IsWellFoundedOn(O, FiniteSubsetsOf(Nat))
  BY FS_StrictSubsetOrderingWellFounded
<1>3. PICK j \in J : \A k \in J : ~ (<<k, j>> \in O)
  BY <1>1, <1>2, WFMin
<1>4. PICK x \in A : j = 0 .. x
  BY <1>3
<1>5. ASSUME NEW y \in A, y < x PROVE FALSE
  <2>1. (0 .. y) \subseteq 0 .. x /\ x \notin 0 .. y /\ x \in 0 .. x
    BY <1>5
  <2>2. 0 .. x \in SUBSET Nat /\ 0 .. y \in SUBSET Nat
    OBVIOUS
  <2>3. <<0 .. y, 0 .. x>> \in O
    BY <2>1, <2>2 DEF StrictSubsetOrdering
  <2>4. 0 .. y \in J
    BY <1>5
  <2> HIDE DEF O, J
  <2>5. QED
    BY <1>3, <1>4, <2>3, <2>4
<1>6. QED
  BY <1>5

\* Induction, for a set.
LEMMA Induct ==
  ASSUME NEW A, 0 \in A, \A m \in Nat : m \in A => m + 1 \in A
  PROVE  Nat \subseteq A
<1>1. SUFFICES ASSUME Nat \ A # {} PROVE FALSE
  OBVIOUS
<1>2. PICK x \in Nat \ A : \A y \in Nat \ A : x <= y
  BY <1>1, Least
<1>3. x # 0 /\ x - 1 \in Nat /\ ~ (x <= x - 1) /\ (x - 1) + 1 = x
  BY <1>2
<1>4. x - 1 \in A
  BY <1>2, <1>3
<1>5. QED
  BY <1>2, <1>3, <1>4


\* A recursive function that calls itself once, for an argument with a smaller
\* measure, exists: it has the value c where it stops, and elsewhere what Up
\* makes of the argument and of the value below.
Recursive(f, X, Stop, c, down, Up) ==
  \A x \in X : f[x] = IF x \in Stop THEN c[x] ELSE Up[<<x, f[down[x]]>>]

LEMMA Recursion ==
  ASSUME NEW X, NEW V, NEW m \in [X -> Nat], NEW Stop, NEW c \in [X -> V],
         NEW down \in [X -> X], NEW Up \in [X \X V -> V],
         \A x \in X : x \notin Stop => m[down[x]] < m[x]
  PROVE  \E f \in [X -> V] : Recursive(f, X, Stop, c, down, Up)
<1> DEFINE Is(f, x) == f[x] = IF x \in Stop THEN c[x] ELSE Up[<<x, f[down[x]]>>]
           Upto(f, k) == f \in [X -> V] /\ \A x \in X : m[x] <= k => Is(f, x)
           A == {k \in Nat : \E f : Upto(f, k)}
<1>1. 0 \in A
  <2>1. ASSUME NEW x \in X, m[x] <= 0 PROVE Is(c, x)
    <3>1. m[x] \in Nat /\ m[down[x]] \in Nat
      OBVIOUS
    <3>2. x \in Stop
      BY <2>1, <3>1
    <3>3. QED
      BY <3>2
  <2> HIDE DEF Is
  <2>2. Upto(c, 0)
    BY <2>1
  <2>3. QED
    BY <2>2
<1>2. ASSUME NEW k \in Nat, k \in A PROVE k + 1 \in A
  <2>1. PICK f : Upto(f, k)
    BY <1>2
  <2> DEFINE g == [x \in X |-> IF m[x] <= k THEN f[x]
                               ELSE IF x \in Stop THEN c[x] ELSE Up[<<x, f[down[x]]>>]]
  <2>2. g \in [X -> V]
    <3>1. ASSUME NEW x \in X PROVE Up[<<x, f[down[x]]>>] \in V
      <4>1. f[down[x]] \in V
        BY <2>1
      <4>2. <<x, f[down[x]]>> \in X \X V
        BY <4>1
      <4>3. QED
        BY <4>2
    <3>2. QED
      BY <2>1, <3>1
  <2>3. ASSUME NEW x \in X, m[x] <= k + 1 PROVE Is(g, x)
    <3>1. m[x] \in Nat /\ m[down[x]] \in Nat /\ down[x] \in X
      OBVIOUS
    <3>2. x \notin Stop => m[down[x]] <= k
      BY <2>3, <3>1
    <3>3. x \notin Stop => g[down[x]] = f[down[x]]
      BY <3>1, <3>2
    <3>4. CASE m[x] <= k
      <4>1. Is(f, x) /\ g[x] = f[x]
        BY <2>1, <3>4
      <4> HIDE DEF g
      <4>2. QED
        BY <3>3, <4>1
    <3>5. CASE ~(m[x] <= k)
      <4>1. g[x] = IF x \in Stop THEN c[x] ELSE Up[<<x, f[down[x]]>>]
        BY <3>5
      <4> HIDE DEF g
      <4>2. QED
        BY <3>3, <4>1
    <3>6. QED
      BY <3>4, <3>5
  <2> HIDE DEF g, Is
  <2>4. Upto(g, k + 1)
    BY <2>2, <2>3
  <2>5. QED
    BY <2>4
<1>3. \A k \in Nat : \E f : Upto(f, k)
  <2>1. Nat \subseteq A
    <3> HIDE DEF A
    <3>1. QED
      BY <1>1, <1>2, Induct
  <2>2. QED
    BY <2>1
\* Two of them agree as far as both go.
<1>4. ASSUME NEW f, NEW g, NEW k \in Nat, NEW l \in Nat, Upto(f, k), Upto(g, l)
      PROVE  \A x \in X : m[x] <= k /\ m[x] <= l => f[x] = g[x]
  <2> DEFINE S0 == {j \in Nat : \A x \in X : m[x] <= j /\ m[x] <= k /\ m[x] <= l => f[x] = g[x]}
  <2>1. ASSUME NEW x \in X, m[x] <= k, m[x] <= l, x \notin Stop => f[down[x]] = g[down[x]]
        PROVE  f[x] = g[x]
    <3>1. Is(f, x) /\ Is(g, x)
      BY <1>4, <2>1
    <3>2. QED
      BY <2>1, <3>1
  <2>2. 0 \in S0
    <3>1. ASSUME NEW x \in X, m[x] <= 0 PROVE x \in Stop
      <4>1. m[x] \in Nat /\ m[down[x]] \in Nat
        OBVIOUS
      <4>2. QED
        BY <3>1, <4>1
    <3>2. QED
      BY <2>1, <3>1
  <2>3. ASSUME NEW j \in Nat, j \in S0 PROVE j + 1 \in S0
    <3>1. ASSUME NEW x \in X, m[x] <= j + 1, m[x] <= k, m[x] <= l PROVE f[x] = g[x]
      <4>1. m[x] \in Nat /\ m[down[x]] \in Nat /\ down[x] \in X
        OBVIOUS
      <4>2. x \notin Stop => m[down[x]] <= j /\ m[down[x]] <= k /\ m[down[x]] <= l
        BY <3>1, <4>1
      <4>3. x \notin Stop => f[down[x]] = g[down[x]]
        BY <2>3, <4>1, <4>2
      <4>4. QED
        BY <2>1, <3>1, <4>3
    <3>2. QED
      BY <3>1
  <2>4. Nat \subseteq S0
    <3> HIDE DEF S0
    <3>1. QED
      BY <2>2, <2>3, Induct
  <2>5. ASSUME NEW x \in X, m[x] <= k, m[x] <= l PROVE f[x] = g[x]
    <3>1. k \in S0
      BY <2>4
    <3>2. QED
      BY <2>5, <3>1
  <2>6. QED
    BY <2>5
<1> DEFINE F == [k \in Nat |-> CHOOSE f : Upto(f, k)]
           g == [x \in X |-> F[m[x]][x]]
<1>5. \A k \in Nat : Upto(F[k], k)
  <2> HIDE DEF Upto
  <2>1. QED
    BY <1>3
<1> HIDE DEF F
<1>6. ASSUME NEW x \in X PROVE F[m[x]] \in [X -> V] /\ Is(F[m[x]], x)
  <2>1. m[x] \in Nat /\ m[x] <= m[x]
    OBVIOUS
  <2>2. Upto(F[m[x]], m[x])
    BY <1>5, <2>1
  <2> HIDE DEF Is
  <2>3. QED
    BY <2>1, <2>2
<1>7. ASSUME NEW x \in X, x \notin Stop PROVE F[m[x]][down[x]] = F[m[down[x]]][down[x]]
  <2>1. m[x] \in Nat /\ m[down[x]] \in Nat /\ down[x] \in X
    OBVIOUS
  <2>2. m[down[x]] <= m[x] /\ m[down[x]] <= m[down[x]]
    BY <1>7, <2>1
  <2>3. Upto(F[m[x]], m[x]) /\ Upto(F[m[down[x]]], m[down[x]])
    BY <1>5, <2>1
  <2> HIDE DEF Upto
  <2>4. QED
    BY <1>4, <2>1, <2>2, <2>3
<1>8. g \in [X -> V]
  BY <1>6
<1>9. ASSUME NEW x \in X PROVE Is(g, x)
  <2>1. down[x] \in X
    OBVIOUS
  <2>2. g[x] = F[m[x]][x] /\ g[down[x]] = F[m[down[x]]][down[x]]
    BY <2>1
  <2> HIDE DEF g
  <2>3. Is(F[m[x]], x)
    BY <1>6
  <2>4. QED
    BY <1>7, <2>2, <2>3
<1> HIDE DEF g
<1>10. QED
  BY <1>8, <1>9 DEF Recursive


-----------------------------------------------------------------------------
(* The buffer of the string functions.                                      *)

\* A buffer in which a text was built cleanly: the text, and zeros behind it.
Image(s) == [j \in S!Bytes |-> IF j < Len(s) THEN s[j + 1] ELSE 0]
Buffers == [S!Bytes -> Chars \cup {0}]

LEMMA StringsConstants ==
  /\ BufferSize \in Nat /\ BufferSize >= 2
  /\ Chars \subseteq Nat \ {0}
  /\ DELIM \in Chars /\ Words \subseteq Seq(Chars)
  /\ \A c \in Chars : S!ToLower(c) \in Chars /\ S!ToUpper(c) \in Chars
BY ScreenAssumption DEF S!StringsAssumption

\* strlen stops at the first zero, or where the buffer ends.
LEMMA StrLenIs ==
  ASSUME NEW b
  PROVE  /\ S!StrLen(b) \in 0 .. BufferSize
         /\ S!StrLen(b) = BufferSize \/ b[S!StrLen(b)] = 0
         /\ \A j \in 0 .. S!StrLen(b) - 1 : b[j] # 0
<1> DEFINE Ends == {k \in 0 .. BufferSize : k = BufferSize \/ b[k] = 0}
<1>1. BufferSize \in Nat
  BY StringsConstants
<1>2. Ends \subseteq Nat /\ BufferSize \in Ends
  BY <1>1
<1>3. PICK k \in Ends : \A j \in Ends : k <= j
  <2> HIDE DEF Ends
  <2>1. QED
    BY <1>2, Least
<1>4. k \in 0 .. BufferSize /\ (k = BufferSize \/ b[k] = 0)
  BY <1>3
<1>5. ASSUME NEW j \in 0 .. k - 1 PROVE b[j] # 0
  <2>1. j \in 0 .. BufferSize /\ ~(k <= j)
    BY <1>1, <1>4
  <2>2. j \notin Ends
    BY <1>3, <2>1
  <2>3. QED
    BY <2>1, <2>2
<1>6. QED
  BY <1>4, <1>5 DEF S!StrLen

\* And nowhere else.
LEMMA StrLenOnly ==
  ASSUME NEW b, NEW k \in 0 .. BufferSize, k = BufferSize \/ b[k] = 0,
         \A j \in 0 .. k - 1 : b[j] # 0
  PROVE  S!StrLen(b) = k
<1>1. BufferSize \in Nat
  BY StringsConstants
<1> DEFINE e == S!StrLen(b)
<1>2. /\ e \in 0 .. BufferSize /\ (e = BufferSize \/ b[e] = 0)
      /\ \A j \in 0 .. e - 1 : b[j] # 0
  BY StrLenIs
<1> HIDE DEF e
<1>3. ~(e < k)
  <2>1. SUFFICES ASSUME e < k PROVE FALSE
    OBVIOUS
  <2>2. e \in 0 .. k - 1 /\ e # BufferSize
    BY <1>1, <1>2, <2>1
  <2>3. QED
    BY <1>2, <2>2
<1>4. ~(k < e)
  <2>1. SUFFICES ASSUME k < e PROVE FALSE
    OBVIOUS
  <2>2. k \in 0 .. e - 1 /\ k # BufferSize
    BY <1>1, <1>2, <2>1
  <2>3. QED
    BY <1>2, <2>2
<1>5. e = k
  BY <1>1, <1>2, <1>3, <1>4
<1>6. QED
  BY <1>5 DEF e

\* What is read from a clean buffer is the text that it holds.
LEMMA ImageIs ==
  ASSUME NEW s \in Seq(Chars), Len(s) <= BufferSize
  PROVE  /\ Image(s) \in Buffers
         /\ S!StrLen(Image(s)) = Len(s)
         /\ S!StrOf(Image(s)) = s
<1>1. BufferSize \in Nat /\ Len(s) \in Nat /\ S!Bytes = 0 .. BufferSize - 1 /\ Chars \subseteq Nat \ {0}
  BY StringsConstants DEF S!Bytes
<1>2. \A j \in 1 .. Len(s) : s[j] \in Chars
  BY ElementOfSeq
<1>3. \A j \in 0 .. Len(s) - 1 : j \in S!Bytes /\ j + 1 \in 1 .. Len(s) /\ Image(s)[j] = s[j + 1]
  BY <1>1 DEF Image
<1>4. Image(s) \in Buffers
  <2>1. ASSUME NEW j \in S!Bytes PROVE (IF j < Len(s) THEN s[j + 1] ELSE 0) \in Chars \cup {0}
    <3>1. CASE j < Len(s)
      <4>1. j + 1 \in 1 .. Len(s)
        BY <1>1, <3>1
      <4>2. QED
        BY <1>2, <3>1, <4>1
    <3>2. CASE ~(j < Len(s))
      BY <3>2
    <3>3. QED
      BY <3>1, <3>2
  <2>2. QED
    BY <2>1 DEF Image, Buffers
<1>5. S!StrLen(Image(s)) = Len(s)
  <2>1. Len(s) = BufferSize \/ Image(s)[Len(s)] = 0
    <3>1. CASE Len(s) # BufferSize
      <4>1. Len(s) \in S!Bytes
        BY <1>1, <3>1
      <4>2. QED
        BY <1>1, <4>1 DEF Image
    <3>2. QED
      BY <3>1
  <2>2. \A j \in 0 .. Len(s) - 1 : Image(s)[j] # 0
    BY <1>1, <1>2, <1>3
  <2>3. Len(s) \in 0 .. BufferSize
    BY <1>1
  <2>4. QED
    BY <2>1, <2>2, <2>3, StrLenOnly
<1>6. S!StrOf(Image(s)) = s
  <2>1. S!StrOf(Image(s)) = [j \in 1 .. Len(s) |-> Image(s)[j - 1]]
    BY <1>5 DEF S!StrOf
  <2>2. \A j \in 1 .. Len(s) : j - 1 \in 0 .. Len(s) - 1 /\ (j - 1) + 1 = j
    BY <1>1
  <2>3. \A j \in 1 .. Len(s) : Image(s)[j - 1] = s[j]
    BY <1>3, <2>2
  <2>4. s = [j \in 1 .. Len(s) |-> s[j]]
    BY LenProperties
  <2>5. QED
    BY <2>1, <2>3, <2>4
<1>7. QED
  BY <1>4, <1>5, <1>6

\* Two buffers are the same if their bytes are.
LEMMA SameImage ==
  ASSUME NEW b, NEW s \in Seq(Chars), b = [j \in S!Bytes |-> b[j]],
         \A j \in S!Bytes : b[j] = IF j < Len(s) THEN s[j + 1] ELSE 0
  PROVE  b = Image(s)
BY DEF Image

-----------------------------------------------------------------------------
(* The functions on clean buffers.                                          *)

LEMMA StoredIs ==
  ASSUME NEW b, NEW k, NEW s, NEW j \in S!Bytes
  PROVE  /\ S!Stored(b, k, s) = [m \in S!Bytes |-> S!Stored(b, k, s)[m]]
         /\ S!Stored(b, k, s)[j] = IF j >= k /\ j < k + Len(s) THEN s[j - k + 1] ELSE b[j]
BY DEF S!Stored

LEMMA AddIs ==
  ASSUME NEW s \in Seq(Chars), NEW c \in Chars, Len(s) + 1 < BufferSize
  PROVE  /\ Append(s, c) \in Seq(Chars) /\ Len(Append(s, c)) = Len(s) + 1
         /\ S!StrAdd(Image(s), c) = Image(Append(s, c))
<1> DEFINE t == Append(s, c)
           b == S!StrAdd(Image(s), c)
<1>1. /\ BufferSize \in Nat /\ Len(s) \in Nat /\ S!Bytes = 0 .. BufferSize - 1
  BY StringsConstants DEF S!Bytes
<1>2. /\ t \in Seq(Chars) /\ Len(t) = Len(s) + 1
      /\ \A j \in 1 .. Len(s) : t[j] = s[j]
      /\ t[Len(s) + 1] = c
  BY AppendProperties
<1>3. b = S!Stored(Image(s), Len(s), <<c, 0>>)
  BY <1>1, ImageIs DEF S!StrAdd
<1>4. ASSUME NEW j \in S!Bytes PROVE b[j] = IF j < Len(t) THEN t[j + 1] ELSE 0
  <2>1. b[j] = IF j >= Len(s) /\ j < Len(s) + 2 THEN <<c, 0>>[j - Len(s) + 1] ELSE Image(s)[j]
    <3>1. \A z : S!Stored(Image(s), Len(s), z)[j] =
            IF j >= Len(s) /\ j < Len(s) + Len(z) THEN z[j - Len(s) + 1] ELSE Image(s)[j]
      BY DEF S!Stored
    <3>2. Len(<<c, 0>>) = 2
      OBVIOUS
    <3>3. b[j] = IF j >= Len(s) /\ j < Len(s) + Len(<<c, 0>>) THEN <<c, 0>>[j - Len(s) + 1] ELSE Image(s)[j]
      BY <1>3, <3>1
    <3>4. QED
      BY <3>2, <3>3
  <2>2. Image(s)[j] = IF j < Len(s) THEN s[j + 1] ELSE 0
    BY DEF Image
  <2>3. CASE j < Len(s)
    <3>1. b[j] = s[j + 1] /\ j + 1 \in 1 .. Len(s) /\ j < Len(t)
      BY <1>1, <1>2, <2>1, <2>2, <2>3
    <3>2. QED
      BY <1>2, <3>1
  <2>4. CASE j = Len(s)
    <3>1. j - Len(s) + 1 = 1 /\ j >= Len(s) /\ j < Len(s) + 2 /\ j < Len(t)
      BY <1>1, <1>2, <2>4
    <3>2. b[j] = c
      BY <2>1, <3>1
    <3>3. QED
      BY <1>2, <2>4, <3>1, <3>2
  <2>5. CASE j = Len(s) + 1
    <3>1. j - Len(s) + 1 = 2 /\ j >= Len(s) /\ j < Len(s) + 2 /\ ~(j < Len(t))
      BY <1>1, <1>2, <2>5
    <3>2. QED
      BY <2>1, <3>1
  <2>6. CASE j > Len(s) + 1
    <3>1. ~(j < Len(s) + 2) /\ ~(j < Len(s)) /\ ~(j < Len(t))
      BY <1>1, <1>2, <2>6
    <3>2. QED
      BY <2>1, <2>2, <3>1
  <2>7. QED
    BY <1>1, <2>3, <2>4, <2>5, <2>6
<1>5. b = [j \in S!Bytes |-> b[j]]
  BY <1>3 DEF S!Stored
<1> HIDE DEF b, t
<1>6. b = Image(t)
  BY <1>2, <1>4, <1>5, SameImage
<1>7. QED
  BY <1>2, <1>6 DEF b, t

LEMMA CatIs ==
  ASSUME NEW s \in Seq(Chars), NEW v \in Seq(Chars), Len(s) + Len(v) < BufferSize
  PROVE  /\ s \o v \in Seq(Chars) /\ Len(s \o v) = Len(s) + Len(v)
         /\ S!StrCat(Image(s), v) = Image(s \o v)
<1> DEFINE t == s \o v
           d == S!Stored(Image(s), Len(s), v)
<1>1. /\ BufferSize \in Nat /\ Len(s) \in Nat /\ Len(v) \in Nat /\ S!Bytes = 0 .. BufferSize - 1
  BY StringsConstants DEF S!Bytes
<1>2. /\ t \in Seq(Chars) /\ Len(t) = Len(s) + Len(v)
      /\ \A j \in 1 .. Len(s) + Len(v) : t[j] = IF j <= Len(s) THEN s[j] ELSE v[j - Len(s)]
  BY ConcatProperties
<1>3. ASSUME NEW j \in S!Bytes PROVE d[j] = IF j < Len(t) THEN t[j + 1] ELSE 0
  <2>1. d[j] = IF j >= Len(s) /\ j < Len(s) + Len(v) THEN v[j - Len(s) + 1] ELSE Image(s)[j]
    BY StoredIs
  <2>2. Image(s)[j] = IF j < Len(s) THEN s[j + 1] ELSE 0
    BY DEF Image
  <2>3. CASE j < Len(s)
    <3>1. d[j] = s[j + 1] /\ j + 1 \in 1 .. Len(s) + Len(v) /\ j + 1 <= Len(s) /\ j < Len(t)
      BY <1>1, <1>2, <2>1, <2>2, <2>3
    <3>2. QED
      BY <1>2, <3>1
  <2>4. CASE j >= Len(s) /\ j < Len(s) + Len(v)
    <3>1. d[j] = v[j - Len(s) + 1] /\ j + 1 \in 1 .. Len(s) + Len(v) /\ ~(j + 1 <= Len(s))
          /\ j < Len(t) /\ (j + 1) - Len(s) = j - Len(s) + 1
      BY <1>1, <1>2, <2>1, <2>4
    <3>2. t[j + 1] = v[(j + 1) - Len(s)]
      BY <1>2, <3>1
    <3>3. QED
      BY <3>1, <3>2
  <2>5. CASE j >= Len(s) + Len(v)
    <3>1. ~(j < Len(s)) /\ ~(j < Len(s) + Len(v)) /\ ~(j < Len(t))
      BY <1>1, <1>2, <2>5
    <3>2. QED
      BY <2>1, <2>2, <3>1
  <2>6. QED
    BY <1>1, <2>3, <2>4, <2>5
<1>4. d = [j \in S!Bytes |-> d[j]]
  BY DEF S!Stored
<1>5. S!StrCat(Image(s), v) = [d EXCEPT ![S!StrLen(d)] = 0]
  <2>1. Len(s) <= BufferSize
    BY <1>1
  <2>2. S!StrLen(Image(s)) = Len(s)
    BY <2>1, ImageIs
  <2>3. QED
    BY <2>2 DEF S!StrCat
<1> HIDE DEF d, t
<1>6. d = Image(t)
  BY <1>2, <1>3, <1>4, SameImage
<1>7. S!StrLen(d) = Len(t) /\ d \in Buffers
  BY <1>1, <1>2, <1>6, ImageIs
<1>8. Len(t) \in S!Bytes /\ d[Len(t)] = 0
  <2>1. Len(t) \in S!Bytes
    BY <1>1, <1>2
  <2>2. ~(Len(t) < Len(t))
    BY <1>1, <1>2
  <2>3. QED
    BY <1>3, <2>1, <2>2
<1>9. [d EXCEPT ![S!StrLen(d)] = 0] = d
  BY <1>4, <1>7, <1>8
<1>10. QED
  BY <1>2, <1>5, <1>6, <1>9 DEF t

LEMMA CpyIs ==
  ASSUME NEW s \in Seq(Chars), NEW v \in Seq(Chars), Len(s) <= BufferSize, Len(v) <= BufferSize
  PROVE  /\ T!Over(v, s) \in Seq(Chars)
         /\ Len(T!Over(v, s)) = IF Len(v) < Len(s) THEN Len(s) ELSE Len(v)
         /\ S!StrCpy(Image(s), v) = Image(T!Over(v, s))
<1> DEFINE u == SubSeq(s, Len(v) + 1, Len(s))
           t == v \o u
           d == S!Stored(Image(s), 0, v)
<1>1. /\ BufferSize \in Nat /\ Len(s) \in Nat /\ Len(v) \in Nat /\ S!Bytes = 0 .. BufferSize - 1
  BY StringsConstants DEF S!Bytes
<1>2. /\ u \in Seq(Chars)
      /\ Len(u) = IF Len(v) + 1 <= Len(s) THEN Len(s) - Len(v) ELSE 0
      /\ \A j \in 1 .. Len(s) - Len(v) : u[j] = s[Len(v) + j]
  <2>1. \A j \in Len(v) + 1 .. Len(s) : s[j] \in Chars
    BY <1>1, ElementOfSeq
  <2>2. Len(v) + 1 \in Int /\ Len(s) \in Int
    BY <1>1
  <2>3. /\ u \in Seq(Chars)
        /\ Len(u) = IF Len(v) + 1 <= Len(s) THEN Len(s) - (Len(v) + 1) + 1 ELSE 0
        /\ \A j \in 1 .. Len(s) - (Len(v) + 1) + 1 : u[j] = s[(Len(v) + 1) + j - 1]
    BY <2>1, <2>2, SubSeqProperties
  <2>4. Len(s) - (Len(v) + 1) + 1 = Len(s) - Len(v)
    BY <1>1
  <2>5. \A j \in 1 .. Len(s) - Len(v) : (Len(v) + 1) + j - 1 = Len(v) + j
    BY <1>1
  <2> HIDE DEF u
  <2>6. QED
    BY <2>3, <2>4, <2>5
<1> HIDE DEF u
<1>3. /\ t \in Seq(Chars) /\ Len(t) = Len(v) + Len(u)
      /\ \A j \in 1 .. Len(v) + Len(u) : t[j] = IF j <= Len(v) THEN v[j] ELSE u[j - Len(v)]
  BY <1>2, ConcatProperties
<1>4. Len(t) = IF Len(v) < Len(s) THEN Len(s) ELSE Len(v)
  BY <1>1, <1>2, <1>3
<1> HIDE DEF t
<1>5. ASSUME NEW j \in S!Bytes PROVE d[j] = IF j < Len(t) THEN t[j + 1] ELSE 0
  <2>1. d[j] = IF j >= 0 /\ j < 0 + Len(v) THEN v[j - 0 + 1] ELSE Image(s)[j]
    BY StoredIs
  <2>2. Image(s)[j] = IF j < Len(s) THEN s[j + 1] ELSE 0
    BY DEF Image
  <2>3. CASE j < Len(v)
    <3>1. d[j] = v[j + 1] /\ j + 1 \in 1 .. Len(v) + Len(u) /\ j + 1 <= Len(v) /\ j < Len(t)
      <4>1. j >= 0 /\ j < 0 + Len(v) /\ j - 0 + 1 = j + 1
        BY <1>1, <2>3
      <4>2. j + 1 \in 1 .. Len(v) + Len(u) /\ j + 1 <= Len(v) /\ j < Len(t)
        BY <1>1, <1>2, <1>3, <2>3
      <4>3. QED
        BY <2>1, <4>1, <4>2
    <3>2. QED
      BY <1>3, <3>1
  <2>4. CASE j >= Len(v) /\ j < Len(s)
    <3>1. /\ ~(j < 0 + Len(v)) /\ j < Len(t) /\ ~(j + 1 <= Len(v))
          /\ (j + 1) - Len(v) \in 1 .. Len(s) - Len(v) /\ Len(v) + ((j + 1) - Len(v)) = j + 1
      BY <1>1, <1>4, <2>4
    <3>2. j + 1 \in 1 .. Len(v) + Len(u)
      BY <1>1, <1>3, <1>4, <2>4
    <3>3. d[j] = s[j + 1]
      BY <2>1, <2>2, <2>4, <3>1
    <3>4. t[j + 1] = u[(j + 1) - Len(v)]
      BY <1>3, <3>1, <3>2
    <3>5. u[(j + 1) - Len(v)] = s[j + 1]
      BY <1>2, <3>1
    <3>6. QED
      BY <3>1, <3>3, <3>4, <3>5
  <2>5. CASE j >= Len(v) /\ j >= Len(s)
    <3>1. ~(j < 0 + Len(v)) /\ ~(j < Len(s)) /\ ~(j < Len(t))
      BY <1>1, <1>4, <2>5
    <3>2. QED
      BY <2>1, <2>2, <3>1
  <2>6. QED
    BY <1>1, <2>3, <2>4, <2>5
<1>6. d = [j \in S!Bytes |-> d[j]]
  BY DEF S!Stored
<1>7. S!StrCpy(Image(s), v) = d
  BY DEF S!StrCpy
<1> HIDE DEF d
<1>8. d = Image(t)
  BY <1>3, <1>5, <1>6, SameImage
<1>9. T!Over(v, s) = t
  BY DEF T!Over, t, u
<1>10. QED
  BY <1>3, <1>4, <1>7, <1>8, <1>9

LEMMA BackIs ==
  ASSUME NEW s \in Seq(Chars), Len(s) \in 1 .. BufferSize
  PROVE  /\ SubSeq(s, 1, Len(s) - 1) \in Seq(Chars)
         /\ Len(SubSeq(s, 1, Len(s) - 1)) = Len(s) - 1
         /\ S!StrBack(Image(s)) = Image(SubSeq(s, 1, Len(s) - 1))
<1> DEFINE t == SubSeq(s, 1, Len(s) - 1)
           d == [Image(s) EXCEPT ![Len(s) - 1] = 0]
<1>1. /\ BufferSize \in Nat /\ Len(s) \in Nat /\ S!Bytes = 0 .. BufferSize - 1
  BY StringsConstants DEF S!Bytes
<1>2. /\ t \in Seq(Chars) /\ Len(t) = Len(s) - 1
      /\ \A j \in 1 .. Len(s) - 1 : t[j] = s[j]
  <2>1. \A j \in 1 .. Len(s) - 1 : s[j] \in Chars
    BY <1>1, ElementOfSeq
  <2>2. 1 \in Int /\ Len(s) - 1 \in Int
    BY <1>1
  <2>3. /\ t \in Seq(Chars)
        /\ Len(t) = IF 1 <= Len(s) - 1 THEN (Len(s) - 1) - 1 + 1 ELSE 0
        /\ \A j \in 1 .. (Len(s) - 1) - 1 + 1 : t[j] = s[1 + j - 1]
    BY <2>1, <2>2, SubSeqProperties
  <2>4. (Len(s) - 1) - 1 + 1 = Len(s) - 1
    BY <1>1
  <2>5. \A j \in 1 .. Len(s) - 1 : 1 + j - 1 = j
    BY <1>1
  <2> HIDE DEF t
  <2>6. Len(t) = Len(s) - 1
    <3>1. Len(s) \in Nat /\ Len(s) >= 1
      BY <1>1
    <3>2. Len(t) = IF 1 <= Len(s) - 1 THEN Len(s) - 1 ELSE 0
      BY <2>3, <2>4
    <3> DEFINE m == Len(t)
               k == Len(s)
    <3>3. k \in Nat /\ k >= 1 /\ m = IF 1 <= k - 1 THEN k - 1 ELSE 0
      BY <3>1, <3>2
    <3> HIDE DEF m, k
    <3>4. m = k - 1
      BY <3>3
    <3>5. QED
      BY <3>4 DEF m, k
  <2>7. QED
    BY <2>3, <2>4, <2>5, <2>6
<1> HIDE DEF t
<1>3. S!StrBack(Image(s)) = d
  <2>1. Len(s) <= BufferSize
    BY <1>1
  <2>2. S!StrLen(Image(s)) = Len(s)
    BY <2>1, ImageIs
  <2>3. QED
    BY <2>2 DEF S!StrBack
<1>4. ASSUME NEW j \in S!Bytes PROVE d[j] = IF j < Len(t) THEN t[j + 1] ELSE 0
  <2>1. d[j] = IF j = Len(s) - 1 THEN 0 ELSE Image(s)[j]
    BY DEF Image
  <2>2. Image(s)[j] = IF j < Len(s) THEN s[j + 1] ELSE 0
    BY DEF Image
  <2>3. CASE j < Len(s) - 1
    <3>1. j + 1 \in 1 .. Len(s) - 1 /\ j < Len(s) /\ j # Len(s) - 1 /\ j < Len(t)
      BY <1>1, <1>2, <2>3
    <3>2. QED
      BY <1>2, <2>1, <2>2, <3>1
  <2>4. CASE ~(j < Len(s) - 1)
    <3>1. ~(j < Len(t)) /\ (j = Len(s) - 1 \/ ~(j < Len(s)))
      BY <1>1, <1>2, <2>4
    <3>2. QED
      BY <2>1, <2>2, <3>1
  <2>5. QED
    BY <2>3, <2>4
<1>5. d = [j \in S!Bytes |-> d[j]]
  BY DEF Image
<1> HIDE DEF d
<1>6. d = Image(t)
  BY <1>2, <1>4, <1>5, SameImage
<1>7. QED
  BY <1>2, <1>3, <1>6 DEF t

LEMMA RevIs ==
  ASSUME NEW s \in Seq(Chars), Len(s) <= BufferSize
  PROVE  /\ T!Backwards(s) \in Seq(Chars) /\ Len(T!Backwards(s)) = Len(s)
         /\ S!StrRev(Image(s)) = Image(T!Backwards(s))
<1> DEFINE t == T!Backwards(s)
           d == S!StrRev(Image(s))
<1>1. /\ BufferSize \in Nat /\ Len(s) \in Nat /\ S!Bytes = 0 .. BufferSize - 1
  BY StringsConstants DEF S!Bytes
<1>2. t = [j \in 1 .. Len(s) |-> s[Len(s) - j + 1]]
  BY DEF T!Backwards
<1>3. \A j \in 1 .. Len(s) : Len(s) - j + 1 \in 1 .. Len(s) /\ s[Len(s) - j + 1] \in Chars
  <2>1. \A j \in 1 .. Len(s) : Len(s) - j + 1 \in 1 .. Len(s)
    BY <1>1
  <2>2. QED
    BY <2>1, ElementOfSeq
<1> HIDE DEF t
<1>4. t \in Seq(Chars) /\ Len(t) = Len(s)
  BY <1>1, <1>2, <1>3
<1>5. d = [j \in S!Bytes |-> IF j < Len(s) THEN Image(s)[Len(s) - 1 - j] ELSE Image(s)[j]]
  BY ImageIs DEF S!StrRev
<1>6. ASSUME NEW j \in S!Bytes PROVE d[j] = IF j < Len(t) THEN t[j + 1] ELSE 0
  <2>1. CASE j < Len(s)
    <3>1. /\ Len(s) - 1 - j \in S!Bytes /\ Len(s) - 1 - j < Len(s)
          /\ (Len(s) - 1 - j) + 1 = Len(s) - (j + 1) + 1 /\ j + 1 \in 1 .. Len(s)
      BY <1>1, <2>1
    <3>2. d[j] = Image(s)[Len(s) - 1 - j]
      BY <1>5, <2>1
    <3>3. Image(s)[Len(s) - 1 - j] = s[(Len(s) - 1 - j) + 1]
      BY <3>1 DEF Image
    <3>4. t[j + 1] = s[Len(s) - (j + 1) + 1]
      BY <1>2, <3>1
    <3>5. QED
      BY <1>4, <2>1, <3>1, <3>2, <3>3, <3>4
  <2>2. CASE ~(j < Len(s))
    <3>1. d[j] = Image(s)[j] /\ Image(s)[j] = 0
      BY <1>5, <2>2 DEF Image
    <3>2. QED
      BY <1>4, <2>2, <3>1
  <2>3. QED
    BY <2>1, <2>2
<1>7. d = [j \in S!Bytes |-> d[j]]
  BY <1>5
<1> HIDE DEF d
<1>8. d = Image(t)
  BY <1>4, <1>6, <1>7, SameImage
<1>9. QED
  BY <1>4, <1>8 DEF t, d

LEMMA RecodedIs ==
  ASSUME NEW s \in Seq(Chars), Len(s) <= BufferSize, NEW f \in [Chars -> Chars], NEW d,
         d = [j \in S!Bytes |-> IF j < Len(s) THEN f[Image(s)[j]] ELSE Image(s)[j]]
  PROVE  /\ T!Mapped(f, s) \in Seq(Chars) /\ Len(T!Mapped(f, s)) = Len(s)
         /\ d = Image(T!Mapped(f, s))
<1> DEFINE t == T!Mapped(f, s)
<1>1. /\ BufferSize \in Nat /\ Len(s) \in Nat /\ S!Bytes = 0 .. BufferSize - 1
  BY StringsConstants DEF S!Bytes
<1>2. t = [j \in 1 .. Len(s) |-> f[s[j]]]
  BY DEF T!Mapped
<1>3. \A j \in 1 .. Len(s) : s[j] \in Chars /\ f[s[j]] \in Chars
  BY ElementOfSeq
<1> HIDE DEF t
<1>4. t \in Seq(Chars) /\ Len(t) = Len(s)
  BY <1>1, <1>2, <1>3
<1>5. ASSUME NEW j \in S!Bytes PROVE d[j] = IF j < Len(t) THEN t[j + 1] ELSE 0
  <2>1. Image(s)[j] = IF j < Len(s) THEN s[j + 1] ELSE 0
    BY DEF Image
  <2>2. CASE j < Len(s)
    <3>1. j + 1 \in 1 .. Len(s)
      BY <1>1, <2>2
    <3>2. QED
      BY <1>2, <1>4, <2>1, <2>2, <3>1
  <2>3. CASE ~(j < Len(s))
    BY <1>4, <2>1, <2>3
  <2>4. QED
    BY <2>2, <2>3
<1>6. d = Image(t)
  BY <1>4, <1>5, SameImage
<1>7. QED
  BY <1>4, <1>6 DEF t

LowerCase == [c \in Chars |-> S!ToLower(c)]
UpperCase == [c \in Chars |-> S!ToUpper(c)]

LEMMA CaseIs ==
  ASSUME NEW s \in Seq(Chars), Len(s) <= BufferSize
  PROVE  /\ T!Mapped(LowerCase, s) \in Seq(Chars) /\ Len(T!Mapped(LowerCase, s)) = Len(s)
         /\ S!StrLower(Image(s)) = Image(T!Mapped(LowerCase, s))
         /\ T!Mapped(UpperCase, s) \in Seq(Chars) /\ Len(T!Mapped(UpperCase, s)) = Len(s)
         /\ S!StrUpper(Image(s)) = Image(T!Mapped(UpperCase, s))
<1>1. LowerCase \in [Chars -> Chars] /\ UpperCase \in [Chars -> Chars]
  BY StringsConstants DEF LowerCase, UpperCase
<1>2. S!StrLen(Image(s)) = Len(s) /\ Len(s) \in Nat
  BY ImageIs
<1>3. ASSUME NEW j \in S!Bytes, j < Len(s) PROVE Image(s)[j] \in Chars
  <2>1. j + 1 \in 1 .. Len(s)
    BY <1>2, <1>3, StringsConstants DEF S!Bytes
  <2>2. s[j + 1] \in Chars
    BY <2>1, ElementOfSeq
  <2>3. QED
    BY <1>3, <2>2 DEF Image
<1>4. S!StrLower(Image(s)) = [j \in S!Bytes |-> IF j < Len(s) THEN LowerCase[Image(s)[j]] ELSE Image(s)[j]]
  BY <1>2, <1>3 DEF S!StrLower, LowerCase
<1>5. S!StrUpper(Image(s)) = [j \in S!Bytes |-> IF j < Len(s) THEN UpperCase[Image(s)[j]] ELSE Image(s)[j]]
  BY <1>2, <1>3 DEF S!StrUpper, UpperCase
<1>6. /\ T!Mapped(LowerCase, s) \in Seq(Chars) /\ Len(T!Mapped(LowerCase, s)) = Len(s)
      /\ S!StrLower(Image(s)) = Image(T!Mapped(LowerCase, s))
  BY <1>1, <1>4, RecodedIs
<1>7. /\ T!Mapped(UpperCase, s) \in Seq(Chars) /\ Len(T!Mapped(UpperCase, s)) = Len(s)
      /\ S!StrUpper(Image(s)) = Image(T!Mapped(UpperCase, s))
  BY <1>1, <1>5, RecodedIs
<1>8. QED
  BY <1>6, <1>7


-----------------------------------------------------------------------------
(* The inductive invariant of the buffer, and its text.                     *)

\* The buffer holds a text cleanly, and fills up only with a name.
Clean == \E s \in Seq(Chars) : Len(s) <= BufferSize /\ buf = Image(s)
StringsIInv ==
  /\ Clean
  /\ copied \in Nat
  /\ S!StrLen(buf) = BufferSize => copied = BufferSize

\* A clean buffer is that of the text which is read from it.
LEMMA CleanIs ==
  ASSUME Clean
  PROVE  /\ S!StrOf(buf) \in Seq(Chars) /\ Len(S!StrOf(buf)) = S!StrLen(buf)
         /\ S!StrLen(buf) \in 0 .. BufferSize /\ S!StrLen(buf) <= BufferSize
         /\ buf = Image(S!StrOf(buf))
<1>1. PICK s \in Seq(Chars) : Len(s) <= BufferSize /\ buf = Image(s)
  BY DEF Clean
<1>2. S!StrOf(buf) = s /\ S!StrLen(buf) = Len(s)
  BY <1>1, ImageIs
<1>3. Len(s) \in Nat /\ BufferSize \in Nat
  BY StringsConstants
<1>4. QED
  BY <1>1, <1>2, <1>3

\* What a step leaves in the buffer is the text that the promise allows.
Builds(t) ==
  /\ t \in Seq(Chars) /\ Len(t) <= BufferSize
  /\ buf' = Image(t)

LEMMA BuildsIs ==
  ASSUME NEW t, Builds(t)
  PROVE  Clean' /\ S!StrOf(buf)' = t /\ S!StrLen(buf)' = Len(t)
<1>1. S!StrOf(Image(t)) = t /\ S!StrLen(Image(t)) = Len(t)
  BY ImageIs DEF Builds
<1>2. Clean'
  BY DEF Clean, Builds
<1>3. S!StrOf(buf') = t /\ S!StrLen(buf') = Len(t)
  BY <1>1 DEF Builds
<1>4. QED
  BY <1>2, <1>3

LEMMA ZerosAre == S!Zeros = Image(<<>>) /\ <<>> \in Seq(Chars) /\ Len(<<>>) = 0
<1>1. <<>> \in Seq(Chars) /\ Len(<<>>) = 0
  BY EmptySeq
<1>2. \A j \in S!Bytes : ~(j < 0)
  BY StringsConstants DEF S!Bytes
<1>3. QED
  BY <1>1, <1>2 DEF S!Zeros, Image

\* The text as it stands, and how much of the buffer it fills.
Text == S!StrOf(buf)

\* The first characters of a source.
LEMMA PrefixIs ==
  ASSUME NEW v \in Words, NEW k \in 0 .. Len(v)
  PROVE  /\ SubSeq(v, 1, k) \in Seq(Chars) /\ Len(SubSeq(v, 1, k)) = k
         /\ SubSeq(v, 1, k) \in T!Prefixes(v)
<1>1. v \in Seq(Chars) /\ Len(v) \in Nat
  BY StringsConstants
<1>2. \A j \in 1 .. k : v[j] \in Chars
  BY <1>1, ElementOfSeq
<1>3. 1 \in Int /\ k \in Int
  BY <1>1
<1>4. SubSeq(v, 1, k) \in Seq(Chars) /\ Len(SubSeq(v, 1, k)) = IF 1 <= k THEN k - 1 + 1 ELSE 0
  BY <1>2, <1>3, SubSeqProperties
<1>5. (IF 1 <= k THEN k - 1 + 1 ELSE 0) = k
  BY <1>1
<1>6. QED
  BY <1>4, <1>5 DEF T!Prefixes

LEMMA StringsStep ==
  ASSUME StringsIInv, S!Next
  PROVE  StringsIInv' /\ (T!Next \/ Text' = Text)
<1>1. /\ Text \in Seq(Chars) /\ Len(Text) = S!StrLen(buf) /\ Len(Text) <= BufferSize
      /\ Len(Text) \in Nat /\ buf = Image(Text)
      /\ BufferSize \in Nat /\ BufferSize >= 2 /\ copied \in Nat
      /\ Len(Text) = BufferSize => copied = BufferSize
  BY CleanIs, StringsConstants DEF StringsIInv, Text
<1>2. ASSUME NEW t, Builds(t), copied' \in Nat, Len(t) = BufferSize => copied' = BufferSize
      PROVE  StringsIInv' /\ Text' = t
  BY <1>2, BuildsIs DEF StringsIInv, Text
<1>3. CASE S!Clear
  <2>1. buf' = Image(<<>>) /\ copied' = 0
    BY <1>3, ZerosAre DEF S!Clear
  <2>2. Builds(<<>>) /\ Len(<<>>) # BufferSize
    BY <1>1, <2>1, ZerosAre DEF Builds
  <2>3. StringsIInv' /\ Text' = <<>>
    BY <1>2, <2>1, <2>2
  <2>4. QED
    BY <2>3 DEF T!Next, Text
<1>4. CASE S!Back
  <2>1. Len(Text) \in 1 .. BufferSize /\ buf' = S!StrBack(buf) /\ copied' = copied
    BY <1>1, <1>4 DEF S!Back
  <2> DEFINE t == SubSeq(Text, 1, Len(Text) - 1)
  <2>2. t \in Seq(Chars) /\ Len(t) = Len(Text) - 1 /\ S!StrBack(Image(Text)) = Image(t)
    BY <1>1, <2>1, BackIs
  <2> HIDE DEF t
  <2>3. Len(t) <= BufferSize /\ Len(t) # BufferSize
    BY <1>1, <2>1, <2>2
  <2>4. buf' = Image(t)
    BY <1>1, <2>1, <2>2
  <2>5. Builds(t)
    BY <2>2, <2>3, <2>4 DEF Builds
  <2>6. StringsIInv' /\ Text' = t
    BY <1>1, <1>2, <2>1, <2>3, <2>5
  <2>7. Text # <<>>
    BY <2>1
  <2>8. QED
    BY <2>6, <2>7 DEF T!Next, Text, t
<1>5. CASE S!Recode
  <2>1. buf' \in {S!StrRev(buf), S!StrLower(buf), S!StrUpper(buf)} /\ copied' = copied
    BY <1>5 DEF S!Recode
  <2>2. ASSUME NEW t \in Seq(Chars), Len(t) = Len(Text), buf' = Image(t)
        PROVE  StringsIInv' /\ Text' = t
    <3>1. Builds(t)
      BY <1>1, <2>2 DEF Builds
    <3>2. QED
      BY <1>1, <1>2, <2>1, <2>2, <3>1
  <2>3. CASE buf' = S!StrRev(buf)
    <3>1. StringsIInv' /\ Text' = T!Backwards(Text)
      BY <1>1, <2>2, <2>3, RevIs
    <3>2. QED
      BY <3>1 DEF T!Next, Text
  <2>4. CASE buf' = S!StrLower(buf)
    <3>1. StringsIInv' /\ Text' = T!Mapped(LowerCase, Text)
      BY <1>1, <2>2, <2>4, CaseIs
    <3>2. QED
      BY <3>1 DEF T!Next, Text, LowerCase
  <2>5. CASE buf' = S!StrUpper(buf)
    <3>1. StringsIInv' /\ Text' = T!Mapped(UpperCase, Text)
      BY <1>1, <2>2, <2>5, CaseIs
    <3>2. QED
      BY <3>1 DEF T!Next, Text, UpperCase
  <2>6. QED
    BY <2>1, <2>3, <2>4, <2>5
<1>6. ASSUME NEW c \in Chars, S!Add(c) PROVE StringsIInv' /\ T!Next
  <2>1. Len(Text) + 1 < BufferSize /\ buf' = S!StrAdd(buf, c) /\ copied' = copied
    BY <1>1, <1>6 DEF S!Add, S!Room
  <2>2. /\ Append(Text, c) \in Seq(Chars) /\ Len(Append(Text, c)) = Len(Text) + 1
        /\ S!StrAdd(Image(Text), c) = Image(Append(Text, c))
    BY <1>1, <2>1, AddIs
  <2> DEFINE t == Append(Text, c)
  <2> HIDE DEF t
  <2>3. Builds(t) /\ Len(t) # BufferSize
    <3>1. Len(t) <= BufferSize /\ Len(t) # BufferSize
      BY <1>1, <2>1, <2>2 DEF t
    <3>2. QED
      BY <1>1, <2>1, <2>2, <3>1 DEF Builds, t
  <2>4. StringsIInv' /\ Text' = t
    BY <1>1, <1>2, <2>1, <2>3
  <2>5. QED
    BY <2>4 DEF T!Next, Text, t
<1>7. ASSUME NEW v \in Words, NEW k \in 0 .. Len(v), S!Cat(SubSeq(v, 1, k)) PROVE StringsIInv' /\ T!Next
  <2> DEFINE p == SubSeq(v, 1, k)
             t == Text \o p
  <2>1. p \in Seq(Chars) /\ Len(p) = k /\ p \in T!Prefixes(v) /\ k \in Nat
    BY PrefixIs
  <2> HIDE DEF p
  <2>2. Len(Text) + Len(p) < BufferSize /\ buf' = S!StrCat(buf, p) /\ copied' = copied
    BY <1>1, <1>7 DEF S!Cat, S!Room, p
  <2>3. t \in Seq(Chars) /\ Len(t) = Len(Text) + Len(p) /\ S!StrCat(Image(Text), p) = Image(t)
    BY <1>1, <2>1, <2>2, CatIs
  <2> HIDE DEF t
  <2>4. Len(t) <= BufferSize /\ Len(t) # BufferSize
    BY <1>1, <2>1, <2>2, <2>3
  <2>5. Builds(t)
    BY <1>1, <2>2, <2>3, <2>4 DEF Builds
  <2>6. StringsIInv' /\ Text' = t
    BY <1>1, <1>2, <2>2, <2>4, <2>5
  <2>7. QED
    BY <2>1, <2>6 DEF T!Next, Text, t
<1>8. ASSUME NEW v \in Words, NEW k \in 0 .. Len(v), S!Cpy(SubSeq(v, 1, k)) PROVE StringsIInv' /\ T!Next
  <2> DEFINE p == SubSeq(v, 1, k)
             t == T!Over(p, Text)
  <2>1. p \in Seq(Chars) /\ Len(p) = k /\ p \in T!Prefixes(v) /\ k \in Nat
    BY PrefixIs
  <2> HIDE DEF p
  <2>2. Len(p) < BufferSize /\ buf' = S!StrCpy(buf, p) /\ copied' = copied
    BY <1>8 DEF S!Cpy, p
  <2>3. Len(p) <= BufferSize
    BY <1>1, <2>1, <2>2
  <2>4. /\ t \in Seq(Chars) /\ Len(t) = IF Len(p) < Len(Text) THEN Len(Text) ELSE Len(p)
        /\ S!StrCpy(Image(Text), p) = Image(t)
    BY <1>1, <2>1, <2>3, CpyIs
  <2> HIDE DEF t
  <2>5. Len(t) <= BufferSize /\ (Len(t) = BufferSize => Len(Text) = BufferSize)
    BY <1>1, <2>1, <2>2, <2>4
  <2>6. Builds(t)
    BY <1>1, <2>2, <2>4, <2>5 DEF Builds
  <2>7. StringsIInv' /\ Text' = t
    BY <1>1, <1>2, <2>2, <2>5, <2>6
  <2>8. QED
    BY <2>1, <2>7 DEF T!Next, Text, t
<1>9. ASSUME NEW v \in Words, S!CopyName(v) PROVE StringsIInv' /\ T!Next
  <2>1. v \in Seq(Chars) /\ Len(v) \in Nat
    BY StringsConstants
  <2>2. Len(v) <= BufferSize /\ buf' = S!StrLower(S!StrCpy(S!Zeros, v)) /\ copied' = Len(v)
    BY <1>9 DEF S!CopyName
  <2>3. T!Over(v, <<>>) = v
    <3>1. Len(v) + 1 \in Int /\ 0 \in Int /\ 0 < Len(v) + 1
      BY <2>1
    <3>2. SubSeq(<<>>, Len(v) + 1, 0) = <<>>
      BY <3>1, SubSeqEmpty
    <3>3. QED
      BY <2>1, <3>2, ZerosAre, ConcatEmptySeq DEF T!Over
  <2>4. S!StrCpy(Image(<<>>), v) = Image(v)
    <3>1. Len(<<>>) <= BufferSize
      BY <1>1, ZerosAre
    <3>2. QED
      BY <2>1, <2>2, <2>3, <3>1, ZerosAre, CpyIs
  <2> DEFINE t == T!Mapped(LowerCase, v)
  <2>5. t \in Seq(Chars) /\ Len(t) = Len(v) /\ S!StrLower(Image(v)) = Image(t)
    BY <2>1, <2>2, CaseIs
  <2> HIDE DEF t
  <2>6. buf' = Image(t)
    BY <2>2, <2>4, <2>5, ZerosAre
  <2>7. Builds(t)
    BY <2>2, <2>5, <2>6 DEF Builds
  <2>8. StringsIInv' /\ Text' = t
    BY <1>2, <2>1, <2>2, <2>5, <2>7
  <2>9. QED
    BY <2>8 DEF T!Next, Text, LowerCase, t
<1>10. QED
  BY <1>3, <1>4, <1>5, <1>6, <1>7, <1>8, <1>9 DEF S!Next

LEMMA StringsInit == S!Init => StringsIInv /\ T!Init
<1> SUFFICES ASSUME S!Init PROVE StringsIInv /\ T!Init
  OBVIOUS
<1>1. buf = Image(<<>>) /\ copied = 0 /\ <<>> \in Seq(Chars) /\ Len(<<>>) = 0
  BY ZerosAre DEF S!Init
<1>2. BufferSize \in Nat /\ BufferSize >= 2
  BY StringsConstants
<1>3. Len(<<>>) <= BufferSize
  BY <1>1, <1>2
<1>4. S!StrOf(buf) = <<>> /\ S!StrLen(buf) = 0
  BY <1>1, <1>3, ImageIs
<1>5. Clean
  BY <1>1, <1>3 DEF Clean
<1>6. QED
  BY <1>1, <1>2, <1>4, <1>5 DEF StringsIInv, T!Init

LEMMA StringsKept ==
  StringsIInv /\ [S!Next]_(S!vars) => StringsIInv' /\ [T!Next]_(S!StrOf(buf))
<1> SUFFICES ASSUME StringsIInv, [S!Next]_(S!vars)
             PROVE  StringsIInv' /\ [T!Next]_(S!StrOf(buf))
  OBVIOUS
<1>1. CASE S!Next
  BY <1>1, StringsStep DEF Text
<1>2. CASE UNCHANGED S!vars
  <2>1. buf' = buf /\ copied' = copied
    BY <1>2 DEF S!vars
  <2>2. StringsIInv'
    BY <2>1 DEF StringsIInv, Clean
  <2>3. S!StrOf(buf)' = S!StrOf(buf)
    BY <2>1
  <2>4. QED
    BY <2>2, <2>3
<1>3. QED
  BY <1>1, <1>2

\* Each behaviour of the whole is one of the buffer.
LEMMA StringsAlone == AllSpec => S!Spec
<1>1. AllInit => S!Init
  BY DEF AllInit
<1>2. [AllNext]_all => [S!Next]_(S!vars)
  BY DEF AllNext, all, stringsVars, S!vars, OnlyConsole, OnlyDisplay, OnlyStrings, OnlyNumbers, OnlyClock
<1>3. QED
  BY <1>1, <1>2, PTL DEF AllSpec, S!Spec

\* The buffer of the string functions implements a text: each function changes the
\* text that is read from it as its name says, although strcpy and strcat write no
\* terminator (string.c:73-142).
THEOREM BufferHoldsText == AllSpec => BufferIsText
BY StringsAlone, StringsInit, StringsKept, PTL DEF S!Spec, BufferIsText, T!Spec


-----------------------------------------------------------------------------
(* strcmp.                                                                  *)

\* Where strcmp stops.
Stops(s, t, k) ==
  /\ k \in 1 .. Len(s) + 1
  /\ k > Len(s) \/ s[k] # S!At(t, k)
  /\ \A j \in 1 .. k - 1 : s[j] = S!At(t, j)

LEMMA AtIs ==
  ASSUME NEW s \in Seq(Chars), NEW k \in Nat \ {0}
  PROVE  /\ S!At(s, k) \in Nat
         /\ S!At(s, k) = 0 <=> k > Len(s)
         /\ k <= Len(s) => S!At(s, k) = s[k] /\ s[k] \in Chars
<1>1. Len(s) \in Nat /\ (k <= Len(s) => k \in 1 .. Len(s))
  OBVIOUS
<1>2. k <= Len(s) => s[k] \in Chars
  BY <1>1, ElementOfSeq
<1>3. CASE k <= Len(s)
  <2>1. s[k] \in Chars /\ s[k] \in Nat /\ s[k] # 0
    BY <1>2, <1>3, StringsConstants
  <2>2. S!At(s, k) = s[k] /\ ~(k > Len(s))
    BY <1>1, <1>3 DEF S!At
  <2>3. QED
    BY <2>1, <2>2
<1>4. CASE k > Len(s)
  <2>1. S!At(s, k) = 0 /\ ~(k <= Len(s))
    BY <1>1, <1>4 DEF S!At
  <2>2. QED
    BY <1>4, <2>1
<1>5. QED
  BY <1>1, <1>3, <1>4

LEMMA StopIs ==
  ASSUME NEW s \in Seq(Chars), NEW t \in Seq(Chars)
  PROVE  \E k : Stops(s, t, k) /\ S!StrCmp(s, t) = S!At(s, k) - S!At(t, k)
<1> DEFINE Differ == {k \in 1 .. Len(s) + 1 : k > Len(s) \/ s[k] # S!At(t, k)}
<1>1. Len(s) \in Nat
  OBVIOUS
<1>2. Differ \subseteq Nat /\ Len(s) + 1 \in Differ
  BY <1>1
<1>3. PICK k \in Differ : \A j \in Differ : k <= j
  <2> HIDE DEF Differ
  <2>1. QED
    BY <1>2, Least
<1>4. ASSUME NEW j \in 1 .. k - 1 PROVE s[j] = S!At(t, j)
  <2>1. k \in 1 .. Len(s) + 1
    BY <1>3
  <2>2. j \in 1 .. Len(s) + 1 /\ ~(k <= j)
    BY <1>1, <2>1
  <2>3. j \notin Differ
    BY <1>3, <2>2
  <2>4. QED
    BY <2>2, <2>3
<1>5. Stops(s, t, k)
  BY <1>3, <1>4 DEF Stops
<1> DEFINE e == CHOOSE m \in 1 .. Len(s) + 1 :
                  /\ m > Len(s) \/ s[m] # S!At(t, m)
                  /\ \A j \in 1 .. m - 1 : s[j] = S!At(t, j)
<1>6. Stops(s, t, e)
  BY <1>5 DEF Stops
<1>7. S!StrCmp(s, t) = S!At(s, e) - S!At(t, e)
  BY DEF S!StrCmp
<1> HIDE DEF e
<1>8. QED
  BY <1>6, <1>7

LEMMA StopOnly ==
  ASSUME NEW s \in Seq(Chars), NEW t \in Seq(Chars), NEW k, NEW m, Stops(s, t, k), Stops(s, t, m)
  PROVE  k = m
<1>1. Len(s) \in Nat /\ k \in 1 .. Len(s) + 1 /\ m \in 1 .. Len(s) + 1
  BY DEF Stops
<1>2. ASSUME NEW x \in 1 .. Len(s) + 1, NEW y \in 1 .. Len(s) + 1, Stops(s, t, x), Stops(s, t, y), x < y
      PROVE  FALSE
  <2>1. x \in 1 .. y - 1 /\ ~(x > Len(s))
    BY <1>1, <1>2
  <2>2. QED
    BY <1>2, <2>1 DEF Stops
<1>3. ~(k < m) /\ ~(m < k)
  BY <1>1, <1>2
<1>4. QED
  BY <1>1, <1>3

\* Where it stops does not depend on the order of the texts.
LEMMA StopsAlike ==
  ASSUME NEW s \in Seq(Chars), NEW t \in Seq(Chars), NEW k, Stops(s, t, k)
  PROVE  Stops(t, s, k)
<1>1. Len(s) \in Nat /\ Len(t) \in Nat /\ k \in 1 .. Len(s) + 1
  BY DEF Stops
<1>2. ASSUME NEW j \in 1 .. k - 1 PROVE j <= Len(t) /\ t[j] = S!At(s, j)
  <2>1. j \in Nat \ {0} /\ j <= Len(s)
    BY <1>1
  <2>2. s[j] = S!At(t, j)
    BY DEF Stops
  <2>3. S!At(s, j) = s[j] /\ S!At(s, j) # 0
    BY <1>1, <2>1, AtIs
  <2>4. ~(j > Len(t))
    BY <2>1, <2>2, <2>3, AtIs
  <2>5. j <= Len(t)
    BY <1>1, <2>1, <2>4
  <2>6. S!At(t, j) = t[j]
    BY <2>1, <2>5, AtIs
  <2>7. QED
    BY <2>2, <2>3, <2>5, <2>6
<1>3. k \in 1 .. Len(t) + 1
  <2>1. CASE k = 1
    BY <1>1, <2>1
  <2>2. CASE k # 1
    <3>1. k - 1 \in 1 .. k - 1
      BY <1>1, <2>2
    <3>2. k - 1 <= Len(t)
      BY <1>2, <3>1
    <3>3. QED
      BY <1>1, <3>2
  <2>3. QED
    BY <2>1, <2>2
<1>4. k > Len(t) \/ t[k] # S!At(s, k)
  <2>1. SUFFICES ASSUME k <= Len(t) PROVE t[k] # S!At(s, k)
    BY <1>1
  <2>2. k \in Nat \ {0}
    BY <1>1
  <2>3. S!At(t, k) = t[k] /\ S!At(t, k) # 0
    BY <1>1, <2>1, <2>2, AtIs
  <2>4. CASE k > Len(s)
    BY <2>2, <2>3, <2>4, AtIs
  <2>5. CASE ~(k > Len(s))
    <3>1. k <= Len(s)
      BY <1>1, <2>5
    <3>2. S!At(s, k) = s[k]
      BY <2>2, <3>1, AtIs
    <3>3. s[k] # S!At(t, k)
      BY <2>5 DEF Stops
    <3>4. QED
      BY <2>3, <3>2, <3>3
  <2>6. QED
    BY <2>4, <2>5
<1>5. QED
  BY <1>2, <1>3, <1>4 DEF Stops

\* strcmp gives 0 for a text and itself only, and the other sign the other way round.
LEMMA StrCmpIs ==
  ASSUME NEW s \in Seq(Chars), NEW t \in Seq(Chars)
  PROVE  /\ S!StrCmp(s, t) = 0 <=> s = t
         /\ S!StrCmp(s, t) = -S!StrCmp(t, s)
<1>1. PICK k : Stops(s, t, k) /\ S!StrCmp(s, t) = S!At(s, k) - S!At(t, k)
  BY StopIs
<1>2. PICK m : Stops(t, s, m) /\ S!StrCmp(t, s) = S!At(t, m) - S!At(s, m)
  BY StopIs
<1>3. Stops(t, s, k)
  BY <1>1, StopsAlike
<1>4. m = k
  BY <1>2, <1>3, StopOnly
<1>5. Len(s) \in Nat /\ Len(t) \in Nat /\ k \in 1 .. Len(s) + 1 /\ k \in 1 .. Len(t) + 1 /\ k \in Nat \ {0}
  BY <1>1, <1>3 DEF Stops
<1>6. S!At(s, k) \in Nat /\ S!At(t, k) \in Nat
  BY <1>5, AtIs
<1>7. S!StrCmp(s, t) = -S!StrCmp(t, s)
  BY <1>1, <1>2, <1>4, <1>6
<1>8. ASSUME S!StrCmp(s, t) = 0 PROVE s = t
  <2>1. S!At(s, k) = S!At(t, k)
    BY <1>1, <1>6, <1>8
  <2>2. k > Len(s)
    <3>1. SUFFICES ASSUME k <= Len(s) PROVE FALSE
      BY <1>5
    <3>2. S!At(s, k) = s[k]
      BY <1>5, <3>1, AtIs
    <3>3. ~(k > Len(s))
      BY <1>5, <3>1
    <3>4. QED
      BY <1>1, <2>1, <3>2, <3>3 DEF Stops
  <2>3. S!At(s, k) = 0
    BY <1>5, <2>2, AtIs
  <2>4. k > Len(t)
    BY <1>5, <2>1, <2>3, AtIs
  <2>5. Len(s) = Len(t) /\ k = Len(s) + 1
    BY <1>5, <2>2, <2>4
  <2>6. ASSUME NEW j \in 1 .. Len(s) PROVE s[j] = t[j]
    <3>1. j \in 1 .. k - 1 /\ j \in Nat \ {0} /\ j <= Len(t)
      BY <1>5, <2>5
    <3>2. s[j] = S!At(t, j)
      BY <1>1, <3>1 DEF Stops
    <3>3. QED
      BY <3>1, <3>2, AtIs
  <2>7. QED
    BY <2>5, <2>6, SeqEqual
<1>9. ASSUME s = t PROVE S!StrCmp(s, t) = 0
  BY <1>1, <1>6, <1>9
<1>10. QED
  BY <1>7, <1>8, <1>9

\* What every clean buffer promises to the functions that are called next.
LEMMA CleanPromises ==
  ASSUME StringsIInv
  PROVE  S!TypeOK /\ S!ZerosBehind /\ S!Terminated /\ S!CompareTells
<1>1. /\ Text \in Seq(Chars) /\ Len(Text) = S!StrLen(buf) /\ buf = Image(Text)
      /\ Len(Text) \in Nat /\ BufferSize \in Nat
      /\ copied \in Nat /\ (S!StrLen(buf) = BufferSize => copied = BufferSize)
  BY CleanIs, StringsConstants DEF StringsIInv, Text
<1>2. S!TypeOK
  <2>1. ASSUME NEW j \in S!Bytes PROVE Image(Text)[j] \in Chars \cup {0}
    <3>1. Image(Text)[j] = IF j < Len(Text) THEN Text[j + 1] ELSE 0
      BY DEF Image
    <3>2. j < Len(Text) => j + 1 \in 1 .. Len(Text)
      BY <1>1 DEF S!Bytes
    <3>3. QED
      BY <1>1, <3>1, <3>2, ElementOfSeq
  <2>2. Image(Text) = [j \in S!Bytes |-> Image(Text)[j]]
    BY DEF Image
  <2>3. Image(Text) \in [S!Bytes -> Chars \cup {0}]
    BY <2>1, <2>2
  <2>4. QED
    BY <1>1, <2>3 DEF S!TypeOK
<1>3. S!ZerosBehind
  <2>1. ASSUME NEW j \in S!Bytes, j > S!StrLen(buf) PROVE buf[j] = 0
    <3>1. ~(j < Len(Text))
      BY <1>1, <2>1 DEF S!Bytes
    <3>2. QED
      BY <1>1, <3>1 DEF Image
  <2>2. QED
    BY <2>1 DEF S!ZerosBehind
<1>4. S!Terminated
  BY <1>1 DEF S!Terminated
<1>5. S!CompareTells
  <2>1. ASSUME NEW v \in Words
        PROVE  /\ S!StrCmp(Text, v) = 0 <=> Text = v
               /\ S!StrCmp(Text, v) = -S!StrCmp(v, Text)
    BY <1>1, StrCmpIs, StringsConstants
  <2>2. QED
    BY <2>1 DEF S!CompareTells, Text
<1>6. QED
  BY <1>2, <1>3, <1>4, <1>5


-----------------------------------------------------------------------------
(* strsplit.                                                                *)

LEMMA EndIs ==
  ASSUME NEW s \in Seq(Chars), NEW start \in Nat \ {0}, start <= Len(s)
  PROVE  /\ S!EndOf(s, start) \in start .. Len(s) + 1
         /\ S!EndOf(s, start) > Len(s) \/ s[S!EndOf(s, start)] = DELIM
         /\ \A j \in start .. S!EndOf(s, start) - 1 : s[j] # DELIM
<1> DEFINE Ends == {e \in start .. Len(s) + 1 : e > Len(s) \/ s[e] = DELIM}
<1>1. Len(s) \in Nat
  OBVIOUS
<1>2. Ends \subseteq Nat /\ Len(s) + 1 \in Ends
  BY <1>1
<1>3. PICK e \in Ends : \A j \in Ends : e <= j
  <2> HIDE DEF Ends
  <2>1. QED
    BY <1>2, Least
<1>4. ASSUME NEW j \in start .. e - 1 PROVE s[j] # DELIM
  <2>1. e \in start .. Len(s) + 1
    BY <1>3
  <2>2. j \in start .. Len(s) + 1 /\ ~(e <= j)
    BY <1>1, <2>1
  <2>3. j \notin Ends
    BY <1>3, <2>2
  <2>4. QED
    BY <2>2, <2>3
<1>5. e \in start .. Len(s) + 1 /\ (e > Len(s) \/ s[e] = DELIM)
  BY <1>3
<1>6. QED
  BY <1>4, <1>5 DEF S!EndOf

\* The pieces from a place on.
Pieces(s, f) ==
  /\ S!StrSplit(s) = f[1]
  /\ \A start \in Nat \ {0} :
       f[start] = IF start > Len(s) THEN <<>>
                  ELSE <<SubSeq(s, start, S!EndOf(s, start) - 1)>> \o f[S!EndOf(s, start) + 1]

LEMMA PieceIs ==
  ASSUME NEW s \in Seq(Chars), NEW start \in Nat \ {0}, start <= Len(s)
  PROVE  /\ SubSeq(s, start, S!EndOf(s, start) - 1) \in Seq(Chars)
         /\ Len(SubSeq(s, start, S!EndOf(s, start) - 1)) = S!EndOf(s, start) - start
         /\ \A j \in 1 .. S!EndOf(s, start) - start :
              SubSeq(s, start, S!EndOf(s, start) - 1)[j] = s[start + j - 1]
<1> DEFINE e == S!EndOf(s, start)
<1>1. e \in start .. Len(s) + 1 /\ Len(s) \in Nat
  BY EndIs
<1> HIDE DEF e
<1>2. start \in Int /\ e - 1 \in Int /\ \A j \in start .. e - 1 : j \in 1 .. Len(s)
  BY <1>1
<1>3. \A j \in start .. e - 1 : s[j] \in Chars
  BY <1>2, ElementOfSeq
<1>4. /\ SubSeq(s, start, e - 1) \in Seq(Chars)
      /\ Len(SubSeq(s, start, e - 1)) = IF start <= e - 1 THEN (e - 1) - start + 1 ELSE 0
      /\ \A j \in 1 .. (e - 1) - start + 1 : SubSeq(s, start, e - 1)[j] = s[start + j - 1]
  BY <1>2, <1>3, SubSeqProperties
<1>5. (IF start <= e - 1 THEN (e - 1) - start + 1 ELSE 0) = e - start /\ (e - 1) - start + 1 = e - start
  BY <1>1
<1>6. QED
  BY <1>4, <1>5 DEF e

LEMMA PiecesAre ==
  ASSUME NEW s \in Seq(Chars)
  PROVE  \E f : Pieces(s, f)
<1> DEFINE X == Nat \ {0}
           V == Seq(Seq(Chars))
           End(x) == S!EndOf(s, x)
           Piece(x) == SubSeq(s, x, End(x) - 1)
           m == [x \in X |-> IF x > Len(s) THEN 0 ELSE Len(s) + 1 - x]
           Stop == {x \in X : x > Len(s)}
           c == [x \in X |-> <<>>]
           down == [x \in X |-> IF x > Len(s) THEN x ELSE End(x) + 1]
           Up == [y \in X \X V |-> IF y[1] > Len(s) THEN <<>> ELSE <<Piece(y[1])>> \o y[2]]
           from[start \in Nat \ {0}] ==
             IF start > Len(s) THEN <<>> ELSE <<Piece(start)>> \o from[End(start) + 1]
<1>1. Len(s) \in Nat
  OBVIOUS
<1>2. \A x \in X : ~(x > Len(s)) => x <= Len(s)
  BY <1>1
<1>3. \A x \in X : ~(x > Len(s)) => End(x) \in x .. Len(s) + 1 /\ Piece(x) \in Seq(Chars)
  BY <1>2, EndIs, PieceIs
<1>4. <<>> \in V
  BY EmptySeq
<1>5. S!StrSplit(s) = from[1]
  BY DEF S!StrSplit
<1> HIDE DEF End, Piece
<1>6. m \in [X -> Nat]
  <2>1. \A x \in X : (IF x > Len(s) THEN 0 ELSE Len(s) + 1 - x) \in Nat
    BY <1>1
  <2>2. QED
    BY <2>1
<1>7. c \in [X -> V]
  <2> HIDE DEF V
  <2>1. QED
    BY <1>4
<1>8. down \in [X -> X]
  <2>1. \A x \in X : ~(x > Len(s)) => End(x) + 1 \in X
    BY <1>1, <1>3
  <2>2. QED
    BY <2>1
<1>9. Up \in [X \X V -> V]
  <2>1. ASSUME NEW x \in X, NEW v \in V, ~(x > Len(s)) PROVE <<Piece(x)>> \o v \in V
    <3>1. <<Piece(x)>> \in V
      BY <1>3, <2>1
    <3>2. QED
      BY <3>1, ConcatProperties
  <2>2. ASSUME NEW y \in X \X V PROVE (IF y[1] > Len(s) THEN <<>> ELSE <<Piece(y[1])>> \o y[2]) \in V
    <3> HIDE DEF X, V
    <3>1. y[1] \in X /\ y[2] \in V
      OBVIOUS
    <3>2. QED
      BY <1>4, <2>1, <3>1
  <2> HIDE DEF X, V
  <2>3. QED
    BY <2>2
<1>10. \A x \in X : x \notin Stop => m[down[x]] < m[x]
  <2>1. ASSUME NEW x \in X, x \notin Stop PROVE m[down[x]] < m[x]
    <3>1. ~(x > Len(s)) /\ m[x] = Len(s) + 1 - x /\ down[x] = End(x) + 1
      BY <2>1
    <3>2. down[x] \in X /\ End(x) >= x /\ End(x) \in Nat
      BY <1>1, <1>3, <3>1
    <3>3. m[down[x]] = IF down[x] > Len(s) THEN 0 ELSE Len(s) + 1 - down[x]
      BY <3>2
    <3> HIDE DEF m, down, X, Stop
    <3>4. x \in Nat /\ x >= 1 /\ x <= Len(s)
      BY <1>1, <1>2, <2>1, <3>1 DEF X
    <3>5. QED
      BY <1>1, <3>1, <3>2, <3>3, <3>4
  <2>2. QED
    BY <2>1
<1>11. PICK f \in [X -> V] : Recursive(f, X, Stop, c, down, Up)
  <2> HIDE DEF X, V, m, Stop, c, down, Up
  <2>1. QED
    BY <1>6, <1>7, <1>8, <1>9, <1>10, Recursion
<1>12. ASSUME NEW x \in X PROVE f[x] = IF x > Len(s) THEN <<>> ELSE <<Piece(x)>> \o f[End(x) + 1]
  <2>1. f[x] = IF x \in Stop THEN c[x] ELSE Up[<<x, f[down[x]]>>]
    BY <1>11 DEF Recursive
  <2>2. CASE x > Len(s)
    BY <2>1, <2>2
  <2>3. CASE ~(x > Len(s))
    <3>1. x \notin Stop /\ down[x] = End(x) + 1
      BY <2>3
    <3>2. down[x] \in X
      BY <1>8
    <3>3. f[down[x]] \in V
      BY <1>11, <3>2
    <3> HIDE DEF V, X, Stop, down
    <3>4. <<x, f[down[x]]>> \in X \X V
      BY <3>3
    <3> DEFINE z == <<x, f[down[x]]>>
    <3>5. z[1] = x /\ z[2] = f[down[x]] /\ z \in X \X V
      BY <3>4
    <3> HIDE DEF z
    <3>6. Up[z] = <<Piece(x)>> \o f[down[x]]
      BY <2>3, <3>5
    <3>7. QED
      BY <2>1, <2>3, <3>1, <3>6 DEF z
  <2>4. QED
    BY <2>2, <2>3
<1>13. f = [start \in Nat \ {0} |-> IF start > Len(s) THEN <<>> ELSE <<Piece(start)>> \o f[End(start) + 1]]
  BY <1>11, <1>12
<1>14. from = [start \in Nat \ {0} |-> IF start > Len(s) THEN <<>> ELSE <<Piece(start)>> \o from[End(start) + 1]]
  BY <1>13
<1> HIDE DEF from
<1>15. \A start \in Nat \ {0} :
         from[start] = IF start > Len(s) THEN <<>> ELSE <<Piece(start)>> \o from[End(start) + 1]
  BY <1>14
<1>16. QED
  BY <1>5, <1>15 DEF Pieces, Piece, End


\* Pieces joined again, each with a delimiter behind it.
LEMMA JoinedIs ==
  /\ S!Joined[<<>>] = <<>>
  /\ \A p \in Seq(Seq(Chars)) : p # <<>> => S!Joined[p] = p[1] \o <<DELIM>> \o S!Joined[Tail(p)]
<1> DEFINE X == Seq(Seq(Chars))
           V == Seq(Chars)
           m == [x \in X |-> Len(x)]
           Stop == {<<>>}
           c == [x \in X |-> <<>>]
           down == [x \in X |-> IF x = <<>> THEN <<>> ELSE Tail(x)]
           Up == [y \in X \X V |-> IF y[1] = <<>> THEN <<>> ELSE y[1][1] \o <<DELIM>> \o y[2]]
<1>1. <<>> \in X /\ <<>> \in V
  BY EmptySeq
<1>2. \A x \in X : Len(x) \in Nat
  OBVIOUS
<1>3. \A x \in X : x # <<>> => Tail(x) \in X /\ Len(Tail(x)) = Len(x) - 1 /\ x[1] \in V /\ Len(x) >= 1
  <2>1. ASSUME NEW x \in X, x # <<>>
        PROVE  Tail(x) \in X /\ Len(Tail(x)) = Len(x) - 1 /\ x[1] \in V /\ Len(x) >= 1
    <3>1. Tail(x) \in X /\ Len(Tail(x)) = Len(x) - 1
      BY <2>1, HeadTailProperties
    <3>2. Len(x) \in Nat \ {0}
      BY <2>1, EmptySeq
    <3>3. 1 \in 1 .. Len(x)
      BY <3>2
    <3>4. x[1] \in V
      BY <3>3, ElementOfSeq
    <3>5. QED
      BY <3>1, <3>2, <3>4
  <2>2. QED
    BY <2>1
<1>4. m \in [X -> Nat]
  BY <1>2
<1>5. c \in [X -> V]
  <2> HIDE DEF X, V
  <2>1. QED
    BY <1>1
<1>6. down \in [X -> X]
  <2> HIDE DEF X
  <2>1. QED
    BY <1>1, <1>3
<1>7. Up \in [X \X V -> V]
  <2>1. ASSUME NEW x \in X, NEW v \in V, x # <<>> PROVE x[1] \o <<DELIM>> \o v \in V
    <3>1. x[1] \in V /\ <<DELIM>> \in V
      BY <1>3, <2>1, StringsConstants
    <3>2. x[1] \o <<DELIM>> \in V
      BY <3>1, ConcatProperties
    <3>3. QED
      BY <3>2, ConcatProperties
  <2> HIDE DEF X, V
  <2>2. QED
    BY <1>1, <2>1
<1>8. \A x \in X : x \notin Stop => m[down[x]] < m[x]
  <2>1. ASSUME NEW x \in X, x # <<>> PROVE m[down[x]] < m[x]
    <3>1. down[x] = Tail(x) /\ m[x] = Len(x) /\ m[Tail(x)] = Len(Tail(x))
      BY <1>3, <2>1
    <3> HIDE DEF down, m, X
    <3>2. Len(x) \in Nat /\ Len(Tail(x)) = Len(x) - 1
      BY <1>2, <1>3, <2>1
    <3>3. QED
      BY <3>1, <3>2
  <2>2. QED
    BY <2>1
<1>9. PICK f \in [X -> V] : Recursive(f, X, Stop, c, down, Up)
  <2> HIDE DEF X, V, m, Stop, c, down, Up
  <2>1. QED
    BY <1>4, <1>5, <1>6, <1>7, <1>8, Recursion
<1>10. ASSUME NEW x \in X PROVE f[x] = IF x = <<>> THEN <<>> ELSE x[1] \o <<DELIM>> \o f[Tail(x)]
  <2>1. f[x] = IF x \in Stop THEN c[x] ELSE Up[<<x, f[down[x]]>>]
    BY <1>9 DEF Recursive
  <2>2. CASE x = <<>>
    <3>1. c[x] = <<>> /\ x \in Stop
      BY <2>2
    <3>2. QED
      BY <2>1, <2>2, <3>1
  <2>3. CASE x # <<>>
    <3>1. x \notin Stop /\ down[x] = Tail(x) /\ down[x] \in X
      BY <1>3, <2>3
    <3> HIDE DEF V, X, Stop, down, c
    <3>2. f[down[x]] \in V
      BY <1>9, <3>1
    <3> DEFINE z == <<x, f[down[x]]>>
    <3>3. z[1] = x /\ z[2] = f[down[x]] /\ z \in X \X V
      BY <3>2
    <3> HIDE DEF z
    <3>4. Up[z] = x[1] \o <<DELIM>> \o f[down[x]]
      BY <2>3, <3>3
    <3> HIDE DEF Up
    <3>5. QED
      BY <2>1, <2>3, <3>1, <3>4 DEF z
  <2>4. QED
    BY <2>2, <2>3
<1>11. f = [p \in Seq(Seq(Chars)) |-> IF p = <<>> THEN <<>> ELSE p[1] \o <<DELIM>> \o f[Tail(p)]]
  <2>1. f = [p \in X |-> f[p]]
    BY <1>9
  <2>2. QED
    BY <1>10, <2>1
<1>12. S!Joined = [p \in Seq(Seq(Chars)) |-> IF p = <<>> THEN <<>> ELSE p[1] \o <<DELIM>> \o S!Joined[Tail(p)]]
  <2>1. \E g : g = [p \in Seq(Seq(Chars)) |-> IF p = <<>> THEN <<>> ELSE p[1] \o <<DELIM>> \o g[Tail(p)]]
    BY <1>11
  <2>2. QED
    BY <2>1 DEF S!Joined
<1>13. ASSUME NEW p \in Seq(Seq(Chars))
       PROVE  S!Joined[p] = IF p = <<>> THEN <<>> ELSE p[1] \o <<DELIM>> \o S!Joined[Tail(p)]
  BY <1>12
<1>14. QED
  BY <1>1, <1>13


\* One element in front of a sequence.
LEMMA ConsIs ==
  ASSUME NEW A, NEW a \in A, NEW q \in Seq(A)
  PROVE  /\ <<a>> \o q \in Seq(A) /\ <<a>> \o q # <<>>
         /\ (<<a>> \o q)[1] = a /\ Tail(<<a>> \o q) = q
         /\ Len(<<a>> \o q) = Len(q) + 1
         /\ \A k \in 1 .. Len(q) : (<<a>> \o q)[k + 1] = q[k]
<1> DEFINE p == <<a>> \o q
           o == <<a>>
<1>1. o \in Seq(A) /\ Len(o) = 1 /\ o[1] = a /\ Len(q) \in Nat
  OBVIOUS
<1>2. p = o \o q
  OBVIOUS
<1> HIDE DEF p, o
<1>3. /\ p \in Seq(A) /\ Len(p) = 1 + Len(q)
      /\ \A k \in 1 .. 1 + Len(q) : p[k] = IF k <= 1 THEN o[k] ELSE q[k - 1]
  <2>1. o \in Seq(A) /\ q \in Seq(A)
    BY <1>1
  <2>2. /\ o \o q \in Seq(A) /\ Len(o \o q) = Len(o) + Len(q)
        /\ \A k \in 1 .. Len(o) + Len(q) : (o \o q)[k] = IF k <= Len(o) THEN o[k] ELSE q[k - Len(o)]
    BY <2>1, ConcatProperties
  <2>3. QED
    BY <1>1, <1>2, <2>2
<1>4. p # <<>> /\ p[1] = a
  <2>1. 1 \in 1 .. 1 + Len(q)
    BY <1>1
  <2>2. p[1] = a
    BY <1>1, <1>3, <2>1
  <2>3. Len(p) # 0
    BY <1>1, <1>3
  <2>4. QED
    BY <2>2, <2>3, EmptySeq
<1>5. ASSUME NEW k \in 1 .. Len(q) PROVE p[k + 1] = q[k]
  <2>1. k + 1 \in 1 .. 1 + Len(q) /\ ~(k + 1 <= 1) /\ (k + 1) - 1 = k
    BY <1>1
  <2>2. QED
    BY <1>3, <2>1
<1>6. Tail(p) = q
  <2>1. /\ Tail(p) \in Seq(A) /\ Len(Tail(p)) = Len(p) - 1
        /\ \A k \in 1 .. Len(Tail(p)) : Tail(p)[k] = p[k + 1]
    BY <1>3, <1>4, HeadTailProperties
  <2>2. Len(Tail(p)) = Len(q)
    BY <1>1, <1>3, <2>1
  <2>3. \A k \in 1 .. Len(Tail(p)) : Tail(p)[k] = q[k]
    BY <1>5, <2>1, <2>2
  <2>4. QED
    BY <2>1, <2>2, <2>3, SeqEqual
<1>7. Len(p) = Len(q) + 1
  BY <1>1, <1>3
<1>8. QED
  BY <1>3, <1>4, <1>5, <1>6, <1>7 DEF p

\* What the pieces of a text from a place on are.
Marks(s, start) == {j \in start .. Len(s) - 1 : s[j] = DELIM}
Cut(s, start, p) ==
  /\ p \in Seq(Seq(Chars))
  /\ S!Joined[p] = IF s[Len(s)] = DELIM THEN SubSeq(s, start, Len(s))
                   ELSE Append(SubSeq(s, start, Len(s)), DELIM)
  /\ \A k \in 1 .. Len(p) : \A j \in 1 .. Len(p[k]) : p[k][j] # DELIM
  /\ Len(p) = Cardinality(Marks(s, start)) + 1

\* Joining texts is associative.
LEMMA TextsJoin ==
  \A a, b, c \in Seq(Chars) : (a \o b) \o c = a \o (b \o c)
<1> SUFFICES ASSUME NEW a \in Seq(Chars), NEW b \in Seq(Chars), NEW c \in Seq(Chars)
             PROVE  (a \o b) \o c = a \o (b \o c)
  OBVIOUS
<1> QED BY ConcatAssociative

LEMMA CutStep ==
  ASSUME NEW s \in Seq(Chars), NEW f, Pieces(s, f), NEW start \in 1 .. Len(s),
         S!EndOf(s, start) < Len(s) => Cut(s, S!EndOf(s, start) + 1, f[S!EndOf(s, start) + 1])
  PROVE  Cut(s, start, f[start])
<1> DEFINE e == S!EndOf(s, start)
           P == SubSeq(s, start, e - 1)
           q == f[e + 1]
           p == <<P>> \o q
           L == Len(s)
<1>1. L \in Nat /\ start \in Nat \ {0} /\ start <= L
  OBVIOUS
<1>2. /\ e \in start .. L + 1 /\ (e > L \/ s[e] = DELIM)
      /\ \A j \in start .. e - 1 : s[j] # DELIM
  BY <1>1, EndIs
<1>3. P \in Seq(Chars) /\ Len(P) = e - start /\ \A j \in 1 .. e - start : P[j] = s[start + j - 1]
  BY <1>1, PieceIs
<1>4. f[start] = p
  <2>1. ~(start > L)
    BY <1>1
  <2>2. QED
    BY <1>1, <2>1 DEF Pieces
<1>5. e < L => Cut(s, e + 1, q)
  OBVIOUS
<1>6. e + 1 \in Nat \ {0} /\ (e + 1 > L => q = <<>>)
  <2>1. e + 1 \in Nat \ {0}
    BY <1>1, <1>2
  <2> HIDE DEF e
  <2>2. QED
    BY <2>1 DEF Pieces
<1>7. q \in Seq(Seq(Chars))
  <2>1. CASE e < L
    BY <1>5, <2>1 DEF Cut
  <2>2. CASE ~(e < L)
    <3>1. e + 1 > L
      BY <1>1, <1>2, <2>2
    <3>2. QED
      BY <1>6, <3>1, EmptySeq
  <2>3. QED
    BY <2>1, <2>2
<1> HIDE DEF e, P, q
<1>8. /\ p \in Seq(Seq(Chars)) /\ p # <<>> /\ p[1] = P /\ Tail(p) = q
      /\ Len(p) = Len(q) + 1 /\ Len(q) \in Nat
      /\ \A k \in 1 .. Len(q) : p[k + 1] = q[k]
  BY <1>3, <1>7, ConsIs
<1> HIDE DEF p
<1>9. S!Joined[p] = (P \o <<DELIM>>) \o S!Joined[q]
  BY <1>8, JoinedIs
<1>10. \A j \in 1 .. Len(P) : P[j] # DELIM
  <2>1. ASSUME NEW j \in 1 .. Len(P) PROVE P[j] # DELIM
    <3>1. start + j - 1 \in start .. e - 1 /\ j \in 1 .. e - start
      BY <1>1, <1>2, <1>3
    <3>2. QED
      BY <1>2, <1>3, <3>1
  <2>2. QED
    BY <2>1
<1>11. DELIM \in Chars /\ <<DELIM>> \in Seq(Chars) /\ P \o <<DELIM>> = Append(P, DELIM)
  <2>1. DELIM \in Chars
    BY StringsConstants
  <2>2. QED
    BY <1>3, <2>1, AppendIsConcat
<1>12. ASSUME s[e] = DELIM, e <= L PROVE P \o <<DELIM>> = SubSeq(s, start, e)
  <2>1. e \in start .. L
    BY <1>1, <1>2, <1>12
  <2>2. SubSeq(s, start, e) = SubSeq(s, start, e - 1) \o <<s[e]>>
    BY <1>1, <2>1, SubSeqRecursiveSecond
  <2>3. QED
    BY <1>12, <2>2 DEF P
<1>13. CASE ~(e < L)
  <2>1. q = <<>> /\ Len(q) = 0
    <3>1. e + 1 > L
      BY <1>1, <1>2, <1>13
    <3>2. QED
      BY <1>6, <3>1
  <2>2. Len(p) = 1
    BY <1>8, <2>1
  <2>3. \A k \in 1 .. Len(p) : \A j \in 1 .. Len(p[k]) : p[k][j] # DELIM
    <3>1. \A k \in 1 .. Len(p) : k = 1
      BY <2>2
    <3>2. QED
      BY <1>8, <1>10, <3>1
  <2>4. S!Joined[p] = P \o <<DELIM>>
    <3>1. P \o <<DELIM>> \in Seq(Chars)
      BY <1>3, <1>11, ConcatProperties
    <3>2. (P \o <<DELIM>>) \o <<>> = P \o <<DELIM>>
      BY <3>1, ConcatEmptySeq
    <3>3. QED
      BY <1>9, <2>1, <3>2, JoinedIs
  <2>5. S!Joined[p] = IF s[L] = DELIM THEN SubSeq(s, start, L) ELSE Append(SubSeq(s, start, L), DELIM)
    <3>1. CASE e = L
      <4>1. s[L] = DELIM
        BY <1>1, <1>2, <3>1
      <4>2. P \o <<DELIM>> = SubSeq(s, start, L)
        BY <1>1, <1>12, <3>1, <4>1
      <4>3. QED
        BY <2>4, <4>1, <4>2
    <3>2. CASE e = L + 1
      <4>1. L \in start .. e - 1 /\ e - 1 = L
        BY <1>1, <3>2
      <4>2. s[L] # DELIM /\ P = SubSeq(s, start, L)
        BY <1>2, <4>1 DEF P
      <4>3. QED
        BY <1>11, <2>4, <4>2
    <3>3. QED
      BY <1>1, <1>2, <1>13, <3>1, <3>2
  <2>6. Cardinality(Marks(s, start)) = 0
    <3>1. \A j \in start .. L - 1 : j \in start .. e - 1
      BY <1>1, <1>2, <1>13
    <3>2. Marks(s, start) = {}
      BY <1>2, <3>1 DEF Marks
    <3>3. QED
      BY <3>2, FS_EmptySet
  <2>7. QED
    BY <1>4, <1>8, <2>2, <2>3, <2>5, <2>6 DEF Cut
<1>14. CASE e < L
  <2>1. /\ S!Joined[q] = IF s[L] = DELIM THEN SubSeq(s, e + 1, L) ELSE Append(SubSeq(s, e + 1, L), DELIM)
        /\ \A k \in 1 .. Len(q) : \A j \in 1 .. Len(q[k]) : q[k][j] # DELIM
        /\ Len(q) = Cardinality(Marks(s, e + 1)) + 1
    BY <1>5, <1>14 DEF Cut
  <2>2. s[e] = DELIM /\ e <= L /\ e \in 1 .. L
    BY <1>1, <1>2, <1>14
  <2>3. P \o <<DELIM>> = SubSeq(s, start, e)
    BY <1>12, <2>2
  <2> DEFINE A == SubSeq(s, start, e)
             B == SubSeq(s, e + 1, L)
  <2>4. A \in Seq(Chars) /\ B \in Seq(Chars)
    <3>1. \A j \in 1 .. L : s[j] \in Chars
      BY ElementOfSeq
    <3>2. /\ start \in Int /\ e \in Int /\ e + 1 \in Int /\ L \in Int
          /\ \A j \in start .. e : j \in 1 .. L
          /\ \A j \in e + 1 .. L : j \in 1 .. L
      BY <1>1, <2>2
    <3>3. QED
      BY <3>1, <3>2, SubSeqProperties
  <2>5. A \o B = SubSeq(s, start, L)
    <3>1. start \in 1 .. L + 1 /\ e \in start - 1 .. L /\ L \in e .. L
      BY <1>1, <1>2, <2>2
    <3>2. QED
      BY <3>1, ConcatAdjacentSubSeq
  <2>6. A \o B \in Seq(Chars) /\ A \o Append(B, DELIM) = Append(A \o B, DELIM)
    <3> HIDE DEF A, B
    <3>1. A \o B \in Seq(Chars)
      BY <2>4, ConcatProperties
    <3>2. Append(B, DELIM) = B \o <<DELIM>> /\ Append(A \o B, DELIM) = (A \o B) \o <<DELIM>>
      BY <1>11, <2>4, <3>1, AppendIsConcat
    <3>3. (A \o B) \o <<DELIM>> = A \o (B \o <<DELIM>>)
      <4> DEFINE C0 == <<DELIM>>
      <4>1. C0 \in Seq(Chars)
        BY <1>11
      <4> HIDE DEF C0
      <4>2. A \in Seq(Chars) /\ B \in Seq(Chars)
        BY <2>4
      <4>3. (A \o B) \o C0 = A \o (B \o C0)
        BY <4>1, <4>2, TextsJoin, Zenon
      <4>4. QED
        BY <4>3 DEF C0
    <3>4. QED
      BY <3>1, <3>2, <3>3
  <2>7. S!Joined[p] = IF s[L] = DELIM THEN SubSeq(s, start, L) ELSE Append(SubSeq(s, start, L), DELIM)
    <3>1. S!Joined[p] = A \o S!Joined[q]
      BY <1>9, <2>3
    <3>2. QED
      BY <2>1, <2>5, <2>6, <3>1
  <2>8. ASSUME NEW k \in 1 .. Len(p) PROVE \A j \in 1 .. Len(p[k]) : p[k][j] # DELIM
    <3>1. CASE k = 1
      BY <1>8, <1>10, <3>1
    <3>2. CASE k # 1
      <4>1. k - 1 \in 1 .. Len(q) /\ (k - 1) + 1 = k
        BY <1>8, <3>2
      <4>2. p[k] = q[k - 1]
        BY <1>8, <4>1
      <4>3. QED
        BY <2>1, <4>1, <4>2
    <3>3. QED
      BY <3>1, <3>2
  <2>9. Len(p) = Cardinality(Marks(s, start)) + 1
    <3>1. Marks(s, start) = Marks(s, e + 1) \cup {e} /\ e \notin Marks(s, e + 1)
      <4>1. \A j \in start .. L - 1 : s[j] = DELIM => j = e \/ j \in e + 1 .. L - 1
        <5>1. ASSUME NEW j \in start .. L - 1, s[j] = DELIM PROVE j = e \/ j \in e + 1 .. L - 1
          <6>1. j \notin start .. e - 1
            BY <1>2, <5>1
          <6>2. QED
            BY <1>1, <1>2, <6>1
        <5>2. QED
          BY <5>1
      <4>2. \A j \in e + 1 .. L - 1 : j \in start .. L - 1
        BY <1>1, <1>2
      <4>3. e \in start .. L - 1 /\ e \notin e + 1 .. L - 1
        BY <1>1, <1>2, <1>14
      <4>4. QED
        BY <2>2, <4>1, <4>2, <4>3 DEF Marks
    <3>2. IsFiniteSet(Marks(s, e + 1))
      <4>1. IsFiniteSet(e + 1 .. L - 1)
        <5>1. e + 1 \in Int /\ L - 1 \in Int
          BY <1>1, <1>2
        <5>2. QED
          BY <5>1, FS_Interval
      <4>2. Marks(s, e + 1) \in SUBSET (e + 1 .. L - 1)
        BY DEF Marks
      <4>3. QED
        BY <4>1, <4>2, FS_Subset
    <3>3. Cardinality(Marks(s, start)) = Cardinality(Marks(s, e + 1)) + 1
      BY <3>1, <3>2, FS_AddElement
    <3>4. QED
      BY <1>8, <2>1, <3>3
  <2>10. QED
    BY <1>4, <1>8, <2>7, <2>8, <2>9 DEF Cut
<1>15. QED
  BY <1>13, <1>14

LEMMA SplitIs ==
  ASSUME NEW s \in Seq(Chars), s # <<>>
  PROVE  Cut(s, 1, S!StrSplit(s))
<1>1. Len(s) \in Nat /\ Len(s) >= 1
  <2>1. Len(s) \in Nat \ {0}
    BY EmptySeq
  <2>2. QED
    BY <2>1
<1>2. PICK f : Pieces(s, f)
  BY PiecesAre
<1> DEFINE A == {d \in Nat : \A start \in 1 .. Len(s) : Len(s) - start <= d => Cut(s, start, f[start])}
<1>3. ASSUME NEW start \in 1 .. Len(s), NEW d \in Nat, Len(s) - start <= d,
             d = 0 \/ d - 1 \in A
      PROVE  Cut(s, start, f[start])
  <2> DEFINE e == S!EndOf(s, start)
  <2>1. start \in Nat \ {0} /\ start <= Len(s)
    BY <1>1
  <2>2. e \in start .. Len(s) + 1
    BY <2>1, EndIs
  <2>3. e < Len(s) => Cut(s, e + 1, f[e + 1])
    <3>1. SUFFICES ASSUME e < Len(s) PROVE Cut(s, e + 1, f[e + 1])
      OBVIOUS
    <3> HIDE DEF e
    <3>2. e + 1 \in 1 .. Len(s) /\ Len(s) - (e + 1) <= d - 1 /\ d # 0
      BY <1>1, <1>3, <2>2, <3>1
    <3>3. QED
      BY <1>3, <3>2
  <2>4. QED
    BY <1>2, <2>3, CutStep
<1>4. 0 \in A
  BY <1>3
<1>5. ASSUME NEW d \in Nat, d \in A PROVE d + 1 \in A
  <2>1. d + 1 \in Nat /\ (d + 1) - 1 = d
    OBVIOUS
  <2>2. \A start \in 1 .. Len(s) : Len(s) - start <= d + 1 => Cut(s, start, f[start])
    <3> HIDE DEF A
    <3>1. QED
      BY <1>3, <1>5, <2>1
  <2>3. QED
    BY <2>1, <2>2
<1>6. Cut(s, 1, f[1])
  <2>1. Nat \subseteq A
    <3> HIDE DEF A
    <3>1. QED
      BY <1>4, <1>5, Induct
  <2>2. Len(s) \in A /\ 1 \in 1 .. Len(s) /\ Len(s) - 1 <= Len(s)
    BY <1>1, <2>1
  <2>3. QED
    BY <2>2
<1>7. QED
  BY <1>2, <1>6 DEF Pieces

LEMMA SameCardinality == \A A : S!Cardinality(A) = Cardinality(A)
BY DEF S!Cardinality, Cardinality

LEMMA SplitPromises ==
  ASSUME StringsIInv
  PROVE  S!SplitIsLine
<1>1. Text \in Seq(Chars)
  BY CleanIs DEF StringsIInv, Text
<1>2. SUFFICES ASSUME Text # <<>>
               PROVE  LET p == S!StrSplit(Text) IN
                      /\ S!Joined[p] \in {Text, Append(Text, DELIM)}
                      /\ \A k \in 1 .. Len(p) : \A j \in 1 .. Len(p[k]) : p[k][j] # DELIM
                      /\ Len(p) = S!Slots(Text)
  BY DEF S!SplitIsLine, Text
<1>3. SubSeq(Text, 1, Len(Text)) = Text
  BY <1>1, SubSeqFull
<1>4. Cut(Text, 1, S!StrSplit(Text))
  BY <1>1, <1>2, SplitIs
<1>5. S!Slots(Text) = Cardinality(Marks(Text, 1)) + 1
  BY SameCardinality DEF S!Slots, Marks
<1>6. QED
  BY <1>3, <1>4, <1>5 DEF Cut

\* What the functions on the buffer promise, in every state.
LEMMA StringsPromise == StringsIInv => S!TextsRight
BY CleanPromises, SplitPromises DEF S!TextsRight

-----------------------------------------------------------------------------
(* The pixels of the display.                                               *)

LEMMA DisplayConstants ==
  /\ Width \in Nat \ {0} /\ Height \in Nat \ {0} /\ CharW \in Nat \ {0} /\ CharH \in Nat \ {0}
  /\ SpaceX \in Nat /\ SpaceY \in Nat
  /\ Places \subseteq Int /\ Sizes \subseteq Int /\ Pens \subseteq Nat /\ Levels \subseteq 0 .. 255
  /\ High \notin DOMAIN Glyph /\ LineFeed \notin DOMAIN Glyph /\ CLEAR \in Colors
  /\ \A c \in DOMAIN Glyph : Glyph[c] \subseteq (0 .. CharW - 1) \X (0 .. CharH - 1)
  /\ \A g \in Wild : g \subseteq (0 .. CharW - 1) \X (0 .. CharH - 1)
BY ScreenAssumption DEF D!DisplayAssumption

\* The size of the screen: none before vbe_start, or without a mode.
Sized == w \in Nat /\ h \in Nat
Visible == (0 .. w - 1) \X (0 .. h - 1)
Pixel(p) == p[2] * w + p[1]

\* A point on the screen has a pixel of the frame buffer to itself.
LEMMA PixelIn ==
  ASSUME Sized, NEW p \in Visible
  PROVE  Pixel(p) \in 0 .. w * h - 1
<1>1. w \in Nat /\ h \in Nat /\ p[1] \in 0 .. w - 1 /\ p[2] \in 0 .. h - 1
  BY DEF Sized, Visible
<1> DEFINE u == p[1]
           v == p[2]
<1>2. u \in Nat /\ v \in Nat /\ u <= w - 1 /\ v <= h - 1 /\ w >= 1 /\ h >= 1
  BY <1>1
<1> HIDE DEF u, v
<1>3. v * w <= (h - 1) * w /\ v * w \in Nat
  BY <1>1, <1>2
<1>4. (h - 1) * w = w * h - w
  BY <1>1
<1>5. w * h \in Nat
  BY <1>1
<1>6. v * w + u \in 0 .. w * h - 1
  BY <1>1, <1>2, <1>3, <1>4, <1>5
<1>7. QED
  BY <1>6 DEF Pixel, u, v

LEMMA PixelOnly ==
  ASSUME Sized, NEW p \in Visible, NEW q \in Visible, Pixel(p) = Pixel(q)
  PROVE  p = q
<1>1. /\ w \in Nat \ {0} /\ p[1] \in 0 .. w - 1 /\ q[1] \in 0 .. w - 1
      /\ p[2] \in Nat /\ q[2] \in Nat
      /\ p = <<p[1], p[2]>> /\ q = <<q[1], q[2]>>
  BY DEF Sized, Visible
<1> DEFINE u == p[1]
           v == p[2]
           x == q[1]
           y == q[2]
<1>2. u \in 0 .. w - 1 /\ x \in 0 .. w - 1 /\ v \in Nat /\ y \in Nat
  BY <1>1
<1>3. v * w + u = y * w + x
  BY DEF Pixel
<1> HIDE DEF u, v, x, y
<1>4. w * v + u = w * y + x
  BY <1>1, <1>2, <1>3
<1>5. (w * v + u) % w = u /\ (w * v + u) \div w = v
  BY <1>1, <1>2, ModUnique
<1>6. (w * y + x) % w = x /\ (w * y + x) \div w = y
  BY <1>1, <1>2, ModUnique
<1>7. u = x /\ v = y
  BY <1>4, <1>5, <1>6
<1>8. QED
  BY <1>1, <1>7 DEF u, v, x, y

LEMMA ClippedIs == \A A : D!Clipped(A) = {Pixel(p) : p \in A \cap Visible}
BY DEF D!Clipped, Pixel, Visible

LEMMA ClippedIn ==
  ASSUME Sized, NEW A
  PROVE  D!Clipped(A) \subseteq 0 .. w * h - 1
BY ClippedIs, PixelIn

LEMMA ClippedMinus ==
  ASSUME Sized, NEW A, NEW B
  PROVE  D!Clipped(A \ B) = D!Clipped(A) \ D!Clipped(B)
BY ClippedIs, PixelOnly

\* What is seen of columns and rows is what is clipped of their points.
LEMMA SeenIs ==
  ASSUME NEW xs, NEW ys
  PROVE  D!Seen(xs, ys) = D!Clipped(xs \X ys)
<1>1. ASSUME NEW k \in D!Seen(xs, ys) PROVE k \in D!Clipped(xs \X ys)
  <2>1. PICK x \in xs \cap 0 .. w - 1, y \in ys \cap 0 .. h - 1 : k = y * w + x
    BY DEF D!Seen
  <2> DEFINE p == <<x, y>>
  <2>2. p \in (xs \X ys) \cap Visible /\ Pixel(p) = k
    BY <2>1 DEF Visible, Pixel
  <2> HIDE DEF p
  <2>3. QED
    BY <2>2, ClippedIs
<1>2. ASSUME NEW k \in D!Clipped(xs \X ys) PROVE k \in D!Seen(xs, ys)
  <2>1. PICK p \in (xs \X ys) \cap Visible : k = Pixel(p)
    BY ClippedIs
  <2>2. p[1] \in xs \cap 0 .. w - 1 /\ p[2] \in ys \cap 0 .. h - 1 /\ k = p[2] * w + p[1]
    BY <2>1 DEF Visible, Pixel
  <2>3. QED
    BY <2>2 DEF D!Seen
<1>3. QED
  BY <1>1, <1>2

-----------------------------------------------------------------------------
(* Rectangles: vbe_fill counts once through all points.                     *)

\* Some step of the count is at column u of row v.
Met(a, m, u, v) == \E k \in 0 .. a * m - 1 : k % a = u /\ k \div a = v

LEMMA GridIs ==
  ASSUME NEW a \in Nat \ {0}, NEW m \in Nat \ {0}
  PROVE  /\ \A k \in 0 .. a * m - 1 : k % a \in 0 .. a - 1 /\ k \div a \in 0 .. m - 1
         /\ \A u \in 0 .. a - 1, v \in 0 .. m - 1 : Met(a, m, u, v)
<1>0. a * m \in Nat
  OBVIOUS
<1>1. ASSUME NEW k \in 0 .. a * m - 1 PROVE k % a \in 0 .. a - 1 /\ k \div a \in 0 .. m - 1
  <2> DEFINE q == k \div a
             r == k % a
  <2>1. k \in Nat /\ k < a * m
    BY <1>0
  <2>2. q \in Nat /\ r \in 0 .. a - 1 /\ k = a * q + r
    BY <2>1, DivIs
  <2> HIDE DEF q, r
  <2>3. q < m
    <3>1. SUFFICES ASSUME q >= m PROVE FALSE
      BY <2>2
    <3>2. a * q >= a * m
      BY <2>2, <3>1
    <3>3. a * q \in Nat /\ r >= 0
      BY <2>2
    <3>4. QED
      BY <1>0, <2>1, <2>2, <3>2, <3>3
  <2>4. QED
    BY <2>2, <2>3 DEF q, r
<1>2. ASSUME NEW u \in 0 .. a - 1, NEW v \in 0 .. m - 1
      PROVE  Met(a, m, u, v)
  <2> DEFINE k == a * v + u
  <2>1. k % a = u /\ k \div a = v
    BY ModUnique
  <2>2. a * v <= a * (m - 1) /\ a * v \in Nat
    OBVIOUS
  <2>3. a * (m - 1) = a * m - a
    OBVIOUS
  <2>4. k \in 0 .. a * m - 1
    BY <1>0, <2>2, <2>3
  <2> HIDE DEF k
  <2>5. QED
    BY <2>1, <2>4 DEF Met
<1>3. QED
  BY <1>1, <1>2

\* A rectangle, and the one that goes up when both sizes are negative.
Box(b) == (b.x .. b.x + b.w - 1) \X (b.y .. b.y + b.h - 1)
BoxUp(b) == (b.x .. b.x - b.w - 1) \X (b.y + b.h + 1 .. b.y)
Areas == [x : Int, y : Int, w : Int, h : Int]

LEMMA FilledIs ==
  ASSUME NEW b \in Areas
  PROVE  /\ b.w > 0 /\ b.h > 0 => D!Filled(b) = Box(b)
         /\ b.w < 0 /\ b.h < 0 => D!Filled(b) = BoxUp(b)
         /\ ~(b.w > 0 /\ b.h > 0) /\ ~(b.w < 0 /\ b.h < 0) => D!Filled(b) = {}
<1> DEFINE bx == b.x
           by == b.y
           bw == b.w
           bh == b.h
           Point(k) == <<bx + (k % D!Abs(bw)), by + (IF bw < 0 THEN -(k \div D!Abs(bw)) ELSE k \div bw)>>
<1>1. bx \in Int /\ by \in Int /\ bw \in Int /\ bh \in Int
  BY DEF Areas
<1>2. D!Filled(b) = {Point(k) : k \in 0 .. bw * bh - 1}
  BY DEF D!Filled
<1>3. Box(b) = (bx .. bx + bw - 1) \X (by .. by + bh - 1)
  BY DEF Box
<1>4. BoxUp(b) = (bx .. bx - bw - 1) \X (by + bh + 1 .. by)
  BY DEF BoxUp
<1>5. CASE bw > 0 /\ bh > 0
  <2>1. bw \in Nat \ {0} /\ bh \in Nat \ {0} /\ D!Abs(bw) = bw /\ ~(bw < 0)
    BY <1>1, <1>5 DEF D!Abs
  <2> HIDE DEF bx, by, bw, bh
  <2>2. \A k : Point(k) = <<bx + (k % bw), by + (k \div bw)>>
    BY <2>1
  <2> HIDE DEF Point
  <2>3. ASSUME NEW k \in 0 .. bw * bh - 1 PROVE Point(k) \in Box(b)
    <3>1. k % bw \in 0 .. bw - 1 /\ k \div bw \in 0 .. bh - 1
      BY <2>1, GridIs
    <3>2. bx + (k % bw) \in bx .. bx + bw - 1
      BY <1>1, <3>1
    <3>3. by + (k \div bw) \in by .. by + bh - 1
      BY <1>1, <3>1
    <3>4. QED
      BY <1>3, <2>2, <3>2, <3>3
  <2>4. ASSUME NEW p \in Box(b) PROVE \E k \in 0 .. bw * bh - 1 : p = Point(k)
    <3>1. PICK x \in bx .. bx + bw - 1, y \in by .. by + bh - 1 : p = <<x, y>>
      BY <1>3
    <3> DEFINE u == x - bx
               v == y - by
    <3>2. u \in 0 .. bw - 1 /\ v \in 0 .. bh - 1
      BY <1>1
    <3> HIDE DEF u, v
    <3>2a. Met(bw, bh, u, v)
      BY <2>1, <3>2, GridIs
    <3>3. PICK k \in 0 .. bw * bh - 1 : k % bw = u /\ k \div bw = v
      BY <3>2a DEF Met
    <3>4. bx + (k % bw) = x /\ by + (k \div bw) = y
      BY <1>1, <3>3 DEF u, v
    <3>5. QED
      BY <2>2, <3>1, <3>4
  <2>5. D!Filled(b) = Box(b)
    BY <1>2, <2>3, <2>4
  <2>6. QED
    BY <1>1, <1>5, <2>5 DEF bw, bh
<1>6. CASE bw < 0 /\ bh < 0
  <2> DEFINE aw == -bw
             ah == -bh
  <2>1. aw \in Nat \ {0} /\ ah \in Nat \ {0} /\ D!Abs(bw) = aw /\ bw < 0
    BY <1>1, <1>6 DEF D!Abs
  <2> HIDE DEF bx, by, bw, bh
  <2>2. \A k : Point(k) = <<bx + (k % aw), by + (-(k \div aw))>>
    BY <2>1
  <2>3. bw * bh = aw * ah
    BY <1>1
  <2>4. bw = -aw /\ bh = -ah
    BY <1>1
  <2> HIDE DEF Point, aw, ah
  <2>5. ASSUME NEW k \in 0 .. aw * ah - 1 PROVE Point(k) \in BoxUp(b)
    <3>1. k % aw \in 0 .. aw - 1 /\ k \div aw \in 0 .. ah - 1
      BY <2>1, GridIs
    <3>2. bx + (k % aw) \in bx .. bx - bw - 1
      BY <1>1, <2>1, <2>4, <3>1
    <3>3. by + (-(k \div aw)) \in by + bh + 1 .. by
      BY <1>1, <2>1, <2>4, <3>1
    <3>4. QED
      BY <1>4, <2>2, <3>2, <3>3
  <2>6. ASSUME NEW p \in BoxUp(b) PROVE \E k \in 0 .. aw * ah - 1 : p = Point(k)
    <3>1. PICK x \in bx .. bx - bw - 1, y \in by + bh + 1 .. by : p = <<x, y>>
      BY <1>4
    <3> DEFINE u == x - bx
               v == by - y
    <3>2. u \in 0 .. aw - 1 /\ v \in 0 .. ah - 1
      BY <1>1, <2>1, <2>4
    <3> HIDE DEF u, v
    <3>2a. Met(aw, ah, u, v)
      BY <2>1, <3>2, GridIs
    <3>3. PICK k \in 0 .. aw * ah - 1 : k % aw = u /\ k \div aw = v
      BY <3>2a DEF Met
    <3>4. bx + (k % aw) = x /\ by + (-(k \div aw)) = y
      BY <1>1, <3>3 DEF u, v
    <3>5. QED
      BY <2>2, <3>1, <3>4
  <2>7. D!Filled(b) = BoxUp(b)
    BY <1>2, <2>3, <2>5, <2>6
  <2>8. QED
    BY <1>1, <1>6, <2>7 DEF bw, bh
<1>7. CASE ~(bw > 0 /\ bh > 0) /\ ~(bw < 0 /\ bh < 0)
  <2>1. (bw <= 0 /\ bh >= 0) \/ (bw >= 0 /\ bh <= 0)
    BY <1>1, <1>7
  <2> HIDE DEF bx, by, bw, bh, Point
  <2>2. bw * bh <= 0
    <3>1. CASE bw <= 0 /\ bh >= 0
      <4>1. (-bw) * bh >= 0
        BY <1>1, <3>1
      <4>2. (-bw) * bh = -(bw * bh)
        BY <1>1
      <4>3. bw * bh \in Int
        BY <1>1
      <4>4. QED
        BY <4>1, <4>2, <4>3
    <3>2. CASE bw >= 0 /\ bh <= 0
      <4>1. bw * (-bh) >= 0
        BY <1>1, <3>2
      <4>2. bw * (-bh) = -(bw * bh)
        BY <1>1
      <4>3. bw * bh \in Int
        BY <1>1
      <4>4. QED
        BY <4>1, <4>2, <4>3
    <3>3. QED
      BY <2>1, <3>1, <3>2
  <2>3. bw * bh \in Int
    BY <1>1
  <2>4. 0 .. bw * bh - 1 = {}
    BY <2>2, <2>3
  <2>5. D!Filled(b) = {}
    BY <1>2, <2>4
  <2>6. QED
    BY <1>1, <1>7, <2>5 DEF bw, bh
<1>8. QED
  BY <1>5, <1>6, <1>7

LEMMA AreaIs ==
  ASSUME NEW x \in Int, NEW y \in Int, NEW ww \in Int, NEW hh \in Int
  PROVE  /\ D!Area(x, y, ww, hh) \in Areas
         /\ D!Area(x, y, ww, hh).x = x /\ D!Area(x, y, ww, hh).y = y
         /\ D!Area(x, y, ww, hh).w = ww /\ D!Area(x, y, ww, hh).h = hh
BY DEF D!Area, Areas

\* A rectangle with no size that is negative.
LEMMA PaintedArea ==
  ASSUME NEW x \in Int, NEW y \in Int, NEW ww \in Int, NEW hh \in Int, ww > 0 \/ (ww = 0 /\ hh >= 0)
  PROVE  D!Filled(D!Area(x, y, ww, hh)) = (x .. x + ww - 1) \X (y .. y + hh - 1)
<1> DEFINE b == D!Area(x, y, ww, hh)
<1>1. b \in Areas /\ b.x = x /\ b.y = y /\ b.w = ww /\ b.h = hh
  BY AreaIs
<1> HIDE DEF b
<1>2. CASE ww > 0 /\ hh > 0
  BY <1>1, <1>2, FilledIs DEF Box, b
<1>3. CASE ~(ww > 0 /\ hh > 0)
  <2>1. ~(ww < 0 /\ hh < 0)
    OBVIOUS
  <2>2. D!Filled(b) = {}
    BY <1>1, <1>3, <2>1, FilledIs
  <2>3. x .. x + ww - 1 = {} \/ y .. y + hh - 1 = {}
    BY <1>3
  <2>4. QED
    BY <2>2, <2>3 DEF b
<1>4. QED
  BY <1>2, <1>3

\* A frame: its four sides leave out the rectangle inside, and no more.
Inner(b, thick) == (b.x + thick .. b.x + b.w - thick - 1) \X (b.y + thick .. b.y + b.h - thick - 1)

LEMMA FramedIs ==
  ASSUME NEW b \in Areas, NEW thick \in Nat, thick >= 1, thick <= b.w, thick <= b.h
  PROVE  D!Framed(b, thick) = Box(b) \ Inner(b, thick)
<1> DEFINE bx == b.x
           by == b.y
           bw == b.w
           bh == b.h
           Top    == (bx .. bx + bw - 1) \X (by .. by + thick - 1)
           Bottom == (bx .. bx + bw - 1) \X (by + bh - thick .. by + bh - 1)
           Left   == (bx .. bx + thick - 1) \X (by + thick .. by + bh - thick - 1)
           Right  == (bx + bw - thick .. bx + bw - 1) \X (by + thick .. by + bh - thick - 1)
<1>1. bx \in Int /\ by \in Int /\ bw \in Nat /\ bh \in Nat /\ bw >= 1 /\ bh >= 1 /\ thick <= bw /\ thick <= bh
  BY DEF Areas
<1>2. D!Framed(b, thick) = UNION {D!Filled(r) : r \in {
        D!Area(bx, by, bw, thick), D!Area(bx, by + bh - thick, bw, thick),
        D!Area(bx, by + thick, thick, bh - thick * 2), D!Area(bx + bw - thick, by + thick, thick, bh - thick * 2)}}
  BY DEF D!Framed
<1>3. Box(b) = (bx .. bx + bw - 1) \X (by .. by + bh - 1)
  BY DEF Box
<1>4. Inner(b, thick) = (bx + thick .. bx + bw - thick - 1) \X (by + thick .. by + bh - thick - 1)
  BY DEF Inner
<1> HIDE DEF bx, by, bw, bh
<1>5. D!Filled(D!Area(bx, by, bw, thick)) = Top
  <2>1. bw > 0
    BY <1>1
  <2>2. QED
    BY <1>1, <2>1, PaintedArea
<1>6. D!Filled(D!Area(bx, by + bh - thick, bw, thick)) = Bottom
  <2>1. bw > 0 /\ by + bh - thick \in Int /\ by + bh - thick + thick - 1 = by + bh - 1
    BY <1>1
  <2>2. D!Filled(D!Area(bx, by + bh - thick, bw, thick))
          = (bx .. bx + bw - 1) \X (by + bh - thick .. by + bh - thick + thick - 1)
    BY <1>1, <2>1, PaintedArea
  <2>3. QED
    BY <2>1, <2>2
<1>7. D!Filled(D!Area(bx, by + thick, thick, bh - thick * 2)) = Left
  <2> DEFINE hh == bh - thick * 2
             yy == by + thick
  <2>1. thick > 0 /\ yy \in Int /\ hh \in Int /\ yy + hh - 1 = by + bh - thick - 1
    BY <1>1
  <2> HIDE DEF hh, yy
  <2>2. D!Filled(D!Area(bx, yy, thick, hh)) = (bx .. bx + thick - 1) \X (yy .. yy + hh - 1)
    BY <1>1, <2>1, PaintedArea
  <2>3. QED
    BY <2>1, <2>2 DEF hh, yy
<1>8. D!Filled(D!Area(bx + bw - thick, by + thick, thick, bh - thick * 2)) = Right
  <2> DEFINE hh == bh - thick * 2
             yy == by + thick
             xx == bx + bw - thick
  <2>1. thick > 0 /\ yy \in Int /\ xx \in Int /\ hh \in Int
        /\ yy + hh - 1 = by + bh - thick - 1 /\ xx + thick - 1 = bx + bw - 1
    BY <1>1
  <2> HIDE DEF hh, yy, xx
  <2>2. D!Filled(D!Area(xx, yy, thick, hh)) = (xx .. xx + thick - 1) \X (yy .. yy + hh - 1)
    BY <1>1, <2>1, PaintedArea
  <2>3. QED
    BY <2>1, <2>2 DEF hh, yy, xx
<1>9. D!Framed(b, thick) = Top \cup Bottom \cup Left \cup Right
  BY <1>2, <1>5, <1>6, <1>7, <1>8
<1>10. ASSUME NEW x \in Int, NEW y \in Int
       PROVE  <<x, y>> \in Top \cup Bottom \cup Left \cup Right
                <=> <<x, y>> \in Box(b) \ Inner(b, thick)
  BY <1>1, <1>3, <1>4
<1>11. ASSUME NEW p \in Top \cup Bottom \cup Left \cup Right PROVE \E x \in Int, y \in Int : p = <<x, y>>
  BY <1>1
<1>12. ASSUME NEW p \in Box(b) PROVE \E x \in Int, y \in Int : p = <<x, y>>
  BY <1>1, <1>3
<1> HIDE DEF Top, Bottom, Left, Right
<1>13. QED
  BY <1>9, <1>10, <1>11, <1>12

-----------------------------------------------------------------------------
(* The nearest colour of the palette.                                       *)

\* The first of those nearest among the colours up to k.
Nearest(c, k, m) ==
  /\ m \in 0 .. k
  /\ \A j \in 0 .. k : D!Distance(c, m) <= D!Distance(c, j)
  /\ \A j \in 0 .. m - 1 : D!Distance(c, m) < D!Distance(c, j)

LEMMA PaletteIs ==
  /\ \A k \in 0 .. 15, f \in 1 .. 3 : D!COLOR4_PALETTE[k + 1][f] \in Int
  /\ D!COLOR4_PALETTE[9] = D!COLOR4_PALETTE[8]
<1>1. ASSUME NEW k \in 1 .. 16, NEW f \in 1 .. 3 PROVE D!COLOR4_PALETTE[k][f] \in Int
  <2>1. k = 1 \/ k = 2 \/ k = 3 \/ k = 4 \/ k = 5 \/ k = 6 \/ k = 7 \/ k = 8 \/ k = 9
        \/ k = 10 \/ k = 11 \/ k = 12 \/ k = 13 \/ k = 14 \/ k = 15 \/ k = 16
    OBVIOUS
  <2>2. f = 1 \/ f = 2 \/ f = 3
    OBVIOUS
  <2>3. QED
    BY <2>1, <2>2 DEF D!COLOR4_PALETTE
<1>2. ASSUME NEW k \in 0 .. 15 PROVE k + 1 \in 1 .. 16
  OBVIOUS
<1>3. D!COLOR4_PALETTE[9] = D!COLOR4_PALETTE[8]
  BY DEF D!COLOR4_PALETTE
<1>4. QED
  BY <1>1, <1>2, <1>3

LEMMA DistanceIs ==
  ASSUME NEW c, \A f \in 1 .. 3 : c[f] \in Int
  PROVE  /\ \A k \in 0 .. 15 : D!Distance(c, k) \in Int
         /\ D!Distance(c, 8) = D!Distance(c, 7)
<1> DEFINE Apart(k, f) == c[f] - D!COLOR4_PALETTE[k + 1][f]
<1>1. \A k : D!Distance(c, k) = Apart(k, 1) * Apart(k, 1) + Apart(k, 2) * Apart(k, 2) + Apart(k, 3) * Apart(k, 3)
  BY DEF D!Distance
<1>2. ASSUME NEW k \in 0 .. 15, NEW f \in 1 .. 3 PROVE Apart(k, f) \in Int
  <2>1. c[f] \in Int /\ D!COLOR4_PALETTE[k + 1][f] \in Int
    BY PaletteIs
  <2>2. QED
    BY <2>1
<1>3. \A f : Apart(8, f) = Apart(7, f)
  BY PaletteIs
<1> HIDE DEF Apart
<1>4. ASSUME NEW k \in 0 .. 15 PROVE D!Distance(c, k) \in Int
  <2>1. Apart(k, 1) \in Int /\ Apart(k, 2) \in Int /\ Apart(k, 3) \in Int
    BY <1>2
  <2>2. QED
    BY <1>1, <2>1
<1>5. QED
  BY <1>1, <1>3, <1>4

\* The loop over the palette finds the nearest of all sixteen.
LEMMA ClosestIs ==
  ASSUME NEW c, \A f \in 1 .. 3 : c[f] \in Int
  PROVE  Nearest(c, 15, D!Closest(c))
<1> DEFINE Better(k, m) == IF D!Distance(c, k) < D!Distance(c, m) THEN k ELSE m
           best[k \in 0 .. 15] == IF k = 0 THEN 0 ELSE Better(k, best[k - 1])
<1>1. D!Closest(c) = best[15]
  BY DEF D!Closest
<1>2. \E f : f = [k \in 0 .. 15 |-> IF k = 0 THEN 0 ELSE Better(k, f[k - 1])]
  <2> DEFINE Solves(f, m) == \A k \in 0 .. m : f[k] = IF k = 0 THEN 0 ELSE Better(k, f[k - 1])
             A == {m \in Nat : \E f : Solves(f, m)}
  <2> HIDE DEF Better
  <2>1. 0 \in A
    <3>1. Solves([k \in 0 .. 0 |-> 0], 0)
      OBVIOUS
    <3>2. QED
      BY <3>1
  <2>2. ASSUME NEW m \in Nat, m \in A PROVE m + 1 \in A
    <3>1. PICK f : Solves(f, m)
      BY <2>2
    <3> DEFINE g == [k \in 0 .. m + 1 |-> IF k = m + 1 THEN Better(m + 1, f[m]) ELSE f[k]]
    <3>2. ASSUME NEW k \in 0 .. m + 1 PROVE g[k] = IF k = 0 THEN 0 ELSE Better(k, g[k - 1])
      <4>1. CASE k = m + 1
        <5>1. k - 1 = m /\ m \in 0 .. m + 1 /\ m # m + 1 /\ k # 0
          BY <4>1
        <5>2. QED
          BY <4>1, <5>1
      <4>2. CASE k # m + 1
        <5>1. k \in 0 .. m /\ (k # 0 => k - 1 \in 0 .. m + 1 /\ k - 1 # m + 1)
          BY <4>2
        <5>2. g[k] = f[k] /\ (k # 0 => g[k - 1] = f[k - 1])
          BY <4>2, <5>1
        <5>3. QED
          BY <3>1, <5>1, <5>2
      <4>3. QED
        BY <4>1, <4>2
    <3> HIDE DEF g
    <3>3. Solves(g, m + 1)
      BY <3>2
    <3>4. QED
      BY <3>3
  <2> HIDE DEF Solves
  <2>3. Nat \subseteq A
    <3> HIDE DEF A
    <3>1. QED
      BY <2>1, <2>2, Induct
  <2>4. PICK f : Solves(f, 15)
    BY <2>3
  <2> DEFINE g == [k \in 0 .. 15 |-> f[k]]
  <2>5. ASSUME NEW k \in 0 .. 15 PROVE g[k] = IF k = 0 THEN 0 ELSE Better(k, g[k - 1])
    <3>1. k # 0 => k - 1 \in 0 .. 15
      OBVIOUS
    <3>2. QED
      BY <2>4, <3>1 DEF Solves
  <2>6. g = [k \in 0 .. 15 |-> IF k = 0 THEN 0 ELSE Better(k, g[k - 1])]
    <3>1. g = [k \in 0 .. 15 |-> g[k]]
      OBVIOUS
    <3> HIDE DEF g
    <3>2. QED
      BY <2>5, <3>1
  <2> HIDE DEF g
  <2>7. QED
    BY <2>6
<1>3. best = [k \in 0 .. 15 |-> IF k = 0 THEN 0 ELSE Better(k, best[k - 1])]
  <2> HIDE DEF Better
  <2>1. QED
    BY <1>2
<1> HIDE DEF best
<1>4. \A k \in 0 .. 15 : D!Distance(c, k) \in Int
  BY DistanceIs
<1> DEFINE A == {m \in Nat : m <= 15 => Nearest(c, m, best[m])}
<1>5. 0 \in A
  <2>1. best[0] = 0
    BY <1>3
  <2>2. D!Distance(c, 0) <= D!Distance(c, 0)
    BY <1>4
  <2>3. Nearest(c, 0, 0)
    BY <2>2 DEF Nearest
  <2>4. QED
    BY <2>1, <2>3
<1>6. ASSUME NEW m \in Nat, m \in A PROVE m + 1 \in A
  <2>1. SUFFICES ASSUME m + 1 <= 15 PROVE Nearest(c, m + 1, best[m + 1])
    OBVIOUS
  <2>2. Nearest(c, m, best[m])
    BY <1>6, <2>1
  <2>3. m + 1 \in 0 .. 15 /\ m + 1 # 0 /\ (m + 1) - 1 = m
    BY <2>1
  <2>4. best[m + 1] = IF D!Distance(c, m + 1) < D!Distance(c, best[m]) THEN m + 1 ELSE best[m]
    <3>1. best[m + 1] = Better(m + 1, best[(m + 1) - 1])
      <4> HIDE DEF Better
      <4>1. QED
        BY <1>3, <2>3
    <3>2. QED
      BY <2>3, <3>1
  <2> DEFINE e == best[m]
  <2>5. e \in 0 .. m /\ e \in 0 .. 15 /\ e \in Int
    BY <2>1, <2>2 DEF Nearest
  <2> HIDE DEF e, A
  <2>6. D!Distance(c, e) \in Int /\ D!Distance(c, m + 1) \in Int
        /\ \A j \in 0 .. m : D!Distance(c, j) \in Int
    BY <1>4, <2>1, <2>3, <2>5
  <2>7. \A j \in 0 .. m : D!Distance(c, e) <= D!Distance(c, j)
    BY <2>2 DEF Nearest, e
  <2>8. \A j \in 0 .. e - 1 : D!Distance(c, e) < D!Distance(c, j)
    BY <2>2 DEF Nearest, e
  <2>9. 0 .. m + 1 = (0 .. m) \cup {m + 1}
    OBVIOUS
  <2>10. CASE D!Distance(c, m + 1) < D!Distance(c, e)
    <3>1. best[m + 1] = m + 1
      BY <2>4, <2>10 DEF e
    <3>2. \A j \in 0 .. m : D!Distance(c, m + 1) < D!Distance(c, j)
      BY <2>6, <2>7, <2>10
    <3>3. \A j \in 0 .. m + 1 : D!Distance(c, m + 1) <= D!Distance(c, j)
      BY <2>6, <2>9, <3>2
    <3>4. (m + 1) - 1 = m /\ m + 1 \in 0 .. m + 1
      OBVIOUS
    <3>5. QED
      BY <3>1, <3>2, <3>3, <3>4 DEF Nearest
  <2>11. CASE ~(D!Distance(c, m + 1) < D!Distance(c, e))
    <3>1. best[m + 1] = e
      BY <2>4, <2>11 DEF e
    <3>2. D!Distance(c, e) <= D!Distance(c, m + 1)
      BY <2>6, <2>11
    <3>3. \A j \in 0 .. m + 1 : D!Distance(c, e) <= D!Distance(c, j)
      BY <2>7, <2>9, <3>2
    <3>4. e \in 0 .. m + 1
      BY <2>5
    <3>5. QED
      BY <2>8, <3>1, <3>3, <3>4 DEF Nearest
  <2>12. QED
    BY <2>10, <2>11
<1>7. 15 \in A
  <2> HIDE DEF A
  <2>1. QED
    BY <1>5, <1>6, Induct
<1>8. QED
  BY <1>1, <1>7

\* The ninth colour is the eighth once more, and never found.
LEMMA NinthNever ==
  ASSUME NEW c, \A f \in 1 .. 3 : c[f] \in Int, NEW m, Nearest(c, 15, m)
  PROVE  m # 8
<1>1. SUFFICES ASSUME m = 8 PROVE FALSE
  OBVIOUS
<1>2. 7 \in 0 .. 8 - 1 /\ 7 \in 0 .. 15
  OBVIOUS
<1>3. D!Distance(c, 8) < D!Distance(c, 7)
  BY <1>1, <1>2 DEF Nearest
<1>4. D!Distance(c, 7) \in Int /\ D!Distance(c, 8) = D!Distance(c, 7)
  BY <1>2, DistanceIs
<1>5. QED
  BY <1>3, <1>4

-----------------------------------------------------------------------------
(* Strings: where the characters stand that were drawn.                     *)

\* A character with the space behind it, and the points of that by its corner.
Spots == (0 .. CharW + SpaceX - 1) \X (0 .. CharH + SpaceY - 1)
Spot(c, p) == <<c.x + p[1], c.y + p[2]>>
Cell(c) == (c.x .. c.x + CharW + SpaceX - 1) \X (c.y .. c.y + CharH + SpaceY - 1)
GlyphBox == (0 .. CharW - 1) \X (0 .. CharH - 1)

IsCell(c) == c.x \in Int /\ c.y \in Int /\ c.glyph \subseteq GlyphBox

\* It is on a line above, or on the same line to the left.
Before(c, xx, yy) ==
  \/ c.y + CharH + SpaceY <= yy
  \/ c.y = yy /\ c.x + CharW + SpaceX <= xx

LEMMA SpotIs ==
  ASSUME NEW c, IsCell(c)
  PROVE  /\ \A p \in Spots : Spot(c, p) \in Cell(c)
         /\ \A p \in Spots, q \in Spots : Spot(c, p) = Spot(c, q) => p = q
         /\ GlyphBox \subseteq Spots
<1>1. CharW \in Nat /\ CharH \in Nat /\ SpaceX \in Nat /\ SpaceY \in Nat
  BY DisplayConstants
<1> DEFINE cx0 == c.x
           cy0 == c.y
<1>2. cx0 \in Int /\ cy0 \in Int
  BY DEF IsCell
<1>3. /\ \A p : Spot(c, p) = <<cx0 + p[1], cy0 + p[2]>>
      /\ Cell(c) = (cx0 .. cx0 + CharW + SpaceX - 1) \X (cy0 .. cy0 + CharH + SpaceY - 1)
  BY DEF Spot, Cell
<1> HIDE DEF cx0, cy0
<1>4. ASSUME NEW p \in Spots PROVE Spot(c, p) \in Cell(c)
  <2>1. p[1] \in 0 .. CharW + SpaceX - 1 /\ p[2] \in 0 .. CharH + SpaceY - 1
    BY DEF Spots
  <2>2. cx0 + p[1] \in cx0 .. cx0 + CharW + SpaceX - 1
    BY <1>1, <1>2, <2>1
  <2>3. cy0 + p[2] \in cy0 .. cy0 + CharH + SpaceY - 1
    BY <1>1, <1>2, <2>1
  <2>4. QED
    BY <1>3, <2>2, <2>3
<1>5. ASSUME NEW p \in Spots, NEW q \in Spots, Spot(c, p) = Spot(c, q) PROVE p = q
  <2>1. /\ p = <<p[1], p[2]>> /\ q = <<q[1], q[2]>>
        /\ p[1] \in Int /\ p[2] \in Int /\ q[1] \in Int /\ q[2] \in Int
    BY <1>1 DEF Spots
  <2>2. cx0 + p[1] = cx0 + q[1] /\ cy0 + p[2] = cy0 + q[2]
    BY <1>3, <1>5
  <2>3. p[1] = q[1] /\ p[2] = q[2]
    <3> DEFINE a == p[1]
               b == q[1]
               u == p[2]
               v == q[2]
    <3>1. a \in Int /\ b \in Int /\ u \in Int /\ v \in Int /\ cx0 + a = cx0 + b /\ cy0 + u = cy0 + v
      BY <2>1, <2>2
    <3> HIDE DEF a, b, u, v
    <3>2. a = b
      BY <1>2, <3>1
    <3>3. u = v
      BY <1>2, <3>1
    <3>4. QED
      BY <3>2, <3>3 DEF a, b, u, v
  <2>4. QED
    BY <2>1, <2>3
<1>6. GlyphBox \subseteq Spots
  <2>1. 0 .. CharW - 1 \subseteq 0 .. CharW + SpaceX - 1
    BY <1>1
  <2>2. 0 .. CharH - 1 \subseteq 0 .. CharH + SpaceY - 1
    BY <1>1
  <2>3. QED
    BY <2>1, <2>2 DEF Spots, GlyphBox
<1>7. QED
  BY <1>4, <1>5, <1>6

\* No two characters share a point.
LEMMA CellsApart ==
  ASSUME NEW c, IsCell(c), NEW d, IsCell(d), Before(c, d.x, d.y)
  PROVE  Cell(c) \cap Cell(d) = {}
<1>1. CharW \in Nat /\ CharH \in Nat /\ SpaceX \in Nat /\ SpaceY \in Nat
  BY DisplayConstants
<1>2. SUFFICES ASSUME NEW p \in Cell(c), p \in Cell(d) PROVE FALSE
  OBVIOUS
<1>3. p[1] \in c.x .. c.x + CharW + SpaceX - 1 /\ p[2] \in c.y .. c.y + CharH + SpaceY - 1
  BY DEF Cell
<1>4. p[1] \in d.x .. d.x + CharW + SpaceX - 1 /\ p[2] \in d.y .. d.y + CharH + SpaceY - 1
  BY <1>2 DEF Cell
<1>5. c.x \in Int /\ c.y \in Int /\ d.x \in Int /\ d.y \in Int
  BY DEF IsCell
<1>6. QED
  BY <1>1, <1>3, <1>4, <1>5 DEF Before

\* TextReadable of other pixels f and other cells cs; it is said point by point.
Readable(f, cs) ==
  \A c \in cs, p \in Spots :
    LET k == D!Seen({c.x + p[1]}, {c.y + p[2]})
        color == IF p \in c.glyph THEN call.fg ELSE call.bg
    IN \A m \in k : IF p \in c.glyph \/ call.bg # CLEAR
                    THEN m \in DOMAIN f /\ f[m] = color
                    ELSE m \notin DOMAIN f

Right(f, c, p) ==
  IF p \in c.glyph THEN Pixel(Spot(c, p)) \in DOMAIN f /\ f[Pixel(Spot(c, p))] = call.fg
  ELSE IF call.bg # CLEAR THEN Pixel(Spot(c, p)) \in DOMAIN f /\ f[Pixel(Spot(c, p))] = call.bg
  ELSE Pixel(Spot(c, p)) \notin DOMAIN f

LEMMA SeenSpot ==
  ASSUME NEW c, NEW p
  PROVE  D!Seen({c.x + p[1]}, {c.y + p[2]}) = IF Spot(c, p) \in Visible THEN {Pixel(Spot(c, p))} ELSE {}
<1>1. {c.x + p[1]} \X {c.y + p[2]} = {Spot(c, p)}
  BY DEF Spot
<1>2. D!Seen({c.x + p[1]}, {c.y + p[2]}) = {Pixel(q) : q \in {Spot(c, p)} \cap Visible}
  BY <1>1, SeenIs, ClippedIs
<1>3. QED
  BY <1>2

LEMMA ReadableIs ==
  \A f, cs : Readable(f, cs) <=> \A c \in cs, p \in Spots : Spot(c, p) \in Visible => Right(f, c, p)
<1> SUFFICES ASSUME NEW f, NEW cs
             PROVE  Readable(f, cs) <=> \A c \in cs, p \in Spots : Spot(c, p) \in Visible => Right(f, c, p)
  OBVIOUS
<1> DEFINE Shows(c, p, m) ==
             IF p \in c.glyph \/ call.bg # CLEAR
             THEN m \in DOMAIN f /\ f[m] = (IF p \in c.glyph THEN call.fg ELSE call.bg)
             ELSE m \notin DOMAIN f
<1>1. Readable(f, cs) <=>
        \A c \in cs, p \in Spots : \A m \in D!Seen({c.x + p[1]}, {c.y + p[2]}) : Shows(c, p, m)
  BY DEF Readable
<1>2. \A c, p : Right(f, c, p) <=> Shows(c, p, Pixel(Spot(c, p)))
  BY DEF Right
<1> HIDE DEF Shows
<1>3. ASSUME NEW c, NEW p
      PROVE  (\A m \in D!Seen({c.x + p[1]}, {c.y + p[2]}) : Shows(c, p, m))
               <=> (Spot(c, p) \in Visible => Shows(c, p, Pixel(Spot(c, p))))
  <2>1. D!Seen({c.x + p[1]}, {c.y + p[2]}) = IF Spot(c, p) \in Visible THEN {Pixel(Spot(c, p))} ELSE {}
    BY SeenSpot
  <2>2. QED
    BY <2>1
<1>4. QED
  BY <1>1, <1>2, <1>3

\* What is known of a string that is being drawn.
TextIInv(f, cs, t) ==
  /\ call.x \in Int
  /\ t.rest \in Seq(DOMAIN Glyph \cup {High, LineFeed}) /\ t.xx \in Int /\ t.yy \in Int
  /\ \A c \in cs : IsCell(c) /\ Before(c, t.xx, t.yy)
  /\ DOMAIN f \subseteq UNION {D!Clipped(Cell(c)) : c \in cs}
  /\ Readable(f, cs)

\* One more character: the earlier ones stay as they are, and it is as it should be.
LEMMA GlyphDrawn ==
  ASSUME Sized, TextIInv(painted, cells, text), NEW g, g \subseteq GlyphBox, NEW e,
         IsCell(e), e.x = text.xx, e.y = text.yy, e.glyph = g
  PROVE  LET f == D!WithGlyph(text, g) IN
         /\ DOMAIN f \subseteq UNION {D!Clipped(Cell(c)) : c \in cells \cup {e}}
         /\ DOMAIN f \subseteq DOMAIN painted \cup 0 .. w * h - 1
         /\ Readable(f, cells \cup {e})
<1> DEFINE back == IF call.bg = CLEAR THEN {} ELSE Cell(e)
           Ink == {Spot(e, p) : p \in g}
           B == D!Clipped(back)
           F == D!Clipped(Ink)
           f == D!Onto(D!Onto(painted, B, call.bg), F, call.fg)
<1>1. /\ CharW \in Nat \ {0} /\ CharH \in Nat \ {0} /\ SpaceX \in Nat /\ SpaceY \in Nat
      /\ text.xx \in Int /\ text.yy \in Int
      /\ \A c \in cells : IsCell(c) /\ Before(c, e.x, e.y)
  BY DisplayConstants DEF TextIInv
<1>2. D!WithGlyph(text, g) = f
  <2>1. D!Filled(D!Area(text.xx, text.yy, CharW + SpaceX, CharH + SpaceY)) = Cell(e)
    <3> DEFINE ww == CharW + SpaceX
               hh == CharH + SpaceY
               x0 == text.xx
               y0 == text.yy
    <3>1. ww \in Int /\ hh \in Int /\ ww > 0 /\ x0 \in Int /\ y0 \in Int
      BY <1>1
    <3>2. Cell(e) = (x0 .. x0 + CharW + SpaceX - 1) \X (y0 .. y0 + CharH + SpaceY - 1)
      BY DEF Cell
    <3>3. x0 + CharW + SpaceX - 1 = x0 + ww - 1 /\ y0 + CharH + SpaceY - 1 = y0 + hh - 1
      BY <1>1
    <3> HIDE DEF ww, hh, x0, y0
    <3>4. D!Filled(D!Area(x0, y0, ww, hh)) = (x0 .. x0 + ww - 1) \X (y0 .. y0 + hh - 1)
      BY <3>1, PaintedArea
    <3>5. D!Filled(D!Area(x0, y0, ww, hh)) = Cell(e)
      BY <3>2, <3>3, <3>4
    <3>6. QED
      BY <3>5 DEF ww, hh, x0, y0
  <2>2. {<<text.xx + p[1], text.yy + p[2]>> : p \in g} = Ink
    BY DEF Spot
  <2>3. QED
    BY <2>1, <2>2 DEF D!WithGlyph
<1>3. g \subseteq Spots /\ Ink \subseteq Cell(e) /\ back \subseteq Cell(e)
  BY SpotIs
<1>4. /\ DOMAIN f = (DOMAIN painted \cup B) \cup F
      /\ \A k \in F : f[k] = call.fg
      /\ \A k \in B \ F : f[k] = call.bg
      /\ \A k \in DOMAIN painted : k \notin B /\ k \notin F => f[k] = painted[k]
  <2> DEFINE f0 == D!Onto(painted, B, call.bg)
  <2>1. /\ DOMAIN f0 = DOMAIN painted \cup B
        /\ \A k \in B : f0[k] = call.bg
        /\ \A k \in DOMAIN painted \ B : f0[k] = painted[k]
    <3> HIDE DEF B
    <3>1. QED
      BY DEF D!Onto
  <2> HIDE DEF f0
  <2>2. f = D!Onto(f0, F, call.fg)
    BY DEF f0
  <2> HIDE DEF B, F, f
  <2>3. /\ DOMAIN f = DOMAIN f0 \cup F
        /\ \A k \in F : f[k] = call.fg
        /\ \A k \in DOMAIN f0 \ F : f[k] = f0[k]
    BY <2>2 DEF D!Onto
  <2>4. QED
    BY <2>1, <2>3
<1> HIDE DEF f
<1>5. B \subseteq D!Clipped(Cell(e)) /\ F \subseteq D!Clipped(Cell(e))
  BY <1>3, ClippedIs
<1>6. B \subseteq 0 .. w * h - 1 /\ F \subseteq 0 .. w * h - 1
  BY ClippedIn
<1>7. DOMAIN painted \subseteq UNION {D!Clipped(Cell(c)) : c \in cells}
  BY DEF TextIInv
<1>8. DOMAIN f \subseteq UNION {D!Clipped(Cell(c)) : c \in cells \cup {e}}
  BY <1>4, <1>5, <1>7
<1>9. DOMAIN f \subseteq DOMAIN painted \cup 0 .. w * h - 1
  BY <1>4, <1>6
\* A visible point of one cell has its pixel to itself.
<1>10. ASSUME NEW q \in Visible, NEW A, Pixel(q) \in D!Clipped(A) PROVE q \in A
  <2>1. PICK r \in A \cap Visible : Pixel(q) = Pixel(r)
    BY <1>10, ClippedIs
  <2>2. QED
    BY <2>1, PixelOnly
<1>11. ASSUME NEW c \in cells, NEW p \in Spots, Spot(c, p) \in Visible PROVE Right(f, c, p)
  <2> DEFINE q == Spot(c, p)
             k == Pixel(q)
  <2>1. q \in Cell(c) /\ Cell(c) \cap Cell(e) = {}
    BY <1>1, SpotIs, CellsApart
  <2>2. q \notin back /\ q \notin Ink
    BY <1>3, <2>1
  <2>3. k \notin B /\ k \notin F
    <3> HIDE DEF q, back, Ink
    <3>1. q \in Visible
      BY <1>11 DEF q
    <3>2. QED
      BY <1>10, <2>2, <3>1
  <2>4. Right(painted, c, p)
    BY <1>11, ReadableIs DEF TextIInv
  <2> HIDE DEF B, F
  <2>5. (k \in DOMAIN f <=> k \in DOMAIN painted) /\ (k \in DOMAIN painted => f[k] = painted[k])
    BY <1>4, <2>3
  <2>6. QED
    BY <2>4, <2>5 DEF Right
<1>12. ASSUME NEW p \in Spots, Spot(e, p) \in Visible PROVE Right(f, e, p)
  <2> DEFINE q == Spot(e, p)
             k == Pixel(q)
  <2>1. q \in Cell(e) /\ (q \in Ink => p \in g) /\ (p \in g => q \in Ink)
    BY <1>3, SpotIs
  <2>2. k \in F <=> p \in g
    <3>1. q \in Visible
      BY <1>12
    <3>2. p \in g => k \in F
      BY <2>1, <3>1, ClippedIs
    <3>3. k \in F => q \in Ink
      <4> HIDE DEF q, Ink
      <4>1. QED
        BY <1>10, <3>1
    <3>4. QED
      BY <2>1, <3>2, <3>3
  <2>3. CASE p \in g
    <3> HIDE DEF B, F
    <3>1. k \in DOMAIN f /\ f[k] = call.fg
      BY <1>4, <2>2, <2>3
    <3>2. QED
      BY <2>3, <3>1 DEF Right
  <2>4. CASE p \notin g /\ call.bg # CLEAR
    <3>1. k \in B
      BY <1>12, <2>1, <2>4, ClippedIs
    <3> HIDE DEF B, F
    <3>2. k \in DOMAIN f /\ f[k] = call.bg
      BY <1>4, <2>2, <2>4, <3>1
    <3>3. QED
      BY <2>4, <3>2 DEF Right
  <2>5. CASE p \notin g /\ call.bg = CLEAR
    <3>1. k \notin B
      BY <2>5, ClippedIs
    <3>2. k \notin DOMAIN painted
      <4>1. SUFFICES ASSUME NEW c \in cells, k \in D!Clipped(Cell(c)) PROVE FALSE
        BY <1>7
      <4>2. q \in Cell(c)
        <5>1. q \in Visible
          BY <1>12
        <5> HIDE DEF q
        <5>2. QED
          BY <1>10, <4>1, <5>1
      <4>3. Cell(c) \cap Cell(e) = {}
        BY <1>1, CellsApart
      <4>4. QED
        BY <2>1, <4>2, <4>3
    <3> HIDE DEF B, F
    <3>3. k \notin DOMAIN f
      BY <1>4, <2>2, <2>5, <3>1, <3>2
    <3>4. QED
      BY <2>5, <3>3 DEF Right
  <2>6. QED
    BY <2>3, <2>4, <2>5
<1>13. Readable(f, cells \cup {e})
  BY <1>11, <1>12, ReadableIs
<1>14. QED
  BY <1>2, <1>8, <1>9, <1>13

-----------------------------------------------------------------------------
(* The inductive invariant of the display.                                  *)

DisplayIInv ==
  /\ D!TypeOK
  /\ call.op \in {"boot", "none"} => painted = <<>> /\ cells = {}
  /\ call.op = "text" => TextIInv(painted, cells, text)
  /\ D!FillIsRect /\ D!RectIsFrame /\ D!ClosestFirst

LEMMA DisplaySized == D!TypeOK => Sized
BY DisplayConstants DEF D!TypeOK, Sized

\* What the arguments of a call say of the pixels A that it paints.
FillRight(b, A) ==
  A = CASE b.w > 0 /\ b.h > 0 -> D!Seen(b.x .. b.x + b.w - 1, b.y .. b.y + b.h - 1)
        [] b.w < 0 /\ b.h < 0 -> D!Seen(b.x .. b.x - b.w - 1, b.y + b.h + 1 .. b.y)
        [] OTHER -> {}
FrameRight(b, thick, A) ==
  thick \in 1 .. b.w /\ thick <= b.h =>
    A = D!Seen(b.x .. b.x + b.w - 1, b.y .. b.y + b.h - 1)
        \ D!Seen(b.x + thick .. b.x + b.w - thick - 1, b.y + thick .. b.y + b.h - thick - 1)
ColorRight(c, m) ==
  /\ \A k \in 0 .. 15 : D!Distance(c, m) <= D!Distance(c, k)
  /\ \A k \in 0 .. m - 1 : D!Distance(c, m) < D!Distance(c, k)
  /\ m # 8

LEMMA FillIs ==
  ASSUME Sized, NEW b \in Areas
  PROVE  FillRight(b, D!Clipped(D!Filled(b)))
<1>1. b.w \in Int /\ b.h \in Int
  BY DEF Areas
<1>2. CASE b.w > 0 /\ b.h > 0
  <2>1. ~(b.w < 0 /\ b.h < 0)
    BY <1>1, <1>2
  <2>2. D!Filled(b) = Box(b)
    BY <1>2, FilledIs
  <2>3. D!Clipped(Box(b)) = D!Seen(b.x .. b.x + b.w - 1, b.y .. b.y + b.h - 1)
    BY SeenIs DEF Box
  <2>4. QED
    BY <1>2, <2>1, <2>2, <2>3 DEF FillRight
<1>3. CASE b.w < 0 /\ b.h < 0
  <2>1. ~(b.w > 0 /\ b.h > 0)
    BY <1>1, <1>3
  <2>2. QED
    BY <1>3, <2>1, FilledIs, SeenIs DEF FillRight, BoxUp
<1>4. CASE ~(b.w > 0 /\ b.h > 0) /\ ~(b.w < 0 /\ b.h < 0)
  <2>1. D!Clipped({}) = {}
    BY ClippedIs
  <2>2. D!Filled(b) = {}
    BY <1>4, FilledIs
  <2>3. QED
    BY <1>4, <2>1, <2>2 DEF FillRight
<1>5. QED
  BY <1>2, <1>3, <1>4

LEMMA FrameIs ==
  ASSUME Sized, NEW b \in Areas, NEW thick \in Nat, NEW A,
         A = IF thick = 0 THEN {} ELSE D!Clipped(D!Framed(b, thick))
  PROVE  FrameRight(b, thick, A)
<1>1. SUFFICES ASSUME thick \in 1 .. b.w, thick <= b.h
               PROVE  A = D!Clipped(Box(b)) \ D!Clipped(Inner(b, thick))
  BY SeenIs DEF FrameRight, Box, Inner
<1>2. b.w \in Int /\ b.h \in Int
  BY DEF Areas
<1>3. thick >= 1 /\ thick <= b.w /\ thick # 0
  BY <1>1, <1>2
<1>4. D!Framed(b, thick) = Box(b) \ Inner(b, thick)
  BY <1>1, <1>3, FramedIs
<1>5. QED
  BY <1>3, <1>4, ClippedMinus

LEMMA ColorIs ==
  ASSUME NEW r \in Levels, NEW g \in Levels, NEW b \in Levels
  PROVE  ColorRight(<<r, g, b>>, D!Closest(<<r, g, b>>))
<1> DEFINE c == <<r, g, b>>
           m == D!Closest(c)
<1>1. \A f \in 1 .. 3 : c[f] \in Int
  <2>1. r \in Int /\ g \in Int /\ b \in Int
    BY DisplayConstants
  <2>2. \A f \in 1 .. 3 : f = 1 \/ f = 2 \/ f = 3
    OBVIOUS
  <2>3. QED
    BY <2>1, <2>2
<1> HIDE DEF c
<1>2. Nearest(c, 15, m)
  BY <1>1, ClosestIs
<1>3. m # 8
  BY <1>1, <1>2, NinthNever
<1> HIDE DEF m
<1>4. ColorRight(c, m)
  BY <1>2, <1>3 DEF Nearest, ColorRight
<1>5. QED
  BY <1>4 DEF c, m

\* A call that paints at once.
LEMMA PaintsIs ==
  ASSUME D!TypeOK, NEW op, NEW args, NEW pixels, D!Paints(op, args, pixels),
         op \in {"clear", "blit", "fill", "rect", "load", "color"},
         DOMAIN pixels \subseteq 0 .. w * h - 1,
         op = "fill" => FillRight(args, DOMAIN pixels),
         op = "rect" => FrameRight(args[1], args[2], DOMAIN pixels),
         op = "color" => ColorRight(args[1], args[2])
  PROVE  DisplayIInv'
<1>1. /\ call' = [op |-> op, args |-> args] /\ painted' = pixels
      /\ w' = w /\ h' = h /\ fbptr' = fbptr /\ halted' = halted
  BY DEF D!Paints
<1>2. call'.op = op /\ call'.args = args
  BY <1>1
<1>3. D!TypeOK'
  BY <1>1 DEF D!TypeOK
<1>4. D!FillIsRect'
  BY <1>1, <1>2 DEF D!FillIsRect, FillRight, D!Seen
<1>5. D!RectIsFrame'
  BY <1>1, <1>2 DEF D!RectIsFrame, FrameRight, D!Seen
<1>6. D!ClosestFirst'
  BY <1>2 DEF D!ClosestFirst, ColorRight
<1>7. ~(call'.op \in {"boot", "none"}) /\ call'.op # "text"
  BY <1>2
<1>8. QED
  BY <1>3, <1>4, <1>5, <1>6, <1>7 DEF DisplayIInv

\* What is known of a string stays known while nothing is drawn.
LEMMA TextKept ==
  ASSUME NEW f, NEW cs, NEW t, TextIInv(f, cs, t), painted' = f, cells' = cs, text' = t,
         call' = call, w' = w, h' = h
  PROVE  TextIInv(painted, cells, text)'
BY DEF TextIInv, Readable, IsCell, Before, Cell, D!Seen, D!Clipped

LEMMA Onto0 == \A A, c : DOMAIN D!Onto(<<>>, A, c) = A /\ DOMAIN <<>> = {}
BY DEF D!Onto

LEMMA DrawCharIs ==
  ASSUME DisplayIInv, D!DrawChar
  PROVE  TextIInv(painted, cells, text)' /\ DOMAIN painted' \subseteq 0 .. w * h - 1
<1> DEFINE c == Head(text.rest)
           Texts == DOMAIN Glyph \cup {High, LineFeed}
           t == D!Advanced(text)
<1>1. /\ Sized /\ DOMAIN painted \subseteq 0 .. w * h - 1
      /\ TextIInv(painted, cells, text)
      /\ text.rest # <<>> /\ text' = t /\ call' = call /\ w' = w /\ h' = h
  BY DisplaySized DEF DisplayIInv, D!DrawChar, D!TypeOK
<1>2. /\ CharW \in Nat \ {0} /\ CharH \in Nat \ {0} /\ SpaceX \in Nat /\ SpaceY \in Nat
  BY DisplayConstants
<1>3. /\ call.x \in Int /\ text.rest \in Seq(Texts) /\ text.xx \in Int /\ text.yy \in Int
      /\ \A d \in cells : IsCell(d) /\ Before(d, text.xx, text.yy)
      /\ DOMAIN painted \subseteq UNION {D!Clipped(Cell(d)) : d \in cells}
      /\ Readable(painted, cells)
  BY <1>1 DEF TextIInv
<1>4. c \in Texts /\ Tail(text.rest) \in Seq(Texts)
  <2> HIDE DEF Texts
  <2>1. QED
    BY <1>1, <1>3, HeadTailProperties
<1>5. /\ t = IF c = LineFeed
             THEN [rest |-> Tail(text.rest), xx |-> call.x, yy |-> text.yy + CharH + SpaceY]
             ELSE [rest |-> Tail(text.rest), xx |-> text.xx + CharW + SpaceX, yy |-> text.yy]
  BY DEF D!Advanced
<1>6. t.rest \in Seq(Texts) /\ t.xx \in Int /\ t.yy \in Int
  <2>1. text.yy + CharH + SpaceY \in Int /\ text.xx + CharW + SpaceX \in Int
    BY <1>2, <1>3
  <2> HIDE DEF c, t, Texts
  <2>2. QED
    BY <1>3, <1>4, <1>5, <2>1
<1> HIDE DEF t
<1>7. ASSUME NEW d \in cells PROVE Before(d, t.xx, t.yy)
  <2> DEFINE x0 == d.x
             y0 == d.y
             x1 == text.xx
             y1 == text.yy
  <2>1. /\ x0 \in Int /\ y0 \in Int /\ x1 \in Int /\ y1 \in Int
        /\ y0 + CharH + SpaceY <= y1 \/ (y0 = y1 /\ x0 + CharW + SpaceX <= x1)
    BY <1>3 DEF IsCell, Before
  <2>2. CASE c = LineFeed
    <3>1. t.yy = y1 + CharH + SpaceY
      BY <1>5, <2>2
    <3> HIDE DEF x0, y0, x1, y1
    <3>2. y0 + CharH + SpaceY <= t.yy
      BY <1>2, <2>1, <3>1
    <3>3. QED
      BY <3>2 DEF Before, y0
  <2>3. CASE c # LineFeed
    <3>1. t.yy = y1 /\ t.xx = x1 + CharW + SpaceX
      BY <1>5, <2>3
    <3> HIDE DEF x0, y0, x1, y1
    <3>2. y0 + CharH + SpaceY <= t.yy \/ (y0 = t.yy /\ x0 + CharW + SpaceX <= t.xx)
      BY <1>2, <2>1, <3>1
    <3>3. QED
      BY <3>2 DEF Before, x0, y0
  <2>4. QED
    BY <2>2, <2>3
<1>8. CASE c = LineFeed
  <2>1. painted' = painted /\ cells' = cells
    BY <1>8 DEF D!DrawChar
  <2>2. TextIInv(painted, cells, t)
    BY <1>3, <1>6, <1>7 DEF TextIInv
  <2>3. QED
    BY <1>1, <2>1, <2>2, TextKept
<1>9. CASE c # LineFeed
  <2>1. PICK g \in (IF c = High THEN Wild ELSE {Glyph[c]}) :
          /\ painted' = D!WithGlyph(text, g)
          /\ cells' = cells \cup {[x |-> text.xx, y |-> text.yy, char |-> c, glyph |-> g]}
    BY <1>9 DEF D!DrawChar
  <2> DEFINE e == [x |-> text.xx, y |-> text.yy, char |-> c, glyph |-> g]
             f == D!WithGlyph(text, g)
             cs == cells \cup {e}
  <2>2. g \subseteq GlyphBox
    BY <1>4, <1>9, DisplayConstants DEF GlyphBox
  <2>3. e.x = text.xx /\ e.y = text.yy /\ e.glyph = g /\ cells' = cs /\ painted' = f
    BY <2>1
  <2> HIDE DEF e, c, f
  <2>4. IsCell(e)
    BY <1>3, <2>2, <2>3 DEF IsCell
  <2>5. /\ DOMAIN f \subseteq UNION {D!Clipped(Cell(d)) : d \in cs}
        /\ DOMAIN f \subseteq DOMAIN painted \cup 0 .. w * h - 1
        /\ Readable(f, cs)
    BY <1>1, <2>2, <2>3, <2>4, GlyphDrawn DEF f
  <2>6. Before(e, t.xx, t.yy)
    <3>1. t.yy = text.yy /\ t.xx = text.xx + CharW + SpaceX
      BY <1>5, <1>9
    <3>2. e.x + CharW + SpaceX <= t.xx
      <4>1. text.xx + CharW + SpaceX \in Int
        BY <1>2, <1>3
      <4>2. QED
        BY <2>3, <3>1, <4>1
    <3>3. QED
      BY <2>3, <3>1, <3>2 DEF Before
  <2>7. TextIInv(f, cs, t)
    <3>1. ASSUME NEW d \in cs PROVE IsCell(d) /\ Before(d, t.xx, t.yy)
      BY <1>3, <1>7, <2>4, <2>6
    <3> HIDE DEF cs
    <3>2. QED
      BY <1>3, <1>6, <2>5, <3>1 DEF TextIInv
  <2> HIDE DEF cs
  <2>8. TextIInv(painted, cells, text)'
    BY <1>1, <2>3, <2>7, TextKept
  <2>9. QED
    BY <1>1, <2>3, <2>5, <2>8
<1>10. QED
  BY <1>8, <1>9

LEMMA DisplayStep ==
  ASSUME DisplayIInv, D!Next
  PROVE  DisplayIInv'
<1>1. /\ D!TypeOK /\ Sized /\ DOMAIN painted \subseteq 0 .. w * h - 1
      /\ <<fbptr, w, h>> \in {<<"NULL", 0, 0>>, <<"mapped", Width, Height>>}
      /\ Places \subseteq Int /\ Sizes \subseteq Int /\ Pens \subseteq Nat
  BY DisplaySized, DisplayConstants DEF DisplayIInv, D!TypeOK
<1>2. CASE D!Start
  <2>1. /\ call.op = "boot" /\ painted' = <<>> /\ cells' = {} /\ halted' \in BOOLEAN
        /\ <<fbptr, w, h>>' \in {<<"NULL", 0, 0>>, <<"mapped", Width, Height>>}
        /\ call' = call \/ call' = [op |-> "none"]
    BY <1>1, <1>2 DEF D!Start, DisplayIInv, D!TypeOK
  <2>2. call'.op \in {"boot", "none"} /\ DOMAIN painted' = {}
    BY <2>1, Onto0
  <2>3. D!TypeOK'
    BY <2>1, <2>2 DEF D!TypeOK
  <2>4. QED
    BY <2>1, <2>2, <2>3 DEF DisplayIInv, D!FillIsRect, D!RectIsFrame, D!ClosestFirst
<1>3. CASE D!Clear
  <2>1. PICK c \in Colors : D!Paints("clear", c, [k \in 0 .. w * h - 1 |-> c])
    BY <1>3 DEF D!Clear
  <2>2. DOMAIN [k \in 0 .. w * h - 1 |-> c] \subseteq 0 .. w * h - 1
    OBVIOUS
  <2>3. QED
    BY <1>1, <2>1, <2>2, PaintsIs
<1>4. CASE D!Blit
  <2>1. PICK x \in Places, y \in Places, c \in Colors :
          D!Paints("blit", <<x, y>>, D!Onto(<<>>, D!Clipped({<<x, y>>}), c))
    BY <1>4 DEF D!Blit
  <2> DEFINE f == D!Onto(<<>>, D!Clipped({<<x, y>>}), c)
             a == <<x, y>>
  <2>2. DOMAIN f \subseteq 0 .. w * h - 1
    BY <1>1, ClippedIn, Onto0
  <2>3. D!Paints("blit", a, f)
    BY <2>1
  <2> HIDE DEF f, a
  <2>4. QED
    BY <1>1, <2>2, <2>3, PaintsIs
<1>5. CASE D!RectFill
  <2>1. PICK x \in Places, y \in Places, ww \in Sizes, hh \in Sizes, c \in Colors :
          D!Paints("fill", D!Area(x, y, ww, hh), D!Onto(<<>>, D!Clipped(D!Filled(D!Area(x, y, ww, hh))), c))
    BY <1>5 DEF D!RectFill
  <2> DEFINE b == D!Area(x, y, ww, hh)
             A == D!Clipped(D!Filled(b))
             f == D!Onto(<<>>, A, c)
  <2>2. b \in Areas
    BY <1>1, AreaIs
  <2>3. D!Paints("fill", b, f)
    BY <2>1
  <2> HIDE DEF b
  <2>4. A \subseteq 0 .. w * h - 1 /\ FillRight(b, A)
    BY <1>1, <2>2, ClippedIn, FillIs
  <2> HIDE DEF A
  <2>5. DOMAIN f = A
    BY Onto0
  <2> HIDE DEF f
  <2>6. QED
    BY <1>1, <2>3, <2>4, <2>5, PaintsIs
<1>6. CASE D!Rect
  <2>1. PICK x \in Places, y \in Places, ww \in Sizes, hh \in Sizes, thick \in Pens, c \in Colors :
          D!Paints("rect", <<D!Area(x, y, ww, hh), thick>>,
            D!Onto(<<>>, IF thick = 0 THEN {} ELSE D!Clipped(D!Framed(D!Area(x, y, ww, hh), thick)), c))
    BY <1>6 DEF D!Rect
  <2> DEFINE b == D!Area(x, y, ww, hh)
             A == IF thick = 0 THEN {} ELSE D!Clipped(D!Framed(b, thick))
             f == D!Onto(<<>>, A, c)
             a == <<b, thick>>
  <2>2. b \in Areas /\ thick \in Nat
    BY <1>1, AreaIs
  <2>3. D!Paints("rect", a, f)
    BY <2>1
  <2> HIDE DEF b
  <2>4. A \subseteq 0 .. w * h - 1
    BY <1>1, ClippedIn
  <2>5. FrameRight(b, thick, A)
    BY <1>1, <2>2, FrameIs
  <2> HIDE DEF A
  <2>6. DOMAIN f = A /\ a[1] = b /\ a[2] = thick
    BY Onto0
  <2> HIDE DEF f, a
  <2>7. QED
    BY <1>1, <2>3, <2>4, <2>5, <2>6, PaintsIs
<1>7. CASE D!Load
  <2>1. PICK first \in Colors, others \in Colors :
          D!Paints("load", <<first, others>>, [k \in 0 .. w * h - 1 |-> IF k = 0 THEN first ELSE others])
    BY <1>7 DEF D!Load
  <2> DEFINE f == [k \in 0 .. w * h - 1 |-> IF k = 0 THEN first ELSE others]
             a == <<first, others>>
  <2>2. DOMAIN f \subseteq 0 .. w * h - 1
    OBVIOUS
  <2>3. D!Paints("load", a, f)
    BY <2>1
  <2> HIDE DEF f, a
  <2>4. QED
    BY <1>1, <2>2, <2>3, PaintsIs
<1>8. CASE D!DrawStr
  <2>1. PICK x \in Places, y \in Places, str \in D!Texts, ink \in Colors, ground \in Colors :
          /\ call' = [op |-> "text", x |-> x, fg |-> ink, bg |-> ground]
          /\ text' = [rest |-> str, xx |-> x, yy |-> y]
    BY <1>8 DEF D!DrawStr
  <2>2. /\ painted' = <<>> /\ cells' = {} /\ w' = w /\ h' = h /\ fbptr' = fbptr /\ halted' = halted
        /\ halted \in BOOLEAN
    BY <1>8 DEF D!DrawStr, D!Ready, DisplayIInv, D!TypeOK
  <2>3. call'.op = "text" /\ call'.x = x /\ text'.rest = str /\ text'.xx = x /\ text'.yy = y
    BY <2>1
  <2>4. str \in Seq(DOMAIN Glyph \cup {High, LineFeed})
    <3> DEFINE A == DOMAIN Glyph \cup {High, LineFeed}
    <3>1. PICK len \in 0 .. MaxText : str \in [1 .. len -> A]
      BY DEF D!Texts
    <3>2. len \in Nat
      OBVIOUS
    <3> HIDE DEF A
    <3>3. str \in Seq(A)
      BY <3>1, <3>2
    <3>4. QED
      BY <3>3 DEF A
  <2>5. DOMAIN painted' = {}
    BY <2>2, Onto0
  <2>6. TextIInv(painted, cells, text)'
    <3>1. call'.x \in Int /\ text'.xx \in Int /\ text'.yy \in Int
      BY <1>1, <2>3
    <3>2. Readable(painted, cells)'
      BY <2>2 DEF Readable
    <3>3. QED
      BY <2>2, <2>3, <2>4, <2>5, <3>1, <3>2 DEF TextIInv
  <2>7. D!TypeOK'
    BY <1>1, <2>2, <2>5 DEF D!TypeOK
  <2>8. QED
    BY <2>3, <2>6, <2>7 DEF DisplayIInv, D!FillIsRect, D!RectIsFrame, D!ClosestFirst
<1>9. CASE D!DrawChar
  <2>1. TextIInv(painted, cells, text)' /\ DOMAIN painted' \subseteq 0 .. w * h - 1
    BY <1>9, DrawCharIs
  <2>2. /\ call' = call /\ call.op = "text" /\ w' = w /\ h' = h /\ fbptr' = fbptr /\ halted' = halted
        /\ halted \in BOOLEAN
    BY <1>9 DEF D!DrawChar, DisplayIInv, D!TypeOK
  <2>3. D!TypeOK'
    BY <1>1, <2>1, <2>2 DEF D!TypeOK
  <2>4. call'.op = "text"
    BY <2>2
  <2>5. QED
    BY <2>1, <2>3, <2>4 DEF DisplayIInv, D!FillIsRect, D!RectIsFrame, D!ClosestFirst
<1>10. CASE D!Return
  <2>1. /\ call' = [op |-> "none"] /\ painted' = <<>> /\ cells' = {}
        /\ w' = w /\ h' = h /\ fbptr' = fbptr /\ halted' = halted /\ halted \in BOOLEAN
    BY <1>10 DEF D!Return, DisplayIInv, D!TypeOK
  <2>2. call'.op = "none" /\ DOMAIN painted' = {}
    BY <2>1, Onto0
  <2>3. D!TypeOK'
    BY <1>1, <2>1, <2>2 DEF D!TypeOK
  <2>4. QED
    BY <2>1, <2>2, <2>3 DEF DisplayIInv, D!FillIsRect, D!RectIsFrame, D!ClosestFirst
<1>11. CASE D!FromArgb
  <2>1. PICK r \in Levels, g \in Levels, b \in Levels :
          D!Paints("color", <<<<r, g, b>>, D!Closest(<<r, g, b>>)>>, <<>>)
    BY <1>11 DEF D!FromArgb
  <2> DEFINE c == <<r, g, b>>
             m == D!Closest(c)
             a == <<c, m>>
  <2>2. ColorRight(c, m)
    BY ColorIs
  <2>3. D!Paints("color", a, <<>>)
    BY <2>1
  <2> HIDE DEF c, m
  <2>4. a[1] = c /\ a[2] = m /\ DOMAIN <<>> = {}
    BY Onto0
  <2> HIDE DEF a
  <2> DEFINE f == <<>>
  <2>5. DOMAIN f \subseteq 0 .. w * h - 1 /\ D!Paints("color", a, f)
    BY <2>3, <2>4
  <2> HIDE DEF f
  <2>6. QED
    BY <1>1, <2>2, <2>4, <2>5, PaintsIs
<1>12. QED
  BY <1>2, <1>3, <1>4, <1>5, <1>6, <1>7, <1>8, <1>9, <1>10, <1>11 DEF D!Next

LEMMA DisplayInit == D!Init => DisplayIInv
<1> SUFFICES ASSUME D!Init PROVE DisplayIInv
  OBVIOUS
<1>1. /\ fbptr = "NULL" /\ w = 0 /\ h = 0 /\ call.op = "boot" /\ painted = <<>> /\ cells = {} /\ halted = FALSE
  BY DEF D!Init
<1>2. DOMAIN painted = {}
  BY <1>1, Onto0
<1>3. D!TypeOK
  BY <1>1, <1>2 DEF D!TypeOK
<1>4. QED
  BY <1>1, <1>3 DEF DisplayIInv, D!FillIsRect, D!RectIsFrame, D!ClosestFirst

LEMMA DisplayKept == DisplayIInv /\ [D!Next]_(D!vars) => DisplayIInv'
<1> SUFFICES ASSUME DisplayIInv, [D!Next]_(D!vars) PROVE DisplayIInv'
  OBVIOUS
<1>1. CASE D!Next
  BY <1>1, DisplayStep
<1>2. CASE UNCHANGED D!vars
  <2>1. /\ fbptr' = fbptr /\ w' = w /\ h' = h /\ call' = call /\ painted' = painted
        /\ text' = text /\ cells' = cells /\ halted' = halted
    BY <1>2 DEF D!vars
  <2>2. D!TypeOK'
    BY <2>1 DEF DisplayIInv, D!TypeOK
  <2>3. D!FillIsRect' /\ D!RectIsFrame' /\ D!ClosestFirst'
    BY <2>1 DEF DisplayIInv, D!FillIsRect, D!RectIsFrame, D!ClosestFirst, D!Seen
  <2>4. call'.op = "text" => TextIInv(painted, cells, text)'
    BY <2>1, TextKept DEF DisplayIInv
  <2>5. QED
    BY <2>1, <2>2, <2>3, <2>4 DEF DisplayIInv
<1>3. QED
  BY <1>1, <1>2

LEMMA DisplayAlone == AllSpec => D!Spec
<1>1. AllInit => D!Init
  BY DEF AllInit
<1>2. [AllNext]_all => [D!Next]_(D!vars)
  BY DEF AllNext, all, displayVars, D!vars, OnlyConsole, OnlyDisplay, OnlyStrings, OnlyNumbers, OnlyClock
<1>3. QED
  BY <1>1, <1>2, PTL DEF AllSpec, D!Spec

LEMMA DisplayRight == DisplayIInv => DrawnRight
<1> SUFFICES ASSUME DisplayIInv PROVE D!DrawnRight
  BY DEF DrawnRight
<1>1. D!TextReadable
  <2>1. SUFFICES ASSUME call.op = "text" PROVE Readable(painted, cells)
    BY DEF D!TextReadable, Readable, Spots
  <2>2. QED
    BY <2>1 DEF DisplayIInv, TextIInv
<1>2. QED
  BY <1>1 DEF D!DrawnRight, DisplayIInv

\* Whatever is drawn where: a filled rectangle and a frame are what is on the screen of
\* them, no character of a string is painted over by a later one or its background, and
\* the colour that is found is the first of the nearest (vbe.c:100, display.c:40-134).
THEOREM PixelsRight == AllSpec => []DrawnRight
BY DisplayAlone, DisplayInit, DisplayKept, DisplayRight, PTL DEF D!Spec

-----------------------------------------------------------------------------
(* Words and their digits.                                                  *)

LEMMA Powers ==
  /\ 2^0 = 1 /\ 2^1 = 2 /\ 2^2 = 4 /\ 2^3 = 8 /\ 2^4 = 16 /\ 2^5 = 32 /\ 2^6 = 64 /\ 2^7 = 128
  /\ 2^8 = 256 /\ 2^9 = 512 /\ 2^10 = 1024 /\ 2^11 = 2048 /\ 2^12 = 4096 /\ 2^13 = 8192
  /\ 2^14 = 16384 /\ 2^15 = 32768 /\ 2^16 = 65536 /\ 2^17 = 131072 /\ 2^18 = 262144
  /\ 2^19 = 524288 /\ 2^20 = 1048576 /\ 2^21 = 2097152 /\ 2^22 = 4194304 /\ 2^23 = 8388608
  /\ 2^24 = 16777216 /\ 2^25 = 33554432 /\ 2^26 = 67108864 /\ 2^27 = 134217728
  /\ 2^28 = 268435456 /\ 2^29 = 536870912 /\ 2^30 = 1073741824 /\ 2^31 = 2147483648
  /\ 2^32 = 4294967296
OBVIOUS

LEMMA Powers16 ==
  /\ 16^0 = 1 /\ 16^1 = 16 /\ 16^2 = 256 /\ 16^3 = 4096 /\ 16^4 = 65536 /\ 16^5 = 1048576
  /\ 16^6 = 16777216 /\ 16^7 = 268435456 /\ 16^8 = 4294967296
OBVIOUS

\* The number of words, and half of it.
Words0 == 2^WordBits
Half == 2^(WordBits - 1)

LEMMA WordIs ==
  /\ WordBits \in {8, 16, 24, 32} /\ Aligns \subseteq {2^k : k \in 0 .. WordBits - 1}
  /\ Words0 \in {256, 65536, 16777216, 4294967296} /\ Half \in Nat /\ Words0 = 2 * Half
  /\ \A x : N!Wrap(x) = x % Words0
  /\ N!Word = 0 .. Words0 - 1
<1>1. WordBits \in {8, 16, 24, 32} /\ Aligns \subseteq {2^k : k \in 0 .. WordBits - 1}
  BY ScreenAssumption DEF N!NumbersAssumption
<1>2. Words0 \in {256, 65536, 16777216, 4294967296} /\ Half \in Nat /\ Words0 = 2 * Half
  <2>1. CASE WordBits = 8
    <3>1. WordBits - 1 = 7
      BY <2>1
    <3>2. QED
      BY <2>1, <3>1, Powers DEF Words0, Half
  <2>2. CASE WordBits = 16
    <3>1. WordBits - 1 = 15
      BY <2>2
    <3>2. QED
      BY <2>2, <3>1, Powers DEF Words0, Half
  <2>3. CASE WordBits = 24
    <3>1. WordBits - 1 = 23
      BY <2>3
    <3>2. QED
      BY <2>3, <3>1, Powers DEF Words0, Half
  <2>4. CASE WordBits = 32
    <3>1. WordBits - 1 = 31
      BY <2>4
    <3>2. QED
      BY <2>4, <3>1, Powers DEF Words0, Half
  <2>5. QED
    BY <1>1, <2>1, <2>2, <2>3, <2>4
<1>3. (\A x : N!Wrap(x) = x % Words0) /\ N!Word = 0 .. Words0 - 1
  BY DEF N!Wrap, N!Word, Words0
<1>4. QED
  BY <1>1, <1>2, <1>3

LEMMA WrapIs ==
  ASSUME NEW x \in Int
  PROVE  /\ N!Wrap(x) \in N!Word /\ N!Wrap(x) \in Nat
         /\ x \in N!Word => N!Wrap(x) = x
         /\ x < 0 /\ x + Words0 \in N!Word => N!Wrap(x) = x + Words0
<1> DEFINE K == Words0
<1>1. K \in Nat \ {0} /\ N!Wrap(x) = x % K /\ N!Word = 0 .. K - 1
  BY WordIs
<1> HIDE DEF K
<1>2. x % K \in 0 .. K - 1 /\ x % K \in Nat
  BY <1>1
<1>3. x \in 0 .. K - 1 => x % K = x
  BY <1>1
<1>4. x < 0 /\ x + K \in 0 .. K - 1 => x % K = x + K
  BY <1>1
<1>5. QED
  BY <1>1, <1>2, <1>3, <1>4 DEF K

\* The characters of digits.
Decimals == 48 .. 57
Hexes == 48 .. 57 \cup 65 .. 70

LEMMA CharIs ==
  ASSUME NEW d \in 0 .. 15
  PROVE  /\ N!Char(d) \in Hexes /\ N!Char(d) \in Int /\ N!HexDigit(N!Char(d)) = d
         /\ d < 10 => N!Char(d) \in Decimals
<1>1. CASE d < 10
  <2>1. N!Char(d) = 48 + d
    BY <1>1 DEF N!Char, N!ZERO
  <2>2. 48 + d \in 48 .. 57 /\ 48 + d \notin 65 .. 70 /\ 48 + d \notin 97 .. 102 /\ (48 + d) - 48 = d
    BY <1>1
  <2> DEFINE c == N!Char(d)
  <2>3. c \in 48 .. 57 /\ c \notin 65 .. 70 /\ c \notin 97 .. 102 /\ c - 48 = d /\ c \in Int
    BY <2>1, <2>2
  <2> HIDE DEF c
  <2>4. N!HexDigit(c) = d
    BY <2>3 DEF N!HexDigit
  <2>5. QED
    BY <2>3, <2>4 DEF c, Hexes, Decimals
<1>2. CASE ~(d < 10)
  <2>1. N!Char(d) = 65 + d - 10
    BY <1>2 DEF N!Char, N!LETTER
  <2> DEFINE c == N!Char(d)
  <2>2. c \in 65 .. 70 /\ c \notin 48 .. 57 /\ c \notin 97 .. 102 /\ c - 55 = d /\ c \in Int
    BY <1>2, <2>1
  <2> HIDE DEF c
  <2>3. N!HexDigit(c) = d
    BY <2>2 DEF N!HexDigit
  <2>4. QED
    BY <1>2, <2>2, <2>3 DEF c, Hexes
<1>3. QED
  BY <1>1, <1>2

LEMMA HexDigitIs == \A c : N!HexDigit(c) \in Int
<1> SUFFICES ASSUME NEW c PROVE N!HexDigit(c) \in Int
  OBVIOUS
<1>1. CASE c \in 48 .. 57
  <2>1. c \notin 65 .. 70 /\ c \notin 97 .. 102
    BY <1>1
  <2>2. N!HexDigit(c) = c - 48
    BY <1>1, <2>1 DEF N!HexDigit
  <2>3. QED
    BY <1>1, <2>2
<1>2. CASE c \in 65 .. 70
  <2>1. c \notin 48 .. 57 /\ c \notin 97 .. 102
    BY <1>2
  <2>2. N!HexDigit(c) = c - 55
    BY <1>2, <2>1 DEF N!HexDigit
  <2>3. QED
    BY <1>2, <2>2
<1>3. CASE c \in 97 .. 102
  <2>1. c \notin 48 .. 57 /\ c \notin 65 .. 70
    BY <1>3
  <2>2. N!HexDigit(c) = c - 87
    BY <1>3, <2>1 DEF N!HexDigit
  <2>3. QED
    BY <1>3, <2>2
<1>4. CASE c \notin 48 .. 57 /\ c \notin 65 .. 70 /\ c \notin 97 .. 102
  BY <1>4 DEF N!HexDigit
<1>5. QED
  BY <1>1, <1>2, <1>3, <1>4

\* C's quotient is nearer to 0, and its remainder is of the same sign.
Bases == {2, 10, 16}

LEMMA QuotIs ==
  ASSUME NEW x \in Int, NEW b \in Bases, x # 0
  PROVE  /\ N!Quot(x, b) \in Int /\ N!Rem(x, b) \in Int
         /\ x > 0 => N!Quot(x, b) \in 0 .. x - 1 /\ N!Rem(x, b) \in 0 .. b - 1
                     /\ x = b * N!Quot(x, b) + N!Rem(x, b) /\ N!Quot(x, b) = x \div b
         /\ x < 0 => N!Quot(x, b) \in x + 1 .. 0 /\ N!Rem(x, b) \in 1 - b .. 0
                     /\ x = b * N!Quot(x, b) + N!Rem(x, b)
<1> DEFINE q == N!Quot(x, b)
           r == N!Rem(x, b)
<1>1. CASE x > 0
  <2>1. q = x \div b /\ r = x % b
    BY <1>1 DEF N!Quot, N!Rem
  <2> HIDE DEF q, r
  <2>2. CASE b = 2
    BY <1>1, <2>1, <2>2 DEF q, r
  <2>3. CASE b = 10
    BY <1>1, <2>1, <2>3 DEF q, r
  <2>4. CASE b = 16
    BY <1>1, <2>1, <2>4 DEF q, r
  <2>5. QED
    BY <2>2, <2>3, <2>4 DEF Bases
<1>2. CASE x < 0
  <2> DEFINE y == -x
  <2>1. q = 0 - (y \div b) /\ r = 0 - (y % b)
    BY <1>2 DEF N!Quot, N!Rem
  <2>2. y \in Nat /\ y > 0 /\ x = -y
    BY <1>2
  <2> HIDE DEF q, r, y
  <2>3. CASE b = 2
    BY <2>1, <2>2, <2>3 DEF q, r
  <2>4. CASE b = 10
    BY <2>1, <2>2, <2>4 DEF q, r
  <2>5. CASE b = 16
    BY <2>1, <2>2, <2>5 DEF q, r
  <2>6. QED
    BY <2>3, <2>4, <2>5 DEF Bases
<1>3. QED
  BY <1>1, <1>2


\* The digits of a number, the last one last.
LEMMA LoopIs ==
  ASSUME NEW b \in Bases
  PROVE  /\ N!Loop(0, b) = <<>>
         /\ \A x \in Int : x # 0 =>
              N!Loop(x, b) = Append(N!Loop(N!Quot(x, b), b), N!Char(N!Rem(x, b)))
<1> DEFINE V == Seq(Int)
           Last(x) == N!Char(N!Rem(x, b))
           m == [x \in Int |-> IF x < 0 THEN -x ELSE x]
           Stop == {0}
           c == [x \in Int |-> <<>>]
           down == [x \in Int |-> IF x = 0 THEN 0 ELSE N!Quot(x, b)]
           Up == [y \in Int \X V |-> IF y[1] = 0 THEN <<>> ELSE Append(y[2], Last(y[1]))]
           digits[y \in Int] == IF y = 0 THEN <<>> ELSE Append(digits[N!Quot(y, b)], Last(y))
<1>1. <<>> \in V
  BY EmptySeq
<1>2. \A x \in Int : x # 0 => Last(x) \in Int
  <2>1. ASSUME NEW r \in Int PROVE N!Char(r) \in Int
    <3>1. N!Char(r) = IF r < 10 THEN 48 + r ELSE 65 + r - 10
      BY DEF N!Char, N!ZERO, N!LETTER
    <3>2. QED
      BY <3>1
  <2>2. QED
    BY <2>1, QuotIs
<1> HIDE DEF Last
<1>3. m \in [Int -> Nat] /\ c \in [Int -> V]
  <2>1. m \in [Int -> Nat]
    OBVIOUS
  <2>2. c \in [Int -> V]
    BY <1>1
  <2>3. QED
    BY <2>1, <2>2
<1>4. down \in [Int -> Int]
  BY QuotIs
<1>5. Up \in [Int \X V -> V]
  <2>1. ASSUME NEW x \in Int, NEW v \in V, x # 0 PROVE Append(v, Last(x)) \in V
    BY <1>2, <2>1, AppendProperties
  <2> HIDE DEF V
  <2>2. QED
    BY <1>1, <2>1
<1>6. \A x \in Int : x \notin Stop => m[down[x]] < m[x]
  <2>1. ASSUME NEW x \in Int, x # 0 PROVE m[down[x]] < m[x]
    <3> DEFINE q == N!Quot(x, b)
    <3>1. q \in Int /\ (x > 0 => q \in 0 .. x - 1) /\ (x < 0 => q \in x + 1 .. 0)
      BY <2>1, QuotIs
    <3>2. down[x] = q
      BY <2>1
    <3> HIDE DEF q
    <3>3. m[q] = (IF q < 0 THEN -q ELSE q) /\ m[x] = IF x < 0 THEN -x ELSE x
      BY <3>1
    <3> HIDE DEF m, down
    <3>4. QED
      BY <2>1, <3>1, <3>2, <3>3
  <2>2. QED
    BY <2>1
<1>7. PICK f \in [Int -> V] : Recursive(f, Int, Stop, c, down, Up)
  <2> HIDE DEF V, m, Stop, c, down, Up
  <2>1. QED
    BY <1>3, <1>4, <1>5, <1>6, Recursion
<1>8. ASSUME NEW x \in Int PROVE f[x] = IF x = 0 THEN <<>> ELSE Append(f[N!Quot(x, b)], Last(x))
  <2>1. f[x] = IF x \in Stop THEN c[x] ELSE Up[<<x, f[down[x]]>>]
    BY <1>7 DEF Recursive
  <2>2. CASE x = 0
    BY <2>1, <2>2
  <2>3. CASE x # 0
    <3>1. x \notin Stop /\ down[x] = N!Quot(x, b) /\ down[x] \in Int
      BY <1>4, <2>3
    <3> HIDE DEF V, Stop, down, c
    <3>2. f[down[x]] \in V
      BY <1>7, <3>1
    <3> DEFINE z == <<x, f[down[x]]>>
    <3>3. z[1] = x /\ z[2] = f[down[x]] /\ z \in Int \X V
      BY <3>2
    <3> HIDE DEF z
    <3>4. Up[z] = Append(f[down[x]], Last(x))
      BY <2>3, <3>3
    <3> HIDE DEF Up
    <3>5. QED
      BY <2>1, <2>3, <3>1, <3>4 DEF z
  <2>4. QED
    BY <2>2, <2>3
<1>9. f = [y \in Int |-> IF y = 0 THEN <<>> ELSE Append(f[N!Quot(y, b)], Last(y))]
  <2>1. f = [y \in Int |-> f[y]]
    BY <1>7
  <2>2. QED
    BY <1>8, <2>1
<1>10. digits = [y \in Int |-> IF y = 0 THEN <<>> ELSE Append(digits[N!Quot(y, b)], Last(y))]
  BY <1>9
<1>11. \A x : N!Loop(x, b) = digits[x]
  BY DEF N!Loop, Last
<1> HIDE DEF digits
<1>12. \A x \in Int : digits[x] = IF x = 0 THEN <<>> ELSE Append(digits[N!Quot(x, b)], Last(x))
  BY <1>10
<1>13. N!Loop(0, b) = <<>>
  <2>1. N!Loop(0, b) = digits[0]
    BY <1>11
  <2>2. \A x \in Int : x = 0 => digits[x] = <<>>
    BY <1>12
  <2>3. digits[0] = <<>>
    BY <2>2
  <2>4. QED
    BY <2>1, <2>3
<1>14. ASSUME NEW x \in Int, x # 0
       PROVE  N!Loop(x, b) = Append(N!Loop(N!Quot(x, b), b), Last(x))
  <2>1. N!Loop(N!Quot(x, b), b) = digits[N!Quot(x, b)] /\ N!Loop(x, b) = digits[x]
    BY <1>11
  <2>2. digits[x] = Append(digits[N!Quot(x, b)], Last(x))
    BY <1>12, <1>14
  <2>3. QED
    BY <2>1, <2>2
<1>15. QED
  BY <1>13, <1>14 DEF Last

\* The value that a loop has read of a text after so many characters.
Reads(s, b, v) ==
  /\ N!Value(s, b) = v[Len(s)]
  /\ v[0] = 0
  /\ \A k \in Nat : v[k] \in N!Word /\ v[k + 1] = N!Wrap(b * v[k] + N!HexDigit(s[k + 1]))

LEMMA ValueIs ==
  ASSUME NEW s, NEW b \in Bases
  PROVE  \E v : Reads(s, b, v)
<1> DEFINE m == [k \in Nat |-> k]
           Stop == {0}
           c == [k \in Nat |-> 0]
           down == [k \in Nat |-> IF k = 0 THEN 0 ELSE k - 1]
           Next0(k, v) == N!Wrap(b * v + N!HexDigit(s[k]))
           Up == [y \in Nat \X N!Word |-> Next0(y[1], y[2])]
           value[k \in Nat] == IF k = 0 THEN 0 ELSE Next0(k, value[k - 1])
<1>1. 0 \in N!Word /\ N!Word \subseteq Nat
  BY WordIs
<1>2. \A k, v : v \in N!Word => Next0(k, v) \in N!Word
  <2>1. ASSUME NEW k, NEW v \in N!Word PROVE Next0(k, v) \in N!Word
    <3>1. b \in Int /\ v \in Int /\ N!HexDigit(s[k]) \in Int
      BY <1>1, HexDigitIs DEF Bases
    <3>2. b * v \in Int
      BY <3>1
    <3>3. b * v + N!HexDigit(s[k]) \in Int
      BY <3>1, <3>2
    <3>4. QED
      BY <3>3, WrapIs
  <2>2. QED
    BY <2>1
<1> HIDE DEF Next0
<1>3. m \in [Nat -> Nat] /\ c \in [Nat -> N!Word] /\ down \in [Nat -> Nat] /\ Up \in [Nat \X N!Word -> N!Word]
  <2>1. m \in [Nat -> Nat] /\ c \in [Nat -> N!Word]
    BY <1>1
  <2>2. down \in [Nat -> Nat]
    OBVIOUS
  <2>3. Up \in [Nat \X N!Word -> N!Word]
    BY <1>2
  <2>4. QED
    BY <2>1, <2>2, <2>3
<1>4. \A k \in Nat : k \notin Stop => m[down[k]] < m[k]
  <2>1. ASSUME NEW k \in Nat, k # 0 PROVE m[down[k]] < m[k]
    <3>1. down[k] = k - 1 /\ k - 1 \in Nat /\ m[k - 1] = k - 1 /\ m[k] = k
      BY <2>1
    <3> HIDE DEF m, down
    <3>2. QED
      BY <3>1
  <2>2. QED
    BY <2>1
<1>5. PICK f \in [Nat -> N!Word] : Recursive(f, Nat, Stop, c, down, Up)
  <2> HIDE DEF m, Stop, c, down, Up
  <2>1. QED
    BY <1>3, <1>4, Recursion
<1>6. ASSUME NEW k \in Nat PROVE f[k] = IF k = 0 THEN 0 ELSE Next0(k, f[k - 1])
  <2>1. f[k] = IF k \in Stop THEN c[k] ELSE Up[<<k, f[down[k]]>>]
    BY <1>5 DEF Recursive
  <2>2. CASE k = 0
    BY <2>1, <2>2
  <2>3. CASE k # 0
    <3>1. k \notin Stop /\ down[k] = k - 1 /\ down[k] \in Nat
      BY <1>3, <2>3
    <3> HIDE DEF Stop, down, c
    <3>2. f[down[k]] \in N!Word
      BY <1>5, <3>1
    <3> DEFINE z == <<k, f[down[k]]>>
    <3>3. z[1] = k /\ z[2] = f[down[k]] /\ z \in Nat \X N!Word
      BY <3>2
    <3> HIDE DEF z
    <3>4. Up[z] = Next0(k, f[down[k]])
      BY <3>3
    <3> HIDE DEF Up
    <3>5. QED
      BY <2>1, <2>3, <3>1, <3>4 DEF z
  <2>4. QED
    BY <2>2, <2>3
<1>7. f = [k \in Nat |-> IF k = 0 THEN 0 ELSE Next0(k, f[k - 1])]
  <2>1. f = [k \in Nat |-> f[k]]
    BY <1>5
  <2>2. QED
    BY <1>6, <2>1
<1>8. value = [k \in Nat |-> IF k = 0 THEN 0 ELSE Next0(k, value[k - 1])]
  BY <1>7
<1>9. N!Value(s, b) = value[Len(s)]
  BY DEF N!Value, Next0
<1> HIDE DEF value
<1>10. \A k \in Nat : value[k] = IF k = 0 THEN 0 ELSE Next0(k, value[k - 1])
  BY <1>8
<1>11. ASSUME NEW k \in Nat PROVE value[k + 1] = Next0(k + 1, value[k])
  <2>1. k + 1 \in Nat /\ k + 1 # 0 /\ (k + 1) - 1 = k
    OBVIOUS
  <2>2. QED
    BY <1>10, <2>1
<1>12. \A k \in Nat : value[k] \in N!Word
  <2> DEFINE A == {k \in Nat : value[k] \in N!Word}
  <2>1. 0 \in A
    BY <1>1, <1>10
  <2>2. \A k \in Nat : k \in A => k + 1 \in A
    BY <1>2, <1>11
  <2>3. Nat \subseteq A
    <3> HIDE DEF A
    <3>1. QED
      BY <2>1, <2>2, Induct
  <2>4. QED
    BY <2>3
<1>13. value[0] = 0
  BY <1>10
<1>14. QED
  BY <1>9, <1>11, <1>12, <1>13 DEF Reads, Next0

\* One character more.
LEMMA ValueMore ==
  ASSUME NEW s \in Seq(Int), NEW c \in Int, NEW b \in Bases
  PROVE  /\ N!Value(<<>>, b) = 0 /\ N!Value(s, b) \in N!Word
         /\ N!Value(Append(s, c), b) = N!Wrap(b * N!Value(s, b) + N!HexDigit(c))
<1> DEFINE t == Append(s, c)
<1>1. PICK u : Reads(<<>>, b, u)
  BY ValueIs
<1>2. PICK v : Reads(s, b, v)
  BY ValueIs
<1>3. PICK y : Reads(t, b, y)
  BY ValueIs
<1>4. /\ t \in Seq(Int) /\ Len(t) = Len(s) + 1 /\ Len(s) \in Nat
      /\ \A k \in 1 .. Len(s) : t[k] = s[k]
      /\ t[Len(s) + 1] = c
  BY AppendProperties
<1> HIDE DEF t
<1> DEFINE A == {k \in Nat : k <= Len(s) => y[k] = v[k]}
<1>5. 0 \in A
  BY <1>2, <1>3 DEF Reads
<1>6. ASSUME NEW k \in Nat, k \in A PROVE k + 1 \in A
  <2>1. SUFFICES ASSUME k + 1 <= Len(s) PROVE y[k + 1] = v[k + 1]
    OBVIOUS
  <2>2. k <= Len(s) /\ k + 1 \in 1 .. Len(s)
    BY <1>4, <2>1
  <2>3. y[k] = v[k] /\ t[k + 1] = s[k + 1]
    BY <1>4, <1>6, <2>2
  <2>4. v[k + 1] = N!Wrap(b * v[k] + N!HexDigit(s[k + 1]))
    BY <1>2 DEF Reads
  <2>5. y[k + 1] = N!Wrap(b * y[k] + N!HexDigit(t[k + 1]))
    BY <1>3 DEF Reads
  <2>6. QED
    BY <2>3, <2>4, <2>5
<1>7. y[Len(s)] = v[Len(s)]
  <2>1. Nat \subseteq A
    <3> HIDE DEF A
    <3>1. QED
      BY <1>5, <1>6, Induct
  <2>2. Len(s) \in A /\ Len(s) <= Len(s)
    BY <1>4, <2>1
  <2>3. QED
    BY <2>2
<1>8. N!Value(s, b) = v[Len(s)] /\ v[Len(s)] \in N!Word
  BY <1>2, <1>4 DEF Reads
<1>9. N!Value(t, b) = N!Wrap(b * y[Len(s)] + N!HexDigit(c))
  BY <1>3, <1>4 DEF Reads
<1>10. N!Value(<<>>, b) = 0
  BY <1>1, EmptySeq DEF Reads
<1>11. QED
  BY <1>7, <1>8, <1>9, <1>10 DEF t


\* The powers of two that fit.
LEMMA Doubled == \A e \in 0 .. 31 : 2^e \in Nat \ {0} /\ 2^(e + 1) = 2 * 2^e
<1> DEFINE pow == [e \in 0 .. 32 |-> 2^e]
<1>1. /\ pow[0] = 1 /\ pow[1] = 2 /\ pow[2] = 4 /\ pow[3] = 8 /\ pow[4] = 16 /\ pow[5] = 32 /\ pow[6] = 64
      /\ pow[7] = 128 /\ pow[8] = 256 /\ pow[9] = 512 /\ pow[10] = 1024 /\ pow[11] = 2048
      /\ pow[12] = 4096 /\ pow[13] = 8192 /\ pow[14] = 16384 /\ pow[15] = 32768 /\ pow[16] = 65536
      /\ pow[17] = 131072 /\ pow[18] = 262144 /\ pow[19] = 524288 /\ pow[20] = 1048576
      /\ pow[21] = 2097152 /\ pow[22] = 4194304 /\ pow[23] = 8388608 /\ pow[24] = 16777216
      /\ pow[25] = 33554432 /\ pow[26] = 67108864 /\ pow[27] = 134217728 /\ pow[28] = 268435456
      /\ pow[29] = 536870912 /\ pow[30] = 1073741824 /\ pow[31] = 2147483648 /\ pow[32] = 4294967296
  BY Powers
<1> HIDE DEF pow
<1>2. ASSUME NEW e \in 0 .. 31 PROVE pow[e] \in Nat \ {0} /\ pow[e + 1] = 2 * pow[e]
  BY <1>1
<1>3. \A e \in 0 .. 32 : pow[e] = 2^e
  BY DEF pow
<1>4. \A e \in 0 .. 31 : e \in 0 .. 32 /\ e + 1 \in 0 .. 32
  OBVIOUS
<1>5. QED
  BY <1>2, <1>3, <1>4

LEMMA CharsAreInt ==
  /\ Decimals \subseteq Hexes /\ Hexes \subseteq Int
  /\ \A s : s \in Seq(Hexes) => s \in Seq(Int)
  /\ \A s : s \in Seq(Decimals) => s \in Seq(Int)
<1>1. Decimals \subseteq Hexes /\ Hexes \subseteq Int /\ Decimals \subseteq Int
  BY DEF Decimals, Hexes
<1> HIDE DEF Decimals, Hexes
<1>2. \A s : s \in Seq(Hexes) => s \in Seq(Int)
  BY <1>1, SeqMonotonic
<1>3. \A s : s \in Seq(Decimals) => s \in Seq(Int)
  BY <1>1, SeqMonotonic
<1>4. QED
  BY <1>1, <1>2, <1>3

\* What the loop writes of a number is read back as that number.
Written(x, b) ==
  /\ N!Loop(x, b) \in Seq(Hexes)
  /\ b # 16 => N!Loop(x, b) \in Seq(Decimals)
  /\ x > 0 => N!Loop(x, b) # <<>>
  /\ x \in N!Word => N!Value(N!Loop(x, b), b) = x

LEMMA LoopWritten == ASSUME NEW b \in Bases PROVE \A x \in Nat : Written(x, b)
<1>1. Written(0, b)
  <2>1. N!Loop(0, b) = <<>> /\ N!Value(<<>>, b) = 0
    <3>1. <<>> \in Seq(Int) /\ 0 \in Int
      BY EmptySeq
    <3>2. QED
      BY <3>1, LoopIs, ValueMore
  <2>2. N!Loop(0, b) \in Seq(Hexes) /\ N!Loop(0, b) \in Seq(Decimals)
    BY <2>1, EmptySeq
  <2>3. N!Value(N!Loop(0, b), b) = 0 /\ ~(0 > 0)
    BY <2>1
  <2> DEFINE f == N!Loop(0, b)
  <2> HIDE DEF f
  <2>4. QED
    BY <2>2, <2>3 DEF Written
<1>2. ASSUME NEW x \in Nat, x > 0, \A y \in 0 .. x - 1 : Written(y, b) PROVE Written(x, b)
  <2> DEFINE q == N!Quot(x, b)
             r == N!Rem(x, b)
             f == N!Loop(q, b)
             d == N!Char(r)
  <2>1. x \in Int /\ x # 0
    BY <1>2
  <2>2. q \in 0 .. x - 1 /\ r \in 0 .. b - 1 /\ x = b * q + r
    BY <1>2, <2>1, QuotIs
  <2>3. N!Loop(x, b) = Append(f, d)
    BY <2>1, LoopIs
  <2>4. Written(q, b)
    BY <1>2, <2>2
  <2> HIDE DEF q, r
  <2>5. r \in 0 .. 15 /\ (b # 16 => r < 10) /\ b \in Nat
    BY <2>2 DEF Bases
  <2>6. d \in Hexes /\ d \in Int /\ N!HexDigit(d) = r /\ (b # 16 => d \in Decimals)
    BY <2>5, CharIs
  <2>7. f \in Seq(Hexes) /\ f \in Seq(Int) /\ (b # 16 => f \in Seq(Decimals))
    BY <2>4, CharsAreInt DEF Written
  <2>8. x \in N!Word => N!Value(f, b) = q
    <3>1. x \in N!Word => q \in N!Word
      <4> DEFINE K == Words0
      <4>1. K \in Nat /\ N!Word = 0 .. K - 1
        BY WordIs
      <4> HIDE DEF K
      <4>2. QED
        BY <2>2, <4>1
    <3>2. QED
      BY <2>4, <3>1 DEF Written
  <2> HIDE DEF f, d
  <2>9. N!Value(Append(f, d), b) = N!Wrap(b * N!Value(f, b) + N!HexDigit(d))
    BY <2>6, <2>7, ValueMore
  <2>10. x \in N!Word => N!Value(Append(f, d), b) = x
    <3>1. x \in N!Word => N!Value(Append(f, d), b) = N!Wrap(x)
      BY <2>2, <2>6, <2>8, <2>9
    <3>2. QED
      BY <3>1, <2>1, WrapIs
  <2>11. Append(f, d) \in Seq(Hexes) /\ Append(f, d) # <<>>
    BY <2>6, <2>7, AppendProperties
  <2>12. b # 16 => Append(f, d) \in Seq(Decimals)
    BY <2>6, <2>7, AppendProperties
  <2>13. QED
    BY <2>3, <2>10, <2>11, <2>12 DEF Written
<1> DEFINE A == {k \in Nat : \A x \in 0 .. k : Written(x, b)}
<1>3. 0 \in A
  <2>1. \A x \in 0 .. 0 : x = 0
    OBVIOUS
  <2>2. QED
    BY <1>1, <2>1
<1>4. ASSUME NEW k \in Nat, k \in A PROVE k + 1 \in A
  <2>1. k + 1 \in Nat /\ k + 1 > 0 /\ (k + 1) - 1 = k
    OBVIOUS
  <2>2. Written(k + 1, b)
    BY <1>2, <1>4, <2>1
  <2>3. \A x \in 0 .. k + 1 : x = k + 1 \/ x \in 0 .. k
    OBVIOUS
  <2>4. QED
    BY <1>4, <2>1, <2>2, <2>3
<1>5. Nat \subseteq A
  <2> HIDE DEF A
  <2>1. QED
    BY <1>3, <1>4, Induct
<1>6. ASSUME NEW x \in Nat PROVE Written(x, b)
  <2>1. x \in A /\ x \in 0 .. x
    BY <1>5
  <2>2. QED
    BY <2>1
<1>7. QED
  BY <1>6

\* A number below 2^e has at most e digits.
LEMMA LoopShort ==
  ASSUME NEW b \in Bases, NEW e \in 0 .. 32
  PROVE  \A x \in Nat : x < 2^e => Len(N!Loop(x, b)) <= e
<1> DEFINE Short(k) == \A x \in Nat : x < 2^k => Len(N!Loop(x, b)) <= k
           A == {k \in Nat : k <= 32 => Short(k)}
<1>1. 0 \in A
  <2>1. \A x \in Nat : x < 2^0 => x = 0
    BY Powers
  <2>2. Len(N!Loop(0, b)) = 0
    BY LoopIs
  <2>3. QED
    BY <2>1, <2>2
<1>2. ASSUME NEW k \in Nat, k \in A PROVE k + 1 \in A
  <2>1. SUFFICES ASSUME k + 1 <= 32, NEW x \in Nat, x < 2^(k + 1), x # 0
                 PROVE  Len(N!Loop(x, b)) <= k + 1
    <3>1. Len(N!Loop(0, b)) = 0
      BY LoopIs
    <3>2. QED
      BY <3>1
  <2> DEFINE q == N!Quot(x, b)
             p == 2^k
  <2>2. p \in Nat /\ x < 2 * p
    <3>1. k \in 0 .. 31
      BY <2>1
    <3>2. QED
      BY <2>1, <3>1, Doubled
  <2>3. q \in Nat /\ q <= x /\ N!Rem(x, b) \in 0 .. b - 1 /\ x = b * q + N!Rem(x, b)
    BY <2>1, QuotIs
  <2>4. 2 * q <= x
    <3> DEFINE r == N!Rem(x, b)
    <3>1. r \in 0 .. b - 1 /\ x = b * q + r
      BY <2>3
    <3> HIDE DEF q, r
    <3>2. QED
      BY <2>3, <3>1 DEF Bases
  <2>5. q < p
    <3> HIDE DEF q, p
    <3>1. QED
      BY <2>2, <2>3, <2>4
  <2>6. Len(N!Loop(q, b)) <= k
    BY <1>2, <2>1, <2>3, <2>5
  <2>7. N!Loop(x, b) = Append(N!Loop(q, b), N!Char(N!Rem(x, b)))
    BY <2>1, LoopIs
  <2>8. Written(q, b)
    BY <2>3, LoopWritten
  <2>9. N!Loop(q, b) \in Seq(Int)
    BY <2>8, CharsAreInt DEF Written
  <2>10. N!Char(N!Rem(x, b)) \in Int
    <3>1. N!Rem(x, b) \in 0 .. 15
      BY <2>3 DEF Bases
    <3>2. QED
      BY <3>1, CharIs
  <2>11. Len(N!Loop(x, b)) = Len(N!Loop(q, b)) + 1 /\ Len(N!Loop(q, b)) \in Nat
    BY <2>7, <2>9, <2>10, AppendProperties
  <2>12. QED
    <3> HIDE DEF q
    <3>1. QED
      BY <2>6, <2>11
<1>3. Nat \subseteq A
  <2> HIDE DEF A
  <2>1. QED
    BY <1>1, <1>2, Induct
<1>4. e \in A /\ e <= 32
  BY <1>3
<1>5. QED
  BY <1>4


\* Reading stops at the first character that is no digit.
LEMMA DigitsIs ==
  ASSUME NEW s \in Seq(Int)
  PROVE  /\ s \in Seq(Decimals) => N!Digits(s) = N!Value(s, 10)
         /\ Len(s) > 0 /\ s[1] \notin Decimals => N!Digits(s) = 0
<1> DEFINE Q(k) == (k < Len(s) => s[k + 1] \notin 48..57) /\ \A j \in 1..k : s[j] \in 48..57
           last == CHOOSE k \in 0..Len(s) : Q(k)
<1>1. N!Digits(s) = N!Value(SubSeq(s, 1, last), 10)
  BY DEF N!Digits
<1>2. Len(s) \in Nat
  OBVIOUS
<1>3. ASSUME s \in Seq(Decimals) PROVE last = Len(s)
  <2>1. \A j \in 1 .. Len(s) : s[j] \in 48 .. 57
    BY <1>3, ElementOfSeq DEF Decimals
  <2>2. Q(Len(s)) /\ Len(s) \in 0 .. Len(s)
    BY <1>2, <2>1
  <2>3. \A k \in 0 .. Len(s) : Q(k) => k = Len(s)
    <3>1. ASSUME NEW k \in 0 .. Len(s), k < Len(s) PROVE s[k + 1] \in 48 .. 57
      <4>1. k + 1 \in 1 .. Len(s)
        BY <1>2, <3>1
      <4>2. QED
        BY <2>1, <4>1
    <3>2. QED
      BY <1>2, <3>1
  <2> HIDE DEF Q
  <2>4. QED
    BY <2>2, <2>3
<1>4. ASSUME Len(s) > 0, s[1] \notin Decimals PROVE last = 0
  <2>1. Q(0) /\ 0 \in 0 .. Len(s)
    BY <1>2, <1>4 DEF Decimals
  <2>2. \A k \in 0 .. Len(s) : Q(k) => k = 0
    <3>1. ASSUME NEW k \in 0 .. Len(s), Q(k), k # 0 PROVE FALSE
      <4>1. 1 \in 1 .. k
        BY <3>1
      <4>2. QED
        BY <1>4, <3>1, <4>1 DEF Decimals
    <3>2. QED
      BY <3>1
  <2> HIDE DEF Q
  <2>3. QED
    BY <2>1, <2>2
<1> HIDE DEF last
<1>5. s \in Seq(Decimals) => SubSeq(s, 1, last) = s
  BY <1>3, SubSeqFull
<1>6. SubSeq(s, 1, 0) = <<>>
  BY SubSeqEmpty
<1>7. N!Value(<<>>, 10) = 0
  BY ValueMore DEF Bases
<1>8. QED
  BY <1>1, <1>4, <1>5, <1>6, <1>7

\* atol skips spaces, and then there may be a sign.
Signs(s) ==
  CASE s = <<>> -> 0
    [] s # <<>> /\ Head(s) = N!MINUS -> N!Wrap(-N!Digits(Tail(s)))
    [] s # <<>> /\ Head(s) = N!PLUS -> N!Digits(Tail(s))
    [] OTHER -> N!Digits(s)

LEMMA AtoLIs ==
  \A s \in Seq(Int) : (s # <<>> => Head(s) # N!SPACE) => N!AtoL[s] = Signs(s)
<1> DEFINE X == Seq(Int)
           Stop == {s \in X : s # <<>> => Head(s) # N!SPACE}
           c == [s \in X |-> Signs(s)]
           V == {Signs(s) : s \in X}
           m == [s \in X |-> Len(s)]
           down == [s \in X |-> IF s = <<>> THEN s ELSE Tail(s)]
           Up == [y \in X \X V |-> y[2]]
           Then(s, v) == CASE s = <<>> -> 0
                           [] s # <<>> /\ Head(s) = N!SPACE -> v
                           [] s # <<>> /\ Head(s) = N!MINUS -> N!Wrap(-N!Digits(Tail(s)))
                           [] s # <<>> /\ Head(s) = N!PLUS -> N!Digits(Tail(s))
                           [] OTHER -> N!Digits(s)
<1>1. m \in [X -> Nat] /\ c \in [X -> V]
  <2>1. m \in [X -> Nat]
    OBVIOUS
  <2> HIDE DEF X
  <2>2. c \in [X -> V]
    OBVIOUS
  <2>3. QED
    BY <2>1, <2>2
<1>2. down \in [X -> X] /\ Up \in [X \X V -> V]
  <2>1. ASSUME NEW s \in X, s # <<>> PROVE Tail(s) \in X
    BY <2>1, HeadTailProperties
  <2> HIDE DEF X, V
  <2>2. QED
    BY <2>1
<1>3. \A s \in X : s \notin Stop => m[down[s]] < m[s]
  <2>1. ASSUME NEW s \in X, s \notin Stop PROVE m[down[s]] < m[s]
    <3>1. s # <<>>
      BY <2>1
    <3>2. Tail(s) \in X /\ Len(Tail(s)) = Len(s) - 1 /\ Len(s) \in Nat
      BY <3>1, HeadTailProperties
    <3>3. down[s] = Tail(s) /\ m[Tail(s)] = Len(Tail(s)) /\ m[s] = Len(s)
      BY <3>1, <3>2
    <3> HIDE DEF m, down
    <3>4. QED
      BY <3>2, <3>3
  <2>2. QED
    BY <2>1
<1>4. PICK f \in [X -> V] : Recursive(f, X, Stop, c, down, Up)
  <2> HIDE DEF X, V, m, Stop, c, down, Up
  <2>1. QED
    BY <1>1, <1>2, <1>3, Recursion
<1>5. \A s \in X : \A v : s \in Stop => Then(s, v) = Signs(s)
  <2>1. ASSUME NEW s \in X, NEW v, s \in Stop PROVE Then(s, v) = Signs(s)
    <3>1. N!SPACE # N!MINUS /\ N!SPACE # N!PLUS /\ N!MINUS # N!PLUS
      BY DEF N!SPACE, N!MINUS, N!PLUS
    <3>2. CASE s = <<>>
      BY <3>2 DEF Signs
    <3>3. CASE s # <<>>
      <4> DEFINE a == Head(s)
      <4>1. a # N!SPACE
        BY <2>1, <3>3
      <4> HIDE DEF a
      <4>2. CASE a = N!MINUS
        BY <3>1, <3>3, <4>1, <4>2 DEF Signs, a
      <4>3. CASE a = N!PLUS
        BY <3>1, <3>3, <4>1, <4>3 DEF Signs, a
      <4>4. CASE a # N!MINUS /\ a # N!PLUS
        BY <3>1, <3>3, <4>1, <4>4 DEF Signs, a
      <4>5. QED
        BY <4>2, <4>3, <4>4
    <3>4. QED
      BY <3>2, <3>3
  <2>2. QED
    BY <2>1
<1>6. \A s \in X : \A v : s \notin Stop => Then(s, v) = v
  <2>1. ASSUME NEW s \in X, NEW v, s # <<>>, Head(s) = N!SPACE PROVE Then(s, v) = v
    <3>1. Head(s) # N!MINUS /\ Head(s) # N!PLUS
      BY <2>1 DEF N!SPACE, N!MINUS, N!PLUS
    <3>2. QED
      BY <2>1, <3>1
  <2>2. QED
    BY <2>1
<1> HIDE DEF Then
<1>7. ASSUME NEW s \in X PROVE f[s] = Then(s, f[Tail(s)])
  <2>1. f[s] = IF s \in Stop THEN c[s] ELSE Up[<<s, f[down[s]]>>]
    BY <1>4 DEF Recursive
  <2>2. CASE s \in Stop
    <3>1. c[s] = Signs(s)
      OBVIOUS
    <3> HIDE DEF X, Stop, c
    <3>2. QED
      BY <1>5, <2>1, <2>2, <3>1
  <2>3. CASE s \notin Stop
    <3>1. s # <<>>
      BY <2>3
    <3>2. down[s] = Tail(s) /\ down[s] \in X
      BY <1>2, <3>1
    <3> HIDE DEF X, V, Stop, down, c
    <3>3. f[down[s]] \in V
      BY <1>4, <3>2
    <3>4. Up[<<s, f[down[s]]>>] = f[down[s]]
      BY <3>3
    <3> HIDE DEF Up
    <3>5. QED
      BY <1>6, <2>1, <2>3, <3>2, <3>4
  <2>4. QED
    BY <2>2, <2>3
<1>8. f = [s \in Seq(Int) |-> Then(s, f[Tail(s)])]
  <2>1. f = [s \in X |-> f[s]]
    BY <1>4
  <2>2. QED
    BY <1>7, <2>1
<1>9. N!AtoL = [s \in Seq(Int) |-> Then(s, N!AtoL[Tail(s)])]
  <2>1. \E g : g = [s \in Seq(Int) |-> Then(s, g[Tail(s)])]
    BY <1>8
  <2>2. QED
    BY <2>1 DEF N!AtoL, Then
<1>10. \A s \in X : N!AtoL[s] = Then(s, N!AtoL[Tail(s)])
  BY <1>9
<1>11. QED
  BY <1>5, <1>10

\* A text of digits, without a sign and with one.
LEMMA AtoLOf ==
  ASSUME NEW s \in Seq(Int)
  PROVE  /\ s \in Seq(Decimals) => N!AtoL[s] = N!Value(s, 10)
         /\ N!AtoL[<<N!MINUS>> \o s] = N!Wrap(-N!Digits(s))
<1>1. ASSUME s \in Seq(Decimals) PROVE N!AtoL[s] = N!Value(s, 10)
  <2>1. CASE s = <<>>
    <3>1. Signs(<<>>) = 0
      BY DEF Signs
    <3>2. N!Value(<<>>, 10) = 0
      BY ValueMore DEF Bases
    <3>3. QED
      BY <2>1, <3>1, <3>2, AtoLIs
  <2>2. CASE s # <<>>
    <3>1. Head(s) \in Decimals
      BY <1>1, <2>2, HeadTailProperties
    <3>2. Head(s) # N!SPACE /\ Head(s) # N!MINUS /\ Head(s) # N!PLUS
      BY <3>1 DEF Decimals, N!SPACE, N!MINUS, N!PLUS
    <3>3. Signs(s) = N!Digits(s)
      BY <2>2, <3>2 DEF Signs
    <3>4. QED
      BY <1>1, <3>2, <3>3, AtoLIs, DigitsIs
  <2>3. QED
    BY <2>1, <2>2
<1>2. N!AtoL[<<N!MINUS>> \o s] = N!Wrap(-N!Digits(s))
  <2> DEFINE t == <<N!MINUS>> \o s
  <2>1. t \in Seq(Int) /\ t # <<>> /\ t[1] = N!MINUS /\ Tail(t) = s
    <3>1. N!MINUS \in Int
      BY DEF N!MINUS
    <3>2. QED
      BY <3>1, ConsIs
  <2> HIDE DEF t
  <2>2. Head(t) = N!MINUS
    BY <2>1
  <2>3. Head(t) # N!SPACE /\ Head(t) # N!PLUS
    BY <2>2 DEF N!SPACE, N!PLUS, N!MINUS
  <2>4. Signs(t) = N!Wrap(-N!Digits(s))
    BY <2>1, <2>2, <2>3 DEF Signs
  <2>5. QED
    BY <2>1, <2>3, <2>4, AtoLIs DEF t
<1>3. QED
  BY <1>1, <1>2


\* The digits of a negative number are characters below the digits.
DigitsBelow(x) ==
  LET s == N!Loop(x, 10) IN s \in Seq(Int) /\ Len(s) > 0 /\ s[1] \in 39 .. 47

LEMMA NegativeDigits == \A x \in Int : x < 0 => DigitsBelow(x)
<1>1. ASSUME NEW x \in Int, x < 0, \A y \in Int : y < 0 /\ x < y => DigitsBelow(y) PROVE DigitsBelow(x)
  <2> DEFINE q == N!Quot(x, 10)
             r == N!Rem(x, 10)
             d == N!Char(r)
             f == N!Loop(q, 10)
  <2>1. q \in x + 1 .. 0 /\ r \in -9 .. 0 /\ x = 10 * q + r
    <3>1. 10 \in Bases /\ x # 0 /\ 1 - 10 = -9
      BY <1>1 DEF Bases
    <3>2. QED
      BY <1>1, <3>1, QuotIs
  <2>2. N!Loop(x, 10) = Append(f, d)
    <3>1. 10 \in Bases /\ x # 0
      BY <1>1 DEF Bases
    <3>2. QED
      BY <3>1, LoopIs
  <2> HIDE DEF q, r
  <2>3. d = 48 + r /\ d \in Int
    <3>1. r < 10
      BY <2>1
    <3>2. QED
      BY <2>1, <3>1 DEF N!Char, N!ZERO
  <2>4. CASE q = 0
    <3>1. f = <<>>
      BY <2>4, LoopIs DEF Bases
    <3>2. d \in 39 .. 47
      BY <1>1, <2>1, <2>3, <2>4
    <3> DEFINE t == Append(<<>>, d)
    <3>3. t \in Seq(Int) /\ Len(t) = 1 /\ t[1] = d
      BY <2>3
    <3>4. N!Loop(x, 10) = t
      BY <2>2, <3>1
    <3> HIDE DEF f, d, t
    <3>5. /\ N!Loop(x, 10) \in Seq(Int) /\ Len(N!Loop(x, 10)) > 0
          /\ N!Loop(x, 10)[1] \in 39 .. 47
      BY <3>2, <3>3, <3>4
    <3>6. QED
      BY <3>5 DEF DigitsBelow
  <2>5. CASE q < 0
    <3>1. q \in Int /\ x < q
      BY <2>1, <2>5
    <3>2. DigitsBelow(q)
      BY <1>1, <2>5, <3>1
    <3>3. f \in Seq(Int) /\ Len(f) > 0 /\ f[1] \in 39 .. 47
      BY <3>2 DEF DigitsBelow
    <3> HIDE DEF f, d
    <3>4. Append(f, d) \in Seq(Int) /\ Len(Append(f, d)) > 0 /\ Append(f, d)[1] = f[1]
      <4>1. Len(f) \in Nat /\ 1 \in 1 .. Len(f)
        BY <3>3
      <4>2. QED
        BY <2>3, <3>3, <4>1, AppendProperties
    <3>5. QED
      BY <2>2, <3>3, <3>4 DEF DigitsBelow
  <2>6. q = 0 \/ q < 0
    BY <2>1
  <2>7. QED
    BY <2>4, <2>5, <2>6
<1> DEFINE A == {k \in Nat : \A x \in Int : x < 0 /\ -x <= k => DigitsBelow(x)}
<1>2. 0 \in A
  BY Z3
<1>3. ASSUME NEW k \in Nat, k \in A PROVE k + 1 \in A
  <2>1. ASSUME NEW x \in Int, x < 0, -x <= k + 1 PROVE DigitsBelow(x)
    <3>1. ASSUME NEW y \in Int, y < 0, x < y PROVE DigitsBelow(y)
      <4>1. -y <= k
        BY <2>1, <3>1
      <4>2. QED
        BY <1>3, <3>1, <4>1
    <3>2. QED
      BY <1>1, <2>1, <3>1
  <2>2. QED
    BY <2>1
<1>4. Nat \subseteq A
  <2> HIDE DEF A
  <2>1. QED
    BY <1>2, <1>3, Induct
<1>5. ASSUME NEW x \in Int, x < 0 PROVE DigitsBelow(x)
  <2>1. -x \in Nat /\ -x <= -x
    BY <1>5
  <2>2. -x \in A
    BY <1>4, <2>1
  <2>3. QED
    BY <1>5, <2>1, <2>2
<1>6. QED
  BY <1>5

\* The digits of a word, and of 0.
LEMMA LtoAIs ==
  ASSUME NEW x \in N!Word, NEW b \in Bases
  PROVE  /\ N!LtoA(x, b) \in Seq(Hexes) /\ N!LtoA(x, b) # <<>>
         /\ b # 16 => N!LtoA(x, b) \in Seq(Decimals)
         /\ N!Value(N!LtoA(x, b), b) = x
         /\ Len(N!LtoA(x, b)) <= WordBits
<1>1. x \in Nat /\ x < 2^WordBits /\ WordBits \in 8 .. 32
  BY WordIs DEF N!Word
<1>2. CASE x = 0
  <2>1. N!LtoA(x, b) = <<48>>
    BY <1>2 DEF N!LtoA, N!ZERO
  <2>2. 48 \in Hexes /\ 48 \in Decimals /\ N!HexDigit(48) = 0
    BY DEF Hexes, Decimals, N!HexDigit
  <2>3. <<48>> = Append(<<>>, 48) /\ <<>> \in Seq(Int) /\ 48 \in Int
    OBVIOUS
  <2>4. N!Value(<<48>>, b) = N!Wrap(b * 0 + 0)
    BY <2>2, <2>3, ValueMore
  <2>5. b * 0 + 0 = 0 /\ 0 \in Int
    BY DEF Bases
  <2>6. N!Wrap(0) = 0
    BY <1>2, <2>5, WrapIs
  <2>7. <<48>> \in Seq(Hexes) /\ <<48>> \in Seq(Decimals) /\ <<48>> # <<>> /\ Len(<<48>>) = 1
    BY <2>2
  <2>8. Len(<<48>>) <= WordBits
    BY <1>1, <2>7
  <2>9. N!Value(<<48>>, b) = 0
    BY <2>4, <2>5, <2>6
  <2>10. QED
    BY <1>2, <2>1, <2>7, <2>8, <2>9
<1>3. CASE x # 0
  <2>1. N!LtoA(x, b) = N!Loop(x, b)
    BY <1>3 DEF N!LtoA
  <2>2. Written(x, b) /\ x > 0
    BY <1>1, <1>3, LoopWritten
  <2>3. Len(N!Loop(x, b)) <= WordBits
    <3>1. WordBits \in 0 .. 32
      BY <1>1
    <3>2. QED
      BY <1>1, <3>1, LoopShort
  <2>4. QED
    BY <2>1, <2>2, <2>3 DEF Written
<1>4. QED
  BY <1>2, <1>3

LEMMA DecimalIs ==
  ASSUME NEW x \in N!Word
  PROVE  /\ N!AtoL[N!LtoA(x, 10)] = x
         /\ N!AtoL[N!ItoA(N!Signed(x), 10)] = x <=> x # Half
<1> DEFINE H0 == Half
           K == Words0
           v == N!Signed(x)
<1>1. H0 \in Nat /\ H0 > 0 /\ K = 2 * H0 /\ x \in 0 .. K - 1 /\ N!Word = 0 .. K - 1
  <2>1. H0 \in Nat /\ K = 2 * H0 /\ N!Word = 0 .. K - 1
    BY WordIs
  <2>2. QED
    <3> HIDE DEF H0, K
    <3>1. QED
      BY <2>1
<1>2. v = IF x < H0 THEN x ELSE x - K
  BY DEF N!Signed, Half, Words0
<1>3. N!Abs(v) = IF v < 0 /\ v > -H0 THEN -v ELSE v
  BY DEF N!Abs, Half
<1> HIDE DEF H0, K, v
<1>4. 10 \in Bases /\ 10 # 16
  BY DEF Bases
<1>5. ASSUME NEW y \in N!Word
      PROVE  /\ N!LtoA(y, 10) \in Seq(Decimals) /\ N!LtoA(y, 10) \in Seq(Int)
             /\ N!Value(N!LtoA(y, 10), 10) = y /\ N!AtoL[N!LtoA(y, 10)] = y
  <2>1. N!LtoA(y, 10) \in Seq(Decimals) /\ N!Value(N!LtoA(y, 10), 10) = y
    BY <1>4, LtoAIs
  <2>2. QED
    BY <2>1, CharsAreInt, AtoLOf
<1>6. CASE x < H0
  <2>1. v = x /\ ~(v < 0) /\ x # H0
    BY <1>1, <1>2, <1>6
  <2>2. N!ItoA(v, 10) = <<>> \o (IF v = 0 THEN <<N!ZERO>> ELSE N!Loop(N!Abs(v), 10)) /\ N!Abs(v) = v
    BY <1>3, <2>1 DEF N!ItoA
  <2>3. N!ItoA(v, 10) = <<>> \o N!LtoA(x, 10)
    BY <2>1, <2>2 DEF N!LtoA
  <2>4. N!ItoA(v, 10) = N!LtoA(x, 10)
    BY <1>5, <2>3, ConcatEmptySeq
  <2>5. QED
    BY <1>5, <2>1, <2>4 DEF v, H0
<1>7. CASE x = H0
  <2>1. v = -H0 /\ v < 0 /\ v # 0 /\ v \in Int /\ ~(v > -H0)
    BY <1>1, <1>2, <1>7
  <2> DEFINE s == N!Loop(v, 10)
  <2>2. N!ItoA(v, 10) = <<N!MINUS>> \o s
    BY <1>3, <2>1 DEF N!ItoA
  <2>3. DigitsBelow(v)
    BY <2>1, NegativeDigits
  <2>4. s \in Seq(Int) /\ Len(s) > 0 /\ s[1] \in 39 .. 47
    BY <2>3 DEF DigitsBelow
  <2> HIDE DEF s
  <2>5. s[1] \notin Decimals
    <3>1. \A y \in 39 .. 47 : y \notin Decimals
      BY DEF Decimals
    <3>2. QED
      BY <2>4, <3>1
  <2>6. N!Digits(s) = 0
    BY <2>4, <2>5, DigitsIs
  <2>7. N!AtoL[N!ItoA(v, 10)] = N!Wrap(-N!Digits(s))
    BY <2>2, <2>4, AtoLOf
  <2>8. 0 \in N!Word /\ 0 \in Int
    BY <1>1
  <2>9. N!Wrap(-N!Digits(s)) = 0
    <3>1. \A y \in Int : -y = 0 - y /\ (y = 0 => 0 - y = y)
      OBVIOUS
    <3>2. QED
      BY <2>6, <2>8, <3>1, WrapIs
  <2>10. N!AtoL[N!ItoA(v, 10)] # x
    BY <1>1, <1>7, <2>7, <2>9
  <2>11. QED
    BY <1>5, <1>7, <2>10 DEF v, H0
<1>8. CASE x > H0
  <2> DEFINE y == K - x
             s == N!LtoA(y, 10)
  <2>1. v < 0 /\ v > -H0 /\ v # 0 /\ -v = y /\ y \in N!Word /\ y # 0 /\ x # H0
    BY <1>1, <1>2, <1>8
  <2>2. N!ItoA(v, 10) = <<N!MINUS>> \o N!Loop(y, 10)
    BY <1>3, <2>1 DEF N!ItoA
  <2>3. N!Loop(y, 10) = s
    BY <2>1 DEF N!LtoA
  <2>4. s \in Seq(Decimals) /\ s \in Seq(Int) /\ N!Value(s, 10) = y
    BY <1>5, <2>1
  <2> HIDE DEF s
  <2>5. N!Digits(s) = y
    BY <2>4, DigitsIs
  <2>6. N!AtoL[N!ItoA(v, 10)] = N!Wrap(-y)
    BY <2>2, <2>3, <2>4, <2>5, AtoLOf
  <2>7. -y \in Int /\ -y < 0 /\ -y + K \in N!Word /\ -y + K = x
    BY <1>1, <2>1
  <2> HIDE DEF y
  <2>8. N!Wrap(-y) = x
    BY <2>7, WrapIs DEF K
  <2>9. QED
    BY <1>5, <2>1, <2>6, <2>8 DEF v, H0
<1>9. QED
  BY <1>1, <1>6, <1>7, <1>8


LEMMA AtoXIs ==
  ASSUME NEW s \in Seq(Hexes) PROVE N!AtoX(s) = N!Value(s, 16)
<1>1. ASSUME NEW c \in Hexes PROVE N!HexDigit(c) # -1
  <2>1. CASE c \in 48 .. 57
    <3>1. c \notin 65 .. 70 /\ c \notin 97 .. 102
      BY <2>1
    <3>2. N!HexDigit(c) = c - 48
      BY <2>1, <3>1 DEF N!HexDigit
    <3>3. QED
      BY <2>1, <3>2
  <2>2. CASE c \in 65 .. 70
    <3>1. c \notin 48 .. 57 /\ c \notin 97 .. 102
      BY <2>2
    <3>2. N!HexDigit(c) = c - 55
      BY <2>2, <3>1 DEF N!HexDigit
    <3>3. QED
      BY <2>2, <3>2
  <2>3. QED
    BY <2>1, <2>2 DEF Hexes
<1>2. \A j \in 1 .. Len(s) : s[j] \in Hexes
  BY ElementOfSeq
<1>3. ~ \E j \in 1 .. Len(s) : N!HexDigit(s[j]) = -1
  BY <1>1, <1>2
<1>4. QED
  BY <1>3 DEF N!AtoX

\* Division by 16 times as much leaves one digit less.
LEMMA Nibbles ==
  ASSUME NEW x \in Nat, NEW p \in Nat \ {0}
  PROVE  /\ x \div p \in Nat /\ x \div p <= x /\ (x < p => x \div p = 0)
         /\ (x \div p) % 16 \in 0 .. 15
         /\ x \div p = 16 * (x \div (16 * p)) + ((x \div p) % 16)
<1> DEFINE q == x \div p
           a == x % p
           l == 16 * p
           t == x \div l
           u == x % l
<1>1. q \in Nat /\ a \in 0 .. p - 1 /\ x = p * q + a
  OBVIOUS
<1>2. l \in Nat \ {0}
  OBVIOUS
<1>3. t \in Nat /\ u \in 0 .. l - 1 /\ x = l * t + u
  <2> HIDE DEF l
  <2>1. QED
    BY <1>2
<1>4. l * t = p * (16 * t)
  <2>1. t \in Int /\ p \in Int
    BY <1>3
  <2> HIDE DEF t
  <2>2. QED
    BY <2>1
<1> HIDE DEF q, a, t, u
<1> DEFINE d == q - 16 * t
<1>5. d \in Int /\ q = 16 * t + d
  BY <1>1, <1>3
<1>6. p * q = p * (16 * t) + p * d
  <2> DEFINE k == 16 * t
  <2>1. k \in Int /\ q = k + d
    BY <1>3, <1>5
  <2> HIDE DEF k, d
  <2>2. p * q = p * k + p * d
    BY <1>5, <2>1
  <2>3. QED
    BY <2>2 DEF k
<1>7. p * d = u - a
  <2> DEFINE y == p * (16 * t)
             z == p * d
             v == p * q
  <2>1. y \in Int /\ z \in Int /\ v \in Int /\ v = y + z /\ x = v + a /\ x = y + u
    BY <1>1, <1>3, <1>4, <1>5, <1>6
  <2> HIDE DEF y, z, v
  <2>2. z = u - a
    BY <1>1, <1>3, <2>1
  <2>3. QED
    BY <2>2 DEF z
<1>8. p * d > -p /\ p * d < 16 * p
  <2> DEFINE z == p * d
  <2>1. z = u - a
    BY <1>7
  <2> HIDE DEF z
  <2>2. z > -p /\ z < 16 * p
    BY <1>1, <1>3, <2>1 DEF l
  <2>3. QED
    BY <2>2 DEF z
<1> HIDE DEF d
<1>9. d >= 0
  <2>1. SUFFICES ASSUME d <= -1 PROVE FALSE
    BY <1>5
  <2>2. p * d <= -p
    BY <1>5, <2>1
  <2>3. QED
    BY <1>5, <1>8, <2>2
<1>10. d < 16
  <2>1. SUFFICES ASSUME d >= 16 PROVE FALSE
    BY <1>5
  <2>2. p * d >= 16 * p
    BY <1>5, <2>1
  <2>3. QED
    BY <1>5, <1>8, <2>2
<1>11. q % 16 = d
  BY <1>3, <1>5, <1>9, <1>10
<1>12. q <= x /\ (x < p => q = 0)
  <2>1. q <= p * q
    BY <1>1
  <2>2. x < p => q = 0
    <3>1. SUFFICES ASSUME q >= 1, x < p PROVE FALSE
      BY <1>1
    <3>2. p * q >= p
      BY <1>1, <3>1
    <3>3. QED
      BY <1>1, <3>1, <3>2
  <2>3. q <= x
    <3> DEFINE z == p * q
    <3>1. z \in Int /\ q <= z /\ x = z + a
      BY <1>1, <2>1
    <3> HIDE DEF z
    <3>2. QED
      BY <1>1, <3>1
  <2>4. QED
    BY <2>2, <2>3
<1>13. q \in Nat /\ q % 16 \in 0 .. 15 /\ q = 16 * t + (q % 16)
  BY <1>1, <1>5, <1>9, <1>10, <1>11
<1>14. QED
  BY <1>12, <1>13 DEF q, t, l


LEMMA HexIs ==
  ASSUME NEW x \in N!Word
  PROVE  N!AtoX(N!LtoA(x, 16)) = x /\ N!AtoX(N!XtoA(x, WordBits \div 8)) = x
<1>1. x \in Nat /\ x < Words0 /\ N!Word = 0 .. Words0 - 1 /\ Words0 \in Nat
  <2> DEFINE W0 == Words0
  <2>1. W0 \in Nat /\ N!Word = 0 .. W0 - 1
    BY WordIs
  <2> HIDE DEF W0
  <2>2. x \in Nat /\ x < W0
    BY <2>1
  <2>3. QED
    BY <2>1, <2>2 DEF W0
<1>2. N!AtoX(N!LtoA(x, 16)) = x
  <2>1. N!LtoA(x, 16) \in Seq(Hexes) /\ N!Value(N!LtoA(x, 16), 16) = x
    BY LtoAIs DEF Bases
  <2>2. QED
    BY <2>1, AtoXIs
<1>3. N!AtoX(N!XtoA(x, WordBits \div 8)) = x
  <2> DEFINE K == 2 * (WordBits \div 8)
             pow == [e \in 0 .. 8 |-> 16^e]
             above == [e \in 0 .. 8 |-> x \div pow[e]]
             s == N!XtoA(x, WordBits \div 8)
  <2>1. /\ pow[0] = 1 /\ pow[1] = 16 /\ pow[2] = 256 /\ pow[3] = 4096 /\ pow[4] = 65536
        /\ pow[5] = 1048576 /\ pow[6] = 16777216 /\ pow[7] = 268435456 /\ pow[8] = 4294967296
    BY Powers16
  <2>2. K \in 1 .. 8 /\ Words0 = pow[K]
    <3>1. CASE WordBits = 8
      <4>1. K = 2 /\ Words0 = 256
        BY <3>1, Powers DEF Words0
      <4> HIDE DEF K, pow
      <4>2. QED
        BY <2>1, <4>1
    <3>2. CASE WordBits = 16
      <4>1. K = 4 /\ Words0 = 65536
        BY <3>2, Powers DEF Words0
      <4> HIDE DEF K, pow
      <4>2. QED
        BY <2>1, <4>1
    <3>3. CASE WordBits = 24
      <4>1. K = 6 /\ Words0 = 16777216
        BY <3>3, Powers DEF Words0
      <4> HIDE DEF K, pow
      <4>2. QED
        BY <2>1, <4>1
    <3>4. CASE WordBits = 32
      <4>1. K = 8 /\ Words0 = 4294967296
        BY <3>4, Powers DEF Words0
      <4> HIDE DEF K, pow
      <4>2. QED
        BY <2>1, <4>1
    <3>5. QED
      BY <3>1, <3>2, <3>3, <3>4, WordIs
  <2>3. s = [j \in 1 .. K |-> N!Char((x \div 16^(K - j)) % 16)]
    BY DEF N!XtoA
  <2> HIDE DEF K, pow, s
  <2>4. \A e \in 0 .. 8 : pow[e] \in Nat \ {0}
    BY <2>1
  <2>5. \A e \in 0 .. 7 : e + 1 \in 0 .. 8 /\ pow[e + 1] = 16 * pow[e]
    BY <2>1
  <2>6. \A e \in 0 .. 8 : above[e] = x \div pow[e]
    OBVIOUS
  <2> HIDE DEF above
  <2>7. above[0] = x /\ above[K] = 0
    <3>1. x \div 1 = x
      BY <1>1
    <3>2. x \div pow[K] = 0
      <4> DEFINE W0 == Words0
      <4>1. x \in Nat /\ x < W0 /\ W0 \in Nat /\ pow[K] = W0
        BY <1>1, <2>2
      <4> HIDE DEF W0
      <4>2. QED
        BY <4>1
    <3>3. K \in 0 .. 8 /\ 0 \in 0 .. 8
      BY <2>2
    <3>4. QED
      BY <2>1, <2>6, <3>1, <3>2, <3>3
  <2>8. ASSUME NEW e \in 0 .. 7
        PROVE  /\ above[e] \in Nat /\ above[e] <= x /\ above[e] % 16 \in 0 .. 15
               /\ above[e] = 16 * above[e + 1] + (above[e] % 16)
    <3> DEFINE p == pow[e]
    <3>1. p \in Nat \ {0} /\ pow[e + 1] = 16 * p /\ e \in 0 .. 8 /\ e + 1 \in 0 .. 8
      BY <2>4, <2>5
    <3>2. above[e] = x \div p /\ above[e + 1] = x \div (16 * p)
      BY <2>6, <3>1
    <3> HIDE DEF p
    <3>3. QED
      BY <1>1, <3>1, <3>2, Nibbles
  <2>9. \A j \in 1 .. K : s[j] = N!Char(above[K - j] % 16) /\ K - j \in 0 .. 7
    <3>1. ASSUME NEW j \in 1 .. K PROVE s[j] = N!Char(above[K - j] % 16) /\ K - j \in 0 .. 7
      <4>1. K - j \in 0 .. 7 /\ K - j \in 0 .. 8
        BY <2>2
      <4>2. pow[K - j] = 16^(K - j)
        BY <4>1 DEF pow
      <4>3. QED
        BY <2>3, <2>6, <4>1, <4>2
    <3>2. QED
      BY <3>1
  <2>10. \A j \in 1 .. K : s[j] \in Hexes /\ N!HexDigit(s[j]) = above[K - j] % 16
    BY <2>8, <2>9, CharIs
  <2>11. s \in Seq(Hexes) /\ Len(s) = K
    <3>1. DOMAIN s = 1 .. K /\ s = [j \in 1 .. K |-> s[j]]
      BY <2>3
    <3>2. s \in [1 .. K -> Hexes]
      BY <2>10, <3>1
    <3>3. K \in Nat
      BY <2>2
    <3>4. QED
      BY <3>2, <3>3
  <2>12. PICK v : Reads(s, 16, v)
    BY ValueIs DEF Bases
  <2> DEFINE A == {k \in Nat : k <= K => v[k] = above[K - k]}
  <2>13. 0 \in A
    <3>1. v[0] = 0 /\ K - 0 = K
      BY <2>2, <2>12 DEF Reads
    <3>2. QED
      BY <2>7, <3>1
  <2>14. ASSUME NEW k \in Nat, k \in A PROVE k + 1 \in A
    <3>1. SUFFICES ASSUME k + 1 <= K PROVE v[k + 1] = above[K - (k + 1)]
      OBVIOUS
    <3> DEFINE e == K - (k + 1)
    <3>2. e \in 0 .. 7 /\ K - k = e + 1 /\ k + 1 \in 1 .. K /\ k <= K
      BY <2>2, <3>1
    <3>3. v[k] = above[e + 1]
      BY <2>14, <3>2
    <3>4. N!HexDigit(s[k + 1]) = above[e] % 16
      BY <2>10, <3>2
    <3> HIDE DEF e
    <3>5. v[k + 1] = N!Wrap(16 * v[k] + N!HexDigit(s[k + 1]))
      BY <2>12 DEF Reads
    <3>6. v[k + 1] = N!Wrap(above[e])
      BY <2>8, <3>2, <3>3, <3>4, <3>5
    <3>7. above[e] \in Int /\ above[e] \in N!Word
      <4> DEFINE W0 == Words0
      <4>1. x < W0 /\ W0 \in Nat /\ N!Word = 0 .. W0 - 1 /\ above[e] \in Nat /\ above[e] <= x
        BY <1>1, <2>8, <3>2
      <4> HIDE DEF W0
      <4>2. QED
        BY <1>1, <4>1
    <3>8. QED
      BY <3>6, <3>7, WrapIs DEF e
  <2>15. v[K] = x
    <3>1. Nat \subseteq A
      <4> HIDE DEF A
      <4>1. QED
        BY <2>13, <2>14, Induct
    <3>2. K \in A /\ K <= K /\ K - K = 0
      BY <2>2, <3>1
    <3>3. QED
      BY <2>7, <3>2
  <2>16. N!AtoX(s) = N!Value(s, 16) /\ N!Value(s, 16) = v[Len(s)]
    BY <2>11, <2>12, AtoXIs DEF Reads
  <2>17. QED
    BY <2>11, <2>15, <2>16 DEF s
<1>4. QED
  BY <1>2, <1>3


\* A power of two that is below the number of words divides it.
LEMMA AlignDivides ==
  ASSUME NEW a \in Aligns
  PROVE  a \in Nat \ {0} /\ \E c \in Nat : Words0 = a * c
<1> DEFINE pow == [e \in 0 .. 32 |-> 2^e]
           A == {k \in Nat : k <= WordBits => \E c \in Nat : Words0 = pow[k] * c /\ c = pow[WordBits - k]}
<1>1. PICK k \in 0 .. WordBits - 1 : a = 2^k
  BY WordIs
<1>2. WordBits \in Nat /\ WordBits <= 32
  BY WordIs
<1>3. \A e \in 0 .. 32 : pow[e] = 2^e
  OBVIOUS
<1>4. \A e \in 0 .. 31 : pow[e] \in Nat \ {0} /\ pow[e + 1] = 2 * pow[e]
  <2>1. \A e \in 0 .. 31 : e \in 0 .. 32 /\ e + 1 \in 0 .. 32
    OBVIOUS
  <2> HIDE DEF pow
  <2>2. QED
    BY <1>3, <2>1, Doubled
<1>5. pow[0] = 1 /\ pow[WordBits] = Words0
  BY <1>2, Powers DEF Words0
<1> HIDE DEF pow
<1>6. 0 \in A
  <2> DEFINE W0 == Words0
  <2>1. W0 \in Nat /\ WordBits - 0 = WordBits
    BY <1>2, WordIs
  <2> HIDE DEF W0
  <2>2. W0 = 1 * W0
    BY <2>1
  <2>3. QED
    BY <1>5, <2>1, <2>2 DEF W0
<1>7. ASSUME NEW l \in Nat, l \in A PROVE l + 1 \in A
  <2>1. SUFFICES ASSUME l + 1 <= WordBits
                 PROVE  \E c \in Nat : Words0 = pow[l + 1] * c /\ c = pow[WordBits - (l + 1)]
    OBVIOUS
  <2>2. l <= WordBits
    BY <1>2, <2>1
  <2>3. Words0 = pow[l] * pow[WordBits - l]
    BY <1>7, <2>2
  <2> DEFINE e == WordBits - (l + 1)
  <2>4. e \in 0 .. 31 /\ l \in 0 .. 31 /\ WordBits - l = e + 1
    BY <1>2, <2>1
  <2> HIDE DEF e
  <2> DEFINE p == pow[l]
             y == pow[e]
  <2>5. p \in Nat /\ y \in Nat /\ pow[l + 1] = 2 * p /\ pow[WordBits - l] = 2 * y
    BY <1>4, <2>4
  <2>6. Words0 = p * (2 * y)
    BY <2>3, <2>5
  <2> HIDE DEF p
  <2>7. p * (2 * y) = (2 * p) * y
    <3> HIDE DEF y
    <3>1. QED
      BY <2>5
  <2>8. QED
    BY <2>5, <2>6, <2>7 DEF e
<1>8. Nat \subseteq A
  <2> HIDE DEF A
  <2>1. QED
    BY <1>6, <1>7, Induct
<1>9. k \in A /\ k <= WordBits /\ k \in 0 .. 31 /\ k \in 0 .. 32
  BY <1>1, <1>2, <1>8
<1>10. \E c \in Nat : Words0 = pow[k] * c
  BY <1>9
<1>11. QED
  BY <1>1, <1>3, <1>4, <1>9, <1>10

LEMMA AlignIs ==
  ASSUME NEW x \in N!Word, NEW a \in Aligns
  PROVE  LET r == N!MemAlign(x, a) IN
         /\ r % a = 0
         /\ IF x <= 2^WordBits - a THEN r >= x /\ r < x + a ELSE r = 0
<1> DEFINE W0 == Words0
           r == N!MemAlign(x, a)
           q == x \div a
           u == x % a
<1>1. a \in Nat \ {0}
  BY AlignDivides
<1>2. PICK c \in Nat : W0 = a * c
  BY AlignDivides
<1>3. W0 \in Nat \ {0} /\ N!Word = 0 .. W0 - 1
  BY WordIs
<1>4. 2^WordBits = W0
  BY DEF Words0
<1>5. r = IF u = 0 THEN x ELSE N!Wrap(x - u + a)
  BY DEF N!MemAlign
<1> HIDE DEF W0, r
<1>6. x \in Nat /\ x < W0
  BY <1>3
<1>7. q \in Nat /\ u \in 0 .. a - 1 /\ x = a * q + u
  BY <1>1, <1>6
<1> HIDE DEF q, u
\* Products with a keep the order.
<1>8. ASSUME NEW y \in Int, NEW z \in Int
      PROVE  /\ y < z => a * y + a <= a * z
             /\ a * (y + 1) = a * y + a
  <2>1. a * (y + 1) = a * y + a
    BY <1>1
  <2>2. ASSUME y < z PROVE a * y + a <= a * z
    <3> DEFINE t == z - y
    <3>1. t \in Int /\ t >= 1 /\ z = y + t
      BY <2>2
    <3> HIDE DEF t
    <3>2. a * z = a * y + a * t
      BY <1>1, <3>1
    <3>3. a * t >= a
      BY <1>1, <3>1
    <3>4. a * y \in Int /\ a * z \in Int /\ a * t \in Int
      BY <1>1, <3>1
    <3>5. QED
      BY <1>1, <3>2, <3>3, <3>4
  <2>3. QED
    BY <2>1, <2>2
<1> DEFINE aq == a * q
<1>9. aq \in Int /\ x = aq + u /\ a * (q + 1) = aq + a
  BY <1>1, <1>7, <1>8
<1>10. q < c
  <2>1. SUFFICES ASSUME c <= q PROVE FALSE
    BY <1>7
  <2>2. W0 <= aq
    <3>1. c = q \/ c < q
      BY <1>7, <2>1
    <3>2. CASE c = q
      BY <1>2, <1>3, <3>2
    <3>3. CASE c < q
      <4>1. a * c + a <= aq
        BY <1>7, <1>8, <3>3
      <4> HIDE DEF aq
      <4>2. W0 + a <= aq
        BY <1>2, <4>1
      <4>3. QED
        BY <1>1, <1>3, <1>9, <4>2
    <3>4. QED
      BY <3>1, <3>2, <3>3
  <2> HIDE DEF aq
  <2>3. QED
    BY <1>3, <1>6, <1>7, <1>9, <2>2
<1>11. q + 1 < c => aq + a + a <= W0
  <2>1. q + 1 \in Int /\ c \in Int
    BY <1>7
  <2>2. q + 1 < c => a * (q + 1) + a <= a * c
    BY <1>8, <2>1
  <2> HIDE DEF aq
  <2>3. QED
    BY <1>2, <1>9, <2>2
<1>12. q + 1 = c => W0 = aq + a
  BY <1>2, <1>9
<1>13. q + 1 = c \/ q + 1 < c
  BY <1>7, <1>10
<1>14. aq + a <= W0
  <2> HIDE DEF aq
  <2>1. QED
    BY <1>1, <1>3, <1>9, <1>11, <1>12, <1>13
\* A product is a multiple.
<1>15. \A y \in Nat : (a * y) % a = 0
  BY <1>1
<1>16. aq % a = 0 /\ (aq + a) % a = 0 /\ 0 % a = 0
  <2>1. aq % a = 0
    BY <1>7, <1>15
  <2>2. q + 1 \in Nat
    BY <1>7
  <2>3. (a * (q + 1)) % a = 0
    BY <1>15, <2>2
  <2>4. 0 % a = 0
    BY <1>1
  <2> HIDE DEF aq
  <2>5. QED
    BY <1>9, <2>1, <2>3, <2>4
<1> HIDE DEF aq
<1>17. CASE u = 0
  <2>1. r = x /\ x = aq
    BY <1>5, <1>9, <1>17
  <2>2. x <= W0 - a
    BY <1>1, <1>3, <1>9, <1>14, <2>1
  <2>3. r >= x /\ r < x + a
    BY <1>1, <1>6, <2>1
  <2>4. r % a = 0
    BY <1>16, <2>1
  <2>5. QED
    BY <1>4, <2>2, <2>3, <2>4 DEF r
<1>18. CASE u # 0
  <2> DEFINE y == aq + a
  <2>1. y \in Nat /\ x - u + a = y
    BY <1>1, <1>6, <1>7, <1>9
  <2> HIDE DEF y
  <2>2. r = N!Wrap(y)
    BY <1>5, <1>18, <2>1
  <2>3. CASE q + 1 = c
    <3>1. y = W0
      BY <1>12, <2>3 DEF y
    <3>2. N!Wrap(y) = 0
      <4>1. N!Wrap(W0) = W0 % W0
        BY WordIs DEF W0
      <4>2. W0 % W0 = 0
        BY <1>3
      <4>3. QED
        BY <3>1, <4>1, <4>2
    <3>3. ~(x <= W0 - a)
      BY <1>1, <1>3, <1>6, <1>7, <1>9, <1>18, <3>1 DEF y
    <3>4. r % a = 0 /\ r = 0
      BY <1>16, <2>2, <3>2
    <3>5. QED
      BY <1>4, <3>3, <3>4 DEF r
  <2>4. CASE q + 1 < c
    <3>1. y + a <= W0
      BY <1>11, <2>4 DEF y
    <3>2. y \in N!Word
      BY <1>1, <1>3, <2>1, <3>1
    <3>3. r = y
      BY <2>1, <2>2, <3>2, WrapIs
    <3>4. x <= W0 - a /\ y >= x /\ y < x + a
      BY <1>1, <1>3, <1>6, <1>7, <1>9, <1>18, <3>1 DEF y
    <3>5. r % a = 0
      BY <1>16, <3>3 DEF y
    <3>6. QED
      BY <1>4, <3>3, <3>4, <3>5 DEF r
  <2>5. QED
    BY <1>13, <2>3, <2>4
<1>19. QED
  BY <1>7, <1>17, <1>18


LEMMA Joins ==
  ASSUME NEW A, NEW s \in Seq(A), NEW t \in Seq(A)
  PROVE  /\ s \o t \in Seq(A) /\ Len(s \o t) = Len(s) + Len(t)
         /\ \A k \in 1 .. Len(s) : (s \o t)[k] = s[k]
         /\ \A k \in 1 .. Len(t) : (s \o t)[Len(s) + k] = t[k]
<1> DEFINE p == s \o t
<1>1. /\ p \in Seq(A) /\ Len(p) = Len(s) + Len(t)
      /\ \A k \in 1 .. Len(s) + Len(t) : p[k] = IF k <= Len(s) THEN s[k] ELSE t[k - Len(s)]
  BY ConcatProperties
<1>2. Len(s) \in Nat /\ Len(t) \in Nat
  OBVIOUS
<1> HIDE DEF p
<1>3. ASSUME NEW k \in 1 .. Len(s) PROVE p[k] = s[k]
  <2>1. k \in 1 .. Len(s) + Len(t) /\ k <= Len(s)
    BY <1>2
  <2>2. QED
    BY <1>1, <2>1
<1>4. ASSUME NEW k \in 1 .. Len(t) PROVE p[Len(s) + k] = t[k]
  <2> DEFINE j == Len(s) + k
  <2>1. j \in 1 .. Len(s) + Len(t) /\ ~(j <= Len(s)) /\ j - Len(s) = k
    BY <1>2
  <2> HIDE DEF j
  <2>2. p[j] = t[k]
    BY <1>1, <2>1
  <2>3. QED
    BY <2>2 DEF j
<1>5. QED
  BY <1>1, <1>3, <1>4 DEF p

\* The last digit of a number, behind the others.
LEMMA LastDigit ==
  ASSUME NEW x \in Nat, x > 0
  PROVE  LET f == N!Loop(x \div 10, 10) IN
         /\ N!Loop(x, 10) = Append(f, 48 + (x % 10)) /\ 48 + (x % 10) \in Decimals
         /\ N!Loop(x, 10) \in Seq(Decimals) /\ Len(N!Loop(x, 10)) = Len(f) + 1 /\ Len(f) \in Nat
         /\ N!Loop(x, 10)[Len(f) + 1] = 48 + (x % 10)
         /\ \A k \in 1 .. Len(f) : N!Loop(x, 10)[k] = f[k]
<1> DEFINE f == N!Loop(x \div 10, 10)
           d == 48 + (x % 10)
<1>1. x \in Int /\ x # 0 /\ ~(x < 0) /\ x \div 10 \in Nat /\ x % 10 \in 0 .. 9
  OBVIOUS
<1>2. N!Quot(x, 10) = x \div 10 /\ N!Rem(x, 10) = x % 10
  BY <1>1 DEF N!Quot, N!Rem
<1>3. N!Char(x % 10) = d /\ d \in Decimals
  <2> DEFINE m == x % 10
  <2>1. m \in 0 .. 9
    BY <1>1
  <2> HIDE DEF m
  <2>2. N!Char(m) = 48 + m /\ 48 + m \in Decimals
    BY <2>1 DEF N!Char, N!ZERO, Decimals
  <2>3. QED
    BY <2>2 DEF m
<1>4. N!Loop(x, 10) = Append(f, d)
  BY <1>1, <1>2, <1>3, LoopIs DEF Bases
<1>5. Written(x \div 10, 10)
  BY <1>1, LoopWritten DEF Bases
<1>6. f \in Seq(Decimals) /\ d \in Decimals
  BY <1>3, <1>5 DEF Written
<1> HIDE DEF f, d
<1>7. /\ Append(f, d) \in Seq(Decimals) /\ Len(Append(f, d)) = Len(f) + 1 /\ Len(f) \in Nat
      /\ Append(f, d)[Len(f) + 1] = d /\ \A k \in 1 .. Len(f) : Append(f, d)[k] = f[k]
  BY <1>6, AppendProperties
<1>8. QED
  BY <1>4, <1>6, <1>7 DEF f, d

\* The digits of small numbers.
Aligned(x, f) ==
  /\ f \in Seq(Decimals)
  /\ Len(f) = IF x = 0 THEN 0 ELSE IF x < 10 THEN 1 ELSE IF x < 100 THEN 2 ELSE 3
  /\ Len(f) > 0 => f[Len(f)] = 48 + (x % 10)
  /\ Len(f) > 1 => f[Len(f) - 1] = 48 + ((x \div 10) % 10)
  /\ Len(f) > 2 => f[1] = 48 + (x \div 100)

LEMMA SmallDigits ==
  ASSUME NEW x \in 0 .. 999
  PROVE  Aligned(x, N!Loop(x, 10))
<1> DEFINE y == x \div 10
           z == y \div 10
           f == N!Loop(x, 10)
           g == N!Loop(y, 10)
           e == N!Loop(z, 10)
<1>1. /\ y \in 0 .. 99 /\ z \in 0 .. 9 /\ z = x \div 100 /\ z \div 10 = 0 /\ z % 10 = z
      /\ (x < 10 <=> y = 0) /\ (x < 100 <=> z = 0)
  OBVIOUS
<1>2. N!Loop(0, 10) = <<>> /\ Len(N!Loop(0, 10)) = 0 /\ N!Loop(0, 10) \in Seq(Decimals)
  <2>1. N!Loop(0, 10) = <<>>
    BY LoopIs DEF Bases
  <2>2. Len(<<>>) = 0 /\ <<>> \in Seq(Decimals)
    BY EmptySeq
  <2>3. QED
    BY <2>1, <2>2
<1>3. z > 0 => e \in Seq(Decimals) /\ Len(e) = 1 /\ e[1] = 48 + z
  <2>1. SUFFICES ASSUME z > 0 PROVE e \in Seq(Decimals) /\ Len(e) = 1 /\ e[1] = 48 + z
    OBVIOUS
  <2>2. z \in Nat
    BY <1>1
  <2> DEFINE l == N!Loop(z \div 10, 10)
  <2>3. e \in Seq(Decimals) /\ Len(e) = Len(l) + 1 /\ e[Len(l) + 1] = 48 + (z % 10)
    <3> HIDE DEF z
    <3>1. QED
      BY <2>1, <2>2, LastDigit
  <2>4. Len(l) = 0
    BY <1>1, <1>2
  <2> HIDE DEF e, l, z
  <2>5. z % 10 = z
    BY <1>1
  <2>6. QED
    BY <2>3, <2>4, <2>5
<1>4. y > 0 => /\ g \in Seq(Decimals) /\ Len(g) = Len(e) + 1 /\ Len(e) \in Nat
               /\ g[Len(e) + 1] = 48 + (y % 10) /\ \A k \in 1 .. Len(e) : g[k] = e[k]
  <2>1. y \in Nat
    BY <1>1
  <2> HIDE DEF y
  <2>2. QED
    BY <2>1, LastDigit
<1>5. x > 0 => /\ f \in Seq(Decimals) /\ Len(f) = Len(g) + 1 /\ Len(g) \in Nat
               /\ f[Len(g) + 1] = 48 + (x % 10) /\ \A k \in 1 .. Len(g) : f[k] = g[k]
  <2>1. x \in Nat
    OBVIOUS
  <2>2. QED
    BY <2>1, LastDigit
<1>6. (z = 0 => e = N!Loop(0, 10)) /\ (y = 0 => g = N!Loop(0, 10)) /\ (x = 0 => f = N!Loop(0, 10))
  OBVIOUS
<1> HIDE DEF e, f, g
<1>7. CASE x = 0
  <2>1. f \in Seq(Decimals) /\ Len(f) = 0
    BY <1>2, <1>6, <1>7
  <2>2. Aligned(x, f)
    BY <1>7, <2>1 DEF Aligned
  <2>3. QED
    BY <2>2 DEF f
<1>8. CASE x > 0 /\ x < 10
  <2>1. y = 0
    BY <1>1, <1>8
  <2>2. Len(g) = 0
    BY <1>2, <1>6, <2>1
  <2>3. f \in Seq(Decimals) /\ Len(f) = 1 /\ f[1] = 48 + (x % 10)
    BY <1>5, <1>8, <2>2
  <2>4. Aligned(x, f)
    BY <1>8, <2>3 DEF Aligned
  <2>5. QED
    BY <2>4 DEF f
<1>9. CASE x >= 10 /\ x < 100
  <2>1. z = 0 /\ y > 0
    BY <1>1, <1>9
  <2>2. Len(e) = 0
    BY <1>2, <1>6, <2>1
  <2>3. g \in Seq(Decimals) /\ Len(g) = 1 /\ g[1] = 48 + (y % 10)
    BY <1>4, <2>1, <2>2
  <2>4. f \in Seq(Decimals) /\ Len(f) = 2 /\ f[2] = 48 + (x % 10) /\ f[1] = 48 + (y % 10)
    BY <1>5, <1>9, <2>3
  <2>5. x # 0 /\ ~(x < 10) /\ x < 100 /\ ~(Len(f) > 2) /\ Len(f) - 1 = 1
    BY <1>9, <2>4
  <2>6. Aligned(x, f)
    BY <2>4, <2>5 DEF Aligned
  <2>7. QED
    BY <2>6 DEF f
<1>10. CASE x >= 100
  <2>1. z > 0 /\ y > 0
    BY <1>1, <1>10
  <2>2. Len(e) = 1 /\ e[1] = 48 + z
    BY <1>3, <2>1
  <2>3. g \in Seq(Decimals) /\ Len(g) = 2 /\ g[2] = 48 + (y % 10) /\ g[1] = 48 + z
    BY <1>4, <2>1, <2>2
  <2>4. f \in Seq(Decimals) /\ Len(f) = 3 /\ f[3] = 48 + (x % 10) /\ f[2] = 48 + (y % 10) /\ f[1] = 48 + z
    BY <1>5, <1>10, <2>3
  <2>5. x # 0 /\ ~(x < 10) /\ ~(x < 100) /\ Len(f) - 1 = 2 /\ z = x \div 100
    BY <1>1, <1>10, <2>4
  <2>6. Aligned(x, f)
    BY <2>4, <2>5 DEF Aligned
  <2>7. QED
    BY <2>6 DEF f
<1>11. QED
  BY <1>7, <1>8, <1>9, <1>10

\* One digit and two digits, as numbers.
LEMMA DigitsValue ==
  ASSUME NEW s \in Seq(Int)
  PROVE  /\ Len(s) = 1 /\ s[1] \in Decimals => N!Digits(s) = s[1] - 48
         /\ Len(s) = 2 /\ s[1] \in Decimals /\ s[2] \in Decimals
              => N!Digits(s) = 10 * (s[1] - 48) + (s[2] - 48)
<1>1. ASSUME NEW c \in Decimals PROVE N!HexDigit(c) = c - 48 /\ c \in Int /\ c - 48 \in 0 .. 9
  <2>1. c \in 48 .. 57 /\ c \notin 65 .. 70 /\ c \notin 97 .. 102
    BY DEF Decimals
  <2>2. N!HexDigit(c) = c - 48
    BY <2>1 DEF N!HexDigit
  <2>3. QED
    BY <2>1, <2>2
<1>2. \A k \in 0 .. 99 : k \in N!Word /\ N!Wrap(k) = k
  <2> DEFINE K == Words0
  <2>1. K > 255 /\ K \in Nat /\ N!Word = 0 .. K - 1
    BY WordIs
  <2> HIDE DEF K
  <2>2. \A k \in 0 .. 99 : k \in N!Word /\ k \in Int
    BY <2>1
  <2>3. QED
    BY <2>2, WrapIs
<1>3. ASSUME NEW c \in Decimals
      PROVE  N!Value(Append(<<>>, c), 10) = c - 48 /\ Append(<<>>, c) \in Seq(Int)
  <2>1. <<>> \in Seq(Int) /\ 10 \in Bases /\ c \in Int
    BY <1>1 DEF Bases
  <2>2. N!Value(Append(<<>>, c), 10) = N!Wrap(10 * 0 + (c - 48))
    BY <1>1, <2>1, ValueMore
  <2>3. 10 * 0 + (c - 48) = c - 48 /\ c - 48 \in 0 .. 99
    BY <1>1
  <2>4. N!Value(Append(<<>>, c), 10) = c - 48
    BY <1>2, <2>2, <2>3
  <2>5. Append(<<>>, c) \in Seq(Int)
    BY <2>1
  <2>6. QED
    BY <2>4, <2>5
<1>4. ASSUME Len(s) = 1, s[1] \in Decimals PROVE N!Digits(s) = s[1] - 48
  <2> DEFINE c == s[1]
             t == Append(<<>>, c)
  <2>1. c \in Int
    BY <1>1, <1>4
  <2>2. t \in Seq(Int) /\ Len(t) = 1 /\ t[1] = c
    BY <2>1
  <2> HIDE DEF t
  <2>3. \A k \in 1 .. 1 : t[k] = s[k]
    BY <2>2
  <2>4. s = t
    BY <1>4, <2>2, <2>3, SeqEqual
  <2>5. s \in Seq(Decimals)
    <3>1. \A k \in 1 .. Len(s) : s[k] \in Decimals
      BY <1>4
    <3>2. QED
      BY <3>1
  <2>6. QED
    BY <1>3, <1>4, <2>4, <2>5, DigitsIs DEF t
<1>5. ASSUME Len(s) = 2, s[1] \in Decimals, s[2] \in Decimals
      PROVE  N!Digits(s) = 10 * (s[1] - 48) + (s[2] - 48)
  <2> DEFINE c == s[1]
             d == s[2]
             u == Append(<<>>, c)
             t == Append(u, d)
  <2>1. c \in Int /\ d \in Int /\ c - 48 \in 0 .. 9 /\ d - 48 \in 0 .. 9
    BY <1>1, <1>5
  <2>2. u \in Seq(Int) /\ Len(u) = 1 /\ u[1] = c
    BY <2>1
  <2>3. N!Value(u, 10) = c - 48
    BY <1>3, <1>5
  <2> HIDE DEF u
  <2>4. t \in Seq(Int) /\ Len(t) = 2 /\ t[1] = c /\ t[2] = d
    <3>1. /\ t \in Seq(Int) /\ Len(t) = Len(u) + 1 /\ t[Len(u) + 1] = d
          /\ \A k \in 1 .. Len(u) : t[k] = u[k]
      <4>1. u \in Seq(Int) /\ d \in Int
        BY <2>1, <2>2
      <4> HIDE DEF d
      <4>2. QED
        BY <4>1, AppendProperties
    <3> HIDE DEF t
    <3>2. QED
      BY <2>2, <3>1
  <2>5. N!Value(t, 10) = N!Wrap(10 * (c - 48) + (d - 48))
    <3>1. 10 \in Bases
      BY DEF Bases
    <3>2. N!HexDigit(d) = d - 48
      BY <1>1, <1>5
    <3>3. QED
      BY <2>1, <2>2, <2>3, <3>1, <3>2, ValueMore
  <2>6. 10 * (c - 48) + (d - 48) \in 0 .. 99
    <3> DEFINE a == c - 48
               b == d - 48
    <3>1. a \in 0 .. 9 /\ b \in 0 .. 9
      BY <2>1
    <3> HIDE DEF a, b
    <3>2. 10 * a + b \in 0 .. 99
      BY <3>1
    <3>3. QED
      BY <3>2 DEF a, b
  <2>7. N!Value(t, 10) = 10 * (c - 48) + (d - 48)
    BY <1>2, <2>5, <2>6
  <2> HIDE DEF t
  <2>8. s = t
    <3>1. \A k \in 1 .. 2 : t[k] = s[k]
      BY <2>4
    <3>2. QED
      BY <1>5, <2>4, <3>1, SeqEqual
  <2>9. s \in Seq(Decimals)
    <3>1. \A k \in 1 .. Len(s) : s[k] \in Decimals
      BY <1>5
    <3>2. QED
      BY <3>1
  <2>10. QED
    BY <2>7, <2>8, <2>9, DigitsIs
<1>6. QED
  BY <1>4, <1>5


\* Filled up with zeros, a number below 1000 has three digits.
Three(x, f) ==
  /\ f \in Seq(Decimals) /\ Len(f) = 3
  /\ f[1] = 48 + (x \div 100)
  /\ f[2] = 48 + ((x \div 10) % 10)
  /\ f[3] = 48 + (x % 10)

LEMMA ThreeDigits == ASSUME NEW x \in 0 .. 999 PROVE Three(x, N!Filled(x, 3))
<1>0. Aligned(x, N!Loop(x, 10))
  BY SmallDigits, ZenonT(30)
<1> DEFINE f == N!Loop(x, 10)
           l == Len(f)
           m == IF l < 3 THEN 3 - l ELSE 0
           o == [j \in 1 .. m |-> N!ZERO]
           p == o \o f
           c1 == 48 + (x \div 100)
           c2 == 48 + ((x \div 10) % 10)
           c3 == 48 + (x % 10)
<1>1. N!Filled(x, 3) = p
  BY DEF N!Filled
<1>2. Aligned(x, f)
  BY <1>0
<1> HIDE DEF f
<1>3. f \in Seq(Decimals) /\ l \in 0 .. 3 /\ m = 3 - l /\ l \in Nat
  <2>1. f \in Seq(Decimals)
    BY <1>2 DEF Aligned
  <2>2. l = 0 \/ l = 1 \/ l = 2 \/ l = 3
    BY <1>2 DEF Aligned
  <2>3. l \in 0 .. 3 /\ l \in Nat
    BY <2>2
  <2>4. m = 3 - l
    <3> HIDE DEF l
    <3>1. QED
      BY <2>3
  <2>5. QED
    BY <2>1, <2>3, <2>4
<1>4. /\ l = 0 <=> x = 0
      /\ l < 2 <=> x < 10
      /\ l < 3 <=> x < 100
  BY <1>2 DEF Aligned
<1>5. /\ l > 0 => f[l] = c3
      /\ l > 1 => f[l - 1] = c2
      /\ l > 2 => f[1] = c1
  BY <1>2 DEF Aligned
<1>6. (x = 0 => c3 = 48) /\ (x < 10 => c2 = 48) /\ (x < 100 => c1 = 48)
  OBVIOUS
<1> HIDE DEF c1, c2, c3, l, m
<1>7. m \in 0 .. 3 /\ N!ZERO = 48 /\ 48 \in Decimals
  BY <1>3 DEF N!ZERO, Decimals
<1>8. o \in Seq(Decimals) /\ Len(o) = m /\ \A k \in 1 .. m : o[k] = 48
  BY <1>7
<1> HIDE DEF o
<1>9. /\ p \in Seq(Decimals) /\ Len(p) = Len(o) + Len(f)
      /\ \A k \in 1 .. Len(o) : p[k] = o[k]
      /\ \A k \in 1 .. Len(f) : p[Len(o) + k] = f[k]
  BY <1>3, <1>8, Joins
<1> HIDE DEF p
<1>10. /\ p \in Seq(Decimals) /\ Len(p) = 3
       /\ \A k \in 1 .. m : p[k] = 48
       /\ \A k \in 1 .. l : p[m + k] = f[k]
  BY <1>3, <1>7, <1>8, <1>9 DEF l
<1>11. ASSUME l = 0 PROVE p[1] = c1 /\ p[2] = c2 /\ p[3] = c3
  <2>1. m = 3 /\ x = 0 /\ x < 10 /\ x < 100
    BY <1>3, <1>4, <1>11
  <2>2. p[1] = 48 /\ p[2] = 48 /\ p[3] = 48
    BY <1>10, <2>1
  <2>3. QED
    BY <1>6, <2>1, <2>2
<1>12. ASSUME l = 1 PROVE p[1] = c1 /\ p[2] = c2 /\ p[3] = c3
  <2>1. m = 2 /\ x < 10 /\ x < 100
    BY <1>3, <1>4, <1>12
  <2>2. p[1] = 48 /\ p[2] = 48 /\ p[m + 1] = f[1]
    BY <1>10, <1>12, <2>1
  <2>3. f[1] = c3
    BY <1>5, <1>12
  <2>4. QED
    BY <1>6, <2>1, <2>2, <2>3
<1>13. ASSUME l = 2 PROVE p[1] = c1 /\ p[2] = c2 /\ p[3] = c3
  <2>1. m = 1 /\ x < 100
    BY <1>3, <1>4, <1>13
  <2>2. p[1] = 48 /\ p[m + 1] = f[1] /\ p[m + 2] = f[2]
    BY <1>10, <1>13, <2>1
  <2>3. f[2] = c3 /\ f[1] = c2
    BY <1>5, <1>13
  <2>4. QED
    BY <1>6, <2>1, <2>2, <2>3
<1>14. ASSUME l = 3 PROVE p[1] = c1 /\ p[2] = c2 /\ p[3] = c3
  <2>1. m = 0
    BY <1>3, <1>14
  <2>2. p[m + 1] = f[1] /\ p[m + 2] = f[2] /\ p[m + 3] = f[3]
    BY <1>10, <1>14, <2>1
  <2>3. f[3] = c3 /\ f[2] = c2 /\ f[1] = c1
    BY <1>5, <1>14
  <2>4. QED
    BY <2>1, <2>2, <2>3
<1>15. p[1] = c1 /\ p[2] = c2 /\ p[3] = c3
  BY <1>3, <1>11, <1>12, <1>13, <1>14
<1>16. QED
  BY <1>1, <1>10, <1>15 DEF Three, c1, c2, c3

\* Quotient and remainder.
LEMMA Division ==
  ASSUME NEW x \in Nat, NEW u \in Nat \ {0}
  PROVE  /\ x \div u \in Nat /\ x % u \in 0 .. u - 1 /\ x = (x \div u) * u + (x % u)
         /\ x \div u <= x /\ (x \div u = 0 <=> x < u)
<1> DEFINE y == x \div u
           f == x % u
<1>1. y \in Nat /\ f \in 0 .. u - 1 /\ x = y * u + f
  OBVIOUS
<1> HIDE DEF y, f
<1>2. y * u >= y
  BY <1>1
<1>3. y <= x
  BY <1>1, <1>2
<1>4. y = 0 <=> x < u
  <2>1. y = 0 => y * u = 0
    BY <1>1
  <2>2. y >= 1 => y * u >= u
    BY <1>1
  <2>3. QED
    BY <1>1, <2>1, <2>2
<1>5. QED
  BY <1>1, <1>3, <1>4 DEF y, f

LEMMA NatQuotIs ==
  \A x \in Nat, u \in Nat : N!Quot(x, u) = x \div u /\ N!Rem(x, u) = x % u
<1>1. \A x \in Nat : ~(x < 0)
  OBVIOUS
<1>2. QED
  BY <1>1, Zenon DEF N!Quot, N!Rem

LEMMA Thousandths ==
  ASSUME NEW u \in Nat \ {0}, NEW f \in 0 .. u - 1
  PROVE  LET t == (1000 * f) \div u IN
         t \in 0 .. 999 /\ t * u <= 1000 * f /\ 1000 * f < (t + 1) * u
<1> DEFINE g == 1000 * f
           t == g \div u
           q == g % u
<1>1. g \in Nat /\ g < 1000 * u
  OBVIOUS
<1> HIDE DEF g
<1>2. t \in Nat /\ q \in 0 .. u - 1 /\ g = t * u + q
  <2>1. g \in Nat
    BY <1>1
  <2>2. QED
    BY <2>1, Division
<1> HIDE DEF t, q
<1>3. (t + 1) * u = t * u + u
  BY <1>2
<1>4. t * u <= g /\ g < (t + 1) * u
  <2>1. t * u \in Nat
    BY <1>2
  <2>2. QED
    BY <1>1, <1>2, <1>3, <2>1
<1>5. t < 1000
  <2>1. t >= 1000 => t * u >= 1000 * u
    BY <1>2
  <2>2. QED
    BY <1>1, <1>2, <1>4, <2>1
<1>6. QED
  BY <1>2, <1>4, <1>5 DEF t, g

\* In s the point is at p, y is before it, and behind it are t's three digits.
Pointed(s, p, y, t) ==
  /\ N!AtoL[SubSeq(s, 1, p - 1)] = y
  /\ Len(s) = p + 3
  /\ N!Digits(SubSeq(s, p + 1, p + 1)) = t \div 100
  /\ N!Digits(SubSeq(s, p + 2, p + 3)) = t % 100
  /\ p = 1 <=> y = 0

\* A text of a number with its point and three digits, and where the point is.
PointText(y, t) == N!Filled(y, 0) \o <<N!POINT>> \o N!Filled(t, 3)
PointOf(s) == CHOOSE j \in 1 .. Len(s) : s[j] = N!POINT

LEMMA PointedIs ==
  ASSUME NEW y \in N!Word, NEW t \in 0 .. 999
  PROVE  Pointed(PointText(y, t), PointOf(PointText(y, t)), y, t)
<1> DEFINE u == N!Loop(y, 10)
           v == N!Filled(t, 3)
           s == N!Filled(y, 0) \o <<N!POINT>> \o N!Filled(t, 3)
           l == Len(u)
           a == u \o <<46>>
           p == CHOOSE j \in 1 .. Len(s) : s[j] = N!POINT
<1>1. y \in N!Word /\ y \in Nat /\ t \in 0 .. 999 /\ 10 \in Bases
  <2> DEFINE K == Words0
  <2>1. K \in Nat /\ N!Word = 0 .. K - 1
    BY WordIs
  <2> HIDE DEF K
  <2>2. QED
    BY <2>1 DEF Bases
<1>2. s = N!Filled(y, 0) \o <<46>> \o v
  BY DEF N!POINT
<1>3. Written(y, 10)
  BY <1>1, LoopWritten
<1>4. v \in Seq(Decimals) /\ Len(v) = 3 /\ v[1] = 48 + (t \div 100)
      /\ v[2] = 48 + ((t \div 10) % 10) /\ v[3] = 48 + (t % 10)
  <2> HIDE DEF u, s, l, a, p
  <2>1. Three(t, N!Filled(t, 3))
    BY ThreeDigits, ZenonT(30)
  <2>2. QED
    BY <2>1 DEF Three
<1>5. u \in Seq(Decimals) /\ N!Value(u, 10) = y /\ (y > 0 => u # <<>>) /\ (y = 0 => u = <<>>)
  BY <1>1, <1>3, LoopIs DEF Written
<1>6. N!Filled(y, 0) = u
  <2> DEFINE k == IF l < 0 THEN 0 - l ELSE 0
  <2>1. N!Filled(y, 0) = [j \in 1 .. k |-> N!ZERO] \o u
    BY DEF N!Filled
  <2> HIDE DEF u
  <2>2. k = 0
    BY <1>5
  <2>3. [j \in 1 .. 0 |-> N!ZERO] = <<>>
    OBVIOUS
  <2>4. <<>> \o u = u
    BY <1>5, ConcatEmptySeq
  <2>5. QED
    BY <2>1, <2>2, <2>3, <2>4
<1> HIDE DEF u, v, s
<1>7. u \in Seq(Int) /\ v \in Seq(Int) /\ l \in Nat /\ <<46>> \in Seq(Int) /\ Len(<<46>>) = 1 /\ <<46>>[1] = 46
  BY <1>4, <1>5, CharsAreInt
<1>8. a \in Seq(Int) /\ Len(a) = l + 1 /\ (\A k \in 1 .. l : a[k] = u[k]) /\ a[l + 1] = 46
  <2> DEFINE o == <<46>>
  <2>1. o \in Seq(Int) /\ Len(o) = 1 /\ o[1] = 46
    BY <1>7
  <2> HIDE DEF o
  <2> HIDE DEF l
  <2>0. u \in Seq(Int) /\ o \in Seq(Int)
    BY <1>7, <2>1
  <2>2. /\ u \o o \in Seq(Int) /\ Len(u \o o) = Len(u) + Len(o)
        /\ \A k \in 1 .. Len(u) : (u \o o)[k] = u[k]
        /\ \A k \in 1 .. Len(o) : (u \o o)[Len(u) + k] = o[k]
    BY <2>0, Joins
  <2>3. 1 \in 1 .. Len(o)
    BY <2>1
  <2>4. a = u \o o
    BY DEF o
  <2>5. QED
    BY <2>1, <2>2, <2>3, <2>4 DEF l
<1> HIDE DEF a
<1>9. s = a \o v
  BY <1>2, <1>6 DEF a
<1>10. /\ s \in Seq(Int) /\ Len(s) = Len(a) + Len(v)
       /\ \A k \in 1 .. Len(a) : s[k] = a[k]
       /\ \A k \in 1 .. Len(v) : s[Len(a) + k] = v[k]
  <2>1. a \in Seq(Int) /\ v \in Seq(Int)
    BY <1>7, <1>8
  <2>2. /\ a \o v \in Seq(Int) /\ Len(a \o v) = Len(a) + Len(v)
        /\ \A k \in 1 .. Len(a) : (a \o v)[k] = a[k]
        /\ \A k \in 1 .. Len(v) : (a \o v)[Len(a) + k] = v[k]
    BY <2>1, Joins
  <2>3. QED
    BY <1>9, <2>2
<1> HIDE DEF l
<1>11. /\ Len(s) = l + 4 /\ (\A k \in 1 .. l : s[k] = u[k]) /\ s[l + 1] = 46
       /\ s[l + 2] = v[1] /\ s[l + 3] = v[2] /\ s[l + 4] = v[3]
  <2>1. Len(s) = l + 4
    BY <1>4, <1>7, <1>8, <1>10
  <2>2. \A k \in 1 .. l : s[k] = u[k]
    <3>1. \A k \in 1 .. l : k \in 1 .. Len(a)
      BY <1>7, <1>8
    <3>2. QED
      BY <1>8, <1>10, <3>1
  <2>3. s[l + 1] = 46
    <3>1. l + 1 \in 1 .. Len(a)
      BY <1>7, <1>8
    <3>2. QED
      BY <1>8, <1>10, <3>1
  <2>4. s[l + 1 + 1] = v[1] /\ s[l + 1 + 2] = v[2] /\ s[l + 1 + 3] = v[3]
    <3>1. 1 \in 1 .. Len(v) /\ 2 \in 1 .. Len(v) /\ 3 \in 1 .. Len(v)
      BY <1>4
    <3>2. QED
      BY <1>8, <1>10, <3>1
  <2>5. l + 1 + 1 = l + 2 /\ l + 1 + 2 = l + 3 /\ l + 1 + 3 = l + 4
    BY <1>7
  <2>6. QED
    BY <2>1, <2>2, <2>3, <2>4, <2>5
<1>12. p = l + 1
  <2>1. \A c \in Decimals : c # 46
    BY DEF Decimals
  <2>2. \A k \in 1 .. l : s[k] # 46
    <3>1. \A k \in 1 .. l : u[k] \in Decimals
      BY <1>5, ElementOfSeq DEF l
    <3>2. QED
      BY <1>11, <2>1, <3>1
  <2>3. s[l + 2] # 46 /\ s[l + 3] # 46 /\ s[l + 4] # 46
    <3>1. 1 \in 1 .. Len(v) /\ 2 \in 1 .. Len(v) /\ 3 \in 1 .. Len(v)
      BY <1>4
    <3>2. v[1] \in Decimals /\ v[2] \in Decimals /\ v[3] \in Decimals
      BY <1>4, <3>1, ElementOfSeq
    <3>3. QED
      BY <1>11, <2>1, <3>2
  <2>4. \A j \in 1 .. l + 4 : j \in 1 .. l \/ j = l + 1 \/ j = l + 2 \/ j = l + 3 \/ j = l + 4
    BY <1>7
  <2>5. \A j \in 1 .. Len(s) : s[j] = 46 => j = l + 1
    BY <1>11, <2>2, <2>3, <2>4
  <2>6. l + 1 \in 1 .. Len(s) /\ s[l + 1] = 46 /\ N!POINT = 46
    BY <1>7, <1>11 DEF N!POINT
  <2>7. QED
    BY <2>5, <2>6
<1> HIDE DEF p
<1>13. N!AtoL[SubSeq(s, 1, p - 1)] = y
  <2> DEFINE w0 == SubSeq(s, 1, l)
  <2>1. \A k \in 1 .. l : s[k] \in Int
    BY <1>7, <1>10, <1>11, ElementOfSeq
  <2>2. w0 \in Seq(Int) /\ Len(w0) = l /\ \A k \in 1 .. l : w0[k] = s[k]
    <3>1. 1 \in 1 .. Len(s) + 1 /\ l \in 0 .. Len(s)
      BY <1>7, <1>11
    <3>2. QED
      BY <1>7, <1>10, <3>1, SubSeqProperties
  <2> HIDE DEF w0
  <2>3. w0 = u
    <3>1. Len(w0) = Len(u) /\ \A k \in 1 .. Len(w0) : w0[k] = u[k]
      BY <1>11, <2>2 DEF l
    <3>2. QED
      BY <1>7, <2>2, <3>1, SeqEqual
  <2>4. N!AtoL[u] = y
    BY <1>5, <1>7, AtoLOf
  <2>5. p - 1 = l
    BY <1>7, <1>12
  <2>6. QED
    BY <2>3, <2>4, <2>5 DEF w0
<1>14. N!Digits(SubSeq(s, p + 1, p + 1)) = t \div 100
  <2> DEFINE w0 == SubSeq(s, l + 2, l + 2)
  <2>1. w0 \in Seq(Int) /\ Len(w0) = 1 /\ w0[1] = v[1]
    <3>1. l + 2 \in 1 .. Len(s)
      BY <1>7, <1>11
    <3>2. /\ w0 \in Seq(Int) /\ Len(w0) = (l + 2) - (l + 2) + 1
          /\ \A k \in 1 .. (l + 2) - (l + 2) + 1 : w0[k] = s[l + 2 + k - 1]
      BY <1>7, <1>10, <1>11, <3>1, SubSeqProperties
    <3> HIDE DEF w0
    <3>3. (l + 2) - (l + 2) + 1 = 1 /\ l + 2 + 1 - 1 = l + 2
      BY <1>7
    <3>4. QED
      BY <1>11, <3>2, <3>3
  <2>2. v[1] \in Decimals /\ v[1] - 48 = t \div 100
    <3>1. 1 \in 1 .. Len(v)
      BY <1>4
    <3>2. v[1] \in Decimals
      BY <1>4, <3>1, ElementOfSeq
    <3>3. v[1] - 48 = t \div 100
      BY <1>1, <1>4
    <3>4. QED
      BY <3>2, <3>3
  <2> HIDE DEF w0
  <2>3. N!Digits(w0) = t \div 100
    BY <2>1, <2>2, DigitsValue
  <2>4. p + 1 = l + 2
    BY <1>7, <1>12
  <2>5. QED
    BY <2>3, <2>4 DEF w0
<1>15. N!Digits(SubSeq(s, p + 2, p + 3)) = t % 100
  <2> DEFINE w0 == SubSeq(s, l + 3, l + 4)
  <2>1. w0 \in Seq(Int) /\ Len(w0) = 2 /\ w0[1] = v[2] /\ w0[2] = v[3]
    <3>1. l + 3 \in 1 .. Len(s) /\ l + 4 \in 1 .. Len(s)
      BY <1>7, <1>11
    <3>2. /\ w0 \in Seq(Int) /\ Len(w0) = (l + 4) - (l + 3) + 1
          /\ \A k \in 1 .. (l + 4) - (l + 3) + 1 : w0[k] = s[l + 3 + k - 1]
      <4> DEFINE n1 == l + 3
                 n2 == l + 4
      <4>1. n1 \in Int /\ n2 \in Int /\ n1 <= n2 /\ \A j \in n1 .. n2 : j \in 1 .. Len(s)
        BY <1>7, <3>1
      <4>2. \A j \in 1 .. Len(s) : s[j] \in Int
        BY <1>10, <1>11, ElementOfSeq
      <4> HIDE DEF n1, n2, s
      <4>3. /\ SubSeq(s, n1, n2) \in Seq(Int) /\ Len(SubSeq(s, n1, n2)) = n2 - n1 + 1
            /\ \A k \in 1 .. n2 - n1 + 1 : SubSeq(s, n1, n2)[k] = s[n1 + k - 1]
        BY <4>1, <4>2, SubSeqProperties
      <4>4. QED
        BY <4>3 DEF n1, n2
    <3> HIDE DEF w0
    <3>3. (l + 4) - (l + 3) + 1 = 2 /\ l + 3 + 1 - 1 = l + 3 /\ l + 3 + 2 - 1 = l + 4
      BY <1>7
    <3>4. QED
      BY <1>11, <3>2, <3>3
  <2>2. v[2] \in Decimals /\ v[3] \in Decimals
    <3>1. 2 \in 1 .. Len(v) /\ 3 \in 1 .. Len(v)
      BY <1>4
    <3>2. QED
      BY <1>4, <3>1, ElementOfSeq
  <2> HIDE DEF w0
  <2>3. N!Digits(w0) = 10 * (v[2] - 48) + (v[3] - 48)
    BY <2>1, <2>2, DigitsValue
  <2>4. v[2] - 48 = (t \div 10) % 10 /\ v[3] - 48 = t % 10
    BY <1>1, <1>4
  <2>5. 10 * ((t \div 10) % 10) + (t % 10) = t % 100
    BY <1>1
  <2>6. p + 2 = l + 3 /\ p + 3 = l + 4
    BY <1>7, <1>12
  <2>7. QED
    BY <2>3, <2>4, <2>5, <2>6 DEF w0
<1>16. Len(s) = p + 3
  BY <1>7, <1>11, <1>12
<1>17. p = 1 <=> y = 0
  <2>1. y = 0 => l = 0
    BY <1>5 DEF l
  <2>2. y > 0 => l # 0
    BY <1>5, EmptySeq DEF l
  <2>3. QED
    BY <1>1, <1>7, <1>12, <2>1, <2>2
<1>18. Pointed(s, p, y, t)
  BY <1>13, <1>14, <1>15, <1>16, <1>17, Zenon DEF Pointed
<1>19. QED
  BY <1>18, Zenon DEF p, s, PointText, PointOf

\* In s the whole part of x / u is before the point, at p; t thousandths are behind it,
\* and the rest is less than another.
CutOff(s, p, t, x, u) ==
  /\ N!AtoL[SubSeq(s, 1, p - 1)] = x \div u
  /\ Len(s) = p + 3
  /\ t * u <= 1000 * (x % u) /\ 1000 * (x % u) < (t + 1) * u
  /\ p = 1 <=> x < u

\* What ftoa writes of a float that is not negative.
LEMMA FloatIs ==
  ASSUME NEW x \in N!Word, NEW u0 \in Units
  PROVE  LET s == N!FtoA(x, u0)
             p == CHOOSE j \in 1..Len(s) : s[j] = N!POINT
             t == 100 * N!Digits(SubSeq(s, p + 1, p + 1)) + N!Digits(SubSeq(s, p + 2, p + 3))
         IN CutOff(s, p, t, x, u0)
<1> DEFINE y == x \div u0
           f == x % u0
           t0 == (1000 * f) \div u0
           s == N!FtoA(x, u0)
           p == CHOOSE j \in 1 .. Len(s) : s[j] = N!POINT
           t == 100 * N!Digits(SubSeq(s, p + 1, p + 1)) + N!Digits(SubSeq(s, p + 2, p + 3))
<1>1. u0 \in Nat \ {0}
  <2>1. PICK k \in 0 .. 24 : u0 = 2^k
    BY ScreenAssumption DEF N!NumbersAssumption
  <2>2. \A e \in 0 .. 24 : 2^e \in Nat \ {0}
    <3>1. \A e \in 0 .. 24 : e \in 0 .. 31
      OBVIOUS
    <3>2. QED
      BY <3>1, Doubled, Zenon
  <2>3. QED
    BY <2>1, <2>2
<1>2. x \in Nat /\ x >= 0 /\ \A z \in 0 .. x : z \in N!Word
  <2> DEFINE K == Words0
  <2>1. K \in Nat /\ N!Word = 0 .. K - 1
    BY WordIs
  <2> HIDE DEF K
  <2>2. QED
    BY <2>1
<1>3. /\ y \in Nat /\ f \in 0 .. u0 - 1 /\ x = y * u0 + f /\ y <= x
      /\ y = 0 <=> x < u0
  BY <1>1, <1>2, Division
<1> HIDE DEF y, f
<1>4. t0 \in 0 .. 999 /\ t0 * u0 <= 1000 * f /\ 1000 * f < (t0 + 1) * u0
  BY <1>1, <1>3, Thousandths
<1>5. y \in N!Word
  BY <1>2, <1>3
<1>6. s = N!Filled(y, 0) \o <<N!POINT>> \o N!Filled(t0, 3)
  <2>0. u0 \in Nat
    BY <1>1
  <2>1. N!Quot(x, u0) = y /\ N!Rem(x, u0) = f
    BY <1>2, <2>0, NatQuotIs, Zenon DEF y, f
  <2> DEFINE g == 1000 * f
  <2>2. g \in Nat
    BY <1>1, <1>3
  <2> HIDE DEF g
  <2>3. N!Quot(g, u0) = g \div u0
    BY <2>0, <2>2, NatQuotIs, Zenon
  <2>4. s = N!Filled(N!Quot(x, u0), 0) \o <<N!POINT>> \o N!Filled(N!Quot(1000 * N!Rem(x, u0), u0), 3)
    BY DEF N!FtoA
  <2>5. N!Quot(1000 * N!Rem(x, u0), u0) = t0
    BY <2>1, <2>3 DEF g
  <2>6. QED
    BY <2>1, <2>4, <2>5
<1> HIDE DEF t0, s
<1>7. Pointed(s, p, y, t0)
  <2>1. s = PointText(y, t0)
    BY <1>6 DEF PointText
  <2>2. p = PointOf(s)
    BY Zenon DEF PointOf
  <2>3. Pointed(PointText(y, t0), PointOf(PointText(y, t0)), y, t0)
    BY <1>4, <1>5, PointedIs
  <2>4. QED
    BY <2>1, <2>2, <2>3, Zenon
<1> HIDE DEF p
<1>8. t = t0
  BY <1>4, <1>7 DEF Pointed
<1> HIDE DEF t
<1>9. CutOff(s, p, t, x, u0)
  <2>1. t * u0 <= 1000 * f /\ 1000 * f < (t + 1) * u0
    BY <1>4, <1>8
  <2>2. QED
    BY <1>3, <1>7, <2>1, Zenon DEF Pointed, CutOff, y, f
<1>10. QED
  BY <1>9, Zenon DEF p, s, t

\* Two digits of a number below 60.
LEMMA TwoDigitsAre ==
  ASSUME NEW x \in 0 .. 59
  PROVE  /\ N!TwoDigits(x) \in Seq(Int) /\ Len(N!TwoDigits(x)) = 2
         /\ N!TwoDigits(x)[1] = 48 + (x \div 10) /\ N!TwoDigits(x)[2] = 48 + (x % 10)
<1> DEFINE f == N!Loop(x, 10)
           o == N!LtoA(x, 10)
           c1 == 48 + (x \div 10)
           c2 == 48 + (x % 10)
<1>1. Aligned(x, f)
  <2>1. x \in 0 .. 999
    OBVIOUS
  <2>2. QED
    BY <2>1, SmallDigits
<1>2. o = IF x = 0 THEN <<48>> ELSE f
  BY DEF N!LtoA, N!ZERO
<1> HIDE DEF f, o
<1>3. f \in Seq(Int)
  <2>1. f \in Seq(Decimals)
    BY <1>1 DEF Aligned
  <2>2. QED
    BY <2>1, CharsAreInt
<1>4. CASE x < 10
  <2>1. o \in Seq(Int) /\ Len(o) = 1 /\ o[1] = c2
    <3>1. CASE x = 0
      <4>1. o = <<48>> /\ c2 = 48
        BY <1>2, <3>1
      <4> HIDE DEF c2
      <4>2. QED
        BY <4>1
    <3>2. CASE x # 0
      <4>1. o = f /\ Len(f) = 1 /\ f[Len(f)] = c2
        BY <1>1, <1>2, <1>4, <3>2 DEF Aligned
      <4> HIDE DEF c2
      <4>2. QED
        BY <1>3, <4>1
    <3>3. QED
      BY <3>1, <3>2
  <2>2. N!TwoDigits(x) = <<48>> \o o
    BY <1>4 DEF N!TwoDigits, N!ZERO, o
  <2>3. 48 \in Int /\ c1 = 48
    BY <1>4
  <2> HIDE DEF c1, c2
  <2>4. /\ <<48>> \o o \in Seq(Int) /\ (<<48>> \o o)[1] = 48 /\ Len(<<48>> \o o) = Len(o) + 1
        /\ \A k \in 1 .. Len(o) : (<<48>> \o o)[k + 1] = o[k]
    <3> DEFINE z == 48
    <3>1. z \in Int /\ o \in Seq(Int)
      BY <2>1, <2>3
    <3> HIDE DEF z
    <3>2. /\ <<z>> \o o \in Seq(Int) /\ (<<z>> \o o)[1] = z /\ Len(<<z>> \o o) = Len(o) + 1
          /\ \A k \in 1 .. Len(o) : (<<z>> \o o)[k + 1] = o[k]
      BY <3>1, ConsIs
    <3>3. QED
      BY <3>2 DEF z
  <2> DEFINE p == <<48>> \o o
  <2>5. /\ p \in Seq(Int) /\ p[1] = 48 /\ Len(p) = Len(o) + 1
        /\ \A k \in 1 .. Len(o) : p[k + 1] = o[k]
    BY <2>4
  <2> HIDE DEF p
  <2>6. p[1 + 1] = o[1] /\ Len(p) = 2
    BY <2>1, <2>5
  <2>7. N!TwoDigits(x) = p
    BY <2>2 DEF p
  <2>8. /\ N!TwoDigits(x) \in Seq(Int) /\ Len(N!TwoDigits(x)) = 2
        /\ N!TwoDigits(x)[1] = c1 /\ N!TwoDigits(x)[2] = c2
    BY <2>1, <2>3, <2>5, <2>6, <2>7
  <2>9. QED
    BY <2>8 DEF c1, c2
<1>5. CASE x >= 10
  <2>1. N!TwoDigits(x) = f
    BY <1>2, <1>5 DEF N!TwoDigits, o
  <2>2. Len(f) = 2 /\ f[Len(f)] = c2 /\ f[Len(f) - 1] = 48 + ((x \div 10) % 10)
    BY <1>1, <1>5 DEF Aligned
  <2>3. (x \div 10) % 10 = x \div 10
    OBVIOUS
  <2>4. Len(f) - 1 = 1
    BY <2>2
  <2>5. QED
    BY <1>3, <2>1, <2>2, <2>3, <2>4
<1>6. QED
  BY <1>4, <1>5

\* What \o makes of two sequences of integers.
Joined(s, t, p) ==
  /\ p \in Seq(Int) /\ Len(p) = Len(s) + Len(t)
  /\ \A j \in 1 .. Len(s) : p[j] = s[j]
  /\ \A j \in 1 .. Len(t) : p[Len(s) + j] = t[j]

LEMMA IntsJoin == \A s \in Seq(Int), t \in Seq(Int) : Joined(s, t, s \o t)
BY Joins DEF Joined

\* A sequence of k elements of f.
Spelled(q, f, k) == q \in Seq(Int) /\ Len(q) = k /\ \A j \in 1 .. k : q[j] = f[j]

LEMMA SpelledMore ==
  ASSUME NEW f, NEW k \in Nat, NEW q, Spelled(q, f, k),
         NEW o \in Seq(Int), NEW l \in Nat, Len(o) = l, \A j \in 1 .. l : o[j] = f[k + j]
  PROVE  Spelled(q \o o, f, k + l)
<1> DEFINE p == q \o o
<1>1. q \in Seq(Int) /\ Len(q) = k /\ \A j \in 1 .. k : q[j] = f[j]
  BY DEF Spelled
<1>2. /\ p \in Seq(Int) /\ Len(p) = k + l
      /\ \A j \in 1 .. k : p[j] = q[j]
      /\ \A j \in 1 .. l : p[k + j] = o[j]
  <2>1. q \in Seq(Int) /\ o \in Seq(Int)
    BY <1>1
  <2>2. Joined(q, o, p)
    BY <2>1, IntsJoin, Zenon
  <2> HIDE DEF p
  <2>3. /\ p \in Seq(Int) /\ Len(p) = Len(q) + Len(o)
        /\ \A j \in 1 .. Len(q) : p[j] = q[j]
        /\ \A j \in 1 .. Len(o) : p[Len(q) + j] = o[j]
    BY <2>2 DEF Joined
  <2>4. QED
    BY <1>1, <2>3
<1> HIDE DEF p
<1>3. ASSUME NEW j \in 1 .. k + l PROVE p[j] = f[j]
  <2>1. CASE j \in 1 .. k
    BY <1>1, <1>2, <2>1
  <2>2. CASE j \notin 1 .. k
    <3>1. j - k \in 1 .. l /\ k + (j - k) = j
      BY <2>2
    <3>2. p[k + (j - k)] = o[j - k] /\ o[j - k] = f[k + (j - k)]
      BY <1>2, <3>1
    <3>3. QED
      BY <3>1, <3>2
  <2>3. QED
    BY <2>1, <2>2
<1>4. QED
  BY <1>2, <1>3 DEF Spelled, p

\* The characters of a time of day.
ClockFace(h0, m0, s0) ==
  <<48 + (N!Hour12(h0) \div 10), 48 + (N!Hour12(h0) % 10), 58,
    48 + (m0 \div 10), 48 + (m0 % 10), 58, 48 + (s0 \div 10), 48 + (s0 % 10), 32,
    IF h0 >= 12 THEN 80 ELSE 65, 77>>

LEMMA TimeIs ==
  ASSUME NEW h0 \in 0 .. 23, NEW m0 \in 0 .. 59, NEW s0 \in 0 .. 59
  PROVE  Spelled(N!TimeStr(h0, m0, s0), ClockFace(h0, m0, s0), 11)
<1> DEFINE x == N!Hour12(h0)
           f == ClockFace(h0, m0, s0)
           hh == N!TwoDigits(x)
           mm == N!TwoDigits(m0)
           ss == N!TwoDigits(s0)
           ap == N!Half(h0)
           co == <<N!COLON>>
           sp == <<N!SPACE>>
<1>1. x \in 0 .. 59
  BY DEF N!Hour12
<1>2. /\ f[1] = 48 + (x \div 10) /\ f[2] = 48 + (x % 10) /\ f[3] = 58
      /\ f[4] = 48 + (m0 \div 10) /\ f[5] = 48 + (m0 % 10) /\ f[6] = 58
      /\ f[7] = 48 + (s0 \div 10) /\ f[8] = 48 + (s0 % 10) /\ f[9] = 32
      /\ f[10] = (IF h0 >= 12 THEN 80 ELSE 65) /\ f[11] = 77
  BY DEF ClockFace
<1> HIDE DEF x, f
<1>3. /\ hh \in Seq(Int) /\ Len(hh) = 2 /\ hh[1] = f[1] /\ hh[2] = f[2]
      /\ mm \in Seq(Int) /\ Len(mm) = 2 /\ mm[1] = f[4] /\ mm[2] = f[5]
      /\ ss \in Seq(Int) /\ Len(ss) = 2 /\ ss[1] = f[7] /\ ss[2] = f[8]
  BY <1>1, <1>2, TwoDigitsAre
<1>4. /\ co \in Seq(Int) /\ Len(co) = 1 /\ co[1] = 58
      /\ sp \in Seq(Int) /\ Len(sp) = 1 /\ sp[1] = 32
  BY DEF N!COLON, N!SPACE
<1>5. ap \in Seq(Int) /\ Len(ap) = 2 /\ ap[1] = f[10] /\ ap[2] = f[11]
  <2>1. CASE h0 >= 12
    <3>1. ap = <<80, 77>>
      BY <2>1 DEF N!Half
    <3> HIDE DEF ap
    <3>2. QED
      BY <1>2, <2>1, <3>1
  <2>2. CASE ~(h0 >= 12)
    <3>1. ap = <<65, 77>>
      BY <2>2 DEF N!Half
    <3> HIDE DEF ap
    <3>2. QED
      BY <1>2, <2>2, <3>1
  <2>3. QED
    BY <2>1, <2>2
<1>6. N!TimeStr(h0, m0, s0) = hh \o co \o mm \o co \o ss \o sp \o ap
  BY DEF N!TimeStr, x
<1> HIDE DEF hh, mm, ss, ap, co, sp
<1> DEFINE q1 == hh \o co
           q2 == q1 \o mm
           q3 == q2 \o co
           q4 == q3 \o ss
           q5 == q4 \o sp
           q6 == q5 \o ap
<1>7. Spelled(hh, f, 2)
  BY <1>3 DEF Spelled
<1>8. Spelled(q1, f, 3)
  <2>1. \A j \in 1 .. 1 : co[j] = f[2 + j]
    BY <1>2, <1>4
  <2>2. Spelled(q1, f, 2 + 1)
    BY <1>4, <1>7, <2>1, SpelledMore
  <2>3. QED
    BY <2>2
<1> HIDE DEF q1
<1>9. Spelled(q2, f, 5)
  <2>1. \A j \in 1 .. 2 : mm[j] = f[3 + j]
    BY <1>3
  <2>2. Spelled(q2, f, 3 + 2)
    BY <1>3, <1>8, <2>1, SpelledMore
  <2>3. QED
    BY <2>2
<1> HIDE DEF q2
<1>10. Spelled(q3, f, 6)
  <2>1. \A j \in 1 .. 1 : co[j] = f[5 + j]
    BY <1>2, <1>4
  <2>2. Spelled(q3, f, 5 + 1)
    BY <1>4, <1>9, <2>1, SpelledMore
  <2>3. QED
    BY <2>2
<1> HIDE DEF q3
<1>11. Spelled(q4, f, 8)
  <2>1. \A j \in 1 .. 2 : ss[j] = f[6 + j]
    BY <1>3
  <2>2. Spelled(q4, f, 6 + 2)
    BY <1>3, <1>10, <2>1, SpelledMore
  <2>3. QED
    BY <2>2
<1> HIDE DEF q4
<1>12. Spelled(q5, f, 9)
  <2>1. \A j \in 1 .. 1 : sp[j] = f[8 + j]
    BY <1>2, <1>4
  <2>2. Spelled(q5, f, 8 + 1)
    BY <1>4, <1>11, <2>1, SpelledMore
  <2>3. QED
    BY <2>2
<1> HIDE DEF q5
<1>13. Spelled(q6, f, 11)
  <2>1. \A j \in 1 .. 2 : ap[j] = f[9 + j]
    BY <1>5
  <2>2. Spelled(q6, f, 9 + 2)
    BY <1>5, <1>12, <2>1, SpelledMore
  <2>3. QED
    BY <2>2
<1>14. N!TimeStr(h0, m0, s0) = q6
  BY <1>6 DEF q1, q2, q3, q4, q5
<1> HIDE DEF q6
<1>15. QED
  BY <1>13, <1>14 DEF f

LEMMA TensAre ==
  ASSUME NEW x \in 0 .. 59
  PROVE  x \div 10 \in 0 .. 9 /\ x % 10 \in 0 .. 9 /\ 10 * (x \div 10) + (x % 10) = x
  OBVIOUS

\* Two digits are read as the number that they are.
LEMMA PartIs ==
  ASSUME NEW t \in Seq(Int), NEW k \in Nat \ {0}, k + 1 <= Len(t), NEW x \in 0 .. 59,
         t[k] = 48 + (x \div 10), t[k + 1] = 48 + (x % 10)
  PROVE  N!Digits(SubSeq(t, k, k + 1)) = x
<1> DEFINE w0 == SubSeq(t, k, k + 1)
           k1 == k + 1
<1>0. x \div 10 \in 0 .. 9 /\ x % 10 \in 0 .. 9 /\ 10 * (x \div 10) + (x % 10) = x
  BY TensAre
<1>1. k \in Int /\ k1 \in Int /\ k <= k1 /\ \A j \in k .. k1 : j \in 1 .. Len(t)
  OBVIOUS
<1>2. \A j \in 1 .. Len(t) : t[j] \in Int
  BY ElementOfSeq
<1> HIDE DEF k1
<1>3. /\ SubSeq(t, k, k1) \in Seq(Int) /\ Len(SubSeq(t, k, k1)) = k1 - k + 1
      /\ \A j \in 1 .. k1 - k + 1 : SubSeq(t, k, k1)[j] = t[k + j - 1]
  BY <1>1, <1>2, SubSeqProperties
<1> HIDE DEF w0
<1>4. w0 \in Seq(Int) /\ Len(w0) = 2 /\ w0[1] = t[k] /\ w0[2] = t[k + 1]
  <2>1. k1 - k + 1 = 2 /\ k + 1 - 1 = k /\ k + 2 - 1 = k + 1
    BY DEF k1
  <2>2. SubSeq(t, k, k1) = w0
    BY DEF w0, k1
  <2>3. QED
    BY <1>3, <2>1, <2>2
<1>5. w0[1] \in Decimals /\ w0[2] \in Decimals
  <2>1. x \div 10 \in 0 .. 9 /\ x % 10 \in 0 .. 9
    BY <1>0
  <2>2. QED
    BY <1>4, <2>1 DEF Decimals
<1>6. N!Digits(w0) = 10 * (w0[1] - 48) + (w0[2] - 48)
  BY <1>4, <1>5, DigitsValue
<1>7. 10 * (x \div 10) + (x % 10) = x
  BY <1>0
<1>8. w0[1] - 48 = x \div 10 /\ w0[2] - 48 = x % 10
  BY <1>4
<1>9. QED
  BY <1>6, <1>7, <1>8 DEF w0

LEMMA TimeIsRead ==
  ASSUME NEW h0 \in 0 .. 23, NEW m0 \in 0 .. 59, NEW s0 \in 0 .. 59
  PROVE  LET t == N!TimeStr(h0, m0, s0)
         IN /\ Len(t) = 11
            /\ h0 = (N!Digits(SubSeq(t, 1, 1 + 1)) % 12) + IF t[10] = 80 THEN 12 ELSE 0
            /\ N!Digits(SubSeq(t, 4, 4 + 1)) = m0 /\ N!Digits(SubSeq(t, 7, 7 + 1)) = s0
<1> DEFINE t == N!TimeStr(h0, m0, s0)
           f == ClockFace(h0, m0, s0)
           x == N!Hour12(h0)
<1>1. t \in Seq(Int) /\ Len(t) = 11 /\ \A j \in 1 .. 11 : t[j] = f[j]
  <2>1. Spelled(t, f, 11)
    BY TimeIs
  <2> HIDE DEF t, f
  <2>2. QED
    BY <2>1 DEF Spelled
<1>2. /\ f[1] = 48 + (x \div 10) /\ f[1 + 1] = 48 + (x % 10)
      /\ f[4] = 48 + (m0 \div 10) /\ f[4 + 1] = 48 + (m0 % 10)
      /\ f[7] = 48 + (s0 \div 10) /\ f[7 + 1] = 48 + (s0 % 10)
      /\ f[10] = (IF h0 >= 12 THEN 80 ELSE 65)
  BY DEF ClockFace
<1>3. x \in 0 .. 59 /\ h0 = (x % 12) + IF h0 >= 12 THEN 12 ELSE 0
  BY DEF N!Hour12
<1> HIDE DEF t, f, x
<1>4. /\ t[1] = 48 + (x \div 10) /\ t[1 + 1] = 48 + (x % 10)
      /\ t[4] = 48 + (m0 \div 10) /\ t[4 + 1] = 48 + (m0 % 10)
      /\ t[7] = 48 + (s0 \div 10) /\ t[7 + 1] = 48 + (s0 % 10)
      /\ t[10] = (IF h0 >= 12 THEN 80 ELSE 65)
  <2>1. /\ 1 \in 1 .. 11 /\ 1 + 1 \in 1 .. 11 /\ 4 \in 1 .. 11 /\ 4 + 1 \in 1 .. 11
        /\ 7 \in 1 .. 11 /\ 7 + 1 \in 1 .. 11 /\ 10 \in 1 .. 11
    OBVIOUS
  <2>2. /\ t[1] = f[1] /\ t[1 + 1] = f[1 + 1] /\ t[4] = f[4] /\ t[4 + 1] = f[4 + 1]
        /\ t[7] = f[7] /\ t[7 + 1] = f[7 + 1] /\ t[10] = f[10]
    BY <1>1, <2>1, Zenon
  <2>3. QED
    BY <1>2, <2>2, Zenon
<1> DEFINE Holds(k, z) == t[k] = 48 + (z \div 10) /\ t[k + 1] = 48 + (z % 10)
<1>10. ASSUME NEW k \in {1, 4, 7}, NEW z \in 0 .. 59, Holds(k, z)
       PROVE  N!Digits(SubSeq(t, k, k + 1)) = z
  <2>1. k \in Nat \ {0} /\ k + 1 <= Len(t)
    <3>1. k \in Nat \ {0} /\ k + 1 <= 11
      OBVIOUS
    <3>2. Len(t) = 11
      BY <1>1
    <3>3. QED
      BY <3>1, <3>2, Zenon
  <2>2. t \in Seq(Int) /\ t[k] = 48 + (z \div 10) /\ t[k + 1] = 48 + (z % 10)
    BY <1>1, <1>10
  <2>3. QED
    BY <2>1, <2>2, PartIs
<1>5. N!Digits(SubSeq(t, 1, 1 + 1)) = x
  BY <1>3, <1>4, <1>10
<1>6. N!Digits(SubSeq(t, 4, 4 + 1)) = m0
  BY <1>4, <1>10
<1>7. N!Digits(SubSeq(t, 7, 7 + 1)) = s0
  BY <1>4, <1>10
<1>8. h0 >= 12 <=> t[10] = 80
  BY <1>4
<1>9. QED
  BY <1>1, <1>3, <1>5, <1>6, <1>7, <1>8 DEF t

-----------

LEMMA NumbersPromise == n \in N!Word => N!NumbersRight
<1> SUFFICES ASSUME n \in N!Word PROVE N!NumbersRight
  OBVIOUS
<1>1. N!TypeOK
  <2>1. ASSUME NEW b \in {2, 10, 16}
        PROVE  N!LtoA(n, b) \in Seq(48..57 \cup 65..70) /\ Len(N!LtoA(n, b)) <= WordBits
    <3>1. b \in Bases
      BY DEF Bases
    <3>2. QED
      BY <3>1, LtoAIs DEF Hexes
  <2>2. QED
    BY <2>1 DEF N!TypeOK
<1>2. N!DecimalReadsBack
  BY DecimalIs DEF N!DecimalReadsBack, Half
<1>3. N!HexReadsBack
  BY HexIs DEF N!HexReadsBack
<1>4. N!FloatCutOff
  BY FloatIs DEF N!FloatCutOff, CutOff
<1>5. N!AlignIsLeast
  BY AlignIs DEF N!AlignIsLeast
<1>6. N!TimeReadsBack
  <2> DEFINE h0 == n % 24
             m0 == (n \div 24) % 60
             s0 == n \div 1440
  <2>1. h0 \in 0 .. 23 /\ m0 \in 0 .. 59 /\ s0 \in Nat
    <3>1. n \in Nat
      <4> DEFINE K == Words0
      <4>1. N!Word = 0 .. K - 1 /\ K \in Nat
        BY WordIs
      <4> HIDE DEF K
      <4>2. QED
        BY <4>1
    <3>2. QED
      BY <3>1
  <2> DEFINE t == N!TimeStr(h0, m0, s0)
             Goal == /\ Len(t) = 11
                     /\ h0 = (N!Digits(SubSeq(t, 1, 1 + 1)) % 12) + IF t[10] = 80 THEN 12 ELSE 0
                     /\ N!Digits(SubSeq(t, 4, 4 + 1)) = m0 /\ N!Digits(SubSeq(t, 7, 7 + 1)) = s0
  <2>2. N!TimeReadsBack <=> (s0 < 60 => Goal)
    BY DEF N!TimeReadsBack
  <2>3. s0 < 60 => Goal
    <3> HIDE DEF h0, m0, s0
    <3>1. s0 < 60 => s0 \in 0 .. 59
      BY <2>1
    <3>2. QED
      BY <2>1, <3>1, TimeIsRead
  <2>4. QED
    BY <2>2, <2>3
<1>7. QED
  BY <1>1, <1>2, <1>3, <1>4, <1>5, <1>6 DEF N!NumbersRight

LEMMA NumbersStep ==
  /\ N!Init => n \in N!Word
  /\ n \in N!Word /\ [N!Next]_n => (n \in N!Word)'
<1> DEFINE K == Words0
<1>1. K \in Nat \ {0} /\ N!Word = 0 .. K - 1 /\ 2^WordBits = K
  BY WordIs DEF Words0
<1> HIDE DEF K
<1>2. N!Init => n \in N!Word
  BY <1>1 DEF N!Init
<1>3. n \in N!Word /\ [N!Next]_n => n' \in N!Word
  BY <1>1 DEF N!Next
<1>4. (n \in N!Word)' <=> n' \in N!Word
  BY DEF N!Word
<1>5. QED
  BY <1>2, <1>3, <1>4

LEMMA NumbersAlone == AllSpec => N!Spec
<1>1. AllInit => N!Init
  BY DEF AllInit
<1>2. [AllNext]_all => [N!Next]_n
  BY DEF AllNext, all, OnlyConsole, OnlyDisplay, OnlyStrings, OnlyNumbers, OnlyClock
<1>3. QED
  BY <1>1, <1>2, PTL DEF AllSpec, N!Spec

\* A text that was built is read as it was built, compares as it should, and its pieces
\* and their number are right (string.c); what is printed of a number is read back as
\* that number, of a float that is not negative it is cut off behind the third decimal,
\* addresses are rounded up to the next multiple, and a time of day is read back
\* (stdlib.c, string.c, time.c).
THEOREM TextsReadBack == AllSpec => []TextsRight
<1>1. AllSpec => []StringsIInv
  BY StringsAlone, StringsInit, StringsKept, PTL DEF S!Spec
<1>2. AllSpec => [](n \in N!Word)
  BY NumbersAlone, NumbersStep, PTL DEF N!Spec
<1>3. StringsIInv /\ n \in N!Word => TextsRight
  BY StringsPromise, NumbersPromise DEF TextsRight
<1>4. QED
  BY <1>1, <1>2, <1>3, PTL

=============================================================================
