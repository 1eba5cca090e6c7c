------------------------------ MODULE MCScreen ------------------------------
\* A console of two columns and three rows, with texts whose escape sequences have three
\* digits, two, one, and no m; a display of five by four pixels, with glyphs of two by
\* two, and rectangles and strings that reach beyond each edge; a buffer of five bytes,
\* where 32 is the space, 65 and 97 are 'A' and 'a'; all words of sixteen bits, and floats
\* with up to sixteen of them behind the point; a clock with eleven seconds, so that BCD
\* matters, and two months.
EXTENDS Screen

MCMessages ==
  {<<"a", ESC, LB, "a", NL>>, <<ESC, LB, "1", "0", "7", M, "a">>,
   <<ESC, LB, "3", "1", M, ESC, LB, "0", M>>, <<TAB, CR>>}

MCGlyph == [c \in {65, 66} |-> IF c = 65 THEN {<<0, 0>>, <<1, 1>>} ELSE {<<1, 0>>}]
MCWild == {{}, {<<0, 1>>, <<1, 0>>}}
MCPlaces == -1..4
MCSizes == -2..5

MCWords == {<<97, 98>>, <<65, 32, 97>>, <<97, 65, 98, 32, 97>>, <<97, 97, 97, 97, 97, 97>>}

MCSize == <<11, 1, 1, 1, 2, 1>>
=============================================================================
