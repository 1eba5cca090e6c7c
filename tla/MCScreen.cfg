CONSTANTS
  W = 2
  H = 3
  Glyphs = {"a", "k"}
  Typed = {"k"}
  Messages <- MCMessages
  WHITE = WHITE
  COLOUR = COLOUR
  MaxPrints = 2
  MaxKeys = 2
  Width = 5
  Height = 4
  CharW = 2
  CharH = 2
  SpaceX = 1
  SpaceY = 0
  Glyph <- MCGlyph
  High = 128
  Wild <- MCWild
  LineFeed = 10
  CLEAR = 0
  Colors = {0, 1}
  Places <- MCPlaces
  Sizes <- MCSizes
  Pens = {0, 1, 2, 3}
  Levels = {0, 63, 64, 127, 191, 255}
  MaxText = 3
  BufferSize = 5
  Chars = {32, 65, 66, 97, 98}
  Words <- MCWords
  DELIM = 32
  WordBits = 16
  Aligns = {1, 4, 4096}
  Units = {1, 8, 256, 65536}
  Size <- MCSize
SPECIFICATION AllSpec
INVARIANTS
  TerminalTrue
  DrawnRight
  TextsRight
  TimeAhead
PROPERTIES
  BufferIsText
\* All the text is printed, all the words are converted; without VBE the machine stops.
CHECK_DEADLOCK FALSE
