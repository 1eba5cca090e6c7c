------------------------------ MODULE Numbers ------------------------------
(***************************************************************************)
(* The conversions between numbers and texts (lib/stdlib.c), the rounding   *)
(* of addresses (memalign, lib/string.c) and the time of day as text        *)
(* (timestr, lib/time.c), for every number of a word.                       *)
(*                                                                          *)
(* A word has 2^W values; in the code W = 32, in the runs less, since the   *)
(* model checker's own numbers have 32 bits. A text is a sequence of codes  *)
(* of characters.                                                           *)
(***************************************************************************)
EXTENDS Integers, Sequences

CONSTANTS
  W,        \* bits of a word, a multiple of 8
  Aligns,   \* powers of two
  Units     \* the powers of two that a float is a multiple of the inverse of

NumbersAssumption ==
  /\ W \in {8, 16, 24, 32}
  /\ Aligns \subseteq {2^k : k \in 0 .. W - 1}
  /\ Units \subseteq {2^k : k \in 0..24}

VARIABLE n  \* the number that is converted

Word == 0 .. 2^W - 1
Wrap(x) == x % 2^W
Signed(x) == IF x < 2^(W - 1) THEN x ELSE x - 2^W

SPACE == 32
PLUS == 43
MINUS == 45
POINT == 46
ZERO == 48
COLON == 58
LETTER == 65

Char(d) == IF d < 10 THEN ZERO + d ELSE LETTER + d - 10

-----------------------------------------------------------------------------
(* Numbers to texts. *)

\* The digits that a loop "while (x)" gives, the first one first; C's remainder
\* has the sign of x.
Rem(x, b) == IF x < 0 THEN 0 - ((-x) % b) ELSE x % b
Quot(x, b) == IF x < 0 THEN 0 - ((-x) \div b) ELSE x \div b
Loop(x, b) ==
  LET digits[y \in Int] == IF y = 0 THEN <<>> ELSE Append(digits[Quot(y, b)], Char(Rem(y, b)))
  IN digits[x]

\* _ultoa, ltoa
LtoA(x, b) == IF x = 0 THEN <<ZERO>> ELSE Loop(x, b)

\* itoa; abs of the least number is that number.
Abs(x) == IF x < 0 /\ x > -(2^(W - 1)) THEN -x ELSE x
ItoA(x, b) ==
  (IF x < 0 /\ b = 10 THEN <<MINUS>> ELSE <<>>)
    \o (IF x = 0 THEN <<ZERO>> ELSE Loop(Abs(x), b))

\* xtoa: all digits of sz bytes
XtoA(x, sz) == [j \in 1 .. 2 * sz |-> Char((x \div 16^(2 * sz - j)) % 16)]

\* _ftoa_conv fills up to d digits. ftoa writes the float x / u with three decimals:
\* x has 24 bits, so the x87 subtracts and multiplies by 1000 exactly, and the
\* conversions to int cut off, whichever the sign.
Filled(x, d) ==
  LET s == Loop(x, 10) IN [j \in 1 .. (IF Len(s) < d THEN d - Len(s) ELSE 0) |-> ZERO] \o s
FtoA(x, u) == Filled(Quot(x, u), 0) \o <<POINT>> \o Filled(Quot(1000 * Rem(x, u), u), 3)

-----------------------------------------------------------------------------
(* Texts to numbers. *)

HexDigit(c) ==
  CASE c \in 48..57 -> c - 48 [] c \in 65..70 -> c - 55 [] c \in 97..102 -> c - 87 [] OTHER -> -1

\* The loops that read digits keep a word.
Value(s, b) ==
  LET value[k \in Nat] == IF k = 0 THEN 0 ELSE Wrap(b * value[k - 1] + HexDigit(s[k]))
  IN value[Len(s)]

\* The digits before the first other character.
Digits(s) ==
  LET last == CHOOSE k \in 0..Len(s) : /\ k < Len(s) => s[k + 1] \notin 48..57
                                       /\ \A j \in 1..k : s[j] \in 48..57
  IN Value(SubSeq(s, 1, last), 10)

\* atol: spaces, a sign, digits
AtoL[s \in Seq(Int)] ==
  CASE s = <<>> -> 0
    [] s # <<>> /\ Head(s) = SPACE -> AtoL[Tail(s)]
    [] s # <<>> /\ Head(s) = MINUS -> Wrap(-Digits(Tail(s)))
    [] s # <<>> /\ Head(s) = PLUS -> Digits(Tail(s))
    [] OTHER -> Digits(s)

\* atox: 0 if there is any other character
AtoX(s) == IF \E j \in 1..Len(s) : HexDigit(s[j]) = -1 THEN 0 ELSE Value(s, 16)

-----------------------------------------------------------------------------
(* Addresses and times. *)

MemAlign(x, a) == IF x % a = 0 THEN x ELSE Wrap(x - (x % a) + a)

\* timestr with TIMEFORMAT_STANDARD and seconds, as krnl_redraw wants it
TwoDigits(x) == IF x < 10 THEN <<ZERO>> \o LtoA(x, 10) ELSE LtoA(x, 10)
Hour12(h) == IF h > 12 THEN h - 12 ELSE IF h = 0 THEN 12 ELSE h
Half(h) == IF h >= 12 THEN <<80, 77>> ELSE <<65, 77>>
TimeStr(h, m, s) ==
  TwoDigits(Hour12(h)) \o <<COLON>> \o TwoDigits(m) \o <<COLON>> \o TwoDigits(s)
    \o <<SPACE>> \o Half(h)

-----------------------------------------------------------------------------

Init == n = 0
Next == n < 2^W - 1 /\ n' = n + 1
Spec == Init /\ [][Next]_n

-----------------------------------------------------------------------------
(* Properties. *)

TypeOK ==
  /\ n \in Word
  /\ \A b \in {2, 10, 16} : LtoA(n, b) \in Seq(48..57 \cup 65..70) /\ Len(LtoA(n, b)) <= W

\* What printf writes of an int with %d or a word with %u, atol reads back; but for
\* the least int, whose absolute value is negative and whose digits are not digits.
DecimalReadsBack ==
  /\ AtoL[LtoA(n, 10)] = n
  /\ AtoL[ItoA(Signed(n), 10)] = n <=> n # 2^(W - 1)

\* What printf writes with %x, %2x, %4x, %8x and %p, atox reads back.
HexReadsBack ==
  /\ AtoX(LtoA(n, 16)) = n
  /\ AtoX(XtoA(n, W \div 8)) = n

\* What ftoa writes of a float that is not negative is the number cut off behind the
\* third decimal: never more than it, and less than a thousandth below, as 4.349 for
\* 4.35f (stdlib.c:127). A number below 1 begins with the point.
FloatCutOff ==
  n < 2^24 => \A u \in Units :
    LET s == FtoA(n, u)
        p == CHOOSE j \in 1..Len(s) : s[j] = POINT
        t == 100 * Digits(SubSeq(s, p + 1, p + 1)) + Digits(SubSeq(s, p + 2, p + 3))
    IN /\ AtoL[SubSeq(s, 1, p - 1)] = n \div u
       /\ Len(s) = p + 3
       /\ t * u <= 1000 * (n % u) /\ 1000 * (n % u) < (t + 1) * u
       /\ p = 1 <=> n < u

\* memalign gives the least multiple that is not below its argument, or 0 when
\* that does not fit into a word.
AlignIsLeast ==
  \A a \in Aligns :
    LET r == MemAlign(n, a) IN
    /\ r % a = 0
    /\ IF n <= 2^W - a THEN r >= n /\ r < n + a ELSE r = 0

\* Hour, minute and second can be read back from the time of day: no two times look
\* the same.
TimeReadsBack ==
  LET h == n % 24
      m == (n \div 24) % 60
      s == n \div 1440
      t == TimeStr(h, m, s)
      Part(k) == Digits(SubSeq(t, k, k + 1))
  IN s < 60 => /\ Len(t) = 11
               /\ h = (Part(1) % 12) + IF t[10] = 80 THEN 12 ELSE 0
               /\ Part(4) = m /\ Part(7) = s

\* What is known of the conversions, for every number.
NumbersRight ==
  /\ TypeOK /\ DecimalReadsBack /\ HexReadsBack /\ FloatCutOff
  /\ AlignIsLeast /\ TimeReadsBack
=============================================================================
