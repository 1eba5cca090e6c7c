------------------------------ MODULE Strings ------------------------------
(***************************************************************************)
(* The string functions of NapalmOS (lib/string.c, lib/ctype.c) on a buffer *)
(* that was cleared once, and the buffer into which the command host copies *)
(* a command's name (core/cmdhost.c). strcpy and strcat write no            *)
(* terminator: that a text ends where it should is left to the zeros that   *)
(* are already there.                                                       *)
(*                                                                          *)
(* A character is its code, a source is the sequence before its terminator. *)
(***************************************************************************)
EXTENDS Integers, Sequences, FiniteSets

CONSTANTS
  N,      \* bytes of the buffer: 128 for cmd, 64 KB for the shell's line
  Chars,  \* codes of characters
  Words,  \* the sources
  DELIM   \* where strsplit cuts

(* lib/ctype.c *)
IsUpper(c) == c \in 65..90
IsLower(c) == c \in 97..122
ToLower(c) == IF IsUpper(c) THEN c + 32 ELSE c
ToUpper(c) == IF IsLower(c) THEN c - 32 ELSE c

StringsAssumption ==
  /\ N \in Nat \ {0, 1}
  /\ Chars \subseteq 1..127 /\ DELIM \in Chars
  /\ \A c \in Chars : ToLower(c) \in Chars /\ ToUpper(c) \in Chars
  /\ Words \subseteq Seq(Chars)

VARIABLES
  buf,    \* the bytes
  copied  \* history: how long the name was that was copied last, since the buffer was cleared

vars == <<buf, copied>>

Bytes == 0 .. N - 1
Zeros == [j \in Bytes |-> 0]

TypeOK == buf \in [Bytes -> Chars \cup {0}] /\ copied \in Nat

-----------------------------------------------------------------------------
(* The functions. *)

StrLen(b) == CHOOSE k \in 0..N : (k = N \/ b[k] = 0) /\ \A j \in 0 .. k - 1 : b[j] # 0
StrOf(b) == [j \in 1..StrLen(b) |-> b[j - 1]]

\* The bytes of s stored from k on; memcpy.
Stored(b, k, s) == [j \in Bytes |-> IF j >= k /\ j < k + Len(s) THEN s[j - k + 1] ELSE b[j]]

StrAdd(b, c) == Stored(b, StrLen(b), <<c, 0>>)

\* strcat and, of the first n characters, strncat: the terminator is put where
\* one is found.
StrCat_From(b, s) == Stored(b, StrLen(b) + 1, s)
StrCat(b, s) ==
  LET d == Stored(b, StrLen(b), s) IN [d EXCEPT ![StrLen(d)] = 0]

\* strcpy and, of the first n characters, strncpy.
StrCpy(b, s) == Stored(b, 0, s)

StrBack_Second(b) == [b EXCEPT ![StrLen(b) - 2] = 0]
StrBack(b) == [b EXCEPT ![StrLen(b) - 1] = 0]

StrRev(b) ==
  LET n == StrLen(b) IN [j \in Bytes |-> IF j < n THEN b[n - 1 - j] ELSE b[j]]

StrLower(b) == [j \in Bytes |-> IF j < StrLen(b) THEN ToLower(b[j]) ELSE b[j]]
StrUpper(b) == [j \in Bytes |-> IF j < StrLen(b) THEN ToUpper(b[j]) ELSE b[j]]

\* strcmp stops at the first difference, or where the first text ends.
At(s, k) == IF k <= Len(s) THEN s[k] ELSE 0
StrCmp(s, t) ==
  LET k == CHOOSE k \in 1 .. Len(s) + 1 :
             /\ k > Len(s) \/ s[k] # At(t, k)
             /\ \A j \in 1 .. k - 1 : s[j] = At(t, j)
  IN At(s, k) - At(t, k)

\* strsplit: the slots it allocates, and the pieces it stores in them.
Slots(s) == Cardinality({j \in 1 .. Len(s) - 1 : s[j] = DELIM}) + 1
EndOf(s, start) ==
  CHOOSE e \in start .. Len(s) + 1 : /\ e > Len(s) \/ s[e] = DELIM
                                     /\ \A j \in start .. e - 1 : s[j] # DELIM
StrSplit(s) ==
  LET from[start \in Nat \ {0}] ==
        IF start > Len(s) THEN <<>>
        ELSE <<SubSeq(s, start, EndOf(s, start) - 1)>> \o from[EndOf(s, start) + 1]
  IN from[1]

-----------------------------------------------------------------------------
(* Callers leave room for what they add; the one that does not, the keyboard *)
(* driver, has a buffer that no one fills by hand.                           *)

Room(n) == StrLen(buf) + n < N

Init ==
  /\ buf = Zeros
  /\ copied = 0

Clear ==
  /\ buf' = Zeros
  /\ copied' = 0

Add(c) ==
  /\ Room(1)
  /\ buf' = StrAdd(buf, c)
  /\ UNCHANGED copied

Cat(s) ==
  /\ Room(Len(s))
  /\ buf' = StrCat(buf, s)
  /\ UNCHANGED copied

Cpy(s) ==
  /\ Len(s) < N
  /\ buf' = StrCpy(buf, s)
  /\ UNCHANGED copied

Back ==
  /\ StrLen(buf) > 0
  /\ buf' = StrBack(buf)
  /\ UNCHANGED copied

Recode ==
  /\ buf' \in {StrRev(buf), StrLower(buf), StrUpper(buf)}
  /\ UNCHANGED copied

\* cmdhost_execute copies the first word of a line, unless it is too long, and
\* makes it lower case.
CopyName(w) ==
  /\ Len(w) <= N
  /\ buf' = StrLower(StrCpy(Zeros, w))
  /\ copied' = Len(w)

Next ==
  \/ Clear \/ Back \/ Recode
  \/ \E c \in Chars : Add(c)
  \/ \E w \in Words : \E n \in 0..Len(w) : Cat(SubSeq(w, 1, n)) \/ Cpy(SubSeq(w, 1, n))
  \/ \E w \in Words : CopyName(w)

Spec == Init /\ [][Next]_vars

-----------------------------------------------------------------------------
(* Properties. *)

\* Behind a text there are zeros only: the next strcat finds its terminator.
ZerosBehind == \A j \in Bytes : j > StrLen(buf) => buf[j] = 0

\* The buffer has a terminator, unless a name was copied that fills it exactly:
\* cmdhost.c:64 lets a word of 128 characters into cmd[128].
Terminated == StrLen(buf) = N => copied = N

\* strsplit loses and invents nothing: its pieces, joined again, are the line, or
\* the line without a delimiter at its end; and they fit into the slots exactly.
Joined[p \in Seq(Seq(Chars))] ==
  IF p = <<>> THEN <<>> ELSE p[1] \o <<DELIM>> \o Joined[Tail(p)]
SplitIsLine ==
  LET s == StrOf(buf)
      p == StrSplit(s)
  IN s # <<>> => /\ Joined[p] \in {s, Append(s, DELIM)}
                 /\ \A k \in 1..Len(p) : \A j \in 1..Len(p[k]) : p[k][j] # DELIM
                 /\ Len(p) = Slots(s)

\* strcmp tells texts apart, and orders any two in opposite ways: a command or a
\* device is found by its name and by no other's.
CompareTells ==
  LET s == StrOf(buf) IN
  \A w \in Words : /\ StrCmp(s, w) = 0 <=> s = w
                   /\ StrCmp(s, w) = -StrCmp(w, s)

\* What is known of the buffer and of the functions on it, in every state.
TextsRight == TypeOK /\ ZerosBehind /\ Terminated /\ SplitIsLine /\ CompareTells
=============================================================================
