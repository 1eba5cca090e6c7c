-------------------------------- MODULE Text --------------------------------
(***************************************************************************)
(* What the functions of lib/string.c promise to whoever builds a text with *)
(* them: the text is a sequence of characters, and each call changes it as  *)
(* its name says. strcpy puts a text over the beginning of the old one.     *)
(***************************************************************************)
EXTENDS Naturals, Sequences

CONSTANTS
  Chars,    \* characters
  Words,    \* texts that are appended or copied
  Recodings \* ways to change each character

VARIABLE text

Over(s, t) == s \o SubSeq(t, Len(s) + 1, Len(t))
Mapped(f, t) == [j \in 1..Len(t) |-> f[t[j]]]
Backwards(t) == [j \in 1..Len(t) |-> t[Len(t) - j + 1]]
Prefixes(s) == {SubSeq(s, 1, n) : n \in 0..Len(s)}

Init == text = <<>>

Next ==
  \/ text' = <<>>
  \/ \E c \in Chars : text' = Append(text, c)
  \/ text # <<>> /\ text' = SubSeq(text, 1, Len(text) - 1)
  \/ \E w \in Words : \E s \in Prefixes(w) : text' = text \o s \/ text' = Over(s, text)
  \/ text' = Backwards(text)
  \/ \E f \in Recodings : text' = Mapped(f, text) \/ \E w \in Words : text' = Mapped(f, w)

Spec == Init /\ [][Next]_text
=============================================================================
