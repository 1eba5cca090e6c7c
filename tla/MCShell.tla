------------------------------- MODULE MCShell -------------------------------
\* A letter, the two modifiers that matter for letters, Enter, backspace and F12;
\* two editors; two codes on their way, so that a third is lost.
EXTENDS Shell

MCKeys == {"a", LSHIFT, CAPS, ENTER, BACKSPACE, F12}
MCConsumers == {"shell", "e1", "e2"}
=============================================================================
