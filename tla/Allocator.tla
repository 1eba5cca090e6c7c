----------------------------- MODULE Allocator -----------------------------
(***************************************************************************)
(* What the heap of the kernel promises to the threads that use it,        *)
(* without blocks, slots, searches or a collector.  A thread is given a    *)
(* range of the heap that nobody else holds; the range stays its own until *)
(* it gives it back or is gone.  The system may stop on a request; it      *)
(* never stops on a range that is given back.  A heap that is damaged      *)
(* promises nothing any more.  Heap implements this.                       *)
(***************************************************************************)
EXTENDS Integers

CONSTANTS
  Base, Size,   \* the memory there is to give
  Threads,      \* every thread that can exist
  Boot          \* the thread that is there from the start and never leaves

VARIABLES
  held,         \* the ranges that were given and not given back
  members,      \* the threads that are there
  status        \* "up", "stopped" or "damaged"

aVars == <<held, members, status>>

Init == held = {} /\ members = {Boot} /\ status = "up"

Clear(p, sz, l) == p + sz <= l.ptr \/ l.ptr + l.sz <= p

Give(t, p, sz) ==
  /\ status = "up" /\ t \in members
  /\ sz > 0 /\ p >= Base /\ p + sz <= Base + Size
  /\ \A l \in held : Clear(p, sz, l)
  /\ held' = held \cup {[ptr |-> p, sz |-> sz, owner |-> t]}
  /\ UNCHANGED <<members, status>>

GiveBack(l) ==
  /\ status = "up" /\ l \in held
  /\ held' = held \ {l}
  /\ UNCHANGED <<members, status>>

Enter(t) ==
  /\ status = "up" /\ t \notin members
  /\ members' = members \cup {t}
  /\ UNCHANGED <<held, status>>

Leave(t) ==
  /\ status = "up" /\ t \in members \ {Boot}
  /\ members' = members \ {t}
  /\ held' = {l \in held : l.owner # t}
  /\ UNCHANGED status

Stop ==
  /\ status = "up" /\ status' = "stopped"
  /\ UNCHANGED <<held, members>>

\* Who is there and what is held do not change by the damage itself, but for a
\* range that is given in the same moment.
Spoil ==
  /\ status = "up" /\ status' = "damaged"
  /\ held \subseteq held' /\ UNCHANGED members

AnythingGoes == status = "damaged" /\ status' = "damaged"

Next ==
  \/ \E t \in Threads : \/ \E p \in Base .. Base + Size, sz \in 1 .. Size : Give(t, p, sz)
                        \/ Enter(t) \/ Leave(t)
  \/ \E l \in held : GiveBack(l)
  \/ Stop \/ Spoil \/ AnythingGoes

Spec == Init /\ [][Next]_aVars
=============================================================================
