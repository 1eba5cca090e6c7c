------------------------------ MODULE Dispatch ------------------------------
(***************************************************************************)
(* What the task manager of the kernel promises to the threads it runs,    *)
(* without lists, indices, timers or registers.  One thread has the CPU;   *)
(* the CPU changes hands only while its owner does not hold its lock, and  *)
(* only to a live thread; a killed thread is never revived and leaves the  *)
(* pool only while it is off the CPU.  TaskMgr implements this.            *)
(***************************************************************************)
CONSTANTS
  Threads,    \* every thread record that can exist
  KThread     \* the boot thread, which cannot be killed

VARIABLES
  cpu,        \* the thread whose instructions execute
  pool,       \* the threads the task manager knows
  dead,       \* the members of pool that were killed or returned
  held        \* held[t]: thread t has locked the CPU to itself

vars == <<cpu, pool, dead, held>>

Init ==
  /\ cpu  = KThread
  /\ pool = {KThread}
  /\ dead = {}
  /\ held = [t \in Threads |-> FALSE]

Admit(t) ==
  /\ t \notin pool
  /\ pool' = pool \cup {t}
  /\ UNCHANGED <<cpu, dead, held>>

Kill(t) ==
  /\ t \in pool \ {KThread}
  /\ dead' = dead \cup {t}
  /\ UNCHANGED <<cpu, pool, held>>

Reclaim(t) ==
  /\ t \in dead \ {cpu}
  /\ pool' = pool \ {t}
  /\ dead' = dead \ {t}
  /\ UNCHANGED <<cpu, held>>

\* The owner of the CPU takes or drops its lock.
Hold(b) ==
  /\ held' = [held EXCEPT ![cpu] = b]
  /\ UNCHANGED <<cpu, pool, dead>>

Switch(t) ==
  /\ ~held[cpu]
  /\ t \in pool \ dead
  /\ cpu' = t
  /\ UNCHANGED <<pool, dead, held>>

Next ==
  \/ \E t \in Threads : Admit(t) \/ Kill(t) \/ Reclaim(t) \/ Switch(t)
  \/ \E b \in BOOLEAN : Hold(b)

Spec == Init /\ [][Next]_vars
=============================================================================
