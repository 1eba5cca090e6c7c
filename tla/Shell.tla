-------------------------------- MODULE Shell --------------------------------
(***************************************************************************)
(* The command host of NapalmOS and those it shares the machine with: the   *)
(* loop of kernel_main (core/kernel.c), core/cmdhost.c, the editor          *)
(* (userland/utils/txtedit.c), the collector thread as far as it uses the   *)
(* heap, and the keyboard interrupt, which comes on top of any of them.     *)
(*                                                                          *)
(* The scheduler is what TaskMgr shows of it: any thread that is started    *)
(* may be given the CPU when the one that runs does not hold its lock.      *)
(***************************************************************************)
EXTENDS Keyboard

CONSTANTS
  Editors,    \* records that cmd_txtedit may allocate
  SHELL,      \* the kernel thread, and its kbd_state_t
  GC          \* the collector's thread

Threads == {SHELL, GC} \cup Editors

ASSUME ShellAssumption ==
  /\ Consumers = {SHELL} \cup Editors
  /\ Buffered = {SHELL}
  /\ GC \notin Consumers
  /\ SHELL \notin Editors

VARIABLES
  cpu,      \* the thread that runs
  locked,   \* the threads that hold their lock
  pc,       \* per thread: where its code is
  ready,    \* the editors whose key handlers are set
  process,  \* _process
  cmd,      \* the parts of the line that is executed
  ran,      \* history: the numbers of the characters executed so far
  erased,   \* history: characters removed with backspace
  late,     \* history: characters that came while a command was running
  enters,   \* history: how often the interrupt handler saw Enter go down
  runs,     \* history: how often a line was executed
  clash,    \* history: threads inside a heap operation when the keyboard's
            \* interrupt handler began one of its own
  ticked,   \* history: the same for the timer's, which unloads dead threads
  halved    \* history: threads that were killed inside a heap operation

threadVars == <<cpu, locked, pc, ready, process, cmd>>
heapHistory == <<clash, ticked, halved>>
history == <<ran, erased, late, enters, runs, heapHistory>>
vars == <<down, queue, events, keymap, state, mods, line, seen, lost, missed,
          cpu, locked, pc, ready, process, cmd,
          ran, erased, late, enters, runs, clash, ticked, halved>>

Numbers(text) == {text[i].n : i \in 1..Len(text)}

\* Where a thread allocates or frees: the shell splits the line, runs a command
\* and frees the parts; an editor looks for its file; the collector frees.
HeapSteps == {"split", "run", "free", "exists", "collect"}
Busy == {t \in Threads : pc[t] \in HeapSteps}

\* Killed, and still on the task list; and those the scheduler may pick.
Dead == {t \in Threads : pc[t] = "dead"}
Running == {t \in Threads : pc[t] \notin {"none", "dead", "gone"}}

TypeOK ==
  /\ KeyboardTypeOK
  /\ cpu \in Threads
  /\ locked \subseteq Threads
  /\ pc \in [Threads -> HeapSteps \cup {"none", "lock", "setstate", "poll", "clear",
                                        "keyup", "unlock", "init", "loop", "idle",
                                        "dead", "gone"}]
  /\ ready \subseteq Editors
  /\ process \in BOOLEAN
  /\ cmd \in Seq(Chars)
  /\ clash \cup ticked \cup halved \subseteq Threads

\* Behind memmgr_gcinit and taskmgr_toggle(true).
Init ==
  /\ KeyboardInit
  /\ cpu = SHELL
  /\ locked = {}
  /\ pc = [t \in Threads |-> CASE t = SHELL -> "lock" [] t = GC -> "idle" [] OTHER -> "none"]
  /\ ready = {}
  /\ process = FALSE
  /\ cmd = <<>>
  /\ ran = <<>> /\ erased = {} /\ late = {}
  /\ enters = 0 /\ runs = 0
  /\ clash = {} /\ ticked = {} /\ halved = {}

-----------------------------------------------------------------------------
(* Interrupts. *)

Type == Person /\ UNCHANGED <<threadVars, history>>

\* txtedit_onchar copies the text into a new block; it is called when the
\* record's handlers are set.
EditorAllocates(c) == state \in ready /\ c.make /\ c.key \in Letters

\* The handler runs to its end: interrupts are off.
ShellKeyIrq ==
  /\ KeyIrq
  /\ LET c == Head(queue) IN
     /\ enters' = IF c = [key |-> ENTER, make |-> TRUE] /\ ENTER \notin keymap
                  THEN enters + 1 ELSE enters
     /\ erased' = erased \cup (Numbers(line[SHELL]) \ Numbers(line'[SHELL]))
     /\ late' = IF pc[SHELL] \in {"run", "free", "clear"}
                THEN late \cup (seen .. seen' - 1) ELSE late
     /\ clash' = IF EditorAllocates(c) THEN clash \cup Busy ELSE clash
  /\ UNCHANGED <<threadVars, ran, runs, ticked, halved>>

\* The dead threads the scheduler's walk meets leave the list, and their records the
\* heap.
Unloaded(gone) == [t \in Threads |-> IF t \in gone THEN "gone" ELSE pc[t]]

\* The timer's interrupt handler runs the walk on top of the thread it interrupts.
Preempt ==
  /\ cpu \notin locked
  /\ \E t \in Running, gone \in SUBSET Dead :
       /\ t # cpu \/ gone # {}
       /\ cpu' = t
       /\ pc' = Unloaded(gone)
       /\ ticked' = IF gone = {} THEN ticked ELSE ticked \cup (Busy \cap {cpu})
  /\ UNCHANGED <<person, kbd, locked, ready, process, cmd,
                 ran, erased, late, enters, runs, clash, halved>>

-----------------------------------------------------------------------------
(* The kernel thread: lock(); cmdhost_update(); unlock(). *)

Goto(t, from, to) ==
  /\ cpu = t
  /\ pc[t] = from
  /\ pc' = [pc EXCEPT ![t] = to]

NoKeyboard == UNCHANGED <<person, kbd>>
NoLine == UNCHANGED <<process, cmd, history>>
NoEditor == UNCHANGED <<cpu, ready>>

ShellLock_Never ==
  /\ Goto(SHELL, "lock", "setstate")
  /\ locked' = locked
  /\ NoKeyboard /\ NoLine /\ NoEditor

ShellLock ==
  /\ Goto(SHELL, "lock", "setstate")
  /\ locked' = locked \cup {SHELL}
  /\ NoKeyboard /\ NoLine /\ NoEditor

ShellSetState ==
  /\ Goto(SHELL, "setstate", "poll")
  /\ SetState(SHELL)
  /\ NoLine /\ NoEditor /\ UNCHANGED locked

\* Enter polled without _process.
PollEnter_Level == ENTER \in keymap

PollEnter == ENTER \in keymap /\ ~process

\* Enter goes down: execute what is in the buffer.
Poll ==
  /\ Goto(SHELL, "poll",
          IF PollEnter THEN IF line[SHELL] = <<>> THEN "clear" ELSE "split"
          ELSE "keyup")
  /\ process' = (process \/ PollEnter)
  /\ runs' = IF PollEnter THEN runs + 1 ELSE runs
  /\ UNCHANGED <<locked, cmd, ran, erased, late, enters, heapHistory>> /\ NoKeyboard /\ NoEditor

\* strsplit copies the line into parts.
Split ==
  /\ Goto(SHELL, "split", "run")
  /\ cmd' = line[SHELL]
  /\ ran' = ran \o [i \in 1..Len(line[SHELL]) |-> line[SHELL][i].n]
  /\ UNCHANGED <<locked, process, erased, late, enters, runs, heapHistory>> /\ NoKeyboard /\ NoEditor

\* A command that is not txtedit, or none of that name.
RunOther ==
  /\ Goto(SHELL, "run", "free")
  /\ UNCHANGED locked /\ NoKeyboard /\ NoLine /\ NoEditor

\* txtedit_create makes a record and a thread and starts it.
Created(e) == [pc EXCEPT ![SHELL] = "free", ![e] = "exists"]

\* cmd_txtedit; which record malloc returns makes no difference.
RunTxtedit ==
  LET unused == {f \in Editors : pc[f] = "none"}
      e == CHOOSE f \in unused : TRUE
  IN
  /\ cpu = SHELL
  /\ pc[SHELL] = "run"
  /\ unused # {}
  /\ pc' = Created(e)
  /\ UNCHANGED <<locked, cpu, ready>> /\ NoKeyboard /\ NoLine

\* cmd_kill of any thread on the list but the kernel's; it does not get any further,
\* wherever it is.
RunKill(t) ==
  /\ cpu = SHELL
  /\ pc[SHELL] = "run"
  /\ t \in (Running \cup Dead) \ {SHELL}
  /\ pc' = [pc EXCEPT ![SHELL] = "free", ![t] = "dead"]
  /\ halved' = halved \cup (Busy \cap {t})
  /\ UNCHANGED <<locked, process, cmd, ran, erased, late, enters, runs, clash, ticked>>
  /\ NoKeyboard /\ NoEditor

\* The end of cmdhost_execute frees the parts.
FreeParts ==
  /\ Goto(SHELL, "free", "clear")
  /\ cmd' = <<>>
  /\ UNCHANGED <<locked, process, history>> /\ NoKeyboard /\ NoEditor

\* memset(_buff, 0, KBD_BUFFSZ), whatever was typed meanwhile.
Clear ==
  /\ Goto(SHELL, "clear", "keyup")
  /\ line' = [line EXCEPT ![SHELL] = <<>>]
  /\ UNCHANGED <<person, keymap, state, mods, seen, missed, locked>> /\ NoLine /\ NoEditor

KeyUp ==
  /\ Goto(SHELL, "keyup", "unlock")
  /\ process' = (process /\ ENTER \in keymap)
  /\ UNCHANGED <<locked, cmd, history>> /\ NoKeyboard /\ NoEditor

ShellUnlock ==
  /\ Goto(SHELL, "unlock", "lock")
  /\ locked' = locked \ {SHELL}
  /\ NoKeyboard /\ NoLine /\ NoEditor

ShellStep ==
  \/ ShellLock \/ ShellSetState \/ Poll \/ Split \/ RunOther
  \/ RunTxtedit
  \/ \E t \in Threads : RunKill(t)
  \/ FreeParts \/ Clear \/ KeyUp \/ ShellUnlock

-----------------------------------------------------------------------------
(* txtedit_main, in a thread of its own. *)

\* virtfs_fexists opens a file and closes it, without the lock.  If it is there nothing
\* else happens, for txtedit_load is empty.
EditorExists(e) ==
  /\ Goto(e, "exists", "init") \/ Goto(e, "exists", "lock")
  /\ UNCHANGED locked /\ NoKeyboard /\ NoLine /\ NoEditor

\* kbd_state_create sets the handlers of the editor's record.
EditorInit(e) ==
  /\ Goto(e, "init", "lock")
  /\ ready' = ready \cup {e}
  /\ UNCHANGED <<locked, cpu>> /\ NoKeyboard /\ NoLine

EditorLock_Never(e) ==
  /\ Goto(e, "lock", "loop")
  /\ locked' = locked
  /\ NoKeyboard /\ NoLine /\ NoEditor

EditorLock(e) ==
  /\ Goto(e, "lock", "loop")
  /\ locked' = locked \cup {e}
  /\ NoKeyboard /\ NoLine /\ NoEditor

\* while (running): nothing ever clears it.
EditorLoop(e) ==
  /\ Goto(e, "loop", "loop")
  /\ SetState(e)
  /\ NoLine /\ NoEditor /\ UNCHANGED locked

EditorStep(e) == EditorExists(e) \/ EditorInit(e) \/ EditorLock(e) \/ EditorLoop(e)

-----------------------------------------------------------------------------
(* memmgr_gcmain: collects under its lock and gives both up in             *)
(* taskmgr_schedule(true).                                                  *)

GcLock ==
  /\ Goto(GC, "idle", "collect")
  /\ locked' = locked \cup {GC}
  /\ NoKeyboard /\ NoLine /\ NoEditor

GcYield_Locked ==
  /\ cpu = GC
  /\ pc[GC] = "collect"
  /\ pc' = [pc EXCEPT ![GC] = "idle"]
  /\ UNCHANGED <<locked, cpu, ready>> /\ NoKeyboard /\ NoLine

GcYield ==
  /\ cpu = GC
  /\ pc[GC] = "collect"
  /\ locked' = locked \ {GC}
  /\ \E t \in Running, gone \in SUBSET Dead :
       /\ cpu' = t
       /\ pc' = [Unloaded(gone) EXCEPT ![GC] = "idle"]
  /\ UNCHANGED ready /\ NoKeyboard /\ NoLine

GcStep == GcLock \/ GcYield

-----------------------------------------------------------------------------

Next ==
  \/ Type
  \/ ShellKeyIrq
  \/ Preempt
  \/ ShellStep
  \/ \E e \in Editors : EditorStep(e)
  \/ GcStep

Spec == Init /\ [][Next]_vars

\* A turn lasts SCHEDULER_INTERVAL ticks, so a thread that runs goes on; the
\* scheduler is round robin, so the shell gets the CPU again and again if it can
\* be given away again and again (RoundRobin of TaskMgr), and its turns are long
\* enough for its next step.
Fairness ==
  /\ SF_vars(ShellStep)
  /\ SF_vars(Preempt /\ cpu' = SHELL)
  /\ WF_vars(GcStep \/ \E e \in Editors : EditorStep(e))

FairSpec == Spec /\ Fairness

-----------------------------------------------------------------------------
(* Properties. *)

\* However long Enter is held and however slowly the shell polls, cmdhost_update
\* executes at most one line each time Enter goes down.
EnterOnce == runs <= enters

\* No character of the line buffer is executed twice, and what is executed is
\* executed in the order in which it was typed, over all lines.
NeverTwice == \A i, j \in 1..Len(ran) : i < j => ran[i] < ran[j]

\* A character that was typed for the shell is in its buffer, was executed or was
\* removed with backspace; the others were wiped by the memset of cmdhost_update,
\* which only happens to what comes while a command is running.
WipedOnlyLate ==
  (0 .. seen - 1) \ (Numbers(line[SHELL]) \cup Range(ran) \cup erased) \subseteq late

\* txtedit_onchar allocates and frees in the keyboard interrupt, and it may do so on top
\* of another heap operation, but only of an editor's that looks for its file: the shell
\* and the collector run under their locks, and an editor that has the keyboard does not
\* let them in again.
IrqHeapAlone == clash \subseteq Editors

\* Heap operations of two threads are under way at the same time only when
\* editors, which look for their file without the lock, are among them.
OverlapIsEditorStart == \A t, u \in Busy : t = u \/ t \in Editors \/ u \in Editors

\* The scheduler frees the record and the stack of a dead thread in the timer's interrupt
\* handler.  Only an editor that starts can be inside a heap operation then.
UnloadIsAlone == ticked \subseteq Editors

\* A thread that is killed inside a heap operation leaves the table as it was there.
\* That cannot be the collector, which collects under its lock.
HalvedIsEditorStart == halved \subseteq Editors

\* What is typed is executed once, in order, one line for each Enter, and lost in
\* the one known way only, however the interrupt handler comes between the poll of
\* Enter, the split and the memset of cmdhost_update (cmdhost.c:44-51).
LinesRunOnce == EnterOnce /\ NeverTwice /\ WipedOnlyLate

\* The heap has no lock of its own: the shell, the collector, the editor's key handler
\* and the scheduler stay out of each other's way by the locks of their threads alone,
\* except for an editor that starts (txtedit.c:20, scheduler.c:112, heap.c:140).
HeapAlone == IrqHeapAlone /\ OverlapIsEditorStart /\ UnloadIsAlone /\ HalvedIsEditorStart

\* An editor that has the keyboard keeps it: the shell, which sets itself as the
\* consumer in every iteration, never runs again.
EditorKeeps == [][(state \in Editors) => (state' = state)]_vars

\* The shell polls the keyboard again and again unless an editor has taken it.
ShellPolls == []<>(pc[SHELL] = "poll") \/ <>(state \in Editors)

=============================================================================
