------------------------------- MODULE TaskMgr -------------------------------
(***************************************************************************)
(* The task manager: core/threading/scheduler.c, thread.c, contextsw.asm   *)
(* and the PIT interrupt that drives it.  There is one CPU.  Code runs on  *)
(* the stack of thread `cpu`; the kernel's own idea of who runs is         *)
(* THIS_THREAD (`this`), and the two must agree whenever thread code runs. *)
(*                                                                         *)
(* `phase` says what the CPU is doing: "code" is thread code (or the tail  *)
(* of an interrupt handler) with interrupts enabled; "walk" is the loop of *)
(* taskmgr_schedule and "switch" the part of _context_switch before the    *)
(* new stack is loaded, both with interrupts disabled; "popf" is the same  *)
(* function between `popf` and `mov esp`, where a thread dispatched for    *)
(* the first time has interrupts enabled again while the CPU still uses    *)
(* the old stack; "torn" is the end of the model: a context was saved into *)
(* another thread's record, two records share a stack from here on.        *)
(*                                                                         *)
(* taskmgr_load and taskmgr_kill are called by the boot code and by the    *)
(* shell only, both in the kernel thread, the shell with the kernel        *)
(* thread's lock held (kernel.c: lock(); ... cmdhost_update(); unlock();). *)
(***************************************************************************)
EXTENDS Naturals, Sequences, SequencesExt

CONSTANTS
  Threads,    \* addresses of thread records; malloc may hand one out again
  KThread,    \* the record of the kernel thread (uid KERNEL_UID)
  Interval    \* SCHEDULER_INTERVAL

ASSUME TaskMgrAssumption ==
  /\ KThread \in Threads
  /\ Interval \in Nat /\ Interval >= 2

VARIABLES
  threads,    \* _threads, the task list
  index,      \* _index, zero-based
  slock,      \* _lock, the scheduler's own re-entrance flag
  ready,      \* _ready
  timer,      \* _timer
  this,       \* THIS_THREAD
  next,       \* NEXT_THREAD
  state,      \* context.state of each record, "FREE" when not allocated
  tlock,      \* context.lock of each record
  regs,       \* context.regs: whose stack was saved, and is it a new thread
  cpu,        \* the thread on whose stack the CPU runs
  phase,      \* what the CPU does, see above
  via,        \* who entered the current switch: "tick" or "yield"
  inPopf,     \* a tick was already taken in the current "popf" window
  at,         \* where the code of each thread is
  arg,        \* the record the kernel thread's current operation is about
  copy        \* ptrlist_add's copy of the task list

vars == <<threads, index, slock, ready, timer, this, next, state, tlock, regs,
          cpu, phase, via, inPopf, at, arg, copy>>

cpuVars  == <<regs, cpu, phase, via, inPopf, next>>
taskVars == <<threads, state, arg, copy>>

Live == {"HALTED", "RUNNING", "TERMINATED"}

Init ==
  /\ threads = <<KThread>> /\ index = 0
  /\ slock = FALSE /\ ready = FALSE /\ timer = 0
  /\ this = KThread /\ next = KThread
  /\ state = [t \in Threads |-> IF t = KThread THEN "RUNNING" ELSE "FREE"]
  /\ tlock = [t \in Threads |-> FALSE]
  /\ regs = [t \in Threads |-> [stack |-> t, new |-> FALSE]]
  /\ cpu = KThread /\ phase = "code" /\ via = "yield" /\ inPopf = FALSE
  /\ at = [t \in Threads |-> "run"]
  /\ arg = KThread /\ copy = <<>>

-----------------------------------------------------------------------------
(* taskmgr_schedule up to the loop.                                        *)

\* The entry checks, and the list entry that becomes THIS_THREAD.
MayEnter == ~slock /\ ready /\ index < Len(threads)
Current  == threads[index + 1]

EnterWalk(how) ==
  /\ slock' = TRUE
  /\ this'  = Current
  /\ phase' = "walk"
  /\ via'   = how

(* The PIT interrupt, taskmgr_callback.                                    *)

Tick ==
  /\ phase = "code" /\ ready /\ timer + 1 < Interval
  /\ timer' = timer + 1
  /\ UNCHANGED <<index, slock, ready, this, tlock, at, cpuVars, taskVars>>

\* The interval is over, but the scheduler is busy or the thread is locked.
TickRefused_NoReset ==
  /\ phase = "code" /\ ready /\ timer + 1 >= Interval
  /\ ~MayEnter \/ tlock[Current]
  /\ timer' = timer + 1
  /\ UNCHANGED <<index, slock, ready, this, tlock, at, cpuVars, taskVars>>

TickRefused ==
  /\ phase = "code" /\ ready /\ timer + 1 >= Interval
  /\ ~MayEnter \/ tlock[Current]
  /\ timer' = 0
  /\ this'  = IF MayEnter THEN Current ELSE this
  /\ index' = IF ~slock /\ index >= Len(threads) THEN 0 ELSE index
  /\ UNCHANGED <<slock, ready, tlock, at, cpuVars, taskVars>>

\* The interval is over and the running thread is preempted.
TickPreempt_Locked ==
  /\ phase = "code" /\ ready /\ timer + 1 >= Interval
  /\ MayEnter
  /\ timer' = 0
  /\ EnterWalk("tick")
  /\ UNCHANGED <<index, ready, tlock, at, regs, cpu, inPopf, next, taskVars>>

TickPreempt_NoReset ==
  /\ phase = "code" /\ ready /\ timer + 1 >= Interval
  /\ MayEnter /\ ~tlock[Current]
  /\ timer' = timer
  /\ EnterWalk("tick")
  /\ UNCHANGED <<index, ready, tlock, at, regs, cpu, inPopf, next, taskVars>>

TickPreempt ==
  /\ phase = "code" /\ ready /\ timer + 1 >= Interval
  /\ MayEnter /\ ~tlock[Current]
  /\ timer' = 0
  /\ EnterWalk("tick")
  /\ UNCHANGED <<index, ready, tlock, at, regs, cpu, inPopf, next, taskVars>>

\* A voluntary taskmgr_schedule(true): the checks run with interrupts enabled,
\* so a tick can come between them and the cli.
YieldCheck ==
  /\ phase = "code" /\ at[cpu] \in {"run", "returned"}
  /\ MayEnter
  /\ at' = [at EXCEPT ![cpu] = "yield"]
  /\ UNCHANGED <<index, slock, ready, timer, this, tlock, cpuVars, taskVars>>

YieldEnter_KeepLock ==
  /\ phase = "code" /\ at[cpu] = "yield"
  /\ EnterWalk("yield")
  /\ at' = [at EXCEPT ![cpu] = "run"]
  /\ UNCHANGED <<index, ready, timer, tlock, regs, cpu, inPopf, next, taskVars>>

YieldEnter ==
  /\ phase = "code" /\ at[cpu] = "yield"
  /\ EnterWalk("yield")
  /\ tlock' = [tlock EXCEPT ![Current] = FALSE]
  /\ at' = [at EXCEPT ![cpu] = "run"]
  /\ UNCHANGED <<index, ready, timer, regs, cpu, inPopf, next, taskVars>>

-----------------------------------------------------------------------------
(* The loop of taskmgr_schedule, one action per way through its body.      *)

\* The entry the next iteration looks at.
Candidate == threads[index + 2]

\* _index ran past the end: thread 0 is next, whatever its state.
WalkWrap ==
  /\ phase = "walk" /\ index + 1 >= Len(threads)
  /\ index' = 0
  /\ next' = threads[1]
  /\ phase' = "switch"
  /\ UNCHANGED <<slock, ready, timer, this, tlock, at, regs, cpu, via, inPopf,
                 taskVars>>

WalkSkip_Break ==
  /\ phase = "walk" /\ index + 1 < Len(threads)
  /\ state[Candidate] = "HALTED"
  /\ index' = 0
  /\ next' = threads[1]
  /\ phase' = "switch"
  /\ UNCHANGED <<slock, ready, timer, this, tlock, at, regs, cpu, via, inPopf,
                 taskVars>>

WalkSkip ==
  /\ phase = "walk" /\ index + 1 < Len(threads)
  /\ state[Candidate] = "HALTED"
  /\ index' = index + 1
  /\ UNCHANGED <<slock, ready, timer, this, tlock, at, cpuVars, taskVars>>

\* taskmgr_unload, thread_free and ptrlist_remove.  The entries behind the
\* removed one move down, and the loop's _index++ then passes over the first
\* of them.  taskmgr_unload_index also drops _lock.
WalkUnload_SelfIndex ==
  /\ phase = "walk" /\ index + 1 < Len(threads)
  /\ state[Candidate] = "TERMINATED"
  /\ index' = index + 1
  /\ slock' = FALSE
  /\ threads' = RemoveAt(threads, index + 1)
  /\ state' = [state EXCEPT ![Candidate] = "FREE"]
  /\ UNCHANGED <<ready, timer, this, tlock, at, arg, copy, cpuVars>>

WalkUnload_Skip ==
  /\ phase = "walk" /\ index + 1 < Len(threads)
  /\ state[Candidate] = "TERMINATED"
  /\ index' = index + 1
  /\ UNCHANGED <<slock, ready, timer, this, tlock, at, cpuVars, taskVars>>

WalkUnload ==
  /\ phase = "walk" /\ index + 1 < Len(threads)
  /\ state[Candidate] = "TERMINATED"
  /\ index' = index + 1
  /\ slock' = FALSE
  /\ IF Candidate = KThread
       THEN UNCHANGED <<threads, state>>
       ELSE /\ threads' = RemoveAt(threads, index + 2)
            /\ state' = [state EXCEPT ![Candidate] = "FREE"]
  /\ UNCHANGED <<ready, timer, this, tlock, at, arg, copy, cpuVars>>

WalkPick_AnyState ==
  /\ phase = "walk" /\ index + 1 < Len(threads)
  /\ index' = index + 1
  /\ next' = Candidate
  /\ phase' = "switch"
  /\ UNCHANGED <<slock, ready, timer, this, tlock, at, regs, cpu, via, inPopf,
                 taskVars>>

WalkPick ==
  /\ phase = "walk" /\ index + 1 < Len(threads)
  /\ state[Candidate] = "RUNNING"
  /\ index' = index + 1
  /\ next' = Candidate
  /\ phase' = "switch"
  /\ UNCHANGED <<slock, ready, timer, this, tlock, at, regs, cpu, via, inPopf,
                 taskVars>>

-----------------------------------------------------------------------------
(* _context_switch.                                                        *)

\* The record of THIS_THREAD takes the registers of the code that runs; they
\* are pushed after a cli, so its saved eflags have interrupts disabled.
Saved == [regs EXCEPT ![this] = [stack |-> cpu, new |-> FALSE]]

\* The next thread ran before: interrupts stay disabled until its stack is in.
SwitchBack ==
  /\ phase = "switch" /\ ~Saved[next].new
  /\ slock' = FALSE
  /\ regs' = Saved
  /\ this' = next
  /\ cpu' = Saved[next].stack
  /\ phase' = "code"
  /\ UNCHANGED <<index, ready, timer, next, tlock, via, inPopf, at, taskVars>>

\* The next thread is new: its eflags (0x202) enable interrupts too early.
SwitchNew ==
  /\ phase = "switch" /\ Saved[next].new
  /\ slock' = FALSE
  /\ regs' = Saved
  /\ this' = next
  /\ phase' = "popf"
  /\ inPopf' = FALSE
  /\ UNCHANGED <<index, ready, timer, next, tlock, cpu, via, at, taskVars>>

\* At most one tick fits in the few instructions of the window.
PopfTick ==
  /\ phase = "popf" /\ ~inPopf /\ timer + 1 < Interval
  /\ timer' = timer + 1
  /\ inPopf' = TRUE
  /\ UNCHANGED <<index, slock, ready, this, tlock, at, regs, cpu, phase, via,
                 next, taskVars>>

\* That tick ends the interval: the scheduler saves the old stack into the
\* record of the new thread, whose own context is lost.
PopfTear ==
  /\ phase = "popf" /\ ~inPopf /\ timer + 1 >= Interval
  /\ timer' = 0
  /\ inPopf' = TRUE
  /\ regs' = Saved
  /\ phase' = "torn"
  /\ UNCHANGED <<index, slock, ready, this, tlock, at, cpu, via, next, taskVars>>

LoadStack ==
  /\ phase = "popf"
  /\ cpu' = regs[this].stack
  /\ phase' = "code"
  /\ UNCHANGED <<index, slock, ready, timer, this, tlock, at, regs, via, inPopf,
                 next, taskVars>>

-----------------------------------------------------------------------------
(* What thread code does: lock(), unlock(), returning from its protocol.   *)

Running(pc) == phase = "code" /\ at[cpu] = pc

Lock ==
  /\ Running("run")
  /\ tlock' = [tlock EXCEPT ![this] = TRUE]
  /\ UNCHANGED <<index, slock, ready, timer, this, at, cpuVars, taskVars>>

Unlock ==
  /\ Running("run")
  /\ tlock' = [tlock EXCEPT ![this] = FALSE]
  /\ UNCHANGED <<index, slock, ready, timer, this, at, cpuVars, taskVars>>

\* thread_return: between cli and sti it kills its own thread, then it yields
\* for ever.
Return ==
  /\ Running("run") /\ cpu # KThread
  /\ state' = [state EXCEPT ![this] = "TERMINATED"]
  /\ slock' = FALSE
  /\ at' = [at EXCEPT ![cpu] = "returned"]
  /\ UNCHANGED <<threads, index, ready, timer, this, tlock, arg, copy, cpuVars>>

(* What only the kernel thread does: boot, and the shell's commands.       *)

KernelAt(pc) == cpu = KThread /\ Running(pc)
KernelGoes(pc) == at' = [at EXCEPT ![KThread] = pc]
\* Before taskmgr_toggle(true), or under the lock kernel_main takes.
Alone == ~ready \/ tlock[KThread]

\* taskmgr_toggle(true)
Toggle ==
  /\ KernelAt("run") /\ ~ready
  /\ ready' = TRUE
  /\ slock' = FALSE
  /\ UNCHANGED <<index, timer, this, tlock, at, cpuVars, taskVars>>

\* thread_create: a record out of the heap with a prepared stack.
Create(t) ==
  /\ KernelAt("run") /\ Alone
  /\ state[t] = "FREE"
  /\ state' = [state EXCEPT ![t] = "HALTED"]
  /\ tlock' = [tlock EXCEPT ![t] = FALSE]
  /\ regs' = [regs EXCEPT ![t] = [stack |-> t, new |-> TRUE]]
  /\ at' = [at EXCEPT ![t] = "run", ![KThread] = "create"]
  /\ arg' = t
  /\ UNCHANGED <<threads, index, slock, ready, timer, this, next, cpu, phase,
                 via, inPopf, copy>>

\* taskmgr_load is ptrlist_add: copy the entries, then publish the copy.
LoadCopy ==
  /\ KernelAt("create")
  /\ copy' = threads
  /\ KernelGoes("copied")
  /\ UNCHANGED <<threads, index, slock, ready, timer, this, state, tlock, arg,
                 cpuVars>>

LoadPublish_Second ==
  /\ KernelAt("copied")
  /\ threads' = <<copy[1], arg>> \o Tail(copy)
  /\ copy' = <<>>
  /\ \/ KernelGoes("loaded")
     \/ KernelGoes("run")
  /\ UNCHANGED <<index, slock, ready, timer, this, state, tlock, arg, cpuVars>>

\* With start = FALSE txtedit_create leaves the thread HALTED.
LoadPublish ==
  /\ KernelAt("copied")
  /\ threads' = [i \in 1 .. Len(threads) + 1 |->
                   IF i = Len(threads) + 1 THEN arg ELSE copy[i]]
  /\ copy' = <<>>
  /\ \/ KernelGoes("loaded")
     \/ KernelGoes("run")
  /\ UNCHANGED <<index, slock, ready, timer, this, state, tlock, arg, cpuVars>>

\* taskmgr_start and taskmgr_kill hold the scheduler off with _lock only.
StartEnter ==
  /\ KernelAt("loaded")
  /\ slock' = TRUE
  /\ KernelGoes("starting")
  /\ UNCHANGED <<index, ready, timer, this, tlock, cpuVars, taskVars>>

StartLeave ==
  /\ KernelAt("starting")
  /\ state' = [state EXCEPT ![arg] = "RUNNING"]
  /\ slock' = FALSE
  /\ KernelGoes("run")
  /\ UNCHANGED <<threads, index, ready, timer, this, tlock, arg, copy, cpuVars>>

\* cmd_kill: look the uid up, then kill what was found.
KillFind(t) ==
  /\ KernelAt("run") /\ Alone
  /\ t \in ToSet(threads) \ {KThread}
  /\ arg' = t
  /\ KernelGoes("found")
  /\ UNCHANGED <<threads, index, slock, ready, timer, this, state, tlock, copy,
                 cpuVars>>

KillEnter ==
  /\ KernelAt("found")
  /\ slock' = TRUE
  /\ KernelGoes("killing")
  /\ UNCHANGED <<index, ready, timer, this, tlock, cpuVars, taskVars>>

KillLeave ==
  /\ KernelAt("killing")
  /\ state' = [state EXCEPT ![arg] = "TERMINATED"]
  /\ slock' = FALSE
  /\ KernelGoes("run")
  /\ UNCHANGED <<threads, index, ready, timer, this, tlock, arg, copy, cpuVars>>

-----------------------------------------------------------------------------
Timer    == Tick \/ TickRefused \/ TickPreempt \/ PopfTick \/ PopfTear
Walk     == WalkWrap \/ WalkSkip \/ WalkUnload \/ WalkPick
Switch   == SwitchBack \/ SwitchNew \/ LoadStack
Program  == YieldCheck \/ YieldEnter \/ Lock \/ Unlock \/ Return
Kernel   == \/ Toggle \/ LoadCopy \/ LoadPublish
            \/ StartEnter \/ StartLeave \/ KillEnter \/ KillLeave
            \/ \E t \in Threads : Create(t) \/ KillFind(t)

Next == Timer \/ Walk \/ Switch \/ Program \/ Kernel

Spec == Init /\ [][Next]_vars

\* The scheduler itself never stops half-way: with interrupts off nothing can
\* delay it.  Nothing is assumed of threads or of the timer.
FairSpec == Spec /\ WF_vars(Walk \/ Switch)

-----------------------------------------------------------------------------
(* Type invariant.                                                         *)
TypeOK ==
  /\ threads \in Seq(Threads) /\ copy \in Seq(Threads)
  /\ index \in Nat /\ timer \in 0 .. Interval - 1
  /\ slock \in BOOLEAN /\ ready \in BOOLEAN /\ inPopf \in BOOLEAN
  /\ this \in Threads /\ next \in Threads /\ cpu \in Threads /\ arg \in Threads
  /\ state \in [Threads -> Live \cup {"FREE"}]
  /\ tlock \in [Threads -> BOOLEAN]
  /\ regs \in [Threads -> [stack : Threads, new : BOOLEAN]]
  /\ phase \in {"code", "walk", "switch", "popf", "torn"}
  /\ via \in {"tick", "yield"}
  /\ at \in [Threads -> {"run", "yield", "returned", "create", "copied", "loaded",
                         "starting", "found", "killing"}]

Pending == at[KThread] \in {"create", "copied"}

\* The task list survives every load, unload and walk: the kernel thread
\* stays its first entry, no record is listed twice, and the listed records
\* are the allocated ones (but for the one being loaded), so the scheduler
\* never follows a pointer to freed memory (scheduler.c:72, ptrlist.c:29-55).
ListSound ==
  /\ Len(threads) > 0 /\ threads[1] = KThread
  /\ IsInjective(threads)
  /\ ToSet(threads) = {t \in Threads : state[t] # "FREE"}
                        \ (IF Pending THEN {arg} ELSE {})

\* The kernel's bookkeeping matches the machine: while thread code runs, its
\* stack belongs to THIS_THREAD, which is the list entry at _index, though
\* entries before and behind it come and go (scheduler.c:58,69-77,113).
CpuIsThis ==
  phase = "code" => /\ cpu = this
                    /\ index < Len(threads)
                    /\ this = Current
                    /\ state[cpu] # "FREE"

\* Every record holds a context of its own stack: a thread that is switched
\* to resumes on the stack it was switched away from (contextsw.asm:5-38).
\* Only a first dispatch can be torn, and only by a tick after a switch that
\* taskmgr_schedule(true) entered: one entered by the timer has just reset
\* _timer, and the next interval cannot end in the window after popf
\* (scheduler.c:90, contextsw.asm:24-31).
ContextsIntact ==
  IF phase = "torn" THEN via = "yield" /\ regs[this].stack # this
                    ELSE \A t \in Threads : regs[t].stack = t

\* A thread that is off the CPU holds no lock (scheduler.c:61-65), so lock()
\* excludes every other thread, and no thread is parked inside taskmgr_start,
\* taskmgr_kill or ptrlist_add, where _lock would stay set and no thread
\* would ever be scheduled again (scheduler.c:53,132-148).
ParkedHoldNothing ==
  \A t \in Threads \ {cpu} :
    /\ ~tlock[t]
    /\ at[t] \in {"run", "yield", "returned"}

\* The record a kernel operation found, created or loads is still allocated
\* when the operation writes to it (commands.c:153-155, memmgr.c:106-108).
TargetsAllocated ==
  at[KThread] \in {"create", "copied", "loaded", "starting", "found", "killing"}
    => state[arg] # "FREE" /\ arg # KThread

\* List, bookkeeping and the records in use agree, whichever thread is loaded,
\* unloaded, killed or dispatched in between (scheduler.c:51-148).
KernelSound == ListSound /\ CpuIsThis /\ TargetsAllocated

\* The CPU only ever moves to a thread that is RUNNING: never to a killed,
\* halted or freed one, though WalkWrap does not look (scheduler.c:70-76).
OnlyRunningDispatched == [][cpu' # cpu => state[cpu'] = "RUNNING"]_vars

\* The place of t in the list, the place the walk stands at, and how many
\* rounds of the loop are left until it looks at t.
Pos(t)  == CHOOSE p \in DOMAIN threads : threads[p] = t
At      == IF index < Len(threads) THEN index ELSE Len(threads) - 1
Wait(t) == IF Pos(t) > At + 1 THEN Pos(t) - 1 - At
                              ELSE Len(threads) - At + Pos(t) - 1

\* The entry this round of the loop looks at.
Looked == IF index + 1 < Len(threads) THEN Candidate ELSE threads[1]

\* Each round of the walk brings every listed thread nearer to its turn: it
\* moves up in the list, or, at its old place, waits one round less.  When
\* the walk looks at a runnable one, it runs, and a dead one does not stay in
\* the list.  Between two walks nothing that threads, ticks, loads and kills
\* do sets a waiting thread back (scheduler.c:51-78,113; ptrlist.c:21-55).
NearerTurn ==
  [][\A t \in ToSet(threads) \cap ToSet(threads') :
       IF phase = "walk"
         THEN IF t = Looked
                THEN /\ state[t] # "TERMINATED"
                     /\ state[t] = "RUNNING" => phase' = "switch" /\ next' = t
                ELSE \/ Pos(t)' < Pos(t)
                     \/ Pos(t)' = Pos(t) /\ Wait(t)' < Wait(t)
         ELSE t # cpu => Pos(t)' = Pos(t) /\ Wait(t)' = Wait(t)]_vars

\* TaskMgr keeps the promise of Dispatch.
Abstract == INSTANCE Dispatch WITH
  pool <- ToSet(threads),
  dead <- {t \in ToSet(threads) : state[t] = "TERMINATED"},
  held <- tlock
ImplementsDispatch == Abstract!Spec

\* As long as the CPU is given up again and again, every runnable thread gets
\* its turn, although an unload in the walk passes over the entry behind the
\* unloaded one (scheduler.c:67-78).
RoundRobin ==
  ([]<>(phase = "walk")) =>
    \A t \in Threads : state[t] = "RUNNING" ~> cpu = t \/ state[t] # "RUNNING"

\* ... and every killed or returned thread is taken off the list and freed.
DeadReclaimed ==
  ([]<>(phase = "walk")) =>
    \A t \in Threads : state[t] = "TERMINATED" ~> state[t] = "FREE"
=============================================================================
