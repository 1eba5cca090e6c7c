---------------------------- MODULE TaskMgrProofs ----------------------------
(***************************************************************************)
(* Proofs about the task manager, for every set of thread records and      *)
(* every scheduling interval.  The inductive invariant is IInv; each       *)
(* safety property of TaskMgr follows from it.                             *)
(***************************************************************************)
EXTENDS TaskMgr, SequenceTheorems, TLAPS

\* The kernel thread is always runnable: WalkWrap may dispatch it unseen.
KernelRuns == state[KThread] = "RUNNING"

\* Where _index, THIS_THREAD and NEXT_THREAD stand in each phase.
Bookkeeping ==
  /\ index <= Len(threads)
  /\ phase # "walk" => index < Len(threads)
  /\ phase \in {"code", "walk", "switch"} => cpu = this
  /\ phase = "code" => this = Current
  /\ phase = "switch" => next = Current /\ state[next] = "RUNNING"
  /\ phase = "popf" => /\ this = Current /\ state[this] = "RUNNING"
                       /\ cpu # this
  /\ state[cpu] # "FREE"

\* A walk never comes back to the thread that started it.
WalkIsPast ==
  phase = "walk" => \A i \in index + 2 .. Len(threads) : threads[i] # cpu

\* A thread gives up the CPU unlocked.
LocksReleased ==
  phase \in {"walk", "switch", "popf"} => ~tlock[cpu]

\* A tick that enters the scheduler leaves _timer at zero.
TimerReset ==
  /\ via = "tick" /\ phase \in {"walk", "switch"} => timer = 0
  /\ via = "tick" /\ phase = "popf" /\ ~inPopf => timer = 0

Busy == {"create", "copied", "loaded", "starting", "found", "killing"}

\* The kernel thread is undisturbed in the middle of an operation.
KernelAlone ==
  at[KThread] \in Busy =>
    /\ phase = "code" /\ cpu = KThread /\ Alone
    /\ arg # KThread /\ state[arg] # "FREE"
    /\ at[KThread] = "copied" => copy = threads
    /\ at[KThread] \in {"create", "copied", "loaded", "starting"}
         => state[arg] = "HALTED"

OthersIdle ==
  \A t \in Threads \ {KThread} : at[t] \notin Busy

IInv ==
  /\ TypeOK /\ ListSound /\ KernelRuns /\ Bookkeeping /\ WalkIsPast
  /\ LocksReleased /\ TimerReset /\ KernelAlone /\ OthersIdle
  /\ ContextsIntact /\ ParkedHoldNothing

-----------------------------------------------------------------------------
\* Taking one entry out of a list without repetitions (ptrlist_remove).
LEMMA RemoveAtFacts ==
  ASSUME NEW S, NEW s \in Seq(S), NEW n \in 1 .. Len(s), IsInjective(s)
  PROVE  LET r == RemoveAt(s, n)
         IN  /\ r \in Seq(S)
             /\ Len(r) = Len(s) - 1
             /\ \A i \in 1 .. Len(s) - 1 : r[i] = IF i < n THEN s[i] ELSE s[i + 1]
             /\ IsInjective(r)
             /\ ToSet(r) = ToSet(s) \ {s[n]}
<1> DEFINE r == RemoveAt(s, n)
<1>1. /\ r \in Seq(S)
      /\ Len(r) = Len(s) - 1
      /\ \A i \in 1 .. Len(s) - 1 : r[i] = IF i < n THEN s[i] ELSE s[i + 1]
  <2> DEFINE a == SubSeq(s, 1, n - 1)
             b == SubSeq(s, n + 1, Len(s))
  <2>1. /\ a \in Seq(S) /\ Len(a) = n - 1
        /\ \A i \in 1 .. n - 1 : a[i] = s[i]
    BY SubSeqProperties
  <2>2. /\ b \in Seq(S) /\ Len(b) = Len(s) - n
        /\ \A i \in 1 .. Len(s) - n : b[i] = s[n + i]
    BY SubSeqProperties
  <2>3. r = a \o b
    BY DEF RemoveAt
  <2> HIDE DEF a, b, r
  <2>4. /\ a \o b \in Seq(S) /\ Len(a \o b) = Len(a) + Len(b)
        /\ \A i \in 1 .. Len(a) + Len(b) :
             (a \o b)[i] = IF i <= Len(a) THEN a[i] ELSE b[i - Len(a)]
    BY <2>1, <2>2, ConcatProperties
  <2>5. Len(s) \in Nat
    BY LenProperties
  <2>6. r \in Seq(S) /\ Len(r) = Len(s) - 1
    BY <2>1, <2>2, <2>3, <2>4, <2>5
  <2>7. ASSUME NEW i \in 1 .. Len(s) - 1
        PROVE  r[i] = IF i < n THEN s[i] ELSE s[i + 1]
    <3>1. CASE i < n
      BY <3>1, <2>1, <2>2, <2>3, <2>4, <2>5
    <3>2. CASE i >= n
      <4>1. /\ i - (n - 1) \in 1 .. Len(s) - n
            /\ n + (i - (n - 1)) = i + 1
        BY <3>2, <2>5
      <4>2. b[i - (n - 1)] = s[n + (i - (n - 1))]
        BY <4>1, <2>2
      <4>3. r[i] = b[i - (n - 1)]
        BY <3>2, <2>1, <2>2, <2>3, <2>4, <2>5
      <4>4. QED
        BY <4>1, <4>2, <4>3, <3>2
    <3>3. QED
      BY <3>1, <3>2, <2>5
  <2>8. QED
    BY <2>6, <2>7
<1>2. DOMAIN r = 1 .. Len(s) - 1 /\ DOMAIN s = 1 .. Len(s) /\ Len(s) \in Nat
  BY <1>1
<1>3. IsInjective(r)
  <2>1. SUFFICES ASSUME NEW i \in 1 .. Len(s) - 1, NEW j \in 1 .. Len(s) - 1,
                        r[i] = r[j]
                 PROVE  i = j
    BY <1>2 DEF IsInjective
  <2> DEFINE from(k) == IF k < n THEN k ELSE k + 1
  <2>2. from(i) \in 1 .. Len(s) /\ from(j) \in 1 .. Len(s)
    BY <1>2
  <2>3. s[from(i)] = s[from(j)]
    BY <2>1, <1>1
  <2>4. from(i) = from(j)
    BY <2>2, <2>3, <1>2 DEF IsInjective
  <2>5. QED
    BY <2>4, <1>2
<1>4. ToSet(r) = ToSet(s) \ {s[n]}
  <2>1. ASSUME NEW x \in ToSet(r) PROVE x \in ToSet(s) \ {s[n]}
    BY <2>1, <1>1, <1>2 DEF ToSet, IsInjective
  <2>2. ASSUME NEW x \in ToSet(s), x # s[n] PROVE x \in ToSet(r)
    <3>1. PICK i \in 1 .. Len(s) : x = s[i]
      BY <2>2, <1>2 DEF ToSet
    <3>2. CASE i < n
      <4>1. i \in 1 .. Len(s) - 1 /\ r[i] = s[i]
        BY <3>1, <3>2, <1>1, <1>2
      <4>2. QED
        BY <4>1, <3>1, <1>2 DEF ToSet
    <3>3. CASE i > n
      <4>1. i - 1 \in 1 .. Len(s) - 1 /\ r[i - 1] = s[i]
        BY <3>1, <3>3, <1>1, <1>2
      <4>2. QED
        BY <4>1, <3>1, <1>2 DEF ToSet
    <3>4. QED
      BY <3>1, <3>2, <3>3, <2>2, <1>2
  <2>3. QED
    BY <2>1, <2>2
<1>5. QED
  BY <1>1, <1>3, <1>4

-----------------------------------------------------------------------------
LEMMA InitIInv == Init => IInv
<1> SUFFICES ASSUME Init PROVE IInv
  OBVIOUS
<1> USE TaskMgrAssumption DEF Init
<1>1. TypeOK
  <2>1. threads \in Seq(Threads) /\ copy \in Seq(Threads)
    OBVIOUS
  <2>2. /\ state \in [Threads -> Live \cup {"FREE"}]
        /\ regs \in [Threads -> [stack : Threads, new : BOOLEAN]]
    BY DEF Live
  <2>3. /\ index \in Nat /\ timer \in 0 .. Interval - 1
        /\ tlock \in [Threads -> BOOLEAN]
        /\ at \in [Threads -> {"run"}]
    OBVIOUS
  <2>4. QED
    BY <2>1, <2>2, <2>3 DEF TypeOK
<1>2. ListSound
  BY DEF ListSound, Pending, ToSet, IsInjective
<1>3. KernelRuns /\ Bookkeeping /\ WalkIsPast
  BY DEF KernelRuns, Bookkeeping, WalkIsPast, Current
<1>4. LocksReleased /\ TimerReset /\ KernelAlone /\ OthersIdle
  BY DEF LocksReleased, TimerReset, KernelAlone, OthersIdle, Busy
<1>5. ContextsIntact /\ ParkedHoldNothing
  BY DEF ContextsIntact, ParkedHoldNothing
<1>6. QED
  BY <1>1, <1>2, <1>3, <1>4, <1>5 DEF IInv

\* What WalkUnload does to the list.
LEMMA UnloadFacts ==
  ASSUME TypeOK, ListSound, KernelRuns, WalkUnload
  PROVE  /\ Candidate # KThread
         /\ state' = [state EXCEPT ![Candidate] = "FREE"]
         /\ threads' \in Seq(Threads)
         /\ Len(threads') = Len(threads) - 1
         /\ \A i \in 1 .. Len(threads) - 1 :
              threads'[i] = IF i < index + 2 THEN threads[i] ELSE threads[i + 1]
         /\ IsInjective(threads')
         /\ ToSet(threads') = ToSet(threads) \ {Candidate}
<1>1. /\ Candidate # KThread
      /\ state' = [state EXCEPT ![Candidate] = "FREE"]
      /\ threads' = RemoveAt(threads, index + 2)
  BY DEF WalkUnload, KernelRuns
<1>2. index + 2 \in 1 .. Len(threads)
  BY LenProperties DEF WalkUnload, TypeOK
<1>3. threads \in Seq(Threads) /\ IsInjective(threads)
  BY DEF TypeOK, ListSound
<1>4. QED
  BY <1>1, <1>2, <1>3, RemoveAtFacts DEF Candidate

LEMMA UnloadIInv ==
  ASSUME IInv, WalkUnload
  PROVE  IInv'
<1> USE DEF IInv
<1>1. /\ Candidate # KThread
      /\ state' = [state EXCEPT ![Candidate] = "FREE"]
      /\ threads' \in Seq(Threads)
      /\ Len(threads') = Len(threads) - 1
      /\ \A i \in 1 .. Len(threads) - 1 :
           threads'[i] = IF i < index + 2 THEN threads[i] ELSE threads[i + 1]
      /\ IsInjective(threads')
      /\ ToSet(threads') = ToSet(threads) \ {Candidate}
  BY UnloadFacts
<1>2. /\ index \in Nat /\ Len(threads) \in Nat /\ index + 1 < Len(threads)
      /\ index' = index + 1 /\ phase = "walk"
      /\ Candidate \in Threads /\ Candidate # cpu
      /\ UNCHANGED <<ready, timer, this, next, tlock, regs, cpu, phase, via,
                     inPopf, at, arg, copy>>
      /\ slock' = FALSE
  BY LenProperties, ElementOfSeq
  DEF WalkUnload, TypeOK, WalkIsPast, Candidate, cpuVars
<1>3. TypeOK'
  <2>1. state' \in [Threads -> Live \cup {"FREE"}]
    BY <1>1, <1>2 DEF TypeOK
  <2>2. index' \in Nat
    BY <1>2
  <2>3. slock' \in BOOLEAN
    BY <1>2, Zenon
  <2>4. QED
    BY <1>1, <1>2, <2>1, <2>2, <2>3 DEF TypeOK, Live
<1>4. ListSound'
  <2>1. Len(threads') > 0 /\ threads'[1] = KThread
    BY <1>1, <1>2 DEF ListSound
  <2>2. ~Pending /\ ~Pending'
    BY <1>2 DEF Pending, KernelAlone, Busy
  <2>3. {t \in Threads : state'[t] # "FREE"}
          = {t \in Threads : state[t] # "FREE"} \ {Candidate}
    BY <1>1, <1>2 DEF TypeOK
  <2>4. QED
    BY <1>1, <2>1, <2>2, <2>3 DEF ListSound
<1>5. KernelRuns' /\ Bookkeeping'
  <2>1. state'[KThread] = state[KThread] /\ state'[cpu] = state[cpu]
    BY <1>1, <1>2, TaskMgrAssumption DEF TypeOK
  <2>2. QED
    BY <2>1, <1>1, <1>2 DEF KernelRuns, Bookkeeping
<1>9. WalkIsPast'
  <2> SUFFICES ASSUME NEW i \in index + 3 .. Len(threads) - 1
               PROVE  threads'[i] # cpu
    BY <1>1, <1>2 DEF WalkIsPast
  <2>1. /\ i \in 1 .. Len(threads) - 1 /\ ~(i < index + 2)
        /\ i + 1 \in index + 2 .. Len(threads)
    BY <1>2
  <2>2. QED
    BY <2>1, <1>1, <1>2 DEF WalkIsPast
<1>6. LocksReleased' /\ TimerReset' /\ KernelAlone' /\ OthersIdle'
  BY <1>2 DEF LocksReleased, TimerReset, KernelAlone, OthersIdle, Busy
<1>7. ContextsIntact' /\ ParkedHoldNothing'
  BY <1>2 DEF ContextsIntact, ParkedHoldNothing
<1>8. QED
  BY <1>3, <1>4, <1>5, <1>6, <1>7, <1>9

\* Entering the walk at the entry of the running thread leaves that thread
\* behind, since no thread is listed twice.
LEMMA EnterIsPast ==
  ASSUME IInv, phase = "code", UNCHANGED <<threads, index, cpu>>
  PROVE  WalkIsPast'
<1>1. /\ index \in Nat /\ Len(threads) \in Nat /\ DOMAIN threads = 1 .. Len(threads)
      /\ cpu = threads[index + 1]
      /\ index < Len(threads)
  BY LenProperties DEF IInv, TypeOK, Bookkeeping, Current
<1>2. \A i \in index + 2 .. Len(threads) : threads[i] # threads[index + 1]
  BY <1>1 DEF IInv, ListSound, IsInjective
<1>3. QED
  BY <1>1, <1>2 DEF WalkIsPast

\* Publishing the copy appends the loaded thread to the list as it was.
LEMMA PublishFacts ==
  ASSUME IInv, LoadPublish
  PROVE  threads' \in Seq(Threads) /\ ListSound'
<1> DEFINE n == Len(threads)
<1>1. /\ n \in Nat /\ threads \in Seq(Threads) /\ DOMAIN threads = 1 .. n
      /\ \A i \in 1 .. n : threads[i] \in Threads
  BY LenProperties, ElementOfSeq DEF IInv, TypeOK
<1>2. /\ copy = threads /\ arg \in Threads
      /\ Pending /\ ~Pending'
      /\ at[KThread] = "copied" /\ state' = state /\ arg' = arg
  BY TaskMgrAssumption
  DEF IInv, TypeOK, KernelAlone, Busy, LoadPublish, KernelAt, Running, Pending,
      KernelGoes
<1>3. /\ n > 0 /\ threads[1] = KThread /\ IsInjective(threads)
      /\ ToSet(threads) = {t \in Threads : state[t] # "FREE"} \ {arg}
      /\ state[arg] # "FREE"
  BY <1>2 DEF IInv, ListSound, KernelAlone, Busy
<1>4. threads' = [i \in 1 .. n + 1 |-> IF i = n + 1 THEN arg ELSE threads[i]]
  BY <1>2 DEF LoadPublish
<1> HIDE DEF n
<1>5. threads' \in Seq(Threads)
  BY <1>1, <1>2, <1>4
<1>6. /\ Len(threads') = n + 1 /\ DOMAIN threads' = 1 .. n + 1
      /\ threads'[n + 1] = arg
      /\ \A i \in 1 .. n : threads'[i] = threads[i]
  BY <1>1, <1>4
<1>7. \A i \in 1 .. n : threads[i] # arg
  BY <1>1, <1>3 DEF ToSet
<1>8. IsInjective(threads')
  BY <1>1, <1>3, <1>6, <1>7 DEF IsInjective
<1>9. ToSet(threads') = ToSet(threads) \cup {arg}
  BY <1>1, <1>6 DEF ToSet
<1>10. QED
  BY <1>1, <1>2, <1>3, <1>5, <1>6, <1>8, <1>9 DEF ListSound

LEMMA NextIInv == IInv /\ [Next]_vars => IInv'
<1> SUFFICES ASSUME IInv, [Next]_vars PROVE IInv'
  OBVIOUS
<1> USE TaskMgrAssumption
    DEF IInv, TypeOK, ListSound, KernelRuns, Bookkeeping, WalkIsPast,
        LocksReleased, TimerReset, KernelAlone, OthersIdle, ContextsIntact,
        ParkedHoldNothing, Busy, Live, Pending, Current,
        Candidate, MayEnter, EnterWalk, Saved, Running, KernelAt, KernelGoes,
        Alone, cpuVars, taskVars, ToSet, IsInjective
<1> /\ Len(threads) \in Nat
    /\ DOMAIN threads = 1 .. Len(threads)
    /\ \A i \in 1 .. Len(threads) : threads[i] \in Threads
  BY LenProperties, ElementOfSeq
<1>1. CASE Tick
  BY <1>1 DEF Tick
<1>2. CASE TickRefused
  BY <1>2 DEF TickRefused
<1>3. CASE TickPreempt
  <2> USE <1>3 DEF TickPreempt
  <2>1. TypeOK'
    OBVIOUS
  <2>2. ListSound'
    OBVIOUS
  <2>3. KernelRuns' /\ Bookkeeping' /\ WalkIsPast'
    BY EnterIsPast
  <2>4. LocksReleased' /\ TimerReset'
    OBVIOUS
  <2>5. KernelAlone' /\ OthersIdle'
    OBVIOUS
  <2>6. ContextsIntact' /\ ParkedHoldNothing'
    OBVIOUS
  <2>7. QED
    BY <2>1, <2>2, <2>3, <2>4, <2>5, <2>6
<1>4. CASE PopfTick
  BY <1>4 DEF PopfTick
<1>5. CASE PopfTear
  BY <1>5 DEF PopfTear
<1>6. CASE WalkWrap
  BY <1>6 DEF WalkWrap
<1>7. CASE WalkSkip
  BY <1>7 DEF WalkSkip
<1>8. CASE WalkUnload
  BY <1>8, UnloadIInv
<1>9. CASE WalkPick
  BY <1>9 DEF WalkPick
<1>10. CASE SwitchBack
  <2> USE <1>10 DEF SwitchBack
  <2>1. TypeOK'
    <3>1. regs' \in [Threads -> [stack : Threads, new : BOOLEAN]]
      OBVIOUS
    <3>2. cpu' \in Threads /\ this' \in Threads
      OBVIOUS
    <3>3. QED
      BY <3>1, <3>2
  <2>2. ListSound'
    OBVIOUS
  <2>3. KernelRuns' /\ Bookkeeping' /\ WalkIsPast'
    OBVIOUS
  <2>4. LocksReleased' /\ TimerReset'
    OBVIOUS
  <2>5. KernelAlone' /\ OthersIdle'
    OBVIOUS
  <2>6. ContextsIntact' /\ ParkedHoldNothing'
    OBVIOUS
  <2>7. QED
    BY <2>1, <2>2, <2>3, <2>4, <2>5, <2>6
<1>11. CASE SwitchNew
  <2> USE <1>11 DEF SwitchNew
  <2>1. TypeOK'
    OBVIOUS
  <2>2. ListSound'
    OBVIOUS
  <2>3. KernelRuns' /\ Bookkeeping' /\ WalkIsPast'
    OBVIOUS
  <2>4. LocksReleased' /\ TimerReset'
    OBVIOUS
  <2>5. KernelAlone' /\ OthersIdle'
    OBVIOUS
  <2>6. ContextsIntact' /\ ParkedHoldNothing'
    OBVIOUS
  <2>7. QED
    BY <2>1, <2>2, <2>3, <2>4, <2>5, <2>6
<1>12. CASE LoadStack
  BY <1>12 DEF LoadStack
<1>13. CASE YieldCheck
  BY <1>13 DEF YieldCheck
<1>14. CASE YieldEnter
  <2> USE <1>14 DEF YieldEnter
  <2>1. TypeOK'
    OBVIOUS
  <2>2. ListSound'
    OBVIOUS
  <2>3. KernelRuns' /\ Bookkeeping' /\ WalkIsPast'
    BY EnterIsPast
  <2>4. LocksReleased' /\ TimerReset'
    OBVIOUS
  <2>5. KernelAlone' /\ OthersIdle'
    OBVIOUS
  <2>6. ContextsIntact' /\ ParkedHoldNothing'
    OBVIOUS
  <2>7. QED
    BY <2>1, <2>2, <2>3, <2>4, <2>5, <2>6
<1>15. CASE Lock
  BY <1>15 DEF Lock
<1>16. CASE Unlock
  BY <1>16 DEF Unlock
<1>17. CASE Return
  <2> USE <1>17 DEF Return
  <2>1. TypeOK'
    OBVIOUS
  <2>2. ListSound'
    OBVIOUS
  <2>3. KernelRuns' /\ Bookkeeping' /\ WalkIsPast'
    OBVIOUS
  <2>4. LocksReleased' /\ TimerReset'
    OBVIOUS
  <2>5. KernelAlone' /\ OthersIdle'
    OBVIOUS
  <2>6. ContextsIntact' /\ ParkedHoldNothing'
    OBVIOUS
  <2>7. QED
    BY <2>1, <2>2, <2>3, <2>4, <2>5, <2>6
<1>18. CASE Toggle
  <2> USE <1>18 DEF Toggle
  <2>1. TypeOK'
    OBVIOUS
  <2>2. ListSound'
    OBVIOUS
  <2>3. KernelRuns' /\ Bookkeeping' /\ WalkIsPast'
    OBVIOUS
  <2>4. LocksReleased' /\ TimerReset'
    OBVIOUS
  <2>5. KernelAlone' /\ OthersIdle'
    OBVIOUS
  <2>6. ContextsIntact' /\ ParkedHoldNothing'
    OBVIOUS
  <2>7. QED
    BY <2>1, <2>2, <2>3, <2>4, <2>5, <2>6
<1>19. CASE LoadCopy
  BY <1>19 DEF LoadCopy
<1>20. CASE LoadPublish
  <2> USE <1>20 DEF LoadPublish
  <2>1. TypeOK'
    <3>1. threads' \in Seq(Threads) /\ copy' \in Seq(Threads)
      BY PublishFacts
    <3>2. at' \in [Threads -> {"run", "yield", "returned", "create", "copied",
                              "loaded", "starting", "found", "killing"}]
      OBVIOUS
    <3>3. QED
      BY <3>1, <3>2
  <2>2. ListSound'
    BY PublishFacts
  <2>3. KernelRuns' /\ Bookkeeping' /\ WalkIsPast'
    OBVIOUS
  <2>4. LocksReleased' /\ TimerReset'
    OBVIOUS
  <2>5. KernelAlone' /\ OthersIdle'
    OBVIOUS
  <2>6. ContextsIntact' /\ ParkedHoldNothing'
    OBVIOUS
  <2>7. QED
    BY <2>1, <2>2, <2>3, <2>4, <2>5, <2>6
<1>21. CASE StartEnter
  BY <1>21 DEF StartEnter
<1>22. CASE StartLeave
  <2> USE <1>22 DEF StartLeave
  <2>1. TypeOK'
    OBVIOUS
  <2>2. ListSound'
    OBVIOUS
  <2>3. KernelRuns' /\ Bookkeeping' /\ WalkIsPast'
    OBVIOUS
  <2>4. LocksReleased' /\ TimerReset'
    OBVIOUS
  <2>5. KernelAlone' /\ OthersIdle'
    OBVIOUS
  <2>6. ContextsIntact' /\ ParkedHoldNothing'
    OBVIOUS
  <2>7. QED
    BY <2>1, <2>2, <2>3, <2>4, <2>5, <2>6
<1>23. CASE KillEnter
  BY <1>23 DEF KillEnter
<1>24. CASE KillLeave
  <2> USE <1>24 DEF KillLeave
  <2>1. TypeOK'
    OBVIOUS
  <2>2. ListSound'
    OBVIOUS
  <2>3. KernelRuns' /\ Bookkeeping' /\ WalkIsPast'
    OBVIOUS
  <2>4. LocksReleased' /\ TimerReset'
    OBVIOUS
  <2>5. KernelAlone' /\ OthersIdle'
    OBVIOUS
  <2>6. ContextsIntact' /\ ParkedHoldNothing'
    OBVIOUS
  <2>7. QED
    BY <2>1, <2>2, <2>3, <2>4, <2>5, <2>6
<1>25. ASSUME NEW t \in Threads, Create(t) PROVE IInv'
  BY <1>25 DEF Create
<1>26. ASSUME NEW t \in Threads, KillFind(t) PROVE IInv'
  BY <1>26 DEF KillFind
<1>27. CASE UNCHANGED vars
  BY <1>27 DEF vars
<1>28. QED
  BY <1>1, <1>2, <1>3, <1>4, <1>5, <1>6, <1>7, <1>8, <1>9, <1>10, <1>11, <1>12,
     <1>13, <1>14, <1>15, <1>16, <1>17, <1>18, <1>19, <1>20, <1>21, <1>22,
     <1>23, <1>24, <1>25, <1>26, <1>27
  DEF Next, Timer, Walk, Switch, Program, Kernel

-----------------------------------------------------------------------------
\* The inductive invariant holds in every reachable state.
LEMMA AlwaysIInv == Spec => []IInv
  BY InitIInv, NextIInv, PTL DEF Spec

\* Every variable keeps its type, whatever the threads and the timer do.
THEOREM TypeCorrect == Spec => []TypeOK
<1>1. IInv => TypeOK
  BY DEF IInv
<1>2. QED
  BY <1>1, AlwaysIInv, PTL

\* The task list stays free of duplicates and of freed records (scheduler.c:
\* 67-78, 93-116).
THEOREM ListAlwaysSound == Spec => []ListSound
<1>1. IInv => ListSound
  BY DEF IInv
<1>2. QED
  BY <1>1, AlwaysIInv, PTL

\* Whenever thread code runs, THIS_THREAD, _index and the stack in use belong
\* to the same allocated thread (scheduler.c:58-81, contextsw.asm).
THEOREM AlwaysCpuIsThis == Spec => []CpuIsThis
<1>1. IInv => CpuIsThis
  BY DEF IInv, Bookkeeping, CpuIsThis
<1>2. QED
  BY <1>1, AlwaysIInv, PTL

\* Saved contexts are never mixed up, but by a torn first dispatch, which only
\* a voluntary switch can suffer (contextsw.asm:5-38, scheduler.c:90).
THEOREM AlwaysContextsIntact == Spec => []ContextsIntact
<1>1. IInv => ContextsIntact
  BY DEF IInv
<1>2. QED
  BY <1>1, AlwaysIInv, PTL

\* lock() excludes every other thread, and no parked thread keeps the
\* scheduler locked (scheduler.c:61-65, 132-148, 203-213).
THEOREM LocksExclude == Spec => []ParkedHoldNothing
<1>1. IInv => ParkedHoldNothing
  BY DEF IInv
<1>2. QED
  BY <1>1, AlwaysIInv, PTL

\* What a kernel operation found stays allocated until it is written to.
THEOREM TargetsStay == Spec => []TargetsAllocated
<1>1. IInv => TargetsAllocated
  BY DEF IInv, KernelAlone, Busy, TargetsAllocated
<1>2. QED
  BY <1>1, AlwaysIInv, PTL

\* Nothing the scheduler keeps points to a freed record or to another thread than
\* the one it is about (scheduler.c:51-148, ptrlist.c:29-55).
THEOREM KernelAlwaysSound == Spec => []KernelSound
<1>1. ListSound /\ CpuIsThis /\ TargetsAllocated => KernelSound
  BY DEF KernelSound
<1>2. QED
  BY <1>1, ListAlwaysSound, AlwaysCpuIsThis, TargetsStay, PTL

-----------------------------------------------------------------------------
\* The CPU moves to RUNNING threads only: WalkPick looks at the state, and
\* WalkWrap takes the kernel thread, which nothing can kill.
THEOREM DispatchesRunning == Spec => OnlyRunningDispatched
<1>1. IInv /\ [Next]_vars => [cpu' # cpu => state[cpu'] = "RUNNING"]_vars
  <2> SUFFICES ASSUME IInv, Next, cpu' # cpu PROVE state[cpu'] = "RUNNING"
    OBVIOUS
  <2>1. SwitchBack \/ LoadStack
    BY DEF Next, Timer, Walk, Switch, Program, Kernel, Tick, TickRefused,
           TickPreempt, PopfTick, PopfTear, WalkWrap, WalkSkip, WalkUnload,
           WalkPick, SwitchNew, YieldCheck, YieldEnter, Lock, Unlock, Return,
           Toggle, Create, LoadCopy, LoadPublish, StartEnter, StartLeave,
           KillFind, KillEnter, KillLeave, cpuVars
  <2>2. CASE SwitchBack
    BY <2>2 DEF SwitchBack, Saved, IInv, TypeOK, Bookkeeping, ContextsIntact
  <2>3. CASE LoadStack
    BY <2>3 DEF LoadStack, IInv, TypeOK, Bookkeeping, ContextsIntact
  <2>4. QED
    BY <2>1, <2>2, <2>3
<1>2. QED
  BY <1>1, AlwaysIInv, PTL DEF Spec, OnlyRunningDispatched

-----------------------------------------------------------------------------
(* Every walk brings every thread nearer to its turn.                      *)

\* In a list without repetitions an entry has one place.
LEMMA PlaceIs ==
  ASSUME NEW s, IsInjective(s), NEW t, NEW p \in DOMAIN s, s[p] = t
  PROVE  (CHOOSE q \in DOMAIN s : s[q] = t) = p
BY DEF IsInjective

\* What a step does to places and waits, from what it does to list and index.
Kept(t)   == Pos(t)' = Pos(t) /\ Wait(t)' = Wait(t)
Nearer(t) == Pos(t)' < Pos(t) \/ (Pos(t)' = Pos(t) /\ Wait(t)' < Wait(t))

LEMMA WaitIs ==
  ASSUME NEW t, NEW p \in Nat, NEW q \in Nat, Pos(t) = p, Pos(t)' = q
  PROVE  /\ Wait(t) = IF p > At + 1 THEN p - 1 - At ELSE Len(threads) - At + p - 1
         /\ Wait(t)' = IF q > At' + 1 THEN q - 1 - At' ELSE Len(threads') - At' + q - 1
BY DEF Wait

LEMMA PlaceOfListed ==
  ASSUME IInv, NEW p \in 1 .. Len(threads)
  PROVE  Pos(threads[p]) = p
<1>1. IsInjective(threads) /\ p \in DOMAIN threads
  BY LenProperties DEF IInv, ListSound, TypeOK
<1>2. QED
  BY <1>1, PlaceIs DEF Pos

LEMMA SameListKeeps ==
  ASSUME UNCHANGED <<threads, index>>
  PROVE  \A t : Kept(t)
BY DEF Kept, Pos, Wait, At

\* A load appends behind everybody while the kernel thread, first of the list,
\* is on the CPU.
LEMMA LoadKeeps ==
  ASSUME IInv, LoadPublish, NEW t \in ToSet(threads), t # cpu
  PROVE  Kept(t)
<1> USE TaskMgrAssumption
<1>1. /\ threads \in Seq(Threads) /\ Len(threads) \in Nat \ {0} /\ threads[1] = KThread
      /\ DOMAIN threads = 1 .. Len(threads) /\ index \in Nat
      /\ IsInjective(threads)
  BY LenProperties DEF IInv, TypeOK, ListSound
<1>2. cpu = KThread /\ phase = "code" /\ copy = threads /\ index' = index /\ arg \in Threads
  BY DEF LoadPublish, KernelAt, Running, IInv, KernelAlone, Busy, TypeOK
<1>3. index = 0
  <2>1. index + 1 \in DOMAIN threads /\ threads[index + 1] = KThread
    BY <1>1, <1>2 DEF IInv, Bookkeeping, Current
  <2>2. index + 1 = 1
    BY <1>1, <2>1 DEF IsInjective
  <2>3. QED
    BY <1>1, <2>2
<1>4. PICK p \in 1 .. Len(threads) : threads[p] = t
  BY <1>1 DEF ToSet
<1>5. p > 1
  BY <1>1, <1>2, <1>4
<1>6. /\ threads' = [j \in 1 .. Len(threads) + 1 |->
                       IF j = Len(threads) + 1 THEN arg ELSE threads[j]]
      /\ arg \notin ToSet(threads)
  <2>1. Pending /\ at[KThread] = "copied"
    BY DEF LoadPublish, KernelAt, Running, Pending
  <2>2. QED
    BY <1>2, <2>1 DEF LoadPublish, IInv, ListSound
<1>7. threads' \in Seq(Threads) /\ Len(threads') = Len(threads) + 1
  <2> DEFINE N == Len(threads) + 1
  <2>1. N \in Nat /\ \A j \in 1 .. N : (IF j = N THEN arg ELSE threads[j]) \in Threads
    BY <1>1, <1>2, ElementOfSeq
  <2>2. threads' = [j \in 1 .. N |-> IF j = N THEN arg ELSE threads[j]]
    BY <1>6
  <2> HIDE DEF N
  <2>3. threads' \in Seq(Threads) /\ Len(threads') = N
    BY <2>1, <2>2
  <2>4. QED
    BY <2>3 DEF N
<1>8. /\ IsInjective(threads') /\ p \in DOMAIN threads' /\ threads'[p] = t
  <2>1. DOMAIN threads' = 1 .. Len(threads) + 1 /\ threads'[Len(threads) + 1] = arg
        /\ \A j \in 1 .. Len(threads) : threads'[j] = threads[j]
    BY <1>1, <1>6
  <2>2. \A j \in 1 .. Len(threads) : threads[j] # arg
    BY <1>1, <1>6 DEF ToSet
  <2>3. ASSUME NEW j \in 1 .. Len(threads) + 1, NEW k \in 1 .. Len(threads) + 1,
               threads'[j] = threads'[k]
        PROVE  j = k
    <3>1. CASE j = Len(threads) + 1
      BY <1>1, <2>1, <2>2, <2>3, <3>1
    <3>2. CASE k = Len(threads) + 1
      BY <1>1, <2>1, <2>2, <2>3, <3>2
    <3>3. CASE j \in 1 .. Len(threads) /\ k \in 1 .. Len(threads)
      BY <1>1, <2>1, <2>3, <3>3 DEF IsInjective
    <3>4. QED
      BY <1>1, <3>1, <3>2, <3>3
  <2>4. QED
    BY <1>1, <1>4, <2>1, <2>3 DEF IsInjective
<1>9. Pos(t) = p /\ Pos(t)' = p
  <2>1. Pos(t)' = p
    BY <1>8, PlaceIs DEF Pos
  <2>2. QED
    BY <2>1, <1>4, PlaceOfListed
<1>10. QED
  <2>1. At = 0 /\ At' = 0
    BY <1>1, <1>2, <1>3, <1>7 DEF At
  <2>2. Wait(t) = p - 1 /\ Wait(t)' = p - 1
    <3>1. /\ Wait(t) = IF p > At + 1 THEN p - 1 - At ELSE Len(threads) - At + p - 1
          /\ Wait(t)' = IF p > At' + 1 THEN p - 1 - At' ELSE Len(threads') - At' + p - 1
      BY <1>9, WaitIs
    <3>2. QED
      BY <1>5, <2>1, <3>1
  <2>3. QED
    BY <1>9, <2>2 DEF Kept

\* A round that changes nothing but _index, or only leaves the loop.
LEMMA RoundNearer ==
  ASSUME IInv, phase = "walk", threads' = threads,
         index' = (IF index + 1 < Len(threads) THEN index + 1 ELSE 0),
         NEW t \in ToSet(threads), t # Looked
  PROVE  Nearer(t)
<1>1. /\ Len(threads) \in Nat \ {0} /\ DOMAIN threads = 1 .. Len(threads) /\ index \in Nat
      /\ index <= Len(threads)
  BY LenProperties DEF IInv, TypeOK, ListSound, Bookkeeping
<1>2. PICK p \in 1 .. Len(threads) : threads[p] = t
  BY <1>1 DEF ToSet
<1>3. Pos(t) = p /\ Pos(t)' = p
  BY <1>2, PlaceOfListed DEF Pos
<1>4. IF index + 1 < Len(threads) THEN p # index + 2 ELSE p # 1
  BY <1>2 DEF Looked, Candidate
<1>5. Wait(t)' < Wait(t)
  <2>1. At' = IF index + 1 < Len(threads) THEN index + 1 ELSE 0
    BY <1>1 DEF At
  <2>2. At = IF index < Len(threads) THEN index ELSE Len(threads) - 1
    BY DEF At
  <2>3. /\ Wait(t) = IF p > At + 1 THEN p - 1 - At ELSE Len(threads) - At + p - 1
        /\ Wait(t)' = IF p > At' + 1 THEN p - 1 - At' ELSE Len(threads) - At' + p - 1
    BY <1>3, WaitIs
  <2>4. QED
    <3>1. CASE index + 1 < Len(threads)
      <4>1. At = index /\ At' = index + 1 /\ p # index + 2
        <5>1. index < Len(threads)
          BY <1>1, <3>1
        <5>2. QED
          BY <1>4, <2>1, <2>2, <3>1, <5>1
      <4>2. /\ Wait(t) = IF p > index + 1 THEN p - 1 - index ELSE Len(threads) - index + p - 1
            /\ Wait(t)' = IF p > index + 1 + 1 THEN p - 1 - (index + 1)
                                              ELSE Len(threads) - (index + 1) + p - 1
        BY <2>3, <4>1
      <4>3. QED
        BY <1>1, <4>1, <4>2
    <3>2. CASE index + 1 >= Len(threads)
      <4>1. At = Len(threads) - 1 /\ At' = 0 /\ p # 1
        <5>1. ~(index + 1 < Len(threads)) /\ (index < Len(threads) => index = Len(threads) - 1)
          <6>1. index \in Nat /\ Len(threads) \in Nat
            BY <1>1
          <6>2. QED
            BY <3>2, <6>1
        <5>2. QED
          BY <1>4, <2>1, <2>2, <5>1
      <4>2. Wait(t) = p /\ Wait(t)' = p - 1
        BY <1>1, <2>3, <4>1
      <4>3. QED
        BY <4>2
    <3>3. QED
      BY <1>1, <3>1, <3>2
<1>6. QED
  BY <1>3, <1>5 DEF Nearer

\* A round that unloads: the entries behind the unloaded one move up.
LEMMA UnloadNearer ==
  ASSUME IInv, WalkUnload, NEW t \in ToSet(threads), t # Looked
  PROVE  Nearer(t)
<1>1. /\ threads \in Seq(Threads) /\ Len(threads) \in Nat \ {0} /\ index \in Nat
      /\ DOMAIN threads = 1 .. Len(threads) /\ IsInjective(threads)
      /\ phase = "walk" /\ index + 1 < Len(threads) /\ index' = index + 1
      /\ Looked = Candidate
  BY LenProperties DEF IInv, TypeOK, ListSound, WalkUnload, Looked
<1>2. PICK p \in 1 .. Len(threads) : threads[p] = t
  BY <1>1 DEF ToSet
<1>3. p # index + 2
  BY <1>1, <1>2 DEF Candidate
<1>4. /\ Len(threads') = Len(threads) - 1
      /\ \A i \in 1 .. Len(threads) - 1 :
           threads'[i] = IF i < index + 2 THEN threads[i] ELSE threads[i + 1]
      /\ IsInjective(threads') /\ threads' \in Seq(Threads)
  BY UnloadFacts DEF IInv
<1>5. Pos(t) = p
  BY <1>2, PlaceOfListed
<1>6. DOMAIN threads' = 1 .. Len(threads) - 1
  BY <1>1, <1>4, LenProperties
<1>7. CASE p > index + 2
  <2>1. p - 1 \in DOMAIN threads' /\ threads'[p - 1] = t
    BY <1>1, <1>2, <1>4, <1>6, <1>7
  <2>2. Pos(t)' = p - 1
    BY <2>1, <1>4, PlaceIs DEF Pos
  <2>3. QED
    BY <1>5, <2>2 DEF Nearer
<1>8. CASE p < index + 2
  <2>1. p \in DOMAIN threads' /\ threads'[p] = t
    BY <1>1, <1>2, <1>4, <1>6, <1>8
  <2>2. Pos(t)' = p
    BY <2>1, <1>4, PlaceIs DEF Pos
  <2>3. Wait(t)' < Wait(t)
    <3>1. At' = IF index + 1 < Len(threads) - 1 THEN index + 1 ELSE index
      BY <1>1, <1>4 DEF At
    <3>2. At = index
      <4>1. index < Len(threads)
        BY <1>1
      <4>2. QED
        BY <4>1 DEF At
    <3>3. /\ Wait(t) = Len(threads) - index + p - 1
          /\ Wait(t)' = (Len(threads) - 1) - At' + p - 1
      <4>1. p \in Nat /\ At' >= index /\ ~(p > At + 1) /\ ~(p > At' + 1)
        BY <1>1, <1>2, <1>3, <1>8, <3>1, <3>2
      <4>2. /\ Wait(t) = IF p > At + 1 THEN p - 1 - At ELSE Len(threads) - At + p - 1
            /\ Wait(t)' = IF p > At' + 1 THEN p - 1 - At' ELSE Len(threads') - At' + p - 1
        BY <4>1, <1>5, <2>2, WaitIs
      <4>3. QED
        BY <1>4, <3>2, <4>1, <4>2
    <3>4. QED
      BY <1>1, <3>1, <3>3
  <2>4. QED
    BY <1>5, <2>2, <2>3 DEF Nearer
<1>9. QED
  BY <1>1, <1>2, <1>3, <1>7, <1>8

\* No thread is set back: in each round of the walk a listed thread is looked at,
\* and then runs if it can, or comes nearer to it; and what happens between two
\* walks leaves everybody's place and wait alone (scheduler.c:51-78,
\* ptrlist.c:21-55).
THEOREM TurnsComeNearer == Spec => NearerTurn
<1> DEFINE Turn == \A t \in ToSet(threads) \cap ToSet(threads') :
                     IF phase = "walk"
                       THEN IF t = Looked
                              THEN /\ state[t] # "TERMINATED"
                                   /\ state[t] = "RUNNING" => phase' = "switch" /\ next' = t
                              ELSE Nearer(t)
                       ELSE t # cpu => Kept(t)
<1>1. IInv /\ [Next]_vars => [Turn]_vars
  <2> SUFFICES ASSUME IInv, Next PROVE Turn
    OBVIOUS
  <2> USE DEF cpuVars, taskVars
  <2>1. /\ Len(threads) \in Nat /\ index \in Nat /\ index <= Len(threads)
        /\ phase = "code" => index < Len(threads)
    BY LenProperties DEF IInv, TypeOK, Bookkeeping
  <2>2. ASSUME UNCHANGED <<threads, index>>, phase # "walk" PROVE Turn
    BY <2>2, SameListKeeps
  <2>3. ASSUME phase = "walk", threads' = threads,
               index' = (IF index + 1 < Len(threads) THEN index + 1 ELSE 0),
               state[Looked] # "TERMINATED",
               state[Looked] = "RUNNING" => phase' = "switch" /\ next' = Looked
        PROVE  Turn
    BY <2>3, RoundNearer
  <2>4. CASE WalkWrap
    <3>1. state[Looked] = "RUNNING"
      BY <2>1, <2>4 DEF WalkWrap, Looked, IInv, ListSound, KernelRuns
    <3>2. QED
      BY <2>1, <2>3, <2>4, <3>1 DEF WalkWrap, Looked
  <2>5. CASE WalkSkip
    BY <2>1, <2>3, <2>5 DEF WalkSkip, Looked
  <2>6. CASE WalkPick
    BY <2>1, <2>3, <2>6 DEF WalkPick, Looked
  <2>7. CASE WalkUnload
    <3>1. phase = "walk" /\ Looked = Candidate
      BY <2>7 DEF WalkUnload, Looked
    <3>2. Looked \notin ToSet(threads')
      BY <2>7, <3>1, UnloadFacts DEF IInv
    <3>3. QED
      BY <2>7, <3>1, <3>2, UnloadNearer
  <2>8. CASE LoadPublish
    <3>1. phase # "walk"
      BY <2>8 DEF LoadPublish, KernelAt, Running
    <3>2. QED
      BY <2>8, <3>1, LoadKeeps
  <2>9. CASE Timer
    BY <2>1, <2>2, <2>9 DEF Timer, Tick, TickRefused, TickPreempt, PopfTick, PopfTear
  <2>10. CASE Switch
    BY <2>2, <2>10 DEF Switch, SwitchBack, SwitchNew, LoadStack
  <2>11. CASE Program
    BY <2>2, <2>11 DEF Program, YieldCheck, YieldEnter, Lock, Unlock, Return, Running
  <2>12. CASE Kernel /\ ~LoadPublish
    BY <2>2, <2>12 DEF Kernel, Toggle, Create, LoadCopy, StartEnter, StartLeave,
           KillFind, KillEnter, KillLeave, KernelAt, Running
  <2>13. QED
    BY <2>4, <2>5, <2>6, <2>7, <2>8, <2>9, <2>10, <2>11, <2>12 DEF Next, Walk
<1>2. [Turn]_vars =>
        [\A t \in ToSet(threads) \cap ToSet(threads') :
           IF phase = "walk"
             THEN IF t = Looked
                    THEN /\ state[t] # "TERMINATED"
                         /\ state[t] = "RUNNING" => phase' = "switch" /\ next' = t
                    ELSE \/ Pos(t)' < Pos(t)
                         \/ Pos(t)' = Pos(t) /\ Wait(t)' < Wait(t)
             ELSE t # cpu => Pos(t)' = Pos(t) /\ Wait(t)' = Wait(t)]_vars
  BY DEF Nearer, Kept
<1>3. QED
  BY <1>1, <1>2, AlwaysIInv, PTL DEF Spec, NearerTurn

-----------------------------------------------------------------------------
(* Refinement of Dispatch.                                                 *)

pool == ToSet(threads)

\* A thread is in the pool iff it is allocated and not being loaded.
LEMMA PoolMembers ==
  ASSUME ListSound, NEW t \in Threads
  PROVE  t \in pool <=> state[t] # "FREE" /\ ~(Pending /\ t = arg)
BY DEF ListSound, pool

LEMMA StepRefines ==
  IInv /\ [Next]_vars => [Abstract!Next]_(Abstract!vars)
<1> SUFFICES ASSUME IInv, [Next]_vars
             PROVE  Abstract!Next \/ UNCHANGED Abstract!vars
  OBVIOUS
<1> USE TaskMgrAssumption DEF cpuVars, taskVars
<1>a. ASSUME UNCHANGED <<cpu, threads, state, tlock>>
      PROVE  UNCHANGED Abstract!vars
  BY <1>a DEF Abstract!vars
<1>b. /\ cpu \in Threads /\ KThread \in Threads
      /\ \A t \in ToSet(threads) : t \in Threads
      /\ Len(threads) \in Nat
      /\ \A i \in 1 .. Len(threads) : threads[i] \in ToSet(threads)
  BY LenProperties, ElementOfSeq DEF IInv, TypeOK, ToSet
<1> USE <1>b
<1>1. CASE Tick
  BY <1>a, <1>1 DEF Tick
<1>2. CASE TickRefused
  BY <1>a, <1>2 DEF TickRefused
<1>3. CASE TickPreempt
  BY <1>a, <1>3 DEF TickPreempt
<1>4. CASE PopfTick
  BY <1>a, <1>4 DEF PopfTick
<1>5. CASE PopfTear
  BY <1>a, <1>5 DEF PopfTear
<1>6. CASE WalkWrap
  BY <1>a, <1>6 DEF WalkWrap
<1>7. CASE WalkSkip
  BY <1>a, <1>7 DEF WalkSkip
<1>8. CASE WalkPick
  BY <1>a, <1>8 DEF WalkPick
<1>9. CASE SwitchNew
  BY <1>a, <1>9 DEF SwitchNew
<1>10. CASE YieldCheck
  BY <1>a, <1>10 DEF YieldCheck
<1>11. CASE Toggle
  BY <1>a, <1>11 DEF Toggle
<1>12. CASE LoadCopy
  BY <1>a, <1>12 DEF LoadCopy
<1>13. CASE StartEnter
  BY <1>a, <1>13 DEF StartEnter
<1>14. CASE KillEnter
  BY <1>a, <1>14 DEF KillEnter
<1>15. CASE WalkUnload
  <2>1. /\ Candidate # KThread /\ ToSet(threads') = ToSet(threads) \ {Candidate}
        /\ state' = [state EXCEPT ![Candidate] = "FREE"]
        /\ UNCHANGED <<cpu, tlock>>
    BY <1>15, UnloadFacts DEF IInv, WalkUnload
  <2>2. /\ index + 2 \in 1 .. Len(threads) /\ phase = "walk"
        /\ state[Candidate] = "TERMINATED"
    BY <1>15 DEF WalkUnload, IInv, TypeOK
  <2>3. Candidate \in ToSet(threads) /\ Candidate # cpu
    BY <2>2 DEF IInv, WalkIsPast, Candidate
  <2>4. \E t \in Threads : Abstract!Reclaim(t)
    <3>1. PICK c \in Threads : c = Candidate
      BY <2>3
    <3>2. Abstract!Reclaim(c)
      BY <2>1, <2>2, <2>3, <3>1 DEF Abstract!Reclaim, IInv, TypeOK
    <3>3. QED
      BY <3>2
  <2>5. QED
    BY <2>4 DEF Abstract!Next
<1>16. CASE SwitchBack
  <2>1. /\ cpu' = next /\ next \in ToSet(threads) /\ state[next] = "RUNNING"
        /\ ~tlock[cpu] /\ UNCHANGED <<threads, state, tlock>>
    BY <1>16 DEF SwitchBack, Saved, IInv, TypeOK, Bookkeeping, ContextsIntact,
                 LocksReleased, Current
  <2>2. Abstract!Switch(next)
    BY <2>1 DEF Abstract!Switch
  <2>3. QED
    BY <2>1, <2>2 DEF Abstract!Next
<1>17. CASE LoadStack
  <2>1. /\ cpu' = this /\ this \in ToSet(threads) /\ state[this] = "RUNNING"
        /\ ~tlock[cpu] /\ UNCHANGED <<threads, state, tlock>>
    BY <1>17 DEF LoadStack, IInv, TypeOK, Bookkeeping, ContextsIntact,
                 LocksReleased, Current
  <2>2. Abstract!Switch(this)
    BY <2>1 DEF Abstract!Switch
  <2>3. QED
    BY <2>1, <2>2 DEF Abstract!Next
<1>18. ASSUME NEW b \in BOOLEAN, tlock' = [tlock EXCEPT ![cpu] = b],
              UNCHANGED <<cpu, threads, state>>
       PROVE  Abstract!Next
  <2>1. Abstract!Hold(b)
    BY <1>18 DEF Abstract!Hold
  <2>2. QED
    BY <2>1 DEF Abstract!Next
<1>19. CASE YieldEnter
  BY <1>18, <1>19 DEF YieldEnter, EnterWalk, IInv, Bookkeeping
<1>20. CASE Lock
  BY <1>18, <1>20 DEF Lock, Running, IInv, Bookkeeping
<1>21. CASE Unlock
  BY <1>18, <1>21 DEF Unlock, Running, IInv, Bookkeeping
<1>22. ASSUME NEW t \in ToSet(threads) \ {KThread},
              state' = [state EXCEPT ![t] = "TERMINATED"],
              UNCHANGED <<cpu, threads, tlock>>
       PROVE  Abstract!Next
  <2>1. Abstract!Kill(t)
    BY <1>22 DEF Abstract!Kill, IInv, TypeOK
  <2>2. QED
    BY <2>1 DEF Abstract!Next
<1>23. CASE Return
  <2>1. this \in ToSet(threads) \ {KThread}
    BY <1>23 DEF Return, Running, IInv, Bookkeeping, TypeOK, Current
  <2>2. QED
    BY <2>1, <1>22, <1>23 DEF Return
<1>24. CASE KillLeave
  <2>1. arg \in ToSet(threads) \ {KThread}
    BY <1>24, PoolMembers
    DEF KillLeave, KernelAt, Running, IInv, TypeOK, KernelAlone, Busy, Pending,
        pool
  <2>2. QED
    BY <2>1, <1>22, <1>24 DEF KillLeave
<1>25. CASE StartLeave
  <2>1. state[arg] = "HALTED"
    BY <1>25 DEF StartLeave, KernelAt, Running, IInv, KernelAlone, Busy
  <2>2. {t \in ToSet(threads) : state'[t] = "TERMINATED"}
          = {t \in ToSet(threads) : state[t] = "TERMINATED"}
    BY <1>25, <2>1 DEF StartLeave, IInv, TypeOK
  <2>3. QED
    BY <1>25, <2>2 DEF StartLeave, Abstract!vars
<1>26. CASE LoadPublish
  <2>1. ListSound' /\ ListSound
    BY <1>26, PublishFacts DEF IInv
  <2>2. /\ Pending /\ ~Pending' /\ state[arg] = "HALTED" /\ arg \in Threads
        /\ UNCHANGED <<cpu, state, tlock, arg>>
    BY <1>26 DEF LoadPublish, KernelAt, KernelGoes, Running, Pending, IInv,
                 TypeOK, KernelAlone, Busy
  <2>3. ToSet(threads') = ToSet(threads) \cup {arg} /\ arg \notin ToSet(threads)
    BY <2>1, <2>2 DEF ListSound
  <2>4. Abstract!Admit(arg)
    BY <2>2, <2>3 DEF Abstract!Admit
  <2>5. QED
    BY <2>2, <2>4 DEF Abstract!Next
<1>27. ASSUME NEW t \in Threads, Create(t) PROVE UNCHANGED Abstract!vars
  <2>1. t \notin ToSet(threads) /\ t # cpu
    BY <1>27, PoolMembers DEF Create, IInv, Bookkeeping, pool
  <2>2. tlock' = tlock
    BY <1>27, <2>1 DEF Create, IInv, TypeOK, ParkedHoldNothing
  <2>3. {u \in ToSet(threads) : state'[u] = "TERMINATED"}
          = {u \in ToSet(threads) : state[u] = "TERMINATED"}
    BY <1>27, <2>1 DEF Create, IInv, TypeOK
  <2>4. QED
    BY <1>27, <2>2, <2>3 DEF Create, Abstract!vars
<1>28. ASSUME NEW t \in Threads, KillFind(t) PROVE UNCHANGED Abstract!vars
  BY <1>a, <1>28 DEF KillFind
<1>29. CASE UNCHANGED vars
  BY <1>a, <1>29 DEF vars
<1>30. QED
  BY <1>1, <1>2, <1>3, <1>4, <1>5, <1>6, <1>7, <1>8, <1>9, <1>10, <1>11, <1>12,
     <1>13, <1>14, <1>15, <1>16, <1>17, <1>19, <1>20, <1>21, <1>23, <1>24,
     <1>25, <1>26, <1>27, <1>28, <1>29
  DEF Next, Timer, Walk, Switch, Program, Kernel

\* The task manager implements Dispatch: the CPU changes hands only while its
\* owner is unlocked and only to live threads, and the dead stay dead.
THEOREM Implements == Spec => ImplementsDispatch
<1>1. Init => Abstract!Init
  <2> SUFFICES ASSUME Init PROVE Abstract!Init
    OBVIOUS
  <2>1. ToSet(threads) = {KThread}
    BY DEF Init, ToSet
  <2>2. QED
    BY <2>1, TaskMgrAssumption DEF Init, Abstract!Init
<1>2. QED
  BY <1>1, StepRefines, AlwaysIInv, PTL
  DEF Spec, ImplementsDispatch, Abstract!Spec
=============================================================================
