----------------------------- MODULE ShellProofs -----------------------------
(***************************************************************************)
(* Proofs about keyboard, shell and editors, for every set of editors and   *)
(* of keys, every length of the controller's queue and every number of key  *)
(* strokes.  The inductive invariant is IInv; it has one part for the       *)
(* threads and their locks, one for the keys and one for the lines.         *)
(***************************************************************************)
EXTENDS Shell, SequenceTheorems, TLAPS

ShellPlaces == {"lock", "setstate", "poll", "split", "run", "free", "clear", "keyup", "unlock"}
GcPlaces == {"idle", "collect", "dead", "gone"}
EditorPlaces == {"none", "exists", "init", "lock", "loop", "dead", "gone"}

WellTyped ==
  /\ TypeOK
  /\ seen \in Nat /\ enters \in Nat /\ runs \in Nat
  /\ ran \in Seq(Nat)

Places ==
  /\ pc[SHELL] \in ShellPlaces
  /\ pc[GC] \in GcPlaces
  /\ \A e \in Editors : pc[e] \in EditorPlaces

\* A thread holds its lock at certain places only, and then it is the one that runs.
LocksHeld ==
  /\ SHELL \in locked <=> pc[SHELL] # "lock"
  /\ GC \in locked <=> pc[GC] = "collect"
  /\ \A e \in Editors : e \in locked <=> pc[e] = "loop"
  /\ locked \subseteq {cpu}

\* An editor that has the keyboard is in its loop.
OwnerLoops == state \in Editors => pc[state] = "loop"

\* What is on its way from the keyboard ends with what each key does now.
LastCodes ==
  \A k \in Keys \ lost, i \in 1..Len(queue) :
    queue[i].key = k /\ (\A j \in i + 1 .. Len(queue) : queue[j].key # k)
      => (queue[i].make <=> k \in down)

\* While Enter is down and the shell has not noticed, it has a line to execute.
EntersLeft ==
  /\ runs <= enters
  /\ ENTER \in keymap /\ ~process => runs < enters

\* The characters of the line came in order, behind those that were executed, except
\* while a command runs: then the line is the one that is executed, with what came
\* since.
LineGrows ==
  /\ \A i, j \in 1..Len(line[SHELL]) : i < j => line[SHELL][i].n < line[SHELL][j].n
  /\ \A i \in 1..Len(line[SHELL]) : line[SHELL][i].n < seen
  /\ \A i \in 1..Len(ran) : ran[i] < seen
  /\ pc[SHELL] \notin {"run", "free", "clear"} =>
       \A i \in 1..Len(ran), j \in 1..Len(line[SHELL]) : ran[i] < line[SHELL][j].n

\* What Clear is about to wipe was executed or came late.
WipeIsSafe ==
  pc[SHELL] \in {"run", "free", "clear"} => Numbers(line[SHELL]) \subseteq Range(ran) \cup late

ThreadsInv ==
  Places /\ LocksHeld /\ OwnerLoops /\ IrqHeapAlone /\ UnloadIsAlone /\ HalvedIsEditorStart
KeysInv == LastCodes /\ KeyboardFollows
LinesInv == EntersLeft /\ LineGrows /\ NeverTwice /\ WipeIsSafe /\ WipedOnlyLate
IInv == WellTyped /\ ThreadsInv /\ KeysInv /\ LinesInv

-----------------------------------------------------------------------------
(* Who changes what. *)

\* Steps of the shell, the editors and the collector, and what they leave alone.
Code == ShellStep \/ (\E e \in Editors : EditorStep(e)) \/ GcStep

LEMMA NextCases ==
  Next <=> Type \/ ShellKeyIrq \/ Preempt \/ Code
BY DEF Next, Code

\* Only two steps of code touch the keyboard: the taking of the keyboard and Clear.
LEMMA CodeKeyboard ==
  Code => \/ UNCHANGED <<person, kbd>>
          \/ \E c \in Consumers : SetState(c)
          \/ Clear
<1> SUFFICES ASSUME Code
             PROVE  \/ UNCHANGED <<person, kbd>>
                    \/ \E c \in Consumers : SetState(c)
                    \/ Clear
  OBVIOUS
<1>1. SHELL \in Consumers /\ Editors \subseteq Consumers
  BY ShellAssumption
<1>2. CASE ShellStep
  BY <1>1, <1>2 DEF ShellStep, ShellLock, ShellSetState, Poll, Split, RunOther, RunTxtedit,
     RunKill, FreeParts, KeyUp, ShellUnlock, NoKeyboard
<1>3. CASE \E e \in Editors : EditorStep(e)
  BY <1>1, <1>3 DEF EditorStep, EditorExists, EditorInit, EditorLock, EditorLoop, NoKeyboard
<1>4. CASE GcStep
  BY <1>4 DEF GcStep, GcLock, GcYield, NoKeyboard
<1>5. QED
  BY <1>2, <1>3, <1>4 DEF Code

-----------------------------------------------------------------------------
(* Types. *)

LEMMA ThreadsDiffer ==
  /\ Threads = {SHELL, GC} \cup Editors
  /\ SHELL # GC /\ SHELL \notin Editors /\ GC \notin Editors
  /\ SHELL \in Consumers /\ Editors \subseteq Consumers
BY ShellAssumption DEF Threads

LEMMA InitTypes == Init => WellTyped
<1> SUFFICES ASSUME Init PROVE WellTyped
  OBVIOUS
<1>1. KeyboardTypeOK /\ seen \in Nat
  BY KeyboardAssumption DEF Init, KeyboardInit, KeyboardTypeOK, Shifts
<1>2. pc \in [Threads -> HeapSteps \cup {"none", "lock", "setstate", "poll", "clear", "keyup",
                                       "unlock", "init", "loop", "idle", "dead", "gone"}]
  BY DEF Init
<1>3. cpu \in Threads /\ locked \subseteq Threads
  BY ThreadsDiffer DEF Init
<1>4. cmd \in Seq(Chars) /\ ran \in Seq(Nat) /\ enters \in Nat /\ runs \in Nat
  BY DEF Init
<1>5. ready \subseteq Editors /\ process \in BOOLEAN /\ clash \cup ticked \cup halved \subseteq Threads
  BY DEF Init
<1>6. QED
  BY <1>1, <1>2, <1>3, <1>4, <1>5 DEF WellTyped, TypeOK

\* The handler's text: one character more, one less, or the same.
LEMMA LineCases ==
  ASSUME KeyboardTypeOK, seen \in Nat, NEW c \in Codes, NEW w \in Consumers
  PROVE  /\ LineAfter(w, c) \in Seq(Chars)
         /\ \/ /\ Typed(w, c)
               /\ \E x \in Chars : x.n = seen /\ LineAfter(w, c) = Append(line[w], x)
            \/ /\ ~Typed(w, c)
               /\ LineAfter(w, c) = line[w]
            \/ /\ ~Typed(w, c)
               /\ line[w] # <<>> /\ LineAfter(w, c) = Front(line[w])
<1> DEFINE x == [key |-> c.key, upper |-> (mods[w].shift # {}) # mods[w].caps, n |-> seen]
<1>1. line[w] \in Seq(Chars) /\ c.key \in Keys /\ c.make \in BOOLEAN
  BY DEF KeyboardTypeOK, Codes
<1>2. x \in Chars /\ x.n = seen
  BY <1>1 DEF Chars
<1>3. CASE ~c.make \/ w \notin Buffered
  BY <1>1, <1>3 DEF LineAfter, Typed
<1>4. CASE ~(~c.make \/ w \notin Buffered) /\ c.key = BACKSPACE
  <2>1. ~Typed(w, c)
    BY <1>4 DEF Typed, Letters
  <2>2. LineAfter(w, c) = IF line[w] = <<>> THEN line[w] ELSE Front(line[w])
    BY <1>4 DEF LineAfter
  <2>3. line[w] # <<>> => Front(line[w]) \in Seq(Chars)
    BY <1>1 DEF Front
  <2>4. QED
    BY <2>1, <2>2, <2>3, <1>1
<1>5. CASE ~(~c.make \/ w \notin Buffered) /\ c.key # BACKSPACE /\ c.key \in Letters
  <2>1. LineAfter(w, c) = Append(line[w], x) /\ Typed(w, c)
    BY <1>5 DEF LineAfter, Typed
  <2>2. QED
    BY <2>1, <1>1, <1>2
<1>6. CASE ~(~c.make \/ w \notin Buffered) /\ c.key # BACKSPACE /\ c.key \notin Letters
  BY <1>6, <1>1 DEF LineAfter, Typed
<1>7. QED
  BY <1>3, <1>4, <1>5, <1>6

\* What the person and the interrupt handler do to the keyboard's variables keeps their
\* types, and so do SetState and Clear.
LEMMA PersonTypes ==
  ASSUME KeyboardTypeOK, seen \in Nat, Person
  PROVE  KeyboardTypeOK' /\ seen' \in Nat
<1> PICK k \in Keys : Press(k) \/ Release(k)
  BY DEF Person
<1>1. PICK m \in BOOLEAN : Send(k, m)
  BY DEF Press, Release
<1>2. [key |-> k, make |-> m] \in Codes
  BY DEF Codes
<1>3. queue' \in Seq(Codes) /\ Len(queue') <= QueueMax
  <2> DEFINE x == [key |-> k, make |-> m]
  <2>1. queue \in Seq(Codes) /\ Len(queue) \in Nat /\ Len(queue) <= QueueMax /\ QueueMax \in Nat
    BY KeyboardAssumption DEF KeyboardTypeOK
  <2>2. queue' = queue \/ (Len(queue) < QueueMax /\ queue' = Append(queue, x))
    BY <1>1 DEF Send
  <2>3. Append(queue, x) \in Seq(Codes) /\ Len(Append(queue, x)) = Len(queue) + 1
    BY <1>2, <2>1, AppendProperties
  <2> HIDE DEF x
  <2>4. QED
    BY <2>1, <2>2, <2>3
<1>4. lost' \subseteq Keys
  <2>1. lost' = lost \ {k} \/ lost' = lost \cup {k}
    BY <1>1 DEF Send
  <2>2. QED
    BY <2>1 DEF KeyboardTypeOK
<1>5. down' \subseteq Keys
  BY DEF Press, Release, KeyboardTypeOK
<1>6. UNCHANGED kbd
  BY <1>1 DEF Send
<1>7. QED
  BY <1>3, <1>4, <1>5, <1>6 DEF KeyboardTypeOK, kbd

LEMMA IrqTypes ==
  ASSUME KeyboardTypeOK, seen \in Nat, KeyIrq
  PROVE  KeyboardTypeOK' /\ seen' \in Nat
<1> DEFINE c == Head(queue)
<1>1. c \in Codes /\ queue' \in Seq(Codes) /\ Len(queue') <= QueueMax
  BY KeyboardAssumption DEF KeyIrq, KeyboardTypeOK
<1>2. c.key \in Keys /\ c.make \in BOOLEAN
  BY <1>1 DEF Codes
<1> HIDE DEF c
<1>3. keymap' \subseteq Keys
  BY <1>2 DEF KeyIrq, KeymapAfter, KeyboardTypeOK, c
<1>4. missed' \in [Consumers -> SUBSET Shifts]
  BY <1>2 DEF KeyIrq, KeyboardTypeOK, c
<1>5. mods' \in [Consumers -> [shift : SUBSET Shifts, caps : BOOLEAN]]
  <2>1. CASE state = NULL
    BY <2>1 DEF KeyIrq, KeyboardTypeOK
  <2>2. CASE state # NULL
    <3>1. state \in Consumers /\ mods[state] \in [shift : SUBSET Shifts, caps : BOOLEAN]
      BY <2>2 DEF KeyboardTypeOK
    <3>2. ShiftAfter(mods[state].shift, c) \in SUBSET Shifts
      BY <3>1 DEF ShiftAfter
    <3>3. CapsAfter(mods[state].caps, c) \in BOOLEAN
      BY <3>1 DEF CapsAfter
    <3>4. mods' = [mods EXCEPT ![state] = [shift |-> ShiftAfter(mods[state].shift, c),
                                           caps |-> CapsAfter(mods[state].caps, c)]]
      BY <2>2, <3>1 DEF KeyIrq, KeyboardTypeOK, c
    <3>5. QED
      BY <3>2, <3>3, <3>4 DEF KeyboardTypeOK
  <2>3. QED
    BY <2>1, <2>2
<1>6. line' \in [Consumers -> Seq(Chars)] /\ seen' \in Nat
  <2>1. CASE state = NULL
    BY <2>1 DEF KeyIrq, KeyboardTypeOK
  <2>2. CASE state # NULL
    <3>1. state \in Consumers
      BY <2>2 DEF KeyboardTypeOK
    <3>2. line' = [line EXCEPT ![state] = LineAfter(state, c)]
      BY <2>2 DEF KeyIrq, c
    <3>3. LineAfter(state, c) \in Seq(Chars)
      BY <3>1, <1>1, LineCases
    <3>4. seen' \in Nat
      BY <2>2 DEF KeyIrq
    <3>5. QED
      BY <3>1, <3>2, <3>3, <3>4 DEF KeyboardTypeOK
  <2>3. QED
    BY <2>1, <2>2
<1>7. QED
  BY <1>1, <1>3, <1>4, <1>5, <1>6 DEF KeyboardTypeOK, KeyIrq

LEMMA CodeTypes ==
  ASSUME KeyboardTypeOK, seen \in Nat, Code
  PROVE  KeyboardTypeOK' /\ seen' \in Nat
<1>1. CASE UNCHANGED <<person, kbd>>
  BY <1>1 DEF KeyboardTypeOK, person, kbd
<1>2. CASE \E c \in Consumers : SetState(c)
  BY <1>2 DEF KeyboardTypeOK, SetState, person
<1>3. CASE Clear
  <2>1. <<>> \in Seq(Chars)
    OBVIOUS
  <2>2. line' \in [Consumers -> Seq(Chars)]
    BY <2>1, <1>3 DEF KeyboardTypeOK, Clear
  <2>3. UNCHANGED <<down, queue, lost, keymap, state, mods, seen, missed>>
    BY <1>3 DEF Clear, person
  <2>4. QED
    BY <2>2, <2>3 DEF KeyboardTypeOK
<1>4. QED
  BY <1>1, <1>2, <1>3, CodeKeyboard

AllPlaces == ShellPlaces \cup GcPlaces \cup EditorPlaces

LEMMA PlacesType == TypeOK => pc \in [Threads -> AllPlaces]
BY DEF TypeOK, AllPlaces, ShellPlaces, GcPlaces, EditorPlaces, HeapSteps

LEMMA TypePlaces ==
  AllPlaces = HeapSteps \cup {"none", "lock", "setstate", "poll", "clear", "keyup", "unlock",
                              "init", "loop", "idle", "dead", "gone"}
BY DEF AllPlaces, ShellPlaces, GcPlaces, EditorPlaces, HeapSteps

\* What the steps of code do to the threads.
LEMMA CodeThreads ==
  ASSUME WellTyped, Code
  PROVE  /\ pc' \in [Threads -> AllPlaces] /\ cpu' \in Threads
         /\ locked' \subseteq Threads /\ ready' \subseteq Editors
<1>1. /\ pc \in [Threads -> AllPlaces] /\ cpu \in Threads
      /\ locked \subseteq Threads /\ ready \subseteq Editors
  BY PlacesType DEF WellTyped, TypeOK
<1>2. CASE ShellStep
  <2>1. ASSUME NEW to \in ShellPlaces, NEW t \in Threads, NEW p \in AllPlaces
        PROVE  /\ [pc EXCEPT ![SHELL] = to] \in [Threads -> AllPlaces]
               /\ [pc EXCEPT ![SHELL] = to, ![t] = p] \in [Threads -> AllPlaces]
    BY <1>1, ThreadsDiffer DEF AllPlaces
  <2>2. Editors \subseteq Threads /\ SHELL \in Threads
    BY ThreadsDiffer
  <2>3. CASE ShellLock \/ ShellSetState \/ Poll \/ Split \/ RunOther \/ FreeParts \/ Clear \/ KeyUp
             \/ ShellUnlock
    BY <2>3, <2>1, <2>2, <1>1 DEF ShellLock, ShellSetState, Poll, Split, RunOther, FreeParts, Clear,
       KeyUp, ShellUnlock, Goto, NoEditor, ShellPlaces
  <2>4. CASE RunTxtedit
    <3>1. PICK e \in Editors : pc' = Created(e)
      BY <2>4 DEF RunTxtedit
    <3>2. "free" \in ShellPlaces /\ "exists" \in AllPlaces
      BY DEF ShellPlaces, AllPlaces, EditorPlaces
    <3>3. pc' \in [Threads -> AllPlaces]
      BY <3>1, <3>2, <2>1, <2>2 DEF Created
    <3>4. UNCHANGED <<cpu, locked, ready>>
      BY <2>4 DEF RunTxtedit
    <3>5. QED
      BY <3>3, <3>4, <1>1
  <2>5. CASE \E t \in Threads : RunKill(t)
    <3>1. PICK t \in Threads : RunKill(t)
      BY <2>5
    <3>2. "free" \in ShellPlaces /\ "dead" \in AllPlaces
      BY DEF ShellPlaces, AllPlaces, EditorPlaces
    <3>3. QED
      BY <3>1, <3>2, <2>1, <1>1 DEF RunKill, NoEditor
  <2>6. QED
    BY <1>2, <2>3, <2>4, <2>5 DEF ShellStep
<1>3. CASE \E e \in Editors : EditorStep(e)
  <2>1. PICK e \in Editors : EditorStep(e)
    BY <1>3
  <2>2. e \in Threads
    BY ThreadsDiffer
  <2>3. QED
    BY <2>1, <2>2, <1>1 DEF EditorStep, EditorExists, EditorInit, EditorLock, EditorLoop, Goto,
       NoEditor, AllPlaces, EditorPlaces
<1>4. CASE GcLock
  BY <1>4, <1>1, ThreadsDiffer DEF GcLock, Goto, NoEditor, AllPlaces, GcPlaces
<1>5. CASE GcYield
  <2>1. PICK t \in Running, gone \in SUBSET Dead :
          cpu' = t /\ pc' = [Unloaded(gone) EXCEPT ![GC] = "idle"]
    BY <1>5 DEF GcYield
  <2>2. Unloaded(gone) \in [Threads -> AllPlaces]
    BY <1>1 DEF Unloaded, AllPlaces, GcPlaces
  <2>3. QED
    BY <2>1, <2>2, <1>1, <1>5 DEF GcYield, Running, AllPlaces, GcPlaces
<1>6. QED
  BY <1>2, <1>3, <1>4, <1>5 DEF Code, GcStep

\* ... and to the rest.
LEMMA CodeHistory ==
  ASSUME WellTyped, Code
  PROVE  /\ process' \in BOOLEAN /\ cmd' \in Seq(Chars)
         /\ clash' \cup ticked' \cup halved' \subseteq Threads
         /\ enters' \in Nat /\ runs' \in Nat /\ ran' \in Seq(Nat)
<1>1. /\ process \in BOOLEAN /\ cmd \in Seq(Chars)
      /\ clash \cup ticked \cup halved \subseteq Threads
      /\ enters \in Nat /\ runs \in Nat /\ ran \in Seq(Nat)
  BY DEF WellTyped, TypeOK
<1>2. line[SHELL] \in Seq(Chars)
  BY ThreadsDiffer DEF WellTyped, TypeOK, KeyboardTypeOK
<1>3. [i \in 1..Len(line[SHELL]) |-> line[SHELL][i].n] \in Seq(Nat)
  <2>1. Len(line[SHELL]) \in Nat /\ \A i \in 1..Len(line[SHELL]) : line[SHELL][i] \in Chars
    BY <1>2
  <2>2. \A x \in Chars : x.n \in Nat
    BY DEF Chars
  <2>3. QED
    BY <2>1, <2>2
<1>4. CASE NoLine
  BY <1>4, <1>1 DEF NoLine, history, heapHistory
<1>5. CASE Poll \/ FreeParts \/ KeyUp
  <2>1. UNCHANGED <<clash, ticked, halved, enters, ran>>
    BY <1>5 DEF Poll, FreeParts, KeyUp, history, heapHistory
  <2>2. runs' \in Nat
    BY <1>5, <1>1 DEF Poll, FreeParts, KeyUp, history
  <2>4. cmd' \in Seq(Chars)
    <3>1. cmd' = cmd \/ cmd' = <<>>
      BY <1>5 DEF Poll, FreeParts, KeyUp
    <3>2. <<>> \in Seq(Chars)
      OBVIOUS
    <3>3. CASE cmd' = cmd
      BY <3>3, <1>1
    <3>4. CASE cmd' = <<>>
      BY <3>4, <3>2
    <3>5. QED
      BY <3>1, <3>3, <3>4
  <2>3. process' = (process \/ PollEnter) \/ process' = process
        \/ process' = (process /\ ENTER \in keymap)
    BY <1>5 DEF Poll, FreeParts, KeyUp
  <2> HIDE DEF PollEnter
  <2>5. (process \/ PollEnter) \in BOOLEAN /\ (process /\ ENTER \in keymap) \in BOOLEAN
    OBVIOUS
  <2>6. process' \in BOOLEAN
    BY <2>3, <2>5, <1>1
  <2>7. QED
    BY <2>1, <2>2, <2>4, <2>6, <1>1
<1>6. CASE Split
  <2>1. ran' \in Seq(Nat)
    BY <1>6, <1>1, <1>3, ConcatProperties DEF Split
  <2>2. QED
    BY <2>1, <1>6, <1>1, <1>2 DEF Split, heapHistory
<1>7. CASE \E t \in Threads : RunKill(t)
  BY <1>7, <1>1 DEF RunKill
<1>8. Code => NoLine \/ Poll \/ FreeParts \/ KeyUp \/ Split \/ \E t \in Threads : RunKill(t)
  BY DEF Code, ShellStep, EditorStep, GcStep, ShellLock, ShellSetState, RunOther, RunTxtedit,
     Clear, ShellUnlock, EditorExists, EditorInit, EditorLock, EditorLoop, GcLock, GcYield
<1>9. QED
  BY <1>4, <1>5, <1>6, <1>7, <1>8

LEMMA StepTypes == WellTyped /\ [Next]_vars => WellTyped'
<1> SUFFICES ASSUME WellTyped, [Next]_vars PROVE WellTyped'
  OBVIOUS
<1>1. TypeOK /\ KeyboardTypeOK /\ seen \in Nat
  BY DEF WellTyped, TypeOK
<1>2. CASE Type
  <2>1. KeyboardTypeOK' /\ seen' \in Nat
    BY <1>1, <1>2, PersonTypes DEF Type
  <2>2. QED
    BY <2>1, <1>2 DEF Type, WellTyped, TypeOK, threadVars, history, heapHistory
<1>3. CASE ShellKeyIrq
  <2>1. KeyboardTypeOK' /\ seen' \in Nat
    BY <1>1, <1>3, IrqTypes DEF ShellKeyIrq
  <2>2. enters' \in Nat /\ clash' \subseteq Threads
    BY <1>3 DEF ShellKeyIrq, WellTyped, TypeOK, Busy
  <2>3. QED
    BY <2>1, <2>2, <1>3 DEF ShellKeyIrq, WellTyped, TypeOK, threadVars
<1>4. CASE Preempt
  <2>1. PICK t \in Running, gone \in SUBSET Dead : cpu' = t /\ pc' = Unloaded(gone)
    BY <1>4 DEF Preempt
  <2>2. pc' \in [Threads -> AllPlaces] /\ cpu' \in Threads
    BY <2>1, <1>1, PlacesType DEF Unloaded, AllPlaces, GcPlaces, Running
  <2>3. ticked' \subseteq Threads
    BY <1>4, <1>1 DEF Preempt, TypeOK, Busy
  <2>4. UNCHANGED <<down, queue, events, lost, keymap, state, mods, line, seen, missed, locked, ready,
                    process, cmd, ran, erased, late, enters, runs, clash, halved>>
    BY <1>4 DEF Preempt, person, kbd
  <2>5. KeyboardTypeOK'
    BY <2>4, <1>1 DEF KeyboardTypeOK
  <2>6. TypeOK'
    BY <2>2, <2>3, <2>4, <2>5, <1>1, TypePlaces DEF TypeOK
  <2>7. QED
    BY <2>4, <2>6 DEF WellTyped
<1>5. CASE Code
  <2>1. KeyboardTypeOK' /\ seen' \in Nat
    BY <1>1, <1>5, CodeTypes
  <2>2. QED
    BY <2>1, <1>5, CodeThreads, CodeHistory, TypePlaces DEF WellTyped, TypeOK
<1>6. CASE UNCHANGED vars
  BY <1>6 DEF vars, WellTyped, TypeOK, KeyboardTypeOK
<1>7. QED
  BY <1>2, <1>3, <1>4, <1>5, <1>6, NextCases
-----------------------------------------------------------------------------
(* Threads, locks and the heap. *)

\* Who holds a lock runs, and nobody else holds one; the shell and the collector are
\* inside a heap operation only under their locks.
LEMMA LockedRuns ==
  ASSUME WellTyped, ThreadsInv
  PROVE  /\ pc[SHELL] # "lock" => cpu = SHELL /\ locked = {SHELL}
         /\ pc[GC] = "collect" => cpu = GC /\ locked = {GC}
         /\ \A e \in Editors : pc[e] = "loop" => cpu = e /\ locked = {e}
         /\ state \in Editors => cpu = state /\ locked = {state}
         /\ Busy \subseteq locked \cup Editors
<1>1. locked \subseteq {cpu} /\ cpu \in Threads
  BY DEF WellTyped, TypeOK, ThreadsInv, LocksHeld
<1>2. Busy \subseteq locked \cup Editors
  BY ThreadsDiffer DEF Busy, HeapSteps, ThreadsInv, LocksHeld, Places, GcPlaces, ShellPlaces
<1>3. QED
  BY <1>1, <1>2, ThreadsDiffer DEF ThreadsInv, LocksHeld, OwnerLoops

\* Two threads inside heap operations, neither an editor, would both hold their locks.
LEMMA OverlapFollows == WellTyped /\ ThreadsInv => OverlapIsEditorStart
BY LockedRuns DEF OverlapIsEditorStart, ThreadsInv, LocksHeld

\* The unloading of dead threads moves no other thread.
LEMMA UnloadedPlaces ==
  ASSUME WellTyped, Places, NEW gone \in SUBSET Dead
  PROVE  /\ Unloaded(gone) \in [Threads -> AllPlaces]
         /\ \A t \in Threads : Unloaded(gone)[t] = pc[t] \/ (pc[t] = "dead" /\ Unloaded(gone)[t] = "gone")
         /\ Unloaded(gone)[SHELL] = pc[SHELL]
<1>1. pc \in [Threads -> AllPlaces] /\ "gone" \in AllPlaces
  BY PlacesType DEF WellTyped, AllPlaces, GcPlaces
<1>2. pc[SHELL] # "dead" /\ SHELL \in Threads
  BY ThreadsDiffer DEF Places, ShellPlaces
<1>3. QED
  BY <1>1, <1>2 DEF Unloaded, Dead

\* A step of the shell that moves nothing but the shell itself, from a place behind its
\* lock to another one.
LEMMA ShellMoves ==
  ASSUME WellTyped, ThreadsInv, NEW to \in ShellPlaces \ {"lock"},
         pc[SHELL] # "lock", pc' = [pc EXCEPT ![SHELL] = to],
         UNCHANGED <<cpu, locked, clash, ticked, halved>>,
         state' = state \/ state' = SHELL
  PROVE  ThreadsInv'
<1>1. pc \in [Threads -> AllPlaces]
  BY PlacesType DEF WellTyped
<1>2. pc'[SHELL] = to /\ \A t \in Threads \ {SHELL} : pc'[t] = pc[t]
  BY <1>1, ThreadsDiffer
<1>3. Places' /\ LocksHeld'
  BY <1>2, ThreadsDiffer DEF ThreadsInv, Places, LocksHeld
<1>4. OwnerLoops'
  BY <1>2, ThreadsDiffer DEF ThreadsInv, OwnerLoops
<1>5. QED
  BY <1>3, <1>4 DEF ThreadsInv, IrqHeapAlone, UnloadIsAlone, HalvedIsEditorStart

LEMMA ShellStepThreads == WellTyped /\ ThreadsInv /\ ShellStep => ThreadsInv'
<1> SUFFICES ASSUME WellTyped, ThreadsInv, ShellStep PROVE ThreadsInv'
  OBVIOUS
<1>1. pc \in [Threads -> AllPlaces]
  BY PlacesType DEF WellTyped
<1>2. Editors \subseteq Threads /\ GC \in Threads /\ SHELL \in Threads
  BY ThreadsDiffer
<1>3. CASE ShellLock
  <2>1. pc'[SHELL] = "setstate" /\ \A t \in Threads \ {SHELL} : pc'[t] = pc[t]
    BY <1>1, <1>3, <1>2 DEF ShellLock, Goto
  <2>2. cpu = SHELL /\ cpu' = cpu /\ locked' = locked \cup {SHELL} /\ pc[SHELL] = "lock"
    BY <1>3 DEF ShellLock, Goto, NoEditor
  <2>3. Places'
    BY <2>1, <1>2, ThreadsDiffer DEF ThreadsInv, Places, ShellPlaces
  <2>4. LocksHeld'
    BY <2>1, <2>2, <1>2, ThreadsDiffer DEF ThreadsInv, LocksHeld
  <2>5. UNCHANGED <<state, clash, ticked, halved>>
    BY <1>3 DEF ShellLock, NoKeyboard, NoLine, kbd, history, heapHistory
  <2>6. QED
    BY <2>1, <2>3, <2>4, <2>5, <1>2, ThreadsDiffer
       DEF ThreadsInv, OwnerLoops, IrqHeapAlone, UnloadIsAlone, HalvedIsEditorStart
<1>4. CASE ShellSetState \/ Poll \/ Split \/ RunOther \/ FreeParts \/ Clear \/ KeyUp
  <2>1. UNCHANGED <<cpu, locked, clash, ticked, halved>>
    BY <1>4 DEF ShellSetState, Poll, Split, RunOther, FreeParts, Clear, KeyUp, NoEditor, NoLine,
       history, heapHistory
  <2>2. pc[SHELL] # "lock" /\ \E to \in ShellPlaces \ {"lock"} : pc' = [pc EXCEPT ![SHELL] = to]
    BY <1>4 DEF ShellSetState, Poll, Split, RunOther, FreeParts, Clear, KeyUp, Goto, ShellPlaces
  <2>3. state' = state \/ state' = SHELL
    BY <1>4 DEF ShellSetState, SetState, Poll, Split, RunOther, FreeParts, Clear, KeyUp, NoKeyboard,
       kbd
  <2>4. QED
    BY <2>1, <2>2, <2>3, ShellMoves
<1>5. CASE RunTxtedit
  <2>1. PICK e \in Editors : pc[e] = "none" /\ pc' = Created(e)
    BY <1>5 DEF RunTxtedit
  <2>2. pc'[SHELL] = "free" /\ pc'[e] = "exists" /\ \A t \in Threads \ {SHELL, e} : pc'[t] = pc[t]
    BY <2>1, <1>1, <1>2, ThreadsDiffer DEF Created
  <2>3. cpu' = cpu /\ locked' = locked /\ pc[SHELL] = "run"
        /\ UNCHANGED <<state, clash, ticked, halved>>
    BY <1>5 DEF RunTxtedit, NoKeyboard, NoLine, kbd, history, heapHistory
  <2>4. Places'
    BY <2>2, <1>2, ThreadsDiffer DEF ThreadsInv, Places, ShellPlaces, EditorPlaces
  <2>5. LocksHeld'
    BY <2>1, <2>2, <2>3, <1>2, ThreadsDiffer DEF ThreadsInv, LocksHeld
  <2>6. OwnerLoops'
    BY <2>1, <2>2, <2>3, <1>2, ThreadsDiffer DEF ThreadsInv, OwnerLoops
  <2>7. QED
    BY <2>3, <2>4, <2>5, <2>6 DEF ThreadsInv, IrqHeapAlone, UnloadIsAlone, HalvedIsEditorStart
<1>6. CASE \E t \in Threads : RunKill(t)
  <2>1. PICK t \in Threads : RunKill(t)
    BY <1>6
  <2>2. t # SHELL /\ pc[SHELL] = "run" /\ cpu' = cpu /\ UNCHANGED <<locked, state, clash, ticked>>
    BY <2>1 DEF RunKill, NoKeyboard, NoEditor, kbd
  <2>3. cpu = SHELL /\ locked = {SHELL}
    BY <2>2, LockedRuns
  <2>4. pc'[SHELL] = "free" /\ pc'[t] = "dead" /\ \A u \in Threads \ {SHELL, t} : pc'[u] = pc[u]
    BY <2>1, <2>2, <1>1, <1>2 DEF RunKill
  <2>5. Places'
    BY <2>2, <2>4, <1>2, ThreadsDiffer
       DEF ThreadsInv, Places, ShellPlaces, EditorPlaces, GcPlaces
  <2>6. LocksHeld'
    BY <2>2, <2>3, <2>4, <1>2, ThreadsDiffer DEF ThreadsInv, LocksHeld
  <2>7. state \notin Editors
    BY <2>3, LockedRuns, ThreadsDiffer
  <2>8. HalvedIsEditorStart'
    <3>1. halved' = halved \cup (Busy \cap {t})
      BY <2>1 DEF RunKill
    <3>2. Busy \cap {t} \subseteq Editors
      BY <2>2, <2>3, LockedRuns
    <3>3. QED
      BY <3>1, <3>2 DEF ThreadsInv, HalvedIsEditorStart
  <2>9. QED
    BY <2>2, <2>5, <2>6, <2>7, <2>8 DEF ThreadsInv, OwnerLoops, IrqHeapAlone, UnloadIsAlone
<1>7. CASE ShellUnlock
  <2>1. pc'[SHELL] = "lock" /\ \A t \in Threads \ {SHELL} : pc'[t] = pc[t]
    BY <1>1, <1>7, <1>2 DEF ShellUnlock, Goto
  <2>2. cpu = SHELL /\ cpu' = cpu /\ locked' = locked \ {SHELL} /\ pc[SHELL] = "unlock"
        /\ UNCHANGED <<state, clash, ticked, halved>>
    BY <1>7 DEF ShellUnlock, Goto, NoEditor, NoKeyboard, NoLine, kbd, history, heapHistory
  <2>3. Places'
    BY <2>1, <1>2, ThreadsDiffer DEF ThreadsInv, Places, ShellPlaces
  <2>4. LocksHeld'
    BY <2>1, <2>2, <1>2, ThreadsDiffer DEF ThreadsInv, LocksHeld
  <2>5. QED
    BY <2>1, <2>2, <2>3, <2>4, <1>2, ThreadsDiffer
       DEF ThreadsInv, OwnerLoops, IrqHeapAlone, UnloadIsAlone, HalvedIsEditorStart
<1>8. QED
  BY <1>3, <1>4, <1>5, <1>6, <1>7 DEF ShellStep
LEMMA EditorStepThreads ==
  ASSUME WellTyped, ThreadsInv, NEW e \in Editors, EditorStep(e)
  PROVE  ThreadsInv'
<1>1. pc \in [Threads -> AllPlaces]
  BY PlacesType DEF WellTyped
<1>2. Editors \subseteq Threads /\ GC \in Threads /\ SHELL \in Threads
  BY ThreadsDiffer
<1>3. UNCHANGED <<cpu, clash, ticked, halved>> /\ cpu = e
  BY DEF EditorStep, EditorExists, EditorInit, EditorLock, EditorLoop, Goto, NoEditor, NoLine,
     history, heapHistory
<1>4. CASE EditorExists(e) \/ EditorInit(e)
  <2>1. pc[e] # "loop" /\ pc'[e] \in {"init", "lock"} /\ \A t \in Threads \ {e} : pc'[t] = pc[t]
    BY <1>1, <1>2, <1>4 DEF EditorExists, EditorInit, Goto
  <2>2. UNCHANGED <<locked, state>>
    BY <1>4 DEF EditorExists, EditorInit, NoKeyboard, kbd
  <2>3. Places' /\ LocksHeld'
    BY <2>1, <2>2, <1>2, <1>3, ThreadsDiffer DEF ThreadsInv, Places, LocksHeld, EditorPlaces
  <2>4. OwnerLoops'
    BY <2>1, <2>2, <1>2 DEF ThreadsInv, OwnerLoops
  <2>5. QED
    BY <1>3, <2>3, <2>4 DEF ThreadsInv, IrqHeapAlone, UnloadIsAlone, HalvedIsEditorStart
<1>5. CASE EditorLock(e)
  <2>1. pc[e] = "lock" /\ pc'[e] = "loop" /\ \A t \in Threads \ {e} : pc'[t] = pc[t]
    BY <1>1, <1>2, <1>5 DEF EditorLock, Goto
  <2>2. locked' = locked \cup {e} /\ state' = state
    BY <1>5 DEF EditorLock, NoKeyboard, kbd
  <2>3. Places' /\ LocksHeld'
    BY <2>1, <2>2, <1>2, <1>3, ThreadsDiffer DEF ThreadsInv, Places, LocksHeld, EditorPlaces
  <2>4. OwnerLoops'
    BY <2>1, <2>2, <1>2 DEF ThreadsInv, OwnerLoops
  <2>5. QED
    BY <1>3, <2>3, <2>4 DEF ThreadsInv, IrqHeapAlone, UnloadIsAlone, HalvedIsEditorStart
<1>6. CASE EditorLoop(e)
  <2>1. pc' = pc /\ pc[e] = "loop"
    BY <1>1, <1>2, <1>6 DEF EditorLoop, Goto
  <2>2. locked' = locked /\ state' = e
    BY <1>6 DEF EditorLoop, SetState
  <2>3. QED
    BY <2>1, <2>2, <1>3 DEF ThreadsInv, Places, LocksHeld, OwnerLoops, IrqHeapAlone,
       UnloadIsAlone, HalvedIsEditorStart
<1>7. QED
  BY <1>4, <1>5, <1>6 DEF EditorStep

LEMMA GcStepThreads == WellTyped /\ ThreadsInv /\ GcStep => ThreadsInv'
<1> SUFFICES ASSUME WellTyped, ThreadsInv, GcStep PROVE ThreadsInv'
  OBVIOUS
<1>1. pc \in [Threads -> AllPlaces] /\ GC \in Threads
  BY PlacesType, ThreadsDiffer DEF WellTyped
<1>2. UNCHANGED <<clash, ticked, halved, state>>
  BY DEF GcStep, GcLock, GcYield, NoKeyboard, kbd, NoLine, history, heapHistory
<1>3. state \notin Editors
  BY LockedRuns, ThreadsDiffer DEF GcStep, GcLock, GcYield, Goto
<1>4. CASE GcLock
  <2>1. pc'[GC] = "collect" /\ \A t \in Threads \ {GC} : pc'[t] = pc[t]
    BY <1>1, <1>4 DEF GcLock, Goto
  <2>2. cpu = GC /\ cpu' = cpu /\ locked' = locked \cup {GC}
    BY <1>4 DEF GcLock, Goto, NoEditor
  <2>3. Places' /\ LocksHeld'
    BY <2>1, <2>2, ThreadsDiffer DEF ThreadsInv, Places, LocksHeld, GcPlaces
  <2>4. QED
    BY <1>2, <1>3, <2>3 DEF ThreadsInv, OwnerLoops, IrqHeapAlone, UnloadIsAlone,
       HalvedIsEditorStart
<1>5. CASE GcYield
  <2>1. PICK t \in Running, gone \in SUBSET Dead :
          cpu' = t /\ pc' = [Unloaded(gone) EXCEPT ![GC] = "idle"]
    BY <1>5 DEF GcYield
  <2>2. pc[GC] = "collect" /\ locked' = locked \ {GC}
    BY <1>5 DEF GcYield
  <2>3. locked' = {}
    BY <2>2, LockedRuns
  <2>4. pc'[GC] = "idle" /\ pc'[SHELL] = pc[SHELL]
        /\ \A u \in Threads \ {GC} : pc'[u] = pc[u] \/ (pc[u] = "dead" /\ pc'[u] = "gone")
    BY <2>1, <1>1, UnloadedPlaces, ThreadsDiffer DEF ThreadsInv
  <2>5. Places'
    BY <2>4, ThreadsDiffer DEF ThreadsInv, Places, GcPlaces, EditorPlaces
  <2>6. pc[SHELL] = "lock" /\ \A e \in Editors : pc[e] # "loop"
    BY <2>2, LockedRuns, ThreadsDiffer
  <2>7. LocksHeld'
    BY <2>3, <2>4, <2>6, ThreadsDiffer DEF LocksHeld
  <2>8. QED
    BY <1>2, <1>3, <2>5, <2>7 DEF ThreadsInv, OwnerLoops, IrqHeapAlone, UnloadIsAlone,
       HalvedIsEditorStart
<1>6. QED
  BY <1>4, <1>5 DEF GcStep

LEMMA PreemptThreads == WellTyped /\ ThreadsInv /\ Preempt => ThreadsInv'
<1> SUFFICES ASSUME WellTyped, ThreadsInv, Preempt PROVE ThreadsInv'
  OBVIOUS
<1>1. locked = {}
  BY DEF ThreadsInv, LocksHeld, Preempt
<1>2. PICK t \in Running, gone \in SUBSET Dead :
        /\ cpu' = t /\ pc' = Unloaded(gone)
        /\ ticked' = IF gone = {} THEN ticked ELSE ticked \cup (Busy \cap {cpu})
  BY DEF Preempt
<1>3. UNCHANGED <<state, locked, clash, halved>>
  BY DEF Preempt, kbd
<1>4. pc'[SHELL] = pc[SHELL]
      /\ \A u \in Threads : pc'[u] = pc[u] \/ (pc[u] = "dead" /\ pc'[u] = "gone")
  BY <1>2, UnloadedPlaces DEF ThreadsInv
<1>5. Places'
  BY <1>4, ThreadsDiffer DEF ThreadsInv, Places, GcPlaces, EditorPlaces
<1>6. LocksHeld'
  BY <1>1, <1>3, <1>4, ThreadsDiffer DEF ThreadsInv, LocksHeld
<1>7. state \notin Editors
  BY <1>1, LockedRuns
<1>8. Busy \subseteq Editors
  BY <1>1, LockedRuns
<1>9. QED
  BY <1>2, <1>3, <1>5, <1>6, <1>7, <1>8 DEF ThreadsInv, OwnerLoops, IrqHeapAlone, UnloadIsAlone,
     HalvedIsEditorStart

\* The interrupt handler of the keyboard: an editor whose handler allocates has the
\* keyboard, so it runs under its lock and neither shell nor collector is inside a heap
\* operation.
LEMMA IrqThreads == WellTyped /\ ThreadsInv /\ ShellKeyIrq => ThreadsInv'
<1> SUFFICES ASSUME WellTyped, ThreadsInv, ShellKeyIrq PROVE ThreadsInv'
  OBVIOUS
<1>1. UNCHANGED <<cpu, locked, pc, state, ticked, halved>>
  BY DEF ShellKeyIrq, KeyIrq, threadVars
<1>2. IrqHeapAlone'
  <2>1. clash' = IF EditorAllocates(Head(queue)) THEN clash \cup Busy ELSE clash
    BY DEF ShellKeyIrq
  <2>2. ASSUME EditorAllocates(Head(queue)) PROVE Busy \subseteq Editors
    <3>1. state \in Editors
      BY <2>2 DEF EditorAllocates, WellTyped, TypeOK
    <3>2. QED
      BY <3>1, LockedRuns
  <2>3. QED
    BY <2>1, <2>2 DEF ThreadsInv, IrqHeapAlone
<1>3. QED
  BY <1>1, <1>2 DEF ThreadsInv, Places, LocksHeld, OwnerLoops, UnloadIsAlone,
     HalvedIsEditorStart

LEMMA StepThreads == WellTyped /\ ThreadsInv /\ [Next]_vars => ThreadsInv'
<1> SUFFICES ASSUME WellTyped, ThreadsInv, [Next]_vars PROVE ThreadsInv'
  OBVIOUS
<1>1. CASE Type
  BY <1>1 DEF Type, Person, Press, Release, Send, kbd, threadVars, history, heapHistory, ThreadsInv,
     Places, LocksHeld, OwnerLoops, IrqHeapAlone, UnloadIsAlone, HalvedIsEditorStart
<1>2. CASE UNCHANGED vars
  BY <1>2 DEF vars, ThreadsInv, Places, LocksHeld, OwnerLoops, IrqHeapAlone, UnloadIsAlone,
     HalvedIsEditorStart
<1>3. QED
  BY <1>1, <1>2, NextCases, ShellStepThreads, EditorStepThreads, GcStepThreads, PreemptThreads,
     IrqThreads DEF Code
-----------------------------------------------------------------------------
(* Keys: what is still on its way ends with what each key does now, so the   *)
(* key map agrees with the keys of which nothing is on its way.              *)

\* A key's code is sent, or lost.
LEMMA PersonKeys == WellTyped /\ KeysInv /\ Person => KeysInv'
<1> SUFFICES ASSUME WellTyped, KeysInv, Person PROVE KeysInv'
  OBVIOUS
<1>1. PICK k \in Keys, m \in BOOLEAN :
        Send(k, m) /\ down' = (IF m THEN down \cup {k} ELSE down \ {k})
  BY DEF Person, Press, Release
<1>2. queue \in Seq(Codes) /\ Len(queue) \in Nat
  BY DEF WellTyped, TypeOK, KeyboardTypeOK
<1>3. \A l \in Keys \ {k} : l \in down' <=> l \in down
  BY <1>1
<1>4. UNCHANGED <<keymap, mods, missed>>
  BY <1>1 DEF Send, kbd
<1>5. CASE queue' = queue /\ lost' = lost \cup {k}
  <2>1. LastCodes'
    BY <1>3, <1>5 DEF KeysInv, LastCodes
  <2>2. KeymapFollows'
    BY <1>3, <1>4, <1>5 DEF KeysInv, KeyboardFollows, KeymapFollows, Pending
  <2>3. QED
    BY <2>1, <2>2, <1>4 DEF KeysInv, KeyboardFollows, ShiftFollows
<1>6. CASE queue' = Append(queue, [key |-> k, make |-> m]) /\ lost' = lost \ {k}
  <2>1. /\ Len(queue') = Len(queue) + 1
        /\ \A i \in 1..Len(queue) : queue'[i] = queue[i]
        /\ queue'[Len(queue) + 1].key = k /\ queue'[Len(queue) + 1].make = m
    BY <1>2, <1>6
  <2>2. LastCodes'
    <3> SUFFICES ASSUME NEW l \in Keys \ lost', NEW i \in 1..Len(queue'),
                        queue'[i].key = l, \A j \in i + 1 .. Len(queue') : queue'[j].key # l
                 PROVE  queue'[i].make <=> l \in down'
      BY DEF LastCodes
    <3>1. CASE l = k
      <4>1. i = Len(queue) + 1
        BY <2>1, <3>1, <1>2
      <4>2. QED
        BY <4>1, <2>1, <3>1, <1>1
    <3>2. CASE l # k
      <4>1. i \in 1..Len(queue) /\ l \notin lost /\ queue[i].key = l
        BY <2>1, <3>2, <1>2, <1>6
      <4>2. \A j \in i + 1 .. Len(queue) : queue[j].key # l
        BY <2>1, <1>2, <4>1
      <4>3. queue[i].make <=> l \in down
        BY <4>1, <4>2 DEF KeysInv, LastCodes
      <4>4. QED
        BY <4>1, <4>3, <2>1, <1>3, <3>2
    <3>3. QED
      BY <3>1, <3>2
  <2>3. k \in Pending' /\ Pending \subseteq Pending'
    <3>1. Len(queue) + 1 \in 1..Len(queue') /\ 1..Len(queue) \subseteq 1..Len(queue')
      BY <2>1, <1>2
    <3>2. QED
      BY <3>1, <2>1 DEF Pending
  <2>4. KeymapFollows'
    BY <2>3, <1>3, <1>4, <1>6 DEF KeysInv, KeyboardFollows, KeymapFollows
  <2>5. QED
    BY <2>2, <2>4, <1>4 DEF KeysInv, KeyboardFollows, ShiftFollows
<1>7. QED
  BY <1>1, <1>5, <1>6 DEF Send

\* A code is fetched.  If nothing else of its key is on its way it says what the key
\* does now; a shift key's code reaches one consumer, and the others miss it.
LEMMA IrqKeys == WellTyped /\ KeysInv /\ KeyIrq => KeysInv'
<1> SUFFICES ASSUME WellTyped, KeysInv, KeyIrq PROVE KeysInv'
  OBVIOUS
<1> DEFINE c == Head(queue)
<1>1. /\ queue \in Seq(Codes) /\ queue # <<>> /\ Len(queue) \in Nat /\ Len(queue) >= 1
      /\ queue' = Tail(queue) /\ Len(queue') = Len(queue) - 1
      /\ \A i \in 1..Len(queue') : queue'[i] = queue[i + 1]
      /\ c = queue[1] /\ c \in Codes
  BY DEF WellTyped, TypeOK, KeyboardTypeOK, KeyIrq
<1>2. keymap' = KeymapAfter(c) /\ UNCHANGED <<down, lost>>
  BY DEF KeyIrq
<1>3. c.key \in Keys /\ c.make \in BOOLEAN
  BY <1>1 DEF Codes
<1> HIDE DEF c
<1>4. LastCodes'
  <2> SUFFICES ASSUME NEW k \in Keys \ lost', NEW i \in 1..Len(queue'),
                      queue'[i].key = k, \A j \in i + 1 .. Len(queue') : queue'[j].key # k
               PROVE  queue'[i].make <=> k \in down'
    BY DEF LastCodes
  <2>1. i + 1 \in 1..Len(queue) /\ queue[i + 1].key = k
    BY <1>1
  <2>2. \A j \in i + 2 .. Len(queue) : queue[j].key # k
    <3> TAKE j \in i + 2 .. Len(queue)
    <3>1. j - 1 \in i + 1 .. Len(queue') /\ j - 1 \in 1..Len(queue') /\ (j - 1) + 1 = j
      BY <1>1
    <3>2. QED
      BY <3>1, <1>1
  <2>3. (i + 1) + 1 = i + 2
    OBVIOUS
  <2>4. queue[i + 1].make <=> k \in down
    BY <2>1, <2>2, <2>3, <1>2 DEF KeysInv, LastCodes
  <2>5. QED
    BY <2>4, <1>1, <1>2
<1>5. KeymapFollows'
  <2> SUFFICES ASSUME NEW k \in Keys, k \notin Pending', k \notin lost', k # F12
               PROVE  k \in keymap' <=> k \in down'
    BY DEF KeymapFollows
  <2>1. \A j \in 2 .. Len(queue) : queue[j].key # k
    <3> TAKE j \in 2 .. Len(queue)
    <3>1. j - 1 \in 1..Len(queue') /\ (j - 1) + 1 = j
      BY <1>1
    <3>2. queue'[j - 1] = queue[j]
      BY <3>1, <1>1
    <3>3. queue'[j - 1].key \in Pending'
      BY <3>1 DEF Pending
    <3>4. QED
      BY <3>2, <3>3
  <2>2. CASE k = c.key
    <3>1. 1 \in 1..Len(queue) /\ 1 + 1 = 2
      BY <1>1
    <3>2. c.make <=> k \in down
      BY <3>1, <2>1, <2>2, <1>1, <1>2 DEF KeysInv, LastCodes
    <3>3. QED
      BY <3>2, <2>2, <1>2, <1>3 DEF KeymapAfter
  <2>3. CASE k # c.key
    <3>1. k \notin Pending
      <4>1. \A j \in 1..Len(queue) : queue[j].key # k
        BY <2>1, <2>3, <1>1
      <4>2. QED
        BY <4>1 DEF Pending
    <3>2. k \in keymap <=> k \in down
      BY <3>1, <1>2 DEF KeysInv, KeyboardFollows, KeymapFollows
    <3>3. QED
      BY <3>2, <2>3, <1>2 DEF KeymapAfter
  <2>4. QED
    BY <2>2, <2>3
<1>6. ShiftFollows'
  <2> SUFFICES ASSUME NEW w \in Consumers, NEW s \in Shifts, s \notin missed'[w]
               PROVE  s \in mods'[w].shift <=> s \in keymap'
    BY DEF ShiftFollows
  <2>1. missed'[w] = IF w = state THEN missed[w] \ {c.key}
                     ELSE missed[w] \cup ({c.key} \cap Shifts)
    BY DEF KeyIrq, c
  <2>2. s \notin missed[w] => (s \in mods[w].shift <=> s \in keymap)
    BY DEF KeysInv, KeyboardFollows, ShiftFollows
  <2>3. mods'[w] = IF w = state THEN [shift |-> ShiftAfter(mods[w].shift, c),
                                      caps |-> CapsAfter(mods[w].caps, c)]
                   ELSE mods[w]
    <3>1. mods \in [Consumers -> [shift : SUBSET Shifts, caps : BOOLEAN]] /\ NULL \notin Consumers
      BY KeyboardAssumption DEF WellTyped, TypeOK, KeyboardTypeOK
    <3>2. CASE state = NULL
      BY <3>1, <3>2 DEF KeyIrq
    <3>3. CASE state # NULL
      BY <3>1, <3>3 DEF KeyIrq, c
    <3>4. QED
      BY <3>2, <3>3
  <2>4. F12 \notin Shifts
    BY DEF Shifts, F12, LSHIFT, RSHIFT
  <2>5. CASE w = state /\ s = c.key
    <3>1. mods'[w].shift = ShiftAfter(mods[w].shift, c)
      BY <2>3, <2>5
    <3>2. s \in ShiftAfter(mods[w].shift, c) <=> c.make
      BY <2>5 DEF ShiftAfter
    <3>3. s \in keymap' <=> c.make
      BY <2>4, <2>5, <1>2 DEF KeymapAfter
    <3>4. QED
      BY <3>1, <3>2, <3>3
  <2>6. CASE w = state /\ s # c.key
    <3>1. mods'[w].shift = ShiftAfter(mods[w].shift, c)
      BY <2>3, <2>6
    <3>2. s \in ShiftAfter(mods[w].shift, c) <=> s \in mods[w].shift
      BY <2>6 DEF ShiftAfter
    <3>3. s \in keymap' <=> s \in keymap
      BY <2>6, <1>2 DEF KeymapAfter
    <3>4. QED
      BY <3>1, <3>2, <3>3, <2>1, <2>2, <2>6
  <2>7. CASE w # state
    <3>1. s # c.key /\ s \notin missed[w]
      BY <2>1, <2>7
    <3>2. s \in keymap' <=> s \in keymap
      BY <3>1, <1>2 DEF KeymapAfter
    <3>3. QED
      BY <3>1, <3>2, <2>2, <2>3, <2>7
  <2>8. QED
    BY <2>5, <2>6, <2>7
<1>7. QED
  BY <1>4, <1>5, <1>6 DEF KeysInv, KeyboardFollows

LEMMA StepKeys == WellTyped /\ KeysInv /\ [Next]_vars => KeysInv'
<1> SUFFICES ASSUME WellTyped, KeysInv, [Next]_vars PROVE KeysInv'
  OBVIOUS
<1>1. ASSUME UNCHANGED <<down, queue, lost, keymap, mods, missed>> PROVE KeysInv'
  BY <1>1 DEF KeysInv, LastCodes, KeyboardFollows, KeymapFollows, ShiftFollows, Pending
<1>2. CASE Type
  BY <1>2, PersonKeys DEF Type
<1>3. CASE ShellKeyIrq
  BY <1>3, IrqKeys DEF ShellKeyIrq
<1>4. CASE Preempt
  BY <1>1, <1>4 DEF Preempt, person, kbd
<1>5. CASE Code
  BY <1>1, <1>5, CodeKeyboard DEF SetState, Clear, person, kbd
<1>6. CASE UNCHANGED vars
  BY <1>1, <1>6 DEF vars
<1>7. QED
  BY <1>2, <1>3, <1>4, <1>5, <1>6, NextCases
-----------------------------------------------------------------------------
(* Lines. *)

\* Where the line is being executed, from the copy to the memset.
Executing == {"run", "free", "clear"}

\* Steps that leave the line, the key map and the history alone and do not move the
\* shell into the execution of a line or out of it.
LEMMA QuietLines ==
  ASSUME LinesInv, UNCHANGED <<line, seen, keymap, process, ran, erased, late, enters, runs>>,
         pc'[SHELL] \in Executing <=> pc[SHELL] \in Executing
  PROVE  LinesInv'
BY DEF LinesInv, EntersLeft, LineGrows, NeverTwice, WipeIsSafe, WipedOnlyLate, Numbers, Executing

\* The steps of code that are not quiet in this sense.
LEMMA CodeLines ==
  ASSUME WellTyped, ThreadsInv, Code
  PROVE  \/ /\ UNCHANGED <<line, seen, keymap, process, ran, erased, late, enters, runs>>
            /\ pc'[SHELL] \in Executing <=> pc[SHELL] \in Executing
         \/ Poll \/ Split \/ Clear \/ KeyUp
<1>1. pc \in [Threads -> AllPlaces] /\ SHELL \in Threads
  BY PlacesType, ThreadsDiffer DEF WellTyped
<1>2. CASE ShellLock \/ ShellSetState \/ RunOther \/ ShellUnlock
  BY <1>1, <1>2 DEF ShellLock, ShellSetState, RunOther, ShellUnlock, SetState, Goto, NoKeyboard, NoLine,
     kbd, history, Executing
<1>3. CASE FreeParts
  BY <1>1, <1>3 DEF FreeParts, Goto, NoKeyboard, kbd, history, Executing
<1>4. CASE RunTxtedit
  <2>1. PICK e \in Editors : pc' = Created(e)
    BY <1>4 DEF RunTxtedit
  <2>2. pc'[SHELL] = "free" /\ pc[SHELL] = "run"
    BY <2>1, <1>1, <1>4, ThreadsDiffer DEF Created, RunTxtedit
  <2>3. QED
    BY <2>2, <1>4 DEF RunTxtedit, NoKeyboard, NoLine, kbd, history, Executing
<1>5. CASE \E t \in Threads : RunKill(t)
  <2>1. PICK t \in Threads : RunKill(t)
    BY <1>5
  <2>2. pc'[SHELL] = "free" /\ pc[SHELL] = "run"
    BY <2>1, <1>1 DEF RunKill
  <2>3. QED
    BY <2>1, <2>2 DEF RunKill, NoKeyboard, kbd, Executing
<1>6. CASE \E e \in Editors : EditorStep(e)
  <2>1. PICK e \in Editors : EditorStep(e)
    BY <1>6
  <2>2. pc'[SHELL] = pc[SHELL]
    BY <2>1, <1>1, ThreadsDiffer DEF EditorStep, EditorExists, EditorInit, EditorLock, EditorLoop, Goto
  <2>3. QED
    BY <2>1, <2>2 DEF EditorStep, EditorExists, EditorInit, EditorLock, EditorLoop, SetState,
       NoKeyboard, NoLine, kbd, history
<1>7. CASE GcStep
  <2>1. pc'[SHELL] = pc[SHELL]
    BY <1>1, <1>7, ThreadsDiffer, UnloadedPlaces DEF GcStep, GcLock, GcYield, Goto, ThreadsInv
  <2>2. QED
    BY <2>1, <1>7 DEF GcStep, GcLock, GcYield, NoKeyboard, NoLine, kbd, history
<1>8. QED
  BY <1>2, <1>3, <1>4, <1>5, <1>6, <1>7 DEF Code, ShellStep

LEMMA PollLines == WellTyped /\ LinesInv /\ Poll => LinesInv'
<1> SUFFICES ASSUME WellTyped, LinesInv, Poll PROVE LinesInv'
  OBVIOUS
<1>1. UNCHANGED <<line, seen, keymap, ran, erased, late, enters>>
  BY DEF Poll, NoKeyboard, kbd
<1>2. pc[SHELL] = "poll"
      /\ pc'[SHELL] \in {"split", "keyup", "clear"}
      /\ (pc'[SHELL] = "clear" => line[SHELL] = <<>>)
  BY PlacesType, ThreadsDiffer DEF WellTyped, Poll, Goto
<1>3. EntersLeft'
  <2>1. enters \in Nat /\ runs \in Nat
    BY DEF WellTyped
  <2>2. CASE ENTER \in keymap /\ ~process
    <3>1. runs' = runs + 1 /\ process'
      BY <2>2 DEF Poll, PollEnter
    <3>2. QED
      BY <2>1, <2>2, <3>1, <1>1 DEF LinesInv, EntersLeft
  <2>3. CASE ~(ENTER \in keymap /\ ~process)
    <3>1. runs' = runs
      BY <2>3 DEF Poll, PollEnter
    <3>2. ENTER \in keymap => process'
      BY <2>3 DEF Poll, PollEnter
    <3>3. QED
      BY <3>1, <3>2, <1>1 DEF LinesInv, EntersLeft
  <2>4. QED
    BY <2>2, <2>3
<1>4. LineGrows' /\ NeverTwice' /\ WipedOnlyLate'
  BY <1>1, <1>2 DEF LinesInv, LineGrows, NeverTwice, WipedOnlyLate, Numbers
<1>5. WipeIsSafe'
  BY <1>1, <1>2 DEF WipeIsSafe, Numbers
<1>6. QED
  BY <1>3, <1>4, <1>5 DEF LinesInv

\* The line goes behind what was executed before; it came later.
LEMMA SplitLines == WellTyped /\ LinesInv /\ Split => LinesInv'
<1> SUFFICES ASSUME WellTyped, LinesInv, Split PROVE LinesInv'
  OBVIOUS
<1> DEFINE text == line[SHELL]
           ns == [i \in 1..Len(text) |-> text[i].n]
<1>1. UNCHANGED <<line, seen, keymap, erased, late, enters, runs, process>> /\ ran' = ran \o ns
  BY DEF Split, NoKeyboard, kbd
<1>2. pc[SHELL] = "split" /\ pc'[SHELL] = "run"
  BY PlacesType, ThreadsDiffer DEF WellTyped, Split, Goto
<1>3. text \in Seq(Chars) /\ Len(text) \in Nat /\ ran \in Seq(Nat) /\ Len(ran) \in Nat /\ seen \in Nat
  BY ThreadsDiffer DEF WellTyped, TypeOK, KeyboardTypeOK
<1>4. \A i \in 1..Len(text) : text[i].n \in Nat
  <2>1. \A x \in Chars : x.n \in Nat
    BY DEF Chars
  <2>2. QED
    BY <2>1, <1>3
<1>5. ns \in Seq(Nat) /\ Len(ns) = Len(text) /\ \A i \in 1..Len(text) : ns[i] = text[i].n
  BY <1>3, <1>4
<1>6. /\ \A i, j \in 1..Len(text) : i < j => text[i].n < text[j].n
      /\ \A i \in 1..Len(text) : text[i].n < seen
      /\ \A i \in 1..Len(ran) : ran[i] < seen
      /\ \A i \in 1..Len(ran), j \in 1..Len(text) : ran[i] < text[j].n
  BY <1>2 DEF LinesInv, LineGrows
<1> HIDE DEF ns, text
<1>7. /\ Len(ran') = Len(ran) + Len(text)
      /\ \A i \in 1..Len(ran') : ran'[i] = IF i <= Len(ran) THEN ran[i] ELSE ns[i - Len(ran)]
  <2>1. ran' = ran \o ns /\ ran \in Seq(Nat) /\ ns \in Seq(Nat) /\ Len(ns) = Len(text)
    BY <1>1, <1>3, <1>5
  <2>2. /\ Len(ran \o ns) = Len(ran) + Len(ns)
        /\ \A i \in 1..Len(ran) + Len(ns) :
             (ran \o ns)[i] = IF i <= Len(ran) THEN ran[i] ELSE ns[i - Len(ran)]
    BY <2>1, ConcatProperties
  <2>3. QED
    BY <2>1, <2>2
<1>8. \A i \in 1..Len(ran') : \/ i \in 1..Len(ran) /\ ran'[i] = ran[i]
                              \/ i > Len(ran) /\ i - Len(ran) \in 1..Len(text)
                                 /\ ran'[i] = text[i - Len(ran)].n
  <2> TAKE i \in 1..Len(ran')
  <2>1. CASE i <= Len(ran)
    BY <2>1, <1>7, <1>3
  <2>2. CASE i > Len(ran)
    <3>1. i - Len(ran) \in 1..Len(text)
      BY <2>2, <1>7, <1>3
    <3>2. ran'[i] = ns[i - Len(ran)]
      BY <2>2, <1>7, <1>3
    <3>3. QED
      BY <2>2, <3>1, <3>2, <1>5
  <2>3. QED
    BY <2>1, <2>2, <1>3, <1>7
<1>9. NeverTwice'
  <2> SUFFICES ASSUME NEW i \in 1..Len(ran'), NEW j \in 1..Len(ran'), i < j
               PROVE  ran'[i] < ran'[j]
    BY DEF NeverTwice
  <2>1. CASE j \in 1..Len(ran)
    <3>1. i \in 1..Len(ran) /\ ran'[i] = ran[i] /\ ran'[j] = ran[j]
      BY <2>1, <1>8, <1>3, <1>7
    <3>2. QED
      BY <3>1, <2>1 DEF LinesInv, NeverTwice
  <2>2. CASE j \notin 1..Len(ran) /\ i \in 1..Len(ran)
    <3>1. ran'[i] = ran[i]
      BY <2>2, <1>8, <1>3
    <3>2. j - Len(ran) \in 1..Len(text) /\ ran'[j] = text[j - Len(ran)].n
      BY <2>2, <1>8
    <3>3. QED
      BY <3>1, <3>2, <2>2, <1>6
  <2>3. CASE j \notin 1..Len(ran) /\ i \notin 1..Len(ran)
    <3>1. /\ i - Len(ran) \in 1..Len(text) /\ ran'[i] = text[i - Len(ran)].n
          /\ j - Len(ran) \in 1..Len(text) /\ ran'[j] = text[j - Len(ran)].n
      BY <2>3, <1>8
    <3>2. i - Len(ran) < j - Len(ran)
      BY <1>3, <1>7
    <3>3. QED
      BY <3>1, <3>2, <1>6
  <2>4. QED
    BY <2>1, <2>2, <2>3
<1>10. LineGrows'
  <2>1. \A i \in 1..Len(ran') : ran'[i] < seen
    BY <1>8, <1>6
  <2>2. QED
    BY <2>1, <1>1, <1>2, <1>6 DEF LineGrows, text
<1>11. Range(ran') = Range(ran) \cup Numbers(text)
  <2>1. Range(ran') \subseteq Range(ran) \cup Numbers(text)
    <3> SUFFICES ASSUME NEW i \in 1..Len(ran') PROVE ran'[i] \in Range(ran) \cup Numbers(text)
      BY <1>7, <1>1, <1>3, <1>5, ConcatProperties DEF Range
    <3>1. \A l \in 1..Len(ran) : ran[l] \in Range(ran)
      BY <1>3 DEF Range
    <3>2. \A l \in 1..Len(text) : text[l].n \in Numbers(text)
      BY DEF Numbers
    <3>3. QED
      BY <3>1, <3>2, <1>8
  <2>2. Range(ran) \subseteq Range(ran')
    <3> SUFFICES ASSUME NEW i \in 1..Len(ran) PROVE ran[i] \in Range(ran')
      BY <1>3 DEF Range
    <3>1. i \in 1..Len(ran') /\ ran'[i] = ran[i]
      BY <1>7, <1>3
    <3>2. DOMAIN ran' = 1..Len(ran')
      BY <1>1, <1>3, <1>5, ConcatProperties
    <3>3. QED
      BY <3>1, <3>2 DEF Range
  <2>3. Numbers(text) \subseteq Range(ran')
    <3> SUFFICES ASSUME NEW i \in 1..Len(text) PROVE text[i].n \in Range(ran')
      BY DEF Numbers
    <3>1. Len(ran) + i \in 1..Len(ran') /\ ~(Len(ran) + i <= Len(ran)) /\ (Len(ran) + i) - Len(ran) = i
      BY <1>7, <1>3
    <3>2. ran'[Len(ran) + i] = text[i].n
      BY <3>1, <1>7, <1>5
    <3>3. DOMAIN ran' = 1..Len(ran')
      BY <1>1, <1>3, <1>5, ConcatProperties
    <3>4. QED
      BY <3>1, <3>2, <3>3 DEF Range
  <2>4. QED
    BY <2>1, <2>2, <2>3
<1>12. WipeIsSafe' /\ WipedOnlyLate'
  BY <1>1, <1>11 DEF LinesInv, WipeIsSafe, WipedOnlyLate, Numbers, text
<1>13. EntersLeft'
  BY <1>1 DEF LinesInv, EntersLeft
<1>14. QED
  BY <1>9, <1>10, <1>12, <1>13 DEF LinesInv
LEMMA ClearLines == WellTyped /\ LinesInv /\ Clear => LinesInv'
<1> SUFFICES ASSUME WellTyped, LinesInv, Clear PROVE LinesInv'
  OBVIOUS
<1>1. UNCHANGED <<seen, keymap, process, ran, erased, late, enters, runs>>
  BY DEF Clear, NoLine, history
<1>2. line'[SHELL] = <<>> /\ Len(line'[SHELL]) = 0
  BY ThreadsDiffer DEF WellTyped, TypeOK, KeyboardTypeOK, Clear
<1>3. pc[SHELL] = "clear" /\ pc'[SHELL] = "keyup"
  BY PlacesType, ThreadsDiffer DEF WellTyped, Clear, Goto
<1>4. LineGrows' /\ NeverTwice' /\ EntersLeft' /\ WipeIsSafe'
  BY <1>1, <1>2, <1>3 DEF LinesInv, LineGrows, NeverTwice, EntersLeft, WipeIsSafe
<1>5. WipedOnlyLate'
  <2>1. Numbers(line[SHELL]) \subseteq Range(ran) \cup late
    BY <1>3 DEF LinesInv, WipeIsSafe
  <2>2. QED
    BY <2>1, <1>1 DEF LinesInv, WipedOnlyLate
<1>6. QED
  BY <1>4, <1>5 DEF LinesInv

LEMMA KeyUpLines == WellTyped /\ LinesInv /\ KeyUp => LinesInv'
<1> SUFFICES ASSUME WellTyped, LinesInv, KeyUp PROVE LinesInv'
  OBVIOUS
<1>1. UNCHANGED <<line, seen, keymap, ran, erased, late, enters, runs>>
  BY DEF KeyUp, NoKeyboard, kbd, history
<1>2. pc[SHELL] = "keyup" /\ pc'[SHELL] = "unlock"
  BY PlacesType, ThreadsDiffer DEF WellTyped, KeyUp, Goto
<1>3. process' <=> (process /\ ENTER \in keymap)
  BY DEF KeyUp
<1>4. EntersLeft'
  BY <1>1, <1>3 DEF LinesInv, EntersLeft
<1>5. QED
  BY <1>1, <1>2, <1>4 DEF LinesInv, LineGrows, NeverTwice, WipeIsSafe, WipedOnlyLate, Numbers

\* What the interrupt handler does to the shell's line.
LEMMA IrqLine ==
  ASSUME WellTyped, KeyIrq
  PROVE  \/ /\ seen' = seen + 1
            /\ \E x \in Chars : x.n = seen /\ line'[SHELL] = Append(line[SHELL], x)
         \/ seen' = seen /\ line'[SHELL] = line[SHELL]
         \/ seen' = seen /\ line[SHELL] # <<>> /\ line'[SHELL] = Front(line[SHELL])
<1> DEFINE c == Head(queue)
<1>1. /\ KeyboardTypeOK /\ seen \in Nat /\ line \in [Consumers -> Seq(Chars)]
      /\ NULL \notin Consumers /\ SHELL \in Consumers /\ Buffered = {SHELL}
  BY ShellAssumption, KeyboardAssumption DEF WellTyped, TypeOK, KeyboardTypeOK
<1>2. c \in Codes
  BY DEF WellTyped, TypeOK, KeyboardTypeOK, KeyIrq
<1>3. CASE state = NULL
  BY <1>3 DEF KeyIrq
<1>4. CASE state = SHELL
  <2>1. line'[SHELL] = LineAfter(SHELL, c) /\ seen' = (IF Typed(SHELL, c) THEN seen + 1 ELSE seen)
    BY <1>1, <1>4 DEF KeyIrq
  <2> HIDE DEF c
  <2>2. QED
    BY <2>1, <1>1, <1>2, LineCases
<1>5. CASE state \notin {NULL, SHELL}
  <2>1. ~Typed(state, c)
    BY <1>1, <1>5 DEF Typed
  <2>2. line' = [line EXCEPT ![state] = LineAfter(state, c)] /\ seen' = seen
    BY <2>1, <1>5 DEF KeyIrq
  <2>3. QED
    BY <2>2, <1>1, <1>5
<1>6. QED
  BY <1>3, <1>4, <1>5

\* A character that comes has the highest number; one that goes is noted.
LEMMA IrqLines == WellTyped /\ LinesInv /\ ShellKeyIrq => LinesInv'
<1> SUFFICES ASSUME WellTyped, LinesInv, ShellKeyIrq PROVE LinesInv'
  OBVIOUS
<1> DEFINE text == line[SHELL]
           now == line'[SHELL]
           c == Head(queue)
<1>1. text \in Seq(Chars) /\ Len(text) \in Nat /\ seen \in Nat /\ ran \in Seq(Nat)
      /\ enters \in Nat /\ runs \in Nat
  BY ThreadsDiffer DEF WellTyped, TypeOK, KeyboardTypeOK
<1>2. UNCHANGED <<pc, process, ran, runs>>
  BY DEF ShellKeyIrq, threadVars
<1>3. \A i \in 1..Len(text) : text[i].n \in Nat
  <2>1. \A x \in Chars : x.n \in Nat
    BY DEF Chars
  <2>2. QED
    BY <2>1, <1>1
<1>4. /\ \A i, j \in 1..Len(text) : i < j => text[i].n < text[j].n
      /\ \A i \in 1..Len(text) : text[i].n < seen
      /\ \A i \in 1..Len(ran) : ran[i] < seen /\ ran[i] \in Nat
      /\ pc[SHELL] \notin Executing =>
           \A i \in 1..Len(ran), j \in 1..Len(text) : ran[i] < text[j].n
  BY <1>1 DEF LinesInv, LineGrows, Executing
<1>5. EntersLeft'
  <2>1. enters' = IF c = [key |-> ENTER, make |-> TRUE] /\ ENTER \notin keymap
                  THEN enters + 1 ELSE enters
    BY DEF ShellKeyIrq
  <2>2. keymap' = KeymapAfter(c) /\ c \in Codes
    BY DEF ShellKeyIrq, KeyIrq, WellTyped, TypeOK, KeyboardTypeOK
  <2> HIDE DEF c
  <2>3. ENTER \in keymap' =>
          ENTER \in keymap \/ c = [key |-> ENTER, make |-> TRUE]
    BY <2>2 DEF KeymapAfter, Codes
  <2>4. QED
    BY <2>1, <2>3, <1>1, <1>2 DEF LinesInv, EntersLeft
<1>6. /\ erased' = erased \cup (Numbers(text) \ Numbers(now))
      /\ late' = IF pc[SHELL] \in Executing THEN late \cup (seen .. seen' - 1) ELSE late
  BY DEF ShellKeyIrq, Executing
<1>7. NeverTwice'
  BY <1>2 DEF LinesInv, NeverTwice
<1> HIDE DEF c
<1>8. CASE seen' = seen + 1 /\ \E x \in Chars : x.n = seen /\ now = Append(text, x)
  <2>1. /\ Len(now) = Len(text) + 1
        /\ \A i \in 1..Len(text) : now[i] = text[i]
        /\ now[Len(text) + 1].n = seen
    BY <1>1, <1>8
  <2> HIDE DEF text, now
  <2>2. \A i \in 1..Len(now) : i \in 1..Len(text) \/ i = Len(text) + 1
    BY <2>1, <1>1
  <2>3. LineGrows'
    <3>1. \A i, j \in 1..Len(now) : i < j => now[i].n < now[j].n
      <4> TAKE i, j \in 1..Len(now)
      <4> HAVE i < j
      <4>1. i \in 1..Len(text) /\ now[i].n = text[i].n
        BY <2>1, <2>2, <1>1
      <4>2. CASE j \in 1..Len(text)
        BY <4>1, <4>2, <2>1, <1>4
      <4>3. CASE j = Len(text) + 1
        BY <4>1, <4>3, <2>1, <1>4
      <4>4. QED
        BY <4>2, <4>3, <2>2
    <3>2. \A i \in 1..Len(now) : now[i].n < seen'
      BY <2>1, <2>2, <1>1, <1>3, <1>4, <1>8
    <3>3. \A i \in 1..Len(ran') : ran'[i] < seen'
      BY <1>1, <1>2, <1>4, <1>8
    <3>4. pc'[SHELL] \notin Executing =>
            \A i \in 1..Len(ran'), j \in 1..Len(now) : ran'[i] < now[j].n
      BY <2>1, <2>2, <1>2, <1>4
    <3>5. QED
      BY <3>1, <3>2, <3>3, <3>4 DEF LineGrows, Executing, now
  <2>4. Numbers(now) = Numbers(text) \cup {seen}
    <3>1. Len(text) + 1 \in 1..Len(now)
      BY <2>1, <1>1
    <3>2. 1..Len(text) \subseteq 1..Len(now)
      BY <2>1, <1>1
    <3>3. Numbers(now) \subseteq Numbers(text) \cup {seen}
      BY <2>1, <2>2 DEF Numbers
    <3>4. Numbers(text) \cup {seen} \subseteq Numbers(now)
      BY <2>1, <3>1, <3>2 DEF Numbers
    <3>5. QED
      BY <3>3, <3>4
  <2>5. WipeIsSafe'
    <3>1. ASSUME pc'[SHELL] \in Executing PROVE Numbers(now) \subseteq Range(ran') \cup late'
      <4>1. pc[SHELL] \in Executing /\ Numbers(text) \subseteq Range(ran) \cup late
        BY <3>1, <1>2 DEF LinesInv, WipeIsSafe, Executing, text
      <4>2. seen \in late' /\ late \subseteq late'
        BY <4>1, <1>1, <1>6, <1>8
      <4>3. QED
        BY <4>1, <4>2, <2>4, <1>2
    <3>2. QED
      BY <3>1 DEF WipeIsSafe, Executing, now
  <2>6. WipedOnlyLate'
    <3>1. \A m \in 0 .. seen' - 1 : m \in 0 .. seen - 1 \/ m = seen
      BY <1>1, <1>8
    <3>2. late \subseteq late'
      BY <1>6
    <3>3. QED
      BY <3>1, <3>2, <2>4, <1>2, <1>6 DEF LinesInv, WipedOnlyLate, now, text
  <2>7. QED
    BY <2>3, <2>5, <2>6, <1>5, <1>7 DEF LinesInv
<1>9. CASE seen' = seen /\ now = text
  <2>1. late' = late
    BY <1>1, <1>6, <1>9
  <2>2. erased' = erased
    BY <1>6, <1>9
  <2>3. LineGrows' /\ WipeIsSafe' /\ WipedOnlyLate'
    BY <2>1, <2>2, <1>2, <1>9 DEF LinesInv, LineGrows, WipeIsSafe, WipedOnlyLate, Numbers
  <2>4. QED
    BY <2>3, <1>5, <1>7 DEF LinesInv
<1>10. CASE seen' = seen /\ text # <<>> /\ now = Front(text)
  <2>1. /\ Len(now) = Len(text) - 1 /\ Len(now) \in Nat
        /\ \A i \in 1..Len(now) : i \in 1..Len(text) /\ now[i] = text[i]
    BY <1>1, <1>10 DEF Front
  <2>2. late' = late
    BY <1>1, <1>6, <1>10
  <2> HIDE DEF text, now
  <2>3. Numbers(now) \subseteq Numbers(text)
    BY <2>1 DEF Numbers
  <2>4. LineGrows'
    <3>1. \A i, j \in 1..Len(now) : i < j => now[i].n < now[j].n
      BY <2>1, <1>4
    <3>2. \A i \in 1..Len(now) : now[i].n < seen'
      BY <2>1, <1>4, <1>10
    <3>3. pc'[SHELL] \notin Executing =>
            \A i \in 1..Len(ran'), j \in 1..Len(now) : ran'[i] < now[j].n
      BY <2>1, <1>2, <1>4
    <3>4. QED
      BY <3>1, <3>2, <3>3, <1>2, <1>4, <1>10 DEF LineGrows, Executing, now
  <2>5. WipeIsSafe'
    BY <2>2, <2>3, <1>2 DEF LinesInv, WipeIsSafe, now, text
  <2>6. WipedOnlyLate'
    BY <2>2, <2>3, <1>2, <1>6, <1>10 DEF LinesInv, WipedOnlyLate, now, text
  <2>7. QED
    BY <2>4, <2>5, <2>6, <1>5, <1>7 DEF LinesInv
<1>11. QED
  BY <1>8, <1>9, <1>10, IrqLine DEF ShellKeyIrq

LEMMA StepLines == WellTyped /\ ThreadsInv /\ LinesInv /\ [Next]_vars => LinesInv'
<1> SUFFICES ASSUME WellTyped, ThreadsInv, LinesInv, [Next]_vars PROVE LinesInv'
  OBVIOUS
<1>1. CASE Type
  <2>1. UNCHANGED <<line, seen, keymap, pc, process, ran, erased, late, enters, runs>>
    BY <1>1 DEF Type, Person, Press, Release, Send, kbd, threadVars, history
  <2>2. QED
    BY <2>1, QuietLines
<1>2. CASE ShellKeyIrq
  BY <1>2, IrqLines
<1>3. CASE Preempt
  <2>1. pc'[SHELL] = pc[SHELL]
    BY <1>3, UnloadedPlaces DEF Preempt, ThreadsInv
  <2>2. UNCHANGED <<line, seen, keymap, process, ran, erased, late, enters, runs>>
    BY <1>3 DEF Preempt, kbd
  <2>3. QED
    BY <2>1, <2>2, QuietLines
<1>4. CASE Code
  BY <1>4, CodeLines, QuietLines, PollLines, SplitLines, ClearLines, KeyUpLines
<1>5. CASE UNCHANGED vars
  <2>1. UNCHANGED <<line, seen, keymap, pc, process, ran, erased, late, enters, runs>>
    BY <1>5 DEF vars
  <2>2. QED
    BY <2>1, QuietLines
<1>6. QED
  BY <1>1, <1>2, <1>3, <1>4, <1>5, NextCases
-----------------------------------------------------------------------------
(* The theorems. *)

LEMMA InitHolds == Init => IInv
<1> SUFFICES ASSUME Init PROVE IInv
  OBVIOUS
<1>1. WellTyped
  BY InitTypes
<1>2. /\ pc[SHELL] = "lock" /\ pc[GC] = "idle" /\ \A e \in Editors : pc[e] = "none"
      /\ locked = {} /\ state = NULL /\ NULL \notin Consumers
      /\ clash = {} /\ ticked = {} /\ halved = {}
  BY ThreadsDiffer, KeyboardAssumption DEF Init, KeyboardInit
<1>3. ThreadsInv
  BY <1>2, ThreadsDiffer DEF ThreadsInv, Places, ShellPlaces, GcPlaces, EditorPlaces, LocksHeld,
     OwnerLoops, IrqHeapAlone, UnloadIsAlone, HalvedIsEditorStart
<1>4. Len(queue) = 0 /\ keymap = {} /\ down = {} /\ \A w \in Consumers : mods[w].shift = {}
  BY DEF Init, KeyboardInit
<1>5. KeysInv
  BY <1>4 DEF KeysInv, LastCodes, KeyboardFollows, KeymapFollows, ShiftFollows
<1>6. Len(line[SHELL]) = 0 /\ Len(ran) = 0 /\ seen = 0 /\ enters = 0 /\ runs = 0
  BY ThreadsDiffer DEF Init, KeyboardInit
<1>7. LinesInv
  <2>1. 0 .. seen - 1 = {}
    BY <1>6
  <2>2. EntersLeft /\ LineGrows /\ NeverTwice
    BY <1>4, <1>6 DEF EntersLeft, LineGrows, NeverTwice
  <2>3. WipeIsSafe /\ WipedOnlyLate
    BY <2>1, <1>2 DEF WipeIsSafe, WipedOnlyLate
  <2>4. QED
    BY <2>2, <2>3 DEF LinesInv
<1>8. QED
  BY <1>1, <1>3, <1>5, <1>7 DEF IInv

LEMMA Invariant == Spec => []IInv
<1>1. IInv /\ [Next]_vars => IInv'
  BY StepTypes, StepThreads, StepKeys, StepLines DEF IInv
<1>2. QED
  BY <1>1, InitHolds, PTL DEF Spec

\* Every variable of keyboard, shell and editors keeps its type; in particular the
\* controller's queue its limit and the line its characters.
THEOREM TypeCorrect == Spec => []TypeOK
<1>1. IInv => TypeOK
  BY DEF IInv, WellTyped
<1>2. QED
  BY <1>1, Invariant, PTL

\* Key map and modifiers follow the keys, with the exceptions that KeyboardFollows
\* names, however the codes are lost and the consumers change (kbd.c:67-113).
THEOREM KeysFollowed == Spec => []KeyboardFollows
<1>1. IInv => KeyboardFollows
  BY DEF IInv, KeysInv
<1>2. QED
  BY <1>1, Invariant, PTL

\* One line for each Enter, nothing executed twice or out of order, and nothing lost
\* but what came while a command ran (cmdhost.c:37-56, kbd.c:94-111).
THEOREM LinesOnce == Spec => []LinesRunOnce
<1>1. IInv => LinesRunOnce
  BY DEF IInv, LinesInv, LinesRunOnce, EntersLeft, EnterOnce
<1>2. QED
  BY <1>1, Invariant, PTL

\* However many editors there are, only one that starts can be inside a heap operation
\* while another thread or an interrupt handler works on the heap (txtedit.c:20,
\* scheduler.c:112, heap.c:140).
THEOREM HeapStaysAlone == Spec => []HeapAlone
<1>1. IInv => HeapAlone
  BY OverlapFollows DEF IInv, ThreadsInv, HeapAlone
<1>2. QED
  BY <1>1, Invariant, PTL

\* The editor that has the keyboard runs under its lock for good, so no other thread
\* sets the consumer again (txtedit.c:95-101, scheduler.c:60).
THEOREM EditorStays == Spec => EditorKeeps
<1>1. ASSUME IInv, [Next]_vars, state \in Editors PROVE state' = state
  <2>1. cpu = state /\ locked = {state}
    BY <1>1, LockedRuns DEF IInv
  <2>2. state # SHELL /\ state # GC
    BY <1>1, ThreadsDiffer
  <2>3. CASE Type \/ ShellKeyIrq \/ Preempt \/ UNCHANGED vars
    BY <2>3 DEF Type, Person, Press, Release, Send, kbd, ShellKeyIrq, KeyIrq, Preempt, vars
  <2>4. CASE ShellStep
    BY <2>1, <2>2, <2>4 DEF ShellStep, ShellLock, ShellSetState, Poll, Split, RunOther, RunTxtedit,
       RunKill, FreeParts, Clear, KeyUp, ShellUnlock, Goto
  <2>5. CASE \E e \in Editors : EditorStep(e)
    BY <2>1, <2>5 DEF EditorStep, EditorExists, EditorInit, EditorLock, EditorLoop, Goto,
       SetState, NoKeyboard, kbd
  <2>6. CASE GcStep
    BY <2>1, <2>2, <2>6 DEF GcStep, GcLock, GcYield, Goto
  <2>7. QED
    BY <1>1, <2>3, <2>4, <2>5, <2>6, NextCases DEF Code
<1>2. IInv /\ [Next]_vars => [(state \in Editors) => (state' = state)]_vars
  BY <1>1
<1>3. QED
  BY <1>2, Invariant, PTL DEF Spec, EditorKeeps
=============================================================================
