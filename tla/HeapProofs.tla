----------------------------- MODULE HeapProofs -----------------------------
(***************************************************************************)
(* Proofs about the heap, for any number of slots, any size and any set of *)
(* threads.  What happens after the first damage is promised by nobody, so *)
(* the interesting part of each step is the one with broken' = {}.         *)
(***************************************************************************)
EXTENDS Heap, TLAPS

States == {"INVALID", "FREE", "USED"}
Block  == [addr : Nat, sz : Nat, state : States, thread : Tasks \cup {NoThread}]

-----------------------------------------------------------------------------
(* Type correctness.                                                       *)

LEMMA FreeType ==
  ASSUME TypeOK, NEW p, FreeBlock(p)
  PROVE  blk' \in [Slots -> Block] /\ haltBy' \in {haltBy, "free"}
<1>1. ASSUME NEW i \in Slots, blk' = [blk EXCEPT ![i].state = "FREE"],
             UNCHANGED haltBy
      PROVE  blk' \in [Slots -> Block] /\ haltBy' \in {haltBy, "free"}
  BY <1>1 DEF TypeOK, Block, States
<1>2. QED
  BY <1>1 DEF FreeBlock, Halt, TypeOK, Block, States

\* What growing block i over block k does to the table.
LEMMA MergedFacts ==
  ASSUME blk \in [Slots -> Block], NEW i \in Slots, NEW k \in Slots
  PROVE  /\ Merged(i, k) \in [Slots -> Block]
         /\ \A x \in Slots \ {i, k} : Merged(i, k)[x] = blk[x]
         /\ Merged(i, k)[k] = Invalid
         /\ i # k => LET b == Merged(i, k)[i]
                     IN  /\ b.addr = IF blk[i].addr > blk[k].addr
                                       THEN blk[k].addr ELSE blk[i].addr
                         /\ b.sz = blk[i].sz + blk[k].sz
                         /\ b.state = blk[i].state
<1> DEFINE a == IF blk[i].addr > blk[k].addr THEN blk[k].addr ELSE blk[i].addr
           s == blk[i].sz + blk[k].sz
           g == [blk[i] EXCEPT !.addr = a, !.sz = s]
<1>1. /\ blk[i] \in Block /\ blk[k] \in Block
      /\ blk[i].addr \in Nat /\ blk[k].addr \in Nat
      /\ blk[i].sz \in Nat /\ blk[k].sz \in Nat
  BY DEF Block
<1>2. a \in Nat /\ s \in Nat
  BY <1>1
<1>3. Merged(i, k) = [blk EXCEPT ![i] = g, ![k] = Invalid]
  BY DEF Merged
<1> HIDE DEF a, s
<1>4. /\ g \in Block /\ g.addr = a /\ g.sz = s /\ g.state = blk[i].state
  BY <1>1, <1>2 DEF Block
<1>5. Invalid \in Block
  BY DEF Invalid, Block, States
<1> HIDE DEF g
<1>6. QED
  BY <1>3, <1>4, <1>5 DEF a, s

LEMMA MergeType ==
  ASSUME TypeOK, NEW i \in Slots, Merge(i)
  PROVE  blk' \in [Slots -> Block] /\ broken' \subseteq Damage
<1>1. blk \in [Slots -> Block]
  BY DEF TypeOK, Block, States
<1>2. \A k \in Slots : MergeDamage(i, k) \subseteq Damage
  BY DEF MergeDamage, Damage
<1>3. \A k \in Slots : Merged(i, k) \in [Slots -> Block]
  BY <1>1, MergedFacts
<1>4. QED
  BY <1>1, <1>2, <1>3 DEF Merge, TypeOK

\* Cutting sz units off block i, with a new record b in slot j (heap_request).
Cut(i, j, b, sz) == [blk EXCEPT ![j] = b, ![i].addr = @ + sz, ![i].sz = @ - sz]

LEMMA SplitFacts ==
  ASSUME blk \in [Slots -> Block], NEW i \in Slots, NEW j \in Slots, i # j,
         NEW b \in Block, NEW sz \in Nat, blk[i].sz > sz
  PROVE  /\ Cut(i, j, b, sz) \in [Slots -> Block]
         /\ \A x \in Slots \ {i, j} : Cut(i, j, b, sz)[x] = blk[x]
         /\ Cut(i, j, b, sz)[j] = b
         /\ Cut(i, j, b, sz)[i].addr = blk[i].addr + sz
         /\ Cut(i, j, b, sz)[i].sz = blk[i].sz - sz
<1> DEFINE g == [blk[i] EXCEPT !.addr = @ + sz, !.sz = @ - sz]
<1>1. blk[i] \in Block /\ blk[i].addr + sz \in Nat /\ blk[i].sz - sz \in Nat
  BY DEF Block
<1>2. Cut(i, j, b, sz) = [blk EXCEPT ![j] = b, ![i] = g]
  BY DEF Cut
<1>3. g \in Block /\ g.addr = blk[i].addr + sz /\ g.sz = blk[i].sz - sz
  BY <1>1 DEF Block
<1> HIDE DEF g
<1>4. QED
  BY <1>2, <1>3

\* Handing out block i as it is.
LEMMA ExactFacts ==
  ASSUME blk \in [Slots -> Block], NEW i \in Slots, NEW t \in Tasks \cup {NoThread}
  PROVE  LET r == [blk EXCEPT ![i].state = "USED", ![i].thread = t]
         IN  /\ r \in [Slots -> Block]
             /\ \A x \in Slots \ {i} : r[x] = blk[x]
             /\ r[i] = [addr |-> blk[i].addr, sz |-> blk[i].sz, state |-> "USED",
                        thread |-> t]
<1> DEFINE g == [blk[i] EXCEPT !.state = "USED", !.thread = t]
<1>1. blk[i] \in Block
  BY DEF Block
<1>2. g \in Block
  BY <1>1 DEF Block, States
<1>3. [blk EXCEPT ![i].state = "USED", ![i].thread = t] = [blk EXCEPT ![i] = g]
  OBVIOUS
<1>5. /\ g.addr = blk[i].addr /\ g.sz = blk[i].sz
      /\ g.state = "USED" /\ g.thread = t
  BY <1>1 DEF Block
<1>6. \A x \in Block :
        x = [addr |-> x.addr, sz |-> x.sz, state |-> x.state, thread |-> x.thread]
  BY DEF Block
<1> HIDE DEF g
<1>4. QED
  BY <1>2, <1>3, <1>5, <1>6

LEMMA AdvanceType ==
  ASSUME TypeOK, NEW loop \in {"merge", "last"}, Advance(loop)
  PROVE  gi' \in Slots /\ gc' \in {"idle", "dead", "merge", "last"}
BY HeapAssumption DEF TypeOK, Advance, Slots

LEMMA InitType == Init => TypeOK
<1> SUFFICES ASSUME Init PROVE TypeOK
  OBVIOUS
<1>1. blk \in [Slots -> Block]
  BY HeapAssumption DEF Init, Invalid, Block, States
<1>2. gi \in Slots
  BY HeapAssumption DEF Init, Slots
<1>3. /\ listed \subseteq Tasks /\ broken \subseteq Damage
      /\ live \subseteq [ptr : Nat, sz : Nat, owner : Tasks]
  BY DEF Init
<1>4. /\ booted \in BOOLEAN /\ gc = "idle" /\ haltBy = "none"
  BY DEF Init
<1>5. QED
  BY <1>1, <1>2, <1>3, <1>4 DEF TypeOK, Block, States
LEMMA NextType == TypeOK /\ [Next]_vars => TypeOK'
<1> SUFFICES ASSUME TypeOK, [Next]_vars PROVE TypeOK'
  OBVIOUS
<1> USE HeapAssumption
<1>0. blk \in [Slots -> Block]
  BY DEF TypeOK, Block, States
<1> DEFINE Rest ==
      /\ listed' \subseteq Tasks /\ booted' \in BOOLEAN
      /\ gc' \in {"idle", "dead", "merge", "last"} /\ gi' \in Slots
      /\ live' \subseteq [ptr : Nat, sz : Nat, owner : Tasks]
      /\ broken' \subseteq Damage /\ haltBy' \in {"none", "alloc", "free", "trap"}
<1>a. ASSUME blk' \in [Slots -> Block], Rest PROVE TypeOK'
  BY <1>a DEF TypeOK, Block, States
<1>b. ASSUME NEW i \in Slots, NEW sz \in Nat, NEW t \in Tasks,
             Granted(blk[i].addr, sz, t)
      PROVE  live' \subseteq [ptr : Nat, sz : Nat, owner : Tasks]
  <2>1. blk[i].addr \in Nat
    BY <1>0 DEF Block
  <2>2. QED
    BY <1>b, <2>1 DEF Granted, TypeOK
<1>c. \A t \in Tasks : Caller(t) \in Tasks \cup {NoThread}
  BY DEF Caller
<1>1. ASSUME NEW t \in Tasks, NEW sz \in Requests, AllocExact(t, sz) PROVE TypeOK'
  <2>1. PICK i \in Slots :
          /\ blk' = [blk EXCEPT ![i].state = "USED", ![i].thread = Caller(t)]
          /\ Granted(blk[i].addr, sz, t)
    BY <1>1 DEF AllocExact
  <2>2. blk' \in [Slots -> Block]
    BY <2>1, <1>0, <1>c, ExactFacts
  <2>3. sz \in Nat
    BY DEF Requests
  <2>4. QED
    BY <1>1, <2>1, <2>2, <2>3, <1>a, <1>b DEF AllocExact, TypeOK
<1>2. ASSUME NEW t \in Tasks, NEW sz \in Requests, AllocSplit(t, sz) PROVE TypeOK'
  <2> DEFINE b(i) == [addr |-> blk[i].addr, sz |-> sz, state |-> "USED",
                      thread |-> Caller(t)]
  <2>1. PICK i \in Slots, j \in Slots :
          /\ i \in LargerFits(sz) /\ j \in FreeSlots
          /\ blk' = Cut(i, j, b(i), sz)
          /\ Granted(blk[i].addr, sz, t)
    BY <1>2 DEF AllocSplit, First, Cut
  <2>2. sz \in Nat
    BY DEF Requests
  <2>3. i # j /\ blk[i].sz > sz /\ b(i) \in Block
    BY <2>1, <2>2, <1>0, <1>c DEF LargerFits, FreeSlots, Block, States
  <2> HIDE DEF b
  <2>4. blk' \in [Slots -> Block]
    BY <2>1, <2>2, <2>3, <1>0, SplitFacts
  <2>5. QED
    BY <1>2, <2>1, <2>2, <2>4, <1>a, <1>b DEF AllocSplit, TypeOK
<1>3. ASSUME NEW t \in Tasks, NEW sz \in Requests, AllocTableFull(t, sz)
      PROVE  TypeOK'
  <2>1. sz \in Nat
    BY DEF Requests
  <2>2. broken' \subseteq Damage
    BY <1>3 DEF AllocTableFull, TypeOK, Damage
  <2>3. CASE haltBy' = "trap" /\ UNCHANGED <<blk, live>>
    BY <1>3, <2>2, <2>3, <1>0, <1>a DEF AllocTableFull, TypeOK
  <2>4. ASSUME NEW i \in Slots, i \in LargerFits(sz), UNCHANGED haltBy,
               blk' = [blk EXCEPT ![i].addr = @ + sz, ![i].sz = @ - sz],
               Granted(blk[i].addr, sz, t)
        PROVE  TypeOK'
    <3>1. blk[i].addr + sz \in Nat /\ blk[i].sz - sz \in Nat /\ blk[i] \in Block
      BY <2>1, <2>4, <1>0 DEF LargerFits, Block
    <3> DEFINE g == [blk[i] EXCEPT !.addr = @ + sz, !.sz = @ - sz]
    <3>2. g \in Block
      BY <3>1 DEF Block
    <3>3. blk' = [blk EXCEPT ![i] = g]
      BY <2>4
    <3> HIDE DEF g
    <3>4. blk' \in [Slots -> Block]
      BY <3>2, <3>3, <1>0
    <3>5. QED
      BY <1>3, <2>1, <2>2, <2>4, <3>4, <1>a, <1>b DEF AllocTableFull, TypeOK
  <2>5. QED
    BY <1>3, <2>3, <2>4 DEF AllocTableFull, First, Halt
<1>4. ASSUME NEW t \in Tasks, NEW sz \in Requests, AllocRefused(t, sz)
      PROVE  TypeOK'
  BY <1>4, <1>0, <1>a DEF AllocRefused, TypeOK, Halt
<1>5. ASSUME NEW l \in live, Free(l) PROVE TypeOK'
  BY <1>5, <1>a, FreeType DEF Free, TypeOK
<1>6. ASSUME InitKThread PROVE TypeOK'
  BY <1>6, <1>0, <1>a DEF InitKThread, TypeOK, Block
<1>7. ASSUME NEW t \in Tasks, LoadTask(t) \/ UnloadTask(t) PROVE TypeOK'
  BY <1>7, <1>0, <1>a DEF LoadTask, UnloadTask, TypeOK
<1>8. ASSUME CollectStart PROVE TypeOK'
  BY <1>8, <1>0, <1>a DEF CollectStart, TypeOK, Slots
<1>9. ASSUME DeadSkip \/ MergeSkip PROVE TypeOK'
  BY <1>9, <1>0, <1>a, AdvanceType DEF DeadSkip, MergeSkip, TypeOK
<1>10. ASSUME DeadFree PROVE TypeOK'
  BY <1>10, <1>a, FreeType, AdvanceType DEF DeadFree, TypeOK
<1>11. ASSUME MergeFree PROVE TypeOK'
  BY <1>11, <1>a, MergeType, AdvanceType DEF MergeFree, TypeOK
<1>12. ASSUME MergeFirst PROVE TypeOK'
  <2>1. 1 \in Slots
    BY DEF Slots
  <2>2. QED
    BY <1>12, <2>1, <1>a, MergeType DEF MergeFirst, TypeOK
<1>13. ASSUME UNCHANGED vars PROVE TypeOK'
  BY <1>13, <1>0, <1>a DEF vars, TypeOK
<1>14. QED
  BY <1>1, <1>2, <1>3, <1>4, <1>5, <1>6, <1>7, <1>8, <1>9, <1>10, <1>11, <1>12,
     <1>13 DEF Next, Program, TaskList, Collector

\* The table keeps its type for any number of slots, any size, any threads.
THEOREM TypeCorrect == Spec => []TypeOK
BY InitType, NextType, PTL DEF Spec
-----------------------------------------------------------------------------
(* The inductive invariant.                                                *)

\* Only threads on the list hold memory, and only the kernel's while it boots.
OwnersListed ==
  /\ gc # "idle" => booted
  /\ \A l \in live : IF booted THEN l.owner \in listed ELSE l.owner = KThread

\* Freeing what was allocated never stops the system ("Failed to free pointer",
\* heap.c:81), whether the program or the collector frees.
FreeNeverHalts == haltBy = "free" => broken # {}

\* Half-way through its first loop the collector has left no orphan behind.
DeadBehind ==
  gc = "dead" /\ broken = {} => \A i \in Slots : i < gi => ~Orphan(i)

IInv == /\ OwnersListed /\ DeadBehind
        /\ Disjoint /\ LiveTracked /\ OrphansFreed /\ FreeNeverHalts

LEMMA InitIInv == Init => IInv
<1> SUFFICES ASSUME Init PROVE IInv
  OBVIOUS
<1> USE HeapAssumption DEF Init
<1>1. OwnersListed /\ DeadBehind /\ LiveTracked /\ OrphansFreed /\ FreeNeverHalts
  BY DEF OwnersListed, DeadBehind, LiveTracked, OrphansFreed, FreeNeverHalts
<1>2. Blocks \subseteq {1}
  BY DEF Blocks, Invalid
<1>3. blk[1].sz = Size /\ blk[1].addr = Base
  BY DEF Slots
<1>4. Disjoint
  BY <1>2, <1>3 DEF Disjoint, Partition
<1>5. QED
  BY <1>1, <1>4 DEF IInv

LEMMA OwnersStep == TypeOK /\ OwnersListed /\ [Next]_vars => OwnersListed'
<1> SUFFICES ASSUME TypeOK, OwnersListed, [Next]_vars PROVE OwnersListed'
  OBVIOUS
<1> USE DEF OwnersListed
<1>1. ASSUME NEW t \in Tasks, NEW p, NEW sz, MayRun(t), Granted(p, sz, t),
             UNCHANGED <<listed, booted, gc>>
      PROVE  OwnersListed'
  BY <1>1 DEF MayRun, Granted
<1>2. ASSUME live' \subseteq live, UNCHANGED <<listed, booted>>, gc' # "idle" => booted
      PROVE  OwnersListed'
  BY <1>2
<1>3. CASE Program
  <2>1. ASSUME NEW t \in Tasks, NEW sz \in Requests, AllocExact(t, sz)
        PROVE  OwnersListed'
    BY <2>1, <1>1 DEF AllocExact
  <2>2. ASSUME NEW t \in Tasks, NEW sz \in Requests, AllocSplit(t, sz)
        PROVE  OwnersListed'
    BY <2>2, <1>1 DEF AllocSplit
  <2>3. ASSUME NEW t \in Tasks, NEW sz \in Requests, AllocTableFull(t, sz)
        PROVE  OwnersListed'
    <3>1. MayRun(t) /\ UNCHANGED <<listed, booted, gc>>
      BY <2>3 DEF AllocTableFull
    <3>2. (\E i \in Slots : Granted(blk[i].addr, sz, t)) \/ UNCHANGED live
      BY <2>3 DEF AllocTableFull
    <3>3. QED
      BY <3>1, <3>2, <1>1, <1>2
  <2>4. ASSUME NEW t \in Tasks, NEW sz \in Requests, AllocRefused(t, sz)
        PROVE  OwnersListed'
    BY <2>4, <1>2 DEF AllocRefused
  <2>5. ASSUME NEW l \in live, Free(l) PROVE OwnersListed'
    BY <2>5, <1>2 DEF Free
  <2>6. QED
    BY <1>3, <2>1, <2>2, <2>3, <2>4, <2>5 DEF Program
<1>4. CASE TaskList
  <2>1. CASE InitKThread
    BY <2>1 DEF InitKThread, Mutator
  <2>2. ASSUME NEW t \in Tasks, LoadTask(t) \/ UnloadTask(t) PROVE OwnersListed'
    BY <2>2 DEF LoadTask, UnloadTask, Mutator
  <2>3. QED
    BY <1>4, <2>1, <2>2 DEF TaskList
<1>5. CASE Collector
  BY <1>5, <1>2 DEF Collector, CollectStart, DeadSkip, DeadFree, MergeSkip,
                    MergeFree, MergeFirst
<1>6. CASE UNCHANGED vars
  BY <1>6 DEF vars
<1>7. QED
  BY <1>3, <1>4, <1>5, <1>6 DEF Next
-----------------------------------------------------------------------------
(* What the operations do to a table whose blocks lie apart.               *)

\* Nothing moves or grows, and no block appears.
LEMMA SameShape ==
  ASSUME Partition, blk' \in [Slots -> Block],
         \A x \in Slots : /\ blk'[x].addr = blk[x].addr /\ blk'[x].sz = blk[x].sz
                          /\ blk'[x].state # "INVALID" => blk[x].state # "INVALID"
  PROVE  Partition'
<1>1. Blocks' \subseteq Blocks /\ Blocks \subseteq Slots
  BY DEF Blocks
<1>2. \A x \in Blocks' : blk'[x].addr = blk[x].addr /\ blk'[x].sz = blk[x].sz
  BY <1>1
<1>3. QED
  BY <1>1, <1>2 DEF Partition, Apart

\* heap_free searches by address, and an address names one block only.
LEMMA FreeFacts ==
  ASSUME TypeOK, Partition, NEW j \in Slots, blk[j].state = "USED",
         FreeBlock(blk[j].addr)
  PROVE  /\ blk' \in [Slots -> Block]
         /\ \A x \in Slots \ {j} : blk'[x] = blk[x]
         /\ blk'[j].addr = blk[j].addr /\ blk'[j].sz = blk[j].sz
         /\ blk'[j].state = "FREE"
         /\ haltBy' = haltBy
<1>0. blk \in [Slots -> Block]
  BY DEF TypeOK, Block, States
<1>1. j \in UsedAt(blk[j].addr)
  BY DEF UsedAt
<1>2. PICK i \in Slots : /\ i \in UsedAt(blk[j].addr)
                         /\ blk' = [blk EXCEPT ![i].state = "FREE"]
                         /\ haltBy' = haltBy
  BY <1>1 DEF FreeBlock, First
<1>3. i \in Blocks /\ j \in Blocks /\ blk[i].addr = blk[j].addr
  BY <1>2 DEF Blocks, UsedAt
<1>4. i = j
  <2>1. /\ blk[i].addr \in Nat /\ blk[i].sz \in Nat /\ blk[j].sz \in Nat
        /\ blk[i].sz > 0 /\ blk[j].sz > 0
    BY <1>0, <1>3 DEF Partition, Block
  <2>2. QED
    BY <1>3, <2>1 DEF Partition, Apart
<1> DEFINE g == [blk[j] EXCEPT !.state = "FREE"]
<1>5. /\ g \in Block /\ g.addr = blk[j].addr /\ g.sz = blk[j].sz
      /\ g.state = "FREE"
  BY <1>0 DEF Block, States
<1>6. blk' = [blk EXCEPT ![j] = g]
  BY <1>2, <1>4
<1> HIDE DEF g
<1>7. QED
  BY <1>0, <1>2, <1>5, <1>6

\* Two free blocks that touch become one, and nobody's memory changes.
LEMMA MergeFacts ==
  ASSUME TypeOK, Partition, NEW i \in Slots, Merge(i), broken' = {}
  PROVE  /\ Partition'
         /\ \A x \in Slots :
              blk[x].state = "USED" \/ blk'[x].state = "USED" => blk'[x] = blk[x]
<1>0. blk \in [Slots -> Block]
  BY DEF TypeOK, Block, States
<1>1. CASE Nearest(i) = {} /\ UNCHANGED <<blk, broken>>
  <2>1. Partition'
    BY <1>1, <1>0, SameShape
  <2>2. QED
    BY <2>1, <1>1
<1>2. ASSUME NEW k \in Nearest(i), blk' = Merged(i, k),
             broken' = broken \cup MergeDamage(i, k)
      PROVE  /\ Partition'
             /\ \A x \in Slots :
                  blk[x].state = "USED" \/ blk'[x].state = "USED" => blk'[x] = blk[x]
  <2>1. MergeDamage(i, k) = {}
    BY <1>2
  <2>2. blk[i].state = "FREE" /\ blk[k].addr + blk[k].sz = blk[i].addr
    BY <2>1 DEF MergeDamage
  <2>3. k \in Slots /\ blk[k].state = "FREE"
    BY DEF Nearest
  <2>4. i \in Blocks /\ k \in Blocks
    BY <2>2, <2>3 DEF Blocks
  <2>5. \A x \in Blocks : /\ blk[x].addr \in Nat /\ blk[x].sz \in Nat
                          /\ blk[x].sz > 0 /\ blk[x].addr >= Base
                          /\ blk[x].addr + blk[x].sz <= Base + Size
    BY <1>0 DEF Partition, Blocks, Block
  <2>6. i # k /\ blk[i].addr > blk[k].addr
    BY <2>2, <2>4, <2>5
  <2>7. /\ \A x \in Slots \ {i, k} : blk'[x] = blk[x]
        /\ blk'[k].state = "INVALID" /\ blk'[i].state = "FREE"
        /\ blk'[i].addr = blk[k].addr /\ blk'[i].sz = blk[i].sz + blk[k].sz
    BY <1>0, <1>2, <2>2, <2>3, <2>6, MergedFacts DEF Invalid
  <2>8. Blocks' = Blocks \ {k}
    BY <2>3, <2>4, <2>7 DEF Blocks
  <2>9. Partition'
    <3>1. ASSUME NEW x \in Blocks', x # i
          PROVE  /\ Apart(blk'[i].addr, blk'[i].sz, blk'[x].addr, blk'[x].sz)
                 /\ Apart(blk'[x].addr, blk'[x].sz, blk'[i].addr, blk'[i].sz)
      <4>1. x \in Blocks /\ x # k /\ blk'[x] = blk[x]
        BY <2>7, <2>8, <3>1 DEF Blocks
      <4>2. /\ Apart(blk[i].addr, blk[i].sz, blk[x].addr, blk[x].sz)
            /\ Apart(blk[k].addr, blk[k].sz, blk[x].addr, blk[x].sz)
        BY <2>4, <3>1, <4>1 DEF Partition
      <4>3. QED
        BY <2>2, <2>4, <2>5, <2>7, <4>1, <4>2 DEF Apart
    <3>2. ASSUME NEW x \in Blocks', NEW y \in Blocks', x # y, x # i, y # i
          PROVE  Apart(blk'[x].addr, blk'[x].sz, blk'[y].addr, blk'[y].sz)
      <4>1. /\ x \in Blocks /\ y \in Blocks /\ blk'[x] = blk[x]
            /\ blk'[y] = blk[y]
        BY <2>7, <2>8, <3>2 DEF Blocks
      <4>2. QED
        BY <3>2, <4>1 DEF Partition
    <3>3. ASSUME NEW x \in Blocks'
          PROVE  /\ blk'[x].sz > 0 /\ blk'[x].addr >= Base
                 /\ blk'[x].addr + blk'[x].sz <= Base + Size
      <4>1. CASE x = i
        BY <4>1, <2>2, <2>4, <2>5, <2>7
      <4>2. CASE x # i
        <5>1. x \in Blocks /\ blk'[x] = blk[x]
          BY <4>2, <2>7, <2>8 DEF Blocks
        <5>2. QED
          BY <5>1, <2>5
      <4>3. QED
        BY <4>1, <4>2
    <3>4. QED
      BY <3>1, <3>2, <3>3 DEF Partition
  <2>10. QED
    BY <2>2, <2>3, <2>7, <2>9
<1>3. QED
  BY <1>1, <1>2 DEF Merge, First
\* A new block at the low end of a free one that shrinks by as much.
LEMMA SplitApart ==
  ASSUME TypeOK, Partition, blk' \in [Slots -> Block],
         NEW i \in Slots, NEW j \in Slots, NEW sz \in Nat, sz > 0,
         blk[i].state = "FREE", blk[i].sz > sz, blk[j].state = "INVALID",
         \A x \in Slots \ {i, j} : blk'[x] = blk[x],
         blk'[j].addr = blk[i].addr, blk'[j].sz = sz,
         blk'[i].addr = blk[i].addr + sz, blk'[i].sz = blk[i].sz - sz
  PROVE  Partition'
<1>0. blk \in [Slots -> Block]
  BY DEF TypeOK, Block, States
<1>1. i \in Blocks /\ j \notin Blocks /\ i # j
  BY DEF Blocks
<1>2. Blocks' \subseteq Blocks \cup {j}
  BY <1>1 DEF Blocks
<1>3. \A x \in Blocks : /\ blk[x].addr \in Nat /\ blk[x].sz \in Nat
                        /\ blk[x].sz > 0 /\ blk[x].addr >= Base
                        /\ blk[x].addr + blk[x].sz <= Base + Size
  BY <1>0 DEF Partition, Blocks, Block
<1>4. Apart(blk'[j].addr, blk'[j].sz, blk'[i].addr, blk'[i].sz)
      /\ Apart(blk'[i].addr, blk'[i].sz, blk'[j].addr, blk'[j].sz)
  BY <1>1, <1>3 DEF Apart
<1>5. ASSUME NEW x \in Blocks', x # i, x # j, NEW y \in {i, j}
      PROVE  /\ Apart(blk'[y].addr, blk'[y].sz, blk'[x].addr, blk'[x].sz)
             /\ Apart(blk'[x].addr, blk'[x].sz, blk'[y].addr, blk'[y].sz)
  <2>1. x \in Blocks /\ blk'[x] = blk[x]
    BY <1>2, <1>5 DEF Blocks
  <2>2. Apart(blk[i].addr, blk[i].sz, blk[x].addr, blk[x].sz)
    BY <1>1, <1>5, <2>1 DEF Partition
  <2>3. QED
    BY <1>1, <1>3, <1>5, <2>1, <2>2 DEF Apart
<1>6. ASSUME NEW x \in Blocks', NEW y \in Blocks', x # y,
             x \notin {i, j}, y \notin {i, j}
      PROVE  Apart(blk'[x].addr, blk'[x].sz, blk'[y].addr, blk'[y].sz)
  <2>1. /\ x \in Blocks /\ y \in Blocks /\ blk'[x] = blk[x] /\ blk'[y] = blk[y]
    BY <1>2, <1>6 DEF Blocks
  <2>2. QED
    BY <1>6, <2>1 DEF Partition
<1>7. ASSUME NEW x \in Blocks'
      PROVE  /\ blk'[x].sz > 0 /\ blk'[x].addr >= Base
             /\ blk'[x].addr + blk'[x].sz <= Base + Size
  <2>1. CASE x \in {i, j}
    BY <1>1, <1>3, <2>1, HeapAssumption
  <2>2. CASE x \notin {i, j}
    <3>1. x \in Blocks /\ blk'[x] = blk[x]
      BY <1>2, <2>2 DEF Blocks
    <3>2. QED
      BY <3>1, <1>3
  <2>3. QED
    BY <2>1, <2>2
<1>8. QED
  BY <1>4, <1>5, <1>6, <1>7 DEF Partition

-----------------------------------------------------------------------------
(* The steps that do no damage.                                            *)

Tracks(i, l) == blk[i] = [addr |-> l.ptr, sz |-> l.sz, state |-> "USED",
                          thread |-> Caller(l.owner)]
Tracked == \A l \in live : \E i \in Slots : Tracks(i, l)

\* What IInv says as long as nothing is damaged.
Sound == /\ Partition /\ Tracked
         /\ gc = "dead" => \A i \in Slots : i < gi => ~Orphan(i)
         /\ gc \in {"merge", "last"} => \A i \in Slots : ~Orphan(i)
         /\ haltBy # "free"

LEMMA AllocSound ==
  ASSUME TypeOK, Sound, broken' = {}, NEW t \in Tasks, NEW sz \in Requests,
         AllocExact(t, sz) \/ AllocSplit(t, sz)
           \/ AllocTableFull(t, sz) \/ AllocRefused(t, sz)
  PROVE  Sound'
<1>0. blk \in [Slots -> Block] /\ Caller(t) \in Tasks \cup {NoThread} /\ sz \in Nat
  BY DEF TypeOK, Block, States, Caller, Requests
<1>1. ASSUME NEW j \in Slots, NEW p, Granted(p, sz, t), UNCHANGED booted,
             blk[j].state # "USED",
             blk'[j] = [addr |-> p, sz |-> sz, state |-> "USED",
                        thread |-> Caller(t)],
             \A x \in Slots : blk[x].state = "USED" => blk'[x] = blk[x]
      PROVE  Tracked'
  <2>1. \A l : Caller(l.owner)' = Caller(l.owner)
    BY <1>1 DEF Caller
  <2>2. ASSUME NEW l \in live PROVE \E i \in Slots : Tracks(i, l)'
    <3>1. PICK i \in Slots : Tracks(i, l)
      BY DEF Sound, Tracked
    <3>2. blk'[i] = blk[i]
      BY <3>1, <1>1 DEF Tracks
    <3>3. Tracks(i, l)'
      BY <3>1, <3>2, <2>1 DEF Tracks
    <3>4. QED
      BY <3>3
  <2>3. Tracks(j, [ptr |-> p, sz |-> sz, owner |-> t])'
    BY <1>1 DEF Tracks, Caller
  <2>4. QED
    BY <1>1, <2>2, <2>3 DEF Tracked, Granted
<1>2. ASSUME Partition', Tracked', gc' = "idle", haltBy' # "free" PROVE Sound'
  BY <1>2 DEF Sound
<1>3. CASE AllocExact(t, sz)
  <2>1. PICK i \in Slots :
          /\ i \in ExactFits(sz)
          /\ blk' = [blk EXCEPT ![i].state = "USED", ![i].thread = Caller(t)]
          /\ Granted(blk[i].addr, sz, t)
    BY <1>3 DEF AllocExact, First
  <2>2. blk[i].state = "FREE" /\ blk[i].sz = sz
    BY <2>1 DEF ExactFits
  <2>3. /\ blk' \in [Slots -> Block]
        /\ \A x \in Slots \ {i} : blk'[x] = blk[x]
        /\ blk'[i] = [addr |-> blk[i].addr, sz |-> sz, state |-> "USED",
                      thread |-> Caller(t)]
    BY <1>0, <2>1, <2>2, ExactFacts
  <2>4. Partition'
    BY <2>2, <2>3, SameShape DEF Sound
  <2>5. UNCHANGED booted /\ gc' = "idle" /\ haltBy' # "free"
    BY <1>3 DEF AllocExact, Mutator, Sound
  <2>6. Tracked'
    BY <1>1, <2>1, <2>2, <2>3, <2>5
  <2>7. QED
    BY <1>2, <2>4, <2>5, <2>6
<1>4. CASE AllocSplit(t, sz)
  <2> DEFINE b(i) == [addr |-> blk[i].addr, sz |-> sz, state |-> "USED",
                      thread |-> Caller(t)]
  <2>1. PICK i \in Slots, j \in Slots :
          /\ i \in LargerFits(sz) /\ j \in FreeSlots
          /\ blk' = Cut(i, j, b(i), sz)
          /\ Granted(blk[i].addr, sz, t)
    BY <1>4 DEF AllocSplit, First, Cut
  <2>2. /\ blk[i].state = "FREE" /\ blk[i].sz > sz /\ blk[j].state = "INVALID"
        /\ i # j
    BY <2>1 DEF LargerFits, FreeSlots
  <2>3. b(i) \in Block /\ b(i).addr = blk[i].addr /\ b(i).sz = sz
    BY <1>0 DEF Block, States
  <2>4. /\ blk' \in [Slots -> Block]
        /\ \A x \in Slots \ {i, j} : blk'[x] = blk[x]
        /\ blk'[j] = b(i)
        /\ blk'[i].addr = blk[i].addr + sz /\ blk'[i].sz = blk[i].sz - sz
    <3> HIDE DEF b
    <3>1. QED
      BY <1>0, <2>1, <2>2, <2>3, SplitFacts
  <2>5. sz > 0
    BY <1>0, <1>4 DEF AllocSplit
  <2>6. Partition'
    <3> HIDE DEF b
    <3>1. Partition
      BY DEF Sound
    <3>2. QED
      BY <1>0, <2>2, <2>3, <2>4, <2>5, <3>1, SplitApart
  <2>7. UNCHANGED booted /\ gc' = "idle" /\ haltBy' # "free"
    BY <1>4 DEF AllocSplit, Mutator, Sound
  <2>8. \A x \in Slots : blk[x].state = "USED" => blk'[x] = blk[x]
    BY <2>2, <2>4
  <2>9. Tracked'
    BY <1>1, <2>1, <2>2, <2>4, <2>7, <2>8
  <2>10. QED
    BY <1>2, <2>6, <2>7, <2>9
<1>5. ~AllocTableFull(t, sz)
  BY DEF AllocTableFull
<1>6. CASE AllocRefused(t, sz)
  BY <1>6 DEF AllocRefused, Sound, Partition, Blocks, Tracked, Tracks, Caller,
              Mutator, Halt
<1>7. QED
  BY <1>3, <1>4, <1>5, <1>6
\* The slot that heap_free finds is the one that holds l, and no other live
\* allocation is in it.
LEMMA FreeSound ==
  ASSUME TypeOK, OwnersListed, Sound, broken' = {}, NEW l \in live, Free(l)
  PROVE  Sound'
<1>1. PICK j \in Slots : Tracks(j, l)
  BY DEF Sound, Tracked
<1>2. blk[j].state = "USED" /\ blk[j].addr = l.ptr
  BY <1>1 DEF Tracks
<1>3. /\ blk' \in [Slots -> Block]
      /\ \A x \in Slots \ {j} : blk'[x] = blk[x]
      /\ blk'[j].addr = blk[j].addr /\ blk'[j].sz = blk[j].sz
      /\ blk'[j].state = "FREE" /\ haltBy' = haltBy
  BY <1>2, FreeFacts DEF Free, Sound
<1>4. Partition'
  BY <1>2, <1>3, SameShape DEF Sound
<1>5. ASSUME NEW m \in live', Tracks(j, m) PROVE FALSE
  <2>1. m \in live /\ m # l
    BY <1>5 DEF Free
  <2>2. /\ m \in [ptr : Nat, sz : Nat, owner : Tasks]
        /\ l \in [ptr : Nat, sz : Nat, owner : Tasks]
    BY <2>1 DEF TypeOK
  <2>3. m.ptr = l.ptr /\ m.sz = l.sz /\ Caller(m.owner) = Caller(l.owner)
    BY <1>1, <1>5 DEF Tracks
  <2>4. m.owner = l.owner
    BY <2>1, <2>3 DEF Caller, OwnersListed
  <2>5. QED
    BY <2>1, <2>2, <2>3, <2>4
<1>6. Tracked'
  <2>1. ASSUME NEW m \in live' PROVE \E i \in Slots : Tracks(i, m)'
    <3>1. PICK i \in Slots : Tracks(i, m)
      BY DEF Free, Sound, Tracked
    <3>2. blk'[i] = blk[i]
      BY <1>3, <1>5, <3>1
    <3>3. Tracks(i, m)'
      BY <3>1, <3>2 DEF Tracks, Caller, Free
    <3>4. QED
      BY <3>3
  <2>2. QED
    BY <2>1 DEF Tracked
<1>7. gc' = "idle" /\ haltBy' # "free"
  BY <1>3 DEF Free, Mutator, Sound
<1>8. QED
  BY <1>4, <1>6, <1>7 DEF Sound

\* The kernel thread inherits what the boot code holds.
LEMMA InitKThreadSound ==
  ASSUME TypeOK, OwnersListed, Sound, InitKThread
  PROVE  Sound'
<1>0. blk \in [Slots -> Block]
  BY DEF TypeOK, Block, States
<1> DEFINE f(i) == IF blk[i].state = "USED"
                   THEN [blk[i] EXCEPT !.thread = KThread] ELSE blk[i]
<1>1. \A i \in Slots :
        /\ f(i) \in Block /\ f(i).addr = blk[i].addr /\ f(i).sz = blk[i].sz
        /\ f(i).state = blk[i].state
        /\ blk[i].state = "USED" => f(i).thread = KThread
  BY <1>0, HeapAssumption DEF Block
<1>2. blk' = [i \in Slots |-> f(i)]
  BY DEF InitKThread
<1> HIDE DEF f
<1>3. /\ blk' \in [Slots -> Block]
      /\ \A i \in Slots :
           /\ blk'[i].addr = blk[i].addr /\ blk'[i].sz = blk[i].sz
           /\ blk'[i].state = blk[i].state
           /\ blk[i].state = "USED" => blk'[i].thread = KThread
  BY <1>1, <1>2
<1>4. Partition'
  BY <1>3, SameShape DEF Sound
<1>5. \A x \in Block :
        x = [addr |-> x.addr, sz |-> x.sz, state |-> x.state, thread |-> x.thread]
  BY DEF Block
<1>6. Tracked'
  <2>1. ASSUME NEW l \in live' PROVE \E i \in Slots : Tracks(i, l)'
    <3>1. l \in live /\ l.owner = KThread /\ Caller(l.owner)' = KThread
      BY DEF InitKThread, OwnersListed, Caller
    <3>2. PICK i \in Slots : Tracks(i, l)
      BY <3>1 DEF Sound, Tracked
    <3>3. blk[i].state = "USED" /\ blk[i].addr = l.ptr /\ blk[i].sz = l.sz
      BY <3>2 DEF Tracks
    <3>4. /\ blk'[i].addr = l.ptr /\ blk'[i].sz = l.sz
          /\ blk'[i].state = "USED" /\ blk'[i].thread = KThread
          /\ blk'[i] \in Block
      BY <1>3, <3>3
    <3>5. blk'[i] = [addr |-> l.ptr, sz |-> l.sz, state |-> "USED",
                     thread |-> KThread]
      BY <1>5, <3>4
    <3>6. QED
      BY <3>1, <3>5 DEF Tracks
  <2>2. QED
    BY <2>1 DEF Tracked
<1>7. gc' = "idle" /\ haltBy' # "free"
  BY DEF InitKThread, Mutator, Sound
<1>8. QED
  BY <1>4, <1>6, <1>7 DEF Sound

LEMMA TaskListSound ==
  ASSUME TypeOK, Sound, NEW t \in Tasks, LoadTask(t) \/ UnloadTask(t)
  PROVE  Sound'
<1>1. /\ blk' = blk /\ live' \subseteq live /\ booted' = booted /\ gc' = "idle"
      /\ haltBy' # "free"
  BY DEF LoadTask, UnloadTask, Mutator, Sound
<1>2. Partition' /\ Tracked'
  BY <1>1 DEF Sound, Partition, Blocks, Tracked, Tracks, Caller
<1>3. QED
  BY <1>1, <1>2 DEF Sound

\* Behind the index of the first loop no orphan is left, and when the loop is
\* over no orphan is left at all.
LEMMA DeadLoop ==
  ASSUME TypeOK, gc = "dead", Advance("merge"), Partition', Tracked',
         haltBy' # "free", \A x \in Slots : x <= gi => ~Orphan(x)'
  PROVE  Sound'
<1>1. CASE gi < HeapCount
  BY <1>1, HeapAssumption DEF Advance, Sound, TypeOK, Slots
<1>2. CASE ~(gi < HeapCount)
  BY <1>2, HeapAssumption DEF Advance, Sound, TypeOK, Slots
<1>3. QED
  BY <1>1, <1>2

\* The first loop of the collector.
LEMMA DeadSound ==
  ASSUME TypeOK, OwnersListed, Sound, broken' = {}, DeadSkip \/ DeadFree
  PROVE  Sound'
<1>0. gi \in Slots /\ blk \in [Slots -> Block]
  BY DEF TypeOK, Block, States
<1>1. /\ gc = "dead" /\ Advance("merge") /\ booted /\ booted'
      /\ UNCHANGED <<listed, live>>
  BY DEF DeadSkip, DeadFree, OwnersListed
<1>2. CASE DeadSkip
  <2>1. Partition' /\ Tracked' /\ haltBy' # "free"
    BY <1>2 DEF DeadSkip, Sound, Partition, Blocks, Tracked, Tracks, Caller
  <2>2. \A x \in Slots : x <= gi => ~Orphan(x)'
    BY <1>0, <1>1, <1>2 DEF DeadSkip, Sound, Orphan, Slots
  <2>3. QED
    BY <1>1, <2>1, <2>2, DeadLoop
<1>3. CASE DeadFree
  <2>1. blk[gi].state = "USED" /\ blk[gi].thread \notin listed
    BY <1>3 DEF DeadFree, Orphan
  <2>2. /\ blk' \in [Slots -> Block]
        /\ \A x \in Slots \ {gi} : blk'[x] = blk[x]
        /\ blk'[gi].addr = blk[gi].addr /\ blk'[gi].sz = blk[gi].sz
        /\ blk'[gi].state = "FREE" /\ haltBy' = haltBy
    BY <1>0, <1>3, <2>1, FreeFacts DEF DeadFree, Sound
  <2>3. Partition' /\ haltBy' # "free"
    BY <2>1, <2>2, SameShape DEF Sound
  <2>4. Tracked'
    <3>1. ASSUME NEW l \in live PROVE \E i \in Slots : Tracks(i, l)'
      <4>1. PICK i \in Slots : Tracks(i, l)
        BY DEF Sound, Tracked
      <4>2. blk[i].thread \in listed
        BY <1>1, <4>1 DEF Tracks, Caller, OwnersListed
      <4>3. blk'[i] = blk[i]
        BY <2>1, <2>2, <4>2
      <4>4. Tracks(i, l)'
        BY <1>1, <4>1, <4>3 DEF Tracks, Caller
      <4>5. QED
        BY <4>4
    <3>2. QED
      BY <1>1, <3>1 DEF Tracked
  <2>5. ASSUME NEW x \in Slots, x <= gi PROVE ~Orphan(x)'
    <3>1. CASE x = gi
      BY <2>2, <3>1 DEF Orphan
    <3>2. CASE x # gi
      <4>1. x < gi
        BY <1>0, <2>5, <3>2 DEF Slots
      <4>2. ~Orphan(x)
        BY <1>1, <4>1 DEF Sound
      <4>3. QED
        BY <1>1, <2>2, <3>2, <4>2 DEF Orphan
    <3>3. QED
      BY <3>1, <3>2
  <2>6. QED
    BY <1>1, <2>3, <2>4, <2>5, DeadLoop
<1>4. QED
  BY <1>2, <1>3

\* The second loop of the collector, and the last look at the first slot.
LEMMA MergeSound ==
  ASSUME TypeOK, Sound, broken' = {}, MergeSkip \/ MergeFree \/ MergeFirst
  PROVE  Sound'
<1>0. gi \in Slots /\ 1 \in Slots
  BY HeapAssumption DEF TypeOK, Slots
<1>1. /\ gc \in {"merge", "last"} /\ gc' \in {"merge", "last", "idle"}
      /\ UNCHANGED <<listed, live, booted, haltBy>>
  BY DEF MergeSkip, MergeFree, MergeFirst, Advance
<1>2. /\ Partition'
      /\ \A x \in Slots :
           blk[x].state = "USED" \/ blk'[x].state = "USED" => blk'[x] = blk[x]
  <2>1. CASE MergeSkip
    BY <2>1 DEF MergeSkip, Sound, Partition, Blocks
  <2>2. CASE MergeFree
    BY <1>0, <2>2, MergeFacts DEF MergeFree, Sound
  <2>3. CASE MergeFirst
    BY <1>0, <2>3, MergeFacts DEF MergeFirst, Sound
  <2>4. QED
    BY <2>1, <2>2, <2>3
<1>3. Tracked'
  <2>1. ASSUME NEW l \in live PROVE \E i \in Slots : Tracks(i, l)'
    <3>1. PICK i \in Slots : Tracks(i, l)
      BY DEF Sound, Tracked
    <3>2. blk'[i] = blk[i]
      BY <1>2, <3>1 DEF Tracks
    <3>3. Tracks(i, l)'
      BY <1>1, <3>1, <3>2 DEF Tracks, Caller
    <3>4. QED
      BY <3>3
  <2>2. QED
    BY <1>1, <2>1 DEF Tracked
<1>4. \A x \in Slots : ~Orphan(x)'
  BY <1>1, <1>2 DEF Orphan, Sound
<1>5. QED
  BY <1>1, <1>2, <1>3, <1>4 DEF Sound

-----------------------------------------------------------------------------
(* The invariant is inductive.                                             *)

\* Damage is never repaired.
LEMMA BrokenGrows == [Next]_vars => broken \subseteq broken'
<1> SUFFICES ASSUME [Next]_vars PROVE broken \subseteq broken'
  OBVIOUS
<1>1. CASE Program
  BY <1>1 DEF Program, AllocExact, AllocSplit, AllocTableFull, AllocRefused, Free
<1>2. CASE TaskList
  BY <1>2 DEF TaskList, InitKThread, LoadTask, UnloadTask
<1>3. CASE Collector
  BY <1>3 DEF Collector, CollectStart, DeadSkip, DeadFree, MergeSkip, MergeFree,
              MergeFirst, Merge
<1>4. CASE UNCHANGED vars
  BY <1>4 DEF vars
<1>5. QED
  BY <1>1, <1>2, <1>3, <1>4 DEF Next

LEMMA SoundStep ==
  ASSUME TypeOK, OwnersListed, Sound, broken' = {}, [Next]_vars
  PROVE  Sound'
<1>1. CASE Program
  BY <1>1, AllocSound, FreeSound DEF Program
<1>2. CASE TaskList
  BY <1>2, InitKThreadSound, TaskListSound DEF TaskList
<1>3. CASE Collector
  <2>1. CASE CollectStart
    BY <2>1, HeapAssumption
       DEF CollectStart, Sound, Partition, Blocks, Tracked, Tracks, Caller, Slots
  <2>2. QED
    BY <1>3, <2>1, DeadSound, MergeSound DEF Collector
<1>4. CASE UNCHANGED vars
  BY <1>4 DEF vars, Sound, Partition, Blocks, Tracked, Tracks, Caller, Orphan
<1>5. QED
  BY <1>1, <1>2, <1>3, <1>4 DEF Next

LEMMA IInvSound == IInv <=> OwnersListed /\ (broken = {} => Sound)
BY DEF IInv, Sound, DeadBehind, Disjoint, LiveTracked, Tracked, Tracks,
       OrphansFreed, FreeNeverHalts

LEMMA IInvStep == TypeOK /\ IInv /\ [Next]_vars => IInv'
<1> SUFFICES ASSUME TypeOK, IInv, [Next]_vars PROVE IInv'
  OBVIOUS
<1>1. OwnersListed /\ OwnersListed'
  BY IInvSound, OwnersStep
<1>2. broken' = {} => Sound'
  <2>1. SUFFICES ASSUME broken' = {} PROVE Sound'
    OBVIOUS
  <2>2. broken = {}
    BY <2>1, BrokenGrows
  <2>3. Sound
    BY <2>2, IInvSound
  <2>4. QED
    BY <1>1, <2>1, <2>3, SoundStep
<1>3. QED
  BY <1>1, <1>2
     DEF IInv, Sound, DeadBehind, Disjoint, LiveTracked, Tracked, Tracks,
         OrphansFreed, FreeNeverHalts

\* The inductive invariant holds in every reachable state.
THEOREM Inductive == Spec => []IInv
BY InitType, NextType, InitIInv, IInvStep, PTL DEF Spec

-----------------------------------------------------------------------------
(* What it is for.                                                         *)

\* Until the first damage no two blocks overlap and none leaves the heap.
THEOREM BlocksApart == Spec => []Disjoint
<1>1. IInv => Disjoint
  BY DEF IInv
<1>2. QED
  BY <1>1, Inductive, PTL

\* Until the first damage whatever a listed thread holds is in the table as it
\* was given out: neither a split nor the collector touches it.
THEOREM LiveStaysTracked == Spec => []LiveTracked
<1>1. IInv => LiveTracked
  BY DEF IInv
<1>2. QED
  BY <1>1, Inductive, PTL

\* One pass of the first loop frees every block of every dead thread, though
\* heap_free searches for it again by address.
THEOREM OnePassFreesOrphans == Spec => []OrphansFreed
<1>1. IInv => OrphansFreed
  BY DEF IInv
<1>2. QED
  BY <1>1, Inductive, PTL

\* A thread that frees what it holds, and the collector, always find the block.
THEOREM FreeFindsTheBlock == Spec => []FreeNeverHalts
<1>1. IInv => FreeNeverHalts
  BY DEF IInv
<1>2. QED
  BY <1>1, Inductive, PTL

-----------------------------------------------------------------------------
(* No unit gets lost.  The argument needs nothing of IInv: it holds in a    *)
(* table whose used blocks have been moved.                                *)

\* A block has an extent above address 0, and a slot without one is cleared.
Extents ==
  \A i \in Slots : IF blk[i].state = "INVALID" THEN blk[i] = Invalid
                   ELSE blk[i].sz > 0 /\ blk[i].addr > 0

Whole == broken \cap {"full", "gap"} = {}

\* At first one block is the whole heap.
LEMMA CoverInit == Init => Extents /\ NothingLost
<1> SUFFICES ASSUME Init PROVE Extents /\ NothingLost
  OBVIOUS
<1> USE HeapAssumption DEF Init
<1>1. /\ 1 \in Slots /\ blk[1].addr = Base /\ blk[1].sz = Size
      /\ blk[1].state = "FREE" /\ \A i \in Slots : i # 1 => blk[i] = Invalid
  BY DEF Slots
<1>2. Extents
  BY <1>1 DEF Extents, Invalid
<1>3. \A a \in Base .. Base + Size - 1 : Covers(1, a)
  BY <1>1 DEF Covers
<1>4. QED
  BY <1>1, <1>2, <1>3 DEF NothingLost, Blocks

\* Steps that leave every extent where it is.
LEMMA SameExtents ==
  ASSUME Extents, NothingLost, broken' = broken,
         \A x \in Slots :
           \/ blk'[x] = blk[x]
           \/ /\ blk'[x].addr = blk[x].addr /\ blk'[x].sz = blk[x].sz
              /\ blk'[x].state # "INVALID" /\ blk[x].state # "INVALID"
  PROVE  Extents' /\ NothingLost'
<1>1. Extents'
  BY DEF Extents
<1>2. Blocks' = Blocks
  BY DEF Blocks
<1>3. \A x \in Slots : \A a : Covers(x, a)' <=> Covers(x, a)
  BY DEF Covers
<1>4. NothingLost'
  BY <1>2, <1>3 DEF NothingLost, Blocks
<1>5. QED
  BY <1>1, <1>4

\* The two parts of a block that is cut cover what the block covered.
LEMMA SplitCovers ==
  ASSUME TypeOK, Extents, NothingLost, broken' = broken,
         NEW t \in Tasks, NEW sz \in Requests, AllocSplit(t, sz)
  PROVE  Extents' /\ NothingLost'
<1> DEFINE b(i) == [addr |-> blk[i].addr, sz |-> sz, state |-> "USED",
                    thread |-> Caller(t)]
<1>0. /\ blk \in [Slots -> Block] /\ sz \in Nat /\ sz > 0
      /\ Caller(t) \in Tasks \cup {NoThread}
  BY HeapAssumption DEF TypeOK, Block, States, Requests, AllocSplit, Caller
<1>1. PICK i \in Slots, j \in Slots :
        /\ i \in LargerFits(sz) /\ j \in FreeSlots
        /\ blk' = Cut(i, j, b(i), sz)
  BY DEF AllocSplit, First, Cut
<1>2. /\ blk[i].state = "FREE" /\ blk[i].sz > sz /\ blk[j].state = "INVALID"
      /\ i # j
  BY <1>1 DEF LargerFits, FreeSlots
<1>3. b(i) \in Block /\ b(i).addr = blk[i].addr /\ b(i).sz = sz /\ b(i).state = "USED"
  BY <1>0 DEF Block, States
<1>4. /\ blk' \in [Slots -> Block]
      /\ \A x \in Slots \ {i, j} : blk'[x] = blk[x]
      /\ blk'[j] = b(i)
      /\ blk'[i].addr = blk[i].addr + sz /\ blk'[i].sz = blk[i].sz - sz
  <2> HIDE DEF b
  <2>1. QED
    BY <1>0, <1>1, <1>2, <1>3, SplitFacts
<1>5. blk'[i].state = "FREE"
  BY <1>0, <1>1, <1>2 DEF Cut
<1>6. /\ blk[i].addr \in Nat /\ blk[i].sz \in Nat /\ blk[i].addr > 0
      /\ blk'[j].addr = blk[i].addr /\ blk'[j].sz = sz /\ blk'[j].state = "USED"
  BY <1>0, <1>2, <1>3, <1>4 DEF Extents, Block
<1> HIDE DEF b
<1>7. Extents'
  <2>1. ASSUME NEW x \in Slots
        PROVE  IF blk'[x].state = "INVALID" THEN blk'[x] = Invalid
               ELSE blk'[x].sz > 0 /\ blk'[x].addr > 0
    <3>1. CASE x \in {i, j}
      BY <1>0, <1>2, <1>4, <1>5, <1>6, <3>1
    <3>2. CASE x \notin {i, j}
      BY <1>4, <3>2 DEF Extents
    <3>3. QED
      BY <3>1, <3>2
  <2>2. QED
    BY <2>1 DEF Extents, Invalid
<1>8. NothingLost'
  <2>1. ASSUME NEW a \in Base .. Base + Size - 1, NEW x \in Blocks, Covers(x, a)
        PROVE  \E y \in Blocks' : Covers(y, a)'
    <3>1. CASE x = i
      <4>1. Covers(i, a)' \/ Covers(j, a)'
        BY <1>0, <1>4, <1>6, <2>1, <3>1, HeapAssumption DEF Covers
      <4>2. i \in Blocks' /\ j \in Blocks'
        BY <1>5, <1>6 DEF Blocks
      <4>3. QED
        BY <4>1, <4>2
    <3>2. CASE x # i
      <4>1. x \in Slots \ {i, j}
        BY <1>2, <3>2 DEF Blocks
      <4>2. blk'[x] = blk[x]
        BY <1>4, <4>1
      <4>3. x \in Blocks' /\ Covers(x, a)'
        BY <2>1, <4>2 DEF Blocks, Covers
      <4>4. QED
        BY <4>3
    <3>3. QED
      BY <3>1, <3>2
  <2>2. QED
    BY <2>1 DEF NothingLost
<1>9. QED
  BY <1>7, <1>8

\* A block that grows down over a free one covers what both covered, whether
\* it is free or not: only a merge across a gap loses something.
LEMMA MergeCovers ==
  ASSUME TypeOK, Extents, NothingLost, NEW i \in Slots, Merge(i)
  PROVE  Extents' /\ NothingLost'
<1>0. blk \in [Slots -> Block]
  BY DEF TypeOK, Block, States
<1>1. CASE Nearest(i) = {} /\ UNCHANGED <<blk, broken>>
  BY <1>1, SameExtents
<1>2. ASSUME NEW k \in Nearest(i), blk' = Merged(i, k),
             broken' = broken \cup MergeDamage(i, k)
      PROVE  Extents' /\ NothingLost'
  <2>1. k \in Slots /\ blk[k].state = "FREE" /\ blk[k].sz > 0 /\ blk[k].addr > 0
    BY DEF Nearest, Extents
  <2>2. /\ blk[k].addr \in Nat /\ blk[k].sz \in Nat
        /\ blk[i].addr \in Nat /\ blk[i].sz \in Nat
    BY <1>0, <2>1 DEF Block
  <2>3. blk[i].state # "INVALID"
    <3>1. ASSUME blk[i] = Invalid PROVE FALSE
      <4>1. blk[i].addr = 0 /\ blk[i].sz = 0
        BY <3>1 DEF Invalid
      <4>2. blk[k].addr + blk[k].sz = blk[i].addr \/ blk[i].addr - blk[i].sz = blk[k].addr
        BY DEF Nearest
      <4>3. QED
        BY <2>1, <2>2, <4>1, <4>2
    <3>2. QED
      BY <3>1 DEF Extents
  <2>4. blk[i].sz > 0 /\ blk[i].addr > 0
    BY <2>3 DEF Extents
  <2>5. i # k
    <3>1. blk[k].addr + blk[k].sz = blk[i].addr \/ blk[i].addr - blk[i].sz = blk[k].addr
      BY DEF Nearest
    <3>2. QED
      BY <2>1, <2>2, <2>4, <3>1
  <2>6. /\ blk' \in [Slots -> Block]
        /\ \A x \in Slots \ {i, k} : blk'[x] = blk[x]
        /\ blk'[k] = Invalid
        /\ blk'[i].addr = IF blk[i].addr > blk[k].addr
                            THEN blk[k].addr ELSE blk[i].addr
        /\ blk'[i].sz = blk[i].sz + blk[k].sz
        /\ blk'[i].state = blk[i].state
    BY <1>0, <1>2, <2>1, <2>5, MergedFacts
  <2>7. Extents'
    <3>1. ASSUME NEW x \in Slots
          PROVE  IF blk'[x].state = "INVALID" THEN blk'[x] = Invalid
                 ELSE blk'[x].sz > 0 /\ blk'[x].addr > 0
      <4>1. CASE x = k
        BY <2>6, <4>1 DEF Invalid
      <4>2. CASE x = i
        BY <2>1, <2>2, <2>3, <2>4, <2>6, <4>2
      <4>3. CASE x \notin {i, k}
        BY <2>6, <4>3 DEF Extents
      <4>4. QED
        BY <4>1, <4>2, <4>3
    <3>2. QED
      BY <3>1 DEF Extents, Invalid
  <2>8. ASSUME Whole', NEW a \in Base .. Base + Size - 1
        PROVE  \E y \in Blocks' : Covers(y, a)'
    <3>1. Whole /\ blk[k].addr + blk[k].sz = blk[i].addr
      BY <1>2, <2>8 DEF Whole, MergeDamage
    <3>2. PICK x \in Blocks : Covers(x, a)
      BY <3>1 DEF NothingLost, Whole
    <3>3. CASE x \in {i, k}
      <4>1. Covers(i, a)'
        BY <2>1, <2>2, <2>6, <3>1, <3>2, <3>3, HeapAssumption DEF Covers
      <4>2. i \in Blocks'
        BY <2>3, <2>6 DEF Blocks
      <4>3. QED
        BY <4>1, <4>2
    <3>4. CASE x \notin {i, k}
      <4>1. x \in Slots \ {i, k}
        BY <3>4 DEF Blocks
      <4>2. blk'[x] = blk[x]
        BY <2>6, <4>1
      <4>3. x \in Blocks' /\ Covers(x, a)'
        BY <3>2, <4>2 DEF Blocks, Covers
      <4>4. QED
        BY <4>3
    <3>5. QED
      BY <3>3, <3>4
  <2>9. QED
    BY <2>7, <2>8 DEF NothingLost, Whole
<1>3. QED
  BY <1>1, <1>2 DEF Merge, First

\* heap_free changes a state and no extent.
LEMMA FreeCovers ==
  ASSUME TypeOK, Extents, NothingLost, broken' = broken, NEW p, FreeBlock(p)
  PROVE  Extents' /\ NothingLost'
<1>0. blk \in [Slots -> Block]
  BY DEF TypeOK, Block, States
<1>1. ASSUME NEW i \in UsedAt(p), blk' = [blk EXCEPT ![i].state = "FREE"]
      PROVE  Extents' /\ NothingLost'
  <2> DEFINE g == [blk[i] EXCEPT !.state = "FREE"]
  <2>1. i \in Slots /\ blk[i].state = "USED"
    BY DEF UsedAt
  <2>2. g.addr = blk[i].addr /\ g.sz = blk[i].sz /\ g.state = "FREE"
    BY <1>0, <2>1 DEF Block
  <2>3. blk' = [blk EXCEPT ![i] = g]
    BY <1>1
  <2> HIDE DEF g
  <2>4. /\ blk'[i].addr = blk[i].addr /\ blk'[i].sz = blk[i].sz
        /\ blk'[i].state = "FREE" /\ \A x \in Slots \ {i} : blk'[x] = blk[x]
    BY <1>0, <2>1, <2>2, <2>3
  <2>5. QED
    BY <2>1, <2>4, SameExtents
<1>2. CASE UNCHANGED blk
  BY <1>2, SameExtents
<1>3. QED
  BY <1>1, <1>2 DEF FreeBlock, First

LEMMA CoverStep ==
  TypeOK /\ Extents /\ NothingLost /\ [Next]_vars => Extents' /\ NothingLost'
<1> SUFFICES ASSUME TypeOK, Extents, NothingLost, [Next]_vars
             PROVE  Extents' /\ NothingLost'
  OBVIOUS
<1>0. blk \in [Slots -> Block]
  BY DEF TypeOK, Block, States
<1>1. ASSUME NEW t \in Tasks, NEW sz \in Requests, AllocExact(t, sz)
      PROVE  Extents' /\ NothingLost'
  <2>1. PICK i \in Slots :
          /\ i \in ExactFits(sz)
          /\ blk' = [blk EXCEPT ![i].state = "USED", ![i].thread = Caller(t)]
    BY <1>1 DEF AllocExact, First
  <2>2. blk[i].state = "FREE" /\ Caller(t) \in Tasks \cup {NoThread}
    BY <2>1 DEF ExactFits, Caller
  <2>3. /\ \A x \in Slots \ {i} : blk'[x] = blk[x]
        /\ blk'[i] = [addr |-> blk[i].addr, sz |-> blk[i].sz, state |-> "USED",
                      thread |-> Caller(t)]
    BY <1>0, <2>1, <2>2, ExactFacts
  <2>4. broken' = broken
    BY <1>1 DEF AllocExact
  <2>5. QED
    BY <2>2, <2>3, <2>4, SameExtents
<1>2. ASSUME NEW t \in Tasks, NEW sz \in Requests, AllocSplit(t, sz)
      PROVE  Extents' /\ NothingLost'
  BY <1>2, SplitCovers DEF AllocSplit
<1>3. ASSUME NEW t \in Tasks, NEW sz \in Requests, AllocTableFull(t, sz)
      PROVE  Extents' /\ NothingLost'
  <2>1. NothingLost'
    BY <1>3 DEF AllocTableFull, NothingLost
  <2>2. CASE UNCHANGED blk
    BY <2>1, <2>2 DEF Extents, Invalid
  <2>3. ASSUME NEW i \in LargerFits(sz),
               blk' = [blk EXCEPT ![i].addr = @ + sz, ![i].sz = @ - sz]
        PROVE  Extents'
    <3> DEFINE g == [blk[i] EXCEPT !.addr = @ + sz, !.sz = @ - sz]
    <3>1. /\ i \in Slots /\ blk[i].state = "FREE" /\ blk[i].sz > sz
          /\ sz \in Nat /\ blk[i].addr \in Nat /\ blk[i].sz \in Nat
          /\ blk[i].addr > 0
      BY <1>0 DEF LargerFits, Requests, Block, Extents
    <3>2. g.addr > 0 /\ g.sz > 0 /\ g.state = "FREE"
      BY <1>0, <3>1 DEF Block
    <3>3. blk' = [blk EXCEPT ![i] = g]
      BY <2>3
    <3> HIDE DEF g
    <3>4. blk'[i] = g /\ \A x \in Slots \ {i} : blk'[x] = blk[x]
      BY <1>0, <3>1, <3>3
    <3>5. QED
      BY <3>2, <3>4 DEF Extents, Invalid
  <2>4. QED
    BY <1>3, <2>1, <2>2, <2>3 DEF AllocTableFull, First
<1>4. ASSUME NEW t \in Tasks, NEW sz \in Requests, AllocRefused(t, sz)
      PROVE  Extents' /\ NothingLost'
  BY <1>4, SameExtents DEF AllocRefused
<1>5. ASSUME NEW l \in live, Free(l) PROVE Extents' /\ NothingLost'
  BY <1>5, FreeCovers DEF Free
<1>6. CASE InitKThread
  <2> DEFINE f(i) == IF blk[i].state = "USED"
                     THEN [blk[i] EXCEPT !.thread = KThread] ELSE blk[i]
  <2>1. \A i \in Slots : \/ f(i) = blk[i]
                         \/ /\ f(i).addr = blk[i].addr /\ f(i).sz = blk[i].sz
                            /\ f(i).state = "USED" /\ blk[i].state = "USED"
    BY <1>0 DEF Block
  <2>2. blk' = [i \in Slots |-> f(i)]
    BY <1>6 DEF InitKThread
  <2> HIDE DEF f
  <2>3. \A i \in Slots : \/ blk'[i] = blk[i]
                         \/ /\ blk'[i].addr = blk[i].addr /\ blk'[i].sz = blk[i].sz
                            /\ blk'[i].state = "USED" /\ blk[i].state = "USED"
    BY <2>1, <2>2
  <2>4. broken' = broken
    BY <1>6 DEF InitKThread
  <2>5. QED
    BY <2>3, <2>4, SameExtents
<1>7. ASSUME NEW t \in Tasks, LoadTask(t) \/ UnloadTask(t)
      PROVE  Extents' /\ NothingLost'
  BY <1>7, SameExtents DEF LoadTask, UnloadTask
<1>8. CASE CollectStart \/ DeadSkip \/ MergeSkip
  BY <1>8, SameExtents DEF CollectStart, DeadSkip, MergeSkip
<1>9. CASE DeadFree
  BY <1>9, FreeCovers DEF DeadFree
<1>10. CASE MergeFree
  BY <1>10, MergeCovers DEF MergeFree, TypeOK
<1>11. CASE MergeFirst
  <2>1. 1 \in Slots
    BY HeapAssumption DEF Slots
  <2>2. QED
    BY <1>11, <2>1, MergeCovers DEF MergeFirst
<1>12. CASE UNCHANGED vars
  BY <1>12, SameExtents DEF vars
<1>13. QED
  BY <1>1, <1>2, <1>3, <1>4, <1>5, <1>6, <1>7, <1>8, <1>9, <1>10, <1>11, <1>12
     DEF Next, Program, TaskList, Collector

\* Whatever is allocated, freed and merged, every address of the heap stays in
\* a block until the table runs full or a merge jumps a gap: with BlocksApart,
\* the blocks tile the heap.
THEOREM NoAddressLost == Spec => []NothingLost
BY InitType, NextType, CoverInit, CoverStep, PTL DEF Spec

-----------------------------------------------------------------------------
(* Refinement of Allocator.                                                *)

Members == IF booted THEN listed ELSE {KThread}
Up == broken = {} /\ haltBy = "none"
Status == IF broken # {} THEN "damaged" ELSE IF haltBy = "none" THEN "up" ELSE
          IF haltBy = "free" THEN "stopped by a free" ELSE "stopped"

\* There is no task list before the kernel thread has a record.
OnlyBooted == booted \/ listed = {}

LEMMA AlwaysOnlyBooted == Spec => []OnlyBooted
<1>1. Init => OnlyBooted
  BY DEF Init, OnlyBooted
<1>2. OnlyBooted /\ [Next]_vars => OnlyBooted'
  BY DEF OnlyBooted, Next, vars, Program, TaskList, Collector, AllocExact, AllocSplit,
         AllocTableFull, AllocRefused, Free, InitKThread, LoadTask, UnloadTask, CollectStart,
         DeadSkip, DeadFree, MergeSkip, MergeFree, MergeFirst
<1> QED BY <1>1, <1>2, PTL DEF Spec

\* A step of Allocator said with these.
LEMMA StepAs ==
  /\ (UNCHANGED <<live, Members, Status>>) => [Abstract!Next]_(Abstract!aVars)
  /\ \A l \in live : Up /\ Up' /\ UNCHANGED Members /\ live' = live \ {l}
       => [Abstract!Next]_(Abstract!aVars)
  /\ \A t \in Tasks : Up /\ Up' /\ UNCHANGED live /\ t \notin Members /\ Members' = Members \cup {t}
       => [Abstract!Next]_(Abstract!aVars)
  /\ \A t \in Tasks : Up /\ Up' /\ t \in Members \ {KThread} /\ Members' = Members \ {t}
                      /\ live' = {l \in live : l.owner # t}
       => [Abstract!Next]_(Abstract!aVars)
  /\ Up /\ UNCHANGED <<live, Members>> /\ Status' = "stopped"
       => [Abstract!Next]_(Abstract!aVars)
  /\ Up /\ broken' # {} /\ live \subseteq live' /\ UNCHANGED Members
       => [Abstract!Next]_(Abstract!aVars)
  /\ broken # {} /\ broken' # {} => [Abstract!Next]_(Abstract!aVars)
<1> USE DEF Members, Status, Up
<1>1. (UNCHANGED <<live, Members, Status>>) => [Abstract!Next]_(Abstract!aVars)
  BY DEF Abstract!aVars
<1>2. ASSUME NEW l \in live, Up, Up', UNCHANGED Members, live' = live \ {l}
      PROVE  Abstract!Next
  BY <1>2 DEF Abstract!Next, Abstract!GiveBack
<1>3. ASSUME NEW t \in Tasks, Up, Up', UNCHANGED live, t \notin Members,
             Members' = Members \cup {t}
      PROVE  Abstract!Next
  <2>1. Abstract!Enter(t)
    BY <1>3 DEF Abstract!Enter
  <2> QED BY <2>1 DEF Abstract!Next
<1>4. ASSUME NEW t \in Tasks, Up, Up', t \in Members \ {KThread}, Members' = Members \ {t},
             live' = {l \in live : l.owner # t}
      PROVE  Abstract!Next
  <2>1. Abstract!Leave(t)
    BY <1>4 DEF Abstract!Leave
  <2> QED BY <2>1 DEF Abstract!Next
<1>5. ASSUME Up, UNCHANGED <<live, Members>>, Status' = "stopped" PROVE Abstract!Next
  <2>1. Abstract!Stop
    BY <1>5 DEF Abstract!Stop
  <2> QED BY <2>1 DEF Abstract!Next
<1>6. ASSUME Up, broken' # {}, live \subseteq live', UNCHANGED Members PROVE Abstract!Next
  <2>1. Abstract!Spoil
    BY <1>6 DEF Abstract!Spoil
  <2> QED BY <2>1 DEF Abstract!Next
<1>7. ASSUME broken # {}, broken' # {} PROVE Abstract!Next
  <2>1. Abstract!AnythingGoes
    BY <1>7 DEF Abstract!AnythingGoes
  <2> QED BY <2>1 DEF Abstract!Next
<1> QED BY <1>1, <1>2, <1>3, <1>4, <1>5, <1>6, <1>7

\* The low end of a free block is nobody's.
LEMMA FreeIsClear ==
  ASSUME TypeOK, Sound, NEW i \in Slots, blk[i].state = "FREE",
         NEW sz \in Nat, sz > 0, sz <= blk[i].sz
  PROVE  /\ blk[i].addr >= Base /\ blk[i].addr + sz <= Base + Size
         /\ \A l \in live : Abstract!Clear(blk[i].addr, sz, l)
<1>1. blk \in [Slots -> Block] /\ blk[i].addr \in Nat /\ blk[i].sz \in Nat
  BY DEF TypeOK, Block, States
<1>2. i \in Blocks
  BY DEF Blocks
<1>3. blk[i].addr >= Base /\ blk[i].addr + blk[i].sz <= Base + Size
  BY <1>2 DEF Sound, Partition
<1>4. ASSUME NEW l \in live PROVE Abstract!Clear(blk[i].addr, sz, l)
  <2>1. PICK j \in Slots : Tracks(j, l)
    BY DEF Sound, Tracked
  <2>2. /\ j # i /\ j \in Blocks /\ blk[j].addr = l.ptr /\ blk[j].sz = l.sz
        /\ l.ptr \in Nat /\ l.sz \in Nat
    BY <2>1, <1>1 DEF Tracks, Blocks, Block
  <2>3. Apart(blk[i].addr, blk[i].sz, blk[j].addr, blk[j].sz)
    BY <1>2, <2>2 DEF Sound, Partition
  <2> QED BY <1>1, <2>2, <2>3 DEF Apart, Abstract!Clear
<1> QED BY <1>1, <1>3, <1>4, HeapAssumption

LEMMA GrantedIsGiven ==
  ASSUME TypeOK, Sound, Up, Up', NEW t \in Tasks, MayRun(t), NEW sz \in 1 .. Size,
         NEW i \in Slots, blk[i].state = "FREE", sz <= blk[i].sz,
         Granted(blk[i].addr, sz, t), UNCHANGED <<listed, booted>>
  PROVE  [Abstract!Next]_(Abstract!aVars)
<1>1. blk[i].addr \in Nat
  BY DEF TypeOK
<1>2. /\ blk[i].addr >= Base /\ blk[i].addr + sz <= Base + Size
      /\ \A l \in live : Abstract!Clear(blk[i].addr, sz, l)
  BY FreeIsClear
<1>3. PICK p \in Base .. Base + Size : p = blk[i].addr
  BY <1>1, <1>2, HeapAssumption
<1>4. Abstract!Give(t, p, sz)
  BY <1>2, <1>3 DEF Abstract!Give, Granted, MayRun, Up
<1> QED BY <1>3, <1>4 DEF Abstract!Next

LEMMA InitRefines == Init => Abstract!Init
BY DEF Init, Abstract!Init

\* The members are the threads that may ask for memory.
LEMMA MembersMove ==
  /\ UNCHANGED <<listed, booted>> => UNCHANGED Members
  /\ OwnersListed /\ InitKThread => UNCHANGED Members
  /\ \A t : LoadTask(t) => t \notin Members /\ Members' = Members \cup {t}
  /\ \A t : booted /\ UnloadTask(t) => t \in Members \ {KThread} /\ Members' = Members \ {t}
BY DEF Members, InitKThread, LoadTask, UnloadTask

\* A step that does damage was taken by an undamaged heap that runs.
LEMMA DamageSpoils ==
  ASSUME [Next]_vars, broken = {}, broken' # {}
  PROVE  [Abstract!Next]_(Abstract!aVars)
<1>1. haltBy = "none" /\ live \subseteq live' /\ UNCHANGED <<listed, booted>>
  <2>1. CASE UNCHANGED vars
    BY <2>1 DEF vars
  <2>2. CASE Program
    <3>1. PICK t \in Tasks, sz \in Requests : AllocTableFull(t, sz)
      BY <2>2 DEF Program, AllocExact, AllocSplit, AllocRefused, Free
    <3> QED BY <3>1 DEF AllocTableFull, Mutator, Running, Granted
  <2>3. CASE TaskList
    BY <2>3 DEF TaskList, InitKThread, LoadTask, UnloadTask
  <2>4. CASE Collector
    BY <2>4 DEF Collector, CollectStart, DeadSkip, DeadFree, MergeSkip, MergeFree,
                MergeFirst, Running
  <2> QED BY <2>1, <2>2, <2>3, <2>4 DEF Next
<1> QED BY <1>1, MembersMove, StepAs DEF Up

LEMMA StepRefines ==
  ASSUME TypeOK, IInv, IInv', OnlyBooted, [Next]_vars
  PROVE  [Abstract!Next]_(Abstract!aVars)
<1>1. CASE broken # {}
  BY <1>1, BrokenGrows, StepAs
<1>2. CASE broken = {} /\ broken' # {}
  BY <1>2, DamageSpoils
<1>3. CASE broken = {} /\ broken' = {}
  <2>1. Sound /\ Sound' /\ OwnersListed
    BY <1>3, IInvSound DEF IInv, Sound, DeadBehind, Disjoint, LiveTracked, Tracked, Tracks,
         OrphansFreed, FreeNeverHalts
  <2>2. ASSUME NEW t \in Tasks, NEW sz \in Requests, AllocExact(t, sz)
        PROVE  [Abstract!Next]_(Abstract!aVars)
    <3>1. PICK i \in Slots : First(i, ExactFits(sz)) /\ Granted(blk[i].addr, sz, t)
      BY <2>2 DEF AllocExact
    <3>2. blk[i].state = "FREE" /\ blk[i].sz = sz
      BY <3>1 DEF First, ExactFits
    <3> QED BY <1>3, <2>1, <2>2, <3>1, <3>2, GrantedIsGiven
            DEF AllocExact, Mutator, Running, Up
  <2>3. ASSUME NEW t \in Tasks, NEW sz \in Requests, AllocSplit(t, sz)
        PROVE  [Abstract!Next]_(Abstract!aVars)
    <3>1. PICK i \in Slots : First(i, LargerFits(sz)) /\ Granted(blk[i].addr, sz, t)
      BY <2>3 DEF AllocSplit
    <3>2. blk[i].state = "FREE" /\ blk[i].sz > sz
      BY <3>1 DEF First, LargerFits
    <3>3. sz \in 1 .. Size /\ sz <= blk[i].sz
      <4>1. blk[i].sz \in Nat
        BY DEF TypeOK
      <4> QED BY <2>3, <3>2, <4>1, HeapAssumption DEF AllocSplit
    <3> QED BY <1>3, <2>1, <2>3, <3>1, <3>2, <3>3, GrantedIsGiven
            DEF AllocSplit, Mutator, Running, Up
  <2>4. ASSUME NEW t \in Tasks, NEW sz \in Requests, AllocTableFull(t, sz)
        PROVE  FALSE
    BY <1>3, <2>4 DEF AllocTableFull
  <2>5. ASSUME NEW t \in Tasks, NEW sz \in Requests, AllocRefused(t, sz)
        PROVE  [Abstract!Next]_(Abstract!aVars)
    <3>1. Up /\ Status' = "stopped" /\ UNCHANGED <<live, listed, booted>>
      BY <1>3, <2>5 DEF AllocRefused, Halt, Mutator, Running, Up, Status
    <3> QED BY <3>1, MembersMove, StepAs
  <2>6. ASSUME NEW l \in live, Free(l)
        PROVE  [Abstract!Next]_(Abstract!aVars)
    <3>1. haltBy = "none" /\ haltBy' \in {"none", "free"}
      BY <2>6 DEF Free, FreeBlock, Halt, Mutator, Running
    <3>2. Up /\ Up' /\ live' = live \ {l} /\ UNCHANGED <<listed, booted>>
      BY <1>3, <2>1, <2>6, <3>1 DEF Free, Up, Sound
    <3> QED BY <3>2, MembersMove, StepAs
  <2>7. CASE InitKThread
    <3>1. UNCHANGED <<live, Status>>
      BY <2>7 DEF InitKThread, Status
    <3> QED BY <2>1, <2>7, <3>1, MembersMove, StepAs
  <2>8. ASSUME NEW t \in Tasks, LoadTask(t)
        PROVE  [Abstract!Next]_(Abstract!aVars)
    <3>1. Up /\ Up' /\ UNCHANGED live
      BY <1>3, <2>8 DEF LoadTask, Mutator, Running, Up
    <3> QED BY <2>8, <3>1, MembersMove, StepAs
  <2>9. ASSUME NEW t \in Tasks, UnloadTask(t)
        PROVE  [Abstract!Next]_(Abstract!aVars)
    <3>1. Up /\ Up' /\ live' = {l \in live : l.owner # t} /\ booted
      BY <1>3, <2>9 DEF UnloadTask, Mutator, Running, Up, OnlyBooted
    <3> QED BY <2>9, <3>1, MembersMove, StepAs
  <2>10. CASE Collector
    <3>1. UNCHANGED <<live, listed, booted>>
      BY <2>10 DEF Collector, CollectStart, DeadSkip, DeadFree, MergeSkip, MergeFree, MergeFirst
    <3>2. haltBy = "none" /\ haltBy' \in {"none", "free"}
      BY <2>10 DEF Collector, CollectStart, DeadSkip, DeadFree, MergeSkip, MergeFree,
                   MergeFirst, FreeBlock, Halt, Mutator, Running
    <3>3. UNCHANGED Status
      BY <1>3, <2>1, <3>2 DEF Status, Sound
    <3> QED BY <3>1, <3>3, MembersMove, StepAs
  <2>11. CASE UNCHANGED vars
    <3>1. UNCHANGED <<live, listed, booted, Status>>
      BY <2>11 DEF vars, Status
    <3> QED BY <3>1, MembersMove, StepAs
  <2> QED
    BY <2>2, <2>3, <2>4, <2>5, <2>6, <2>7, <2>8, <2>9, <2>10, <2>11 DEF Next, Program, TaskList
<1> QED BY <1>1, <1>2, <1>3

\* Until the first damage the heap is an allocator: what it hands out nobody else
\* holds, the collector takes nothing from a thread that is there, and a free never
\* stops the system (heap.c:57-149, memmgr.c:103-131).
THEOREM Implements == Spec => ImplementsAllocator
<1>1. Init => Abstract!Init
  BY InitRefines
<1>2. TypeOK /\ IInv /\ IInv' /\ OnlyBooted /\ [Next]_vars => [Abstract!Next]_(Abstract!aVars)
  BY StepRefines
<1>3. Spec => []TypeOK /\ []IInv /\ []OnlyBooted
  BY TypeCorrect, Inductive, AlwaysOnlyBooted
<1> QED BY <1>1, <1>2, <1>3, PTL DEF Spec, ImplementsAllocator, Abstract!Spec
=============================================================================
