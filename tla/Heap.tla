-------------------------------- MODULE Heap --------------------------------
(***************************************************************************)
(* The kernel heap, core/memory/heap.c, with the collector thread of       *)
(* memmgr.c that frees the blocks of threads that are gone and merges free *)
(* blocks.  The heap is a table of slots; a slot holds a block or is       *)
(* INVALID.  Sizes are in units of HEAP_ALIGN.                             *)
(*                                                                         *)
(* Allocations and frees are single steps here: they are what one thread   *)
(* sees while it has the CPU.  The collector runs under its thread's lock, *)
(* so no other operation happens until its two loops are over.  When it    *)
(* starts (250 ms or 50 frees after the last time) is left open.           *)
(*                                                                         *)
(* `live`, `broken` and `haltBy` are history: what the program was given   *)
(* and still holds, which operation first broke the table (see Damage),    *)
(* and which check of the heap stopped the system (debug_exception).       *)
(***************************************************************************)
EXTENDS Integers, FiniteSets

CONSTANTS
  HeapCount,   \* HEAP_COUNT, the number of slots
  Base,        \* _memblk_data->addr
  Size,        \* _memblk_data->sz
  Tasks,       \* addresses of thread records
  KThread,     \* the kernel thread's record
  NoThread     \* NULL

ASSUME HeapAssumption ==
  /\ HeapCount \in Nat \ {0} /\ Base \in Nat \ {0} /\ Size \in Nat \ {0}
  /\ KThread \in Tasks /\ NoThread \notin Tasks

VARIABLES
  blk,      \* _heapblks
  listed,   \* the records on the task list (taskmgr_exists)
  booted,   \* THIS_THREAD is set (taskmgr_init_kthread is over)
  gc, gi,   \* the collector's loop and its index
  live, broken, haltBy

vars == <<blk, listed, booted, gc, gi, live, broken, haltBy>>

Slots   == 1 .. HeapCount
Invalid == [addr |-> 0, sz |-> 0, state |-> "INVALID", thread |-> NoThread]
Damage  == {"gap", "used", "full"}

\* After heap_init: one free block in the first slot.
Init ==
  /\ blk = [i \in Slots |->
              IF i = 1 THEN [addr |-> Base, sz |-> Size, state |-> "FREE",
                             thread |-> NoThread]
              ELSE Invalid]
  /\ listed = {} /\ booted = FALSE
  /\ gc = "idle" /\ gi = 1
  /\ live = {} /\ broken = {} /\ haltBy = "none"

First(i, S) == i \in S /\ \A j \in S : i <= j

Running   == haltBy = "none"
Mutator   == Running /\ gc = "idle"
Halt(why) == haltBy' = why

-----------------------------------------------------------------------------
(* heap_alloc and heap_request.                                            *)

ExactFits_AnyState(sz) == {i \in Slots : blk[i].sz = sz}

ExactFits(sz) == {i \in Slots : blk[i].state = "FREE" /\ blk[i].sz = sz}

LargerFits_Any(sz) == {i \in Slots : blk[i].state = "FREE"}
LargerFits(sz) == {i \in Slots : blk[i].state = "FREE" /\ blk[i].sz > sz}
FreeSlots     == {i \in Slots : blk[i].state = "INVALID"}

\* THIS_THREAD of the caller: NULL while the kernel boots.
Caller(t) == IF booted THEN t ELSE NoThread
MayRun(t) == IF booted THEN t \in listed ELSE t = KThread

Granted(p, sz, t) == live' = live \cup {[ptr |-> p, sz |-> sz, owner |-> t]}

AllocExact(t, sz) ==
  /\ Mutator /\ MayRun(t)
  /\ sz \in 1 .. Size
  /\ \E i \in Slots :
       /\ First(i, ExactFits(sz))
       /\ blk' = [blk EXCEPT ![i].state = "USED", ![i].thread = Caller(t)]
       /\ Granted(blk[i].addr, sz, t)
  /\ UNCHANGED <<listed, booted, gc, gi, broken, haltBy>>

\* The new block takes the low end of the free one.
AllocSplit_KeepAddr(t, sz) ==
  /\ Mutator /\ MayRun(t)
  /\ sz \in 1 .. Size /\ ExactFits(sz) = {}
  /\ \E i, j \in Slots :
       /\ First(i, LargerFits(sz)) /\ First(j, FreeSlots)
       /\ blk' = [blk EXCEPT
                    ![j] = [addr |-> blk[i].addr, sz |-> sz, state |-> "USED",
                            thread |-> Caller(t)],
                    ![i].sz = @ - sz]
       /\ Granted(blk[i].addr, sz, t)
  /\ UNCHANGED <<listed, booted, gc, gi, broken, haltBy>>

AllocSplit(t, sz) ==
  /\ Mutator /\ MayRun(t)
  /\ sz \in 1 .. Size /\ ExactFits(sz) = {}
  /\ \E i, j \in Slots :
       /\ First(i, LargerFits(sz)) /\ First(j, FreeSlots)
       /\ blk' = [blk EXCEPT
                    ![j] = [addr |-> blk[i].addr, sz |-> sz, state |-> "USED",
                            thread |-> Caller(t)],
                    ![i].addr = @ + sz,
                    ![i].sz = @ - sz]
       /\ Granted(blk[i].addr, sz, t)
  /\ UNCHANGED <<listed, booted, gc, gi, broken, haltBy>>

\* No slot is left: heap_create writes through NULL.  Address 0 is mapped, so
\* the caller gets memory that no slot describes, or the write traps.
AllocTableFull(t, sz) ==
  /\ Mutator /\ MayRun(t)
  /\ sz \in 1 .. Size /\ ExactFits(sz) = {} /\ FreeSlots = {}
  /\ \E i \in Slots :
       /\ First(i, LargerFits(sz))
       /\ \/ /\ blk' = [blk EXCEPT ![i].addr = @ + sz, ![i].sz = @ - sz]
             /\ Granted(blk[i].addr, sz, t)
             /\ UNCHANGED haltBy
          \/ /\ Halt("trap")
             /\ UNCHANGED <<blk, live>>
  /\ broken' = broken \cup {"full"}
  /\ UNCHANGED <<listed, booted, gc, gi>>

\* A size of zero or beyond the heap, or no free block that is large enough.
AllocRefused(t, sz) ==
  /\ Mutator /\ MayRun(t)
  /\ \/ sz = 0 \/ sz > Size
     \/ ExactFits(sz) = {} /\ LargerFits(sz) = {}
  /\ Halt("alloc")
  /\ UNCHANGED <<blk, listed, booted, gc, gi, live, broken>>

-----------------------------------------------------------------------------
(* heap_free, by the program and by the collector.                         *)

UsedAt(p) == {i \in Slots : blk[i].addr = p /\ blk[i].state = "USED"}

FreeBlock(p) ==
  \/ /\ \E i \in Slots :
          /\ First(i, UsedAt(p))
          /\ blk' = [blk EXCEPT ![i].state = "FREE"]
     /\ UNCHANGED haltBy
  \/ /\ UsedAt(p) = {}
     /\ Halt("free")
     /\ UNCHANGED blk

Free(l) ==
  /\ Mutator
  /\ l \in live
  /\ FreeBlock(l.ptr)
  /\ live' = live \ {l}
  /\ UNCHANGED <<listed, booted, gc, gi, broken>>

-----------------------------------------------------------------------------
(* The task list, as far as the heap looks at it.                          *)

\* heap_init_kthread: what the boot code allocated belongs to the kernel thread.
InitKThread_Forgets ==
  /\ Mutator /\ ~booted
  /\ booted' = TRUE /\ listed' = {KThread}
  /\ UNCHANGED <<blk, gc, gi, live, broken, haltBy>>

InitKThread ==
  /\ Mutator /\ ~booted
  /\ booted' = TRUE /\ listed' = {KThread}
  /\ blk' = [i \in Slots |-> IF blk[i].state = "USED"
                             THEN [blk[i] EXCEPT !.thread = KThread] ELSE blk[i]]
  /\ UNCHANGED <<gc, gi, live, broken, haltBy>>

LoadTask(t) ==
  /\ Mutator /\ booted
  /\ t \notin listed
  /\ listed' = listed \cup {t}
  /\ UNCHANGED <<blk, booted, gc, gi, live, broken, haltBy>>

\* A thread that is gone leaves its blocks behind.
UnloadTask(t) ==
  /\ Mutator
  /\ t \in listed \ {KThread}
  /\ listed' = listed \ {t}
  /\ live' = {l \in live : l.owner # t}
  /\ UNCHANGED <<blk, booted, gc, gi, broken, haltBy>>

-----------------------------------------------------------------------------
(* memmgr_gcmain: heap_collect_dead, then heap_collect, one action for each *)
(* way through the body of a loop.                                         *)

CollectStart ==
  /\ Mutator /\ booted
  /\ gc' = "dead" /\ gi' = 1
  /\ UNCHANGED <<blk, listed, booted, live, broken, haltBy>>

Advance(nextLoop) ==
  IF gi < HeapCount THEN gi' = gi + 1 /\ gc' = gc
                    ELSE gi' = 1 /\ gc' = nextLoop

Orphan(i) == /\ blk[i].state = "USED" /\ blk[i].sz # 0
             /\ blk[i].thread \notin listed

DeadSkip_LastSlot ==
  /\ Running /\ gc = "dead"
  /\ ~Orphan(gi) \/ gi = HeapCount
  /\ Advance("merge")
  /\ UNCHANGED <<blk, listed, booted, live, broken, haltBy>>

DeadSkip ==
  /\ Running /\ gc = "dead"
  /\ ~Orphan(gi)
  /\ Advance("merge")
  /\ UNCHANGED <<blk, listed, booted, live, broken, haltBy>>

DeadFree ==
  /\ Running /\ gc = "dead"
  /\ Orphan(gi)
  /\ FreeBlock(blk[gi].addr)
  /\ Advance("merge")
  /\ UNCHANGED <<listed, booted, live, broken>>

\* heap_nearest: a free block that ends where block i begins, or that begins
\* where a block of i's size would begin if it ended there.
Nearest(i) ==
  {k \in Slots : /\ blk[k].state = "FREE"
                 /\ \/ blk[k].addr + blk[k].sz = blk[i].addr
                    \/ blk[i].addr - blk[i].sz = blk[k].addr}

Merged_KeepSize(i, k) ==
  [blk EXCEPT ![i].addr = IF blk[i].addr > blk[k].addr THEN blk[k].addr ELSE @,
              ![k]      = Invalid]

Merged(i, k) ==
  [blk EXCEPT ![i].addr = IF blk[i].addr > blk[k].addr THEN blk[k].addr ELSE @,
              ![i].sz   = @ + blk[k].sz,
              ![k]      = Invalid]

\* What merging k into i damages: a used block that grows downwards no longer
\* starts where its owner thinks, two blocks that do not touch swallow what
\* lies between them.
MergeDamage(i, k) ==
  (IF blk[i].state # "FREE" THEN {"used"} ELSE {})
    \cup (IF blk[k].addr + blk[k].sz # blk[i].addr THEN {"gap"} ELSE {})

Merge(i) ==
  \/ /\ \E k \in Slots :
          /\ First(k, Nearest(i))
          /\ blk' = Merged(i, k)
          /\ broken' = broken \cup MergeDamage(i, k)
  \/ /\ Nearest(i) = {}
     /\ UNCHANGED <<blk, broken>>

MergeSkip ==
  /\ Running /\ gc = "merge"
  /\ blk[gi].state # "FREE"
  /\ Advance("last")
  /\ UNCHANGED <<blk, listed, booted, live, broken, haltBy>>

MergeFree ==
  /\ Running /\ gc = "merge"
  /\ blk[gi].state = "FREE"
  /\ Merge(gi)
  /\ Advance("last")
  /\ UNCHANGED <<listed, booted, live, haltBy>>

\* The first slot once more, without a look at its state.
MergeFirst ==
  /\ Running /\ gc = "last"
  /\ Merge(1)
  /\ gc' = "idle"
  /\ UNCHANGED <<listed, booted, gi, live, haltBy>>

-----------------------------------------------------------------------------
Requests == 0 .. Size + 1

Program ==
  \/ \E t \in Tasks, sz \in Requests :
       \/ AllocExact(t, sz) \/ AllocSplit(t, sz) \/ AllocTableFull(t, sz)
       \/ AllocRefused(t, sz)
  \/ \E l \in live : Free(l)

TaskList  == InitKThread \/ \E t \in Tasks : LoadTask(t) \/ UnloadTask(t)
Collector == \/ CollectStart \/ DeadSkip \/ DeadFree
             \/ MergeSkip \/ MergeFree \/ MergeFirst

Next == Program \/ TaskList \/ Collector

Spec == Init /\ [][Next]_vars

-----------------------------------------------------------------------------
(* Type invariant.                                                         *)
TypeOK ==
  /\ blk \in [Slots -> [addr : Nat, sz : Nat, state : {"INVALID", "FREE", "USED"},
                        thread : Tasks \cup {NoThread}]]
  /\ listed \subseteq Tasks /\ booted \in BOOLEAN
  /\ gc \in {"idle", "dead", "merge", "last"} /\ gi \in Slots
  /\ live \subseteq [ptr : Nat, sz : Nat, owner : Tasks]
  /\ broken \subseteq Damage /\ haltBy \in {"none", "alloc", "free", "trap"}

Blocks == {i \in Slots : blk[i].state # "INVALID"}
Apart(a, sa, b, sb) == a + sa <= b \/ b + sb <= a

Partition ==
  /\ \A i, j \in Blocks :
       i # j => Apart(blk[i].addr, blk[i].sz, blk[j].addr, blk[j].sz)
  /\ \A i \in Blocks : /\ blk[i].sz > 0 /\ blk[i].addr >= Base
                       /\ blk[i].addr + blk[i].sz <= Base + Size

\* Unless one of the three kinds of damage happened, the blocks never overlap
\* and lie inside the heap, however allocations, frees, dead threads and
\* collections follow one another (heap.c:84-149, 173-195).
Disjoint == broken = {} => Partition

\* No unit of the heap gets lost: until the table runs full or two blocks that
\* do not touch are merged, every address of the heap belongs to a block.  With
\* Disjoint, the blocks tile the heap (heap.c:113-149, 160-171).
Covers(i, a) == blk[i].addr <= a /\ a < blk[i].addr + blk[i].sz

NothingLost ==
  broken \cap {"full", "gap"} = {} =>
    \A a \in Base .. Base + Size - 1 : \E i \in Blocks : Covers(i, a)

\* What the program holds is what the table says is used: no allocation is
\* moved, resized, handed out twice or collected while its thread is listed,
\* the boot code's included (heap.c:25-31, 57-64, 101-111).
LiveTracked ==
  broken = {} =>
    \A l \in live : \E i \in Slots :
      blk[i] = [addr |-> l.ptr, sz |-> l.sz, state |-> "USED",
                thread |-> Caller(l.owner)]

\* After the first loop of a collection no block of a dead thread is left,
\* although heap_free may have picked another slot (heap.c:101-111).
OrphansFreed ==
  gc \in {"merge", "last"} /\ broken = {} => \A i \in Slots : ~Orphan(i)

\* Heap keeps the promise of Allocator until the first damage: what is handed
\* out overlaps nothing that is held, a collection takes nothing from a listed
\* thread, and freeing what was allocated never stops the system ("Failed to
\* free pointer", heap.c:81), whether the program or the collector frees.
Abstract == INSTANCE Allocator WITH
  Threads <- Tasks, Boot <- KThread,
  held    <- live,
  members <- IF booted THEN listed ELSE {KThread},
  status  <- IF broken # {} THEN "damaged" ELSE
             IF haltBy = "none" THEN "up" ELSE
             IF haltBy = "free" THEN "stopped by a free" ELSE "stopped"
ImplementsAllocator == Abstract!Spec

\* memmgr.c:128 reports that free blocks were merged: what is free afterwards
\* is nobody's memory.
FreeIsFree ==
  \A i \in Slots, l \in live :
    blk[i].state = "FREE" => Apart(blk[i].addr, blk[i].sz, l.ptr, l.sz)
=============================================================================
