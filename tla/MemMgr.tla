------------------------------- MODULE MemMgr -------------------------------
(***************************************************************************)
(* Physical memory at boot: core/memory/memmgr.c from memmgr_init to the   *)
(* two allocations of heap_init, the only callers of memmgr_alloc.  No     *)
(* thread or interrupt runs yet.                                           *)
(*                                                                         *)
(* The loader hands over a map of the machine's memory and the list of the *)
(* modules it loaded.  Where it puts a module is its own affair: the model *)
(* takes any place behind the kernel in the kernel's region, in ascending  *)
(* order if there are several; limine.cfg names one.  A unit of memory is  *)
(* a megabyte, the step of memmgr_amount_installed; 4 GB are Limit units.  *)
(*                                                                         *)
(* `given` is the map as it was handed over (the scan clears its entries), *)
(* `wiped` what memmgr_init has filled with zeros, in eighths of a unit    *)
(* (Parts): both are history.                                              *)
(***************************************************************************)
EXTENDS Integers, Sequences, FiniteSets, FiniteSetsExt

CONSTANTS
  Maps, ModLists,    \* what the loader may hand over
  KernelAt, KernelSize,
  Limit,
  BlkCount,          \* MEMBLK_COUNT
  EntsSize,          \* HEAP_COUNT * sizeof(heapblk_t)
  Share,             \* 8: the heap leaves one part in Share of the memory
  Parts              \* 8: the zero-fill goes in so many steps

Slots   == 1 .. BlkCount
Cells(b) == b.addr .. b.addr + b.sz - 1
End(b)   == b.addr + b.sz
Invalid  == [addr |-> 0, sz |-> 0, type |-> "INVALID"]
Types    == {"INVALID", "FREE", "RESERVED", "ACPI", "KERNEL", "MODULE", "HEAP"}

\* The kernel's region: the entry of usable memory that starts with the kernel.
Region(m) == CHOOSE e \in {m[k] : k \in DOMAIN m} : e.addr = KernelAt /\ e.sz # 0

Blocks  == [addr : Nat, sz : Nat, type : Types]
Entries == {e \in Blocks : e.type \in {"INVALID", "FREE", "RESERVED", "ACPI"}}

ASSUME MemMgrAssumption ==
  /\ KernelAt \in Nat /\ KernelSize \in Nat \ {0} /\ Limit \in Nat
  /\ BlkCount \in Nat \ {0} /\ EntsSize \in Nat \ {0} /\ Share \in Nat \ {0}
  /\ Parts \in 1 .. BlkCount
  /\ \A m \in Maps :
       /\ m \in Seq(Entries)
       /\ \E k \in DOMAIN m : /\ m[k].addr = KernelAt /\ m[k].type = "FREE"
                              /\ m[k].sz > KernelSize /\ End(m[k]) < Limit
       /\ \A k, l \in DOMAIN m : k # l => Cells(m[k]) \cap Cells(m[l]) = {}
  /\ \A ms \in ModLists :
       /\ ms \in Seq([from : Nat, upto : Nat]) /\ ms # <<>>
       /\ \A k \in DOMAIN ms : ms[k].from < ms[k].upto

VARIABLES given, mmap, mods, blks, fblk, pc, i, upto, sum, wiped

vars == <<given, mmap, mods, blks, fblk, pc, i, upto, sum, wiped>>

\* The modules are in the kernel's region, behind the kernel.
Loaded(m, ms) ==
  \A k \in DOMAIN ms :
    /\ ms[k].from >= (IF k = 1 THEN KernelAt + KernelSize ELSE ms[k-1].upto)
    /\ ms[k].upto <= End(Region(m))

Init ==
  /\ given \in Maps /\ mmap = given
  /\ mods \in {ms \in ModLists : Loaded(given, ms)}
  /\ blks = [s \in Slots |-> Invalid] /\ fblk = 0
  /\ pc = "mmap" /\ i = 1 /\ upto = 0 /\ sum = 0 /\ wiped = {}

-----------------------------------------------------------------------------
\* memmgr_map: the first slot that is INVALID.
Free(t) == {s \in Slots : t[s].type = "INVALID"}
Mapped(t, b) == [t EXCEPT ![Min(Free(t))] = b]

Block(a, s, t) == [addr |-> a, sz |-> s, type |-> t]

Halt == pc' = "halted" /\ UNCHANGED <<given, mmap, mods, blks, fblk, i, upto, sum, wiped>>

\* memmgr_scan_mmap.
Wanted(e) == /\ e.sz # 0 /\ e.type \notin {"INVALID", "RESERVED"}
             /\ e.addr >= KernelAt /\ End(e) < Limit
Cleared   == mmap' = [mmap EXCEPT ![i] = Invalid]

ScanSkip ==
  /\ pc = "mmap" /\ i <= Len(mmap) /\ ~Wanted(mmap[i])
  /\ i' = i + 1
  /\ UNCHANGED <<given, mmap, mods, blks, fblk, pc, upto, sum, wiped>>

\* The kernel's region becomes the kernel and _fblk, and the scan starts again.
ScanKernel ==
  /\ pc = "mmap" /\ i <= Len(mmap) /\ Wanted(mmap[i])
  /\ mmap[i].addr = KernelAt /\ Cardinality(Free(blks)) >= 2
  /\ LET t == Mapped(blks, Block(KernelAt, KernelSize, "KERNEL"))
     IN  /\ blks' = Mapped(t, Block(KernelAt + KernelSize,
                                    mmap[i].sz - KernelSize, "FREE"))
         /\ fblk' = Min(Free(t))
  /\ Cleared /\ i' = 1
  /\ UNCHANGED <<given, mods, pc, upto, sum, wiped>>

ScanOther_NotCleared ==
  /\ pc = "mmap" /\ i <= Len(mmap) /\ Wanted(mmap[i])
  /\ mmap[i].addr # KernelAt /\ Free(blks) # {}
  /\ blks' = Mapped(blks, mmap[i])
  /\ i' = i + 1
  /\ UNCHANGED <<given, mmap, mods, fblk, pc, upto, sum, wiped>>

ScanOther ==
  /\ pc = "mmap" /\ i <= Len(mmap) /\ Wanted(mmap[i])
  /\ mmap[i].addr # KernelAt /\ Free(blks) # {}
  /\ blks' = Mapped(blks, mmap[i])
  /\ Cleared /\ i' = i + 1
  /\ UNCHANGED <<given, mods, fblk, pc, upto, sum, wiped>>

ScanFull ==
  /\ pc = "mmap" /\ i <= Len(mmap) /\ Wanted(mmap[i])
  /\ Cardinality(Free(blks)) < (IF mmap[i].addr = KernelAt THEN 2 ELSE 1)
  /\ Halt

\* memmgr_scan_mods.
ModsStart ==
  /\ pc = "mmap" /\ i > Len(mmap)
  /\ pc' = "mods" /\ i' = 1 /\ upto' = End(blks[fblk]) /\ sum' = 0
  /\ UNCHANGED <<given, mmap, mods, blks, fblk, wiped>>

ModMap_LastOnly ==
  /\ pc = "mods" /\ i <= Len(mods) /\ Free(blks) # {}
  /\ blks' = Mapped(blks, Block(mods[i].from, mods[i].upto - mods[i].from, "MODULE"))
  /\ sum' = mods[i].upto - mods[i].from /\ upto' = mods[i].upto /\ i' = i + 1
  /\ UNCHANGED <<given, mmap, mods, fblk, pc, wiped>>

ModMap ==
  /\ pc = "mods" /\ i <= Len(mods) /\ Free(blks) # {}
  /\ blks' = Mapped(blks, Block(mods[i].from, mods[i].upto - mods[i].from, "MODULE"))
  /\ sum' = sum + (mods[i].upto - mods[i].from) /\ upto' = mods[i].upto /\ i' = i + 1
  /\ UNCHANGED <<given, mmap, mods, fblk, pc, wiped>>

ModsFull == pc = "mods" /\ i <= Len(mods) /\ Free(blks) = {} /\ Halt

ModsEnd_KeepAddr ==
  /\ pc = "mods" /\ i > Len(mods)
  /\ blks' = [blks EXCEPT ![fblk].sz = @ - sum]
  /\ pc' = "zero" /\ i' = 1
  /\ UNCHANGED <<given, mmap, mods, fblk, upto, sum, wiped>>

ModsEnd ==
  /\ pc = "mods" /\ i > Len(mods)
  /\ blks' = [blks EXCEPT ![fblk].addr = upto, ![fblk].sz = @ - sum]
  /\ pc' = "zero" /\ i' = 1
  /\ UNCHANGED <<given, mmap, mods, fblk, upto, sum, wiped>>

\* The free blocks are filled with zeros, one slot after the other, each in Parts
\* steps.  The inner loop's counter has the name of the outer one's, so that the
\* steps are as long as the Parts-ths of the blocks in the first slots.
Steps == MapThenSumSet(LAMBDA s : blks[s].sz, 1 .. Parts)

ZeroFill ==
  /\ pc = "zero" /\ i <= BlkCount
  /\ wiped' = IF blks[i].type = "FREE"
               THEN wiped \cup (Parts * blks[i].addr .. Parts * blks[i].addr + Steps - 1)
               ELSE wiped
  /\ i' = i + 1
  /\ UNCHANGED <<given, mmap, mods, blks, fblk, pc, upto, sum>>

ZeroEnd ==
  /\ pc = "zero" /\ i > BlkCount
  /\ pc' = "ents"
  /\ UNCHANGED <<given, mmap, mods, blks, fblk, i, upto, sum, wiped>>

-----------------------------------------------------------------------------
\* memmgr_alloc: the first free block that is large enough, from its low end.
Fits(sz) == {s \in Slots : blks[s].type = "FREE" /\ blks[s].sz >= sz}

AllocSplit_Exact(sz) ==
  LET s == Min(Fits(sz))
  IN  /\ Fits(sz) # {} /\ blks[s].sz >= sz /\ Free(blks) # {}
      /\ blks' = [Mapped(blks, Block(blks[s].addr, sz, "HEAP"))
                    EXCEPT ![s].addr = @ + sz, ![s].sz = @ - sz]

AllocSplit(sz) ==
  LET s == Min(Fits(sz))
  IN  /\ Fits(sz) # {} /\ blks[s].sz > sz /\ Free(blks) # {}
      /\ blks' = [Mapped(blks, Block(blks[s].addr, sz, "HEAP"))
                    EXCEPT ![s].addr = @ + sz, ![s].sz = @ - sz]

AllocWhole(sz) ==
  LET s == Min(Fits(sz))
  IN  /\ Fits(sz) # {} /\ blks[s].sz = sz
      /\ blks' = [blks EXCEPT ![s].type = "HEAP"]

AllocFails(sz) ==
  \/ sz = 0 \/ Fits(sz) = {}
  \/ Fits(sz) # {} /\ Free(blks) = {} /\ blks[Min(Fits(sz))].sz > sz

\* memmgr_amount_installed: the first unit, from the second on, that does not
\* keep what is written to it.  The product with MEGABYTE wraps at 4 GB.
Ram == UNION {Cells(given[k]) : k \in {l \in DOMAIN given : given[l].type # "RESERVED"}}
Installed == Min({a \in 1 .. Limit : a = Limit \/ a \notin Ram}) % Limit
HeapSize  == Installed - Installed \div Share

\* heap_init.
HeapEnts ==
  /\ pc = "ents"
  /\ AllocSplit(EntsSize) \/ AllocWhole(EntsSize)
  /\ pc' = "data"
  /\ UNCHANGED <<given, mmap, mods, fblk, i, upto, sum, wiped>>

HeapData ==
  /\ pc = "data" /\ HeapSize # 0
  /\ AllocSplit(HeapSize) \/ AllocWhole(HeapSize)
  /\ pc' = "up"
  /\ UNCHANGED <<given, mmap, mods, fblk, i, upto, sum, wiped>>

HeapRefused ==
  /\ \/ pc = "ents" /\ AllocFails(EntsSize)
     \/ pc = "data" /\ AllocFails(HeapSize)
  /\ Halt

Next == \/ ScanSkip \/ ScanKernel \/ ScanOther \/ ScanFull
        \/ ModsStart \/ ModMap \/ ModsFull \/ ModsEnd
        \/ ZeroFill \/ ZeroEnd
        \/ HeapEnts \/ HeapData \/ HeapRefused

Spec == Init /\ [][Next]_vars

-----------------------------------------------------------------------------
(* Properties.                                                             *)

Valid(ty) == {s \in Slots : blks[s].type \in ty}
Used      == Types \ {"INVALID", "FREE"}
Settled   == pc \in {"zero", "ents", "data", "up"}

\* Memory between the kernel and the end of the last module that belongs to
\* no module.
Gap == LET behind == {a \in 0 .. 2 * Limit : \E k \in DOMAIN mods :
                        KernelAt + KernelSize <= a /\ a < mods[k].upto}
       IN  Cardinality({a \in behind : \A k \in DOMAIN mods :
                          a \notin mods[k].from .. mods[k].upto - 1})

\* Type invariant.  A block that is mapped is not empty, unless the modules
\* fill the kernel's region.
TypeOK ==
  /\ pc \in {"mmap", "mods", "zero", "ents", "data", "up", "halted"}
  /\ fblk \in 0 .. BlkCount /\ i \in Nat /\ upto \in Nat /\ sum \in Nat
  /\ mmap \in Seq(Entries) /\ Len(mmap) = Len(given) /\ wiped \subseteq Nat
  /\ blks \in [Slots -> Blocks]
  /\ \A s \in Slots : /\ blks[s].type = "INVALID" => blks[s].sz = 0
                      /\ blks[s].sz = 0 /\ s # fblk => blks[s].type = "INVALID"

\* However the map is ordered and wherever the scan starts again, each wanted
\* region is mapped exactly once (memmgr.c:16-32).
EachOnce ==
  pc = "mods" /\ i = 1 =>
    /\ Cardinality(Valid(Types \ {"INVALID"}))
         = 1 + Cardinality({k \in DOMAIN given : Wanted(given[k])})
    /\ \A k \in DOMAIN given :
         Wanted(given[k]) /\ given[k].addr # KernelAt =>
           \E s \in Slots : blks[s] = given[k]
    /\ Cardinality(Valid({"KERNEL"})) = 1
    /\ blks[fblk] = Block(KernelAt + KernelSize, Region(given).sz - KernelSize, "FREE")

\* What the heap gets, what is free for it and what is filled with zeros is nowhere
\* the kernel or a module: the RAM disk is not overwritten, although the free block
\* and the zero-fill run over their ends (memmgr.c:37-76, 172-206, heap.c:15-16).
HeapClear ==
  Settled => \A u \in Valid({"KERNEL", "MODULE"}) :
               /\ \A s \in Valid({"FREE", "HEAP"}) : Cells(blks[s]) \cap Cells(blks[u]) = {}
               /\ \A a \in wiped : a \div Parts \notin Cells(blks[u])

\* _fblk's start moves behind the last module, its size shrinks by the modules
\* only: it ends beyond its region by the gaps in front of the modules, neither
\* less nor more (memmgr.c:40-50).
OverreachIsGap ==
  Settled => End(blks[fblk]) = End(Region(given)) + Gap

\* Where the modules follow the kernel without a gap, all blocks are apart and
\* in memory that the loader reported (memmgr.c:10-50, 172-206).
ApartWhenPacked ==
  Settled /\ Gap = 0 =>
    /\ \A s, u \in Valid(Types \ {"INVALID"}) :
         s # u => Cells(blks[s]) \cap Cells(blks[u]) = {}
    /\ \A s \in Valid(Types \ {"INVALID"}) :
         \E k \in DOMAIN given : Cells(blks[s]) \subseteq Cells(given[k])

\* The bounds of the free block, and what follows from them for all blocks, for every
\* map and every place of the modules.
BlocksApart == OverreachIsGap /\ ApartWhenPacked

\* memmgr.c:63 says that unused memory is filled with zeros.
WipesUnused ==
  \A s \in Valid(Used \ {"HEAP"}), a \in wiped : a \div Parts \notin Cells(blks[s])
=============================================================================
