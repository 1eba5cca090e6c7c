---------------------------- MODULE MemMgrProofs ----------------------------
(***************************************************************************)
(* Proofs about MemMgr, for every map, every place of the modules and any  *)
(* size of the table.  IInv is the inductive invariant: what each block in *)
(* use is (one of the map's entries, the kernel, a module, the free block  *)
(* behind the kernel), how far the scan has come, and how much of the      *)
(* memory behind the kernel belongs to no module.                          *)
(***************************************************************************)
EXTENDS MemMgr, FiniteSetTheorems, WellFoundedInduction, TLAPS

KE == KernelAt + KernelSize
R  == Region(given)
InUse == {s \in Slots : blks[s].type # "INVALID"}

\* The entries that the scan has mapped and cleared.
Done == {k \in DOMAIN given : Wanted(given[k]) /\ mmap[k] = Invalid}

\* Where the scan of the modules has got to, and the memory up to there that belongs
\* to no module.
Reach   == IF i = 1 THEN KE ELSE mods[i-1].upto
Skipped == {a \in KE .. Reach - 1 :
              \A k \in 1 .. i-1 : a \notin mods[k].from .. mods[k].upto - 1}

Fixed == /\ given \in Maps /\ mods \in ModLists /\ Loaded(given, mods)
         /\ TypeOK

\* An entry stays as it was handed over until it is mapped; the ones passed are done.
ScanInv ==
  pc = "mmap" =>
    /\ wiped = {} /\ i \in 1 .. Len(given) + 1
    /\ \A k \in DOMAIN given : mmap[k] = given[k] \/ k \in Done
    /\ \A k \in DOMAIN given : k < i => ~Wanted(mmap[k])
    /\ fblk # 0 <=> \E k \in Done : given[k].addr = KernelAt
    /\ \A k \in Done : given[k].addr # KernelAt => \E s \in Slots : blks[s] = given[k]
    /\ Cardinality(InUse) = Cardinality(Done) + (IF fblk = 0 THEN 0 ELSE 1)

\* While the map and the modules are scanned, only the free block overlaps others.
BlockIs(s) ==
  \/ s = fblk /\ blks[s] = Block(KE, R.sz - KernelSize, "FREE")
  \/ s # fblk /\ fblk # 0 /\ blks[s] = Block(KernelAt, KernelSize, "KERNEL")
  \/ s # fblk /\ \E k \in Done : blks[s] = given[k] /\ given[k].addr # KernelAt
  \/ /\ pc = "mods" /\ s # fblk /\ blks[s].type = "MODULE"
     /\ KE <= blks[s].addr /\ End(blks[s]) <= Reach

OneKernel == \E s \in Slots : Valid({"KERNEL"}) = {s}

BlocksInv ==
  pc \in {"mmap", "mods"} =>
    /\ fblk # 0 => fblk \in InUse /\ OneKernel
    /\ \A s \in InUse : BlockIs(s)
    /\ \A s, u \in InUse \ {fblk} : s # u => Cells(blks[s]) \cap Cells(blks[u]) = {}

ModsInv ==
  pc = "mods" =>
    /\ wiped = {} /\ i \in 1 .. Len(mods) + 1 /\ fblk # 0
    /\ upto = (IF i = 1 THEN End(R) ELSE mods[i-1].upto)
    /\ \A k \in 1 .. i-1 : mods[k].from >= KE /\ mods[k].upto <= Reach
    /\ Cardinality(Skipped) = (Reach - KE) - sum

\* Behind the last module everything is free or the heap's, and nothing else is.
SettledInv ==
  Settled =>
    /\ fblk \in InUse /\ upto \in KE .. End(R) /\ i # 0
    /\ \A s \in Slots : /\ blks[s].type \in {"FREE", "HEAP"} => blks[s].addr >= upto
                        /\ blks[s].type \in {"KERNEL", "MODULE"} => End(blks[s]) <= upto
    /\ \A a \in wiped : a >= Parts * upto
    /\ BlocksApart

IInv == Fixed /\ ScanInv /\ BlocksInv /\ ModsInv /\ SettledInv /\ EachOnce
-----------------------------------------------------------------------------
(* Numbers and blocks.                                                     *)

\* The smallest of some numbers is one of them.
LEMMA MinIs ==
  ASSUME NEW S, S \subseteq Nat, S # {} PROVE Min(S) \in S
<1> DEFINE O == StrictSubsetOrdering(Nat)
           T == {0 .. n : n \in S}
<1>1. T \subseteq FiniteSubsetsOf(Nat) /\ T # {}
  <2>1. ASSUME NEW n \in S PROVE 0 .. n \in FiniteSubsetsOf(Nat)
    <3>1. IsFiniteSet(0 .. n)
      BY FS_Interval
    <3>2. 0 .. n \subseteq Nat
      OBVIOUS
    <3> QED BY <3>1, <3>2 DEF FiniteSubsetsOf
  <2> QED BY <2>1
<1>2. IsWellFoundedOn(O, FiniteSubsetsOf(Nat))
  BY FS_StrictSubsetOrderingWellFounded
<1>3. PICK J \in T : \A K \in T : ~ (<<K, J>> \in O)
  BY <1>1, <1>2, WFMin
<1>4. PICK x \in S : J = 0 .. x
  BY <1>3
<1>5. ASSUME NEW y \in S, y < x PROVE FALSE
  <2>1. (0 .. y) \subseteq 0 .. x /\ x \notin 0 .. y /\ x \in 0 .. x
    BY <1>5
  <2>2. 0 .. x \in SUBSET Nat /\ 0 .. y \in SUBSET Nat
    OBVIOUS
  <2>3. <<0 .. y, 0 .. x>> \in O
    BY <2>1, <2>2 DEF StrictSubsetOrdering
  <2>4. 0 .. y \in T
    BY <1>5
  <2> HIDE DEF O, T
  <2> QED BY <1>3, <1>4, <2>3, <2>4
<1>6. \A y \in S : x <= y
  BY <1>5
<1> QED BY <1>6 DEF Min

\* Two blocks that are not empty are apart when one ends where the other starts,
\* or before.
LEMMA ApartIs ==
  ASSUME NEW b \in Blocks, NEW c \in Blocks, b.sz # 0, c.sz # 0
  PROVE  Cells(b) \cap Cells(c) = {} <=> End(b) <= c.addr \/ End(c) <= b.addr
<1>1. CASE End(b) <= c.addr \/ End(c) <= b.addr
  BY <1>1 DEF Cells, End, Blocks
<1>2. CASE b.addr <= c.addr /\ c.addr < End(b)
  <2>1. c.addr \in Cells(b) \cap Cells(c)
    BY <1>2 DEF Cells, End, Blocks
  <2> QED BY <1>2, <2>1 DEF Cells, End, Blocks
<1>3. CASE c.addr <= b.addr /\ b.addr < End(c)
  <2>1. b.addr \in Cells(b) \cap Cells(c)
    BY <1>3 DEF Cells, End, Blocks
  <2> QED BY <1>3, <2>1 DEF Cells, End, Blocks
<1> QED BY <1>1, <1>2, <1>3 DEF Cells, End, Blocks

LEMMA CellsIn ==
  ASSUME NEW b \in Blocks, NEW lo \in Nat, NEW hi \in Nat
  PROVE  /\ lo <= b.addr /\ End(b) <= hi => Cells(b) \subseteq lo .. hi - 1
         /\ hi <= b.addr \/ End(b) <= lo => Cells(b) \cap (lo .. hi - 1) = {}
         /\ lo = b.addr /\ End(b) = hi => Cells(b) = lo .. hi - 1
BY DEF Cells, End, Blocks

\* memmgr_map fills a slot that was not in use.
LEMMA MappedIs ==
  ASSUME NEW t \in [Slots -> Blocks], NEW b \in Blocks, Free(t) # {}
  PROVE  \E n \in Slots : /\ t[n].type = "INVALID" /\ n = Min(Free(t))
                          /\ Mapped(t, b) = [t EXCEPT ![n] = b]
                          /\ Mapped(t, b) \in [Slots -> Blocks]
<1>1. Min(Free(t)) \in Free(t)
  BY MinIs DEF Free, Slots
<1> QED BY <1>1 DEF Free, Mapped

\* The kernel's region is one of the map's entries, and whatever else is wanted
\* lies behind it.
LEMMA RegionIs ==
  ASSUME Fixed
  PROVE  /\ R \in Entries /\ R.addr = KernelAt /\ R.type = "FREE"
         /\ R.sz > KernelSize /\ End(R) < Limit
         /\ \E r \in DOMAIN given : \A k \in DOMAIN given :
              given[r] = R /\ (Wanted(given[k]) /\ given[k].addr = KernelAt => k = r)
         /\ Wanted(R) /\ given \in Seq(Entries)
         /\ \A k \in DOMAIN given : /\ given[k] \in Entries /\ given[k] \in Blocks
                                    /\ Wanted(given[k]) /\ given[k].addr # KernelAt => given[k].addr >= End(R)
<1>1. /\ given \in Seq(Entries)
      /\ \E k \in DOMAIN given : /\ given[k].addr = KernelAt /\ given[k].type = "FREE"
                                 /\ given[k].sz > KernelSize /\ End(given[k]) < Limit
      /\ \A k, l \in DOMAIN given : k # l => Cells(given[k]) \cap Cells(given[l]) = {}
  BY MemMgrAssumption DEF Fixed
<1>2. PICK r \in DOMAIN given : /\ given[r].addr = KernelAt /\ given[r].type = "FREE"
                                /\ given[r].sz > KernelSize /\ End(given[r]) < Limit
  BY <1>1
<1>3. KernelAt \in Nat /\ KernelSize \in Nat \ {0}
  BY MemMgrAssumption
<1>4. \A k \in DOMAIN given : given[k] \in Entries /\ given[k] \in Blocks
  BY <1>1 DEF Entries
<1>5. \A k \in DOMAIN given :
        k # r /\ given[k].sz # 0 => /\ given[k].addr # KernelAt
                                    /\ given[k].addr >= KernelAt => given[k].addr >= End(given[r])
  <2> SUFFICES ASSUME NEW k \in DOMAIN given, k # r, given[k].sz # 0
               PROVE  /\ given[k].addr # KernelAt
                      /\ given[k].addr >= KernelAt => given[k].addr >= End(given[r])
    OBVIOUS
  <2>1. End(given[k]) <= given[r].addr \/ End(given[r]) <= given[k].addr
    BY <1>1, <1>2, <1>3, <1>4, ApartIs DEF Blocks
  <2> QED BY <2>1, <1>2, <1>3, <1>4 DEF End, Blocks
<1>6. R = given[r]
  <2> DEFINE E == {given[k] : k \in DOMAIN given}
  <2>1. given[r] \in E /\ given[r].addr = KernelAt /\ given[r].sz # 0
    BY <1>2, <1>3, <1>4 DEF Blocks
  <2>2. R \in E /\ R.addr = KernelAt /\ R.sz # 0
    BY <2>1 DEF R, Region
  <2> QED BY <2>2, <1>5
<1>7. Wanted(R)
  BY <1>2, <1>3, <1>6 DEF Wanted
<1> QED BY <1>1, <1>2, <1>4, <1>5, <1>6, <1>7 DEF Wanted

\* A module lies between the one before it and the end of the kernel's region.
LEMMA ModuleIs ==
  ASSUME Fixed, NEW k \in DOMAIN mods
  PROVE  /\ mods[k].from \in Nat /\ mods[k].upto \in Nat /\ mods[k].from < mods[k].upto
         /\ mods[k].from >= (IF k = 1 THEN KE ELSE mods[k-1].upto)
         /\ mods[k].upto <= End(R) /\ mods # <<>>
         /\ Len(mods) \in Nat \ {0} /\ DOMAIN mods = 1 .. Len(mods)
<1>1. mods \in Seq([from : Nat, upto : Nat]) /\ mods # <<>> /\ mods[k].from < mods[k].upto
  BY MemMgrAssumption DEF Fixed
<1>2. Len(mods) \in Nat \ {0} /\ DOMAIN mods = 1 .. Len(mods)
  BY <1>1
<1>3. /\ mods[k].from >= (IF k = 1 THEN KE ELSE mods[k-1].upto)
      /\ mods[k].upto <= End(R)
  BY DEF Fixed, Loaded, KE, R
<1>4. mods[k] \in [from : Nat, upto : Nat]
  <2> DEFINE M == [from : Nat, upto : Nat]
  <2>1. mods \in Seq(M) /\ k \in DOMAIN mods
    BY <1>1
  <2> HIDE DEF M
  <2>2. mods[k] \in M
    BY <2>1
  <2> QED BY <2>2 DEF M
<1> QED BY <1>1, <1>2, <1>3, <1>4

-----------------------------------------------------------------------------
\* What the scan maps is neither empty nor the kernel's or a module's.
LEMMA WantedIs ==
  /\ ~Wanted(Invalid)
  /\ \A e \in Entries : Wanted(e) => /\ e \in Blocks /\ e.sz # 0 /\ e # Invalid
                                     /\ e.type \in {"FREE", "ACPI"} /\ End(e) < Limit
BY DEF Wanted, Invalid, Entries

LEMMA FinitePlaces ==
  ASSUME Fixed
  PROVE  /\ IsFiniteSet(Slots) /\ IsFiniteSet(InUse) /\ IsFiniteSet(Done)
         /\ DOMAIN given = 1 .. Len(given) /\ DOMAIN mmap = DOMAIN given
         /\ Len(given) \in Nat
<1>1. given \in Seq(Entries) /\ mmap \in Seq(Entries) /\ Len(mmap) = Len(given)
  BY RegionIs DEF Fixed, TypeOK
<1>2. DOMAIN given = 1 .. Len(given) /\ DOMAIN mmap = DOMAIN given /\ Len(given) \in Nat
  BY <1>1
<1>3. IsFiniteSet(Slots) /\ IsFiniteSet(1 .. Len(given))
  BY <1>2, MemMgrAssumption, FS_Interval DEF Slots
<1>4. InUse \in SUBSET Slots /\ Done \in SUBSET (1 .. Len(given))
  BY <1>2 DEF InUse, Done
<1> QED BY <1>2, <1>3, <1>4, FS_Subset

LEMMA InitInv == Init => IInv
<1> SUFFICES ASSUME Init PROVE IInv
  OBVIOUS
<1>1. /\ given \in Seq(Entries) /\ Len(given) \in Nat /\ DOMAIN given = 1 .. Len(given)
      /\ given \in Maps
  BY MemMgrAssumption DEF Init
<1>2. Invalid \in Blocks
  BY DEF Invalid, Blocks, Types
<1>3. TypeOK
  BY <1>1, <1>2, MemMgrAssumption DEF Init, TypeOK, Invalid
<1>4. Fixed
  BY <1>3 DEF Init, Fixed
<1>5. \A s \in Slots : blks[s].type = "INVALID"
  BY DEF Init, Invalid
<1>6. InUse = {} /\ Done = {}
  BY <1>5, WantedIs DEF InUse, Done, Init
<1>7. ScanInv
  BY <1>1, <1>6, FS_EmptySet DEF ScanInv, Init
<1>8. BlocksInv /\ ModsInv /\ SettledInv /\ EachOnce
  BY <1>6 DEF BlocksInv, ModsInv, SettledInv, EachOnce, Settled, Init
<1> QED BY <1>4, <1>7, <1>8 DEF IInv

-----------------------------------------------------------------------------
(* The scan of the map.                                                    *)

LEMMA ScanSkipKeeps == ASSUME IInv, ScanSkip PROVE IInv'
<1> USE DEF ScanSkip
<1>1. Fixed'
  BY DEF IInv, Fixed, TypeOK
<1>2. ScanInv'
  <2>1. i \in 1 .. Len(given) /\ Len(given) \in Nat
    BY FinitePlaces DEF IInv, Fixed, TypeOK, ScanInv
  <2>2. Done' = Done /\ InUse' = InUse
    BY DEF Done, InUse
  <2>3. \A k \in DOMAIN given : k < i' => ~Wanted(mmap'[k])
    BY <2>1, FinitePlaces DEF IInv, ScanInv
  <2> QED BY <2>1, <2>2, <2>3 DEF IInv, ScanInv
<1>3. BlocksInv'
  <2>1. Done' = Done /\ InUse' = InUse /\ R' = R /\ OneKernel' = OneKernel
    BY DEF Done, InUse, R, OneKernel, Valid
  <2> QED BY <2>1 DEF IInv, BlocksInv, BlockIs
<1>4. ModsInv' /\ SettledInv' /\ EachOnce'
  BY DEF ModsInv, SettledInv, EachOnce, Settled
<1> QED BY <1>1, <1>2, <1>3, <1>4 DEF IInv

\* The entry the scan stops at is as it was handed over, and not yet mapped.
LEMMA ScanAt ==
  ASSUME IInv, pc = "mmap", i <= Len(mmap), Wanted(mmap[i])
  PROVE  /\ i \in DOMAIN given /\ mmap[i] = given[i] /\ Wanted(given[i]) /\ i \notin Done
         /\ given[i] \in Entries /\ given[i] \in Blocks
<1>1. i \in DOMAIN given
  BY FinitePlaces DEF IInv, Fixed, TypeOK, ScanInv
<1>2. i \notin Done
  BY WantedIs DEF Done
<1> QED BY <1>1, <1>2, RegionIs DEF IInv, ScanInv

\* Clearing the entry adds it to those that are done.
LEMMA ClearedIs ==
  ASSUME IInv, pc = "mmap", i <= Len(mmap), Wanted(mmap[i]), Cleared, UNCHANGED given
  PROVE  /\ Done' = Done \cup {i} /\ mmap' \in Seq(Entries) /\ Len(mmap') = Len(given)
         /\ \A k \in DOMAIN given : mmap'[k] = given[k] \/ k \in Done'
         /\ \A k \in DOMAIN given : k < i => ~Wanted(mmap'[k])
         /\ Cardinality(Done') = Cardinality(Done) + 1
<1>1. /\ i \in DOMAIN given /\ mmap[i] = given[i] /\ Wanted(given[i]) /\ i \notin Done
      /\ DOMAIN mmap = DOMAIN given /\ DOMAIN given = 1 .. Len(given) /\ Len(given) \in Nat
      /\ mmap \in Seq(Entries) /\ Len(mmap) = Len(given) /\ IsFiniteSet(Done)
  BY ScanAt, FinitePlaces DEF IInv, Fixed, TypeOK
<1>2. Invalid \in Entries
  BY DEF Invalid, Entries, Blocks, Types
<1>3. mmap' = [mmap EXCEPT ![i] = Invalid]
  BY DEF Cleared
<1>4. mmap' \in Seq(Entries) /\ Len(mmap') = Len(given)
  BY <1>1, <1>2, <1>3
<1>5. Done' = Done \cup {i}
  BY <1>1, <1>3 DEF Done
<1>6. \A k \in DOMAIN given : mmap'[k] = given[k] \/ k \in Done'
  BY <1>1, <1>3, <1>5 DEF IInv, ScanInv
<1>7. \A k \in DOMAIN given : k < i => ~Wanted(mmap'[k])
  BY <1>1, <1>3 DEF IInv, ScanInv
<1> QED BY <1>1, <1>4, <1>5, <1>6, <1>7, FS_AddElement

\* Filling a slot that was not in use adds it to those in use.
LEMMA OneMore ==
  ASSUME IInv, NEW n \in Slots, blks[n].type = "INVALID", NEW b \in Blocks, b.type # "INVALID",
         b.sz # 0, blks' = [blks EXCEPT ![n] = b]
  PROVE  /\ InUse' = InUse \cup {n} /\ n \notin InUse /\ blks' \in [Slots -> Blocks]
         /\ Cardinality(InUse') = Cardinality(InUse) + 1 /\ Cardinality(InUse) \in Nat
         /\ \A s \in Slots : /\ blks'[s].type = "INVALID" => blks'[s].sz = 0
                             /\ blks'[s].sz = 0 /\ s # fblk => blks'[s].type = "INVALID"
<1>1. /\ blks \in [Slots -> Blocks] /\ IsFiniteSet(InUse)
      /\ \A s \in Slots : /\ blks[s].type = "INVALID" => blks[s].sz = 0
                          /\ blks[s].sz = 0 /\ s # fblk => blks[s].type = "INVALID"
  BY FinitePlaces DEF IInv, Fixed, TypeOK
<1>2. InUse' = InUse \cup {n} /\ n \notin InUse
  BY <1>1 DEF InUse
<1> QED BY <1>1, <1>2, FS_AddElement, FS_CardinalityType

LEMMA ScanOtherKeeps == ASSUME IInv, ScanOther PROVE IInv'
<1> DEFINE e == mmap[i]
<1>1. /\ pc = "mmap" /\ i <= Len(mmap) /\ Wanted(e) /\ e.addr # KernelAt /\ Free(blks) # {}
      /\ blks' = Mapped(blks, e) /\ Cleared /\ i' = i + 1
      /\ UNCHANGED <<given, mods, fblk, pc, upto, sum, wiped>>
  BY DEF ScanOther
<1>2. /\ i \in DOMAIN given /\ e = given[i] /\ i \notin Done /\ e \in Entries /\ e \in Blocks
      /\ e.sz # 0 /\ e.type \in {"FREE", "ACPI"}
  BY <1>1, ScanAt, WantedIs
<1>3. blks \in [Slots -> Blocks]
  BY DEF IInv, Fixed, TypeOK
<1>4. PICK n \in Slots : blks[n].type = "INVALID" /\ blks' = [blks EXCEPT ![n] = e]
  BY <1>1, <1>2, <1>3, MappedIs
<1>5. /\ Done' = Done \cup {i} /\ mmap' \in Seq(Entries) /\ Len(mmap') = Len(given)
      /\ \A k \in DOMAIN given : mmap'[k] = given[k] \/ k \in Done'
      /\ \A k \in DOMAIN given : k < i => ~Wanted(mmap'[k])
      /\ Cardinality(Done') = Cardinality(Done) + 1
  BY <1>1, ClearedIs
<1>6. /\ InUse' = InUse \cup {n} /\ n \notin InUse /\ blks' \in [Slots -> Blocks]
      /\ Cardinality(InUse') = Cardinality(InUse) + 1
      /\ \A s \in Slots : /\ blks'[s].type = "INVALID" => blks'[s].sz = 0
                          /\ blks'[s].sz = 0 /\ s # fblk => blks'[s].type = "INVALID"
  BY <1>2, <1>4, OneMore
<1>7. n # fblk
  BY <1>1, <1>6, MemMgrAssumption DEF IInv, BlocksInv, Slots
<1> HIDE DEF e
<1>8. Fixed'
  BY <1>1, <1>5, <1>6 DEF IInv, Fixed, TypeOK
<1>9. ScanInv'
  <2>1. i' \in 1 .. Len(given) + 1 /\ \A k \in DOMAIN given : k < i' => ~Wanted(mmap'[k])
    <3>1. i \in 1 .. Len(given) /\ Len(given) \in Nat /\ DOMAIN given = 1 .. Len(given)
      BY <1>2, FinitePlaces DEF IInv
    <3>2. mmap' = [mmap EXCEPT ![i] = Invalid] /\ i \in DOMAIN mmap
      BY <1>1, <3>1, FinitePlaces DEF Cleared, IInv
    <3> QED BY <1>1, <1>5, <3>1, <3>2, WantedIs
  <2>2. fblk' # 0 <=> \E k \in Done' : given'[k].addr = KernelAt
    BY <1>1, <1>2, <1>5 DEF IInv, ScanInv
  <2>3. \A k \in Done' : given[k].addr # KernelAt => \E s \in Slots : blks'[s] = given[k]
    <3>1. ASSUME NEW k \in Done, given[k].addr # KernelAt
          PROVE  \E s \in Slots : blks'[s] = given[k]
      <4>1. PICK s \in Slots : blks[s] = given[k]
        BY <1>1, <3>1 DEF IInv, ScanInv
      <4>2. given[k].type # "INVALID"
        BY RegionIs, WantedIs DEF Done, IInv
      <4> QED BY <1>3, <1>4, <4>1, <4>2
    <3>2. blks'[n] = given[i]
      BY <1>2, <1>3, <1>4
    <3> QED BY <1>5, <3>1, <3>2
  <2>4. Cardinality(Done) \in Nat /\ Cardinality(InUse) \in Nat
    BY FinitePlaces, FS_CardinalityType DEF IInv
  <2>5. Cardinality(InUse') = Cardinality(Done') + (IF fblk' = 0 THEN 0 ELSE 1)
    BY <1>1, <1>5, <1>6, <2>4 DEF IInv, ScanInv
  <2> QED BY <1>1, <1>5, <2>1, <2>2, <2>3, <2>5 DEF IInv, ScanInv
<1>10. BlocksInv'
  <2>1. fblk # 0 => fblk \in InUse' /\ OneKernel'
    <3>1. Valid({"KERNEL"})' = Valid({"KERNEL"})
      BY <1>2, <1>3, <1>4 DEF Valid
    <3> QED BY <1>1, <1>6, <3>1 DEF IInv, BlocksInv, OneKernel
  <2>2. \A s \in InUse : blks'[s] = blks[s]
    BY <1>3, <1>4, <1>6 DEF InUse
  <2>3. ASSUME NEW s \in InUse PROVE BlockIs(s)'
    BY <1>1, <1>5, <2>2 DEF IInv, BlocksInv, BlockIs, R
  <2>4. BlockIs(n)'
    BY <1>1, <1>2, <1>3, <1>4, <1>5, <1>7 DEF BlockIs
  <2>5. ASSUME NEW s \in InUse \ {fblk} PROVE Cells(blks'[s]) \cap Cells(blks'[n]) = {}
    <3>1. blks'[n] = e /\ blks'[s] = blks[s] /\ blks[s] \in Blocks
      BY <1>3, <1>4, <2>2 DEF InUse
    <3>2. CASE fblk # 0 /\ blks[s] = Block(KernelAt, KernelSize, "KERNEL")
      <4>1. e.addr >= End(R) /\ R \in Blocks /\ R.addr = KernelAt /\ R.sz > KernelSize
        BY <1>1, <1>2, RegionIs DEF IInv, Entries
      <4>2. blks[s].sz # 0 /\ End(blks[s]) <= e.addr
        BY <1>2, <3>2, <4>1, MemMgrAssumption DEF Block, End, Blocks
      <4> QED BY <1>2, <3>1, <4>2, ApartIs
    <3>3. CASE \E k \in Done : blks[s] = given[k]
      <4>1. PICK k \in Done : blks[s] = given[k]
        BY <3>3
      <4>2. k # i /\ k \in DOMAIN given
        BY <1>2 DEF Done
      <4> QED BY <1>2, <3>1, <4>1, <4>2, MemMgrAssumption DEF IInv, Fixed
    <3> QED BY <1>1, <3>2, <3>3 DEF IInv, BlocksInv, BlockIs
  <2>6. \A s, u \in InUse' \ {fblk} : s # u => Cells(blks'[s]) \cap Cells(blks'[u]) = {}
    BY <1>1, <1>6, <2>2, <2>5 DEF IInv, BlocksInv
  <2> QED BY <1>1, <1>6, <2>1, <2>3, <2>4, <2>6 DEF BlocksInv
<1>11. ModsInv' /\ SettledInv' /\ EachOnce'
  BY <1>1 DEF ModsInv, SettledInv, EachOnce, Settled
<1> QED BY <1>8, <1>9, <1>10, <1>11 DEF IInv

LEMMA ScanKernelKeeps == ASSUME IInv, ScanKernel PROVE IInv'
<1> DEFINE kb == Block(KernelAt, KernelSize, "KERNEL")
           fb == Block(KE, R.sz - KernelSize, "FREE")
<1>1. /\ pc = "mmap" /\ i <= Len(mmap) /\ Wanted(mmap[i]) /\ mmap[i].addr = KernelAt
      /\ Cardinality(Free(blks)) >= 2 /\ Cleared /\ i' = 1
      /\ UNCHANGED <<given, mods, pc, upto, sum, wiped>>
  BY DEF ScanKernel
<1>2. /\ KernelAt \in Nat /\ KernelSize \in Nat \ {0} /\ KE = KernelAt + KernelSize
      /\ KE \in Nat /\ BlkCount \in Nat \ {0}
  BY MemMgrAssumption DEF KE
<1>3. /\ i \in DOMAIN given /\ mmap[i] = given[i] /\ Wanted(given[i]) /\ i \notin Done
      /\ given[i] = R /\ R \in Blocks /\ R.sz > KernelSize /\ R.addr = KernelAt
      /\ \A k \in DOMAIN given : Wanted(given[k]) /\ given[k].addr = KernelAt => k = i
  BY <1>1, ScanAt, RegionIs DEF IInv
<1>4. fblk = 0
  BY <1>1, <1>3 DEF IInv, ScanInv, Done
<1>5. kb \in Blocks /\ fb \in Blocks /\ kb.sz # 0 /\ fb.sz # 0
  BY <1>2, <1>3 DEF Block, Blocks, Types
<1>6. blks \in [Slots -> Blocks]
  BY DEF IInv, Fixed, TypeOK
<1>7. IsFiniteSet(Free(blks)) /\ Free(blks) # {}
  <2>1. Free(blks) \in SUBSET Slots /\ IsFiniteSet(Slots)
    BY FinitePlaces DEF Free, IInv
  <2> QED BY <1>1, <2>1, FS_Subset, FS_EmptySet
<1> DEFINE t == Mapped(blks, kb)
<1>8. PICK n \in Slots : /\ blks[n].type = "INVALID" /\ t = [blks EXCEPT ![n] = kb]
                         /\ t \in [Slots -> Blocks]
  BY <1>5, <1>6, <1>7, MappedIs
<1>9. Free(t) # {}
  <2>1. Free(t) = Free(blks) \ {n} /\ n \in Free(blks)
    BY <1>6, <1>8 DEF Free, Block
  <2>2. Cardinality(Free(t)) = Cardinality(Free(blks)) - 1 /\ Cardinality(Free(blks)) \in Nat
    BY <1>7, <2>1, FS_RemoveElement, FS_CardinalityType
  <2>3. Cardinality(Free(t)) # 0
    BY <1>1, <2>2
  <2> HIDE DEF t
  <2> QED BY <2>3, FS_EmptySet
<1> HIDE DEF kb, fb
<1>10. PICK f \in Slots : /\ t[f].type = "INVALID" /\ f = Min(Free(t))
                          /\ Mapped(t, fb) = [t EXCEPT ![f] = fb]
  BY <1>5, <1>8, <1>9, MappedIs
<1>11. blks' = Mapped(t, fb) /\ fblk' = Min(Free(t))
  BY <1>3, <1>1 DEF ScanKernel, kb, fb, KE
<1> HIDE DEF t
<1>12. kb.type = "KERNEL" /\ fb.type = "FREE" /\ kb.addr = KernelAt /\ End(kb) = KE
  BY <1>2 DEF kb, fb, Block, End
<1>13. /\ f # n /\ blks[f].type = "INVALID" /\ fblk' = f /\ f # 0
       /\ blks'[n] = kb /\ blks'[f] = fb
       /\ \A s \in Slots \ {n, f} : blks'[s] = blks[s]
  BY <1>2, <1>6, <1>8, <1>10, <1>11, <1>12 DEF Slots
<1>14. InUse' = InUse \cup {n, f} /\ n \notin InUse /\ f \notin InUse /\ blks' \in [Slots -> Blocks]
  BY <1>5, <1>8, <1>10, <1>11, <1>12, <1>13 DEF InUse
<1>15. /\ Done' = Done \cup {i} /\ mmap' \in Seq(Entries) /\ Len(mmap') = Len(given)
       /\ \A k \in DOMAIN given : mmap'[k] = given[k] \/ k \in Done'
       /\ Cardinality(Done') = Cardinality(Done) + 1
  BY <1>1, ClearedIs
<1>16. \A s \in InUse : \E k \in Done : blks[s] = given[k] /\ given[k].addr # KernelAt
  BY <1>1, <1>2, <1>4 DEF IInv, BlocksInv, BlockIs, InUse, Slots
<1>17. Fixed'
  <2>1. \A s \in Slots : /\ blks'[s].type = "INVALID" => blks'[s].sz = 0
                         /\ blks'[s].sz = 0 /\ s # fblk' => blks'[s].type = "INVALID"
    BY <1>2, <1>4, <1>5, <1>12, <1>13 DEF IInv, Fixed, TypeOK, Slots
  <2> QED BY <1>1, <1>2, <1>13, <1>14, <1>15, <2>1 DEF IInv, Fixed, TypeOK, Slots
<1>18. ScanInv'
  <2>1. fblk' # 0 /\ i \in Done' /\ given[i].addr = KernelAt
    BY <1>3, <1>13, <1>15
  <2>2. \A k \in Done' : given[k].addr # KernelAt => \E s \in Slots : blks'[s] = given[k]
    <3>1. ASSUME NEW k \in Done, given[k].addr # KernelAt
          PROVE  \E s \in Slots : blks'[s] = given[k]
      <4>1. PICK s \in Slots : blks[s] = given[k]
        BY <1>1, <3>1 DEF IInv, ScanInv
      <4>2. given[k].type # "INVALID"
        BY RegionIs, WantedIs DEF Done, IInv
      <4> QED BY <1>8, <1>13, <4>1, <4>2
    <3> QED BY <1>3, <1>15, <3>1
  <2>3. Cardinality(InUse') = Cardinality(InUse) + 2
    <3>1. IsFiniteSet(InUse) /\ InUse' = (InUse \cup {n}) \cup {f} /\ f \notin InUse \cup {n}
      BY <1>13, <1>14, FinitePlaces DEF IInv
    <3>2. /\ IsFiniteSet(InUse \cup {n}) /\ Cardinality(InUse) \in Nat
          /\ Cardinality(InUse \cup {n}) = Cardinality(InUse) + 1
      BY <1>14, <3>1, FS_AddElement, FS_CardinalityType
    <3>3. Cardinality((InUse \cup {n}) \cup {f}) = Cardinality(InUse \cup {n}) + 1
      BY <3>1, <3>2, FS_AddElement
    <3> QED BY <3>1, <3>2, <3>3
  <2>4. Cardinality(Done) \in Nat /\ Len(given) \in Nat
    BY FinitePlaces, FS_CardinalityType DEF IInv
  <2>5. Cardinality(InUse') = Cardinality(Done') + 1
    BY <1>1, <1>4, <1>15, <2>3, <2>4 DEF IInv, ScanInv
  <2>6. \A k \in DOMAIN given : ~(k < 1)
    BY FinitePlaces DEF IInv
  <2> QED BY <1>1, <1>15, <2>1, <2>2, <2>4, <2>5, <2>6 DEF IInv, ScanInv
<1>19. BlocksInv'
  <2>1. OneKernel'
    <3>1. \A s \in InUse : blks[s].type # "KERNEL"
      BY <1>16, RegionIs DEF Done, Entries, IInv
    <3>2. Valid({"KERNEL"})' = {n}
      BY <1>12, <1>13, <3>1 DEF Valid, InUse
    <3> QED BY <3>2 DEF OneKernel
  <2>2. \A s \in InUse : blks'[s] = blks[s] /\ s \in Slots
    BY <1>13, <1>14 DEF InUse
  <2>3. \A s \in InUse : BlockIs(s)'
    BY <1>1, <1>13, <1>14, <1>15, <1>16, <2>2 DEF BlockIs
  <2>4. BlockIs(n)' /\ BlockIs(f)'
    BY <1>1, <1>13 DEF BlockIs, kb, fb, KE, R
  <2>5. ASSUME NEW s \in InUse PROVE Cells(blks'[s]) \cap Cells(blks'[n]) = {}
    <3>1. PICK k \in Done : blks[s] = given[k] /\ given[k].addr # KernelAt
      BY <1>16
    <3>2. /\ given[k] \in Blocks /\ given[k].addr >= End(R) /\ given[k].sz # 0
      BY <3>1, RegionIs, WantedIs DEF Done, IInv
    <3>3. End(kb) <= given[k].addr
      BY <1>2, <1>3, <1>12, <3>2 DEF End, Blocks
    <3> QED BY <1>5, <1>13, <2>2, <3>1, <3>2, <3>3, ApartIs
  <2>6. \A s, u \in InUse' \ {fblk'} : s # u => Cells(blks'[s]) \cap Cells(blks'[u]) = {}
    <3>1. InUse' \ {fblk'} = InUse \cup {n} /\ fblk \notin InUse
      BY <1>2, <1>4, <1>13, <1>14, <2>2 DEF Slots
    <3>2. \A s, u \in InUse : s # u => Cells(blks'[s]) \cap Cells(blks'[u]) = {}
      BY <1>1, <2>2, <3>1 DEF IInv, BlocksInv
    <3> QED BY <2>5, <3>1, <3>2
  <2> QED BY <1>13, <1>14, <2>1, <2>3, <2>4, <2>6 DEF BlocksInv
<1>20. ModsInv' /\ SettledInv' /\ EachOnce'
  BY <1>1 DEF ModsInv, SettledInv, EachOnce, Settled
<1> QED BY <1>17, <1>18, <1>19, <1>20 DEF IInv

LEMMA HaltKeeps == ASSUME IInv, Halt PROVE IInv'
<1>1. Fixed'
  BY DEF IInv, Fixed, TypeOK, Halt
<1>2. ScanInv' /\ BlocksInv' /\ ModsInv' /\ SettledInv' /\ EachOnce'
  BY DEF Halt, ScanInv, BlocksInv, ModsInv, SettledInv, EachOnce, Settled
<1> QED BY <1>1, <1>2 DEF IInv

-----------------------------------------------------------------------------
(* The scan of the modules.                                                *)

\* When the scan of the map is over, every wanted entry is done.
LEMMA ScanOver ==
  ASSUME IInv, pc = "mmap", i > Len(mmap)
  PROVE  /\ Done = {k \in DOMAIN given : Wanted(given[k])}
         /\ fblk # 0 /\ fblk \in InUse /\ OneKernel
         /\ blks[fblk] = Block(KE, R.sz - KernelSize, "FREE")
<1>1. \A k \in DOMAIN given : ~Wanted(mmap[k]) /\ (mmap[k] = given[k] \/ k \in Done)
  BY FinitePlaces DEF IInv, ScanInv, Fixed, TypeOK
<1>2. Done = {k \in DOMAIN given : Wanted(given[k])}
  BY <1>1 DEF Done
<1>3. fblk # 0
  BY <1>2, RegionIs DEF IInv, ScanInv
<1> QED BY <1>2, <1>3 DEF IInv, BlocksInv, BlockIs

LEMMA ModsStartKeeps == ASSUME IInv, ModsStart PROVE IInv'
<1>1. /\ pc = "mmap" /\ i > Len(mmap) /\ pc' = "mods" /\ i' = 1
      /\ upto' = End(blks[fblk]) /\ sum' = 0
      /\ UNCHANGED <<given, mmap, mods, blks, fblk, wiped>>
  BY DEF ModsStart
<1>2. /\ Done = {k \in DOMAIN given : Wanted(given[k])}
      /\ fblk # 0 /\ fblk \in InUse /\ OneKernel
      /\ blks[fblk] = Block(KE, R.sz - KernelSize, "FREE")
  BY <1>1, ScanOver
<1>3. /\ R \in Blocks /\ R.addr = KernelAt /\ R.sz > KernelSize /\ KE = KernelAt + KernelSize
      /\ KernelAt \in Nat /\ KernelSize \in Nat /\ KE \in Nat
  BY RegionIs, MemMgrAssumption DEF IInv, Entries, KE
<1>4. upto' = End(R) /\ End(R) \in Nat
  BY <1>1, <1>2, <1>3 DEF Block, End, Blocks
<1>5. Done' = Done /\ InUse' = InUse /\ R' = R /\ OneKernel' = OneKernel
  BY <1>1 DEF Done, InUse, R, OneKernel, Valid
<1>6. Fixed'
  BY <1>1, <1>4 DEF IInv, Fixed, TypeOK
<1>7. ScanInv' /\ SettledInv'
  BY <1>1 DEF ScanInv, SettledInv, Settled
<1>8. BlocksInv'
  BY <1>1, <1>5 DEF IInv, BlocksInv, BlockIs
<1>9. ModsInv'
  <2>1. Len(mods) \in Nat
    BY MemMgrAssumption DEF IInv, Fixed
  <2>2. Reach' = KE
    BY <1>1 DEF Reach
  <2>3. Skipped' = {}
    BY <1>3, <2>2 DEF Skipped
  <2>4. Cardinality(Skipped') = 0
    BY <2>3, FS_EmptySet
  <2>5. wiped' = {} /\ i' \in 1 .. Len(mods) + 1 /\ \A k \in 1 .. i'-1 : FALSE
    BY <1>1, <2>1 DEF IInv, ScanInv
  <2>6. KE' = KE
    BY DEF KE
  <2> QED BY <1>1, <1>2, <1>3, <1>4, <1>5, <2>2, <2>4, <2>5, <2>6 DEF ModsInv
<1>10. EachOnce'
  <2>1. Valid(Types \ {"INVALID"})' = InUse
    BY <1>1 DEF IInv, Fixed, TypeOK, Valid, InUse, Blocks
  <2>2. Cardinality(Done) \in Nat /\ Cardinality(InUse) = 1 + Cardinality(Done)
    BY <1>1, <1>2, FinitePlaces, FS_CardinalityType DEF IInv, ScanInv
  <2>3. \A k \in DOMAIN given : Wanted(given[k]) /\ given[k].addr # KernelAt =>
          \E s \in Slots : blks[s] = given[k]
    BY <1>1, <1>2 DEF IInv, ScanInv
  <2>4. Cardinality(Valid({"KERNEL"})) = 1 /\ Valid({"KERNEL"})' = Valid({"KERNEL"})
    BY <1>1, <1>2, FS_Singleton DEF OneKernel, Valid
  <2> QED BY <1>1, <1>2, <2>1, <2>2, <2>3, <2>4 DEF EachOnce, R, KE
<1> QED BY <1>6, <1>7, <1>8, <1>9, <1>10 DEF IInv

\* Where the scan of the modules has got to is in the kernel's region.
LEMMA ReachIs ==
  ASSUME IInv, pc = "mods"
  PROVE  /\ Reach \in Nat /\ KE \in Nat /\ KE <= Reach /\ Reach <= End(R) /\ End(R) \in Nat
         /\ R \in Blocks /\ R.addr = KernelAt /\ R.sz > KernelSize
         /\ KE = KernelAt + KernelSize /\ KernelAt \in Nat /\ KernelSize \in Nat \ {0}
         /\ Len(mods) \in Nat \ {0} /\ DOMAIN mods = 1 .. Len(mods)
<1>1. /\ R \in Blocks /\ R.addr = KernelAt /\ R.sz > KernelSize /\ KE = KernelAt + KernelSize
      /\ KernelAt \in Nat /\ KernelSize \in Nat \ {0} /\ KE \in Nat
      /\ End(R) \in Nat /\ KE <= End(R)
  BY RegionIs, MemMgrAssumption DEF IInv, Entries, KE, End, Blocks
<1>2. Len(mods) \in Nat \ {0} /\ DOMAIN mods = 1 .. Len(mods)
  BY MemMgrAssumption DEF IInv, Fixed
<1>3. CASE i = 1
  BY <1>1, <1>2, <1>3 DEF Reach
<1>4. CASE i # 1
  <2>1. i-1 \in DOMAIN mods /\ i-1 \in 1 .. i-1
    BY <1>2, <1>4 DEF IInv, ModsInv
  <2>2. /\ mods[i-1].from \in Nat /\ mods[i-1].upto \in Nat /\ mods[i-1].from < mods[i-1].upto
        /\ mods[i-1].upto <= End(R) /\ mods[i-1].from >= KE
    BY <2>1, ModuleIs DEF IInv, ModsInv
  <2> QED BY <1>1, <1>2, <1>4, <2>2 DEF Reach
<1> QED BY <1>3, <1>4

LEMMA ModMapKeeps == ASSUME IInv, ModMap PROVE IInv'
<1> DEFINE F == mods[i].from
           U == mods[i].upto
           b == Block(F, U - F, "MODULE")
<1>1. /\ pc = "mods" /\ i <= Len(mods) /\ Free(blks) # {} /\ blks' = Mapped(blks, b)
      /\ sum' = sum + (U - F) /\ upto' = U /\ i' = i + 1
      /\ UNCHANGED <<given, mmap, mods, fblk, pc, wiped>>
  BY DEF ModMap
<1>2. /\ Reach \in Nat /\ KE \in Nat /\ KE <= Reach /\ Reach <= End(R) /\ End(R) \in Nat
      /\ R \in Blocks /\ R.addr = KernelAt /\ R.sz > KernelSize
      /\ KE = KernelAt + KernelSize /\ KernelAt \in Nat /\ KernelSize \in Nat \ {0}
      /\ Len(mods) \in Nat \ {0} /\ DOMAIN mods = 1 .. Len(mods)
  BY <1>1, ReachIs
<1>3. /\ i \in DOMAIN mods /\ i \in Nat \ {0} /\ fblk # 0 /\ fblk \in InUse
  BY <1>1, <1>2 DEF IInv, ModsInv, BlocksInv
<1>4. F \in Nat /\ U \in Nat /\ F < U /\ F >= Reach /\ U <= End(R)
  <2>1. CASE i = 1
    BY <1>3, <2>1, ModuleIs DEF IInv, Reach
  <2>2. CASE i # 1
    BY <1>3, <2>2, ModuleIs DEF IInv, Reach
  <2> QED BY <2>1, <2>2
<1>5. /\ b \in Blocks /\ b.sz # 0 /\ b.type = "MODULE" /\ b.addr = F /\ End(b) = U
  BY <1>4 DEF Block, Blocks, Types, End
<1> HIDE DEF b
<1>6. blks \in [Slots -> Blocks] /\ sum \in Nat
  BY DEF IInv, Fixed, TypeOK
<1>7. PICK n \in Slots : blks[n].type = "INVALID" /\ blks' = [blks EXCEPT ![n] = b]
  BY <1>1, <1>5, <1>6, MappedIs
<1>8. /\ InUse' = InUse \cup {n} /\ n \notin InUse /\ blks' \in [Slots -> Blocks]
      /\ \A s \in Slots : /\ blks'[s].type = "INVALID" => blks'[s].sz = 0
                          /\ blks'[s].sz = 0 /\ s # fblk => blks'[s].type = "INVALID"
  BY <1>5, <1>7, OneMore
<1>9. Reach' = U /\ Done' = Done /\ R' = R /\ KE' = KE
  BY <1>1, <1>3 DEF Reach, Done, R, KE
<1>10. Fixed'
  BY <1>1, <1>3, <1>4, <1>6, <1>8 DEF IInv, Fixed, TypeOK
<1> HIDE DEF F, U
<1>11. ScanInv' /\ SettledInv'
  BY <1>1 DEF ScanInv, SettledInv, Settled
<1>12. EachOnce'
  BY <1>1, <1>3 DEF EachOnce
<1>13. BlocksInv'
  <2>1. OneKernel'
    <3>1. Valid({"KERNEL"})' = Valid({"KERNEL"})
      BY <1>5, <1>6, <1>7 DEF Valid
    <3> QED BY <1>1, <1>3, <3>1 DEF IInv, BlocksInv, OneKernel
  <2>2. \A s \in InUse : blks'[s] = blks[s] /\ s \in Slots
    BY <1>6, <1>7, <1>8 DEF InUse
  <2>3. ASSUME NEW s \in InUse PROVE BlockIs(s)'
    <3>1. BlockIs(s) /\ blks[s] \in Blocks
      BY <1>1, <1>6, <2>2 DEF IInv, BlocksInv
    <3>2. CASE /\ s # fblk /\ blks[s].type = "MODULE"
               /\ KE <= blks[s].addr /\ End(blks[s]) <= Reach
      <4>1. End(blks[s]) <= U
        BY <1>2, <1>4, <3>1, <3>2 DEF End, Blocks
      <4>3. End(blks[s])' <= Reach' /\ blks'[s].type = "MODULE" /\ KE' <= blks'[s].addr
        BY <1>9, <2>2, <3>2, <4>1 DEF End
      <4> QED BY <1>1, <3>2, <4>3 DEF BlockIs
    <3> QED BY <1>1, <1>9, <2>2, <3>1, <3>2 DEF BlockIs
  <2>4. BlockIs(n)'
    BY <1>1, <1>2, <1>3, <1>4, <1>5, <1>6, <1>7, <1>8, <1>9 DEF BlockIs
  <2>5. ASSUME NEW s \in InUse \ {fblk} PROVE Cells(blks'[s]) \cap Cells(blks'[n]) = {}
    <3>1. /\ blks'[n] = b /\ blks'[s] = blks[s] /\ blks[s] \in Blocks /\ BlockIs(s)
          /\ blks[s].sz # 0
      BY <1>1, <1>6, <1>7, <2>2 DEF IInv, BlocksInv, InUse, Fixed, TypeOK
    <3>2. CASE blks[s] = Block(KernelAt, KernelSize, "KERNEL")
      <4>1. End(blks[s]) = KE
        BY <1>2, <3>2 DEF Block, End
      <4> QED BY <1>2, <1>4, <1>5, <3>1, <4>1, ApartIs
    <3>3. CASE \E k \in Done : blks[s] = given[k] /\ given[k].addr # KernelAt
      <4>1. blks[s].addr >= End(R)
        BY <3>3, RegionIs DEF IInv, Done
      <4>2. End(b) <= blks[s].addr
        BY <1>2, <1>4, <1>5, <3>1, <4>1 DEF Blocks
      <4> QED BY <1>5, <3>1, <4>2, ApartIs
    <3>4. CASE End(blks[s]) <= Reach
      <4>1. End(blks[s]) \in Nat
        BY <3>1 DEF Blocks, End
      <4>2. End(blks[s]) <= b.addr
        BY <1>2, <1>4, <1>5, <3>4, <4>1
      <4> QED BY <1>5, <3>1, <4>2, ApartIs
    <3> QED BY <1>1, <3>1, <3>2, <3>3, <3>4 DEF BlockIs
  <2>6. \A s, u \in InUse' \ {fblk} : s # u => Cells(blks'[s]) \cap Cells(blks'[u]) = {}
    BY <1>1, <1>8, <2>2, <2>5 DEF IInv, BlocksInv
  <2> QED BY <1>1, <1>3, <1>8, <2>1, <2>3, <2>4, <2>6 DEF BlocksInv
<1>14. ModsInv'
  <2> DEFINE G == Reach .. F - 1
  <2>1. Skipped' = Skipped \cup G /\ Skipped \cap G = {}
    <3>1. ASSUME NEW a \in Int, Reach <= a, NEW k \in 1 .. i-1
          PROVE  a \notin mods[k].from .. mods[k].upto - 1
      <4>1. k \in DOMAIN mods
        BY <1>1, <1>2, <1>3
      <4>2. mods[k].upto \in Nat /\ mods[k].from \in Nat /\ mods[k].upto <= Reach
        BY <1>1, <4>1, ModuleIs DEF IInv, ModsInv
      <4> QED BY <1>2, <3>1, <4>2
    <3>2. 1 .. i'-1 = (1 .. i-1) \cup {i}
      BY <1>1, <1>3
    <3>3. Skipped' = {a \in KE .. U - 1 :
             \A k \in (1 .. i-1) \cup {i} : a \notin mods[k].from .. mods[k].upto - 1}
      BY <1>1, <1>9, <3>2 DEF Skipped, U
    <3>4. Skipped' = {a \in KE .. U - 1 :
             /\ \A k \in 1 .. i-1 : a \notin mods[k].from .. mods[k].upto - 1
             /\ a \notin F .. U - 1}
      BY <3>3 DEF F, U
    <3> DEFINE Out(a) == \A k \in 1 .. i-1 : a \notin mods[k].from .. mods[k].upto - 1
    <3>6. /\ Skipped' = {a \in KE .. U - 1 : Out(a) /\ a \notin F .. U - 1}
          /\ Skipped = {a \in KE .. Reach - 1 : Out(a)}
          /\ \A a \in Int : Reach <= a => Out(a)
      BY <3>1, <3>4 DEF Skipped
    <3> HIDE DEF Out
    <3>7. \A a : a \in Skipped' <=> a \in Skipped \/ a \in G
      BY <1>2, <1>4, <3>6
    <3>5. Skipped \cap G = {}
      BY <1>2 DEF Skipped
    <3> QED BY <3>5, <3>7
  <2>2. IsFiniteSet(Skipped)
    <3>1. IsFiniteSet(KE .. Reach - 1)
      BY <1>2, FS_Interval
    <3>2. Skipped \in SUBSET (KE .. Reach - 1)
      BY DEF Skipped
    <3> QED BY <3>1, <3>2, FS_Subset
  <2>3. IsFiniteSet(G) /\ Cardinality(G) = F - Reach
    <3>1. Reach \in Int /\ F - 1 \in Int /\ F >= Reach
      BY <1>2, <1>4
    <3>2. IsFiniteSet(G) /\ Cardinality(G) = IF Reach > F - 1 THEN 0 ELSE (F - 1) - Reach + 1
      BY <3>1, FS_Interval
    <3> QED BY <1>2, <1>4, <3>2
  <2> HIDE DEF G
  <2>4. Cardinality(Skipped \cup G) = Cardinality(Skipped) + Cardinality(G)
    <3>1. Cardinality(Skipped \cup G)
            = Cardinality(Skipped) + Cardinality(G) - Cardinality(Skipped \cap G)
      BY <2>2, <2>3, FS_Union
    <3>2. Cardinality(Skipped \cap G) = 0
      BY <2>1, FS_EmptySet
    <3> QED BY <2>2, <2>3, <3>1, <3>2, FS_CardinalityType
  <2>5. Cardinality(Skipped) = (Reach - KE) - sum
    BY <1>1 DEF IInv, ModsInv
  <2>6. Cardinality(Skipped)' = (Reach' - KE) - sum'
    <3>1. Cardinality(Skipped)' = ((Reach - KE) - sum) + (F - Reach)
      BY <2>1, <2>3, <2>4, <2>5
    <3>2. sum' = sum + (U - F) /\ Reach' = U
      BY <1>1, <1>9
    <3> QED BY <1>2, <1>4, <1>6, <3>1, <3>2
  <2>7. \A k \in 1 .. i'-1 : mods[k].from >= KE /\ mods[k].upto <= Reach'
    <3>1. ASSUME NEW k \in 1 .. i-1 PROVE mods[k].from >= KE /\ mods[k].upto <= Reach'
      <4>0. ModsInv /\ k \in DOMAIN mods
        BY <1>2, <1>3 DEF IInv
      <4>1. k \in DOMAIN mods /\ mods[k].upto <= Reach /\ mods[k].from >= KE
        BY <1>1, <4>0 DEF ModsInv
      <4>2. mods[k].upto \in Nat
        BY <4>1, ModuleIs DEF IInv
      <4> QED BY <1>2, <1>4, <1>9, <4>1, <4>2
    <3>2. mods[i].from >= KE /\ mods[i].upto <= Reach'
      BY <1>2, <1>4, <1>9 DEF F, U
    <3>3. \A k \in 1 .. i'-1 : k \in 1 .. i-1 \/ k = i
      BY <1>1, <1>3
    <3> QED BY <3>1, <3>2, <3>3
  <2>8. wiped' = {} /\ i' \in 1 .. Len(mods) + 1 /\ fblk' # 0 /\ KE' = KE
    BY <1>1, <1>2, <1>3 DEF IInv, ModsInv, KE
  <2>9. upto' = (IF i' = 1 THEN End(R') ELSE mods[i'-1].upto)
    BY <1>1, <1>3 DEF U
  <2> QED BY <1>1, <1>9, <2>6, <2>7, <2>8, <2>9 DEF ModsInv
<1> QED BY <1>10, <1>11, <1>12, <1>13, <1>14 DEF IInv

\* The free block's start moves behind the last module.
LEMMA ModsEndKeeps == ASSUME IInv, ModsEnd PROVE IInv'
<1> DEFINE new == R.sz - KernelSize - sum
<1>1. /\ pc = "mods" /\ i > Len(mods)
      /\ blks' = [blks EXCEPT ![fblk].addr = upto, ![fblk].sz = @ - sum]
      /\ pc' = "zero" /\ i' = 1
      /\ UNCHANGED <<given, mmap, mods, fblk, upto, sum, wiped>>
  BY DEF ModsEnd
<1>2. /\ Reach \in Nat /\ KE \in Nat /\ KE <= Reach /\ Reach <= End(R) /\ End(R) \in Nat
      /\ R \in Blocks /\ R.addr = KernelAt /\ R.sz > KernelSize
      /\ KE = KernelAt + KernelSize /\ KernelAt \in Nat /\ KernelSize \in Nat \ {0}
      /\ Len(mods) \in Nat \ {0} /\ DOMAIN mods = 1 .. Len(mods)
  BY <1>1, ReachIs
<1>3. /\ fblk # 0 /\ fblk \in InUse /\ fblk \in Slots /\ i = Len(mods) + 1
      /\ upto = Reach /\ upto \in Nat
      /\ blks[fblk] = Block(KE, R.sz - KernelSize, "FREE") /\ blks \in [Slots -> Blocks]
      /\ sum \in Nat /\ wiped = {}
  <2>1. fblk # 0 /\ i = Len(mods) + 1 /\ wiped = {}
    BY <1>1, <1>2 DEF IInv, Fixed, TypeOK, ModsInv
  <2>2. upto = Reach /\ upto \in Nat
    BY <1>1, <1>2, <2>1 DEF IInv, ModsInv, Reach
  <2>3. blks \in [Slots -> Blocks] /\ sum \in Nat
    BY DEF IInv, Fixed, TypeOK
  <2>4. /\ fblk \in InUse /\ fblk \in Slots
        /\ blks[fblk] = Block(KE, R.sz - KernelSize, "FREE")
    BY <1>1, <2>1 DEF IInv, Fixed, TypeOK, ModsInv, BlocksInv, BlockIs, InUse
  <2> QED BY <2>1, <2>2, <2>3, <2>4
<1>4. Cardinality(Skipped) \in Nat /\ Cardinality(Skipped) = (upto - KE) - sum
  <2>1. IsFiniteSet(KE .. Reach - 1)
    BY <1>2, FS_Interval
  <2>2. Skipped \in SUBSET (KE .. Reach - 1)
    BY DEF Skipped
  <2> QED BY <1>1, <1>3, <2>1, <2>2, FS_Subset, FS_CardinalityType DEF IInv, ModsInv
<1>5. End(R) = KernelAt + R.sz /\ R.sz \in Nat
  BY <1>2 DEF End, Blocks
<1>6. new \in Nat /\ upto + new = End(R) + Cardinality(Skipped)
  <2> DEFINE c == Cardinality(Skipped)
             z == R.sz
             e == End(R)
  <2>1. /\ c \in Nat /\ c = (upto - KE) - sum /\ e = KernelAt + z /\ z \in Nat /\ upto <= e
        /\ KE = KernelAt + KernelSize /\ upto \in Nat /\ sum \in Nat /\ KE \in Nat
        /\ KernelAt \in Nat /\ KernelSize \in Nat
    BY <1>2, <1>3, <1>4, <1>5
  <2> HIDE DEF c, z, e
  <2>2. z - KernelSize - sum \in Nat /\ upto + (z - KernelSize - sum) = e + c
    BY <2>1
  <2> QED BY <2>2 DEF c, z, e
<1>7. /\ blks'[fblk] = Block(upto, new, "FREE") /\ Block(upto, new, "FREE") \in Blocks
      /\ \A s \in Slots \ {fblk} : blks'[s] = blks[s]
      /\ blks' \in [Slots -> Blocks]
  <2>1. blks[fblk] = [addr |-> KE, sz |-> R.sz - KernelSize, type |-> "FREE"]
    BY <1>3 DEF Block
  <2>2. blks'[fblk] = Block(upto, new, "FREE")
    <3>1. blks'[fblk] = [[blks[fblk] EXCEPT !.addr = upto] EXCEPT !.sz = @ - sum]
      BY <1>1, <1>3
    <3>2. [[[addr |-> KE, sz |-> R.sz - KernelSize, type |-> "FREE"]
              EXCEPT !.addr = upto] EXCEPT !.sz = @ - sum]
            = [addr |-> upto, sz |-> R.sz - KernelSize - sum, type |-> "FREE"]
      <4> DEFINE z == R.sz - KernelSize
                 mid == [addr |-> upto, sz |-> z, type |-> "FREE"]
      <4> HIDE DEF z
      <4>1. [[addr |-> KE, sz |-> z, type |-> "FREE"] EXCEPT !.addr = upto] = mid
        OBVIOUS
      <4>2. [mid EXCEPT !.sz = @ - sum] = [addr |-> upto, sz |-> z - sum, type |-> "FREE"]
        OBVIOUS
      <4> HIDE DEF mid
      <4> QED BY <4>1, <4>2 DEF z
    <3> QED BY <2>1, <3>1, <3>2 DEF Block
  <2>3. \A s \in Slots \ {fblk} : blks'[s] = blks[s]
    BY <1>1, <1>3
  <2>4. Block(upto, new, "FREE") \in Blocks
    BY <1>3, <1>6 DEF Block, Blocks, Types
  <2>5. blks' = [s \in Slots |-> IF s = fblk THEN Block(upto, new, "FREE") ELSE blks[s]]
    BY <1>1, <1>3, <2>2, <2>3
  <2> HIDE DEF new
  <2>6. blks' \in [Slots -> Blocks]
    BY <1>3, <2>4, <2>5
  <2> QED BY <2>2, <2>3, <2>4, <2>6
<1> HIDE DEF new
<1>8. Fixed'
  <2>1. \A s \in Slots : /\ blks'[s].type = "INVALID" => blks'[s].sz = 0
                         /\ blks'[s].sz = 0 /\ s # fblk => blks'[s].type = "INVALID"
    BY <1>3, <1>7 DEF IInv, Fixed, TypeOK, Block
  <2> QED BY <1>1, <1>7, <2>1 DEF IInv, Fixed, TypeOK
<1>9. ScanInv' /\ BlocksInv' /\ ModsInv' /\ EachOnce'
  BY <1>1 DEF ScanInv, BlocksInv, ModsInv, EachOnce
<1>10. Gap = Cardinality(Skipped) /\ Gap' = Gap
  <2>1. 1 .. i-1 = DOMAIN mods
    BY <1>2, <1>3
  <2>2. \E k \in DOMAIN mods : mods[k].upto = Reach /\ mods[k].upto \in Nat
    <3>1. i # 1 /\ i-1 \in DOMAIN mods
      BY <1>2, <1>3
    <3> QED BY <1>2, <3>1 DEF Reach
  <2>3. \A k \in DOMAIN mods : mods[k].upto <= Reach /\ mods[k].upto \in Nat
    BY <1>1, <2>1, ModuleIs DEF IInv, ModsInv
  <2>4. Reach <= 2 * Limit
    BY <1>2, RegionIs, MemMgrAssumption DEF IInv
  <2>5. {a \in 0 .. 2 * Limit : \E k \in DOMAIN mods : KE <= a /\ a < mods[k].upto}
          = KE .. Reach - 1
    BY <1>2, <2>2, <2>3, <2>4, MemMgrAssumption
  <2>6. Gap = Cardinality(Skipped)
    BY <2>1, <2>5 DEF Gap, Skipped, KE
  <2> QED BY <1>1, <2>6 DEF Gap
<1>11. InUse' = InUse /\ R' = R
  BY <1>1, <1>3, <1>7 DEF InUse, R, Block
\* Every other block is behind the kernel's region, the kernel or a module.
<1>12. ASSUME NEW s \in InUse, s # fblk
       PROVE  /\ blks'[s] = blks[s] /\ blks[s] \in Blocks /\ blks[s].sz # 0
              /\ \/ blks[s].type \in {"FREE", "ACPI"} /\ blks[s].addr >= End(R)
                    /\ \E k \in DOMAIN given : blks[s] = given[k]
                 \/ blks[s].type \in {"KERNEL", "MODULE"} /\ End(blks[s]) <= upto
                    /\ blks[s].addr >= KernelAt
  <2>1. blks'[s] = blks[s] /\ blks[s] \in Blocks /\ blks[s].sz # 0 /\ BlockIs(s)
    BY <1>1, <1>3, <1>7, <1>12 DEF InUse, IInv, BlocksInv, Fixed, TypeOK
  <2>2. CASE blks[s] = Block(KernelAt, KernelSize, "KERNEL")
    BY <1>2, <1>3, <2>1, <2>2 DEF Block, End
  <2>3. CASE \E k \in Done : blks[s] = given[k] /\ given[k].addr # KernelAt
    BY <2>1, <2>3, RegionIs, WantedIs DEF IInv, Done
  <2>4. CASE blks[s].type = "MODULE" /\ KE <= blks[s].addr /\ End(blks[s]) <= Reach
    <3>1. blks[s].addr \in Nat
      BY <2>1 DEF Blocks
    <3>2. blks[s].addr >= KernelAt
      BY <1>2, <2>4, <3>1
    <3>3. End(blks[s]) <= upto
      BY <1>3, <2>4
    <3> QED BY <2>1, <2>4, <3>2, <3>3
  <2> QED BY <1>12, <2>1, <2>2, <2>3, <2>4 DEF BlockIs
<1>13. \A s \in Slots : /\ blks'[s].type \in {"FREE", "HEAP"} => blks'[s].addr >= upto
                        /\ blks'[s].type \in {"KERNEL", "MODULE"} => End(blks'[s]) <= upto
  <2>1. blks'[fblk].type = "FREE" /\ blks'[fblk].addr = upto
    BY <1>7 DEF Block
  <2>2. ASSUME NEW s \in InUse, s # fblk
        PROVE  /\ blks'[s].type \in {"FREE", "HEAP"} => blks'[s].addr >= upto
               /\ blks'[s].type \in {"KERNEL", "MODULE"} => End(blks'[s]) <= upto
    <3>1. blks'[s] = blks[s] /\ blks[s].addr \in Nat /\ End(R) \in Nat
      BY <1>2, <1>12, <2>2 DEF Blocks
    <3>2. CASE blks[s].type \in {"FREE", "ACPI"} /\ blks[s].addr >= End(R)
      <4>1. blks[s].addr >= upto
        BY <1>2, <1>3, <3>1, <3>2
      <4> QED BY <3>1, <3>2, <4>1
    <3>3. CASE blks[s].type \in {"KERNEL", "MODULE"} /\ End(blks[s]) <= upto
      BY <3>1, <3>3
    <3> QED BY <1>12, <2>2, <3>2, <3>3
  <2>3. \A s \in Slots : s \notin InUse => blks'[s].type = "INVALID"
    BY <1>3, <1>7 DEF InUse
  <2> QED BY <1>3, <2>1, <2>2, <2>3
<1>14. OverreachIsGap'
  <2>1. End(blks'[fblk]) = upto + new
    BY <1>7 DEF End, Block
  <2> QED BY <1>1, <1>6, <1>10, <1>11, <2>1 DEF OverreachIsGap, R, End
<1>15. ApartWhenPacked'
  <2> SUFFICES ASSUME Gap = 0
               PROVE  /\ \A s, u \in InUse : s # u => Cells(blks'[s]) \cap Cells(blks'[u]) = {}
                      /\ \A s \in InUse :
                           \E k \in DOMAIN given : Cells(blks'[s]) \subseteq Cells(given[k])
    <3>1. Valid(Types \ {"INVALID"})' = InUse
      BY <1>7, <1>11 DEF Valid, InUse, Blocks
    <3> QED BY <1>1, <1>10, <3>1 DEF ApartWhenPacked
  <2>1. upto + new = End(R) /\ upto <= End(R)
    BY <1>2, <1>3, <1>4, <1>6, <1>10
  <2>7. Cells(blks'[fblk]) = upto .. End(R) - 1
    <3>1. /\ blks'[fblk] \in Blocks /\ blks'[fblk].addr = upto
          /\ End(blks'[fblk]) = upto + new
      BY <1>7 DEF End, Block
    <3> QED BY <1>2, <1>3, <2>1, <3>1, CellsIn
  <2>2. ASSUME NEW s \in InUse, s # fblk PROVE Cells(blks'[s]) \cap Cells(blks'[fblk]) = {}
    <3>1. /\ blks'[s] = blks[s] /\ blks[s] \in Blocks /\ blks[s].sz # 0
          /\ blks[s].addr >= End(R) \/ End(blks[s]) <= upto
      BY <1>12, <2>2
    <3> QED BY <1>2, <1>3, <2>7, <3>1, CellsIn
  <2>3. \A s, u \in InUse : s # u => Cells(blks'[s]) \cap Cells(blks'[u]) = {}
    BY <1>1, <1>12, <2>2 DEF IInv, BlocksInv
  <2>4. \E k \in DOMAIN given : given[k] = R
    BY RegionIs DEF IInv
  <2>5. Cells(R) = KernelAt .. End(R) - 1
    BY <1>2 DEF Cells, End, Blocks
  <2>6. ASSUME NEW s \in InUse
        PROVE  \E k \in DOMAIN given : Cells(blks'[s]) \subseteq Cells(given[k])
    <3>1. CASE s = fblk
      <4>1. Cells(blks'[fblk]) \subseteq Cells(R)
        BY <1>2, <1>3, <2>5, <2>7
      <4> QED BY <2>4, <3>1, <4>1
    <3>2. CASE s # fblk /\ \E k \in DOMAIN given : blks[s] = given[k]
      BY <1>12, <3>2
    <3>3. CASE s # fblk /\ End(blks[s]) <= upto /\ blks[s].addr >= KernelAt
      <4>1. blks[s] \in Blocks /\ blks'[s] = blks[s]
        BY <1>12, <3>3
      <4>2. Cells(blks'[s]) \subseteq Cells(R)
        <5>1. End(blks[s]) <= End(R)
          BY <1>2, <1>3, <2>1, <3>3, <4>1 DEF End, Blocks
        <5> QED BY <1>2, <2>5, <3>3, <4>1, <5>1, CellsIn
      <4> QED BY <2>4, <4>2
    <3> QED BY <1>12, <3>1, <3>2, <3>3
  <2> QED BY <2>3, <2>6
<1>16. SettledInv'
  BY <1>1, <1>2, <1>3, <1>11, <1>13, <1>14, <1>15 DEF SettledInv, BlocksApart, KE
<1> QED BY <1>8, <1>9, <1>16 DEF IInv

-----------------------------------------------------------------------------
(* The zero-fill and the heap's allocations.                               *)

LEMMA WipeFrom ==
  ASSUME NEW p \in Nat \ {0}, NEW u \in Nat, NEW a \in Nat, u <= a, NEW x, NEW y \in p * a .. x
  PROVE  y \in Nat /\ y >= p * u
<1>1. p * u \in Nat /\ p * a \in Nat /\ p * u <= p * a
  OBVIOUS
<1>2. y \in Int /\ p * a <= y
  BY <1>1
<1> QED BY <1>1, <1>2

LEMMA ZeroFillKeeps == ASSUME IInv, ZeroFill PROVE IInv'
<1>1. /\ pc = "zero" /\ i <= BlkCount /\ i' = i + 1
      /\ wiped' = IF blks[i].type = "FREE"
                   THEN wiped \cup (Parts * blks[i].addr .. Parts * blks[i].addr + Steps - 1)
                   ELSE wiped
      /\ UNCHANGED <<given, mmap, mods, blks, fblk, pc, upto, sum>>
  BY DEF ZeroFill
<1>2. /\ Parts \in Nat \ {0} /\ upto \in Nat /\ wiped \subseteq Nat /\ i \in Nat
      /\ \A a \in wiped : a >= Parts * upto
  BY <1>1, MemMgrAssumption DEF IInv, Fixed, TypeOK, SettledInv, Settled
<1>3. wiped' \subseteq Nat /\ \A a \in wiped' : a >= Parts * upto
  <2>1. CASE blks[i].type = "FREE" /\ i \in Slots
    <3>1. blks[i].addr \in Nat /\ upto <= blks[i].addr
      BY <1>1, <2>1 DEF IInv, Fixed, TypeOK, SettledInv, Settled, Blocks
    <3>2. \A a \in Parts * blks[i].addr .. Parts * blks[i].addr + Steps - 1 :
            a \in Nat /\ a >= Parts * upto
      BY <1>2, <3>1, WipeFrom
    <3> QED BY <1>1, <1>2, <2>1, <3>2
  <2>2. CASE blks[i].type # "FREE"
    BY <1>1, <1>2, <2>2
  <2>3. i \in Slots
    BY <1>1, <1>2, MemMgrAssumption DEF IInv, Slots, SettledInv, Settled
  <2> QED BY <2>1, <2>2, <2>3
<1>4. Fixed'
  BY <1>1, <1>2, <1>3 DEF IInv, Fixed, TypeOK
<1>5. ScanInv' /\ BlocksInv' /\ ModsInv' /\ EachOnce'
  BY <1>1 DEF ScanInv, BlocksInv, ModsInv, EachOnce
<1>6. BlocksApart' /\ InUse' = InUse /\ R' = R
  BY <1>1 DEF IInv, SettledInv, Settled, BlocksApart, OverreachIsGap, ApartWhenPacked, Gap,
              Valid, InUse, R
<1>7. SettledInv'
  BY <1>1, <1>2, <1>3, <1>6 DEF IInv, SettledInv, Settled
<1> QED BY <1>4, <1>5, <1>7 DEF IInv

LEMMA ZeroEndKeeps == ASSUME IInv, ZeroEnd PROVE IInv'
<1> USE DEF ZeroEnd
<1>1. Fixed'
  BY DEF IInv, Fixed, TypeOK
<1>2. ScanInv' /\ BlocksInv' /\ ModsInv' /\ EachOnce'
  BY DEF ScanInv, BlocksInv, ModsInv, EachOnce
<1>3. BlocksApart' /\ InUse' = InUse /\ R' = R
  BY DEF IInv, SettledInv, Settled, BlocksApart, OverreachIsGap, ApartWhenPacked, Gap,
         Valid, InUse, R
<1>4. SettledInv'
  BY <1>3 DEF IInv, SettledInv, Settled
<1> QED BY <1>1, <1>2, <1>4 DEF IInv

\* What both ways to allocate leave as it was: a block goes, at most, to a smaller
\* one at its own end and a new one, and stays behind the last module.
LEMMA AllocatedKeeps ==
  ASSUME IInv, pc \in {"ents", "data"}, pc' \in {"data", "up"},
         UNCHANGED <<given, mmap, mods, fblk, i, upto, sum, wiped>>,
         blks' \in [Slots -> Blocks], InUse \subseteq InUse',
         \A s \in Slots : /\ blks'[s].type = "INVALID" => blks'[s].sz = 0
                          /\ blks'[s].sz = 0 /\ s # fblk => blks'[s].type = "INVALID",
         \A s \in Slots : /\ blks'[s].type \in {"FREE", "HEAP"} => blks'[s].addr >= upto
                          /\ blks'[s].type \in {"KERNEL", "MODULE"} => End(blks'[s]) <= upto,
         End(blks'[fblk]) = End(blks[fblk]),
         \A s \in InUse' : \E u \in InUse : Cells(blks'[s]) \subseteq Cells(blks[u]),
         (\A s, u \in InUse : s # u => Cells(blks[s]) \cap Cells(blks[u]) = {})
           => \A s, u \in InUse' : s # u => Cells(blks'[s]) \cap Cells(blks'[u]) = {}
  PROVE  IInv'
<1>1. Fixed'
  BY DEF IInv, Fixed, TypeOK
<1>2. ScanInv' /\ BlocksInv' /\ ModsInv' /\ EachOnce'
  BY DEF ScanInv, BlocksInv, ModsInv, EachOnce
<1>3. Settled /\ Gap' = Gap /\ R' = R
  BY DEF Settled, Gap, R
<1>4. /\ Valid(Types \ {"INVALID"}) = InUse
      /\ Valid(Types \ {"INVALID"})' = InUse'
  BY DEF Valid, InUse, Blocks, IInv, Fixed, TypeOK
<1>5. OverreachIsGap'
  BY <1>3 DEF IInv, SettledInv, BlocksApart, OverreachIsGap, R, Settled, End
<1>6. ApartWhenPacked'
  <2> SUFFICES ASSUME Gap = 0
               PROVE  /\ \A s, u \in InUse' : s # u => Cells(blks'[s]) \cap Cells(blks'[u]) = {}
                      /\ \A s \in InUse' :
                           \E k \in DOMAIN given : Cells(blks'[s]) \subseteq Cells(given[k])
    BY <1>3, <1>4 DEF ApartWhenPacked
  <2>1. /\ \A s, u \in InUse : s # u => Cells(blks[s]) \cap Cells(blks[u]) = {}
        /\ \A s \in InUse : \E k \in DOMAIN given : Cells(blks[s]) \subseteq Cells(given[k])
    BY <1>3, <1>4 DEF IInv, SettledInv, BlocksApart, ApartWhenPacked
  <2> QED BY <2>1
<1>7. SettledInv'
  BY <1>3, <1>5, <1>6 DEF IInv, SettledInv, BlocksApart, Settled
<1> QED BY <1>1, <1>2, <1>7 DEF IInv

LEMMA AllocWholeKeeps ==
  ASSUME IInv, pc \in {"ents", "data"}, pc' \in {"data", "up"}, NEW sz \in Nat \ {0},
         AllocWhole(sz), UNCHANGED <<given, mmap, mods, fblk, i, upto, sum, wiped>>
  PROVE  IInv'
<1> DEFINE s0 == Min(Fits(sz))
<1>1. Fits(sz) # {} /\ blks[s0].sz = sz /\ blks' = [blks EXCEPT ![s0].type = "HEAP"]
  BY DEF AllocWhole
<1>2. s0 \in Slots /\ blks[s0].type = "FREE" /\ blks \in [Slots -> Blocks]
  <2>1. s0 \in Fits(sz)
    BY <1>1, MinIs DEF Fits, Slots
  <2> QED BY <2>1 DEF Fits, IInv, Fixed, TypeOK
<1> HIDE DEF s0
<1>3. /\ \A s \in Slots \ {s0} : blks'[s] = blks[s]
      /\ blks'[s0].addr = blks[s0].addr /\ blks'[s0].sz = sz /\ blks'[s0].type = "HEAP"
      /\ blks'[s0] \in Blocks
  BY <1>1, <1>2 DEF Blocks, Types
<1>4. blks' \in [Slots -> Blocks]
  <2>1. blks' = [s \in Slots |-> IF s = s0 THEN blks'[s0] ELSE blks[s]]
    BY <1>1, <1>2
  <2> QED BY <1>2, <1>3, <2>1
<1>5. \A s \in Slots : Cells(blks'[s]) = Cells(blks[s]) /\ End(blks'[s]) = End(blks[s])
  BY <1>1, <1>2, <1>3 DEF Cells, End
<1>6. InUse' = InUse
  BY <1>2, <1>3 DEF InUse
<1>7. \A s \in Slots : /\ blks'[s].type = "INVALID" => blks'[s].sz = 0
                       /\ blks'[s].sz = 0 /\ s # fblk => blks'[s].type = "INVALID"
  BY <1>3 DEF IInv, Fixed, TypeOK
<1>8. \A s \in Slots : /\ blks'[s].type \in {"FREE", "HEAP"} => blks'[s].addr >= upto
                       /\ blks'[s].type \in {"KERNEL", "MODULE"} => End(blks'[s]) <= upto
  BY <1>2, <1>3 DEF IInv, SettledInv, Settled
<1>9. fblk \in Slots /\ InUse \subseteq Slots
  BY DEF IInv, SettledInv, Settled, InUse
<1> QED BY <1>4, <1>5, <1>6, <1>7, <1>8, <1>9, AllocatedKeeps

LEMMA AllocSplitKeeps ==
  ASSUME IInv, pc \in {"ents", "data"}, pc' \in {"data", "up"}, NEW sz \in Nat \ {0},
         AllocSplit(sz), UNCHANGED <<given, mmap, mods, fblk, i, upto, sum, wiped>>
  PROVE  IInv'
<1> DEFINE s0 == Min(Fits(sz))
           lo == blks[s0].addr
           b  == Block(lo, sz, "HEAP")
<1>1. /\ Fits(sz) # {} /\ blks[s0].sz > sz /\ Free(blks) # {}
      /\ blks' = [Mapped(blks, b) EXCEPT ![s0].addr = @ + sz, ![s0].sz = @ - sz]
  BY DEF AllocSplit
<1>2. s0 \in Slots /\ blks[s0].type = "FREE" /\ blks \in [Slots -> Blocks]
  <2>1. Fits(sz) \subseteq Nat
    BY DEF Fits, Slots
  <2>2. s0 \in Fits(sz)
    BY <1>1, <2>1, MinIs
  <2> QED BY <2>2 DEF Fits, IInv, Fixed, TypeOK
<1> HIDE DEF s0
<1>3. /\ lo \in Nat /\ b \in Blocks /\ b.type = "HEAP" /\ b.sz = sz /\ b.addr = lo
  BY <1>2 DEF Block, Blocks, Types
<1> HIDE DEF b
<1>4. PICK n \in Slots : blks[n].type = "INVALID" /\ Mapped(blks, b) = [blks EXCEPT ![n] = b]
  BY <1>1, <1>2, <1>3, MappedIs
<1>5. n # s0
  BY <1>2, <1>4
<1> DEFINE t == [blks EXCEPT ![n] = b]
<1>6. t \in [Slots -> Blocks] /\ t[s0] = blks[s0] /\ t[n] = b
  BY <1>2, <1>3, <1>4, <1>5
<1>7. \A s \in Slots \ {n} : t[s] = blks[s]
  BY <1>2, <1>4
<1>8. blks' = [t EXCEPT ![s0].addr = @ + sz, ![s0].sz = @ - sz]
  BY <1>1, <1>4
<1> HIDE DEF t, lo
<1>9. /\ \A s \in Slots \ {n, s0} : blks'[s] = blks[s]
      /\ blks'[n] = b
  BY <1>2, <1>4, <1>5, <1>6, <1>7, <1>8
<1>10. /\ blks'[s0].addr = lo + sz /\ blks'[s0].sz = blks[s0].sz - sz
       /\ blks'[s0].type = "FREE" /\ blks'[s0] \in Blocks
  <2>1. blks'[s0] = [[blks[s0] EXCEPT !.addr = @ + sz] EXCEPT !.sz = @ - sz]
    BY <1>2, <1>6, <1>8
  <2>2. blks[s0] \in [addr : Nat, sz : Nat, type : Types]
    BY <1>2 DEF Blocks
  <2> DEFINE m == [blks[s0] EXCEPT !.addr = @ + sz]
  <2>3. /\ m \in [addr : Nat, sz : Nat, type : Types] /\ m.addr = blks[s0].addr + sz
        /\ m.sz = blks[s0].sz /\ m.type = blks[s0].type
    BY <2>2
  <2> HIDE DEF m
  <2>4. /\ blks'[s0] = [m EXCEPT !.sz = @ - sz] /\ m.sz - sz \in Nat
    BY <1>1, <2>1, <2>2, <2>3 DEF m
  <2> QED BY <1>2, <2>3, <2>4 DEF Blocks, lo
<1>11. blks' \in [Slots -> Blocks]
  <2>1. blks' = [s \in Slots |-> blks'[s]]
    BY <1>6, <1>8
  <2>2. \A s \in Slots : blks'[s] \in Blocks
    BY <1>2, <1>3, <1>9, <1>10
  <2> QED BY <2>1, <2>2
<1>12. InUse' = InUse \cup {n} /\ n \notin InUse /\ s0 \in InUse /\ InUse \subseteq Slots
  BY <1>2, <1>3, <1>4, <1>5, <1>9, <1>10 DEF InUse
<1>13. /\ blks[s0].sz \in Nat /\ blks[s0].sz > sz /\ blks'[s0].sz # 0 /\ lo = blks[s0].addr
       /\ End(blks'[s0]) = End(blks[s0]) /\ lo >= upto /\ upto \in Nat
  <2>1. blks[s0].sz \in Nat /\ lo = blks[s0].addr /\ lo >= upto /\ upto \in Nat
    BY <1>2 DEF lo, Blocks, IInv, Fixed, TypeOK, SettledInv, Settled
  <2> QED BY <1>1, <1>3, <1>10, <2>1 DEF End
<1>14. \A s \in Slots : /\ blks'[s].type = "INVALID" => blks'[s].sz = 0
                        /\ blks'[s].sz = 0 /\ s # fblk => blks'[s].type = "INVALID"
  BY <1>3, <1>9, <1>10, <1>13 DEF IInv, Fixed, TypeOK
<1>15. \A s \in Slots : /\ blks'[s].type \in {"FREE", "HEAP"} => blks'[s].addr >= upto
                        /\ blks'[s].type \in {"KERNEL", "MODULE"} => End(blks'[s]) <= upto
  <2>1. \A s \in Slots \ {n, s0} :
          /\ blks'[s].type \in {"FREE", "HEAP"} => blks'[s].addr >= upto
          /\ blks'[s].type \in {"KERNEL", "MODULE"} => End(blks'[s]) <= upto
    BY <1>9 DEF IInv, SettledInv, Settled
  <2>2. blks'[s0].addr >= upto /\ blks'[n].addr >= upto
    BY <1>3, <1>9, <1>10, <1>13
  <2> QED BY <1>3, <1>9, <1>10, <2>1, <2>2
<1>16. fblk \in InUse /\ End(blks'[fblk]) = End(blks[fblk])
  <2>1. fblk \in InUse
    BY DEF IInv, SettledInv, Settled
  <2> QED BY <1>9, <1>12, <1>13, <2>1
<1>17. /\ Cells(b) \subseteq Cells(blks[s0]) /\ Cells(blks'[s0]) \subseteq Cells(blks[s0])
       /\ Cells(b) \cap Cells(blks'[s0]) = {}
  <2> DEFINE z == blks[s0].sz
  <2>1. /\ Cells(b) = lo .. lo + sz - 1 /\ Cells(blks[s0]) = lo .. lo + z - 1
        /\ Cells(blks'[s0]) = lo + sz .. lo + sz + (z - sz) - 1
    BY <1>3, <1>10, <1>13 DEF Cells
  <2>2. z \in Nat /\ z > sz
    BY <1>13
  <2> HIDE DEF z
  <2> QED BY <1>3, <2>1, <2>2
<1>18. \A s \in InUse' : \E u \in InUse : Cells(blks'[s]) \subseteq Cells(blks[u])
  <2>1. \A s \in InUse \ {s0} : blks'[s] = blks[s]
    BY <1>9, <1>12
  <2> QED BY <1>9, <1>12, <1>17, <2>1
<1>19. ASSUME \A s, u \in InUse : s # u => Cells(blks[s]) \cap Cells(blks[u]) = {}
       PROVE  \A s, u \in InUse' : s # u => Cells(blks'[s]) \cap Cells(blks'[u]) = {}
  <2>1. \A s \in InUse \ {s0} : /\ blks'[s] = blks[s]
                                /\ Cells(blks[s]) \cap Cells(blks[s0]) = {}
    BY <1>9, <1>12, <1>19
  <2>2. \A s \in InUse \ {s0} : /\ Cells(blks'[s]) \cap Cells(blks'[s0]) = {}
                                /\ Cells(blks'[s]) \cap Cells(blks'[n]) = {}
    BY <1>9, <1>17, <2>1
  <2>3. Cells(blks'[n]) \cap Cells(blks'[s0]) = {}
    BY <1>9, <1>17
  <2>4. \A s \in InUse' : s = n \/ s = s0 \/ s \in InUse \ {s0}
    BY <1>12
  <2>5. \A s, u \in InUse \ {s0} : s # u => Cells(blks'[s]) \cap Cells(blks'[u]) = {}
    BY <1>19, <2>1
  <2> QED BY <2>2, <2>3, <2>4, <2>5
<1>20. InUse \subseteq InUse'
  BY <1>12
<1> QED BY <1>11, <1>14, <1>15, <1>16, <1>18, <1>19, <1>20, AllocatedKeeps

LEMMA DivLess ==
  ASSUME NEW a \in Nat, NEW s \in Nat \ {0} PROVE a \div s \in Nat /\ a \div s <= a
<1>1. a \div s \in Int /\ s * (a \div s) <= a /\ 0 <= a \div s
  OBVIOUS
<1> DEFINE q == a \div s
<1>2. s * q <= a /\ q \in Nat
  BY <1>1
<1> HIDE DEF q
<1>3. q <= s * q
  BY <1>2
<1>4. s * q \in Nat
  BY <1>2
<1> QED BY <1>2, <1>3, <1>4 DEF q

\* What the heap asks for is a size.
LEMMA HeapSizeIs == ASSUME IInv PROVE HeapSize \in Nat
<1> DEFINE S == {a \in 1 .. Limit : a = Limit \/ a \notin Ram}
<1>1. Limit \in Nat \ {0} /\ Share \in Nat \ {0}
  <2>1. R \in Entries /\ End(R) < Limit
    BY RegionIs DEF IInv
  <2> QED BY <2>1, MemMgrAssumption DEF Entries, Blocks, End
<1>2. Limit \in S /\ S \subseteq Nat
  BY <1>1
<1> HIDE DEF S
<1>3. Min(S) \in Nat
  BY <1>2, MinIs
<1>4. Installed = Min(S) % Limit
  BY DEF Installed, S
<1>5. Installed \in Nat
  BY <1>1, <1>3, <1>4
<1> QED BY <1>1, <1>5, DivLess DEF HeapSize

LEMMA HeapKeeps == ASSUME IInv, HeapEnts \/ HeapData PROVE IInv'
<1>1. CASE HeapEnts
  <2>1. EntsSize \in Nat \ {0}
    BY MemMgrAssumption
  <2> QED BY <1>1, <2>1, AllocSplitKeeps, AllocWholeKeeps DEF HeapEnts
<1>2. CASE HeapData
  <2>1. HeapSize \in Nat \ {0}
    BY <1>2, HeapSizeIs DEF HeapData
  <2> QED BY <1>2, <2>1, AllocSplitKeeps, AllocWholeKeeps DEF HeapData
<1> QED BY <1>1, <1>2

LEMMA StutterKeeps == ASSUME IInv, UNCHANGED vars PROVE IInv'
<1>1. Fixed'
  BY DEF IInv, Fixed, TypeOK, vars
<1>2. /\ InUse' = InUse /\ Done' = Done /\ R' = R /\ Reach' = Reach /\ Skipped' = Skipped
      /\ OneKernel' = OneKernel /\ BlocksApart' = BlocksApart /\ EachOnce' = EachOnce
      /\ \A s : BlockIs(s)' = BlockIs(s)
  BY DEF vars, InUse, Done, R, Reach, Skipped, OneKernel, BlocksApart, OverreachIsGap,
         ApartWhenPacked, Gap, Valid, EachOnce, BlockIs, Settled
<1>3. ScanInv' /\ ModsInv'
  BY <1>2 DEF IInv, ScanInv, ModsInv, vars
<1>4. BlocksInv' /\ SettledInv'
  BY <1>2 DEF IInv, BlocksInv, SettledInv, Settled, vars
<1> QED BY <1>1, <1>2, <1>3, <1>4 DEF IInv

LEMMA NextKeeps == IInv /\ [Next]_vars => IInv'
<1> SUFFICES ASSUME IInv, [Next]_vars PROVE IInv'
  OBVIOUS
<1>1. CASE ScanSkip \/ ScanKernel \/ ScanOther
  BY <1>1, ScanSkipKeeps, ScanKernelKeeps, ScanOtherKeeps
<1>2. CASE ScanFull \/ ModsFull \/ HeapRefused
  BY <1>2, HaltKeeps DEF ScanFull, ModsFull, HeapRefused
<1>3. CASE ModsStart \/ ModMap \/ ModsEnd
  BY <1>3, ModsStartKeeps, ModMapKeeps, ModsEndKeeps
<1>4. CASE ZeroFill \/ ZeroEnd
  BY <1>4, ZeroFillKeeps, ZeroEndKeeps
<1>5. CASE HeapEnts \/ HeapData
  BY <1>5, HeapKeeps
<1>6. CASE UNCHANGED vars
  BY <1>6, StutterKeeps
<1> QED BY <1>1, <1>2, <1>3, <1>4, <1>5, <1>6 DEF Next

LEMMA AlwaysIInv == Spec => []IInv
  BY InitInv, NextKeeps, PTL DEF Spec

-----------------------------------------------------------------------------
(* The theorems.                                                           *)

\* Every block, the map and the scan's place keep their types (memmgr.c:4-8).
THEOREM TypeCorrect == Spec => []TypeOK
<1>1. IInv => TypeOK
  BY DEF IInv, Fixed
<1> QED BY <1>1, AlwaysIInv, PTL

\* Whatever the map's order, each wanted region is mapped exactly once, and the scan
\* of the modules starts with the free block behind the kernel (memmgr.c:16-32).
THEOREM RegionsOnce == Spec => []EachOnce
<1>1. IInv => EachOnce
  BY DEF IInv
<1> QED BY <1>1, AlwaysIInv, PTL

\* The free block ends beyond its region by the gaps before the modules; if there are
\* none, no two blocks overlap and none leaves the memory reported (memmgr.c:37-50).
THEOREM BoundsOfBlocks == Spec => []BlocksApart
<1>1. ASSUME IInv PROVE BlocksApart
  <2>1. CASE Settled
    BY <1>1, <2>1 DEF IInv, SettledInv
  <2>2. CASE ~Settled
    BY <2>2 DEF BlocksApart, OverreachIsGap, ApartWhenPacked
  <2> QED BY <2>1, <2>2
<1> QED BY <1>1, AlwaysIInv, PTL

\* Neither the heap, nor what it may still get, nor the zero-fill reaches the kernel
\* or a module, although the free block and the zero-fill overrun (memmgr.c:37-76).
THEOREM ModulesSpared == Spec => []HeapClear
<1>1. ASSUME IInv PROVE HeapClear
  <2> SUFFICES ASSUME Settled, NEW u \in Valid({"KERNEL", "MODULE"})
               PROVE  /\ \A s \in Valid({"FREE", "HEAP"}) : Cells(blks[s]) \cap Cells(blks[u]) = {}
                      /\ \A a \in wiped : a \div Parts \notin Cells(blks[u])
    BY DEF HeapClear
  <2>1. /\ u \in Slots /\ blks[u] \in Blocks /\ End(blks[u]) <= upto /\ upto \in Nat
        /\ Parts \in Nat \ {0} /\ wiped \subseteq Nat
    BY <1>1, MemMgrAssumption DEF Valid, IInv, Fixed, TypeOK, SettledInv
  <2>2. ASSUME NEW s \in Valid({"FREE", "HEAP"})
        PROVE  Cells(blks[s]) \cap Cells(blks[u]) = {}
    <3>1. blks[s] \in Blocks /\ blks[s].addr >= upto
      BY <1>1 DEF Valid, IInv, Fixed, TypeOK, SettledInv
    <3> QED BY <2>1, <3>1 DEF Cells, End, Blocks
  <2>3. ASSUME NEW a \in wiped PROVE a \div Parts \notin Cells(blks[u])
    <3>1. a \in Nat /\ a >= Parts * upto
      BY <1>1, <2>1 DEF IInv, SettledInv
    <3>2. a \div Parts >= upto
      BY <2>1, <3>1
    <3> QED BY <2>1, <3>1, <3>2, DivLess DEF Cells, End, Blocks
  <2> QED BY <2>2, <2>3
<1> QED BY <1>1, AlwaysIInv, PTL
=============================================================================
