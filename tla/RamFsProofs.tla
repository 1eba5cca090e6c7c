---------------------------- MODULE RamFsProofs ----------------------------
(***************************************************************************)
(* Proofs about the RAM disk, for any names, contents, table size, data    *)
(* area and header, and any number of editor threads.                      *)
(***************************************************************************)
EXTENDS RamFs, TLAPS

-----------------------------------------------------------------------------
(* Facts about images.                                                     *)

LEMMA BlankTypes == NoTable \in Table /\ ZeroArea \in Area /\ <<>> \in Wants
<1>1. Zero \in Bytes
  BY RamFsAssumption DEF Zero
<1>2. QED
  BY <1>1 DEF NoTable, ZeroArea, Table, Area, Wants, EntryType

LEMMA BlankHolds == Holds(NoTable, ZeroArea, <<>>)
BY DEF Holds, NoTable

\* A new file goes into the slot behind the last one.
LEMMA NextIndexFact ==
  ASSUME TypeOK, Holds(table, area, want), NEW i \in Slots, NextIndex(i)
  PROVE  i = Len(want) + 1
<1>1. Len(want) \in Nat /\ DOMAIN want = 1 .. Len(want)
  BY DEF TypeOK, Wants
<1>2. \A j \in Slots : table[j] # Nothing <=> j \in 1 .. Len(want)
  BY <1>1 DEF Holds
<1>3. i \notin 1 .. Len(want)
  BY <1>2 DEF NextIndex
<1>4. Len(want) + 1 \in Slots
  BY <1>1, <1>3, RamFsAssumption DEF Slots
<1>5. i <= Len(want) + 1
  BY <1>1, <1>2, <1>4 DEF NextIndex
<1>6. QED
  BY <1>1, <1>3, <1>5 DEF Slots

LEMMA CapacityNat == Capacity \in Nat
BY RamFsAssumption DEF Capacity

\* What is in the area already stays where it is, and the new bytes are behind.
LEMMA StoredFacts ==
  ASSUME area \in Area, pos \in 0 .. Capacity, NEW c \in Seq(Bytes),
         pos + Len(c) <= Capacity
  PROVE  /\ Stored(c) \in Area
         /\ \A k \in 0 .. pos - 1 : Stored(c)[k] = area[k]
         /\ \A k \in 1 .. Len(c) : Stored(c)[pos + k - 1] = c[k]
<1>1. Len(c) \in Nat /\ pos \in Nat /\ Capacity \in Nat
      /\ DOMAIN area = 0 .. Capacity - 1
  BY CapacityNat DEF Area
<1>2. \A k \in DOMAIN area : k >= pos /\ k < pos + Len(c) => c[k - pos + 1] \in Bytes
  BY <1>1
<1>3. Stored(c) \in Area
  BY <1>1, <1>2 DEF Stored, Area
<1>4. \A k \in 0 .. pos - 1 : Stored(c)[k] = area[k]
  BY <1>1 DEF Stored
<1>5. ASSUME NEW k \in 1 .. Len(c) PROVE Stored(c)[pos + k - 1] = c[k]
  <2>1. /\ pos + k - 1 \in DOMAIN area /\ pos + k - 1 >= pos
        /\ pos + k - 1 < pos + Len(c) /\ (pos + k - 1) - pos + 1 = k
    BY <1>1
  <2>2. QED
    BY <2>1 DEF Stored
<1>6. QED
  BY <1>3, <1>4, <1>5

-----------------------------------------------------------------------------
(* The writer's half of the invariant.                                     *)

\* Every import so far is in memory, in front of DataPosition.
Built == /\ Holds(table, area, want)
         /\ \A i \in DOMAIN want : table[i].offset + table[i].size <= pos

LEMMA AddFileBuilt ==
  ASSUME TypeOK, Built, NEW n \in Names, NEW c \in Contents, AddFile(n, c)
  PROVE  /\ table' \in Table /\ area' \in Area /\ want' \in Wants
         /\ pos' \in 0 .. Capacity
         /\ Built'
<1>1. c \in Seq(Bytes) /\ Len(c) \in Nat /\ Capacity \in Nat /\ pos \in Nat
  BY RamFsAssumption, CapacityNat DEF TypeOK
<1>2. PICK i \in Slots : NextIndex(i) /\ table' = [table EXCEPT ![i] = Entry(n, c)]
  BY DEF AddFile
<1>3. i = Len(want) + 1 /\ Len(want) \in Nat /\ DOMAIN want = 1 .. Len(want)
  BY <1>2, NextIndexFact DEF TypeOK, Wants, Built
<1>4. want' = Append(want, [name |-> n, content |-> c])
  BY DEF AddFile, Asked
<1>5. /\ want' \in Wants /\ Len(want') = i /\ DOMAIN want' = 1 .. i
      /\ \A j \in DOMAIN want : want'[j] = want[j]
      /\ want'[i] = [name |-> n, content |-> c]
  BY <1>3, <1>4 DEF TypeOK, Wants
<1>6. Entry(n, c) \in [name : Names, offset : Nat, size : Nat]
  BY <1>1 DEF Entry
<1>7. /\ table' \in Table /\ table'[i] = Entry(n, c) /\ Entry(n, c) # Nothing
      /\ \A j \in Slots \ {i} : table'[j] = table[j]
  BY <1>2, <1>6, RamFsAssumption DEF TypeOK, Table, EntryType
<1>8. pos' = pos + Len(c) /\ pos + Len(c) <= Capacity /\ area' = Stored(c)
  BY DEF AddFile
<1>9. /\ area' \in Area
      /\ \A k \in 0 .. pos - 1 : area'[k] = area[k]
      /\ \A k \in 1 .. Len(c) : area'[pos + k - 1] = c[k]
  BY <1>1, <1>8, StoredFacts DEF TypeOK
<1>10. DOMAIN want' = {j \in Slots : table'[j] # Nothing}
  <2>1. DOMAIN want = {j \in Slots : table[j] # Nothing}
    BY DEF Built, Holds
  <2>2. DOMAIN want' = DOMAIN want \cup {i}
    BY <1>3, <1>5
  <2>3. QED
    BY <1>7, <2>1, <2>2
<1>11. ASSUME NEW j \in DOMAIN want'
       PROVE  /\ table'[j].name = want'[j].name
              /\ table'[j].size = Len(want'[j].content)
              /\ table'[j].offset + table'[j].size <= pos'
              /\ \A k \in 1 .. table'[j].size :
                   area'[table'[j].offset + k - 1] = want'[j].content[k]
  <2>1. CASE j = i
    BY <2>1, <1>1, <1>5, <1>7, <1>8, <1>9 DEF Entry
  <2>2. CASE j # i
    <3>1. j \in DOMAIN want /\ j \in Slots /\ want'[j] = want[j]
          /\ table'[j] = table[j]
      BY <2>2, <1>3, <1>5, <1>7 DEF Built, Holds
    <3>2. /\ table[j] \in [name : Names, offset : Nat, size : Nat]
          /\ table[j].offset \in Nat /\ table[j].size \in Nat
      BY <3>1 DEF Built, Holds, TypeOK, Table, EntryType
    <3>3. table[j].offset + table[j].size <= pos
      BY <3>1 DEF Built
    <3>4. ASSUME NEW k \in 1 .. table[j].size
          PROVE  area'[table[j].offset + k - 1] = want[j].content[k]
      <4>1. table[j].offset + k - 1 \in 0 .. pos - 1
        BY <3>2, <3>3, <1>1
      <4>2. QED
        BY <3>1, <4>1, <1>9 DEF Built, Holds
    <3>5. table[j].name = want[j].name /\ table[j].size = Len(want[j].content)
      BY <3>1 DEF Built, Holds
    <3>6. QED
      BY <3>1, <3>2, <3>3, <3>4, <3>5, <1>1, <1>8
  <2>3. QED
    BY <2>1, <2>2
<1>12. ASSUME NEW j \in DOMAIN want'
       PROVE  table'[j].offset + table'[j].size <= Capacity
  <2>1. table'[j].offset \in Nat /\ table'[j].size \in Nat
    BY <1>7, <1>10 DEF Table, EntryType
  <2>2. QED
    BY <2>1, <1>1, <1>8, <1>11
<1>13. QED
  <2>1. pos' \in 0 .. Capacity
    BY <1>1, <1>8
  <2>2. Holds(table', area', want')
    BY <1>10, <1>11, <1>12 DEF Holds
  <2>3. Built'
    BY <1>11, <2>2 DEF Built
  <2>4. QED
    BY <1>5, <1>7, <1>9, <2>1, <2>3

-----------------------------------------------------------------------------
(* The inductive invariant.                                                *)

\* c is the content of the first file in w under the name n.
FirstUnder(w, n, c) ==
  \E i \in DOMAIN w : /\ w[i].name = n
                      /\ \A j \in DOMAIN w : w[j].name = n => i <= j
                      /\ c = w[i].content

\* The bytes in the area a that the entry f points at.
BytesOf(a, f) == [k \in 1 .. f.size |-> a[f.offset + k - 1]]

\* Only the shell reads; what it has open is the file it asked for.
ReadersRight ==
  /\ ~booted => \A r \in Readers : pc[r] = "idle"
  /\ \A r \in Readers :
       /\ pc[r] \notin {"idle", "missing", "exists"} => r = Shell
       /\ data[r] # Nothing => pc[r] \in {"read", "closed"}
  /\ pc[Shell] = "view" =>
       FirstUnder(disk.want, asked[Shell], BytesOf(disk.area, file[Shell]))

\* What a reader has allocated at each of its steps.
Due == [idle |-> {}, missing |-> {}, view |-> {"file", "name"},
        exists |-> {"file", "name"}, read |-> {"file", "name", "data"},
        closed |-> {"data"}, list |-> {"list", "names"}, dir |-> {"dir", "label"}]
HeldRight == \A r \in Readers : held[r] = Due[pc[r]]

IInv == Built /\ SavedComplete /\ ReadersRight /\ HeldRight /\ ViewRight

\* What a reader finds under a name is what was imported first under it.
LEMMA OpenedFacts ==
  ASSUME TypeOK, SavedComplete, NEW n \in Names, NEW i \in Opened(n)
  PROVE  /\ disk.table[i] \in EntryType
         /\ FirstUnder(disk.want, n, BytesOf(disk.area, disk.table[i]))
<1>1. /\ disk.table \in Table /\ disk.area \in Area /\ disk.want \in Wants
  BY DEF TypeOK
<1>2. /\ i \in Slots /\ disk.table[i] # Nothing /\ disk.table[i].name = n
      /\ \A j \in Slots :
           disk.table[j] # Nothing /\ disk.table[j].name = n => i <= j
  BY DEF Opened
<1>3. /\ DOMAIN disk.want = {j \in Slots : disk.table[j] # Nothing}
      /\ \A j \in DOMAIN disk.want : disk.table[j].name = disk.want[j].name
  BY DEF SavedComplete, Holds
<1>4. i \in DOMAIN disk.want /\ disk.want[i].name = n
  BY <1>2, <1>3
<1>5. \A j \in DOMAIN disk.want : disk.want[j].name = n => i <= j
  BY <1>2, <1>3
<1>6. disk.want[i] \in [name : Names, content : Contents]
  <2>1. ASSUME NEW S, NEW w \in Seq(S), NEW j \in DOMAIN w PROVE w[j] \in S
    OBVIOUS
  <2>2. QED
    BY <1>1, <1>4, <2>1 DEF Wants
<1>7. disk.want[i].content \in Contents /\ disk.want[i].content \in Seq(Bytes)
  BY <1>6, RamFsAssumption
<1>8. BytesOf(disk.area, disk.table[i]) = disk.want[i].content
  <2>1. /\ disk.table[i].size = Len(disk.want[i].content)
        /\ \A k \in 1 .. disk.table[i].size :
             disk.area[disk.table[i].offset + k - 1] = disk.want[i].content[k]
    BY <1>4 DEF SavedComplete, Holds
  <2>2. BytesOf(disk.area, disk.table[i])
          = [k \in 1 .. Len(disk.want[i].content) |-> disk.want[i].content[k]]
    BY <2>1 DEF BytesOf
  <2>3. \A c \in Seq(Bytes) : [k \in 1 .. Len(c) |-> c[k]] = c
    OBVIOUS
  <2>4. QED
    BY <1>7, <2>2, <2>3
<1>9. QED
  BY <1>1, <1>2, <1>4, <1>5, <1>8 DEF Table, FirstUnder

-----------------------------------------------------------------------------
(* The writer's steps.                                                     *)

\* Nobody reads before the machine has started.
LEMMA ReadersSleep ==
  ASSUME TypeOK, IInv, ~booted, UNCHANGED <<booted, readerVars, halted>>
  PROVE  /\ ReadersRight' /\ HeldRight' /\ ViewRight'
         /\ \A r \in Readers : data[r] = Nothing
<1>1. \A r \in Readers : pc[r] = "idle"
  BY DEF IInv, ReadersRight
<1>2. Shell \in Readers
  BY DEF Readers
<1>3. \A r \in Readers : data[r] = Nothing
  BY <1>1 DEF IInv, ReadersRight
<1>4. pc' = pc /\ held' = held /\ data' = data
  BY DEF readerVars
<1>5. ReadersRight' /\ HeldRight' /\ ViewRight'
  BY <1>1, <1>2, <1>3, <1>4 DEF ReadersRight, HeldRight, ViewRight, IInv
<1>6. QED
  BY <1>3, <1>5

LEMMA EndBuilt ==
  ASSUME NEW c \in {"none", "success", "failure"}, End(c)
  PROVE  /\ tool' \in {"running", "ended"} /\ code' \in {"none", "success", "failure"}
         /\ pos' \in 0 .. Capacity
         /\ table' \in Table /\ area' \in Area /\ want' \in Wants
         /\ Built'
<1>1. /\ table' = NoTable /\ area' = ZeroArea /\ want' = <<>> /\ pos' = 0
      /\ tool' = "ended" /\ code' = c
  BY DEF End
<1>2. Built'
  BY <1>1, BlankHolds DEF Built
<1>3. QED
  BY <1>1, <1>2, BlankTypes, CapacityNat

LEMMA WriterStep ==
  ASSUME TypeOK, IInv, Writer
  PROVE  TypeOK' /\ IInv'
<1>1. CASE \E n \in Names, c \in Contents : AddFile(n, c)
  <2>1. PICK n \in Names, c \in Contents : AddFile(n, c)
    BY <1>1
  <2>2. /\ ~booted /\ UNCHANGED <<tool, code, fresh, disk, booted, readerVars, halted>>
    BY <2>1 DEF AddFile, Writing
  <2>3. /\ table' \in Table /\ area' \in Area /\ want' \in Wants
        /\ pos' \in 0 .. Capacity /\ Built'
    BY <2>1, AddFileBuilt DEF IInv
  <2>4. TypeOK'
    BY <2>2, <2>3 DEF TypeOK, readerVars
  <2>5. SavedComplete'
    BY <2>2 DEF IInv, SavedComplete
  <2>6. QED
    BY <2>2, <2>3, <2>4, <2>5, ReadersSleep DEF IInv
<1>2. CASE \E n \in Names, c \in Contents : AddFileNoRoom(n, c) \/ ImportRefused(n, c)
  <2>1. PICK c \in {"none", "success", "failure"} : End(c)
    BY <1>2 DEF AddFileNoRoom, ImportRefused
  <2>2. ~booted /\ UNCHANGED <<fresh, disk, booted, readerVars, halted>>
    BY <1>2 DEF AddFileNoRoom, ImportRefused, Writing
  <2>3. TypeOK'
    BY <2>1, <2>2, EndBuilt DEF TypeOK, readerVars
  <2>4. SavedComplete'
    BY <2>2 DEF IInv, SavedComplete
  <2>5. QED
    BY <2>1, <2>2, <2>3, <2>4, EndBuilt, ReadersSleep DEF IInv
<1>3. CASE SaveImage
  <2>1. /\ ~booted /\ End("success") /\ UNCHANGED <<booted, readerVars, halted>>
        /\ disk' = [table |-> table, area |-> area, want |-> want] /\ fresh' = TRUE
    BY <1>3 DEF SaveImage, Writing
  <2>2. TypeOK'
    BY <2>1, EndBuilt DEF TypeOK, readerVars
  <2>3. SavedComplete'
    BY <2>1 DEF IInv, Built, SavedComplete
  <2>4. QED
    BY <2>1, <2>2, <2>3, EndBuilt, ReadersSleep DEF IInv
<1>4. CASE Restart
  <2>1. /\ ~booted /\ UNCHANGED <<memVars, disk, booted, readerVars, halted>>
        /\ tool' = "running" /\ code' = "none" /\ fresh' = FALSE
    BY <1>4 DEF Restart
  <2>2. TypeOK'
    BY <2>1 DEF TypeOK, readerVars, memVars
  <2>3. SavedComplete'
    BY <2>1 DEF IInv, SavedComplete
  <2>4. Built'
    BY <2>1 DEF IInv, Built, Holds, memVars
  <2>5. QED
    BY <2>1, <2>2, <2>3, <2>4, ReadersSleep DEF IInv
<1>5. QED
  BY <1>1, <1>2, <1>3, <1>4 DEF Writer

-----------------------------------------------------------------------------
(* The readers' steps.                                                     *)

\* The image never changes under a reader, and nothing is written.
LEMMA ImageStays ==
  ASSUME IInv, UNCHANGED <<toolVars, disk, booted>>
  PROVE  /\ Built' /\ SavedComplete'
<1>1. /\ table' = table /\ area' = area /\ want' = want /\ pos' = pos
      /\ disk' = disk
  BY DEF toolVars, memVars
<1>2. Built' /\ SavedComplete'
  BY <1>1 DEF IInv, Built, Holds, SavedComplete
<1>3. QED
  BY <1>2

\* How far a reader's step reaches: one reader r, from one step to another.
Moves(r, from, to) ==
  /\ pc[r] = from /\ from \in Steps /\ to \in Steps
  /\ pc' = [pc EXCEPT ![r] = to]
  /\ UNCHANGED <<toolVars, disk, booted>>
  /\ booted

LEMMA Dues == /\ DOMAIN Due = Steps
              /\ \A s \in Steps : Due[s] \in SUBSET Tags
              /\ Due["idle"] = {} /\ Due["missing"] = {} /\ Due["closed"] = {"data"}
              /\ Due["list"] = {"list", "names"} /\ Due["dir"] = {"dir", "label"}
              /\ Due["view"] = {"file", "name"} /\ Due["exists"] = {"file", "name"}
              /\ Due["read"] = {"file", "name", "data"}
BY DEF Due, Steps, Tags

\* The step is right if what the reader holds fits where it goes.
LEMMA HeldMoves ==
  ASSUME TypeOK, IInv, NEW r \in Readers, NEW from, NEW to, Moves(r, from, to),
         held' = [held EXCEPT ![r] = Due[to]]
  PROVE  HeldRight' /\ held' \in [Readers -> SUBSET Tags] /\ pc' \in [Readers -> Steps]
<1>1. pc' = [pc EXCEPT ![r] = to] /\ pc \in [Readers -> Steps] /\ to \in Steps
  BY DEF Moves, TypeOK
<1>2. held \in [Readers -> SUBSET Tags] /\ Due[to] \in SUBSET Tags
  BY <1>1, Dues DEF TypeOK
<1>3. \A q \in Readers : held'[q] = Due[pc'[q]]
  BY <1>1, <1>2 DEF IInv, HeldRight, TypeOK
<1>4. QED
  BY <1>1, <1>2, <1>3 DEF HeldRight

\* A step that reads nothing and opens nothing for cmd_view.
LEMMA QuietMove ==
  ASSUME TypeOK, IInv, NEW r \in Readers, NEW from, NEW to, Moves(r, from, to),
         from \notin {"read", "closed"}, to \notin {"view", "read", "closed"},
         to \notin {"idle", "missing", "exists"} => r = Shell,
         \A q \in Readers \ {r} : file'[q] = file[q] /\ asked'[q] = asked[q],
         data' = data
  PROVE  ReadersRight' /\ ViewRight'
<1>1. /\ pc' = [pc EXCEPT ![r] = to] /\ pc \in [Readers -> Steps]
      /\ booted' = booted /\ booted /\ disk' = disk /\ pc[r] = from
  BY DEF Moves, TypeOK
<1>2. Shell \in Readers
  BY DEF Readers
<1>3. pc'[r] = to /\ \A q \in Readers \ {r} : pc'[q] = pc[q]
  BY <1>1
<1>4. CASE r = Shell
  <2>1. pc'[Shell] \notin {"view", "read", "closed"}
    BY <1>3, <1>4
  <2>2. QED
    BY <1>1, <1>3, <1>4, <2>1 DEF IInv, ReadersRight, ViewRight
<1>5. CASE r # Shell
  <2>1. /\ pc'[Shell] = pc[Shell] /\ file'[Shell] = file[Shell]
        /\ asked'[Shell] = asked[Shell]
    BY <1>2, <1>3, <1>5
  <2>5. ViewRight'
    BY <1>1, <2>1 DEF IInv, ViewRight
  <2>6. /\ ~booted' => \A q \in Readers : pc'[q] = "idle"
        /\ \A q \in Readers :
             /\ pc'[q] \notin {"idle", "missing", "exists"} => q = Shell
             /\ data'[q] # Nothing => pc'[q] \in {"read", "closed"}
    BY <1>1, <1>3 DEF IInv, ReadersRight
  <2>7. QED
    BY <1>1, <2>1, <2>5, <2>6 DEF IInv, ReadersRight
<1>6. QED
  BY <1>4, <1>5

LEMMA FirstUnderType ==
  ASSUME NEW w \in Wants, NEW n, NEW c, FirstUnder(w, n, c)
  PROVE  c \in Contents
<1>1. ASSUME NEW S, NEW s \in Seq(S), NEW j \in DOMAIN s PROVE s[j] \in S
  OBVIOUS
<1>2. PICK i \in DOMAIN w : c = w[i].content
  BY DEF FirstUnder
<1>3. w[i] \in [name : Names, content : Contents]
  BY <1>1, <1>2 DEF Wants
<1>4. QED
  BY <1>2, <1>3

\* What is left to show of a reader's step.
LEMMA ReaderTypes ==
  ASSUME TypeOK, IInv, UNCHANGED <<toolVars, disk, booted>>,
         halted' \in BOOLEAN,
         pc' \in [Readers -> Steps], file' \in [Readers -> EntryType],
         asked' \in [Readers -> Names \cup {Nothing}],
         data' \in [Readers -> Contents \cup {Nothing}],
         held' \in [Readers -> SUBSET Tags],
         HeldRight', ReadersRight', ViewRight'
  PROVE  TypeOK' /\ IInv'
<1>1. Built' /\ SavedComplete'
  BY ImageStays
<1>2. TypeOK'
  BY DEF TypeOK, toolVars, memVars
<1>3. QED
  BY <1>1, <1>2 DEF IInv

LEMMA OpenStep ==
  ASSUME TypeOK, IInv, NEW r \in Readers, NEW n \in Names, NEW use \in {"view", "exists"},
         use = "view" => r = Shell, Open(r, n, use)
  PROVE  TypeOK' /\ IInv'
<1>1. PICK i \in Opened(n) : file' = [file EXCEPT ![r] = disk.table[i]]
  BY DEF Open
<1>2. /\ disk.table[i] \in EntryType
      /\ FirstUnder(disk.want, n, BytesOf(disk.area, disk.table[i]))
  BY OpenedFacts DEF IInv
<1>3. /\ asked' = [asked EXCEPT ![r] = n] /\ data' = data /\ halted' = halted
      /\ Moves(r, "idle", use)
  BY DEF Open, At, MayRun, Moves, Steps
<1>4. held[r] = {} /\ pc[r] = "idle"
  BY <1>3 DEF IInv, HeldRight, Due, Moves
<1>5. held' = [held EXCEPT ![r] = Due[use]]
  <2>1. held' = [held EXCEPT ![r] = {"file", "name"}]
    BY <1>4 DEF Open, Allocate, TypeOK
  <2>2. QED
    BY <2>1, Dues
<1>6. HeldRight' /\ held' \in [Readers -> SUBSET Tags] /\ pc' \in [Readers -> Steps]
  BY <1>3, <1>5, HeldMoves
<1>7. /\ file' \in [Readers -> EntryType]
      /\ asked' \in [Readers -> Names \cup {Nothing}]
      /\ data' \in [Readers -> Contents \cup {Nothing}]
  BY <1>1, <1>2, <1>3 DEF TypeOK
<1>8. ReadersRight' /\ ViewRight'
  <2>1. CASE use = "exists"
    <3>1. \A q \in Readers \ {r} : file'[q] = file[q] /\ asked'[q] = asked[q]
      BY <1>1, <1>3 DEF TypeOK
    <3>2. QED
      BY <1>3, <2>1, <3>1, QuietMove
  <2>2. CASE use = "view"
    <3>1. r = Shell /\ Shell \in Readers
      BY <2>2
    <3>2. /\ pc' = [pc EXCEPT ![Shell] = "view"] /\ pc \in [Readers -> Steps]
          /\ file \in [Readers -> EntryType] /\ asked \in [Readers -> Names \cup {Nothing}]
          /\ booted' = booted /\ booted /\ disk' = disk
      BY <1>3, <2>2, <3>1 DEF Moves, TypeOK
    <3>3. pc'[Shell] = "view" /\ file'[Shell] = disk.table[i] /\ asked'[Shell] = n
      BY <1>1, <1>3, <3>1, <3>2
    <3>4. \A q \in Readers :
            /\ pc'[q] \notin {"idle", "missing", "exists"} => q = Shell
            /\ data'[q] # Nothing => pc'[q] \in {"read", "closed"}
      <4>1. data[Shell] = Nothing
        BY <1>4, <3>1 DEF IInv, ReadersRight
      <4>2. QED
        BY <1>3, <3>2, <4>1 DEF IInv, ReadersRight
    <3>5. FirstUnder(disk'.want, asked'[Shell], BytesOf(disk'.area, file'[Shell]))
      BY <1>2, <3>2, <3>3
    <3>6. ReadersRight'
      BY <3>2, <3>4, <3>5 DEF ReadersRight
    <3>7. ViewRight'
      BY <3>3 DEF ViewRight
    <3>8. QED
      BY <3>6, <3>7
  <2>3. QED
    BY <2>1, <2>2
<1>9. QED
  BY <1>3, <1>6, <1>7, <1>8, ReaderTypes DEF Moves, TypeOK

\* The steps that touch neither an open file nor what was read.
LEMMA PlainStep ==
  ASSUME TypeOK, IInv, NEW r \in Readers, NEW from \in {"idle", "missing", "list", "dir"},
         NEW to \in {"idle", "missing", "list", "dir"}, Moves(r, from, to),
         to \in {"list", "dir"} => r = Shell,
         held' = [held EXCEPT ![r] = Due[to]],
         UNCHANGED <<file, asked, data, halted>>
  PROVE  TypeOK' /\ IInv'
<1>1. HeldRight' /\ held' \in [Readers -> SUBSET Tags] /\ pc' \in [Readers -> Steps]
  BY HeldMoves
<1>2. ReadersRight' /\ ViewRight'
  BY QuietMove
<1>3. UNCHANGED <<toolVars, disk, booted>>
  BY DEF Moves
<1>4. QED
  BY <1>1, <1>2, <1>3, ReaderTypes DEF TypeOK

LEMMA ExistsCloseStep ==
  ASSUME TypeOK, IInv, NEW r \in Readers, ExistsClose(r)
  PROVE  TypeOK' /\ IInv'
<1>1. /\ file' = [file EXCEPT ![r] = Nothing] /\ asked' = [asked EXCEPT ![r] = Nothing]
      /\ data' = data /\ halted' = halted /\ Moves(r, "exists", "idle")
  BY DEF ExistsClose, CloseFile, At, MayRun, Moves, Steps
<1>2. held[r] = {"file", "name"}
  BY <1>1 DEF IInv, HeldRight, Due, Moves
<1>3. held' = [held EXCEPT ![r] = Due["idle"]]
  <2>1. held' = [held EXCEPT ![r] = {}]
    BY <1>2 DEF ExistsClose, CloseFile, Release, TypeOK
  <2>2. QED
    BY <2>1, Dues
<1>4. HeldRight' /\ held' \in [Readers -> SUBSET Tags] /\ pc' \in [Readers -> Steps]
  BY <1>1, <1>3, HeldMoves
<1>5. \A q \in Readers \ {r} : file'[q] = file[q] /\ asked'[q] = asked[q]
  BY <1>1 DEF TypeOK
<1>6. ReadersRight' /\ ViewRight'
  BY <1>1, <1>5, QuietMove
<1>7. /\ file' \in [Readers -> EntryType] /\ asked' \in [Readers -> Names \cup {Nothing}]
      /\ data' \in [Readers -> Contents \cup {Nothing}] /\ halted' \in BOOLEAN
  BY <1>1 DEF TypeOK, EntryType
<1>8. QED
  BY <1>1, <1>4, <1>6, <1>7, ReaderTypes DEF Moves

LEMMA ViewReadStep ==
  ASSUME TypeOK, IInv, ViewRead
  PROVE  /\ TypeOK' /\ IInv'
         /\ \E n \in Names : FirstUnder(disk.want, n, data'[Shell])
<1>1. /\ data' = [data EXCEPT ![Shell] = ReadAt(file[Shell])]
      /\ file' = file /\ asked' = asked /\ halted' = halted
      /\ Moves(Shell, "view", "read") /\ Shell \in Readers
  BY DEF ViewRead, At, MayRun, Moves, Steps, Readers
<1>2. /\ pc' = [pc EXCEPT ![Shell] = "read"] /\ pc \in [Readers -> Steps]
      /\ pc[Shell] = "view"
      /\ data \in [Readers -> Contents \cup {Nothing}]
      /\ booted' = booted /\ booted /\ disk' = disk
  BY <1>1 DEF Moves, TypeOK
<1>3. /\ data'[Shell] = BytesOf(disk.area, file[Shell])
      /\ \A q \in Readers \ {Shell} : data'[q] = data[q]
  BY <1>1, <1>2 DEF ReadAt, BytesOf
<1>4. FirstUnder(disk.want, asked[Shell], data'[Shell])
  BY <1>2, <1>3 DEF IInv, ReadersRight
<1>5. data'[Shell] \in Contents
  BY <1>4, FirstUnderType DEF TypeOK
<1>6. data' \in [Readers -> Contents \cup {Nothing}]
  BY <1>1, <1>2, <1>3, <1>5
<1>7. held[Shell] = {"file", "name"}
  BY <1>1, <1>2, Dues DEF IInv, HeldRight
<1>8. held' = [held EXCEPT ![Shell] = Due["read"]]
  <2>1. held' = [held EXCEPT ![Shell] = {"file", "name", "data"}]
    BY <1>1, <1>7 DEF ViewRead, Allocate, TypeOK
  <2>2. QED
    BY <2>1, Dues
<1>9. HeldRight' /\ held' \in [Readers -> SUBSET Tags] /\ pc' \in [Readers -> Steps]
  BY <1>1, <1>8, HeldMoves
<1>10. pc'[Shell] = "read" /\ \A q \in Readers \ {Shell} : pc'[q] = pc[q]
  BY <1>1, <1>2
<1>11. ReadersRight'
  BY <1>1, <1>2, <1>3, <1>10 DEF IInv, ReadersRight
<1>12. ViewRight'
  BY <1>1, <1>2, <1>4 DEF ViewRight, FirstUnder
<1>13. asked[Shell] \in Names
  <2>1. PICK i \in DOMAIN disk.want : disk.want[i].name = asked[Shell]
    BY <1>4 DEF FirstUnder
  <2>2. ASSUME NEW S, NEW s \in Seq(S), NEW j \in DOMAIN s PROVE s[j] \in S
    OBVIOUS
  <2>3. disk.want[i] \in [name : Names, content : Contents]
    BY <2>1, <2>2 DEF TypeOK, Wants
  <2>4. QED
    BY <2>1, <2>3
<1>14. TypeOK' /\ IInv'
  BY <1>1, <1>6, <1>9, <1>11, <1>12, ReaderTypes DEF Moves, TypeOK
<1>15. QED
  BY <1>4, <1>13, <1>14

LEMMA ViewCloseStep ==
  ASSUME TypeOK, IInv, ViewClose
  PROVE  TypeOK' /\ IInv'
<1>1. /\ file' = [file EXCEPT ![Shell] = Nothing]
      /\ data' = data /\ asked' = asked /\ halted' = halted
      /\ Moves(Shell, "read", "closed") /\ Shell \in Readers
  BY DEF ViewClose, CloseFile, At, MayRun, Moves, Steps, Readers
<1>2. /\ pc' = [pc EXCEPT ![Shell] = "closed"] /\ pc \in [Readers -> Steps]
      /\ pc[Shell] = "read"
      /\ booted' = booted /\ booted /\ disk' = disk
  BY <1>1 DEF Moves, TypeOK
<1>3. held[Shell] = {"file", "name", "data"}
  BY <1>1, <1>2, Dues DEF IInv, HeldRight
<1>4. held' = [held EXCEPT ![Shell] = Due["closed"]]
  <2>1. held' = [held EXCEPT ![Shell] = {"data"}]
    BY <1>1, <1>3 DEF ViewClose, CloseFile, Release, TypeOK
  <2>2. QED
    BY <2>1, Dues
<1>5. HeldRight' /\ held' \in [Readers -> SUBSET Tags] /\ pc' \in [Readers -> Steps]
  BY <1>1, <1>4, HeldMoves
<1>6. pc'[Shell] = "closed" /\ \A q \in Readers \ {Shell} : pc'[q] = pc[q]
  BY <1>1, <1>2
<1>7. ReadersRight'
  BY <1>1, <1>2, <1>6 DEF IInv, ReadersRight
<1>8. ViewRight'
  BY <1>1, <1>2 DEF IInv, ViewRight
<1>9. file' \in [Readers -> EntryType]
  BY <1>1 DEF TypeOK, EntryType
<1>10. QED
  BY <1>1, <1>5, <1>7, <1>8, <1>9, ReaderTypes DEF Moves, TypeOK

LEMMA ViewDoneStep ==
  ASSUME TypeOK, IInv, ViewDone
  PROVE  TypeOK' /\ IInv'
<1>1. /\ data' = [data EXCEPT ![Shell] = Nothing]
      /\ asked' = [asked EXCEPT ![Shell] = Nothing]
      /\ file' = file /\ halted' = halted
      /\ Moves(Shell, "closed", "idle") /\ Shell \in Readers
  BY DEF ViewDone, At, MayRun, Moves, Steps, Readers
<1>2. /\ pc' = [pc EXCEPT ![Shell] = "idle"] /\ pc \in [Readers -> Steps]
      /\ pc[Shell] = "closed"
      /\ data \in [Readers -> Contents \cup {Nothing}]
      /\ booted' = booted /\ booted /\ disk' = disk
  BY <1>1 DEF Moves, TypeOK
<1>3. held[Shell] = {"data"}
  BY <1>1, <1>2, Dues DEF IInv, HeldRight
<1>4. held' = [held EXCEPT ![Shell] = Due["idle"]]
  <2>1. held' = [held EXCEPT ![Shell] = {}]
    BY <1>1, <1>3 DEF ViewDone, Release, TypeOK
  <2>2. QED
    BY <2>1, Dues
<1>5. HeldRight' /\ held' \in [Readers -> SUBSET Tags] /\ pc' \in [Readers -> Steps]
  BY <1>1, <1>4, HeldMoves
<1>6. pc'[Shell] = "idle" /\ \A q \in Readers \ {Shell} : pc'[q] = pc[q]
  BY <1>1, <1>2
<1>7. data'[Shell] = Nothing /\ \A q \in Readers \ {Shell} : data'[q] = data[q]
  BY <1>1, <1>2
<1>8. ReadersRight'
  BY <1>1, <1>2, <1>6, <1>7 DEF IInv, ReadersRight
<1>9. ViewRight'
  BY <1>6 DEF ViewRight
<1>10. /\ data' \in [Readers -> Contents \cup {Nothing}]
       /\ asked' \in [Readers -> Names \cup {Nothing}]
  BY <1>1 DEF TypeOK
<1>11. QED
  BY <1>1, <1>5, <1>8, <1>9, <1>10, ReaderTypes DEF Moves, TypeOK

\* The commands that read no file, and a file that is not there.
LEMMA OtherStep ==
  ASSUME TypeOK, IInv,
         \/ \E r \in Readers, n \in Names \cup {Nothing} : OpenFails(r, n)
         \/ \E r \in Readers : Report(r)
         \/ LsRoot \/ LsDone \/ CdRoot \/ CdDone
  PROVE  TypeOK' /\ IInv'
<1>0. Shell \in Readers
  BY DEF Readers
<1>1. /\ \A r \in Readers : held[r] = Due[pc[r]]
      /\ held \in [Readers -> SUBSET Tags]
  BY DEF IInv, HeldRight, TypeOK
<1>2. CASE \E r \in Readers, n \in Names \cup {Nothing} : OpenFails(r, n)
  <2>1. PICK r \in Readers, n \in Names \cup {Nothing} : OpenFails(r, n)
    BY <1>2
  <2>2. Moves(r, "idle", "missing") /\ UNCHANGED <<file, asked, data, held, halted>>
    BY <2>1 DEF OpenFails, At, MayRun, Moves, Steps
  <2>3. held[r] = {}
    BY <1>1, <2>2, Dues DEF Moves
  <2>4. held' = [held EXCEPT ![r] = Due["missing"]]
    BY <1>1, <2>2, <2>3, Dues
  <2>5. QED
    BY <2>2, <2>4, PlainStep
<1>3. CASE \E r \in Readers : Report(r)
  <2>1. PICK r \in Readers : Report(r)
    BY <1>3
  <2>2. Moves(r, "missing", "idle") /\ UNCHANGED <<file, asked, data, held, halted>>
    BY <2>1 DEF Report, At, MayRun, Moves, Steps
  <2>3. held[r] = {}
    BY <1>1, <2>2, Dues DEF Moves
  <2>4. held' = [held EXCEPT ![r] = Due["idle"]]
    BY <1>1, <2>2, <2>3, Dues
  <2>5. QED
    BY <2>2, <2>4, PlainStep
<1>4. CASE LsRoot
  <2>1. Moves(Shell, "idle", "list") /\ UNCHANGED <<file, asked, data, halted>>
    BY <1>4 DEF LsRoot, At, MayRun, Moves, Steps
  <2>2. held[Shell] = {}
    BY <1>0, <1>1, <2>1, Dues DEF Moves
  <2>3. held' = [held EXCEPT ![Shell] = {"list", "names"}]
    BY <1>0, <1>1, <1>4, <2>2 DEF LsRoot, Allocate
  <2>4. held' = [held EXCEPT ![Shell] = Due["list"]]
    BY <2>3, Dues
  <2>5. QED
    BY <1>0, <2>1, <2>4, PlainStep
<1>5. CASE LsDone
  <2>1. Moves(Shell, "list", "idle") /\ UNCHANGED <<file, asked, data, halted>>
    BY <1>5 DEF LsDone, At, MayRun, Moves, Steps
  <2>2. held[Shell] = {"list", "names"}
    BY <1>0, <1>1, <2>1, Dues DEF Moves
  <2>3. held' = [held EXCEPT ![Shell] = {}]
    BY <1>0, <1>1, <1>5, <2>2 DEF LsDone, Release
  <2>4. held' = [held EXCEPT ![Shell] = Due["idle"]]
    BY <2>3, Dues
  <2>5. QED
    BY <1>0, <2>1, <2>4, PlainStep
<1>6. CASE CdRoot
  <2>1. Moves(Shell, "idle", "dir") /\ UNCHANGED <<file, asked, data, halted>>
    BY <1>6 DEF CdRoot, At, MayRun, Moves, Steps
  <2>2. held[Shell] = {}
    BY <1>0, <1>1, <2>1, Dues DEF Moves
  <2>3. held' = [held EXCEPT ![Shell] = {"dir", "label"}]
    BY <1>0, <1>1, <1>6, <2>2 DEF CdRoot, Allocate
  <2>4. held' = [held EXCEPT ![Shell] = Due["dir"]]
    BY <2>3, Dues
  <2>5. QED
    BY <1>0, <2>1, <2>4, PlainStep
<1>7. CASE CdDone
  <2>1. Moves(Shell, "dir", "idle") /\ UNCHANGED <<file, asked, data, halted>>
    BY <1>7 DEF CdDone, At, MayRun, Moves, Steps
  <2>2. held[Shell] = {"dir", "label"}
    BY <1>0, <1>1, <2>1, Dues DEF Moves
  <2>3. held' = [held EXCEPT ![Shell] = {}]
    BY <1>0, <1>1, <1>7, <2>2 DEF CdDone, Release
  <2>4. held' = [held EXCEPT ![Shell] = Due["idle"]]
    BY <2>3, Dues
  <2>5. QED
    BY <1>0, <2>1, <2>4, PlainStep
<1>8. QED
  BY <1>2, <1>3, <1>4, <1>5, <1>6, <1>7

\* The kernel stops, and nothing else happens.
LEMMA HaltStep ==
  ASSUME TypeOK, IInv, LsOther
  PROVE  TypeOK' /\ IInv'
<1>1. UNCHANGED <<toolVars, disk, booted, readerVars>> /\ halted' = TRUE
  BY DEF LsOther
<1>2. UNCHANGED <<toolVars, disk, booted, pc, file, asked, data, held>>
  BY <1>1 DEF readerVars
<1>3. HeldRight' /\ ReadersRight' /\ ViewRight'
  BY <1>2 DEF IInv, HeldRight, ReadersRight, ViewRight
<1>4. QED
  BY <1>1, <1>2, <1>3, ReaderTypes DEF TypeOK

LEMMA ReaderStep ==
  ASSUME TypeOK, IInv, Reader
  PROVE  TypeOK' /\ IInv'
<1>1. CASE \E n \in Names : Open(Shell, n, "view")
  <2>1. Shell \in Readers
    BY DEF Readers
  <2>2. QED
    BY <1>1, <2>1, OpenStep
<1>2. CASE \E n \in Names, r \in Readers : Open(r, n, "exists")
  BY <1>2, OpenStep
<1>3. CASE \E r \in Readers : ExistsClose(r)
  BY <1>3, ExistsCloseStep
<1>4. QED
  BY <1>1, <1>2, <1>3, OtherStep, HaltStep, ViewReadStep, ViewCloseStep,
     ViewDoneStep DEF Reader

LEMMA BootStep ==
  ASSUME TypeOK, IInv, Boot
  PROVE  TypeOK' /\ IInv'
<1>1. UNCHANGED <<toolVars, disk, readerVars, halted>> /\ booted' = TRUE
  BY DEF Boot
<1>2. UNCHANGED <<toolVars, disk, pc, file, asked, data, held, halted>>
  BY <1>1 DEF readerVars
<1>3. HeldRight' /\ ReadersRight' /\ ViewRight'
  BY <1>1, <1>2 DEF IInv, HeldRight, ReadersRight, ViewRight
<1>4. Built' /\ SavedComplete'
  BY <1>2 DEF IInv, Built, Holds, SavedComplete, toolVars, memVars
<1>5. TypeOK'
  BY <1>1, <1>2 DEF TypeOK, toolVars, memVars
<1>6. QED
  BY <1>3, <1>4, <1>5 DEF IInv

-----------------------------------------------------------------------------
(* The theorems.                                                           *)

LEMMA InitIInv == Init => TypeOK /\ IInv
<1> SUFFICES ASSUME Init PROVE TypeOK /\ IInv
  OBVIOUS
<1>2. Built /\ SavedComplete
  <2>1. /\ table = NoTable /\ area = ZeroArea /\ want = <<>>
        /\ disk.table = NoTable /\ disk.area = ZeroArea /\ disk.want = <<>>
    BY DEF Init
  <2>2. QED
    BY <2>1, BlankHolds DEF Built, SavedComplete
<1>3. ReadersRight /\ ViewRight
  <2>1. Shell \in Readers /\ \A r \in Readers : pc[r] = "idle" /\ data[r] = Nothing
    BY DEF Init, Readers
  <2>2. QED
    BY <2>1 DEF ReadersRight, ViewRight
<1>4. HeldRight
  <2>1. \A r \in Readers : pc[r] = "idle" /\ held[r] = {}
    BY DEF Init
  <2>2. QED
    BY <2>1, Dues DEF HeldRight
<1>5. TypeOK
  <2>1. /\ table \in Table /\ area \in Area /\ want \in Wants
        /\ disk \in [table : Table, area : Area, want : Wants]
    BY BlankTypes DEF Init
  <2>2. pos \in 0 .. Capacity
    BY CapacityNat DEF Init
  <2>3. pc \in [Readers -> Steps] /\ file \in [Readers -> EntryType]
    BY DEF Init, Steps, EntryType
  <2>4. /\ asked \in [Readers -> Names \cup {Nothing}]
        /\ data \in [Readers -> Contents \cup {Nothing}]
        /\ held \in [Readers -> SUBSET Tags]
    BY DEF Init
  <2>5. QED
    BY <2>1, <2>2, <2>3, <2>4 DEF Init, TypeOK
<1>6. QED
  BY <1>2, <1>3, <1>4, <1>5 DEF IInv

LEMMA NextIInv == TypeOK /\ IInv /\ [Next]_vars => TypeOK' /\ IInv'
<1> SUFFICES ASSUME TypeOK, IInv, [Next]_vars PROVE TypeOK' /\ IInv'
  OBVIOUS
<1>2. CASE UNCHANGED vars
  <2>1. UNCHANGED <<toolVars, disk, booted, readerVars, halted>>
    BY <1>2 DEF vars
  <2>2. UNCHANGED <<toolVars, disk, booted, pc, file, asked, data, held, halted>>
    BY <2>1 DEF readerVars
  <2>3. HeldRight' /\ ReadersRight' /\ ViewRight'
    BY <2>2 DEF IInv, HeldRight, ReadersRight, ViewRight
  <2>4. QED
    BY <2>2, <2>3, ReaderTypes DEF TypeOK
<1>3. QED
  BY <1>2, WriterStep, ReaderStep, BootStep DEF Next

LEMMA Invariant == Spec => [](TypeOK /\ IInv)
BY InitIInv, NextIInv, PTL DEF Spec

\* The variables keep their types, for every number of files, every size of the
\* data area and of the header, and every number of editors: DataPosition never
\* leaves the area that was allocated (RAMFS.cs:146-149).
THEOREM TypeCorrect == Spec => []TypeOK
BY Invariant, PTL

\* Every image that is written holds every import of its run, with its own
\* bytes, whatever failed on the way (RAMFS.cs:139-153, Program.cs:23-34).
THEOREM ImagesComplete == Spec => []SavedComplete
<1>1. IInv => SavedComplete
  BY DEF IInv
<1>2. QED
  BY <1>1, Invariant, PTL

\* cmd_view reads the content of the first file imported under the name it
\* was given (ramfs.c:13-22, virtfs.c:73-116, commands.c:116-130).
THEOREM ReadersGetWhatWasWritten == Spec => []ViewRight
<1>1. IInv => ViewRight
  BY DEF IInv
<1>2. QED
  BY <1>1, Invariant, PTL

\* No command keeps memory, on its error paths either (virtfs.c:84-133,
\* commands.c:57-130).
THEOREM NoLeak == Spec => []NothingHeld
<1>1. IInv => NothingHeld
  BY Dues DEF IInv, HeldRight, NothingHeld
<1>2. QED
  BY <1>1, Invariant, PTL

-----------------------------------------------------------------------------
(* RamFs implements FileMap.                                               *)

LEMMA FMVars == UNCHANGED <<want, disk, data>> => UNCHANGED FM!fmVars
BY DEF FM!fmVars

LEMMA WriterMaps == TypeOK /\ IInv /\ Writer => [FM!Next]_(FM!fmVars)
<1> SUFFICES ASSUME TypeOK, IInv, Writer PROVE [FM!Next]_(FM!fmVars)
  OBVIOUS
<1>1. CASE \E n \in Names, c \in Contents : AddFile(n, c)
  <2>1. PICK n \in Names, c \in Contents : AddFile(n, c)
    BY <1>1
  <2>2. want' = Append(want, [name |-> n, content |-> c]) /\ disk' = disk /\ data' = data
    BY <2>1 DEF AddFile, Asked, readerVars
  <2>3. FM!Put
    BY <2>2 DEF FM!Put
  <2>4. QED
    BY <2>3 DEF FM!Next
<1>2. CASE \E n \in Names, c \in Contents : AddFileNoRoom(n, c) \/ ImportRefused(n, c)
  <2>1. want' = <<>> /\ disk' = disk /\ data' = data
    BY <1>2 DEF AddFileNoRoom, ImportRefused, End, readerVars
  <2>2. FM!Discard
    BY <2>1 DEF FM!Discard
  <2>3. QED
    BY <2>2 DEF FM!Next
<1>3. CASE SaveImage
  <2>1. /\ ~booted /\ want # <<>> /\ disk'.want = want /\ want' = <<>> /\ data' = data
        /\ UNCHANGED <<booted, readerVars, halted>>
    BY <1>3 DEF SaveImage, Writing, End, readerVars
  <2>2. \A r \in Readers : data[r] = Nothing
    BY <2>1, ReadersSleep
  <2>3. FM!Publish
    BY <2>1, <2>2 DEF FM!Publish
  <2>4. QED
    BY <2>3 DEF FM!Next
<1>4. CASE Restart
  <2>1. UNCHANGED <<want, disk, data>>
    BY <1>4 DEF Restart, memVars, readerVars
  <2>2. QED
    BY <2>1, FMVars
<1>5. QED
  BY <1>1, <1>2, <1>3, <1>4 DEF Writer

LEMMA ReaderMaps == TypeOK /\ IInv /\ Reader => [FM!Next]_(FM!fmVars)
<1> SUFFICES ASSUME TypeOK, IInv, Reader PROVE [FM!Next]_(FM!fmVars)
  OBVIOUS
<1>0. Shell \in Readers
  BY DEF Readers
<1>1. CASE ViewRead
  <2>1. /\ data' = [data EXCEPT ![Shell] = ReadAt(file[Shell])]
        /\ want' = want /\ disk' = disk /\ pc[Shell] = "view"
    BY <1>1 DEF ViewRead, At, toolVars, memVars
  <2>2. data[Shell] = Nothing
    BY <1>0, <2>1 DEF IInv, ReadersRight
  <2>3. PICK n \in Names : FirstUnder(disk.want, n, data'[Shell])
    BY <1>1, ViewReadStep
  <2>4. PICK i \in DOMAIN disk.want :
          /\ FM!FirstOf(disk.want, n, i) /\ data'[Shell] = disk.want[i].content
    BY <2>3 DEF FirstUnder, FM!FirstOf
  <2>5. data' = [data EXCEPT ![Shell] = disk.want[i].content]
    BY <1>0, <2>1, <2>4 DEF TypeOK
  <2>6. FM!Answer(Shell)
    BY <2>1, <2>2, <2>4, <2>5 DEF FM!Answer
  <2>7. QED
    BY <1>0, <2>6 DEF FM!Next
<1>2. CASE ViewDone
  <2>1. /\ data' = [data EXCEPT ![Shell] = Nothing]
        /\ want' = want /\ disk' = disk
    BY <1>2 DEF ViewDone, toolVars, memVars
  <2>2. FM!Forget(Shell)
    BY <2>1 DEF FM!Forget
  <2>3. QED
    BY <1>0, <2>2 DEF FM!Next
<1>3. CASE ~ViewRead /\ ~ViewDone
  <2>1. UNCHANGED <<want, disk, data>>
    BY <1>3 DEF Reader, Open, OpenFails, Report, ExistsClose, ViewClose, LsRoot,
       LsDone, LsOther, CdRoot, CdDone, toolVars, memVars, readerVars
  <2>2. QED
    BY <2>1, FMVars
<1>4. QED
  BY <1>1, <1>2, <1>3

LEMMA StepMaps == TypeOK /\ IInv /\ [Next]_vars => [FM!Next]_(FM!fmVars)
<1> SUFFICES ASSUME TypeOK, IInv, [Next]_vars PROVE [FM!Next]_(FM!fmVars)
  OBVIOUS
<1>1. CASE Boot \/ UNCHANGED vars
  <2>1. UNCHANGED <<want, disk, data>>
    BY <1>1 DEF Boot, vars, toolVars, memVars, readerVars
  <2>2. QED
    BY <2>1, FMVars
<1>2. QED
  BY <1>1, WriterMaps, ReaderMaps DEF Next

\* The writer, the image and the kernel's readers implement FileMap: a run that
\* fails publishes nothing, what is published never changes under a reader, and
\* every answer is the first file of the name (the whole path from RAMFS.cs to
\* cmd_view).
THEOREM Refinement == Spec => ImplementsFileMap
<1>1. Init => FM!Init
  BY DEF Init, FM!Init
<1>2. QED
  BY <1>1, StepMaps, Invariant, PTL DEF Spec, ImplementsFileMap, FM!Spec
=============================================================================
