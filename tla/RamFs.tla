------------------------------- MODULE RamFs -------------------------------
(***************************************************************************)
(* The RAM disk from the program that writes its image (src/RAMFS, C#, on  *)
(* the host, started by src/Builder) to the commands that read it:         *)
(* core/fs/ramfs.c, core/fs/virtfs.c, and the parts of core/commands.c and *)
(* txtedit.c that use them.                                                *)
(*                                                                         *)
(* An image is a header, a table of CountMax entries and a data area.  The *)
(* writer allocates CountMax entries and DataSize bytes, but no room for   *)
(* the header in front of them: the last HdrSize bytes of the data area    *)
(* are not there (Capacity).  Names and bytes are values; the layout of an *)
(* entry, which both sides declare alike, is left out.                     *)
(*                                                                         *)
(* Readers are the shell, whose commands run under its lock, and editor    *)
(* threads, which ask whether a file exists before they take theirs.       *)
(* `want` is history: what the writer was asked to import in this run; so  *)
(* is `fresh`: the last run wrote the image.  `held` names the allocations *)
(* that a reader has not freed yet.                                        *)
(***************************************************************************)
EXTENDS Integers, Sequences, FiniteSets

CONSTANTS
  Names,      \* file names of less than MaxNameLength characters
  Bytes, Contents,
  CountMax, DataSize, HdrSize,
  Shell, Editors,
  Nothing     \* a NULL pointer, a blank entry

Readers  == {Shell} \cup Editors
Slots    == 1 .. CountMax
Capacity == DataSize - HdrSize

ASSUME RamFsAssumption ==
  /\ Bytes # {} /\ CountMax \in Nat /\ DataSize \in Nat /\ HdrSize \in Nat
  /\ HdrSize <= DataSize
  /\ Contents \subseteq Seq(Bytes)
  /\ Nothing \notin Contents /\ Nothing \notin Names
  /\ Nothing \notin [name : Names, offset : Nat, size : Nat]

VARIABLES
  tool,      \* the writer is running, or ended
  code,      \* its exit code
  table,     \* its table: an entry, or Nothing where Name[0] is 0
  pos,       \* Header.DataPosition
  area,      \* the data area
  want, fresh,
  disk,      \* the image file, with no import in it before the first is written
  booted,
  pc,        \* what each reader is doing
  file,      \* its file_t: an entry of the table, or Nothing
  asked,     \* the name it opened the file under
  data,      \* what it read
  held,
  halted     \* debug_exception stopped the kernel

memVars    == <<table, pos, area, want>>
toolVars   == <<tool, code, memVars, fresh>>
readerVars == <<pc, file, asked, data, held>>
vars       == <<toolVars, disk, booted, readerVars, halted>>

Zero      == CHOOSE b \in Bytes : TRUE
NoTable   == [i \in Slots |-> Nothing]
ZeroArea  == [k \in 0 .. Capacity - 1 |-> Zero]
HaveImage == disk.want # <<>>

\* The program is over, and its memory is gone.
End(c) ==
  /\ tool' = "ended" /\ code' = c
  /\ table' = NoTable /\ pos' = 0 /\ area' = ZeroArea /\ want' = <<>>

Init ==
  /\ tool = "running" /\ code = "none" /\ fresh = FALSE
  /\ table = NoTable /\ pos = 0 /\ area = ZeroArea /\ want = <<>>
  /\ disk = [table |-> NoTable, area |-> ZeroArea, want |-> <<>>]
  /\ booted = FALSE /\ halted = FALSE
  /\ pc = [r \in Readers |-> "idle"]
  /\ file = [r \in Readers |-> Nothing]
  /\ asked = [r \in Readers |-> Nothing]
  /\ data = [r \in Readers |-> Nothing]
  /\ held = [r \in Readers |-> {}]

-----------------------------------------------------------------------------
(* The writer.                                                             *)

Writing == tool = "running" /\ ~booted

\* GetNextIndex.
NextIndex(i) ==
  table[i] = Nothing /\ \A j \in Slots : table[j] = Nothing => i <= j

Entry(n, c) == [name |-> n, offset |-> pos, size |-> Len(c)]
Asked(n, c) == want' = Append(want, [name |-> n, content |-> c])

\* Array.Copy of the data behind what is already there.
Stored(c) == [k \in DOMAIN area |-> IF k >= pos /\ k < pos + Len(c)
                                    THEN c[k - pos + 1] ELSE area[k]]

AddFile_KeepPos(n, c) ==
  /\ Writing
  /\ c # <<>> /\ pos + Len(c) <= Capacity
  /\ \E i \in Slots : /\ NextIndex(i)
                      /\ table' = [table EXCEPT ![i] = Entry(n, c)]
  /\ area' = Stored(c)
  /\ Asked(n, c)
  /\ UNCHANGED <<tool, code, pos, fresh, disk, booted, readerVars, halted>>

AddFile_NoBound(n, c) ==
  /\ Writing
  /\ c # <<>>
  /\ \E i \in Slots : /\ NextIndex(i)
                      /\ table' = [table EXCEPT ![i] = Entry(n, c)]
  /\ area' = Stored(c)
  /\ pos' = pos + Len(c)
  /\ Asked(n, c)
  /\ UNCHANGED <<tool, code, fresh, disk, booted, readerVars, halted>>

AddFile(n, c) ==
  /\ Writing
  /\ c # <<>> /\ pos + Len(c) <= Capacity
  /\ \E i \in Slots : /\ NextIndex(i)
                      /\ table' = [table EXCEPT ![i] = Entry(n, c)]
  /\ area' = Stored(c)
  /\ pos' = pos + Len(c)
  /\ Asked(n, c)
  /\ UNCHANGED <<tool, code, fresh, disk, booted, readerVars, halted>>

\* The entry is written before the data, whose copy throws beyond the end of
\* the image.  Nobody catches it, and the program ends without an image.
AddFileNoRoom(n, c) ==
  /\ Writing
  /\ c # <<>> /\ pos + Len(c) > Capacity
  /\ \E i \in Slots : NextIndex(i)
  /\ End("failure")
  /\ UNCHANGED <<fresh, disk, booted, readerVars, halted>>

\* The file is empty, the table is full, the name is too long, or the source is
\* missing, which can be so for any file: Debug.Error leaves the program, with
\* exit code 0.
ImportRefused_GoesOn(n, c) ==
  /\ Writing
  /\ Asked(n, c)
  /\ UNCHANGED <<tool, code, table, pos, area, fresh, disk, booted, readerVars,
                 halted>>

ImportRefused(n, c) ==
  /\ Writing
  /\ End("success")
  /\ UNCHANGED <<fresh, disk, booted, readerVars, halted>>

\* Main's last step: the image is what is in memory.
SaveImage ==
  /\ Writing /\ want # <<>>
  /\ disk' = [table |-> table, area |-> area, want |-> want]
  /\ fresh' = TRUE
  /\ End("success")
  /\ UNCHANGED <<booted, readerVars, halted>>

\* The next build starts it again.
Restart ==
  /\ ~booted /\ tool = "ended"
  /\ tool' = "running" /\ code' = "none" /\ fresh' = FALSE
  /\ UNCHANGED <<memVars, disk, booted, readerVars, halted>>

-----------------------------------------------------------------------------
(* The kernel.                                                             *)

\* The builder looks at the exit code, packs the image file that is there, and
\* starts the machine.  virtfs_init finds the image as the loader's module.
Boot ==
  /\ tool = "ended" /\ code = "success" /\ ~booted
  /\ HaveImage
  /\ booted' = TRUE
  /\ UNCHANGED <<toolVars, disk, readerVars, halted>>

\* The shell is not preempted in a command.
MayRun(r) == /\ booted /\ ~halted
             /\ r = Shell \/ pc[Shell] = "idle"

At(r, from, to) == pc[r] = from /\ pc' = [pc EXCEPT ![r] = to]
Allocate(r, S)  == held' = [held EXCEPT ![r] = @ \cup S]
Release(r, S)   == held' = [held EXCEPT ![r] = @ \ S]

\* ramfs_fopen: the first entry with the name, if there is one.
Opened_Last(n) == {i \in Slots : /\ disk.table[i] # Nothing /\ disk.table[i].name = n
                                 /\ \A j \in Slots :
                                      /\ disk.table[j] # Nothing
                                      /\ disk.table[j].name = n => j <= i}
Opened(n) == {i \in Slots :
                /\ disk.table[i] # Nothing /\ disk.table[i].name = n
                /\ \A j \in Slots :
                     disk.table[j] # Nothing /\ disk.table[j].name = n => i <= j}

\* virtfs_fopen, for cmd_view and for virtfs_fexists.
Open(r, n, use) ==
  /\ MayRun(r)
  /\ At(r, "idle", use)
  /\ \E i \in Opened(n) : file' = [file EXCEPT ![r] = disk.table[i]]
  /\ asked' = [asked EXCEPT ![r] = n]
  /\ Allocate(r, {"file", "name"})
  /\ UNCHANGED <<toolVars, disk, booted, data, halted>>

\* The file is not there, or the path is none: the command says so.  The
\* virtfs_fclose of cmd_view is given NULL and returns.
OpenFails(r, n) ==
  /\ MayRun(r)
  /\ Opened(n) = {}
  /\ At(r, "idle", "missing")
  /\ UNCHANGED <<toolVars, disk, booted, file, asked, data, held, halted>>

Report(r) ==
  /\ MayRun(r)
  /\ At(r, "missing", "idle")
  /\ UNCHANGED <<toolVars, disk, booted, file, asked, data, held, halted>>

\* virtfs_fread of one element of the file's size.
ReadAt(f) == [k \in 1 .. f.size |-> disk.area[f.offset + k - 1]]

ViewRead ==
  /\ MayRun(Shell)
  /\ At(Shell, "view", "read")
  /\ data' = [data EXCEPT ![Shell] = ReadAt(file[Shell])]
  /\ Allocate(Shell, {"data"})
  /\ UNCHANGED <<toolVars, disk, booted, file, asked, halted>>

\* virtfs_fclose.
CloseFile_KeepName(r) ==
  /\ file' = [file EXCEPT ![r] = Nothing]
  /\ Release(r, {"file"})
CloseFile(r) ==
  /\ file' = [file EXCEPT ![r] = Nothing]
  /\ Release(r, {"file", "name"})

ViewClose ==
  /\ MayRun(Shell)
  /\ At(Shell, "read", "closed")
  /\ CloseFile(Shell)
  /\ UNCHANGED <<toolVars, disk, booted, asked, data, halted>>

ViewDone ==
  /\ MayRun(Shell)
  /\ At(Shell, "closed", "idle")
  /\ Release(Shell, {"data"})
  /\ data' = [data EXCEPT ![Shell] = Nothing]
  /\ asked' = [asked EXCEPT ![Shell] = Nothing]
  /\ UNCHANGED <<toolVars, disk, booted, file, halted>>

ExistsClose(r) ==
  /\ MayRun(r)
  /\ At(r, "exists", "idle")
  /\ CloseFile(r)
  /\ asked' = [asked EXCEPT ![r] = Nothing]
  /\ UNCHANGED <<toolVars, disk, booted, data, halted>>

\* cmd_ls of "A:/": the list, and a copy of each name.
LsRoot ==
  /\ MayRun(Shell)
  /\ At(Shell, "idle", "list")
  /\ \E i \in Slots : disk.table[i] # Nothing
  /\ Allocate(Shell, {"list", "names"})
  /\ UNCHANGED <<toolVars, disk, booted, file, asked, data, halted>>

LsDone ==
  /\ MayRun(Shell)
  /\ At(Shell, "list", "idle")
  /\ Release(Shell, {"list", "names"})
  /\ UNCHANGED <<toolVars, disk, booted, file, asked, data, halted>>

\* cmd_ls of any other path, or of an empty image: the list is empty, and its
\* entries, NULL, are freed none the less.
LsOther ==
  /\ MayRun(Shell)
  /\ pc[Shell] = "idle"
  /\ halted' = TRUE
  /\ UNCHANGED <<toolVars, disk, booted, readerVars>>

\* cmd_cd of "A:/" asks virtfs_dexists, which opens and closes it; of any other
\* path it reports that there is no such directory.
CdRoot ==
  /\ MayRun(Shell)
  /\ At(Shell, "idle", "dir")
  /\ Allocate(Shell, {"dir", "label"})
  /\ UNCHANGED <<toolVars, disk, booted, file, asked, data, halted>>

CdDone ==
  /\ MayRun(Shell)
  /\ At(Shell, "dir", "idle")
  /\ Release(Shell, {"dir", "label"})
  /\ UNCHANGED <<toolVars, disk, booted, file, asked, data, halted>>

-----------------------------------------------------------------------------
Writer ==
  \/ \E n \in Names, c \in Contents :
       AddFile(n, c) \/ AddFileNoRoom(n, c) \/ ImportRefused(n, c)
  \/ SaveImage \/ Restart

Reader ==
  \/ \E n \in Names :
       \/ Open(Shell, n, "view")
       \/ \E r \in Readers : Open(r, n, "exists")
  \/ \E r \in Readers, n \in Names \cup {Nothing} : OpenFails(r, n)
  \/ \E r \in Readers : Report(r) \/ ExistsClose(r)
  \/ ViewRead \/ ViewClose \/ ViewDone
  \/ LsRoot \/ LsDone \/ LsOther
  \/ CdRoot \/ CdDone

Next == Writer \/ Boot \/ Reader

Spec == Init /\ [][Next]_vars

-----------------------------------------------------------------------------
(* Properties.                                                             *)

EntryType == [name : Names, offset : Nat, size : Nat] \cup {Nothing}
Table == [Slots -> EntryType]
Area  == [0 .. Capacity - 1 -> Bytes]
Wants == Seq([name : Names, content : Contents])
Steps == {"idle", "view", "read", "closed", "exists", "missing", "list", "dir"}
Tags  == {"file", "name", "data", "list", "names", "dir", "label"}

\* Type invariant.
TypeOK ==
  /\ tool \in {"running", "ended"} /\ code \in {"none", "success", "failure"}
  /\ fresh \in BOOLEAN /\ pos \in 0 .. Capacity
  /\ table \in Table /\ area \in Area /\ want \in Wants
  /\ disk \in [table : Table, area : Area, want : Wants]
  /\ booted \in BOOLEAN /\ halted \in BOOLEAN
  /\ pc \in [Readers -> Steps]
  /\ file \in [Readers -> EntryType]
  /\ asked \in [Readers -> Names \cup {Nothing}]
  /\ data \in [Readers -> Contents \cup {Nothing}]
  /\ held \in [Readers -> SUBSET Tags]

\* What the table and the area say of entry i is what was imported i-th.
Holds(t, a, w) ==
  /\ DOMAIN w = {i \in Slots : t[i] # Nothing}
  /\ \A i \in DOMAIN w :
       /\ t[i].name = w[i].name
       /\ t[i].size = Len(w[i].content)
       /\ t[i].offset + t[i].size <= Capacity
       /\ \A k \in 1 .. t[i].size : a[t[i].offset + k - 1] = w[i].content[k]

\* An image that was saved is complete: every import of the run is in it, with
\* its own bytes, whatever failed, ended or was started again on the way
\* (RAMFS.cs:139-153, Program.cs:29-34).
SavedComplete == Holds(disk.table, disk.area, disk.want)

\* What cmd_view reads is the content of the first file imported under the
\* name: writer and reader agree about the layout, the data area and which of
\* two entries counts (RAMFS.cs:146-149, ramfs.c:13-22, virtfs.c:99-116).
ViewRight ==
  pc[Shell] \in {"read", "closed"} =>
    \E i \in DOMAIN disk.want :
      /\ disk.want[i].name = asked[Shell]
      /\ \A j \in DOMAIN disk.want :
           disk.want[j].name = asked[Shell] => i <= j
      /\ data[Shell] = disk.want[i].content

\* A file can be asked for again and again: between two commands a reader
\* holds no memory, on the paths that fail too (virtfs.c:84-124,
\* commands.c:116-130).
NothingHeld ==
  \A r \in Readers : pc[r] \in {"idle", "missing"} => held[r] = {}

FM == INSTANCE FileMap WITH
        files     <- want,
        published <- disk.want,
        answer    <- data

\* Writer, image and readers together implement the promise of FileMap.
ImplementsFileMap == FM!Spec

\* heap.c:68 asserts that nobody frees NULL.
FreeGetsPointer == ~halted

\* Builder.cs:147 stops the build when the image could not be created, so that
\* the machine never starts with the image of an earlier build.
BootsThisImage == booted => fresh

\* RAMFS.cs:136 announces a file system with room for DataSize bytes.
RoomAsAnnounced ==
  [][\A n \in Names, c \in Contents :
       AddFileNoRoom(n, c) => pos + Len(c) > DataSize]_vars
=============================================================================
