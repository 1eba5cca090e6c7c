-------------------------------- MODULE Ata --------------------------------
(***************************************************************************)
(* The ATA driver of NapalmOS (hal/devices/ata.c) and a drive that answers  *)
(* when it likes. Data are counted in units of 256 bytes, half a sector.    *)
(* Nothing in the kernel calls ata_read and ata_write yet.                  *)
(***************************************************************************)
EXTENDS Integers, Sequences

CONSTANTS
  IndexSize,  \* values of the index in ata_write, a byte: 256
  CountSize,  \* values of the drive's sector count: 65536
  MaxCount    \* bound: sectors in a call

AtaAssumption ==
  /\ IndexSize \in Nat \ {0} /\ CountSize \in Nat /\ CountSize > IndexSize
  /\ MaxCount \in Nat /\ MaxCount > CountSize

VARIABLES
  running,     \* of the device's record
  identified,
  irq14,       \* ata_callback is registered
  pc,          \* where the thread is
  count, i,    \* of ata_read and ata_write
  buff,        \* the pointer that goes through the caller's memory
  mem,         \* the caller's memory
  disk,        \* history: sectors the drive got in this call
  drive        \* its command, the sectors still to come, its status, its signature

vars == <<running, identified, irq14, pc, count, i, buff, mem, disk, drive>>

Units == 0 .. 2 * MaxCount + 1
Own == [u \in Units |-> <<"own", u>>]  \* what the caller has there before
Sector(s, h) == <<"disk", 2 * s + h>>  \* what the drive has

TypeOK ==
  /\ {running, identified, irq14} \subseteq BOOLEAN
  /\ pc \in {"rest", "first", "spin", "signature", "wait", "read", "write", "flush", "halted"}
  /\ count \in 0..MaxCount /\ i \in 0..MaxCount /\ buff \in Units
  /\ \A u \in Units : mem[u] = Own[u] \/ \E s \in 0..MaxCount, h \in {0, 1} : mem[u] = Sector(s, h)
  /\ Len(disk) <= CountSize
  /\ drive.left \in 0 .. CountSize /\ drive.status \subseteq {"BSY", "DRQ", "ERR", "RDY"}

-----------------------------------------------------------------------------
(* The drive. *)

\* Its states when it is done with its work on a command; it may fail.
Served(d) ==
  IF d.cmd # "flush" /\ (d.cmd = "identify" \/ d.left > 0)
  THEN {[d EXCEPT !.status = {"RDY", s}] : s \in {"DRQ", "ERR"}}
  ELSE {[d EXCEPT !.status = {"RDY"}]}

\* It is busy first, or so fast that nobody sees that.
Working(d) == {[d EXCEPT !.status = {"BSY"}]} \cup Served(d)

Absent == drive.status = {}

Answers(cmd, left) ==
  IF Absent THEN {drive} ELSE Working([drive EXCEPT !.cmd = cmd, !.left = left])

Serve ==
  /\ "BSY" \in drive.status
  /\ drive' \in Served(drive)
  /\ UNCHANGED <<running, identified, irq14, pc, count, i, buff, mem, disk>>

\* A count of zero stands for CountSize.
Asked(n) == IF n % CountSize = 0 THEN CountSize ELSE n % CountSize

Init ==
  /\ running = FALSE /\ identified = FALSE /\ irq14 = FALSE /\ pc = "rest"
  /\ count = 0 /\ i = 0 /\ buff = 0 /\ mem = Own /\ disk = <<>>
  /\ \E s \in {{}, {"RDY"}}, packet \in BOOLEAN :
       drive = [cmd |-> "none", left |-> 0, status |-> s, packet |-> packet]

-----------------------------------------------------------------------------
(* ata_start, ata_identify and ata_stop. *)

\* The identify command is followed by that to flush, at once: the drive carries one
\* of the two out.
Start ==
  /\ pc = "rest" /\ ~running
  /\ running' = TRUE /\ irq14' = TRUE /\ pc' = "first"
  /\ \E cmd \in {"identify", "flush"} : drive' \in Answers(cmd, 0)
  /\ UNCHANGED <<identified, count, i, buff, mem, disk>>

NotIdentified ==
  /\ identified' = FALSE /\ running' = FALSE /\ pc' = "rest"
  /\ UNCHANGED <<irq14, count, i, buff, mem, disk, drive>>

\* A drive that is busy at the first look sends the driver into a loop without end.
First ==
  /\ pc = "first"
  /\ IF Absent THEN NotIdentified
     ELSE /\ pc' = IF "BSY" \in drive.status THEN "spin" ELSE "signature"
          /\ UNCHANGED <<running, identified, irq14, count, i, buff, mem, disk, drive>>

Signature ==
  /\ pc = "signature"
  /\ IF drive.packet THEN NotIdentified
     ELSE /\ pc' = "wait"
          /\ UNCHANGED <<running, identified, irq14, count, i, buff, mem, disk, drive>>

Identified ==
  /\ identified' = TRUE /\ pc' = "rest"
  /\ drive' = [drive EXCEPT !.status = {"RDY"}]
  /\ UNCHANGED <<running, irq14, count, i, buff, mem, disk>>

Wait ==
  /\ pc = "wait"
  /\ \/ "ERR" \in drive.status /\ NotIdentified
     \/ "ERR" \notin drive.status /\ "DRQ" \in drive.status /\ Identified

Stop ==
  /\ pc = "rest" /\ running
  /\ running' = FALSE /\ identified' = FALSE /\ irq14' = FALSE
  /\ UNCHANGED <<pc, count, i, buff, mem, disk, drive>>

-----------------------------------------------------------------------------
(* ata_read and ata_write. *)

Command(cmd) ==
  /\ pc = "rest" /\ running
  /\ count' \in 0..MaxCount
  /\ drive' \in Answers(cmd, Asked(count'))
  /\ i' = 0 /\ buff' = 0 /\ mem' = Own /\ disk' = <<>>
  /\ UNCHANGED <<running, identified, irq14>>

Read == Command("read") /\ pc' = "read"
Write == Command("write") /\ pc' = "write"

Transferred == drive' \in Working([drive EXCEPT !.left = @ - 1])

\* A sector fills two units and the pointer moves on by one.
ReadSector_Whole ==
  /\ pc = "read" /\ i < count /\ "DRQ" \in drive.status
  /\ LET s == Asked(count) - drive.left
     IN mem' = [u \in Units |-> IF u \in {2 * s, 2 * s + 1} THEN Sector(s, u - 2 * s) ELSE mem[u]]
  /\ buff' = buff + 1 /\ i' = i + 1
  /\ Transferred
  /\ UNCHANGED <<running, identified, irq14, pc, count, disk>>

ReadSector ==
  /\ pc = "read" /\ i < count /\ "DRQ" \in drive.status
  /\ LET s == Asked(count) - drive.left
     IN mem' = [mem EXCEPT ![buff] = Sector(s, 0), ![buff + 1] = Sector(s, 1)]
  /\ buff' = buff + 1 /\ i' = i + 1
  /\ Transferred
  /\ UNCHANGED <<running, identified, irq14, pc, count, disk>>

ReadDone_Late ==
  /\ pc = "read" /\ i > count
  /\ pc' = "rest"
  /\ UNCHANGED <<running, identified, irq14, count, i, buff, mem, disk, drive>>

ReadDone ==
  /\ pc = "read" /\ i >= count
  /\ pc' = "rest"
  /\ UNCHANGED <<running, identified, irq14, count, i, buff, mem, disk, drive>>

WriteSector ==
  /\ pc = "write" /\ i < count /\ "DRQ" \in drive.status
  /\ disk' = Append(disk, <<mem[buff], mem[buff + 1]>>)
  /\ buff' = buff + 1 /\ i' = (i + 1) % IndexSize
  /\ Transferred
  /\ UNCHANGED <<running, identified, irq14, pc, count, mem>>

WriteDone ==
  /\ pc = "write" /\ i >= count
  /\ pc' = "flush" /\ drive' \in Answers("flush", drive.left)
  /\ UNCHANGED <<running, identified, irq14, count, i, buff, mem, disk>>

Flushed ==
  /\ pc = "flush" /\ "BSY" \notin drive.status
  /\ pc' = "rest"
  /\ UNCHANGED <<running, identified, irq14, count, i, buff, mem, disk, drive>>

\* A status with an error and no data: debug_exception.
Fails ==
  /\ pc \in {"read", "write"} /\ i < count
  /\ "ERR" \in drive.status /\ "DRQ" \notin drive.status
  /\ pc' = "halted"
  /\ UNCHANGED <<running, identified, irq14, count, i, buff, mem, disk, drive>>

Goes == First \/ Signature \/ Wait \/ ReadSector \/ ReadDone \/ WriteSector
        \/ WriteDone \/ Flushed \/ Fails

Next == Serve \/ Start \/ Stop \/ Read \/ Write \/ Goes

\* The thread is dispatched again and again, and a busy drive gets done.
Spec == Init /\ [][Next]_vars /\ WF_vars(Goes) /\ WF_vars(Serve)

-----------------------------------------------------------------------------
(* Properties. *)

\* A read leaves the first half of each sector, the second one of the last only, and
\* writes one unit more than there are sectors (ata.c:125).
FirstHalves ==
  pc = "read" =>
    \A u \in Units : mem[u] = IF u < i THEN Sector(u, 0)
                              ELSE IF u = i /\ i > 0 THEN Sector(i - 1, 1) ELSE Own[u]

\* A write sends each unit but the first and the last twice: the second half of a
\* sector is the first half of the next (ata.c:156).
SecondHalvesRepeated ==
  \A s \in 1 .. Len(disk) - 1 : disk[s][2] = disk[s + 1][1]

\* The driver takes as many sectors as it asked for: between two calls the drive has
\* data only after a call for none, which asks for CountSize (ata.c:105).
InStep == pc = "rest" /\ drive.left > 0 => count = 0

\* A driver that runs has identified its drive, except during the identification.
RunsIdentified == running => identified \/ pc \in {"first", "spin", "signature", "wait"}

\* Up to CountSize sectors a read ends, though not always well.
ReadEnds == pc = "read" /\ count <= CountSize ~> pc \in {"rest", "halted"}

\* A write ends when the index reaches the count, which takes less than IndexSize sectors
\* (ata.c:146).
WriteEnds == pc = "write" /\ count < IndexSize ~> pc \in {"rest", "halted"}

\* The identification ends unless the drive was busy at the first look (ata.c:81) or
\* carries out the second command, after which it shows neither data nor error.
IdentifyEnds ==
  pc = "first" /\ "BSY" \notin drive.status /\ drive.cmd = "identify" ~> pc = "rest"

\* What the driver does to memory and drive, in every state.
TransfersRight ==
  TypeOK /\ FirstHalves /\ SecondHalvesRepeated /\ InStep /\ RunsIdentified
=============================================================================
