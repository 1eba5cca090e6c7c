------------------------------- MODULE Drivers -------------------------------
(***************************************************************************)
(* The device manager and three parts below it: the disk, the counters of   *)
(* milliseconds and the PCI bus.  The four share no state, so each          *)
(* behaviour is one of one of them, and the others stay where one of their  *)
(* initial states has them.                                                 *)
(***************************************************************************)
EXTENDS DevMgr, Sequences

CONSTANTS
  IndexSize, CountSize, MaxCount,                            \* of Ata
  Mantissa, PerMilli, Thousand, GcMillis, GcFrees,           \* of Ticks
  MaxPit, MaxFrees, MaxLag,
  PCI_BUS_COUNT, PCI_SLOT_COUNT, PCI_FUNC_COUNT, PCI_COUNT,  \* of Pci
  Vendors, Offsets, MaxWrites

VARIABLES
  unit,  \* which of the four this behaviour is about
  ataRunning, identified, irq14, pc, count, i, buff, mem, disk, drive,
  pit, ticks, seconds, millis, gc, frees, since,
  cards, next, pciTable, lost, writes, line

A == INSTANCE Ata WITH running <- ataRunning
T == INSTANCE Ticks
P == INSTANCE Pci WITH table <- pciTable

ASSUME DriversAssumption == A!AtaAssumption /\ T!TicksAssumption /\ P!PciAssumption

ataVars   == <<ataRunning, identified, irq14, pc, count, i, buff, mem, disk, drive>>
ticksVars == <<pit, ticks, seconds, millis, gc, frees, since>>
pciVars   == <<cards, next, pciTable, lost, writes, line>>
machine   == <<unit, vars, ataVars, ticksVars, pciVars>>

MachineInit ==
  /\ unit \in {"devmgr", "ata", "ticks", "pci"}
  /\ Init /\ A!Init /\ T!Init /\ P!Init
  /\ unit # "ata" => drive.status = {} /\ ~drive.packet
  /\ unit # "ticks" => gc.last = 0
  /\ unit # "pci" => \A s \in DOMAIN cards : cards[s] = CHOOSE c \in P!Card : TRUE

OnlyDevMgr == unit = "devmgr" /\ UNCHANGED <<unit, ataVars, ticksVars, pciVars>>
OnlyAta    == unit = "ata"    /\ UNCHANGED <<unit, vars, ticksVars, pciVars>>
OnlyTicks  == unit = "ticks"  /\ UNCHANGED <<unit, vars, ataVars, pciVars>>
OnlyPci    == unit = "pci"    /\ UNCHANGED <<unit, vars, ataVars, ticksVars>>

MachineNext ==
  \/ OnlyDevMgr /\ Next
  \/ OnlyAta /\ A!Next
  \/ OnlyTicks /\ T!Next
  \/ OnlyPci /\ P!Next

\* The fairness of Ata and of Ticks.
MachineSpec ==
  /\ MachineInit /\ [][MachineNext]_machine
  /\ WF_ataVars(unit = "ata" /\ A!Goes) /\ WF_ataVars(unit = "ata" /\ A!Serve)
  /\ WF_ticksVars(unit = "ticks" /\ T!RtcTick)
  /\ WF_ticksVars(unit = "ticks" /\ T!GcRead) /\ WF_ticksVars(unit = "ticks" /\ T!GcTest)

-----------------------------------------------------------------------------

\* The driver and a drive that answers when it likes keep in step, and of each sector
\* read or written the halves get through that ata.c:125 and :156 let through.
TransfersRight == unit = "ata" => A!TransfersRight

\* The counters of milliseconds are right until they are full, and the collector that
\* reads them is not too early (pit.c:68, rtc.c:62, memmgr.c:116).
TicksRight == unit = "ticks" => T!TicksRight

\* Every function of every card is in PCI's table with its own header, until the table
\* is full, and pci_write writes to slot 0 only, two registers at once, of which the
\* named one gets the data at every other offset (pci.c:49, :77-82).
ConfigRight == unit = "pci" => P!ConfigRight

\* Reads, writes and identifications end but for the known cases, and many frees lead
\* to a collection (ata.c:81, :146, memmgr.c:119).
Progress ==
  /\ A!ReadEnds /\ A!WriteEnds /\ A!IdentifyEnds
  /\ T!FreesCollect
=============================================================================
