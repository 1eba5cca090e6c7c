CONSTANTS
  Devices = {"ata", "kbd", "pit", "vga"}
  Kbd = "kbd"
  Irqs = {"irq0", "irq1", "irq14"}
  KbdIrq = "irq1"
  Slave = {"irq14"}
  IrqOf <- MCIrqOf
  Failing = {"ata"}
  None = None
  NoIrq = NoIrq
  DEVICE_COUNT = 3
  IndexSize = 4
  CountSize = 8
  MaxCount = 9
  Mantissa = 7
  PerMilli = 2
  Thousand = 1
  GcMillis = 3
  GcFrees = 2
  MaxPit = 2
  MaxFrees = 2
  MaxLag = 2
  PCI_BUS_COUNT = 1
  PCI_SLOT_COUNT = 2
  PCI_FUNC_COUNT = 2
  PCI_COUNT = 3
  Vendors = {"intel", "other"}
  Offsets = {4, 6}
  MaxWrites = 1
SPECIFICATION MachineSpec
INVARIANTS
  DevicesServed
  TransfersRight
  TicksRight
  ConfigRight
PROPERTIES
  Progress
\* The driver waits for ever in known cases, debug_exception stops the machine, and the
\* probe ends.
CHECK_DEADLOCK FALSE
