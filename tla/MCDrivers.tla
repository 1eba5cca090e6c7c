------------------------------ MODULE MCDrivers ------------------------------
\* Four devices: a disk that may be absent, the keyboard, a timer, and a screen
\* without an interrupt.
\*   Ata: an index of four values and a count of eight; calls for up to nine sectors
\* meet a write that does not end and a count that is cut off.
\*   Ticks: floats with a mantissa of seven bits are full after 128 ticks.
\*   Pci: one bus with two slots of two functions, cards of all kinds, and a table of
\* three entries that two cards can fill and overrun; writes to both halves of a dword.
EXTENDS Drivers

MCIrqOf == [d \in Devices |-> CASE d = "ata" -> "irq14" [] d = "pit" -> "irq0" [] OTHER -> NoIrq]
=============================================================================
