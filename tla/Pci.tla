-------------------------------- MODULE Pci --------------------------------
(***************************************************************************)
(* The PCI bus of NapalmOS (hal/pci.c): addresses, the probe at boot, the   *)
(* table it fills and the lines that lspci prints. An address is the set of *)
(* its bits that are 1; a byte of the configuration space is known by its   *)
(* function and its offset.                                                 *)
(***************************************************************************)
EXTENDS Integers, Sequences, FiniteSets

CONSTANTS
  PCI_BUS_COUNT, PCI_SLOT_COUNT, PCI_FUNC_COUNT,
  PCI_COUNT,  \* entries of the table
  Vendors,    \* that cards may come from
  Offsets,    \* registers that pci_write is called for
  MaxWrites   \* bound: calls of pci_write

PciAssumption ==
  /\ PCI_BUS_COUNT \in 1..256 /\ PCI_SLOT_COUNT \in 1..32 /\ PCI_FUNC_COUNT \in 1..8
  /\ PCI_COUNT \in Nat \ {0} /\ MaxWrites \in Nat
  /\ Offsets \subseteq {2 * k : k \in 0..127}

VARIABLES
  cards,    \* what each slot of each bus holds
  next,     \* how many functions the probe has looked at
  table,    \* _devices, as far as _count
  lost,     \* an entry was written behind the table
  writes,   \* history: the register each pci_write was called for, and what it wrote
  line      \* the line that lspci printed last: the vendor, the name, how long it is

vars == <<cards, next, table, lost, writes, line>>

Slots == (0 .. PCI_BUS_COUNT - 1) \X (0 .. PCI_SLOT_COUNT - 1)
Funcs == 0 .. PCI_FUNC_COUNT - 1
All == PCI_BUS_COUNT * PCI_SLOT_COUNT * PCI_FUNC_COUNT

\* The order of the probe's three loops.
Place(n) == <<n \div (PCI_SLOT_COUNT * PCI_FUNC_COUNT),
              (n \div PCI_FUNC_COUNT) % PCI_SLOT_COUNT, n % PCI_FUNC_COUNT>>

-----------------------------------------------------------------------------
(* The bus: the card in a slot has functions, the first among them, or none if *)
(* the slot is empty. One that is not picky does not look at the function's   *)
(* number and always answers as its first.                                    *)

Card == [vendor : Vendors, listed : BOOLEAN, picky : BOOLEAN,
         roles : {r \in [Funcs -> {"none", "device", "bridge"}] :
                    r[0] = "none" => \A f \in Funcs : r[f] = "none"}]

Answering(p) == <<p[1], p[2], IF cards[<<p[1], p[2]>>].picky THEN p[3] ELSE 0>>
Role(p) == cards[<<p[1], p[2]>>].roles[Answering(p)[3]]

\* The eight bits of an address from `low` on, as a number.
Bit(addr, b, weight) == IF b \in addr THEN weight ELSE 0
Byte(addr, low) ==
  Bit(addr, low, 1) + Bit(addr, low + 1, 2) + Bit(addr, low + 2, 4) + Bit(addr, low + 3, 8)
    + Bit(addr, low + 4, 16) + Bit(addr, low + 5, 32) + Bit(addr, low + 6, 64)
    + Bit(addr, low + 7, 128)

Selected(addr) == <<Byte(addr, 16), Byte(addr, 11) % 32, Byte(addr, 8) % 8>>
\* The dword: bits 1 and 0 are not looked at.
Register(addr) == Byte(addr \ {0, 1}, 0)

-----------------------------------------------------------------------------
(* pci_read and pci_write. *)

Weights == <<1, 2, 4, 8, 16, 32, 64, 128>>
Bits(n) == {k \in 0..7 : (n \div Weights[k + 1]) % 2 = 1}
Shifted(n, k) == {b + k : b \in Bits(n)}

Address(p, offset) ==
  Shifted(p[1], 16) \cup Shifted(p[2], 11) \cup Shifted(p[3], 8) \cup (Bits(offset) \cap 2..7) \cup {31}

\* The two bytes at an even offset, or none where no function answers.
ReadBytes(p, offset) ==
  LET a == Address(p, offset)
      first == Register(a) + (offset \div 2 % 2) * 2
  IN IF Role(Selected(a)) = "none" THEN <<>>
     ELSE <<<<Answering(Selected(a)), first>>, <<Answering(Selected(a)), first + 1>>>>

WriteAddress(p, offset) ==
  Shifted(p[1], 16) \cup Shifted(p[2], 1) \cup Shifted(p[3], 8) \cup (Bits(offset) \cap 2..7) \cup {31}

\* port_outl writes 32 bits: the data, not moved to its half, and zeros beside it.
Stored(r) == [h \in {r, r + 2} |-> IF h = r THEN "data" ELSE "zero"]

Write ==
  /\ Len(writes) < MaxWrites
  /\ \E n \in 0 .. All - 1, offset \in Offsets :
       LET a == WriteAddress(Place(n), offset) IN
       writes' = Append(writes, [place |-> Place(n), offset |-> offset,
                                 to |-> Selected(a), set |-> Stored(Register(a))])
  /\ UNCHANGED <<cards, next, table, lost, line>>

-----------------------------------------------------------------------------
(* pci_probe. *)

Init ==
  /\ cards \in [Slots -> Card]
  /\ next = 0 /\ table = <<>> /\ lost = FALSE /\ writes = <<>> /\ line = <<>>

Header(p) ==
  [vendor_id |-> ReadBytes(p, 0), device_id |-> ReadBytes(p, 2),
   command |-> ReadBytes(p, 4), status |-> ReadBytes(p, 6),
   rev_id |-> ReadBytes(p, 8)[1], prog_if |-> ReadBytes(p, 8)[2],
   subclass |-> ReadBytes(p, 10)[1], class_code |-> ReadBytes(p, 10)[2],
   cacheln_sz |-> ReadBytes(p, 12)[1], latency_timer |-> ReadBytes(p, 12)[2],
   hdr_type |-> ReadBytes(p, 14)[1], bist |-> ReadBytes(p, 14)[2]]

\* The role is the header type without the bit for several functions.
Found(p) == ReadBytes(p, 0) # <<>> /\ Role(Selected(Address(p, 14))) = "device"

Probe_FirstOnly ==
  /\ next < All /\ ~lost
  /\ LET p == Place(next) IN
     IF Found(p) /\ p[3] = 0
     THEN /\ lost' = (Len(table) = PCI_COUNT)
          /\ table' = IF lost' THEN table ELSE Append(table, Header(p))
     ELSE UNCHANGED <<table, lost>>
  /\ next' = next + 1
  /\ UNCHANGED <<cards, writes, line>>

Probe ==
  /\ next < All /\ ~lost
  /\ LET p == Place(next) IN
     IF Found(p)
     THEN /\ lost' = (Len(table) = PCI_COUNT)
          /\ table' = IF lost' THEN table ELSE Append(table, Header(p))
     ELSE UNCHANGED <<table, lost>>
  /\ next' = next + 1
  /\ UNCHANGED <<cards, writes, line>>

-----------------------------------------------------------------------------
(* pci_print and pci_getname: a name is the maker it tells of and a length.  *)

Maker == [intel |-> "Intel", intel_alt |-> "Intel", vmware |-> "VMWare", vmware_alt |-> "VMWare",
          innotek |-> "InnoTek", amd |-> "AMD", ensoniq |-> "Ensoniq", broadcom |-> "Broadcom",
          realtek |-> "Realtek", atheros |-> "Atheros"]

\* The longest of the names listed for a vendor.
Longest == [intel |-> 42, vmware |-> 34, innotek |-> 27, amd |-> 30, ensoniq |-> 28,
            broadcom |-> 32, realtek |-> 40, atheros |-> 27]

Letters == [Intel |-> 5, VMWare |-> 6, InnoTek |-> 7, AMD |-> 3, Ensoniq |-> 7, Broadcom |-> 8,
            Realtek |-> 7, Atheros |-> 7]

Unrecognized(maker) == [maker |-> maker, length |-> 20 + Letters[maker]]

GetName(vendor, listed) ==
  IF listed /\ vendor \in DOMAIN Longest
  THEN [maker |-> Maker[vendor], length |-> Longest[vendor]]
  ELSE IF vendor \notin DOMAIN Maker THEN [maker |-> "", length |-> 19]
  ELSE Unrecognized(IF vendor = "broadcom" THEN "Realtek" ELSE Maker[vendor])

\* The columns before the name, the name and blanks up to 60, and the end.
LineLength(name) == (IF 22 + name.length > 60 THEN 22 + name.length ELSE 60) + 2

Lspci ==
  /\ next = All /\ ~lost
  /\ \E k \in DOMAIN table :
       LET p == table[k].vendor_id[1][1]
           card == cards[<<p[1], p[2]>>]
           name == GetName(card.vendor, card.listed)
       IN line' = <<card.vendor, name, LineLength(name)>>
  /\ UNCHANGED <<cards, next, table, lost, writes>>

Next == Probe \/ Write \/ Lspci

Spec == Init /\ [][Next]_vars

-----------------------------------------------------------------------------
(* Properties. *)

TypeOK ==
  /\ next \in 0..All /\ Len(table) <= PCI_COUNT /\ lost \in BOOLEAN
  /\ \A k \in DOMAIN table : table[k].vendor_id[1][1][3] \in Funcs

\* The functions that the probe has looked at and that answer as a device are in the
\* table, in order and no others: a card that does not look at the function's number
\* is there once for each number, and no bridge is (pci.c:45).
TableComplete ==
  ~lost => LET seen == {n \in 0 .. next - 1 : Role(Place(n)) = "device"}
               entry(n) == table[1 + Cardinality({m \in seen : m < n})]
           IN /\ Len(table) = Cardinality(seen)
              /\ \A n \in seen : entry(n).vendor_id[1][1] = Answering(Place(n))

\* The bytes of an entry come from one function, and from where its header has them.
HeadersRight ==
  \A k \in DOMAIN table :
    LET t == table[k]
        Is(b, o) == b = <<t.vendor_id[1][1], o>>
    IN /\ Is(t.device_id[1], 2) /\ Is(t.command[1], 4) /\ Is(t.status[1], 6)
       /\ Is(t.rev_id, 8) /\ Is(t.prog_if, 9) /\ Is(t.subclass, 10) /\ Is(t.class_code, 11)
       /\ Is(t.cacheln_sz, 12) /\ Is(t.latency_timer, 13) /\ Is(t.hdr_type, 14) /\ Is(t.bist, 15)

\* A write goes to slot 0, whatever slot it names, and so never to a function of
\* another one (pci.c:79). In slot 0 the data is stored where it should be only if the
\* offset is a multiple of 4; any other register gets zeros, and the one before it the
\* data. Either way a register that was not named is lost (pci.c:81).
WritesAstray ==
  \A k \in DOMAIN writes : LET w == writes[k] IN
    /\ w.to = <<w.place[1], 0, w.place[3]>>
    /\ w.place[2] = 0 =>
         IF w.offset % 4 = 0 THEN w.set[w.offset] = "data" /\ w.set[w.offset + 2] = "zero"
                             ELSE w.set[w.offset] = "zero" /\ w.set[w.offset - 2] = "data"

\* A line of lspci fits the buffer of 72 characters with its terminator, and its end
\* is where the others' are unless the name is longer than 38.
LineFits ==
  line # <<>> => line[3] < 72 /\ (line[2].length <= 38 => line[3] = 62)

\* What is known of the table, of the writes and of lspci's lines, in every state.
ConfigRight == TypeOK /\ TableComplete /\ HeadersRight /\ WritesAstray /\ LineFits
=============================================================================
