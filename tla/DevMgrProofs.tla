---------------------------- MODULE DevMgrProofs ----------------------------
(***************************************************************************)
(* Proofs about the device manager: what DevMgr's run checks for three      *)
(* devices holds for every set of devices, lines and slots. The invariant   *)
(* adds to the properties which device is being started, which handlers are *)
(* connected meanwhile, and when the uids run out.                          *)
(***************************************************************************)
EXTENDS DevMgr, FiniteSetTheorems, TLAPS

Typed ==
  /\ table \in [Slots -> Devices \cup {None}]
  /\ duid \in Nat
  /\ uid \in [Devices -> Nat]
  /\ running \in [Devices -> BOOLEAN]
  /\ protocol \in [Irqs -> Devices \cup {None}]
  /\ at \in {"rest", "start", "connect", "result", "bus"}
  /\ cur \in Devices \cup {None}
  /\ serving \in Irqs \cup {NoIrq}
  /\ unacked \subseteq Pics
  /\ asked \subseteq Uids /\ named \subseteq Devices
  /\ halted \in BOOLEAN

\* The last uid that is given is not valid, and its device is not started.
Counted ==
  duid <= DEVICE_COUNT \/ (duid = DEVICE_COUNT + 1 /\ (halted \/ (at = "start" /\ uid[cur] = DEVICE_COUNT)))

Starting ==
  /\ at \in {"start", "connect", "result"} => cur \in Devices /\ Registered(cur)
  /\ at \in {"connect", "result"} => running[cur]

Served ==
  \A d \in Devices :
    Registered(d) /\ running[d] /\ IrqOf[d] # NoIrq /\ ~(at \in {"start", "connect"} /\ d = cur)
      => protocol[IrqOf[d]] = d

KbdOnly == \A q \in Irqs : protocol[q] = Kbd => q = KbdIrq

Acks ==
  /\ serving = NoIrq => unacked = {}
  /\ serving # NoIrq => unacked = IF serving \in Slave THEN Pics ELSE {"master"}

IInv ==
  /\ Typed /\ UidsUnique /\ Counted /\ Starting
  /\ Served /\ KbdOnly /\ Acks /\ HaltsForReason

-----------------------------------------------------------------------------
(* Lookups. *)

\* A device's slot is the only one with its uid.
LEMMA OneSlot ==
  ASSUME Typed, UidsUnique, NEW i \in Slots, table[i] # None
  PROVE  {j \in Slots : table[j] # None /\ uid[table[j]] = uid[table[i]]} = {i}
BY DEF Typed, UidsUnique

\* The first member of a set with one member.
LEMMA FirstOfOne ==
  ASSUME NEW i \in Slots
  PROVE  First({i}) = i
BY DEF First, Slots

\* devmgr_from_uid finds a registered device if its uid is valid.
LEMMA Found ==
  ASSUME Typed, UidsUnique, NEW d \in Devices, Registered(d), uid[d] < DEVICE_COUNT
  PROVE  Valid(uid[d]) /\ FromUid(uid[d]) = d
<1>1. PICK i \in Slots : table[i] = d
  BY DEF Registered
<1>2. table[i] # None
  BY <1>1, DevMgrAssumption
<1>3. Valid(uid[d])
  <2>1. 0 <= uid[d]
    BY DEF Typed
  <2>2. QED
    BY <1>1, <1>2, <2>1 DEF Valid
<1>4. {j \in Slots : table[j] # None /\ uid[table[j]] = uid[d]} = {i}
  BY <1>1, <1>2, OneSlot
<1>5. QED
  BY <1>1, <1>3, <1>4, FirstOfOne DEF FromUid

\* And only if it is valid.
LEMMA NotFound ==
  ASSUME Typed, UidsUnique, NEW d \in Devices, Registered(d), FromUid(uid[d]) = None
  PROVE  uid[d] >= DEVICE_COUNT
<1>1. ~(uid[d] < DEVICE_COUNT)
  BY Found, DevMgrAssumption
<1>2. uid[d] \in Nat /\ DEVICE_COUNT \in Nat
  BY DevMgrAssumption DEF Typed
<1>3. QED
  BY <1>1, <1>2

\* A valid uid is one of a registered device, which it leads to.
LEMMA ValidUid ==
  ASSUME Typed, UidsUnique, NEW u \in Uids, Valid(u)
  PROVE  FromUid(u) \in Devices /\ Registered(FromUid(u)) /\ uid[FromUid(u)] = u
<1>1. PICK i \in Slots : table[i] # None /\ uid[table[i]] = u
  BY DEF Valid
<1>2. table[i] \in Devices /\ Registered(table[i])
  BY <1>1 DEF Typed, Registered
<1>3. FromUid(u) = table[i]
  BY <1>1, <1>2, Found DEF Valid
<1>4. QED
  BY <1>1, <1>2, <1>3

\* When all slots are taken there were as many devices as slots.
LEMMA FullTable ==
  ASSUME Typed, UidsUnique, \A i \in Slots : table[i] # None
  PROVE  duid >= DEVICE_COUNT
<1> DEFINE f == [i \in Slots |-> uid[table[i]]]
<1>1. DEVICE_COUNT \in Nat /\ duid \in Nat
  BY DevMgrAssumption DEF Typed
<1>2. SUFFICES ASSUME duid < DEVICE_COUNT PROVE FALSE
  BY <1>1
<1>3. IsFiniteSet(Slots) /\ Cardinality(Slots) = DEVICE_COUNT
  BY <1>1, FS_Interval DEF Slots
<1>4. IsFiniteSet(0 .. duid - 1) /\ Cardinality(0 .. duid - 1) = duid
  BY <1>1, FS_Interval
<1>5. f \in [Slots -> 0 .. duid - 1]
  <2>1. SUFFICES ASSUME NEW i \in Slots PROVE uid[table[i]] \in 0 .. duid - 1
    OBVIOUS
  <2>2. uid[table[i]] < duid /\ table[i] \in Devices
    BY DEF UidsUnique, Typed
  <2>3. uid[table[i]] \in Nat
    BY <2>2 DEF Typed
  <2>4. QED
    BY <1>1, <2>2, <2>3
<1>6. Cardinality(0 .. duid - 1) < Cardinality(Slots)
  BY <1>1, <1>2, <1>3, <1>4
<1> HIDE DEF f
<1>7. \E i, j \in Slots : i # j /\ f[i] = f[j]
  BY <1>3, <1>4, <1>5, <1>6, FS_PigeonHole
<1>8. QED
  BY <1>7 DEF UidsUnique, f

-----------------------------------------------------------------------------
(* The steps. *)

LEMMA InitIInv == Init => IInv
<1> SUFFICES ASSUME Init PROVE IInv
  OBVIOUS
<1>1. Typed
  BY DevMgrAssumption DEF Init, Typed, Slots
<1>2. UidsUnique
  BY DEF Init, UidsUnique
<1>3. Counted /\ Starting
  BY DevMgrAssumption DEF Init, Counted, Starting
<1>4. Served /\ Acks /\ HaltsForReason
  BY DEF Init, Served, Acks, HaltsForReason
<1>5. KbdOnly
  BY DevMgrAssumption DEF Init, KbdOnly
<1>6. QED
  BY <1>1, <1>2, <1>3, <1>4, <1>5 DEF IInv

LEMMA RegisterIInv ==
  ASSUME IInv, NEW d \in Devices, Register(d)
  PROVE  IInv'
<1> USE DevMgrAssumption DEF IInv
<1>0. PICK i \in Slots : table[i] = None /\ table' = [table EXCEPT ![i] = d]
  BY DEF Register
<1>1. /\ \A j \in Slots : table[j] # d
      /\ uid' = [uid EXCEPT ![d] = duid] /\ duid' = duid + 1
      /\ running' = [running EXCEPT ![d] = FALSE]
      /\ at' = "start" /\ cur' = d /\ at = "rest" /\ ~halted /\ serving = NoIrq
      /\ asked' = {} /\ named' = {}
      /\ UNCHANGED <<protocol, serving, unacked, halted>>
  BY DEF Register, Registered, Fresh, Thread
<1>2. Typed'
  BY <1>0, <1>1 DEF Typed
<1>3. UidsUnique'
  BY <1>0, <1>1 DEF UidsUnique, Typed
<1>4. duid <= DEVICE_COUNT /\ duid \in Nat
  BY <1>1 DEF Counted, Typed
<1>5. uid'[cur'] = duid
  BY <1>1 DEF Typed
<1>6. Counted'
  BY <1>1, <1>4, <1>5 DEF Counted
<1>7. Starting' /\ Served'
  BY <1>0, <1>1 DEF Starting, Served, Registered, Typed
<1>8. KbdOnly' /\ Acks'
  BY <1>1 DEF KbdOnly, Acks
<1>9. HaltsForReason'
  BY <1>1 DEF HaltsForReason
<1>10. QED
  BY <1>2, <1>3, <1>6, <1>7, <1>8, <1>9

LEMMA RegisterNoSlotIInv ==
  ASSUME IInv, NEW d \in Devices, RegisterNoSlot(d)
  PROVE  IInv'
<1> USE DevMgrAssumption DEF IInv
<1>1. duid >= DEVICE_COUNT
  BY FullTable DEF RegisterNoSlot
<1>2. /\ running' = [running EXCEPT ![d] = FALSE] /\ halted' /\ at = "rest"
      /\ asked' = {} /\ named' = {}
      /\ UNCHANGED <<table, duid, uid, protocol, at, cur, serving, unacked>>
  BY DEF RegisterNoSlot, Fresh, Thread
<1>3. Typed' /\ UidsUnique' /\ Starting'
  BY <1>2 DEF Typed, UidsUnique, Starting, Registered
<1>4. Counted'
  BY <1>2 DEF Counted
<1>5. Served'
  BY <1>2 DEF Served, Registered, Typed
<1>6. KbdOnly' /\ Acks'
  BY <1>2 DEF KbdOnly, Acks
<1>7. HaltsForReason'
  BY <1>1, <1>2 DEF HaltsForReason
<1>8. QED
  BY <1>3, <1>4, <1>5, <1>6, <1>7

LEMMA StartIInv ==
  ASSUME IInv, Start
  PROVE  IInv'
<1> USE DevMgrAssumption DEF IInv
<1>1. at = "start" /\ ~halted /\ cur \in Devices /\ Registered(cur)
  BY DEF Start, Thread, Starting
<1>2. UNCHANGED <<table, duid, uid, protocol, cur, serving, unacked, asked, named>>
  BY DEF Start
<1>3. CASE FromUid(uid[cur]) = None
  <2>1. halted' /\ UNCHANGED <<running, at>>
    BY <1>3 DEF Start
  <2>2. uid[cur] >= DEVICE_COUNT
    BY <1>1, <1>3, NotFound
  <2>3. PICK i \in Slots : table[i] = cur
    BY <1>1 DEF Registered
  <2>4. uid[cur] < duid
    BY <1>1, <2>3 DEF UidsUnique
  <2>5. duid >= DEVICE_COUNT
    BY <1>1, <2>2, <2>4 DEF Typed
  <2>6. Typed' /\ UidsUnique' /\ Starting' /\ Served' /\ KbdOnly' /\ Acks'
    BY <1>2, <2>1 DEF Typed, UidsUnique, Starting, Served, KbdOnly, Acks, Registered
  <2>7. Counted'
    BY <1>2, <2>1 DEF Counted
  <2>8. HaltsForReason'
    BY <1>2, <2>5 DEF HaltsForReason
  <2>9. QED
    BY <2>6, <2>7, <2>8
<1>4. CASE FromUid(uid[cur]) # None
  <2>1. uid[cur] < DEVICE_COUNT
    BY <1>4 DEF FromUid, Valid
  <2>2. FromUid(uid[cur]) = cur
    BY <1>1, <2>1, Found
  <2>3. running' = [running EXCEPT ![cur] = TRUE] /\ at' = "connect" /\ UNCHANGED halted
    BY <1>4, <2>2 DEF Start
  <2>4. Typed' /\ UidsUnique'
    BY <1>1, <1>2, <2>3 DEF Typed, UidsUnique
  <2>5. uid[cur] \in Nat
    BY <1>1 DEF Typed
  <2>6. duid <= DEVICE_COUNT
    BY <1>1, <2>1, <2>5 DEF Counted
  <2>7. Counted'
    BY <1>2, <2>6 DEF Counted
  <2>8. Starting' /\ Served'
    BY <1>1, <1>2, <2>3 DEF Starting, Served, Registered, Typed
  <2>9. KbdOnly' /\ Acks' /\ HaltsForReason'
    BY <1>1, <1>2, <2>3 DEF KbdOnly, Acks, HaltsForReason
  <2>10. QED
    BY <2>4, <2>7, <2>8, <2>9
<1>5. QED
  BY <1>3, <1>4

LEMMA ConnectIInv ==
  ASSUME IInv, Connect
  PROVE  IInv'
<1> USE DevMgrAssumption DEF IInv
<1>1. /\ at = "connect" /\ ~halted /\ cur \in Devices /\ at' = "result"
      /\ UNCHANGED <<table, duid, uid, running, cur, serving, unacked, asked, named, halted>>
  BY DEF Connect, Thread, Starting
<1>2. IrqOf[cur] \in Irqs \cup {NoIrq}
  BY <1>1
<1>3. protocol' \in [Irqs -> Devices \cup {None}]
  BY <1>1, <1>2 DEF Connect, Typed
<1>4. \A q \in Irqs : protocol'[q] = IF q = IrqOf[cur] THEN cur ELSE protocol[q]
  BY <1>1, <1>2 DEF Connect, Typed
<1>5. Typed' /\ UidsUnique' /\ Starting' /\ Acks' /\ HaltsForReason'
  BY <1>1, <1>3 DEF Typed, UidsUnique, Starting, Acks, HaltsForReason, Registered
<1>6. Counted'
  BY <1>1 DEF Counted
<1>7. Served'
  <2>1. SUFFICES ASSUME NEW d \in Devices, Registered(d), running[d], IrqOf[d] # NoIrq
                 PROVE  protocol'[IrqOf[d]] = d
    BY <1>1 DEF Served, Registered
  <2>2. IrqOf[d] \in Irqs
    BY <2>1
  <2>3. CASE d = cur
    BY <1>4, <2>2, <2>3
  <2>4. CASE d # cur
    <3>1. protocol[IrqOf[d]] = d
      BY <2>1, <2>4 DEF Served
    <3>2. IrqOf[d] # IrqOf[cur]
      BY <1>1, <2>1, <2>4
    <3>3. QED
      BY <1>4, <2>2, <3>1, <3>2
  <2>5. QED
    BY <2>3, <2>4
<1>8. KbdOnly'
  <2>1. SUFFICES ASSUME NEW q \in Irqs, protocol'[q] = Kbd PROVE q = KbdIrq
    BY DEF KbdOnly
  <2>2. q # IrqOf[cur] \/ cur # Kbd
    BY <1>1
  <2>3. protocol[q] = Kbd
    BY <1>4, <2>1, <2>2
  <2>4. QED
    BY <2>3 DEF KbdOnly
<1>9. QED
  BY <1>5, <1>6, <1>7, <1>8

LEMMA ResultIInv ==
  ASSUME IInv, Result
  PROVE  IInv'
<1> USE DevMgrAssumption DEF IInv
<1>1. /\ at = "result" /\ ~halted /\ cur \in Devices /\ at' \in {"rest", "bus"} /\ cur' = None
      /\ UNCHANGED <<table, duid, uid, protocol, serving, unacked, asked, named, halted>>
  BY DEF Result, Thread, Starting
<1>2. PICK res \in BOOLEAN : running' = [running EXCEPT ![cur] = res]
  BY DEF Result
<1>3. Typed' /\ UidsUnique' /\ Starting' /\ Acks' /\ HaltsForReason' /\ KbdOnly'
  BY <1>1, <1>2 DEF Typed, UidsUnique, Starting, Acks, HaltsForReason, Registered, KbdOnly
<1>4. Counted'
  BY <1>1 DEF Counted
<1>5. Served'
  <2>1. SUFFICES ASSUME NEW d \in Devices, Registered(d), running'[d], IrqOf[d] # NoIrq
                 PROVE  protocol[IrqOf[d]] = d
    BY <1>1 DEF Served, Registered
  <2>2. running[cur]
    BY <1>1 DEF Starting
  <2>3. running[d]
    BY <1>2, <2>1, <2>2 DEF Typed
  <2>4. QED
    BY <1>1, <2>1, <2>3 DEF Served
<1>6. QED
  BY <1>3, <1>4, <1>5

LEMMA BusIInv ==
  ASSUME IInv, Bus
  PROVE  IInv'
<1> USE DevMgrAssumption DEF IInv
<1>1. /\ at = "bus" /\ ~halted /\ at' = "rest" /\ protocol' = [protocol EXCEPT ![KbdIrq] = Kbd]
      /\ UNCHANGED <<table, duid, uid, running, cur, serving, unacked, asked, named, halted>>
  BY DEF Bus, Thread
<1>2. Typed' /\ UidsUnique' /\ Starting' /\ Acks' /\ HaltsForReason' /\ KbdOnly'
  BY <1>1 DEF Typed, UidsUnique, Starting, Acks, HaltsForReason, Registered, KbdOnly
<1>3. Counted'
  BY <1>1 DEF Counted
<1>4. Served'
  BY <1>1 DEF Served, Registered, Typed
<1>5. QED
  BY <1>2, <1>3, <1>4

\* What a stop function does to the handlers.
LEMMA DisconnectedFacts ==
  ASSUME Typed, NEW d \in Devices
  PROVE  /\ Disconnected(d) \in [Irqs -> Devices \cup {None}]
         /\ \A q \in Irqs : Disconnected(d)[q] = IF q = IrqOf[d] THEN None ELSE protocol[q]
<1>1. IrqOf[d] \in Irqs \cup {NoIrq} /\ NoIrq \notin Irqs
  BY DevMgrAssumption
<1>2. QED
  BY <1>1 DEF Disconnected, Typed

\* A call whose uid no device has halts for that, or for want of uids.
LEMMA UnknownIInv ==
  ASSUME IInv, NEW u \in Uids, With(u), HaltUnknown(u)
  PROVE  IInv'
<1> USE DevMgrAssumption DEF IInv
<1>1. /\ asked' = {u} /\ named' = {} /\ halted' /\ halted' \in BOOLEAN
      /\ UNCHANGED <<table, duid, uid, running, protocol, at, cur, serving, unacked>>
  BY DEF With, HaltUnknown
<1>2. Typed' /\ UidsUnique' /\ Starting' /\ Served' /\ KbdOnly' /\ Acks'
  BY <1>1 DEF Typed, UidsUnique, Starting, Served, KbdOnly, Acks, Registered
<1>3. Counted'
  BY <1>1 DEF Counted
<1>4. (\A i \in Slots : table[i] # None => uid[table[i]] # u) \/ duid >= DEVICE_COUNT
  <2>1. SUFFICES ASSUME NEW i \in Slots, table[i] # None, uid[table[i]] = u
                 PROVE  duid >= DEVICE_COUNT
    OBVIOUS
  <2>2. ~(0 <= u /\ u < DEVICE_COUNT)
    BY <2>1 DEF HaltUnknown, Valid
  <2>3. u \in Nat /\ u < duid
    BY <2>1 DEF Typed, UidsUnique
  <2>4. QED
    BY <2>2, <2>3 DEF Typed
<1>5. HaltsForReason'
  BY <1>1, <1>4 DEF HaltsForReason
<1>6. QED
  BY <1>2, <1>3, <1>5

LEMMA StopIInv ==
  ASSUME IInv, NEW u \in Uids, Stop(u)
  PROVE  IInv'
<1> USE DevMgrAssumption DEF IInv
<1>0. SUFFICES ASSUME Valid(u) PROVE IInv'
  BY UnknownIInv DEF Stop
<1>1. PICK d \in Devices : FromUid(u) = d /\ Registered(d)
  BY <1>0, ValidUid
<1>2. /\ at = "rest" /\ ~halted /\ asked' = {u} /\ named' = {} /\ protocol' = Disconnected(d) /\ running' = [running EXCEPT ![d] = FALSE]
      /\ UNCHANGED <<table, duid, uid, at, cur, serving, unacked, halted>>
  BY <1>0, <1>1 DEF Stop, With, HaltUnknown, Thread
<1>3. /\ protocol' \in [Irqs -> Devices \cup {None}]
      /\ \A q \in Irqs : protocol'[q] = IF q = IrqOf[d] THEN None ELSE protocol[q]
  BY <1>2, DisconnectedFacts
<1>4. Typed' /\ UidsUnique' /\ Starting' /\ Acks' /\ HaltsForReason'
  BY <1>2, <1>3 DEF Typed, UidsUnique, Starting, Acks, HaltsForReason, Registered
<1>5. Counted' /\ KbdOnly'
  BY <1>2, <1>3 DEF Counted, KbdOnly
<1>6. Served'
  <2>1. SUFFICES ASSUME NEW e \in Devices, Registered(e), running'[e], IrqOf[e] # NoIrq
                 PROVE  protocol'[IrqOf[e]] = e
    BY <1>2 DEF Served, Registered
  <2>2. e # d /\ running[e]
    BY <1>2, <2>1 DEF Typed
  <2>3. IrqOf[e] \in Irqs /\ IrqOf[e] # IrqOf[d]
    BY <2>1, <2>2
  <2>4. protocol[IrqOf[e]] = e
    BY <1>2, <2>1, <2>2 DEF Served
  <2>5. QED
    BY <1>3, <2>3, <2>4
<1>7. QED
  BY <1>4, <1>5, <1>6

LEMMA UnregisterIInv ==
  ASSUME IInv, NEW u \in Uids, Unregister(u)
  PROVE  IInv'
<1> USE DevMgrAssumption DEF IInv
<1>0. SUFFICES ASSUME Valid(u) PROVE IInv'
  BY UnknownIInv DEF Unregister
<1>1. PICK d \in Devices : FromUid(u) = d /\ Registered(d)
  BY <1>0, ValidUid
<1>2. /\ at = "rest" /\ ~halted /\ asked' = {u} /\ named' = {}
      /\ protocol' = (IF running[d] THEN Disconnected(d) ELSE protocol)
      /\ UNCHANGED <<duid, uid, running, at, cur, serving, unacked, halted>>
  BY <1>0, <1>1 DEF Unregister, With, HaltUnknown, Thread
<1>3. PICK i \in Slots : table[i] = d /\ table' = [table EXCEPT ![i] = None]
  BY <1>0, <1>1 DEF Unregister, HaltUnknown
<1>4. /\ protocol' \in [Irqs -> Devices \cup {None}]
      /\ \A q \in Irqs : q # IrqOf[d] => protocol'[q] = protocol[q]
      /\ \A q \in Irqs : protocol'[q] \in {None, protocol[q]}
  BY <1>2, DisconnectedFacts DEF Typed
<1>5. \A j \in Slots : table[j] = d => j = i
  BY <1>3 DEF UidsUnique
<1>6. \A e \in Devices : Registered(e)' <=> Registered(e) /\ e # d
  BY <1>3, <1>5 DEF Registered, Typed
<1>7. Typed' /\ UidsUnique'
  BY <1>2, <1>3, <1>4 DEF Typed, UidsUnique
<1>8. Counted' /\ Starting' /\ Acks'
  BY <1>2 DEF Counted, Starting, Acks
<1>9. KbdOnly' /\ HaltsForReason'
  BY <1>2, <1>4 DEF KbdOnly, HaltsForReason
<1>10. Served'
  <2>1. SUFFICES ASSUME NEW e \in Devices, Registered(e), e # d, running[e], IrqOf[e] # NoIrq
                 PROVE  protocol'[IrqOf[e]] = e
    BY <1>2, <1>6 DEF Served
  <2>2. IrqOf[e] \in Irqs /\ IrqOf[e] # IrqOf[d]
    BY <2>1
  <2>3. protocol[IrqOf[e]] = e
    BY <1>2, <2>1 DEF Served
  <2>4. QED
    BY <1>4, <2>2, <2>3
<1>11. QED
  BY <1>7, <1>8, <1>9, <1>10

LEMMA RestartIInv ==
  ASSUME IInv, NEW u \in Uids, Restart(u)
  PROVE  IInv'
<1> USE DevMgrAssumption DEF IInv
<1>0. SUFFICES ASSUME Valid(u) PROVE IInv'
  BY UnknownIInv DEF Restart
<1>1. PICK d \in Devices : FromUid(u) = d /\ Registered(d)
  BY <1>0, ValidUid
<1>2. /\ at = "rest" /\ ~halted /\ asked' = {u} /\ named' = {} /\ at' = "start" /\ cur' = d
      /\ UNCHANGED <<table, duid, uid, running, protocol, serving, unacked, halted>>
  BY <1>0, <1>1 DEF Restart, With, HaltUnknown, Thread
<1>3. Typed' /\ UidsUnique' /\ HaltsForReason' /\ KbdOnly'
  BY <1>2 DEF Typed, UidsUnique, HaltsForReason, KbdOnly
<1>4. Starting' /\ Served' /\ Acks'
  BY <1>1, <1>2 DEF Starting, Served, Acks, Registered
<1>5. Counted'
  BY <1>2 DEF Counted
<1>6. QED
  BY <1>3, <1>4, <1>5

LEMMA LookUpIInv ==
  ASSUME IInv, NEW d \in Devices, LookUp(d)
  PROVE  IInv'
<1> USE DevMgrAssumption DEF IInv
<1>1. /\ asked' = {} /\ named' = {d} /\ halted' = ~Registered(d) /\ ~halted /\ at = "rest"
      /\ UNCHANGED <<table, duid, uid, running, protocol, at, cur, serving, unacked>>
  BY DEF LookUp, Thread
<1>2. Typed' /\ UidsUnique' /\ Starting' /\ Served' /\ KbdOnly' /\ Acks'
  BY <1>1 DEF Typed, UidsUnique, Starting, Served, KbdOnly, Acks, Registered
<1>3. Counted'
  BY <1>1 DEF Counted
<1>4. HaltsForReason'
  BY <1>1 DEF HaltsForReason, Registered
<1>5. QED
  BY <1>2, <1>3, <1>4

LEMMA RaiseIInv ==
  ASSUME IInv, NEW q \in Irqs, Raise(q)
  PROVE  IInv'
<1> USE DevMgrAssumption DEF IInv
<1>1. /\ serving' = q /\ unacked' = (IF q \in Slave THEN Pics ELSE {"master"}) /\ ~halted
      /\ UNCHANGED <<table, duid, uid, running, protocol, at, cur, asked, named, halted>>
  BY DEF Raise
<1>2. unacked' \subseteq Pics
  BY <1>1 DEF Pics
<1>3. Typed' /\ UidsUnique' /\ Starting' /\ HaltsForReason' /\ KbdOnly' /\ Served'
  BY <1>1, <1>2 DEF Typed, UidsUnique, Starting, HaltsForReason, Registered, KbdOnly, Served
<1>4. Counted' /\ Acks'
  BY <1>1 DEF Counted, Acks
<1>5. QED
  BY <1>3, <1>4

LEMMA HandleIInv ==
  ASSUME IInv, Handle
  PROVE  IInv'
<1> USE DevMgrAssumption DEF IInv
<1>1. /\ ~halted /\ serving \in Irqs /\ serving' = NoIrq
      /\ unacked' = unacked \ (IF serving \in Slave THEN Pics ELSE {"master"})
      /\ halted' = (protocol[serving] = Kbd /\ ~Registered(Kbd))
      /\ UNCHANGED <<table, duid, uid, running, protocol, at, cur, asked, named>>
  BY DEF Handle, Typed
<1>2. unacked' = {}
  BY <1>1 DEF Acks
<1>3. Typed' /\ UidsUnique' /\ Starting' /\ KbdOnly' /\ Served' /\ Acks'
  BY <1>1, <1>2 DEF Typed, UidsUnique, Starting, Registered, KbdOnly, Served, Acks
<1>4. Counted'
  BY <1>1 DEF Counted
<1>5. HaltsForReason'
  BY <1>1 DEF HaltsForReason, KbdOnly, Registered
<1>6. QED
  BY <1>3, <1>4, <1>5

LEMMA NextIInv == IInv /\ [Next]_vars => IInv'
<1> SUFFICES ASSUME IInv, [Next]_vars PROVE IInv'
  OBVIOUS
<1>1. CASE UNCHANGED vars
  BY <1>1 DEF vars, IInv, Typed, UidsUnique, Counted, Starting, Served, KbdOnly, Acks,
     HaltsForReason, Registered
<1>2. CASE \E d \in Devices : Register(d) \/ RegisterNoSlot(d) \/ LookUp(d)
  BY <1>2, RegisterIInv, RegisterNoSlotIInv, LookUpIInv
<1>3. CASE Start \/ Connect \/ Result \/ Bus
  BY <1>3, StartIInv, ConnectIInv, ResultIInv, BusIInv
<1>4. CASE \E u \in Uids : Stop(u) \/ Unregister(u) \/ Restart(u)
  BY <1>4, StopIInv, UnregisterIInv, RestartIInv
<1>5. CASE (\E q \in Irqs : Raise(q)) \/ Handle
  BY <1>5, RaiseIInv, HandleIInv
<1>6. QED
  BY <1>1, <1>2, <1>3, <1>4, <1>5 DEF Next

LEMMA IInvAlways == Spec => []IInv
BY InitIInv, NextIInv, PTL DEF Spec

-----------------------------------------------------------------------------
(* Theorems. *)

\* Every variable keeps its type; no more than one uid beyond the valid ones is ever
\* given (devmgr.c:34).
THEOREM TypeCorrect == Spec => []TypeOK
<1>1. IInv => TypeOK
  <2>1. ASSUME IInv PROVE duid \in 0 .. DEVICE_COUNT + 1
    BY <2>1, DevMgrAssumption DEF IInv, Typed, Counted
  <2>2. QED
    BY <2>1 DEF IInv, Typed, TypeOK
<1>2. QED
  BY IInvAlways, <1>1, PTL

\* Two registered devices never have the same uid (devmgr_register).
THEOREM UniqueUids == Spec => []UidsUnique
<1>1. IInv => UidsUnique
  BY DEF IInv
<1>2. QED
  BY IInvAlways, <1>1, PTL

\* devmgr_from_uid leads from a valid uid to the device that has it.
THEOREM AlwaysFindable == Spec => []Findable
<1>1. IInv => Findable
  BY Found DEF IInv, Findable
<1>2. QED
  BY IInvAlways, <1>1, PTL

\* A device that runs is connected to its interrupt, whatever is started, stopped and
\* taken off the table (devmgr_start, devmgr_stop, devmgr_unregister).
THEOREM RunningIsServed == Spec => []ServedWhenRunning
<1>1. IInv => ServedWhenRunning
  BY DEF IInv, Served, ServedWhenRunning
<1>2. QED
  BY IInvAlways, <1>1, PTL

\* debug_exception is called only when uids have run out, by the handler of a keyboard
\* that was taken off the table, or by a call with a uid or a name that no device on
\* the table has: not by the start of a device that was just registered, nor by a call
\* with what devmgr_register gave out and nobody took back.
THEOREM ReasonsToHalt == Spec => []HaltsForReason
<1>1. IInv => HaltsForReason
  BY DEF IInv
<1>2. QED
  BY IInvAlways, <1>1, PTL

\* Every interrupt is acknowledged, at both controllers if it came from the second
\* (irq_ack).
THEOREM AllAcknowledged == Spec => []NoneWaits
<1>1. IInv => NoneWaits
  BY DEF IInv, Acks, NoneWaits
<1>2. QED
  BY IInvAlways, <1>1, PTL

\* All of it: devices keep their uids and their interrupts through any sequence of
\* calls and interrupts.
THEOREM AlwaysServed == Spec => []DevicesServed
<1>1. TypeOK /\ UidsUnique /\ Findable /\ ServedWhenRunning /\ NoneWaits /\ HaltsForReason
        => DevicesServed
  BY DEF DevicesServed
<1>2. QED
  BY <1>1, TypeCorrect, UniqueUids, AlwaysFindable, RunningIsServed, AllAcknowledged,
     ReasonsToHalt, PTL
=============================================================================
