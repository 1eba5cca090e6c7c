------------------------------- MODULE DevMgr -------------------------------
(***************************************************************************)
(* The device manager of NapalmOS (hal/devmgr.c), the table of interrupt    *)
(* handlers (hal/ints/idt.c) and the part of the drivers that connects the  *)
(* two. The drivers are started one after the other; interrupts come        *)
(* between any two steps, and the keyboard's looks its device up by name.   *)
(***************************************************************************)
EXTENDS Integers, FiniteSets

CONSTANTS
  Devices,      \* records that drivers register
  Kbd,          \* the keyboard: its interrupt is registered by ps2_init
  Irqs, KbdIrq, \* interrupt lines
  Slave,        \* those of the second interrupt controller
  IrqOf,        \* the line that a driver's start registers, or NoIrq
  Failing,      \* devices that may be absent
  None, NoIrq,
  DEVICE_COUNT  \* slots of the table, and how many uids are valid

ASSUME DevMgrAssumption ==
  /\ DEVICE_COUNT \in Nat \ {0}
  /\ Kbd \in Devices /\ None \notin Devices
  /\ KbdIrq \in Irqs /\ NoIrq \notin Irqs /\ Slave \subseteq Irqs
  /\ IrqOf \in [Devices -> Irqs \cup {NoIrq}] /\ IrqOf[Kbd] = NoIrq
  /\ \A d \in Devices : IrqOf[d] # KbdIrq
  /\ \A d, e \in Devices : IrqOf[d] = IrqOf[e] /\ IrqOf[d] # NoIrq => d = e

VARIABLES
  table,      \* _devices
  duid,       \* _duid - DUID_MIN
  uid,        \* of each device's record, less DUID_MIN
  running,    \* of each device's record
  protocol,   \* _protocols: whose handler it is
  at,         \* where the thread is
  cur,        \* the device it registers, starts or stops
  serving,    \* the interrupt that is handled
  unacked,    \* interrupt controllers that wait for an acknowledgement
  asked,      \* history: the uid that the thread's last call came with, if one did
  named,      \* history: the device whose name it came with, if one did
  halted      \* debug_exception

vars == <<table, duid, uid, running, protocol, at, cur, serving, unacked, asked, named, halted>>

Slots == 1..DEVICE_COUNT
Uids == -1 .. DEVICE_COUNT + 1  \* those that a call may come with, less DUID_MIN
Pics == {"master", "slave"}

TypeOK ==
  /\ table \in [Slots -> Devices \cup {None}]
  /\ duid \in 0 .. DEVICE_COUNT + 1
  /\ uid \in [Devices -> Nat]
  /\ running \in [Devices -> BOOLEAN]
  /\ protocol \in [Irqs -> Devices \cup {None}]
  /\ at \in {"rest", "start", "connect", "result", "bus"}
  /\ cur \in Devices \cup {None}
  /\ serving \in Irqs \cup {NoIrq}
  /\ unacked \subseteq Pics
  /\ asked \subseteq Uids /\ named \subseteq Devices
  /\ halted \in BOOLEAN

Registered(d) == \E i \in Slots : table[i] = d

Init ==
  /\ table = [i \in Slots |-> None]
  /\ duid = 0
  /\ uid = [d \in Devices |-> 0]
  /\ running = [d \in Devices |-> FALSE]
  /\ protocol = [q \in Irqs |-> None]
  /\ at = "rest" /\ cur = None
  /\ serving = NoIrq /\ unacked = {}
  /\ asked = {} /\ named = {}
  /\ halted = FALSE

-----------------------------------------------------------------------------
(* Lookups. *)

\* devmgr_validate and devmgr_from_uid
Valid(u) == 0 <= u /\ u < DEVICE_COUNT /\ \E i \in Slots : table[i] # None /\ uid[table[i]] = u
First(P) == CHOOSE i \in P : \A j \in P : i <= j
FromUid(u) ==
  IF Valid(u) THEN table[First({i \in Slots : table[i] # None /\ uid[table[i]] = u})] ELSE None

-----------------------------------------------------------------------------
(* A thread calls the device manager; no handler is running. *)

Thread(place) == ~halted /\ serving = NoIrq /\ at = place

\* A driver's init function makes the record anew and registers it.
Fresh(d) == running' = [running EXCEPT ![d] = FALSE]

Register(d) ==
  /\ Thread("rest") /\ ~Registered(d)
  /\ Fresh(d)
  /\ \E i \in Slots :
       /\ table[i] = None /\ \A j \in Slots : table[j] = None => i <= j
       /\ table' = [table EXCEPT ![i] = d]
  /\ uid' = [uid EXCEPT ![d] = duid]
  /\ duid' = duid + 1
  /\ at' = "start" /\ cur' = d
  /\ asked' = {} /\ named' = {}
  /\ UNCHANGED <<protocol, serving, unacked, halted>>

RegisterNoSlot(d) ==
  /\ Thread("rest") /\ ~Registered(d)
  /\ \A i \in Slots : table[i] # None
  /\ Fresh(d)
  /\ asked' = {} /\ named' = {}
  /\ halted' = TRUE
  /\ UNCHANGED <<table, duid, uid, protocol, at, cur, serving, unacked>>

\* devmgr_start
Start ==
  /\ Thread("start")
  /\ LET d == FromUid(uid[cur]) IN
     IF d = None
     THEN halted' = TRUE /\ UNCHANGED <<running, at>>
     ELSE /\ running' = [running EXCEPT ![d] = TRUE]
          /\ at' = "connect"
          /\ UNCHANGED halted
  /\ UNCHANGED <<table, duid, uid, protocol, cur, serving, unacked, asked, named>>

\* The driver's start function registers its handler ...
Connect ==
  /\ Thread("connect")
  /\ protocol' = IF IrqOf[cur] = NoIrq THEN protocol ELSE [protocol EXCEPT ![IrqOf[cur]] = cur]
  /\ at' = "result"
  /\ UNCHANGED <<table, duid, uid, running, cur, serving, unacked, asked, named, halted>>

\* ... and says whether the device is there.
Result ==
  /\ Thread("result")
  /\ \E res \in {TRUE} \cup (IF cur \in Failing THEN {FALSE} ELSE {}) :
       running' = [running EXCEPT ![cur] = res]
  /\ at' = IF cur = Kbd THEN "bus" ELSE "rest"
  /\ cur' = None
  /\ UNCHANGED <<table, duid, uid, protocol, serving, unacked, asked, named, halted>>

\* ps2_init after kbd_init
Bus ==
  /\ Thread("bus")
  /\ protocol' = [protocol EXCEPT ![KbdIrq] = Kbd]
  /\ at' = "rest"
  /\ UNCHANGED <<table, duid, uid, running, cur, serving, unacked, asked, named, halted>>

\* A driver's stop function; devmgr_stop and devmgr_unregister call it.
Disconnected(d) == IF IrqOf[d] = NoIrq THEN protocol ELSE [protocol EXCEPT ![IrqOf[d]] = None]

\* A call that comes with a uid, any: where no device has it the machine halts.
With(u) == Thread("rest") /\ asked' = {u} /\ named' = {}
HaltUnknown(u) ==
  /\ ~Valid(u) /\ halted' = TRUE
  /\ UNCHANGED <<table, duid, uid, running, protocol, at, cur, serving, unacked>>

Stop_LeavesRunning(u) ==
  /\ With(u)
  /\ \/ HaltUnknown(u)
     \/ /\ Valid(u)
        /\ protocol' = Disconnected(FromUid(u))
        /\ UNCHANGED <<table, duid, uid, running, at, cur, serving, unacked, halted>>

Stop(u) ==
  /\ With(u)
  /\ \/ HaltUnknown(u)
     \/ /\ Valid(u)
        /\ protocol' = Disconnected(FromUid(u))
        /\ running' = [running EXCEPT ![FromUid(u)] = FALSE]
        /\ UNCHANGED <<table, duid, uid, at, cur, serving, unacked, halted>>

\* The record still says that it runs.
Unregister(u) ==
  /\ With(u)
  /\ \/ HaltUnknown(u)
     \/ /\ Valid(u)
        /\ LET d == FromUid(u) IN
           /\ protocol' = IF running[d] THEN Disconnected(d) ELSE protocol
           /\ \E i \in Slots : /\ table[i] = d
                               /\ \A j \in Slots : table[j] = d => i <= j
                               /\ table' = [table EXCEPT ![i] = None]
        /\ UNCHANGED <<duid, uid, running, at, cur, serving, unacked, halted>>

\* devmgr_start of a device that was stopped, or of none
Restart(u) ==
  /\ With(u)
  /\ \/ HaltUnknown(u)
     \/ /\ Valid(u)
        /\ cur' = FromUid(u)
        /\ at' = "start"
        /\ UNCHANGED <<table, duid, uid, running, protocol, serving, unacked, halted>>

\* devmgr_from_name, as time.c, the commands and the editors call it
LookUp(d) ==
  /\ Thread("rest")
  /\ asked' = {} /\ named' = {d}
  /\ halted' = ~Registered(d)
  /\ UNCHANGED <<table, duid, uid, running, protocol, at, cur, serving, unacked>>

-----------------------------------------------------------------------------
(* Interrupts: the gate disables them until the handler is through. *)

Raise(q) ==
  /\ ~halted /\ serving = NoIrq
  /\ serving' = q
  /\ unacked' = IF q \in Slave THEN Pics ELSE {"master"}
  /\ UNCHANGED <<table, duid, uid, running, protocol, at, cur, asked, named, halted>>

\* irq_ack, with or without a handler; ps2_callback then looks the keyboard up.
Handle ==
  /\ ~halted /\ serving # NoIrq
  /\ unacked' = unacked \ (IF serving \in Slave THEN Pics ELSE {"master"})
  /\ halted' = (protocol[serving] = Kbd /\ ~Registered(Kbd))
  /\ serving' = NoIrq
  /\ UNCHANGED <<table, duid, uid, running, protocol, at, cur, asked, named>>

Next ==
  \/ \E d \in Devices : Register(d) \/ RegisterNoSlot(d) \/ LookUp(d)
  \/ Start \/ Connect \/ Result \/ Bus
  \/ \E u \in Uids : Stop(u) \/ Unregister(u) \/ Restart(u)
  \/ \E q \in Irqs : Raise(q)
  \/ Handle

Spec == Init /\ [][Next]_vars

-----------------------------------------------------------------------------
(* Properties. *)

\* Every device in the table has a uid of its own, below those still to be given.
UidsUnique ==
  \A i, j \in Slots :
    table[i] # None =>
      /\ uid[table[i]] < duid
      /\ table[j] # None /\ uid[table[i]] = uid[table[j]] => i = j

\* A uid leads to its device, as long as uids are valid.
Findable ==
  \A d \in Devices : Registered(d) /\ uid[d] < DEVICE_COUNT => FromUid(uid[d]) = d

\* While no driver is being started, the interrupts of a device that runs reach its
\* handler, whatever was stopped, taken off and registered again.
ServedWhenRunning ==
  at = "rest" => \A d \in Devices :
    Registered(d) /\ running[d] /\ IrqOf[d] # NoIrq => protocol[IrqOf[d]] = d

\* The machine halts for one of these reasons: as many devices were registered as
\* there are uids, since uids are not used again (devmgr.c:34); a key was typed after
\* the keyboard was taken off the table, which leaves its interrupt connected; or a
\* call came with a uid or a name that no device on the table has (devmgr.c:47, :65,
\* :79, :103). The start of a device that was just registered is not such a call.
HaltsForReason ==
  halted => \/ duid >= DEVICE_COUNT
            \/ protocol[KbdIrq] = Kbd /\ ~Registered(Kbd)
            \/ \E u \in asked : \A i \in Slots : table[i] # None => uid[table[i]] # u
            \/ \E d \in named : ~Registered(d)

\* Interrupt controllers never wait for an acknowledgement that does not come.
NoneWaits == serving = NoIrq => unacked = {}

\* Devices keep their uids and their interrupts through any sequence of calls, an
\* interrupt in the middle of a start included, and the machine halts for the reasons
\* given (devmgr.c:26-107, idt.c:145).
DevicesServed ==
  /\ TypeOK /\ UidsUnique /\ Findable /\ ServedWhenRunning /\ NoneWaits
  /\ HaltsForReason
=============================================================================
