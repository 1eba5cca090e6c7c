---------------------------- MODULE DriversProofs ----------------------------
(***************************************************************************)
(* Proofs about the disk driver, the counters of milliseconds and the PCI   *)
(* bus, for every size of index, count, mantissa and table.                 *)
(***************************************************************************)
EXTENDS Drivers, TLAPS, FiniteSetTheorems, WellFoundedInduction

-----------------------------------------------------------------------------
(* Arithmetic.                                                             *)

LEMMA ModSmall ==
  ASSUME NEW d \in Nat \ {0}, NEW n \in 0 .. d - 1
  PROVE  n % d = n
OBVIOUS

\* A set of natural numbers that is not empty has a least element: the intervals
\* up to its elements are finite, and strict inclusion is well-founded on those.
LEMMA Least ==
  ASSUME NEW S, S \subseteq Nat, S # {} PROVE \E x \in S : \A y \in S : x <= y
<1> DEFINE O == StrictSubsetOrdering(Nat)
           J == {0 .. n : n \in S}
<1>1. J \subseteq FiniteSubsetsOf(Nat) /\ J # {}
  <2>1. ASSUME NEW n \in S PROVE 0 .. n \in FiniteSubsetsOf(Nat)
    <3>1. IsFiniteSet(0 .. n)
      BY FS_Interval
    <3>2. 0 .. n \subseteq Nat
      OBVIOUS
    <3>3. QED
      BY <3>1, <3>2 DEF FiniteSubsetsOf
  <2>2. QED
    BY <2>1
<1>2. IsWellFoundedOn(O, FiniteSubsetsOf(Nat))
  BY FS_StrictSubsetOrderingWellFounded
<1>3. PICK j \in J : \A k \in J : ~ (<<k, j>> \in O)
  BY <1>1, <1>2, WFMin
<1>4. PICK x \in S : j = 0 .. x
  BY <1>3
<1>5. ASSUME NEW y \in S, y < x PROVE FALSE
  <2>1. (0 .. y) \subseteq 0 .. x /\ x \notin 0 .. y /\ x \in 0 .. x
    BY <1>5
  <2>2. 0 .. x \in SUBSET Nat /\ 0 .. y \in SUBSET Nat
    OBVIOUS
  <2>3. <<0 .. y, 0 .. x>> \in O
    BY <2>1, <2>2 DEF StrictSubsetOrdering
  <2>4. 0 .. y \in J
    BY <1>5
  <2> HIDE DEF O, J
  <2>5. QED
    BY <1>3, <1>4, <2>3, <2>4
<1>6. QED
  BY <1>5

\* Induction, for a set.
LEMMA Induct ==
  ASSUME NEW S, 0 \in S, \A n \in Nat : n \in S => n + 1 \in S
  PROVE  Nat \subseteq S
<1>1. SUFFICES ASSUME Nat \ S # {} PROVE FALSE
  OBVIOUS
<1>2. PICK x \in Nat \ S : \A y \in Nat \ S : x <= y
  BY <1>1, Least
<1>3. x # 0 /\ x - 1 \in Nat /\ ~ (x <= x - 1) /\ (x - 1) + 1 = x
  BY <1>2
<1>4. x - 1 \in S
  BY <1>2, <1>3
<1>5. QED
  BY <1>2, <1>3, <1>4

-----------------------------------------------------------------------------
(* Powers of two: the recursive function is what its definition says.       *)

Chain(n) == {f \in [0 .. n -> Nat] : f[0] = 1 /\ \A k \in 1 .. n : f[k] = 2 * f[k - 1]}

LEMMA ChainExists == \A n \in Nat : Chain(n) # {}
<1> DEFINE S == {n \in Nat : Chain(n) # {}}
<1>1. 0 \in S
  <2>1. [k \in 0 .. 0 |-> 1] \in Chain(0)
    BY DEF Chain
  <2>2. QED
    BY <2>1
<1>2. ASSUME NEW n \in Nat, n \in S PROVE n + 1 \in S
  <2>1. PICK f : f \in Chain(n)
    BY <1>2
  <2> DEFINE g == [k \in 0 .. n + 1 |-> IF k = n + 1 THEN 2 * f[n] ELSE f[k]]
  <2>2. /\ f \in [0 .. n -> Nat] /\ f[0] = 1 /\ \A k \in 1 .. n : f[k] = 2 * f[k - 1]
    BY <2>1 DEF Chain
  <2>3. g \in [0 .. n + 1 -> Nat] /\ g[0] = 1
    BY <2>2
  <2>4. ASSUME NEW k \in 1 .. n + 1 PROVE g[k] = 2 * g[k - 1]
    <3>1. CASE k = n + 1
      BY <3>1
    <3>2. CASE k # n + 1
      <4>1. k \in 1 .. n /\ k - 1 \in 0 .. n /\ k \in 0 .. n + 1 /\ k - 1 \in 0 .. n + 1
            /\ k - 1 # n + 1
        BY <3>2
      <4>2. QED
        BY <2>2, <3>2, <4>1
    <3>3. QED
      BY <3>1, <3>2
  <2> HIDE DEF g
  <2>5. g \in Chain(n + 1)
    BY <2>3, <2>4 DEF Chain
  <2>6. QED
    BY <2>5
<1> HIDE DEF S
<1>3. Nat \subseteq S
  BY <1>1, <1>2, Induct
<1>4. QED
  BY <1>3 DEF S

LEMMA ChainsAgree ==
  \A k \in Nat : \A n, m \in Nat :
    k <= n /\ k <= m => \A f \in Chain(n), g \in Chain(m) : f[k] = g[k]
<1> DEFINE A0(k) == \A n, m \in Nat :
                     k <= n /\ k <= m => \A f \in Chain(n), g \in Chain(m) : f[k] = g[k]
           S == {k \in Nat : A0(k)}
<1>1. 0 \in S
  BY DEF Chain
<1>2. ASSUME NEW k \in Nat, k \in S PROVE k + 1 \in S
  <2>1. ASSUME NEW n \in Nat, NEW m \in Nat, k + 1 <= n, k + 1 <= m,
               NEW f \in Chain(n), NEW g \in Chain(m)
        PROVE  f[k + 1] = g[k + 1]
    <3>1. k <= n /\ k <= m /\ k + 1 \in 1 .. n /\ k + 1 \in 1 .. m /\ (k + 1) - 1 = k
      BY <2>1
    <3>2. f[k + 1] = 2 * f[k] /\ g[k + 1] = 2 * g[k]
      BY <3>1 DEF Chain
    <3>3. f[k] = g[k]
      BY <1>2, <3>1
    <3>4. QED
      BY <3>2, <3>3
  <2>2. A0(k + 1)
    BY <2>1
  <2>3. QED
    BY <2>2
<1> HIDE DEF S
<1>3. Nat \subseteq S
  BY <1>1, <1>2, Induct
<1>4. QED
  BY <1>3 DEF S

LEMMA PowIs ==
  /\ T!Pow \in [Nat -> Nat \ {0}]
  /\ T!Pow[0] = 1
  /\ \A n \in Nat : T!Pow[n + 1] = 2 * T!Pow[n]
<1> DEFINE c(n) == CHOOSE f : f \in Chain(n)
           h == [n \in Nat |-> c(n)[n]]
<1>1. \A n \in Nat : c(n) \in Chain(n)
  BY ChainExists
<1> HIDE DEF c
<1>2. h[0] = 1 /\ h \in [Nat -> Nat]
  BY <1>1 DEF Chain
<1>3. ASSUME NEW n \in Nat PROVE h[n + 1] = 2 * h[n]
  <2>1. c(n + 1)[n + 1] = 2 * c(n + 1)[n]
    <3>1. n + 1 \in Nat /\ n + 1 \in 1 .. n + 1 /\ (n + 1) - 1 = n
      OBVIOUS
    <3>2. QED
      BY <1>1, <3>1 DEF Chain
  <2>2. c(n + 1)[n] = c(n)[n]
    BY <1>1, ChainsAgree
  <2>3. QED
    BY <2>1, <2>2
<1> HIDE DEF h
<1>4. h = [n \in Nat |-> IF n = 0 THEN 1 ELSE 2 * h[n - 1]]
  <2>1. ASSUME NEW n \in Nat PROVE h[n] = IF n = 0 THEN 1 ELSE 2 * h[n - 1]
    <3>1. CASE n = 0
      BY <1>2, <3>1
    <3>2. CASE n # 0
      <4>1. n - 1 \in Nat /\ (n - 1) + 1 = n
        BY <3>2
      <4>2. QED
        BY <1>3, <3>2, <4>1
    <3>3. QED
      BY <3>1, <3>2
  <2>2. h = [n \in Nat |-> h[n]]
    BY <1>2
  <2>3. QED
    BY <2>1, <2>2
<1>5. T!Pow = [n \in Nat |-> IF n = 0 THEN 1 ELSE 2 * T!Pow[n - 1]]
  BY <1>4 DEF T!Pow
<1>6. T!Pow[0] = 1
  BY <1>5
<1>7. ASSUME NEW n \in Nat PROVE T!Pow[n + 1] = 2 * T!Pow[n]
  <2>1. n + 1 \in Nat /\ n + 1 # 0 /\ (n + 1) - 1 = n
    OBVIOUS
  <2>2. QED
    BY <1>5, <2>1
<1>8. \A n \in Nat : T!Pow[n] \in Nat \ {0}
  <2> DEFINE S == {n \in Nat : T!Pow[n] \in Nat \ {0}}
  <2>1. 0 \in S
    BY <1>6
  <2>2. \A n \in Nat : n \in S => n + 1 \in S
    BY <1>7
  <2> HIDE DEF S
  <2>3. Nat \subseteq S
    BY <2>1, <2>2, Induct
  <2>4. QED
    BY <2>3 DEF S
<1>9. T!Pow = [n \in Nat |-> T!Pow[n]]
  BY <1>5
<1>10. QED
  BY <1>6, <1>7, <1>8, <1>9

-----------------------------------------------------------------------------
(* The disk.                                                               *)

Statuses == {"BSY", "DRQ", "ERR", "RDY"}
Commands == {"none", "identify", "flush", "read", "write"}

\* The caller's memory after n sectors.
Got(n) == [u \in A!Units |-> IF u < n THEN A!Sector(u, 0)
                             ELSE IF u = n /\ n > 0 THEN A!Sector(n - 1, 1) ELSE A!Own[u]]

Busy == {"first", "spin", "signature", "wait"}


\* Types, and that memory is what some number of sectors leaves.
AtaTypes ==
  /\ ataRunning \in BOOLEAN /\ identified \in BOOLEAN /\ irq14 \in BOOLEAN
  /\ pc \in Busy \cup {"rest", "read", "write", "flush", "halted"}
  /\ count \in 0..MaxCount /\ i \in 0..MaxCount /\ buff \in A!Units
  /\ drive \in [cmd : Commands, left : 0 .. CountSize, status : SUBSET Statuses,
                packet : BOOLEAN]
  /\ \E n \in 0..MaxCount : mem = Got(n)
  /\ disk \in Seq(Seq({A!Own[u] : u \in A!Units})) /\ Len(disk) <= CountSize
  /\ \A s \in 1 .. Len(disk) : disk[s] = <<A!Own[s - 1], A!Own[s]>>

\* A drive with data carries out a command that has some, and one that is not
\* there has none.
DriveSays ==
  /\ "DRQ" \in drive.status => drive.cmd = "identify" \/ drive.left > 0
  /\ "DRQ" \in drive.status => drive.cmd # "flush"
  /\ drive.cmd = "identify" => drive.left = 0
  /\ drive.status = {} => drive.left = 0

\* What the driver knows of the drive.
Known ==
  /\ ataRunning => identified \/ pc \in Busy
  /\ pc \in Busy => drive.left = 0 /\ ataRunning
  /\ pc \in Busy \ {"first"} => drive.status # {}
  /\ identified => drive.status # {}
  /\ pc \in {"read", "write"} => drive.cmd = pc

\* How far the drive and the driver are.
Transfer ==
  /\ pc = "read" => /\ i + drive.left = A!Asked(count) /\ i <= count
                    /\ buff = i /\ mem = Got(i)
  /\ pc = "write" => /\ Len(disk) + drive.left = A!Asked(count) /\ i <= Len(disk)
                     /\ i < IndexSize /\ buff = Len(disk) /\ mem = Got(0)
  /\ pc \in {"rest", "flush"} /\ drive.left > 0 => count = 0

AtaIInv == AtaTypes /\ DriveSays /\ Known /\ Transfer

LEMMA AtaConstants ==
  /\ IndexSize \in Nat \ {0} /\ CountSize \in Nat /\ CountSize > IndexSize
  /\ MaxCount \in Nat /\ MaxCount > CountSize
  /\ A!Units = 0 .. 2 * MaxCount + 1
BY DriversAssumption DEF A!AtaAssumption, A!Units

\* The drive's count is the call's, when that is from 1 to CountSize.
LEMMA AskedIs ==
  ASSUME NEW c \in Nat
  PROVE  /\ A!Asked(c) \in 1 .. CountSize
         /\ c \in 1 .. CountSize => A!Asked(c) = c
<1>1. CountSize \in Nat \ {0}
  BY AtaConstants
<1>2. c % CountSize \in 0 .. CountSize - 1
  BY <1>1
<1>3. c \in 1 .. CountSize - 1 => c % CountSize = c
  BY <1>1
<1>4. CountSize % CountSize = 0
  BY <1>1
<1>5. QED
  BY <1>1, <1>2, <1>3, <1>4 DEF A!Asked

\* What a busy drive becomes, and one that is given a command.
LEMMA ServedIs ==
  ASSUME NEW d, d \in [cmd : Commands, left : 0 .. CountSize, status : SUBSET Statuses,
                       packet : BOOLEAN],
         NEW e \in A!Served(d)
  PROVE  /\ e \in [cmd : Commands, left : 0 .. CountSize, status : SUBSET Statuses,
                   packet : BOOLEAN]
         /\ e.cmd = d.cmd /\ e.left = d.left /\ e.packet = d.packet
         /\ e.status # {}
         /\ "DRQ" \in e.status => d.cmd # "flush" /\ (d.cmd = "identify" \/ d.left > 0)
<1>1. \E st \in SUBSET Statuses :
        /\ e = [d EXCEPT !.status = st] /\ st # {}
        /\ "DRQ" \in st => d.cmd # "flush" /\ (d.cmd = "identify" \/ d.left > 0)
  <2>1. CASE d.cmd # "flush" /\ (d.cmd = "identify" \/ d.left > 0)
    <3>1. PICK x \in {"DRQ", "ERR"} : e = [d EXCEPT !.status = {"RDY", x}]
      BY <2>1 DEF A!Served
    <3>2. {"RDY", x} \in SUBSET Statuses /\ {"RDY", x} # {}
      BY DEF Statuses
    <3>3. QED
      BY <2>1, <3>1, <3>2
  <2>2. CASE ~ (d.cmd # "flush" /\ (d.cmd = "identify" \/ d.left > 0))
    <3>1. e = [d EXCEPT !.status = {"RDY"}]
      BY <2>2 DEF A!Served
    <3>2. {"RDY"} \in SUBSET Statuses /\ "DRQ" \notin {"RDY"}
      BY DEF Statuses
    <3>3. QED
      BY <3>1, <3>2
  <2>3. QED
    BY <2>1, <2>2
<1>2. QED
  BY <1>1

LEMMA WorkingIs ==
  ASSUME NEW d, d \in [cmd : Commands, left : 0 .. CountSize, status : SUBSET Statuses,
                       packet : BOOLEAN],
         NEW e \in A!Working(d)
  PROVE  /\ e \in [cmd : Commands, left : 0 .. CountSize, status : SUBSET Statuses,
                   packet : BOOLEAN]
         /\ e.cmd = d.cmd /\ e.left = d.left /\ e.packet = d.packet
         /\ e.status # {}
         /\ "DRQ" \in e.status => d.cmd # "flush" /\ (d.cmd = "identify" \/ d.left > 0)
<1>1. CASE e = [d EXCEPT !.status = {"BSY"}]
  BY <1>1 DEF Statuses
<1>2. CASE e \in A!Served(d)
  BY <1>2, ServedIs
<1>3. QED
  BY <1>1, <1>2 DEF A!Working

LEMMA AnswersIs ==
  ASSUME AtaTypes, DriveSays, NEW cmd \in Commands, NEW n \in 0 .. CountSize,
         drive' \in A!Answers(cmd, n), cmd = "identify" => n = 0
  PROVE  /\ drive' \in [cmd : Commands, left : 0 .. CountSize, status : SUBSET Statuses,
                        packet : BOOLEAN]
         /\ DriveSays'
         /\ drive'.status = {} <=> drive.status = {}
         /\ IF drive.status = {} THEN drive'.left = 0
            ELSE drive'.left = n /\ drive'.cmd = cmd
<1>1. CASE drive.status = {}
  BY <1>1 DEF AtaTypes, DriveSays, A!Answers, A!Absent
<1>2. CASE drive.status # {}
  <2> DEFINE d == [drive EXCEPT !.cmd = cmd, !.left = n]
  <2>1. /\ d \in [cmd : Commands, left : 0 .. CountSize, status : SUBSET Statuses,
                  packet : BOOLEAN]
        /\ d.cmd = cmd /\ d.left = n
    BY DEF AtaTypes
  <2>2. drive' \in A!Working(d)
    BY <1>2 DEF A!Answers, A!Absent
  <2> HIDE DEF d
  <2>3. QED
    BY <1>2, <2>1, <2>2, WorkingIs DEF DriveSays
<1>3. QED
  BY <1>1, <1>2

LEMMA TransferredIs ==
  ASSUME AtaTypes, DriveSays, Known, pc \in {"read", "write"},
         "DRQ" \in drive.status, A!Transferred
  PROVE  /\ drive' \in [cmd : Commands, left : 0 .. CountSize, status : SUBSET Statuses,
                        packet : BOOLEAN]
         /\ DriveSays'
         /\ drive.left > 0 /\ drive'.left = drive.left - 1
         /\ drive'.cmd = drive.cmd /\ drive'.status # {}
<1> DEFINE d == [drive EXCEPT !.left = @ - 1]
<1>1. drive.left > 0 /\ drive.left - 1 \in 0 .. CountSize /\ drive.cmd # "identify"
  BY AtaConstants DEF AtaTypes, DriveSays, Known
<1>2. /\ d \in [cmd : Commands, left : 0 .. CountSize, status : SUBSET Statuses,
                packet : BOOLEAN]
      /\ d.cmd = drive.cmd /\ d.left = drive.left - 1
  BY <1>1 DEF AtaTypes
<1>3. drive' \in A!Working(d)
  BY DEF A!Transferred
<1> HIDE DEF d
<1>4. QED
  BY <1>1, <1>2, <1>3, WorkingIs DEF DriveSays

\* One more sector leaves what the definition of Got says.
LEMMA GotNext ==
  ASSUME NEW n \in 0 .. MaxCount - 1
  PROVE  /\ n \in A!Units /\ n + 1 \in A!Units
         /\ [Got(n) EXCEPT ![n] = A!Sector(n, 0), ![n + 1] = A!Sector(n, 1)] = Got(n + 1)
<1>1. n \in A!Units /\ n + 1 \in A!Units
  BY AtaConstants
<1>2. A!Units \subseteq Nat /\ n \in Nat
  BY AtaConstants
<1> DEFINE g == [Got(n) EXCEPT ![n] = A!Sector(n, 0), ![n + 1] = A!Sector(n, 1)]
<1>3. ASSUME NEW u \in A!Units PROVE g[u] = Got(n + 1)[u]
  <2>1. u \in Nat
    BY <1>2
  <2>2. g[u] = IF u = n + 1 THEN A!Sector(n, 1) ELSE IF u = n THEN A!Sector(n, 0)
               ELSE IF u < n THEN A!Sector(u, 0) ELSE A!Own[u]
    BY <1>1, <1>2, <2>1 DEF Got
  <2>3. Got(n + 1)[u] = IF u < n + 1 THEN A!Sector(u, 0)
                        ELSE IF u = n + 1 THEN A!Sector(n, 1) ELSE A!Own[u]
    <3>1. n + 1 > 0 /\ (n + 1) - 1 = n
      BY <1>2
    <3>2. QED
      BY <3>1 DEF Got
  <2> HIDE DEF g
  <2>4. CASE u < n
    BY <1>2, <2>1, <2>2, <2>3, <2>4
  <2>5. CASE u = n
    BY <1>2, <2>1, <2>2, <2>3, <2>5
  <2>6. CASE u = n + 1
    BY <1>2, <2>1, <2>2, <2>3, <2>6
  <2>7. CASE u > n + 1
    BY <1>2, <2>1, <2>2, <2>3, <2>7
  <2>8. QED
    BY <1>2, <2>1, <2>4, <2>5, <2>6, <2>7
<1>4. g = [u \in A!Units |-> g[u]] /\ Got(n + 1) = [u \in A!Units |-> Got(n + 1)[u]]
  BY DEF Got
<1> HIDE DEF g
<1>5. g = Got(n + 1)
  BY <1>3, <1>4
<1>6. QED
  BY <1>1, <1>5 DEF g

LEMMA GotNone == Got(0) = A!Own
<1>1. \A u \in A!Units : ~ (u < 0) /\ ~ (u = 0 /\ 0 > 0)
  BY AtaConstants
<1>2. A!Own = [u \in A!Units |-> A!Own[u]]
  BY DEF A!Own
<1>3. QED
  BY <1>1, <1>2 DEF Got

-----------------------------------------------------------------------------
(* The steps of the disk driver and of the drive.                          *)

LEMMA AtaInit == A!Init => AtaIInv
<1> SUFFICES ASSUME A!Init PROVE AtaIInv
  OBVIOUS
<1> USE AtaConstants DEF A!Init
<1>1. mem = Got(0)
  BY GotNone
<1>2. drive \in [cmd : Commands, left : 0 .. CountSize, status : SUBSET Statuses,
                 packet : BOOLEAN]
  <2>1. PICK st \in {{}, {"RDY"}}, packet \in BOOLEAN :
          drive = [cmd |-> "none", left |-> 0, status |-> st, packet |-> packet]
    OBVIOUS
  <2>2. st \in SUBSET Statuses /\ 0 \in 0 .. CountSize
    BY DEF Statuses
  <2>3. QED
    BY <2>1, <2>2 DEF Commands
<1>6. /\ disk \in Seq(Seq({A!Own[u] : u \in A!Units})) /\ Len(disk) <= CountSize
      /\ \A s \in 1 .. Len(disk) : disk[s] = <<A!Own[s - 1], A!Own[s]>>
  OBVIOUS
<1>7. count \in 0..MaxCount /\ i \in 0..MaxCount /\ buff \in A!Units /\ 0 \in 0..MaxCount
  OBVIOUS
<1>3. AtaTypes
  BY <1>1, <1>2, <1>6, <1>7 DEF AtaTypes, Busy
<1>4. DriveSays /\ Known /\ Transfer
  BY DEF DriveSays, Known, Transfer, Busy
<1>5. QED
  BY <1>3, <1>4 DEF AtaIInv

\* Between commands the driver's part of the invariant says little.
LEMMA AtaServe == AtaIInv /\ A!Serve => AtaIInv'
<1> SUFFICES ASSUME AtaIInv, A!Serve PROVE AtaIInv'
  OBVIOUS
<1>1. /\ drive' \in [cmd : Commands, left : 0 .. CountSize, status : SUBSET Statuses,
                     packet : BOOLEAN]
      /\ drive'.cmd = drive.cmd /\ drive'.left = drive.left /\ drive'.status # {}
      /\ "DRQ" \in drive'.status =>
           drive.cmd # "flush" /\ (drive.cmd = "identify" \/ drive.left > 0)
  BY ServedIs DEF AtaIInv, AtaTypes, A!Serve
<1>2. AtaTypes'
  BY <1>1 DEF AtaIInv, AtaTypes, A!Serve
<1>3. DriveSays' /\ Known' /\ Transfer'
  BY <1>1 DEF AtaIInv, DriveSays, Known, Transfer, A!Serve
<1>4. QED
  BY <1>2, <1>3 DEF AtaIInv

LEMMA AtaStart == AtaIInv /\ A!Start => AtaIInv'
<1> SUFFICES ASSUME AtaIInv, A!Start PROVE AtaIInv'
  OBVIOUS
<1>1. PICK cmd \in {"identify", "flush"} : drive' \in A!Answers(cmd, 0)
  BY DEF A!Start
<1>2. 0 \in 0 .. CountSize /\ cmd \in Commands
  BY AtaConstants DEF Commands
<1>3. /\ drive' \in [cmd : Commands, left : 0 .. CountSize, status : SUBSET Statuses,
                     packet : BOOLEAN]
      /\ DriveSays' /\ (drive'.status = {} <=> drive.status = {})
      /\ drive'.left = 0
  BY <1>1, <1>2, AnswersIs DEF AtaIInv
<1>4. AtaTypes'
  BY <1>3 DEF AtaIInv, AtaTypes, A!Start, Busy
<1>5. Known' /\ Transfer'
  BY <1>3 DEF AtaIInv, Known, Transfer, A!Start, Busy
<1>6. QED
  BY <1>3, <1>4, <1>5 DEF AtaIInv

\* The identification, whatever it ends with, and the stop.
LEMMA AtaIdentify ==
  AtaIInv /\ (A!First \/ A!Signature \/ A!Wait \/ A!Stop) => AtaIInv'
<1> SUFFICES ASSUME AtaIInv, A!First \/ A!Signature \/ A!Wait \/ A!Stop
             PROVE  AtaIInv'
  OBVIOUS
<1>1. ASSUME A!NotIdentified, pc \in Busy PROVE AtaIInv'
  <2>1. AtaTypes'
    BY <1>1 DEF AtaIInv, AtaTypes, A!NotIdentified, Busy
  <2>2. DriveSays' /\ Known' /\ Transfer'
    BY <1>1 DEF AtaIInv, DriveSays, Known, Transfer, A!NotIdentified, Busy
  <2>3. QED
    BY <2>1, <2>2 DEF AtaIInv
<1>2. ASSUME pc \in Busy, pc' \in Busy, drive.status # {},
             UNCHANGED <<ataRunning, identified, irq14, count, i, buff, mem, disk, drive>>
      PROVE  AtaIInv'
  <2>1. AtaTypes'
    BY <1>2 DEF AtaIInv, AtaTypes
  <2>2. DriveSays' /\ Known' /\ Transfer'
    BY <1>2 DEF AtaIInv, DriveSays, Known, Transfer, Busy
  <2>3. QED
    BY <2>1, <2>2 DEF AtaIInv
<1>3. CASE A!First
  BY <1>1, <1>2, <1>3 DEF A!First, A!Absent, Busy
<1>4. CASE A!Signature
  BY <1>1, <1>2, <1>4 DEF A!Signature, Busy, AtaIInv, Known
<1>5. CASE A!Wait
  <2>1. CASE A!NotIdentified
    BY <1>1, <1>5, <2>1 DEF A!Wait, Busy
  <2>2. CASE A!Identified
    <3>1. /\ drive' \in [cmd : Commands, left : 0 .. CountSize, status : SUBSET Statuses,
                         packet : BOOLEAN]
          /\ drive'.cmd = drive.cmd /\ drive'.left = drive.left
          /\ drive'.status = {"RDY"}
      BY <2>2 DEF A!Identified, AtaIInv, AtaTypes, Statuses
    <3>2. AtaTypes'
      BY <3>1, <2>2 DEF A!Identified, AtaIInv, AtaTypes
    <3>3. pc \in Busy
      BY <1>5 DEF A!Wait, Busy
    <3>4. DriveSays' /\ Known' /\ Transfer'
      BY <2>2, <3>1, <3>3 DEF A!Identified, AtaIInv, DriveSays, Known, Transfer, Busy
    <3>5. QED
      BY <3>2, <3>4 DEF AtaIInv
  <2>3. QED
    BY <1>5, <2>1, <2>2 DEF A!Wait
<1>6. CASE A!Stop
  <2>1. AtaTypes'
    BY <1>6 DEF AtaIInv, AtaTypes, A!Stop
  <2>2. DriveSays' /\ Known' /\ Transfer'
    BY <1>6 DEF AtaIInv, DriveSays, Known, Transfer, A!Stop, Busy
  <2>3. QED
    BY <2>1, <2>2 DEF AtaIInv
<1>7. QED
  BY <1>3, <1>4, <1>5, <1>6

LEMMA AtaCommand == AtaIInv /\ (A!Read \/ A!Write) => AtaIInv'
<1> SUFFICES ASSUME AtaIInv, A!Read \/ A!Write PROVE AtaIInv'
  OBVIOUS
<1>1. PICK cmd \in {"read", "write"} : A!Command(cmd) /\ pc' = cmd
  BY DEF A!Read, A!Write
<1>2. /\ drive.status # {} /\ identified
  BY <1>1 DEF AtaIInv, Known, A!Command, Busy
<1>3. count' \in Nat /\ A!Asked(count') \in 0 .. CountSize /\ cmd \in Commands
      /\ A!Asked(count)' = A!Asked(count')
  <2>1. count' \in Nat
    BY <1>1, AtaConstants DEF A!Command
  <2>2. A!Asked(count') \in 1 .. CountSize
    BY <2>1, AskedIs
  <2>3. A!Asked(count)' = A!Asked(count')
    BY DEF A!Asked
  <2>4. QED
    BY <2>1, <2>2, <2>3, AtaConstants DEF Commands
<1>4. /\ drive' \in [cmd : Commands, left : 0 .. CountSize, status : SUBSET Statuses,
                     packet : BOOLEAN]
      /\ DriveSays' /\ drive'.status # {}
      /\ drive'.left = A!Asked(count') /\ drive'.cmd = cmd
  BY <1>1, <1>2, <1>3, AnswersIs DEF AtaIInv, A!Command
<1>5. /\ i' = 0 /\ buff' = 0 /\ mem' = Got(0) /\ disk' = <<>>
      /\ UNCHANGED <<ataRunning, identified, irq14>>
  BY <1>1, GotNone DEF A!Command
<1>6. AtaTypes'
  BY <1>1, <1>4, <1>5, AtaConstants DEF AtaIInv, AtaTypes, A!Command
<1>7. Known'
  BY <1>1, <1>2, <1>4, <1>5 DEF Known, Busy
<1>8. Transfer'
  BY <1>1, <1>3, <1>4, <1>5, AtaConstants DEF Transfer, A!Command
<1>9. QED
  BY <1>4, <1>6, <1>7, <1>8 DEF AtaIInv

LEMMA AtaReadSector == AtaIInv /\ A!ReadSector => AtaIInv'
<1> SUFFICES ASSUME AtaIInv, A!ReadSector PROVE AtaIInv'
  OBVIOUS
<1>1. /\ pc = "read" /\ i < count /\ pc' = pc /\ buff' = buff + 1 /\ i' = i + 1
      /\ UNCHANGED <<ataRunning, identified, irq14, count, disk>>
  BY DEF A!ReadSector
<1>2. /\ drive' \in [cmd : Commands, left : 0 .. CountSize, status : SUBSET Statuses,
                     packet : BOOLEAN]
      /\ DriveSays' /\ drive.left > 0 /\ drive'.left = drive.left - 1
      /\ drive'.cmd = drive.cmd /\ drive'.status # {}
  BY TransferredIs DEF A!ReadSector, AtaIInv
<1>3. /\ i \in 0 .. MaxCount - 1 /\ count \in 0 .. MaxCount /\ drive.left \in 0 .. CountSize
      /\ i + drive.left = A!Asked(count) /\ buff = i /\ mem = Got(i)
  BY <1>1, AtaConstants DEF AtaIInv, AtaTypes, Transfer
<1>4. A!Asked(count) - drive.left = i
  BY <1>3, AtaConstants
<1>5. mem' = Got(i + 1)
  BY <1>3, <1>4, GotNext DEF A!ReadSector
<1>6. i + 1 \in 0 .. MaxCount /\ i + 1 \in A!Units
  BY <1>3, AtaConstants
<1>7. AtaTypes'
  BY <1>1, <1>2, <1>3, <1>5, <1>6 DEF AtaIInv, AtaTypes
<1>8. Known'
  BY <1>1, <1>2 DEF AtaIInv, Known, Busy
<1>9. A!Asked(count)' = A!Asked(count)
  BY <1>1 DEF A!Asked
<1>10. Transfer'
  BY <1>1, <1>2, <1>3, <1>5, <1>9, AtaConstants DEF Transfer
<1>11. QED
  BY <1>2, <1>7, <1>8, <1>10 DEF AtaIInv

\* A call that ends has asked for as many sectors as it got, or for none.
LEMMA NoneLeft ==
  ASSUME AtaIInv, NEW n \in Nat, n + drive.left = A!Asked(count), n >= count,
         drive.left > 0
  PROVE  count = 0
<1>1. /\ count \in Nat /\ drive.left \in Nat /\ A!Asked(count) \in 1 .. CountSize
      /\ count \in 1 .. CountSize => A!Asked(count) = count
  BY AskedIs, AtaConstants DEF AtaIInv, AtaTypes
<1>2. count < A!Asked(count)
  BY <1>1, AtaConstants
<1>3. QED
  BY <1>1, <1>2, AtaConstants

LEMMA AtaReadDone == AtaIInv /\ A!ReadDone => AtaIInv'
<1> SUFFICES ASSUME AtaIInv, A!ReadDone PROVE AtaIInv'
  OBVIOUS
<1>1. /\ pc = "read" /\ i >= count /\ pc' = "rest" /\ i \in Nat
      /\ UNCHANGED <<ataRunning, identified, irq14, count, i, buff, mem, disk, drive>>
  BY AtaConstants DEF A!ReadDone, AtaIInv, AtaTypes
<1>2. drive.left > 0 => count = 0
  BY <1>1, NoneLeft DEF AtaIInv, Transfer
<1>3. AtaTypes'
  BY <1>1 DEF AtaIInv, AtaTypes
<1>4. DriveSays' /\ Known' /\ Transfer'
  BY <1>1, <1>2 DEF AtaIInv, DriveSays, Known, Transfer, Busy
<1>5. QED
  BY <1>3, <1>4 DEF AtaIInv

LEMMA AtaWriteSector == AtaIInv /\ A!WriteSector => AtaIInv'
<1> SUFFICES ASSUME AtaIInv, A!WriteSector PROVE AtaIInv'
  OBVIOUS
<1> DEFINE n == Len(disk)
           U == {A!Own[u] : u \in A!Units}
<1>1. /\ pc = "write" /\ i < count /\ pc' = pc /\ buff' = buff + 1
      /\ i' = (i + 1) % IndexSize /\ disk' = Append(disk, <<mem[buff], mem[buff + 1]>>)
      /\ UNCHANGED <<ataRunning, identified, irq14, count, mem>>
  BY DEF A!WriteSector
<1>2. /\ drive' \in [cmd : Commands, left : 0 .. CountSize, status : SUBSET Statuses,
                     packet : BOOLEAN]
      /\ DriveSays' /\ drive.left > 0 /\ drive'.left = drive.left - 1
      /\ drive'.cmd = drive.cmd /\ drive'.status # {}
  BY TransferredIs, <1>1 DEF A!WriteSector, AtaIInv
<1>3. /\ n \in Nat /\ drive.left \in 0 .. CountSize /\ i \in Nat
      /\ n + drive.left = A!Asked(count) /\ buff = n /\ mem = A!Own /\ i <= n
      /\ disk \in Seq(Seq(U)) /\ count \in Nat
      /\ \A s \in 1 .. n : disk[s] = <<A!Own[s - 1], A!Own[s]>>
  BY <1>1, GotNone, AtaConstants DEF AtaIInv, AtaTypes, Transfer
<1>4. A!Asked(count) <= CountSize
  <2>1. A!Asked(count) \in 1 .. CountSize
    BY <1>3, AskedIs
  <2>2. CountSize \in Nat
    BY AtaConstants
  <2>3. QED
    BY <2>1, <2>2
<1>5. n + 1 <= CountSize /\ n \in A!Units /\ n + 1 \in A!Units
  BY <1>2, <1>3, <1>4, AtaConstants
<1>6. i' \in 0 .. IndexSize - 1 /\ i' <= i + 1
  <2>1. i < IndexSize /\ IndexSize \in Nat \ {0}
    BY <1>1, AtaConstants DEF AtaIInv, Transfer
  <2>2. CASE i + 1 < IndexSize
    <3>1. i + 1 \in 0 .. IndexSize - 1
      BY <1>3, <2>1, <2>2
    <3>2. i' = i + 1
      BY <1>1, <2>1, <3>1, ModSmall
    <3>3. QED
      BY <1>3, <3>1, <3>2
  <2>3. CASE i + 1 = IndexSize
    <3>1. i' = 0
      BY <1>1, <2>1, <2>3
    <3>2. QED
      BY <1>3, <2>1, <3>1
  <2>4. QED
    BY <1>3, <2>1, <2>2, <2>3
<1>7. /\ disk' \in Seq(Seq(U)) /\ Len(disk') = n + 1
      /\ \A s \in 1 .. n : disk'[s] = disk[s]
      /\ disk'[n + 1] = <<A!Own[n], A!Own[n + 1]>>
  <2>1. <<A!Own[n], A!Own[n + 1]>> \in Seq(U)
    BY <1>5
  <2>2. disk' = Append(disk, <<A!Own[n], A!Own[n + 1]>>)
    BY <1>1, <1>3
  <2> HIDE DEF U
  <2>3. QED
    BY <1>3, <2>1, <2>2
<1>8. \A s \in 1 .. n + 1 : disk'[s] = <<A!Own[s - 1], A!Own[s]>>
  <2>1. ASSUME NEW s \in 1 .. n + 1 PROVE disk'[s] = <<A!Own[s - 1], A!Own[s]>>
    <3>1. CASE s \in 1 .. n
      BY <1>3, <1>7, <3>1
    <3>2. CASE s = n + 1
      <4>1. s - 1 = n
        BY <1>3, <3>2
      <4>2. QED
        BY <1>7, <3>2, <4>1
    <3>3. QED
      BY <1>3, <3>1, <3>2
  <2>2. QED
    BY <2>1
<1>9. AtaTypes'
  <2>1. i' \in 0 .. MaxCount /\ buff' \in A!Units
    BY <1>1, <1>3, <1>5, <1>6, AtaConstants
  <2>2. Len(disk') <= CountSize
    BY <1>5, <1>7
  <2>3. \A s \in 1 .. Len(disk') : disk'[s] = <<A!Own[s - 1], A!Own[s]>>
    BY <1>7, <1>8
  <2>4. QED
    BY <1>1, <1>2, <1>7, <2>1, <2>2, <2>3 DEF AtaIInv, AtaTypes
<1>10. Known'
  BY <1>1, <1>2 DEF AtaIInv, Known, Busy
<1>11. Transfer'
  <2>1. A!Asked(count)' = A!Asked(count)
    BY <1>1 DEF A!Asked
  <2> HIDE DEF n
  <2>2. Len(disk') + drive'.left = A!Asked(count)
    BY <1>2, <1>3, <1>7, AtaConstants
  <2>3. i' <= Len(disk') /\ i' < IndexSize
    <3>1. n \in Nat /\ i \in Nat /\ i <= n /\ Len(disk') = n + 1
      BY <1>3, <1>7
    <3>2. QED
      BY <1>6, <3>1, AtaConstants
  <2>4. mem' = Got(0) /\ buff' = Len(disk')
    BY <1>1, <1>3, <1>7, GotNone
  <2>5. QED
    BY <1>1, <2>1, <2>2, <2>3, <2>4 DEF Transfer
<1>12. QED
  BY <1>2, <1>9, <1>10, <1>11 DEF AtaIInv

\* The end of a write, which flushes the drive, and the error of a transfer.
LEMMA AtaWriteEnd == AtaIInv /\ (A!WriteDone \/ A!Flushed \/ A!Fails) => AtaIInv'
<1> SUFFICES ASSUME AtaIInv, A!WriteDone \/ A!Flushed \/ A!Fails PROVE AtaIInv'
  OBVIOUS
<1>1. CASE A!WriteDone
  <2>1. /\ pc = "write" /\ i >= count /\ pc' = "flush"
        /\ drive' \in A!Answers("flush", drive.left)
        /\ UNCHANGED <<ataRunning, identified, irq14, count, i, buff, mem, disk>>
    BY <1>1 DEF A!WriteDone
  <2>2. "flush" \in Commands /\ drive.left \in 0 .. CountSize
    BY DEF Commands, AtaIInv, AtaTypes
  <2>3. /\ drive' \in [cmd : Commands, left : 0 .. CountSize, status : SUBSET Statuses,
                       packet : BOOLEAN]
        /\ DriveSays' /\ (drive'.status = {} <=> drive.status = {})
        /\ drive'.left = drive.left \/ drive'.left = 0
    BY <2>1, <2>2, AnswersIs DEF AtaIInv
  <2>4. /\ Len(disk) \in Nat /\ Len(disk) + drive.left = A!Asked(count)
        /\ Len(disk) >= count
    BY <2>1, AtaConstants DEF AtaIInv, AtaTypes, Transfer
  <2>5. drive'.left > 0 => count = 0
    BY <2>3, <2>4, NoneLeft
  <2>6. AtaTypes'
    BY <2>1, <2>3 DEF AtaIInv, AtaTypes
  <2>7. Known' /\ Transfer'
    BY <2>1, <2>3, <2>5 DEF AtaIInv, Known, Transfer, Busy
  <2>8. QED
    BY <2>3, <2>6, <2>7 DEF AtaIInv
<1>2. CASE A!Flushed \/ A!Fails
  <2>1. AtaTypes'
    BY <1>2 DEF AtaIInv, AtaTypes, A!Flushed, A!Fails
  <2>2. DriveSays' /\ Known' /\ Transfer'
    BY <1>2 DEF AtaIInv, DriveSays, Known, Transfer, A!Flushed, A!Fails, Busy
  <2>3. QED
    BY <2>1, <2>2 DEF AtaIInv
<1>3. QED
  BY <1>1, <1>2

LEMMA AtaStep == AtaIInv /\ [A!Next]_ataVars => AtaIInv'
<1> SUFFICES ASSUME AtaIInv, [A!Next]_ataVars PROVE AtaIInv'
  OBVIOUS
<1>1. CASE UNCHANGED ataVars
  <2>1. AtaTypes' /\ DriveSays'
    BY <1>1 DEF ataVars, AtaIInv, AtaTypes, DriveSays
  <2>2. Known' /\ Transfer'
    BY <1>1 DEF ataVars, AtaIInv, Known, Transfer, A!Asked
  <2>3. QED
    BY <2>1, <2>2 DEF AtaIInv
<1>2. CASE A!Next
  BY <1>2, AtaServe, AtaStart, AtaIdentify, AtaCommand, AtaReadSector, AtaReadDone,
     AtaWriteSector, AtaWriteEnd DEF A!Next, A!Goes
<1>3. QED
  BY <1>1, <1>2

\* The invariant says what the run checks.
LEMMA AtaSays == AtaIInv => A!TransfersRight
<1> SUFFICES ASSUME AtaIInv PROVE A!TransfersRight
  OBVIOUS
<1>1. A!TypeOK
  <2>1. PICK n \in 0..MaxCount : mem = Got(n)
    BY DEF AtaIInv, AtaTypes
  <2>2. ASSUME NEW u \in A!Units
        PROVE  mem[u] = A!Own[u] \/ \E s \in 0..MaxCount, h \in {0, 1} : mem[u] = A!Sector(s, h)
    <3>1. u \in Nat /\ n \in Nat
      BY AtaConstants
    <3>2. CASE u < n
      <4>1. u \in 0..MaxCount /\ mem[u] = A!Sector(u, 0)
        BY <2>1, <3>1, <3>2, AtaConstants DEF Got
      <4>2. QED
        BY <4>1
    <3>3. CASE ~ (u < n) /\ u = n /\ n > 0
      <4>1. n - 1 \in 0..MaxCount /\ mem[u] = A!Sector(n - 1, 1)
        BY <2>1, <3>1, <3>3, AtaConstants DEF Got
      <4>2. QED
        BY <4>1
    <3>4. CASE ~ (u < n) /\ ~ (u = n /\ n > 0)
      BY <2>1, <3>4 DEF Got
    <3>5. QED
      BY <3>2, <3>3, <3>4
  <2>3. drive.left \in 0 .. CountSize /\ drive.status \subseteq Statuses
    BY DEF AtaIInv, AtaTypes
  <2>4. QED
    BY <2>2, <2>3 DEF A!TypeOK, AtaIInv, AtaTypes, Busy, Statuses
<1>2. A!FirstHalves
  BY DEF A!FirstHalves, AtaIInv, Transfer, Got
<1>3. A!SecondHalvesRepeated
  <2>1. ASSUME NEW s \in 1 .. Len(disk) - 1 PROVE disk[s][2] = disk[s + 1][1]
    <3>1. /\ s \in 1 .. Len(disk) /\ s + 1 \in 1 .. Len(disk) /\ (s + 1) - 1 = s
      BY DEF AtaIInv, AtaTypes
    <3>2. disk[s] = <<A!Own[s - 1], A!Own[s]>> /\ disk[s + 1] = <<A!Own[s], A!Own[s + 1]>>
      BY <3>1 DEF AtaIInv, AtaTypes
    <3>3. QED
      BY <3>2
  <2>2. QED
    BY <2>1 DEF A!SecondHalvesRepeated
<1>4. A!InStep /\ A!RunsIdentified
  BY DEF A!InStep, A!RunsIdentified, AtaIInv, Transfer, Known, Busy
<1>5. QED
  BY <1>1, <1>2, <1>3, <1>4 DEF A!TransfersRight

\* The disk driver's part of a behaviour of the machine.
LEMMA AtaMoves == [MachineNext]_machine => [A!Next]_ataVars
BY DEF MachineNext, machine, OnlyDevMgr, OnlyAta, OnlyTicks, OnlyPci

\* Whatever the drive answers and when, it and the driver keep in step, and of each
\* sector those halves get through that ata.c:125 and :156 let through: for an index
\* and a count of any size.
THEOREM DiskTransfers == MachineSpec => []TransfersRight
<1>1. MachineInit => AtaIInv
  BY AtaInit DEF MachineInit
<1>2. AtaIInv /\ [MachineNext]_machine => AtaIInv'
  BY AtaStep, AtaMoves
<1>3. AtaIInv => TransfersRight
  BY AtaSays DEF TransfersRight
<1>4. QED
  BY <1>1, <1>2, <1>3, PTL DEF MachineSpec

-----------------------------------------------------------------------------
(* The counters of milliseconds.                                           *)

Full == T!Pow[Mantissa]

LEMMA TicksConstants ==
  /\ Mantissa \in Nat /\ Mantissa >= 7
  /\ PerMilli \in Nat \ {0} /\ Thousand \in Nat \ {0}
  /\ GcMillis \in Nat \ {0} /\ GcFrees \in Nat \ {0}
  /\ MaxPit \in Nat /\ MaxFrees \in Nat /\ MaxLag \in Nat
BY DriversAssumption DEF T!TicksAssumption

\* The number from which on a float cannot count is a multiple of four.
LEMMA FullIs ==
  /\ Full \in Nat \ {0} /\ T!Pow[Mantissa - 1] \in Nat \ {0}
  /\ Full = 2 * T!Pow[Mantissa - 1] /\ \E q \in Nat : Full = 4 * q
  /\ T!Pow[Mantissa + 10] = 1024 * Full
<1> USE TicksConstants
<1>1. /\ Mantissa - 2 \in Nat /\ (Mantissa - 2) + 1 = Mantissa - 1
      /\ Mantissa - 1 \in Nat /\ (Mantissa - 1) + 1 = Mantissa
  OBVIOUS
<1>2. /\ Full = 2 * T!Pow[Mantissa - 1] /\ T!Pow[Mantissa - 1] = 2 * T!Pow[Mantissa - 2]
      /\ T!Pow[Mantissa - 2] \in Nat /\ T!Pow[Mantissa - 1] \in Nat \ {0}
      /\ Full \in Nat \ {0}
  BY <1>1, PowIs DEF Full
<1>3. \A n \in Nat : T!Pow[n + 2] = 4 * T!Pow[n]
  <2>1. ASSUME NEW n \in Nat PROVE T!Pow[n + 2] = 4 * T!Pow[n]
    <3>1. n + 1 \in Nat /\ (n + 1) + 1 = n + 2
      OBVIOUS
    <3>2. T!Pow[n + 2] = 2 * T!Pow[n + 1] /\ T!Pow[n + 1] = 2 * T!Pow[n]
          /\ T!Pow[n] \in Nat
      BY <3>1, PowIs
    <3>3. QED
      BY <3>2
  <2>2. QED
    BY <2>1
<1>4. /\ T!Pow[Mantissa + 2] = 4 * Full /\ T!Pow[Mantissa + 4] = 4 * T!Pow[Mantissa + 2]
      /\ T!Pow[Mantissa + 6] = 4 * T!Pow[Mantissa + 4]
      /\ T!Pow[Mantissa + 8] = 4 * T!Pow[Mantissa + 6]
      /\ T!Pow[Mantissa + 10] = 4 * T!Pow[Mantissa + 8]
  <2>1. /\ Mantissa + 2 \in Nat /\ Mantissa + 4 \in Nat /\ Mantissa + 6 \in Nat
        /\ Mantissa + 8 \in Nat /\ (Mantissa + 2) + 2 = Mantissa + 4
        /\ (Mantissa + 4) + 2 = Mantissa + 6 /\ (Mantissa + 6) + 2 = Mantissa + 8
        /\ (Mantissa + 8) + 2 = Mantissa + 10
    OBVIOUS
  <2>2. QED
    BY <1>3, <2>1 DEF Full
<1>5. T!Pow[Mantissa + 10] = 1024 * Full
  BY <1>2, <1>4
<1>6. QED
  BY <1>2, <1>5

\* Rounding to the nearest.
LEMMA NearestIs ==
  ASSUME NEW a \in Nat
  PROVE  /\ T!Nearest(a, 1024) \in Nat
         /\ 1024 * T!Nearest(a, 1024) - a <= 512 /\ a - 1024 * T!Nearest(a, 1024) <= 512
BY DEF T!Nearest

LEMMA DivIs ==
  ASSUME NEW a \in Nat, NEW b \in Nat \ {0}
  PROVE  /\ a \div b \in Nat
         /\ b * (a \div b) <= a /\ a < b * (a \div b) + b
OBVIOUS

\* The product of a time up to the full one can be scaled to fill a mantissa.
LEMMA ScaleExists ==
  ASSUME NEW m \in 1 .. Full
  PROVE  \E k \in 0 .. Mantissa + 10 :
           m * 1000 * T!Pow[k] \in T!Pow[Mantissa - 1] * 1024
                                    .. 2 * (T!Pow[Mantissa - 1] * 1024) - 1
<1> DEFINE K == {k \in Nat : m * 1000 * T!Pow[k] >= Full * 1024}
<1>1. Mantissa + 10 \in K
  <2>1. m * 1000 * T!Pow[Mantissa + 10] = (m * 1000) * (1024 * Full)
    BY FullIs
  <2>2. (m * 1000) * (1024 * Full) >= Full * 1024
    <3>1. Full \in Nat /\ m \in Nat /\ m >= 1
      BY FullIs
    <3>2. \A x \in Nat : m * 1000 * x >= x
      BY <3>1
    <3>3. QED
      BY <3>1, <3>2
  <2>3. Mantissa + 10 \in Nat
    BY TicksConstants
  <2>4. QED
    BY <2>1, <2>2, <2>3
<1>2. PICK x \in K : \A y \in K : x <= y
  <2>1. K \subseteq Nat /\ K # {}
    BY <1>1
  <2> HIDE DEF K
  <2>2. QED
    BY <2>1, Least
<1>3. x # 0
  <2>1. m * 1000 * T!Pow[0] = m * 1000 /\ m * 1000 < Full * 1024
    BY FullIs, PowIs
  <2>2. m * 1000 \in Nat /\ Full * 1024 \in Nat
    BY FullIs
  <2>3. QED
    BY <2>1, <2>2
<1>4. x \in Nat /\ x <= Mantissa + 10 /\ x - 1 \notin K
  BY <1>1, <1>2
<1>5. x - 1 \in Nat /\ x - 1 \in 0 .. Mantissa + 10 /\ (x - 1) + 1 = x
  BY <1>3, <1>4, TicksConstants
<1> DEFINE p == T!Pow[x - 1]
<1>6. T!Pow[x] = 2 * p /\ p \in Nat
  BY <1>5, PowIs
<1>7. m * 1000 * p \in Nat /\ m * 1000 * T!Pow[x] = 2 * (m * 1000 * p)
  <2>1. m \in Nat
    BY FullIs
  <2> HIDE DEF p
  <2>2. QED
    BY <1>6, <2>1
<1>8. m * 1000 * p < Full * 1024
  BY <1>4, <1>5, <1>7, FullIs
<1>9. 2 * (m * 1000 * p) >= Full * 1024
  BY <1>2, <1>7
<1>10. m * 1000 * p >= T!Pow[Mantissa - 1] * 1024
  BY <1>7, <1>9, FullIs
<1>11. m * 1000 * p \in T!Pow[Mantissa - 1] * 1024 .. 2 * (T!Pow[Mantissa - 1] * 1024) - 1
  BY <1>7, <1>8, <1>10, FullIs
<1>12. QED
  BY <1>5, <1>11

\* The milliseconds that rtc_callback computes are at most half a millisecond late
\* and less than one early.
LEMMA FloatMillisIs ==
  ASSUME NEW m \in 0 .. Full
  PROVE  /\ T!FloatMillis(m) \in Nat
         /\ T!FloatMillis(m) * 1024 - m * 1000 <= 512
         /\ m * 1000 - T!FloatMillis(m) * 1024 <= 1024
<1>1. CASE m = 0
  BY <1>1 DEF T!FloatMillis
<1>2. CASE m # 0
  <2> DEFINE Fits(k) == m * 1000 * T!Pow[k] \in T!Pow[Mantissa - 1] * 1024
                                                 .. 2 * (T!Pow[Mantissa - 1] * 1024) - 1
             k0 == CHOOSE k \in 0 .. Mantissa + 10 : Fits(k)
  <2>1. m \in 1 .. Full /\ m \in Nat
    BY <1>2, FullIs
  <2>2. k0 \in 0 .. Mantissa + 10
    BY <2>1, ScaleExists DEF Full
  <2>3. T!FloatMillis(m) = T!Nearest(m * 1000 * T!Pow[k0], 1024) \div T!Pow[k0]
    BY <1>2 DEF T!FloatMillis
  <2> HIDE DEF k0
  <2> DEFINE s == T!Pow[k0]
             n == T!Nearest(m * 1000 * s, 1024)
             q == n \div s
  <2>4. s \in Nat \ {0}
    BY <2>2, PowIs, TicksConstants
  <2> HIDE DEF s
  <2>5. m * 1000 * s \in Nat
    BY <2>1, <2>4
  <2>6. n \in Nat /\ 1024 * n - m * 1000 * s <= 512 /\ m * 1000 * s - 1024 * n <= 512
    BY <2>5, NearestIs
  <2> HIDE DEF n
  <2>7. q \in Nat /\ s * q <= n /\ n < s * q + s
    BY <2>4, <2>6, DivIs
  <2> HIDE DEF q
  <2>8. s * q \in Nat /\ s * q + s >= n + 1
    BY <2>4, <2>6, <2>7
  <2>9. 1024 * (s * q) - m * 1000 * s <= 512
    BY <2>5, <2>6, <2>7, <2>8
  <2>10. m * 1000 * s - 1024 * (s * q) <= 1024 * s - 512
    BY <2>4, <2>5, <2>6, <2>8
  <2>11. /\ 1024 * (s * q) - m * 1000 * s = s * (q * 1024 - m * 1000)
         /\ q * 1024 - m * 1000 \in Int
    BY <2>1, <2>4, <2>7
  <2>12. q * 1024 - m * 1000 <= 512
    <3> DEFINE d == q * 1024 - m * 1000
    <3>1. s * d <= 512 /\ d \in Int
      BY <2>9, <2>11
    <3> HIDE DEF d
    <3>2. ASSUME d > 512 PROVE FALSE
      <4>1. s * d >= d
        BY <2>4, <3>1, <3>2
      <4>2. QED
        BY <2>4, <3>1, <3>2, <4>1
    <3>3. d <= 512
      BY <3>1, <3>2
    <3>4. QED
      BY <3>3 DEF d
  <2>13. m * 1000 - q * 1024 <= 1024
    <3> DEFINE d == m * 1000 - q * 1024
    <3>1. d \in Int /\ s * d = m * 1000 * s - 1024 * (s * q)
      BY <2>1, <2>4, <2>7
    <3>2. s * d <= 1024 * s
      BY <2>4, <2>5, <2>8, <2>10, <3>1
    <3> HIDE DEF d
    <3>3. ASSUME d > 1024 PROVE FALSE
      <4>1. s * d >= s * 1025
        BY <2>4, <3>1, <3>3
      <4>2. QED
        BY <2>4, <3>1, <3>2, <4>1
    <3>4. d <= 1024
      BY <3>1, <3>3
    <3>5. QED
      BY <3>4 DEF d
  <2>14. T!FloatMillis(m) = q
    BY <2>3 DEF q, n, s
  <2>15. QED
    BY <2>7, <2>12, <2>13, <2>14
<1>3. QED
  BY <1>1, <1>2, FullIs

\* The counter never goes back: a tick is worth more than the roundings.
LEMMA FloatMillisGrows ==
  ASSUME NEW m \in 0 .. Full - 1
  PROVE  T!FloatMillis(m) <= T!FloatMillis(m + 1)
<1>1. m \in 0 .. Full /\ m + 1 \in 0 .. Full /\ m \in Nat
  BY FullIs
<1>2. /\ T!FloatMillis(m) \in Nat /\ T!FloatMillis(m + 1) \in Nat
      /\ T!FloatMillis(m) * 1024 - m * 1000 <= 512
      /\ (m + 1) * 1000 - T!FloatMillis(m + 1) * 1024 <= 1024
  BY <1>1, FloatMillisIs
<1>3. QED
  BY <1>1, <1>2

LEMMA FloatSumIs ==
  ASSUME NEW m \in 0 .. Full
  PROVE  T!FloatSum(m) = IF m < Full THEN m + 1 ELSE Full
<1>1. CASE m < Full
  BY <1>1 DEF T!FloatSum, Full
<1>2. CASE ~ (m < Full)
  <2>1. m = Full /\ Full \in Nat
    BY <1>2, FullIs
  <2>2. PICK q \in Nat : Full = 4 * q
    BY FullIs
  <2>3. (Full + 1) \div 2 = 2 * q /\ (Full + 1) % 2 = 1 /\ (2 * q) % 2 = 0
    BY <2>2
  <2>4. T!Nearest(Full + 1, 2) = 2 * q
    BY <2>2, <2>3 DEF T!Nearest
  <2>5. T!FloatSum(m) = 2 * (2 * q)
    BY <2>1, <2>4 DEF T!FloatSum, Full
  <2>6. QED
    BY <1>2, <2>1, <2>2, <2>5
<1>3. QED
  BY <1>1, <1>2

\* A remainder is what the definition says, whichever way the number is divided.
LEMMA ModUnique ==
  ASSUME NEW d \in Nat \ {0}, NEW k \in Nat, NEW r \in 0 .. d - 1
  PROVE  (d * k + r) % d = r /\ (d * k + r) \div d = k
<1> DEFINE n == d * k + r
           q == n \div d
<1>1. n \in Nat /\ q \in Nat /\ n % d \in 0 .. d - 1 /\ n = d * q + (n % d)
  <2>1. n \in Nat
    OBVIOUS
  <2> HIDE DEF n
  <2>2. QED
    BY <2>1
<1> HIDE DEF q
<1>2. ASSUME NEW x \in Nat, NEW y \in Nat, x < y, NEW u \in 0 .. d - 1, NEW v \in 0 .. d - 1,
             d * x + u = d * y + v
      PROVE  FALSE
  <2>1. y = x + (y - x) /\ y - x \in Nat /\ y - x >= 1
    BY <1>2
  <2>2. d * y = d * x + d * (y - x)
    BY <2>1
  <2>3. d * (y - x) >= d
    BY <2>1
  <2>4. d * x \in Nat /\ d * (y - x) \in Nat
    BY <2>1
  <2>5. QED
    BY <1>2, <2>2, <2>3, <2>4
<1>3. q = k
  <2>1. ~ (q < k) /\ ~ (k < q)
    BY <1>1, <1>2 DEF n
  <2>2. QED
    BY <1>1, <2>1
<1>4. n % d = r
  BY <1>1, <1>3
<1>5. QED
  BY <1>3, <1>4 DEF q

\* Counting on by one, modulo d.
LEMMA ModNext ==
  ASSUME NEW n \in Nat, NEW d \in Nat \ {0}
  PROVE  /\ n % d \in 0 .. d - 1
         /\ (n + 1) % d = IF (n % d) + 1 >= d THEN 0 ELSE (n % d) + 1
<1> DEFINE r == n % d
           q == n \div d
<1>1. /\ r \in 0 .. d - 1 /\ n = d * q + r /\ q \in Nat
  OBVIOUS
<1> HIDE DEF q
<1>2. CASE r + 1 < d
  <2>1. n + 1 = d * q + (r + 1) /\ r + 1 \in 0 .. d - 1
    BY <1>1, <1>2
  <2>2. QED
    BY <1>1, <1>2, <2>1
<1>3. CASE ~ (r + 1 < d)
  <2>1. r + 1 = d
    BY <1>1, <1>3
  <2>2. n + 1 = d * (q + 1) + 0 /\ 0 \in 0 .. d - 1 /\ q + 1 \in Nat
    BY <1>1, <2>1
  <2>3. (n + 1) % d = 0
    BY <2>2, ModUnique
  <2>4. QED
    BY <1>1, <2>1, <2>3
<1>4. QED
  BY <1>2, <1>3

-----------------------------------------------------------------------------
(* The steps of the timers and of the collector.                           *)

PitOK == /\ pit \in [timer : 0 .. PerMilli - 1, millis : 0 .. Thousand, total : 0 .. MaxPit]
         /\ T!PitPeriod

RtcOK == /\ ticks \in 0 .. Full + 1 /\ seconds \in 0 .. Full
         /\ seconds = IF ticks > Full THEN Full ELSE ticks
         /\ millis = T!FloatMillis(seconds)

\* The collector's thread is behind the clock, and what it has counted is no more
\* than what has passed since it counted from 0.
GcOK ==
  /\ gc \in [now : Nat, last : Int, timer : 0 .. GcMillis - 1, at : {"read", "test"}]
  /\ since \in Nat /\ frees \in 0 .. MaxFrees
  /\ gc.last <= gc.now /\ gc.now <= millis
  /\ gc.timer <= gc.last - since + 1

TicksIInv == PitOK /\ RtcOK /\ GcOK

LEMMA TicksInit == T!Init => TicksIInv
<1> SUFFICES ASSUME T!Init PROVE TicksIInv
  OBVIOUS
<1> USE TicksConstants, FullIs DEF T!Init
<1>1. PitOK
  <2>1. 0 % (Thousand + 1) = 0
    OBVIOUS
  <2>2. QED
    BY <2>1 DEF PitOK, T!PitPeriod
<1>2. RtcOK
  BY DEF RtcOK, T!FloatMillis
<1>3. GcOK
  <2>1. PICK l \in {-1, 0} : gc = [now |-> 0, last |-> l, timer |-> 0, at |-> "read"]
    OBVIOUS
  <2>2. QED
    BY <2>1 DEF GcOK
<1>4. QED
  BY <1>1, <1>2, <1>3 DEF TicksIInv

LEMMA TicksPit == TicksIInv /\ (T!PitTick \/ T!PitStop) => TicksIInv'
<1> SUFFICES ASSUME TicksIInv, T!PitTick \/ T!PitStop PROVE TicksIInv'
  OBVIOUS
<1>1. RtcOK' /\ GcOK'
  BY DEF TicksIInv, RtcOK, GcOK, T!PitTick, T!PitStop
<1>2. CASE T!PitStop
  <2>1. PitOK'
    <3>1. 0 % (Thousand + 1) = 0
      BY TicksConstants
    <3>2. QED
      BY <1>2, <3>1, TicksConstants DEF T!PitStop, PitOK, T!PitPeriod
  <2>2. QED
    BY <1>1, <2>1 DEF TicksIInv
<1>3. CASE T!PitTick
  <2> DEFINE t == pit.timer + 1
             m == IF t >= PerMilli THEN 1 ELSE 0
             x == IF pit.millis + m > Thousand THEN 0 ELSE pit.millis + m
  <2>1. /\ pit' = [timer |-> IF m = 1 THEN 0 ELSE t, millis |-> x, total |-> pit.total + m]
        /\ pit.total < MaxPit
    BY <1>3 DEF T!PitTick
  <2>2. /\ pit.timer \in 0 .. PerMilli - 1 /\ pit.millis \in 0 .. Thousand
        /\ pit.total \in 0 .. MaxPit /\ pit.millis = pit.total % (Thousand + 1)
    BY DEF TicksIInv, PitOK, T!PitPeriod
  <2>3. m \in {0, 1} /\ (m = 1 \/ t < PerMilli)
    BY <2>2, TicksConstants
  <2>4. /\ (IF m = 1 THEN 0 ELSE t) \in 0 .. PerMilli - 1
        /\ pit.total + m \in 0 .. MaxPit
    BY <2>1, <2>2, <2>3, TicksConstants
  <2> HIDE DEF m, t
  <2>5. x \in 0 .. Thousand /\ x = (pit.total + m) % (Thousand + 1)
    <3>1. /\ (pit.total + 1) % (Thousand + 1) =
               IF pit.millis + 1 >= Thousand + 1 THEN 0 ELSE pit.millis + 1
          /\ pit.total \in Nat
      <4>1. pit.total \in Nat /\ Thousand + 1 \in Nat \ {0}
        BY <2>2, TicksConstants
      <4>2. QED
        BY <2>2, <4>1, ModNext
    <3>2. CASE m = 0
      <4>1. pit.total + m = pit.total /\ x = pit.millis
        BY <2>2, <3>1, <3>2, TicksConstants
      <4>2. QED
        BY <2>2, <4>1
    <3>3. CASE m = 1
      <4>1. x = IF pit.millis + 1 >= Thousand + 1 THEN 0 ELSE pit.millis + 1
        BY <2>2, <3>3, TicksConstants
      <4>2. x \in 0 .. Thousand
        BY <2>2, <4>1, TicksConstants
      <4>3. QED
        BY <3>1, <3>3, <4>1, <4>2
    <3>4. QED
      BY <2>3, <3>2, <3>3
  <2> HIDE DEF x
  <2>6. PitOK'
    BY <2>1, <2>4, <2>5 DEF PitOK, T!PitPeriod
  <2>7. QED
    BY <1>1, <2>6 DEF TicksIInv
<1>4. QED
  BY <1>2, <1>3

LEMMA TicksRtc == TicksIInv /\ T!RtcTick => TicksIInv'
<1> SUFFICES ASSUME TicksIInv, T!RtcTick PROVE TicksIInv'
  OBVIOUS
<1>1. /\ ticks \in 0 .. Full + 1 /\ seconds \in 0 .. Full /\ Full \in Nat
      /\ seconds = (IF ticks > Full THEN Full ELSE ticks) /\ millis = T!FloatMillis(seconds)
  BY FullIs DEF TicksIInv, RtcOK
<1>2. /\ ticks' = (IF ticks <= Full THEN ticks + 1 ELSE ticks)
      /\ seconds' = (IF seconds < Full THEN seconds + 1 ELSE Full)
      /\ millis' = T!FloatMillis(seconds')
      /\ UNCHANGED <<pit, gc, frees, since>>
  BY <1>1, FloatSumIs DEF T!RtcTick, Full
<1>3. millis <= millis' /\ millis \in Nat /\ millis' \in Nat
  <2>1. CASE seconds < Full
    <3>1. seconds \in 0 .. Full - 1 /\ seconds' = seconds + 1 /\ seconds + 1 \in 0 .. Full
      BY <1>1, <1>2, <2>1
    <3>2. QED
      BY <1>1, <1>2, <3>1, FloatMillisGrows, FloatMillisIs
  <2>2. CASE ~ (seconds < Full)
    <3>1. seconds' = seconds
      BY <1>1, <1>2, <2>2
    <3>2. QED
      BY <1>1, <1>2, <3>1, FloatMillisIs
  <2>3. QED
    BY <2>1, <2>2
<1>4. RtcOK'
  <2>1. ticks' \in 0 .. Full + 1 /\ seconds' \in 0 .. Full /\ Full' = Full
    BY <1>1, <1>2 DEF Full
  <2>2. seconds' = IF ticks' > Full THEN Full ELSE ticks'
    BY <1>1, <1>2
  <2>3. T!FloatMillis(seconds)' = T!FloatMillis(seconds')
    BY DEF T!FloatMillis, T!Nearest
  <2>4. QED
    BY <1>2, <2>1, <2>2, <2>3 DEF RtcOK
<1>5. GcOK'
  BY <1>2, <1>3 DEF TicksIInv, GcOK
<1>6. PitOK'
  BY <1>2 DEF TicksIInv, PitOK, T!PitPeriod
<1>7. QED
  BY <1>4, <1>5, <1>6 DEF TicksIInv

LEMMA TicksGc == TicksIInv /\ (T!GcRead \/ T!GcTest \/ T!Free) => TicksIInv'
<1> SUFFICES ASSUME TicksIInv, T!GcRead \/ T!GcTest \/ T!Free PROVE TicksIInv'
  OBVIOUS
<1>0. UNCHANGED <<pit, ticks, seconds, millis>>
  BY DEF T!GcRead, T!GcTest, T!Free
<1>1. PitOK' /\ RtcOK'
  BY <1>0 DEF TicksIInv, PitOK, RtcOK, T!PitPeriod
<1>2. /\ gc \in [now : Nat, last : Int, timer : 0 .. GcMillis - 1, at : {"read", "test"}]
      /\ since \in Nat /\ frees \in 0 .. MaxFrees
      /\ gc.last <= gc.now /\ gc.now <= millis
      /\ gc.timer <= gc.last - since + 1
  BY DEF TicksIInv, GcOK
<1>3. millis \in Nat
  BY FloatMillisIs DEF TicksIInv, RtcOK
<1>4. CASE T!GcRead
  <2>1. /\ gc' \in [now : Nat, last : Int, timer : 0 .. GcMillis - 1, at : {"read", "test"}]
        /\ gc'.now = millis /\ gc'.last = gc.last /\ gc'.timer = gc.timer
        /\ UNCHANGED <<frees, since>>
    BY <1>2, <1>3, <1>4 DEF T!GcRead
  <2>2. GcOK'
    BY <1>0, <1>2, <1>3, <2>1 DEF GcOK
  <2>3. QED
    BY <1>1, <2>2 DEF TicksIInv
<1>5. CASE T!GcTest
  <2> DEFINE t == IF gc.last # gc.now THEN gc.timer + 1 ELSE gc.timer
             due == t >= GcMillis \/ frees >= GcFrees
  <2>1. /\ gc' = [gc EXCEPT !.last = gc.now, !.timer = IF due THEN 0 ELSE t, !.at = "read"]
        /\ frees' = (IF due THEN 0 ELSE frees)
        /\ since' = (IF due THEN gc.now ELSE since)
    BY <1>5 DEF T!GcTest
  <2>2. /\ gc.now \in Nat /\ gc.last \in Int /\ gc.timer \in 0 .. GcMillis - 1
        /\ t \in Nat /\ t <= gc.now - since + 1
    BY <1>2, TicksConstants
  <2>3. ~ due => t \in 0 .. GcMillis - 1
    BY <2>2, TicksConstants
  <2>4. 0 \in 0 .. GcMillis - 1 /\ frees' \in 0 .. MaxFrees /\ since' \in Nat
    BY <1>2, <2>1, <2>2, TicksConstants
  <2> HIDE DEF t, due
  <2>5. (IF due THEN 0 ELSE t) \in 0 .. GcMillis - 1
    BY <2>3, <2>4
  <2>6. /\ gc' \in [now : Nat, last : Int, timer : 0 .. GcMillis - 1, at : {"read", "test"}]
        /\ gc'.now = gc.now /\ gc'.last = gc.now /\ gc'.timer = IF due THEN 0 ELSE t
    <3> DEFINE z == IF due THEN 0 ELSE t
    <3>1. gc' = [gc EXCEPT !.last = gc.now, !.timer = z, !.at = "read"] /\ gc.now \in Int
      BY <2>1, <2>2
    <3>2. z \in 0 .. GcMillis - 1
      BY <2>5
    <3> HIDE DEF z
    <3>3. /\ gc' \in [now : Nat, last : Int, timer : 0 .. GcMillis - 1, at : {"read", "test"}]
          /\ gc'.now = gc.now /\ gc'.last = gc.now /\ gc'.timer = z
      BY <1>2, <3>1, <3>2
    <3>4. QED
      BY <3>3 DEF z
  <2>7. gc'.timer <= gc'.last - since' + 1
    BY <1>2, <2>1, <2>2, <2>6
  <2>8. GcOK'
    BY <1>0, <1>2, <2>2, <2>4, <2>6, <2>7 DEF GcOK
  <2>9. QED
    BY <1>1, <2>8 DEF TicksIInv
<1>6. CASE T!Free
  <2>1. frees' \in 0 .. MaxFrees /\ UNCHANGED <<gc, since>>
    BY <1>2, <1>6, TicksConstants DEF T!Free
  <2>2. GcOK'
    BY <1>0, <1>2, <2>1 DEF GcOK
  <2>3. QED
    BY <1>1, <2>2 DEF TicksIInv
<1>7. QED
  BY <1>4, <1>5, <1>6

LEMMA TicksStep == TicksIInv /\ [T!Next]_ticksVars => TicksIInv'
<1> SUFFICES ASSUME TicksIInv, [T!Next]_ticksVars PROVE TicksIInv'
  OBVIOUS
<1>1. CASE UNCHANGED ticksVars
  BY <1>1 DEF ticksVars, TicksIInv, PitOK, RtcOK, GcOK, T!PitPeriod
<1>2. CASE T!Next
  BY <1>2, TicksPit, TicksRtc, TicksGc DEF T!Next
<1>3. QED
  BY <1>1, <1>2

LEMMA TicksSays == TicksIInv => T!TicksRight
<1> SUFFICES ASSUME TicksIInv PROVE T!TicksRight
  OBVIOUS
<1>1. /\ seconds \in 0 .. Full /\ seconds = (IF ticks > Full THEN Full ELSE ticks)
      /\ millis \in Nat /\ millis * 1024 - seconds * 1000 <= 512
      /\ seconds * 1000 - millis * 1024 <= 1024 /\ Full \in Nat
  BY FloatMillisIs, FullIs DEF TicksIInv, RtcOK
<1>2. T!TypeOK
  BY <1>1 DEF T!TypeOK, TicksIInv, PitOK, RtcOK, GcOK, Full
<1>3. T!MillisUntilFull
  <2>1. millis * 1024 - seconds * 1000 \in -1024..1024
    BY <1>1
  <2>2. seconds = IF ticks > T!Pow[Mantissa] THEN T!Pow[Mantissa] ELSE ticks
    BY <1>1 DEF Full
  <2> DEFINE t == IF ticks > T!Pow[Mantissa] THEN T!Pow[Mantissa] ELSE ticks
  <2>3. seconds = t
    BY <2>2
  <2> HIDE DEF t
  <2>4. millis * 1024 - t * 1000 \in -1024..1024
    BY <2>1, <2>3
  <2>5. QED
    BY <2>3, <2>4, Zenon DEF t, T!MillisUntilFull
<1>4. T!NotTooOften
  BY DEF T!NotTooOften, TicksIInv, GcOK
<1>5. QED
  BY <1>2, <1>3, <1>4 DEF T!TicksRight, TicksIInv, PitOK

LEMMA TicksMove == [MachineNext]_machine => [T!Next]_ticksVars
BY DEF MachineNext, machine, OnlyDevMgr, OnlyAta, OnlyTicks, OnlyPci

\* With a mantissa of any length of at least seven bits, the clock's milliseconds are
\* right to a millisecond until the float is full and stand still from then on, the
\* PIT's start again after one too many, and the collector is never too early.
THEOREM CountersRight == MachineSpec => []TicksRight
<1>1. MachineInit => TicksIInv
  BY TicksInit DEF MachineInit
<1>2. TicksIInv /\ [MachineNext]_machine => TicksIInv'
  BY TicksStep, TicksMove
<1>3. TicksIInv => TicksRight
  BY TicksSays DEF TicksRight
<1>4. QED
  BY <1>1, <1>2, <1>3, PTL DEF MachineSpec

-----------------------------------------------------------------------------
(* The PCI bus: bytes and addresses.                                       *)

LEMMA PciConstants ==
  /\ PCI_BUS_COUNT \in 1 .. 256 /\ PCI_SLOT_COUNT \in 1 .. 32 /\ PCI_FUNC_COUNT \in 1 .. 8
  /\ PCI_COUNT \in Nat \ {0} /\ MaxWrites \in Nat
  /\ Offsets \subseteq {2 * k : k \in 0 .. 127}
BY DriversAssumption DEF P!PciAssumption

\* The bits of a byte, each by its place.
Digits(n) ==
  /\ P!Bits(n) \subseteq 0 .. 7
  /\ 0 \in P!Bits(n) <=> n % 2 = 1
  /\ 1 \in P!Bits(n) <=> (n \div 2) % 2 = 1
  /\ 2 \in P!Bits(n) <=> (n \div 4) % 2 = 1
  /\ 3 \in P!Bits(n) <=> (n \div 8) % 2 = 1
  /\ 4 \in P!Bits(n) <=> (n \div 16) % 2 = 1
  /\ 5 \in P!Bits(n) <=> (n \div 32) % 2 = 1
  /\ 6 \in P!Bits(n) <=> (n \div 64) % 2 = 1
  /\ 7 \in P!Bits(n) <=> (n \div 128) % 2 = 1

LEMMA BitsAre == ASSUME NEW n \in 0 .. 255 PROVE Digits(n)
<1>1. /\ P!Weights[0 + 1] = 1 /\ P!Weights[1 + 1] = 2 /\ P!Weights[2 + 1] = 4
      /\ P!Weights[3 + 1] = 8 /\ P!Weights[4 + 1] = 16 /\ P!Weights[5 + 1] = 32
      /\ P!Weights[6 + 1] = 64 /\ P!Weights[7 + 1] = 128
  BY DEF P!Weights
<1>2. \A k \in 0 .. 7 : k \in P!Bits(n) <=> (n \div P!Weights[k + 1]) % 2 = 1
  BY DEF P!Bits
<1>3. P!Bits(n) \subseteq 0 .. 7
  BY DEF P!Bits
<1>4. /\ 0 \in 0 .. 7 /\ 1 \in 0 .. 7 /\ 2 \in 0 .. 7 /\ 3 \in 0 .. 7
      /\ 4 \in 0 .. 7 /\ 5 \in 0 .. 7 /\ 6 \in 0 .. 7 /\ 7 \in 0 .. 7
      /\ n \div 1 = n
  OBVIOUS
<1>5. QED
  BY <1>1, <1>2, <1>3, <1>4 DEF Digits

\* A byte is the sum of the weights of its bits.
LEMMA ByteOfBits ==
  ASSUME NEW n \in 0 .. 255
  PROVE  n = (n % 2) + ((n \div 2) % 2) * 2 + ((n \div 4) % 2) * 4 + ((n \div 8) % 2) * 8
               + ((n \div 16) % 2) * 16 + ((n \div 32) % 2) * 32 + ((n \div 64) % 2) * 64
               + ((n \div 128) % 2) * 128
OBVIOUS

\* The number of a bit in the address that pci_read builds (pci.c:90) tells whose bit it is.
LEMMA AddressBits ==
  ASSUME NEW b \in 0 .. 255, NEW s \in 0 .. 31, NEW f \in 0 .. 7, NEW o \in 0 .. 255
  PROVE  LET a == P!Address(<<b, s, f>>, o) IN
         /\ \A j \in 0 .. 7 : 16 + j \in a <=> j \in P!Bits(b)
         /\ \A j \in 0 .. 4 : 11 + j \in a <=> j \in P!Bits(s)
         /\ \A j \in 0 .. 2 : 8 + j \in a <=> j \in P!Bits(f)
         /\ \A j \in 0 .. 7 : j \in a <=> j \in 2 .. 7 /\ j \in P!Bits(o)
<1> DEFINE a == P!Address(<<b, s, f>>, o)
<1>1. P!Bits(b) \subseteq 0 .. 7 /\ P!Bits(o) \subseteq 0 .. 7
  BY BitsAre DEF Digits
<1>2. P!Bits(s) \subseteq 0 .. 4
  <2>1. s \in 0 .. 255 /\ s \div 32 = 0 /\ s \div 64 = 0 /\ s \div 128 = 0
    OBVIOUS
  <2>2. P!Bits(s) \subseteq 0 .. 7 /\ 5 \notin P!Bits(s) /\ 6 \notin P!Bits(s) /\ 7 \notin P!Bits(s)
    BY <2>1, BitsAre DEF Digits
  <2>3. QED
    BY <2>2
<1>3. P!Bits(f) \subseteq 0 .. 2
  <2>1. /\ f \in 0 .. 255 /\ f \div 8 = 0 /\ f \div 16 = 0 /\ f \div 32 = 0 /\ f \div 64 = 0
        /\ f \div 128 = 0
    OBVIOUS
  <2>2. /\ P!Bits(f) \subseteq 0 .. 7 /\ 3 \notin P!Bits(f) /\ 4 \notin P!Bits(f)
        /\ 5 \notin P!Bits(f) /\ 6 \notin P!Bits(f) /\ 7 \notin P!Bits(f)
    BY <2>1, BitsAre DEF Digits
  <2>3. QED
    BY <2>2
<1>4. \A x : x \in a <=> \/ \E j \in P!Bits(b) : x = j + 16
                         \/ \E j \in P!Bits(s) : x = j + 11
                         \/ \E j \in P!Bits(f) : x = j + 8
                         \/ x \in 2 .. 7 /\ x \in P!Bits(o)
                         \/ x = 31
  BY DEF P!Address, P!Shifted
<1> HIDE DEF a
<1>5. \A j \in 0 .. 7 : 16 + j \in a <=> j \in P!Bits(b)
  BY <1>1, <1>2, <1>3, <1>4
<1>6. \A j \in 0 .. 4 : 11 + j \in a <=> j \in P!Bits(s)
  BY <1>1, <1>2, <1>3, <1>4
<1>7. \A j \in 0 .. 2 : 8 + j \in a <=> j \in P!Bits(f)
  BY <1>1, <1>2, <1>3, <1>4
<1>8. \A j \in 0 .. 7 : j \in a <=> j \in 2 .. 7 /\ j \in P!Bits(o)
  BY <1>1, <1>2, <1>3, <1>4
<1>9. QED
  BY <1>5, <1>6, <1>7, <1>8 DEF a

\* Eight bits of an address, and the byte they are the bits of.
Spells(a, low, n) ==
  /\ low \in a <=> 0 \in P!Bits(n)
  /\ low + 1 \in a <=> 1 \in P!Bits(n)
  /\ low + 2 \in a <=> 2 \in P!Bits(n)
  /\ low + 3 \in a <=> 3 \in P!Bits(n)
  /\ low + 4 \in a <=> 4 \in P!Bits(n)
  /\ low + 5 \in a <=> 5 \in P!Bits(n)
  /\ low + 6 \in a <=> 6 \in P!Bits(n)
  /\ low + 7 \in a <=> 7 \in P!Bits(n)

LEMMA ByteIs ==
  ASSUME NEW a, NEW low, NEW n \in 0 .. 255, Spells(a, low, n)
  PROVE  P!Byte(a, low) = n
<1>1. /\ P!Bit(a, low, 1) = n % 2
      /\ P!Bit(a, low + 1, 2) = ((n \div 2) % 2) * 2
      /\ P!Bit(a, low + 2, 4) = ((n \div 4) % 2) * 4
      /\ P!Bit(a, low + 3, 8) = ((n \div 8) % 2) * 8
      /\ P!Bit(a, low + 4, 16) = ((n \div 16) % 2) * 16
      /\ P!Bit(a, low + 5, 32) = ((n \div 32) % 2) * 32
      /\ P!Bit(a, low + 6, 64) = ((n \div 64) % 2) * 64
      /\ P!Bit(a, low + 7, 128) = ((n \div 128) % 2) * 128
  BY BitsAre DEF Spells, Digits, P!Bit
<1>2. QED
  BY <1>1, ByteOfBits DEF P!Byte

\* pci_read asks for the function that it is given, and for the word around the offset.
LEMMA ReadSelects ==
  ASSUME NEW b \in 0 .. 255, NEW s \in 0 .. 31, NEW f \in 0 .. 7, NEW o \in 0 .. 255
  PROVE  /\ P!Selected(P!Address(<<b, s, f>>, o)) = <<b, s, f>>
         /\ P!Register(P!Address(<<b, s, f>>, o)) = o - (o % 4)
<1> DEFINE a == P!Address(<<b, s, f>>, o)
           high == s + 32 * (b % 8)
           mid == f + 8 * (s % 32)
<1>1. /\ \A j \in 0 .. 7 : 16 + j \in a <=> j \in P!Bits(b)
      /\ \A j \in 0 .. 4 : 11 + j \in a <=> j \in P!Bits(s)
      /\ \A j \in 0 .. 2 : 8 + j \in a <=> j \in P!Bits(f)
      /\ \A j \in 0 .. 7 : j \in a <=> j \in 2 .. 7 /\ j \in P!Bits(o)
  BY AddressBits
<1> HIDE DEF a
<1>2. P!Byte(a, 16) = b
  <2>1. Spells(a, 16, b)
    BY <1>1 DEF Spells
  <2>2. QED
    BY <2>1, ByteIs
<1>3. high \in 0 .. 255 /\ high % 32 = s /\ mid \in 0 .. 255 /\ mid % 8 = f
  OBVIOUS
<1>4. Spells(a, 11, high)
  <2>1. /\ 11 \in a <=> 0 \in P!Bits(s)
        /\ 11 + 1 \in a <=> 1 \in P!Bits(s)
        /\ 11 + 2 \in a <=> 2 \in P!Bits(s)
        /\ 11 + 3 \in a <=> 3 \in P!Bits(s)
        /\ 11 + 4 \in a <=> 4 \in P!Bits(s)
        /\ 11 + 5 \in a <=> 0 \in P!Bits(b)
        /\ 11 + 6 \in a <=> 1 \in P!Bits(b)
        /\ 11 + 7 \in a <=> 2 \in P!Bits(b)
    BY <1>1
  <2>2. /\ high % 2 = s % 2 /\ (high \div 2) % 2 = (s \div 2) % 2
        /\ (high \div 4) % 2 = (s \div 4) % 2 /\ (high \div 8) % 2 = (s \div 8) % 2
        /\ (high \div 16) % 2 = (s \div 16) % 2
        /\ (high \div 32) % 2 = b % 2 /\ (high \div 64) % 2 = (b \div 2) % 2
        /\ (high \div 128) % 2 = (b \div 4) % 2
    <3>1. high % 2 = s % 2 /\ (high \div 2) % 2 = (s \div 2) % 2
      OBVIOUS
    <3>2. (high \div 4) % 2 = (s \div 4) % 2
      OBVIOUS
    <3>3. (high \div 8) % 2 = (s \div 8) % 2
      OBVIOUS
    <3>4. (high \div 16) % 2 = (s \div 16) % 2
      OBVIOUS
    <3>5. high \div 32 = b % 8 /\ high \div 64 = (b % 8) \div 2 /\ high \div 128 = (b % 8) \div 4
      OBVIOUS
    <3>6. (b % 8) % 2 = b % 2
      OBVIOUS
    <3>7. ((b % 8) \div 2) % 2 = (b \div 2) % 2
      OBVIOUS
    <3>8. ((b % 8) \div 4) % 2 = (b \div 4) % 2
      OBVIOUS
    <3> HIDE DEF high
    <3>9. QED
      BY <3>1, <3>2, <3>3, <3>4, <3>5, <3>6, <3>7, <3>8
  <2>3. s \in 0 .. 255
    OBVIOUS
  <2> HIDE DEF high
  <2>4. /\ 0 \in P!Bits(high) <=> 0 \in P!Bits(s)
        /\ 1 \in P!Bits(high) <=> 1 \in P!Bits(s)
        /\ 2 \in P!Bits(high) <=> 2 \in P!Bits(s)
        /\ 3 \in P!Bits(high) <=> 3 \in P!Bits(s)
        /\ 4 \in P!Bits(high) <=> 4 \in P!Bits(s)
        /\ 5 \in P!Bits(high) <=> 0 \in P!Bits(b)
        /\ 6 \in P!Bits(high) <=> 1 \in P!Bits(b)
        /\ 7 \in P!Bits(high) <=> 2 \in P!Bits(b)
    <3>1. Digits(high) /\ Digits(s) /\ Digits(b)
      BY <1>3, <2>3, BitsAre
    <3>2. QED
      BY <2>2, <3>1 DEF Digits
  <2>5. QED
    BY <2>1, <2>4 DEF Spells
<1>5. Spells(a, 8, mid)
  <2>1. /\ \A j \in 0 .. 2 : 8 + j \in a <=> j \in P!Bits(f)
        /\ \A j \in 3 .. 7 : 8 + j \in a <=> j - 3 \in P!Bits(s)
    <3>1. ASSUME NEW j \in 3 .. 7 PROVE 8 + j \in a <=> j - 3 \in P!Bits(s)
      <4>1. j - 3 \in 0 .. 4 /\ 8 + j = 11 + (j - 3)
        OBVIOUS
      <4>2. QED
        BY <1>1, <4>1
    <3>2. QED
      BY <1>1, <3>1
  <2>2. /\ mid % 2 = f % 2 /\ (mid \div 2) % 2 = (f \div 2) % 2
        /\ (mid \div 4) % 2 = (f \div 4) % 2 /\ (mid \div 8) % 2 = s % 2
        /\ (mid \div 16) % 2 = (s \div 2) % 2 /\ (mid \div 32) % 2 = (s \div 4) % 2
        /\ (mid \div 64) % 2 = (s \div 8) % 2 /\ (mid \div 128) % 2 = (s \div 16) % 2
    <3>1. s % 32 = s
      OBVIOUS
    <3>2. mid = f + 8 * s
      BY <3>1
    <3> HIDE DEF mid
    <3>3. mid % 2 = f % 2
      BY <3>2
    <3>4. (mid \div 2) % 2 = (f \div 2) % 2
      BY <3>2
    <3>5. (mid \div 4) % 2 = (f \div 4) % 2
      BY <3>2
    <3>6. mid \div 8 = s
      BY <3>2
    <3>7. mid \div 16 = s \div 2
      BY <3>2
    <3>8. mid \div 32 = s \div 4
      BY <3>2
    <3>9. mid \div 64 = s \div 8
      BY <3>2
    <3>10. mid \div 128 = s \div 16
      BY <3>2
    <3>11. QED
      BY <3>3, <3>4, <3>5, <3>6, <3>7, <3>8, <3>9, <3>10
  <2>3. s \in 0 .. 255 /\ f \in 0 .. 255
    OBVIOUS
  <2> HIDE DEF mid
  <2>4. /\ 0 \in P!Bits(mid) <=> 0 \in P!Bits(f)
        /\ 1 \in P!Bits(mid) <=> 1 \in P!Bits(f)
        /\ 2 \in P!Bits(mid) <=> 2 \in P!Bits(f)
        /\ 3 \in P!Bits(mid) <=> 0 \in P!Bits(s)
        /\ 4 \in P!Bits(mid) <=> 1 \in P!Bits(s)
        /\ 5 \in P!Bits(mid) <=> 2 \in P!Bits(s)
        /\ 6 \in P!Bits(mid) <=> 3 \in P!Bits(s)
        /\ 7 \in P!Bits(mid) <=> 4 \in P!Bits(s)
    <3>1. Digits(mid) /\ Digits(s) /\ Digits(f)
      BY <1>3, <2>3, BitsAre
    <3>2. QED
      BY <2>2, <3>1 DEF Digits
  <2>5. QED
    BY <2>1, <2>4 DEF Spells
<1>6. P!Byte(a, 11) = high /\ P!Byte(a, 8) = mid
  <2> HIDE DEF high, mid
  <2>1. P!Byte(a, 11) = high
    BY <1>3, <1>4, ByteIs
  <2>2. P!Byte(a, 8) = mid
    BY <1>3, <1>5, ByteIs
  <2>3. QED
    BY <2>1, <2>2
<1>7. P!Byte(a \ {0, 1}, 0) = o - (o % 4)
  <2> DEFINE word == o - (o % 4)
  <2>1. /\ word \in 0 .. 255 /\ word % 2 = 0 /\ (word \div 2) % 2 = 0
        /\ (word \div 4) % 2 = (o \div 4) % 2 /\ (word \div 8) % 2 = (o \div 8) % 2
        /\ (word \div 16) % 2 = (o \div 16) % 2 /\ (word \div 32) % 2 = (o \div 32) % 2
        /\ (word \div 64) % 2 = (o \div 64) % 2 /\ (word \div 128) % 2 = (o \div 128) % 2
    OBVIOUS
  <2> HIDE DEF word
  <2>2. \A j \in 0 .. 7 : j \in P!Bits(word) <=> j \in 2 .. 7 /\ j \in P!Bits(o)
    <3>1. Digits(word) /\ Digits(o)
      BY <2>1, BitsAre
    <3>2. QED
      BY <2>1, <3>1 DEF Digits
  <2>3. Spells(a \ {0, 1}, 0, word)
    BY <1>1, <2>2 DEF Spells
  <2>4. P!Byte(a \ {0, 1}, 0) = word
    BY <2>1, <2>3, ByteIs
  <2>5. QED
    BY <2>4 DEF word
<1>8. QED
  BY <1>2, <1>3, <1>6, <1>7 DEF P!Selected, P!Register, a

\* pci_write asks for slot 0, whatever slot it is given, and if it is given slot 0 for
\* the dword around the offset (pci.c:79 shifts the slot to where the register is).
LEMMA WriteSelects ==
  ASSUME NEW b \in 0 .. 255, NEW s \in 0 .. 31, NEW f \in 0 .. 7, NEW o \in 0 .. 255
  PROVE  /\ P!Selected(P!WriteAddress(<<b, s, f>>, o)) = <<b, 0, f>>
         /\ s = 0 => P!Register(P!WriteAddress(<<b, s, f>>, o)) = o - (o % 4)
<1> DEFINE a == P!WriteAddress(<<b, s, f>>, o)
           high == 32 * (b % 8)
<1>1. P!Bits(b) \subseteq 0 .. 7 /\ P!Bits(o) \subseteq 0 .. 7
  BY BitsAre DEF Digits
<1>2. P!Bits(s) \subseteq 0 .. 4
  <2>1. s \in 0 .. 255 /\ s \div 32 = 0 /\ s \div 64 = 0 /\ s \div 128 = 0
    OBVIOUS
  <2>2. P!Bits(s) \subseteq 0 .. 7 /\ 5 \notin P!Bits(s) /\ 6 \notin P!Bits(s) /\ 7 \notin P!Bits(s)
    BY <2>1, BitsAre DEF Digits
  <2>3. QED
    BY <2>2
<1>3. P!Bits(f) \subseteq 0 .. 2
  <2>1. /\ f \in 0 .. 255 /\ f \div 8 = 0 /\ f \div 16 = 0 /\ f \div 32 = 0 /\ f \div 64 = 0
        /\ f \div 128 = 0
    OBVIOUS
  <2>2. /\ P!Bits(f) \subseteq 0 .. 7 /\ 3 \notin P!Bits(f) /\ 4 \notin P!Bits(f)
        /\ 5 \notin P!Bits(f) /\ 6 \notin P!Bits(f) /\ 7 \notin P!Bits(f)
    BY <2>1, BitsAre DEF Digits
  <2>3. QED
    BY <2>2
<1>4. \A x : x \in a <=> \/ \E j \in P!Bits(b) : x = j + 16
                         \/ \E j \in P!Bits(s) : x = j + 1
                         \/ \E j \in P!Bits(f) : x = j + 8
                         \/ x \in 2 .. 7 /\ x \in P!Bits(o)
                         \/ x = 31
  BY DEF P!WriteAddress, P!Shifted
<1> HIDE DEF a
<1>5. Spells(a, 16, b)
  BY <1>1, <1>2, <1>3, <1>4 DEF Spells
<1>6. \A j \in 11 .. 15 : j \notin a
  BY <1>1, <1>2, <1>3, <1>4
<1>7. Spells(a, 8, f)
  BY <1>1, <1>2, <1>3, <1>4 DEF Spells
<1>8. P!Byte(a, 16) = b
  BY <1>5, ByteIs
<1>9. P!Byte(a, 8) = f
  BY <1>7, ByteIs
<1>10. P!Byte(a, 11) % 32 = 0
  <2>1. 11 \notin a /\ 11 + 1 \notin a /\ 11 + 2 \notin a /\ 11 + 3 \notin a /\ 11 + 4 \notin a
    BY <1>6
  <2>2. \A x, w : P!Bit(a, x, w) = IF x \in a THEN w ELSE 0
    BY DEF P!Bit
  <2> DEFINE x5 == P!Bit(a, 11 + 5, 32)
             x6 == P!Bit(a, 11 + 6, 64)
             x7 == P!Bit(a, 11 + 7, 128)
  <2>3. x5 \in {0, 32} /\ x6 \in {0, 64} /\ x7 \in {0, 128}
    BY <2>2
  <2>4. P!Byte(a, 11) = 0 + 0 + 0 + 0 + 0 + x5 + x6 + x7
    BY <2>1, <2>2 DEF P!Byte
  <2> HIDE DEF x5, x6, x7
  <2>5. QED
    BY <2>3, <2>4
<1>11. ASSUME s = 0 PROVE P!Byte(a \ {0, 1}, 0) = o - (o % 4)
  <2> DEFINE word == o - (o % 4)
  <2>1. P!Bits(s) = {}
    <3>1. /\ s \in 0 .. 255 /\ s % 2 = 0 /\ (s \div 2) % 2 = 0 /\ (s \div 4) % 2 = 0
          /\ (s \div 8) % 2 = 0 /\ (s \div 16) % 2 = 0
      BY <1>11
    <3>2. 0 \notin P!Bits(s) /\ 1 \notin P!Bits(s) /\ 2 \notin P!Bits(s) /\ 3 \notin P!Bits(s) /\ 4 \notin P!Bits(s)
      BY <3>1, BitsAre DEF Digits
    <3>3. QED
      BY <1>2, <3>2
  <2>2. /\ word \in 0 .. 255 /\ word % 2 = 0 /\ (word \div 2) % 2 = 0
        /\ (word \div 4) % 2 = (o \div 4) % 2 /\ (word \div 8) % 2 = (o \div 8) % 2
        /\ (word \div 16) % 2 = (o \div 16) % 2 /\ (word \div 32) % 2 = (o \div 32) % 2
        /\ (word \div 64) % 2 = (o \div 64) % 2 /\ (word \div 128) % 2 = (o \div 128) % 2
    OBVIOUS
  <2> HIDE DEF word
  <2>3. \A j \in 0 .. 7 : j \in P!Bits(word) <=> j \in 2 .. 7 /\ j \in P!Bits(o)
    <3>1. Digits(word) /\ Digits(o)
      BY <2>2, BitsAre
    <3>2. QED
      BY <2>2, <3>1 DEF Digits
  <2>4. \A j \in 0 .. 7 : j \in a \ {0, 1} <=> j \in P!Bits(word)
    BY <1>1, <1>3, <1>4, <2>1, <2>3
  <2>5. Spells(a \ {0, 1}, 0, word)
    BY <2>4 DEF Spells
  <2>6. P!Byte(a \ {0, 1}, 0) = word
    BY <2>2, <2>5, ByteIs
  <2>7. QED
    BY <2>6 DEF word
<1>12. f % 8 = f
  OBVIOUS
<1>13. QED
  BY <1>8, <1>9, <1>10, <1>11, <1>12 DEF P!Selected, P!Register, a

-----------------------------------------------------------------------------
(* The PCI bus: the table and what is in it.                               *)

Numbered == 0 .. P!All - 1
Places == (0 .. PCI_BUS_COUNT - 1) \X (0 .. PCI_SLOT_COUNT - 1) \X (0 .. PCI_FUNC_COUNT - 1)

LEMMA AllIs == P!All \in Nat \ {0} /\ PCI_SLOT_COUNT * PCI_FUNC_COUNT \in Nat \ {0}
<1>1. PCI_BUS_COUNT \in Nat \ {0} /\ PCI_SLOT_COUNT \in Nat \ {0} /\ PCI_FUNC_COUNT \in Nat \ {0}
  BY PciConstants
<1>2. \A x, y \in Nat \ {0} : x * y \in Nat \ {0}
  OBVIOUS
<1>3. PCI_BUS_COUNT * PCI_SLOT_COUNT \in Nat \ {0}
  BY <1>1, <1>2
<1>4. QED
  BY <1>1, <1>2, <1>3 DEF P!All

\* The probe's loops stay on the bus.
LEMMA PlaceIs == ASSUME NEW n \in Numbered PROVE P!Place(n) \in Places
<1> DEFINE B == PCI_BUS_COUNT
           S == PCI_SLOT_COUNT
           F == PCI_FUNC_COUNT
           q == n \div (S * F)
<1>1. B \in Nat \ {0} /\ S \in Nat \ {0} /\ F \in Nat \ {0} /\ n \in Nat /\ n < P!All
      /\ S * F \in Nat \ {0}
  BY PciConstants, AllIs DEF Numbered
<1> HIDE DEF B, S, F
<1>2. q \in Nat /\ (S * F) * q <= n
  BY <1>1, DivIs
<1>3. n < (S * F) * B
  <2>1. P!All = (B * S) * F
    BY DEF P!All, B, S, F
  <2>2. (B * S) * F = (S * F) * B
    BY <1>1
  <2>3. QED
    BY <1>1, <2>1, <2>2
<1>4. q < B
  <2>1. ASSUME B <= q PROVE FALSE
    <3>1. \A x, y, z \in Nat : y <= z => x * y <= x * z
      OBVIOUS
    <3>2. (S * F) * B <= (S * F) * q
      BY <1>1, <1>2, <2>1, <3>1
    <3>3. (S * F) * B \in Nat /\ (S * F) * q \in Nat
      BY <1>1, <1>2
    <3> HIDE DEF q
    <3>4. QED
      BY <1>1, <1>2, <1>3, <3>2, <3>3
  <2>2. QED
    BY <1>1, <1>2, <2>1
<1>5. n \div F \in Nat /\ (n \div F) % S \in 0 .. S - 1 /\ n % F \in 0 .. F - 1
  <2>1. \A x \in Nat, y \in Nat \ {0} : x % y \in 0 .. y - 1
    OBVIOUS
  <2>2. n \div F \in Nat
    BY <1>1, DivIs
  <2>3. QED
    BY <1>1, <2>1, <2>2
<1>6. q \in 0 .. B - 1
  <2> HIDE DEF q
  <2>1. QED
    BY <1>1, <1>2, <1>4
<1>7. P!Place(n) = <<q, (n \div F) % S, n % F>>
  BY DEF P!Place, S, F
<1> HIDE DEF q
<1>8. P!Place(n) \in (0 .. B - 1) \X (0 .. S - 1) \X (0 .. F - 1)
  BY <1>5, <1>6, <1>7
<1>9. QED
  BY <1>8 DEF Places, B, S, F

InRange(p) == p[1] \in 0 .. 255 /\ p[2] \in 0 .. 31 /\ p[3] \in 0 .. 7

LEMMA PlaceParts == ASSUME NEW p \in Places PROVE p = <<p[1], p[2], p[3]>> /\ InRange(p)
BY PciConstants DEF Places, InRange

\* The two bytes at an even offset of the header are the function's own.
LEMMA BytesRead ==
  ASSUME NEW p \in Places, NEW o \in {0, 2, 4, 6, 8, 10, 12, 14}
  PROVE  /\ P!Selected(P!Address(p, o)) = p
         /\ P!ReadBytes(p, o) = IF P!Role(p) = "none" THEN <<>>
                                ELSE <<<<P!Answering(p), o>>, <<P!Answering(p), o + 1>>>>
<1>1. /\ p = <<p[1], p[2], p[3]>>
      /\ p[1] \in 0 .. 255 /\ p[2] \in 0 .. 31 /\ p[3] \in 0 .. 7
  <2>1. p = <<p[1], p[2], p[3]>> /\ InRange(p)
    BY PlaceParts
  <2>2. QED
    BY <2>1 DEF InRange
<1>2. o \in 0 .. 255 /\ o - (o % 4) + ((o \div 2) % 2) * 2 = o
  OBVIOUS
<1>3. /\ P!Selected(P!Address(<<p[1], p[2], p[3]>>, o)) = <<p[1], p[2], p[3]>>
      /\ P!Register(P!Address(<<p[1], p[2], p[3]>>, o)) = o - (o % 4)
  <2> DEFINE b == p[1]
             s == p[2]
             f == p[3]
  <2>1. b \in 0 .. 255 /\ s \in 0 .. 31 /\ f \in 0 .. 7 /\ o \in 0 .. 255
    BY <1>1, <1>2, ZenonT(10)
  <2> HIDE DEF b, s, f
  <2>2. /\ P!Selected(P!Address(<<b, s, f>>, o)) = <<b, s, f>>
        /\ P!Register(P!Address(<<b, s, f>>, o)) = o - (o % 4)
    BY ONLY <2>1, ReadSelects
  <2>3. QED
    BY <2>2 DEF b, s, f
<1>4. P!Selected(P!Address(p, o)) = p /\ P!Register(P!Address(p, o)) = o - (o % 4)
  BY <1>1, <1>3
<1> DEFINE a == P!Address(p, o)
           first == P!Register(a) + ((o \div 2) % 2) * 2
<1>5. first = o
  BY <1>2, <1>4
<1>6. P!ReadBytes(p, o) = IF P!Role(P!Selected(a)) = "none" THEN <<>>
                          ELSE <<<<P!Answering(P!Selected(a)), first>>,
                                 <<P!Answering(P!Selected(a)), first + 1>>>>
  BY DEF P!ReadBytes
<1> HIDE DEF a, first
<1>7. QED
  BY <1>4, <1>5, <1>6 DEF a

\* The parts of a header that one function has answered with.
Of(t, x) ==
  LET Is(b, o) == b = <<x, o>> IN
  /\ Is(t.vendor_id[1], 0) /\ Is(t.device_id[1], 2) /\ Is(t.command[1], 4)
  /\ Is(t.status[1], 6) /\ Is(t.rev_id, 8) /\ Is(t.prog_if, 9) /\ Is(t.subclass, 10)
  /\ Is(t.class_code, 11) /\ Is(t.cacheln_sz, 12) /\ Is(t.latency_timer, 13)
  /\ Is(t.hdr_type, 14) /\ Is(t.bist, 15)

LEMMA HeaderIs ==
  ASSUME NEW p \in Places, P!Role(p) # "none"
  PROVE  Of(P!Header(p), P!Answering(p))
<1> DEFINE x == P!Answering(p)
           t == P!Header(p)
<1>1. /\ P!ReadBytes(p, 0) = <<<<x, 0>>, <<x, 0 + 1>>>> /\ P!ReadBytes(p, 2) = <<<<x, 2>>, <<x, 2 + 1>>>>
      /\ P!ReadBytes(p, 4) = <<<<x, 4>>, <<x, 4 + 1>>>> /\ P!ReadBytes(p, 6) = <<<<x, 6>>, <<x, 6 + 1>>>>
      /\ P!ReadBytes(p, 8) = <<<<x, 8>>, <<x, 8 + 1>>>> /\ P!ReadBytes(p, 10) = <<<<x, 10>>, <<x, 10 + 1>>>>
      /\ P!ReadBytes(p, 12) = <<<<x, 12>>, <<x, 12 + 1>>>> /\ P!ReadBytes(p, 14) = <<<<x, 14>>, <<x, 14 + 1>>>>
  BY BytesRead
<1>2. /\ t.vendor_id = P!ReadBytes(p, 0) /\ t.device_id = P!ReadBytes(p, 2)
      /\ t.command = P!ReadBytes(p, 4) /\ t.status = P!ReadBytes(p, 6)
      /\ t.rev_id = P!ReadBytes(p, 8)[1] /\ t.prog_if = P!ReadBytes(p, 8)[2]
      /\ t.subclass = P!ReadBytes(p, 10)[1] /\ t.class_code = P!ReadBytes(p, 10)[2]
      /\ t.cacheln_sz = P!ReadBytes(p, 12)[1] /\ t.latency_timer = P!ReadBytes(p, 12)[2]
      /\ t.hdr_type = P!ReadBytes(p, 14)[1] /\ t.bist = P!ReadBytes(p, 14)[2]
  BY DEF P!Header
<1> HIDE DEF x, t
<1>3. /\ t.vendor_id[1] = <<x, 0>> /\ t.device_id[1] = <<x, 2>> /\ t.command[1] = <<x, 4>>
      /\ t.status[1] = <<x, 6>>
  BY <1>1, <1>2
<1>4. /\ t.rev_id = <<x, 8>> /\ t.prog_if = <<x, 9>> /\ t.subclass = <<x, 10>>
      /\ t.class_code = <<x, 11>>
  BY <1>1, <1>2
<1>5. /\ t.cacheln_sz = <<x, 12>> /\ t.latency_timer = <<x, 13>> /\ t.hdr_type = <<x, 14>>
      /\ t.bist = <<x, 15>>
  BY <1>1, <1>2
<1>6. QED
  BY <1>3, <1>4, <1>5 DEF Of, x, t

\* What the probe takes for a device is one.
LEMMA FoundIs ==
  ASSUME NEW p \in Places PROVE P!Found(p) <=> P!Role(p) = "device"
<1>1. P!Selected(P!Address(p, 14)) = p
  BY BytesRead
<1>2. P!ReadBytes(p, 0) = IF P!Role(p) = "none" THEN <<>>
                          ELSE <<<<P!Answering(p), 0>>, <<P!Answering(p), 0 + 1>>>>
  BY BytesRead
<1>3. \A u, v : <<u, v>> # <<>>
  OBVIOUS
<1>4. QED
  BY <1>1, <1>2, <1>3 DEF P!Found

-----------------------------------------------------------------------------
(* The PCI bus: what the probe, pci_write and lspci keep.                  *)

\* The devices among the functions before the k-th.
Seen(k) == {n \in 0 .. k - 1 : P!Role(P!Place(n)) = "device"}

PciTypes ==
  /\ cards \in [P!Slots -> P!Card] /\ next \in 0 .. P!All /\ lost \in BOOLEAN
  /\ \E S : pciTable \in Seq(S)
  /\ \E S : writes \in Seq(S)
  /\ Len(pciTable) <= PCI_COUNT

\* Each entry is of a function that answers; until one is lost, they are the devices
\* that the probe has seen, in order.
Answerer(n) == P!Answering(P!Place(n))

TableKept ==
  /\ \A k \in 1 .. Len(pciTable) : \E n \in Numbered : Of(pciTable[k], Answerer(n))
  /\ ~lost => /\ Len(pciTable) = Cardinality(Seen(next))
              /\ \A n \in Seen(next) : Of(pciTable[1 + Cardinality(Seen(n))], Answerer(n))

PciIInv == PciTypes /\ TableKept /\ P!WritesAstray /\ P!LineFits

LEMMA SeenFinite ==
  ASSUME NEW k \in Nat
  PROVE  /\ IsFiniteSet(Seen(k)) /\ Cardinality(Seen(k)) \in Nat
         /\ \A n \in Seen(k) : n \in Nat /\ Cardinality(Seen(n)) < Cardinality(Seen(k))
<1>1. ASSUME NEW n \in Nat PROVE IsFiniteSet(Seen(n)) /\ Cardinality(Seen(n)) \in Nat
  <2>1. IsFiniteSet(0 .. n - 1)
    BY FS_Interval
  <2>2. IsFiniteSet(Seen(n))
    BY <2>1, FS_Subset DEF Seen
  <2>3. QED
    BY <2>2, FS_CardinalityType
<1>2. ASSUME NEW n \in Seen(k) PROVE n \in Nat /\ Cardinality(Seen(n)) < Cardinality(Seen(k))
  <2>1. n \in Nat /\ Seen(n) \subseteq Seen(k) /\ n \notin Seen(n)
    BY DEF Seen
  <2>2. Cardinality(Seen(n)) <= Cardinality(Seen(k)) /\ Cardinality(Seen(n)) # Cardinality(Seen(k))
    BY <1>1, <1>2, <2>1, FS_Subset
  <2>3. QED
    BY <1>1, <2>1, <2>2
<1>3. QED
  BY <1>1, <1>2

LEMMA SeenNext ==
  ASSUME NEW k \in Nat
  PROVE  /\ P!Role(P!Place(k)) # "device" => Seen(k + 1) = Seen(k)
         /\ P!Role(P!Place(k)) = "device" =>
              /\ Seen(k + 1) = Seen(k) \cup {k}
              /\ Cardinality(Seen(k + 1)) = Cardinality(Seen(k)) + 1
<1>1. 0 .. (k + 1) - 1 = (0 .. k - 1) \cup {k} /\ k \notin 0 .. k - 1
  OBVIOUS
<1>2. /\ P!Role(P!Place(k)) # "device" => Seen(k + 1) = Seen(k)
      /\ P!Role(P!Place(k)) = "device" => Seen(k + 1) = Seen(k) \cup {k}
      /\ k \notin Seen(k)
  BY <1>1 DEF Seen
<1>3. Cardinality(Seen(k) \cup {k}) = Cardinality(Seen(k)) + 1
  BY <1>2, SeenFinite, FS_AddElement
<1>4. QED
  BY <1>2, <1>3

LEMMA PciInit == P!Init => PciIInv
<1> SUFFICES ASSUME P!Init PROVE PciIInv
  OBVIOUS
<1>1. /\ cards \in [P!Slots -> P!Card] /\ next = 0 /\ pciTable = <<>> /\ lost = FALSE
      /\ writes = <<>> /\ line = <<>>
  BY DEF P!Init
<1>2. <<>> \in Seq({}) /\ Len(<<>>) = 0
  OBVIOUS
<1>3. 0 \in 0 .. P!All /\ 0 <= PCI_COUNT
  BY AllIs, PciConstants
<1>4. PciTypes
  BY <1>1, <1>2, <1>3 DEF PciTypes
<1>5. Seen(0) = {} /\ Cardinality({}) = 0
  BY FS_EmptySet DEF Seen
<1>6. TableKept
  <2>1. Len(pciTable) = 0 /\ Seen(next) = {} /\ Cardinality(Seen(next)) = 0
    BY <1>1, <1>2, <1>5
  <2>2. QED
    BY <2>1 DEF TableKept
<1>7. P!WritesAstray
  BY <1>1 DEF P!WritesAstray
<1>8. P!LineFits
  BY <1>1 DEF P!LineFits
<1>9. QED
  BY <1>4, <1>6, <1>7, <1>8 DEF PciIInv

\* What the cards answer changes with none of the operations.
LEMMA SameCards ==
  ASSUME UNCHANGED cards
  PROVE  (\A k : Seen(k)' = Seen(k)) /\ (\A n : Answerer(n)' = Answerer(n))
<1>1. \A n : P!Role(P!Place(n))' = P!Role(P!Place(n))
  BY DEF P!Role, P!Answering, P!Place
<1>2. \A k : Seen(k)' = Seen(k)
  BY <1>1 DEF Seen
<1>3. \A n : Answerer(n)' = Answerer(n)
  BY DEF Answerer, P!Answering, P!Place
<1>4. QED
  BY <1>2, <1>3

LEMMA PciProbe == PciIInv /\ P!Probe => PciIInv'
<1> SUFFICES ASSUME PciIInv, P!Probe PROVE PciIInv'
  OBVIOUS
<1> DEFINE p == P!Place(next)
<1>1. /\ next < P!All /\ ~lost /\ next' = next + 1
      /\ UNCHANGED <<cards, writes, line>>
      /\ IF P!Found(p)
         THEN /\ lost' = (Len(pciTable) = PCI_COUNT)
              /\ pciTable' = IF lost' THEN pciTable ELSE Append(pciTable, P!Header(p))
         ELSE UNCHANGED <<pciTable, lost>>
  BY DEF P!Probe
<1>2. PciTypes /\ TableKept /\ P!WritesAstray /\ P!LineFits
  BY DEF PciIInv
<1>3. next \in Nat /\ next \in Numbered /\ next' \in 0 .. P!All
  BY <1>1, <1>2, AllIs DEF PciTypes, Numbered
<1>4. p \in Places
  BY <1>3, PlaceIs
<1>5. P!Found(p) <=> P!Role(p) = "device"
  BY <1>4, FoundIs
<1>6. P!WritesAstray' /\ P!LineFits'
  BY <1>1, <1>2 DEF P!WritesAstray, P!LineFits
<1>7. cards' \in [P!Slots -> P!Card] /\ \E S : writes' \in Seq(S)
  BY <1>1, <1>2 DEF PciTypes
<1>8. /\ P!Role(p) # "device" => Seen(next') = Seen(next)
      /\ P!Role(p) = "device" =>
           /\ Seen(next') = Seen(next) \cup {next}
           /\ Cardinality(Seen(next')) = Cardinality(Seen(next)) + 1
  BY <1>1, <1>3, SeenNext
<1>9. /\ Cardinality(Seen(next)) \in Nat
      /\ \A n \in Seen(next) : /\ Cardinality(Seen(n)) \in Nat
                               /\ Cardinality(Seen(n)) < Cardinality(Seen(next))
  <2>1. \A n \in Seen(next) : n \in Nat
    BY <1>3, SeenFinite
  <2>2. QED
    BY <1>3, <2>1, SeenFinite
<1>10. PICK S : pciTable \in Seq(S)
  BY <1>2 DEF PciTypes
<1>11. Len(pciTable) \in Nat /\ Len(pciTable) <= PCI_COUNT
  BY <1>2, <1>10 DEF PciTypes
<1>12. (\A k : Seen(k)' = Seen(k)) /\ (\A n : Answerer(n)' = Answerer(n))
  <2>1. UNCHANGED cards
    BY <1>1
  <2>2. QED
    BY <2>1, SameCards
<1>13. P!Role(p) = "device" => Of(P!Header(p), Answerer(next))
  BY <1>4, HeaderIs DEF Answerer
<1> HIDE DEF p
<1>14. CASE P!Found(p) /\ Len(pciTable) # PCI_COUNT
  <2>1. lost' = FALSE /\ pciTable' = Append(pciTable, P!Header(p))
    BY <1>1, <1>14
  <2> DEFINE h == P!Header(p)
  <2>2. /\ pciTable' \in Seq(S \cup {h}) /\ Len(pciTable') = Len(pciTable) + 1
        /\ pciTable'[Len(pciTable) + 1] = h
        /\ \A k \in 1 .. Len(pciTable) : pciTable'[k] = pciTable[k]
    <3>1. pciTable' = Append(pciTable, h)
      BY <2>1
    <3> HIDE DEF h
    <3>2. pciTable \in Seq(S \cup {h})
      BY <1>10
    <3>3. QED
      BY <3>1, <3>2
  <2>3. Of(h, Answerer(next))
    BY <1>5, <1>13, <1>14
  <2> HIDE DEF h
  <2>4. Len(pciTable') <= PCI_COUNT
    BY <1>11, <1>14, <2>2, PciConstants
  <2>5. PciTypes'
    BY <1>3, <1>7, <2>1, <2>2, <2>4 DEF PciTypes, P!All, P!Slots, P!Card, P!Funcs
  <2>6. \A k \in 1 .. Len(pciTable') : \E n \in Numbered : Of(pciTable'[k], Answerer(n))
    <3>1. ASSUME NEW k \in 1 .. Len(pciTable')
          PROVE  \E n \in Numbered : Of(pciTable'[k], Answerer(n))
      <4>1. CASE k \in 1 .. Len(pciTable)
        BY <1>2, <2>2, <4>1 DEF TableKept
      <4>2. CASE k = Len(pciTable) + 1
        BY <1>3, <2>2, <2>3, <4>2
      <4>3. QED
        BY <1>11, <2>2, <3>1, <4>1, <4>2
    <3>2. QED
      BY <3>1
  <2>7. Len(pciTable') = Cardinality(Seen(next')) /\ Seen(next') = Seen(next) \cup {next}
        /\ Len(pciTable) = Cardinality(Seen(next))
    BY <1>1, <1>2, <1>5, <1>8, <1>14, <2>2 DEF TableKept
  <2>8. ASSUME NEW n \in Seen(next')
        PROVE  Of(pciTable'[1 + Cardinality(Seen(n))], Answerer(n))
    <3>1. CASE n \in Seen(next)
      <4>1. 1 + Cardinality(Seen(n)) \in 1 .. Len(pciTable)
        BY <1>9, <2>7, <3>1
      <4>2. Of(pciTable[1 + Cardinality(Seen(n))], Answerer(n))
        BY <1>1, <1>2, <3>1 DEF TableKept
      <4>3. QED
        BY <2>2, <4>1, <4>2
    <3>2. CASE n = next
      <4>1. 1 + Cardinality(Seen(n)) = Len(pciTable) + 1
        BY <1>11, <2>7, <3>2
      <4>2. QED
        BY <2>2, <2>3, <3>2, <4>1
    <3>3. QED
      BY <2>7, <3>1, <3>2
  <2>9. TableKept'
    BY <1>12, <2>6, <2>7, <2>8 DEF TableKept, Numbered, P!All
  <2>10. QED
    BY <1>6, <2>5, <2>9 DEF PciIInv
<1>15. CASE P!Found(p) /\ Len(pciTable) = PCI_COUNT
  <2>1. lost' = TRUE /\ pciTable' = pciTable
    BY <1>1, <1>15
  <2>2. PciTypes'
    BY <1>3, <1>7, <1>10, <1>11, <2>1 DEF PciTypes, P!All, P!Slots, P!Card, P!Funcs
  <2>3. TableKept'
    BY <1>2, <1>12, <2>1 DEF TableKept, Numbered, P!All
  <2>4. QED
    BY <1>6, <2>2, <2>3 DEF PciIInv
<1>16. CASE ~ P!Found(p)
  <2>1. lost' = lost /\ pciTable' = pciTable /\ Seen(next') = Seen(next)
    BY <1>1, <1>5, <1>8, <1>16
  <2>2. PciTypes'
    BY <1>1, <1>2, <1>3, <1>7, <1>10, <1>11, <2>1 DEF PciTypes, P!All, P!Slots, P!Card, P!Funcs
  <2>3. TableKept'
    BY <1>2, <1>12, <2>1 DEF TableKept, Numbered, P!All
  <2>4. QED
    BY <1>6, <2>2, <2>3 DEF PciIInv
<1>17. QED
  BY <1>14, <1>15, <1>16

\* Where one write goes.
Astray(w) ==
  /\ w.to = <<w.place[1], 0, w.place[3]>>
  /\ w.place[2] = 0 =>
       IF w.offset % 4 = 0 THEN w.set[w.offset] = "data" /\ w.set[w.offset + 2] = "zero"
                           ELSE w.set[w.offset] = "zero" /\ w.set[w.offset - 2] = "data"

LEMMA PciWrite == PciIInv /\ P!Write => PciIInv'
<1> SUFFICES ASSUME PciIInv, P!Write PROVE PciIInv'
  OBVIOUS
<1>1. UNCHANGED <<cards, next, pciTable, lost, line>>
  BY DEF P!Write
<1>2. PciTypes /\ TableKept /\ P!WritesAstray /\ P!LineFits
  BY DEF PciIInv
<1>3. PICK n \in Numbered, o \in Offsets :
        writes' = Append(writes, [place |-> P!Place(n), offset |-> o,
                                  to |-> P!Selected(P!WriteAddress(P!Place(n), o)),
                                  set |-> P!Stored(P!Register(P!WriteAddress(P!Place(n), o)))])
  BY DEF P!Write, Numbered
<1>4. PICK S : writes \in Seq(S)
  BY <1>2 DEF PciTypes
<1> DEFINE p == P!Place(n)
           w == [place |-> p, offset |-> o, to |-> P!Selected(P!WriteAddress(p, o)),
                 set |-> P!Stored(P!Register(P!WriteAddress(p, o)))]
<1>5. p = <<p[1], p[2], p[3]>> /\ p[1] \in 0 .. 255 /\ p[2] \in 0 .. 31 /\ p[3] \in 0 .. 7
  <2>1. p \in Places
    BY PlaceIs
  <2>2. p = <<p[1], p[2], p[3]>> /\ InRange(p)
    BY <2>1, PlaceParts
  <2>3. QED
    BY <2>2 DEF InRange
<1> HIDE DEF p
<1>6. /\ P!Selected(P!WriteAddress(p, o)) = <<p[1], 0, p[3]>>
      /\ p[2] = 0 => P!Register(P!WriteAddress(p, o)) = o - (o % 4)
      /\ o \in 0 .. 255 /\ o % 4 \in {0, 2}
  <2>1. o \in 0 .. 255 /\ o % 4 \in {0, 2}
    <3>1. o \in {2 * k : k \in 0 .. 127}
      BY PciConstants
    <3>2. QED
      BY <3>1
  <2>2. ASSUME NEW b \in 0 .. 255, NEW s \in 0 .. 31, NEW f \in 0 .. 7
        PROVE  /\ P!Selected(P!WriteAddress(<<b, s, f>>, o)) = <<b, 0, f>>
               /\ s = 0 => P!Register(P!WriteAddress(<<b, s, f>>, o)) = o - (o % 4)
    BY <2>1, WriteSelects
  <2>3. /\ P!Selected(P!WriteAddress(<<p[1], p[2], p[3]>>, o)) = <<p[1], 0, p[3]>>
        /\ p[2] = 0 => P!Register(P!WriteAddress(<<p[1], p[2], p[3]>>, o)) = o - (o % 4)
    BY <1>5, <2>2
  <2>4. QED
    BY <1>5, <2>1, <2>3
<1>7. Astray(w)
  <2> DEFINE r == P!Register(P!WriteAddress(p, o))
  <2>1. /\ w.place = p /\ w.offset = o /\ w.set = P!Stored(r)
        /\ w.to = <<p[1], 0, p[3]>>
    BY <1>6
  <2>2. p[2] = 0 => r = o - (o % 4)
    BY <1>6
  <2> HIDE DEF w, r
  <2>3. p[2] = 0 => P!Stored(r)[o - (o % 4)] = "data" /\ P!Stored(r)[(o - (o % 4)) + 2] = "zero"
    BY <1>6, <2>2 DEF P!Stored
  <2>4. CASE o % 4 = 0
    <3>1. o - (o % 4) = o /\ (o - (o % 4)) + 2 = o + 2
      BY <1>6, <2>4
    <3>2. QED
      BY <2>1, <2>3, <2>4, <3>1 DEF Astray
  <2>5. CASE o % 4 = 2
    <3>1. o - (o % 4) = o - 2 /\ (o - (o % 4)) + 2 = o
      BY <1>6, <2>5
    <3>2. QED
      BY <2>1, <2>3, <2>5, <3>1 DEF Astray
  <2>6. QED
    BY <1>6, <2>4, <2>5
<1>8. writes' = Append(writes, w)
  BY <1>3 DEF p
<1> HIDE DEF w
<1>9. /\ writes' \in Seq(S \cup {w}) /\ Len(writes') = Len(writes) + 1 /\ Len(writes) \in Nat
      /\ writes'[Len(writes) + 1] = w
      /\ \A k \in 1 .. Len(writes) : writes'[k] = writes[k]
      /\ DOMAIN writes = 1 .. Len(writes) /\ DOMAIN writes' = 1 .. Len(writes')
  <2>1. writes \in Seq(S \cup {w})
    BY <1>4
  <2>2. QED
    BY <1>8, <2>1
<1>10. P!WritesAstray'
  <2>1. ASSUME NEW k \in DOMAIN writes' PROVE Astray(writes'[k])
    <3>1. CASE k = Len(writes) + 1
      BY <1>7, <1>9, <3>1
    <3>2. CASE k \in 1 .. Len(writes)
      BY <1>2, <1>9, <3>2 DEF P!WritesAstray, Astray
    <3>3. QED
      BY <1>9, <2>1, <3>1, <3>2
  <2>2. QED
    BY <2>1 DEF P!WritesAstray, Astray
<1>11. PciTypes'
  BY <1>1, <1>2, <1>9 DEF PciTypes, P!All, P!Slots, P!Card, P!Funcs
<1>12. TableKept'
  <2>1. UNCHANGED cards
    BY <1>1
  <2>2. (\A k : Seen(k)' = Seen(k)) /\ (\A m : Answerer(m)' = Answerer(m))
    BY <2>1, SameCards
  <2>3. QED
    BY <1>1, <1>2, <2>2 DEF TableKept, Numbered, P!All
<1>13. P!LineFits'
  BY <1>1, <1>2 DEF P!LineFits
<1>14. QED
  BY <1>10, <1>11, <1>12, <1>13 DEF PciIInv

\* No name is longer than 42, so no line is longer than 66 (pci.c:21).
LEMMA NamesFit ==
  ASSUME NEW v, NEW b \in BOOLEAN
  PROVE  P!GetName(v, b).length \in 19 .. 42
<1> DEFINE makers == {"Intel", "VMWare", "InnoTek", "AMD", "Ensoniq", "Broadcom", "Realtek", "Atheros"}
<1>1. \A m \in makers : P!Unrecognized(m).length \in 23 .. 28
  BY DEF P!Unrecognized, P!Letters
<1>2. \A x \in DOMAIN P!Maker : P!Maker[x] \in makers
  BY DEF P!Maker
<1>3. \A x \in DOMAIN P!Longest : P!Longest[x] \in 27 .. 42
  BY DEF P!Longest
<1>4. CASE b /\ v \in DOMAIN P!Longest
  BY <1>3, <1>4 DEF P!GetName
<1>5. CASE ~ (b /\ v \in DOMAIN P!Longest) /\ v \notin DOMAIN P!Maker
  BY <1>5 DEF P!GetName
<1>6. CASE ~ (b /\ v \in DOMAIN P!Longest) /\ v \in DOMAIN P!Maker
  BY <1>1, <1>2, <1>6 DEF P!GetName
<1>7. QED
  BY <1>4, <1>5, <1>6

LEMMA PciLspci == PciIInv /\ P!Lspci => PciIInv'
<1> SUFFICES ASSUME PciIInv, P!Lspci PROVE PciIInv'
  OBVIOUS
<1>1. PciTypes /\ TableKept /\ P!WritesAstray /\ P!LineFits
  BY DEF PciIInv
<1>2. UNCHANGED <<cards, next, pciTable, lost, writes>>
  BY DEF P!Lspci
<1>3. PICK k \in DOMAIN pciTable :
        LET p == pciTable[k].vendor_id[1][1]
            card == cards[<<p[1], p[2]>>]
            name == P!GetName(card.vendor, card.listed)
        IN line' = <<card.vendor, name, P!LineLength(name)>>
  BY DEF P!Lspci
<1> DEFINE p == pciTable[k].vendor_id[1][1]
           card == cards[<<p[1], p[2]>>]
           name == P!GetName(card.vendor, card.listed)
<1>4. line' = <<card.vendor, name, P!LineLength(name)>>
  BY <1>3
<1>5. name.length \in 19 .. 42
  <2>1. k \in 1 .. Len(pciTable)
    BY <1>1 DEF PciTypes
  <2>2. PICK n \in Numbered : Of(pciTable[k], Answerer(n))
    BY <1>1, <2>1 DEF TableKept
  <2>3. p = Answerer(n)
    BY <2>2 DEF Of
  <2>4. P!Place(n) \in Places
    BY PlaceIs
  <2>5. <<P!Place(n)[1], P!Place(n)[2]>> \in P!Slots
    BY <2>4 DEF Places, P!Slots
  <2>6. p[1] = P!Place(n)[1] /\ p[2] = P!Place(n)[2]
    BY <2>3 DEF Answerer, P!Answering
  <2>7. card \in P!Card
    BY <1>1, <2>5, <2>6 DEF PciTypes
  <2>8. card.listed \in BOOLEAN
    BY <2>7 DEF P!Card
  <2> HIDE DEF card
  <2>9. QED
    BY <2>8, NamesFit
<1>6. P!LineLength(name) < 72 /\ (name.length <= 38 => P!LineLength(name) = 62)
  <2> HIDE DEF name
  <2>1. P!LineLength(name) = (IF 22 + name.length > 60 THEN 22 + name.length ELSE 60) + 2
    BY DEF P!LineLength
  <2>2. QED
    BY <1>5, <2>1
<1>7. P!LineFits'
  <2> HIDE DEF name, card
  <2>1. line'[2] = name /\ line'[3] = P!LineLength(name)
    BY <1>4
  <2>2. QED
    BY <1>6, <2>1 DEF P!LineFits
<1>8. PciTypes'
  BY <1>1, <1>2 DEF PciTypes, P!All, P!Slots, P!Card, P!Funcs
<1>9. TableKept'
  <2>1. UNCHANGED cards
    BY <1>2
  <2>2. (\A j : Seen(j)' = Seen(j)) /\ (\A m : Answerer(m)' = Answerer(m))
    BY <2>1, SameCards
  <2>3. QED
    BY <1>1, <1>2, <2>2 DEF TableKept, Numbered, P!All
<1>10. P!WritesAstray'
  BY <1>1, <1>2 DEF P!WritesAstray
<1>11. QED
  BY <1>7, <1>8, <1>9, <1>10 DEF PciIInv

LEMMA PciStep == PciIInv /\ [P!Next]_pciVars => PciIInv'
<1> SUFFICES ASSUME PciIInv, [P!Next]_pciVars PROVE PciIInv'
  OBVIOUS
<1>1. CASE UNCHANGED pciVars
  <2>1. UNCHANGED <<cards, next, pciTable, lost, writes, line>>
    BY <1>1 DEF pciVars
  <2>2. PciTypes /\ TableKept /\ P!WritesAstray /\ P!LineFits
    BY DEF PciIInv
  <2>3. (\A j : Seen(j)' = Seen(j)) /\ (\A m : Answerer(m)' = Answerer(m))
    BY <2>1, SameCards
  <2>4. PciTypes'
    BY <2>1, <2>2 DEF PciTypes, P!All, P!Slots, P!Card, P!Funcs
  <2>5. TableKept'
    BY <2>1, <2>2, <2>3 DEF TableKept, Numbered, P!All
  <2>6. P!WritesAstray' /\ P!LineFits'
    BY <2>1, <2>2 DEF P!WritesAstray, P!LineFits
  <2>7. QED
    BY <2>4, <2>5, <2>6 DEF PciIInv
<1>2. CASE P!Next
  BY <1>2, PciProbe, PciWrite, PciLspci DEF P!Next
<1>3. QED
  BY <1>1, <1>2

LEMMA OfFirst == ASSUME NEW t, NEW x, Of(t, x) PROVE t.vendor_id[1][1] = x
BY DEF Of

LEMMA SameCardinality == \A S : P!Cardinality(S) = Cardinality(S)
BY DEF P!Cardinality, Cardinality

LEMMA PciSays == PciIInv => P!ConfigRight
<1> SUFFICES ASSUME PciIInv PROVE P!ConfigRight
  OBVIOUS
<1>1. PciTypes /\ TableKept /\ P!WritesAstray /\ P!LineFits
  BY DEF PciIInv
<1>2. DOMAIN pciTable = 1 .. Len(pciTable)
  BY <1>1 DEF PciTypes
<1>3. ASSUME NEW n \in Numbered PROVE Answerer(n)[3] \in P!Funcs
  <2>1. P!Place(n) \in Places
    BY PlaceIs
  <2>2. P!Place(n)[3] \in P!Funcs /\ 0 \in P!Funcs
    BY <2>1, PciConstants DEF Places, P!Funcs
  <2>3. QED
    BY <2>2 DEF Answerer, P!Answering
<1>4. ASSUME NEW k \in DOMAIN pciTable
      PROVE  \E n \in Numbered : Of(pciTable[k], Answerer(n))
  BY <1>1, <1>2 DEF TableKept
<1>5. P!TypeOK
  <2>1. ASSUME NEW k \in DOMAIN pciTable PROVE pciTable[k].vendor_id[1][1][3] \in P!Funcs
    <3>1. PICK n \in Numbered : Of(pciTable[k], Answerer(n))
      BY <1>4
    <3>2. pciTable[k].vendor_id[1][1] = Answerer(n)
      BY <3>1 DEF Of
    <3>3. QED
      BY <1>3, <3>2
  <2>2. QED
    BY <1>1, <2>1 DEF P!TypeOK, PciTypes
<1>6. P!HeadersRight
  <2>1. ASSUME NEW t, NEW x, Of(t, x)
        PROVE  LET Is(b, o) == b = <<t.vendor_id[1][1], o>> IN
               /\ Is(t.device_id[1], 2) /\ Is(t.command[1], 4) /\ Is(t.status[1], 6)
               /\ Is(t.rev_id, 8) /\ Is(t.prog_if, 9) /\ Is(t.subclass, 10) /\ Is(t.class_code, 11)
               /\ Is(t.cacheln_sz, 12) /\ Is(t.latency_timer, 13) /\ Is(t.hdr_type, 14)
               /\ Is(t.bist, 15)
    <3>1. t.vendor_id[1][1] = x
      BY <2>1, OfFirst
    <3>2. QED
      BY <2>1, <3>1 DEF Of
  <2>2. QED
    BY <1>4, <2>1 DEF P!HeadersRight
<1>7. P!TableComplete
  <2> DEFINE entry(n) == pciTable[1 + Cardinality({m \in Seen(next) : m < n})]
  <2>1. ASSUME ~lost
        PROVE  /\ Len(pciTable) = Cardinality(Seen(next))
               /\ \A n \in Seen(next) : entry(n).vendor_id[1][1] = P!Answering(P!Place(n))
    <3>1. ASSUME NEW n \in Seen(next)
          PROVE  entry(n).vendor_id[1][1] = P!Answering(P!Place(n))
      <4>1. {m \in Seen(next) : m < n} = Seen(n)
        BY <1>1 DEF Seen, PciTypes
      <4>2. Of(pciTable[1 + Cardinality(Seen(n))], Answerer(n))
        BY <1>1, <2>1, <3>1 DEF TableKept
      <4>3. pciTable[1 + Cardinality(Seen(n))].vendor_id[1][1] = Answerer(n)
        BY <4>2, OfFirst
      <4>4. QED
        BY <4>1, <4>3 DEF Answerer
    <3>2. QED
      BY <1>1, <2>1, <3>1 DEF TableKept
  <2>2. P!TableComplete <=>
          (~lost => /\ Len(pciTable) = Cardinality(Seen(next))
                    /\ \A n \in Seen(next) : entry(n).vendor_id[1][1] = P!Answering(P!Place(n)))
    BY SameCardinality, Zenon DEF P!TableComplete, Seen
  <2> HIDE DEF entry
  <2>3. QED
    BY <2>1, <2>2
<1>8. QED
  BY <1>1, <1>5, <1>6, <1>7 DEF P!ConfigRight

LEMMA PciMoves == [MachineNext]_machine => [P!Next]_pciVars
BY DEF MachineNext, machine, OnlyDevMgr, OnlyAta, OnlyTicks, OnlyPci

\* With any cards in the slots, and as many buses, slots and functions as the address has
\* room for, the table of the probe is complete and each header in it is of one function,
\* pci_write reaches slot 0 only, and the lines of lspci fit their buffer.
THEOREM BusKnown == MachineSpec => []ConfigRight
<1>1. MachineInit => PciIInv
  BY PciInit DEF MachineInit
<1>2. PciIInv /\ [MachineNext]_machine => PciIInv'
  BY PciStep, PciMoves
<1>3. PciIInv => ConfigRight
  BY PciSays DEF ConfigRight
<1>4. QED
  BY <1>1, <1>2, <1>3, PTL DEF MachineSpec
=============================================================================
