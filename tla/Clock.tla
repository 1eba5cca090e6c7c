------------------------------- MODULE Clock -------------------------------
(***************************************************************************)
(* The time of day in NapalmOS: the RTC interrupt reads the registers of    *)
(* the CMOS clock one after the other, without a look at its update flag,   *)
(* into _rtc.tm (hal/devices/rtc.c), and a thread copies _rtc.tm word by    *)
(* word (lib/time.c) while the interrupt may come.                          *)
(*                                                                          *)
(* Time is a number of seconds; a field is what a register shows of it.     *)
(***************************************************************************)
EXTENDS Integers, Sequences

CONSTANT Size  \* how many values each field has, the seconds first, of 100 or fewer (the year)

ClockAssumption == Size \in Seq(1..100) /\ Len(Size) = 6

Fields == 1..6   \* second, minute, hour, mday, month, year
LowHalf == 1..4    \* the first 32 bits of time_t
HighHalf == 5..6   \* the next 32

Weight[f \in 1..7] == IF f = 1 THEN 1 ELSE Weight[f - 1] * Size[f - 1]
Times == 0 .. Weight[7] - 1

VARIABLES
  now,     \* the CMOS clock
  binary,  \* its mode: binary, or BCD
  tm,      \* _rtc.tm
  reg,     \* the register that rtc_update reads next, 0 outside of the interrupt
  snap,    \* the copy that time() makes
  half,    \* which half is still to be copied
  began,   \* history: when the last update began
  base,    \* history: when the last one began that was through before the copy was begun
  order,   \* history: which half was copied first
  torn,    \* history: the clock ticked during the last update
  between  \* history: tm was torn, or updated, during the copy

vars == <<now, binary, tm, reg, snap, half, began, base, order, torn, between>>

Field(f, t) == (t \div Weight[f]) % Size[f]
Meant(t) ==
  t[1] * Weight[1] + t[2] * Weight[2] + t[3] * Weight[3] + t[4] * Weight[4]
    + t[5] * Weight[5] + t[6] * Weight[6]

Bcd(v) == (v \div 10) * 16 + (v % 10)
Register(f) == IF binary THEN Field(f, now) ELSE Bcd(Field(f, now))
Converted(x) == (x % 16) + (x \div 16) * 10

TypeOK ==
  /\ now \in Times /\ began \in Times /\ base \in Times
  /\ binary \in BOOLEAN
  /\ reg \in 0..7
  /\ \A f \in Fields : reg = 0 => tm[f] < Size[f]
  /\ half \in {"none", "low", "high"} /\ order \in {"low", "high"}
  /\ snap \in [Fields -> 0..99]
  /\ torn \in BOOLEAN /\ between \in BOOLEAN

Init ==
  /\ now = 0
  /\ binary \in BOOLEAN
  /\ tm = [f \in Fields |-> 0] /\ snap = tm
  /\ reg = 0
  /\ half = "none" /\ order = "low"
  /\ began = 0 /\ base = 0
  /\ torn = FALSE /\ between = FALSE

-----------------------------------------------------------------------------

\* The CMOS clock ticks on its own, at most once during an update, which takes far
\* less than a second. Bound: it does not run over.
Tick ==
  /\ reg = 0 \/ ~torn
  /\ now + 1 \in Times
  /\ now' = now + 1
  /\ torn' = (torn \/ reg \in 2..6)
  /\ UNCHANGED <<binary, tm, reg, snap, half, began, base, order, between>>

\* rtc_callback calls rtc_update.
Interrupt ==
  /\ reg = 0
  /\ reg' = 1
  /\ began' = now
  /\ torn' = FALSE
  /\ between' = (between \/ half # "none")
  /\ UNCHANGED <<now, binary, tm, snap, half, base, order>>

ReadRegister ==
  /\ reg \in Fields
  /\ tm' = [tm EXCEPT ![reg] = Register(reg)]
  /\ reg' = reg + 1
  /\ began' = IF reg = 1 THEN now ELSE began
  /\ UNCHANGED <<now, binary, snap, half, base, order, torn, between>>

Convert_Never ==
  /\ reg = 7
  /\ reg' = 0
  /\ UNCHANGED <<now, binary, tm, snap, half, began, base, order, torn, between>>

\* The end of rtc_update: register B says whether to convert.
Convert ==
  /\ reg = 7
  /\ reg' = 0
  /\ tm' = IF binary THEN tm ELSE [f \in Fields |-> Converted(tm[f])]
  /\ UNCHANGED <<now, binary, snap, half, began, base, order, torn, between>>

\* time(): a struct of eight bytes is copied as two words, in either order.
Copied(fs) == [f \in Fields |-> IF f \in fs THEN tm[f] ELSE snap[f]]

CopyFirst ==
  /\ reg = 0 /\ half = "none"
  /\ \/ snap' = Copied(LowHalf) /\ half' = "high" /\ order' = "low"
     \/ snap' = Copied(HighHalf) /\ half' = "low" /\ order' = "high"
  /\ base' = began
  /\ between' = torn
  /\ UNCHANGED <<now, binary, tm, reg, began, torn>>

CopySecond ==
  /\ reg = 0 /\ half # "none"
  /\ snap' = Copied(IF half = "low" THEN LowHalf ELSE HighHalf)
  /\ half' = "none"
  /\ UNCHANGED <<now, binary, tm, reg, began, base, order, torn, between>>

Next == Tick \/ Interrupt \/ ReadRegister \/ Convert \/ CopyFirst \/ CopySecond

Spec == Init /\ [][Next]_vars

-----------------------------------------------------------------------------
(* Properties. *)

\* Outside of the interrupt tm is what the clock showed when the last update began,
\* unless the clock ticked during that update: then it is ahead of the clock, by
\* what was carried, and never behind.
TornRunsAhead ==
  reg = 0 => IF torn THEN Meant(tm) >= began ELSE Meant(tm) = began

\* A copy that no update came into is the time of the last update.
CopyTrue == half = "none" /\ ~between => Meant(snap) = base

\* A copy whose low word is taken first is never behind, even if the update came
\* into it or was torn; one whose high word is taken first may be, by a month.
CopyRunsAhead == half = "none" /\ order = "low" => Meant(snap) >= base

\* What is known of tm and of the copies of it, in every state.
TimeAhead == TypeOK /\ TornRunsAhead /\ CopyTrue /\ CopyRunsAhead
=============================================================================
