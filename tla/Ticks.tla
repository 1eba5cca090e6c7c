------------------------------- MODULE Ticks -------------------------------
(***************************************************************************)
(* The millisecond counters of NapalmOS: the one of the PIT                 *)
(* (hal/devices/pit.c), the one of the RTC, which is computed from a float  *)
(* (hal/devices/rtc.c), and the collector thread, which counts the changes  *)
(* of the latter that it sees (memmgr_gcmain).                              *)
(***************************************************************************)
EXTENDS Integers

CONSTANTS
  Mantissa,  \* bits of a float's mantissa: 24
  PerMilli,  \* ticks of the PIT in a millisecond: 2
  Thousand,  \* where the PIT's counter starts again: 1000
  GcMillis,  \* changes of the RTC's counter between two collections: 250
  GcFrees,   \* calls of free that cause a collection: 50
  MaxPit,    \* bound: milliseconds that the PIT counts
  MaxFrees,  \* bound: calls of free between two collections
  MaxLag     \* bound: milliseconds that the collector's thread is behind

TicksAssumption ==
  /\ Mantissa \in Nat \ (0..6)
  /\ {PerMilli, Thousand, GcMillis, GcFrees} \subseteq Nat \ {0}
  /\ {MaxPit, MaxFrees, MaxLag} \subseteq Nat

VARIABLES
  pit,      \* the PIT's timer, millis and millis_t
  ticks,    \* history: interrupts of the RTC, up to one more than can be counted
  seconds,  \* the float _rtc.seconds, in units of 1/1024
  millis,   \* _rtc.millis_t
  gc,       \* the collector's now, last and timer, and what it does next
  frees,    \* free calls since the last collection
  since     \* history: what millis was when the timer was last set to 0

vars == <<pit, ticks, seconds, millis, gc, frees, since>>

\* Powers of two.
Pow[n \in Nat] == IF n = 0 THEN 1 ELSE 2 * Pow[n - 1]

TypeOK ==
  /\ pit \in [timer : 0 .. PerMilli - 1, millis : 0 .. Thousand, total : 0 .. MaxPit]
  /\ ticks \in 0 .. Pow[Mantissa] + 1 /\ seconds \in 0 .. Pow[Mantissa]
  /\ millis \in Nat /\ since \in Nat
  /\ gc \in [now : Nat, last : Int, timer : 0 .. GcMillis - 1, at : {"read", "test"}]
  /\ frees \in 0 .. MaxFrees

\* last is not initialised: any value, of which only "equal to now" and "another"
\* differ.
Init ==
  /\ pit = [timer |-> 0, millis |-> 0, total |-> 0]
  /\ ticks = 0 /\ seconds = 0 /\ millis = 0
  /\ \E l \in {-1, 0} : gc = [now |-> 0, last |-> l, timer |-> 0, at |-> "read"]
  /\ frees = 0 /\ since = 0

-----------------------------------------------------------------------------
(* pit_callback and pit_stop. *)

PitTick ==
  /\ pit.total < MaxPit
  /\ LET t == pit.timer + 1
         m == IF t >= PerMilli THEN 1 ELSE 0
     IN pit' = [timer |-> IF m = 1 THEN 0 ELSE t,
                millis |-> IF pit.millis + m > Thousand THEN 0 ELSE pit.millis + m,
                total |-> pit.total + m]
  /\ UNCHANGED <<ticks, seconds, millis, gc, frees, since>>

PitStop ==
  /\ pit' = [timer |-> 0, millis |-> 0, total |-> 0]
  /\ UNCHANGED <<ticks, seconds, millis, gc, frees, since>>

-----------------------------------------------------------------------------
(* rtc_callback: a float holds so many bits, and a sum or product is the     *)
(* nearest float, the even one of two.                                       *)

Nearest(a, b) ==  \* the integer nearest to a/b
  LET q == a \div b
      r == 2 * (a % b)
  IN IF r > b \/ (r = b /\ q % 2 = 1) THEN q + 1 ELSE q

FloatSum(m) == IF m < Pow[Mantissa] THEN m + 1 ELSE 2 * Nearest(m + 1, 2)

\* seconds * 1000.0f, without its fraction
FloatMillis(m) ==
  IF m = 0 THEN 0
  ELSE LET least == Pow[Mantissa - 1] * 1024
           k == CHOOSE k \in 0 .. Mantissa + 10 :  \* times 2^k, all bits are before the point
                  m * 1000 * Pow[k] \in least .. 2 * least - 1
       IN Nearest(m * 1000 * Pow[k], 1024) \div Pow[k]

RtcTick ==
  /\ millis - gc.now < MaxLag
  /\ ticks' = IF ticks <= Pow[Mantissa] THEN ticks + 1 ELSE ticks
  /\ seconds' = FloatSum(seconds)
  /\ millis' = FloatMillis(seconds')
  /\ UNCHANGED <<pit, gc, frees, since>>

-----------------------------------------------------------------------------
(* The collector, and the others' calls of free. *)

GcRead ==
  /\ gc.at = "read"
  /\ gc' = [gc EXCEPT !.now = millis, !.at = "test"]
  /\ UNCHANGED <<pit, ticks, seconds, millis, frees, since>>

GcTest_Counts ==
  /\ gc.at = "test"
  /\ LET timer == gc.timer + 1
         due == timer >= GcMillis \/ frees >= GcFrees
     IN /\ gc' = [gc EXCEPT !.last = gc.now, !.timer = IF due THEN 0 ELSE timer, !.at = "read"]
        /\ frees' = IF due THEN 0 ELSE frees
        /\ since' = IF due THEN gc.now ELSE since
  /\ UNCHANGED <<pit, ticks, seconds, millis>>

GcTest ==
  /\ gc.at = "test"
  /\ LET timer == IF gc.last # gc.now THEN gc.timer + 1 ELSE gc.timer
         due == timer >= GcMillis \/ frees >= GcFrees
     IN /\ gc' = [gc EXCEPT !.last = gc.now, !.timer = IF due THEN 0 ELSE timer, !.at = "read"]
        /\ frees' = IF due THEN 0 ELSE frees
        /\ since' = IF due THEN gc.now ELSE since
  /\ UNCHANGED <<pit, ticks, seconds, millis>>

Free ==
  /\ frees < MaxFrees
  /\ frees' = frees + 1
  /\ UNCHANGED <<pit, ticks, seconds, millis, gc, since>>

Next == PitTick \/ PitStop \/ RtcTick \/ GcRead \/ GcTest \/ Free

\* The RTC ticks for ever and the collector's thread is dispatched again and again.
Spec ==
  /\ Init /\ [][Next]_vars
  /\ WF_vars(RtcTick) /\ WF_vars(GcRead) /\ WF_vars(GcTest)

-----------------------------------------------------------------------------
(* Properties. *)

\* The PIT's counter of milliseconds starts again after 1001, not 1000 (pit.c:68).
PitPeriod == pit.millis = pit.total % (Thousand + 1)

\* The RTC's counter is right, to a millisecond, until its float is full; from then
\* on it stands still, after four and a half hours with 24 bits (rtc.c:62).
MillisUntilFull ==
  LET t == IF ticks > Pow[Mantissa] THEN Pow[Mantissa] ELSE ticks IN
  /\ seconds = t
  /\ millis * 1024 - t * 1000 \in -1024..1024

\* The collector does not count more milliseconds than there were, but for the first
\* one, so that it never collects too early.
NotTooOften == gc.timer <= gc.now - since + 1

\* Many calls of free lead to a collection, even when the clock stands still.
FreesCollect == frees >= GcFrees ~> frees = 0

\* What is known of the counters, in every state.
TicksRight == TypeOK /\ PitPeriod /\ MillisUntilFull /\ NotTooOften
=============================================================================
