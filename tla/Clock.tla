------------------------------- MODULE Clock --------------------------------
(***************************************************************************)
(* The clock of either platform and the gravity test of main.c:100-105.    *)
(* Time is counted in ticks of the platform's own clock.  Two readings are *)
(* 1 to MAX_PASS ticks apart: one pass of main, or two when the jump of    *)
(* main.c:95 skips the test (it never skips two in a row, since the next   *)
(* block starts at the top).                                               *)
(*                                                                         *)
(* stm32: millis is the system time, which wraps, in milliseconds.         *)
(* sitl:  millis is taken from a seconds and a nanoseconds field, but      *)
(*        counts a tenth of a second's milliseconds for every second.      *)
(***************************************************************************)
EXTENDS Integers

CONSTANTS
  TICKS_PER_MS,  \* stm32: 10 (chconf.h:75); sitl: 1
  WRAP,          \* stm32: values of the system time, 2^16 (chconf.h:66)
  SECOND,        \* sitl: milliseconds of a second, 1000
  PERIOD,        \* milliseconds between two gravity steps, 1000
  WORD,          \* values of a uint32_t
  MAX_PASS,      \* the longest time between two readings, in ticks
  MAX_NOW        \* bound of the model: when a behaviour ends

ASSUME ClockAssumption ==
  /\ {TICKS_PER_MS, WRAP, SECOND, PERIOD, WORD, MAX_PASS, MAX_NOW} \subseteq Nat \ {0}
  /\ PERIOD * TICKS_PER_MS + MAX_PASS < WRAP
  /\ 2 * MAX_NOW + PERIOD < WORD

VARIABLES
  platform, \* which build it is
  now,      \* time since the platform was started, in ticks
  t_last,   \* uint32_t t_last
  last,     \* history: when the last gravity step was made, in ticks
  fell      \* history: a gravity step has been made

vars == <<platform, now, t_last, last, fell>>

(* TIME_I2MS(chVTGetSystemTime()), which rounds up. *)
millis_stm32(t) == ((t % WRAP) + TICKS_PER_MS - 1) \div TICKS_PER_MS

gettime(t) == (t \div SECOND) * (SECOND \div 10) + (t % SECOND)

millis_sitl(t) == (gettime(t) - gettime(0)) % WORD

millis(t) == IF platform = "stm32" THEN millis_stm32(t) ELSE millis_sitl(t)

(* main reads the clock before its loop, at any moment of a second. *)
Init ==
  /\ platform \in {"stm32", "sitl"}
  /\ now \in 0 .. SECOND - 1
  /\ t_last = millis(now)
  /\ last = now
  /\ fell = FALSE

(* Changed: t_last advances by the period, whatever the clock says. *)
Pass_Drifts(d) ==
  /\ now + d <= MAX_NOW
  /\ now' = now + d /\ UNCHANGED platform
  /\ IF (millis(now') - t_last) % WORD >= PERIOD
     THEN t_last' = (t_last + PERIOD) % WORD /\ last' = now' /\ fell' = TRUE
     ELSE UNCHANGED <<t_last, last, fell>>

(* Changed: the difference is signed, so a wrapped clock looks early. *)
Pass_Signed(d) ==
  /\ now + d <= MAX_NOW
  /\ now' = now + d /\ UNCHANGED platform
  /\ IF millis(now') - t_last >= PERIOD
     THEN t_last' = millis(now') /\ last' = now' /\ fell' = TRUE
     ELSE UNCHANGED <<t_last, last, fell>>

Pass(d) ==
  /\ now + d <= MAX_NOW
  /\ now' = now + d /\ UNCHANGED platform
  /\ IF (millis(now') - t_last) % WORD >= PERIOD
     THEN t_last' = millis(now') /\ last' = now' /\ fell' = TRUE
     ELSE UNCHANGED <<t_last, last, fell>>

End == now + MAX_PASS > MAX_NOW /\ UNCHANGED vars

Next == (\E d \in 1 .. MAX_PASS : Pass(d)) \/ End

Spec == Init /\ [][Next]_vars

-----------------------------------------------------------------------------
(* On the STM32 no pass leaves a gravity step overdue: the unsigned        *)
(* difference of main.c:101 stays large enough when the system time wraps. *)
NotOverdue ==
  platform = "stm32" => now - last < (PERIOD + 1) * TICKS_PER_MS

(* A step on the STM32 comes early only if the system time has wrapped     *)
(* since the last one: then the difference of main.c:101 underflows and    *)
(* the step is made at once.                                               *)
EarlyOnlyAtWrap ==
  [][(platform = "stm32" /\ last' # last /\ now' - last <= (PERIOD - 1) * TICKS_PER_MS)
       => now' \div WRAP # last \div WRAP]_vars

(* SITL's clock goes back at every second and gains only a tenth of it     *)
(* (impl_sitl.c:38), so the steps come at uneven distances.  While two     *)
(* readings are at most a twentieth of a second apart, a step is late by   *)
(* less than a second; only the first one, which counts from an arbitrary  *)
(* moment of a second, may be late by up to two.                           *)
SitlOverdueBound ==
  (platform = "sitl" /\ 20 * MAX_PASS <= SECOND)
    => now - last < PERIOD + (IF fell THEN 1 ELSE 2) * SECOND
=============================================================================
