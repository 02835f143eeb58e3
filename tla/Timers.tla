------------------------------- MODULE Timers -------------------------------
(***************************************************************************)
(* The kernel's virtual timers in the tickless mode the program is built   *)
(* with (chvt.c, hal_st_lld.c): a list in which every timer holds its      *)
(* distance to the one before it, and one compare register of a counter    *)
(* that wraps.  Threads arm a timer to sleep, and a button's interrupt     *)
(* arms one for its debounce time (impl_stm32.c:215-228).                  *)
(*                                                                         *)
(* The kernel lock keeps every caller out but not the time: ticks pass     *)
(* between reading the counter and setting the alarm.  The lock is open    *)
(* while a callback runs, and the buttons' interrupt has a higher priority *)
(* than the timer's (mcuconf.h:68,184).                                    *)
(***************************************************************************)
EXTENDS Integers, Sequences, SequencesExt, FiniteSets

CONSTANTS
  Sleepers,       \* the timers of sleeping threads
  Buttons,        \* the timers of the buttons
  Delays,         \* how long a thread may sleep, in ticks
  DEBOUNCE,       \* how long a button's timer is armed, in ticks
  WRAP,           \* the counter counts modulo WRAP (2^16)
  TIMEDELTA,      \* CH_CFG_ST_TIMEDELTA (2)
  VT_MAX_DELAY,   \* the farthest an alarm is ever set (2^16 - 2^8)
  SLACK           \* ticks in a row that may find the kernel busy with timers

Timers == Sleepers \cup Buttons

ASSUME TimersAssumption ==
  /\ Delays \cup {DEBOUNCE} \subseteq 1 .. VT_MAX_DELAY
  /\ TIMEDELTA \in Nat \ {0} /\ WRAP \in Nat /\ VT_MAX_DELAY \in TIMEDELTA .. WRAP - 1
  /\ SLACK \in 0 .. TIMEDELTA

VARIABLES
  cnt,        \* TIM2->CNT
  ccr,        \* TIM2->CCR[0]
  dier,       \* TIM2->DIER: the alarm raises an interrupt
  sr,         \* TIM2->SR: the counter has met the alarm
  dl,         \* vtlist.dlist: the armed timers with their deltas
  lasttime,   \* vtlist.lasttime
  cs,         \* what is still to be done under the kernel lock
  tick,       \* the timer's interrupt is in service
  slack,      \* ticks in a row that have found the kernel busy
  left        \* history: ticks to the deadline of every armed timer

hw == <<cnt, ccr, dier, sr>>
list == <<dl, lasttime, left>>
vars == <<hw, list, cs, tick, slack>>

Unlocked == [at |-> "unlocked"]

Init ==
  /\ cnt = 0 /\ ccr = 0 /\ dier = FALSE /\ sr = FALSE
  /\ dl = <<>> /\ lasttime = 0 /\ left = <<>>
  /\ cs = Unlocked /\ tick = FALSE /\ slack = 0

-----------------------------------------------------------------------------
(* Times and delta lists.                                                  *)

chTimeDiffX(start, end) == (end - start) % WRAP
chTimeAddX(time, interval) == (time + interval) % WRAP

nowdelta == chTimeDiffX(lasttime, cnt)

(* The distance of the k-th timer from lasttime. *)
Distance(l, k) == FoldLeft(LAMBDA sum, e : sum + e.delta, 0, SubSeq(l, 1, k))

(* Changed: the timer that follows keeps its delta. *)
ch_dlist_insert_KeepsNext(l, t, delta) ==
  LET k == Cardinality({i \in DOMAIN l : Distance(l, i) < delta})
  IN InsertAt(l, k + 1, [t |-> t, delta |-> delta - Distance(l, k)])

(* Before the first timer that is not nearer.  The scan always stops at    *)
(* the header, whose delta is the largest.                                 *)
ch_dlist_insert(l, t, delta) ==
  LET k    == Cardinality({i \in DOMAIN l : Distance(l, i) < delta})
      own  == delta - Distance(l, k)
      next == [i \in DOMAIN l |-> IF i = k + 1 THEN [l[i] EXCEPT !.delta = @ - own] ELSE l[i]]
  IN InsertAt(next, k + 1, [t |-> t, delta |-> own])

Without(t) == [u \in DOMAIN left \ {t} |-> left[u]]

-----------------------------------------------------------------------------
(* Under the lock: setting the alarm.                                      *)

(* An alarm is to be set "delay" ticks from now, not too near and not too  *)
(* far.                                                                    *)
Alarm(how, delay) ==
  [at |-> how, now |-> cnt, currdelta |-> TIMEDELTA,
   delay |-> IF delay < TIMEDELTA THEN TIMEDELTA
             ELSE IF delay > VT_MAX_DELAY THEN VT_MAX_DELAY ELSE delay]

st_lld_start_alarm ==
  /\ cs.at = "start"
  /\ ccr' = chTimeAddX(cs.now, cs.delay) /\ sr' = FALSE /\ dier' = TRUE
  /\ cs' = [cs EXCEPT !.at = "started"]
  /\ UNCHANGED <<cnt, list, tick, slack>>

st_lld_set_alarm ==
  /\ cs.at = "set"
  /\ ccr' = chTimeAddX(cs.now, cs.delay)
  /\ cs' = [cs EXCEPT !.at = "check"]
  /\ UNCHANGED <<cnt, dier, sr, list, tick, slack>>

(* Changed: the time is not looked at again. *)
vt_set_alarm_NoCheck ==
  /\ cs.at = "check"
  /\ cs' = Unlocked
  /\ UNCHANGED <<hw, list, tick, slack>>

(* vt_set_alarm looks at the time again and, if it has gone past the       *)
(* alarm, sets another one from there.                                     *)
vt_set_alarm ==
  /\ cs.at = "check"
  /\ cs' = IF chTimeDiffX(cs.now, cnt) < cs.delay THEN Unlocked
           ELSE [cs EXCEPT !.at = "set", !.now = cnt, !.currdelta = @ + 1,
                           !.delay = cs.currdelta + 1]
  /\ UNCHANGED <<hw, list, tick, slack>>

(* So does vt_insert_first, but from where the time was before. *)
vt_insert_first ==
  /\ cs.at = "started"
  /\ IF chTimeDiffX(cs.now, cnt) < cs.delay
     THEN cs' = Unlocked /\ UNCHANGED ccr
     ELSE /\ cs' = [cs EXCEPT !.now = cnt, !.currdelta = @ + 1, !.delay = cs.currdelta + 1]
          /\ ccr' = chTimeAddX(cs.now, cs.currdelta + 1)
  /\ UNCHANGED <<cnt, dier, sr, list, tick, slack>>

-----------------------------------------------------------------------------
(* Under the lock: the list.                                               *)

vt_enqueue ==
  /\ cs.at = "enqueue"
  /\ left' = [u \in DOMAIN left \cup {cs.t} |-> IF u = cs.t THEN cs.delay ELSE left[u]]
  /\ IF dl = <<>>
     THEN /\ lasttime' = cnt
          /\ dl' = <<[t |-> cs.t, delta |-> cs.delay]>>
          /\ cs' = Alarm("start", cs.delay)
     ELSE /\ dl' = ch_dlist_insert(dl, cs.t, nowdelta + cs.delay)
          /\ cs' = IF nowdelta + cs.delay < dl[1].delta THEN Alarm("set", cs.delay)
                   ELSE Unlocked
          /\ UNCHANGED lasttime
  /\ UNCHANGED <<hw, tick, slack>>

-----------------------------------------------------------------------------
(* The callers.                                                            *)

(* A thread goes to sleep; it does so when no interrupt is in service. *)
chThdSleep(t) ==
  /\ cs = Unlocked /\ ~tick /\ t \notin DOMAIN left
  /\ \E d \in Delays : cs' = [at |-> "enqueue", t |-> t, delay |-> d]
  /\ UNCHANGED <<hw, list, tick, slack>>

(* A button's interrupt, also between two steps of the timer's.  That its  *)
(* timer is not armed then, so that chVTResetI has nothing to do, is the   *)
(* invariant OneWindow of Debounce.                                        *)
button_cb(t) ==
  /\ cs = Unlocked /\ t \notin DOMAIN left
  /\ cs' = [at |-> "enqueue", t |-> t, delay |-> DEBOUNCE]
  /\ UNCHANGED <<hw, list, tick, slack>>

st_lld_serve_interrupt ==
  /\ cs = Unlocked /\ ~tick /\ sr /\ dier
  /\ sr' = FALSE
  /\ tick' = TRUE
  /\ UNCHANGED <<cnt, ccr, dier, list, cs, slack>>

(* Changed: the alarm of an empty list is not stopped. *)
Callback_KeepsAlarm ==
  /\ tick /\ cs = Unlocked
  /\ dl # <<>> /\ nowdelta >= dl[1].delta
  /\ lasttime' = chTimeAddX(lasttime, dl[1].delta)
  /\ dl' = Tail(dl) /\ left' = Without(dl[1].t)
  /\ UNCHANGED <<hw, cs, tick, slack>>

(* chVTDoTickI removes the first timer when its time has come and calls    *)
(* its callback without the lock ...                                       *)
Callback ==
  /\ tick /\ cs = Unlocked
  /\ dl # <<>> /\ nowdelta >= dl[1].delta
  /\ lasttime' = chTimeAddX(lasttime, dl[1].delta)
  /\ dl' = Tail(dl) /\ left' = Without(dl[1].t)
  /\ dier' = (dier /\ dl' # <<>>)
  /\ UNCHANGED <<cnt, ccr, sr, cs, tick, slack>>

(* ... and when the time of the first, if any, is still to come, sets the  *)
(* alarm for it and returns.                                               *)
TickEnds ==
  /\ tick /\ cs = Unlocked
  /\ dl # <<>> => nowdelta < dl[1].delta
  /\ tick' = FALSE
  /\ IF dl = <<>> THEN UNCHANGED <<cs, lasttime, dl>>
     ELSE /\ lasttime' = chTimeAddX(lasttime, nowdelta)
          /\ dl' = [dl EXCEPT ![1].delta = @ - nowdelta]
          /\ cs' = Alarm("set", dl'[1].delta)
  /\ UNCHANGED <<hw, left, slack>>

-----------------------------------------------------------------------------
(* Time.                                                                   *)

Busy == cs # Unlocked \/ tick \/ (sr /\ dier)

(* The counter counts and is compared with the alarm.  No more than SLACK  *)
(* ticks in a row find the kernel at its timers, or an interrupt waiting.  *)
Pass ==
  /\ Busy => slack < SLACK
  /\ slack' = IF Busy THEN slack + 1 ELSE 0
  /\ cnt' = chTimeAddX(cnt, 1)
  /\ sr' = (sr \/ cnt' = ccr)
  /\ left' = [t \in DOMAIN left |-> left[t] - 1]
  /\ UNCHANGED <<ccr, dier, dl, lasttime, cs, tick>>

Next ==
  \/ Pass
  \/ st_lld_start_alarm \/ st_lld_set_alarm \/ vt_set_alarm \/ vt_insert_first \/ vt_enqueue
  \/ st_lld_serve_interrupt \/ Callback \/ TickEnds
  \/ \E t \in Sleepers : chThdSleep(t)
  \/ \E t \in Buttons : button_cb(t)

Spec == Init /\ [][Next]_vars

-----------------------------------------------------------------------------
(* The deltas add up to the deadlines, whatever timers are armed and fire  *)
(* in between and however often the counter has wrapped (chvt.c:205-608).  *)
DeltasExact ==
  /\ Len(dl) = Cardinality(DOMAIN left)
  /\ \A i \in DOMAIN dl : /\ dl[i].delta >= 0
                          /\ Distance(dl, i) = nowdelta + left[dl[i].t]

(* The alarm is started when it is off and moved when it is on, as         *)
(* stStartAlarm and stSetAlarm assert (hal_st.c:121,149), and it is off    *)
(* only while no timer is armed.                                           *)
AlarmSwitched ==
  /\ cs.at = "start" => ~dier
  /\ cs.at \in {"set", "check", "started"} => dier
  /\ cs.at # "start" => dier = (dl # <<>>)

(* The interrupt that finds a timer not quite due sets another alarm,      *)
(* perhaps twice, and its interrupt may have to wait again.                *)
LATE == TIMEDELTA + 2 * SLACK

T == INSTANCE Timeouts WITH Delays <- Delays \cup {DEBOUNCE}

(* Callbacks come in order, none early and none more than LATE ticks late, *)
(* although ticks pass while the alarm is being set, the buttons' interrupt *)
(* comes between two callbacks, and the counter wraps (chvt.c:69-608).     *)
KeepsDeadlines == T!Spec
=============================================================================
