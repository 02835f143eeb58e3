---------------------------- MODULE TimersProofs ----------------------------
(***************************************************************************)
(* Proofs about Timers, for any timers, delays and widths of the counter.  *)
(***************************************************************************)
EXTENDS Timers, FiniteSetTheorems, TLAPS

(* The list is a list, whatever its entries. *)
IsList(l) == \E S : l \in Seq(S)

(* The inductive invariant behind AlarmSwitched. *)
AlarmInv ==
  /\ AlarmSwitched
  /\ dier \in BOOLEAN /\ "at" \in DOMAIN cs
  /\ cs.at = "start" => dl # <<>>
  /\ IsList(dl)

(* ch_dlist_insert yields a list that is not empty (chlists.h:536). *)
LEMMA InsertList ==
  ASSUME NEW l, IsList(l), NEW t, NEW delta
  PROVE  IsList(ch_dlist_insert(l, t, delta)) /\ ch_dlist_insert(l, t, delta) # <<>>
<1> DEFINE near == {i \in DOMAIN l : Distance(l, i) < delta}
           k    == Cardinality(near)
           own  == delta - Distance(l, k)
           next == [i \in DOMAIN l |-> IF i = k + 1 THEN [l[i] EXCEPT !.delta = @ - own]
                                       ELSE l[i]]
           e    == [t |-> t, delta |-> own]
<1>1. PICK S : l \in Seq(S)
  BY DEF IsList
<1>2. k \in 0 .. Len(l)
  <2>1. IsFiniteSet(1 .. Len(l)) /\ Cardinality(1 .. Len(l)) = Len(l)
    <3>1. Len(l) \in Nat
      BY <1>1
    <3>2. ASSUME NEW n \in Nat
          PROVE  IsFiniteSet(1 .. n) /\ Cardinality(1 .. n) = n
      <4>1. /\ IsFiniteSet(1 .. n)
            /\ Cardinality(1 .. n) = IF 1 > n THEN 0 ELSE n - 1 + 1
        BY FS_Interval
      <4> QED
        BY <4>1
    <3> QED
      BY <3>1, <3>2
  <2>2. near \subseteq 1 .. Len(l)
    BY <1>1
  <2>3. IsFiniteSet(near) /\ k <= Len(l)
    BY <2>1, <2>2, FS_Subset
  <2>4. k \in Nat
    BY <2>3, FS_CardinalityType
  <2> QED
    BY <1>1, <2>3, <2>4
<1> DEFINE R == {next[i] : i \in 1 .. Len(l)} \cup {e}
<1> HIDE DEF own, k
<1>3. next \in Seq(R) /\ Len(next) = Len(l)
  BY <1>1
<1> HIDE DEF next
<1>4. /\ SubSeq(next, 1, (k + 1) - 1) \in Seq(R) /\ SubSeq(next, k + 1, Len(next)) \in Seq(R)
      /\ <<e>> \in Seq(R)
  BY <1>2, <1>3
<1>5. ch_dlist_insert(l, t, delta)
        = SubSeq(next, 1, (k + 1) - 1) \o <<e>> \o SubSeq(next, k + 1, Len(next))
  BY DEF ch_dlist_insert, InsertAt, k, own, next
<1> HIDE DEF e, R
<1>6. ch_dlist_insert(l, t, delta) \in Seq(R) /\ Len(ch_dlist_insert(l, t, delta)) > 0
  BY <1>4, <1>5
<1> QED
  BY <1>6 DEF IsList

(* Taking the first timer off, or changing its delta, leaves a list. *)
LEMMA FirstList ==
  ASSUME IsList(dl), dl # <<>>, NEW v
  PROVE  /\ IsList(Tail(dl))
         /\ IsList([dl EXCEPT ![1].delta = v]) /\ [dl EXCEPT ![1].delta = v] # <<>>
<1>1. PICK S : dl \in Seq(S)
  BY DEF IsList
<1>2. Tail(dl) \in Seq(S)
  BY <1>1
<1> DEFINE new == [dl EXCEPT ![1].delta = v]
<1>3. DOMAIN new = 1 .. Len(dl) /\ new = [i \in 1 .. Len(dl) |-> new[i]]
  BY <1>1
<1>4. Len(dl) \in Nat /\ Len(dl) > 0
  BY <1>1
<1> HIDE DEF new
<1>5. new \in Seq({new[i] : i \in 1 .. Len(dl)}) /\ new # <<>>
  BY <1>3, <1>4
<1> QED
  BY <1>2, <1>5 DEF IsList, new

(* The kernel before anyone has armed a timer. *)
LEMMA InitAlarm == Init => AlarmInv
<1> SUFFICES ASSUME Init PROVE AlarmInv
  OBVIOUS
<1>1. dl \in Seq({}) /\ cs.at = "unlocked" /\ "at" \in DOMAIN cs
  BY DEF Init, Unlocked
<1> QED
  BY <1>1 DEF Init, AlarmInv, AlarmSwitched, IsList

(* The alarm is started and set (hal_st_lld.h:818-853, chvt.c:69-199). *)
LEMMA SettingAlarm ==
  ASSUME AlarmInv,
         st_lld_start_alarm \/ st_lld_set_alarm \/ vt_set_alarm \/ vt_insert_first
  PROVE  AlarmInv'
<1> USE DEF AlarmInv, AlarmSwitched, list, hw
<1>1. dl' = dl
  BY DEF st_lld_start_alarm, st_lld_set_alarm, vt_set_alarm, vt_insert_first
<1>2. Unlocked.at = "unlocked" /\ "at" \in DOMAIN Unlocked
  BY DEF Unlocked
<1>3. CASE st_lld_start_alarm
  BY <1>1, <1>3 DEF st_lld_start_alarm
<1>4. CASE st_lld_set_alarm
  BY <1>1, <1>4 DEF st_lld_set_alarm
<1>5. CASE vt_set_alarm
  <2>1. dier' = dier /\ cs.at = "check"
    BY <1>5 DEF vt_set_alarm
  <2>2. cs'.at \in {"unlocked", "set"} /\ "at" \in DOMAIN cs'
    <3>1. CASE chTimeDiffX(cs.now, cnt) < cs.delay
      BY <1>5, <1>2, <3>1 DEF vt_set_alarm
    <3>2. CASE ~(chTimeDiffX(cs.now, cnt) < cs.delay)
      <4>1. cs' = [cs EXCEPT !.at = "set", !.now = cnt, !.currdelta = cs.currdelta + 1,
                            !.delay = cs.currdelta + 1]
        BY <1>5, <3>2 DEF vt_set_alarm
      <4> QED
        BY <2>1, <4>1
    <3> QED
      BY <3>1, <3>2
  <2> QED
    BY <1>1, <2>1, <2>2
<1>6. CASE vt_insert_first
  <2>1. dier' = dier /\ cs.at = "started"
    BY <1>6 DEF vt_insert_first
  <2>2. cs'.at \in {"unlocked", "started"} /\ "at" \in DOMAIN cs'
    <3>1. CASE chTimeDiffX(cs.now, cnt) < cs.delay
      BY <1>6, <1>2, <3>1 DEF vt_insert_first
    <3>2. CASE ~(chTimeDiffX(cs.now, cnt) < cs.delay)
      <4>1. cs' = [cs EXCEPT !.now = cnt, !.currdelta = cs.currdelta + 1,
                            !.delay = cs.currdelta + 1]
        BY <1>6, <3>2 DEF vt_insert_first
      <4> QED
        BY <2>1, <4>1
    <3> QED
      BY <3>1, <3>2
  <2> QED
    BY <1>1, <2>1, <2>2
<1> QED
  BY <1>3, <1>4, <1>5, <1>6

(* A timer enters the list (chvt.c:205-249). *)
LEMMA EnqueueAlarm ==
  ASSUME AlarmInv, vt_enqueue
  PROVE  AlarmInv'
<1> USE DEF AlarmInv, AlarmSwitched
<1>1. dier' = dier /\ cs.at = "enqueue" /\ dier = (dl # <<>>)
  BY DEF vt_enqueue, hw
<1>2. /\ \A how, d : Alarm(how, d).at = how /\ "at" \in DOMAIN Alarm(how, d)
      /\ Unlocked.at = "unlocked" /\ "at" \in DOMAIN Unlocked
  BY DEF Alarm, Unlocked
<1>3. IsList(dl') /\ dl' # <<>>
  <2>1. CASE dl = <<>>
    <3>1. dl' = <<[t |-> cs.t, delta |-> cs.delay]>>
      BY <2>1 DEF vt_enqueue
    <3>2. dl' \in Seq({[t |-> cs.t, delta |-> cs.delay]})
      BY <3>1
    <3> QED
      BY <3>1, <3>2 DEF IsList
  <2>2. CASE dl # <<>>
    BY <2>2, InsertList DEF vt_enqueue
  <2> QED
    BY <2>1, <2>2
<1>4. /\ "at" \in DOMAIN cs'
      /\ IF dl = <<>> THEN cs'.at = "start" ELSE cs'.at \in {"set", "unlocked"}
  BY <1>2 DEF vt_enqueue
<1> QED
  BY <1>1, <1>3, <1>4

(* The timer's interrupt (hal_st_lld.c:648, chvt.c:464-608). *)
LEMMA TickAlarm ==
  ASSUME AlarmInv, st_lld_serve_interrupt \/ Callback \/ TickEnds
  PROVE  AlarmInv'
<1> USE DEF AlarmInv, AlarmSwitched, hw, list
<1>1. cs = Unlocked /\ cs.at = "unlocked" /\ dier = (dl # <<>>)
  BY DEF st_lld_serve_interrupt, Callback, TickEnds, Unlocked
<1>2. CASE st_lld_serve_interrupt
  BY <1>1, <1>2 DEF st_lld_serve_interrupt
<1>3. CASE Callback
  <2>1. cs' = cs /\ dl' = Tail(dl) /\ dl # <<>> /\ dier' = (dier /\ dl' # <<>>)
    BY <1>3 DEF Callback
  <2>2. IsList(dl')
    BY <2>1, FirstList
  <2> QED
    BY <1>1, <2>1, <2>2
<1>4. CASE TickEnds
  <2>1. CASE dl = <<>>
    BY <1>1, <1>4, <2>1 DEF TickEnds
  <2>2. CASE dl # <<>>
    <3>1. dier' = dier /\ cs'.at = "set" /\ "at" \in DOMAIN cs'
      BY <1>4, <2>2 DEF TickEnds, Alarm
    <3>2. dl' = [dl EXCEPT ![1].delta = dl[1].delta - nowdelta]
      BY <1>4, <2>2 DEF TickEnds
    <3>3. IsList(dl') /\ dl' # <<>>
      BY <2>2, <3>2, FirstList
    <3> QED
      BY <1>1, <2>2, <3>1, <3>3
  <2> QED
    BY <2>1, <2>2
<1> QED
  BY <1>2, <1>3, <1>4

(* The callers take the lock, and time passes. *)
LEMMA CallerAlarm ==
  ASSUME AlarmInv,
         \/ Pass
         \/ \E t \in Sleepers : chThdSleep(t)
         \/ \E t \in Buttons : button_cb(t)
  PROVE  AlarmInv'
<1> USE DEF AlarmInv, AlarmSwitched
<1>1. CASE Pass
  BY <1>1 DEF Pass
<1>2. CASE ~Pass
  <2>1. cs.at = "unlocked" /\ cs'.at = "enqueue" /\ "at" \in DOMAIN cs'
    BY <1>2 DEF chThdSleep, button_cb, Unlocked
  <2>2. UNCHANGED <<dl, dier>>
    BY <1>2 DEF chThdSleep, button_cb, list, hw
  <2> QED
    BY <2>1, <2>2
<1> QED
  BY <1>1, <1>2

(* The alarm is on exactly while a timer is armed, and the assertions of   *)
(* stStartAlarm and stSetAlarm hold, for any timers and any timing of the  *)
(* interrupts (hal_st.c:119-152).                                          *)
THEOREM AlwaysSwitched == Spec => []AlarmSwitched
<1>1. AlarmInv /\ [Next]_vars => AlarmInv'
  <2> SUFFICES ASSUME AlarmInv, [Next]_vars PROVE AlarmInv'
    OBVIOUS
  <2>1. CASE UNCHANGED vars
    BY <2>1 DEF AlarmInv, AlarmSwitched, vars, hw, list
  <2> QED
    BY <2>1, SettingAlarm, EnqueueAlarm, TickAlarm, CallerAlarm DEF Next
<1>2. AlarmInv => AlarmSwitched
  BY DEF AlarmInv
<1> QED
  BY <1>1, <1>2, InitAlarm, PTL DEF Spec
=============================================================================
