------------------------------- MODULE Kernel -------------------------------
(***************************************************************************)
(* The part of the ChibiOS kernel the game's threads run on: the scheduler *)
(* (chschd.c), mutexes with priority inheritance (chmtx.c), sleeping,      *)
(* suspending and creating threads (chthreads.c) and the way out of an     *)
(* interrupt (chcore.c).  One core, no time slices (chconf.h:128).         *)
(*                                                                         *)
(* A kernel call runs with interrupts masked: it is one step, up to and    *)
(* including the switch to the next thread.  Its parts are functions on    *)
(* the record k of all that the kernel keeps.                              *)
(***************************************************************************)
EXTENDS Naturals, Sequences, SequencesExt

CONSTANTS
  Threads,     \* the threads, with the idle thread
  Idle,        \* the idle thread: always ready to run, never sleeps
  First,       \* the thread that calls chSysInit
  RealPrio,    \* realprio of a thread
  Mutexes,     \* a set of numbers: threads lock nested mutexes in this order
  None,        \* NULL
  Uses,        \* the mutexes a thread locks
  NapsWith,    \* the mutexes a thread may hold when it sleeps
  Suspends     \* the threads that wait on the thread reference

ASSUME KernelAssumption ==
  /\ {Idle, First} \subseteq Threads /\ Idle # First /\ None \notin Threads \cup Mutexes
  /\ RealPrio \in [Threads -> Nat \ {0}] /\ Mutexes \subseteq Nat
  /\ \A t \in Threads \ {Idle} : RealPrio[t] > RealPrio[Idle]
  /\ {Uses, NapsWith} \subseteq [Threads -> SUBSET Mutexes] /\ Uses[Idle] = {}
  /\ Suspends \subseteq Threads \ {Idle}

VARIABLES
  k,     \* the os_instance, its threads and the mutexes
  isr    \* interrupt handlers are running

vars == <<k, isr>>

(* chSysInit has made its caller the running thread and the idle thread    *)
(* ready.  u is the union of what a thread waits for and what it is told.  *)
Init ==
  /\ k = [current |-> First,
          rlist   |-> <<Idle>>,
          state   |-> [t \in Threads |-> CASE t = First -> "CURRENT"
                                           [] t = Idle  -> "READY"
                                           [] OTHER     -> "WTSTART"],
          prio    |-> RealPrio,
          u       |-> [t \in Threads |-> "MSG_OK"],
          mtxlist |-> [t \in Threads |-> <<>>],
          owner   |-> [m \in Mutexes |-> None],
          queue   |-> [m \in Mutexes |-> <<>>],
          ref     |-> None,
          armed   |-> {}]
  /\ isr = FALSE

-----------------------------------------------------------------------------
(* Lists.                                                                  *)

(* Walks the queue up to the first thread of "lower". *)
InsertBefore(q, t, lower) ==
  LET i == SelectInSeq(q, LAMBDA r : r \in lower)
  IN  InsertAt(q, IF i = 0 THEN Len(q) + 1 ELSE i, t)

(* Behind the peers: before the first of a lower priority. *)
InsertBehind(q, t, prio) == InsertBefore(q, t, {r \in Range(q) : prio[r] < prio[t]})

(* Ahead of the peers: before the first of the same or a lower priority. *)
InsertAhead(q, t, prio) == InsertBefore(q, t, {r \in Range(q) : prio[r] <= prio[t]})

-----------------------------------------------------------------------------
(* The scheduler.                                                          *)

ReadyBehind(s, t) ==
  [s EXCEPT !.state[t] = "READY", !.rlist = InsertBehind(@, t, s.prio)]

ReadyAhead(s, t) ==
  [s EXCEPT !.state[t] = "READY", !.rlist = InsertAhead(@, t, s.prio)]

(* The first ready thread runs.  If it comes back from a sleep with a      *)
(* timeout, it first disarms its timer (chSchGoSleepTimeoutS).             *)
RunFirst(s) ==
  LET t == Head(s.rlist)
  IN  [s EXCEPT !.rlist = Tail(@), !.state[t] = "CURRENT", !.current = t,
                !.armed = @ \ {t}]

GoSleep(s, newstate) == RunFirst([s EXCEPT !.state[s.current] = newstate])

PreemptionRequired(s) == s.prio[Head(s.rlist)] > s.prio[s.current]

(* The running thread goes ahead of its peers. *)
RescheduleAhead(s) == ReadyAhead(RunFirst(s), s.current)

Reschedule(s) == IF PreemptionRequired(s) THEN RescheduleAhead(s) ELSE s

(* chSchWakeupS: t runs at once if its priority is higher. *)
Wakeup(s, t, msg) ==
  LET s1 == [s EXCEPT !.u[t] = msg]
  IN  IF s.prio[t] <= s.prio[s.current] THEN ReadyBehind(s1, t)
      ELSE [ReadyAhead(s1, s.current) EXCEPT !.state[t] = "CURRENT", !.current = t,
                                             !.armed = @ \ {t}]

(* Changed: a thread that has been made ready is made ready again. *)
TimeoutWakeup_Twice(s, t) ==
  LET s1 == [s EXCEPT !.armed = @ \ {t}]
  IN  ReadyBehind([s1 EXCEPT !.u[t] = "MSG_TIMEOUT",
                             !.ref = IF s.state[t] = "SUSPENDED" THEN None ELSE @], t)

(* __sch_wakeup, the callback of the timer of a sleeping thread: nothing   *)
(* is to be done if the thread has been made ready in the meantime.        *)
TimeoutWakeup(s, t) ==
  LET s1 == [s EXCEPT !.armed = @ \ {t}]
  IN  IF s.state[t] = "READY" THEN s1
      ELSE ReadyBehind([s1 EXCEPT !.u[t] = "MSG_TIMEOUT",
                                  !.ref = IF s.state[t] = "SUSPENDED" THEN None ELSE @], t)

-----------------------------------------------------------------------------
(* Mutexes.                                                                *)

(* Changed: the owner of the mutex the owner waits for is left alone. *)
Boost_OneLevel(s, t, p) ==
  IF s.prio[t] >= p THEN s
  ELSE LET s1 == [s EXCEPT !.prio[t] = p]
       IN  CASE s.state[t] = "WTMTX" ->
                  [s1 EXCEPT !.queue[s.u[t]] = InsertBehind(Remove(@, t), t, s1.prio)]
             [] s.state[t] = "READY" ->
                  [s1 EXCEPT !.rlist = InsertBehind(Remove(@, t), t, s1.prio)]
             [] OTHER -> s1

(* The priority inheritance loop: t gets priority p; if it waits for a     *)
(* mutex itself, so does the owner of that.                                *)
RECURSIVE Boost(_, _, _)
Boost(s, t, p) ==
  IF s.prio[t] >= p THEN s
  ELSE LET s1 == [s EXCEPT !.prio[t] = p]
       IN  CASE s.state[t] = "WTMTX" ->
                  Boost([s1 EXCEPT !.queue[s.u[t]] = InsertBehind(Remove(@, t), t, s1.prio)],
                        s.owner[s.u[t]], p)
             [] s.state[t] = "READY" ->
                  [s1 EXCEPT !.rlist = InsertBehind(Remove(@, t), t, s1.prio)]
             [] OTHER -> s1

LockMutex(s, m) ==
  LET t  == s.current
      s1 == Boost(s, s.owner[m], s.prio[t])
  IN  IF s.owner[m] = None
      THEN [s EXCEPT !.owner[m] = t, !.mtxlist[t] = <<m>> \o @]
      ELSE GoSleep([s1 EXCEPT !.queue[m] = InsertBehind(@, t, s1.prio), !.u[t] = m],
                   "WTMTX")

(* Changed: the thread keeps the priority it has inherited. *)
NewPrio_Kept(s, t) == s.prio[t]

(* The priority left to t: its own, or that of the first waiter for one of *)
(* the mutexes it keeps.                                                   *)
NewPrio(s, t) ==
  LET waiters == {Head(s.queue[m]) : m \in {n \in Range(s.mtxlist[t]) : s.queue[n] # <<>>}}
      prios   == {RealPrio[t]} \cup {s.prio[w] : w \in waiters}
  IN  CHOOSE p \in prios : \A q \in prios : q <= p

(* Changed: nobody looks whether the thread that got the mutex should run. *)
UnlockMutex_NoReschedule(s) ==
  LET t  == s.current
      m  == Head(s.mtxlist[t])
      s1 == [s EXCEPT !.mtxlist[t] = Tail(@)]
      w  == Head(s.queue[m])
      s2 == [s1 EXCEPT !.prio[t] = NewPrio(s1, t), !.queue[m] = Tail(@),
                       !.owner[m] = w, !.mtxlist[w] = <<m>> \o @]
  IN  IF s.queue[m] = <<>> THEN [s1 EXCEPT !.owner[m] = None] ELSE ReadyBehind(s2, w)

(* Changed: the mutex goes to the waiter of the lowest priority. *)
UnlockMutex_Last(s) ==
  LET t  == s.current
      m  == Head(s.mtxlist[t])
      s1 == [s EXCEPT !.mtxlist[t] = Tail(@)]
      w  == Last(s.queue[m])
      s2 == [s1 EXCEPT !.prio[t] = NewPrio(s1, t), !.queue[m] = Front(@),
                       !.owner[m] = w, !.mtxlist[w] = <<m>> \o @]
  IN  IF s.queue[m] = <<>> THEN [s1 EXCEPT !.owner[m] = None]
      ELSE Reschedule(ReadyBehind(s2, w))

(* The mutex locked last is unlocked and handed to its first waiter. *)
UnlockMutex(s) ==
  LET t  == s.current
      m  == Head(s.mtxlist[t])
      s1 == [s EXCEPT !.mtxlist[t] = Tail(@)]
      w  == Head(s.queue[m])
      s2 == [s1 EXCEPT !.prio[t] = NewPrio(s1, t), !.queue[m] = Tail(@),
                       !.owner[m] = w, !.mtxlist[w] = <<m>> \o @]
  IN  IF s.queue[m] = <<>> THEN [s1 EXCEPT !.owner[m] = None]
      ELSE Reschedule(ReadyBehind(s2, w))

-----------------------------------------------------------------------------
(* What a running thread t calls.                                          *)

Runs(t) == k.current = t /\ ~isr /\ isr' = isr

(* chThdCreateStatic *)
Create(t, new) ==
  /\ Runs(t) /\ t = First
  /\ k.state[new] = "WTSTART" /\ k' = Wakeup(k, new, "MSG_OK")

Lock(t, m) ==
  /\ Runs(t)
  /\ m \in Uses[t] /\ \A n \in Range(k.mtxlist[t]) : n < m
  /\ k' = LockMutex(k, m)

Unlock(t) == Runs(t) /\ k.mtxlist[t] # <<>> /\ k' = UnlockMutex(k)

Sleep(t) ==
  /\ Runs(t) /\ t # Idle /\ Range(k.mtxlist[t]) \subseteq NapsWith[t]
  /\ k' = GoSleep([k EXCEPT !.armed = @ \cup {t}], "SLEEPING")

(* chThdSuspendTimeoutS; spiSend waits so, without a timeout. *)
Suspend(t, timed) ==
  /\ Runs(t) /\ t \in Suspends /\ k.ref = None
  /\ k' = GoSleep([k EXCEPT !.ref = t, !.armed = IF timed THEN @ \cup {t} ELSE @],
                  "SUSPENDED")

(* chThdResume *)
Resume(t) ==
  /\ Runs(t) /\ k.ref # None
  /\ k' = Wakeup([k EXCEPT !.ref = None], k.ref, "MSG_OK")

-----------------------------------------------------------------------------
(* Interrupts.  Several handlers may run one after the other or nested;    *)
(* the last one to leave switches threads.                                 *)

Timeout(t) == t \in k.armed /\ isr' = TRUE /\ k' = TimeoutWakeup(k, t)

(* chThdResumeI, at the end of a transfer. *)
ResumeI ==
  /\ k.ref # None /\ isr' = TRUE
  /\ k' = ReadyBehind([k EXCEPT !.u[k.ref] = "MSG_OK", !.ref = None], k.ref)

(* Changed: the interrupted thread goes on. *)
Epilogue_NoSwitch == isr /\ isr' = FALSE /\ k' = k

Epilogue ==
  /\ isr /\ isr' = FALSE
  /\ k' = Reschedule(k)

Calls(t) == \/ \E new \in Threads : Create(t, new)
            \/ \E m \in Mutexes : Lock(t, m)
            \/ Unlock(t) \/ Sleep(t)
            \/ \E timed \in BOOLEAN : Suspend(t, timed)
            \/ Resume(t)

Next == (\E t \in Threads : Calls(t) \/ Timeout(t)) \/ ResumeI \/ Epilogue

Spec == Init /\ [][Next]_vars

-----------------------------------------------------------------------------
Owns(t) == {m \in Mutexes : k.owner[m] = t}

Waiters(m) == {t \in Threads : k.state[t] = "WTMTX" /\ k.u[t] = m}

(* Every list holds what the threads' states say, and nothing twice: no    *)
(* thread is lost and none is made ready twice, in whatever order the end  *)
(* of a wait and its timeout come (chschd.c:194-199, chthreads.c:795).     *)
ListsExact ==
  /\ k.state[k.current] = "CURRENT"
  /\ \A t \in Threads : k.state[t] = "CURRENT" => t = k.current
  /\ IsInjective(k.rlist) /\ Range(k.rlist) = {t \in Threads : k.state[t] = "READY"}
  /\ \A m \in Mutexes : IsInjective(k.queue[m]) /\ Range(k.queue[m]) = Waiters(m)
  /\ \A t \in Threads : IsInjective(k.mtxlist[t]) /\ Range(k.mtxlist[t]) = Owns(t)
  /\ {t \in Threads : k.state[t] = "SUSPENDED"} = {k.ref} \ {None}
  /\ \A t \in Threads : k.state[t] = "SLEEPING" => t \in k.armed

(* Outside of interrupts no ready thread has a higher priority than the    *)
(* running one, which chSchWakeupS takes for granted (chschd.c:403-405).   *)
HighestRuns == isr \/ \A t \in Range(k.rlist) : k.prio[t] <= k.prio[k.current]

(* Priority inheritance is exact, along chains of waiting threads and with *)
(* nested mutexes: a thread has the highest of its own priority and those  *)
(* of the threads that wait for what it owns (chmtx.c:158-211, 353-370).   *)
PriorityExact ==
  \A t \in Threads :
    LET prios == {RealPrio[t]} \cup UNION {{k.prio[w] : w \in Waiters(m)} : m \in Owns(t)}
    IN  k.prio[t] \in prios /\ \A p \in prios : p <= k.prio[t]

(* A mutex somebody waits for is handed on, never freed, and to a waiter   *)
(* of the highest priority there is (chmtx.c:372-380).                     *)
HandedToHighest ==
  [][\A m \in Mutexes :
       (k'.owner[m] # k.owner[m] /\ k.owner[m] # None) =>
         IF Waiters(m) = {} THEN k'.owner[m] = None
         ELSE /\ k'.owner[m] \in Waiters(m)
              /\ \A w \in Waiters(m) : k.prio[w] <= k.prio[k'.owner[m]]]_vars

(* The message a waiting thread is given when it is made ready is the one  *)
(* it reads when it runs: a timeout that comes late does not replace the   *)
(* answer (chschd.c:195-199).                                              *)
MessageKept ==
  [][\A t \in Threads : (k.state[t] = "READY" /\ k'.state[t] \in {"READY", "CURRENT"})
                           => k'.u[t] = k.u[t]]_vars
=============================================================================
