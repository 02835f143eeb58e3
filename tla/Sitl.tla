-------------------------------- MODULE Sitl --------------------------------
(***************************************************************************)
(* The simulation's platform (impl_sitl.c): keys arrive through SDL's      *)
(* event queue, one event is handled per pass of main, and main itself     *)
(* redraws the window (main.c:139).                                        *)
(*                                                                         *)
(* loop_sitl ignores the result of SDL_PollEvent.  When the queue is empty *)
(* its event is an uninitialised local, so it is any event at all.         *)
(***************************************************************************)
EXTENDS Naturals, Sequences

CONSTANTS
  Button,      \* the buttons that have a key in char_map
  STACKSIZE,   \* capacity of the stack of boxes (16)
  MAX_QUEUE    \* bound of the model: events waiting

NONE == "none"   \* BUTTON_INVALID: a key without a button

ASSUME SitlAssumption ==
  STACKSIZE \in Nat \ {0} /\ MAX_QUEUE \in Nat /\ NONE \notin Button

Event == [type : {"down", "up"}, key : Button \cup {NONE}]
           \cup [type : {"quit", "other"}, key : {NONE}]

VARIABLES
  key,       \* keyboard: the keys held down
  queue,     \* SDL's event queue
  states,    \* button_states
  polled,    \* the buttons buttons_do_action has been given in this pass
  pc,        \* "loop", "draw" or "exit"
  flag,      \* vbuf.clear_flag
  size,      \* vbuf.upd_stack.size
  current,   \* the window shows the frame drawn last
  misread    \* history: buttons last set by an uninitialised event

keyboard == <<key, queue>>
video == <<flag, size, current>>
vars == <<keyboard, states, polled, pc, video, misread>>

Init ==
  /\ key = [b \in Button |-> FALSE]
  /\ queue = <<>>
  /\ states = [b \in Button |-> FALSE]
  /\ polled = {}
  /\ pc = "loop"
  /\ flag = TRUE /\ size = 0 /\ current = FALSE
  /\ misread = [b \in Button |-> FALSE]

-----------------------------------------------------------------------------
(* The player.  SDL reports a key again while it is held down.             *)

Posts(e) == pc # "exit" /\ Len(queue) < MAX_QUEUE /\ queue' = Append(queue, e)

Press(b) ==
  /\ Posts([type |-> "down", key |-> b])
  /\ key' = [key EXCEPT ![b] = TRUE]
  /\ UNCHANGED <<states, polled, pc, video, misread>>

Release(b) ==
  /\ key[b]
  /\ Posts([type |-> "up", key |-> b])
  /\ key' = [key EXCEPT ![b] = FALSE]
  /\ UNCHANGED <<states, polled, pc, video, misread>>

(* The window is closed, or something happens that the game does not know. *)
Notify ==
  /\ \E e \in {f \in Event : f.key = NONE} : Posts(e)
  /\ UNCHANGED <<key, states, polled, pc, video, misread>>

-----------------------------------------------------------------------------
(* main.                                                                   *)

(* n calls of bbox_stack_push, starting from m boxes. *)
Pushed(m, n) == IF m + n <= STACKSIZE THEN m + n ELSE STACKSIZE

IsKey(e) == e.type \in {"down", "up"}

(* Changed: the release of a key is not looked at. *)
Handle_IgnoresUp(e) ==
  IF e.type = "quit"
  THEN pc' = "exit" /\ UNCHANGED <<states, polled, size>>
  ELSE /\ states' = IF IsKey(e) /\ e.key # NONE
                    THEN [states EXCEPT ![e.key] = TRUE] ELSE states
       /\ polled' = IF IsKey(e) THEN {b \in Button : states'[b]} ELSE {}
       /\ \E acts \in BOOLEAN : /\ acts => polled' # {}
                                /\ size' = Pushed(size, IF acts THEN 1 ELSE 0)
       /\ pc' = "draw"

(* loop_sitl with the event e.  Any event of a key, with a button or not,  *)
(* polls the buttons; buttons_do_action may find none to act on, otherwise *)
(* update_block pushes a box.                                              *)
Handle(e) ==
  IF e.type = "quit"
  THEN pc' = "exit" /\ UNCHANGED <<states, polled, size>>
  ELSE /\ states' = IF IsKey(e) /\ e.key # NONE
                    THEN [states EXCEPT ![e.key] = (e.type = "down")] ELSE states
       /\ polled' = IF IsKey(e) THEN {b \in Button : states'[b]} ELSE {}
       /\ \E acts \in BOOLEAN : /\ acts => polled' # {}
                                /\ size' = Pushed(size, IF acts THEN 1 ELSE 0)
       /\ pc' = "draw"

Marked(e, wrong) ==
  IF e.key \in Button THEN [misread EXCEPT ![e.key] = wrong] ELSE misread

(* Changed: the newest event is taken first. *)
LoopEvent_Newest ==
  /\ pc = "loop" /\ queue # <<>>
  /\ Handle(queue[Len(queue)])
  /\ queue' = SubSeq(queue, 1, Len(queue) - 1)
  /\ misread' = Marked(queue[Len(queue)], FALSE)
  /\ UNCHANGED <<key, flag, current>>

(* SDL_PollEvent has an event. *)
LoopEvent ==
  /\ pc = "loop" /\ queue # <<>>
  /\ Handle(Head(queue))
  /\ queue' = Tail(queue)
  /\ misread' = Marked(Head(queue), FALSE)
  /\ UNCHANGED <<key, flag, current>>

(* SDL_PollEvent has none and leaves evt as it is. *)
LoopNothing ==
  /\ pc = "loop" /\ queue = <<>>
  /\ \E e \in Event : Handle(e) /\ misread' = Marked(e, TRUE)
  /\ UNCHANGED <<keyboard, flag, current>>

(* Every call redraws the whole window, whatever its box: one is enough    *)
(* for the window to show the frame.                                       *)
update_rect_sitl(calls) == calls > 0

(* Changed: the score pushes no box. *)
Draw_NoScore(due, lock) ==
  LET boxes == Pushed(size, IF due THEN 1 ELSE 0)
      whole == flag \/ lock
  IN  /\ pc = "draw"
      /\ flag' = FALSE
      /\ size' = IF whole THEN boxes ELSE 0
      /\ current' = update_rect_sitl(IF whole THEN 1 ELSE boxes)
      /\ pc' = "loop"
      /\ UNCHANGED <<keyboard, states, polled, misread>>

(* The rest of the pass: gravity pushes a box, a lock sets the flag, a new *)
(* frame is drawn and the score pushes a box.  Then draw redraws the whole *)
(* window, once for the flag, or once for every box.                       *)
Draw(due, lock) ==
  LET boxes == Pushed(size, IF due THEN 2 ELSE 1)
      whole == flag \/ lock
  IN  /\ pc = "draw"
      /\ flag' = FALSE
      /\ size' = IF whole THEN boxes ELSE 0
      /\ current' = update_rect_sitl(IF whole THEN 1 ELSE boxes)
      /\ pc' = "loop"
      /\ UNCHANGED <<keyboard, states, polled, misread>>

(* The process has ended. *)
Exited == pc = "exit" /\ UNCHANGED vars

Main == LoopEvent \/ LoopNothing \/ \E due, lock \in BOOLEAN : Draw(due, lock)

Next ==
  \/ \E b \in Button : Press(b) \/ Release(b)
  \/ Notify
  \/ Main
  \/ Exited

Spec == Init /\ [][Next]_vars

(* main never waits for anything but its delay. *)
FairSpec == Spec /\ WF_vars(Main)

-----------------------------------------------------------------------------
(* Once every event of a key has been handled the button's state is that   *)
(* of the key, unless an uninitialised event has been taken for one of the *)
(* key's (impl_sitl.c:114); the key's next real event puts that right.     *)
StatesTrackKeys ==
  \A b \in Button :
    (~misread[b] /\ \A n \in 1 .. Len(queue) : queue[n].key # b) => states[b] = key[b]

(* Every pass leaves the window showing the frame it has drawn, although   *)
(* boxes pile up and are dropped while every pass locks a block: the       *)
(* redraw for the flag takes none from the stack (main.c:25-29).           *)
WindowCurrent == (pc = "loop" /\ ~flag) => current

(* Closing the window ends the program, however many events keep coming:   *)
(* one is handled per pass, in order (impl_sitl.c:114-120).                *)
QuitHonoured == (\E n \in 1 .. Len(queue) : queue[n].type = "quit") ~> pc = "exit"

-----------------------------------------------------------------------------
(* The inductive invariant behind StatesTrackKeys and WindowCurrent.       *)

TypeOK ==
  /\ key \in [Button -> BOOLEAN] /\ states \in [Button -> BOOLEAN]
  /\ misread \in [Button -> BOOLEAN]
  /\ queue \in Seq(Event)
  /\ size \in 0 .. STACKSIZE
  /\ pc \in {"loop", "draw", "exit"}

(* The newest event of a key that waits tells where the key is now. *)
NewestIsKey ==
  \A b \in Button, n \in 1 .. Len(queue) :
    (queue[n].key = b /\ \A m \in n + 1 .. Len(queue) : queue[m].key # b)
      => (key[b] <=> queue[n].type = "down")

IInv == TypeOK /\ NewestIsKey /\ StatesTrackKeys /\ WindowCurrent
=============================================================================
