------------------------------- MODULE Video --------------------------------
(***************************************************************************)
(* How the picture gets from main to the panel in the STM32 build: the     *)
(* frame buffer vbuf with its mutex, its clear_flag and its stack of boxes *)
(* to refresh (display.c), main as the writer and thd_video as the reader  *)
(* (main.c:24-143).                                                        *)
(*                                                                         *)
(* The picture is cut into strips, each of which holds a set of marks,     *)
(* none when blank; drawing over something adds to its marks.  A box is a  *)
(* set of strips.                                                          *)
(*                                                                         *)
(* main runs at NORMALPRIO and thd_video at LOWPRIO with no time slices    *)
(* (chconf.h:128): the video thread takes a step only while main sleeps or *)
(* waits for the mutex, and may be preempted between any two of its steps. *)
(* As main never sleeps with the mutex, only the video thread is ever seen *)
(* to hold it.                                                             *)
(***************************************************************************)
EXTENDS Naturals

CONSTANTS
  Strips,         \* strips of the picture
  Marks,          \* what can be drawn in a strip
  Pictures,       \* what block, grid and score can look like
  NewPictures,    \* those of them in which the block has just appeared
  FirstPicture,   \* the one that has an empty grid
  Masks,          \* the boxes update_block can ask for
  SCORE_BOX,      \* the box of the score
  STACKSIZE       \* capacity of the stack (16 in the source)

ASSUME VideoAssumption ==
  /\ Pictures \subseteq [Strips -> SUBSET Marks] 
  /\ NewPictures \subseteq Pictures /\ FirstPicture \in NewPictures
  /\ Masks \subseteq SUBSET Strips /\ SCORE_BOX \subseteq Strips
  /\ STACKSIZE \in Nat \ {0}

VARIABLES
  want,     \* the picture the state of the game stands for
  moved,    \* the block has moved since it appeared
  vbuf,     \* vbuf.buf
  arr,      \* vbuf.upd_stack.arr
  size,     \* vbuf.upd_stack.size
  flag,     \* vbuf.clear_flag
  held,     \* the video thread holds vbuf.mtx
  mpc,      \* where main is
  todo,     \* strips main has still to draw
  vpc,      \* where the video thread is
  reg,      \* the video thread's copy of size inside bbox_stack_pop
  tosend,   \* strips the video thread has still to send
  screen,   \* what the panel shows
  asked,    \* history: a refresh has been asked for and none has begun since
  whole     \* history: vbuf holds a whole frame, or is still blank

field == <<want, moved>>
game == <<field, mpc, todo>>
stack == <<arr, size>>
video == <<vpc, reg, tosend, held, screen>>
vars == <<game, vbuf, stack, flag, video, asked, whole>>

(* The threads have just been created (main.c:79).  vbuf_init has set      *)
(* every pixel and the panel's memory holds anything.                      *)
Init ==
  /\ want = FirstPicture /\ moved = FALSE
  /\ vbuf = [s \in Strips |-> Marks]
  /\ arr = [k \in 0 .. STACKSIZE - 1 |-> {}]
  /\ size = 0
  /\ flag = FALSE /\ held = FALSE
  /\ mpc = "start" /\ todo = {}
  /\ vpc = "sleep" /\ reg = 0 /\ tosend = {}
  /\ screen \in [Strips -> SUBSET Marks]
  /\ asked = FALSE
  /\ whole = FALSE

-----------------------------------------------------------------------------
(* main.                                                                   *)

(* Changed: the capacity is not looked at. *)
bbox_stack_push_Unbounded(box) ==
  arr' = [arr EXCEPT ![size] = box] /\ size' = size + 1

bbox_stack_push(box) ==
  IF size < STACKSIZE
  THEN arr' = [arr EXCEPT ![size] = box] /\ size' = size + 1
  ELSE UNCHANGED stack

(* The block moves; update_block pushes a box that holds its old and its   *)
(* new place.                                                              *)
MoveBlock ==
  \E box \in Masks :
    /\ want' \in {p \in Pictures : \A s \in Strips \ box : p[s] = want[s]}
    /\ moved' = TRUE
    /\ bbox_stack_push(box)

vbuf_clear == vbuf' = [s \in Strips |-> {}]

(* Changed: no refresh is asked for before the loop. *)
Start_NoFlag ==
  /\ mpc = "start"
  /\ vbuf_clear
  /\ whole' = TRUE
  /\ mpc' = "loop"
  /\ UNCHANGED <<field, todo, stack, flag, video, asked>>

Start ==
  /\ mpc = "start"
  /\ vbuf_clear
  /\ flag' = TRUE /\ asked' = TRUE
  /\ whole' = TRUE
  /\ mpc' = "loop"
  /\ UNCHANGED <<field, todo, stack, video>>

(* loop_stm32: no effective button, or a move and a sleep of 150 ms.       *)
Poll ==
  /\ mpc = "loop"
  /\ \/ mpc' = "floor" /\ UNCHANGED <<field, stack>>
     \/ mpc' = "nap" /\ MoveBlock
  /\ UNCHANGED <<todo, vbuf, flag, video, asked, whole>>

(* The block is locked, rows are shifted, a block appears at the top.      *)
LockBlock == want' \in NewPictures /\ moved' = FALSE /\ mpc' = "flag"

(* The floor test: to the label collision, past vbuf_clear, or on.  A      *)
(* block that has not moved is at the top.                                 *)
Floor ==
  /\ mpc = "floor"
  /\ \/ moved /\ LockBlock
     \/ mpc' = "clear" /\ UNCHANGED field
  /\ UNCHANGED <<todo, vbuf, stack, flag, video, asked, whole>>

Clear ==
  /\ mpc = "clear" /\ ~held
  /\ vbuf_clear
  /\ whole' = FALSE
  /\ mpc' = "fall"
  /\ UNCHANGED <<field, todo, stack, flag, video, asked>>

Fall ==
  /\ mpc = "fall"
  /\ mpc' = "collide"
  /\ MoveBlock \/ UNCHANGED <<field, stack>>
  /\ UNCHANGED <<todo, vbuf, flag, video, asked, whole>>

Collide ==
  /\ mpc = "collide"
  /\ \/ LockBlock /\ UNCHANGED todo
     \/ mpc' = "draw" /\ todo' = Strips /\ UNCHANGED field
  /\ UNCHANGED <<vbuf, stack, flag, video, asked, whole>>

(* Changed: the flag is set without the mutex. *)
vbuf_set_flag_NoLock ==
  /\ mpc = "flag"
  /\ flag' = TRUE /\ asked' = TRUE
  /\ mpc' = "draw" /\ todo' = Strips
  /\ UNCHANGED <<field, vbuf, stack, video, whole>>

vbuf_set_flag ==
  /\ mpc = "flag" /\ ~held
  /\ flag' = TRUE /\ asked' = TRUE
  /\ mpc' = "draw" /\ todo' = Strips
  /\ UNCHANGED <<field, vbuf, stack, video, whole>>

(* block_draw, grid_draw and text_draw_number take the mutex once for      *)
(* every rectangle.                                                        *)
DrawStrip ==
  /\ mpc = "draw" /\ ~held
  /\ \E s \in todo : /\ vbuf' = [vbuf EXCEPT ![s] = @ \cup want[s]]
                     /\ todo' = todo \ {s}
  /\ whole' = FALSE
  /\ UNCHANGED <<field, mpc, stack, flag, video, asked>>

(* Changed: the box of the score is not pushed. *)
EndPass_NoScore ==
  /\ mpc = "draw" /\ todo = {}
  /\ whole' = TRUE
  /\ mpc' = "sleep"
  /\ UNCHANGED <<field, todo, vbuf, stack, flag, video, asked>>

(* The box of the score is pushed and main sleeps for 10 ms.               *)
EndPass ==
  /\ mpc = "draw" /\ todo = {}
  /\ bbox_stack_push(SCORE_BOX)
  /\ whole' = TRUE
  /\ mpc' = "sleep"
  /\ UNCHANGED <<field, todo, vbuf, flag, video, asked>>

Wake ==
  /\ mpc \in {"nap", "sleep"}
  /\ mpc' = IF mpc = "nap" THEN "floor" ELSE "loop"
  /\ UNCHANGED <<field, todo, vbuf, stack, flag, video, asked, whole>>

Main == \/ Start \/ Poll \/ Floor \/ Clear \/ Fall \/ Collide
        \/ vbuf_set_flag \/ DrawStrip \/ EndPass \/ Wake

-----------------------------------------------------------------------------
(* The scheduler and thd_video.                                            *)

AtLock == mpc \in {"clear", "flag"} \/ (mpc = "draw" /\ todo # {})

(* Changed: with time slices, or a priority above main's, the video thread *)
(* runs at any time.                                                       *)
VideoRuns_TimeSlices == TRUE

(* main sleeps, or waits for the mutex. *)
VideoRuns == mpc \in {"nap", "sleep"} \/ (held /\ AtLock)

Lock ==
  /\ vpc = "sleep" /\ VideoRuns
  /\ held' = TRUE
  /\ vpc' = "draw"
  /\ UNCHANGED <<game, vbuf, stack, flag, reg, tosend, screen, asked, whole>>

(* draw: the whole screen if the flag is set, else box after box. *)
Draw ==
  /\ vpc = "draw" /\ VideoRuns
  /\ IF flag
     THEN vpc' = "full" /\ tosend' = Strips /\ asked' = FALSE
     ELSE vpc' = "while" /\ UNCHANGED <<tosend, asked>>
  /\ UNCHANGED <<game, vbuf, stack, flag, reg, held, screen, whole>>

SendStrip ==
  /\ vpc \in {"full", "rect"} /\ VideoRuns
  /\ \E s \in tosend : /\ screen' = [screen EXCEPT ![s] = vbuf[s]]
                       /\ tosend' = tosend \ {s}
  /\ UNCHANGED <<game, vbuf, stack, flag, vpc, reg, held, asked, whole>>

(* display_update has returned: the flag is reset and draw returns. *)
FullDone ==
  /\ vpc = "full" /\ tosend = {} /\ VideoRuns
  /\ flag' = FALSE
  /\ vpc' = "unlock"
  /\ UNCHANGED <<game, vbuf, stack, reg, tosend, held, screen, asked, whole>>

RectDone ==
  /\ vpc = "rect" /\ tosend = {} /\ VideoRuns
  /\ vpc' = "while"
  /\ UNCHANGED <<game, vbuf, stack, flag, reg, tosend, held, screen, asked, whole>>

While ==
  /\ vpc = "while" /\ VideoRuns
  /\ vpc' = IF size > 0 THEN "pop" ELSE "unlock"
  /\ UNCHANGED <<game, vbuf, stack, flag, reg, tosend, held, screen, asked, whole>>

(* bbox_stack_pop takes no lock against bbox_stack_push: size is loaded,   *)
(* its new value is stored, the box is read.                               *)
PopLoad ==
  /\ vpc = "pop" /\ VideoRuns
  /\ reg' = size - 1
  /\ vpc' = "store"
  /\ UNCHANGED <<game, vbuf, stack, flag, tosend, held, screen, asked, whole>>

(* Changed: the box is read but stays on the stack. *)
PopStore_Peeks ==
  /\ vpc = "store" /\ VideoRuns
  /\ vpc' = "read"
  /\ UNCHANGED <<game, vbuf, stack, flag, reg, tosend, held, screen, asked, whole>>

PopStore ==
  /\ vpc = "store" /\ VideoRuns
  /\ size' = reg
  /\ vpc' = "read"
  /\ UNCHANGED <<game, vbuf, arr, flag, reg, tosend, held, screen, asked, whole>>

PopRead ==
  /\ vpc = "read" /\ VideoRuns
  /\ tosend' = arr[reg]
  /\ reg' = 0
  /\ vpc' = "rect"
  /\ UNCHANGED <<game, vbuf, stack, flag, held, screen, asked, whole>>

(* The thread unlocks the mutex and sleeps for 1 ms. *)
Unlock ==
  /\ vpc = "unlock" /\ VideoRuns
  /\ held' = FALSE
  /\ vpc' = "sleep"
  /\ UNCHANGED <<game, vbuf, stack, flag, reg, tosend, screen, asked, whole>>

VideoThread == \/ Lock \/ Draw \/ SendStrip \/ FullDone \/ RectDone \/ While
               \/ PopLoad \/ PopStore \/ PopRead \/ Unlock

Next == Main \/ VideoThread

Spec == Init /\ [][Next]_vars

(* main wakes from its sleeps and runs when it can.  The video thread runs *)
(* only while main sleeps or waits, which is again and again: each pass of *)
(* main ends in a sleep.                                                   *)
FairSpec == Spec /\ WF_vars(Main) /\ SF_vars(VideoThread)

-----------------------------------------------------------------------------
TypeOK ==
  /\ want \in Pictures /\ moved \in BOOLEAN
  /\ vbuf \in [Strips -> SUBSET Marks] /\ screen \in [Strips -> SUBSET Marks]
  /\ arr \in [0 .. STACKSIZE - 1 -> SUBSET Strips] /\ size \in 0 .. STACKSIZE
  /\ flag \in BOOLEAN /\ held \in BOOLEAN /\ asked \in BOOLEAN /\ whole \in BOOLEAN
  /\ mpc \in {"start", "loop", "nap", "floor", "clear", "fall", "collide", "flag",
              "draw", "sleep"}
  /\ vpc \in {"sleep", "draw", "full", "rect", "while", "pop", "store", "read", "unlock"}
  /\ todo \subseteq Strips /\ tosend \subseteq Strips
  /\ reg \in 0 .. STACKSIZE - 1

(* Whatever the video thread sends comes from one whole frame.  main lets  *)
(* go of the mutex after every rectangle (display.c:34), so it is not the  *)
(* mutex alone that guarantees it: the thread that has to wait for it in   *)
(* the middle of a frame would be main, never the video thread.            *)
WholeFrames == held => whole

(* A refresh asked for is not forgotten: until one begins, the flag is     *)
(* set, also when main asks while the thread is about to reset it          *)
(* (main.c:27, display.c:44).                                              *)
RefreshKept == asked => flag

(* The video thread gives the mutex back although main may push boxes      *)
(* while the thread drains the stack (main.c:30-34).                       *)
MutexReturned == held ~> ~held

(* The whole screen is drawn, and again after every request (main.c:89).   *)
RefreshHappens == (mpc = "start" ~> (vpc = "full" /\ tosend = {})) /\ (asked ~> ~asked)

(* The score a pass has drawn reaches the panel (main.c:125-127), unless   *)
(* the game replaces it first or the player moves the block.  A move is an *)
(* exception because its box is pushed by loop_stm32, which may have       *)
(* preempted a pop and then overwrites the box being popped.               *)
ScoreShown ==
  \A s \in SCORE_BOX, p \in Pictures :
    (mpc = "sleep" /\ want[s] = p[s])
       ~> (screen[s] = p[s] \/ want[s] # p[s] \/ mpc \in {"flag", "nap"})

(* The option SHIFT_CLEAR promises to "clear screen when shifting grid":   *)
(* the refresh it asks for shows the shifted grid and nothing else, unless *)
(* the game has gone on in the meantime.                                   *)
ShiftClears ==
  (vpc = "full" /\ tosend = {} /\ mpc = "sleep") => screen = want

-----------------------------------------------------------------------------
(* What the two threads assume of each other's turns, which Board shows    *)
(* the kernel to provide, and what they promise the panel.                 *)

MainIs == IF mpc \in {"nap", "sleep"} THEN "sleeps"
          ELSE IF held /\ AtLock THEN "waits" ELSE "runs"

T == INSTANCE Turns WITH main <- MainIs

F == INSTANCE Frames WITH Shades <- SUBSET Marks, frame <- vbuf, ready <- whole,
       due <- asked, left <- IF vpc = "full" THEN tosend ELSE {}

(* main and the video thread take turns at vbuf as the kernel's scheduler  *)
(* and mutex make them (main.c:24-38, display.c:34).                       *)
TakesTurns == T!Spec

(* The panel is only ever sent strips of whole frames, and a refresh asked *)
(* for with clear_flag sends all of one frame (main.c:24-29).              *)
ShowsFrames == F!Spec

-----------------------------------------------------------------------------
(* The inductive invariant behind WholeFrames and RefreshKept.             *)

(* The mutex is held exactly while the thread is in its locked section. *)
HeldInside == held <=> vpc # "sleep"

(* main has nothing half drawn where the video thread can take or have the *)
(* mutex.                                                                  *)
Exclusion ==
  /\ held => mpc \in {"loop", "nap", "floor", "clear", "flag", "sleep"}
  /\ mpc \in {"loop", "nap", "floor", "clear", "sleep"} => whole

NoneAskedInFull == vpc = "full" => ~asked

PopsSomething == vpc = "pop" => size > 0

IInv == /\ TypeOK /\ HeldInside /\ Exclusion /\ NoneAskedInFull /\ PopsSomething
        /\ WholeFrames /\ RefreshKept
=============================================================================
