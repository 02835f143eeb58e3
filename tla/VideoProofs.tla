----------------------------- MODULE VideoProofs ----------------------------
(***************************************************************************)
(* Proofs about Video, for any strips, marks and boxes and any capacity of *)
(* the stack of boxes.                                                     *)
(***************************************************************************)
EXTENDS Video, TLAPS

(* The state when the threads have been created (main.c:79). *)
LEMMA InitIInv == Init => IInv
<1> SUFFICES ASSUME Init PROVE IInv
  OBVIOUS
<1>1. arr \in [0 .. STACKSIZE - 1 -> SUBSET Strips] /\ vbuf \in [Strips -> SUBSET Marks]
  BY DEF Init
<1>2. 0 \in 0 .. STACKSIZE /\ 0 \in 0 .. STACKSIZE - 1
  BY VideoAssumption
<1>3. TypeOK
  BY <1>1, <1>2, VideoAssumption, Zenon DEF Init, TypeOK
<1> QED
  BY <1>3 DEF Init, IInv, HeldInside, Exclusion, NoneAskedInFull, PopsSomething,
     WholeFrames, RefreshKept

(* A push stays inside the stack (display.c:50). *)
LEMMA PushType ==
  ASSUME TypeOK, NEW box \in SUBSET Strips, bbox_stack_push(box)
  PROVE  /\ arr' \in [0 .. STACKSIZE - 1 -> SUBSET Strips]
         /\ size' \in 0 .. STACKSIZE /\ size' >= size
BY VideoAssumption DEF TypeOK, bbox_stack_push, stack

(* A move of the block (tetris.c:102). *)
LEMMA MoveType ==
  ASSUME TypeOK, MoveBlock
  PROVE  /\ want' \in Pictures /\ moved' \in BOOLEAN
         /\ arr' \in [0 .. STACKSIZE - 1 -> SUBSET Strips]
         /\ size' \in 0 .. STACKSIZE /\ size' >= size
<1>1. PICK box \in Masks : want' \in Pictures /\ moved' = TRUE /\ bbox_stack_push(box)
  BY DEF MoveBlock
<1>2. box \in SUBSET Strips
  BY VideoAssumption
<1> QED
  BY <1>1, <1>2, PushType

(* The block is locked and a new one appears (main.c:107-117). *)
LEMMA LockBlockType ==
  ASSUME LockBlock
  PROVE  want' \in Pictures /\ moved' \in BOOLEAN
BY VideoAssumption DEF LockBlock

(* main before its loop (main.c:81-90). *)
LEMMA StartIInv ==
  ASSUME IInv, Start
  PROVE  IInv'
<1>1. TypeOK'
  BY DEF IInv, TypeOK, field, Start, stack, video, vbuf_clear
<1>2. HeldInside' /\ Exclusion' /\ WholeFrames'
  BY DEF IInv, HeldInside, Exclusion, WholeFrames, Start, video
<1>3. NoneAskedInFull' /\ RefreshKept'
  BY DEF IInv, HeldInside, Exclusion, NoneAskedInFull, RefreshKept, Start, video
<1>4. PopsSomething'
  BY DEF IInv, PopsSomething, Start, stack, video
<1> QED
  BY <1>1, <1>2, <1>3, <1>4 DEF IInv

(* hw->loop (impl_stm32.c:285). *)
LEMMA PollIInv ==
  ASSUME IInv, Poll
  PROVE  IInv'
<1>1. TypeOK'
  BY MoveType DEF IInv, TypeOK, field, Poll, stack, video
<1>2. HeldInside' /\ Exclusion' /\ WholeFrames'
  BY DEF IInv, HeldInside, Exclusion, WholeFrames, Poll, video
<1>3. NoneAskedInFull' /\ RefreshKept'
  BY DEF IInv, NoneAskedInFull, RefreshKept, Poll, video
<1>4. PopsSomething'
  BY MoveType DEF IInv, TypeOK, PopsSomething, Poll, stack, video
<1> QED
  BY <1>1, <1>2, <1>3, <1>4 DEF IInv

(* The floor test (main.c:94). *)
LEMMA FloorIInv ==
  ASSUME IInv, Floor
  PROVE  IInv'
<1>1. TypeOK'
  <2>1. want' \in Pictures /\ moved' \in BOOLEAN
    BY LockBlockType DEF IInv, TypeOK, field, Floor
  <2>2. mpc' \in {"clear", "flag"}
    BY DEF Floor, LockBlock
  <2> QED
    BY <2>1, <2>2 DEF IInv, TypeOK, Floor, stack, video
<1>2. HeldInside' /\ Exclusion' /\ WholeFrames'
  BY DEF IInv, HeldInside, Exclusion, WholeFrames, Floor, video, LockBlock
<1>3. NoneAskedInFull' /\ RefreshKept'
  BY DEF IInv, NoneAskedInFull, RefreshKept, Floor, video
<1>4. PopsSomething'
  BY DEF IInv, PopsSomething, Floor, stack, video
<1> QED
  BY <1>1, <1>2, <1>3, <1>4 DEF IInv

(* vbuf_clear (display.c:26). *)
LEMMA ClearIInv ==
  ASSUME IInv, Clear
  PROVE  IInv'
<1>1. TypeOK'
  BY Zenon DEF IInv, TypeOK, field, Clear, game, stack, video, vbuf_clear
<1>2. HeldInside' /\ Exclusion' /\ WholeFrames'
  BY DEF IInv, HeldInside, Exclusion, WholeFrames, Clear, video
<1>3. NoneAskedInFull' /\ RefreshKept'
  BY DEF IInv, NoneAskedInFull, RefreshKept, Clear, video
<1>4. PopsSomething'
  BY DEF IInv, PopsSomething, Clear, stack, video
<1> QED
  BY <1>1, <1>2, <1>3, <1>4 DEF IInv

(* Gravity (main.c:100-105). *)
LEMMA FallIInv ==
  ASSUME IInv, Fall
  PROVE  IInv'
<1>1. TypeOK'
  BY MoveType DEF IInv, TypeOK, field, Fall, game, stack, video
<1>2. HeldInside' /\ Exclusion' /\ WholeFrames'
  BY DEF IInv, HeldInside, Exclusion, WholeFrames, Fall, video
<1>3. NoneAskedInFull' /\ RefreshKept'
  BY DEF IInv, NoneAskedInFull, RefreshKept, Fall, video
<1>4. PopsSomething'
  BY MoveType DEF IInv, TypeOK, PopsSomething, Fall, stack, video
<1> QED
  BY <1>1, <1>2, <1>3, <1>4 DEF IInv

(* The collision test (main.c:106). *)
LEMMA CollideIInv ==
  ASSUME IInv, Collide
  PROVE  IInv'
<1>1. TypeOK'
  <2>1. want' \in Pictures /\ moved' \in BOOLEAN
    BY LockBlockType DEF IInv, TypeOK, field, Collide
  <2>2. mpc' \in {"flag", "draw"} /\ todo' \subseteq Strips
    BY DEF IInv, TypeOK, Collide, LockBlock
  <2> QED
    BY <2>1, <2>2 DEF IInv, TypeOK, Collide, stack, video
<1>2. HeldInside' /\ Exclusion' /\ WholeFrames'
  BY DEF IInv, HeldInside, Exclusion, WholeFrames, Collide, video, LockBlock
<1>3. NoneAskedInFull' /\ RefreshKept'
  BY DEF IInv, NoneAskedInFull, RefreshKept, Collide, video
<1>4. PopsSomething'
  BY DEF IInv, PopsSomething, Collide, stack, video
<1> QED
  BY <1>1, <1>2, <1>3, <1>4 DEF IInv

(* vbuf_set_flag (display.c:44). *)
LEMMA SetFlagIInv ==
  ASSUME IInv, vbuf_set_flag
  PROVE  IInv'
<1>1. TypeOK'
  BY DEF IInv, TypeOK, field, vbuf_set_flag, stack, video
<1>2. HeldInside' /\ Exclusion' /\ WholeFrames'
  BY DEF IInv, HeldInside, Exclusion, WholeFrames, vbuf_set_flag, video
<1>3. NoneAskedInFull' /\ RefreshKept'
  BY DEF IInv, HeldInside, NoneAskedInFull, RefreshKept, vbuf_set_flag, video
<1>4. PopsSomething'
  BY DEF IInv, PopsSomething, vbuf_set_flag, stack, video
<1> QED
  BY <1>1, <1>2, <1>3, <1>4 DEF IInv

(* A rectangle is drawn (display.c:34). *)
LEMMA DrawStripIInv ==
  ASSUME IInv, DrawStrip
  PROVE  IInv'
<1>1. TypeOK'
  <2>1. PICK s \in todo : /\ vbuf' = [vbuf EXCEPT ![s] = @ \cup want[s]]
                         /\ todo' = todo \ {s}
    BY Zenon DEF DrawStrip
  <2>2. vbuf[s] \cup want[s] \in SUBSET Marks /\ s \in Strips
    BY VideoAssumption DEF IInv, TypeOK
  <2>3. vbuf' \in [Strips -> SUBSET Marks] /\ todo' \subseteq Strips
    BY <2>1, <2>2 DEF IInv, TypeOK
  <2> QED
    BY <2>3, Zenon DEF IInv, TypeOK, field, DrawStrip, stack, video
<1>2. HeldInside' /\ Exclusion' /\ WholeFrames'
  BY DEF IInv, HeldInside, Exclusion, WholeFrames, DrawStrip, video
<1>3. NoneAskedInFull' /\ RefreshKept'
  BY DEF IInv, NoneAskedInFull, RefreshKept, DrawStrip, video
<1>4. PopsSomething'
  BY DEF IInv, PopsSomething, DrawStrip, stack, video
<1> QED
  BY <1>1, <1>2, <1>3, <1>4 DEF IInv

(* The box of the score (main.c:126). *)
LEMMA EndPassIInv ==
  ASSUME IInv, EndPass
  PROVE  IInv'
<1>1. TypeOK'
  BY PushType, VideoAssumption DEF IInv, TypeOK, field, EndPass, video
<1>2. HeldInside' /\ Exclusion' /\ WholeFrames'
  BY DEF IInv, HeldInside, Exclusion, WholeFrames, EndPass, video
<1>3. NoneAskedInFull' /\ RefreshKept'
  BY DEF IInv, NoneAskedInFull, RefreshKept, EndPass, video
<1>4. PopsSomething'
  BY PushType, VideoAssumption DEF IInv, TypeOK, PopsSomething, EndPass, video
<1> QED
  BY <1>1, <1>2, <1>3, <1>4 DEF IInv

(* main wakes up. *)
LEMMA WakeIInv ==
  ASSUME IInv, Wake
  PROVE  IInv'
<1>1. TypeOK'
  BY DEF IInv, TypeOK, field, Wake, stack, video
<1>2. HeldInside' /\ Exclusion' /\ WholeFrames'
  BY DEF IInv, HeldInside, Exclusion, WholeFrames, Wake, video
<1>3. NoneAskedInFull' /\ RefreshKept'
  BY DEF IInv, NoneAskedInFull, RefreshKept, Wake, video
<1>4. PopsSomething'
  BY DEF IInv, PopsSomething, Wake, stack, video
<1> QED
  BY <1>1, <1>2, <1>3, <1>4 DEF IInv

(* The video thread takes the mutex (main.c:46). *)
LEMMA LockIInv ==
  ASSUME IInv, Lock
  PROVE  IInv'
<1>1. TypeOK'
  BY DEF IInv, TypeOK, field, Lock, game, stack
<1>2. HeldInside' /\ Exclusion' /\ WholeFrames'
  BY DEF IInv, HeldInside, Exclusion, WholeFrames, Lock, game, VideoRuns
<1>3. NoneAskedInFull' /\ RefreshKept'
  BY DEF IInv, NoneAskedInFull, RefreshKept, Lock
<1>4. PopsSomething'
  BY DEF IInv, PopsSomething, Lock
<1> QED
  BY <1>1, <1>2, <1>3, <1>4 DEF IInv

(* draw looks at the flag (main.c:25). *)
LEMMA DrawIInv ==
  ASSUME IInv, Draw
  PROVE  IInv'
<1>1. TypeOK'
  BY Zenon DEF IInv, TypeOK, field, Draw, game, stack, video
<1>2. HeldInside' /\ Exclusion' /\ WholeFrames'
  BY DEF IInv, HeldInside, Exclusion, WholeFrames, Draw, game
<1>3. NoneAskedInFull' /\ RefreshKept'
  BY DEF IInv, NoneAskedInFull, RefreshKept, Draw
<1>4. PopsSomething'
  BY DEF IInv, PopsSomething, Draw
<1> QED
  BY <1>1, <1>2, <1>3, <1>4 DEF IInv

(* A strip goes to the panel (impl_stm32.c:148). *)
LEMMA SendStripIInv ==
  ASSUME IInv, SendStrip
  PROVE  IInv'
<1>1. TypeOK'
  BY DEF IInv, TypeOK, field, SendStrip, game, stack
<1>2. HeldInside' /\ Exclusion' /\ WholeFrames'
  BY DEF IInv, HeldInside, Exclusion, WholeFrames, SendStrip, game
<1>3. NoneAskedInFull' /\ RefreshKept'
  BY DEF IInv, NoneAskedInFull, RefreshKept, SendStrip
<1>4. PopsSomething'
  BY DEF IInv, PopsSomething, SendStrip
<1> QED
  BY <1>1, <1>2, <1>3, <1>4 DEF IInv

(* The flag is reset (main.c:27). *)
LEMMA FullDoneIInv ==
  ASSUME IInv, FullDone
  PROVE  IInv'
<1>1. TypeOK'
  BY Zenon DEF IInv, TypeOK, field, FullDone, game, stack, video
<1>2. HeldInside' /\ Exclusion' /\ WholeFrames'
  BY DEF IInv, HeldInside, Exclusion, WholeFrames, FullDone, game
<1>3. NoneAskedInFull' /\ RefreshKept'
  BY DEF IInv, NoneAskedInFull, RefreshKept, FullDone
<1>4. PopsSomething'
  BY DEF IInv, PopsSomething, FullDone
<1> QED
  BY <1>1, <1>2, <1>3, <1>4 DEF IInv

(* A box has been sent (main.c:33). *)
LEMMA RectDoneIInv ==
  ASSUME IInv, RectDone
  PROVE  IInv'
<1>1. TypeOK'
  BY DEF IInv, TypeOK, field, RectDone, game, stack
<1>2. HeldInside' /\ Exclusion' /\ WholeFrames'
  BY DEF IInv, HeldInside, Exclusion, WholeFrames, RectDone, game
<1>3. NoneAskedInFull' /\ RefreshKept'
  BY DEF IInv, NoneAskedInFull, RefreshKept, RectDone
<1>4. PopsSomething'
  BY DEF IInv, PopsSomething, RectDone
<1> QED
  BY <1>1, <1>2, <1>3, <1>4 DEF IInv

(* The test of the drain loop (main.c:30). *)
LEMMA WhileIInv ==
  ASSUME IInv, While
  PROVE  IInv'
<1>1. TypeOK'
  BY DEF IInv, TypeOK, field, While, game, stack
<1>2. HeldInside' /\ Exclusion' /\ WholeFrames'
  BY DEF IInv, HeldInside, Exclusion, WholeFrames, While, game
<1>3. NoneAskedInFull' /\ RefreshKept'
  BY DEF IInv, NoneAskedInFull, RefreshKept, While
<1>4. PopsSomething'
  BY DEF IInv, PopsSomething, While, stack
<1> QED
  BY <1>1, <1>2, <1>3, <1>4 DEF IInv

(* bbox_stack_pop loads size (display.c:60). *)
LEMMA PopLoadIInv ==
  ASSUME IInv, PopLoad
  PROVE  IInv'
<1>1. TypeOK'
  <2>1. size - 1 \in 0 .. STACKSIZE - 1
    BY VideoAssumption DEF IInv, TypeOK, PopsSomething, PopLoad
  <2> QED
    BY <2>1 DEF IInv, TypeOK, field, PopLoad, game, stack
<1>2. HeldInside' /\ Exclusion' /\ WholeFrames'
  BY DEF IInv, HeldInside, Exclusion, WholeFrames, PopLoad, game
<1>3. NoneAskedInFull' /\ RefreshKept'
  BY DEF IInv, NoneAskedInFull, RefreshKept, PopLoad
<1>4. PopsSomething'
  BY DEF IInv, PopsSomething, PopLoad
<1> QED
  BY <1>1, <1>2, <1>3, <1>4 DEF IInv

(* bbox_stack_pop stores size (display.c:60). *)
LEMMA PopStoreIInv ==
  ASSUME IInv, PopStore
  PROVE  IInv'
<1>1. TypeOK'
  <2>1. size' \in 0 .. STACKSIZE
    BY VideoAssumption DEF IInv, TypeOK, PopStore
  <2> QED
    BY <2>1, Zenon DEF IInv, TypeOK, field, PopStore, game, video
<1>2. HeldInside' /\ Exclusion' /\ WholeFrames'
  BY DEF IInv, HeldInside, Exclusion, WholeFrames, PopStore, game
<1>3. NoneAskedInFull' /\ RefreshKept'
  BY DEF IInv, NoneAskedInFull, RefreshKept, PopStore
<1>4. PopsSomething'
  BY DEF IInv, PopsSomething, PopStore
<1> QED
  BY <1>1, <1>2, <1>3, <1>4 DEF IInv

(* bbox_stack_pop reads the box (display.c:60). *)
LEMMA PopReadIInv ==
  ASSUME IInv, PopRead
  PROVE  IInv'
<1>1. TypeOK'
  <2>1. arr[reg] \subseteq Strips /\ 0 \in 0 .. STACKSIZE - 1
    BY VideoAssumption DEF IInv, TypeOK
  <2> QED
    BY <2>1 DEF IInv, TypeOK, field, PopRead, game, stack
<1>2. HeldInside' /\ Exclusion' /\ WholeFrames'
  BY DEF IInv, HeldInside, Exclusion, WholeFrames, PopRead, game
<1>3. NoneAskedInFull' /\ RefreshKept'
  BY DEF IInv, NoneAskedInFull, RefreshKept, PopRead
<1>4. PopsSomething'
  BY DEF IInv, PopsSomething, PopRead
<1> QED
  BY <1>1, <1>2, <1>3, <1>4 DEF IInv

(* The video thread lets go of the mutex (main.c:48). *)
LEMMA UnlockIInv ==
  ASSUME IInv, Unlock
  PROVE  IInv'
<1>1. TypeOK'
  BY Zenon DEF IInv, TypeOK, field, Unlock, game, stack, video
<1>2. HeldInside' /\ Exclusion' /\ WholeFrames'
  BY DEF IInv, HeldInside, Exclusion, WholeFrames, Unlock
<1>3. NoneAskedInFull' /\ RefreshKept'
  BY DEF IInv, NoneAskedInFull, RefreshKept, Unlock
<1>4. PopsSomething'
  BY DEF IInv, PopsSomething, Unlock
<1> QED
  BY <1>1, <1>2, <1>3, <1>4 DEF IInv

(* Every step preserves the invariant. *)
LEMMA NextIInv == IInv /\ [Next]_vars => IInv'
<1> SUFFICES ASSUME IInv, [Next]_vars PROVE IInv'
  OBVIOUS
<1>1. CASE Main
  BY <1>1, StartIInv, PollIInv, FloorIInv, ClearIInv, FallIInv, CollideIInv,
     SetFlagIInv, DrawStripIInv, EndPassIInv, WakeIInv DEF Main
<1>2. CASE VideoThread
  BY <1>2, LockIInv, DrawIInv, SendStripIInv, FullDoneIInv, RectDoneIInv, WhileIInv,
     PopLoadIInv, PopStoreIInv, PopReadIInv, UnlockIInv DEF VideoThread
<1>3. CASE UNCHANGED vars
  BY <1>3 DEF IInv, TypeOK, HeldInside, Exclusion, NoneAskedInFull, PopsSomething,
     WholeFrames, RefreshKept, vars, game, field, stack, video
<1> QED
  BY <1>1, <1>2, <1>3 DEF Next

(* Every reachable state of the two threads satisfies the invariant. *)
THEOREM Invariance == Spec => []IInv
BY InitIInv, NextIInv, PTL DEF Spec

-----------------------------------------------------------------------------
(* The results.                                                            *)

(* Type correctness; the indices of the unlocked stack stay in bounds      *)
(* however push and pop interleave (display.c:50-64).                      *)
THEOREM TypeCorrect == Spec => []TypeOK
<1>1. IInv => TypeOK
  BY DEF IInv
<1> QED
  BY <1>1, Invariance, PTL

(* The video thread sends whole frames only (main.c:42, display.c:34). *)
THEOREM AlwaysWholeFrames == Spec => []WholeFrames
<1>1. IInv => WholeFrames
  BY DEF IInv
<1> QED
  BY <1>1, Invariance, PTL

(* No request for a refresh is lost (main.c:27, display.c:44). *)
THEOREM AlwaysRefreshKept == Spec => []RefreshKept
<1>1. IInv => RefreshKept
  BY DEF IInv
<1> QED
  BY <1>1, Invariance, PTL

-----------------------------------------------------------------------------
(* What the threads promise and what they assume, as specifications.       *)

(* The flag is set for a request, or because the refresh is not over       *)
(* (main.c:27-29, display.c:44), and main starts without a frame.          *)
FlagInv ==
  /\ IInv
  /\ flag => asked \/ vpc = "full"
  /\ mpc = "start" => ~whole

(* The flag is set with every request and reset at the end of a refresh. *)
LEMMA FlagInvariance == Spec => []FlagInv
<1>1. Init => FlagInv
  BY InitIInv DEF Init, FlagInv
<1>2. FlagInv /\ [Next]_vars => FlagInv'
  <2> SUFFICES ASSUME FlagInv, [Next]_vars
               PROVE  /\ flag' => asked' \/ vpc' = "full"
                      /\ mpc' = "start" => ~whole'
    BY NextIInv DEF FlagInv
  <2> USE DEF FlagInv
  <2>1. CASE Main
    BY <2>1 DEF LockBlock, Main, Start, Poll, Floor, Clear, Fall, Collide, vbuf_set_flag, DrawStrip,
       EndPass, Wake, video
  <2>2. CASE VideoThread
    BY <2>2 DEF VideoThread, Lock, Draw, SendStrip, FullDone, RectDone, While, PopLoad,
       PopStore, PopRead, Unlock, game
  <2>3. CASE UNCHANGED vars
    BY <2>3 DEF vars, game, video
  <2> QED
    BY <2>1, <2>2, <2>3 DEF Next
<1> QED
  BY <1>1, <1>2, PTL DEF Spec

(* main's steps are steps of a thread that sleeps, wakes, finds the mutex  *)
(* taken, or goes on (main.c:92-143).                                      *)
LEMMA MainTurns ==
  ASSUME IInv, Main
  PROVE  [T!Next]_(T!vars)
<1> USE DEF IInv, Exclusion, T!vars, T!Next, MainIs, AtLock
<1>1. held' = held
  BY DEF Main, Start, Poll, Floor, Clear, Fall, Collide, vbuf_set_flag, DrawStrip,
       EndPass, Wake, video
<1>2. CASE Start \/ Clear \/ Fall \/ Collide \/ vbuf_set_flag \/ DrawStrip
  BY <1>1, <1>2 DEF Start, Clear, Fall, Collide, LockBlock, vbuf_set_flag, DrawStrip
<1>3. CASE Poll \/ EndPass
  BY <1>1, <1>3 DEF Poll, EndPass, T!Sleep
<1>4. CASE Floor
  BY <1>1, <1>4 DEF Floor, LockBlock, T!Wait
<1>5. CASE Wake
  BY <1>1, <1>5 DEF Wake, T!Wake
<1> QED
  BY <1>2, <1>3, <1>4, <1>5 DEF Main

(* The video thread takes the mutex while main sleeps, and gives it back   *)
(* to main if main waits for it (main.c:42-48).                            *)
LEMMA VideoTurns ==
  ASSUME IInv, VideoThread
  PROVE  [T!Next]_(T!vars)
<1> USE DEF IInv, HeldInside, T!vars, T!Next, MainIs, AtLock, VideoRuns, game
<1>1. CASE Lock
  BY <1>1 DEF Lock, T!Take
<1>2. CASE Unlock
  BY <1>2 DEF Unlock, T!Give
<1>3. ASSUME UNCHANGED <<game, held>> PROVE UNCHANGED T!vars
  BY <1>3
<1>4. CASE ~Lock /\ ~Unlock
  <2>1. UNCHANGED <<game, held>>
    BY <1>4 DEF VideoThread, Draw, SendStrip, FullDone, RectDone, While, PopLoad,
       PopStore, PopRead
  <2> QED
    BY <2>1, <1>3
<1> QED
  BY <1>1, <1>2, <1>4

(* main publishes, takes apart and repaints the frame and asks for         *)
(* refreshes, none of it in the middle of one (main.c:81-127).             *)
LEMMA MainFrames ==
  ASSUME FlagInv, IInv', Main
  PROVE  [F!Next]_(F!vars)
<1> DEFINE left == IF vpc = "full" THEN tosend ELSE {}
<1>1. /\ UNCHANGED <<screen, vpc, tosend, held>>
      /\ left' = left
  BY DEF Main, Start, Poll, Floor, Clear, Fall, Collide, vbuf_set_flag, DrawStrip,
     EndPass, Wake, video
<1>2. vbuf' \in [Strips -> SUBSET Marks]
  BY DEF IInv, TypeOK
<1>3. ~held => left = {}
  BY DEF FlagInv, IInv, HeldInside
<1> HIDE DEF left
<1>4. CASE Start
  BY <1>1, <1>2, <1>4 DEF FlagInv, Start, F!Publish, F!Next, left
<1>5. CASE Clear \/ DrawStrip
  BY <1>1, <1>2, <1>3, <1>5 DEF Clear, DrawStrip, F!Paint, F!Next, left
<1>6. CASE vbuf_set_flag
  BY <1>1, <1>3, <1>6 DEF vbuf_set_flag, F!Request, F!Next, left
<1>7. CASE EndPass
  BY <1>1, <1>2, <1>7 DEF EndPass, F!Publish, F!Next, F!vars, left
<1>8. CASE Poll \/ Floor \/ Fall \/ Collide \/ Wake
  BY <1>1, <1>8 DEF Poll, Floor, Fall, Collide, Wake, F!vars, left
<1> QED
  BY <1>4, <1>5, <1>6, <1>7, <1>8 DEF Main

(* The video thread begins a refresh when one is due and shows strips of   *)
(* the frame that is ready (main.c:24-38).                                 *)
LEMMA VideoFrames ==
  ASSUME FlagInv, VideoThread
  PROVE  [F!Next]_(F!vars)
<1> USE DEF FlagInv, IInv
<1>1. UNCHANGED <<vbuf, whole>>
  BY DEF VideoThread, Lock, Draw, SendStrip, FullDone, RectDone, While, PopLoad,
     PopStore, PopRead, Unlock
<1>2. vpc # "sleep" => whole
  BY DEF HeldInside, WholeFrames
<1>3. CASE Draw
  <2>1. CASE flag
    BY <1>1, <1>2, <1>3, <2>1 DEF Draw, F!Refresh, F!Next
  <2>2. CASE ~flag
    BY <1>1, <1>3, <2>2 DEF Draw, F!vars
  <2> QED
    BY <2>1, <2>2
<1>4. CASE SendStrip
  <2>1. PICK s \in tosend : /\ screen' = [screen EXCEPT ![s] = vbuf[s]]
                            /\ tosend' = tosend \ {s}
    BY <1>4 DEF SendStrip
  <2>2. s \in Strips /\ {} \ {s} = {}
    BY DEF TypeOK
  <2>3. F!Show(s)
    BY <1>1, <1>2, <1>4, <2>1, <2>2 DEF SendStrip, F!Show
  <2> QED
    BY <2>2, <2>3 DEF F!Next
<1>5. CASE FullDone \/ Lock \/ RectDone \/ While \/ PopLoad \/ PopStore \/ PopRead \/ Unlock
  BY <1>1, <1>5 DEF FullDone, Lock, RectDone, While, PopLoad, PopStore, PopRead, Unlock,
     F!vars
<1> QED
  BY <1>3, <1>4, <1>5 DEF VideoThread

(* Main and video thread implement the turns that the scheduler gives them *)
(* (main.c:24-143).                                                        *)
THEOREM ImplementsTurns == Spec => TakesTurns
<1>1. Init => T!Init
  BY DEF Init, T!Init, MainIs, AtLock
<1>2. IInv /\ [Next]_vars => [T!Next]_(T!vars)
  <2>1. UNCHANGED vars => UNCHANGED T!vars
    BY DEF vars, game, video, T!vars, MainIs, AtLock
  <2> QED
    BY <2>1, MainTurns, VideoTurns DEF Next
<1> QED
  BY <1>1, <1>2, Invariance, PTL DEF Spec, TakesTurns, T!Spec

(* The picture reaches the panel as whole frames, for any strips, marks    *)
(* and boxes (main.c:24-38, display.c:34-64).                              *)
THEOREM ImplementsFrames == Spec => ShowsFrames
<1>1. Init => F!Init
  BY DEF Init, F!Init
<1>2. FlagInv /\ FlagInv' /\ [Next]_vars => [F!Next]_(F!vars)
  <2>1. UNCHANGED vars => UNCHANGED F!vars
    BY DEF vars, video, F!vars
  <2> QED
    BY <2>1, MainFrames, VideoFrames DEF Next, FlagInv
<1> QED
  BY <1>1, <1>2, FlagInvariance, PTL DEF Spec, ShowsFrames, F!Spec
=============================================================================
