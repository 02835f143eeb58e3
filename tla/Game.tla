-------------------------------- MODULE Game --------------------------------
(***************************************************************************)
(* The main loop of main.c: poll the buttons, let the block fall, lock it  *)
(* into the grid and clear full rows.  What is drawn is left to Video.     *)
(*                                                                         *)
(* One pass of the while loop visits the control points                    *)
(*   loop   hw->loop and the floor test that may jump to "collision"       *)
(*   fall   the gravity step, if one is due, and block_collides            *)
(*   lock   block_add and the next block (the label "collision")           *)
(*   clear  one iteration of the for loop that removes full rows           *)
(*   draw   the frame is drawn and the thread sleeps                       *)
(* A lock that writes past the grid has overwritten unknown memory; the C  *)
(* standard says nothing about what follows and the model stops there, at  *)
(* the control point "undefined".                                          *)
(***************************************************************************)
EXTENDS Tetris

CONSTANTS
  MAX_X,      \* bound of the model: the lowest row gravity is followed to
  MAX_SCORE   \* bound of the model: the score at which a behaviour stops

ASSUME BoundAssumption == MAX_X \in Nat /\ MAX_SCORE \in Nat

VARIABLES
  grid,    \* static grid_t grid
  blk,     \* block_t blk: row x, column y, orientation ori
  bbox,    \* bbox_t bbox, a local of main
  score,   \* int score
  pc,      \* where the main thread is
  i        \* the row the for loop looks at, -1 outside the loop

vars == <<grid, blk, bbox, score, pc, i>>

Init ==
  /\ grid = grid_clear
  /\ blk = block_gamma
  /\ bbox = get_bbox(block_gamma.ori)
  /\ score = 0
  /\ pc = "loop"
  /\ i = -1

(* Changed: main has no floor test. *)
Poll_NoFloor(pressed) ==
  /\ pc = "loop"
  /\ blk' = buttons_do_action(blk, pressed)
  /\ pc' = "fall"
  /\ UNCHANGED <<grid, bbox, score, i>>

(* Changed: UP lifts the block by a row. *)
Poll_UpLifts(pressed) ==
  /\ pc = "loop"
  /\ LET b == buttons_do_action(blk, pressed)
     IN  blk' = IF BUTTON_UP \in pressed /\ b.x > 0 THEN [b EXCEPT !.x = @ - 1] ELSE b
  /\ pc' = IF blk'.x + bbox.x = GRID_ROWS - bbox.sizex THEN "lock" ELSE "fall"
  /\ UNCHANGED <<grid, bbox, score, i>>

(* hw->loop with the buttons in pressed held down, then the floor test.    *)
(* bbox is the box of the orientation the block was created with: a        *)
(* rotation does not refresh it.                                           *)
Poll(pressed) ==
  /\ pc = "loop"
  /\ blk' = buttons_do_action(blk, pressed)
  /\ pc' = IF blk'.x + bbox.x = GRID_ROWS - bbox.sizex THEN "lock" ELSE "fall"
  /\ UNCHANGED <<grid, bbox, score, i>>

(* Changed: the collision test is made only after a gravity step. *)
Fall_TestsWhenDue(due) ==
  /\ pc = "fall"
  /\ due => blk.x < MAX_X
  /\ blk' = IF due THEN [blk EXCEPT !.x = @ + 1] ELSE blk
  /\ \E hit \in block_collides(blk', grid) :
       pc' = IF due /\ hit THEN "lock" ELSE "draw"
  /\ UNCHANGED <<grid, bbox, score, i>>

(* The gravity step, if due (t_now - t_last >= 1000), and the collision    *)
(* test, which is made whether or not the block moved.                     *)
Fall(due) ==
  /\ pc = "fall"
  /\ due => blk.x < MAX_X
  /\ blk' = IF due THEN [blk EXCEPT !.x = @ + 1] ELSE blk
  /\ \E hit \in block_collides(blk', grid) : pc' = IF hit THEN "lock" ELSE "draw"
  /\ UNCHANGED <<grid, bbox, score, i>>

(* Changed: the scan for full rows starts one row too high. *)
Lock_SkipsBottom ==
  /\ pc = "lock"
  /\ grid' = block_add(blk, grid)
  /\ blk' = block_gamma
  /\ bbox' = get_bbox(block_gamma.ori)
  /\ i' = GRID_ROWS - 2
  /\ pc' = IF WritesPastGrid(blk) THEN "undefined" ELSE "clear"
  /\ UNCHANGED score

Lock ==
  /\ pc = "lock"
  /\ grid' = block_add(blk, grid)
  /\ blk' = block_gamma
  /\ bbox' = get_bbox(block_gamma.ori)
  /\ i' = GRID_ROWS - 1
  /\ pc' = IF WritesPastGrid(blk) THEN "undefined" ELSE "clear"
  /\ UNCHANGED score

(* One iteration of the for loop.  The row is not looked at again after    *)
(* grid_shift has put another one in its place.                            *)
ClearRow ==
  /\ pc = "clear"
  /\ IF grid_check(grid, i)
     THEN /\ score < MAX_SCORE
          /\ score' = score + 1
          /\ grid' = grid_shift(grid, i)
     ELSE UNCHANGED <<grid, score>>
  /\ i' = i - 1
  /\ pc' = IF i = 0 THEN "draw" ELSE "clear"
  /\ UNCHANGED <<blk, bbox>>

Draw ==
  /\ pc = "draw"
  /\ pc' = "loop"
  /\ UNCHANGED <<grid, blk, bbox, score, i>>

(* The end of a modelled behaviour: undefined memory, or the score bound.  *)
Stopped ==
  \/ pc = "undefined"
  \/ pc = "clear" /\ grid_check(grid, i) /\ score = MAX_SCORE

Stop == Stopped /\ UNCHANGED vars

Next ==
  \/ \E pressed \in SUBSET Buttons : Poll(pressed)
  \/ \E due \in BOOLEAN : Fall(due)
  \/ Lock
  \/ ClearRow
  \/ Draw
  \/ Stop

Spec == Init /\ [][Next]_vars

(* The main thread never stops, and as every pass sleeps for 10 ms the     *)
(* clock passes 1000 ms again and again: a gravity step is due infinitely  *)
(* often.  Nothing is assumed of the player.                               *)
FairSpec == Spec /\ WF_vars(Next) /\ SF_vars(Fall(TRUE))

-----------------------------------------------------------------------------
Box == [x : 0 .. 2, y : 0 .. 2, sizex : 1 .. 3, sizey : 1 .. 3]

TypeOK ==
  /\ grid \in [Rows -> SUBSET Cols]
  /\ blk \in [x : Nat, y : Cols, ori : Orientation]
  /\ bbox \in Box
  /\ score \in Nat
  /\ pc \in {"loop", "fall", "lock", "clear", "draw", "undefined"}
  /\ i \in -1 .. GRID_ROWS - 1
  /\ pc = "clear" => i >= 0

(* Wherever the buttons and rotations take the block, each of its cells is *)
(* a bit of the row: block_cur << blk->y never leaves the row's width      *)
(* (tetris.c:44 and 53), although rotating checks no boundary.             *)
ColumnsFit == \A k \in 0 .. 2 : BlockRow(blk, k) \subseteq Cols

IsStacked(g) ==
  \A r, s \in 0 .. GRID_ROWS - 2 : (r < s /\ g[r] # {}) => g[s] # {}

(* No locked row hangs over an empty one.  grid_shift stops at the first   *)
(* empty row (tetris.c:68), so rows above a gap would never come down.     *)
(* The bottom row is the exception: a block that lands facing west stops   *)
(* one row above it, because main keeps the box of the north-facing block. *)
Stacked == IsStacked(grid)

(* When a full row is taken out, grid_shift does what removing a row       *)
(* means, in spite of its early stop and of never writing row 0            *)
(* (tetris.c:67-71), provided the top row is empty.                        *)
ShiftIsRemoval ==
  (pc = "clear" /\ grid_check(grid, i) /\ grid[0] = {})
     => grid_shift(grid, i) = RemoveRow(grid, i)

(* A block locks the moment it touches, moved by gravity or by the player: *)
(* between two passes only a block that has just been created can have a   *)
(* locked cell directly beneath it (main.c:106).                           *)
LocksOnContact ==
  (pc \in {"draw", "loop"} /\ blk # block_gamma) => ~Touches(blk, grid)

Escaped == blk.x > FLOOR

(* The floor test of main.c:94 compares with the box of the north-facing   *)
(* block.  A block gets past it in one way only: it already stands on the  *)
(* floor row, faces west (whose own box is one row shorter), and DOWN is   *)
(* polled before the floor test is made.                                   *)
EscapesOnlyFacingWest ==
  [][~Escaped /\ Escaped' => pc = "loop" /\ blk.ori = ORI_WEST /\ blk.x = FLOOR]_vars

(* The player cannot hold a block in the air: whatever the buttons do, it  *)
(* ends up locked, unless it went through the floor (main.c:91-121).       *)
BlocksLand == pc = "loop" ~> (pc = "lock" \/ Escaped \/ Stopped)

(* The scan does not look again at a row it has just refilled              *)
(* (main.c:112-117), so a full row may survive a pass; it is found by a    *)
(* later one and scored.                                                   *)
FullRowsGo ==
  \A n \in 0 .. MAX_SCORE - 1 :
    (pc = "loop" /\ score = n /\ \E r \in Rows : grid_check(grid, r))
       ~> (score > n \/ Escaped \/ pc = "undefined")

-----------------------------------------------------------------------------
(* The inductive invariant behind the safety properties.                   *)

YFits == blk.y \in 0 .. GRID_COLS - 3

(* bbox never follows a rotation. *)
NorthBox == bbox = get_bbox(ORI_NORTH)

FloorTested == pc = "fall" => blk.x # FLOOR

(* Why a block is about to be locked. *)
LockReason ==
  pc = "lock" => (blk.x = FLOOR \/ Touches(blk, grid) \/ ReadsPastGrid(blk))

FreshBlock == pc = "clear" => blk = block_gamma

IInv ==
  /\ TypeOK
  /\ YFits
  /\ NorthBox
  /\ FloorTested
  /\ LockReason
  /\ FreshBlock
  /\ Stacked
  /\ LocksOnContact
=============================================================================
