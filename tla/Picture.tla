------------------------------ MODULE Picture -------------------------------
(***************************************************************************)
(* Which part of the panel is refreshed when the block moves: update_block *)
(* (tetris.c:102-115) against block_draw (tetris.c:23-31).                 *)
(*                                                                         *)
(* Only the block is followed.  The grid changes in no pass but one that   *)
(* locks the block, and that pass has the whole panel refreshed            *)
(* (SHIFT_CLEAR, main.c:118).  When a block is locked is left open, except *)
(* that the jump of the floor test skips vbuf_clear (main.c:95).  All      *)
(* places are cells of the grid, a cell being GRID_STEP pixels wide.       *)
(***************************************************************************)
EXTENDS Tetris

CONSTANT MAX_X   \* bound of the model: the lowest row gravity is followed to

ASSUME PictureAssumption == MAX_X \in Nat

VARIABLES
  blk,       \* block_t blk
  pc,        \* where main is: "loop", "fall" or "draw"
  boxes,     \* boxes update_block has pushed in this pass
  refresh,   \* this pass has asked for the whole panel
  cleared,   \* this pass has cleared the frame buffer
  frame,     \* the cells of the block lit in the frame buffer when the last pass ended
  ghost      \* the last pass has drawn over an older frame

vars == <<blk, pc, boxes, refresh, cleared, frame, ghost>>

(* The display: its last column of cells is missing (types.h:22). *)
Screen == Rows \X (0 .. GRID_COLS - 2)

(* The cells of the block, cut off at the edges by vbuf_draw_rect. *)
block_draw(b) ==
  {c \in Screen : \E k \in 0 .. 2 : c[1] = b.x + k /\ c[2] \in BlockRow(b, k)}

(* Changed: the box begins at the block's own column. *)
update_block_NoMargin(b) ==
  [x |-> 0, y |-> b.y, sizex |-> 8 * GRID_ROWS, sizey |-> BLOCK_HEIGHT + 4]

update_block(b) ==
  [x |-> 0, y |-> IF b.y - 2 > 0 THEN b.y - 2 ELSE 0,
   sizex |-> 8 * GRID_ROWS, sizey |-> BLOCK_HEIGHT + 4]

BoxCells(box) ==
  {c \in Screen : /\ box.x <= c[1] /\ c[1] < box.x + box.sizex
                  /\ box.y <= c[2] /\ c[2] < box.y + box.sizey}

(* Nothing is drawn yet and the whole panel is asked for (main.c:90). *)
Init ==
  /\ blk = block_gamma
  /\ pc = "loop"
  /\ boxes = {}
  /\ refresh = TRUE
  /\ cleared = FALSE
  /\ frame = {}
  /\ ghost = FALSE

(* What buttons_do_action returns: some button had an effect, if only LEFT *)
(* and RIGHT which cancel out.                                             *)
Acts(pressed) ==
  \/ buttons_do_action(blk, pressed) # blk
  \/ BUTTON_LEFT \in pressed /\ blk.y + get_bbox(blk.ori).y > 0

(* block_add and the next block; vbuf_set_flag. *)
LockBlock == blk' = block_gamma /\ refresh' = TRUE /\ pc' = "draw"

(* hw->loop and the floor test, with main's box of the north-facing block: *)
(* either the jump to the lock or vbuf_clear.                              *)
Poll(pressed) ==
  LET moved == buttons_do_action(blk, pressed)
  IN  /\ pc = "loop"
      /\ boxes' = IF Acts(pressed) THEN boxes \cup {update_block(moved)} ELSE boxes
      /\ IF moved.x + get_bbox(ORI_NORTH).x = GRID_ROWS - get_bbox(ORI_NORTH).sizex
         THEN LockBlock /\ cleared' = FALSE
         ELSE blk' = moved /\ pc' = "fall" /\ cleared' = TRUE /\ UNCHANGED refresh
      /\ UNCHANGED <<frame, ghost>>

(* Gravity, and the collision test with either result. *)
Fall(due, hit) ==
  LET moved == IF due THEN [blk EXCEPT !.x = @ + 1] ELSE blk
  IN  /\ pc = "fall"
      /\ due => blk.x < MAX_X
      /\ boxes' = IF due THEN boxes \cup {update_block(moved)} ELSE boxes
      /\ IF hit THEN LockBlock ELSE blk' = moved /\ pc' = "draw" /\ UNCHANGED refresh
      /\ UNCHANGED <<cleared, frame, ghost>>

(* The end of the pass. *)
Draw ==
  /\ pc = "draw"
  /\ frame' = block_draw(blk) \cup (IF cleared THEN {} ELSE frame)
  /\ ghost' = ~cleared
  /\ boxes' = {} /\ refresh' = FALSE /\ cleared' = FALSE
  /\ pc' = "loop"
  /\ UNCHANGED blk

Next ==
  \/ \E pressed \in SUBSET Buttons : Poll(pressed)
  \/ \E due, hit \in BOOLEAN : Fall(due, hit)
  \/ Draw

Spec == Init /\ [][Next]_vars

-----------------------------------------------------------------------------
TypeOK ==
  /\ blk \in [x : Nat, y : Cols, ori : Orientation]
  /\ pc \in {"loop", "fall", "draw"}
  /\ refresh \in BOOLEAN /\ cleared \in BOOLEAN /\ ghost \in BOOLEAN
  /\ frame \subseteq Screen

Redrawn == UNION {BoxCells(box) : box \in boxes}

(* The boxes pushed in a pass hold every cell in which its frame differs   *)
(* from the one before, wherever buttons, rotation and gravity have taken  *)
(* the block together (tetris.c:105-113), unless the pass asks for the     *)
(* whole panel.  A frame drawn over an older one, after the jump of        *)
(* main.c:95, is the exception: what it leaves behind goes away with no    *)
(* box pushed for it.                                                      *)
MovesCovered ==
  [][(pc = "draw" /\ ~refresh /\ ~ghost)
       => (frame' \ frame) \cup (frame \ frame') \subseteq Redrawn]_vars

-----------------------------------------------------------------------------
(* The inductive invariant behind MovesCovered.                            *)

YFits == blk.y \in 0 .. GRID_COLS - 3

(* A pass that goes past the floor test has cleared the frame buffer. *)
ClearsInTime == pc = "fall" \/ (pc = "draw" /\ ~refresh) => cleared

(* At every moment of a pass, not only at its end. *)
Covers ==
  (~refresh /\ ~ghost)
    => (block_draw(blk) \ frame) \cup (frame \ block_draw(blk)) \subseteq Redrawn

IInv == TypeOK /\ YFits /\ ClearsInTime /\ Covers
=============================================================================
