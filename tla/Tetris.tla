------------------------------- MODULE Tetris -------------------------------
(***************************************************************************)
(* The playing field and the falling block of tetris.c, as operators.      *)
(*                                                                         *)
(* The source calls the vertical coordinate x (a grid row, growing         *)
(* downwards) and the horizontal one y (a bit of that row); both names are *)
(* kept.  A grid row is a bit mask in the source and the set of its one    *)
(* bits here, so "mask << y" adds y to every member, "|" is union and a    *)
(* non-zero "&" is a non-empty intersection.                               *)
(***************************************************************************)
EXTENDS Integers, FiniteSetsExt

CONSTANTS
  GRID_ROWS,   \* rows of the grid (30 in the source)
  GRID_COLS    \* bits of a row (31 in the source; only GRID_COLS - 1 are seen)

BLOCK_HEIGHT == 3

(* A block has to fit into the grid, in every orientation. *)
ASSUME GridAssumption ==
  /\ GRID_ROWS \in Nat /\ GRID_ROWS >= BLOCK_HEIGHT
  /\ GRID_COLS \in Nat /\ GRID_COLS >= BLOCK_HEIGHT

Rows == 0 .. GRID_ROWS - 1
Cols == 0 .. GRID_COLS - 1

ORI_NORTH == 0
ORI_EAST  == 1
ORI_SOUTH == 2
ORI_WEST  == 3
Orientation == 0 .. 3

(* The one block of the game.  Bit 0 of a pattern is the leftmost column. *)
patterns_gamma ==
  << << {0, 1}, {0},       {0}    >>,
     << {},     {0, 1, 2}, {0}    >>,
     << {0},    {0},       {0, 1} >>,
     << {2},    {0, 1, 2}, {}     >> >>

PatternRow(ori, i) == patterns_gamma[ori + 1][i + 1]

(* The row on which a block of full height stands on the floor. *)
FLOOR == GRID_ROWS - BLOCK_HEIGHT

block_gamma == [x |-> 0, y |-> 0, ori |-> ORI_NORTH]

(* Row i of the block's mask, shifted to its column: block_cur << blk->y.  *)
BlockRow(blk, i) == {j + blk.y : j \in PatternRow(blk.ori, i)}

block_rotr(ori) == (ori + 1) % 4

(* ori is an unsigned enum, so 0 - 1 wraps at 2^32; as 4 divides 2^32 the  *)
(* remainder is that of the integer -1.  No caller in the program.         *)
block_rotl(ori) == (ori - 1) % 4

(* The bounding box of a pattern: its first row and column, and its size.  *)
get_bbox(ori) ==
  LET rows == {i \in 0 .. 2 : PatternRow(ori, i) # {}}
      cols == UNION {PatternRow(ori, i) : i \in 0 .. 2}
  IN  [x |-> Min(rows), y |-> Min(cols),
       sizex |-> Max(rows) - Min(rows) + 1,
       sizey |-> Max(cols) - Min(cols) + 1]

-----------------------------------------------------------------------------
(* The buttons (buttons.h).                                                *)

BUTTON_LEFT  == 0
BUTTON_UP    == 1
BUTTON_DOWN  == 2
BUTTON_RIGHT == 3
BUTTON_ENTER == 4
Buttons      == 0 .. 4

(* Changed: RIGHT lets the block's box end in the invisible column. *)
buttons_do_action_RightTooFar(blk, pressed) ==
  LET bbox == get_bbox(blk.ori)
      yl == IF BUTTON_LEFT \in pressed /\ blk.y + bbox.y > 0
            THEN blk.y - 1 ELSE blk.y
      yr == IF BUTTON_RIGHT \in pressed /\ yl + bbox.y < GRID_COLS - bbox.sizey
            THEN yl + 1 ELSE yl
      xd == IF BUTTON_DOWN \in pressed /\ blk.x + bbox.x < GRID_ROWS - bbox.sizex
            THEN blk.x + 1 ELSE blk.x
      or == IF BUTTON_ENTER \in pressed THEN block_rotr(blk.ori) ELSE blk.ori
  IN  [x |-> xd, y |-> yr, ori |-> or]

(* buttons_do_action: the block after one poll of the buttons.  The three  *)
(* moves share the bounding box of the orientation the poll began with;    *)
(* the rotation comes last and checks nothing.                             *)
buttons_do_action(blk, pressed) ==
  LET bbox == get_bbox(blk.ori)
      yl == IF BUTTON_LEFT \in pressed /\ blk.y + bbox.y > 0
            THEN blk.y - 1 ELSE blk.y
      yr == IF BUTTON_RIGHT \in pressed /\ yl + bbox.y < GRID_COLS - bbox.sizey - 1
            THEN yl + 1 ELSE yl
      xd == IF BUTTON_DOWN \in pressed /\ blk.x + bbox.x < GRID_ROWS - bbox.sizex
            THEN blk.x + 1 ELSE blk.x
      or == IF BUTTON_ENTER \in pressed THEN block_rotr(blk.ori) ELSE blk.ori
  IN  [x |-> xd, y |-> yr, ori |-> or]

-----------------------------------------------------------------------------
(* The grid.                                                               *)

grid_clear == [r \in Rows |-> {}]

(* Changed: the test looks two rows ahead. *)
Touches_TooEarly(blk, grid) ==
  \E i \in 0 .. 2 : /\ blk.x + i + 2 \in Rows
                    /\ BlockRow(blk, i) \cap grid[blk.x + i + 2] # {}

(* Some cell of the block has a locked cell directly beneath it.           *)
Touches(blk, grid) ==
  \E i \in 0 .. 2 : /\ blk.x + i + 1 \in Rows
                    /\ BlockRow(blk, i) \cap grid[blk.x + i + 1] # {}

(* block_collides also reads grid[blk->x+i+1] past the last row.  What is  *)
(* stored there is not the grid's, so such a read can have either outcome. *)
ReadsPastGrid(blk) ==
  \E i \in 0 .. 2 : blk.x + i + 1 >= GRID_ROWS /\ PatternRow(blk.ori, i) # {}

(* The set of results block_collides can return.                           *)
block_collides(blk, grid) ==
  IF Touches(blk, grid) THEN {TRUE}
  ELSE IF ReadsPastGrid(blk) THEN BOOLEAN ELSE {FALSE}

(* block_add, on the rows that exist.                                      *)
block_add(blk, grid) ==
  [r \in Rows |-> IF r \in blk.x .. blk.x + BLOCK_HEIGHT - 1
                  THEN grid[r] \cup BlockRow(blk, r - blk.x)
                  ELSE grid[r]]

(* block_add changes memory behind the last row of the grid.               *)
WritesPastGrid(blk) ==
  \E i \in 0 .. 2 : blk.x + i >= GRID_ROWS /\ PatternRow(blk.ori, i) # {}

(* All bits but the last, which is not on the screen.                      *)
grid_check(grid, idx) == 0 .. GRID_COLS - 2 \subseteq grid[idx]

(* Changed: the loop stops at the row below the first empty one. *)
grid_shift_StopsShort(grid, start_idx) ==
  [r \in Rows |-> IF r \in 1 .. start_idx /\ \A k \in r .. start_idx : grid[k - 1] # {}
                  THEN grid[r - 1]
                  ELSE grid[r]]

(* The loop walks up from start_idx and ends at the first row that is      *)
(* empty, or at row 1: row 0 is copied but never written.                  *)
grid_shift(grid, start_idx) ==
  [r \in Rows |-> IF r \in 1 .. start_idx /\ \A k \in r .. start_idx : grid[k] # {}
                  THEN grid[r - 1]
                  ELSE grid[r]]

(* The reference: a row taken out, everything above it one row lower and   *)
(* an empty row on top.                                                    *)
RemoveRow(grid, idx) ==
  [r \in Rows |-> IF r = 0 THEN {} ELSE IF r <= idx THEN grid[r - 1] ELSE grid[r]]
=============================================================================
