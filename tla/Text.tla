-------------------------------- MODULE Text --------------------------------
(***************************************************************************)
(* The score on the panel: text.c, font.h and the box main pushes for it   *)
(* (main.c:37-40 and 125-127).  Text is drawn in dots of half a grid step, *)
(* so a picture of it is a set of dots <<x, y>>.                           *)
(*                                                                         *)
(* A pass of main adds the rows it has cleared to the score, draws the     *)
(* block, the grid and the score, and has either the whole panel or the    *)
(* score's box refreshed.  The score's place is the corner in which every  *)
(* block appears, so the picture of that corner is of all three.           *)
(*                                                                         *)
(* When the refresh happens is the subject of Video; here it is done when  *)
(* the pass ends.  The boxes of moves, which refresh more, are left out,   *)
(* and how block and grid come to lie in the corner is left open: that is  *)
(* the subject of Game.                                                    *)
(***************************************************************************)
EXTENDS Tetris

CONSTANTS
  SHIFT_CLEAR,   \* the build option: refresh everything after a lock
  MAX_ROWS,      \* the most rows one lock clears
  Places,        \* where the block may be, as values of block_t
  Heaps,         \* what the grid may hold in the corner, as sets of cells
  MAX_SCORE      \* bound of the model

VARIABLES
  score,   \* int score
  blk,     \* block_t blk
  grid,    \* the cells of the corner that are set in the grid
  lit,     \* dots lit in the corner of the frame buffer
  over,    \* the last pass has drawn over an older frame
  panel    \* dots lit in the corner of the panel

vars == <<score, blk, grid, lit, over, panel>>

GRID_STEP == 8
CHAR_SIZE == 5
SCORE_X == 0
SCORE_Y == 0

(* The cells a digit touches; a cell is two dots wide. *)
Corner == (0 .. (CHAR_SIZE - 1) \div 2) \X (0 .. (CHAR_SIZE - 1) \div 2)

ASSUME TextAssumption ==
  /\ SHIFT_CLEAR \in BOOLEAN /\ MAX_ROWS \in Nat /\ MAX_SCORE \in Nat
  /\ Places \subseteq [x : Rows, y : Cols, ori : Orientation]
  /\ Heaps \subseteq SUBSET Corner /\ {} \in Heaps

(* The dots of a cell. *)
suppx_draw(c) == {<<2 * c[1] + i, 2 * c[2] + j>> : i, j \in 0 .. 1}

(* The cells of the corner the block lies on. *)
BlockCells(b) ==
  {c \in Corner : \E k \in 0 .. 2 : c[1] = b.x + k /\ c[2] \in BlockRow(b, k)}

block_draw(b) == UNION {suppx_draw(c) : c \in BlockCells(b)}

grid_draw(g) == UNION {suppx_draw(c) : c \in g}

(* The set bits of every line of every digit. *)
font_map ==
  [c \in 0 .. 9 |->
    CASE c = 0 -> << 0 .. 4, {0, 4}, {0, 4}, {0, 4}, 0 .. 4 >>
      [] c = 1 -> << {2},    {1, 2}, {2},    {2},    1 .. 3 >>
      [] c = 2 -> << {1},    {0, 2}, {2},    {1},    0 .. 2 >>
      [] c = 3 -> << 1 .. 4, {4},    1 .. 4, {4},    1 .. 4 >>
      [] c = 4 -> << {1, 4}, {1, 4}, 1 .. 4, {4},    {4}    >>
      [] c = 5 -> << 1 .. 4, {1},    1 .. 4, {4},    1 .. 4 >>
      [] c = 6 -> << 1 .. 4, {4},    1 .. 4, {1, 4}, 1 .. 4 >>
      [] c = 7 -> << 1 .. 4, {4},    {3},    {2},    {1}    >>
      [] c = 8 -> << 1 .. 4, {1, 4}, 1 .. 4, {1, 4}, 1 .. 4 >>
      [] c = 9 -> << 1 .. 4, {1, 4}, 1 .. 4, {4},    1 .. 4 >>]

(* Nothing is drawn at a place that is not a multiple of the grid step. *)
text_draw_char(c, x, y) ==
  IF x % GRID_STEP # 0 \/ y % GRID_STEP # 0 THEN {}
  ELSE UNION {{<<x + i, y + j>> : j \in font_map[c][i + 1]} : i \in 0 .. CHAR_SIZE - 1}

(* Changed: the quotient is drawn once more when it has become zero. *)
text_draw_number_ZeroLast(v, x, y) ==
  UNION {text_draw_char(((v % 256) \div p) % 10, x, y) : p \in {1, 10, 100}}

(* v is a uint8_t.  All of its digits, from the last to the first, are     *)
(* drawn at the same place.                                                *)
text_draw_number(v, x, y) ==
  LET b == v % 256
  IN  UNION {text_draw_char((b \div p) % 10, x, y) :
               p \in {q \in {1, 10, 100} : q = 1 \/ b \div q > 0}}

(* Changed: sizes are counted in dots, not in grid steps. *)
InScoreBox_Dots(d) ==
  /\ d[1] * (GRID_STEP \div 2) \in SCORE_X .. SCORE_X + (CHAR_SIZE * GRID_STEP) \div 4 - 1
  /\ d[2] * (GRID_STEP \div 2) \in SCORE_Y .. SCORE_Y + CHAR_SIZE * GRID_STEP * 3 - 1

(* The dot lies in the box main pushes, which is given in pixels. *)
InScoreBox(d) ==
  /\ d[1] * (GRID_STEP \div 2) \in SCORE_X .. SCORE_X + GRID_STEP * CHAR_SIZE - 1
  /\ d[2] * (GRID_STEP \div 2) \in SCORE_Y .. SCORE_Y + GRID_STEP * CHAR_SIZE * 3 - 1

(* What main draws into the corner. *)
Frame(b, g, v) == block_draw(b) \cup grid_draw(g) \cup text_draw_number(v, SCORE_X, SCORE_Y)

(* The first frame, with the first block and an empty grid, is sent whole. *)
Init ==
  /\ score = 0
  /\ blk = block_gamma
  /\ grid = {}
  /\ lit = Frame(blk, grid, 0)
  /\ over = FALSE
  /\ panel = lit

(* A pass that clears n rows and leaves the block at b and the heap g in   *)
(* the corner.  lock says whether it locked a block, the only way for the  *)
(* grid to change, after which a new one appears; jump whether it came to  *)
(* that from the floor test, which skips vbuf_clear (main.c:95): the frame *)
(* before it had the block far down.                                       *)
Pass(n, b, g, lock, jump) ==
  /\ IF lock THEN b = block_gamma ELSE n = 0 /\ g = grid
  /\ jump => lock /\ BlockCells(blk) = {}
  /\ score + n <= MAX_SCORE
  /\ score' = score + n /\ blk' = b /\ grid' = g
  /\ lit' = Frame(b, g, score + n) \cup (IF jump THEN lit ELSE {})
  /\ over' = jump
  /\ panel' = IF lock /\ SHIFT_CLEAR
              THEN lit'
              ELSE {d \in panel : ~InScoreBox(d)} \cup {d \in lit' : InScoreBox(d)}

Next ==
  \E n \in 0 .. MAX_ROWS, b \in Places \cup {block_gamma}, g \in Heaps, lock, jump \in BOOLEAN :
    Pass(n, b, g, lock, jump)

Spec == Init /\ [][Next]_vars

-----------------------------------------------------------------------------
(* The box pushed in every pass (main.c:126) is enough to keep the score's *)
(* corner on the panel up to date, without SHIFT_CLEAR as well: no dot of  *)
(* an earlier score, or of a block that has left the corner, survives and  *)
(* none of the present frame is missing.                                   *)
TextRefreshed == panel = lit

(* While the 8-bit value of the score has one digit, the panel shows that  *)
(* digit and no other can be read from it (text.c:30-40), with two         *)
(* exceptions: block or grid lie in the corner and are drawn with it       *)
(* (main.c:122-123), as every new block does (tetris.h:25-30); or the pass *)
(* has drawn over the frame before it (main.c:95).  Once the corner is     *)
(* free again the digit is as well.  Scores of more digits are drawn one   *)
(* over the other, and 256 starts again at 0.                              *)
DigitReadable ==
  (score % 256 < 10 /\ ~over /\ BlockCells(blk) \cup grid = {}) =>
    {c \in 0 .. 9 : text_draw_char(c, SCORE_X, SCORE_Y) = panel} = {score % 256}
=============================================================================
