------------------------------- MODULE Panel --------------------------------
(***************************************************************************)
(* update_rect_stm32 (impl_stm32.c:127-185): a box of the frame buffer is  *)
(* streamed through a static buffer of BUFSIZE pixels into a window of the *)
(* panel.  The video thread holds the mutex meanwhile, so the frame buffer *)
(* does not change.                                                        *)
(*                                                                         *)
(* What a pixel's colour is does not matter here, only which pixel it was  *)
(* read from: the buffer and the panel hold the pixels' places <<x, y>>,   *)
(* or OLD for what was there before the update began.                      *)
(***************************************************************************)
EXTENDS Integers, FiniteSetsExt

CONSTANTS
  DISP_COLS,    \* columns of the display (240)
  DISP_ROWS,    \* its bytes per column (30)
  BYTE,         \* rows of a byte (8)
  BUFSIZE,      \* pixels of the static buffer (64)
  BLOCK_COLS,   \* columns of the grid the block can be in (0 .. 28)
  SCORE_SIZE    \* sizex and sizey of the score's box (<<40, 120>>)

ASSUME PanelAssumption ==
  /\ {DISP_COLS, DISP_ROWS, BYTE, BUFSIZE} \subseteq Nat \ {0}
  /\ BLOCK_COLS \subseteq Nat
  /\ SCORE_SIZE \in Nat \X Nat

VARIABLES
  pc,     \* "off" before the first update, "idle" between two, "stream" inside one
  box,    \* the argument bbox
  x, r,   \* column and row (8 * y + rem in the source) of the next pixel
  arr,    \* buf.buf
  size,   \* buf.size
  pos,    \* panel: where in its window the next pixel goes
  ram     \* panel: its memory

vars == <<pc, box, x, r, arr, size, pos, ram>>

MinOf(a, b) == IF a < b THEN a ELSE b
MaxOf(a, b) == IF a > b THEN a ELSE b

OLD == <<-1, -1>>

GRID_STEP == BYTE
Pixels == (0 .. DISP_COLS - 1) \X (0 .. DISP_ROWS * BYTE - 1)

(* The box of display_update_stm32. *)
FullBox == [x |-> 0, y |-> 0, sizex |-> DISP_COLS, sizey |-> DISP_ROWS * BYTE]

(* The box main pushes for the score. *)
ScoreBox == [x |-> 0, y |-> 0, sizex |-> SCORE_SIZE[1], sizey |-> SCORE_SIZE[2]]

(* The box update_block pushes for a block in column y. *)
update_block(y) ==
  [x |-> 0, y |-> MaxOf((y - 2) * GRID_STEP, 0),
   sizex |-> DISP_COLS * GRID_STEP, sizey |-> (3 + 4) * GRID_STEP]

Boxes == {FullBox, ScoreBox} \cup {update_block(y) : y \in BLOCK_COLS}

x_end(b) == MinOf(b.x + b.sizex, DISP_COLS)
y_end(b) == MinOf(b.y + b.sizey, DISP_ROWS * BYTE)

(* The rows the loops run over: whole bytes. *)
FirstRow(b) == (b.y \div BYTE) * BYTE

(* Changed: the last byte row is forgotten. *)
EndRow_Short(b) == (y_end(b) \div BYTE - 1) * BYTE

EndRow(b) == (y_end(b) \div BYTE) * BYTE

-----------------------------------------------------------------------------
(* The panel: its window is set by the column and the row address; pixels  *)
(* fill it row by row and start again at its first corner when it is full. *)

Width(b) == x_end(b) - b.x
Area(b) == Width(b) * (y_end(b) - b.y)

WindowCell(b, k) ==
  LET j == k % Area(b) IN <<b.x + (j % Width(b)), b.y + (j \div Width(b))>>

Window(b) == (b.x .. x_end(b) - 1) \X (b.y .. y_end(b) - 1)

(* The panel receives all of a, which the driver always sends whole. *)
disp_write_data(a) ==
  /\ ram' = [c \in Pixels |->
       LET hits == {k \in 0 .. BUFSIZE - 1 : WindowCell(box, pos + k) = c}
       IN  IF hits = {} THEN ram[c] ELSE a[Max(hits)]]
  /\ pos' = (pos + BUFSIZE) % Area(box)

-----------------------------------------------------------------------------
(* No update has been made; the static buffer is empty. *)
Init ==
  /\ pc = "off"
  /\ box = FullBox
  /\ x = 0 /\ r = 0
  /\ arr = [k \in 0 .. BUFSIZE - 1 |-> OLD] /\ size = 0
  /\ pos = 0
  /\ ram = [c \in Pixels |-> OLD]

(* The addresses are set and RAMWR is sent.  Everything from before is old *)
(* now, also what the buffer still holds.                                  *)
Begin(b) ==
  /\ pc \in {"off", "idle"}
  /\ pc' = "stream"
  /\ box' = b
  /\ x' = b.x /\ r' = FirstRow(b)
  /\ pos' = 0
  /\ arr' = [k \in 0 .. BUFSIZE - 1 |-> OLD]
  /\ ram' = [c \in Pixels |-> OLD]
  /\ UNCHANGED size

(* Changed: the buffer is not cleared after it has been sent. *)
Pixel_NoClear ==
  /\ pc = "stream" /\ r < EndRow(box)
  /\ arr' = IF size < BUFSIZE THEN [arr EXCEPT ![size] = <<x, r>>] ELSE arr
  /\ size' = MinOf(size + 1, BUFSIZE)
  /\ IF size' = BUFSIZE THEN disp_write_data(arr') ELSE UNCHANGED <<ram, pos>>
  /\ IF x + 1 < x_end(box) THEN x' = x + 1 /\ r' = r ELSE x' = box.x /\ r' = r + 1
  /\ UNCHANGED <<pc, box>>

(* One pixel: it is pushed, and the buffer is sent when that has filled it. *)
Pixel ==
  /\ pc = "stream" /\ r < EndRow(box)
  /\ arr' = IF size < BUFSIZE THEN [arr EXCEPT ![size] = <<x, r>>] ELSE arr
  /\ LET pushed == MinOf(size + 1, BUFSIZE)
     IN  IF pushed = BUFSIZE
         THEN disp_write_data(arr') /\ size' = 0
         ELSE UNCHANGED <<ram, pos>> /\ size' = pushed
  /\ IF x + 1 < x_end(box) THEN x' = x + 1 /\ r' = r ELSE x' = box.x /\ r' = r + 1
  /\ UNCHANGED <<pc, box>>

(* After the loops.  A buffer that is not empty is sent whole, with        *)
(* whatever is left in it from before.                                     *)
Finish ==
  /\ pc = "stream" /\ r >= EndRow(box)
  /\ IF size > 0 THEN disp_write_data(arr) ELSE UNCHANGED <<ram, pos>>
  /\ size' = 0
  /\ pc' = "idle"
  /\ UNCHANGED <<box, x, r, arr>>

Next == (\E b \in Boxes : Begin(b)) \/ Pixel \/ Finish

Spec == Init /\ [][Next]_vars

-----------------------------------------------------------------------------
(* When update_rect_stm32 returns, the panel shows the box as the frame    *)
(* buffer has it, and nothing outside the box was touched                  *)
(* (impl_stm32.c:153-183).                                                 *)
BoxSent ==
  pc = "idle" => \A c \in Pixels : ram[c] = IF c \in Window(box) THEN c ELSE OLD

(* At no moment does the panel show a pixel at another pixel's place.      *)
(* This rests on every box of the game having a multiple of BUFSIZE        *)
(* pixels: sending a partly filled buffer (impl_stm32.c:181) would write   *)
(* old pixels over the beginning of the window.                            *)
NeverMisplaced == \A c \in Pixels : ram[c] \in {c, OLD}
=============================================================================
