---------------------------- MODULE PictureProofs ---------------------------
(***************************************************************************)
(* Proof that the boxes of update_block cover every move, for a grid of    *)
(* any size that holds a block.                                            *)
(***************************************************************************)
EXTENDS Picture, TetrisProofs

USE DEF BLOCK_HEIGHT

(* The block lights no cell outside its three columns (tetris.c:23). *)
LEMMA DrawColumns ==
  ASSUME NEW b \in Block, NEW c \in block_draw(b)
  PROVE  c \in Screen /\ c[2] \in b.y .. b.y + 2
<1>1. PICK k \in 0 .. 2 : c[2] \in BlockRow(b, k)
  BY DEF block_draw
<1>2. PatternRow(b.ori, k) \subseteq 0 .. 2
  BY Patterns DEF Block, Orientation
<1>3. b.y \in Int
  BY GridAssumption DEF Block
<1> QED
  BY <1>1, <1>2, <1>3 DEF block_draw, BlockRow

(* The box pushed for a block m holds every cell of a block at most one    *)
(* column away from m, and of m itself (tetris.c:105).                     *)
LEMMA BoxHolds ==
  ASSUME NEW m \in Block, NEW b \in Block, m.y \in b.y - 1 .. b.y + 1
  PROVE  block_draw(b) \subseteq BoxCells(update_block(m))
<1> SUFFICES ASSUME NEW c \in block_draw(b) PROVE c \in BoxCells(update_block(m))
  OBVIOUS
<1>1. c \in Screen /\ c[2] \in b.y .. b.y + 2
  BY DrawColumns
<1>2. c[1] \in 0 .. GRID_ROWS - 1
  BY <1>1 DEF Screen, Rows
<1>3. m.y \in Int /\ b.y \in Int /\ b.y >= 0
  BY GridAssumption DEF Block
<1> DEFINE u == update_block(m)
<1>4. u.x = 0 /\ u.sizex = 8 * GRID_ROWS /\ u.sizey = 7
  BY DEF update_block
<1>5. u.y = IF m.y - 2 > 0 THEN m.y - 2 ELSE 0
  BY DEF update_block
<1> HIDE DEF u
<1>6. u.x <= c[1] /\ c[1] < u.x + u.sizex
  BY <1>2, <1>4, GridAssumption
<1>7. u.y <= c[2] /\ c[2] < u.y + u.sizey
  BY <1>1, <1>3, <1>4, <1>5
<1> QED
  BY <1>1, <1>6, <1>7 DEF BoxCells, u

(* A step that moves the block from blk to m and pushes the box of m keeps *)
(* the frame's differences covered; so does one that moves nothing.        *)
LEMMA MoveCovers ==
  ASSUME Covers, ~refresh, ~ghost, blk \in Block, blk' \in Block,
         blk'.y \in blk.y - 1 .. blk.y + 1,
         boxes' = boxes \cup {update_block(blk')} \/ (boxes' = boxes /\ blk' = blk),
         frame' = frame
  PROVE  Covers'
<1>1. CASE boxes' = boxes /\ blk' = blk
  BY <1>1 DEF Covers, Redrawn, block_draw
<1>2. CASE boxes' = boxes \cup {update_block(blk')}
  <2>1. block_draw(blk) \subseteq Redrawn' /\ block_draw(blk') \subseteq Redrawn'
    <3>1. BoxCells(update_block(blk')) \subseteq Redrawn'
      BY <1>2 DEF Redrawn
    <3>2. blk'.y \in blk'.y - 1 .. blk'.y + 1
      BY GridAssumption DEF Block
    <3> QED
      BY <3>1, <3>2, BoxHolds
  <2>2. Redrawn \subseteq Redrawn'
    BY <1>2 DEF Redrawn
  <2> QED
    BY <2>1, <2>2 DEF Covers
<1> QED
  BY <1>1, <1>2

(* The invariant keeps the block between the edges (buttons.h:20-28). *)
LEMMA BlockType == ASSUME TypeOK, YFits PROVE blk \in Block
BY DEF TypeOK, YFits, Block

(* The block that appears at the top (tetris.h:25). *)
LEMMA GammaType == block_gamma \in Block
BY GridAssumption DEF block_gamma, Block, Orientation, ORI_NORTH

(* A block between the edges has the type main's block must have. *)
LEMMA TypeBlock ==
  ASSUME NEW b \in Block
  PROVE  b \in [x : Nat, y : Cols, ori : Orientation] /\ b.y \in 0 .. GRID_COLS - 3
BY GridAssumption DEF Block, Cols

(* main before its loop (main.c:81-90). *)
LEMMA InitIInv == Init => IInv
<1> SUFFICES ASSUME Init PROVE IInv
  OBVIOUS
<1>1. TypeOK /\ YFits
  BY GammaType, TypeBlock DEF Init, TypeOK, YFits
<1>2. ClearsInTime /\ Covers
  BY DEF Init, ClearsInTime, Covers
<1> QED
  BY <1>1, <1>2 DEF IInv

(* hw->loop and the floor test (main.c:92-98). *)
LEMMA PollIInv ==
  ASSUME IInv, NEW pressed \in SUBSET Buttons, Poll(pressed)
  PROVE  IInv'
<1> DEFINE moved == buttons_do_action(blk, pressed)
<1>1. blk \in Block
  BY BlockType DEF IInv
<1>2. moved \in Block /\ moved.y \in blk.y - 1 .. blk.y + 1
  BY <1>1, DoAction
<1>3. boxes' = boxes \cup {update_block(moved)} \/ (boxes' = boxes /\ moved = blk)
  BY DEF Poll, Acts
<1>4. \/ LockBlock /\ cleared' = FALSE
      \/ blk' = moved /\ pc' = "fall" /\ cleared' = TRUE /\ UNCHANGED refresh
  BY DEF Poll
<1>5. UNCHANGED <<frame, ghost>>
  BY DEF Poll
<1> HIDE DEF moved
<1>6. CASE LockBlock /\ cleared' = FALSE
  <2>1. TypeOK' /\ YFits'
    BY <1>5, <1>6, GammaType, TypeBlock DEF IInv, TypeOK, YFits, LockBlock
  <2>2. ClearsInTime' /\ Covers'
    BY <1>6 DEF ClearsInTime, Covers, LockBlock
  <2> QED
    BY <2>1, <2>2 DEF IInv
<1>7. CASE blk' = moved /\ pc' = "fall" /\ cleared' = TRUE /\ UNCHANGED refresh
  <2>1. TypeOK' /\ YFits'
    BY <1>2, <1>5, <1>7, TypeBlock DEF IInv, TypeOK, YFits
  <2>2. ClearsInTime'
    BY <1>7 DEF ClearsInTime
  <2>3. Covers'
    <3>1. CASE refresh \/ ghost
      BY <1>5, <1>7, <3>1 DEF Covers
    <3>2. CASE ~refresh /\ ~ghost
      BY <1>1, <1>2, <1>3, <1>5, <1>7, <3>2, MoveCovers DEF IInv
    <3> QED
      BY <3>1, <3>2
  <2> QED
    BY <2>1, <2>2, <2>3 DEF IInv
<1> QED
  BY <1>4, <1>6, <1>7

(* Gravity and the collision test (main.c:100-121). *)
LEMMA FallIInv ==
  ASSUME IInv, NEW due \in BOOLEAN, NEW hit \in BOOLEAN, Fall(due, hit)
  PROVE  IInv'
<1> DEFINE moved == IF due THEN [blk EXCEPT !.x = @ + 1] ELSE blk
<1>1. blk \in Block
  BY BlockType DEF IInv
<1>2. moved \in Block /\ moved.y = blk.y
  BY <1>1 DEF Block
<1>3. boxes' = boxes \cup {update_block(moved)} \/ (boxes' = boxes /\ moved = blk)
  BY DEF Fall
<1>4. \/ LockBlock
      \/ blk' = moved /\ pc' = "draw" /\ UNCHANGED refresh
  BY DEF Fall
<1>5. pc = "fall" /\ UNCHANGED <<cleared, frame, ghost>>
  BY DEF Fall
<1>6. moved.y \in blk.y - 1 .. blk.y + 1
  BY <1>1, <1>2, GridAssumption DEF Block
<1> HIDE DEF moved
<1>7. CASE LockBlock
  <2>1. TypeOK' /\ YFits'
    BY <1>5, <1>7, GammaType, TypeBlock DEF IInv, TypeOK, YFits, LockBlock
  <2>2. ClearsInTime' /\ Covers'
    BY <1>7 DEF ClearsInTime, Covers, LockBlock
  <2> QED
    BY <2>1, <2>2 DEF IInv
<1>8. CASE blk' = moved /\ pc' = "draw" /\ UNCHANGED refresh
  <2>1. TypeOK' /\ YFits'
    BY <1>2, <1>5, <1>8, TypeBlock DEF IInv, TypeOK, YFits
  <2>2. ClearsInTime'
    BY <1>5, <1>8 DEF IInv, ClearsInTime
  <2>3. Covers'
    <3>1. CASE refresh \/ ghost
      BY <1>5, <1>8, <3>1 DEF Covers
    <3>2. CASE ~refresh /\ ~ghost
      BY <1>1, <1>2, <1>3, <1>5, <1>6, <1>8, <3>2, MoveCovers DEF IInv
    <3> QED
      BY <3>1, <3>2
  <2> QED
    BY <2>1, <2>2, <2>3 DEF IInv
<1> QED
  BY <1>4, <1>7, <1>8

(* The frame is drawn (main.c:122-141). *)
LEMMA DrawIInv ==
  ASSUME IInv, Draw
  PROVE  IInv'
<1>1. TypeOK' /\ YFits'
  BY Zenon DEF IInv, TypeOK, YFits, Draw, block_draw
<1>2. ClearsInTime'
  BY DEF ClearsInTime, Draw
<1>3. Covers'
  BY DEF Covers, Draw
<1> QED
  BY <1>1, <1>2, <1>3 DEF IInv

(* Every step preserves the invariant. *)
LEMMA NextIInv == IInv /\ [Next]_vars => IInv'
<1> SUFFICES ASSUME IInv, [Next]_vars PROVE IInv'
  OBVIOUS
<1>1. CASE Next
  BY <1>1, PollIInv, FallIInv, DrawIInv DEF Next
<1>2. CASE UNCHANGED vars
  BY <1>2 DEF IInv, TypeOK, YFits, ClearsInTime, Covers, Redrawn, vars
<1> QED
  BY <1>1, <1>2

(* What update_block pushes is all that a pass without a lock has changed  *)
(* (tetris.c:102-115), on a grid of any size.                              *)
THEOREM AlwaysMovesCovered == Spec => MovesCovered
<1>1. ASSUME IInv, [Next]_vars
      PROVE  [(pc = "draw" /\ ~refresh /\ ~ghost)
                => (frame' \ frame) \cup (frame \ frame') \subseteq Redrawn]_vars
  <2> SUFFICES ASSUME Next, pc = "draw", ~refresh, ~ghost
               PROVE  (frame' \ frame) \cup (frame \ frame') \subseteq Redrawn
    BY <1>1
  <2>1. Draw
    BY DEF Next, Poll, Fall
  <2>2. frame' = block_draw(blk)
    BY <1>1, <2>1 DEF IInv, ClearsInTime, Draw
  <2> QED
    BY <1>1, <2>2 DEF IInv, Covers
<1> QED
  BY <1>1, InitIInv, NextIInv, PTL DEF Spec, MovesCovered
=============================================================================
