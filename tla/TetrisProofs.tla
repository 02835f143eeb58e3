---------------------------- MODULE TetrisProofs ----------------------------
(***************************************************************************)
(* What the proofs about Game and Picture need to know of the block.       *)
(***************************************************************************)
EXTENDS Tetris, TLAPS

USE DEF BLOCK_HEIGHT

-----------------------------------------------------------------------------
(* Facts about the block.                                                  *)

(* The smallest element of a set is what Min returns. *)
LEMMA MinIs ==
  ASSUME NEW S \in SUBSET Int, NEW m \in S, \A e \in S : m <= e
  PROVE  Min(S) = m
<1>1. \E a \in S : \A e \in S : a <= e
  OBVIOUS
<1>2. Min(S) \in S /\ \A e \in S : Min(S) <= e
  BY <1>1 DEF Min
<1>3. Min(S) \in Int /\ m \in Int /\ Min(S) <= m /\ m <= Min(S)
  BY <1>2
<1> QED
  BY <1>3

(* The greatest element of a set is what Max returns. *)
LEMMA MaxIs ==
  ASSUME NEW S \in SUBSET Int, NEW m \in S, \A e \in S : m >= e
  PROVE  Max(S) = m
<1>1. \E a \in S : \A e \in S : a >= e
  OBVIOUS
<1>2. Max(S) \in S /\ \A e \in S : Max(S) >= e
  BY <1>1 DEF Max
<1>3. Max(S) \in Int /\ m \in Int /\ Max(S) >= m /\ m >= Max(S)
  BY <1>2
<1> QED
  BY <1>3

(* The twelve rows of patterns_gamma (tetris.h:8). *)
LEMMA Patterns ==
  /\ PatternRow(0, 0) = {0, 1} /\ PatternRow(0, 1) = {0} /\ PatternRow(0, 2) = {0}
  /\ PatternRow(1, 0) = {} /\ PatternRow(1, 1) = {0, 1, 2} /\ PatternRow(1, 2) = {0}
  /\ PatternRow(2, 0) = {0} /\ PatternRow(2, 1) = {0} /\ PatternRow(2, 2) = {0, 1}
  /\ PatternRow(3, 0) = {2} /\ PatternRow(3, 1) = {0, 1, 2} /\ PatternRow(3, 2) = {}
BY DEF PatternRow, patterns_gamma

(* What get_bbox (tetris.c:81) computes for each orientation. *)
LEMMA Boxes ==
  /\ get_bbox(0) = [x |-> 0, y |-> 0, sizex |-> 3, sizey |-> 2]
  /\ get_bbox(1) = [x |-> 1, y |-> 0, sizex |-> 2, sizey |-> 3]
  /\ get_bbox(2) = [x |-> 0, y |-> 0, sizex |-> 3, sizey |-> 2]
  /\ get_bbox(3) = [x |-> 0, y |-> 0, sizex |-> 2, sizey |-> 3]
<1> DEFINE rows(o) == {k \in 0 .. 2 : PatternRow(o, k) # {}}
           cols(o) == UNION {PatternRow(o, k) : k \in 0 .. 2}
<1>0. 0 .. 2 = {0, 1, 2}
  OBVIOUS
<1>1. /\ rows(0) = {0, 1, 2} /\ rows(1) = {1, 2}
      /\ rows(2) = {0, 1, 2} /\ rows(3) = {0, 1}
  BY <1>0, Patterns
<1>2. /\ cols(0) = {0, 1} /\ cols(1) = {0, 1, 2}
      /\ cols(2) = {0, 1} /\ cols(3) = {0, 1, 2}
  BY <1>0, Patterns
<1>3. /\ Min({0, 1, 2}) = 0 /\ Min({1, 2}) = 1 /\ Min({0, 1}) = 0
      /\ Max({0, 1, 2}) = 2 /\ Max({1, 2}) = 2 /\ Max({0, 1}) = 1
  <2>1. Min({0, 1, 2}) = 0 
    BY MinIs
  <2>2. Min({1, 2}) = 1 
    BY MinIs
  <2>3. Min({0, 1}) = 0
    BY MinIs
  <2>4. Max({0, 1, 2}) = 2 
    BY MaxIs
  <2>5. Max({1, 2}) = 2 
    BY MaxIs
  <2>6. Max({0, 1}) = 1
    BY MaxIs
  <2> QED
    BY <2>1, <2>2, <2>3, <2>4, <2>5, <2>6
<1>4. \A o \in 0 .. 3 :
        get_bbox(o) = [x |-> Min(rows(o)), y |-> Min(cols(o)),
                       sizex |-> Max(rows(o)) - Min(rows(o)) + 1,
                       sizey |-> Max(cols(o)) - Min(cols(o)) + 1]
  BY Zenon DEF get_bbox
<1> HIDE DEF rows, cols
<1> QED
  BY <1>1, <1>2, <1>3, <1>4

(* Every column of a block at y in 0 .. GRID_COLS - 3 is a bit of the row. *)
LEMMA BlockRowFits ==
  ASSUME NEW b, b.y \in 0 .. GRID_COLS - 3, b.ori \in Orientation, NEW k \in 0 .. 2
  PROVE  BlockRow(b, k) \subseteq Cols
<1>1. PatternRow(b.ori, k) \subseteq 0 .. 2
  BY Patterns DEF Orientation
<1> QED
  BY <1>1, GridAssumption DEF BlockRow, Cols

(* A row of the block is empty exactly when its pattern is. *)
LEMMA BlockRowEmpty ==
  ASSUME NEW b, NEW k
  PROVE  BlockRow(b, k) = {} <=> PatternRow(b.ori, k) = {}
BY DEF BlockRow

(* The rows a block covers are adjacent, at least two, and one of the      *)
(* first two.                                                              *)
LEMMA PatternShape ==
  ASSUME NEW o \in Orientation
  PROVE  /\ PatternRow(o, 1) # {}
         /\ PatternRow(o, 0) # {} \/ PatternRow(o, 2) # {}
BY Patterns DEF Orientation

Block == [x : Nat, y : 0 .. GRID_COLS - 3, ori : Orientation]

(* One poll of the buttons (buttons.h:15) keeps the block inside the       *)
(* columns, moves it by one column at most, and takes it below the floor   *)
(* row only if it faced west there.                                        *)
LEMMA DoAction ==
  ASSUME NEW b \in Block, NEW pressed \in SUBSET Buttons
  PROVE  LET c == buttons_do_action(b, pressed)
         IN  /\ c \in Block
             /\ c.y \in b.y - 1 .. b.y + 1
             /\ (b.x <= FLOOR /\ c.x > FLOOR) => (b.ori = ORI_WEST /\ b.x = FLOOR)
<1>1. b.x \in Nat /\ b.y \in 0 .. GRID_COLS - 3 /\ b.ori \in {0, 1, 2, 3}
  BY DEF Block, Orientation
<1>2. get_bbox(b.ori).y = 0 /\ get_bbox(b.ori).sizey \in {2, 3}
  BY <1>1, Boxes
<1>3. /\ get_bbox(b.ori).x \in {0, 1} /\ get_bbox(b.ori).sizex \in {2, 3}
      /\ b.ori # 3 => get_bbox(b.ori).x + get_bbox(b.ori).sizex = 3
      /\ b.ori = 3 => get_bbox(b.ori).x = 0 /\ get_bbox(b.ori).sizex = 2
  BY <1>1, Boxes
<1>4. block_rotr(b.ori) \in Orientation
  BY <1>1 DEF block_rotr, Orientation
<1> QED
  BY <1>1, <1>2, <1>3, <1>4, GridAssumption
  DEF buttons_do_action, Block, Orientation, FLOOR, ORI_WEST
=============================================================================
