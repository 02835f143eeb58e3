----------------------------- MODULE GameProofs -----------------------------
(***************************************************************************)
(* Proofs about the grid and about Game, for a grid of any size that holds *)
(* a block.                                                                *)
(***************************************************************************)
EXTENDS Game, TetrisProofs

USE DEF BLOCK_HEIGHT

-----------------------------------------------------------------------------
(* Facts about the grid.                                                   *)

Grid == [Rows -> SUBSET Cols]

(* A full row is not empty. *)
LEMMA FullNotEmpty ==
  ASSUME NEW g, NEW r, grid_check(g, r)
  PROVE  g[r] # {}
BY GridAssumption DEF grid_check

(* block_add (tetris.c:51) stores a row of bits in every row of the grid. *)
LEMMA AddType ==
  ASSUME NEW g \in Grid, NEW b \in Block
  PROVE  block_add(b, g) \in Grid
<1> SUFFICES ASSUME NEW r \in Rows, r \in b.x .. b.x + 2
             PROVE  g[r] \cup BlockRow(b, r - b.x) \in SUBSET Cols
  BY DEF block_add, Grid
<1>1. r - b.x \in 0 .. 2
  BY GridAssumption DEF Block, Rows
<1>2. b.y \in 0 .. GRID_COLS - 3 /\ b.ori \in Orientation
  BY DEF Block
<1>3. BlockRow(b, r - b.x) \subseteq Cols
  BY <1>1, <1>2, BlockRowFits
<1> QED
  BY <1>3 DEF Grid

(* grid_shift (tetris.c:67) only moves rows. *)
LEMMA ShiftType ==
  ASSUME NEW g \in Grid, NEW idx \in Rows
  PROVE  grid_shift(g, idx) \in Grid
<1>1. \A r \in 1 .. idx : r - 1 \in Rows
  BY GridAssumption DEF Rows
<1> QED
  BY <1>1 DEF grid_shift, Grid

(* A block that locks for a reason main locks blocks leaves no gap under   *)
(* itself.                                                                 *)
LEMMA AddStacked ==
  ASSUME NEW g \in Grid, NEW b \in Block, IsStacked(g),
         b.x = FLOOR \/ Touches(b, g) \/ ReadsPastGrid(b)
  PROVE  IsStacked(block_add(b, g))
<1> DEFINE h == block_add(b, g)
<1> SUFFICES ASSUME NEW r \in 0 .. GRID_ROWS - 2, NEW s \in 0 .. GRID_ROWS - 2,
                    r < s, h[r] # {}, g[s] = {}
             PROVE  h[s] # {}
  <2>1. \A q \in 0 .. GRID_ROWS - 2 : g[q] # {} => h[q] # {}
    BY GridAssumption DEF block_add, Rows
  <2> QED
    BY <2>1 DEF IsStacked
<1>1. b.x \in Nat /\ b.ori \in Orientation /\ r \in Rows /\ s \in Rows
  BY GridAssumption DEF Block, Rows
<1>2. g[r] = {}
  BY DEF IsStacked
<1>3. r \in b.x .. b.x + 2 /\ PatternRow(b.ori, r - b.x) # {}
  BY <1>1, <1>2, BlockRowEmpty DEF block_add
<1>4. ASSUME s \in b.x .. b.x + 2, PatternRow(b.ori, s - b.x) # {}
      PROVE  h[s] # {}
  <2>1. BlockRow(b, s - b.x) # {}
    BY <1>4, BlockRowEmpty
  <2> QED
    BY <1>1, <1>4, <2>1 DEF block_add
<1>5. ASSUME \A k \in 0 .. 2 : PatternRow(b.ori, k) # {} => b.x + k < s
      PROVE  FALSE
  <2>1. CASE b.x = FLOOR
    BY <2>1, <1>1, <1>5, PatternShape, GridAssumption DEF FLOOR
  <2>2. CASE Touches(b, g)
    <3>1. PICK k \in 0 .. 2 : b.x + k + 1 \in Rows /\ BlockRow(b, k) \cap g[b.x + k + 1] # {}
      BY <2>2 DEF Touches
    <3>2. PatternRow(b.ori, k) # {} /\ g[b.x + k + 1] # {}
      BY <3>1, BlockRowEmpty
    <3>3. b.x + k + 1 <= s
      BY <1>1, <1>5, <3>2
    <3>4. b.x + k + 1 \in 0 .. GRID_ROWS - 2
      BY <1>1, <3>3, GridAssumption
    <3> QED
      BY <1>1, <3>2, <3>3, <3>4 DEF IsStacked
  <2>3. CASE ReadsPastGrid(b)
    BY <2>3, <1>1, <1>5, GridAssumption DEF ReadsPastGrid
  <2> QED
    BY <2>1, <2>2, <2>3
<1>6. PICK k \in 0 .. 2 : PatternRow(b.ori, k) # {} /\ b.x + k >= s
  BY <1>1, <1>5
<1>7. s \in b.x .. b.x + 2 /\ PatternRow(b.ori, s - b.x) # {}
  <2>1. s - b.x \in 0 .. 2 /\ r - b.x < s - b.x /\ s - b.x <= k
    BY <1>1, <1>3, <1>6
  <2>2. s - b.x = 1 \/ s - b.x = k
    BY <1>1, <1>3, <2>1
  <2> QED
    BY <1>1, <1>6, <2>1, <2>2, PatternShape
<1> QED
  BY <1>4, <1>7

(* In a stacked grid the rows above an empty row, the bottom row apart,    *)
(* are empty.                                                              *)
LEMMA EmptyAbove ==
  ASSUME NEW g \in Grid, IsStacked(g), NEW k \in 0 .. GRID_ROWS - 2, g[k] = {},
         NEW r \in 0 .. k
  PROVE  g[r] = {}
BY GridAssumption DEF IsStacked

(* grid_shift leaves no gap. *)
LEMMA ShiftStacked ==
  ASSUME NEW g \in Grid, IsStacked(g), NEW idx \in Rows, g[idx] # {}
  PROVE  IsStacked(grid_shift(g, idx))
<1> DEFINE h == grid_shift(g, idx)
<1> SUFFICES ASSUME NEW r \in 0 .. GRID_ROWS - 2, NEW s \in 0 .. GRID_ROWS - 2,
                    r < s, h[r] # {}
             PROVE  h[s] # {}
  BY DEF IsStacked
<1>0. r \in Rows /\ s \in Rows /\ s - 1 \in 0 .. GRID_ROWS - 2 /\ s - 1 >= r
  BY GridAssumption DEF Rows
<1>1. g[r] # {}
  <2>1. h[r] = g[r] \/ g[r] # {}
    BY <1>0 DEF grid_shift, Rows
  <2> QED
    BY <2>1
<1>2. g[s] # {} /\ g[s - 1] # {}
  BY <1>0, <1>1 DEF IsStacked
<1>3. h[s] = g[s] \/ h[s] = g[s - 1]
  BY <1>0 DEF grid_shift
<1> QED
  BY <1>2, <1>3

(* Where the top row is empty, shifting a stacked grid down onto a row     *)
(* removes that row.                                                       *)
LEMMA ShiftRemoves ==
  ASSUME NEW g \in Grid, IsStacked(g), NEW idx \in Rows, g[idx] # {}, g[0] = {}
  PROVE  grid_shift(g, idx) = RemoveRow(g, idx)
<1> SUFFICES ASSUME NEW r \in Rows
             PROVE  grid_shift(g, idx)[r] = RemoveRow(g, idx)[r]
  BY DEF grid_shift, RemoveRow
<1>1. CASE r = 0 \/ r > idx \/ \A k \in r .. idx : g[k] # {}
  BY <1>1 DEF grid_shift, RemoveRow, Rows
<1>2. CASE r # 0 /\ r <= idx /\ \E k \in r .. idx : g[k] = {}
  <2>1. PICK k \in r .. idx : g[k] = {}
    BY <1>2
  <2>2. k \in 0 .. GRID_ROWS - 2 /\ r \in 0 .. k /\ r - 1 \in 0 .. k
    BY <1>2, <2>1, GridAssumption DEF Rows
  <2>3. g[r] = {} /\ g[r - 1] = {}
    BY <2>1, <2>2, EmptyAbove
  <2> QED
    BY <1>2, <2>1, <2>3 DEF grid_shift, RemoveRow, Rows
<1> QED
  BY <1>1, <1>2, GridAssumption DEF Rows

-----------------------------------------------------------------------------
(* The inductive invariant.                                                *)

(* IInv gives the state the types the lemmas above ask for. *)
LEMMA Types ==
  ASSUME TypeOK, YFits
  PROVE  blk \in Block /\ grid \in Grid
BY DEF TypeOK, YFits, Block, Grid

(* The box main works with. *)
LEMMA NorthBoxIs == get_bbox(ORI_NORTH) = [x |-> 0, y |-> 0, sizex |-> 3, sizey |-> 2]
BY Boxes DEF ORI_NORTH

(* The block a pass starts with. *)
LEMMA Gamma == block_gamma \in Block /\ block_gamma.x = 0 /\ block_gamma.ori = ORI_NORTH
BY GridAssumption DEF block_gamma, Block, Orientation, ORI_NORTH

(* The state main establishes before its loop (main.c:74-90). *)
LEMMA InitIInv == Init => IInv
<1> SUFFICES ASSUME Init PROVE IInv
  OBVIOUS
<1>1. TypeOK
  BY Gamma, NorthBoxIs, GridAssumption
  DEF Init, TypeOK, grid_clear, Block, Box, Cols
<1>2. YFits /\ NorthBox
  BY Gamma DEF Init, YFits, NorthBox, Block
<1>3. Stacked
  BY GridAssumption DEF Init, Stacked, IsStacked, grid_clear, Rows
<1> QED
  BY <1>1, <1>2, <1>3
  DEF IInv, Init, FloorTested, LockReason, FreshBlock, LocksOnContact

(* hw->loop and the floor test (main.c:92-96). *)
LEMMA PollIInv ==
  ASSUME IInv, NEW pressed \in SUBSET Buttons, Poll(pressed)
  PROVE  IInv'
<1>1. blk' \in Block
  BY Types, DoAction DEF IInv, Poll
<1>2. TypeOK' /\ YFits'
  BY <1>1, GridAssumption DEF IInv, TypeOK, YFits, Poll, Block, Cols
<1>3. NorthBox'
  BY DEF IInv, NorthBox, Poll
<1>4. FloorTested' /\ LockReason'
  <2>1. bbox.x = 0 /\ bbox.sizex = 3 /\ blk'.x \in Nat
    BY <1>1, NorthBoxIs DEF IInv, NorthBox, Block
  <2>2. pc' = IF blk'.x = FLOOR THEN "lock" ELSE "fall"
    BY <2>1, GridAssumption DEF Poll, FLOOR
  <2> QED
    BY <2>2 DEF FloorTested, LockReason
<1>5. Stacked'
  BY DEF IInv, Stacked, Poll
<1>6. FreshBlock' /\ LocksOnContact'
  BY DEF Poll, FreshBlock, LocksOnContact
<1> QED
  BY <1>2, <1>3, <1>4, <1>5, <1>6 DEF IInv

(* Gravity and the collision test (main.c:100-106). *)
LEMMA FallIInv ==
  ASSUME IInv, NEW due \in BOOLEAN, Fall(due)
  PROVE  IInv'
<1>1. blk' \in Block
  BY Types DEF IInv, Fall, Block
<1>2. TypeOK' /\ YFits'
  BY <1>1, GridAssumption DEF IInv, TypeOK, YFits, Fall, Block, Cols
<1>3. NorthBox' /\ Stacked'
  BY DEF IInv, NorthBox, Stacked, Fall
<1>4. PICK hit \in block_collides(blk', grid) : pc' = IF hit THEN "lock" ELSE "draw"
  BY DEF Fall
<1>5. /\ hit => (Touches(blk', grid) \/ ReadsPastGrid(blk'))
      /\ ~hit => ~Touches(blk', grid)
  BY <1>4 DEF block_collides
<1>6. grid' = grid
  BY DEF Fall
<1>7. LockReason' /\ LocksOnContact'
  BY <1>4, <1>5, <1>6 DEF LockReason, LocksOnContact
<1>8. FloorTested' /\ FreshBlock'
  BY <1>4 DEF FloorTested, FreshBlock
<1> QED
  BY <1>2, <1>3, <1>7, <1>8 DEF IInv

(* A block is locked and the next one created (main.c:108-110). *)
LEMMA LockIInv ==
  ASSUME IInv, Lock
  PROVE  IInv'
<1>1. grid' \in Grid
  BY Types, AddType DEF IInv, Lock
<1>2. TypeOK' /\ YFits'
  BY <1>1, Gamma, NorthBoxIs, GridAssumption
  DEF IInv, TypeOK, YFits, Lock, Block, Grid, Box, Cols
<1>3. NorthBox'
  BY Gamma DEF NorthBox, Lock
<1>4. Stacked'
  BY Types, AddStacked DEF IInv, Lock, Stacked, LockReason
<1>5. FloorTested' /\ LockReason' /\ FreshBlock' /\ LocksOnContact'
  BY DEF Lock, FloorTested, LockReason, FreshBlock, LocksOnContact
<1> QED
  BY <1>2, <1>3, <1>4, <1>5 DEF IInv

(* One iteration of the scan for full rows (main.c:112-117). *)
LEMMA ClearRowIInv ==
  ASSUME IInv, ClearRow
  PROVE  IInv'
<1>1. i \in Rows
  BY GridAssumption DEF IInv, TypeOK, ClearRow, Rows
<1>2. grid' \in Grid
  BY <1>1, Types, ShiftType DEF IInv, ClearRow
<1>3. TypeOK' /\ YFits'
  BY <1>1, <1>2, GridAssumption DEF IInv, TypeOK, YFits, ClearRow, Grid, Rows
<1>4. Stacked'
  BY <1>1, Types, FullNotEmpty, ShiftStacked DEF IInv, ClearRow, Stacked
<1>5. NorthBox' /\ FreshBlock' /\ LocksOnContact'
  BY DEF IInv, ClearRow, NorthBox, FreshBlock, LocksOnContact
<1>6. FloorTested' /\ LockReason'
  BY DEF ClearRow, FloorTested, LockReason
<1> QED
  BY <1>3, <1>4, <1>5, <1>6 DEF IInv

(* The end of a pass (main.c:122-141). *)
LEMMA DrawIInv ==
  ASSUME IInv, Draw
  PROVE  IInv'
BY DEF IInv, TypeOK, YFits, NorthBox, FloorTested, LockReason, FreshBlock, Stacked,
       LocksOnContact, Draw

(* Steps that change nothing. *)
LEMMA StutterIInv ==
  ASSUME IInv, UNCHANGED vars
  PROVE  IInv'
BY DEF IInv, TypeOK, YFits, NorthBox, FloorTested, LockReason, FreshBlock, Stacked,
       LocksOnContact, vars

(* Every step preserves the invariant. *)
LEMMA NextIInv == IInv /\ [Next]_vars => IInv'
BY PollIInv, FallIInv, LockIInv, ClearRowIInv, DrawIInv, StutterIInv DEF Next, Stop

(* Every reachable state of the main loop satisfies the invariant. *)
THEOREM Invariance == Spec => []IInv
BY InitIInv, NextIInv, PTL DEF Spec

-----------------------------------------------------------------------------
(* The results.                                                            *)

(* Type correctness of the main loop's state (main.c:66-143). *)
THEOREM TypeCorrect == Spec => []TypeOK
<1>1. IInv => TypeOK
  BY DEF IInv
<1> QED
  BY <1>1, Invariance, PTL

(* The shifts of block_collides and block_add never lose a cell of the     *)
(* block, although rotating checks no boundary (buttons.h:34).             *)
THEOREM ColumnsAlwaysFit == Spec => []ColumnsFit
<1>1. IInv => ColumnsFit
  BY Types, BlockRowFits DEF IInv, ColumnsFit, Block
<1> QED
  BY <1>1, Invariance, PTL

(* No locked row ever hangs over an empty one (main.c:106-117). *)
THEOREM AlwaysStacked == Spec => []Stacked
<1>1. IInv => Stacked
  BY DEF IInv
<1> QED
  BY <1>1, Invariance, PTL

(* Every row that main clears is removed, where the top row is empty, in   *)
(* spite of grid_shift's early stop (tetris.c:67).                         *)
THEOREM ShiftsRemoveRows == Spec => []ShiftIsRemoval
<1>1. IInv => ShiftIsRemoval
  <2> SUFFICES ASSUME IInv, pc = "clear", grid_check(grid, i), grid[0] = {}
               PROVE  grid_shift(grid, i) = RemoveRow(grid, i)
    BY DEF ShiftIsRemoval
  <2>1. i \in Rows
    BY GridAssumption DEF IInv, TypeOK, Rows
  <2> QED
    BY <2>1, Types, FullNotEmpty, ShiftRemoves DEF IInv, Stacked
<1> QED
  BY <1>1, Invariance, PTL

(* Between two passes no block but a new one rests on a locked cell        *)
(* (main.c:106).                                                           *)
THEOREM ContactLocks == Spec => []LocksOnContact
<1>1. IInv => LocksOnContact
  BY DEF IInv
<1> QED
  BY <1>1, Invariance, PTL

(* A block gets below the floor row only by DOWN while it faces west on    *)
(* that row (main.c:94, buttons.h:29).                                     *)
THEOREM EscapeFacingWest == Spec => EscapesOnlyFacingWest
<1> DEFINE A == ~Escaped /\ Escaped' =>
                  pc = "loop" /\ blk.ori = ORI_WEST /\ blk.x = FLOOR
<1>1. ASSUME IInv, [Next]_vars, ~Escaped, Escaped'
      PROVE  pc = "loop" /\ blk.ori = ORI_WEST /\ blk.x = FLOOR
  <2>0. blk \in Block /\ blk.x \in Nat /\ blk.x <= FLOOR /\ blk'.x > FLOOR /\ FLOOR \in Nat
    <3>1. blk \in Block /\ blk' \in Block
      BY <1>1, Types, NextIInv DEF IInv, TypeOK, YFits, Block
    <3> QED
      BY <1>1, <3>1, GridAssumption DEF Escaped, FLOOR, Block
  <2>1. CASE \E pressed \in SUBSET Buttons : Poll(pressed)
    BY <2>0, <2>1, DoAction DEF Poll
  <2>2. CASE \E due \in BOOLEAN : Fall(due)
    <3>1. blk.x # FLOOR
      BY <1>1, <2>2 DEF IInv, FloorTested, Fall
    <3>2. blk'.x = blk.x \/ blk'.x = blk.x + 1
      BY <2>0, <2>2 DEF Fall, Block
    <3> QED
      BY <2>0, <3>1, <3>2
  <2>3. CASE Lock
    BY <2>0, <2>3, Gamma DEF Lock
  <2>4. CASE ClearRow \/ Draw \/ Stop \/ UNCHANGED vars
    BY <2>0, <2>4 DEF ClearRow, Draw, Stop, vars
  <2> QED
    BY <1>1, <2>1, <2>2, <2>3, <2>4 DEF Next
<1>2. IInv /\ [Next]_vars => [A]_vars
  BY <1>1
<1> QED
  BY <1>2, Invariance, PTL DEF Spec, EscapesOnlyFacingWest
=============================================================================
