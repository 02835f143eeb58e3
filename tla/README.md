# A TLA+ model of katetris

katetris is a falling-block game for an STM32F103 with an ST7789 panel and five
buttons, on the ChibiOS kernel; the same sources build as a simulation (SITL) on
SDL. This directory models the game, the concurrent parts of the STM32 build and
the parts of the kernel they rest on in TLA+, checks the models with TLC on small
instances, and proves the main safety properties with TLAPS for every value of the
constants.

## The system

| part | state | operations | interacts with |
|---|---|---|---|
| block and grid (`tetris.c`, `tetris.h`) | `grid[GRID_ROWS]` of bit masks, `block_t` | rotate, bounding box, collide, add, check a row, shift | main loop |
| button actions (`buttons.h`) | the block | move left, right, down, rotate | main loop |
| main loop (`main.c:66-143`) | grid, block, its box, score, time of the last gravity step | poll, floor test, gravity, collision, lock, clear rows, draw | all others |
| frame buffer (`display.c`) | pixels, `clear_flag`, stack of 16 boxes, mutex | clear, draw a rectangle, ask for a refresh, push, pop | main, video thread |
| video thread (`main.c:24-52`) | local box | take the mutex, send everything or box after box | frame buffer, panel |
| STM32 buttons (`impl_stm32.c:204-268`) | per button: line event, callback, timer, state | set-up, edge interrupt, timer callback | main loop polls `state` |
| STM32 panel driver (`impl_stm32.c:46-185`) | 64-pixel buffer | initialise, set a window, stream a box | video thread |
| clocks (`impl_stm32.c:300`, `impl_sitl.c:35-51`) | 16-bit system time; SITL start time | `millis` | gravity test |
| score text (`text.c`, `font.h`) | none | draw a number | frame buffer |
| SITL platform (`impl_sitl.c`) | button states | event loop, redraw | main loop |
| kernel: threads and mutexes (`chschd.c`, `chmtx.c`, `chthreads.c`) | ready list, priorities, owners and waiters of mutexes | create, sleep, suspend, resume, lock, unlock, timeout, return from interrupt | every thread, interrupts |
| kernel: virtual timers (`chvt.c`, `hal_st_lld.c`) | delta list, `lasttime`, the timer's registers | arm, set the alarm, serve its interrupt | sleeping threads, debouncing |
| LED thread (`main.c:14-19`) | the LED | toggle, sleep | none |
| helpers, test programs | | | none |

What is hard to test here: `main` (NORMALPRIO) preempts the video thread
(LOWPRIO) between any two instructions, and only part of what they share is
under the mutex; the kernel decides who runs from priorities that are lent and
given back along mutexes, and its timers are set against a 16-bit counter that
does not wait; button edges arrive during set-up and during debouncing; the game's rules rest on a bounding box that goes stale, on a collision test that
reads one row too far, and on a shift loop that stops early. The `hazards` of
`PROJECT.json` list them one by one, with the properties that would notice.

## Modules

**Tetris** – the algorithms of `tetris.c` and `buttons.h` as operators. A row of
the grid is the set of its one bits, so `<<` is addition, `|` union and `&`
intersection. `block_collides` is a *set* of results: where the code reads past
the grid either answer is possible. `grid_shift` is the closed form of the loop;
`RemoveRow` is the reference it is compared with.

**Game** – `main` as a state machine with the control points `loop`, `fall`,
`lock`, `clear` (one iteration of the `for` loop), `draw`. Any subset of the
buttons may be down in any pass and gravity may be due in any pass, so every
timing of player and clock is included. A lock that writes past the grid leads
to `undefined`, where the model stops, as nothing is known of the memory then.

**Debounce** – the interrupt and timer handlers of the buttons. The player, the
contacts and the edge detector are the environment. The history variable `lost`
keeps the parity of the edges that never reached `button_cb`. The constant
`PATIENT` is the set of the buttons whose player is restricted (no press or release
within the debounce time of another, contacts settled within it, not touched at
start-up). Enabling and disabling a line's events are the HAL's
`_pal_lld_enablepadevent` and `_pal_lld_disablepadevent`.

**Video** – frame buffer, mutex, flag, stack, `main` as their writer and
`thd_video` as their reader. Pixels are abstracted to *strips*, each of which holds
the set of marks drawn on it. The game is the picture it stands for, one of
`Pictures`, and starts with `FirstPicture`: the grid is empty, only block and score
are drawn. What the game does between two frames is left open: a move changes the
picture inside the box that is pushed, a lock replaces it by any in which a block
has just appeared. The floor test holds only for a block that has `moved`.
`VideoRuns` is the scheduler: the video thread runs only while `main` sleeps or
waits for the mutex. The pop is three steps (load, store, read), which is where
preemption hurts.

**Turns** and **Frames** – two abstract specifications. `Turns` is what the two
threads may count on: the video thread takes the mutex only while `main` sleeps, and
`main`, once it waits, has its turn as soon as the mutex is given back. `Frames` is
what the panel may count on: only strips of a whole frame are shown, and a refresh
shows every strip of one frame, which nobody paints meanwhile. `Video` implements
both; the mapping takes `vbuf` for the frame, `whole` for its being ready, `asked`
for the pending refresh and the strips still to send for those left.

**Kernel** – scheduler, threads and mutexes of ChibiOS. The state is one record `k`
(the running thread, the ready list, and of every thread its state, current
priority, message or object waited for, and mutexes), so that a kernel function is
an operator from record to record, as in the code, and an API call is one action,
as it is one critical section. Interrupt handlers (`Timeout`, `ResumeI`) make
threads ready without switching; `Epilogue` switches when the last one returns. A
thread that wakes disarms its timer when it runs, not when it is made ready, which
leaves room for the late timeout.

**Board** – `Kernel` with the game's use of it: `main`, the video thread and the
mutex of `vbuf`. It implements `Turns` too, so the scheduling rule that `Video`
assumes is one the kernel's algorithms give.

**Timers** – the tickless virtual timers: the delta list, the alarm in the compare
register of TIM2, and the interrupt handler. The counter advances (`Pass`) between
any two steps of the kernel, also inside a critical section. **Timeouts** is the
abstract specification: timers fire in the order of their deadlines, never early and
at most `LATE` ticks late. It has no other way for an armed timer to go, so a
callback that comes early or out of order is no step of it.

**Clock** – `millis` of either platform and the gravity test, in true time. It
justifies `Game`'s assumption that gravity becomes due again and again, and
says when a step comes early or late.

**Picture** – what `update_block` asks for against what `block_draw` changes, in
cells of the grid. `Video` takes for granted that a move changes nothing outside
the box it pushes; this module shows it.

**Panel** – `update_rect_stm32` pixel by pixel: the address window, the static
buffer of 64 pixels, the last, partly filled buffer. A pixel's colour is
abstracted to the place it was read from, so a pixel that ends up elsewhere shows.
That the panel fills its window row by row and then starts again is external.

**Text** – the font, the digits of the score, the box pushed for it, and what
`block_draw` and `grid_draw` draw in the same place: the score's corner is three by
three cells, and every block appears in it. Where the block goes and how high the
grid has grown are choices from the constants `Places` and `Heaps`.

**Sitl** – SDL's event queue, `loop_sitl` and the redraw from `main`. `loop_sitl`
ignores the result of `SDL_PollEvent`; with an empty queue it handles an
uninitialised event, which is any event in the model. The history variable
`misread` marks the buttons that such an event has set.

**MCGame, MCDebounce, MCVideo, MCBoard, MCTimers, MCClock, MCPicture, MCPanel,
MCText, MCSitl** – instances for TLC. **MCMovesShown** – `MCVideo` with a history
variable: the panel has shown the whole picture and since then the block has only
moved. **TetrisProofs** – lemmas about the block.
**GameProofs, DebounceProofs, VideoProofs, PictureProofs, SitlProofs,
TimersProofs** – theorems. Definitions named
`<definition>_<Change>` are deliberately wrong variants; replacing a definition
by its variant must break the property it is paired with in `PROJECT.json`.

## Runs

| run | instance | checks |
|---|---|---|
| game | 5 rows, 4 columns, score up to 2 | `ColumnsFit`, `Stacked`, `ShiftIsRemoval`, `LocksOnContact`, `EscapesOnlyFacingWest`, `BlocksLand`, `FullRowsGo` |
| debounce | 3 buttons, one with a patient player, arbitrary edges on the others | `OneWindow`, `StateTracksLevel`, `Debounced`, `PressesArrive` |
| video | 2 strips, 3 pictures, stack of 2 | `TypeOK`, `WholeFrames`, `RefreshKept`, `MutexReturned`, `RefreshHappens`, `ScoreShown`, `TakesTurns`, `ShowsFrames` |
| board | 5 threads of 4 priorities, 2 mutexes | `ListsExact`, `HighestRuns`, `PriorityExact`, `VideoYields`, `HandedToHighest`, `MessageKept`, `TakesTurns` |
| timers | 2 sleeping threads, 1 button, wrap at 10 ticks | `DeltasExact`, `AlarmSwitched`, `KeepsDeadlines` |
| clock | both platforms; second and period of 100 ms, 2 ticks per ms, wrap at 256 ticks | `NotOverdue`, `SitlOverdueBound`, `EarlyOnlyAtWrap` |
| text | the real font and grid, 3 places of the block, 2 heaps, scores up to 280, option `SHIFT_CLEAR` off | `TextRefreshed`, `DigitReadable` |
| panel | 6 columns, 8 bytes of 4 rows, buffer of 8 | `BoxSent`, `NeverMisplaced` |
| picture | 5 rows, 13 columns | `MovesCovered` |
| sitl | 2 keys, queue of 3, stack of 3 | `StatesTrackKeys`, `WindowCurrent`, `QuitHonoured` |
| moves_shown | as video, stack of 3, boxes of moves that hold both strips | `MovesShown` is violated |
| shift_clears | as moves_shown | `ShiftClears` is violated |

*Bounds.* Five rows hold a block on top of a block that lies flat, so that
locking on contact, locking on the floor, a stack up to the top row and adjacent
full rows all occur; three visible columns can be filled. `MAX_X` lets a block
that went through the floor leave the grid completely. `MAX_SCORE` = 2 includes
two rows cleared by one lock and a full row left for the next pass. Two strips
are the score's box, where every block appears, and the rest of the picture; the
block is in the first, in the second or in both, where it may also be the grid; a stack of two or three boxes is filled by the
pushes of one pass. Buttons do not influence one another except during set-up,
where each waits for the one before. The clocks run through several wraps or seconds; the
lengths are scaled down so that a second still counts a tenth of its milliseconds,
a period does not divide the wrap and the rounding of `TIME_I2MS` shows. The wrap
is shortened to little more than a period (six and a half on the board), so it is
met more often. The board has, besides the game's threads and its one mutex, a
thread above `main` that waits with and without a timeout and a second mutex, which
may be held while sleeping or while asking for the first: with the game's own calls
alone no chain of lent priorities and no late timeout would ever arise. The timers'
counter wraps within two delays; delays below and above the debounce time
put a new timer first, in the middle and last.
The panel keeps the relation of the source's sizes: the buffer does not divide a
row of pixels (64 and 240) but divides the rows of a byte (8 * 240), also for the
score's box (8 * 40). Thirteen columns leave cells on either side of an update box
of seven. A queue of three puts a request to quit behind other events.

*Assumption on the timers.* `SLACK` bounds the ticks that pass in a row while the
kernel is at its timers or an interrupt waits: here 2, which on the board is 200 µs
and is the margin the kernel is configured for (`CH_CFG_ST_TIMEDELTA`, chconf.h:103).
`LATE` = `TIMEDELTA` + 2 `SLACK` is the least bound that holds in the instance.

*Fairness.* `Board` and `Timers` are checked for safety and refinement only. `Game`: the main thread never stops, and since every pass sleeps for
10 ms a gravity step becomes due again and again (strong fairness of `Fall(TRUE)`).
Nothing is assumed of the player. `Debounce`: interrupts, timers and the set-up
are served, a contact does not bounce for ever. `Video`: weak fairness of `main`;
strong fairness of the video thread, because it is enabled only while `main`
sleeps or waits, which happens in every pass. `Sitl`: weak fairness of `main`,
which waits for nothing but its delay; none of the player.

*Deadlock* is checked in every run. `Game` has an explicit step `Stop` for the
two places where a modelled behaviour ends.

## What the runs show

- The rules hold up: rows never hang in the air, except that the bottom row may
  be skipped (a west-facing block stops one row early); `grid_shift` removes
  rows properly in spite of its early stop as long as the top row is empty;
  contact always locks; unchecked rotation never shifts a cell out of the row.
- There is exactly one way through the floor: DOWN with a west-facing block that
  gravity has put on the floor row.
- A full row that the scan steps over is removed by a later lock.
- A button's state is inverted exactly when an odd number of its edges was lost,
  for instance a release within 50 ms of the press; for a patient player it is right.
- Only whole frames reach the panel. The mutex alone does not give this, since
  it is released after every rectangle; it needs the lower priority of the
  video thread.
- The unlocked stack stays in bounds and the pushes in `main` itself never meet
  a pop; the push in `loop_stm32` can, and may then overwrite the box that is
  being popped. `ScoreShown` makes this exception explicit.
- The kernel gives what `Video` takes for granted: the video thread never runs while
  `main` is ready, also when it has inherited a priority, when interrupts make
  threads ready, and when other threads compete. Lent priorities are exact along
  chains of mutexes at every moment, and a mutex goes to its highest waiter.
- A timeout that fires after its thread was woken changes nothing, neither the
  ready list nor the message.
- Timers fire in order, never early and at most `LATE` ticks late, in spite of the
  wrap, of ticks passing while the alarm is set, and of buttons that arm timers
  between two callbacks.
- Two limits of the timers show when the assumptions are dropped; the game stays
  inside both. `vt_insert_first` computes its second alarm from the *old* time
  (`chvt.c:182-187`), so if three ticks pass between reading the counter and checking
  the alarm, the alarm lies in the past and the timer is a whole wrap late;
  `TimersAssumption` therefore asks for `SLACK` of at most `TIMEDELTA`. And
  `lasttime` may fall behind by more than a wrap with delays above `VT_MAX_DELAY`
  or when timers are disarmed again and again; the game's longest delay is 5000 of
  65280 ticks and, by `OneWindow`, no armed timer is ever disarmed.
- On the STM32 gravity is never overdue, although the system time wraps every
  6.5 s; at a wrap a step may come early. SITL's `gettime` multiplies the
  seconds by 100, so its clock goes back every second: a step may follow the
  last one within a pass, or be late by less than a second; only the first may
  be late by more (less than two).
- The boxes of `update_block` hold everything a pass changes, whatever mixture of
  buttons and gravity it was. What a frame drawn without `vbuf_clear` leaves
  behind is the exception; see `ShiftClears`.
- The driver sends its last, partly filled buffer whole (`impl_stm32.c:181`),
  which would put old pixels at the start of the window. It never does so in the
  game: every box has a multiple of 64 pixels.
- The score's box keeps the score current without `SHIFT_CLEAR` as well. Digits
  are drawn one over the other, so only scores of one digit are readable, and the
  8-bit argument starts again at 256. The block that has just appeared, and a
  grid that has grown to the top, are drawn over the score, which can be read
  again as soon as they are gone from its corner. In a pass that skips
  `vbuf_clear` the old frame shows under the new one as well.
- In the simulation a button follows its key except for uninitialised events, which
  the key's next event puts right; closing the window always ends the program,
  but an uninitialised event may end it too.
- `MovesShown` fails: with a frame on the panel, the box of a button move is
  pushed, `main` sleeps 150 ms, and the box is sent from that old frame. The new
  frame is drawn afterwards; of it only the score's box is sent, from which the
  block has just gone, and the panel shows no block at all until the next move. `tetris.c:103` says the box is there
  "to clear previous position and draw new one".
- `ShiftClears` fails: the jump from the floor test skips `vbuf_clear`, so the
  refresh shows the old picture under the new one. `CMakeLists.txt:13` calls the
  option "Clear screen when shifting grid".

## Proofs

All theorems hold for every value of the constants that satisfies the named
assumptions: `GridAssumption` (a block fits the grid), `BoundAssumption`, `PictureAssumption`,
`DebounceAssumption`, `VideoAssumption` (boxes are sets of strips, the first
picture is one of the game's, the stack has room for one), `SitlAssumption`, `TimersAssumption`.

*GameProofs.* `IInv` adds to the properties what makes them inductive: the
block's column is at most `GRID_COLS - 3` (`YFits`); `bbox` is always the box of
the north-facing block (`NorthBox`); after the floor test a block is not on the
floor row (`FloorTested`); a block about to lock is on the floor row, touches a
cell, or had the test read past the grid (`LockReason`). `AddStacked` and
`ShiftStacked` then carry `Stacked` through locking and shifting, `ShiftRemoves`
compares `grid_shift` with `RemoveRow`, and `DoAction` bounds one poll of the
buttons (in *TetrisProofs*). Theorems: `TypeCorrect`, `ColumnsAlwaysFit`, `AlwaysStacked`,
`ShiftsRemoveRows`, `ContactLocks`, `EscapeFacingWest`.

*DebounceProofs.* `OneWindow` and `StateTracksLevel` are inductive together;
`Clean` is the strengthening for the patient player. Theorems:
`AlwaysOneWindow`, `AlwaysTracksLevel`, `AlwaysDebounced`.

*VideoProofs.* `Exclusion` says at which points of `main` the video thread can
have the mutex and that the buffer is whole there; `NoneAskedInFull` that no
request arrives while the flag is about to be reset; `PopsSomething` that a pop
has a box. Theorems: `TypeCorrect`, `AlwaysWholeFrames`, `AlwaysRefreshKept`.
For the refinements `FlagInv` adds that the flag is set only when a refresh is asked
for or under way, and that no frame is whole before the first; `MainTurns`,
`VideoTurns`, `MainFrames` and `VideoFrames` then map each step of a thread to a step
of the abstract specification or a stutter. Theorems: `ImplementsTurns`,
`ImplementsFrames`.

*TetrisProofs, PictureProofs.* `DoAction` says that a poll moves the block by one
column at most; `BoxHolds` that a box holds every block at most one column from
its own. `Covers` states `MovesCovered` for every moment of a pass, which makes it
inductive. Theorem: `AlwaysMovesCovered`.

*SitlProofs.* `NewestIsKey` is the strengthening: the newest event of a key in the
queue tells where the key is now. Taking an event from the front keeps it, posting
one at the end renews it, and when the last event of a key is handled the button
gets the key's state. Theorems: `AlwaysTracksKeys`, `AlwaysCurrent`.

*TimersProofs.* `AlarmInv` adds the shape of the delta list and what each step of a
critical section knows of it (a first timer is inserted before its alarm is started,
a list is not empty while its alarm is set). Theorem: `AlwaysSwitched`.

Only model-checked: the liveness properties (fairness is outside the prover);
`Clock`, `Panel` and `Text`, whose properties are about arithmetic with division or
about the tables of the font; `Kernel` and `Board`, whose lending of priorities is a
recursion along the chain of mutexes; `DeltasExact` and `KeepsDeadlines`, which rest
on sums over the delta list, an induction over data; and the two violated properties.

## Not modelled

- **Most of `src/chibios`.** The tree holds the kernel and drivers for every
  processor and board it supports; nearly all of it is not compiled into the game.
  Of what is, the scheduler, threads, mutexes, virtual timers, the system timer's
  driver and the line events are modelled as far as the game calls them. Thread exit,
  changes of priority, trylock, condition variables, semaphores, events, messages,
  memory pools, continuous timers and the disarming of armed timers are not called.
  The SPI driver is a thread that suspends until an interrupt resumes it.
- **Liveness of the kernel.** That a ready thread eventually runs depends on the
  threads above it sleeping, which `Video` states as its fairness; it is not derived
  from `Kernel`, whose state graph is too large for it.
- **One module of everything.** `Game`, `Debounce`, `Video` and `Timers` are joined by
  their interfaces (held buttons, due gravity, pushed boxes, `Turns`, fired timers),
  not composed into one state space.
- The tables of function pointers, the test programs for the board, the start-up
  commands of the panel and of SDL, and the LED itself: they hold no state that
  anything else depends on.
