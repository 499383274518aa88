# Verification of the ECE385 repository

TLA+ models of the programs and circuits of this repository, the TLC
configurations that check them on small instances, and theorems checked by the
TLA+ proof system. The centre is the final project, a Tetris game on an FPGA
(`src/FinalProject`): a game engine in SystemVerilog and a USB keyboard host in
C on a soft processor. The labs that led to it are modelled, too: an adder, a
bit-serial processor, a multiplier, the SLC-3 computer, a ball on a screen and a
text display.

All paths below are under `src/`.

## 1. The system

### Final project

    keyboard --USB--> MAX3421E --SPI--> Nios II: main.c, transfer.c, HID.c
                                           |
                                   keycode PIO (8 bits)
                                           v
    VGA_controller --VGA_VS (frame clock)--> ball (engine) <-- lsfr (random type)
          |  DrawX, DrawY                      |  gameboard, position, shape
          +----------> Color_Mapper <----------+        ^ tetromino_rom
                            |                  +--> score on the hex displays
                            v
                        VGA pins

| component | state | operations | interaction | what is hard, what makes it correct |
|---|---|---|---|---|
| **Engine** `ball.sv` | board, position, shape and the two shapes on the way, pending motion, `pressed`, counter, score | one process: reset, or a frame (decode the key, apply what is pending, gravity, landing, end, row clears) | reads the key code once a frame, from another clock domain; drives the color mapper and the displays | tests made in one frame and used in a later one; several non-blocking writes of one frame to the same rows, the last wins; indices off the board. The piece never overlaps the board, blocks are neither lost nor invented, full rows go, pieces land, a finished game stays finished |
| **Tetromino ROM** | none | table lookup | read by the engine and the mapper | the right four cells for each shape |
| **LFSR** | eight bits | shift each frame | its low three bits are the next type at a landing | a wrong tap shortens its cycle; every type comes up |
| **Main loop** `main.c` | running and error flags, remembered class, key code, LED 9 | poll the interrupt pin, run `USB_Task`, poll the device | writes the key code PIO the engine reads | flags remembered over an exchange of devices; the key code survives the keyboard |
| **Enumeration** `transfer.c` | task state, settle deadline, device table, address being given | `USB_Task`, one step a pass; transfers with retries | its task state is also written by the interrupt handler | two writers of the task state; partial failures; table entries; a clock that wraps |
| **HID driver** `HID.c` | HID record, endpoint records | probes, polls | fills the device table | one endpoint record shared by all addresses |
| **MAX3421E driver** | the controller's flags and registers | reset, bus probe, interrupt handler | writes the task state | a flag acknowledged without having been seen; a flag left over from long before |
| **Color mapper** | none | picture of board and piece | reads the engine in the middle of a frame | columns mirrored the same way as the board |
| **VGA controller** | pixel and line counters, sync registers | count | its vertical sync clocks the engine | counters in range, one pulse a frame |
| **Top level** `lab62.sv` | wiring | | | |

### Labs

Each lab is a board of its own.

| component | state | operations | what is hard, what makes it correct |
|---|---|---|---|
| **SLC-3 processor** (`ECE385_5`) | control state, PC, IR, MAR, MDR, registers, condition codes, LEDs, display, buttons | one control state a clock edge | microstates that share one bus; waits for the memory; the pause. The microstates of an instruction together do what the instruction says; a pause takes one press |
| **SLC-3 memory** | RAM, loader | write a program, read, write | a reset in the middle of a load. When the loader is done the program is in the RAM; the test programs show the right results |
| **Multiplier** (`ECE385_4`) | A, B, X, control state | load, add, subtract, shift | signs, the last step, repeated multiplications without a load. Eight steps give the signed product |
| **Serial processor** (`ECE385_2.2`) | A, B, control state | eight shifts | each shift routes one bit. The words come out as the word operation says |
| **Adders** (`ECE385_3`) | output register, button state | one addition a press | carries foretold over groups of bits. The three adders agree; one press adds once |
| **Ball** (`ECE385_6.2`) | position, motion | bounce or steer, every frame | a key at an edge. The ball stays on the screen under every key |
| **VGA controller** (6.2, final project) | pixel and line counter, sync registers | count | its vertical sync is the clock of ball and engine: a step must fall outside the picture |
| **Text controller** (`ECE385_7.2`) | on-chip memory, palette; a driver in C | byte and word writes | two colours share a word of palette; the memory behind the registers. A colour written stays, a string shows as drawn |
| Lab 6.2 USB host, Lab 7.1 text controller, Lab 6.1 | | | see *Not modelled* |

## 2. Modules

| module | models |
|---|---|
| `TetrominoRom` | `tetromino_rom.sv`: the shapes as sets of cells, and what the proofs use of them |
| `Tetris` | `ball.sv` |
| `TetrisPlay` | `Tetris` with three history variables, and the properties |
| `TetrisClaims` | what `readme.txt` says of the game |
| `TetrisProofs` | theorems about `TetrisPlay` |
| `Lfsr` | `LFSR.sv` |
| `UsbHost` | `main.c`, `USB_Task`, the HID probes, the MAX3421E handler, with the controller, bus and clock as environment |
| `UsbProofs` | theorems about `UsbHost` |
| `UsbClaims` | what comments of the host say of it |
| `UsbClock` | the arithmetic of the millisecond clock and the settle wait |
| `UsbTransfer` | `XferCtrlReq`, `XferInTransfer`, `XferDispatchPkt`, `kbdPoll`, packet by packet |
| `ReportChannel` | abstract: reports wait, and are seen once and in order |
| `UsbTransferProofs` | theorems about `UsbTransfer`, among them that it implements `ReportChannel`, and about `UsbClock` |
| `Slc3Word` | words, ALU and instruction fields, shared by the next two |
| `Slc3Isa` | abstract: the instruction set, one instruction a step |
| `Slc3` | control unit, data path, memory interface, loader and buttons, one clock edge a step |
| `Slc3Proofs` | theorems about `Slc3`, among them that it implements `Slc3Isa` |
| `Slc3Assembler`, `Slc3Programs` | the instruction builders and programs of `SLC3_2.sv` and `Instantiateram.sv`; the programs on the instruction set |
| `ProgramsProofs` | theorems about `Slc3Programs` |
| `Adders`, `Accumulator` | three adders gate by gate; the register around them |
| `AddersProofs` | theorems about both |
| `Multiplier`, `SerialProcessor` | Labs 4 and 2.2 |
| `SerialProofs` | theorems about `SerialProcessor` |
| `Ball`, `Video` | the Lab 6.2 ball; the VGA controller composed with it |
| `TextMode` | the Lab 7.2 driver and controller |
| `LabsProofs` | theorems about `Multiplier`, `Video` with its `Ball`, and `TextMode`, and about the circuits of `MCLabs` side by side |
| `MCTetris`, `MCTetrisTurns`, `MCUsbHost`, `MCUsbTransfer`, `MCSlc3Cpu`, `MCLabs` | instances for TLC |

`UsbTransfer` opens what is one step in `UsbHost`; `MCUsbTransfer` puts the two
users of the millisecond clock, transfers and the settle wait, side by side.
`Slc3Programs` runs on `Slc3Isa`, which `Slc3` implements, so that what holds of
the programs there holds on the processor for a user who lets the loader finish
before pressing Run. `Video` composes `Ball` with the
counters that clock it. `MCLabs` only puts boards next to each other that share
nothing.

### The engine

Variables have the names of the registers. A board row is the set of columns
whose bit is 1, so that `gameboard[r][x +: 4]` is a window of a set. `Reset` is
the asynchronous reset, `Frame(k)` a rising edge of the frame clock with key
code `k`: it decodes the key with the test wires of this frame, adopts shape
and type, moves the piece (`Coast`, `Fall`, `Land` or `GameOver`) and settles
board and score, all from the values before the edge, as non-blocking
assignments do. Where several assignments of one frame hit the same register,
the definitions say which one wins: gravity overrides a pending move down, the
END picture overrides the landing, a row clear overrides both inside the rows it
moves, and its points replace those of the landing.

Three things of the hardware are choices rather than functions: a bit read from
outside the array (the parked piece, and shapes turned at a wall) is undefined,
so a test that depends on it may go either way; a write outside the array is
lost; a slice that reaches over the edge of the word adds undefined bits.
`Init` is the reset state with the registers that reset forgets at zero, as they
power up. The Lab 6 ball registers that the process still drives, and that
nothing reads, are left out.

Keys are named by what they do; every other code is `"None"`. Geometry is a
parameter: field width, depth, word and position widths, spawn column, END
picture, gravity threshold and the points. The assumptions in `Tetris` say what
the real values satisfy and the instances keep: the walls leave room for the
window of a piece inside the word, two spare rows lie below the floor, a new
piece has a free column on either side and a row below its window, the END
picture fills no row and leaves no room to start.

The piece *can* come to overlap the board, in ways the violation runs show. The
safety properties therefore speak of play that is *intact*: `TetrisPlay` records
whether every change so far either was applied as it was tested, or is one that
the code never tests (new type, new piece, rows moving under the piece) and did
no harm. This is not a restriction to nice inputs: every key at every frame
is allowed, and the properties say that what the code tests, it tests rightly,
and tests again while a key is held and the piece falls. But it is a limit of
what they say: a move or a turn that was tested before the piece fell and is
applied after that ends intact play at once, whether it overlaps anything or not
(`ball.sv:165`, `:238`). The code does nothing against it, and nothing in the
repository says that it should.

A new game inherits the pending motion, turn and type of the one before
(`ball.sv:84`), and its first frame applies all three without a test. This frame
(`FirstFrame`) does not end intact play: that it is harmless is part of
`NoOverlapWhileIntact`.

### The USB host

`pc` names the part of the polling loop that runs next: `reset` and `clear`
(`MAX3421E_init`, before and after its probe), `irq` and `ack` (the interrupt
handler, before and after its acknowledgement), `task` (`USB_Task`), `app` (the
rest of the loop). Task states keep their codes, because the handler adds one to
them. `Attach`, `Detach`, `BusResetDone`, `OscOk`, `Tick` and
`ClockWrap` are the environment and come at any point.

Abstractions: transfers are atomic, and succeed only if a device listens at the
address; under `Lossy` they may fail then, too, a failed SetAddress with or
without having set the address. Of a probe only its outcome counts: not found,
filled in and failed, or configured. The line state follows the plug; `Glitch`
adds the illegal state. The frame flag of the controller is left out, since the
code never depends on it. The clock is known by where it stands to `usb_delay`:
past it, the deadline is ahead, or it lies beyond the last value before the wrap.
`UsbClock` has the arithmetic behind these three. The end of a bus reset may
raise the connection flag, as the comment at `MAX3421E.c:142` says.

### Transfers

`UsbTransfer` follows one transfer: `stage` says which packet of a poll or of a
control request is under way, `busy` that the controller carries it, `HRSL` the
result while `HXFRDNIRQ` is up. The host's steps are what `XferDispatchPkt` and
its callers do with a result, the loop that waits for the flag being no step at
all; `Lost`, `NotReady`, `Corrupted`, `Sent`, `Setup`, `Status` are what the
controller and the bus may make of a packet. Both keep a data toggle: the device
sends again what was not acknowledged, and the controller drops it. The data
sheet leaves open what the controller reports of a packet with the wrong toggle;
the model allows a toggle error and a success without a packet. `Die` stops the
controller for good. An attempt takes less than a millisecond, which at the bus
speeds of the device it does, so that only a dead controller reaches the timeout:
`Tick` waits for the attempt. A device holds a bounded number of reports.

### The SLC-3

A step of `Slc3` is a clock edge in one of the 25 states of `ISDU.sv`. The
control signals are definitions over the state, as in its second process; the
registers are written from the bus as the signals say; a bus without a driver
reads as any word of `Undriven`. The RAM answers one edge after it has latched
an address, and its output register one edge later, as the megafunction is
generated. The buttons arrive through their synchroniser at any time; a reset
finds the processor in any state. The loader owns the RAM ports while it writes,
for 5 us after a reset, and does not stop the processor: with Run held after
Continue has been let go, the processor starts under the loader, fetches from the
loader's address and loses its stores (`slc3_sramtop.sv:50`). The history variable
`muddled` marks the instruction to which that happens, up to its end or a reset;
`ImplementsIsa` says nothing of its edges, and everything of the next one.

`Slc3Isa` is what a programmer sees: PC, registers, condition codes, memory,
display, and whether the machine is halted, runs or is paused. The refinement
mapping takes the PC back while an instruction is under way (the fetch has
advanced it already), and in `S_21` forward to where the jump will go (the link
was written one state earlier); all else maps to itself. So the instruction takes
effect in its last state, with everything before it a stutter.

### The other labs

The adders are built from gates as their sources are, an adder returning its
carry as the bit above the sum. Multiplier and serial processor keep their
operands in a history variable, to be compared with the result at the end of the
run. The multiplier reads its switches without a register: the user sets them
between runs (`Inputs`). The ball's coordinates are ten-bit words, -1 is 1023,
and the arithmetic has the widths of the source; `Video` clocks the ball with the
vertical sync it registers. `TextMode` is the driver one bus access at a time.
The palette registers cannot be read: the driver reads back the memory, which
takes every write, at the same address. `palette` and `shadow` are the two.

## 3. What the runs show

| run | shows | bounds and why they do |
|---|---|---|
| `tetris_moves` | intact play never overlaps, walls stand, a landing adds exactly the piece's four cells, a clear takes one row out and nothing else but, in the frame of a landing, what the piece had above it; full rows drain; what a reset leaves pending does no harm; a piece lands, whatever keys are held | field of 6 columns, depth 6, bar and square: two pieces fill a row, and moves fit between two falls. Landings while rows clear take a high score and a high pile: `LateInit`, a position that three squares lead to, is a second initial state, from which a bar lands in the frame of the second of two clears and is lost |
| `tetris_turns` | the same with both rotation keys; types, also of the parked piece that indexes the board out of range; the END picture stays | depth 5: a bar and a T turn next to walls, floor and pieces, with shapes held over frames; squares pile up to the end, and every key is pressed under the picture |
| `usb_host` | while running, the HID record, the table and the address agree; the LED tells; key codes come from keyboards only; a device that is pulled out is given up | keyboard and mouse, three plugs after the first device, two addresses, with failures, glitches and wraps |
| `usb_decides` | a device that stays is taken or refused for good, or the bus is reset for ever, or the wait lies beyond the wrap | one address, so that the table can be full |
| `usb_transfer` | polls implement `ReportChannel`; a control read that ends is complete; only a dead controller is given up, and a transfer always returns; the settle wait is never short, and ends if its deadline is on the clock | two limits of two, so that NAKs and bus timeouts mix; two packets, so that the toggle alternates; two reports, one held while the next is made; six milliseconds, so that a timeout of four begins before and ends after the wrap. For the settle wait a word of 128, so that the clock wraps ten times before the tick counter does |
| `slc3` | the processor implements `Slc3Isa`; one driver on the bus, none missing; a pause takes a press; a load is complete; instructions end | a RAM of 16 words whose program has every instruction, a branch that goes either way, a jump to the switches, and a store that is loaded back; resets, buttons and loads at any time, a run under the loader among them: its load is complete all the same, and of the instruction that meets it nothing else is said |
| `labs` | products, sums, bit-serial words, ball, sync, palette and text as they should be; every random type comes up; the test programs of the SLC-3 compute what they say | the real eight bits in multiplier, serial processor and random register, with switches at both signs' limits; the real ball on a screen of 13 by 12 in a raster of 17 by 16, so that each pixel is a state; four colours in two palette words, two cells; all of the programs of `Instantiateram.sv` in 256 words; two tables of data entered, with values that come twice |

Small counters (`MoveAt`, points, `ScoreMod`) make gravity steps, speed changes
and the wrap of the score happen within a few frames.

The violation runs show where the code and what is said of it differ:

| run | said | the code |
|---|---|---|
| `tetris_spawn` | the game goes on until a piece would start in an occupied space (`readme.txt:14`) | tests the landed piece's shape against the board without that piece |
| `tetris_drawn` | random pieces (`readme.txt:14`) | a held key keeps the old type |
| `usb_lost_edge` | detached means nothing is connected (`transfer.c:256`) | an edge between probe and acknowledgement is lost |
| `usb_stale_table` | a disconnection clears the device data (`MAX3421E.c:170`) | a left-over bus event skips that state |
| `usb_wrap` | settles 200 ms (`transfer.c:277`) | for ever, if begun just before the clock wraps |

The Tetris ones use the real board; `tetris_drawn` lowers only the gravity
threshold, from 63 to 7.

Other differences show in the definitions without a run: W is commented out in
`ball.sv:221`, where `readme.txt:11` has WASD move the piece (in `DecodeKey` W is
as no key); the score goes on counting under the END picture, where
`readme.txt:15` says the game ends (`GameOver` parks the piece and leaves gravity
on); `transfer.c:298` waits for the first start of frame with `|` where `&` is
meant (`TaskSof`); a connection served together with a bus event skips setting
the settle time of `transfer.c:277` (`ServeInterrupt`); the error state is masked
to 0xf0 and reaches the default branch of which `transfer.c:382` says that it
never is (`TaskIdle`); the comment at `transfer.c:190` gives fe for a timeout,
while the code hands on 0xff (`GiveUp`); `VGA_controller.sv:98` names lines 490
and 491, while the pulse is registered a line earlier (`VSync`).

### Fairness

Engine: frames never stop (`WF` of a frame), because the VGA controller runs
freely; nothing is assumed of the keys. `PiecesLand` is about intact play, so
its fairness is that of a frame of intact play. Host: the loop, the controller's
bus reset and oscillator and the clock go on (`WF` each). `usb_decides` assumes
two things that timing gives and fairness does not: no plug moves in the few
microseconds between a probe and its acknowledgement, and the clock does not
wrap between the end of a settle time and the next look at it. It does not
assume that the race between the end of a bus reset and `USB_Task` is ever won;
losing it for ever is one of the outcomes.

Transfers: the host looks at the flag or at the clock again and again (`SF` of
its step, since the clock moves it in and out of being enabled), the
controller ends the attempts of a live bus and the clock goes on (`WF`). The
settle wait: the timer ticks (`WF`), and the loop looks often enough to see a
passed deadline before the next wrap (`SF`), 71 minutes later. The processor
and the random register have a clock (`WF` of its edge).

## 4. What is proved

Every invariant and action property that a passing run checks is also a theorem.
Each holds for every value of the constants that satisfies
the named assumptions of its module, which TLC evaluates on every instance.

### The engine (`TetrisProofs`)

For every geometry, picture, rate and set of types and keys that satisfies the
four assumptions of `Tetris`:

* `TypeCorrect`: `PlaySpec => []TypeOK`. The invariant is inductive as it
  stands. The argument goes by the parts of a frame: the bits of the tests are
  Boolean (`TestBits`), the decoder keeps its registers (`DecodeType`), a
  landing writes a board (`LockedType`), a row clear keeps it one
  (`SettleType`), and `EdgeType` puts them together for a frame.
* `GameOverFinal`: over the END picture the test for the end is always set,
  because the picture leaves no piece room at the spawn position
  (`NoRoomOnPicture`), so a landing writes the picture again; no row of it is
  full (`PictureHasNoFullRow`), so no clear touches it (`PictureStays`).
* `PlayOverlapsNothing`, `WallsStand`: neither is inductive, since the code tests
  in one frame and moves in a later one. `PlayInv` adds that the result of a test
  that is *fresh* (made against what it will be applied to) names a free target:
  `FreshMoveIsFree`, `FreshTurnIsFree`. A free target lies in the field, because
  walls and floor are bits of the board, so one cell of the piece next to the
  field would meet one of them. That a turned piece cannot jump a wall needs two
  facts of the shape table: its four cells hang together, and a turn keeps one
  cell in place (`ShapeAssumption`, of which TLC says that the table has it). A
  landing adds two disjoint numbers, nibble by nibble, which is their union.
  What a new game inherits moves its piece by at most a column and a row, where
  the margins of `GeometryAssumption` leave every shape free (`FirstFrameIsFree`).
* `ClearsDrain` needs the types only: of the rows full after a clear, those down
  to the one it took were full one row higher before (`ClearTakesARow`), and one
  below it can only be the work of a landing (`OnlyLandingsFill`).
  `BlocksAreConserved` also needs that play is intact; there the cells are counted
  by bijections, since a clear moves rows (`ClearTakesRow`), with what a landing in
  the same frame adds below the row (`LandingInClear`).

### The host (`UsbProofs`)

For any number of addresses and plugs, any device kinds and key codes, with or
without glitches, losses and clock wraps, from the one assumption `UsbAssumption`
of `UsbHost`: `HostTypes`, `RunningIsConfigured`, `LedIsRight` and `KeysAreTyped`
say that `TypeOK`, `ConfiguredWhileRunning`, `LedTellsRunning` and
`KeysFromKeyboard` hold.

None of the last three is inductive. They follow from `HostInv`, which adds
three facts that the code relies on and states nowhere:

* `FlagInv`: while `runningdebugflag` is set, the task state is running or one
  that a bus probe has just set, or one step of `USB_Task` after that; so `main()`
  always meets a state on which it takes the flag back before a second device can
  get as far as running (and before the error branch can turn the LED off under
  the flag). The handler's added step is why this needs the exact codes.
* `TableInv`: the entries of the device table in use are the lowest ones, and
  the last of them is the device that is being configured or runs; so the last
  entry in use, which `GetDriverandReport` returns, is the one that
  `hid_device.addr` names. That the last entry exists is `MaxOfAddresses`, from
  the well-foundedness of the natural numbers.
* `ClassInv`: whoever answers at the running address has the class in the
  table, since a plug or a bus reset takes the address away.

Each fact has a lemma for its step, with one case per action or group of
actions that leave it alone; `RunningEntered` and `RunningKept` say once what
the running state depends on.

### The transfers and the clock (`UsbTransferProofs`)

For any limits, timeout and clock with `TransferAssumption` and `ClockAssumption`:

* `OnlyTheDeadAreGivenUp`, from `TimeInv`: the time since the packet was
  dispatched, counted across at most one wrap, is at most the number of attempts,
  and these are fewer than the two limits together. NAKs and bus timeouts add up,
  and the assumption keeps their sum below the timeout.
* `PollsImplementChannel`: the polls implement `ReportChannel`, each step a step
  or a stutter. The reports that wait are a packet the controller holds, and then
  what the device holds; if the device's toggle is not the expected one, the first
  of those is a report the controller has had already, and does not count. The
  invariant says which toggles can meet which packets, at each stage.
* `ReadsAreComplete`: what has been read, what the controller holds and what the
  device still has to send are together the packets 1 .. `Packets`.
* `SettleIsNeverShort`: the product in the clock grows by at most what the ticks
  since the wait began account for (`ModuloGrows`), and a wrap only takes it back;
  so a clock past the deadline means that many ticks (`QuotientsApart`).

### The SLC-3 (`Slc3Proofs`)

For every RAM size, program that fits, power-up contents and bus noise:
`Slc3Types`, `BusIsDriven`, `PauseWaits` and `LoadCompletes` (the words written so
far are in the RAM, a reset included, which starts over) hold whatever the buttons
do. `Implements`: each edge is a step of `Slc3Isa` or a stutter, but for those of
an instruction under which the loader writes. Its invariant, `Slc3Invariant`, says
of each control state what the instruction in IR needs there, unless the loader
has written under it: that MAR holds the effective address, or that `latched` and
`q` are the words of the RAM at it, MDR the datum to be stored, BEN the branch
condition. One lemma for each group of instructions
shows that its last state makes the programmer's step from that.

### The test programs (`ProgramsProofs`)

The programs are proved the way a program is proved on paper: an assertion at
each address, which every instruction carries to the next (`Somewhere`, one
disjunct per program: `InXor`, `InMultiplier`, `InSort`, ...).

* Below that, what a builder makes is what the instruction set does with it: for
  all registers and offsets, the word of `opADD`, `opBR`, ... is taken apart again
  into its fields (`Fields` and the lemmas on `Sext`), so that an instruction at
  an address is `Sets`, `Stores`, `Goes`, `Links`, `Pauses` or `Shows`. `Layout`
  says which word of which program lies at which address.
* `TestsShowResults`. At the checkpoint of the XOR test the display shows the
  exclusive or, bit by bit, of any two words: `And` and `Not` work on the bits of
  the four digits of a word (`AndBits`, `NotBits`). In the multiplier, after k
  rounds R5 is R2 times the signed number that the k bits seen so far make
  (`Seen`), modulo 2^16; a round doubles it and adds the next bit, the first of
  which is subtracted (`SeenNext`).
* `SortSorts`, for the data of the program and any that the user enters instead.
  `Sorting` is the invariant of the two loops: the data from the bound of the outer
  loop on are in their places, and one of the largest of those before it travels
  with the inner loop. In the middle of an exchange, between its two stores, the
  RAM holds one datum twice; `Data` is the table as if both were done. At every
  instruction two functions that undo each other take it to the data that the sort
  was called with (`Reordered`), which the history variable `given` of
  `Slc3Programs` keeps; so each value is there as often as then (`SameCounts`).
  The board has ten switches, which `Mem2IO` extends with zeros (`SettingsFit`), so
  that the difference of two data never overflows (`Compare`).
* `DisplayIsRight`. The function finds its own pause instruction relative to a
  link, and rewrites it each round; the invariant says which number it carries.
  No program writes anywhere else but into the data (`CodeKept`).

The hypothesis (`TestRun`) says what a user starts: any of the programs
from the address the comments give, but the third input test. It adds to its own
pause instruction at each press and would turn it into another opcode in the end,
after which nothing is said of the RAM. `LabsProofs` takes the theorems over to
`MCLabs`, whose assumptions `SettingsFit`, `ProgramsLoaded` and `ChosenFit` are
this hypothesis.

### The adders (`AddersProofs`)

`LookaheadAdds`, `RippleAdds` and `SelectAdds`: each of the three adders gives
`a + b + cin`, for all words. A full adder adds by its eight cases, a nibble is
four of them, and a word four nibbles; for the lookahead adder the group signals
are shown to foretell the carry. `AddersAlwaysAgree` and `RunAddsOnce` are the
properties of the accumulator, and `AccTypes` its types.

### The other labs (`LabsProofs`, `SerialProofs`)

* `MultiplierMultiplies`, for all settings of the switches. `MulInv` says what the
  registers hold between the steps of a run: with X as its sign, A and B are the
  multiplicand times the bits used so far, so many halvings short of its place,
  and the bits not yet used (`Partial`). An addition uses the lowest bit of B
  (`UseBit`), nine bits are enough for it (`SumIsExact`), a shift halves
  (`ShiftHalves`), and the subtraction at the end gives the last bit its negative
  weight. B may be what another run left: nothing is assumed of it.
* `BallStays`, for every size of the screen. A position alone is not inductive:
  one pixel past an edge, the motion no longer heads for it (`Held`).
* `SyncStaysOutside`, `PictureNeverTears`, for every raster: `RasterInv` relates
  the registered pulses, a pixel behind, to the counters, and says that low pulses
  inside the picture are those of a reset, which left the ball at rest.
* `ColorsStay`, `TextShows`, for every table of colours and size of the screen:
  `ColorInv` says that the memory behind the registers, and a word read from it,
  have the colours, too; `TextInv`, that each cell holds its text but for one that
  is half drawn over another.

* `SerialWords`, for all bytes, functions and routes. After k shifts the upper
  k bits of each register are results and the others the operand's not yet shifted
  (`Passed`, `WordsComeOut` in `SerialProofs`).
* `CircuitsRunAlone`: a behaviour of `MCLabs` is one of each circuit's own
  specification, the resting ones stutter. `TypesHold` collects their types.

### Not proved

All liveness, which with fairness and `ENABLED` is beyond this prover: that
pieces land, devices are decided on, transfers return, the settle wait and the
instructions end and every random type comes up stay with TLC. So do programs of
other sizes: the data of the sort are sixteen words and its loops are counted out,
since induction over data needs theorems that the installed provers cannot
instantiate. The violations are counterexamples of TLC.

## 5. Hazards

`PROJECT.json` lists, at its line, what is hard to test in this code and the
properties that watch it; a note says where a property covers a part of it only.
One has none: a rotation that was accepted before the piece fell is applied where
nobody has tested it. The properties about intact play end there, by definition,
and no promise of the repository speaks of it.

Rows are seldom cleared in the frame of a landing. The landing starts the gravity
count over, so on the real board four rows are gone before the next step of
gravity unless a frame counts 21 or more, which takes a score of 81920.

## 6. Not modelled

* **Generated and vendored code.** Most lines of the repository are Platform
  Designer output, the Nios II HAL, board support packages, one copy of each per
  lab, and compilation databases. The USB host of Lab 6.2 is an earlier copy of the
  final project's. None of it is this repository's logic.
* **Color mappers, top levels, hex drivers.** Pictures and wiring without state;
  which pixel has which colour is layout.
* **HID descriptor parsing** is reduced to whether the class matches, since the
  rest of the host depends on no more of it.
* **Lab 7.1**, the monochrome text controller, is a register file with byte
  enables that is read back as written; the colour version stands for its driver.
  **Lab 6.1** blinks an LED: its accumulator is commented out.
* Metastability and the tearing of the key code between the two clock domains.

What could follow: host and engine composed through the key code register, where
the last key stays pressed when the keyboard is pulled out; the game of
`readme.txt` as a specification of its own, which intact play implements.
