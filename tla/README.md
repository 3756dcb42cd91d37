# A formal model of lynxrecomp

lynxrecomp recompiles Atari Lynx cartridges to C and runs them on a runtime
that stands for the machine: CPU state, the two custom chips, interrupts, and
a TCP link in place of the ComLynx cable. This directory holds TLA+ modules of
that runtime, the TLC configurations that check them on small instances, and
TLAPS proofs of what holds for every instance.

Paths below are relative to the repository's root. `PROJECT.json` gives, for
every definition that models code, the lines it models.

## 1. The system

| component | state it keeps | operations | interacts with | what makes it correct |
|---|---|---|---|---|
| **UART**, `src/serial.c` | control bits, OVERRUN, a 256-byte ring with two indices | read/write of SERCTL and SERDAT, `rx_push`, reset, save, load | the interrupt latch (bit 4, shared with timer 4); the transmit hook | first in first out across wraps; a byte is lost only with OVERRUN; a waiting byte never loses its interrupt |
| **Timers and latch**, `src/timer.c` | four registers per timer in `lynx_mikey.reg`, a phase per timer, the latch | `lynx_timer_step`, acknowledge, raise, init, save, load | called by every `lynx_tick`; cascades in the order 0-2-4-1-3-5-7 | no time is lost or gained however it is sliced; the frame interrupt comes on time |
| **Mikey registers**, `src/mikey.c` | the register file | read, write, init | routes to UART, latch, audio; a DISPADRH write runs the host's frame hook *inside* the game's write | the routing |
| **Execution model**, `src/recomp_exec.c`, `recomp_rt.c`, `cpu.c` | CPU registers, the 6502 stack page, the C call stack | `lynx_tick`, `lynx_irq_deliver`, `lynx_rti`, dispatch | ticks are planted by the emitter at loop back-edges; the game never returns to the host | interrupts are delivered and invisible; the two stacks agree |
| **Save states**, `src/state.c` | none | save, load, and both with a file | serialises each component in turn | a load brings back what was saved |
| **Netplay session**, `frontend/src/mp_session.c` | eight static variables shared by two threads without a lock | host, join, disconnect, shutdown, the worker's accept or connect, link send and receive, state blob | driven by the menu and by the bridge | sockets have one owner; no worker outlives its session; the UI does not block |
| **Net bridge**, `frontend/src/net.c` | none | transmit hook, pump once a frame | UART on one side, session on the other | no byte overtaken, none lost in silence |
| **Menu**, `frontend/src/menu_overlay.cpp` | settings, key bindings, a pending rebind | windows, settings file | reads the session's state to choose its buttons; takes the input away from the game | offers Host and Join only when no attempt is running; a start finds the last complete save, or the defaults if one was cut short since; no button stays stuck |
| **Platform**, `frontend/src/platform_sdl.c` | held keys, the input of the last poll, SDL handles | init, present, poll, audio queue, shutdown | the host calls present and poll in turn; both call the menu | the game sees the buttons as the player holds them |
| **Audio**, `src/audio.c` | four channels: shift register, output, phase | step, register writes, reseed, sample | stepped by `lynx_tick` | the sound does not depend on how time is sliced |
| **Suzy**, `src/suzy.c` | register file | multiply, divide, sprite blit | reads and writes RAM under the register windows | exact arithmetic; the blitter ends; pixels land where they belong |
| **Memory, input, video**, `src/mem.c`, `input.c`, `video.c` | 64K of RAM, two pads | read, write, readout | routes to Suzy and Mikey | an address on the edge of a window goes to the right side |
| **Discovery**, `tools/m65c02recomp/analyze.c` | worklist, function table, labels | `analyze_discover` | seeds from `main.c`, decoder | it ends; each function once |
| **Emitter**, `emit.c` | boundaries of the function being written | `emit_functions` | its output calls the runtime | the output compiles, follows the processor, and its loops tick |
| **Decoder, interpreter**, `decode.c`, `interp.c` | the interpreter's registers | decode, step | the tools' other way to run a game | the same results as the emitted code |
| **Tools**, `lynxrun.c` and others | cartridge port, boot ROM overlay | read a cartridge, run, dump | interpreter | the loader gets the block it selected |

What is hard in it: two threads over plain variables in the session; a
receiver interrupt whose latch bit is shared and acknowledged before the byte
is read; interrupts delivered as C calls from inside the game's loops, so that
the C stack and the 6502 stack have to agree; save states taken from inside
the game's own write to a register; time that advances in slices that fit no
timer's period; a cable with no backpressure between the pump and the FIFO;
static analysis of code that may be data, where a wrong guess must still give C
that compiles; a sprite walk over arbitrary memory that has to end; and a
settings file that is rewritten while the program may be killed.
`PROJECT.json` lists these and others as hazards, each at its line, with the
properties that would catch it going wrong.

## 2. Modules

| module | models | checked by | proved in |
|---|---|---|---|
| `SerialQueue` | what the UART promises: a bounded queue, an OVERRUN flag, an interrupt | as the refinement target of `Serial` | `SerialProofs` |
| `Serial` | `src/serial.c`, one action per call, with the ring and its indices | `serial_game` | `SerialProofs` |
| `SerialGame` | `Serial` with a game that receives by interrupt, the bridge's pump, timer 4, save states and a restart | `serial_game` | `SerialProofs` |
| `Timer` | `src/timer.c` and the register writes of `src/mikey.c` | `cadence` | `TimerProofs` |
| `FrameCadence`, `MCFrameCadence` | `Timer` with timers 0 and 2 set up as the frame timer, a clock, and save states | `cadence` | `TimerProofs` |
| `Exec` | `src/recomp_exec.c`, flags and stack, with a game that pushes, masks and nests | `exec`, `exec_load` | `ExecProofs` |
| `MpSession` | `frontend/src/mp_session.c` and the menu's multiplayer window, one step per access to a shared variable or system call | `session_windows`, `session_cancel_posix`, `session_idle` | `MpSessionProofs` |
| `Cable` | what the network promises two games: a queue each way that loses bytes only behind a FIFO's worth of unread ones, flagged | as the refinement target of `Link` | `LinkProofs` |
| `Link` | two units: `net.c`, the relay of `mp_session.c`, and the UART as `SerialQueue` describes it | `link_roomy`, `link_blocked` | `LinkProofs` |
| `Code` | an image and the decoder | `recompile` | |
| `Discovery` | `analyze_discover`, one step per instruction decoded | `recompile` | `RecompiledProofs` |
| `Cpu` | the interpreter's control flow: what recompiled code has to do | as the refinement target of `Recompiled` | `RecompiledProofs` |
| `Recompiled`, `MCRecompiled` | the control transfers of `emit.c`, the dispatch of `recomp_rt.c`, and the emitted program as it runs | `recompile` | `RecompiledProofs` |
| `Alu` | registers and flags, by the helpers of `recomp_rt.h` as `emit.c` chooses them, and by `interp.c` | `console` | `ConsoleProofs` |
| `Suzy` | `src/suzy.c`, with the readout of `src/video.c` | `console`, `suzy_reload` | `ConsoleProofs` |
| `Audio` | `src/audio.c` | `console` | `ConsoleProofs` |
| `Frontend` | settings, bindings and input: `menu_overlay.cpp` driven by `platform_sdl.c` | `console` | `ConsoleProofs` |
| `Cart` | the cartridge port of `lynxrun.c`, with a loader | `console` | `ConsoleProofs` |
| `Bytes` | no code of its own: C's `&`, `\|` and `^` on a byte, bit by bit, for the three modules that use them | `console` | `ConsoleProofs` |
| `Console`, `MCConsole` | `Alu`, `Suzy`, `Audio`, `Frontend` and `Cart` behind the address map of `src/mem.c` | `console`, `suzy_reload` | `ConsoleProofs` |
| `Iteration` | no code: the facts about loops and division that the proofs of `TimerProofs`, `ConsoleProofs` and `RecompiledProofs` share | | itself |

Names follow the source: `rx_push` is `lynx_serial_rx_push`, `read_SERDAT` and
`write_SERCTL` are the branches of `lynx_serial_read` and `lynx_serial_write`,
`host_check` is the test of `s_cancel` after `accept`, and so on. A definition
whose comment says *a mutant* is not part of a specification: it is a plausible
bug of the definition that follows, and the property named for it in
`PROJECT.json` is violated when the definition is replaced by it. That is how
the project knows its properties say something about the code.

### Correspondence

* **Serial.** `ctrl`, `status_err`, `rx_fifo`, `rx_head`, `rx_tail` are the
  fields of `s`; `irq` is bit 4 of `lynx_irq_latch`. `rx_service`, which the
  code calls at the end of each receiver operation, is a conjunct of each of
  these actions. Parity, break and framing bits are left out: the code never
  sets them. The byte given to the transmit hook is left out here and is the
  subject of `Link`.
* **SerialGame.** The handler is a game's, not the repository's. It
  acknowledges first and reads one byte second. (One that read first would
  lose the wake-up of the bytes left: the read's `rx_service` sets the bit and
  the acknowledgement clears it.) The player saves, loads and restarts only
  while the main program runs; elsewhere see `exec_load`.
* **Timer.** `step` is a function of the machine, with the loop over the
  timers as a recursive function, each timer's whole periods as ticks, and a
  tick's recursion into its successor as the set `ticked` of timers it reaches.
  Only the four control bits that the code reads are kept.
* **FrameCadence.** `framed` is when the game's start code has set timers 0 and
  2 up. Before that the game writes the registers of every timer, which is
  where `StepsCompose` and `TypeOK` meet the odd programmings.
* **Exec.** A timer step raises any set of sources, which covers `Timer`. The
  program counter bytes are pushed as zero, as in the code. A byte that has been
  pulled is forgotten, since correct 6502 code does not rely on it. `calls`
  records for each C activation what the properties need to know of the moment
  it was called.
* **MpSession.** `main` and `worker` are the two threads' program counters.
  `close_peer` and `clear_peer` are the two halves of one line of
  `mp_disconnect`, since the worker can run between them. `open` is the
  system's view: which descriptors this module holds open; closed ones are
  handed out again, which is what makes a double close dangerous.
* **Link.** A byte is its number in the order its peer sent them. TCP is a
  bounded sequence in each direction. `OnTheWay`, the FIFO, TCP and the byte being
  sent in a row, is the queue of `Cable`.
* **Code.** One opcode for each class of control flow and operand shape, and
  one cell for a 16-bit operand. A cell may be both opcode and operand, so data
  decodes as code, jumps lead into instructions, and images end inside one.
* **Discovery.** `fn`, `addr`, `maxt` and `end` are the locals of
  `discover_one`; `work` and `seen` those of `disc_t`. Every limit of the code
  is a constant.
* **Recompiled.** `frames` is the C call stack; a frame whose position is `Gone`
  is a function that only has its `return` left after a tail call. `lost` is set
  where control leaves what was translated. The refinement maps the frames that
  are not `Gone` to the processor's program counter and return addresses.
  `Cpu.MayStray` lists the instructions at which a static translation may lose
  its way; at any other instruction it must be where the processor is.
* **Alu.** An instruction comes with its operand's value. `emit_insn` executes
  the statement the emitter writes, `interp_op` the interpreter's case; the two
  are written after their sources and not after each other. `RMB`, `SMB`, `BBR`
  and `BBS` name the bit `TheBit`; the proofs hold for all eight.
* **Suzy.** A sprite block is a record and the bytes behind its fixed part; the
  blitter is taken apart into sprites, lines, packets and pixels, although no
  other code runs between them, to look at its bookkeeping. Math registers have
  `Radix` values.
* **Audio.** A channel is given by registers and state together, and its step is
  a function of them, so that the result of two steps can be compared with one.
* **Frontend.** `present` draws the menu and handles at most one click; `poll`
  handles events and then sets the game's input. `hover` is ImGui's wish to
  capture the input, which the code asks anew at each use. A save writes the file,
  or cannot open it, or truncates it and is cut short (`cut_short`): by a kill,
  or by a disk that is full, which `config_save` does not look at. A file cut short
  is empty, because its lines fit the stream's buffer and are written at once; a
  file that is there can be read. An edit by hand may put any number in any
  line, key codes included, but removes none. `kept` and `torn` are history
  variables for `SettingsSurvive`: the settings of the last complete save, which
  no failure forgets, and whether a save has been cut short since. The property
  has its own account of what a volume may become (`Drift`): it does not use
  `percent`, which is the code's rounding.
* **Cart.** `wanted`, `left`, `loader`, `nth` and `got` are the loader's, which
  is not in the repository; what it relies on is in its comment.
* **Console.** The units share only the memory, so a behaviour works with one of
  them, chosen at the start (`unit`): the run is the sum of theirs, not the
  product. `lynx_mem_write` is the place where the processor's writes, Suzy's
  registers, Mikey's registers and the memory under both meet.

## 3. Runs

| run | bounds | why they are enough |
|---|---|---|
| `serial_game` | two byte values, a ring of 3 cells, four bytes sent, one save slot | more bytes than the ring holds, so it overruns and wraps at every index; a load may follow any state of the main program |
| `cadence` | timers 0, 2 and 4, backups of 1, a 2 us clock, steps of 1 and 10 us, one slot | an 8 us frame: the short step is no whole count, the long one is longer than a frame; counts of zero with and without reload, linked or not |
| `exec` | two sources, nesting up to 3, one byte pushed per activation, one slot | every depth at which a frame lies on a frame, with and without bytes between |
| `session_windows` | three descriptors | listening, peer and worker's own are at most three at once |
| `link_roomy` | FIFO of 2, pump of 2, four bytes each way, a connection with room for four | the FIFO overruns, the pump's chunk fills exactly and partly |
| `recompile` | addresses 0 to 7; three functions, two labels, functions of at most 6 cells, two table entries, four C frames; every image of up to three instructions at two places, and images of the whole space | each limit is reached by some image, addresses wrap, and bodies overlap in every way that three instructions can |
| `console` | see below | |
| `session_cancel_posix`, `session_idle`, `exec_load`, `link_blocked`, `suzy_reload` | as above, smaller | they show a violation; see section 5 |

Bounds of `console`, by unit:

* *sprites*: pens of 2 bits, run lengths of 2, a screen of 4 by 2, 16 addresses,
  at most 3 sprites in a chain. One line holds every pattern of eight bits, in both
  formats, at one and two bits per pixel, over either edge, flipped, XORed, with
  a buffer that wraps round memory or lies under the registers; chains have
  blank lines, missing ends, skipped blocks and loops.
* *math*: registers with two values, so 14 bits of operands in any order.
* *sound*: one channel of the four, which do not interact; counts up to 1, clocks
  of 1 us, 4 us and linked, steps of 1 and 6 us, and the shift register up to
  `MaxLfsr`, which bounds how long a channel runs.
* *processor*: all instructions, eight operand values that sit on the
  boundaries of sign, carry and decimal digits, eight sets of flags, and bit 7 for
  the bit operations. The arithmetic has no other data.
* *memory*: writes on both sides of each edge of the windows.
* *player*: one button, one key besides Escape, one pad button; two clicks or
  edits of the file in all, beside any number of starts, saves, failing saves and
  kills, so that a save cut short finds an earlier one with other settings; edits
  out of range, to a negative volume, and to the codes of Escape and of no key;
  a default that binds one player and leaves the other unbound, so that
  bindings collide and are missing.
* *cart*: three bits of block number, blocks of two bytes, a cartridge that ends
  inside a block, three reads, so a read crosses into the next block.

Symmetry is not used: the instances are small, and half of the runs check
liveness, for which TLC's symmetry reduction is unsound. Deadlock is not checked
in `link_*`, where the games may have sent all they will, in `recompile`, where
a program ends or strays, and in `console`, where an instruction has been
executed or a bound of a unit is reached.

**Fairness.** `SerialGame` and `Exec` assume that the game's handler runs to
its end and that its waiting loops tick, which is where the emitter plants
ticks (`EveryLoopTicks`). `MpSession` assumes that each thread runs when it can,
that `connect` returns (the system's timeout) and that `accept` returns when
closing its socket wakes it; not that a peer ever connects or a user presses a
button. `Link` assumes that each game goes on flipping its display, which runs
the pump, and reads what has arrived; not that it sends. `Recompiled` assumes
that `analyze_discover` runs, and nothing of the game. `Console` assumes that
`lynx_suzy_blit`, which is one call, goes on, and that the host calls present and
poll in turn, as `docs/FRONTEND.md` says; poll runs the event queue empty, so
events do not keep it from its end for ever.

**Preconditions worth knowing.** `exec` passes for a host that saves and loads
only at flips of the main program with nothing pushed (`MainOnly`); what
happens otherwise is `exec_load`. `link_roomy` passes while TCP has room for
what is sent; otherwise see `link_blocked`. `session_windows` passes where
closing a socket wakes `accept`; otherwise see `session_cancel_posix`.
`WaitingBytesAreRead` says nothing of a player who loads again and again.
`EveryLoopTicks` is about loops inside one function. `ArithmeticIsExact` is
stated in decimal mode for operands that are decimal; for digits above nine there
is only `SameProcessor`. `StacksAgree` is about nesting that the stack page has
room for. `FollowsTheCpu` lets control stray anywhere in an image longer than the
limit on a function's length, and is not about a missing interrupt vector.
`SettingsSurvive` excepts a save that was cut short, after which it says that
every setting is the default, and an edit by hand, after which it says nothing.

## 4. Proofs

`SerialProofs` (every ring size above 1, every set of bytes, any save slots):

* `TypeCorrect`: `Spec => []TypeOK`; `TypeOK` is inductive. The indices stay in
  the ring at every wrap, and saved states have indices in range, so a load
  needs no check.
* `SerialImplementsQueue`: `Spec => ImplementsQueue`. The abstract queue is the
  stretch of the ring from head to tail. The lemmas are about that stretch:
  its length (`CountCell`, `QueuedType`), when it is full (`FullRing`), that
  storing at the tail appends (`PushAppends`) and reading at the head takes the
  first (`PopTakesHead`); then one lemma per operation, and `TypeOK` for the
  ranges.
* `NoLostWakeup`: `GameSpec => []ReceiverKeepsInterrupting`. The property is
  about the main program and is not inductive: between its read and its RTI the
  handler must already have left the interrupt pending, and what a slot holds
  must be a state of the main program. `WakeupInv` says both; only between
  acknowledgement and read may a byte wait unannounced.

`MpSessionProofs` (every set of descriptors, both meanings of closing a
socket that is being accepted on):

* `SessionTypeCorrect`, `OneWorkerAtATime`, `SocketsHaveOneOwner`,
  `IdleStaysIdle`, from one inductive invariant `IInv`. Its parts, beyond the
  properties: no peer is set while an attempt is undecided (`PeerUnset`), so the
  two threads never meet over `s_peer`; an attempt is always shown as one
  (`AttemptShown`) and a live worker is never shown as idle (`AliveShown`);
  so the menu does not offer Host or Join while a worker still attempts
  (`NoneAttempting`), which is why `mp_host` and `mp_join` may clear `s_cancel`;
  and what `mp_disconnect` has already cleared (`Cleared`).

`ExecProofs` (every set of sources, stack page, nesting and number of pushes
that `StackAssumption` admits; each theorem is `MainOnly => (Spec => ...)`,
because without `MainOnly` it is false, as `exec_load` shows):

* `ExecTypeCorrect`, `StacksAlwaysAgree`, `HandlersLeaveNoTrace`, from one
  inductive invariant. `InPlace` says where each activation's interrupt frame
  lies and what it holds; that is `StacksAgree` with the bottom of the stack
  pinned. It is not inductive without `Stacked`: the frames of deeper
  activations lie below those of shallower ones, and `s` below all of them, so
  that a push or a pull reaches no other frame, and each depth has the room
  that `StackAssumption` gives it, so that no push wraps round the page
  (`RoomLeft`, `NoWrap`). `SavedEmpty` says that what a load brings back fits a
  main program with nothing pushed. `HandlersLeaveNoTrace` is then what
  `lynx_rti` does to a frame that is in place (`ReturnInv`).

`TimerProofs` (any set of timers that holds timers 0 and 2, any backups, line and
frame counts, clocks and lengths of steps, any save slots; no bound on the time
that has passed):

* `TimersTypeCorrect` and `StepsAlwaysCompose`: `StepType` and `StepAdds` for every
  machine in range, however it is programmed. A step takes the timers in turn, so
  two short steps tick them in another order than one long one. The timers fall
  into parts that share nothing, a timer on a clock of its own and the linked
  ones it drives (`Owner`); a tick stays in its part and depends on it alone
  (`ReachOwner`, `TickLocal`); so a step is, in each part, the whole periods of
  its head (`StepParts`), and those add up, the remainder being carried in the
  phase (`AdvanceAdds`).
* `CountersTellTheTimeAlways`, `FrameInterruptAlwaysOnTime`: the inductive part
  is `StepTells`, what a step does to timers 0 and 2 once they are programmed
  as the frame timer, whatever the other six do: time since the last frame is
  the two counters and the phase read as one mixed-radix number, which a step
  increases by its length modulo the frame, raising the interrupt exactly when
  it wraps. A save slot has to hold such a machine too, and its clock.

`ConsoleProofs` (every choice of constants that `SuzyAssumption`, `AudioAssumption`,
`AluAssumption`, `CartAssumption`, `ConsoleAssumption` and the five of `Frontend` admit,
the sizes of the real machine among them) is about `Console` as a whole, by way of its units.
`ConsoleMoves` says that a step of the console is, for each unit, a step of its
own or none. `ConsoleInv` is the conjunction of one inductive invariant per unit,
and `ConsoleAlways` proves it from that. Nothing rests on `unit`, except that a
blit runs alone, nor on the bound `MaxLfsr`.

* `ProcessorsAgree`: the emitted code's `helped` and the interpreter's
  `stepped_cpu` are equal for every mnemonic, register, flag and operand
  (`InstructionsAgree`, one step per group of instructions). The two sources
  differ most in the shifts, in how they keep decimal sums to a byte, and in bit
  operations, where one side works with masks and the other with the bit
  itself; the lemmas on `And`, `Or` and `Xor` are about these.
* `ArithmeticIsAlwaysExact`: from `SumsExact` and `DifferencesExact`, for all 65,536
  pairs of operands with either carry; a case for binary, one for decimal, and in
  that one for the carry out of the low digit.
* `MathIsAlwaysExact` (any radix of a math register, 256 included): a number
  below the fourth power of the radix is its four digits (`FourDigits`), so what
  `put32` stores `get32` reads back (`PutFour`), and the registers that it does not
  name keep theirs; product and quotient are below that power.
* `PensAlwaysComeFromTheLine`: `InStep` relates the bit reader, the bits left
  and the next line's address while pixels are drawn; it is stated modulo
  the memory, because a line may wrap round its end.
* `PixelsAlwaysLandOnScreen`: two places on the screen whose bytes have one
  address are the two halves of one byte (`PixelsApart`), which is where the
  screen has to fit in memory, and rewriting one half leaves the other
  (`PixelShows`).
* `ProcessorNeverReachesTheWindow`: from the address map, with the windows
  anywhere in memory and in this order.
* `SettingsInRange` (any buttons, codes, defaults and choices, and any edit of the
  numbers in the file): the scale is within 1 to 8, the rotation within 0 to 3, the
  flags are 0 or 1 (`Bounded`). `LoadedInRange` is the point: whatever numbers
  the file holds, `config_load` clamps or reduces these. It takes filter, volume
  and bindings as they are, so there is nothing to prove of them but that they
  are numbers, which is all that `FrontTypeOK` and `ConsoleTypeOK` say of them.
* `SettingsAlwaysSurvive`: `Recorded` is the inductive part. When a save has been
  cut short, the file is empty; otherwise it is the written form of `kept`,
  unless an edit has made `kept` lost. Reading what was written changes
  the volume only (`ReadBack`), and that within `Drift` (`PercentDrifts`). What the
  theorem does not say is that a complete save outlives every kill: one between
  the truncation and the write of a later save loses it, and the start has the
  defaults; and it says nothing of a start after an edit.
* `CartAlwaysReadsBack` (any cartridge, any block size and at most eight bits of
  block number): the bits shifted so far are the leading bits of the block wanted,
  and the ripple counter is the number of bytes read of it.
* `SoundAlwaysKeepsTime` (any clocks, any bytes written, in any order):
  `SteppedAdds`, that two steps of a channel make one, on states whose phase is
  less than a period, which is what the audio steps and writes keep.
* `ConsoleTypesHold`: `Spec => []ConsoleTypeOK`, with the ranges of all units; the
  mix of four channels needs no clamp (`SampleFits`).
* `PartsKeepTheirWord`: what `SettingsAlwaysSurvive`, `CartAlwaysReadsBack` and
  `SoundAlwaysKeepsTime` say of a unit alone (`FrontSpec`, `CartSpec`, `AudioSpec`)
  holds in the console, with the same exceptions.

`RecompiledProofs` (every image, list of seeds and limit that `LimitAssumption`
and `ProgramAssumption` admit, a host outside the game's addresses; the images that `MCRecompiled` enumerates are one
choice of `Program`):

* `RecompiledTypeCorrect`, `FunctionsEmittedOnce`: one inductive invariant,
  `RInv`. `Tidy` relates the worklist, what has been seen and what has left the
  worklist, and is kept by each push, so by any sequence of pushes
  (`PushesTidy`); a function in hand counts as one that has left, and there is
  room for it in the table. Activations have to be of functions in the table,
  because emission looks them up.
* `EveryLoopAlwaysTicks`: an edge of the emitted body that does not tick goes
  up (`UntickedUp`), so the highest statement of a loop has none inside it.
* `GotosAlwaysHaveLabels`: discovery and emission decode the same function twice,
  at different times and with different ends: the one stops at limits and pending
  targets, the other at the end that discovery noted; the addresses of the one
  wrap, those of the other do not. `Walked` says that what discovery decoded
  before it wrapped is a line of instructions from the start to the end, each
  inside the image, whose targets are among the labels, or the labels full. After
  it wraps it stays below the start (`Cursor`, which is where the limit on a
  function's length is needed), so the end no longer moves. `SameWalk` is then
  that both walks of the emitter, the one for the boundaries and the one for the
  statements, stay on that line.
* `RecompiledFollowsTheCpu`: `RSpec => FollowsTheCpu`, the refinement. `Mapped` is
  what it needs beyond `Walked`: whatever an instruction of a function calls, jumps
  up to, or takes from a pointer or the part of a jump table that is read, has been
  pushed or could not be (`AllReached`, `PushesCover`), so that once discovery is
  done it is a function, unless it is outside the image or the table is full
  (`Callable`); the line of a function ends in a jump, a return or a BRK, or where
  there is no code, or where a function may be no longer (`Ended`); and every
  activation is at a statement, at such an end, or about to return (`Seated`). The
  processor's address and return addresses are the positions of the activations
  that have something left to do (`Live`), so a tail call replaces the last of
  them and a call adds one. `StatementFollows` has one case per way a statement
  can be written. The case that is easy to miss is a jump to the address right
  behind it: discovery makes no function of it, and it is the end of its function
  only where there is no code (`Stops`).

`LinkProofs` (any FIFO, connection, chunk and number of bytes; no fairness, and
whether or not the connection has room for what is sent):

* `TypeCorrect`, `OrderKept`, `LossIsFlagged`, from one inductive invariant,
  `IInv`. What is coming to a unit is a chain: the last byte read, the FIFO,
  TCP, and the byte in the peer's hand. `Sound` says that it increases, that
  nothing in it passes the last byte written, and that without OVERRUN it is
  one unbroken run. The bound is what makes order inductive: the next byte
  must be later than all that are on their way. The lemmas say what a step
  does to a chain (`ChainGrows`, `ChainSent`, `ChainRead`, `ChainCut`, by
  position) and what that does to order and wholeness (`GrownChain` and so
  on); then one lemma per action, for the unit that acts and for its peer.
* `LinkImplementsCable`: `Spec => ImplementsCable`, the refinement. Writing appends to
  what is on its way (`RowGrows`), a send only moves a byte along it (`RowMoves`),
  reading takes the first (`RowRead`), and a turn of the pump either leaves it
  (`RowKept`) or cuts out what was refused, which begins at place `Capacity + 1`
  (`RowPumped`, `RowCut`). `Cable` says more than order and flags: what is
  ahead of the refused bytes and behind them is untouched. `InOrder`, which
  holds of every behaviour of `Cable`, has no place of its own in the run.

`Iteration` holds what `TimerProofs`, `ConsoleProofs` and `RecompiledProofs` share. The code's loops are
recursive functions in the model (a step n times, a push per target, a walk up
the address space), and their proofs are by induction. The library's induction
theorems take an operator, which the provers cannot instantiate; `Induction` is
derived from well-foundedness for sets of numbers instead, and the facts about
loops (`RunStays`, `RunsJoin`, `OverExists`, `WalkInduction`) from it.

The only assumptions are the named ones on the constants, each of which TLC
evaluates in a run.

Only model-checked, and why:

* Liveness, everywhere: TLAPS has no fairness or ENABLED reasoning here. These
  are `WaitingBytesAreRead`, `PendingIsDelivered`, `DisconnectReturns`,
  `JoinIsDecided`, `SentIsRead`, `DiscoveryEnds`, `BlitterStops` and
  `InputFollowsThePlayer`. Every other property of a passing run has its theorem.

## 5. What the checks found

* `session_cancel_posix`: on POSIX, Disconnect while hosting can block the UI
  for ever: the worker stays in `accept` on a socket that was closed under it.
* `session_idle`: Disconnect at the moment the peer arrives leaves the state
  idle with the peer's socket attached, and `mp_link_send` goes on using it.
  It does not leak for good: the next host, join or disconnect closes it.
* `exec_load`: a save state holds the 6502 stack but not the C calls; a load
  inside a handler, or with bytes pushed, leaves the two apart.
* `link_blocked`: the relay's send blocks; two units that fill both directions
  block each other.
* `suzy_reload`: for sprite blocks with stretch, or stretch and tilt, the blitter
  skips four and six size words where its own comment counts three and four, and
  reads the palette from the wrong place.

Smaller disagreements met while modelling, stated here and not run:

* `serial.h:36` says that OVERRUN means an unread byte was overwritten, while the
  code refuses the new byte and keeps the old; `timer.h:24` says that writing
  RESETDONE clears TIMER_DONE, which no code does; `serial.h:23` says that the
  transmit-ready condition interrupts when armed, while arming TXINTEN with the
  transmitter idle raises nothing until a byte is written.
* When `SDL_CreateThread` fails, the state stays hosting or connecting until
  Disconnect; when a send fails between the worker's store of `s_peer` and its
  `MP_CONNECTED`, the state ends connected with no peer; `MULTIPLAYER.md:10-14`
  says that the bytes one unit transmits are relayed to the other's port, which
  holds up to 255 bytes that the receiving game has not read.
* `recomp_exec.c:6-7` says that ticks are planted at loop back-edges; a loop
  that goes through another function is emitted as calls and returns without a
  tick (`emit.c:229`), and grows the C stack. Neither does the emitter write the
  label of a jump to address 0, which discovery takes for an unresolved target,
  nor those beyond `MAX_LABELS` (`GotosHaveLabels` names both).
* `audio.c:97` gives the mix as -512..511; a volume of -128 makes it 512.
  `platform_sdl.c:154` calls its limit "~4 frames"; `AUDIO_RATE * 2 * 4` bytes
  are four seconds.
* A button "Reset P1 defaults" resets the keys of both players
  (`menu_overlay.cpp:277`), and the key that ends a rebind reaches the game in
  the same poll, if it is still down and bound.
* `lynx_state_save_file` truncates the file before it writes and does not look
  at what `fclose` returns: a failure loses the previous state. `config_save`
  (`menu_overlay.cpp:125`) is written the same way, so "Settings and bindings
  persist" (`docs/FRONTEND.md:61`) holds but for a kill or a full disk at that
  moment; `SettingsSurvive` says so.
* A volume below zero in `lynx_config.ini` comes a percent nearer to zero at each
  save and load, because the cast in `menu_overlay.cpp:134` rounds it up
  (`Drift`); one of zero or more is stable.

## 6. Plan

Done in the order of importance: the UART and its queue, the session, the
timers, the execution model, the link; then discovery and emission against the
processor, the console's units, the player's side; then proofs, of every module
that the provers can read. Left:

1. The addressing modes, once in `emit.c` and once in `interp.c`, beside the
   instructions of `Alu`.
2. `Exec` composed with `Recompiled`: the tick in an emitted loop as the only
   place of delivery.

## 7. Not modelled

* The drawing and the window: ImGui's calls, textures, scaling, the audio queue,
  gamepads coming and going. They keep no state that the properties relate.
* The menu's one-shot requests and `lynx_state_save_file`: the loop that reads
  them is the host's, which is not in the repository.
* `mp_send_blob` and `mp_recv_blob`: called by no code of the repository.
* `lynxdec.c` (decryption with long integers), `lynxexec.c`, `lnx.c`,
  `hwregs.c`, the boot ROM overlay and interrupts of `lynxrun.c`, WAV, PPM and
  disassembly writers: file formats, tables, printing, and runners that hold
  parts modelled elsewhere together.
* The addressing modes, and hence page wraps of zero page and pointers.
* CMake files, scripts, and the third-party SDL and ImGui.
