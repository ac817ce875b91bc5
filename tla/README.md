# Simulatron in TLA+

A verification development for Simulatron: the virtual machine
(`Crates/simulatron-vm`), its assembler *salt* and its linker *silk*. TLA+ modules
for the machine's threads, devices and instructions and for the tool chain, TLC
runs on small instances, and TLAPS proofs for all instances. Paths below are
relative to the repository; `VM/` is `Crates/simulatron-vm/src/lib/`, `SALT/` is
`Crates/simulatron-salt/src/`, `SILK/` is `Crates/simulatron-silk/src/`.

## 1. Inventory

### The system

`run` (`VM/lib.rs`) builds the machine and calls `cpu.start()`, `ui.run()` and
`cpu.stop()`. These threads exist while it runs:

| thread | code | state it owns | what it exchanges |
|---|---|---|---|
| host / UI | `VM/lib.rs`, `VM/ui.rs` | screen buffers, join flag | receives `UICommand`s; sends `JOIN_THREAD` to the CPU |
| UI key listener | `VM/ui.rs:126` | - | sends `KeyMessage`s and, on Alt+Shift+Q, `CPUHalted` |
| CPU | `VM/cpu.rs` | registers, mode, latch, MMU | receives interrupts; sends faults to itself, timer and disk commands |
| timer | `VM/cpu.rs:251` | interval | receives `TimerCommand`s, sends interrupt 6 |
| keyboard listener | `VM/keyboard.rs` | key and metadata buffer (mutex) | receives `KeyMessage`s, sends interrupt 3 |
| disk worker, one per drive | `VM/disk/disk_real.rs:167` | the disk's shared data (mutex) | receives `DiskCommand`s, sends interrupt 4 or 5 |
| disk watcher, one per drive | `VM/disk/disk_real.rs:190` | same shared data | called back by the `notify` crate, sends interrupt 4 or 5 |

All interrupts go through one unbounded FIFO channel. Joins are by message and
without timeouts. The tool chain is sequential: salt turns source files into
object files (`SIMOBJ`), silk merges them and writes an image, which the CPU
executes from its first byte. Its only nondeterminism is the order in which
silk visits its hash maps, which differs from run to run.

### Components

| component | state | operations | hard behaviour | what makes it correct |
|---|---|---|---|---|
| CPU interrupt machinery | channel, latch, IMR, mode, frames, `pausing`, `skip_pause` | poll, wait, deliver, IRETURN, PAUSE, HALT, SYSCALL, register writes | interrupts at any point, masked and nested; PAUSE races; stop racing halt | none lost, faults before the next instruction, no privilege for user code, stop returns |
| CPU timer | interval, command queue | set, expire, join | a timeout racing a command | ended before the CPU thread returns |
| CPU cycle | program counter, `rewind`, stack pointers, registers | fetch, load, store, push, pop, swap, call, return, IRETURN | any memory access may fault, also when others have been made | a failed cycle leaves no trace and can be executed again |
| CPU arithmetic | registers, flags | about 60 instructions in four widths | carry, overflow, shifts at the width | flags and results match the arithmetic |
| MMU | page tables in RAM, PFSR, memory map | translate, load, store | fault priority, copy-on-write, accesses across pages | isolation of address spaces |
| RAM | bytes, or a map of pages | index, index_mut | lazy allocation | both variants behave alike |
| Disk controller | status, size, address, buffer, queue | start, stop, worker and watcher iteration, register access | four threads on one status byte; files coming and going | no update unnoticed, mounted disk is the one in the directory, commands drained at stop |
| Keyboard, display, UI | key and metadata buffer, screen buffers, join flag | key, load, store, draw, run | keys overwriting each other, two loads for one key; the UI joins a thread that waits for a key | the last key is read whole, the screen is complete, any key exits |
| Salt code generator | symbol and constant tables, sections | declare, resolve operands, emit | about 70 instructions in six addressing modes; references written before or after the opcode | the CPU finds the instructions that were written |
| Silk parser | file position | parse header, symbols, sections | arbitrary bytes | a damaged file is refused |
| Silk linker | merged symbol table, sections | add object, relocate, resolve, pad | symbol kinds meeting in any order, renaming, the entry section moved to the front | every reference resolved once, to its own symbol |
| Salt lexer and parser | tokens, tree | lex, parse | error recovery | - |
| Utilities | transient output file | create, keep, drop | failure between creation and completion | no half-written output |

`PROJECT.json` lists the same components with their sources and status, and
under `hazards` each place in the code where something can go wrong that a test
would hardly reach.

## 2. Modules and how they correspond to the code

### Cpu (`VM/cpu.rs`, `VM/cpu/macros.rs`, `VM/keyboard.rs`, `VM/lib.rs`, `VM/ui.rs`)

The channel, the latch, the CPU loop, the timer thread and the life cycle.
`phase` is where the CPU thread is: `poll` is the beginning of
`interrupt_fetch_decode_execute`, `recv` the receive loop of `try_get_next` or
`wait_for_next` (the latter when `pausing`), `execute` the instruction. Each
receive is a step of its own, so other threads act between any two.

Delivery (`Deliver`) is one step with everything it does: switch of mode, three
pushes, clearing the IMR, jump. The pushes run out of memory after `StackDepth`
frames; then the CPU halts (`FatalDelivery`), with the illegal-operation
interrupt the MMU sent still in the channel. The RAM reaches to the end of the
address space, so the initial KSPR 0 is a usable stack top.

The guest is arbitrary: any instruction of its mode, any fault of `Faults`, any
mask of `Masks`. Addresses are abstracted to regions: the eight handlers, other
kernel code, user code. Two things a real kernel could do are left out: writing
the return address or the mode bit in a frame (it may change the saved IMR,
`EditFrame`), and leaving pushed values on top of a frame.

The timer thread decides to fire (`TimerTimesOut`) and sends (`TimerFires`) in
two steps, as `recv_timeout` followed by `send` does.

### Console (`VM/ui.rs`, `VM/keyboard.rs`, `VM/display.rs`) and IdleKernel

`Console` puts the terminal around `Cpu`: the key listener (read an event, then
look at the join flag, two steps), the keyboard thread with its two buffers, the
display's stores, which become commands in the UI's channel, and the UI thread,
which is the host of `Cpu`: it draws until it receives `CPUHalted`, sets the
flag, joins the listener and returns, and only then `cpu.stop` sends
`JOIN_THREAD`. Keys, characters and colours are converted as in the code;
writing to the terminal, and its failures, are left out. An event that is not a
key (a resize) is an event whose code is that of no key: both take the
listener past its match without a message. The screen has `ROWS` by `COLS` cells,
25 by 80 in the code.

`IdleKernel` is a guest on top of it: the loop "mask, test, unmask, PAUSE" and a
keyboard handler, the program of `test_pause` (`VM/cpu/tests.rs:66`) made into a
loop that echoes keys on the screen and halts on Esc. The machine's actions are
those of `Cpu` and `Console`; the guest's choose among them. Guest instructions
are marked external in the map, since guest programs are not part of the
repository. `last`, `echoed` and `quit` are history variables. A state in which
every thread waits for a user who has stopped typing may stutter (`AwaitsUser`);
any other state without a step would be reported as a deadlock. `echoed` records
for each cell the letter and the metadata last stored there, and `ScreenComplete`
says that this is what the cell shows when the UI has stopped drawing.

### Cycle (`VM/cpu.rs`)

One fetch-decode-execute cycle per step, on a machine with registers of one, two
and four bytes, both stack pointers, the mode and every byte of memory. An
instruction is an operator from a machine to a machine and how the cycle ends
(`ok`, `TryAgainError` or `panic`), composed as the code composes its calls: `Pushed`
moves the stack pointer and then stores, `Popped` moves it after the load, `Stored`
writes the bytes before the first one that is refused. IRETURN makes three pops; when the second
or third fails, `PutBack` and `PutBothBack` push what was popped, byte by byte, to
where the stack pointer then is, and a push that fails panics. That this leaves no trace, and when it panics, are
properties, and not how the undo is defined.

`Zones` is what physical memory permits at an address, which is all that counts in kernel mode;
in user mode `pages` has to permit the access too. A page has one address and lies
on the frame of the same address: translation is `Paging`'s subject. `Resolve` is
the guest kernel granting an access after a fault. Addresses and `rewind` wrap around,
as in a release build; a build with overflow checks would panic after 2^32 fetched bytes.
There is one general register, with its lower half and byte; what arithmetic writes to registers and
flags is arbitrary here (it is `Alu`'s subject), as is the length of an instruction.
PFSR is a register that refuses to be written; instructions that read it are left out (its value is
in `Paging`). HALT, PAUSE, TIMER and SYSCALL are in `Cpu`.

### Disk (`VM/disk/disk_real.rs`)

`Disk` has the worker, the watcher, `start` and `stop` on the CPU thread, a guest
that loads the status in its interrupt handler, and the user who inserts and
removes files. What happens under the mutex is one step; `watcher_iteration`
reads the directory and the metadata before it takes the mutex, so it is three
(`Name`, `Size`, `Update`). It has two callers, the watcher thread and `start`,
and `look` holds where each of them is. A file is a size in blocks, 0 for
anything not recognised as a disk. The worker's transfer may fail for any
reason; it succeeds only with a single file in the directory and, for a read,
inside that file. The contents of buffer and file, and the single bytes of the
32-bit registers, are not modelled.

The model assumes that each insertion produces one event the callback accepts.
The callback ignores `Modify(Name(To))`, so for files moved into the directory
this depends on what `notify` reports on the platform (listed as a hazard).

### RamEager and RamLazy (`VM/ram/`)

`RamEager` is the vector and the abstract specification; `RamLazy` is the map of
pages, with the refinement mapping `data <- [i \in Index |-> Get(i)]`.

### Paging (`VM/mmu.rs`, `VM/cpu.rs`)

The MMU on top of `RamLazy`: the memory map with the rights of the device
addresses, the translation of a virtual address with the order of its checks,
PFSR, and the instructions that make several accesses one after the other
(STORE, LOAD and fetches of 1, 2 and 4 bytes, BLOCKCOPY, BLOCKSET, BLOCKCMP). Each
access is a step; each may fault when earlier ones have been made. `Resolve` is
the guest kernel, which removes the cause PFSR names (validates, loads, grants,
copies) and returns; the instruction then starts from its beginning, and `n`
counts the accesses anew. What the CPU really does to the program counter at that
point is the subject of `Cycle`. `checked` tells a build with overflow checks,
which panics at the end of the address space, from one without, which wraps.
`before` is the memory when the instruction was first executed, so that
properties can compare. The page tables are kept apart from the memory
they lie in: a program that writes to its own tables is not modelled.

### Alu (`VM/cpu.rs`, `VM/cpu/macros.rs`, `VM/cpu/rotcarry.rs`)

Every integer instruction with the result, the flags and the register part it
writes, comparison, conversion, and the conditional jumps. The three integer types
have `Bits[type]` bits, since the code is one macro for 8, 16 and 32. A program of one
or two instructions runs and `done` keeps what each met and left. A float is an
integer, with two of them the infinities and one more value `NaN`, no integer; the result
of float arithmetic is any float, as it is the host's. An integer converted to a float
is one of the floats next to it (`Nearest`), itself if it is one: above 2^24 not every
integer is. In a build with overflow checks (`checked`) NEGATE of the lowest value panics, and so do
ADDCARRY and SUBBORROW where the operand cannot be incremented (`IncrementPanics`); these are
branches of the model, about which there is no property.

### Isa, Salt, Silk, Toolchain, Linking (`VM/cpu.rs`, `SALT/`, `SILK/`)

`Isa` is the decoder of the CPU as a table: for each opcode the operation, the operands fetched after
it and the register types accepted. `Salt` is the code generator as a function from
the declarations, labels and instructions of a file to an object file (or a list
of what went wrong). A loop of the code is a recursive function of how far it got
(`DataTable`, `Operands`, `Code`), and `sorted_by_key` is the list of the names by how many
come before each (`Sorted`), so that both can be reasoned about. `Silk` has the object file parser, the merging of one symbol
into the table, relocation and resolution. `Toolchain` is the two
command line tools as a state machine: files are assembled one after the other,
public constants carried along, then object files are added in an order the
user chooses, and the symbols of each are merged **one per step, in any order**,
because that is the order of a `HashMap`; the references are resolved the same
way. The image is a sequence of bytes, compared with the sources by reading it
with `Isa`.

Object files are real bytes, and names are sequences of character codes, because
the linker renames by appending digits. What is a Rust panic (an `unwrap`, an
assertion, an `unreachable!()`, an index out of range) is the outcome `panic`. The
longest symbol name (255), the greatest number of the object format (2^32 - 1,
`MaxNumber`), the size of the ROM and the alignment of disk images are constants and
small here. A position, length or count above `MaxNumber` makes salt panic in an
`unwrap`; the model is of a release build, in which the running address of the
read-write data (`SALT/lib/codegen.rs:481`) wraps when it passes the end after the last
item; a build with overflow checks would panic there. When the assembler reports something about a
constant of another file, whether the report's position is past the end of the
quoted text depends on text that is not modelled, so `ForeignReport` may or may not
panic. A file sees the public constants of the files before it (`Extra`), except of
those whose declarations have errors. Sources start as the syntax tree's declarations: lexer and parser are not
modelled.

`Linking` adds no step: it says what the linker promises about any object files, those
of salt and foreign ones, in terms of the files alone. `Combined` and `Final` are the
address of a byte when the files are added and when the entry section has moved;
`Meanings` is the set of definitions a symbol may mean, by type and name;
`CanBeLinked` is the set of files that should be linked. The symbol table, the renaming
and the sections in which `Silk` works occur only in the inductive invariant `ImageInv`.

## 3. Runs

| run | bounds | shows |
|---|---|---|
| `cpu` | two devices, two faults, two masks, two frames, channel 2 | type, privilege, synchronous interrupts first, PAUSE, no lost interrupt (5.8 million states) |
| `cpu_stop` | keyboard and timer, one fault, one mask that enables all three, one frame, channel 2, one command | every stop terminates, whether the guest faults at every instruction, interrupts refill the channel as fast as it is drained, or it pauses or halts; the timer has ended when the CPU thread returns (2.4 million states) |
| `idle_kernel` | three events of five kinds, two cells | no sleep with work waiting; the last key is read whole; the screen is complete at a halt; every key served; any key exits (240 thousand states) |
| `disk` | one disk of one block, one junk file, two unhandled events or commands | status, mount, connected and size agree; a stop drains the queue and returns |
| `disk_start_race` | as `disk`, directory may change during `start` | **violated**: the drive can show a disk that is gone |
| `cycle` | bytes of one bit, so 16 addresses; three cycles; RAM, a hole, ROM and write-only memory; one page table; three operands, two lengths | what fails and may be restarted leaves registers, stacks and memory as they were; the undo of IRETURN fails only in ROM (495 thousand states) |
| `cycle_rewind` | same | **violated**: a failed cycle does not restart its instruction |
| `paging` | six addresses, two of them devices', pages of two bytes, every instruction at every place | faults are invisible, writes confined, every fault resolved, the lazy RAM implements the eager one (305 thousand states) |
| `alu` | widths 3, 5 and 6 bits, every byte, boundary values of the others | comparison and jump, two-register arithmetic and shifts, shifts by any distance, rotation through carry, division (941 thousand states) |
| `toolchain` | each instruction with up to 17 kinds of operand; one to three linked files; 80 damaged object files | accepted exactly if well-formed, panics only for known causes, the image executes as written, data apart, addresses valid; for foreign files as well, linked exactly if possible and the image is what the files say (56 thousand states) |
| `toolchain_timer` | same | **violated**: TIMER with a symbol is assembled in the wrong order |
| `toolchain_merge` | same | **violated**: two users of a symbol before its definition make the linker panic |

Why the bounds are enough. `cpu`: two frames give a handler interrupted by a
handler and a delivery that runs out of stack; two messages give a disabled and
an enabled one in either order; one device is enabled by the mask and one not.
Faults, SYSCALL and the host's message are not counted by `ChanBound`, so the
channel is longer in fact. `cpu_stop`: the two devices refill the channel between any two receives,
so that a poll may drain it without end, faults come on top and JOIN_THREAD behind all of them; the timer
fires while it is stopped, with a command before JoinThread; one frame lets a handler
run and a delivery inside it run out of stack. `idle_kernel`: two keys mix in the guest's loads, and
a third is the Esc, the quit or the key that exits; with two cells the third
echo comes back to the first cell; `ChanBound` is never reached.
`disk`: an event during a callback, a command behind a command and a command
behind an event all need two. `MaxBlock = 1` is the largest block number and the
size of the disk, so a sustained transfer reaches the upper limit. `cycle`: a
bit tells bytes apart, so that bytes put back in a wrong place or order are seen. The first cycle
sets a stack pointer, the second may fill it or enter user mode, the third fails: IRETURN
at each of its pops, with the stack in ROM, in RAM before the hole, and around the end of the
address space; two failures in a row are enough to see `rewind`. The RAM at the end is three bytes, so
that a frame fits between what cannot be written below it and what cannot be read above it.
`paging`: accesses cross from devices to RAM, from page to page and over the end of the address space; the RAM's last page
is partly used; two virtual pages are swapped, or map one frame; each page
lacks nothing, a right, a copy, or validity and presence as well. `alu`: every shift
distance up to more than the width of each type occurs, and the boundary values meet
each other in both registers. `toolchain`: the sources define, use and shadow one
name in each way the linker's cases tell apart, with a second name equal to the
one that renaming produces; two files are needed to merge and a third to merge
into a merged table; the ROM is large enough for some projects and not for others.

Fairness. Threads that can step do so: weak fairness of the CPU thread, the
timer's handling of commands and its send, the worker, the watcher's callback
and its steps, the key listener, the keyboard thread, the UI and the host; in
`Paging`, of the CPU thread and of the kernel's handler, which returns. Nothing is
assumed of the user, of devices, or of timeouts expiring. `Unwatch` has strong
fairness: the `notify` thread handles requests in the order they arrive, between
callbacks, so a stream of file events delays it and does not shut it out.
`KeysServed` needs the number of key presses to be finite: `try_get_next`
drains the channel without a bound, and nothing keeps devices from filling it for ever. The
hazard is listed without a property, since the code promises nothing there. A stop comes through
all the same, because `try_get_next` looks for JOIN_THREAD as it drains: `cpu_stop`. `AnyKeyExits` starts from a key that has been
typed: without one the program waits forever, as its message says.

The runs of `Cpu`, `IdleKernel` and `Disk` check for deadlock as well: a
state without a successor other than the stopped machine or a machine whose user
has stopped typing would be reported. In `Alu`, `Paging` and `Toolchain` programs and
tools come to their end, and in `Cycle` the thread panics or the bound on the cycles is met, so
there the check is off; in `Paging` the liveness property takes its place.

## 4. Proofs

Everything listed here holds for every value of the constants that satisfies
the modules' `ASSUME`s. Most of these only give a constant its type. The others:
a byte of `Cycle` has two values at least, and a half a top bit; a page of `RamLazy` one byte,
a frame of `Paging` one byte, and the pages of an address space come out even; the
integers of `Alu` have two bits at least; FLAGS, which is a half, has room for its
four flags below the top bit; `Floats` contains zero and both infinities; and
`PowersAssumption` says what `2^k` is up to the widths, because the provers do
not know exponentiation (TLC evaluates it on numbers and finds it true); the longest name of a symbol has at most
255 characters; the greatest number of the object format fits four bytes; and `Projects`
are sets of sources as salt's parser leaves them (`SourceFile`), each with an `id` of its
own, with any bytes as foreign object files. `DiskProofs` has one hypothesis
more, named below.

`MachineProofs`, for module `Cpu`. The inductive invariant is the conjunction of `TypeOK` and three
parts, each inductive with `TypeOK`:

- `ModeInv`: bit 15 of the flags register is always clear, the mode agrees with
  the region of the program counter, and in every frame the saved bit agrees
  with the saved region. The property about user code alone is not inductive:
  IRETURN takes both values from a frame, and delivery ors the flag into it.
- `LatchInv`: past the first loop of the poll nothing latched is enabled, and
  when an instruction executes no enabled synchronous interrupt is in the
  channel. The second half holds because only the CPU thread sends those, and
  the poll leaves the channel empty or the IMR clear.
- `TimerInv`: the timer runs until it has received `JoinThread`, which is sent
  once and last.

From these: `TypeCorrect`, `PrivilegeSafe`, `SyncFirst`, `SleepJustified`,
`InterruptsKept` (an action property, from `TypeOK` alone) and `TimerEnds`.

`DiskProofs`. `StartInv` and `StopInv` (with `JoinIsLast`) relate the phase to
the two callers, the worker and its queue. `MountInv` is the argument for the
mount: whenever no event waits, either the last look is still current or the
shared data already agrees with the directory. It needs
`~ChangesDuringStart`, which `MountCorrect` assumes; `disk_start_race` shows
the theorem is false without it. Further: `TypeCorrect`, `NeverHalfConnected`,
`StatusReported`, `CommandsDrained`.

`CycleProofs`. `TypeCorrect` is inductive as it stands. `FailureTraceless` says that a
restartable instruction that fails changes nothing, for any number of values of a byte,
any memory and any rights. For most instructions it has to be seen that
nothing is assigned before the access that fails. The substance is IRETURN:

- a value read from two or four bytes, taken apart again, gives these bytes, the most
  significant first (`BytesBack`, from division with remainder, `HalfBack` and `WordBack`);
- the stack pointer moved forth and back is where it was, also across the end of the address
  space (`Wrapping`);
- so a push of what was popped leaves the machine as it was before the pop, whether all its
  bytes, some or none may be written (`PushUndoesPop`), and the two pushes of the undo, in the
  opposite order of the pops, put back both values (`IReturnUndone`).

`StepPanicsOnlyInROM` adds that each of these pushes writes to the bytes of its pop and no
others (`PushBackFails`, `MovesAdd`), so that one that fails met a byte that can be read and not written.

`MachineProofs`, for module `IdleKernel`. The machine's part of the argument comes from `Cpu`: every step
of `NextIdle` is a step of `Cpu` or leaves its variables alone
(`NextIdleIsCpuStep`), so `TypeOK` carries over. On top of it `IdleInv` has these
parts:

- `GuestInv`: where loop and handler can be. The handler interrupts the loop
  only at PAUSE and behind it, and its frame returns there with the keyboard
  enabled. Without it nothing excludes a handler that interrupts itself.
- `WakeInv`: the loop comes to PAUSE without work, or with `skip_pause` set by the
  handler's IRETURN. `NoLostWakeup` is only about the sleeping CPU and says
  nothing about the steps between the handler and PAUSE.
- `KeyInv`: the last key is the newest message in the channel or lies in the
  buffers, and the guest has read the buffers, is reading them, or an interrupt
  is still to be taken. It contains the case of a key that arrives between the
  handler's two loads.
- `HostWaits`, `HaltLast`: nobody asks the CPU to halt before the UI has left its
  loop, and a halt of the guest is the last command in the channel.
- `ScreenInv`: for each cell and each of its three buffers, the last command for
  it in the channel, or the buffer when there is none, has the value of the last
  echo. Echoes make up to three stores, so the value that is due depends on where
  in the echo the guest is.

From these: `IdleTypesCorrect`, `WakeupsKept`, `LastKeyRead`, `ScreenShowsEcho`.

`PagingProofs`. `LazyImplementsEager`: initial states of the RAM map to initial
states, loads to loads, stores to stores. `IndexFacts` says that page and offset determine
the index, `StoreChangesOne` that a store changes one mapped byte.
`MmuSeesEagerRam`: every step of `PagingSpec` is a step of `RamLazy`
or leaves its memory alone, and `LazyImplementsEager` does the rest.
`WritesStayConfined`: `WritesConfined` is inductive with the types.
`FaultsStayInvisible` needs `AttemptInv`: every attempt at an instruction begins with a
memory that differs from the one first met only where the instruction writes, and
has written, held and read so far what it would have without faults
(`WrittenSoFar`, `HeldSoFar`, `ReadSoFar`). Its lemmas are what the handler of a page fault may
change (`ResolveFacts`: no frame, no right taken away), that it leaves every byte of
the instruction's blocks where it is (`PlacesKept`), and one lemma for each kind of
access (`ReadAttempt`, `WriteAttempt`, `CompareAttempt`).

`AluProofs`. `AluInv` is `AluTypes`, `History` (what `done` holds) and `FirstEffect`:
after the first instruction its register and the flags are what `Computed` says.
With it each property is a statement about the arithmetic of `Computed`,
proved as lemmas: comparison as subtraction with carry and overflow
(`CompareIntegers`), limbs (`LimbsArithmetic`, `OneCarry`), division truncated
towards zero (`SignedDivision`), shifts by one bit (`ShiftByOne`), and rotation by
any distance as repeated rotation by one (`TurnedBy`), with whole turns dropped
(`FullTurn`). A shift by any distance is stated bit by bit: each bit comes from the place that
many below or above, and the carry is set exactly if a one was lost or the distance is not below the width.
That the code finds lost ones by counting the zeros at one end is what has to be shown
(`LeadingZerosAre`, `TrailingZerosAre`). The operators of the library's induction theorems cannot be
instantiated; where a fact holds for all numbers up to a bound it is
proved with a set of numbers and its least element (`LeastNumber`, `InductionTo`,
`Recursion`, in module `Induction`). From these: `JumpsDecide`,
`LimbsAddUp`, `ShiftsAddUp`, `ShiftsMove`, `RotationsTurn`, `DivisionsFit`, for every width of the three types.

`SaltProofs` and `ToolchainProofs`. The first holds what concerns the assembler and the
files it writes, the second the linker and what needs both. `ReferencesHavePlaces`: the linker finds the section of every
reference and every value, for every project, every foreign object file and every
order of the symbols (`AddressesValid`). `LinkInv` says more than the property: the files
not yet read are bytes, the sections lie one after the other without gaps, and every
symbol is in its place in them, before and after the entry section moved. The lemmas go
along the linker: what the parser returns for any file (`ParseFacts`, whose loops are
recursive functions, shown to exist by `Recursion`) and for one it accepts
(`AcceptedFacts`); sections added behind the others (`AddFacts`); the entry section and
every address moved by `Relocate` (`MoveFacts`); the seven cases of merging a symbol
(`MergeFacts`); resolution, which changes data only (`DataFacts`).
What salt writes is an object file to the linker like any other, once it is bytes.

`ObjectFilesAreBytes`: it is, for all source files, of any names, numbers, dimensions
and operands that salt's parser can leave (`SourceFile`); the linker's theorems cite it.
`AssembleInv` keeps the types of the files to come, the constants carried along and the
object files written. The argument, along the code generator:

- A recursive function up to a bound exists (`Unrolled`, from `Recursion` of module
  `Induction`), and if one step keeps a type, all its values have it (`Typed`). So the table of
  data is a table whatever the declarations (`DataTableFacts`), and lists of bytes one after
  the other are bytes (`FlattenTyped`).
- Every operand an addressing mode accepts adds at most bytes and a reference
  (`AddOperandFacts`), and the number of an overload stays below that of the mode's
  overloads (`ChoiceFacts`), so that an opcode is a byte (`InsertOpcodeFacts`, `EmitFacts`).
- The instructions assembled so far have as many starts as there are instructions, so that
  every label that was accepted has an offset (`CodeFacts`).
- `Before` is a strict total order of names (`BeforeIsOrder`), so that in a finite set each
  name has a rank of its own, and `Sorted` lists exactly the set (`SortedFacts`): sizes and
  offsets are numbers.
- Everything the object file holds is cut to bytes by `BE` or is a byte as it is
  (`SectionsFacts`, `SymbolEntryFacts`, `SimobjFacts`): flags, symbol types, and the length of a
  name, because a name longer than `MaxName` makes salt panic and nothing is written.
  `MaxName` is assumed to be at most 255; the code's is 255.

`CodeIsAsWritten`: the decoder of the CPU and the code generator of salt, two programs that share only
the numbers of the opcodes, agree. For every table of constants, data and labels and
every list of instructions that salt accepts, the CPU that decodes the code from its first byte
finds the instructions of the source, one after the other without a gap. Each has
its registers as written, the value of each literal and constant as bytes, and four zeros
where a symbol is meant, with a reference to that symbol there and no other reference in the
instruction. The argument:

- Code written is never changed by what follows (`CodeHas` and `WrittenAt` of one
  instruction are kept by the next), so one instruction at a time will do (`CodeWrites`).
- The generator's number of an overload, a digit for each operand that can be a literal or a
  register (`ChoiceFacts`), leads to the right place in the CPU's table: whatever the operands are,
  the CPU has that instruction there, with roles that fit them (`InstructionTable`, `OpcodesAgree`,
  from one lemma for each kind of mode).
- An operand the generator accepts is one the CPU does not refuse (`RolesAgree`,
  `ConversionFits`), and takes as many bytes as the CPU fetches for it (`PlacesFacts`, `PlacesGrow`).
- Hence one instruction is decoded as written (`DecodeFacts`, `WrittenDecodes`).

`TIMER` with a symbol is excepted, as in `ExecutesAsWritten` (section 5 says why). What
the linker then puts in place of the zeros is `ImageIsAsWritten`.

Three more theorems say that the linker is correct:
`ImageIsAsWritten`, `LinksWhatCanBeLinked` and `LinkerPanicsOnlySo`, for every project,
every object file and every order of the hash maps. `LinkedAsWritten`,
`LinkedIffPossible` and `LinkerPanicsExplained` speak of the end alone, and `ImageInv`
relates what the linker has made so far to the files read so far:

- `Reading`, while files are added. The sections are those of the files read, one file
  after the other (`SectionsOf`). The symbols not yet merged are the current file's, moved
  with its sections. The table is that of the symbols merged (`TableOf`): each of them has
  an entry with all its references (`Entered`), no entry has anything else
  (`FromSymbols`), no name is public twice, and no reference occurs twice (`Once`). This does
  not say which name an internal symbol got: `Entered` and `FromSymbols` leave the names
  of internal entries open, so that renaming keeps them, provided the new name is fresh.
- `Resolving`, while references are written. `Memory` says of every byte what it is: four
  bytes of a reference already written hold the address of its symbol, those of one still to
  be written are zeros, and all others are the file's. It holds because references stay at
  least four bytes apart, and move together with the section they lie in.

TLC has checked `ImageInv` and `AssembleInv` on the instances of run `toolchain`. The lemmas follow the code
again: `MoveBytes` (every byte moves with the entry section), `WriteFacts` and `ResolveFacts`
(a reference is written to its four bytes and no others), `DecimalsDiffer` and `FreshFacts`
(`gen_non_conflicting_name` finds a name, as no two numbers have the same digits and
there are more numbers up to the size of the table than names in it), `MergedTable` (the seven cases
of merging), `FileFacts` and `OutcomeFacts` (what the parser accepts, and why it panics),
then one lemma for each action. `LinkedAsWritten` is about files in which no two
references overlap (`Apart`): section 5 says what happens to the others.

`ToolsPanicOnlySo`: neither tool panics but for the causes that `PanicsExplained` lists. Its
invariant is `PanicInv` together with those above, and TLC has checked it on the same
instances. The new argument is that no object file of salt is to blame:

- What the assembler writes keeps its references apart. Each is four zero bytes of the
  code, and two of them start at least four bytes apart (`CodeTame`, `Spaced`).
- The linker's parser reads back what the assembler wrote: a number of four bytes
  (`NumberRead`), an entry of the symbol table (`EntryRead`), the whole file (`FileRead`,
  `SimobjRead`). This is where `MaxNumber` is needed: a position beyond four bytes would
  be cut, and be read as that of something else.
- Therefore no file of salt has a `BadReference` (`OwnReferencesGood`), and what is left of a
  linker's panic comes from `LinkerPanicsOnlySo`: two early external symbols, or a foreign
  file.
- Every panic of the code generator has its cause in the source (`CauseOfPanic`):
  the instruction with an unknown `sizeof`, the long name, the number that is too large.
- `PanicInv` says which constants the file in hand sees, since the cause is stated in terms
  of the sources (`CarriedFacts`, `NextFile`); it is found by the file's `id`, which is why
  these are distinct (`InputsDiffer`).

Only model-checked: the liveness properties (`StopTerminates`, `KeysServed`,
`AnyKeyExits`, `StopReturns`, `FaultsResolve`), which the prover cannot treat, and
three invariants of `Toolchain` about the meaning of a source file
(`AcceptedIffWellFormed`, `ExecutesAsWritten`, `DataSeparate`). They compare what the
loops over a whole file compute, through assembler and linker, with what its
declarations and instructions mean. Of `ExecutesAsWritten` the two halves are proved, `CodeIsAsWritten` for
salt and `ImageIsAsWritten` for silk; it remains to join them through the table of data and
labels of each file. The other two would
take that the table of data is what the declarations say, line by line.

## 5. Where code and documentation disagree

Each of these is a run that TLC must find violated; `findings` in `PROJECT.json`
quotes the lines.

1. `disk_start_race`: a change of the disk directory during `start` can be
   overwritten by the older answer `start` already has, until the next change.
2. `cycle_rewind`: `rewind` is never reset, so from the second instruction on a
   failed cycle does not restart its instruction.
3. `toolchain_timer`: TIMER with a symbol as its operand is assembled with the
   operand's bytes before the opcode; the documentation allows a symbol wherever
   a literal is expected.
4. `toolchain_merge`: when two object files refer to a symbol and neither defines it,
   the linker reaches an `unreachable!()`, also if a third file defines it.

Further differences, plain to see in the code, without a run:

- Interrupts waiting in the channel are serviced in arrival order, only latched
  ones in ascending order (`VM/cpu.rs:185`, `Documentation/instruction-set.md:60`).
- The F flag is not flipped by a command that finds no disk
  (`VM/disk/disk_real.rs:358`, `Documentation/disks.md:39`).
- SWAP writes the register before the store that may fail
  (`VM/cpu.rs:1725`, `Documentation/instruction-set.md:141`).
- "If the pop worked, push should too", says a comment in the undo of IRETURN (`VM/cpu.rs:621`).
  A kernel stack in ROM can be popped from and not pushed to, and where a later pop
  fails, as at the end of ROM, the CPU thread panics. `PanicsOnlyInROM`, a part of
  `FailureLeavesNoTrace`, says that there is no other cause.
- The second byte of the disk's size and address registers is shifted by 26 and
  not by 16 (`VM/disk/disk_real.rs:311`, `321`, `Documentation/disks.md:51`).

And what the properties had to except, where the documentation says nothing:
comparing NaN, or an infinity with itself, sets no flag (`ComparisonsDecide`);
ADDCARRY and SUBBORROW lose the carry out when the operand's high half is all ones
and a carry comes in (`LimbsChain`); an object file in which two references
overlap makes the linker panic or, if the bytes they share become zero in the first, write one over the other
(`LinkedAsWritten`; `Documentation/object-code.md` only says that requiring zeros helps to
find some malformed files); a BLOCKCOPY between overlapping
blocks that faults does not start from what it first met (`FaultsInvisible`); the
causes of a panic that `PanicsExplained` lists.

## 6. Not modelled, and the plan

Not modelled:

- salt's lexer and parser: from text to a syntax tree; nothing that the modelled
  parts share depends on how they do it;
- drawing, command line parsing, logging, the procedural macro of the syntax
  tree, hexadecimal output: input and output without a protocol;
- `TransientFile` of the utilities: an output file deleted unless kept, whose only
  operation that could go wrong is the file system's;
- floating point arithmetic, out of TLC's reach;
- the bytes of the disk's registers, buffer and file;
- a second start after a stop, which `run` never does;
- arrays of more than 2^64 bytes, which salt reports as out of range (`SALT/lib/codegen.rs:725`);
- a guest that rewrites interrupt frames or its own page tables.

Left to prove: `AcceptedIffWellFormed`, `ExecutesAsWritten` and `DataSeparate` of
`Toolchain`. Every other invariant and every action property the runs check is proved.
