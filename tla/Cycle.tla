------------------------------- MODULE Cycle -------------------------------
(***************************************************************************)
(* One fetch-decode-execute cycle of the CPU at a time, and what a cycle   *)
(* that fails leaves behind: the memory accesses an instruction makes, in  *)
(* order and byte by byte, each of which the MMU may refuse; the moves of  *)
(* the stack pointers; what IRETURN does to undo its pops; and the         *)
(* rewinding of the program counter, so that the instruction can be        *)
(* executed again.                                                         *)
(*                                                                         *)
(* A byte has Base values, a half is two bytes and a word four, the first  *)
(* the most significant.  A word is an address.  Zones says what physical  *)
(* memory permits at an address; kernel mode uses nothing else.  In user   *)
(* mode pages has to permit the access too; it maps a page onto the frame  *)
(* of the same address.  A kernel that resolves a page fault grants what   *)
(* was missing.  Address arithmetic wraps around (a release build).        *)
(* The block instructions are in Paging; HALT, PAUSE, TIMER, SYSCALL and   *)
(* the interrupts between cycles are in Cpu.                               *)
(***************************************************************************)
EXTENDS Integers

CONSTANTS
    Base,         \* the values of a byte (256)
    Zones,        \* what physical memory permits at each address
    PageTables,   \* the initial rights of user code
    Memories,     \* the initial contents of memory
    StartOfROM,   \* where the program begins (64)
    Operands,     \* the addresses and values that instructions are given
    Lengths,      \* the lengths of instructions
    MaxCycles     \* bound on the cycles

HalfRange == Base * Base
WordRange == HalfRange * HalfRange
TopBit == HalfRange \div 2         \* bit 15 of a half

Byte == 0..(Base - 1)
Half == 0..(HalfRange - 1)
Word == 0..(WordRange - 1)
Address == Word

ASSUME BaseAssumption == Base \in Nat /\ Base > 1 /\ HalfRange = 2 * TopBit
ASSUME ZonesAssumption == Zones \in [Address -> SUBSET {"R", "W"}]
ASSUME InitialAssumption ==
    /\ PageTables \subseteq [Address -> SUBSET {"R", "W", "X"}]
    /\ Memories \subseteq [Address -> Byte]
    /\ StartOfROM \in Address
ASSUME OperandsAssumption == Operands \subseteq Word /\ Lengths \subseteq Nat

(* Registers by the references of an operand: r0 and its lower half and    *)
(* byte, FLAGS, the stack pointers, the IMR and the PFSR.                  *)
Sources == {"r0", "r0h", "r0b", "FLAGS", "USPR", "KSPR", "IMR"}
Destinations == Sources \cup {"PFSR"}

Machine ==
    [r0 : Word, uspr : Word, kspr : Word, imr : Half, flags : 0..(TopBit - 1),
     program_counter : Word, kernel_mode : BOOLEAN, mem : [Address -> Byte]]

Ops == {"FETCH", "OTHER", "LOAD", "STORE", "SWAP", "PUSH", "POP", "CALL",
        "RETURN", "USERMODE", "IRETURN"}
Outcomes == {"ok", "TryAgainError", "panic"}

VARIABLES
    machine,   \* registers and memory
    pages,     \* the page table in use
    rewind,
    ins,       \* the last cycle's instruction and the register it names
    outcome,   \* of the last cycle
    cycles     \* how many there were

vars == <<machine, pages, rewind, ins, outcome, cycles>>

TypeOK ==
    /\ machine \in Machine
    /\ pages \in [Address -> SUBSET {"R", "W", "X"}]
    /\ rewind \in Word
    /\ ins \in [op : Ops, ref : Destinations \cup {"none"}]
    /\ outcome \in Outcomes
    /\ cycles \in Nat

Init ==
    /\ \E mem \in Memories :
         machine = [r0 |-> 0, uspr |-> 0, kspr |-> 0, imr |-> 0, flags |-> 0,
                    program_counter |-> StartOfROM, kernel_mode |-> TRUE, mem |-> mem]
    /\ pages \in PageTables
    /\ rewind = 0
    /\ ins = [op |-> "OTHER", ref |-> "none"]
    /\ outcome = "ok"
    /\ cycles = 0

Add(a, n) == (a + n) % WordRange                      \* wrapping_add
Subtract(a, n) == (a + WordRange - n) % WordRange     \* wrapping_sub, n <= WordRange

-----------------------------------------------------------------------------
(***************************************************************************)
(* Memory: n bytes from an address on.                                     *)
(***************************************************************************)
May(m, a, right) ==
    /\ (IF right = "X" THEN "R" ELSE right) \in Zones[a]
    /\ m.kernel_mode \/ right \in pages[a]

MayAll(m, a, n, right) == \A k \in 0..(n - 1) : May(m, Add(a, k), right)

(* How many values n bytes have. *)
Values(n) == CASE n = 1 -> Base [] n = 2 -> HalfRange [] n = 4 -> WordRange

HalfOf(upper, lower) == upper * Base + lower

ValueAt(mem, a, n) ==
    CASE n = 1 -> mem[a]
      [] n = 2 -> HalfOf(mem[a], mem[Add(a, 1)])
      [] n = 4 -> HalfOf(mem[a], mem[Add(a, 1)]) * HalfRange
                    + HalfOf(mem[Add(a, 2)], mem[Add(a, 3)])

BytesOf(value, n) ==
    CASE n = 1 -> <<value>>
      [] n = 2 -> <<value \div Base, value % Base>>
      [] n = 4 -> LET upper == value \div HalfRange
                      lower == value % HalfRange
                  IN  <<upper \div Base, upper % Base, lower \div Base, lower % Base>>

(* What an instruction makes of the machine, and how it ends. *)
Result(m, end) == [machine |-> m, end |-> end]
Done(m) == Result(m, "ok")
Failed(m) == Result(m, "TryAgainError")

(* The bytes before the first one refused are written. *)
Stored(m, a, value, n) ==
    Result([m EXCEPT !.mem = [p \in Address |->
              LET k == Subtract(p, a)
              IN  IF k < n /\ MayAll(m, a, k + 1, "W") THEN BytesOf(value, n)[k + 1] ELSE @[p]]],
           IF MayAll(m, a, n, "W") THEN "ok" ELSE "TryAgainError")

StackPointer(m) == IF m.kernel_mode THEN m.kspr ELSE m.uspr

WithStackPointer(m, a) ==
    IF m.kernel_mode THEN [m EXCEPT !.kspr = a] ELSE [m EXCEPT !.uspr = a]

(* The stack pointer moves before the store that may fail. *)
Pushed(m, value, n) ==
    LET sp == Subtract(StackPointer(m), n)
    IN  Stored(WithStackPointer(m, sp), sp, value, n)

(* It moves after the load that may fail. *)
MayPop(m, n) == MayAll(m, StackPointer(m), n, "R")
Top(m, n) == ValueAt(m.mem, StackPointer(m), n)
Popped(m, n) == WithStackPointer(m, Add(StackPointer(m), n))

-----------------------------------------------------------------------------
(***************************************************************************)
(* Registers.                                                              *)
(***************************************************************************)
Width(ref) ==
    CASE ref = "r0b" -> 1
      [] ref \in {"r0h", "FLAGS", "IMR"} -> 2
      [] ref \in {"r0", "USPR", "KSPR", "PFSR"} -> 4

Privileged == {"KSPR", "IMR"}
MayRead(m, ref) == m.kernel_mode \/ ref \notin Privileged
MayWrite(m, ref) == MayRead(m, ref) /\ ref # "PFSR"

ReadFrom(m, ref) ==
    CASE ref = "r0" -> m.r0
      [] ref = "r0h" -> m.r0 % HalfRange
      [] ref = "r0b" -> m.r0 % Base
      [] ref = "FLAGS" -> m.flags
      [] ref = "USPR" -> m.uspr
      [] ref = "KSPR" -> m.kspr
      [] ref = "IMR" -> m.imr

WrittenTo(m, ref, value) ==
    CASE ref = "r0" -> [m EXCEPT !.r0 = value]
      [] ref = "r0h" -> [m EXCEPT !.r0 = @ - (@ % HalfRange) + value]
      [] ref = "r0b" -> [m EXCEPT !.r0 = @ - (@ % Base) + value]
      [] ref = "FLAGS" -> [m EXCEPT !.flags = value % TopBit]
      [] ref = "USPR" -> [m EXCEPT !.uspr = value]
      [] ref = "KSPR" -> [m EXCEPT !.kspr = value]
      [] ref = "IMR" -> [m EXCEPT !.imr = value]

WriteRegister(m, ref, value) ==
    IF MayWrite(m, ref) THEN Done(WrittenTo(m, ref, value)) ELSE Failed(m)

-----------------------------------------------------------------------------
(***************************************************************************)
(* The instructions, on a machine that has fetched them.                   *)
(***************************************************************************)
Loaded(m, ref, a) ==
    IF MayAll(m, a, Width(ref), "R")
      THEN WriteRegister(m, ref, ValueAt(m.mem, a, Width(ref)))
      ELSE Failed(m)

StoredFrom(m, ref, a) ==
    IF MayRead(m, ref) THEN Stored(m, a, ReadFrom(m, ref), Width(ref)) ELSE Failed(m)

(* The register is written before the store that may fail. *)
Swapped(m, ref, a) ==
    IF MayRead(m, ref) /\ MayAll(m, a, Width(ref), "R")
      THEN Stored(WrittenTo(m, ref, ValueAt(m.mem, a, Width(ref))),
                  a, ReadFrom(m, ref), Width(ref))
      ELSE Failed(m)

PushedFrom(m, ref) ==
    IF MayRead(m, ref) THEN Pushed(m, ReadFrom(m, ref), Width(ref)) ELSE Failed(m)

(* A register that refuses the value does so after the stack pointer moved. *)
PoppedTo(m, ref) ==
    IF MayPop(m, Width(ref))
      THEN WriteRegister(Popped(m, Width(ref)), ref, Top(m, Width(ref)))
      ELSE Failed(m)

Called(m, target) ==
    LET pushed == Pushed(m, m.program_counter, 4)
    IN  IF pushed.end = "ok" THEN Done([pushed.machine EXCEPT !.program_counter = target])
                             ELSE pushed

Returned(m) ==
    IF MayPop(m, 4) THEN Done([Popped(m, 4) EXCEPT !.program_counter = Top(m, 4)])
                    ELSE Failed(m)

EnteredUserMode(m) ==
    IF m.kernel_mode /\ MayPop(m, 4)
      THEN Done([Popped(m, 4) EXCEPT !.program_counter = Top(m, 4),
                                     !.flags = 0, !.kernel_mode = FALSE])
      ELSE Failed(m)

(***************************************************************************)
(* A pop of IRETURN failed: what the pops before it took is pushed back.   *)
(* "If the pop worked, push should too" (cpu.rs:621); the CPU thread       *)
(* panics when the push does not.                                          *)
(***************************************************************************)
Undone(pushed) == Result(pushed.machine, IF pushed.end = "ok" THEN "TryAgainError" ELSE "panic")

PutBack(m, imr) == Undone(Pushed(m, imr, 2))

(* Mutant: the two values are pushed in the order they were popped in. *)
PutBothBackInOrder(m, imr, pc) ==
    LET first == Undone(Pushed(m, imr, 2))
    IN  IF first.end = "panic" THEN first ELSE Undone(Pushed(first.machine, pc, 4))

PutBothBack(m, imr, pc) ==
    LET first == Undone(Pushed(m, pc, 4))
    IN  IF first.end = "panic" THEN first ELSE PutBack(first.machine, imr)

(* The IMR, the program counter and the flags are popped, in this order;   *)
(* bit 15 of the flags is the mode to return to.                           *)
IReturned(m) ==
    LET popped1 == Popped(m, 2)
        popped2 == Popped(popped1, 4)
        imr == Top(m, 2)
        pc == Top(popped1, 4)
        flags == Top(popped2, 2)
    IN  IF ~m.kernel_mode \/ ~MayPop(m, 2) THEN Failed(m)
        ELSE IF ~MayPop(popped1, 4) THEN PutBack(popped1, imr)
        ELSE IF ~MayPop(popped2, 2) THEN PutBothBack(popped2, imr, pc)
        ELSE Done([Popped(popped2, 2) EXCEPT
                     !.imr = imr, !.program_counter = pc, !.flags = flags % TopBit,
                     !.kernel_mode = flags >= TopBit])

-----------------------------------------------------------------------------
(***************************************************************************)
(* Cycles.                                                                 *)
(***************************************************************************)
Fetched(n) == [machine EXCEPT !.program_counter = Add(@, n)]

(* Mutant: the subtraction does not wrap. *)
RewoundUnwrapped(m, total) == [m EXCEPT !.program_counter = @ - total]

(* cpu_loop, when the cycle failed. *)
Rewound(m, total) == [m EXCEPT !.program_counter = Subtract(@, total)]

(* A cycle has fetched n bytes and ends with this result.  rewind keeps    *)
(* growing (and wraps around in a release build).                          *)
Ends(op, ref, n, result) ==
    /\ outcome # "panic"
    /\ cycles < MaxCycles
    /\ MayAll(machine, machine.program_counter, n, "X")
    /\ machine' = IF result.end = "TryAgainError" THEN Rewound(result.machine, Add(rewind, n))
                                                  ELSE result.machine
    /\ rewind' = Add(rewind, n)
    /\ ins' = [op |-> op, ref |-> ref]
    /\ outcome' = result.end
    /\ cycles' = cycles + 1
    /\ UNCHANGED pages

(* A part of the instruction, of this size, cannot be fetched. *)
FetchFault(n, size) ==
    /\ ~MayAll(machine, Add(machine.program_counter, n), size, "X")
    /\ Ends("FETCH", "none", n, Failed(Fetched(n)))

(***************************************************************************)
(* Copies, arithmetic, comparisons and jumps.  A division by zero, a type  *)
(* error or a register that may not be written fails before anything is    *)
(* assigned; the destination is written before the flags.                  *)
(***************************************************************************)
Fit(value, ref) == value % Values(Width(ref))

Copy(n, ref, value) ==
    Ends("OTHER", ref, n, WriteRegister(Fetched(n), ref, Fit(value, ref)))

Arithmetic(n, ref, value, flags) ==
    /\ MayWrite(machine, ref)
    /\ Ends("OTHER", ref, n,
            Done([WrittenTo(Fetched(n), ref, Fit(value, ref)) EXCEPT !.flags = flags]))

Compare(n, flags) == Ends("OTHER", "none", n, Done([Fetched(n) EXCEPT !.flags = flags]))
Jump(n, target) == Ends("OTHER", "none", n, Done([Fetched(n) EXCEPT !.program_counter = target]))
OtherFails(n) == Ends("OTHER", "none", n, Failed(Fetched(n)))

(* Memory is addressed by a literal or by a register. *)
Load(n, ref, a) == Ends("LOAD", ref, n, Loaded(Fetched(n), ref, a))
Store(n, ref, a) == Ends("STORE", ref, n, StoredFrom(Fetched(n), ref, a))
Swap(n, ref, a) == Ends("SWAP", ref, n, Swapped(Fetched(n), ref, a))
Push(ref) == Ends("PUSH", ref, 2, PushedFrom(Fetched(2), ref))
Pop(ref) == Ends("POP", ref, 2, PoppedTo(Fetched(2), ref))
Call(n, a) == Ends("CALL", "none", n, Called(Fetched(n), a))
Return == Ends("RETURN", "none", 1, Returned(Fetched(1)))
UserMode == Ends("USERMODE", "none", 1, EnteredUserMode(Fetched(1)))
IReturn == Ends("IRETURN", "none", 1, IReturned(Fetched(1)))

(* The kernel's page fault handler, which user code is then resumed from.  *)
Resolve(a, right) ==
    /\ outcome = "TryAgainError"
    /\ ~machine.kernel_mode
    /\ right \notin pages[a]
    /\ cycles < MaxCycles
    /\ pages' = [pages EXCEPT ![a] = @ \cup {right}]
    /\ UNCHANGED <<machine, rewind, ins, outcome, cycles>>

Next ==
    \/ \E n \in {0} \cup Lengths, size \in {1, 2, 4} : FetchFault(n, size)
    \/ \E n \in Lengths, value \in Operands :
         \/ \E ref \in Destinations : Copy(n, ref, value)
         \/ \E ref \in Destinations, flags \in 0..(TopBit - 1) : Arithmetic(n, ref, value, flags)
         \/ Jump(n, value)
    \/ \E n \in Lengths : OtherFails(n) \/ \E flags \in 0..(TopBit - 1) : Compare(n, flags)
    \/ \E n \in Lengths, a \in Operands :
         \/ \E ref \in Destinations : Load(n, ref, a)
         \/ \E ref \in Sources : Store(n, ref, a) \/ Swap(n, ref, a)
         \/ Call(n, a)
    \/ \E ref \in Sources : Push(ref)
    \/ \E ref \in Destinations : Pop(ref)
    \/ Return
    \/ UserMode
    \/ IReturn
    \/ \E a \in Address, right \in {"R", "W", "X"} : Resolve(a, right)

Spec == Init /\ [][Next]_vars

-----------------------------------------------------------------------------
(* The instructions that can be executed again after they failed.  PUSH    *)
(* and CALL move the stack pointer before they can fail, a POP does before *)
(* the register refuses the value, and SWAP writes the register first.     *)
Restartable(i, m) ==
    \/ i.op \in {"FETCH", "OTHER", "LOAD", "RETURN", "USERMODE", "IRETURN"}
    \/ i.op = "POP" /\ MayWrite(m, i.ref)

LeavesNoTrace ==
    outcome' = "TryAgainError" =>
      LET before == [machine EXCEPT !.program_counter = machine'.program_counter]
      IN  /\ Restartable(ins', machine) => machine' = before
          /\ ins'.op = "STORE" => machine' = [before EXCEPT !.mem = machine'.mem]

PanicsOnlyInROM ==
    outcome' = "panic" =>
      /\ ins'.op = "IRETURN"
      /\ \E k \in 0..5 : Zones[Add(machine.kspr, k)] = {"R"}

(* A restartable instruction that fails leaves every register, both stack  *)
(* pointers, the mode and every byte of memory as they were: an IRETURN    *)
(* that fails at its second or third pop too, whose pushes have to put     *)
(* back the stack pointer and the very bytes it popped, also where the     *)
(* stack wraps around or ends in memory that cannot be read (cpu.rs:612-   *)
(* 636, 2308-2330).  A STORE that fails leaves all but memory.             *)
(* "If the pop worked, push should too." (cpu.rs:621): it does, and the    *)
(* CPU thread does not panic, unless one of the six bytes of IMR and       *)
(* program counter in the frame can be read and not written, as in ROM.    *)
FailureLeavesNoTrace == [][LeavesNoTrace /\ PanicsOnlyInROM]_vars

(* A cycle that fails leaves the program counter at the instruction it     *)
(* tried (cpu.rs:325-326 "Per-cycle state", "How much to rewind if the     *)
(* last cycle failed").  The code never resets rewind.                     *)
FailureRestarts ==
    [][outcome' = "TryAgainError"
         => machine'.program_counter = machine.program_counter]_vars
=============================================================================
