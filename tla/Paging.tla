------------------------------- MODULE Paging -------------------------------
(***************************************************************************)
(* The MMU over the lazily allocated RAM: the memory map, the translation  *)
(* of virtual addresses, and the instructions that make several accesses   *)
(* one after the other, each of which may fault when earlier ones have     *)
(* been made (mmu.rs, and the block instructions, store and load of        *)
(* cpu.rs).                                                                *)
(*                                                                         *)
(* Page tables are kept apart from the memory they lie in.  After a page   *)
(* fault the guest kernel removes the cause that PFSR names and returns to *)
(* the instruction, which starts from its beginning (module Cycle has what *)
(* the CPU does to the program counter after a fault).                     *)
(***************************************************************************)
EXTENDS RamLazy, Sequences, FiniteSetsExt

CONSTANTS
    BEGIN_RAM,      \* below it are the devices
    ZoneAccess,     \* [0..(BEGIN_RAM - 1) -> SUBSET {"R", "W"}]
    FrameSize,      \* bytes per page
    TableSize,      \* pages per page table
    Directories,    \* initial page directories: [Tables -> BOOLEAN]
    PageTables,     \* initial entries: [VPage -> PageTableEntry]
    Programs        \* sequences of instructions

Size == BEGIN_RAM + RAM_SIZE                 \* of the address space (2^32)
Address == 0..(Size - 1)
VPage == 0..((Size - 1) \div FrameSize)
Tables == 0..(((Size - 1) \div FrameSize) \div TableSize)

PageTableEntry ==
    [valid : BOOLEAN, present : BOOLEAN, legal : SUBSET {"R", "W", "X"}, cow : BOOLEAN,
     frame : VPage]

(* What the decoder hands to the instructions that access memory. *)
Instruction ==
    {i \in [op : {"STORE", "LOAD", "FETCH", "BLOCKSET", "BLOCKCOPY", "BLOCKCMP"},
            mode : {"kernel", "user"}, len : Nat, a : Address, b : Address, v : Seq(Byte)] :
        i.op = "BLOCKSET" => i.v # <<>>}

ASSUME MapAssumption ==
    BEGIN_RAM \in Nat /\ ZoneAccess \in [0..(BEGIN_RAM - 1) -> SUBSET {"R", "W"}]
ASSUME FrameAssumption ==
    /\ FrameSize \in Nat \ {0} /\ TableSize \in Nat \ {0}
    /\ Size % FrameSize = 0
ASSUME NumbersAssumption == Byte \subseteq Nat
ASSUME GuestAssumption ==
    /\ Directories \subseteq [Tables -> BOOLEAN]
    /\ PageTables \subseteq [VPage -> PageTableEntry]
    /\ Programs \subseteq Seq(Instruction)

VARIABLES
    zone,        \* what the devices' registers hold
    directory,   \* is the page directory entry valid?
    table,       \* the page table entries
    checked,     \* is this a build with overflow checks?
    pfsr,
    todo,        \* the instructions after the current one
    ins,         \* the current one
    n,           \* how many accesses of it have been made
    held,        \* the byte last read
    read,        \* the bytes read by a load or fetch
    flags,       \* as BLOCKCMP leaves them
    outcome,
    before       \* the memory when the current instruction was first executed

cpuVars == <<pfsr, todo, ins, n, held, read, flags, outcome, before>>
pagingVars == <<vars, zone, directory, table, checked, cpuVars>>

NoInstruction == [op |-> "none", mode |-> "kernel", len |-> 0, a |-> 0, b |-> 0, v |-> <<>>]

PagingInit ==
    /\ Init
    /\ zone = [a \in 0..(BEGIN_RAM - 1) |-> 0]
    /\ directory \in Directories
    /\ table \in PageTables
    /\ checked \in BOOLEAN
    /\ pfsr = 0
    /\ todo \in Programs
    /\ ins = NoInstruction
    /\ n = 0 /\ held = 0 /\ read = <<>> /\ flags = {}
    /\ outcome = "ok"
    /\ before = [a \in Address |-> 0]

-----------------------------------------------------------------------------
(* Physical accesses *)
Allowed(p, intent) ==
    p < BEGIN_RAM => (IF intent = "W" THEN "W" ELSE "R") \in ZoneAccess[p]

Image == [p \in Address |-> IF p < BEGIN_RAM THEN zone[p] ELSE Get(p - BEGIN_RAM)]

load_physical_8(p) ==
    /\ IF p < BEGIN_RAM THEN UNCHANGED vars ELSE Load(p - BEGIN_RAM)
    /\ UNCHANGED zone

store_physical_8(p, value) ==
    IF p < BEGIN_RAM
      THEN zone' = [zone EXCEPT ![p] = value] /\ UNCHANGED vars
      ELSE Store(p - BEGIN_RAM, value) /\ UNCHANGED zone

-----------------------------------------------------------------------------
(* Translation *)
PAGE_FAULT_INVALID_PAGE == 0
PAGE_FAULT_ILLEGAL_ACCESS == 1
PAGE_FAULT_NOT_PRESENT == 2
PAGE_FAULT_COW == 3
NoFault == -1

VPageOf(a) == a \div FrameSize

(* Mutant: a page that is not valid is reported as one that is not there. *)
TranslationFaultNotPresent(a, intent) ==
    LET pte == table[VPageOf(a)]
    IN IF ~directory[VPageOf(a) \div TableSize] THEN PAGE_FAULT_INVALID_PAGE
       ELSE IF ~pte.valid \/ ~pte.present THEN PAGE_FAULT_NOT_PRESENT
       ELSE IF intent \notin pte.legal THEN PAGE_FAULT_ILLEGAL_ACCESS
       ELSE IF intent = "W" /\ pte.cow THEN PAGE_FAULT_COW
       ELSE NoFault

(* Mutant: copy-on-write pages are written to. *)
TranslationFaultNoCow(a, intent) ==
    LET pte == table[VPageOf(a)]
    IN IF ~directory[VPageOf(a) \div TableSize] \/ ~pte.valid THEN PAGE_FAULT_INVALID_PAGE
       ELSE IF ~pte.present THEN PAGE_FAULT_NOT_PRESENT
       ELSE IF intent \notin pte.legal THEN PAGE_FAULT_ILLEGAL_ACCESS
       ELSE NoFault

TranslationFault(a, intent) ==
    LET pte == table[VPageOf(a)]
    IN IF ~directory[VPageOf(a) \div TableSize] THEN PAGE_FAULT_INVALID_PAGE
       ELSE IF ~pte.valid THEN PAGE_FAULT_INVALID_PAGE
       ELSE IF ~pte.present THEN PAGE_FAULT_NOT_PRESENT
       ELSE IF intent \notin pte.legal THEN PAGE_FAULT_ILLEGAL_ACCESS
       ELSE IF intent = "W" /\ pte.cow THEN PAGE_FAULT_COW
       ELSE NoFault

Physical(mode, a) ==
    IF mode = "kernel" THEN a
    ELSE table[VPageOf(a)].frame * FrameSize + (a % FrameSize)

-----------------------------------------------------------------------------
(* The accesses of an instruction, in order.  STORE and PUSH write the     *)
(* bytes v to a, LOAD, POP and a fetch read len of them, BLOCKSET sets len *)
(* bytes at a to v[1], BLOCKCOPY copies b to a, BLOCKCMP compares a to b.  *)
Accesses(i) ==
    CASE i.op = "STORE" -> [k \in 1..Len(i.v) |-> [intent |-> "W", at |-> i.a + k - 1]]
      [] i.op = "LOAD" -> [k \in 1..i.len |-> [intent |-> "R", at |-> i.a + k - 1]]
      [] i.op = "FETCH" -> [k \in 1..i.len |-> [intent |-> "X", at |-> i.a + k - 1]]
      [] i.op = "BLOCKSET" -> [k \in 1..i.len |-> [intent |-> "W", at |-> i.a + k - 1]]
      [] i.op = "BLOCKCOPY" ->
           [k \in 1..(2 * i.len) |->
              IF k % 2 = 1 THEN [intent |-> "R", at |-> i.b + k \div 2]
              ELSE [intent |-> "W", at |-> i.a + k \div 2 - 1]]
      [] i.op = "BLOCKCMP" ->
           [k \in 1..(2 * i.len) |->
              [intent |-> "R", at |-> IF k % 2 = 1 THEN i.a + k \div 2
                                      ELSE i.b + k \div 2 - 1]]

Written(i, k) ==
    CASE i.op = "STORE" -> i.v[k]
      [] i.op = "BLOCKSET" -> i.v[1]
      [] i.op = "BLOCKCOPY" -> held

Running == outcome = "running"
More == Running /\ n < Len(Accesses(ins))
Now == Accesses(ins)[n + 1]

Begin ==
    /\ outcome = "ok" /\ todo # <<>>
    /\ ins' = Head(todo)
    /\ todo' = Tail(todo)
    /\ outcome' = "running"
    /\ before' = Image
    /\ n' = 0 /\ read' = <<>>
    /\ UNCHANGED <<vars, zone, directory, table, checked, pfsr, held, flags>>

(* address + 1, source + i: the sum either panics or wraps around. *)
Overflows(a) == a >= Size
Panics == More /\ Overflows(Now.at) /\ checked
Wrapped(a) == a % Size

FaultNow ==
    IF ins.mode = "kernel" THEN NoFault ELSE TranslationFault(Wrapped(Now.at), Now.intent)
Target == Physical(ins.mode, Wrapped(Now.at))
Access(intents) ==
    /\ More /\ ~Panics
    /\ Now.intent \in intents
    /\ FaultNow = NoFault
    /\ Allowed(Target, Now.intent)

ReadByte ==
    /\ Access({"R", "X"})
    /\ ~(ins.op = "BLOCKCMP" /\ n % 2 = 1)
    /\ load_physical_8(Target)
    /\ held' = Image[Target]
    /\ read' = IF ins.op \in {"LOAD", "FETCH"} THEN Append(read, held') ELSE read
    /\ n' = n + 1
    /\ UNCHANGED <<directory, table, checked, pfsr, todo, ins, flags, outcome, before>>

WriteByte ==
    /\ Access({"W"})
    /\ store_physical_8(Target, Written(ins, n + 1))
    /\ n' = n + 1
    /\ UNCHANGED <<directory, table, checked, pfsr, todo, ins, held, read, flags, outcome,
                   before>>

(* Mutant: the two blocks are taken for each other. *)
DiffersSwapped(x, y) == IF x < y THEN {} ELSE {"N"}

(* The second byte of a pair in BLOCKCMP; a difference ends the loop. *)
Differs(x, y) == IF x > y THEN {} ELSE {"N"}

CompareByte ==
    /\ Access({"R"})
    /\ ins.op = "BLOCKCMP" /\ n % 2 = 1
    /\ load_physical_8(Target)
    /\ IF held # Image[Target]
         THEN /\ flags' = Differs(held, Image[Target])
              /\ outcome' = "ok"
         ELSE UNCHANGED <<flags, outcome>>
    /\ n' = n + 1
    /\ UNCHANGED <<directory, table, checked, pfsr, todo, ins, held, read, before>>

Complete ==
    /\ Running /\ n = Len(Accesses(ins))
    /\ flags' = IF ins.op = "BLOCKCMP" THEN {"Z"} ELSE flags
    /\ outcome' = "ok"
    /\ UNCHANGED <<vars, zone, directory, table, checked, pfsr, todo, ins, n, held, read,
                   before>>

Fails(result) ==
    /\ outcome' = result
    /\ UNCHANGED <<vars, zone, directory, table, checked, todo, ins, n, held, read, flags,
                   before>>

PageFault ==
    /\ More /\ ~Panics
    /\ FaultNow # NoFault
    /\ pfsr' = FaultNow
    /\ Fails("page fault")

Reject ==
    /\ More /\ ~Panics
    /\ FaultNow = NoFault
    /\ ~Allowed(Target, Now.intent)
    /\ Fails("illegal operation") /\ UNCHANGED pfsr

Panic == Panics /\ Fails("panic") /\ UNCHANGED pfsr

Cpu == Begin \/ ReadByte \/ WriteByte \/ CompareByte \/ Complete \/ PageFault \/ Reject \/ Panic

-----------------------------------------------------------------------------
(* The guest kernel's page fault handler.  It goes by PFSR alone: maps a   *)
(* page that is not valid, fetches one that is not present, gives the      *)
(* process a copy of its own of one that is shared, and ends a process     *)
(* that may not do what it tried.                                          *)
Resolve ==
    LET page == VPageOf(Wrapped(Now.at))
        Mend(pte) ==
          CASE pfsr = PAGE_FAULT_INVALID_PAGE -> [pte EXCEPT !.valid = TRUE]
            [] pfsr = PAGE_FAULT_NOT_PRESENT -> [pte EXCEPT !.present = TRUE]
            [] pfsr = PAGE_FAULT_COW -> [pte EXCEPT !.cow = FALSE]
    IN /\ outcome = "page fault"
       /\ IF pfsr = PAGE_FAULT_ILLEGAL_ACCESS
            THEN outcome' = "ended" /\ UNCHANGED <<directory, table>>
            ELSE /\ table' = [table EXCEPT ![page] = Mend(@)]
                 /\ directory' = IF pfsr = PAGE_FAULT_INVALID_PAGE
                                   THEN [directory EXCEPT ![page \div TableSize] = TRUE]
                                   ELSE directory
                 /\ outcome' = "running"
       /\ n' = 0 /\ read' = <<>>
       /\ UNCHANGED <<vars, zone, checked, pfsr, todo, ins, held, flags, before>>

PagingNext == Cpu \/ Resolve

(* The CPU thread keeps executing, and its kernel's handlers return. *)
PagingSpec ==
    PagingInit /\ [][PagingNext]_pagingVars /\ WF_pagingVars(Cpu) /\ WF_pagingVars(Resolve)

-----------------------------------------------------------------------------
(* The k-th byte of the block at a *)
At(a, k) == Physical(ins.mode, Wrapped(a + k - 1))
Length == IF ins.op = "STORE" THEN Len(ins.v) ELSE ins.len
Destinations ==
    IF ins.op \in {"STORE", "BLOCKSET", "BLOCKCOPY"} THEN {At(ins.a, k) : k \in 1..Length}
    ELSE {}
Overlapping ==
    ins.op = "BLOCKCOPY" /\ {At(ins.b, k) : k \in 1..Length} \cap Destinations # {}

(* What the instruction writes to the k-th byte of its destination *)
Value(k) ==
    CASE ins.op = "STORE" -> ins.v[k]
      [] ins.op = "BLOCKSET" -> ins.v[1]
      [] ins.op = "BLOCKCOPY" -> before[At(ins.b, k)]
LastWritten(p) == Value(Max({j \in 1..Length : At(ins.a, j) = p}))

Comparison ==
    LET Left(k) == before[At(ins.a, k)]
        Right(k) == before[At(ins.b, k)]
        differing == {k \in 1..Length : Left(k) # Right(k)}
    IN IF differing = {} THEN {"Z"}
       ELSE IF Left(Min(differing)) < Right(Min(differing)) THEN {"N"} ELSE {}

(* However often an instruction faulted half-way and was started again, it *)
(* ends with what it would have done at one go: the memory and the flags   *)
(* it leaves and the bytes it reads follow from the memory it first met.   *)
(* Only a BLOCKCOPY between blocks that overlap in memory, at the same or  *)
(* at different virtual addresses, is exempt (cpu.rs:1729-1763, 2027-2055; *)
(* mmu.rs:112-149; instruction-set.md: will restart from the beginning).   *)
FaultsInvisible ==
    outcome = "ok" /\ ins.op # "none" /\ ~Overlapping =>
      /\ Image = [p \in Address |-> IF p \in Destinations THEN LastWritten(p) ELSE before[p]]
      /\ ins.op \in {"LOAD", "FETCH"} => read = [k \in 1..Length |-> before[At(ins.a, k)]]
      /\ ins.op = "BLOCKCMP" => flags = Comparison

(* Whatever becomes of an instruction, all it has changed is within its    *)
(* destination and, in user mode, on pages that are valid, present,        *)
(* writable and not to be copied first; a write that is refused half-way   *)
(* has changed nothing else (mmu.rs:107-125, 150-198, 278-331).            *)
WritesConfined ==
    \A p \in Address : Image[p] # before[p] =>
      /\ p < BEGIN_RAM => "W" \in ZoneAccess[p]
      /\ \E k \in 1..Length :
           /\ At(ins.a, k) = p /\ p \in Destinations
           /\ LET page == VPageOf(Wrapped(ins.a + k - 1))
              IN ins.mode = "user" =>
                   /\ directory[page \div TableSize]
                   /\ table[page].valid /\ table[page].present
                   /\ "W" \in table[page].legal /\ ~table[page].cow

(* A kernel that does what PFSR asks for gets every instruction to its     *)
(* end, whatever combination of causes its pages have: the codes are       *)
(* reported one after the other and none of them twice for a page          *)
(* (mmu.rs:286-327; memory-management.md:82-90).                           *)
FaultsResolve == outcome \in {"running", "page fault"} ~>
                   outcome \in {"ok", "illegal operation", "panic", "ended"}

-----------------------------------------------------------------------------
(***************************************************************************)
(* The inductive invariants behind the safety properties.                  *)
(***************************************************************************)
PagingTypes ==
    /\ TypeOK
    /\ zone \in [0..(BEGIN_RAM - 1) -> Byte]
    /\ directory \in [Tables -> BOOLEAN]
    /\ table \in [VPage -> PageTableEntry]
    /\ checked \in BOOLEAN
    /\ pfsr \in 0..3
    /\ todo \in Seq(Instruction)
    /\ outcome \in {"ok", "running", "page fault", "illegal operation", "panic", "ended"}
    /\ ins \in Instruction \/ (ins = NoInstruction /\ outcome = "ok")
    /\ n \in Nat
    /\ Running => n <= Len(Accesses(ins))
    /\ held \in Byte
    /\ before \in [Address -> Byte]

Stores == ins.op \in {"STORE", "BLOCKSET", "BLOCKCOPY"}
Pairs == ins.op \in {"BLOCKCOPY", "BLOCKCMP"}
Done == IF Pairs THEN n \div 2 ELSE n       \* bytes or pairs done with

(* Of the bytes written in this attempt each holds what was written last. *)
WrittenSoFar ==
    Stores => \A i \in 1..Done : \E k \in 1..Done :
      /\ At(ins.a, k) = At(ins.a, i)
      /\ \A j \in (k + 1)..Done : At(ins.a, j) # At(ins.a, i)
      /\ Image[At(ins.a, i)] = Value(k)

(* The first byte of a pair has been read and the second is to come. *)
HeldSoFar ==
    n % 2 = 1 =>
      /\ ins.op = "BLOCKCOPY" => held = before[At(ins.b, Done + 1)]
      /\ ins.op = "BLOCKCMP" => held = before[At(ins.a, Done + 1)]

ReadSoFar ==
    /\ ins.op \in {"LOAD", "FETCH"} => read = [k \in 1..n |-> before[At(ins.a, k)]]
    /\ ins.op = "BLOCKCMP" =>
         \A k \in 1..Done : before[At(ins.a, k)] = before[At(ins.b, k)]

(* An attempt, the first or a later one, starts with a memory that differs *)
(* from the one first met in the destination only, and has got so far.     *)
AttemptInv ==
    outcome \in {"running", "page fault"} /\ ~Overlapping =>
      /\ \A p \in Address \ Destinations : Image[p] = before[p]
      /\ Running => WrittenSoFar /\ HeldSoFar /\ ReadSoFar

PagingInv == PagingTypes /\ WritesConfined /\ AttemptInv /\ FaultsInvisible
=============================================================================
