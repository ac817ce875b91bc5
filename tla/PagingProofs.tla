---------------------------- MODULE PagingProofs ----------------------------
(***************************************************************************)
(* Theorems about the MMU and the instructions that make several accesses, *)
(* for every memory map, page size, page table and program.                *)
(***************************************************************************)
EXTENDS Paging, TLAPS

-----------------------------------------------------------------------------
(***************************************************************************)
(* The RAM.                                                                *)
(***************************************************************************)

(* An index is determined by its page and its offset. *)
LEMMA IndexFacts ==
  ASSUME NEW i \in Index
  PROVE  /\ OffsetOf(i) \in Offsets
         /\ \A j \in Index : PageOf(i) = PageOf(j) /\ OffsetOf(i) = OffsetOf(j) => i = j
  BY SizesAssumption DEF Index, Offsets, PageOf, OffsetOf

(* Every load and store preserves the types. *)
LEMMA StepType == TypeOK /\ [Next]_vars => TypeOK'
<1>. SUFFICES ASSUME TypeOK, [Next]_vars PROVE TypeOK'
  OBVIOUS
<1>1. ASSUME NEW i \in Index, Load(i) PROVE TypeOK'
  BY <1>1, IndexFacts, ByteAssumption DEF Load, Get, TypeOK, Pages
<1>2. ASSUME NEW i \in Index, NEW value \in Byte, Store(i, value) PROVE TypeOK'
  <2>1. Entry(PageOf(i)) \in Pages
    BY ByteAssumption DEF Entry, Fresh, Pages, TypeOK
  <2>2. [Entry(PageOf(i)) EXCEPT ![OffsetOf(i)] = value] \in Pages
    BY <2>1 DEF Pages
  <2>. QED
    BY <1>2, <2>2 DEF Store, TypeOK
<1>3. CASE UNCHANGED vars
  BY <1>3 DEF vars, TypeOK
<1>. QED
  BY <1>1, <1>2, <1>3 DEF Next

(* Pages have the right type. *)
LEMMA TypeInvariant == Spec => []TypeOK
<1>1. Init => TypeOK
  BY ByteAssumption DEF Init, TypeOK
<1>. QED
  BY <1>1, StepType, PTL DEF Spec

(* A store changes the byte at its index and no other. *)
LEMMA StoreChangesOne ==
  ASSUME TypeOK, NEW i \in Index, NEW value \in Byte, Store(i, value),
         NEW j \in Index
  PROVE  Get(j)' = IF j = i THEN value ELSE Get(j)
<1>1. /\ DOMAIN pages' = DOMAIN pages \cup {PageOf(i)}
      /\ pages'[PageOf(i)] = [Entry(PageOf(i)) EXCEPT ![OffsetOf(i)] = value]
      /\ \A p \in DOMAIN pages : p # PageOf(i) => pages'[p] = pages[p]
  BY DEF Store
<1>2. Get(j)' = IF PageOf(j) \in DOMAIN pages' THEN pages'[PageOf(j)][OffsetOf(j)] ELSE 0
  BY DEF Get
<1>3. CASE PageOf(j) # PageOf(i)
  BY <1>1, <1>2, <1>3 DEF Get
<1>4. CASE PageOf(j) = PageOf(i)
  <2>1. Entry(PageOf(i)) \in Pages
    BY ByteAssumption DEF Entry, Fresh, Pages, TypeOK
  <2>2. OffsetOf(i) \in Offsets /\ OffsetOf(j) \in Offsets
    BY IndexFacts
  <2>3. Get(j)' = IF OffsetOf(j) = OffsetOf(i) THEN value
                  ELSE Entry(PageOf(i))[OffsetOf(j)]
    BY <1>1, <1>2, <1>4, <2>1, <2>2 DEF Pages
  <2>4. Entry(PageOf(i))[OffsetOf(j)] = Get(j)
    BY <1>4, <2>2 DEF Entry, Fresh, Get
  <2>5. OffsetOf(j) = OffsetOf(i) <=> j = i
    BY <1>4, IndexFacts
  <2>. QED
    BY <2>3, <2>4, <2>5
<1>. QED
  BY <1>3, <1>4

(***************************************************************************)
(* The lazy RAM implements the eager one, for every size: lazy allocation  *)
(* is invisible to the MMU.                                                *)
(***************************************************************************)
THEOREM LazyImplementsEager == Spec => ImplementsEager
<1>1. Init => Eager!Init
  BY DEF Init, Get, Eager!Init, Eager!Index, Index
<1>2. TypeOK /\ [Next]_vars => [Eager!Next]_(Eager!vars)
  <2>. SUFFICES ASSUME TypeOK, [Next]_vars PROVE [Eager!Next]_(Eager!vars)
    OBVIOUS
  <2>. Index = Eager!Index
    BY DEF Index, Eager!Index
  <2>1. ASSUME NEW i \in Index, Load(i) PROVE Eager!Load(i)
    BY <2>1 DEF Load, Get, Eager!Load
  <2>2. ASSUME NEW i \in Index, NEW value \in Byte, Store(i, value)
        PROVE  Eager!Store(i, value)
    <3>1. [j \in Index |-> Get(j)]' = [j \in Index |-> IF j = i THEN value ELSE Get(j)]
      BY <2>2, StoreChangesOne
    <3>2. loaded' = loaded
      BY <2>2 DEF Store
    <3>. QED
      BY <3>1, <3>2 DEF Eager!Store
  <2>3. ASSUME UNCHANGED vars PROVE UNCHANGED Eager!vars
    BY <2>3 DEF vars, Get, Eager!vars
  <2>. QED
    BY <2>1, <2>2, <2>3 DEF Next, Eager!Next
<1>. QED
  BY <1>1, <1>2, TypeInvariant, PTL DEF Spec, ImplementsEager, Eager!Spec

-----------------------------------------------------------------------------
(***************************************************************************)
(* The MMU.                                                                *)
(***************************************************************************)

(* The largest and the smallest member of a set, once one is known. *)
LEMMA Extremes ==
    ASSUME NEW S \in SUBSET Nat, NEW k \in S
    PROVE  /\ (\A j \in S : j <= k) => Max(S) = k
           /\ (\A j \in S : k <= j) => Min(S) = k
<1>1. ASSUME \A j \in S : j <= k PROVE Max(S) = k
  <2>1. \E x \in S : \A y \in S : x >= y
    BY <1>1
  <2>2. Max(S) \in S /\ \A y \in S : Max(S) >= y
    BY <2>1, Zenon DEF Max
  <2>3. Max(S) \in Nat /\ Max(S) >= k /\ Max(S) <= k
    BY <1>1, <2>2, Zenon
  <2>. QED
    BY <2>3
<1>2. ASSUME \A j \in S : k <= j PROVE Min(S) = k
  <2>1. \E x \in S : \A y \in S : x =< y
    BY <1>2
  <2>2. Min(S) \in S /\ \A y \in S : Min(S) =< y
    BY <2>1, Zenon DEF Min
  <2>3. Min(S) \in Nat /\ Min(S) =< k /\ k <= Min(S)
    BY <1>2, <2>2, Zenon
  <2>. QED
    BY <2>3
<1>. QED
  BY <1>1, <1>2

-----------------------------------------------------------------------------
(***************************************************************************)
(* Addresses.                                                              *)
(***************************************************************************)

(* The address space consists of whole pages. *)
LEMMA Sizes ==
    /\ Size \in Nat /\ FrameSize \in Nat \ {0}
    /\ Size = (Size \div FrameSize) * FrameSize
<1>1. Size \in Nat /\ FrameSize \in Nat \ {0} /\ Size % FrameSize = 0
  BY SizesAssumption, MapAssumption, FrameAssumption DEF Size
<1>2. Size = FrameSize * (Size \div FrameSize) + (Size % FrameSize)
  BY <1>1
<1>3. Size \div FrameSize \in Nat
  BY <1>1
<1>. QED
  BY <1>1, <1>2, <1>3

(* Every byte of a page that is mapped to a frame is an address. *)
LEMMA PageRange ==
    ASSUME NEW a \in Address
    PROVE  /\ VPageOf(a) \in VPage
           /\ \A f \in VPage : f * FrameSize + (a % FrameSize) \in Address
<1>. DEFINE q == Size \div FrameSize
<1>1. a \in Nat /\ a < Size /\ q \in Nat /\ Size = q * FrameSize /\ FrameSize \in Nat \ {0}
      /\ Size \in Nat
  BY Sizes DEF Address
<1>2. a % FrameSize \in 0..(FrameSize - 1)
  BY <1>1
<1>. HIDE DEF q
<1>3. (Size - 1) \div FrameSize = q - 1
  <2>1. q >= 1
    BY <1>1
  <2>2. (q - 1) * FrameSize = q * FrameSize - FrameSize
    BY <1>1
  <2>3. Size - 1 = (q - 1) * FrameSize + (FrameSize - 1)
    BY <1>1, <2>2
  <2>. QED
    BY <1>1, <2>1, <2>3
<1>4. VPageOf(a) \in VPage
  <2>1. a \div FrameSize \in Nat /\ a = (a \div FrameSize) * FrameSize + (a % FrameSize)
    BY <1>1
  <2>2. a \div FrameSize < q
    <3>. DEFINE d == a \div FrameSize
    <3>. d \in Nat /\ a >= d * FrameSize
      BY <1>1, <1>2, <2>1
    <3>. HIDE DEF d
    <3>1. ASSUME d >= q PROVE FALSE
      <4>1. d * FrameSize >= q * FrameSize
        BY <1>1, <3>1
      <4>. QED
        BY <1>1, <4>1
    <3>. QED
      BY <1>1, <3>1 DEF d
  <2>. QED
    BY <1>1, <1>3, <2>1, <2>2 DEF VPageOf, VPage
<1>5. ASSUME NEW f \in VPage PROVE f * FrameSize + (a % FrameSize) \in Address
  <2>1. f \in Nat /\ f <= q - 1
    BY <1>1, <1>3, <1>5 DEF VPage
  <2>2. f * FrameSize <= (q - 1) * FrameSize /\ f * FrameSize \in Nat
    BY <1>1, <2>1
  <2>3. (q - 1) * FrameSize = Size - FrameSize
    BY <1>1
  <2>. QED
    BY <1>1, <1>2, <2>2, <2>3 DEF Address
<1>. QED
  BY <1>4, <1>5

-----------------------------------------------------------------------------
(***************************************************************************)
(* Accesses.                                                               *)
(***************************************************************************)

(* What an instruction is. *)
LEMMA InstructionFacts ==
    ASSUME NEW i \in Instruction
    PROVE  /\ i.op \in {"STORE", "LOAD", "FETCH", "BLOCKSET", "BLOCKCOPY", "BLOCKCMP"}
           /\ i.len \in Nat /\ i.a \in Address /\ i.b \in Address
           /\ i.mode \in {"kernel", "user"}
           /\ i.v \in Seq(Byte) /\ Len(i.v) \in Nat
           /\ i.op = "BLOCKSET" => i.v # <<>>
<1>1. /\ i \in [op : {"STORE", "LOAD", "FETCH", "BLOCKSET", "BLOCKCOPY", "BLOCKCMP"},
               mode : {"kernel", "user"}, len : Nat, a : Address, b : Address, v : Seq(Byte)]
      /\ i.op = "BLOCKSET" => i.v # <<>>
  BY DEF Instruction
<1>. QED
  BY <1>1

(* The accesses of an instruction, in terms of the bytes or pairs that the *)
(* earlier ones have done with.                                            *)
LEMMA AccessFacts ==
    ASSUME NEW i \in Instruction, NEW m \in Nat, m < Len(Accesses(i))
    PROVE  LET d == IF i.op \in {"BLOCKCOPY", "BLOCKCMP"} THEN m \div 2 ELSE m
               now == Accesses(i)[m + 1]
           IN /\ d + 1 \in 1..(IF i.op = "STORE" THEN Len(i.v) ELSE i.len)
              /\ i.op \in {"STORE", "BLOCKSET"} => now = [intent |-> "W", at |-> i.a + d]
              /\ i.op = "LOAD" => now = [intent |-> "R", at |-> i.a + d]
              /\ i.op = "FETCH" => now = [intent |-> "X", at |-> i.a + d]
              /\ i.op = "BLOCKCOPY" /\ m % 2 = 0 => now = [intent |-> "R", at |-> i.b + d]
              /\ i.op = "BLOCKCOPY" /\ m % 2 = 1 => now = [intent |-> "W", at |-> i.a + d]
              /\ i.op = "BLOCKCMP" /\ m % 2 = 0 => now = [intent |-> "R", at |-> i.a + d]
              /\ i.op = "BLOCKCMP" /\ m % 2 = 1 => now = [intent |-> "R", at |-> i.b + d]
<1>. i.len \in Nat /\ i.a \in Int /\ i.b \in Int /\ Len(i.v) \in Nat
  BY InstructionFacts, Sizes DEF Address
<1>1. CASE i.op = "STORE"
  BY <1>1 DEF Accesses
<1>2. CASE i.op = "LOAD"
  BY <1>2 DEF Accesses
<1>3. CASE i.op = "FETCH"
  BY <1>3 DEF Accesses
<1>4. CASE i.op = "BLOCKSET"
  BY <1>4 DEF Accesses
<1>. DEFINE h == m \div 2
<1>7. h \in Nat /\ (m + 1) \div 2 \in Nat /\ m < Len(Accesses(i))
      /\ (m % 2 = 0 => m = 2 * h /\ (m + 1) % 2 = 1 /\ (m + 1) \div 2 = h)
      /\ (m % 2 = 1 => m = 2 * h + 1 /\ (m + 1) % 2 = 0 /\ (m + 1) \div 2 = h + 1)
      /\ (m % 2 = 0 \/ m % 2 = 1)
  OBVIOUS
<1>. HIDE DEF h
<1>5. CASE i.op = "BLOCKCOPY"
  <2>1. /\ Len(Accesses(i)) = 2 * i.len
        /\ m + 1 \in 1..(2 * i.len) =>
             Accesses(i)[m + 1] = IF (m + 1) % 2 = 1
                                    THEN [intent |-> "R", at |-> i.b + (m + 1) \div 2]
                                    ELSE [intent |-> "W", at |-> i.a + (m + 1) \div 2 - 1]
    BY <1>5 DEF Accesses
  <2>2. m + 1 \in 1..(2 * i.len) /\ h + 1 \in 1..i.len
    BY <1>7, <2>1
  <2>3. CASE m % 2 = 0
    <3>1. Accesses(i)[m + 1] = [intent |-> "R", at |-> i.b + h]
      BY <1>7, <2>1, <2>2, <2>3
    <3>. QED
      BY <1>5, <2>2, <2>3, <3>1 DEF h
  <2>4. CASE m % 2 = 1
    <3>1. Accesses(i)[m + 1] = [intent |-> "W", at |-> i.a + (h + 1) - 1]
      BY <1>7, <2>1, <2>2, <2>4
    <3>2. i.a + (h + 1) - 1 = i.a + h
      BY <1>7
    <3>. QED
      BY <1>5, <2>2, <2>4, <3>1, <3>2 DEF h
  <2>. QED
    BY <1>7, <2>3, <2>4
<1>6. CASE i.op = "BLOCKCMP"
  <2>1. /\ Len(Accesses(i)) = 2 * i.len
        /\ m + 1 \in 1..(2 * i.len) =>
             Accesses(i)[m + 1] = [intent |-> "R",
                                   at |-> IF (m + 1) % 2 = 1 THEN i.a + (m + 1) \div 2
                                          ELSE i.b + (m + 1) \div 2 - 1]
    BY SMTT(30), <1>6 DEF Accesses
  <2>2. m + 1 \in 1..(2 * i.len) /\ h + 1 \in 1..i.len
    BY <1>7, <2>1
  <2>3. CASE m % 2 = 0
    <3>1. Accesses(i)[m + 1] = [intent |-> "R", at |-> i.a + h]
      BY <1>7, <2>1, <2>2, <2>3
    <3>. QED
      BY <1>6, <2>2, <2>3, <3>1 DEF h
  <2>4. CASE m % 2 = 1
    <3>1. Accesses(i)[m + 1] = [intent |-> "R", at |-> i.b + (h + 1) - 1]
      BY <1>7, <2>1, <2>2, <2>4
    <3>2. i.b + (h + 1) - 1 = i.b + h
      BY <1>7
    <3>. QED
      BY <1>6, <2>2, <2>4, <3>1, <3>2 DEF h
  <2>. QED
    BY <1>7, <2>3, <2>4
<1>. QED
  BY InstructionFacts, <1>1, <1>2, <1>3, <1>4, <1>5, <1>6

(* Every byte of a block is an address, however the block wraps around.    *)
LEMMA Ranges ==
    ASSUME PagingTypes, ins \in Instruction, NEW a \in Address, NEW k \in Nat, k > 0
    PROVE  Wrapped(a + k - 1) \in Address /\ At(a, k) \in Address
<1>1. Size \in Nat /\ Size > 0 /\ a \in Nat
  BY Sizes DEF Address
<1>. DEFINE w == Wrapped(a + k - 1)
<1>2. w \in Address
  <2>1. a + k - 1 \in Nat
    BY <1>1
  <2>. QED
    BY <1>1, <2>1 DEF Wrapped, Address
<1>. HIDE DEF w
<1>3. table[VPageOf(w)].frame \in VPage
  <2>1. VPageOf(w) \in VPage
    BY <1>2, PageRange
  <2>2. table[VPageOf(w)] \in PageTableEntry
    BY <2>1 DEF PagingTypes
  <2>. QED
    BY <2>2 DEF PageTableEntry
<1>4. Physical(ins.mode, w) \in Address
  BY <1>2, <1>3, PageRange DEF Physical
<1>. QED
  BY <1>2, <1>4 DEF w, At

(* The next access: which block it is in and how far it has got there.     *)
LEMMA NowFacts ==
    ASSUME PagingTypes, More
    PROVE  /\ ins \in Instruction
           /\ Done \in Nat /\ Done + 1 \in 1..Length /\ n < Len(Accesses(ins))
           /\ ins.op \in {"STORE", "BLOCKSET"} =>
                Now = [intent |-> "W", at |-> ins.a + Done]
           /\ ins.op = "LOAD" => Now = [intent |-> "R", at |-> ins.a + Done]
           /\ ins.op = "FETCH" => Now = [intent |-> "X", at |-> ins.a + Done]
           /\ ins.op = "BLOCKCOPY" /\ n % 2 = 0 =>
                Now = [intent |-> "R", at |-> ins.b + Done]
           /\ ins.op = "BLOCKCOPY" /\ n % 2 = 1 =>
                Now = [intent |-> "W", at |-> ins.a + Done]
           /\ ins.op = "BLOCKCMP" /\ n % 2 = 0 =>
                Now = [intent |-> "R", at |-> ins.a + Done]
           /\ ins.op = "BLOCKCMP" /\ n % 2 = 1 =>
                Now = [intent |-> "R", at |-> ins.b + Done]
<1>1. ins \in Instruction /\ n \in Nat /\ n < Len(Accesses(ins))
  BY DEF PagingTypes, More, Running
<1>2. Done \in Nat
  BY <1>1 DEF Done
<1>. QED
  BY <1>1, <1>2, AccessFacts DEF Done, Pairs, Length, Now

(* The byte it goes to. *)
LEMMA TargetFacts ==
    ASSUME PagingTypes, More
    PROVE  /\ Now.intent \in {"R", "W", "X"}
           /\ Wrapped(Now.at) \in Address
           /\ Target \in Address
           /\ Now.intent = "W" => Stores /\ (Pairs => n % 2 = 1)
           /\ Stores /\ (Pairs => n % 2 = 1) =>
                /\ Now.intent = "W"
                /\ Target = At(ins.a, Done + 1)
                /\ Wrapped(Now.at) = Wrapped(ins.a + (Done + 1) - 1)
           /\ ins.op \in {"LOAD", "FETCH"} => Target = At(ins.a, Done + 1)
           /\ ins.op = "BLOCKCOPY" /\ n % 2 = 0 => Target = At(ins.b, Done + 1)
           /\ ins.op = "BLOCKCMP" /\ n % 2 = 0 => Target = At(ins.a, Done + 1)
           /\ ins.op = "BLOCKCMP" /\ n % 2 = 1 => Target = At(ins.b, Done + 1)
<1>1. /\ ins \in Instruction /\ Done \in Nat /\ Done + 1 \in 1..Length
      /\ n \in Nat /\ ins.a \in Address /\ ins.b \in Address
      /\ ins.op \in {"STORE", "LOAD", "FETCH", "BLOCKSET", "BLOCKCOPY", "BLOCKCMP"}
  BY NowFacts, InstructionFacts DEF PagingTypes
<1>2. n % 2 = 0 \/ n % 2 = 1
  BY <1>1
<1>3. /\ ins.a + (Done + 1) - 1 = ins.a + Done
      /\ ins.b + (Done + 1) - 1 = ins.b + Done
  BY <1>1, Sizes DEF Address
<1>4. ASSUME NEW a \in {ins.a, ins.b}, Now.at = a + Done
      PROVE  /\ Wrapped(Now.at) = Wrapped(a + (Done + 1) - 1)
             /\ Wrapped(Now.at) \in Address /\ Target \in Address
             /\ Target = At(a, Done + 1)
  <2>1. a \in Address /\ Done + 1 \in Nat /\ Done + 1 > 0
    BY <1>1
  <2>2. Wrapped(a + (Done + 1) - 1) \in Address /\ At(a, Done + 1) \in Address
    BY <1>1, <2>1, Ranges
  <2>3. Wrapped(Now.at) = Wrapped(a + (Done + 1) - 1)
    BY <1>3, <1>4
  <2>4. Target = At(a, Done + 1)
    BY <2>3 DEF Target, At
  <2>. QED
    BY <2>2, <2>3, <2>4
<1>5. CASE ins.op \in {"STORE", "BLOCKSET"}
  <2>1. Now.intent = "W" /\ Now.at = ins.a + Done
    BY <1>5, NowFacts
  <2>. QED
    BY <1>4, <1>5, <2>1 DEF Stores, Pairs
<1>6. CASE ins.op \in {"LOAD", "FETCH"}
  <2>1. Now.intent \in {"R", "X"} /\ Now.at = ins.a + Done
    BY <1>6, NowFacts
  <2>. QED
    BY <1>4, <1>6, <2>1 DEF Stores, Pairs
<1>7. CASE ins.op = "BLOCKCOPY" /\ n % 2 = 0
  <2>1. Now.intent = "R" /\ Now.at = ins.b + Done
    BY <1>7, NowFacts
  <2>. QED
    BY <1>4, <1>7, <2>1 DEF Stores, Pairs
<1>8. CASE ins.op = "BLOCKCOPY" /\ n % 2 = 1
  <2>1. Now.intent = "W" /\ Now.at = ins.a + Done
    BY <1>8, NowFacts
  <2>. QED
    BY <1>4, <1>8, <2>1 DEF Stores, Pairs
<1>9. CASE ins.op = "BLOCKCMP" /\ n % 2 = 0
  <2>1. Now.intent = "R" /\ Now.at = ins.a + Done
    BY <1>9, NowFacts
  <2>. QED
    BY <1>4, <1>9, <2>1 DEF Stores, Pairs
<1>10. CASE ins.op = "BLOCKCMP" /\ n % 2 = 1
  <2>1. Now.intent = "R" /\ Now.at = ins.b + Done
    BY <1>10, NowFacts
  <2>. QED
    BY <1>4, <1>10, <2>1 DEF Stores, Pairs
<1>. QED
  BY <1>1, <1>2, <1>5, <1>6, <1>7, <1>8, <1>9, <1>10

(* What a store writes is a byte. *)
LEMMA WrittenByte ==
    ASSUME PagingTypes, More, Now.intent = "W"
    PROVE  Written(ins, n + 1) \in Byte
<1>1. /\ ins \in Instruction /\ Stores /\ Done + 1 \in 1..Length /\ n \in Nat
      /\ ins.v \in Seq(Byte) /\ held \in Byte
      /\ ins.op = "BLOCKSET" => ins.v # <<>>
  BY NowFacts, TargetFacts, InstructionFacts DEF PagingTypes
<1>2. CASE ins.op = "STORE"
  <2>1. n + 1 \in 1..Len(ins.v)
    BY <1>1, <1>2 DEF Done, Pairs, Length
  <2>2. Written(ins, n + 1) = ins.v[n + 1]
    BY <1>2 DEF Written
  <2>. QED
    BY <1>1, <2>1, <2>2
<1>3. CASE ins.op = "BLOCKSET"
  <2>1. Written(ins, n + 1) = ins.v[1]
    BY <1>3, Zenon DEF Written
  <2>2. ins.v[1] \in Byte
    BY <1>1, <1>3
  <2>. QED
    BY <2>1, <2>2
<1>4. CASE ins.op = "BLOCKCOPY"
  <2>1. Written(ins, n + 1) = held
    BY <1>4, Zenon DEF Written
  <2>. QED
    BY <1>1, <2>1
<1>. QED
  BY <1>1, <1>2, <1>3, <1>4 DEF Stores

-----------------------------------------------------------------------------
(***************************************************************************)
(* The memory.                                                             *)
(***************************************************************************)

(* The devices' registers and the RAM between them hold bytes. *)
LEMMA ImageType ==
    ASSUME PagingTypes
    PROVE  Image \in [Address -> Byte]
<1>1. ASSUME NEW i \in Index PROVE Get(i) \in Byte
  BY IndexFacts, ByteAssumption DEF PagingTypes, TypeOK, Get, Pages
<1>2. ASSUME NEW p \in Address, ~(p < BEGIN_RAM) PROVE p - BEGIN_RAM \in Index
  BY <1>2, MapAssumption, SizesAssumption DEF Address, Size, Index
<1>3. ASSUME NEW p \in Address, p < BEGIN_RAM PROVE p \in 0..(BEGIN_RAM - 1)
  BY <1>3, MapAssumption, SizesAssumption DEF Address, Size
<1>4. ASSUME NEW p \in Address
      PROVE  (IF p < BEGIN_RAM THEN zone[p] ELSE Get(p - BEGIN_RAM)) \in Byte
  BY <1>1, <1>2, <1>3 DEF PagingTypes
<1>. QED
  BY <1>4 DEF Image

(* A load leaves the memory as it is. *)
LEMMA LoadKeeps ==
    ASSUME PagingTypes, NEW p \in Address, load_physical_8(p)
    PROVE  [Next]_vars /\ zone' = zone /\ Image' = Image
<1>1. zone' = zone
  BY DEF load_physical_8
<1>2. CASE p < BEGIN_RAM
  BY <1>1, <1>2 DEF load_physical_8, vars, Image, Get
<1>3. CASE ~(p < BEGIN_RAM)
  <2>1. p - BEGIN_RAM \in Index /\ Load(p - BEGIN_RAM)
    BY <1>3, MapAssumption, SizesAssumption DEF load_physical_8, Address, Size, Index
  <2>2. pages' = pages
    BY <2>1 DEF Load
  <2>. QED
    BY <1>1, <2>1, <2>2 DEF Next, Image, Get
<1>. QED
  BY <1>2, <1>3

(* A store changes the one byte it is meant for. *)
LEMMA StoreChanges ==
    ASSUME PagingTypes, NEW p \in Address, NEW value \in Byte, store_physical_8(p, value)
    PROVE  /\ [Next]_vars
           /\ zone' \in [0..(BEGIN_RAM - 1) -> Byte]
           /\ Image' = [Image EXCEPT ![p] = value]
<1>. BEGIN_RAM \in Nat /\ RAM_SIZE \in Nat /\ Size \in Nat
  BY MapAssumption, SizesAssumption, Sizes
<1>. zone \in [0..(BEGIN_RAM - 1) -> Byte] /\ TypeOK
  BY DEF PagingTypes
<1>1. CASE p < BEGIN_RAM
  <2>1. zone' = [zone EXCEPT ![p] = value] /\ UNCHANGED vars
    BY <1>1 DEF store_physical_8
  <2>2. p \in 0..(BEGIN_RAM - 1)
    BY <1>1 DEF Address
  <2>3. ASSUME NEW q \in Address
        PROVE  (IF q < BEGIN_RAM THEN zone'[q] ELSE Get(q - BEGIN_RAM)')
               = IF q = p THEN value ELSE Image[q]
    <3>1. CASE q < BEGIN_RAM
      <4>1. q \in 0..(BEGIN_RAM - 1)
        BY <3>1 DEF Address
      <4>. QED
        BY <2>1, <2>2, <3>1, <4>1 DEF Image
    <3>2. CASE ~(q < BEGIN_RAM)
      BY <1>1, <2>1, <3>2 DEF Image, Get, vars
    <3>. QED
      BY <3>1, <3>2
  <2>4. Image' = [q \in Address |-> IF q = p THEN value ELSE Image[q]]
    BY <2>3 DEF Image
  <2>5. Image' = [Image EXCEPT ![p] = value]
    BY <2>4 DEF Image
  <2>. QED
    BY <2>1, <2>5
<1>2. CASE ~(p < BEGIN_RAM)
  <2>1. Store(p - BEGIN_RAM, value) /\ zone' = zone
    BY <1>2 DEF store_physical_8
  <2>2. p - BEGIN_RAM \in Index
    BY <1>2 DEF Address, Size, Index
  <2>3. ASSUME NEW q \in Address
        PROVE  (IF q < BEGIN_RAM THEN zone'[q] ELSE Get(q - BEGIN_RAM)')
               = IF q = p THEN value ELSE Image[q]
    <3>1. CASE q < BEGIN_RAM
      BY <1>2, <2>1, <3>1 DEF Image
    <3>2. CASE ~(q < BEGIN_RAM)
      <4>1. q - BEGIN_RAM \in Index
        BY <3>2 DEF Address, Size, Index
      <4>2. Get(q - BEGIN_RAM)' = IF q - BEGIN_RAM = p - BEGIN_RAM THEN value
                                  ELSE Get(q - BEGIN_RAM)
        BY <2>1, <2>2, <4>1, StoreChangesOne
      <4>3. q - BEGIN_RAM = p - BEGIN_RAM <=> q = p
        BY DEF Address
      <4>. QED
        BY <3>2, <4>2, <4>3 DEF Image
    <3>. QED
      BY <3>1, <3>2
  <2>4. Image' = [q \in Address |-> IF q = p THEN value ELSE Image[q]]
    BY <2>3 DEF Image
  <2>5. Image' = [Image EXCEPT ![p] = value]
    BY <2>4 DEF Image
  <2>. QED
    BY <2>1, <2>2, <2>5 DEF Next
<1>. QED
  BY <1>1, <1>2

(* The handler of a page fault takes no right from a page and moves none. *)
LEMMA ResolveFacts ==
    ASSUME PagingTypes, Resolve
    PROVE  /\ directory' \in [Tables -> BOOLEAN]
           /\ table' \in [VPage -> PageTableEntry]
           /\ \A t \in Tables : directory[t] => directory'[t]
           /\ \A q \in VPage :
                /\ table'[q].frame = table[q].frame
                /\ table'[q].legal = table[q].legal
                /\ table[q].valid => table'[q].valid
                /\ table[q].present => table'[q].present
                /\ ~table[q].cow => ~table'[q].cow
<1>. DEFINE page == VPageOf(Wrapped(Now.at))
            Mend(pte) ==
              CASE pfsr = PAGE_FAULT_INVALID_PAGE -> [pte EXCEPT !.valid = TRUE]
                [] pfsr = PAGE_FAULT_NOT_PRESENT -> [pte EXCEPT !.present = TRUE]
                [] pfsr = PAGE_FAULT_COW -> [pte EXCEPT !.cow = FALSE]
<1>1. /\ \/ pfsr = PAGE_FAULT_INVALID_PAGE \/ pfsr = PAGE_FAULT_ILLEGAL_ACCESS
         \/ pfsr = PAGE_FAULT_NOT_PRESENT \/ pfsr = PAGE_FAULT_COW
      /\ PAGE_FAULT_INVALID_PAGE # PAGE_FAULT_NOT_PRESENT
      /\ PAGE_FAULT_INVALID_PAGE # PAGE_FAULT_COW
      /\ PAGE_FAULT_NOT_PRESENT # PAGE_FAULT_COW
      /\ table \in [VPage -> PageTableEntry] /\ directory \in [Tables -> BOOLEAN]
  <2>1. /\ pfsr \in 0..3
        /\ table \in [VPage -> PageTableEntry] /\ directory \in [Tables -> BOOLEAN]
    BY Zenon DEF PagingTypes
  <2>2. pfsr = 0 \/ pfsr = 1 \/ pfsr = 2 \/ pfsr = 3
    BY <2>1
  <2>. QED
    BY <2>1, <2>2 DEF PAGE_FAULT_INVALID_PAGE, PAGE_FAULT_ILLEGAL_ACCESS,
                      PAGE_FAULT_NOT_PRESENT, PAGE_FAULT_COW
<1>2. CASE pfsr = PAGE_FAULT_ILLEGAL_ACCESS
  <2>1. UNCHANGED <<directory, table>>
    BY <1>2 DEF Resolve
  <2>. QED
    BY <1>1, <2>1
<1>3. CASE pfsr # PAGE_FAULT_ILLEGAL_ACCESS
  <2>1. /\ table' = [table EXCEPT ![page] = Mend(@)]
        /\ directory' = IF pfsr = PAGE_FAULT_INVALID_PAGE
                          THEN [directory EXCEPT ![page \div TableSize] = TRUE] ELSE directory
    BY <1>3, Zenon DEF Resolve
  <2>2. ASSUME NEW pte \in PageTableEntry
        PROVE  /\ Mend(pte) \in PageTableEntry
               /\ Mend(pte).frame = pte.frame /\ Mend(pte).legal = pte.legal
               /\ pte.valid => Mend(pte).valid
               /\ pte.present => Mend(pte).present
               /\ ~pte.cow => ~Mend(pte).cow
    <3>1. \/ Mend(pte) = [pte EXCEPT !.valid = TRUE]
          \/ Mend(pte) = [pte EXCEPT !.present = TRUE]
          \/ Mend(pte) = [pte EXCEPT !.cow = FALSE]
      <4>1. CASE pfsr = PAGE_FAULT_INVALID_PAGE
        BY <4>1, <1>1, Zenon
      <4>2. CASE pfsr = PAGE_FAULT_NOT_PRESENT
        BY <4>2, <1>1, Zenon
      <4>3. CASE pfsr = PAGE_FAULT_COW
        BY <4>3, <1>1, Zenon
      <4>. QED
        BY <1>1, <1>3, <4>1, <4>2, <4>3
    <3>. HIDE DEF Mend
    <3>. QED
      BY <3>1 DEF PageTableEntry
  <2>. HIDE DEF Mend, page
  <2>3. /\ directory' \in [Tables -> BOOLEAN]
        /\ \A t \in Tables : directory[t] => directory'[t]
    BY <1>1, <2>1
  <2>4. \A q \in VPage : table'[q] = IF q = page THEN Mend(table[q]) ELSE table[q]
    BY <1>1, <2>1
  <2>5. table' \in [VPage -> PageTableEntry]
    <3>1. table' = [q \in VPage |-> IF q = page THEN Mend(table[q]) ELSE table[q]]
      BY <1>1, <2>1
    <3>. QED
      BY <1>1, <2>2, <3>1
  <2>6. ASSUME NEW q \in VPage
        PROVE  /\ table'[q].frame = table[q].frame
               /\ table'[q].legal = table[q].legal
               /\ table[q].valid => table'[q].valid
               /\ table[q].present => table'[q].present
               /\ ~table[q].cow => ~table'[q].cow
    <3>1. table[q] \in PageTableEntry
      BY <1>1
    <3>. QED
      BY <2>2, <2>4, <3>1
  <2>. QED
    BY <2>3, <2>5, <2>6
<1>. QED
  BY <1>2, <1>3

-----------------------------------------------------------------------------
(***************************************************************************)
(* Types, and the RAM under the MMU.                                       *)
(***************************************************************************)

(* Every instruction makes finitely many accesses. *)
LEMMA AccessCount ==
    ASSUME NEW i \in Instruction
    PROVE  /\ Len(Accesses(i)) \in Nat
           /\ Len(Accesses(i)) = IF i.op = "STORE" THEN Len(i.v)
                                 ELSE IF i.op \in {"BLOCKCOPY", "BLOCKCMP"} THEN 2 * i.len
                                 ELSE i.len
<1>. i.len \in Nat /\ Len(i.v) \in Nat
  BY InstructionFacts
<1>1. CASE i.op = "STORE"
  BY <1>1 DEF Accesses
<1>2. CASE i.op = "LOAD"
  BY <1>2 DEF Accesses
<1>3. CASE i.op = "FETCH"
  BY <1>3 DEF Accesses
<1>4. CASE i.op = "BLOCKSET"
  BY <1>4 DEF Accesses
<1>5. CASE i.op = "BLOCKCOPY"
  BY <1>5 DEF Accesses
<1>6. CASE i.op = "BLOCKCMP"
  BY <1>6 DEF Accesses
<1>. QED
  BY InstructionFacts, <1>1, <1>2, <1>3, <1>4, <1>5, <1>6

(* The types hold before the first instruction. *)
LEMMA PagingTypesInit == PagingInit => PagingTypes
<1>. SUFFICES ASSUME PagingInit PROVE PagingTypes
  OBVIOUS
<1>1. TypeOK
  BY ByteAssumption DEF PagingInit, Init, TypeOK
<1>2. /\ zone \in [0..(BEGIN_RAM - 1) -> Byte] /\ before \in [Address -> Byte]
      /\ held \in Byte /\ n \in Nat /\ pfsr \in 0..3
  BY ByteAssumption DEF PagingInit
<1>3. /\ directory \in [Tables -> BOOLEAN] /\ table \in [VPage -> PageTableEntry]
      /\ todo \in Seq(Instruction) /\ checked \in BOOLEAN
  BY GuestAssumption DEF PagingInit
<1>4. outcome = "ok" /\ ins = NoInstruction
  BY DEF PagingInit
<1>. QED
  BY <1>1, <1>2, <1>3, <1>4 DEF PagingTypes, Running

(* Every step preserves them, and is at most one load from the RAM or one  *)
(* store to it.                                                            *)
LEMMA PagingTypesStep ==
    PagingTypes /\ [PagingNext]_pagingVars => PagingTypes' /\ [Next]_vars
<1>. SUFFICES ASSUME PagingTypes, [PagingNext]_pagingVars PROVE PagingTypes' /\ [Next]_vars
  OBVIOUS
<1>1. ASSUME Begin PROVE PagingTypes' /\ [Next]_vars
  <2>1. ins' \in Instruction /\ todo' \in Seq(Instruction)
    BY <1>1 DEF Begin, PagingTypes
  <2>2. before' \in [Address -> Byte]
    BY <1>1, ImageType DEF Begin
  <2>3. Len(Accesses(ins')) \in Nat
    BY <2>1, AccessCount
  <2>4. n' = 0 /\ outcome' = "running"
        /\ UNCHANGED <<vars, zone, directory, table, checked, pfsr, held>>
    BY <1>1 DEF Begin
  <2>5. TypeOK'
    BY <2>4, StepType DEF PagingTypes
  <2>6. Running' => n' <= Len(Accesses(ins))'
    BY <2>3, <2>4
  <2>. QED
    BY <2>1, <2>2, <2>4, <2>5, <2>6 DEF PagingTypes
<1>2. ASSUME More, n' = n + 1, held' \in Byte, [Next]_vars,
             zone' \in [0..(BEGIN_RAM - 1) -> Byte],
             outcome' \in {"ok", outcome},
             UNCHANGED <<directory, table, checked, pfsr, todo, ins, before>>
      PROVE  PagingTypes'
  <2>1. /\ ins \in Instruction /\ n < Len(Accesses(ins)) /\ Len(Accesses(ins)) \in Nat
        /\ n \in Nat
    BY <1>2, NowFacts, AccessCount DEF PagingTypes
  <2>2. n' \in Nat /\ n' <= Len(Accesses(ins))
    BY <1>2, <2>1
  <2>3. Accesses(ins)' = Accesses(ins)
    BY <1>2
  <2>4. TypeOK'
    BY <1>2, StepType DEF PagingTypes
  <2>5. /\ ins' \in Instruction /\ outcome' \in {"ok", "running"}
        /\ (Running' => n' <= Len(Accesses(ins))')
    BY <1>2, <2>1, <2>2, <2>3 DEF More, Running
  <2>. QED
    BY <1>2, <2>2, <2>4, <2>5 DEF PagingTypes
<1>3. ASSUME UNCHANGED <<vars, zone, directory, table, checked, todo, ins, n, held, before>>,
             ins \in Instruction, pfsr' \in 0..3,
             outcome' \in {"ok", "page fault", "illegal operation", "panic"}
      PROVE  PagingTypes' /\ [Next]_vars
  <2>1. TypeOK' /\ ~Running'
    BY <1>3, StepType DEF PagingTypes, Running
  <2>. QED
    BY <1>3, <2>1 DEF PagingTypes
<1>4. ASSUME ReadByte PROVE PagingTypes' /\ [Next]_vars
  <2>1. /\ More /\ load_physical_8(Target) /\ held' = Image[Target] /\ n' = n + 1
        /\ UNCHANGED <<directory, table, checked, pfsr, todo, ins, outcome, before>>
    BY <1>4 DEF ReadByte, Access
  <2>2. Target \in Address
    BY <2>1, TargetFacts
  <2>3. [Next]_vars /\ zone' = zone
    BY <2>1, <2>2, LoadKeeps
  <2>4. held' \in Byte /\ zone' \in [0..(BEGIN_RAM - 1) -> Byte]
    BY <2>1, <2>2, <2>3, ImageType DEF PagingTypes
  <2>. QED
    BY <1>2, <2>1, <2>3, <2>4
<1>5. ASSUME WriteByte PROVE PagingTypes' /\ [Next]_vars
  <2>1. /\ More /\ Now.intent = "W" /\ store_physical_8(Target, Written(ins, n + 1))
        /\ n' = n + 1
        /\ UNCHANGED <<directory, table, checked, pfsr, todo, ins, held, outcome, before>>
    BY <1>5 DEF WriteByte, Access
  <2>2. Target \in Address /\ Written(ins, n + 1) \in Byte
    BY <2>1, TargetFacts, WrittenByte
  <2>3. [Next]_vars /\ zone' \in [0..(BEGIN_RAM - 1) -> Byte]
    BY <2>1, <2>2, StoreChanges
  <2>4. held' \in Byte
    BY <2>1 DEF PagingTypes
  <2>. QED
    BY <1>2, <2>1, <2>3, <2>4
<1>6. ASSUME CompareByte PROVE PagingTypes' /\ [Next]_vars
  <2>1. /\ More /\ load_physical_8(Target) /\ n' = n + 1 /\ outcome' \in {"ok", outcome}
        /\ UNCHANGED <<directory, table, checked, pfsr, todo, ins, held, before>>
    BY <1>6 DEF CompareByte, Access
  <2>2. Target \in Address
    BY <2>1, TargetFacts
  <2>3. [Next]_vars /\ zone' = zone
    BY <2>1, <2>2, LoadKeeps
  <2>4. held' \in Byte /\ zone' \in [0..(BEGIN_RAM - 1) -> Byte]
    BY <2>1, <2>3 DEF PagingTypes
  <2>. QED
    BY <1>2, <2>1, <2>3, <2>4
<1>7. ASSUME Complete PROVE PagingTypes' /\ [Next]_vars
  <2>1. /\ UNCHANGED <<vars, zone, directory, table, checked, todo, ins, n, held, before>>
        /\ ins \in Instruction /\ pfsr' \in 0..3 /\ outcome' = "ok"
    BY <1>7 DEF Complete, Running, PagingTypes
  <2>. QED
    BY <1>3, <2>1
<1>8. ASSUME PageFault PROVE PagingTypes' /\ [Next]_vars
  <2>1. /\ UNCHANGED <<vars, zone, directory, table, checked, todo, ins, n, held, before>>
        /\ ins \in Instruction /\ outcome' = "page fault"
        /\ pfsr' = FaultNow /\ FaultNow # NoFault
    BY <1>8, NowFacts DEF PageFault, Fails
  <2>2. pfsr' \in 0..3
    <3>1. FaultNow \in {NoFault, PAGE_FAULT_INVALID_PAGE, PAGE_FAULT_NOT_PRESENT,
                        PAGE_FAULT_ILLEGAL_ACCESS, PAGE_FAULT_COW}
      BY DEF FaultNow, TranslationFault
    <3>2. pfsr' \in {PAGE_FAULT_INVALID_PAGE, PAGE_FAULT_NOT_PRESENT,
                     PAGE_FAULT_ILLEGAL_ACCESS, PAGE_FAULT_COW}
      BY <2>1, <3>1
    <3>. QED
      BY <3>2 DEF PAGE_FAULT_INVALID_PAGE, PAGE_FAULT_ILLEGAL_ACCESS,
                  PAGE_FAULT_NOT_PRESENT, PAGE_FAULT_COW
  <2>. QED
    BY <1>3, <2>1, <2>2
<1>9. ASSUME Reject \/ Panic PROVE PagingTypes' /\ [Next]_vars
  <2>1. /\ UNCHANGED <<vars, zone, directory, table, checked, todo, ins, n, held, before>>
        /\ outcome' \in {"illegal operation", "panic"} /\ pfsr' = pfsr /\ More
    BY <1>9 DEF Reject, Panic, Panics, Fails
  <2>2. ins \in Instruction /\ pfsr' \in 0..3
    BY <2>1, NowFacts DEF PagingTypes
  <2>. QED
    BY <1>3, <2>1, <2>2
<1>10. ASSUME Resolve PROVE PagingTypes' /\ [Next]_vars
  <2>1. /\ UNCHANGED <<vars, zone, checked, pfsr, todo, ins, held, before>>
        /\ outcome = "page fault" /\ outcome' \in {"ended", "running"} /\ n' = 0
    BY <1>10 DEF Resolve
  <2>2. directory' \in [Tables -> BOOLEAN] /\ table' \in [VPage -> PageTableEntry]
    BY <1>10, ResolveFacts
  <2>3. ins' \in Instruction
    BY <2>1 DEF PagingTypes
  <2>4. Len(Accesses(ins')) \in Nat
    BY <2>3, AccessCount
  <2>5. TypeOK'
    BY <2>1, StepType DEF PagingTypes
  <2>6. n' = 0
    BY <2>1
  <2>7. n' \in Nat /\ (Running' => n' <= Len(Accesses(ins))')
    BY <2>4, <2>6
  <2>. QED
    BY <2>1, <2>2, <2>3, <2>5, <2>7 DEF PagingTypes
<1>11. ASSUME UNCHANGED pagingVars PROVE PagingTypes' /\ [Next]_vars
  <2>1. UNCHANGED vars
    BY <1>11 DEF pagingVars
  <2>2. TypeOK'
    BY <2>1, StepType DEF PagingTypes
  <2>3. UNCHANGED <<zone, directory, table, checked, pfsr, todo, ins, n, held, outcome, before>>
    BY <1>11 DEF pagingVars, cpuVars
  <2>4. Accesses(ins)' = Accesses(ins) /\ Running' = Running
    BY <2>3 DEF Running
  <2>. QED
    BY <2>1, <2>2, <2>3, <2>4 DEF PagingTypes
<1>. QED
  BY <1>1, <1>4, <1>5, <1>6, <1>7, <1>8, <1>9, <1>10, <1>11 DEF PagingNext, Cpu

(* The devices' registers, the page tables and the memory hold what they   *)
(* should, and PFSR one of the four codes, whatever the guest executes.    *)
LEMMA PagingTypesHold == PagingSpec => []PagingTypes
  BY PagingTypesInit, PagingTypesStep, PTL DEF PagingSpec

(* The MMU uses the lazily allocated RAM through its interface alone, so   *)
(* what it sees is a RAM whose every byte exists from the start, whatever  *)
(* accesses the page tables and the instructions make (ram_lazy.rs:28-43;  *)
(* mmu.rs:151-198).                                                        *)
THEOREM MmuSeesEagerRam == PagingSpec => ImplementsEager
<1>1. PagingInit => Init
  BY DEF PagingInit
<1>2. PagingSpec => Spec
  BY <1>1, PagingTypesHold, PagingTypesStep, PTL DEF PagingSpec, Spec
<1>. QED
  BY <1>2, LazyImplementsEager

-----------------------------------------------------------------------------
(***************************************************************************)
(* Writes.                                                                 *)
(***************************************************************************)

(* Every page has its entry in the directory. *)
LEMMA TableRange ==
    ASSUME NEW q \in VPage
    PROVE  q \div TableSize \in Tables
<1>. DEFINE top == (Size - 1) \div FrameSize
<1>1. TableSize \in Nat \ {0} /\ FrameSize \in Nat \ {0} /\ Size \in Nat
  BY FrameAssumption, Sizes
<1>2. top \in Int
  BY <1>1
<1>. HIDE DEF top
<1>3. q \in Nat /\ q <= top /\ top \in Nat
  BY <1>2 DEF VPage, top
<1>4. q \div TableSize <= top \div TableSize /\ q \div TableSize \in Nat
  <2>. DEFINE c == q \div TableSize
              d == top \div TableSize
  <2>1. /\ c \in Nat /\ d \in Nat
        /\ c * TableSize <= q /\ top < (d + 1) * TableSize
    BY <1>1, <1>3
  <2>. HIDE DEF c, d
  <2>2. ASSUME c > d PROVE FALSE
    <3>1. c >= d + 1
      BY <2>1, <2>2
    <3>2. c * TableSize >= (d + 1) * TableSize
      BY <1>1, <2>1, <3>1
    <3>. QED
      BY <1>1, <1>3, <2>1, <3>2
  <2>. QED
    BY <2>1, <2>2 DEF c, d
<1>. QED
  BY <1>3, <1>4 DEF Tables, top

(* The handler leaves every byte of the instruction's blocks where it is.  *)
LEMMA PlacesKept ==
    ASSUME PagingTypes, Resolve
    PROVE  /\ ins \in Instruction /\ Length \in Nat
           /\ Length' = Length /\ Destinations' = Destinations /\ Overlapping' = Overlapping
           /\ \A k \in 1..Length : At(ins.a, k)' = At(ins.a, k) /\ At(ins.b, k)' = At(ins.b, k)
<1>1. ins' = ins /\ ins \in Instruction
  BY DEF Resolve, PagingTypes
<1>2. ins.a \in Address /\ ins.b \in Address /\ Length \in Nat
  BY <1>1, InstructionFacts DEF Length
<1>3. Length' = Length
  BY <1>1 DEF Length
<1>4. ASSUME NEW w \in Address PROVE Physical(ins.mode, w)' = Physical(ins.mode, w)
  <2>1. table'[VPageOf(w)].frame = table[VPageOf(w)].frame
    BY PageRange, ResolveFacts
  <2>. QED
    BY <1>1, <2>1 DEF Physical
<1>5. ASSUME NEW k \in 1..Length
      PROVE  At(ins.a, k)' = At(ins.a, k) /\ At(ins.b, k)' = At(ins.b, k)
  <2>1. k \in Nat /\ k > 0
    BY <1>2
  <2>2. Wrapped(ins.a + k - 1) \in Address /\ Wrapped(ins.b + k - 1) \in Address
    BY <1>1, <1>2, <2>1, Ranges
  <2>. QED
    BY <1>1, <1>4, <2>2 DEF At
<1>6. Destinations' = Destinations
  BY <1>1, <1>3, <1>5 DEF Destinations
<1>7. {At(ins.b, k) : k \in 1..Length}' = {At(ins.b, k) : k \in 1..Length}
  BY <1>3, <1>5
<1>8. Overlapping' = Overlapping
  BY <1>1, <1>6, <1>7 DEF Overlapping
<1>. QED
  BY <1>1, <1>2, <1>3, <1>5, <1>6, <1>8

(* A write that is made is within its destination, on a page that has the  *)
(* right to it.                                                            *)
LEMMA WriteAllowed ==
    ASSUME PagingTypes, WriteByte
    PROVE  /\ Target \in Address /\ Done + 1 \in 1..Length
           /\ At(ins.a, Done + 1) = Target /\ Target \in Destinations
           /\ Target < BEGIN_RAM => "W" \in ZoneAccess[Target]
           /\ LET page == VPageOf(Wrapped(ins.a + (Done + 1) - 1))
              IN ins.mode = "user" =>
                   /\ directory[page \div TableSize]
                   /\ table[page].valid /\ table[page].present
                   /\ "W" \in table[page].legal /\ ~table[page].cow
           /\ Image' = [Image EXCEPT ![Target] = Written(ins, n + 1)]
<1>1. /\ More /\ Now.intent = "W" /\ store_physical_8(Target, Written(ins, n + 1))
      /\ FaultNow = NoFault /\ Allowed(Target, Now.intent)
  BY DEF WriteByte, Access
<1>2. /\ Target \in Address /\ Done + 1 \in 1..Length /\ ins \in Instruction
      /\ At(ins.a, Done + 1) = Target /\ Stores
      /\ Wrapped(Now.at) = Wrapped(ins.a + (Done + 1) - 1)
  BY <1>1, NowFacts, TargetFacts
<1>3. Target \in Destinations
  BY <1>2 DEF Stores, Destinations
<1>4. Target < BEGIN_RAM => "W" \in ZoneAccess[Target]
  BY <1>1 DEF Allowed
<1>5. Image' = [Image EXCEPT ![Target] = Written(ins, n + 1)]
  BY <1>1, <1>2, WrittenByte, StoreChanges
<1>6. ASSUME ins.mode = "user"
      PROVE  LET page == VPageOf(Wrapped(Now.at))
             IN /\ directory[page \div TableSize]
                /\ table[page].valid /\ table[page].present
                /\ "W" \in table[page].legal /\ ~table[page].cow
  <2>1. TranslationFault(Wrapped(Now.at), "W") = NoFault
    BY <1>1, <1>6 DEF FaultNow
  <2>. QED
    BY <2>1 DEF TranslationFault, NoFault, PAGE_FAULT_INVALID_PAGE,
                PAGE_FAULT_ILLEGAL_ACCESS, PAGE_FAULT_NOT_PRESENT, PAGE_FAULT_COW
<1>. QED
  BY <1>2, <1>3, <1>4, <1>5, <1>6

(* No step changes a byte outside the destination, or takes the right to   *)
(* what has been changed.                                                  *)
LEMMA ConfinedStep ==
    PagingTypes /\ WritesConfined /\ [PagingNext]_pagingVars => WritesConfined'
<1>. SUFFICES ASSUME PagingTypes, WritesConfined, [PagingNext]_pagingVars
              PROVE  WritesConfined'
  OBVIOUS
<1>1. ASSUME Image' = Image, UNCHANGED <<directory, table, ins, before>>
      PROVE  WritesConfined'
  BY <1>1 DEF WritesConfined, At, Length, Destinations, Physical
<1>2. ASSUME Begin PROVE WritesConfined'
  <2>1. Image' = Image /\ before' = Image
    BY <1>2 DEF Begin, Image, Get, vars
  <2>. QED
    BY <2>1 DEF WritesConfined
<1>3. ASSUME ReadByte \/ CompareByte PROVE WritesConfined'
  <2>1. /\ More /\ load_physical_8(Target)
        /\ UNCHANGED <<directory, table, ins, before>>
    BY <1>3 DEF ReadByte, CompareByte, Access
  <2>2. Target \in Address
    BY <2>1, TargetFacts
  <2>. QED
    BY <1>1, <2>1, <2>2, LoadKeeps
<1>4. ASSUME WriteByte PROVE WritesConfined'
  <2>1. UNCHANGED <<directory, table, ins, before>>
    BY <1>4 DEF WriteByte
  <2>2. ASSUME NEW p \in Address, Image'[p] # before'[p]
        PROVE  /\ p < BEGIN_RAM => "W" \in ZoneAccess[p]
               /\ \E k \in 1..Length :
                    /\ At(ins.a, k) = p /\ p \in Destinations
                    /\ LET page == VPageOf(Wrapped(ins.a + k - 1))
                       IN ins.mode = "user" =>
                            /\ directory[page \div TableSize]
                            /\ table[page].valid /\ table[page].present
                            /\ "W" \in table[page].legal /\ ~table[page].cow
    <3>1. CASE p = Target
      BY <1>4, <3>1, WriteAllowed
    <3>2. CASE p # Target
      <4>1. Image[p] # before[p]
        BY <1>4, <2>1, <2>2, <3>2, WriteAllowed, ImageType
      <4>. QED
        BY <4>1 DEF WritesConfined
    <3>. QED
      BY <3>1, <3>2
  <2>. QED
    BY <2>1, <2>2 DEF WritesConfined, At, Length, Destinations, Physical
<1>5. ASSUME Complete \/ PageFault \/ Reject \/ Panic \/ UNCHANGED pagingVars
      PROVE  WritesConfined'
  <2>1. UNCHANGED <<vars, zone, directory, table, ins, before>>
    BY <1>5 DEF Complete, PageFault, Reject, Panic, Fails, pagingVars, cpuVars
  <2>2. Image' = Image
    BY <2>1 DEF Image, Get, vars
  <2>. QED
    BY <1>1, <2>1, <2>2
<1>6. ASSUME Resolve PROVE WritesConfined'
  <2>1. UNCHANGED <<vars, zone, ins, before>>
    BY <1>6 DEF Resolve
  <2>2. Image' = Image
    BY <2>1 DEF Image, Get, vars
  <2>3. /\ ins \in Instruction /\ Length \in Nat
        /\ Length' = Length /\ Destinations' = Destinations
        /\ \A k \in 1..Length : At(ins.a, k)' = At(ins.a, k)
    BY <1>6, PlacesKept
  <2>4. ASSUME NEW p \in Address, Image[p] # before[p]
        PROVE  /\ p < BEGIN_RAM => "W" \in ZoneAccess[p]
               /\ \E k \in 1..Length :
                    /\ At(ins.a, k)' = p /\ p \in Destinations
                    /\ LET page == VPageOf(Wrapped(ins.a + k - 1))
                       IN ins.mode = "user" =>
                            /\ directory'[page \div TableSize]
                            /\ table'[page].valid /\ table'[page].present
                            /\ "W" \in table'[page].legal /\ ~table'[page].cow
    <3>1. p < BEGIN_RAM => "W" \in ZoneAccess[p]
      BY <2>4 DEF WritesConfined
    <3>2. PICK k \in 1..Length :
            /\ At(ins.a, k) = p /\ p \in Destinations
            /\ LET page == VPageOf(Wrapped(ins.a + k - 1))
               IN ins.mode = "user" =>
                    /\ directory[page \div TableSize]
                    /\ table[page].valid /\ table[page].present
                    /\ "W" \in table[page].legal /\ ~table[page].cow
      BY <2>4 DEF WritesConfined
    <3>. DEFINE page == VPageOf(Wrapped(ins.a + k - 1))
    <3>3. page \in VPage
      <4>1. k \in Nat /\ k > 0 /\ ins.a \in Address
        BY <2>3, InstructionFacts
      <4>2. Wrapped(ins.a + k - 1) \in Address
        BY <2>3, <4>1, Ranges
      <4>. QED
        BY <4>2, PageRange
    <3>4. page \div TableSize \in Tables
      BY <3>3, TableRange
    <3>5. /\ directory[page \div TableSize] => directory'[page \div TableSize]
          /\ table'[page].legal = table[page].legal
          /\ table[page].valid => table'[page].valid
          /\ table[page].present => table'[page].present
          /\ ~table[page].cow => ~table'[page].cow
      BY <1>6, <3>3, <3>4, ResolveFacts
    <3>6. At(ins.a, k)' = p
      BY <2>3, <3>2
    <3>7. ins.mode = "user" =>
            /\ directory'[page \div TableSize]
            /\ table'[page].valid /\ table'[page].present
            /\ "W" \in table'[page].legal /\ ~table'[page].cow
      <4>1. ins.mode = "user" =>
              /\ directory[page \div TableSize]
              /\ table[page].valid /\ table[page].present
              /\ "W" \in table[page].legal /\ ~table[page].cow
        BY <3>2
      <4>. HIDE DEF page
      <4>. QED
        BY <3>5, <4>1
    <3>. QED
      BY <3>1, <3>2, <3>6, <3>7, Zenon
  <2>. QED
    BY <2>1, <2>2, <2>3, <2>4 DEF WritesConfined
<1>. QED
  BY <1>2, <1>3, <1>4, <1>5, <1>6 DEF PagingNext, Cpu

(* Whatever pages an instruction's blocks lie on and however often it was  *)
(* started again, it has changed nothing but bytes of its destination that *)
(* the tables, as they stand, let it write, and no register of a device    *)
(* that cannot be written (mmu.rs:107-125, 150-198, 278-331).              *)
THEOREM WritesStayConfined == PagingSpec => []WritesConfined
<1>1. PagingInit => WritesConfined
  <2>. SUFFICES ASSUME PagingInit PROVE WritesConfined
    OBVIOUS
  <2>1. \A p \in Address : Image[p] = 0 /\ before[p] = 0
    BY MapAssumption, Sizes DEF PagingInit, Init, Image, Get, Address
  <2>. QED
    BY <2>1 DEF WritesConfined
<1>. QED
  BY <1>1, PagingTypesHold, ConfinedStep, PTL DEF PagingSpec

-----------------------------------------------------------------------------
(***************************************************************************)
(* Attempts.                                                               *)
(***************************************************************************)

(* Accesses come in pairs, one for each byte of a block. *)
LEMMA HalfFacts ==
    ASSUME NEW m \in Nat
    PROVE  /\ m % 2 \in {0, 1} /\ m \div 2 \in Nat
           /\ m % 2 = 0 => (m + 1) % 2 = 1 /\ (m + 1) \div 2 = m \div 2
           /\ m % 2 = 1 => (m + 1) % 2 = 0 /\ (m + 1) \div 2 = m \div 2 + 1
  OBVIOUS

(* While the instruction, the tables and the memory it first met stay, so  *)
(* does all that is said in terms of them.                                 *)
LEMMA Fixed ==
    ASSUME UNCHANGED <<ins, table, before>>
    PROVE  /\ Length' = Length /\ Destinations' = Destinations /\ Overlapping' = Overlapping
           /\ Stores' = Stores /\ Pairs' = Pairs
           /\ \A k : At(ins.a, k)' = At(ins.a, k) /\ At(ins.b, k)' = At(ins.b, k)
           /\ \A k : Value(k)' = Value(k)
<1>1. \A k : At(ins.a, k)' = At(ins.a, k) /\ At(ins.b, k)' = At(ins.b, k)
  BY DEF At, Physical
<1>2. Length' = Length /\ Stores' = Stores /\ Pairs' = Pairs
  BY DEF Length, Stores, Pairs
<1>3. Destinations' = Destinations
  BY <1>1, <1>2 DEF Destinations
<1>4. Overlapping' = Overlapping
  BY <1>1, <1>2, <1>3 DEF Overlapping
<1>5. \A k : Value(k)' = Value(k)
  BY <1>1 DEF Value
<1>. QED
  BY <1>1, <1>2, <1>3, <1>4, <1>5

(* An attempt that has made no access yet has got as far as it should. *)
LEMMA AttemptStarts ==
    ASSUME n' = 0, read' = <<>>
    PROVE  WrittenSoFar' /\ HeldSoFar' /\ ReadSoFar'
<1>1. Done' = 0 /\ n' % 2 # 1
  BY DEF Done
<1>2. \A x : x \notin 1..0
  OBVIOUS
<1>3. WrittenSoFar' /\ HeldSoFar'
  BY <1>1, <1>2 DEF WrittenSoFar, HeldSoFar
<1>4. read' = [k \in 1..n |-> before[At(ins.a, k)]]'
  BY <1>2
<1>. QED
  BY <1>1, <1>2, <1>3, <1>4 DEF ReadSoFar

(* Where a block instruction reads, the memory is as it was first met. *)
LEMMA SourceKept ==
    ASSUME PagingTypes, AttemptInv, More, ~Overlapping,
           Now.intent \in {"R", "X"}
    PROVE  Image[Target] = before[Target]
<1>1. /\ Target \in Address /\ Done + 1 \in 1..Length /\ ins \in Instruction /\ n \in Nat
      /\ ins.op \in {"STORE", "LOAD", "FETCH", "BLOCKSET", "BLOCKCOPY", "BLOCKCMP"}
  BY NowFacts, TargetFacts, InstructionFacts DEF PagingTypes
<1>2. Target \notin Destinations
  <2>1. CASE ins.op \in {"LOAD", "FETCH", "BLOCKCMP"}
    BY <2>1 DEF Destinations
  <2>2. CASE ins.op \in {"STORE", "BLOCKSET"}
    BY <2>2, TargetFacts DEF Stores, Pairs
  <2>3. CASE ins.op = "BLOCKCOPY"
    <3>1. n % 2 = 0
      BY <1>1, <2>3, HalfFacts, TargetFacts DEF Stores, Pairs
    <3>2. Target = At(ins.b, Done + 1)
      BY <2>3, <3>1, TargetFacts
    <3>. QED
      BY <1>1, <2>3, <3>2 DEF Overlapping
  <2>. QED
    BY <1>1, <2>1, <2>2, <2>3
<1>3. outcome = "running"
  BY DEF More, Running
<1>. QED
  BY <1>1, <1>2, <1>3 DEF AttemptInv

(* A read keeps what has been achieved and adds its byte. *)
LEMMA ReadAttempt ==
    ASSUME PagingTypes, AttemptInv, ReadByte
    PROVE  AttemptInv'
<1>1. /\ More /\ load_physical_8(Target) /\ held' = Image[Target] /\ n' = n + 1
      /\ Now.intent \in {"R", "X"} /\ ~(ins.op = "BLOCKCMP" /\ n % 2 = 1)
      /\ read' = IF ins.op \in {"LOAD", "FETCH"} THEN Append(read, held') ELSE read
      /\ UNCHANGED <<ins, table, before, outcome>>
  BY DEF ReadByte, Access
<1>2. /\ Target \in Address /\ ins \in Instruction /\ n \in Nat /\ Done \in Nat
      /\ ins.op \in {"STORE", "LOAD", "FETCH", "BLOCKSET", "BLOCKCOPY", "BLOCKCMP"}
  BY <1>1, NowFacts, TargetFacts, InstructionFacts DEF PagingTypes
<1>3. /\ n % 2 \in {0, 1}
      /\ n % 2 = 0 => (n + 1) % 2 = 1 /\ (n + 1) \div 2 = n \div 2
  BY <1>2, HalfFacts
<1>4. Image' = Image
  BY <1>1, <1>2, LoadKeeps
<1>. SUFFICES ASSUME ~Overlapping
              PROVE  /\ \A p \in Address \ Destinations : Image[p] = before[p]
                     /\ WrittenSoFar' /\ HeldSoFar' /\ ReadSoFar'
  BY <1>1, <1>4, Fixed DEF AttemptInv
<1>5. /\ \A p \in Address \ Destinations : Image[p] = before[p]
      /\ WrittenSoFar /\ HeldSoFar /\ ReadSoFar
  BY <1>1 DEF AttemptInv, More, Running
<1>6. held' = before[Target]
  BY <1>1, SourceKept
<1>7. CASE ins.op \in {"LOAD", "FETCH"}
  <2>1. WrittenSoFar' /\ HeldSoFar'
    BY <1>1, <1>7 DEF WrittenSoFar, HeldSoFar, Stores
  <2>2. read = [k \in 1..n |-> before[At(ins.a, k)]] /\ Target = At(ins.a, n + 1)
    BY <1>1, <1>5, <1>7, TargetFacts DEF ReadSoFar, Done, Pairs
  <2>3. Append(read, before[At(ins.a, n + 1)]) = [k \in 1..(n + 1) |-> before[At(ins.a, k)]]
    BY <1>2, <2>2
  <2>4. [k \in 1..n |-> before[At(ins.a, k)]]' = [k \in 1..(n + 1) |-> before[At(ins.a, k)]]
    BY <1>1, Fixed
  <2>5. read' = [k \in 1..n |-> before[At(ins.a, k)]]'
    BY <1>1, <1>6, <1>7, <2>2, <2>3, <2>4
  <2>. QED
    BY <1>1, <1>5, <1>7, <2>1, <2>5 DEF ReadSoFar
<1>8. CASE ins.op \in {"BLOCKCOPY", "BLOCKCMP"}
  <2>1. n % 2 = 0
    BY <1>1, <1>3, <1>8, TargetFacts DEF Stores, Pairs
  <2>2. Done' = Done /\ n' % 2 = 1
    BY <1>1, <1>3, <1>8, <2>1 DEF Done, Pairs
  <2>3. WrittenSoFar'
    <3>1. /\ Stores' = Stores
          /\ \A k : At(ins.a, k)' = At(ins.a, k)
          /\ \A k : Value(k)' = Value(k)
      BY <1>1, Fixed
    <3>2. ASSUME Stores, NEW i \in 1..Done
          PROVE  \E k \in 1..Done :
                   /\ At(ins.a, k)' = At(ins.a, i)'
                   /\ \A j \in (k + 1)..Done : At(ins.a, j)' # At(ins.a, i)'
                   /\ Image'[At(ins.a, i)'] = Value(k)'
      BY <1>4, <1>5, <3>1, <3>2 DEF WrittenSoFar
    <3>. QED
      BY <2>2, <3>1, <3>2 DEF WrittenSoFar
  <2>4. ReadSoFar'
    BY <1>1, <1>5, <1>8, <2>2, Fixed DEF ReadSoFar
  <2>5. /\ ins.op = "BLOCKCOPY" => Target = At(ins.b, Done + 1)
        /\ ins.op = "BLOCKCMP" => Target = At(ins.a, Done + 1)
    BY <1>1, <2>1, TargetFacts
  <2>6. HeldSoFar'
    BY <1>1, <1>6, <2>2, <2>5, Fixed DEF HeldSoFar
  <2>. QED
    BY <1>5, <2>3, <2>4, <2>6
<1>9. CASE ins.op \in {"STORE", "BLOCKSET"}
  BY <1>1, <1>9, TargetFacts DEF Stores, Pairs
<1>. QED
  BY <1>2, <1>7, <1>8, <1>9

(* A write keeps what has been achieved, but for the byte it changes, and  *)
(* that one holds what was written last.                                   *)
LEMMA WriteAttempt ==
    ASSUME PagingTypes, AttemptInv, WriteByte
    PROVE  AttemptInv'
<1>1. /\ More /\ n' = n + 1 /\ Now.intent = "W"
      /\ UNCHANGED <<ins, table, before, outcome, held, read>>
  BY DEF WriteByte, Access
<1>2. /\ ins \in Instruction /\ n \in Nat /\ Done \in Nat
      /\ Target \in Address /\ Done + 1 \in 1..Length
      /\ At(ins.a, Done + 1) = Target /\ Target \in Destinations
      /\ Image' = [Image EXCEPT ![Target] = Written(ins, n + 1)]
      /\ Stores /\ (Pairs => n % 2 = 1)
      /\ ins.a \in Address /\ Length \in Nat
  BY <1>1, NowFacts, TargetFacts, WriteAllowed, InstructionFacts DEF PagingTypes, Length
<1>3. Image \in [Address -> Byte]
  BY ImageType
<1>. SUFFICES ASSUME ~Overlapping
              PROVE  /\ \A p \in Address \ Destinations : Image'[p] = before[p]
                     /\ WrittenSoFar' /\ HeldSoFar' /\ ReadSoFar'
  BY <1>1, Fixed DEF AttemptInv
<1>4. /\ \A p \in Address \ Destinations : Image[p] = before[p]
      /\ WrittenSoFar /\ HeldSoFar
  BY <1>1 DEF AttemptInv, More, Running
<1>5. \A p \in Address \ Destinations : Image'[p] = before[p]
  BY <1>2, <1>3, <1>4
<1>6. Done' = Done + 1 /\ (Pairs => n' % 2 = 0)
  BY <1>1, <1>2, HalfFacts DEF Done, Pairs
<1>7. Written(ins, n + 1) = Value(Done + 1)
  <2>1. CASE ins.op = "STORE"
    BY <2>1 DEF Written, Value, Done, Pairs
  <2>2. CASE ins.op = "BLOCKSET"
    BY <2>2, Zenon DEF Written, Value
  <2>3. CASE ins.op = "BLOCKCOPY"
    <3>1. held = before[At(ins.b, Done + 1)]
      BY <1>2, <1>4, <2>3 DEF HeldSoFar, Pairs
    <3>2. Written(ins, n + 1) = held /\ Value(Done + 1) = before[At(ins.b, Done + 1)]
      BY <2>3, Zenon DEF Written, Value
    <3>. QED
      BY <3>1, <3>2
  <2>. QED
    BY <1>2, <2>1, <2>2, <2>3 DEF Stores
<1>8. Image'[Target] = Value(Done + 1)
  BY <1>2, <1>3, <1>7
<1>9. ASSUME NEW i \in 1..(Done + 1)
      PROVE  \E k \in 1..(Done + 1) :
               /\ At(ins.a, k) = At(ins.a, i)
               /\ \A j \in (k + 1)..(Done + 1) : At(ins.a, j) # At(ins.a, i)
               /\ Image'[At(ins.a, i)] = Value(k)
  <2>1. CASE At(ins.a, i) = Target
    <3>1. Done + 1 \in 1..(Done + 1) /\ ((Done + 1) + 1)..(Done + 1) = {}
      BY <1>2
    <3>. QED
      BY <1>2, <1>8, <2>1, <3>1
  <2>2. CASE At(ins.a, i) # Target
    <3>1. i # Done + 1
      BY <1>2, <2>2
    <3>2. i \in 1..Done
      BY <1>2, <3>1
    <3>3. PICK k \in 1..Done :
            /\ At(ins.a, k) = At(ins.a, i)
            /\ \A j \in (k + 1)..Done : At(ins.a, j) # At(ins.a, i)
            /\ Image[At(ins.a, i)] = Value(k)
      BY <1>2, <1>4, <3>2 DEF WrittenSoFar
    <3>4. ASSUME NEW j \in (k + 1)..(Done + 1) PROVE At(ins.a, j) # At(ins.a, i)
      <4>1. j \in (k + 1)..Done \/ j = Done + 1
        BY <1>2
      <4>. QED
        BY <1>2, <2>2, <3>3, <4>1
    <3>5. Image'[At(ins.a, i)] = Image[At(ins.a, i)]
      <4>1. At(ins.a, i) \in Address
        BY <1>2, Ranges
      <4>. QED
        BY <1>2, <1>3, <2>2, <4>1
    <3>6. k \in 1..(Done + 1)
      BY <1>2
    <3>. QED
      BY <3>3, <3>4, <3>5, <3>6
  <2>. QED
    BY <2>1, <2>2
<1>10. WrittenSoFar'
  BY <1>1, <1>6, <1>9, Fixed DEF WrittenSoFar
<1>11. HeldSoFar' /\ ReadSoFar'
  BY <1>1, <1>2, <1>6 DEF HeldSoFar, ReadSoFar, Stores, Pairs
<1>. QED
  BY <1>5, <1>10, <1>11

(* BLOCKCMP goes on while the bytes are equal, and stops at the first pair *)
(* that differs with the flags of that pair.                               *)
LEMMA CompareAttempt ==
    ASSUME PagingTypes, AttemptInv, CompareByte
    PROVE  AttemptInv' /\ FaultsInvisible'
<1>1. /\ More /\ load_physical_8(Target) /\ n' = n + 1 /\ Now.intent = "R"
      /\ ins.op = "BLOCKCMP" /\ n % 2 = 1
      /\ UNCHANGED <<ins, table, before, held, read>>
      /\ IF held # Image[Target]
           THEN flags' = Differs(held, Image[Target]) /\ outcome' = "ok"
           ELSE outcome' = outcome
  BY DEF CompareByte, Access
<1>2. /\ Target \in Address /\ ins \in Instruction /\ n \in Nat /\ Done \in Nat
      /\ Target = At(ins.b, Done + 1) /\ Done + 1 \in 1..Length
      /\ ins.a \in Address /\ Length \in Nat
  BY <1>1, NowFacts, TargetFacts, InstructionFacts DEF PagingTypes, Length
<1>3. Image' = Image
  BY <1>1, <1>2, LoadKeeps
<1>4. Destinations = {} /\ ~Overlapping
  BY <1>1 DEF Destinations, Overlapping
<1>5. /\ \A p \in Address : Image[p] = before[p]
      /\ HeldSoFar /\ ReadSoFar
  BY <1>1, <1>4 DEF AttemptInv, More, Running
<1>6. held = before[At(ins.a, Done + 1)] /\ Image[Target] = before[At(ins.b, Done + 1)]
  BY <1>1, <1>2, <1>5 DEF HeldSoFar
<1>7. \A k \in 1..Done : before[At(ins.a, k)] = before[At(ins.b, k)]
  BY <1>1, <1>5 DEF ReadSoFar
<1>8. CASE held = Image[Target]
  <2>1. Done' = Done + 1 /\ n' % 2 = 0
    BY <1>1, <1>2, HalfFacts DEF Done, Pairs
  <2>2. ASSUME NEW k \in 1..(Done + 1) PROVE before[At(ins.a, k)] = before[At(ins.b, k)]
    <3>1. k \in 1..Done \/ k = Done + 1
      BY <1>2
    <3>. QED
      BY <1>6, <1>7, <1>8, <3>1
  <2>3. WrittenSoFar' /\ HeldSoFar'
    BY <1>1, <2>1 DEF WrittenSoFar, HeldSoFar, Stores
  <2>4. ReadSoFar'
    BY <1>1, <2>1, <2>2, Fixed DEF ReadSoFar
  <2>5. outcome' = "running"
    BY <1>1, <1>8 DEF More, Running
  <2>. QED
    BY <1>1, <1>3, <1>5, <2>3, <2>4, <2>5 DEF AttemptInv, FaultsInvisible
<1>9. CASE held # Image[Target]
  <2>. DEFINE differing == {k \in 1..Length : before[At(ins.a, k)] # before[At(ins.b, k)]}
  <2>1. differing \in SUBSET Nat /\ Done + 1 \in differing
    BY <1>2, <1>6, <1>9
  <2>2. ASSUME NEW j \in differing PROVE Done + 1 <= j
    <3>1. j \in 1..Length /\ j \notin 1..Done
      BY <1>7
    <3>. QED
      BY <1>2, <3>1
  <2>3. Min(differing) = Done + 1
    BY <2>1, <2>2, Extremes
  <2>4. differing # {}
    BY <2>1
  <2>5. Comparison = IF held < Image[Target] THEN {"N"} ELSE {}
    BY <1>6, <2>3, <2>4, Zenon DEF Comparison
  <2>. HIDE DEF differing
  <2>6. held \in Nat /\ Image[Target] \in Nat
    BY <1>2, ImageType, NumbersAssumption DEF PagingTypes
  <2>7. flags' = Comparison
    BY <1>1, <1>9, <2>5, <2>6 DEF Differs
  <2>8. Comparison' = Comparison
    BY ZenonT(40), <1>1, Fixed DEF Comparison
  <2>9. Image = [p \in Address |-> before[p]]
    BY <1>5, ImageType
  <2>10. Image' = [p \in Address |-> IF p \in Destinations' THEN LastWritten(p)'
                                     ELSE before'[p]]
    BY <1>1, <1>3, <1>4, <2>9, Fixed
  <2>11. outcome' = "ok"
    BY <1>1, <1>9
  <2>. QED
    BY <1>1, <2>7, <2>8, <2>10, <2>11 DEF AttemptInv, FaultsInvisible, Running
<1>. QED
  BY <1>8, <1>9

(* An instruction that has made its last access has done what it should.   *)
LEMMA CompleteAttempt ==
    ASSUME PagingTypes, AttemptInv, Complete
    PROVE  AttemptInv' /\ FaultsInvisible'
<1>1. /\ Running /\ n = Len(Accesses(ins)) /\ outcome' = "ok"
      /\ flags' = IF ins.op = "BLOCKCMP" THEN {"Z"} ELSE flags
      /\ UNCHANGED <<vars, zone, ins, table, before, read, n>>
  BY DEF Complete
<1>2. /\ ins \in Instruction /\ n \in Nat /\ ins.len \in Nat /\ Length \in Nat
      /\ ins.a \in Address
      /\ ins.op \in {"STORE", "LOAD", "FETCH", "BLOCKSET", "BLOCKCOPY", "BLOCKCMP"}
  BY <1>1, InstructionFacts DEF PagingTypes, Running, Length
<1>3. Done = Length
  <2>1. n = IF ins.op = "STORE" THEN Len(ins.v)
            ELSE IF ins.op \in {"BLOCKCOPY", "BLOCKCMP"} THEN 2 * ins.len ELSE ins.len
    BY <1>1, <1>2, AccessCount
  <2>2. (2 * ins.len) \div 2 = ins.len
    BY <1>2
  <2>. QED
    BY <2>1, <2>2 DEF Done, Pairs, Length
<1>4. Image' = Image
  BY <1>1 DEF Image, Get, vars
<1>5. AttemptInv'
  BY <1>1 DEF AttemptInv
<1>. SUFFICES ASSUME ~Overlapping'
              PROVE  /\ Image' = [p \in Address |-> IF p \in Destinations THEN LastWritten(p)
                                                    ELSE before[p]]'
                     /\ (ins.op \in {"LOAD", "FETCH"} =>
                           read = [k \in 1..Length |-> before[At(ins.a, k)]])'
                     /\ (ins.op = "BLOCKCMP" => flags = Comparison)'
  BY <1>5 DEF FaultsInvisible
<1>6. /\ \A p \in Address \ Destinations : Image[p] = before[p]
      /\ WrittenSoFar /\ ReadSoFar
  BY <1>1, Fixed DEF AttemptInv, Running
<1>7. ASSUME NEW p \in Destinations PROVE Image[p] = LastWritten(p)
  <2>1. Stores
    BY <1>7 DEF Destinations, Stores
  <2>2. PICK i \in 1..Length : p = At(ins.a, i)
    BY <1>7, <2>1 DEF Destinations, Stores
  <2>3. PICK k \in 1..Length :
          /\ At(ins.a, k) = p
          /\ \A j \in (k + 1)..Length : At(ins.a, j) # p
          /\ Image[p] = Value(k)
    BY <1>3, <1>6, <2>1, <2>2 DEF WrittenSoFar
  <2>. DEFINE writes == {j \in 1..Length : At(ins.a, j) = p}
  <2>4. writes \in SUBSET Nat /\ k \in writes
    BY <1>2, <2>3
  <2>5. ASSUME NEW j \in writes PROVE j <= k
    <3>1. j \in 1..Length /\ j \notin (k + 1)..Length
      BY <2>3
    <3>. QED
      BY <1>2, <3>1
  <2>6. Max(writes) = k
    BY <2>4, <2>5, Extremes
  <2>. QED
    BY <2>3, <2>6, Zenon DEF LastWritten
<1>8. Image = [p \in Address |-> IF p \in Destinations THEN LastWritten(p) ELSE before[p]]
  BY <1>6, <1>7, ImageType
<1>9. [p \in Address |-> IF p \in Destinations THEN LastWritten(p) ELSE before[p]]'
      = [p \in Address |-> IF p \in Destinations THEN LastWritten(p) ELSE before[p]]
  <2>1. ASSUME NEW p PROVE LastWritten(p)' = LastWritten(p)
    BY <1>1, Fixed DEF LastWritten
  <2>. QED
    BY <1>1, <2>1, Fixed
<1>10. (ins.op \in {"LOAD", "FETCH"} => read = [k \in 1..Length |-> before[At(ins.a, k)]])'
  <2>1. ASSUME ins.op \in {"LOAD", "FETCH"}
        PROVE  read = [k \in 1..Length |-> before[At(ins.a, k)]]
    <3>1. n = Length
      BY <1>3, <2>1 DEF Done, Pairs
    <3>. QED
      BY <1>6, <2>1, <3>1 DEF ReadSoFar
  <2>. QED
    BY <1>1, <2>1, Fixed
<1>11. (ins.op = "BLOCKCMP" => flags = Comparison)'
  <2>1. ASSUME ins.op = "BLOCKCMP" PROVE Comparison = {"Z"}
    <3>1. \A k \in 1..Length : before[At(ins.a, k)] = before[At(ins.b, k)]
      BY <1>3, <1>6, <2>1 DEF ReadSoFar
    <3>2. {k \in 1..Length : before[At(ins.a, k)] # before[At(ins.b, k)]} = {}
      BY <3>1
    <3>. QED
      BY <3>2, Zenon DEF Comparison
  <2>2. Comparison' = Comparison
    BY <1>1, Fixed DEF Comparison
  <2>. QED
    BY <1>1, <2>1, <2>2
<1>. QED
  BY <1>4, <1>8, <1>9, <1>10, <1>11

(* Every step keeps what attempts have achieved. *)
LEMMA AttemptStep ==
    /\ PagingTypes /\ AttemptInv /\ FaultsInvisible
    /\ [PagingNext]_pagingVars
    => AttemptInv' /\ FaultsInvisible'
<1>. SUFFICES ASSUME PagingTypes, AttemptInv, FaultsInvisible, [PagingNext]_pagingVars
              PROVE  AttemptInv' /\ FaultsInvisible'
  OBVIOUS
<1>1. ASSUME Begin PROVE AttemptInv' /\ FaultsInvisible'
  <2>1. /\ before' = Image /\ outcome' = "running" /\ n' = 0 /\ read' = <<>>
        /\ UNCHANGED <<vars, zone>>
    BY <1>1 DEF Begin
  <2>2. Image' = Image
    BY <2>1 DEF Image, Get, vars
  <2>3. WrittenSoFar' /\ HeldSoFar' /\ ReadSoFar'
    BY <2>1, AttemptStarts
  <2>. QED
    BY <2>1, <2>2, <2>3 DEF AttemptInv, FaultsInvisible
<1>2. ASSUME ReadByte PROVE AttemptInv' /\ FaultsInvisible'
  <2>1. outcome' = "running"
    BY <1>2 DEF ReadByte, Access, More, Running
  <2>. QED
    BY <1>2, <2>1, ReadAttempt DEF FaultsInvisible
<1>3. ASSUME WriteByte PROVE AttemptInv' /\ FaultsInvisible'
  <2>1. outcome' = "running"
    BY <1>3 DEF WriteByte, Access, More, Running
  <2>. QED
    BY <1>3, <2>1, WriteAttempt DEF FaultsInvisible
<1>4. ASSUME PageFault PROVE AttemptInv' /\ FaultsInvisible'
  <2>1. /\ outcome = "running" /\ outcome' = "page fault"
        /\ UNCHANGED <<vars, zone, ins, table, before>>
    BY <1>4 DEF PageFault, Fails, More, Running
  <2>2. Image' = Image
    BY <2>1 DEF Image, Get, vars
  <2>. QED
    BY <2>1, <2>2, Fixed DEF AttemptInv, FaultsInvisible, Running
<1>5. ASSUME Reject \/ Panic PROVE AttemptInv' /\ FaultsInvisible'
  <2>1. outcome' \in {"illegal operation", "panic"}
    BY <1>5 DEF Reject, Panic, Fails
  <2>. QED
    BY <2>1 DEF AttemptInv, FaultsInvisible
<1>6. ASSUME Resolve PROVE AttemptInv' /\ FaultsInvisible'
  <2>1. /\ outcome = "page fault" /\ outcome' \in {"ended", "running"}
        /\ n' = 0 /\ read' = <<>> /\ UNCHANGED <<vars, zone, before>>
    BY <1>6 DEF Resolve
  <2>2. Image' = Image
    BY <2>1 DEF Image, Get, vars
  <2>3. WrittenSoFar' /\ HeldSoFar' /\ ReadSoFar'
    BY <2>1, AttemptStarts
  <2>4. Destinations' = Destinations /\ Overlapping' = Overlapping
    BY <1>6, PlacesKept
  <2>. QED
    BY <2>1, <2>2, <2>3, <2>4 DEF AttemptInv, FaultsInvisible
<1>7. ASSUME UNCHANGED pagingVars PROVE AttemptInv' /\ FaultsInvisible'
  <2>1. UNCHANGED <<vars, zone, ins, table, before, outcome, n, held, read, flags>>
    BY <1>7 DEF pagingVars, cpuVars
  <2>2. Image' = Image
    BY <2>1 DEF Image, Get, vars
  <2>3. WrittenSoFar' = WrittenSoFar /\ HeldSoFar' = HeldSoFar /\ ReadSoFar' = ReadSoFar
    BY <2>1, <2>2 DEF WrittenSoFar, HeldSoFar, ReadSoFar, Done, Pairs, Stores, At, Physical,
                      Value
  <2>4. AttemptInv'
    BY <2>1, <2>2, <2>3, Fixed DEF AttemptInv, Running
  <2>5. \A p : LastWritten(p)' = LastWritten(p)
    BY <2>1, Fixed DEF LastWritten
  <2>6. Comparison' = Comparison
    BY <2>1, Fixed DEF Comparison
  <2>7. [p \in Address |-> IF p \in Destinations THEN LastWritten(p) ELSE before[p]]'
        = [p \in Address |-> IF p \in Destinations THEN LastWritten(p) ELSE before[p]]
    BY <2>1, <2>5, Fixed
  <2>8. [k \in 1..Length |-> before[At(ins.a, k)]]' = [k \in 1..Length |-> before[At(ins.a, k)]]
    BY <2>1, Fixed
  <2>9. FaultsInvisible'
    BY <2>1, <2>2, <2>6, <2>7, <2>8, Fixed DEF FaultsInvisible
  <2>. QED
    BY <2>4, <2>9
<1>. QED
  BY <1>1, <1>2, <1>3, <1>4, <1>5, <1>6, <1>7, CompareAttempt, CompleteAttempt
     DEF PagingNext, Cpu

(* However an instruction's accesses are broken off by page faults and     *)
(* repeated from the first one, for every size of its blocks, every way    *)
(* they lie on pages and wrap around, and every order in which pages are   *)
(* mapped, fetched and copied meanwhile: it ends with the memory, the      *)
(* bytes and the flags of one uninterrupted execution                      *)
(* (cpu.rs:1729-1763, 2027-2055; mmu.rs:112-149).                          *)
THEOREM FaultsStayInvisible == PagingSpec => []FaultsInvisible
<1>1. PagingInit => AttemptInv /\ FaultsInvisible
  BY DEF PagingInit, AttemptInv, FaultsInvisible, NoInstruction
<1>2. PagingSpec => [](AttemptInv /\ FaultsInvisible)
  BY <1>1, PagingTypesHold, AttemptStep, PTL DEF PagingSpec
<1>. QED
  BY <1>2, PTL
=============================================================================
