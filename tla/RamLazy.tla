------------------------------ MODULE RamLazy ------------------------------
(***************************************************************************)
(* The RAM as a map from page numbers to pages that exist from the first   *)
(* access for writing on (ram_lazy.rs).  It implements RamEager.           *)
(***************************************************************************)
EXTENDS Integers

CONSTANTS RAM_SIZE, PAGE_SIZE, Byte

ASSUME SizesAssumption == RAM_SIZE \in Nat /\ PAGE_SIZE \in Nat \ {0}
ASSUME ByteAssumption == 0 \in Byte

VARIABLES
    pages,      \* data: the hash map
    loaded      \* the byte the last load returned

vars == <<pages, loaded>>

Index == 0..(RAM_SIZE - 1)
Offsets == 0..(PAGE_SIZE - 1)
PageOf(i) == i \div PAGE_SIZE       \* index >> PAGE_SHIFT
OffsetOf(i) == i % PAGE_SIZE        \* index & PAGE_MASK

Pages == [Offsets -> Byte]

(* Only pages of the address space are ever allocated. *)
TypeOK ==
    /\ DOMAIN pages \subseteq {PageOf(i) : i \in Index}
    /\ \A p \in DOMAIN pages : pages[p] \in Pages
    /\ pages = [p \in DOMAIN pages |-> pages[p]]
    /\ loaded \in Byte

Init ==
    /\ pages = [p \in {} |-> 0]
    /\ loaded = 0

Get(i) ==
    IF PageOf(i) \in DOMAIN pages THEN pages[PageOf(i)][OffsetOf(i)] ELSE 0

Fresh == [o \in Offsets |-> 0]

(* Mutant: a page is allocated afresh whenever it is written. *)
AlwaysFresh(p) == Fresh

(* entry(p).or_insert_with(...) *)
Entry(p) == IF p \in DOMAIN pages THEN pages[p] ELSE Fresh

Load(i) == loaded' = Get(i) /\ UNCHANGED pages

Store(i, value) ==
    /\ pages' = [p \in DOMAIN pages \cup {PageOf(i)} |->
                   IF p = PageOf(i)
                     THEN [Entry(p) EXCEPT ![OffsetOf(i)] = value]
                     ELSE pages[p]]
    /\ UNCHANGED loaded

Next ==
    \E i \in Index :
      \/ Load(i)
      \/ \E value \in Byte : Store(i, value)

Spec == Init /\ [][Next]_vars

(* The vector that the pages stand for. *)
Eager == INSTANCE RamEager WITH data <- [i \in Index |-> Get(i)]

(* Lazy allocation is invisible: every load and store of the lazy RAM is a *)
(* load or store of the eager one (ram.rs:1-3; ram_lazy.rs:28-43).         *)
ImplementsEager == Eager!Spec
=============================================================================
