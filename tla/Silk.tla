-------------------------------- MODULE Silk --------------------------------
(***************************************************************************)
(* The linker: the parser of object files, the merging of their symbol     *)
(* tables, the relocation of the entry section and the writing of          *)
(* addresses into the image.                                               *)
(*                                                                         *)
(* The symbols of a file, and of the merged table, are kept in a HashMap   *)
(* and visited in its order, which differs from run to run: the actions    *)
(* of module Toolchain take them in any order, one at a time.              *)
(***************************************************************************)
EXTENDS Integers, Sequences, TLC, SequencesExt, FiniteSetsExt

CONSTANTS
    ROM_SIZE,      \* the capacity of the ROM
    DISK_ALIGN     \* a disk image is padded to a multiple of this

ROM_BASE == 64         \* 0x40
DISK_BASE == 16384     \* 0x4000
MAGIC_HEADER == <<83, 73, 77, 79, 66, 74>>
ABI_VERSION == 1
SYMBOL_TYPE == [I |-> 73, P |-> 80, E |-> 69]
FLAG == [ENTRYPOINT |-> 1, READ |-> 4, WRITE |-> 8, EXECUTE |-> 16]
Has(flags, flag) == (flags \div flag) % 2 = 1
INVALID_FLAGS == {2, 32, 64, 128}

None == -1             \* the value of an external symbol

-----------------------------------------------------------------------------
(***************************************************************************)
(* The parser.  Positions count the bytes read; a byte past the end of the *)
(* file reads as 0 here and makes the file an error by Complete.           *)
(***************************************************************************)
At(file, p) == IF p < Len(file) THEN file[p + 1] ELSE 0
ReadU16(file, p) == 256 * At(file, p) + At(file, p + 1)
ReadU32(file, p) == 65536 * ReadU16(file, p) + ReadU16(file, p + 2)
ReadBuffer(file, p, n) == [k \in 1..n |-> At(file, p + k - 1)]

(* One entry of the symbol table at p, and where it ends *)
SymbolAt(file, p) ==
    LET len == At(file, p + 5)
        refs == ReadU32(file, p + 6 + len)
        type == At(file, p)
    IN  [type |-> type, name |-> ReadBuffer(file, p + 6, len),
         value |-> IF type = SYMBOL_TYPE.E THEN None ELSE ReadU32(file, p + 1),
         refs |-> [k \in 1..refs |-> ReadU32(file, p + 6 + len + 4 * k)],
         end |-> p + 10 + len + 4 * refs]

ParseSymbols(file, n, start) ==
    LET sym[k \in 1..n] == SymbolAt(file, IF k = 1 THEN start ELSE sym[k - 1].end) IN sym

(* validate_symbol_name: digits, letters and _ *)
ValidName(name) ==
    /\ name # <<>>
    /\ \A k \in DOMAIN name : name[k] \in (48..57) \cup (65..90) \cup {95} \cup (97..122)

(* Where each of some blocks ends when they lie one after the other *)
Ends(length) ==
    LET end[k \in 0..Len(length)] == IF k = 0 THEN 0 ELSE end[k - 1] + length[k] IN end

(***************************************************************************)
(* Parser::run up to the verification of the symbols: the symbols, with    *)
(* the addresses of the file, the sections, with their start relative to   *)
(* the first, and where the first begins.                                  *)
(***************************************************************************)
ParseFile(file) ==
    LET symbols == ParseSymbols(file, ReadU32(file, 8), 16)
        n == Len(symbols)
        headers == IF n = 0 THEN 16 ELSE symbols[n].end
        count == ReadU32(file, 12)
        start == headers + 5 * count
        length == [k \in 1..count |-> ReadU32(file, headers + 5 * (k - 1) + 1)]
        end == Ends(length)
    IN  [symbols |-> symbols, start |-> start, end |-> start + end[count],
         sections |-> [k \in 1..count |->
             [flags |-> At(file, headers + 5 * (k - 1)), start |-> end[k - 1],
              length |-> length[k],
              data |-> ReadBuffer(file, start + end[k - 1], length[k])]]]

ParsesAs(file, parsed) ==
    /\ Len(file) >= 16
    /\ SubSeq(file, 1, 6) = MAGIC_HEADER
    /\ ReadU16(file, 6) = ABI_VERSION
    /\ \A s \in Range(parsed.symbols) : s.type \in Range(SYMBOL_TYPE) /\ ValidName(s.name)
    /\ \A j, k \in DOMAIN parsed.symbols :
         parsed.symbols[j].name = parsed.symbols[k].name => j = k
    /\ parsed.end <= Len(file)

(* Section::find: the section of an address, 0 if there is none *)
Find(sections, a) ==
    LET in == {k \in DOMAIN sections :
                 sections[k].start <= a /\ a < sections[k].start + sections[k].length}
    IN  IF in = {} THEN 0 ELSE CHOOSE k \in in : TRUE

SectionsEnd(sections) ==
    IF sections = <<>> THEN 0 ELSE Last(sections).start + Last(sections).length

(* Mutant: a reference outside every section is let through. *)
VerifyReferenceAnywhere(ref, start, sections) == IF ref < start THEN "error" ELSE "ok"

(***************************************************************************)
(* relocate_and_verify_symbol.  A reference is checked to be zero byte by  *)
(* byte, and indexing past the end of its section panics.                  *)
(***************************************************************************)
VerifyReference(ref, start, sections) ==
    LET a == ref - start
        k == Find(sections, a)
        Byte(i) == sections[k].data[a - sections[k].start + i]
        last == IF k = 0 THEN 0 ELSE Min({4, sections[k].start + sections[k].length - a})
    IN  CASE a < 0 \/ k = 0 -> "error"
          [] a >= 0 /\ k # 0 /\ \E i \in 1..last : Byte(i) # 0 -> "error"
          [] a >= 0 /\ k # 0 /\ \A i \in 1..last : Byte(i) = 0 ->
               IF last < 4 THEN "panic" ELSE "ok"

VerifySymbol(s, start, sections) ==
    LET Verdict(k) == VerifyReference(s.refs[k], start, sections)
        bad == {k \in DOMAIN s.refs : Verdict(k) # "ok"}
    IN  IF s.value # None /\ (s.value < start \/ s.value - start >= SectionsEnd(sections))
          THEN "error"
          ELSE IF bad = {} THEN "ok" ELSE Verdict(Min(bad))

(* What Parser::parse may answer: the first symbol that fails, in the      *)
(* order of the HashMap, decides.                                          *)
ParseOutcomes(file, parsed) ==
    IF ~ParsesAs(file, parsed) THEN {"error"} ELSE
    LET verdicts == {VerifySymbol(s, parsed.start, parsed.sections) : s \in Range(parsed.symbols)}
    IN  IF verdicts \subseteq {"ok"} THEN {"ok"} ELSE verdicts \ {"ok"}

(* Mutant: the references are not moved with the sections. *)
RelocatedValue(s, by) ==
    [type |-> s.type, value |-> IF s.value = None THEN None ELSE s.value + by, refs |-> s.refs]

(* The symbols after a successful parse: name |-> [type, value, refs] *)
Relocated(s, by) ==
    [type |-> s.type, value |-> IF s.value = None THEN None ELSE s.value + by,
     refs |-> [k \in DOMAIN s.refs |-> s.refs[k] + by]]

-----------------------------------------------------------------------------
(* The decimal digits of the numbers up to n, as characters *)
Decimals(n) ==
    LET d[m \in 0..n] == (IF m < 10 THEN <<>> ELSE d[m \div 10]) \o <<48 + (m % 10)>> IN d

(* gen_non_conflicting_name *)
FreshName(table, base) ==
    LET suffix == Decimals(Cardinality(DOMAIN table))
    IN  base \o suffix[Min({n \in DOMAIN suffix : base \o suffix[n] \notin DOMAIN table})]

(* Mutant: a symbol that is renamed is lost. *)
RenameDropped(table, old, new) == [n \in DOMAIN table \ {old} |-> table[n]]

(* HashMap::insert *)
Insert(table, name, e) ==
    [n \in DOMAIN table \cup {name} |-> IF n = name THEN e ELSE table[n]]
Rename(table, old, new) ==
    [n \in (DOMAIN table \ {old}) \cup {new} |-> IF n = new THEN table[old] ELSE table[n]]

(***************************************************************************)
(* One symbol of add_objects: the table afterwards, or how it fails.       *)
(***************************************************************************)
Merge(table, name, e) ==
    LET T == SYMBOL_TYPE
        old == table[name]
        New(t) == [outcome |-> "ok", table |-> t]
        Fails(o) == [outcome |-> o, table |-> table]
    IN  CASE name \notin DOMAIN table -> New(Insert(table, name, e))
          [] name \in DOMAIN table /\ e.type = T.I -> New(Insert(table, FreshName(table, name), e))
          [] name \in DOMAIN table /\ e.type # T.I /\ old.type = T.I ->
               New(Insert(Rename(table, name, FreshName(table, name)), name, e))
          [] name \in DOMAIN table /\ e.type = T.E /\ old.type = T.P ->
               New([table EXCEPT ![name].refs = @ \o e.refs])
          [] name \in DOMAIN table /\ e.type = T.P /\ old.type = T.E ->
               New([table EXCEPT ![name] = [e EXCEPT !.refs = old.refs \o @]])
          [] name \in DOMAIN table /\ e.type = T.P /\ old.type = T.P -> Fails("error")
          [] name \in DOMAIN table /\ e.type = T.E /\ old.type = T.E -> Fails("panic")

(* The sections of add_objects: those of the new file after the others *)
AddSections(sections, new) ==
    sections \o [k \in DOMAIN new |-> [new[k] EXCEPT !.start = @ + SectionsEnd(sections)]]

-----------------------------------------------------------------------------
EntryPoints(sections) == {k \in DOMAIN sections : Has(sections[k].flags, FLAG.ENTRYPOINT)}

(* Mutant: several entry points are accepted. *)
FlagsAcceptedAnyEntry(sections, read_only) ==
    /\ \A k \in DOMAIN sections : read_only => ~Has(sections[k].flags, FLAG.WRITE)
    /\ EntryPoints(sections) # {}

(* link_as_image: the checks of the sections' flags *)
FlagsAccepted(sections, read_only) ==
    /\ \A k \in DOMAIN sections :
         /\ \A f \in INVALID_FLAGS : ~Has(sections[k].flags, f)
         /\ read_only => ~Has(sections[k].flags, FLAG.WRITE)
    /\ \E k \in DOMAIN sections : EntryPoints(sections) = {k}
    /\ \A k \in EntryPoints(sections) : Has(sections[k].flags, FLAG.EXECUTE)

(* The entry section moves to the start, those before it move up *)
MoveToStart(sections, entry) ==
    LET s == sections[entry]
    IN  <<[s EXCEPT !.start = 0]>>
        \o [k \in 1..(entry - 1) |-> [sections[k] EXCEPT !.start = @ + s.length]]
        \o SubSeq(sections, entry + 1, Len(sections))

(* The relocate closure: where a byte is after that *)
Relocate(v, cutoff, offset) ==
    CASE v < cutoff -> v + offset
      [] v >= cutoff /\ v < cutoff + offset -> v - cutoff
      [] v >= cutoff + offset -> v

(***************************************************************************)
(* The address of a symbol written to one reference of it.  move is the    *)
(* cutoff and the offset of the entry section.  A reference outside the    *)
(* sections, or whose bytes are not zero (because another reference        *)
(* overlaps it), panics.                                                   *)
(***************************************************************************)
Address(value) ==
    <<(value \div 16777216) % 256, (value \div 65536) % 256, (value \div 256) % 256, value % 256>>
WriteReference(st, sections, ref, value, move) ==
    LET a == Relocate(ref, move.cutoff, move.offset)
        k == Find(sections, a)
        bytes == Address(move.base + Relocate(value, move.cutoff, move.offset))
        p == a - sections[k].start
    IN  IF k = 0 \/ \E i \in 1..4 : st.data[k][p + i] # 0
          THEN [st EXCEPT !.outcome = "panic"]
          ELSE [st EXCEPT !.data[k] =
                  [i \in DOMAIN @ |-> IF i - p \in 1..4 THEN bytes[i - p] ELSE @[i]]]
ResolveReferences(sections, e, move) ==
    LET after[k \in 0..Len(e.refs)] ==
          IF k = 0 THEN [outcome |-> "ok", data |-> [s \in DOMAIN sections |-> sections[s].data]]
          ELSE LET st == after[k - 1]
               IN  IF st.outcome = "ok" THEN WriteReference(st, sections, e.refs[k], e.value, move)
                                        ELSE st
        last == after[Len(e.refs)]
    IN  [outcome |-> last.outcome,
         sections |-> [k \in DOMAIN sections |-> [sections[k] EXCEPT !.data = last.data[k]]]]

(* The sections one after the other, then link_as_rom and link_as_disk *)
Concatenate(sections) == FlattenSeq([k \in DOMAIN sections |-> sections[k].data])
Pad(image, n) == image \o [k \in 1..(n - Len(image)) |-> 0]
link_as_rom(image) ==
    IF image = <<>> \/ Len(image) > ROM_SIZE THEN [outcome |-> "error", image |-> <<>>]
      ELSE [outcome |-> "image", image |-> Pad(image, ROM_SIZE)]
link_as_disk(image) ==
    IF image = <<>> THEN [outcome |-> "error", image |-> <<>>]
      ELSE [outcome |-> "image",
            image |-> Pad(image, DISK_ALIGN * ((Len(image) + DISK_ALIGN - 1) \div DISK_ALIGN))]
=============================================================================
