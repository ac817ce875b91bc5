------------------------------ MODULE Linking ------------------------------
(***************************************************************************)
(* What the linker promises about any object files, told by the files      *)
(* themselves: which of them it links, where each byte of their sections   *)
(* is in the image, and what it writes where they refer to a symbol.       *)
(* Nothing here mentions the symbol table or the sections in which the     *)
(* linker does its work; the inductive invariant at the end relates these  *)
(* to the files.                                                           *)
(***************************************************************************)
EXTENDS Toolchain

(* The sections of the files lie one after the other: where those of each  *)
(* file end, and where the address a of file k lies.                       *)
FileEnds(fs) == Silk!Ends([k \in DOMAIN fs |-> Silk!SectionsEnd(fs[k].sections)])
Combined(fs, k, a) == FileEnds(fs)[k - 1] + (a - fs[k].start)

(* Then the entry section moves to the start. *)
Final(a) == Silk!Relocate(a, move.cutoff, move.offset)

(* The symbols of all files, by file and place *)
SymbolIds(fs) == UNION {{k} \X DOMAIN fs[k].symbols : k \in DOMAIN fs}
Sym(fs, u) == fs[u[1]].symbols[u[2]]
ValueOf(fs, u) == Combined(fs, u[1], Sym(fs, u).value)
RefOf(fs, u, r) == Combined(fs, u[1], Sym(fs, u).refs[r])

TYPE == Silk!SYMBOL_TYPE

(* The definitions that a symbol may mean: itself, or the public symbol of *)
(* its name *)
Meanings(fs, u) ==
    IF Sym(fs, u).type # TYPE.E THEN {u}
    ELSE {v \in SymbolIds(fs) : Sym(fs, v).type = TYPE.P /\ Sym(fs, v).name = Sym(fs, u).name}

(* The sections of all files, by file and place, and where their bytes are *)
SectionIds(fs) == UNION {{k} \X DOMAIN fs[k].sections : k \in DOMAIN fs}
Sec(fs, x) == fs[x[1]].sections[x[2]]
ByteOf(fs, x, i) == Combined(fs, x[1], fs[x[1]].start + Sec(fs, x).start + i - 1)
IsEntry(fs, x) == Silk!Has(Sec(fs, x).flags, Silk!FLAG.ENTRYPOINT)

(* Is an address one of the four bytes of a reference? *)
InReference(fs, a) ==
    \E u \in SymbolIds(fs) : \E r \in DOMAIN Sym(fs, u).refs : a - RefOf(fs, u, r) \in 0..3

Apart(fs) == \A k \in DOMAIN fs : ~Overlaps(fs[k])

EntryFirst(fs) ==
    \A x \in SectionIds(fs) :
       IsEntry(fs, x) /\ Sec(fs, x).length > 0 => Final(ByteOf(fs, x, 1)) = 0

-----------------------------------------------------------------------------
(***************************************************************************)
(* In the image, every reference of every file is the address of what its  *)
(* symbol means, however symbols were renamed and merged and in whatever   *)
(* order HashMaps were visited, every other byte of a section is that of   *)
(* the file, and the entry section is first.                               *)
(***************************************************************************)
LinkedAsWritten ==
    result.outcome = "image" =>
        \A fs \in {Parsed} : Apart(fs) =>
          /\ \A u \in SymbolIds(fs) : \A v \in Meanings(fs, u), r \in DOMAIN Sym(fs, u).refs :
               \A i \in 1..4 : result.image[Final(RefOf(fs, u, r)) + i]
                                 = Silk!Address(move.base + Final(ValueOf(fs, v)))[i]
          /\ \A x \in SectionIds(fs) : \A i \in 1..Sec(fs, x).length :
               \/ InReference(fs, ByteOf(fs, x, i))
               \/ result.image[Final(ByteOf(fs, x, i)) + 1] = Sec(fs, x).data[i]
          /\ EntryFirst(fs)

(***************************************************************************)
(* The files that can be linked: each is in order, every symbol means      *)
(* exactly one definition, one section is the entry point, and the target  *)
(* takes the flags and the size.                                           *)
(***************************************************************************)
FlagsOf(fs) ==
    /\ \A x \in SectionIds(fs) :
         /\ \A f \in Silk!INVALID_FLAGS : ~Silk!Has(Sec(fs, x).flags, f)
         /\ project.target = "ROM" => ~Silk!Has(Sec(fs, x).flags, Silk!FLAG.WRITE)
         /\ IsEntry(fs, x) => Silk!Has(Sec(fs, x).flags, Silk!FLAG.EXECUTE)
    /\ \E x \in SectionIds(fs) : \A y \in SectionIds(fs) : IsEntry(fs, y) <=> y = x

DefinedOnce(fs, M) ==
    \A u, v \in M :
       Sym(fs, u).type = TYPE.P /\ Sym(fs, v).type = TYPE.P /\ Sym(fs, u).name = Sym(fs, v).name
       => u = v

CanBeLinked(fs) ==
    /\ \A k \in DOMAIN fs : "ok" \in Silk!ParseOutcomes(order[k].file, fs[k])
    /\ \A u \in SymbolIds(fs) : Meanings(fs, u) # {}
    /\ DefinedOnce(fs, SymbolIds(fs))
    /\ FlagsOf(fs)
    /\ FileEnds(fs)[Len(fs)] > 0
    /\ project.target = "ROM" => FileEnds(fs)[Len(fs)] <= ROM_SIZE

(* The linker makes an image exactly of the files that can be linked, in   *)
(* whatever order it takes files and symbols.                              *)
LinkedIffPossible ==
    pc = "done" /\ order # <<>> /\ result.outcome # "panic" =>
        \A fs \in {Parsed} : result.outcome = "image" <=> CanBeLinked(fs)

(* It panics only because of two files that refer to a symbol before one   *)
(* defines it, or a reference that leaves its section or overlaps another. *)
LinkerPanicsExplained ==
    result.outcome = "panic" /\ order # <<>> =>
        TwoExternals \/ \E k \in DOMAIN order : BadReference(order[k].file)

-----------------------------------------------------------------------------
(***************************************************************************)
(* The inductive invariant behind these.                                   *)
(***************************************************************************)
Read == Len(order) - Len(todo)

(* The symbols that the table has by now *)
Merged(fs) ==
    {u \in SymbolIds(fs) : u[1] <= Read /\ (u[1] = Read => Sym(fs, u).name \notin DOMAIN pending)}

(* Symbol u is in the table t, with all its references. *)
Entered(fs, u, t) ==
    \E n \in DOMAIN t :
      /\ \A r \in DOMAIN Sym(fs, u).refs : \E i \in DOMAIN t[n].refs : t[n].refs[i] = RefOf(fs, u, r)
      /\ IF Sym(fs, u).type = TYPE.I THEN t[n].type = TYPE.I
         ELSE n = Sym(fs, u).name /\ t[n].type \in {Sym(fs, u).type, TYPE.P}
      /\ Sym(fs, u).type # TYPE.E => t[n].value = ValueOf(fs, u)

(* An entry of t is from the symbols M. *)
FromSymbols(fs, M, t, n) ==
    /\ t[n].type # TYPE.I => \E u \in M : Sym(fs, u).type = t[n].type /\ Sym(fs, u).name = n
    /\ t[n].type = TYPE.E <=> t[n].value = Silk!None
    /\ \A i \in DOMAIN t[n].refs :
         \E u \in M : \E r \in DOMAIN Sym(fs, u).refs : t[n].refs[i] = RefOf(fs, u, r)

Once(t) ==
    \A n, m \in DOMAIN t : \A i \in DOMAIN t[n].refs, j \in DOMAIN t[m].refs :
       t[n].refs[i] = t[m].refs[j] => n = m /\ i = j

TableOf(fs, M, t) ==
    /\ IsFiniteSet(DOMAIN t)
    /\ DefinedOnce(fs, M)
    /\ \A u \in M : Entered(fs, u, t)
    /\ \A n \in DOMAIN t : FromSymbols(fs, M, t, n)
    /\ Apart(fs) => Once(t)

(* ss are the sections of the first m files, one after the other. *)
Counts(fs) == Silk!Ends([k \in DOMAIN fs |-> Len(fs[k].sections)])
Index(fs, x) == Counts(fs)[x[1] - 1] + x[2]
SectionsOf(fs, m, ss) ==
    /\ Silk!SectionsEnd(ss) = FileEnds(fs)[m]
    /\ Len(ss) = Counts(fs)[m]
    /\ \A x \in SectionIds(fs) : x[1] <= m =>
         ss[Index(fs, x)] = [Sec(fs, x) EXCEPT !.start = @ + FileEnds(fs)[x[1] - 1]]

Reading(fs) ==
    /\ Read \in 0..Len(order) /\ todo = SubSeq(order, Read + 1, Len(order))
    /\ SectionsOf(fs, Read, sections)
    /\ \A n \in DOMAIN pending :
         \E u \in SymbolIds(fs) :
            /\ u[1] = Read /\ Sym(fs, u).name = n
            /\ pending[n] = Silk!Relocated(Sym(fs, u), FileEnds(fs)[Read - 1] - fs[Read].start)
    /\ TableOf(fs, Merged(fs), table)

(* The byte at an address of the sections *)
ByteAt(ss, a, b) ==
    \E k \in DOMAIN ss : /\ ss[k].start <= a /\ a < ss[k].start + ss[k].length
                         /\ ss[k].data[a - ss[k].start + 1] = b
Section == [flags : Int, start : Nat, length : Nat, data : Seq(Int)]
Solid(ss) == \A k \in DOMAIN ss : ss[k] \in Section /\ Len(ss[k].data) = ss[k].length

(* The references of a table, by name and place, and where they are *)
Slots(t) == UNION {{n} \X DOMAIN t[n].refs : n \in DOMAIN t}
Slot(t, p) == Final(t[p[1]].refs[p[2]])

(* References are whole, far from each other, and hold their address or,   *)
(* those still to be written, zeros; the other bytes are those of the file.*)
Memory(fs) ==
    /\ \A p, q \in Slots(table) : p # q => Slot(table, p) - Slot(table, q) \notin 0..3
    /\ \A p \in Slots(table) : \A i \in 1..4 :
         ByteAt(sections, Slot(table, p) + i - 1,
                IF p[1] \in DOMAIN pending THEN 0
                  ELSE Silk!Address(move.base + Final(table[p[1]].value))[i])
    /\ \A x \in SectionIds(fs) : \A i \in 1..Sec(fs, x).length :
         \/ \E p \in Slots(table) : Final(ByteOf(fs, x, i)) - Slot(table, p) \in 0..3
         \/ ByteAt(sections, Final(ByteOf(fs, x, i)), Sec(fs, x).data[i])

Resolving(fs) ==
    /\ todo = <<>>
    /\ TableOf(fs, SymbolIds(fs), table)
    /\ Silk!SectionsEnd(sections) = FileEnds(fs)[Len(fs)]
    /\ Solid(sections)
    /\ \A n \in DOMAIN pending : n \in DOMAIN table /\ pending[n] = table[n]
    /\ \A n \in DOMAIN table \ DOMAIN pending : table[n].value # Silk!None
    /\ \A p \in Slots(table) : \A i \in 0..3 : Final(table[p[1]].refs[p[2]] + i) = Slot(table, p) + i
    /\ Apart(fs) => Memory(fs)

ImageInv ==
    /\ pc # "done" => result.outcome = "none"
    /\ pc = "assemble" => order = <<>>
    /\ \A fs \in {Parsed} :
         /\ pc \in {"combine", "resolve"} =>
              /\ order \in Seq(Linkable)
              /\ \A k \in 1..Read : "ok" \in Silk!ParseOutcomes(order[k].file, fs[k])
         /\ pc = "combine" => Reading(fs)
         /\ pc = "resolve" => Resolving(fs) /\ FlagsOf(fs) /\ EntryFirst(fs)
    /\ pc = "done" => LinkedAsWritten /\ LinkedIffPossible /\ LinkerPanicsExplained

(***************************************************************************)
(* The inductive invariant behind PanicsExplained: what each file of the   *)
(* loop sees of those before it, and where the files linked come from.     *)
(***************************************************************************)
PanicInv ==
    /\ project.files \in Seq(SourceFile)
    /\ \A i, j \in DOMAIN project.files : project.files[i].id = project.files[j].id => i = j
    /\ pc = "assemble" =>
         /\ order = <<>> /\ sections = <<>> /\ pending = <<>>
         /\ \E inputs \in {Inputs(project.files)} : \E k \in 0..Len(inputs) :
              todo = SubSeq(inputs, k + 1, Len(inputs)) /\ consts = Carried(inputs)[k]
    /\ pc = "combine" /\ order = <<>> => todo = <<>> /\ sections = <<>> /\ pending = <<>>
    /\ pc = "resolve" => order # <<>>
    /\ pc # "done" => result.outcome = "none"
    /\ result.outcome = "panic" /\ order = <<>> =>
         \E f \in Files : TooLong(f) \/ TooLargeFile(f) \/ UnknownSizeof(f) \/ ForeignSpan(f)
    /\ \A k \in DOMAIN objects : ~BadReference(objects[k].file)
    /\ \A k \in DOMAIN order : order[k] \in Range(objects) \cup Range(project.raw)
=============================================================================
