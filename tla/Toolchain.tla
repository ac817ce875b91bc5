----------------------------- MODULE Toolchain -----------------------------
(***************************************************************************)
(* A project built with the two command line tools: the assembler over its *)
(* source files, then the linker over the object files, in the order the   *)
(* user gives them.  The last section compares the image with the sources, *)
(* by decoding it the way the CPU does.                                    *)
(***************************************************************************)
EXTENDS Salt

CONSTANTS
    ROM_SIZE, DISK_ALIGN,    \* see Silk
    Projects                 \* sets of projects to build

(* A file as the linker reads it *)
Linkable == [id : Nat, file : Seq(0..255)]

(* A source file as salt's parser leaves it: names are strings of bytes,   *)
(* and a literal may be any number.                                        *)
Ident == Seq(0..255)
LiteralNode == [kind : {"lit"}, value : Int, min : DOMAIN Size] \cup [kind : {"sizeof"}, name : Ident]
OperandNode == [kind : {"reg"}, ref : 0..37] \cup [kind : {"name"}, name : Ident] \cup LiteralNode
ConstNode == [name : Ident, public : BOOLEAN, value : LiteralNode]
DataNode == [name : Ident, public : BOOLEAN, mutable : BOOLEAN, type : DOMAIN Size,
             dims : Seq(Nat \cup {Inferred}), init : [values : Seq(LiteralNode), dims : Seq(Nat)]]
LabelNode == [name : Ident, public : BOOLEAN, at : Nat \ {0}]
InstructionNode == [op : STRING, operands : Seq(OperandNode)]
SourceFile == [id : Nat, entry : BOOLEAN,
               src : [consts : Seq(ConstNode), data : Seq(DataNode), labels : Seq(LabelNode),
                      instrs : Seq(InstructionNode)]]

ASSUME SizesAssumption == ROM_SIZE \in Nat \ {0} /\ DISK_ALIGN \in Nat \ {0}
ASSUME ProjectsAssumption ==
    \A P \in Projects : \A p \in P :
       /\ p.files \in Seq(SourceFile) /\ p.raw \in Seq(Linkable)
       /\ \A i, j \in DOMAIN p.files : p.files[i].id = p.files[j].id => i = j

Silk == INSTANCE Silk
CPU == INSTANCE Isa

VARIABLES
    project,     \* [files, raw, target]: source files, foreign object files, ROM or DISK
    pc,          \* "assemble", "combine", "resolve", "done"
    todo,        \* the files the current loop has not reached
    consts,      \* public_consts: of the files assembled so far
    objects,     \* the object files written, by file
    order,       \* the object files in the order they are linked
    sections, table,    \* Linker::data
    pending,     \* the symbols the current loop over a HashMap has not reached
    move,        \* cutoff and offset of the entry section, base address
    result       \* what the tools end with: outcome and image

vars == <<project, pc, todo, consts, objects, order, sections, table, pending, move, result>>

-----------------------------------------------------------------------------
(* Files without -E are assembled before those with it *)
Inputs(files) ==
    Selected(files, {k \in DOMAIN files : ~files[k].entry})
    \o Selected(files, {k \in DOMAIN files : files[k].entry})

Init ==
    /\ \E P \in Projects : project \in P
    /\ pc = "assemble"
    /\ todo = Inputs(project.files)
    /\ consts = <<>> /\ objects = <<>> /\ order = <<>>
    /\ sections = <<>> /\ table = <<>> /\ pending = <<>>
    /\ move = [cutoff |-> 0, offset |-> 0, base |-> 0]
    /\ result = [outcome |-> "none", image |-> <<>>]

Stop(outcome) ==
    /\ pc' = "done"
    /\ result' = [outcome |-> outcome, image |-> <<>>]

(* The reports about a constant of another file quote this file's text at  *)
(* the place it has in the other, which may be past the end.               *)
IsUppercase(name) == \A k \in DOMAIN name : name[k] \notin 97..122
ForeignReport(src) ==
    \E c \in Range(consts) : ~IsUppercase(c.name) \/ c.name \in NamesOf(src.consts)

PublicConsts(src) == Selected(src.consts, {k \in DOMAIN src.consts : src.consts[k].public})
add_public_consts(src) == consts \o PublicConsts(src)

(***************************************************************************)
(* One file of salt's loop.  A file that has errors gets no object file,   *)
(* and the loop goes on.                                                   *)
(***************************************************************************)
Assemble ==
    /\ pc = "assemble" /\ todo # <<>>
    /\ LET f == Head(todo)
       IN  \/ /\ New(f.src, consts)
              /\ consts' = add_public_consts(f.src)
              /\ \E run \in {Run(f.src, consts, f.entry)} :
                   /\ IF run.outcome = "panic" THEN Stop("panic") ELSE UNCHANGED <<pc, result>>
                   /\ objects' = IF run.outcome = "ok"
                                   THEN Append(objects, [id |-> f.id, file |-> run.simobj])
                                   ELSE objects
              /\ todo' = Tail(todo)
              /\ UNCHANGED <<project, order, sections, table, pending, move>>
           \/ /\ ~New(f.src, consts)
              /\ todo' = Tail(todo)
              /\ UNCHANGED <<project, pc, consts, objects, order, sections, table, pending, move,
                             result>>
           \/ /\ ForeignReport(f.src)
              /\ Stop("panic")
              /\ UNCHANGED <<project, todo, consts, objects, order, sections, table, pending, move>>

(* silk, over every file of the project: one that has no object file       *)
(* cannot be opened.                                                       *)
StartLinking ==
    /\ pc = "assemble" /\ todo = <<>>
    /\ IF Len(objects) < Len(project.files)
         THEN Stop("error") /\ UNCHANGED <<todo, order>>
         ELSE /\ LET files == objects \o project.raw
                 IN  \E p \in Bijection(DOMAIN files, DOMAIN files) :
                       order' = [k \in DOMAIN files |-> files[p[k]]]
              /\ todo' = order'
              /\ pc' = "combine"
              /\ UNCHANGED result
    /\ UNCHANGED <<project, consts, objects, sections, table, pending, move>>

(* parse_and_combine: the next file parsed, its sections added *)
AddObjects ==
    /\ pc = "combine" /\ DOMAIN pending = {} /\ todo # <<>>
    /\ LET parsed == Silk!ParseFile(Head(todo).file)
           by == Silk!SectionsEnd(sections) - parsed.start
       IN  \E o \in Silk!ParseOutcomes(Head(todo).file, parsed) :
             IF o = "ok"
               THEN /\ sections' = Silk!AddSections(sections, parsed.sections)
                    /\ pending' = [n \in NamesOf(parsed.symbols) |->
                                     Silk!Relocated(ByName(parsed.symbols)[n], by)]
                    /\ UNCHANGED <<pc, result>>
               ELSE Stop(o) /\ UNCHANGED <<sections, pending>>
    /\ todo' = Tail(todo)
    /\ UNCHANGED <<project, consts, objects, order, table, move>>

(* One symbol of it merged into the table *)
MergeSymbol ==
    /\ pc = "combine"
    /\ \E n \in DOMAIN pending :
         LET m == Silk!Merge(table, n, pending[n])
         IN  /\ pending' = [k \in DOMAIN pending \ {n} |-> pending[k]]
             /\ table' = m.table
             /\ IF m.outcome = "ok" THEN UNCHANGED <<pc, result>> ELSE Stop(m.outcome)
    /\ UNCHANGED <<project, todo, consts, objects, order, sections, move>>

(* link_as_rom, link_as_disk: link_as_image up to the loop over the symbols *)
StartImage ==
    /\ pc = "combine" /\ DOMAIN pending = {} /\ todo = <<>>
    /\ IF Silk!FlagsAccepted(sections, project.target = "ROM")
         THEN LET entry == CHOOSE k \in Silk!EntryPoints(sections) : TRUE
              IN  /\ move' = [cutoff |-> sections[entry].start, offset |-> sections[entry].length,
                              base |-> IF project.target = "ROM" THEN Silk!ROM_BASE
                                                                 ELSE Silk!DISK_BASE]
                  /\ sections' = Silk!MoveToStart(sections, entry)
                  /\ pending' = table
                  /\ pc' = "resolve"
                  /\ UNCHANGED result
         ELSE Stop("error") /\ UNCHANGED <<move, sections, pending>>
    /\ UNCHANGED <<project, todo, consts, objects, order, table>>

(* One symbol: its address written to its references *)
ResolveSymbol ==
    /\ pc = "resolve"
    /\ \E n \in DOMAIN pending :
         LET r == Silk!ResolveReferences(sections, pending[n], move)
         IN  IF pending[n].value = Silk!None
               THEN Stop("error") /\ UNCHANGED <<sections, pending>>
               ELSE /\ sections' = r.sections
                    /\ pending' = [k \in DOMAIN pending \ {n} |-> pending[k]]
                    /\ IF r.outcome = "ok" THEN UNCHANGED <<pc, result>> ELSE Stop(r.outcome)
    /\ UNCHANGED <<project, todo, consts, objects, order, table, move>>

WriteImage ==
    /\ pc = "resolve" /\ DOMAIN pending = {}
    /\ pc' = "done"
    /\ result' = IF project.target = "ROM" THEN Silk!link_as_rom(Silk!Concatenate(sections))
                                           ELSE Silk!link_as_disk(Silk!Concatenate(sections))
    /\ UNCHANGED <<project, todo, consts, objects, order, sections, table, pending, move>>

Next == \/ Assemble \/ StartLinking \/ AddObjects \/ MergeSymbol
        \/ StartImage \/ ResolveSymbol \/ WriteImage

Spec == Init /\ [][Next]_vars

-----------------------------------------------------------------------------
(***************************************************************************)
(* The project as its sources describe it.                                 *)
(***************************************************************************)
Files == Range(project.files)

(* The public constants of the first files, without those of files whose   *)
(* declarations have errors                                                *)
Carry(cs, src) == IF New(src, cs) THEN cs \o PublicConsts(src) ELSE cs
Carried(inputs) ==
    LET carried[k \in 0..Len(inputs)] ==
          IF k = 0 THEN <<>> ELSE Carry(carried[k - 1], inputs[k].src)
    IN  carried

(* The constants of other files that file f sees, its tables and operands *)
Extra(f) ==
    LET inputs == Inputs(project.files)
        k == CHOOSE j \in DOMAIN inputs : inputs[j].id = f.id
    IN  Carried(inputs)[k - 1]
EnvOf(f) == Env(f.src, Extra(f))
OperandsOf(f, k) ==
    LET ins == f.src.instrs[k]
    IN  [j \in DOMAIN ins.operands |-> Resolve(EnvOf(f), ins.operands[j])]

UsedNames(f) ==
    {o.name : o \in {p \in UNION {Range(OperandsOf(f, k)) : k \in DOMAIN f.src.instrs} :
                       p.kind = "name"}}
Defined(f) == NamesOf(f.src.data) \cup NamesOf(f.src.labels)
Public(f) == {d.name : d \in {e \in Range(f.src.data \o f.src.labels) : e.public}}
External(f) == UsedNames(f) \ Defined(f)
Definers(n) == {g \in Files : n \in Public(g)}

(* The file whose definition a name of file f means *)
Home(f, n) == IF n \in Defined(f) THEN f ELSE CHOOSE g \in Definers(n) : TRUE

(***************************************************************************)
(* Does the CPU have an instruction of this form?  A name is an address,   *)
(* which is a word.                                                        *)
(***************************************************************************)
OperandHasRole(f, o, role, first, other) ==
    CASE o.kind = "reg" -> ~CPU!IsLiteral(role)
                           /\ CPU!Accepts(role, CPU!reg_ref_type(o.ref), first, other)
      [] o.kind = "name" -> role = "word" \/ (role = "value" /\ first = "Word")
      [] OTHER -> /\ CPU!IsLiteral(role)
                  /\ Known(EnvOf(f).data, o)
                  /\ Fits(Literal(EnvOf(f).data, o),
                          CASE role = "word" -> "Word" [] role = "byte" -> "Byte"
                            [] OTHER -> first)
HasForm(f, k) ==
    LET ops == OperandsOf(f, k)
        Kind(j) == IF ops[j].kind = "reg" THEN CPU!reg_ref_type(ops[j].ref) ELSE "literal"
    IN  \E ins \in Range(CPU!Instructions) :
          /\ ins.op = f.src.instrs[k].op
          /\ Len(ins.roles) = Len(ops)
          /\ \A j \in DOMAIN ops :
               OperandHasRole(f, ops[j], ins.roles[j], Kind(1), Kind(IF j = 1 THEN Len(ops) ELSE 1))

(* An item without bytes at the end of the object file *)
TrailingEmpty(f) ==
    \E d \in Range(f.src.data) : 
       /\ DataSize(d) = 0
       /\ \A e \in Range(f.src.data) : 
            DataSize(e) > 0 => IF e.mutable = d.mutable THEN Before(e.name, d.name) ELSE d.mutable

SizeOfFile(f) ==
    FoldLeft(LAMBDA a, d : a + DataSize(d), 0, f.src.data)
    + Len(Code(EnvOf(f), f.src.instrs).code)

WellFormed ==
    /\ \A f \in Files :
         /\ New(f.src, Extra(f))
         /\ \A k \in DOMAIN f.src.instrs : HasForm(f, k)
         /\ SizeOfFile(f) > 0
         /\ ~TrailingEmpty(f)
         /\ \A n \in External(f) : Definers(n) # {}
         /\ \A n \in Public(f) : Definers(n) = {f}
         /\ project.target = "ROM" => \A d \in Range(f.src.data) : ~d.mutable \/ DataSize(d) = 0
    /\ Cardinality({f \in Files : f.entry /\ f.src.instrs # <<>>}) = 1
    /\ project.target = "ROM" => MapThenSumSet(SizeOfFile, Files) <= ROM_SIZE

(***************************************************************************)
(* The tools produce an image exactly for a well-formed project: every     *)
(* instruction has a form the CPU implements, every name has exactly one   *)
(* meaning, one file has the entry point, and the target holds it.  The    *)
(* orders in which the linker's HashMaps are visited change nothing.       *)
(***************************************************************************)
AcceptedIffWellFormed ==
    pc = "done" /\ project.raw = <<>> /\ result.outcome # "panic"
        => (result.outcome = "image" <=> WellFormed)

(* What makes a tool panic: a name that is too long, a file too large for  *)
(* its format, the sizeof of something unknown as a word operand, a report *)
(* about a constant of another file, two files that refer to a symbol      *)
(* before one defines it, and, in foreign object files, a reference that   *)
(* leaves its section or overlaps another.                                 *)
TooLong(f) == \E n \in Defined(f) \cup UsedNames(f) : Len(n) > MaxName
TooLargeFile(f) ==
    /\ New(f.src, Extra(f))
    /\ \E env \in {EnvOf(f)} : TooLarge(env, Code(env, f.src.instrs), f.entry)
UnknownSizeof(f) ==
    \E k \in DOMAIN f.src.instrs : \E o \in Range(OperandsOf(f, k)) :
       o.kind = "sizeof" /\ ~Known(EnvOf(f).data, o)
ForeignSpan(f) ==
    \E c \in Range(Extra(f)) : ~IsUppercase(c.name) \/ c.name \in NamesOf(f.src.consts)
Parsed == [k \in DOMAIN order |-> Silk!ParseFile(order[k].file)]
TypesOf(f, n) == {s.type : s \in {t \in Range(f.symbols) : t.name = n}}
TwoExternals ==
    \E fs \in {Parsed} : \E i, j \in DOMAIN fs : i < j /\
       \E n \in NamesOf(fs[j].symbols) :
          /\ SYMBOL_TYPE_EXTERNAL \in TypesOf(fs[i], n) \cap TypesOf(fs[j], n)
          /\ \A k \in 1..j : SYMBOL_TYPE_PUBLIC \notin TypesOf(fs[k], n)
Overlaps(f) ==
    \E j, i \in DOMAIN f.symbols : \E r \in DOMAIN f.symbols[j].refs, q \in DOMAIN f.symbols[i].refs :
       <<j, r>> # <<i, q>> /\ f.symbols[j].refs[r] - f.symbols[i].refs[q] \in 0..3
LeavesSection(f) ==
    \E j \in DOMAIN f.symbols, c \in DOMAIN f.sections : \E r \in DOMAIN f.symbols[j].refs :
       f.sections[c].start + f.sections[c].length - (f.symbols[j].refs[r] - f.start) \in 1..3
BadReference(file) == \E f \in {Silk!ParseFile(file)} : Overlaps(f) \/ LeavesSection(f)

(* A panic of one of the tools has one of the causes above: no other       *)
(* source file, and no order of the HashMaps, reaches an unwrap, an        *)
(* assertion, an unreachable!() or the "BUG: an invalid reference escaped  *)
(* the parsing stage" of the linker.                                       *)
PanicsExplained ==
    result.outcome = "panic" =>
        \/ \E f \in Files : TooLong(f) \/ TooLargeFile(f) \/ UnknownSizeof(f) \/ ForeignSpan(f)
        \/ TwoExternals
        \/ \E k \in DOMAIN project.raw : BadReference(project.raw[k].file)

-----------------------------------------------------------------------------
(***************************************************************************)
(* Where the code of a file lies in the image.  The entry code comes       *)
(* first, then everything else in the order of linking.                    *)
(***************************************************************************)
CodeStart(f) ==
    LET Position(g) == CHOOSE k \in DOMAIN order : order[k].id = g.id
        entry == CHOOSE g \in Files : g.entry /\ g.src.instrs # <<>>
        earlier == {g \in Files : Position(g) < Position(f)}
        CodeSize(g) == Len(Code(EnvOf(g), g.src.instrs).code)
    IN  IF f = entry THEN 0
        ELSE MapThenSumSet(SizeOfFile, earlier)
             + IF entry \in earlier THEN 0 ELSE CodeSize(entry)

(* The address at which the CPU, decoding from the start of a file's code, *)
(* meets its instructions.                                                 *)
InstructionAt(f) ==
    LET at[k \in 1..(Len(f.src.instrs) + 1)] ==
          IF k = 1 THEN CodeStart(f)
          ELSE at[k - 1] + CPU!Decode(result.image, at[k - 1] + 1).length
    IN  at

base == IF project.target = "ROM" THEN Silk!ROM_BASE ELSE Silk!DISK_BASE
Offset(bytes) == Silk!ReadU32(bytes, 0) - base

(* The bytes of an operand in the image, against the operand written *)
OperandAsWritten(f, o, arg) ==
    CASE o.kind = "reg" -> ~arg.literal /\ arg.bytes = <<o.ref>>
      [] IsLiteral(o) -> arg.literal /\ arg.bytes = BE(Literal(EnvOf(f).data, o).value,
                                                       Len(arg.bytes))
      [] o.kind = "name" ->
           LET g == Home(f, o.name)
               env == EnvOf(g)
           IN  /\ arg.literal
               /\ IF o.name \in DOMAIN env.labels
                    THEN Offset(arg.bytes) = InstructionAt(g)[env.labels[o.name].at]
                    ELSE SubSeq(result.image, Offset(arg.bytes) + 1,
                                Offset(arg.bytes) + env.data[o.name].size)
                           = env.data[o.name].initialiser

TimerOfSymbol ==
    \E f \in Files : \E k \in DOMAIN f.src.instrs :
       f.src.instrs[k].op = "timer" /\ OperandsOf(f, k)[1].kind = "name"

InstructionsAsWritten ==
    \A f \in Files : \A k \in DOMAIN f.src.instrs :
       LET d == CPU!Decode(result.image, InstructionAt(f)[k] + 1)
       IN  /\ d.op = f.src.instrs[k].op
           /\ \A j \in DOMAIN d.args : OperandAsWritten(f, OperandsOf(f, k)[j], d.args[j])

(***************************************************************************)
(* The CPU, started at the first byte of the image, finds the instructions *)
(* the sources write, each with its operands; a label is the address of    *)
(* its instruction and a data name that of its initial value, for the      *)
(* definition the source means, whatever was renamed and moved on the way. *)
(* Excepted: TIMER with a symbol (see TimerTakesSymbol).                   *)
(***************************************************************************)
ExecutesAsWritten ==
    result.outcome = "image" /\ project.raw = <<>> /\ ~TimerOfSymbol => InstructionsAsWritten

(* Different data items that the program refers to never share a byte of   *)
(* the image, with each other or with the code.                            *)
DataSeparate ==
    result.outcome = "image" /\ project.raw = <<>> /\ ~TimerOfSymbol =>
        LET Operand(u) == OperandsOf(u[1], u[2])[u[3]]
            Uses == {u \in UNION {{f} \X (DOMAIN f.src.instrs) \X (1..3) : f \in Files} :
                       /\ u[3] \in DOMAIN u[1].src.instrs[u[2]].operands
                       /\ Operand(u).kind = "name"
                       /\ Operand(u).name \in NamesOf(Home(u[1], Operand(u).name).src.data)}
            Item(u) == LET n == Operand(u).name
                       IN  [file |-> Home(u[1], n).id, name |-> n,
                            size |-> EnvOf(Home(u[1], n)).data[n].size,
                            at |-> Offset(CPU!Decode(result.image, InstructionAt(u[1])[u[2]] + 1)
                                            .args[u[3]].bytes)]
            Bytes(i) == i.at..(i.at + i.size - 1)
            items == {Item(u) : u \in Uses}
        IN  /\ \A i, j \in items :
                 IF i.file = j.file /\ i.name = j.name THEN i = j
                                                       ELSE Bytes(i) \cap Bytes(j) = {}
            /\ \A i \in items, f \in Files :
                 Bytes(i) \cap (CodeStart(f)..(InstructionAt(f)[Len(f.src.instrs) + 1] - 1)) = {}

(***************************************************************************)
(* Every reference the linker still has to write lies in one section, with *)
(* its four bytes, and every value in some section: what add_objects and   *)
(* the relocation of the entry section must preserve for link_as_image to  *)
(* find the place of every reference.                                      *)
(***************************************************************************)
Now(a) == IF pc = "resolve" THEN Silk!Relocate(a, move.cutoff, move.offset) ELSE a
AddressesValid ==
    pc \in {"combine", "resolve"} =>
        \A e \in Range(table) \cup Range(pending) :
          /\ e.value # Silk!None => Now(e.value) \in 0..(Silk!SectionsEnd(sections) - 1)
          /\ \A k \in DOMAIN e.refs :
               LET s == Silk!Find(sections, Now(e.refs[k]))
               IN  /\ s # 0
                   /\ Now(e.refs[k]) + 3 < sections[s].start + sections[s].length

(* "A constant, label, or static data name can be used anywhere a literal  *)
(* is expected": TIMER executes as written with a symbol too.              *)
TimerTakesSymbol ==
    result.outcome = "image" /\ project.raw = <<>> => InstructionsAsWritten

(* The unreachable!() of add_objects is not reached by files that salt has *)
(* assembled.                                                              *)
MergeNeverPanics ==
    result.outcome = "panic" => order = <<>> \/ project.raw # <<>>

-----------------------------------------------------------------------------
(***************************************************************************)
(* The types of the object files: whatever the sources, salt's output is a *)
(* string of bytes, every number in it cut to its width.                   *)
(***************************************************************************)
ObjectsAreBytes == objects \in Seq(Linkable)

(* The inductive invariant behind it: the files still to be assembled, the *)
(* constants of those before them, and the object files written.           *)
AssembleInv ==
    /\ ObjectsAreBytes
    /\ pc = "assemble" => todo \in Seq(SourceFile) /\ consts \in Seq(ConstNode)

(***************************************************************************)
(* The inductive invariant behind AddressesValid.                          *)
(***************************************************************************)
(* The sections lie one after the other, from address 0. *)
Layout(ss) ==
    /\ ss \in Seq(Range(ss))
    /\ \A k \in DOMAIN ss : /\ {"start", "length"} \subseteq DOMAIN ss[k]
                            /\ ss[k].start \in Nat /\ ss[k].length \in Nat
                            /\ ss[k].start = IF k = 1 THEN 0 ELSE ss[k - 1].start + ss[k - 1].length
    /\ \A j, k \in DOMAIN ss : j < k => ss[j].start + ss[j].length <= ss[k].start

(* A symbol of the linker, and where the four bytes at an address lie *)
Symbol == [type : Range(Silk!SYMBOL_TYPE), value : Int, refs : Seq(Int)]
Inside(ss, a) == \E k \in DOMAIN ss : ss[k].start <= a /\ a + 3 < ss[k].start + ss[k].length

(* Its value and its references are where they should be now. *)
Placed(e) ==
    /\ e \in Symbol
    /\ e.value # Silk!None => Now(e.value) \in 0..(Silk!SectionsEnd(sections) - 1)
    /\ \A k \in DOMAIN e.refs : Inside(sections, Now(e.refs[k]))

(* The files still to be read are bytes, the sections lie one after the    *)
(* other, and every symbol is in its place, before and after the entry     *)
(* section has moved by move.                                              *)
LinkInv ==
    /\ project.raw \in Seq(Linkable)
    /\ move.cutoff \in Nat /\ move.offset \in Nat /\ move.base \in Nat
    /\ pc = "assemble" => sections = <<>> /\ table = <<>> /\ pending = <<>>
    /\ pc = "combine" => todo \in Seq(Linkable)
    /\ pc \in {"combine", "resolve"} =>
         Layout(sections) /\ \A e \in Range(table) \cup Range(pending) : Placed(e)
=============================================================================
