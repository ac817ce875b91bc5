-------------------------------- MODULE Salt --------------------------------
(***************************************************************************)
(* The assembler's code generator: from the declarations, labels and       *)
(* instructions of one source file to an object file.                      *)
(*                                                                         *)
(* A name is a sequence of character codes.  An operand is a register, a   *)
(* literal, a sizeof or a name.  An object file keeps the fields of the    *)
(* SIMOBJ format without their encoding; the bytes of its sections, and    *)
(* all offsets into the file, are the real ones.                           *)
(***************************************************************************)
EXTENDS Integers, Sequences, TLC, SequencesExt, FiniteSetsExt

CONSTANTS
    MaxName,     \* the length of the longest symbol name of the object format: 255
    MaxNumber    \* the greatest number of the object format: 2^32 - 1

ASSUME MaxNameAssumption == MaxName \in 1..255
ASSUME MaxNumberAssumption == MaxNumber \in Nat /\ MaxNumber \div 65536 < 65536

Powers == <<1, 256, 65536, 16777216>>

(* Mutant: numbers are not cut to bytes. *)
BEUncut(v, n) == [k \in 1..n |-> v \div Powers[n - k + 1]]

(* v as n bytes, up to 4, in big-endian order, in two's complement *)
BE(v, n) == [k \in 1..n |-> (v \div Powers[n - k + 1]) % 256]
Zeros(n) == [k \in 1..n |-> 0]

(* The elements of s whose place is in T (the provers cannot expand SelectSeq) *)
Selected(s, T) == FlattenSeq([k \in DOMAIN s |-> IF k \in T THEN <<s[k]>> ELSE <<>>])

minimum_reg_type(v) ==
    CASE v \in -128..255 -> "Byte"
      [] v \in -32768..65535 /\ v \notin -128..255 -> "Half"
      [] OTHER -> "Word"

Reg(r) == [kind |-> "reg", ref |-> r]
Name(n) == [kind |-> "name", name |-> n]
Lit(v) == [kind |-> "lit", value |-> v, min |-> minimum_reg_type(v)]
Float(bits) == [kind |-> "lit", value |-> bits, min |-> "Float"]
Sizeof(n) == [kind |-> "sizeof", name |-> n]

(* get_reg_ref, for the reference of a register *)
RegisterType(r) ==
    CASE r \in (0..7) \cup (\h21..\h23) \cup {\h25} -> "Word"
      [] r \in (8..15) \cup {\h20, \h24} -> "Half"
      [] r \in 16..23 -> "Byte"
      [] r \in 24..31 -> "Float"

-----------------------------------------------------------------------------
(***************************************************************************)
(* Initialisers of data: the values in order, and the length of each       *)
(* dimension.  An array takes the largest length of its children in each   *)
(* dimension, and their values one after the other.                        *)
(***************************************************************************)
Single(l) == [values |-> <<l>>, dims |-> <<1>>]
String(s) == [values |-> [k \in 1..Len(s) |-> Lit(s[k])], dims |-> <<Len(s), 1>>]
Array(children) ==
    LET n == Max({1} \cup {Len(children[k].dims) : k \in DOMAIN children}) + 1
        Dim(c, i) == IF i <= Len(c.dims) THEN c.dims[i] ELSE 1
    IN  [values |-> FlattenSeq([k \in DOMAIN children |-> children[k].values]),
         dims |-> [i \in 1..n |-> IF i = 1 THEN Len(children) ELSE
                     Max({1} \cup {Dim(children[k], i - 1) : k \in DOMAIN children})]]

Inferred == -1    \* the length of a dimension written as ".."

(* resolve_literal: the value of a literal, none if it is the sizeof of    *)
(* something that is not in the table of data.                             *)
Known(data, l) == l.kind = "sizeof" => l.name \in DOMAIN data
Literal(data, l) == IF l.kind = "sizeof" THEN Lit(data[l.name].size) ELSE l

(* value_as_byte, value_as_half, value_as_word, value_as_float *)
Fits(l, type) ==
    CASE type = "Byte" -> l.min = "Byte"
      [] type = "Half" -> l.min \in {"Byte", "Half"}
      [] OTHER -> TRUE
Size == [Byte |-> 1, Half |-> 2, Word |-> 4, Float |-> 4]

(* add_data.  Nothing is added where the code reports an error. *)
Dimensions(d) ==
    [i \in 1..Len(d.init.dims) |-> IF i > Len(d.dims) \/ d.dims[i] = Inferred
                                     THEN d.init.dims[i] ELSE d.dims[i]]
DataSize(d) ==
    LET size[k \in 0..Len(Dimensions(d))] ==
          IF k = 0 THEN Size[d.type] ELSE size[k - 1] * Dimensions(d)[k]
    IN  size[Len(Dimensions(d))]
InitialiserFits(data, d) ==
    /\ Len(d.init.dims) = Len(d.dims) + 1
    /\ \A i \in DOMAIN d.dims : d.dims[i] = Inferred \/ d.init.dims[i] <= d.dims[i]
    /\ \A k \in DOMAIN d.init.values :
         LET l == d.init.values[k] IN Known(data, l) /\ Fits(Literal(data, l), d.type)
Initialiser(data, d) ==
    LET bytes == FlattenSeq([k \in DOMAIN d.init.values |->
                     BE(Literal(data, d.init.values[k]).value, Size[d.type])])
    IN  bytes \o Zeros(DataSize(d) - Len(bytes))
AddData(data, d) ==
    [n \in DOMAIN data \cup {d.name} |->
       IF n = d.name THEN [public |-> d.public, mutable |-> d.mutable, size |-> DataSize(d),
                           initialiser |-> Initialiser(data, d)]
                     ELSE data[n]]

(* The table of data, up to the first declaration that has an error *)
Declare(t, d) ==
    IF t.ok /\ InitialiserFits(t.data, d) THEN [ok |-> TRUE, data |-> AddData(t.data, d)]
                                          ELSE [t EXCEPT !.ok = FALSE]
DataTable(decls) ==
    LET after[k \in 0..Len(decls)] ==
          IF k = 0 THEN [ok |-> TRUE, data |-> <<>>] ELSE Declare(after[k - 1], decls[k])
    IN  after[Len(decls)]

NamesOf(decls) == {decls[k].name : k \in DOMAIN decls}

(* CodeGenerator::new: declarations without errors, and no name declared   *)
(* twice.  extra are the public constants of files assembled before.       *)
Declarations(src, extra) == src.consts \o extra \o src.data \o src.labels
NoClash(src, extra) ==
    Cardinality(NamesOf(Declarations(src, extra))) = Len(Declarations(src, extra))
New(src, extra) ==
    /\ DataTable(src.data).ok
    /\ \A k \in DOMAIN src.labels : src.labels[k].at <= Len(src.instrs)
    /\ NoClash(src, extra)

ByName(decls) == [n \in NamesOf(decls) |-> CHOOSE d \in Range(decls) : d.name = n]

-----------------------------------------------------------------------------
(***************************************************************************)
(* The addressing modes: what each operand may be.                         *)
(*   "any"   a register                    "int"   one that is no float    *)
(*   "word"  a word literal, a symbol or a word register                   *)
(*   "byte"  a byte literal or a byte register                             *)
(*   "same"  a literal, symbol or register of the type of the first        *)
(*   "wf"    a word or float register      "fw"    the other of the two    *)
(***************************************************************************)
i_none == <<>>
i_w == <<"word">>
i_BHWF_a == <<"any", "word">>
i_a_BHWF == <<"word", "any">>
i_BHWF_bhwf == <<"any", "same">>
i_BHWF == <<"any">>
i_w_a_a == <<"word", "word", "word">>
i_w_a_b == <<"word", "word", "byte">>
i_WF_WF == <<"wf", "fw">>
i_BHW_bhw == <<"int", "same">>
i_BHW == <<"int">>
i_BHW_b == <<"int", "byte">>
i_a == <<"word">>

Def(mode, opcode) == [mode |-> mode, opcode |-> opcode]

Opcodes ==
   [halt |-> Def(i_none, \h00), pause |-> Def(i_none, \h01), timer |-> Def(i_w, \h02),
    usermode |-> Def(i_none, \h04), ireturn |-> Def(i_none, \h05),
    load |-> Def(i_BHWF_a, \h06), store |-> Def(i_a_BHWF, \h08),
    copy |-> Def(i_BHWF_bhwf, \h0A), swap |-> Def(i_BHWF_a, \h0C),
    push |-> Def(i_BHWF, \h0E), pop |-> Def(i_BHWF, \h0F),
    blockcopy |-> Def(i_w_a_a, \h10), blockset |-> Def(i_w_a_b, \h18),
    negate |-> Def(i_BHWF, \h20), add |-> Def(i_BHWF_bhwf, \h21),
    addcarry |-> Def(i_BHW_bhw, \h23), sub |-> Def(i_BHWF_bhwf, \h25),
    subborrow |-> Def(i_BHW_bhw, \h27), mult |-> Def(i_BHWF_bhwf, \h29),
    sdiv |-> Def(i_BHWF_bhwf, \h2B), udiv |-> Def(i_BHW_bhw, \h2D),
    srem |-> Def(i_BHWF_bhwf, \h2F), urem |-> Def(i_BHW_bhw, \h31),
    not |-> Def(i_BHW, \h33), and |-> Def(i_BHW_bhw, \h34), or |-> Def(i_BHW_bhw, \h36),
    xor |-> Def(i_BHW_bhw, \h38), lshift |-> Def(i_BHW_b, \h3A),
    srshift |-> Def(i_BHW_b, \h3C), urshift |-> Def(i_BHW_b, \h3E),
    lrot |-> Def(i_BHW_b, \h40), rrot |-> Def(i_BHW_b, \h42),
    lrotcarry |-> Def(i_BHW_b, \h44), rrotcarry |-> Def(i_BHW_b, \h46),
    jump |-> Def(i_a, \h48), compare |-> Def(i_BHWF_bhwf, \h4A),
    blockcmp |-> Def(i_w_a_a, \h4C), jequal |-> Def(i_a, \h54),
    jnotequal |-> Def(i_a, \h56), sjgreater |-> Def(i_a, \h58),
    sjgreatereq |-> Def(i_a, \h5A), ujgreater |-> Def(i_a, \h5C),
    ujgreatereq |-> Def(i_a, \h5E), sjlesser |-> Def(i_a, \h60),
    sjlessereq |-> Def(i_a, \h62), ujlesser |-> Def(i_a, \h64),
    ujlessereq |-> Def(i_a, \h66), call |-> Def(i_a, \h68),
    return |-> Def(i_none, \h6A), syscall |-> Def(i_none, \h6B),
    sconvert |-> Def(i_WF_WF, \h6C), uconvert |-> Def(i_WF_WF, \h6D)]

(***************************************************************************)
(* What resolve_operand finds: a register, a literal (a constant is        *)
(* replaced by its value) or a symbol.  env has the tables of the file:    *)
(* env.consts, env.data and env.labels.                                    *)
(***************************************************************************)
Resolve(env, o) ==
    CASE o.kind # "name" -> o
      [] o.kind = "name" /\ o.name \in DOMAIN env.consts -> env.consts[o.name].value
      [] OTHER -> o

IsLiteral(o) == o.kind \in {"lit", "sizeof"}

(* The type a literal must fit, for an operand of this class *)
LiteralType(class, first) ==
    CASE class = "word" -> "Word" [] class = "byte" -> "Byte" [] OTHER -> first

AcceptsRegister(class, type, first) ==
    CASE class = "any" -> TRUE
      [] class = "int" -> type # "Float"
      [] class = "word" -> type = "Word"
      [] class = "byte" -> type = "Byte"
      [] class = "same" -> type = first
      [] class = "wf" -> type \in {"Word", "Float"}
      [] class = "fw" -> {type, first} = {"Word", "Float"}

AcceptsOperand(env, class, o, first) ==
    CASE o.kind = "reg" -> AcceptsRegister(class, RegisterType(o.ref), first)
      [] o.kind = "name" -> class = "word" \/ (class = "same" /\ first = "Word")
      [] OTHER -> /\ class \in {"word", "byte", "same"}
                  /\ Known(env.data, o)
                  /\ Fits(Literal(env.data, o), LiteralType(class, first))

(***************************************************************************)
(* One operand, after those before it.  The address of a symbol is left    *)
(* zero, with a reference to it; the reference is there even if the        *)
(* operand is then rejected.  value_as_word(...).unwrap() panics when a    *)
(* literal that is used as a word is the sizeof of something unknown.      *)
(***************************************************************************)
AddOperand(env, class, o, first, st) ==
    LET ok == AcceptsOperand(env, class, o, first)
    IN  IF ~st.ok THEN st ELSE
        CASE o.kind = "name" ->
               [st EXCEPT !.refs = Append(@, [name |-> o.name, at |-> Len(st.code)]),
                          !.code = @ \o Zeros(4), !.ok = ok]
          [] o.kind = "reg" /\ ok -> [st EXCEPT !.code = Append(@, o.ref)]
          [] IsLiteral(o) /\ ok ->
               [st EXCEPT !.code = @ \o BE(Literal(env.data, o).value,
                                           Size[LiteralType(class, first)])]
          [] OTHER -> [st EXCEPT !.ok = FALSE,
                         !.panic = IsLiteral(o) /\ class = "word" /\ ~Known(env.data, o)]

Operands(env, mode, operands, st) ==
    LET first == IF Len(operands) > 0 /\ operands[1].kind = "reg"
                   THEN RegisterType(operands[1].ref) ELSE "Word"
        after[k \in 0..Len(operands)] ==
          IF k = 0 THEN st ELSE AddOperand(env, mode[k], operands[k], first, after[k - 1])
    IN  after[Len(operands)]

(* Mutant: the first operand is the least significant digit. *)
ChoiceReversed(mode, operands) ==
    FoldLeftDomain(LAMBDA c, k : IF mode[k] \in {"word", "byte", "same"} /\ operands[k].kind = "reg"
                                   THEN c + 2^(k - 1) ELSE c,
                   0, operands)

(* Which of the opcodes of an instruction: one binary digit for each       *)
(* operand that may be a literal or a register.                            *)
Choice(mode, operands) ==
    LET choice[k \in 0..Len(mode)] ==
          IF k = 0 THEN 0
          ELSE IF mode[k] \notin {"word", "byte", "same"} THEN choice[k - 1]
          ELSE 2 * choice[k - 1] + IF operands[k].kind = "reg" THEN 1 ELSE 0
    IN  choice[Len(mode)]

(***************************************************************************)
(* codegen_instruction.  The opcode is written first, as a placeholder     *)
(* until the operands are known.  i_w (timer alone) has no placeholder: it *)
(* writes the opcode when it has resolved its operand, and the address of  *)
(* a symbol is by then already written.                                    *)
(***************************************************************************)
InsertOpcode(st, pos, opcode) == IF st.ok THEN [st EXCEPT !.code = InsertAt(@, pos, opcode)] ELSE st
SetOpcode(st, pos, opcode) == IF st.ok THEN [st EXCEPT !.code[pos] = opcode] ELSE st

Emit(env, op, def, operands, st) ==
    LET opcode == def.opcode + Choice(def.mode, operands)
        pos == Len(st.code) + 1
    IN  CASE Len(operands) # Len(def.mode) -> [st EXCEPT !.ok = FALSE]
          [] Len(operands) = Len(def.mode) /\ op = "timer" ->
               InsertOpcode(Operands(env, def.mode, operands, st),
                            IF operands[1].kind = "name" THEN pos + 4 ELSE pos, opcode)
          [] OTHER ->
               SetOpcode(Operands(env, def.mode, operands, [st EXCEPT !.code = Append(@, 0)]),
                         pos, opcode)

Instruction(env, ins, st) ==
    IF ins.op \notin DOMAIN Opcodes THEN [st EXCEPT !.ok = FALSE]
    ELSE Emit(env, ins.op, Opcodes[ins.op],
              [k \in DOMAIN ins.operands |-> Resolve(env, ins.operands[k])], st)

(* The loop over the instructions.  One that has an error leaves what it   *)
(* wrote and the loop goes on; starts has where each instruction begins.   *)
NoteFailure(st) == [st EXCEPT !.failed = @ \/ ~st.ok]
NoCode == [code |-> <<>>, refs |-> <<>>, starts |-> <<>>, ok |-> TRUE, failed |-> FALSE,
           panic |-> FALSE]
AddInstruction(env, ins, st) ==
    IF st.panic THEN st ELSE
    NoteFailure(Instruction(env, ins, [st EXCEPT !.ok = TRUE, !.starts = Append(@, Len(st.code))]))
Code(env, instrs) ==
    LET after[k \in 0..Len(instrs)] ==
          IF k = 0 THEN NoCode ELSE AddInstruction(env, instrs[k], after[k - 1])
    IN  after[Len(instrs)]

-----------------------------------------------------------------------------
(***************************************************************************)
(* The object file: header, symbol table, section headers, sections.       *)
(***************************************************************************)
MAGIC_HEADER == <<83, 73, 77, 79, 66, 74>>    \* "SIMOBJ"
ABI_VERSION == 1
SYMBOL_TYPE_INTERNAL == 73
SYMBOL_TYPE_PUBLIC == 80
SYMBOL_TYPE_EXTERNAL == 69
FLAG_ENTRYPOINT == 1
FLAG_READ == 4
FLAG_WRITE == 8
FLAG_EXECUTE == 16
SIMOBJ_HEADER_LEN == 16
SYMBOL_HEADER_LEN == 10
SECTION_HEADER_LEN == 5

(* The order of names as strings *)
Before(a, b) ==
    \/ IsStrictPrefix(a, b)
    \/ \E i \in DOMAIN a \cap DOMAIN b : /\ a[i] < b[i]
                                         /\ \A j \in 1..(i - 1) : a[j] = b[j]

(* The names S in that order: each where as many come before it *)
Sorted(S) ==
    [k \in 1..Cardinality(S) |->
       CHOOSE n \in S : Cardinality({m \in S : Before(m, n)}) = k - 1]

References(gen, n) == Selected(gen.refs, {k \in DOMAIN gen.refs : gen.refs[k].name = n})
Symbols(env, gen) ==
    DOMAIN env.data \cup DOMAIN env.labels \cup {gen.refs[k].name : k \in DOMAIN gen.refs}

(* SymbolTable::stats *)
Total(sizes) ==
    LET sum[k \in 0..Len(sizes)] == IF k = 0 THEN 0 ELSE sum[k - 1] + sizes[k]
    IN  sum[Len(sizes)]
TableSize(env, gen) ==
    LET names == Sorted(Symbols(env, gen))
    IN  Total([k \in DOMAIN names |-> SYMBOL_HEADER_LEN + Len(names[k])
                                        + 4 * Len(References(gen, names[k]))])
DataNames(env, mutable) == Sorted({n \in DOMAIN env.data : env.data[n].mutable = mutable})
SizeOfAll(env, names) == Total([k \in DOMAIN names |-> env.data[names[k]].size])

(* The sections, those without bytes included *)
AllSections(env, gen, entry) ==
    LET Bytes(mutable) == FlattenSeq([k \in DOMAIN DataNames(env, mutable) |->
                              env.data[DataNames(env, mutable)[k]].initialiser])
    IN  << [flags |-> FLAG_EXECUTE + IF entry THEN FLAG_ENTRYPOINT ELSE 0, data |-> gen.code],
           [flags |-> FLAG_READ, data |-> Bytes(FALSE)],
           [flags |-> FLAG_READ + FLAG_WRITE, data |-> Bytes(TRUE)] >>
Sections(env, gen, entry) ==
    LET all == AllSections(env, gen, entry) IN Selected(all, {k \in 1..3 : Len(all[k].data) > 0})

(* Where the first section begins: instruction_base *)
Base(env, gen, entry) ==
    SIMOBJ_HEADER_LEN + TableSize(env, gen) + SECTION_HEADER_LEN * Len(Sections(env, gen, entry))

(* The data that lie before n among those of its kind *)
Earlier(env, n) ==
    LET names == DataNames(env, env.data[n].mutable)
    IN  Selected(names, {k \in DOMAIN names : Before(names[k], n)})

(* Mutant: both kinds of data are laid out from the same address. *)
DataOffsetFromCode(env, n) == SizeOfAll(env, Earlier(env, n))

(* The type and the value of a symbol.  Data are laid out in the order of  *)
(* their names, read-only before read-write.                               *)
Type(env, n) ==
    IF n \in DOMAIN env.data
      THEN IF env.data[n].public THEN SYMBOL_TYPE_PUBLIC ELSE SYMBOL_TYPE_INTERNAL
      ELSE IF n \notin DOMAIN env.labels THEN SYMBOL_TYPE_EXTERNAL
      ELSE IF env.labels[n].public THEN SYMBOL_TYPE_PUBLIC ELSE SYMBOL_TYPE_INTERNAL
DataOffset(env, n) ==
    SizeOfAll(env, Earlier(env, n))
    + IF env.data[n].mutable THEN SizeOfAll(env, DataNames(env, FALSE)) ELSE 0
Value(env, gen, entry, n) ==
    CASE n \in DOMAIN env.data ->
           Base(env, gen, entry) + Len(gen.code) + DataOffset(env, n)
      [] n \in DOMAIN env.labels ->
           Base(env, gen, entry) + gen.starts[env.labels[n].at]
      [] OTHER -> 0

SymbolEntry(type, value, name, refs) ==
    <<type>> \o BE(value, 4) \o <<Len(name)>> \o name \o BE(Len(refs), 4)
        \o FlattenSeq([k \in DOMAIN refs |-> BE(refs[k], 4)])
Simobj(env, gen, entry) ==
    LET names == Sorted(Symbols(env, gen))
        sections == Sections(env, gen, entry)
        base == Base(env, gen, entry)
        Refs(n) == [k \in DOMAIN References(gen, n) |-> base + References(gen, n)[k].at]
    IN  MAGIC_HEADER \o BE(ABI_VERSION, 2) \o BE(Len(names), 4) \o BE(Len(sections), 4)
        \o FlattenSeq([k \in DOMAIN names |->
             SymbolEntry(Type(env, names[k]), Value(env, gen, entry, names[k]), names[k],
                         Refs(names[k]))])
        \o FlattenSeq([k \in DOMAIN sections |->
             <<sections[k].flags>> \o BE(Len(sections[k].data), 4)])
        \o FlattenSeq([k \in DOMAIN sections |-> sections[k].data])

(***************************************************************************)
(* CodeGenerator::run on a file whose declarations are right.  A name that *)
(* is too long is an error, but its entry of the symbol table is then      *)
(* incomplete and the check of the file's length panics; so does the       *)
(* conversion of a number that has no room in its field.                   *)
(***************************************************************************)
Numbers(env, gen, entry) ==
    LET base == Base(env, gen, entry)
        code == base + Len(gen.code)
    IN  {Cardinality(Symbols(env, gen)), base, code, code + SizeOfAll(env, DataNames(env, FALSE))}
        \cup {Len(References(gen, n)) : n \in Symbols(env, gen)}
        \cup {Len(AllSections(env, gen, entry)[k].data) : k \in 1..3}
TooLarge(env, gen, entry) == \E v \in Numbers(env, gen, entry) : v > MaxNumber

Env(src, extra) ==
    [consts |-> ByName(src.consts \o extra), data |-> DataTable(src.data).data,
     labels |-> ByName(src.labels)]
ObjectFile(env, gen, entry) ==
    LET Named == \A n \in Symbols(env, gen) : Len(n) <= MaxName
        Empty == Sections(env, gen, entry) = <<>>
    IN  CASE gen.panic \/ (~Empty /\ (~Named \/ TooLarge(env, gen, entry))) ->
               [outcome |-> "panic", simobj |-> <<>>]
          [] ~gen.panic /\ (Empty \/ (Named /\ ~TooLarge(env, gen, entry) /\ gen.failed)) ->
               [outcome |-> "error", simobj |-> <<>>]
          [] OTHER -> [outcome |-> "ok", simobj |-> Simobj(env, gen, entry)]
Generate(env, instrs, entry) == ObjectFile(env, Code(env, instrs), entry)
Run(src, extra, entry) == Generate(Env(src, extra), src.instrs, entry)
=============================================================================
