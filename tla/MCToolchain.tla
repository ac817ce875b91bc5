---------------------------- MODULE MCToolchain ----------------------------
(***************************************************************************)
(* Small projects for the toolchain: one file with each instruction and    *)
(* operands of every kind, several files that share names, and object      *)
(* files that salt does not write.                                         *)
(***************************************************************************)
EXTENDS Linking

(* Names: a, b, x, x0, K, l (in lower case) and one that is too long *)
a == <<97>>
b == <<98>>
x == <<120>>
x0 == <<120, 48>>
K == <<75>>
low == <<108>>
long == <<97, 97, 97, 97>>

Ins(op, operands) == [op |-> op, operands |-> operands]
Halt == Ins("halt", <<>>)
Const(n, public, v) == [name |-> n, public |-> public, value |-> v]
Label(n, public, at) == [name |-> n, public |-> public, at |-> at]
Data(n, public, mutable, type, dims, init) ==
    [name |-> n, public |-> public, mutable |-> mutable, type |-> type, dims |-> dims,
     init |-> init]
Source(cs, ds, ls, is) == [consts |-> cs, data |-> ds, labels |-> ls, instrs |-> is]

File(id, entry, src) == [id |-> id, entry |-> entry, src |-> src]
Project(files, target) == [files |-> files, raw |-> <<>>, target |-> target]

-----------------------------------------------------------------------------
(* One instruction between two others, in a file with a constant, data and *)
(* a label.                                                                *)
One(op, operands) ==
    Project(<<File(1, TRUE,
              Source(<<Const(K, FALSE, Lit(7))>>,
                     <<Data(b, FALSE, FALSE, "Byte", <<Inferred>>, String(<<1, 2>>))>>,
                     <<Label(a, FALSE, 3)>>,
                     <<Halt, Ins(op, operands), Halt>>))>>, "DISK")

FewOperands == {Reg(1), Reg(16), Lit(5), Lit(300), Name(b), Sizeof(x)}
AllOperands ==
    {Reg(1), Reg(9), Reg(16), Reg(24), Reg(36), Reg(37), Lit(5), Lit(-2), Lit(300), Lit(70000),
     Float(16256), Name(a), Name(b), Name(K), Name(x), Sizeof(b), Sizeof(x)}
OneInstruction(op) ==
    {One(op, <<>>)} \cup {One(op, <<o>>) : o \in AllOperands}
    \cup (IF Len(Opcodes[op].mode) = 2
            THEN {One(op, <<o, p>>) : o \in AllOperands, p \in AllOperands} ELSE {})
    \cup (IF Len(Opcodes[op].mode) = 3
            THEN {One(op, <<o, p, q>>) : o \in FewOperands, p \in FewOperands, q \in FewOperands}
            ELSE {})

-----------------------------------------------------------------------------
(* Files to be linked with each other *)
Use(n) == Ins("call", <<Name(n)>>)
Word(n, public, mutable, v) == Data(n, public, mutable, "Word", <<>>, Single(Lit(v)))
Sources ==
    << \* code that uses x, and has an x0 of its own
       Source(<<>>, <<Word(x0, FALSE, FALSE, 99)>>, <<>>, <<Use(x), Use(x0)>>),
       \* code that defines x
       Source(<<>>, <<>>, <<Label(x, TRUE, 2)>>, <<Halt, Use(x)>>),
       \* code with an x of its own, between other names
       Source(<<>>, <<Word(b, FALSE, TRUE, 5)>>, <<Label(x, FALSE, 2)>>, <<Use(b), Use(x)>>),
       \* data only
       Source(<<>>, <<Word(x, TRUE, FALSE, 7), Word(x0, TRUE, FALSE, 8)>>, <<>>, <<>>),
       \* uses x and x0
       Source(<<>>, <<>>, <<Label(a, FALSE, 1)>>, <<Use(x0), Use(x), Use(a)>>) >>

Linked(ks, e, target) ==
    Project([k \in DOMAIN ks |-> File(k, k \in e, Sources[ks[k]])], target)
Several ==
    {Linked(<<i>>, e, "ROM") : i \in 1..5, e \in SUBSET {1}}
    \cup {Linked(<<i, j>>, e, t) : i \in 1..5, j \in 1..5, e \in SUBSET {1, 2}, t \in {"ROM", "DISK"}}
    \cup {Linked(<<i, j, k>>, {1}, "DISK") : i \in {1, 2, 3, 5}, j \in {1, 3, 5}, k \in 2..4}

(* What is special about single files or their constants *)
Alone(src) == Project(<<File(1, TRUE, src)>>, "DISK")
OneByte == Data(b, FALSE, FALSE, "Byte", <<>>, Single(Lit(1)))
Matrix(dims) == Data(a, FALSE, FALSE, "Half", dims,
                     Array(<<String(<<1, 2>>), Array(<<Single(Lit(300))>>)>>))
Special ==
    {One("mov", <<>>),
     Alone(Source(<<>>, <<Word(a, TRUE, TRUE, 4), OneByte, Word(x, FALSE, FALSE, 6)>>, <<>>,
                  [k \in 1..3 |-> Ins("load", <<Reg(1), Name(<<a, b, x>>[k])>>)]))}
    \cup     {Alone(Source(<<>>, ds, <<>>, <<Ins("load", <<Reg(1), Name(a)>>)>>)) : ds \in
       {<<Matrix(<<Inferred, Inferred>>)>>, <<Matrix(<<3, 4>>)>>, <<Matrix(<<2, 1>>)>>,
        <<Matrix(<<Inferred>>)>>,
        <<Data(a, FALSE, FALSE, "Byte", <<Inferred>>, Array(<<>>))>>,
        <<Data(a, FALSE, FALSE, "Byte", <<Inferred>>, Array(<<>>)), OneByte>>,
        <<Data(a, FALSE, TRUE, "Byte", <<Inferred>>, Array(<<>>)), OneByte>>,
        <<Data(a, FALSE, FALSE, "Byte", <<>>, Single(Sizeof(b))), OneByte>>,
        <<OneByte, Data(a, FALSE, FALSE, "Byte", <<>>, Single(Sizeof(b)))>>,
        <<Data(a, FALSE, FALSE, "Byte", <<>>, Single(Lit(256)))>>,
        <<Data(a, FALSE, FALSE, "Word", <<>>, Single(Float(16256)))>>,
        <<OneByte, OneByte>>, <<Word(a, TRUE, TRUE, 4)>>,
        <<Data(a, FALSE, FALSE, "Byte", <<40>>, String(<<1>>))>>}}
    \cup {Alone(Source(<<>>, <<>>, <<Label(x, FALSE, k)>>, is)) :
            k \in 1..3, is \in {<<>>, <<Halt>>, <<Use(long), Halt>>, <<Use(x), Use(x)>>}}
    \cup {Project(<<File(1, FALSE, Source(<<Const(n, TRUE, v)>>, <<OneByte>>, <<>>, <<>>)),
                    File(2, TRUE, Source(cs, <<>>, <<>>, <<Ins("copy", <<Reg(r), Name(n)>>)>>))>>,
                  "ROM") :
            n \in {K, low}, v \in {Lit(4), Sizeof(b)}, r \in {1, 16},
            cs \in {<<>>, <<Const(K, FALSE, Lit(9))>>}}
    \* a constant of a file with errors, and the same one of a file without
    \cup {Project(<<File(1, FALSE, Source(<<Const(K, TRUE, Lit(4))>>, <<OneByte, OneByte>>, <<>>, <<>>)),
                    File(2, FALSE, Source(<<Const(K, TRUE, Sizeof(x))>>, <<OneByte>>, <<>>, <<>>)),
                    File(3, TRUE, Source(<<>>, <<>>, <<>>, <<Use(K)>>))>>, "ROM")}
    \* files up to MaxNumber and beyond
    \cup {Alone(Source(<<>>, <<OneByte>>, <<>>, [k \in 1..n |-> Use(b)])) : n \in 5..8}

-----------------------------------------------------------------------------
(* Object files that salt does not write: one byte of a small file changed *)
RefsAt(refs, flags) ==
    MAGIC_HEADER \o BE(ABI_VERSION, 2) \o BE(1, 4) \o BE(1, 4)
      \o SymbolEntry(SYMBOL_TYPE_INTERNAL, 40, x, refs) \o <<flags>> \o BE(6, 4) \o Zeros(6)
Start(n) == 16 + 11 + 4 * n + 5
Foreign(file) ==
    [files |-> <<>>, raw |-> <<[id |-> 9, file |-> file]>>, target |-> "ROM"]
Whole == RefsAt(<<Start(1) + 2>>, FLAG_EXECUTE + FLAG_ENTRYPOINT)
RawFiles ==
    {Foreign(RefsAt(<<Start(1) + k>>, FLAG_EXECUTE + FLAG_ENTRYPOINT)) : k \in -1..7}
    \cup {Foreign(RefsAt(<<Start(2) + 1, Start(2) + 1 + k>>, FLAG_EXECUTE + FLAG_ENTRYPOINT)) : k \in -1..1}
    \cup {Foreign(RefsAt(<<Start(1)>>, flags)) : flags \in {1, 4, 8, 16, 17, 25, 19, 49}}
    \cup {Foreign(SubSeq(Whole, 1, n)) : n \in 0..Len(Whole)}
    \cup {Foreign([Whole EXCEPT ![p] = 1]) : p \in {1, 7, 8, 12, 16, 17, 20, 21, 22, 23, 27, 31,
                                                    33, 36, 37, 38, 42}}

MCProjects == {OneInstruction(op) : op \in DOMAIN Opcodes} \cup {Several, Special, RawFiles}
=============================================================================
