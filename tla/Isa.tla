-------------------------------- MODULE Isa --------------------------------
(***************************************************************************)
(* Machine code as the CPU reads it: the operands that                     *)
(* interrupt_fetch_decode_execute fetches after each opcode, and the types *)
(* of register it accepts for them.                                        *)
(*                                                                         *)
(* The roles of an operand:                                                *)
(*   "reg"    a register of any type      "int"     one that is no float   *)
(*   "word"   a word literal              "wordref" a register with a word *)
(*   "byte"   a byte literal              "byteref" a register with a byte *)
(*   "value"  a literal of the type of the first register                  *)
(*   "same"   a register of the type of the first                          *)
(*   "conv"   a float register if the other is a word register, and the    *)
(*            other way round                                              *)
(***************************************************************************)
EXTENDS Integers, Sequences

Width == [Byte |-> 1, Half |-> 2, Word |-> 4, Float |-> 4]

reg_ref_type(r) ==
    CASE r < \h08 -> "Word"
      [] r \in \h08..\h0F -> "Half"
      [] r \in \h10..\h17 -> "Byte"
      [] r \in \h18..\h1F -> "Float"
      [] r = \h20 -> "Half"
      [] r \in \h21..\h23 -> "Word"
      [] r = \h24 -> "Half"
      [] r = \h25 -> "Word"
      [] OTHER -> "none"

-----------------------------------------------------------------------------
(* The forms of an instruction; Forms are two, for opcodes that follow one *)
(* another: literal and register                                           *)
Form(op, roles) == [op |-> op, roles |-> roles]
Forms(k, op, roles, roles2) == IF k = 0 THEN Form(op, roles) ELSE Form(op, roles2)

Control(o) ==
    CASE o = \h00 -> Form("halt", <<>>)
      [] o = \h01 -> Form("pause", <<>>)
      [] o \in \h02..\h03 -> Forms(o - \h02, "timer", <<"word">>, <<"wordref">>)
      [] o = \h04 -> Form("usermode", <<>>)
      [] o = \h05 -> Form("ireturn", <<>>)

Memory(o) ==
    CASE o \in \h06..\h07 -> Forms(o - \h06, "load", <<"reg", "word">>, <<"reg", "wordref">>)
      [] o \in \h08..\h09 -> Forms(o - \h08, "store", <<"word", "reg">>, <<"wordref", "reg">>)
      [] o \in \h0A..\h0B -> Forms(o - \h0A, "copy", <<"reg", "value">>, <<"reg", "same">>)
      [] o \in \h0C..\h0D -> Forms(o - \h0C, "swap", <<"reg", "word">>, <<"reg", "wordref">>)
      [] o = \h0E -> Form("push", <<"reg">>)
      [] o = \h0F -> Form("pop", <<"reg">>)

(* Three operands, each of them a literal or a register *)
Word(k) == IF k = 0 THEN "word" ELSE "wordref"
Byte(k) == IF k = 0 THEN "byte" ELSE "byteref"
Words(k, op) == Form(op, <<Word(k \div 4), Word((k \div 2) % 2), Word(k % 2)>>)

BlockCopy(o) == Words(o - \h10, "blockcopy")
BlockSet(o) ==
    LET k == o - \h18 IN Form("blockset", <<Word(k \div 4), Word((k \div 2) % 2), Byte(k % 2)>>)
BlockCmp(o) == Words(o - \h4C, "blockcmp")

Arithmetic1(k, op) == Forms(k, op, <<"reg", "value">>, <<"reg", "same">>)
Integer(k, op) == Forms(k, op, <<"int", "value">>, <<"int", "same">>)
Shift(k, op) == Forms(k, op, <<"int", "byte">>, <<"int", "byteref">>)
Jump(k, op) == Forms(k, op, <<"word">>, <<"wordref">>)

Arithmetic(o) ==
    CASE o = \h20 -> Form("negate", <<"reg">>)
      [] o \in \h21..\h22 -> Arithmetic1(o - \h21, "add")
      [] o \in \h23..\h24 -> Integer(o - \h23, "addcarry")
      [] o \in \h25..\h26 -> Arithmetic1(o - \h25, "sub")
      [] o \in \h27..\h28 -> Integer(o - \h27, "subborrow")
      [] o \in \h29..\h2A -> Arithmetic1(o - \h29, "mult")
      [] o \in \h2B..\h2C -> Arithmetic1(o - \h2B, "sdiv")

Division(o) ==
    CASE o \in \h2D..\h2E -> Integer(o - \h2D, "udiv")
      [] o \in \h2F..\h30 -> Arithmetic1(o - \h2F, "srem")
      [] o \in \h31..\h32 -> Integer(o - \h31, "urem")

Logic(o) ==
    CASE o = \h33 -> Form("not", <<"int">>)
      [] o \in \h34..\h35 -> Integer(o - \h34, "and")
      [] o \in \h36..\h37 -> Integer(o - \h36, "or")
      [] o \in \h38..\h39 -> Integer(o - \h38, "xor")

Shifts(o) ==
    CASE o \in \h3A..\h3B -> Shift(o - \h3A, "lshift")
      [] o \in \h3C..\h3D -> Shift(o - \h3C, "srshift")
      [] o \in \h3E..\h3F -> Shift(o - \h3E, "urshift")
      [] o \in \h40..\h41 -> Shift(o - \h40, "lrot")
      [] o \in \h42..\h43 -> Shift(o - \h42, "rrot")
      [] o \in \h44..\h45 -> Shift(o - \h44, "lrotcarry")
      [] o \in \h46..\h47 -> Shift(o - \h46, "rrotcarry")

Jumps(o) ==
    CASE o \in \h48..\h49 -> Jump(o - \h48, "jump")
      [] o \in \h4A..\h4B -> Arithmetic1(o - \h4A, "compare")

ConditionalJumps(o) ==
    CASE o \in \h54..\h55 -> Jump(o - \h54, "jequal")
      [] o \in \h56..\h57 -> Jump(o - \h56, "jnotequal")
      [] o \in \h58..\h59 -> Jump(o - \h58, "sjgreater")
      [] o \in \h5A..\h5B -> Jump(o - \h5A, "sjgreatereq")
      [] o \in \h5C..\h5D -> Jump(o - \h5C, "ujgreater")
      [] o \in \h5E..\h5F -> Jump(o - \h5E, "ujgreatereq")
      [] o \in \h60..\h61 -> Jump(o - \h60, "sjlesser")
      [] o \in \h62..\h63 -> Jump(o - \h62, "sjlessereq")
      [] o \in \h64..\h65 -> Jump(o - \h64, "ujlesser")
      [] o \in \h66..\h67 -> Jump(o - \h66, "ujlessereq")

Calls(o) ==
    CASE o \in \h68..\h69 -> Jump(o - \h68, "call")
      [] o = \h6A -> Form("return", <<>>)
      [] o = \h6B -> Form("syscall", <<>>)
      [] o = \h6C -> Form("sconvert", <<"conv", "conv">>)
      [] o = \h6D -> Form("uconvert", <<"conv", "conv">>)

Instructions ==
    [o \in \h00..\h6D |->
       CASE o \in \h00..\h05 -> Control(o)
         [] o \in \h06..\h0F -> Memory(o)
         [] o \in \h10..\h17 -> BlockCopy(o)
         [] o \in \h18..\h1F -> BlockSet(o)
         [] o \in \h20..\h2C -> Arithmetic(o)
         [] o \in \h2D..\h32 -> Division(o)
         [] o \in \h33..\h39 -> Logic(o)
         [] o \in \h3A..\h47 -> Shifts(o)
         [] o \in \h48..\h4B -> Jumps(o)
         [] o \in \h4C..\h53 -> BlockCmp(o)
         [] o \in \h54..\h67 -> ConditionalJumps(o)
         [] o \in \h68..\h6D -> Calls(o)]

-----------------------------------------------------------------------------
IsLiteral(role) == role \in {"word", "byte", "value"}

(* How many bytes the CPU fetches for an operand; first is the type of the *)
(* register of the first operand.                                          *)
FetchSize(role, first) ==
    CASE role = "word" -> 4
      [] role = "value" -> Width[first]
      [] OTHER -> 1

(* Does the CPU execute the instruction with registers of these types, or  *)
(* raise ILLEGAL_OPERATION?                                                *)
Accepts(role, type, first, other) ==
    CASE role \in {"reg", "same"} -> type # "none" /\ (role = "same" => type = first)
      [] role = "int" -> type \notin {"none", "Float"}
      [] role = "wordref" -> type = "Word"
      [] role = "byteref" -> type = "Byte"
      [] role = "conv" -> {type, other} = {"Word", "Float"}
      [] OTHER -> TRUE

Illegal == [op |-> "illegal", args |-> <<>>, length |-> 0]

(***************************************************************************)
(* The instruction the CPU finds at index i of a sequence of bytes: its    *)
(* operands, a literal as its bytes and a register as its reference, and   *)
(* how many bytes it takes.                                                *)
(***************************************************************************)
DecodeAs(ins, first, bytes, i) ==
    LET n == Len(ins.roles)
        Size(k) == FetchSize(ins.roles[k], IF first = "none" THEN "Byte" ELSE first)
        at[k \in 1..(n + 1)] == IF k = 1 THEN i + 1 ELSE at[k - 1] + Size(k - 1)
        Type(k) == IF IsLiteral(ins.roles[k]) THEN "literal" ELSE reg_ref_type(bytes[at[k]])
    IN  IF \/ at[n + 1] > Len(bytes) + 1
           \/ \E k \in 1..n : ~Accepts(ins.roles[k], Type(k), first, Type(IF k = 1 THEN n ELSE 1))
          THEN Illegal
          ELSE [op |-> ins.op,
                args |-> [k \in 1..n |-> [literal |-> IsLiteral(ins.roles[k]),
                                          bytes |-> SubSeq(bytes, at[k], at[k + 1] - 1)]],
                length |-> at[n + 1] - i]

Decode(bytes, i) ==
    IF bytes[i] \notin DOMAIN Instructions THEN Illegal
    ELSE DecodeAs(Instructions[bytes[i]],
                  IF Len(Instructions[bytes[i]].roles) > 0 /\ i < Len(bytes)
                    THEN reg_ref_type(bytes[i + 1]) ELSE "none",
                  bytes, i)
=============================================================================
