------------------------------- MODULE MCAlu -------------------------------
(***************************************************************************)
(* Bytes of three bits, so that every byte and every shift distance, also  *)
(* beyond the width of a register, is tried; halves and words with their   *)
(* boundary values.                                                        *)
(***************************************************************************)
EXTENDS Alu

MCBits == [Byte |-> 3, Half |-> 5, Word |-> 6]
MCFloats == {-100, -70, -1, 0, 1, 2, 70, 100}

Reg(t, i) == [type |-> t, n |-> i]
F == Reg("Float", 0)
I(op, reg, y) == [op |-> op, reg |-> reg, y |-> y]

Bytes == 0..7
Values(t) == IF t = "Byte" THEN Bytes ELSE {0, 1, SignBit(t) - 1, SignBit(t), Size(t) - 1}

Operands(op, t) == IF op \in Shifting THEN Bytes ELSE IF op = "NOT" THEN {0} ELSE Values(t)

Single ==
    {<<I(op, Reg(t, 0), y)>> : op \in Integer, t \in IntTypes, y \in Bytes}
    \cup UNION {{<<I(op, FLAGS, y)>> : y \in Operands(op, "Half")} : op \in Integer}
    \cup {<<I("NEGATE", reg, 0)>> : reg \in {Reg(t, 0) : t \in IntTypes} \cup {FLAGS}}
FloatSingle ==
    {<<I(op, F, y)>> : op \in FloatOps \cup {"NEGATE"}, y \in {0, 1}}
    \cup {<<I(op, Reg(t, 0), u)>> : op \in {"SCONVERT", "UCONVERT"}, t \in {"Word", "Float"},
                                    u \in {"Word", "Float"}}

OfType(p, q, t) ==
    {<<I(p, Reg(t, 0), y), I(q, Reg(t, 1), z)>> : y \in Values(t), z \in Values(t)}
Limbs ==
    UNION {OfType("ADD", "ADDCARRY", t) \cup OfType("SUB", "SUBBORROW", t) : t \in IntTypes}
Shifted ==
    {<<I(p[1], Reg(t, 0), 1), I(p[2], Reg(t, 1), 1)>> :
       p \in {<<"LSHIFT", "LROTCARRY">>, <<"URSHIFT", "RROTCARRY">>,
              <<"SRSHIFT", "RROTCARRY">>},
       t \in IntTypes}
Divided ==
    UNION {{<<I(p[1], Reg(t, 0), y), I(p[2], Reg(t, 1), y)>> :
              p \in {<<"SDIV", "SREM">>, <<"UDIV", "UREM">>}, y \in Values(t)} : t \in IntTypes}
Compared ==
    UNION {{<<I("COMPARE", Reg(t, 0), y), I(j, Reg(t, 0), 0)>> : j \in Jumps,
              y \in Values(t)} : t \in IntTypes}
FloatCompared ==
    {<<I("COMPARE", F, y), I(j, F, 0)>> : j \in Jumps, y \in MCFloats \cup {NaN}}

Few == {0, 1, 4, 7, 16, 31, 32, 63}
MCStarts ==
    {[programs |-> Single, r |-> 0..7 \cup {16, 31, 32, 63}, f |-> {1},
      flags |-> {0, FLAG_CARRY}],
     [programs |-> Limbs \cup Shifted, r |-> Few, f |-> {1}, flags |-> {0}],
     [programs |-> Divided \cup Compared, r |-> Few \cup {5, 6}, f |-> {1}, flags |-> {0}],
     [programs |-> FloatCompared \cup FloatSingle, r |-> {5, 48}, f |-> MCFloats \cup {NaN},
      flags |-> {0}]}
=============================================================================
