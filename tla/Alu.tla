-------------------------------- MODULE Alu --------------------------------
(***************************************************************************)
(* The arithmetic, bitwise and comparison instructions: what they compute, *)
(* the flags they leave, and what the conditional jumps make of the flags. *)
(*                                                                         *)
(* The three integer types have Bits[type] bits; the code is the same for  *)
(* each, at 8, 16 and 32.  A float is an integer of Floats, two of which   *)
(* are the infinities, or NaN; the results of float arithmetic are the     *)
(* host's, and any float here.                                             *)
(*                                                                         *)
(* An operand in a register is read before the instruction changes         *)
(* anything, so it is a value like a literal.                              *)
(***************************************************************************)
EXTENDS Integers, Sequences, FiniteSetsExt

CONSTANTS
    Bits,         \* [Byte, Half, Word]
    Floats, Infinity, NaN,
    Starts        \* [r, f, flags, programs]: programs, which are sequences of
                  \* instructions [op, reg, y], and the values to start with

VARIABLES
    r,          \* r0 and r1, words of which r0h, r0b... are parts
    f,          \* a float register
    flags,
    checked,    \* is this a build with overflow checks?
    todo,       \* the instructions that are still to be executed
    done,       \* the instructions executed, with what they met and left
    outcome     \* of the last one

vars == <<r, f, flags, checked, todo, done, outcome>>

IntTypes == {"Byte", "Half", "Word"}
Size(t) == 2^Bits[t]
SignBit(t) == 2^(Bits[t] - 1)
Signed(t, x) == IF x >= SignBit(t) THEN x - Size(t) ELSE x      \* x as i8
Unsigned(t, x) == x % Size(t)                                   \* x as u8

-----------------------------------------------------------------------------
(* Registers: [type, n], where n = 2 stands for FLAGS *)
FLAGS == [type |-> "Half", n |-> 2]
Register == [type : IntTypes, n : 0..1] \cup {FLAGS, [type |-> "Float", n |-> 0]}

TypedValue(t) == IF t = "Float" THEN Floats \cup {NaN} ELSE 0..(Size(t) - 1)

Integer == {"ADD", "ADDCARRY", "SUB", "SUBBORROW", "MULT", "SDIV", "UDIV", "SREM", "UREM",
            "AND", "OR", "XOR", "LSHIFT", "SRSHIFT", "URSHIFT", "LROT", "RROT",
            "LROTCARRY", "RROTCARRY", "NOT"}
Divisions == {"SDIV", "UDIV", "SREM", "UREM"}
FloatOps == {"ADD", "SUB", "MULT", "SDIV", "SREM"}
Shifting == {"LSHIFT", "SRSHIFT", "URSHIFT", "LROT", "RROT", "LROTCARRY", "RROTCARRY"}
Jumps == {"JEQUAL", "JNOTEQUAL", "SJGREATER", "SJGREATEREQ", "UJGREATER", "UJGREATEREQ",
          "SJLESSER", "SJLESSEREQ", "UJLESSER", "UJLESSEREQ"}
Conversions == {"SCONVERT", "UCONVERT"}

(* What the decoder lets through: the operand of a shift is a byte, that   *)
(* of a conversion a type, and any other a value of the register's type.   *)
Instruction ==
    {i \in [op : Integer \cup {"NEGATE", "COMPARE"} \cup Jumps, reg : Register,
            y : Int \cup {NaN}] :
        /\ i.op \in Integer \ FloatOps => i.reg.type # "Float"
        /\ i.y \in IF i.op \in Shifting THEN Nat ELSE TypedValue(i.reg.type)}
    \cup [op : Conversions, reg : Register, y : IntTypes \cup {"Float"}]

(* A shift by one loses no more than one bit. *)
ASSUME BitsAssumption == \A t \in IntTypes : Bits[t] \in Nat \ {0, 1}
(* FLAGS, a half, has room for the four flags below its top bit. *)
ASSUME FlagsAssumption == SignBit("Half") > 15
(* What 2^k is, as far as the widths go *)
ASSUME PowersAssumption ==
    /\ 2^0 = 1
    /\ \A t \in IntTypes : \A k \in 0..Bits[t] :
         2^k \in Nat \ {0} /\ 2^(k + 1) = 2 * 2^k
ASSUME FloatsAssumption ==
    /\ {0, Infinity, -Infinity} \subseteq Floats
    /\ Floats \subseteq Int /\ NaN \notin Int
ASSUME StartsAssumption ==
    \A s \in Starts :
      /\ s.r \subseteq 0..(Size("Word") - 1)
      /\ s.f \subseteq Floats \cup {NaN}
      /\ s.flags \subseteq 0..(SignBit("Half") - 1)
      /\ s.programs \subseteq Seq(Instruction)

-----------------------------------------------------------------------------
read_from_register(reg) ==
    IF reg.type = "Float" THEN f
    ELSE IF reg = FLAGS THEN flags
    ELSE r[reg.n] % Size(reg.type)

(* The upper bits of a word survive a write to its half or byte; the top   *)
(* bit of FLAGS cannot be written.                                         *)
WrittenWord(reg, x) == r[reg.n] - (r[reg.n] % Size(reg.type)) + x
WrittenFlags(x) == x % SignBit("Half")

write_to_register(reg, x) ==
    /\ f' = IF reg.type = "Float" THEN x ELSE f
    /\ r' = IF reg.type = "Float" \/ reg = FLAGS THEN r
            ELSE [r EXCEPT ![reg.n] = WrittenWord(reg, x)]

-----------------------------------------------------------------------------
(* Flags *)
FLAG_ZERO == 1
FLAG_NEGATIVE == 2
FLAG_CARRY == 4
FLAG_OVERFLOW == 8

Has(fl, flag) == (fl \div flag) % 2 = 1
If(condition, flag) == IF condition THEN flag ELSE 0

make_flags_int(ans, carry, overflow) ==
    (IF ans = 0 THEN FLAG_ZERO ELSE If(ans < 0, FLAG_NEGATIVE))
    + If(carry, FLAG_CARRY) + If(overflow, FLAG_OVERFLOW)

make_flags_float(ans) ==
    IF ans = NaN THEN 0 ELSE make_flags_int(ans, FALSE, FALSE)

Result(ans, carry, overflow) == [ans |-> ans, carry |-> carry, overflow |-> overflow]

-----------------------------------------------------------------------------
(* Arithmetic.  unsigned and signed are the exact results; the register    *)
(* gets the bits they share.                                               *)
bin_op_multisigned(t, unsigned, signed) ==
    Result(Unsigned(t, unsigned),
           unsigned # Unsigned(t, unsigned),
           signed # Signed(t, Unsigned(t, signed)))

bin_op_signed(t, signed, overflow) == Result(Unsigned(t, signed), FALSE, overflow)
bin_op_unsigned(ans) == Result(ans, FALSE, FALSE)

Add(t, x, y) == bin_op_multisigned(t, x + y, Signed(t, x) + Signed(t, y))
Sub(t, x, y) == bin_op_multisigned(t, x - y, Signed(t, x) - Signed(t, y))
Mult(t, x, y) == bin_op_multisigned(t, x * y, Signed(t, x) * Signed(t, y))

(* Division that truncates towards zero *)
Magnitude(x) == IF x < 0 THEN -x ELSE x
Truncated(x, y) ==
    LET q == Magnitude(x) \div Magnitude(y) IN IF (x < 0) = (y < 0) THEN q ELSE -q

DivOverflows(t, x, y) == Signed(t, x) = -SignBit(t) /\ Signed(t, y) = -1
SDiv(t, x, y) ==
    bin_op_signed(t, Truncated(Signed(t, x), Signed(t, y)), DivOverflows(t, x, y))

(* Mutant: the remainder of a floor division. *)
SRemFloor(t, x, y) ==
    bin_op_signed(t, IF Signed(t, y) < 0 THEN -((-Signed(t, x)) % (-Signed(t, y)))
                     ELSE Signed(t, x) % Signed(t, y), DivOverflows(t, x, y))

SRem(t, x, y) ==
    bin_op_signed(t, Signed(t, x) - Signed(t, y) * Truncated(Signed(t, x), Signed(t, y)),
                  DivOverflows(t, x, y))

UDiv(t, x, y) == bin_op_unsigned(x \div y)
URem(t, x, y) == bin_op_unsigned(x % y)

-----------------------------------------------------------------------------
(* Bitwise instructions *)
Bit(x, i) == (x \div 2^i) % 2

(* The number of b bits that has those of S set *)
BitSum(b, S) ==
    LET sum[k \in 0..b] ==
          IF k = 0 THEN 0 ELSE sum[k - 1] + If(k - 1 \in S, 2^(k - 1))
    IN sum
FromBits(t, S) == BitSum(Bits[t], S)[Bits[t]]

And(t, x, y) ==
    bin_op_unsigned(FromBits(t, {i \in 0..(Bits[t] - 1) : Bit(x, i) = 1 /\ Bit(y, i) = 1}))
Or(t, x, y) ==
    bin_op_unsigned(FromBits(t, {i \in 0..(Bits[t] - 1) : Bit(x, i) = 1 \/ Bit(y, i) = 1}))
Xor(t, x, y) ==
    bin_op_unsigned(FromBits(t, {i \in 0..(Bits[t] - 1) : Bit(x, i) # Bit(y, i)}))

leading_zeros(t, x) == CHOOSE k \in 0..Bits[t] :
    /\ x < 2^(Bits[t] - k)
    /\ k = Bits[t] \/ x >= 2^(Bits[t] - k - 1)
trailing_zeros(t, x) == Max({k \in 0..Bits[t] : x % 2^k = 0})

(* Mutant: the distance goes round at the width, as hosts shift. *)
LShiftMasked(t, x, n) ==
    LET k == n % Bits[t] IN Result(Unsigned(t, x * 2^k), leading_zeros(t, x) < k, FALSE)

LShift(t, x, n) ==
    IF n < Bits[t] THEN Result(Unsigned(t, x * 2^n), leading_zeros(t, x) < n, FALSE)
    ELSE Result(0, TRUE, FALSE)
SRShift(t, x, n) ==
    IF n < Bits[t]
      THEN Result(Unsigned(t, Signed(t, x) \div 2^n), trailing_zeros(t, x) < n, FALSE)
      ELSE Result(If(Signed(t, x) < 0, Size(t) - 1), TRUE, FALSE)

(* Mutant: a shift right looks for lost bits at the other end. *)
URShiftLeading(t, x, n) ==
    IF n < Bits[t] THEN Result(x \div 2^n, leading_zeros(t, x) < n, FALSE)
    ELSE Result(0, TRUE, FALSE)

URShift(t, x, n) ==
    IF n < Bits[t] THEN Result(x \div 2^n, trailing_zeros(t, x) < n, FALSE)
    ELSE Result(0, TRUE, FALSE)

LRot(t, x, n) ==
    LET k == n % Bits[t]
    IN bin_op_unsigned(Unsigned(t, x * 2^k) + x \div 2^(Bits[t] - k))
RRot(t, x, n) == LRot(t, x, Bits[t] - (n % Bits[t]))

(* One position at a time, through the carry flag *)
rcl(t, s) ==
    [ans |-> Unsigned(t, s.ans * 2) + If(s.carry, 1), carry |-> Signed(t, s.ans) < 0]

(* Mutant: the bit that leaves the register comes back at once. *)
rcrNoCarry(t, s) ==
    [ans |-> s.ans \div 2 + If(s.ans % 2 = 1, SignBit(t)), carry |-> s.ans % 2 = 1]

rcr(t, s) ==
    [ans |-> s.ans \div 2 + If(s.carry, SignBit(t)), carry |-> s.ans % 2 = 1]

(* The register and the carry after each position *)
Rotations(t, x, carry, n, op) ==
    LET after[k \in 0..n] ==
          IF k = 0 THEN [ans |-> x, carry |-> carry]
          ELSE IF op = "rcl" THEN rcl(t, after[k - 1]) ELSE rcr(t, after[k - 1])
    IN after

bin_op_rotate_carry(t, x, n, op) ==
    LET after == Rotations(t, x, Has(flags, FLAG_CARRY), n, op)[n]
    IN Result(after.ans, after.carry, FALSE)

-----------------------------------------------------------------------------
(* The value after it has been incremented for the carry, which may wrap *)
Overflows(t, y) == Has(flags, FLAG_CARRY) /\ y = Size(t) - 1

(* Mutant: the carry is left out. *)
NotIncremented(t, y) == y

Incremented(t, y) == Unsigned(t, y + If(Has(flags, FLAG_CARRY), 1))

Computed(op, t, x, y) ==
    CASE op = "ADD" -> Add(t, x, y)
      [] op = "ADDCARRY" -> Add(t, x, Incremented(t, y))
      [] op = "SUB" -> Sub(t, x, y)
      [] op = "SUBBORROW" -> Sub(t, x, Incremented(t, y))
      [] op = "MULT" -> Mult(t, x, y)
      [] op = "SDIV" -> SDiv(t, x, y)
      [] op = "UDIV" -> UDiv(t, x, y)
      [] op = "SREM" -> SRem(t, x, y)
      [] op = "UREM" -> URem(t, x, y)
      [] op = "AND" -> And(t, x, y)
      [] op = "OR" -> Or(t, x, y)
      [] op = "XOR" -> Xor(t, x, y)
      [] op = "LSHIFT" -> LShift(t, x, y)
      [] op = "SRSHIFT" -> SRShift(t, x, y)
      [] op = "URSHIFT" -> URShift(t, x, y)
      [] op = "LROT" -> LRot(t, x, y)
      [] op = "RROT" -> RRot(t, x, y)
      [] op = "LROTCARRY" -> bin_op_rotate_carry(t, x, y, "rcl")
      [] op = "RROTCARRY" -> bin_op_rotate_carry(t, x, y, "rcr")
      [] op = "NOT" -> bin_op_unsigned(Size(t) - 1 - x)

-----------------------------------------------------------------------------
Init ==
    /\ \E s \in Starts :
         /\ r \in [0..1 -> s.r] /\ f \in s.f /\ flags \in s.flags
         /\ todo \in s.programs
    /\ checked \in BOOLEAN
    /\ done = <<>>
    /\ outcome = "ok"

Executing(op) == todo # <<>> /\ Head(todo).op = op /\ outcome # "panic"

Ends(result) ==
    /\ done' = Append(done, [op |-> Head(todo).op, reg |-> Head(todo).reg, y |-> Head(todo).y,
                             x |-> read_from_register(Head(todo).reg), flags |-> flags])
    /\ todo' = Tail(todo)
    /\ outcome' = result
    /\ UNCHANGED checked

ChangesNothing(result) == Ends(result) /\ UNCHANGED <<r, f, flags>>

(* read, compute, write, and only then replace the flags: those of an      *)
(* instruction on FLAGS itself are the ones that stay.                     *)
IntegerInstruction(op) ==
    LET reg == Head(todo).reg
        t == reg.type
        y == Head(todo).y
        result == Computed(op, t, read_from_register(reg), y)
    IN /\ Executing(op) /\ t \in IntTypes
       /\ ~(op \in Divisions /\ y = 0)
       /\ ~(op \in {"ADDCARRY", "SUBBORROW"} /\ Overflows(t, y) /\ checked)
       /\ write_to_register(reg, result.ans)
       /\ flags' = make_flags_int(Signed(t, result.ans), result.carry, result.overflow)
       /\ Ends("ok")

FloatInstruction(op) ==
    /\ Executing(op) /\ Head(todo).reg.type = "Float"
    /\ \E ans \in Floats \cup {NaN} :
         /\ write_to_register(Head(todo).reg, ans)
         /\ flags' = make_flags_float(ans)
    /\ Ends("ok")

DivideByZero(op) ==
    /\ Executing(op) /\ op \in Divisions
    /\ Head(todo).reg.type \in IntTypes /\ Head(todo).y = 0
    /\ ChangesNothing("INTERRUPT_DIV_BY_0")

(* attempt to add with overflow, in TypedValue::increment *)
IncrementPanics(op) ==
    /\ Executing(op) /\ op \in {"ADDCARRY", "SUBBORROW"}
    /\ Overflows(Head(todo).reg.type, Head(todo).y) /\ checked
    /\ ChangesNothing("panic")

(* NEGATE leaves the flags alone, unless FLAGS is what it negates. *)
Negated(reg) ==
    IF reg.type = "Float" THEN IF f = NaN THEN NaN ELSE -f
    ELSE Unsigned(reg.type, -read_from_register(reg))
LowestValue(reg) ==
    reg.type \in IntTypes /\ Signed(reg.type, read_from_register(reg)) = -SignBit(reg.type)

Negate ==
    /\ Executing("NEGATE")
    /\ LET reg == Head(todo).reg
       IN \/ /\ ~(LowestValue(reg) /\ checked)
             /\ write_to_register(reg, Negated(reg))
             /\ flags' = IF reg = FLAGS THEN WrittenFlags(Negated(reg)) ELSE flags
             /\ Ends("ok")
          \/ LowestValue(reg) /\ checked /\ ChangesNothing("panic")

(* x - y for floats, as far as its sign goes *)
FloatDifference(x, y) ==
    IF NaN \in {x, y} \/ (x = y /\ x \in {Infinity, -Infinity}) THEN NaN ELSE x - y

(* Mutant: the carry says whether the sum overflows. *)
CompareFlagsOfSum(t, x, y) ==
    IF t = "Float" THEN make_flags_float(FloatDifference(x, y))
    ELSE LET d == Sub(t, x, y)
         IN make_flags_int(Signed(t, d.ans), x + y >= Size(t), d.overflow)

CompareFlags(t, x, y) ==
    IF t = "Float" THEN make_flags_float(FloatDifference(x, y))
    ELSE LET d == Sub(t, x, y)
         IN make_flags_int(Signed(t, d.ans), d.carry, d.overflow)

Compare ==
    /\ Executing("COMPARE")
    /\ flags' = CompareFlags(Head(todo).reg.type, read_from_register(Head(todo).reg),
                             Head(todo).y)
    /\ UNCHANGED <<r, f>>
    /\ Ends("ok")

(* Between r0 and f, where y is the type of the source.  Floats do not     *)
(* hold every word: an integer becomes the nearest, and any of two that    *)
(* are as near.  A float becomes the closest integer there is, NaN 0       *)
(* (Rust's as).                                                            *)
Nearest(x) ==
    LET finite == Floats \ {Infinity, -Infinity}
    IN {y \in finite : \A z \in finite : Magnitude(x - y) <= Magnitude(x - z)}
Closest(x, low, high) ==
    IF x = NaN THEN 0 ELSE IF x < low THEN low ELSE IF x > high THEN high ELSE x

Convert(op) ==
    LET w == "Word"
        integer == IF op = "SCONVERT" THEN Signed(w, r[0]) ELSE r[0]
        toWord == IF op = "SCONVERT" THEN Closest(f, -SignBit(w), SignBit(w) - 1)
                  ELSE Closest(f, 0, Size(w) - 1)
        reg == Head(todo).reg
    IN /\ Executing(op)
       /\ {reg.type, Head(todo).y} = {"Word", "Float"}
       /\ \/ /\ reg.type = "Float"
             /\ \E ans \in Nearest(integer) : write_to_register(reg, ans)
          \/ reg.type = "Word" /\ write_to_register(reg, Unsigned(w, toWord))
       /\ UNCHANGED flags
       /\ Ends("ok")

ConvertRejected(op) ==
    /\ Executing(op)
    /\ {Head(todo).reg.type, Head(todo).y} # {"Word", "Float"}
    /\ ChangesNothing("INTERRUPT_ILLEGAL_OPERATION")

-----------------------------------------------------------------------------
(* The conditions of the jumps *)
Condition(j, fl) ==
    LET Z == Has(fl, FLAG_ZERO)
        C == Has(fl, FLAG_CARRY)
        Less == Has(fl, FLAG_NEGATIVE) # Has(fl, FLAG_OVERFLOW)
    IN CASE j = "JEQUAL" -> Z
         [] j = "JNOTEQUAL" -> ~Z
         [] j = "SJGREATER" -> ~Z /\ ~Less
         [] j = "SJGREATEREQ" -> Z \/ ~Less
         [] j = "UJGREATER" -> ~C /\ ~Z
         [] j = "UJGREATEREQ" -> ~C \/ Z
         [] j = "SJLESSER" -> Less
         [] j = "SJLESSEREQ" -> Z \/ Less
         [] j = "UJLESSER" -> C
         [] j = "UJLESSEREQ" -> C \/ Z

(* done keeps the flags the jump met, and so whether it is taken. *)
Jump(j) == Executing(j) /\ ChangesNothing("ok")

Next ==
    \/ \E op \in Integer :
         \/ IntegerInstruction(op)
         \/ DivideByZero(op)
         \/ IncrementPanics(op)
    \/ \E op \in FloatOps : FloatInstruction(op)
    \/ Negate
    \/ Compare
    \/ \E op \in Conversions : Convert(op) \/ ConvertRejected(op)
    \/ \E j \in Jumps : Jump(j)

Spec == Init /\ [][Next]_vars

-----------------------------------------------------------------------------
(* The last two instructions, when the last one followed the other *)
Ran(op1, op2) ==
    /\ Len(done) = 2 /\ outcome = "ok"
    /\ done[1].op = op1 /\ done[2].op = op2
OnLimbs(lo, hi) == lo.reg.type = hi.reg.type /\ {lo.reg.n, hi.reg.n} = {0, 1}
Wide(t, hi, lo) == hi * Size(t) + lo

(* A number of two registers of type t *)
Number(t, lo, hi) == Wide(t, read_from_register(hi.reg), read_from_register(lo.reg))
Original(t, lo, hi) == Wide(t, hi.x, lo.x)
Operand(t, lo, hi) == Wide(t, hi.y, lo.y)
CarryOut == If(Has(flags, FLAG_CARRY), 1)

Relation(j, t, x, y) ==
    CASE j = "JEQUAL" -> x = y
      [] j = "JNOTEQUAL" -> x # y
      [] j = "UJGREATER" -> x > y
      [] j = "UJGREATEREQ" -> x >= y
      [] j = "UJLESSER" -> x < y
      [] j = "UJLESSEREQ" -> x <= y
      [] j = "SJGREATER" -> Signed(t, x) > Signed(t, y)
      [] j = "SJGREATEREQ" -> Signed(t, x) >= Signed(t, y)
      [] j = "SJLESSER" -> Signed(t, x) < Signed(t, y)
      [] j = "SJLESSEREQ" -> Signed(t, x) <= Signed(t, y)

FloatRelation(j, x, y) ==
    CASE j = "JEQUAL" -> x = y
      [] j = "JNOTEQUAL" -> x # y
      [] j = "SJGREATER" -> x > y
      [] j = "SJGREATEREQ" -> x >= y
      [] j = "SJLESSER" -> x < y
      [] j = "SJLESSEREQ" -> x <= y

(* A jump after COMPARE is taken exactly when the integers compared are in *)
(* the relation it is named for, whatever overflows in the subtraction;    *)
(* with floats the same holds of the jumps that do not need C, unless one  *)
(* is NaN or both are the same infinity (cpu.rs:1994-2025,                 *)
(* macros.rs:291-374).                                                     *)
ComparisonsDecide ==
    \A j \in Jumps : Ran("COMPARE", j) =>
      LET c == done[1]
          t == c.reg.type
      IN IF t # "Float"
           THEN Condition(j, done[2].flags) <=> Relation(j, t, c.x, c.y)
           ELSE \/ FloatDifference(c.x, c.y) = NaN
                \/ j \in {"UJGREATER", "UJGREATEREQ", "UJLESSER", "UJLESSEREQ"}
                \/ Condition(j, done[2].flags) <=> FloatRelation(j, c.x, c.y)

(* ADD and ADDCARRY, or SUB and SUBBORROW, on the low and the high half of *)
(* a number compute the sum or difference of the whole and its carry,      *)
(* except that the carry out is lost when the high half of the operand has *)
(* all its bits set and a carry comes in (cpu.rs:1765-1789, 99-107).       *)
LimbsChain ==
    LET lo == done[1]
        hi == done[2]
        t == lo.reg.type
        lost == hi.y = Size(t) - 1 /\ Has(hi.flags, FLAG_CARRY)
    IN /\ Ran("ADD", "ADDCARRY") /\ t \in IntTypes /\ OnLimbs(lo, hi) =>
            /\ (Original(t, lo, hi) + Operand(t, lo, hi) - Number(t, lo, hi))
                 % (Size(t) * Size(t)) = 0
            /\ ~lost => Number(t, lo, hi) + Size(t) * Size(t) * CarryOut
                        = Original(t, lo, hi) + Operand(t, lo, hi)
       /\ Ran("SUB", "SUBBORROW") /\ t \in IntTypes /\ OnLimbs(lo, hi) =>
            /\ (Original(t, lo, hi) - Operand(t, lo, hi) - Number(t, lo, hi))
                 % (Size(t) * Size(t)) = 0
            /\ ~lost => Number(t, lo, hi) - Size(t) * Size(t) * CarryOut
                        = Original(t, lo, hi) - Operand(t, lo, hi)

(* A shift of one register by one bit followed by a rotation of the next   *)
(* through the carry shifts the number they make up, in both directions    *)
(* and with either sign extension (cpu.rs:1847-1992, rotcarry.rs:1-65).    *)
ShiftsChain ==
    LET a == done[1]
        b == done[2]
        t == a.reg.type
        Chained(op1, op2) == Ran(op1, op2) /\ OnLimbs(a, b) /\ a.y = 1 /\ b.y = 1
        SignedWide(n) == IF n >= SignBit(t) * Size(t) THEN n - Size(t) * Size(t) ELSE n
    IN /\ Chained("LSHIFT", "LROTCARRY") =>
            Number(t, a, b) + Size(t) * Size(t) * CarryOut = 2 * Original(t, a, b)
       /\ Chained("URSHIFT", "RROTCARRY") =>
            2 * Number(t, b, a) + CarryOut = Original(t, b, a)
       /\ Chained("SRSHIFT", "RROTCARRY") =>
            2 * SignedWide(Number(t, b, a)) + CarryOut = SignedWide(Original(t, b, a))

(* What a shift by n leaves in place of bit i is the bit n places away: a  *)
(* bit of x, 0 beyond either end, and beyond the upper end of a signed     *)
(* number its sign.                                                        *)
BitFrom(op, t, x, i, n) ==
    LET k == IF op = "LSHIFT" THEN i - n ELSE i + n
    IN CASE k \in 0..(Bits[t] - 1) -> Bit(x, k)
         [] k >= Bits[t] /\ op = "SRSHIFT" -> Bit(x, Bits[t] - 1)
         [] OTHER -> 0
LostBits(op, t, n) == IF op = "LSHIFT" THEN (Bits[t] - n)..(Bits[t] - 1) ELSE 0..(n - 1)

(* A shift by any distance, below the width or not, moves every bit by     *)
(* that distance, and sets the carry exactly when it is not below the      *)
(* width or one of the bits it loses is set (cpu.rs:1847-1992).            *)
ShiftsByAnyDistance ==
    \A i \in DOMAIN done :
      LET s == done[i]
          t == s.reg.type
      IN /\ i = Len(done) /\ outcome = "ok" /\ s.reg # FLAGS
         /\ s.op \in {"LSHIFT", "SRSHIFT", "URSHIFT"}
         => /\ \A b \in 0..(Bits[t] - 1) :
                 Bit(read_from_register(s.reg), b) = BitFrom(s.op, t, s.x, b, s.y)
            /\ CarryOut = 1 <=> \/ s.y >= Bits[t]
                               \/ \E b \in LostBits(s.op, t, s.y) : Bit(s.x, b) = 1

(* LROTCARRY and RROTCARRY by n rotate the register and the carry flag as  *)
(* one number with one more bit, whether n is more than its width or not   *)
(* (macros.rs:218-262; instruction-set.md: including the C flag in the     *)
(* rotation).                                                              *)
RotatesThroughCarry ==
    \A i \in DOMAIN done :
      LET s == done[i]
          t == s.reg.type
          width == Bits[t] + 1
          Rotated(n, k) == ((n * 2^k) % 2^width) + n \div 2^(width - k)
          before == If(Has(s.flags, FLAG_CARRY), Size(t)) + s.x
          after == Size(t) * CarryOut + read_from_register(s.reg)
      IN i = Len(done) /\ outcome = "ok" /\ s.reg # FLAGS =>
           /\ s.op = "LROTCARRY" => after = Rotated(before, s.y % width)
           /\ s.op = "RROTCARRY" => before = Rotated(after, s.y % width)

(* Quotient and remainder of the same numbers fit together: the quotient   *)
(* times the divisor plus the remainder is the dividend (modulo the width  *)
(* for the one quotient that overflows, when O is set), the remainder is   *)
(* smaller than the divisor and has the dividend's sign                    *)
(* (macros.rs:90-153; cpu.rs:1796-1830).                                   *)
DivisionExact ==
    LET q == done[1]
        s == done[2]
        t == q.reg.type
        Quotient == read_from_register(q.reg)
        Remainder == read_from_register(s.reg)
        Comparable == OnLimbs(q, s) /\ q.x = s.x /\ q.y = s.y /\ t \in IntTypes
    IN /\ Ran("UDIV", "UREM") /\ Comparable =>
            Quotient * q.y + Remainder = q.x /\ Remainder < q.y
       /\ Ran("SDIV", "SREM") /\ Comparable =>
            LET x == Signed(t, q.x)
                y == Signed(t, q.y)
                rem == Signed(t, Remainder)
            IN /\ Magnitude(rem) < Magnitude(y)
               /\ rem = 0 \/ (rem < 0) = (x < 0)
               /\ Signed(t, Quotient) * y + rem = x <=> ~Has(flags, FLAG_OVERFLOW)
               /\ Unsigned(t, Quotient * q.y + Remainder) = q.x

-----------------------------------------------------------------------------
(***************************************************************************)
(* The inductive invariants behind the safety properties.                  *)
(***************************************************************************)
AluTypes ==
    /\ r \in [0..1 -> Int]
    /\ f \in Int \cup {NaN}
    /\ flags \in 0..(SignBit("Half") - 1)
    /\ checked \in BOOLEAN
    /\ todo \in Seq(Instruction)

(* What done says of an instruction *)
Executed ==
    [op : Integer \cup {"NEGATE", "COMPARE"} \cup Jumps, reg : Register, y : Int \cup {NaN},
     x : Int \cup {NaN}, flags : Nat]
    \cup [op : Conversions, reg : Register, y : IntTypes \cup {"Float"},
          x : Int \cup {NaN}, flags : Nat]
History ==
    /\ done \in Seq(Executed)
    /\ \A k \in 1..Len(done) :
         /\ [op |-> done[k].op, reg |-> done[k].reg, y |-> done[k].y] \in Instruction
         /\ done[k].reg.type # "Float" => done[k].x \in 0..(Size(done[k].reg.type) - 1)

(* The first instruction, unless it panicked or divided by zero, has left  *)
(* its result in its register and the flags that go with it.               *)
Plain == {"ADD", "SUB", "SDIV", "UDIV", "LSHIFT", "SRSHIFT", "URSHIFT"}
FirstEffect ==
    Len(done) = 1 /\ outcome # "panic" =>
      \A e \in {done[1]} :
        LET t == e.reg.type
            d == Computed(e.op, t, e.x, e.y)
        IN /\ e.op = "COMPARE" => flags = CompareFlags(t, e.x, e.y)
           /\ e.op \in Plain /\ ~(e.op \in Divisions /\ e.y = 0) /\ t # "Float" /\ e.reg # FLAGS
                => /\ read_from_register(e.reg) = d.ans
                   /\ flags = make_flags_int(Signed(t, d.ans), d.carry, d.overflow)

AluInv == AluTypes /\ History /\ FirstEffect
=============================================================================
