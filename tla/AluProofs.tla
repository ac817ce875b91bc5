----------------------------- MODULE AluProofs -----------------------------
(***************************************************************************)
(* Theorems about the arithmetic and comparison instructions, for integers *)
(* of any width.                                                           *)
(***************************************************************************)
EXTENDS Alu, Induction, TLAPS, FiniteSetTheorems

-----------------------------------------------------------------------------
(***************************************************************************)
(* Numbers.                                                                *)
(***************************************************************************)

(* Half of the numbers of a type have the sign bit set. *)
LEMMA Widths ==
    ASSUME NEW t \in IntTypes
    PROVE  /\ SignBit(t) \in Nat /\ SignBit(t) > 0
           /\ Size(t) \in Nat /\ Size(t) = 2 * SignBit(t)
           /\ Bits[t] \in Nat /\ Bits[t] > 0
<1>. DEFINE b == Bits[t] - 1
<1>1. Bits[t] \in Nat /\ Bits[t] > 0 /\ b \in 0..Bits[t] /\ b + 1 = Bits[t]
  BY BitsAssumption
<1>. HIDE DEF b
<1>2. 2^b \in Nat \ {0} /\ 2^(b + 1) = 2 * 2^b
  BY <1>1, PowersAssumption
<1>3. SignBit(t) = 2^b /\ Size(t) = 2^(b + 1)
  BY <1>1 DEF SignBit, Size, b
<1>. QED
  BY <1>1, <1>2, <1>3

(* Numbers that are at most once around the circle of S numbers. *)
LEMMA Wrap ==
    ASSUME NEW S \in Nat, S > 0, NEW v \in Int
    PROVE  /\ v % S \in 0..(S - 1)
           /\ v \in 0..(S - 1) => v % S = v
           /\ v \in S..(2 * S - 1) => v % S = v - S
           /\ v \in (-S)..(-1) => v % S = v + S
  OBVIOUS

(* What is read back from the flags. *)
LEMMA FlagsRead ==
    ASSUME NEW a \in Int, NEW c \in BOOLEAN, NEW o \in BOOLEAN
    PROVE  LET fl == make_flags_int(a, c, o)
           IN /\ fl \in 0..15
              /\ Has(fl, FLAG_ZERO) <=> a = 0
              /\ Has(fl, FLAG_NEGATIVE) <=> a < 0
              /\ Has(fl, FLAG_CARRY) <=> c
              /\ Has(fl, FLAG_OVERFLOW) <=> o
  BY DEF make_flags_int, If, Has, FLAG_ZERO, FLAG_NEGATIVE, FLAG_CARRY, FLAG_OVERFLOW

(* A number and its signed reading. *)
LEMMA SignedFacts ==
    ASSUME NEW t \in IntTypes, NEW x \in 0..(Size(t) - 1)
    PROVE  /\ Signed(t, x) \in (-SignBit(t))..(SignBit(t) - 1)
           /\ Signed(t, x) = x \/ Signed(t, x) = x - Size(t)
           /\ Signed(t, x) < 0 <=> x >= SignBit(t)
           /\ Signed(t, x) = 0 <=> x = 0
  BY Widths DEF Signed

(* Casting to the unsigned type and back keeps what fits, and no more. *)
LEMMA CastFacts ==
    ASSUME NEW t \in IntTypes, NEW v \in Int
    PROVE  /\ Unsigned(t, v) \in 0..(Size(t) - 1)
           /\ v \in 0..(Size(t) - 1) <=> Unsigned(t, v) = v
           /\ v \in (-SignBit(t))..(SignBit(t) - 1) <=> Signed(t, Unsigned(t, v)) = v
<1>1. /\ Size(t) \in Nat /\ Size(t) > 0 /\ Size(t) = 2 * SignBit(t)
      /\ SignBit(t) \in Nat /\ SignBit(t) > 0
  BY Widths
<1>2. Unsigned(t, v) \in 0..(Size(t) - 1)
  BY <1>1, Wrap DEF Unsigned
<1>3. v \in 0..(Size(t) - 1) => Unsigned(t, v) = v
  BY <1>1, Wrap DEF Unsigned
<1>4. v \in (-SignBit(t))..(-1) => Unsigned(t, v) = v + Size(t)
  BY <1>1, Wrap DEF Unsigned
<1>5. v \in (-SignBit(t))..(SignBit(t) - 1) => Signed(t, Unsigned(t, v)) = v
  BY <1>1, <1>3, <1>4 DEF Signed
<1>6. Signed(t, Unsigned(t, v)) \in (-SignBit(t))..(SignBit(t) - 1)
  BY <1>2, SignedFacts
<1>. QED
  BY <1>2, <1>3, <1>5, <1>6

(* A difference, its borrow and its overflow. *)
LEMMA SubFacts ==
    ASSUME NEW t \in IntTypes, NEW x \in 0..(Size(t) - 1), NEW y \in 0..(Size(t) - 1)
    PROVE  /\ Sub(t, x, y).ans = IF x < y THEN x - y + Size(t) ELSE x - y
           /\ Sub(t, x, y).ans \in 0..(Size(t) - 1)
           /\ Sub(t, x, y).carry \in BOOLEAN /\ Sub(t, x, y).overflow \in BOOLEAN
           /\ Sub(t, x, y).carry <=> x < y
           /\ Signed(t, Sub(t, x, y).ans) = 0 <=> x = y
           /\ (Signed(t, Sub(t, x, y).ans) < 0) # Sub(t, x, y).overflow
              <=> Signed(t, x) < Signed(t, y)
<1>. DEFINE S == Size(t)
            H == SignBit(t)
            d == Sub(t, x, y)
            v == Signed(t, x) - Signed(t, y)
<1>1. /\ S \in Nat /\ S > 0 /\ S = 2 * H /\ H \in Nat /\ H > 0
      /\ x \in Nat /\ x < S /\ y \in Nat /\ y < S
  BY Widths
<1>2. /\ Signed(t, x) = IF x >= H THEN x - S ELSE x
      /\ Signed(t, y) = IF y >= H THEN y - S ELSE y
  BY DEF Signed
<1>3. /\ d.ans = Unsigned(t, x - y)
      /\ d.carry = (x - y # Unsigned(t, x - y))
      /\ d.overflow = (v # Signed(t, Unsigned(t, v)))
  BY DEF Sub, bin_op_multisigned, Result
<1>. HIDE DEF d
<1>4. d.ans = IF x < y THEN x - y + S ELSE x - y
  <2>1. x - y \in Int /\ (x < y => x - y \in (-S)..(-1)) /\ (~(x < y) => x - y \in 0..(S - 1))
    BY <1>1
  <2>2. Unsigned(t, x - y) = (x - y) % S
    BY DEF Unsigned
  <2>. HIDE DEF S
  <2>. QED
    BY <1>1, <1>3, <2>1, <2>2, Wrap
<1>5. v \in Int
  <2>. HIDE DEF S, H
  <2>. QED
    BY <1>1, <1>2
<1>6. d.overflow \in BOOLEAN /\ (d.overflow <=> v \notin (-H)..(H - 1))
  <2>1. v \in (-H)..(H - 1) <=> Signed(t, Unsigned(t, v)) = v
    <3>. HIDE DEF v
    <3>. QED
      BY <1>5, CastFacts
  <2>. HIDE DEF v
  <2>. QED
    BY <1>3, <2>1
<1>7. Signed(t, d.ans) = IF d.ans >= H THEN d.ans - S ELSE d.ans
  BY DEF Signed
<1>. HIDE DEF S, H
<1>8. d.ans \in 0..(S - 1) /\ d.carry \in BOOLEAN /\ (d.carry <=> x < y)
  <2>1. d.ans \in 0..(S - 1) /\ (x - y # d.ans <=> x < y)
    BY <1>1, <1>4
  <2>2. d.carry = (x - y # d.ans)
    BY <1>3, Zenon
  <2>. QED
    BY <2>1, <2>2, Zenon
<1>9. /\ Signed(t, d.ans) = 0 <=> x = y
      /\ Signed(t, d.ans) < 0 <=> d.ans >= H
  BY <1>1, <1>4, <1>7
<1>10. CASE v \in (-H)..(H - 1)
  <2>1. d.ans >= H <=> Signed(t, x) < Signed(t, y)
    BY <1>1, <1>2, <1>4, <1>10
  <2>. QED
    BY <1>4, <1>6, <1>8, <1>9, <1>10, <2>1 DEF d, S
<1>11. CASE v \notin (-H)..(H - 1)
  <2>1. ~(d.ans >= H) <=> Signed(t, x) < Signed(t, y)
    BY <1>1, <1>2, <1>4, <1>11
  <2>. QED
    BY <1>4, <1>6, <1>8, <1>9, <1>11, <2>1 DEF d, S
<1>. QED
  BY <1>10, <1>11

(* The flags that COMPARE leaves decide every relation of integers. *)
LEMMA CompareIntegers ==
    ASSUME NEW t \in IntTypes, NEW x \in 0..(Size(t) - 1), NEW y \in 0..(Size(t) - 1),
           NEW j \in Jumps
    PROVE  Condition(j, CompareFlags(t, x, y)) <=> Relation(j, t, x, y)
<1>. DEFINE fl == CompareFlags(t, x, y)
            Z == Has(fl, FLAG_ZERO)
            C == Has(fl, FLAG_CARRY)
            Less == Has(fl, FLAG_NEGATIVE) # Has(fl, FLAG_OVERFLOW)
            sx == Signed(t, x)
            sy == Signed(t, y)
<1>1. /\ Z <=> x = y
      /\ C <=> x < y
      /\ Less <=> sx < sy
  <2>. DEFINE d == Sub(t, x, y)
  <2>1. fl = make_flags_int(Signed(t, d.ans), d.carry, d.overflow)
    BY DEF CompareFlags, IntTypes
  <2>2. Signed(t, d.ans) \in Int
    BY SubFacts, SignedFacts, Widths
  <2>3. /\ d.carry \in BOOLEAN /\ d.overflow \in BOOLEAN
        /\ d.carry <=> x < y
        /\ Signed(t, d.ans) = 0 <=> x = y
        /\ (Signed(t, d.ans) < 0) # d.overflow <=> sx < sy
    BY SubFacts
  <2>. HIDE DEF fl, d
  <2>4. /\ Has(fl, FLAG_ZERO) <=> Signed(t, d.ans) = 0
        /\ Has(fl, FLAG_NEGATIVE) <=> Signed(t, d.ans) < 0
        /\ Has(fl, FLAG_CARRY) <=> d.carry
        /\ Has(fl, FLAG_OVERFLOW) <=> d.overflow
    BY <2>1, <2>2, <2>3, FlagsRead
  <2>5. (Signed(t, d.ans) < 0) = Has(fl, FLAG_NEGATIVE) /\ d.overflow = Has(fl, FLAG_OVERFLOW)
    <3>1. (Signed(t, d.ans) < 0) \in BOOLEAN /\ Has(fl, FLAG_NEGATIVE) \in BOOLEAN
          /\ Has(fl, FLAG_OVERFLOW) \in BOOLEAN
      BY DEF Has
    <3>. QED
      BY <2>3, <2>4, <3>1, Zenon
  <2>. QED
    BY <2>3, <2>4, <2>5, Zenon
<1>2. /\ x \in Int /\ y \in Int /\ sx \in Int /\ sy \in Int
      /\ sx = sy <=> x = y
  BY Widths DEF Signed
<1>. HIDE DEF fl, Z, C, Less, sx, sy
<1>3. CASE j = "JEQUAL"
  BY <1>1, <1>3 DEF Condition, Relation, fl, Z
<1>4. CASE j = "JNOTEQUAL"
  BY <1>1, <1>4 DEF Condition, Relation, fl, Z
<1>5. CASE j = "SJGREATER"
  <2>1. ~Z /\ ~Less <=> sx > sy
    BY <1>1, <1>2
  <2>. QED
    BY <1>5, <2>1 DEF Condition, Relation, fl, Z, Less, sx, sy
<1>6. CASE j = "SJGREATEREQ"
  <2>1. Z \/ ~Less <=> sx >= sy
    BY <1>1, <1>2
  <2>. QED
    BY <1>6, <2>1 DEF Condition, Relation, fl, Z, Less, sx, sy
<1>7. CASE j = "UJGREATER"
  <2>1. ~C /\ ~Z <=> x > y
    BY <1>1, <1>2
  <2>. QED
    BY <1>7, <2>1 DEF Condition, Relation, fl, Z, C
<1>8. CASE j = "UJGREATEREQ"
  <2>1. ~C \/ Z <=> x >= y
    BY <1>1, <1>2
  <2>. QED
    BY <1>8, <2>1 DEF Condition, Relation, fl, Z, C
<1>9. CASE j = "SJLESSER"
  BY <1>1, <1>9 DEF Condition, Relation, fl, Less, sx, sy
<1>10. CASE j = "SJLESSEREQ"
  <2>1. Z \/ Less <=> sx <= sy
    BY <1>1, <1>2
  <2>. QED
    BY <1>10, <2>1 DEF Condition, Relation, fl, Z, Less, sx, sy
<1>11. CASE j = "UJLESSER"
  BY <1>1, <1>11 DEF Condition, Relation, fl, C
<1>12. CASE j = "UJLESSEREQ"
  <2>1. C \/ Z <=> x <= y
    BY <1>1, <1>2
  <2>. QED
    BY <1>12, <2>1 DEF Condition, Relation, fl, Z, C
<1>. QED
  BY <1>3, <1>4, <1>5, <1>6, <1>7, <1>8, <1>9, <1>10, <1>11, <1>12 DEF Jumps

(* With floats they decide those of the signed jumps, as long as the       *)
(* difference is a number.                                                 *)
LEMMA CompareFloats ==
    ASSUME NEW x \in Int \cup {NaN}, NEW y \in Int \cup {NaN},
           FloatDifference(x, y) # NaN, NEW j \in Jumps,
           j \notin {"UJGREATER", "UJGREATEREQ", "UJLESSER", "UJLESSEREQ"}
    PROVE  Condition(j, CompareFlags("Float", x, y)) <=> FloatRelation(j, x, y)
<1>. DEFINE fl == CompareFlags("Float", x, y)
            Z == Has(fl, FLAG_ZERO)
            Less == Has(fl, FLAG_NEGATIVE) # Has(fl, FLAG_OVERFLOW)
<1>1. x \in Int /\ y \in Int /\ FloatDifference(x, y) = x - y
  BY DEF FloatDifference
<1>2. fl = make_flags_int(x - y, FALSE, FALSE)
  BY <1>1 DEF CompareFlags, make_flags_float
<1>. HIDE DEF fl
<1>3. /\ Has(fl, FLAG_ZERO) <=> x - y = 0
      /\ Has(fl, FLAG_NEGATIVE) <=> x - y < 0
      /\ ~Has(fl, FLAG_OVERFLOW)
  <2>1. x - y \in Int
    BY <1>1
  <2>. QED
    BY <1>2, <2>1, FlagsRead
<1>4. Has(fl, FLAG_NEGATIVE) \in BOOLEAN /\ Has(fl, FLAG_OVERFLOW) \in BOOLEAN
  BY DEF Has
<1>5. Less <=> Has(fl, FLAG_NEGATIVE)
  BY <1>3, <1>4, Zenon
<1>6. /\ Z <=> x = y
      /\ Less <=> x < y
  BY <1>1, <1>3, <1>5
<1>. HIDE DEF Z, Less
<1>7. CASE j = "JEQUAL"
  BY <1>6, <1>7 DEF Condition, FloatRelation, fl, Z
<1>8. CASE j = "JNOTEQUAL"
  BY <1>6, <1>8 DEF Condition, FloatRelation, fl, Z
<1>9. CASE j = "SJGREATER"
  <2>1. ~Z /\ ~Less <=> x > y
    BY <1>1, <1>6
  <2>. QED
    BY <1>9, <2>1 DEF Condition, FloatRelation, fl, Z, Less
<1>10. CASE j = "SJGREATEREQ"
  <2>1. Z \/ ~Less <=> x >= y
    BY <1>1, <1>6
  <2>. QED
    BY <1>10, <2>1 DEF Condition, FloatRelation, fl, Z, Less
<1>11. CASE j = "SJLESSER"
  BY <1>6, <1>11 DEF Condition, FloatRelation, fl, Less
<1>12. CASE j = "SJLESSEREQ"
  <2>1. Z \/ Less <=> x <= y
    BY <1>1, <1>6
  <2>. QED
    BY <1>12, <2>1 DEF Condition, FloatRelation, fl, Z, Less
<1>. QED
  BY <1>7, <1>8, <1>9, <1>10, <1>11, <1>12 DEF Jumps

-----------------------------------------------------------------------------
(***************************************************************************)
(* The results of the integer instructions.                                *)
(***************************************************************************)

(* A sum of bits is a number. *)
LEMMA BitsType ==
    ASSUME NEW t \in IntTypes, NEW S
    PROVE  FromBits(t, S) \in Int
<1>. DEFINE b == Bits[t]
            bit(k) == If(k - 1 \in S, 2^(k - 1))
            G == [k \in 1..b |-> [v \in Int |-> v + bit(k)]]
            sum == BitSum(b, S)
<1>1. b \in Nat
  BY Widths
<1>2. ASSUME NEW k \in 1..b PROVE bit(k) \in Int
  <2>1. k - 1 \in 0..Bits[t]
    BY <1>1
  <2>. HIDE DEF b
  <2>2. 2^(k - 1) \in Nat
    BY <2>1, PowersAssumption
  <2>. QED
    BY <2>2 DEF If
<1>. HIDE DEF bit, b
<1>3. G \in [1..b -> [Int -> Int]] /\ \A k \in 1..b : \A v \in Int : G[k][v] = v + bit(k)
  BY <1>2
<1>. HIDE DEF G
<1>4. PICK h \in [0..b -> Int] : h[0] = 0 /\ \A k \in 1..b : h[k] = G[k][h[k - 1]]
  <2>. DEFINE V == Int
              base == 0
  <2>. HIDE DEF V, base
  <2>1. base \in V /\ G \in [1..b -> [V -> V]]
    BY <1>3 DEF V, base
  <2>2. Recursive(b, V, base, G)
    BY <1>1, <2>1, Recursion
  <2>. QED
    BY <2>2 DEF V, base, Recursive
<1>5. h = [k \in 0..b |-> IF k = 0 THEN 0 ELSE h[k - 1] + bit(k)]
  <2>1. \A k \in 0..b : h[k] = IF k = 0 THEN 0 ELSE h[k - 1] + bit(k)
    <3>1. ASSUME NEW k \in 0..b, k # 0 PROVE h[k] = h[k - 1] + bit(k)
      <4>1. k \in 1..b /\ k - 1 \in 0..b
        BY <1>1, <3>1
      <4>2. h[k - 1] \in Int
        BY <4>1
      <4>. QED
        BY <1>3, <1>4, <4>1, <4>2
    <3>. QED
      BY <1>4, <3>1
  <2>. QED
    BY <2>1
<1>6. sum = CHOOSE g : g = [k \in 0..b |-> IF k = 0 THEN 0 ELSE g[k - 1] + bit(k)]
  BY DEF BitSum, bit
<1>. HIDE DEF sum
<1>7. sum = [k \in 0..b |-> IF k = 0 THEN 0 ELSE sum[k - 1] + bit(k)]
  BY <1>5, <1>6, Zenon
<1>8. sum[0] = 0 /\ \A k \in 1..b : sum[k] = sum[k - 1] + bit(k)
  <2>1. \A k \in 0..b : sum[k] = IF k = 0 THEN 0 ELSE sum[k - 1] + bit(k)
    BY <1>7, Zenon
  <2>2. 0 \in 0..b /\ \A k \in 1..b : k \in 0..b /\ k # 0
    BY <1>1
  <2>. QED
    BY <2>1, <2>2, Zenon
<1>9. \A k \in 0..b : k \in {m \in 0..b : sum[m] \in Int}
  <2>. DEFINE T == {m \in 0..b : sum[m] \in Int}
  <2>1. 0 \in T
    BY <1>1, <1>8
  <2>2. ASSUME NEW k \in 0..(b - 1), k \in T PROVE k + 1 \in T
    <3>1. k + 1 \in 1..b /\ k + 1 \in 0..b /\ (k + 1) - 1 = k
      BY <1>1
    <3>2. sum[k + 1] = sum[(k + 1) - 1] + bit(k + 1)
      BY <1>8, <3>1
    <3>. QED
      BY <1>2, <2>2, <3>1, <3>2
  <2>3. \A k \in 0..(b - 1) : k \in T => k + 1 \in T
    BY <2>2
  <2>. HIDE DEF T
  <2>4. \A k \in 0..b : k \in T
    BY <1>1, <2>1, <2>3, InductionTo
  <2>. QED
    BY <2>4 DEF T
<1>10. sum[b] \in Int
  <2>1. b \in 0..b
    BY <1>1
  <2>. QED
    BY <1>9, <2>1
<1>. QED
  BY <1>10 DEF FromBits, sum, b

(* A register and the carry *)
WithCarry(t) == [ans : 0..(Size(t) - 1), carry : BOOLEAN]

(* One position to the left or to the right. *)
LEMMA PositionType ==
    ASSUME NEW t \in IntTypes, NEW s \in WithCarry(t)
    PROVE  rcl(t, s) \in WithCarry(t) /\ rcr(t, s) \in WithCarry(t)
<1>. DEFINE S == Size(t)
            H == SignBit(t)
            x == s.ans
<1>1. /\ S \in Nat /\ S > 0 /\ S = 2 * H /\ H \in Nat /\ H > 0
      /\ x \in Nat /\ x < S /\ s.carry \in BOOLEAN
  BY Widths DEF WithCarry
<1>2. If(s.carry, 1) \in 0..1 /\ If(s.carry, SignBit(t)) \in {0, H}
  BY <1>1 DEF If
<1>3. Unsigned(t, x * 2) = IF x < H THEN 2 * x ELSE 2 * x - S
  <2>1. Unsigned(t, x * 2) = (2 * x) % S
    BY <1>1 DEF Unsigned
  <2>. HIDE DEF S, H, x
  <2>2. 2 * x \in Int /\ (x < H => 2 * x \in 0..(S - 1)) /\ (~(x < H) => 2 * x \in S..(2 * S - 1))
    BY <1>1
  <2>. QED
    BY <1>1, <2>1, <2>2, Wrap
<1>4. rcl(t, s).ans \in 0..(S - 1)
  <2>1. rcl(t, s).ans = Unsigned(t, x * 2) + If(s.carry, 1)
    BY DEF rcl
  <2>. HIDE DEF S, H, x
  <2>. QED
    BY <1>1, <1>2, <1>3, <2>1
<1>5. rcr(t, s).ans \in 0..(S - 1)
  <2>1. rcr(t, s).ans = x \div 2 + If(s.carry, SignBit(t))
    BY DEF rcr
  <2>. HIDE DEF S, H, x
  <2>2. x \div 2 \in Nat /\ x \div 2 < H
    BY <1>1
  <2>. QED
    BY <1>1, <1>2, <2>1, <2>2
<1>. QED
  BY <1>4, <1>5 DEF rcl, rcr, WithCarry

(* Every position of a rotation follows from the one before. *)
LEMMA RotationsFacts ==
    ASSUME NEW t \in IntTypes, NEW x \in 0..(Size(t) - 1), NEW c \in BOOLEAN,
           NEW n \in Nat, NEW op
    PROVE  LET a == Rotations(t, x, c, n, op)
           IN /\ a \in [0..n -> WithCarry(t)]
              /\ a[0] = [ans |-> x, carry |-> c]
              /\ \A k \in 1..n : a[k] = IF op = "rcl" THEN rcl(t, a[k - 1]) ELSE rcr(t, a[k - 1])
<1>. DEFINE V == WithCarry(t)
            base == [ans |-> x, carry |-> c]
            step(v) == IF op = "rcl" THEN rcl(t, v) ELSE rcr(t, v)
            G == [k \in 1..n |-> [v \in V |-> step(v)]]
            a == Rotations(t, x, c, n, op)
<1>1. base \in V
  BY DEF WithCarry
<1>2. \A v \in V : step(v) \in V
  BY PositionType
<1>3. a = CHOOSE h : h = [k \in 0..n |-> IF k = 0 THEN base ELSE step(h[k - 1])]
  BY DEF Rotations
<1>. HIDE DEF V, base, step, a
<1>4. G \in [1..n -> [V -> V]] /\ \A k \in 1..n : \A v \in V : G[k][v] = step(v)
  BY <1>2
<1>. HIDE DEF G
<1>5. Recursive(n, V, base, G)
  BY <1>1, <1>4, Recursion
<1>6. PICK h \in [0..n -> V] : h[0] = base /\ \A k \in 1..n : h[k] = G[k][h[k - 1]]
  BY <1>5 DEF Recursive
<1>7. \A k \in 0..n : h[k] = IF k = 0 THEN base ELSE step(h[k - 1])
  <2>1. ASSUME NEW k \in 0..n, k # 0 PROVE h[k] = step(h[k - 1])
    <3>1. k \in 1..n /\ k - 1 \in 0..n
      BY <2>1
    <3>2. h[k - 1] \in V
      BY <3>1
    <3>. QED
      BY <1>4, <1>6, <3>1, <3>2
  <2>. QED
    BY <1>6, <2>1
<1>8. h = [k \in 0..n |-> IF k = 0 THEN base ELSE step(h[k - 1])]
  BY <1>7
<1>9. a = [k \in 0..n |-> IF k = 0 THEN base ELSE step(a[k - 1])]
  BY <1>3, <1>8, Zenon
<1>10. \A k \in 0..n : a[k] = IF k = 0 THEN base ELSE step(a[k - 1])
  BY <1>9, Zenon
<1>11. a[0] = base /\ \A k \in 1..n : a[k] = step(a[k - 1])
  <2>1. 0 \in 0..n /\ \A k \in 1..n : k \in 0..n /\ k # 0
    OBVIOUS
  <2>. QED
    BY <1>10, <2>1, Zenon
<1>12. \A k \in 0..n : a[k] \in V
  <2>. DEFINE T == {m \in 0..n : a[m] \in V}
  <2>1. 0 \in T
    BY <1>1, <1>11
  <2>2. ASSUME NEW k \in 0..(n - 1), k \in T PROVE k + 1 \in T
    <3>1. k + 1 \in 1..n /\ k + 1 \in 0..n /\ (k + 1) - 1 = k
      OBVIOUS
    <3>2. a[k + 1] = step(a[k])
      BY <1>11, <3>1
    <3>. QED
      BY <1>2, <2>2, <3>1, <3>2
  <2>3. \A k \in 0..(n - 1) : k \in T => k + 1 \in T
    BY <2>2
  <2>. HIDE DEF T
  <2>4. \A k \in 0..n : k \in T
    BY <2>1, <2>3, InductionTo
  <2>. QED
    BY <2>4 DEF T
<1>13. a \in [0..n -> V]
  <2>1. a = [k \in 0..n |-> a[k]]
    BY <1>9
  <2>. QED
    BY <1>12, <2>1
<1>. QED
  BY <1>11, <1>13 DEF a, V, base, step

(* The operand that the decoder lets through *)
Operands(op, t) == IF op \in Shifting THEN Nat ELSE 0..(Size(t) - 1)

(* Every result is a number with a carry and an overflow. *)
LEMMA ResultType ==
    ASSUME NEW t \in IntTypes, NEW x \in 0..(Size(t) - 1),
           NEW op \in Integer, NEW y \in Operands(op, t), op \in Divisions => y # 0
    PROVE  LET d == Computed(op, t, x, y)
           IN d.ans \in Int /\ d.carry \in BOOLEAN /\ d.overflow \in BOOLEAN
<1>. DEFINE S == Size(t)
            Fine(d) == d.ans \in Int /\ d.carry \in BOOLEAN /\ d.overflow \in BOOLEAN
<1>. SUFFICES Fine(Computed(op, t, x, y))
  OBVIOUS
<1>1. /\ S \in Nat /\ S > 0 /\ x \in Nat /\ x < S
      /\ SignBit(t) \in Nat /\ Bits[t] \in Nat /\ Bits[t] > 0
  BY Widths
<1>2. ASSUME NEW v \in Int PROVE Unsigned(t, v) \in Int
  BY <1>1, CastFacts
<1>3. ASSUME NEW u \in Int, NEW v PROVE Fine(bin_op_multisigned(t, u, v))
  BY <1>2 DEF bin_op_multisigned, Result
<1>4. ASSUME NEW v \in Int, NEW o \in BOOLEAN PROVE Fine(bin_op_signed(t, v, o))
  BY <1>2 DEF bin_op_signed, Result
<1>5. ASSUME NEW v \in Int PROVE Fine(bin_op_unsigned(v))
  BY DEF bin_op_unsigned, Result
<1>6. Signed(t, x) \in Int
  BY <1>1 DEF Signed
<1>. HIDE DEF S, Fine
<1>7. CASE op \in {"ADD", "ADDCARRY", "SUB", "SUBBORROW", "MULT"}
  <2>1. y \in Int
    BY <1>1, <1>7 DEF Operands, Shifting, S
  <2>2. Incremented(t, y) \in Int
    <3>1. y + If(Has(flags, FLAG_CARRY), 1) \in Int
      BY <2>1 DEF If
    <3>. QED
      BY <1>2, <3>1 DEF Incremented
  <2>3. \A v \in Int : x + v \in Int /\ x - v \in Int /\ x * v \in Int
    BY <1>1
  <2>4. CASE op \in {"ADD", "ADDCARRY"}
    BY <1>3, <2>1, <2>2, <2>3, <2>4 DEF Computed, Add
  <2>5. CASE op \in {"SUB", "SUBBORROW"}
    BY <1>3, <2>1, <2>2, <2>3, <2>5 DEF Computed, Sub
  <2>6. CASE op = "MULT"
    BY <1>3, <2>1, <2>3, <2>6 DEF Computed, Mult
  <2>. QED
    BY <1>7, <2>4, <2>5, <2>6
<1>8. CASE op \in Divisions
  <2>1. y \in Int /\ y > 0 /\ y < S
    BY <1>1, <1>8 DEF Operands, Shifting, Divisions, S
  <2>. DEFINE sx == Signed(t, x)
              sy == Signed(t, y)
              q == Truncated(sx, sy)
  <2>2. sy \in Int /\ sy # 0 /\ sx \in Int
    BY <1>1, <1>6, <2>1 DEF Signed, S
  <2>3. q \in Int
    <3>. HIDE DEF sx, sy
    <3>1. Magnitude(sx) \in Nat /\ Magnitude(sy) \in Nat /\ Magnitude(sy) > 0
      BY <2>2 DEF Magnitude
    <3>2. Magnitude(sx) \div Magnitude(sy) \in Int
      BY <3>1
    <3>. QED
      BY <3>2 DEF Truncated
  <2>4. sx - sy * q \in Int
    <3>. HIDE DEF sx, sy, q
    <3>. QED
      BY <2>2, <2>3
  <2>5. DivOverflows(t, x, y) \in BOOLEAN
    BY DEF DivOverflows
  <2>6. x \div y \in Int /\ x % y \in Int
    BY <1>1, <2>1
  <2>7. CASE op = "SDIV"
    BY <1>4, <2>3, <2>5, <2>7 DEF Computed, SDiv
  <2>8. CASE op = "SREM"
    BY <1>4, <2>4, <2>5, <2>8 DEF Computed, SRem
  <2>9. CASE op = "UDIV"
    BY <1>5, <2>6, <2>9 DEF Computed, UDiv
  <2>10. CASE op = "UREM"
    BY <1>5, <2>6, <2>10 DEF Computed, URem
  <2>. QED
    BY <1>8, <2>7, <2>8, <2>9, <2>10 DEF Divisions
<1>9. CASE op \in {"AND", "OR", "XOR", "NOT"}
  <2>1. CASE op = "AND"
    BY <1>5, <2>1, BitsType DEF Computed, And
  <2>2. CASE op = "OR"
    BY <1>5, <2>2, BitsType DEF Computed, Or
  <2>3. CASE op = "XOR"
    BY <1>5, <2>3, BitsType DEF Computed, Xor
  <2>4. CASE op = "NOT"
    <3>1. Size(t) - 1 - x \in Int
      BY <1>1 DEF S
    <3>. QED
      BY <1>5, <2>4, <3>1 DEF Computed
  <2>. QED
    BY <1>9, <2>1, <2>2, <2>3, <2>4
<1>10. CASE op \in Shifting
  <2>1. y \in Nat
    BY <1>10 DEF Operands
  <2>2. ASSUME NEW k \in Nat, k <= Bits[t] PROVE 2^k \in Nat /\ 2^k > 0
    <3>1. k \in 0..Bits[t]
      BY <1>1, <2>2
    <3>. QED
      BY <3>1, PowersAssumption
  <2>3. CASE op \in {"LSHIFT", "SRSHIFT", "URSHIFT"}
    <3>1. CASE y < Bits[t]
      <4>. DEFINE p == 2^y
      <4>1. p \in Nat /\ p > 0
        BY <1>1, <2>1, <2>2, <3>1
      <4>2. x * p \in Int /\ Signed(t, x) \div p \in Int /\ x \div p \in Int
        <5>. HIDE DEF p
        <5>. QED
          BY <1>1, <1>6, <4>1
      <4>3. Unsigned(t, x * p) \in Int /\ Unsigned(t, Signed(t, x) \div p) \in Int
        BY <1>2, <4>2
      <4>. HIDE DEF p
      <4>4. Fine(LShift(t, x, y))
        BY <3>1, <4>3 DEF LShift, Result, Fine, p
      <4>5. Fine(SRShift(t, x, y))
        BY <3>1, <4>3 DEF SRShift, Result, Fine, p
      <4>6. Fine(URShift(t, x, y))
        BY <3>1, <4>2 DEF URShift, Result, Fine, p
      <4>. QED
        BY <2>3, <4>4, <4>5, <4>6 DEF Computed
    <3>2. CASE ~(y < Bits[t])
      <4>1. If(Signed(t, x) < 0, Size(t) - 1) \in Int
        BY <1>1 DEF If, S
      <4>2. Fine(LShift(t, x, y)) /\ Fine(URShift(t, x, y))
        BY <3>2 DEF LShift, URShift, Result, Fine
      <4>3. Fine(SRShift(t, x, y))
        BY <3>2, <4>1 DEF SRShift, Result, Fine
      <4>. QED
        BY <2>3, <4>2, <4>3 DEF Computed
    <3>. QED
      BY <3>1, <3>2
  <2>4. ASSUME NEW n \in Int PROVE Fine(LRot(t, x, n))
    <3>. DEFINE k == n % Bits[t]
                p == 2^k
                m == 2^(Bits[t] - k)
    <3>1. k \in Nat /\ k <= Bits[t] /\ Bits[t] - k \in Nat /\ Bits[t] - k <= Bits[t]
      BY <1>1
    <3>2. p \in Nat /\ m \in Nat /\ m > 0
      <4>. HIDE DEF k
      <4>. QED
        BY <2>2, <3>1
    <3>. HIDE DEF k, p, m
    <3>3. x * p \in Int /\ x \div m \in Int
      BY <1>1, <3>2
    <3>4. Unsigned(t, x * p) + x \div m \in Int
      BY <1>2, <3>3
    <3>. QED
      BY <1>5, <3>4 DEF LRot, k, p, m
  <2>5. CASE op = "LROT"
    BY <2>1, <2>4, <2>5 DEF Computed
  <2>6. CASE op = "RROT"
    <3>1. Bits[t] - (y % Bits[t]) \in Int
      BY <1>1, <2>1
    <3>. QED
      BY <2>4, <2>6, <3>1 DEF Computed, RRot
  <2>7. CASE op \in {"LROTCARRY", "RROTCARRY"}
    <3>1. ASSUME NEW o PROVE Fine(bin_op_rotate_carry(t, x, y, o))
      <4>. DEFINE a == Rotations(t, x, Has(flags, FLAG_CARRY), y, o)
      <4>1. a \in [0..y -> WithCarry(t)]
        <5>1. Has(flags, FLAG_CARRY) \in BOOLEAN
          BY DEF Has
        <5>. QED
          BY <2>1, <5>1, RotationsFacts
      <4>2. bin_op_rotate_carry(t, x, y, o) = Result(a[y].ans, a[y].carry, FALSE)
        BY DEF bin_op_rotate_carry
      <4>. HIDE DEF a
      <4>3. a[y] \in WithCarry(t)
        BY <2>1, <4>1
      <4>4. a[y].ans \in Int /\ a[y].carry \in BOOLEAN
        BY <1>1, <4>3 DEF WithCarry, S
      <4>. QED
        BY <4>2, <4>4 DEF Result, Fine
    <3>. QED
      BY <2>7, <3>1 DEF Computed
  <2>. QED
    BY <1>10, <2>3, <2>5, <2>6, <2>7 DEF Shifting
<1>11. Integer = {"ADD", "ADDCARRY", "SUB", "SUBBORROW", "MULT"} \cup Divisions
                 \cup {"AND", "OR", "XOR", "NOT"} \cup Shifting
  BY DEF Integer, Divisions, Shifting
<1>. QED
  BY <1>7, <1>8, <1>9, <1>10, <1>11

-----------------------------------------------------------------------------
(***************************************************************************)
(* The steps.                                                              *)
(***************************************************************************)

(* What the decoder guarantees of an instruction. *)
LEMMA InstructionFacts ==
    ASSUME NEW i \in Instruction
    PROVE  /\ i.reg \in Register
           /\ i = [op |-> i.op, reg |-> i.reg, y |-> i.y]
           /\ i.reg.type \in IntTypes \cup {"Float"}
           /\ i.reg.type # "Float" => i.reg.type \in IntTypes
           /\ i.op \in Integer /\ i.reg.type # "Float" => i.y \in Operands(i.op, i.reg.type)
           /\ i.op = "COMPARE" => i.y \in TypedValue(i.reg.type)
           /\ i.op \in Integer \/ i.op = "COMPARE" => i.y \in Int \cup {NaN}
<1>1. i.reg \in Register /\ i = [op |-> i.op, reg |-> i.reg, y |-> i.y]
  BY DEF Instruction
<1>2. i.reg.type \in IntTypes \cup {"Float"}
  BY <1>1 DEF Register, FLAGS, IntTypes
<1>3. CASE i.op \in Integer \/ i.op = "COMPARE"
  <2>1. i.op \notin Conversions
    BY <1>3 DEF Integer, Conversions
  <2>2. /\ i.y \in Int \cup {NaN}
        /\ i.y \in IF i.op \in Shifting THEN Nat ELSE TypedValue(i.reg.type)
    BY <2>1 DEF Instruction
  <2>3. i.op = "COMPARE" => i.op \notin Shifting /\ i.op \notin Integer
    BY DEF Shifting, Integer
  <2>4. i.reg.type # "Float" => TypedValue(i.reg.type) = 0..(Size(i.reg.type) - 1)
    BY DEF TypedValue
  <2>. QED
    BY <1>1, <1>2, <2>2, <2>3, <2>4 DEF Operands
<1>4. CASE ~(i.op \in Integer \/ i.op = "COMPARE")
  BY <1>1, <1>2, <1>4
<1>. QED
  BY <1>3, <1>4

(* What is read from a register. *)
LEMMA ReadType ==
    ASSUME AluTypes, NEW reg \in Register
    PROVE  /\ reg.type = "Float" => read_from_register(reg) \in Int \cup {NaN}
           /\ reg.type # "Float" => read_from_register(reg) \in 0..(Size(reg.type) - 1)
<1>1. CASE reg.type = "Float"
  BY <1>1 DEF read_from_register, AluTypes
<1>2. CASE reg = FLAGS
  <2>1. reg.type = "Half" /\ "Half" \in IntTypes
    BY <1>2 DEF FLAGS, IntTypes
  <2>2. read_from_register(reg) = flags
    BY <1>2, <2>1 DEF read_from_register
  <2>. QED
    BY <2>1, <2>2, Widths DEF AluTypes
<1>3. CASE reg.type # "Float" /\ reg # FLAGS
  <2>1. reg.type \in IntTypes /\ reg.n \in 0..1
    BY <1>3 DEF Register
  <2>2. read_from_register(reg) = r[reg.n] % Size(reg.type)
    BY <1>3 DEF read_from_register
  <2>3. r[reg.n] \in Int
    BY <2>1 DEF AluTypes
  <2>4. Size(reg.type) \in Nat /\ Size(reg.type) > 0
    BY <2>1, Widths
  <2>. QED
    BY <1>3, <2>2, <2>3, <2>4, Wrap
<1>. QED
  BY <1>1, <1>2, <1>3 DEF FLAGS

(* A write keeps the registers what they are. *)
LEMMA WriteType ==
    ASSUME AluTypes, NEW reg \in Register, NEW x \in Int \cup {NaN},
           reg.type # "Float" => x \in Int, write_to_register(reg, x)
    PROVE  r' \in [0..1 -> Int] /\ f' \in Int \cup {NaN}
<1>1. f' \in Int \cup {NaN}
  BY DEF write_to_register, AluTypes
<1>2. CASE reg.type = "Float" \/ reg = FLAGS
  BY <1>1, <1>2 DEF write_to_register, AluTypes
<1>3. CASE ~(reg.type = "Float" \/ reg = FLAGS)
  <2>1. reg.type \in IntTypes /\ reg.n \in 0..1
    BY <1>3 DEF Register
  <2>2. r \in [0..1 -> Int] /\ r[reg.n] \in Int
    BY <2>1 DEF AluTypes
  <2>3. r[reg.n] % Size(reg.type) \in Int
    BY <2>1, <2>2, Widths
  <2>4. WrittenWord(reg, x) \in Int
    BY <1>3, <2>2, <2>3 DEF WrittenWord
  <2>5. r' = [r EXCEPT ![reg.n] = WrittenWord(reg, x)]
    BY <1>3 DEF write_to_register
  <2>. QED
    BY <1>1, <2>2, <2>4, <2>5
<1>. QED
  BY <1>2, <1>3

(* The flags fit below the top bit of FLAGS. *)
LEMMA FlagsFit ==
    ASSUME NEW fl \in 0..15
    PROVE  fl \in 0..(SignBit("Half") - 1)
<1>1. SignBit("Half") \in Nat
  BY Widths DEF IntTypes
<1>. QED
  BY <1>1, FlagsAssumption

(* Every instruction that ends is recorded with what it met. *)
LEMMA EndsFacts ==
    ASSUME AluTypes, History, todo # <<>>, NEW result, Ends(result)
    PROVE  LET i == Head(todo)
               e == [op |-> i.op, reg |-> i.reg, y |-> i.y,
                     x |-> read_from_register(i.reg), flags |-> flags]
           IN /\ i \in Instruction
              /\ History'
              /\ todo' \in Seq(Instruction) /\ checked' \in BOOLEAN
              /\ Len(done') = Len(done) + 1 /\ Len(done) \in Nat
              /\ done'[Len(done) + 1] = e
              /\ \A k \in 1..Len(done) : done'[k] = done[k]
              /\ checked' = checked /\ outcome' = result
<1>. DEFINE i == Head(todo)
            x == read_from_register(i.reg)
            e == [op |-> i.op, reg |-> i.reg, y |-> i.y, x |-> x, flags |-> flags]
<1>1. i \in Instruction /\ Tail(todo) \in Seq(Instruction)
  BY DEF AluTypes
<1>2. /\ done' = Append(done, e) /\ todo' = Tail(todo) /\ checked' = checked
      /\ outcome' = result
  BY DEF Ends
<1>3. checked \in BOOLEAN
  BY DEF AluTypes
<1>4. /\ i.reg.type = "Float" => x \in Int \cup {NaN}
      /\ i.reg.type # "Float" => x \in 0..(Size(i.reg.type) - 1)
      /\ x \in Int \cup {NaN}
  <2>1. i.reg \in Register /\ (i.reg.type # "Float" => i.reg.type \in IntTypes)
    BY <1>1, InstructionFacts
  <2>2. /\ i.reg.type = "Float" => x \in Int \cup {NaN}
        /\ i.reg.type # "Float" => x \in 0..(Size(i.reg.type) - 1)
    BY <2>1, ReadType
  <2>. QED
    BY <2>1, <2>2, Widths
<1>5. flags \in Nat
  <2>1. SignBit("Half") \in Nat
    BY Widths DEF IntTypes
  <2>. QED
    BY <2>1 DEF AluTypes
<1>. HIDE DEF x
<1>6. e \in Executed
  BY <1>1, <1>4, <1>5 DEF Instruction, Executed
<1>7. /\ e.op = i.op /\ e.reg = i.reg /\ e.y = i.y /\ e.x = x /\ e.flags = flags
      /\ [op |-> e.op, reg |-> e.reg, y |-> e.y] \in Instruction
  BY <1>1, InstructionFacts
<1>. HIDE DEF e, i
<1>8. /\ done \in Seq(Executed) /\ Len(done) \in Nat
      /\ done' \in Seq(Executed) /\ Len(done') = Len(done) + 1
      /\ done'[Len(done) + 1] = e
      /\ \A k \in 1..Len(done) : done'[k] = done[k]
  BY <1>2, <1>6 DEF History
<1>9. ASSUME NEW k \in 1..Len(done')
      PROVE  /\ [op |-> done'[k].op, reg |-> done'[k].reg, y |-> done'[k].y] \in Instruction
             /\ done'[k].reg.type # "Float" => done'[k].x \in 0..(Size(done'[k].reg.type) - 1)
  <2>1. CASE k \in 1..Len(done)
    BY <1>8, <2>1 DEF History
  <2>2. CASE k = Len(done) + 1
    BY <1>4, <1>7, <1>8, <2>2
  <2>. QED
    BY <1>8, <2>1, <2>2
<1>10. History'
  BY <1>8, <1>9 DEF History
<1>. QED
  BY <1>1, <1>2, <1>3, <1>8, <1>10 DEF i, e, x

(* Every step executes the next instruction. *)
LEMMA Ending ==
    ASSUME Next
    PROVE  /\ todo # <<>> /\ outcome # "panic"
           /\ Ends(outcome')
<1>1. ASSUME NEW op, Executing(op) PROVE todo # <<>> /\ outcome # "panic"
  BY <1>1 DEF Executing
<1>2. ASSUME NEW result, Ends(result) PROVE Ends(outcome')
  <2>1. outcome' = result
    BY <1>2 DEF Ends
  <2>. QED
    BY <1>2, <2>1
<1>3. ASSUME NEW op \in Integer, IntegerInstruction(op) PROVE Executing(op) /\ Ends("ok")
  BY <1>3 DEF IntegerInstruction
<1>4. ASSUME NEW op \in Integer, DivideByZero(op)
      PROVE  Executing(op) /\ Ends("INTERRUPT_DIV_BY_0")
  BY <1>4 DEF DivideByZero, ChangesNothing
<1>5. ASSUME NEW op \in Integer, IncrementPanics(op) PROVE Executing(op) /\ Ends("panic")
  BY <1>5 DEF IncrementPanics, ChangesNothing
<1>6. ASSUME NEW op \in FloatOps, FloatInstruction(op) PROVE Executing(op) /\ Ends("ok")
  BY <1>6 DEF FloatInstruction
<1>7. ASSUME Negate PROVE Executing("NEGATE") /\ (Ends("ok") \/ Ends("panic"))
  BY <1>7 DEF Negate, ChangesNothing
<1>8. ASSUME Compare PROVE Executing("COMPARE") /\ Ends("ok")
  BY <1>8 DEF Compare
<1>9. ASSUME NEW op \in Conversions, Convert(op) PROVE Executing(op) /\ Ends("ok")
  BY <1>9 DEF Convert
<1>10. ASSUME NEW op \in Conversions, ConvertRejected(op)
       PROVE  Executing(op) /\ Ends("INTERRUPT_ILLEGAL_OPERATION")
  BY <1>10 DEF ConvertRejected, ChangesNothing
<1>11. ASSUME NEW j \in Jumps, Jump(j) PROVE Executing(j) /\ Ends("ok")
  BY <1>11 DEF Jump, ChangesNothing
<1>. QED
  BY <1>1, <1>2, <1>3, <1>4, <1>5, <1>6, <1>7, <1>8, <1>9, <1>10, <1>11 DEF Next

(* An integer instruction that neither panics nor divides by zero does     *)
(* what it should.                                                         *)
LEMMA IntegerEffect ==
    ASSUME Next, Head(todo).op \in Integer, Head(todo).reg.type # "Float", outcome' # "panic",
           ~(Head(todo).op \in Divisions /\ Head(todo).y = 0)
    PROVE  IntegerInstruction(Head(todo).op)
<1>. DEFINE o == Head(todo).op
<1>1. /\ o # "NEGATE" /\ o # "COMPARE" /\ o \notin Conversions /\ o \notin Jumps
  BY DEF Integer, Conversions, Jumps
<1>2. ASSUME NEW op, Executing(op) PROVE o = op
  BY <1>2 DEF Executing
<1>. HIDE DEF o
<1>3. ASSUME NEW op \in Integer, IntegerInstruction(op) PROVE IntegerInstruction(o)
  BY <1>2, <1>3 DEF IntegerInstruction
<1>4. ASSUME NEW op \in Integer, DivideByZero(op) PROVE FALSE
  BY <1>2, <1>4 DEF DivideByZero, o
<1>5. ASSUME NEW op \in Integer, IncrementPanics(op) PROVE FALSE
  BY <1>5 DEF IncrementPanics, ChangesNothing, Ends
<1>6. ASSUME NEW op \in FloatOps, FloatInstruction(op) PROVE FALSE
  BY <1>6 DEF FloatInstruction
<1>7. ~Negate
  BY <1>1, <1>2 DEF Negate
<1>8. ~Compare
  BY <1>1, <1>2 DEF Compare
<1>9. ASSUME NEW op \in Conversions, Convert(op) \/ ConvertRejected(op) PROVE FALSE
  BY <1>1, <1>2, <1>9 DEF Convert, ConvertRejected
<1>10. ASSUME NEW j \in Jumps, Jump(j) PROVE FALSE
  BY <1>1, <1>2, <1>10 DEF Jump
<1>. QED
  BY <1>3, <1>4, <1>5, <1>6, <1>7, <1>8, <1>9, <1>10 DEF Next, o

(* COMPARE and the jumps do what they should. *)
LEMMA CompareEffect ==
    ASSUME Next, Head(todo).op = "COMPARE"
    PROVE  Compare
<1>1. "COMPARE" \notin Integer /\ "COMPARE" \notin FloatOps /\ "COMPARE" \notin Conversions
      /\ "COMPARE" \notin Jumps /\ "COMPARE" # "NEGATE"
  BY DEF Integer, FloatOps, Conversions, Jumps
<1>2. ASSUME NEW op, Executing(op) PROVE op = "COMPARE"
  BY <1>2 DEF Executing
<1>3. ASSUME NEW op \in Integer PROVE ~(IntegerInstruction(op) \/ DivideByZero(op) \/ IncrementPanics(op))
  BY <1>1, <1>2 DEF IntegerInstruction, DivideByZero, IncrementPanics
<1>4. ASSUME NEW op \in FloatOps PROVE ~FloatInstruction(op)
  BY <1>1, <1>2 DEF FloatInstruction
<1>5. ~Negate
  BY <1>1, <1>2 DEF Negate
<1>6. ASSUME NEW op \in Conversions PROVE ~(Convert(op) \/ ConvertRejected(op))
  BY <1>1, <1>2 DEF Convert, ConvertRejected
<1>7. ASSUME NEW j \in Jumps PROVE ~Jump(j)
  BY <1>1, <1>2 DEF Jump
<1>. QED
  BY <1>3, <1>4, <1>5, <1>6, <1>7 DEF Next

(* The registers and the flags stay what they are. *)
LEMMA TypesStep ==
    ASSUME AluTypes, History, Next
    PROVE  AluTypes'
<1>. DEFINE i == Head(todo)
            Fine == r' \in [0..1 -> Int] /\ f' \in Int \cup {NaN}
                    /\ flags' \in 0..(SignBit("Half") - 1)
<1>1. /\ todo # <<>> /\ i \in Instruction
      /\ todo' \in Seq(Instruction) /\ checked' \in BOOLEAN
  BY Ending, EndsFacts
<1>2. i.reg \in Register /\ (i.reg.type # "Float" => i.reg.type \in IntTypes)
  BY <1>1, InstructionFacts
<1>3. ASSUME NEW result, ChangesNothing(result) PROVE Fine
  BY <1>3 DEF ChangesNothing, AluTypes
<1>4. SignBit("Half") \in Nat /\ SignBit("Half") > 0 /\ SignBit("Word") \in Nat /\ Size("Word") \in Nat
  BY Widths DEF IntTypes
<1>. HIDE DEF i
<1>5. ASSUME NEW op \in Integer, IntegerInstruction(op) PROVE Fine
  <2>. DEFINE t == i.reg.type
              x == read_from_register(i.reg)
              d == Computed(op, t, x, i.y)
  <2>1. /\ i.op = op /\ t \in IntTypes /\ ~(op \in Divisions /\ i.y = 0)
        /\ write_to_register(i.reg, d.ans)
        /\ flags' = make_flags_int(Signed(t, d.ans), d.carry, d.overflow)
    BY <1>5 DEF IntegerInstruction, Executing, i
  <2>2. t # "Float" /\ i.y \in Operands(op, t)
    BY <1>1, <2>1, InstructionFacts DEF IntTypes
  <2>3. x \in 0..(Size(t) - 1)
    BY <1>2, <2>2, ReadType
  <2>. HIDE DEF t, x
  <2>4. d.ans \in Int /\ d.carry \in BOOLEAN /\ d.overflow \in BOOLEAN
    BY <2>1, <2>2, <2>3, ResultType
  <2>. HIDE DEF d
  <2>5. r' \in [0..1 -> Int] /\ f' \in Int \cup {NaN}
    BY <1>2, <2>1, <2>4, WriteType
  <2>6. Signed(t, d.ans) \in Int
    BY <2>1, <2>4, Widths DEF Signed
  <2>7. flags' \in 0..15
    BY <2>1, <2>4, <2>6, FlagsRead
  <2>. QED
    BY <2>5, <2>7, FlagsFit
<1>6. ASSUME NEW op \in FloatOps, FloatInstruction(op) PROVE Fine
  <2>1. i.reg.type = "Float"
    BY <1>6 DEF FloatInstruction, i
  <2>2. PICK ans \in Floats \cup {NaN} : write_to_register(i.reg, ans) /\ flags' = make_flags_float(ans)
    BY <1>6 DEF FloatInstruction, i
  <2>3. ans \in Int \cup {NaN}
    BY FloatsAssumption
  <2>4. r' \in [0..1 -> Int] /\ f' \in Int \cup {NaN}
    BY <1>2, <2>1, <2>2, <2>3, WriteType
  <2>5. flags' \in 0..15
    <3>1. CASE ans = NaN
      BY <2>2, <3>1 DEF make_flags_float
    <3>2. CASE ans # NaN
      <4>1. ans \in Int /\ flags' = make_flags_int(ans, FALSE, FALSE)
        BY <2>2, <2>3, <3>2 DEF make_flags_float
      <4>. QED
        BY <4>1, FlagsRead
    <3>. QED
      BY <3>1, <3>2
  <2>. QED
    BY <2>4, <2>5, FlagsFit
<1>7. ASSUME Negate PROVE Fine
  <2>. DEFINE ans == Negated(i.reg)
  <2>1. \/ \E result : ChangesNothing(result)
        \/ /\ write_to_register(i.reg, ans)
           /\ flags' = IF i.reg = FLAGS THEN WrittenFlags(ans) ELSE flags
    BY <1>7 DEF Negate, i
  <2>2. ans \in Int \cup {NaN} /\ (i.reg.type # "Float" => ans \in Int)
    <3>1. CASE i.reg.type = "Float"
      BY <3>1 DEF Negated, AluTypes
    <3>2. CASE i.reg.type # "Float"
      <4>1. read_from_register(i.reg) \in Int
        BY <1>2, <3>2, ReadType, Widths
      <4>2. -read_from_register(i.reg) \in Int
        BY <4>1
      <4>3. Unsigned(i.reg.type, -read_from_register(i.reg)) \in Int
        BY <1>2, <3>2, <4>2, CastFacts, Widths
      <4>. QED
        BY <3>2, <4>3 DEF Negated
    <3>. QED
      BY <3>1, <3>2
  <2>. HIDE DEF ans
  <2>3. CASE write_to_register(i.reg, ans) /\ flags' = IF i.reg = FLAGS THEN WrittenFlags(ans) ELSE flags
    <3>1. r' \in [0..1 -> Int] /\ f' \in Int \cup {NaN}
      BY <1>2, <2>2, <2>3, WriteType
    <3>2. i.reg = FLAGS => ans \in Int
      BY <2>2 DEF FLAGS
    <3>3. i.reg = FLAGS => WrittenFlags(ans) \in 0..(SignBit("Half") - 1)
      BY <1>4, <3>2, Wrap DEF WrittenFlags
    <3>. QED
      BY <2>3, <3>1, <3>3 DEF AluTypes
  <2>. QED
    BY <1>3, <2>1, <2>3
<1>8. ASSUME Compare PROVE Fine
  <2>. DEFINE t == i.reg.type
              x == read_from_register(i.reg)
  <2>1. /\ r' = r /\ f' = f /\ flags' = CompareFlags(t, x, i.y) /\ i.op = "COMPARE"
    BY <1>8 DEF Compare, Executing, i
  <2>2. i.y \in TypedValue(t) /\ i.y \in Int \cup {NaN}
    BY <1>1, <2>1, InstructionFacts
  <2>3. CASE t = "Float"
    <3>1. x \in Int \cup {NaN}
      BY <1>2, <2>3, ReadType
    <3>2. FloatDifference(x, i.y) \in Int \cup {NaN}
      BY <2>2, <3>1 DEF FloatDifference
    <3>. DEFINE ans == FloatDifference(x, i.y)
    <3>3. CompareFlags(t, x, i.y) \in 0..15
      <4>1. CompareFlags(t, x, i.y) = make_flags_float(ans)
        BY <2>3 DEF CompareFlags
      <4>. HIDE DEF ans
      <4>2. CASE ans = NaN
        BY <4>1, <4>2 DEF make_flags_float
      <4>3. CASE ans # NaN
        <5>1. ans \in Int /\ CompareFlags(t, x, i.y) = make_flags_int(ans, FALSE, FALSE)
          BY <3>2, <4>1, <4>3 DEF make_flags_float, ans
        <5>. QED
          BY <5>1, FlagsRead
      <4>. QED
        BY <4>2, <4>3
    <3>. QED
      BY <2>1, <3>3, FlagsFit DEF AluTypes
  <2>4. CASE t # "Float"
    <3>. DEFINE d == Sub(t, x, i.y)
    <3>1. t \in IntTypes /\ x \in 0..(Size(t) - 1) /\ i.y \in 0..(Size(t) - 1)
      BY <1>2, <2>2, <2>4, ReadType DEF TypedValue
    <3>. HIDE DEF t, x
    <3>2. d.ans \in 0..(Size(t) - 1) /\ d.carry \in BOOLEAN /\ d.overflow \in BOOLEAN
      BY <3>1, SubFacts
    <3>3. CompareFlags(t, x, i.y) = make_flags_int(Signed(t, d.ans), d.carry, d.overflow)
      BY <2>4 DEF CompareFlags
    <3>. HIDE DEF d
    <3>4. Signed(t, d.ans) \in Int
      BY <3>1, <3>2, SignedFacts, Widths
    <3>5. CompareFlags(t, x, i.y) \in 0..15
      BY <3>2, <3>3, <3>4, FlagsRead
    <3>. QED
      BY <2>1, <3>5, FlagsFit DEF AluTypes
  <2>. QED
    BY <2>3, <2>4
<1>9. ASSUME NEW op \in Conversions, Convert(op) PROVE Fine
  <2>. DEFINE w == "Word"
              toWord == IF op = "SCONVERT" THEN Closest(f, -SignBit(w), SignBit(w) - 1)
                        ELSE Closest(f, 0, Size(w) - 1)
  <2>1. /\ flags' = flags
        /\ \/ \E x, ans : ans \in Nearest(x) /\ write_to_register(i.reg, ans)
           \/ write_to_register(i.reg, Unsigned(w, toWord))
    BY <1>9 DEF Convert, i
  <2>2. \A x : Nearest(x) \subseteq Int
    BY FloatsAssumption DEF Nearest
  <2>3. toWord \in Int
    BY <1>4 DEF AluTypes, Closest
  <2>4. Unsigned(w, toWord) \in Int
    <3>. HIDE DEF toWord
    <3>1. w \in IntTypes
      BY DEF IntTypes
    <3>. QED
      BY <1>4, <2>3, <3>1, CastFacts
  <2>5. PICK ans \in Int : write_to_register(i.reg, ans)
    <3>. HIDE DEF toWord
    <3>. QED
      BY <2>1, <2>2, <2>4
  <2>6. r' \in [0..1 -> Int] /\ f' \in Int \cup {NaN}
    BY <1>2, <2>5, WriteType
  <2>. QED
    BY <2>1, <2>6 DEF AluTypes
<1>10. Fine
  <2>1. ASSUME NEW op \in Integer, DivideByZero(op) \/ IncrementPanics(op) PROVE Fine
    BY <1>3, <2>1 DEF DivideByZero, IncrementPanics
  <2>2. ASSUME NEW op \in Conversions, ConvertRejected(op) PROVE Fine
    BY <1>3, <2>2 DEF ConvertRejected
  <2>3. ASSUME NEW j \in Jumps, Jump(j) PROVE Fine
    BY <1>3, <2>3 DEF Jump
  <2>. HIDE DEF Fine
  <2>. QED
    BY <1>5, <1>6, <1>7, <1>8, <1>9, <2>1, <2>2, <2>3 DEF Next
<1>. QED
  BY <1>1, <1>10 DEF AluTypes

(* Quotient and remainder are unique. *)
LEMMA DivUnique ==
    ASSUME NEW S \in Nat, NEW a \in Int, NEW b \in Int,
           NEW x \in 0..(S - 1), NEW y \in 0..(S - 1), S * a + x = S * b + y
    PROVE  a = b /\ x = y
<1>1. ASSUME NEW c \in Int, NEW d \in Int, NEW u \in 0..(S - 1), NEW v \in 0..(S - 1),
             S * c + u = S * d + v, c < d
      PROVE  FALSE
  <2>1. S * (c + 1) <= S * d
    BY <1>1
  <2>2. S * (c + 1) = S * c + S
    OBVIOUS
  <2>3. S * c \in Int /\ S * d \in Int
    OBVIOUS
  <2>. QED
    BY <1>1, <2>1, <2>2, <2>3
<1>2. ~(a < b) /\ ~(b < a)
  BY <1>1
<1>3. a = b
  BY <1>2
<1>. QED
  BY <1>3

(* A number by S is its quotient and its remainder. *)
LEMMA DivMod ==
    ASSUME NEW S \in Nat, S > 0, NEW v \in Int
    PROVE  v \div S \in Int /\ v % S \in 0..(S - 1) /\ v = S * (v \div S) + (v % S)
  OBVIOUS

(* A quotient of natural numbers is one, and no larger. *)
LEMMA QuotientRange ==
    ASSUME NEW x \in Nat, NEW p \in Nat, p > 0
    PROVE  x \div p \in 0..x
<1>. DEFINE k == x \div p
            m == x % p
<1>1. k \in Int /\ m \in 0..(p - 1) /\ x = p * k + m
  BY DivMod
<1>. HIDE DEF k, m
<1>2. k >= 0
  <2>1. ASSUME k <= -1 PROVE FALSE
    <3>1. p * k <= -p
      BY <1>1, <2>1
    <3>. QED
      BY <1>1, <3>1
  <2>. QED
    BY <1>1, <2>1
<1>3. p * k >= k
  BY <1>1, <1>2
<1>4. k \in 0..x
  BY <1>1, <1>2, <1>3
<1>. QED
  BY <1>4 DEF k

(* What is S times a, and x. *)
LEMMA ModOf ==
    ASSUME NEW S \in Nat, S > 0, NEW a \in Int, NEW x \in 0..(S - 1)
    PROVE  (S * a + x) \div S = a /\ (S * a + x) % S = x
<1>. DEFINE v == S * a + x
<1>1. v \in Int
  OBVIOUS
<1>2. v = S * a + x
  OBVIOUS
<1>. HIDE DEF v
<1>3. v \div S \in Int /\ v % S \in 0..(S - 1) /\ v = S * (v \div S) + (v % S)
  BY <1>1, DivMod
<1>4. v \div S = a /\ v % S = x
  <2>. DEFINE q == v \div S
              m == v % S
  <2>. HIDE DEF q, m
  <2>1. S * a + x = S * q + m /\ q \in Int /\ m \in 0..(S - 1)
    BY <1>2, <1>3 DEF q, m
  <2>2. a = q /\ x = m
    BY <2>1, DivUnique
  <2>. QED
    BY <2>2 DEF q, m
<1>. QED
  BY <1>4 DEF v

(* What has been written is what is read. *)
LEMMA Stored ==
    ASSUME AluTypes, NEW reg \in Register, reg.type \in IntTypes, reg # FLAGS,
           NEW x \in 0..(Size(reg.type) - 1), write_to_register(reg, x)
    PROVE  read_from_register(reg)' = x
<1>. DEFINE S == Size(reg.type)
            v == r[reg.n]
<1>1. reg.type # "Float" /\ reg.n \in 0..1
  BY DEF Register, IntTypes
<1>2. r \in [0..1 -> Int] /\ r[reg.n] \in Int
  BY <1>1 DEF AluTypes
<1>3. r'[reg.n] = WrittenWord(reg, x)
  BY <1>1, <1>2 DEF write_to_register
<1>4. read_from_register(reg)' = r'[reg.n] % S
  BY <1>1 DEF read_from_register
<1>5. WrittenWord(reg, x) = v - (v % S) + x
  BY DEF WrittenWord
<1>6. S \in Nat /\ S > 0 /\ v \in Int /\ x \in 0..(S - 1)
  BY <1>2, Widths
<1>. HIDE DEF S, v
<1>7. v \div S \in Int /\ v % S \in 0..(S - 1) /\ v = S * (v \div S) + (v % S)
  BY <1>6, DivMod
<1>8. v - (v % S) + x = S * (v \div S) + x
  <2>. DEFINE m == v % S
              p == S * (v \div S)
  <2>1. m \in Int /\ v = p + m /\ p \in Int
    BY <1>6, <1>7
  <2>2. x \in Int
    BY <1>6
  <2>. HIDE DEF m, p
  <2>3. v - m + x = p + x
    BY <1>6, <2>1, <2>2
  <2>. QED
    BY <2>3 DEF m, p
<1>9. (S * (v \div S) + x) % S = x
  BY <1>6, <1>7, ModOf
<1>. QED
  BY <1>3, <1>4, <1>5, <1>8, <1>9

(* The other register stays. *)
LEMMA OtherKept ==
    ASSUME AluTypes, NEW reg \in Register, reg.type \in IntTypes, reg # FLAGS,
           NEW x, write_to_register(reg, x),
           NEW o \in Register, o.type \in IntTypes, o # FLAGS, o.n # reg.n
    PROVE  read_from_register(o)' = read_from_register(o)
<1>1. reg.type # "Float" /\ reg.n \in 0..1 /\ o.type # "Float" /\ o.n \in 0..1
  BY DEF Register, IntTypes
<1>2. r'[o.n] = r[o.n]
  BY <1>1 DEF write_to_register, AluTypes
<1>. QED
  BY <1>1, <1>2 DEF read_from_register

(* The instructions whose results fill their register and no more *)
Chained == Plain \cup {"ADDCARRY", "SUBBORROW", "SREM", "UREM", "LROTCARRY", "RROTCARRY"}
(* Their results are in the range of the type. *)
LEMMA ResultRange ==
    ASSUME NEW t \in IntTypes, NEW x \in 0..(Size(t) - 1),
           NEW op \in Chained, NEW y \in Operands(op, t), op \in Divisions => y # 0
    PROVE  Computed(op, t, x, y).ans \in 0..(Size(t) - 1)
<1>. DEFINE S == Size(t)
            Fits(d) == d.ans \in 0..(S - 1)
<1>. SUFFICES Fits(Computed(op, t, x, y))
  OBVIOUS
<1>1. S \in Nat /\ S > 0 /\ x \in Nat /\ x < S /\ Bits[t] \in Nat /\ SignBit(t) \in Nat
  BY Widths
<1>2. ASSUME NEW v \in Int PROVE Unsigned(t, v) \in 0..(S - 1)
  BY CastFacts
<1>3. Signed(t, x) \in Int
  BY <1>1 DEF Signed
<1>. HIDE DEF S, Fits
<1>4. CASE op \in {"ADD", "ADDCARRY", "SUB", "SUBBORROW"}
  <2>1. y \in Int
    BY <1>1, <1>4 DEF Operands, Shifting, S
  <2>2. Incremented(t, y) \in Int
    <3>1. y + If(Has(flags, FLAG_CARRY), 1) \in Int
      BY <2>1 DEF If
    <3>. QED
      BY <1>1, <1>2, <3>1 DEF Incremented
  <2>3. \A v \in Int : Fits(Add(t, x, v))
    BY <1>1, <1>2 DEF Add, bin_op_multisigned, Result, Fits
  <2>4. \A v \in Int : Fits(Sub(t, x, v))
    BY <1>1, <1>2 DEF Sub, bin_op_multisigned, Result, Fits
  <2>. QED
    BY <1>4, <2>1, <2>2, <2>3, <2>4 DEF Computed
<1>5. CASE op \in Divisions
  <2>1. y \in Nat /\ y > 0 /\ y < S
    BY <1>1, <1>5 DEF Operands, Shifting, Divisions, S
  <2>. DEFINE sx == Signed(t, x)
              sy == Signed(t, y)
              q == Truncated(sx, sy)
  <2>2. sy \in Int /\ sy # 0 /\ sx \in Int
    BY <1>1, <1>3, <2>1 DEF Signed, S
  <2>3. q \in Int
    <3>. HIDE DEF sx, sy
    <3>1. Magnitude(sx) \in Nat /\ Magnitude(sy) \in Nat /\ Magnitude(sy) > 0
      BY <2>2 DEF Magnitude
    <3>2. Magnitude(sx) \div Magnitude(sy) \in Int
      BY <3>1
    <3>. QED
      BY <3>2 DEF Truncated
  <2>4. sx - sy * q \in Int
    <3>. HIDE DEF sx, sy, q
    <3>. QED
      BY <2>2, <2>3
  <2>5. x \div y \in 0..(S - 1) /\ x % y \in 0..(S - 1)
    <3>1. x \div y \in 0..x /\ x % y \in 0..(y - 1)
      BY <1>1, <2>1, QuotientRange, DivMod
    <3>. QED
      BY <1>1, <2>1, <3>1
  <2>6. CASE op = "SDIV"
    BY <1>2, <2>3, <2>6 DEF Computed, SDiv, bin_op_signed, Result, Fits
  <2>7. CASE op = "SREM"
    BY <1>2, <2>4, <2>7 DEF Computed, SRem, bin_op_signed, Result, Fits
  <2>8. CASE op = "UDIV"
    BY <2>5, <2>8 DEF Computed, UDiv, bin_op_unsigned, Result, Fits
  <2>9. CASE op = "UREM"
    BY <2>5, <2>9 DEF Computed, URem, bin_op_unsigned, Result, Fits
  <2>. QED
    BY <1>5, <2>6, <2>7, <2>8, <2>9 DEF Divisions
<1>6. CASE op \in {"LSHIFT", "SRSHIFT", "URSHIFT"}
  <2>1. y \in Nat
    BY <1>6 DEF Operands, Shifting
  <2>2. CASE y < Bits[t]
    <3>. DEFINE p == 2^y
    <3>1. p \in Nat /\ p > 0
      <4>1. y \in 0..Bits[t]
        BY <1>1, <2>1, <2>2
      <4>. QED
        BY <4>1, PowersAssumption
    <3>2. x * p \in Int /\ Signed(t, x) \div p \in Int
      <4>. HIDE DEF p
      <4>. QED
        BY <1>1, <1>3, <3>1
    <3>3. x \div p \in 0..(S - 1)
      <4>. HIDE DEF p
      <4>1. x \div p \in 0..x
        BY <1>1, <3>1, QuotientRange
      <4>. QED
        BY <1>1, <4>1
    <3>4. Unsigned(t, x * p) \in 0..(S - 1) /\ Unsigned(t, Signed(t, x) \div p) \in 0..(S - 1)
      BY <1>2, <3>2
    <3>. HIDE DEF p
    <3>5. Fits(LShift(t, x, y))
      BY <2>2, <3>4 DEF LShift, Result, Fits, p
    <3>6. Fits(SRShift(t, x, y))
      BY <2>2, <3>4 DEF SRShift, Result, Fits, p
    <3>7. Fits(URShift(t, x, y))
      BY <2>2, <3>3 DEF URShift, Result, Fits, p
    <3>. QED
      BY <1>6, <3>5, <3>6, <3>7 DEF Computed
  <2>3. CASE ~(y < Bits[t])
    <3>1. If(Signed(t, x) < 0, Size(t) - 1) \in 0..(S - 1) /\ 0 \in 0..(S - 1)
      BY <1>1 DEF If, S
    <3>2. Fits(LShift(t, x, y)) /\ Fits(URShift(t, x, y))
      BY <2>3, <3>1 DEF LShift, URShift, Result, Fits
    <3>3. Fits(SRShift(t, x, y))
      BY <2>3, <3>1 DEF SRShift, Result, Fits
    <3>. QED
      BY <1>6, <3>2, <3>3 DEF Computed
  <2>. QED
    BY <2>2, <2>3
<1>7. CASE op \in {"LROTCARRY", "RROTCARRY"}
  <2>1. y \in Nat /\ Has(flags, FLAG_CARRY) \in BOOLEAN
    BY <1>7 DEF Operands, Shifting, Has
  <2>2. ASSUME NEW o PROVE Fits(bin_op_rotate_carry(t, x, y, o))
    <3>. DEFINE a == Rotations(t, x, Has(flags, FLAG_CARRY), y, o)
    <3>1. a \in [0..y -> WithCarry(t)]
      BY <2>1, RotationsFacts
    <3>2. bin_op_rotate_carry(t, x, y, o) = Result(a[y].ans, a[y].carry, FALSE)
      BY DEF bin_op_rotate_carry
    <3>. HIDE DEF a
    <3>3. a[y] \in WithCarry(t)
      BY <2>1, <3>1
    <3>. QED
      BY <3>2, <3>3 DEF Result, Fits, WithCarry, S
  <2>. QED
    BY <1>7, <2>2 DEF Computed
<1>. QED
  BY <1>4, <1>5, <1>6, <1>7 DEF Chained, Plain, Divisions

-----------------------------------------------------------------------------
(***************************************************************************)
(* The inductive invariant.                                                *)
(***************************************************************************)

(* What a plain instruction computes does not depend on the flags. *)
LEMMA PlainResult ==
    ASSUME NEW op \in Plain, NEW t, NEW x, NEW y
    PROVE  Computed(op, t, x, y)' = Computed(op, t, x, y)
<1>1. CASE op = "ADD"
  BY <1>1 DEF Computed
<1>2. CASE op = "SUB"
  BY <1>2 DEF Computed
<1>3. CASE op = "SDIV"
  BY <1>3 DEF Computed
<1>4. CASE op = "UDIV"
  BY <1>4 DEF Computed
<1>5. CASE op = "LSHIFT"
  BY <1>5 DEF Computed
<1>6. CASE op = "SRSHIFT"
  BY <1>6 DEF Computed
<1>7. CASE op = "URSHIFT"
  BY <1>7 DEF Computed
<1>. QED
  BY <1>1, <1>2, <1>3, <1>4, <1>5, <1>6, <1>7 DEF Plain

(* A chained instruction that ends well leaves its result in its register  *)
(* and the flags that go with it.                                          *)
LEMMA ChainedStep ==
    ASSUME AluTypes, History, Next, outcome' # "panic", NEW i, i = Head(todo),
           i.op \in Chained, i.reg.type # "Float", i.reg # FLAGS,
           ~(i.op \in Divisions /\ i.y = 0)
    PROVE  LET t == i.reg.type
               x == read_from_register(i.reg)
               d == Computed(i.op, t, x, i.y)
           IN /\ t \in IntTypes /\ x \in 0..(Size(t) - 1) /\ i.y \in Operands(i.op, t)
              /\ d.ans \in 0..(Size(t) - 1) /\ d.carry \in BOOLEAN /\ d.overflow \in BOOLEAN
              /\ flags' = make_flags_int(Signed(t, d.ans), d.carry, d.overflow)
              /\ write_to_register(i.reg, d.ans)
              /\ read_from_register(i.reg)' = d.ans
<1>. DEFINE t == i.reg.type
            x == read_from_register(i.reg)
            d == Computed(i.op, t, x, i.y)
<1>1. i \in Instruction
  BY Ending, EndsFacts
<1>2. Chained \subseteq Integer
  BY DEF Chained, Plain, Integer
<1>3. /\ i.reg \in Register /\ t \in IntTypes /\ i.y \in Operands(i.op, t)
  BY <1>1, <1>2, InstructionFacts
<1>4. x \in 0..(Size(t) - 1)
  BY <1>3, ReadType
<1>5. IntegerInstruction(i.op)
  BY <1>2, IntegerEffect
<1>6. /\ write_to_register(i.reg, d.ans)
      /\ flags' = make_flags_int(Signed(t, d.ans), d.carry, d.overflow)
  BY <1>5 DEF IntegerInstruction
<1>. HIDE DEF t, x
<1>7. d.ans \in 0..(Size(t) - 1)
  BY <1>3, <1>4, ResultRange
<1>8. d.carry \in BOOLEAN /\ d.overflow \in BOOLEAN
  BY <1>2, <1>3, <1>4, ResultType
<1>9. ASSUME NEW ans, ans = d.ans PROVE read_from_register(i.reg)' = ans
  <2>1. ans \in 0..(Size(i.reg.type) - 1) /\ write_to_register(i.reg, ans)
    BY <1>6, <1>7, <1>9 DEF t
  <2>. QED
    BY <1>3, <2>1, Stored DEF t
<1>. QED
  BY <1>3, <1>4, <1>6, <1>7, <1>8, <1>9 DEF x, t

(* The first instruction leaves what it should. *)
LEMMA FirstStep ==
    ASSUME AluTypes, History, Next
    PROVE  FirstEffect'
<1>. SUFFICES ASSUME Len(done') = 1, outcome' # "panic", NEW e, e = done'[1]
              PROVE  /\ e.op = "COMPARE" => flags' = CompareFlags(e.reg.type, e.x, e.y)
                     /\ e.op \in Plain /\ ~(e.op \in Divisions /\ e.y = 0)
                        /\ e.reg.type # "Float" /\ e.reg # FLAGS =>
                          LET d == Computed(e.op, e.reg.type, e.x, e.y)'
                          IN /\ read_from_register(e.reg)' = d.ans
                             /\ flags' = make_flags_int(Signed(e.reg.type, d.ans),
                                                        d.carry, d.overflow)
  BY DEF FirstEffect
<1>1. Len(done) = 0
  BY Ending, EndsFacts
<1>2. PICK i : i = Head(todo)
  OBVIOUS
<1>3. PICK x : x = read_from_register(i.reg)
  OBVIOUS
<1>4. e.op = i.op /\ e.reg = i.reg /\ e.y = i.y /\ e.x = x
  <2>1. done'[Len(done) + 1] = [op |-> i.op, reg |-> i.reg, y |-> i.y, x |-> x, flags |-> flags]
    BY <1>2, <1>3, Ending, EndsFacts
  <2>2. Len(done) + 1 = 1
    BY <1>1
  <2>. QED
    BY <2>1, <2>2
<1>5. ASSUME i.op = "COMPARE" PROVE flags' = CompareFlags(i.reg.type, x, i.y)
  BY <1>2, <1>3, <1>5, CompareEffect DEF Compare
<1>6. ASSUME i.op \in Plain, ~(i.op \in Divisions /\ i.y = 0), i.reg.type # "Float", i.reg # FLAGS
      PROVE  LET d == Computed(i.op, i.reg.type, x, i.y)
             IN /\ read_from_register(i.reg)' = d.ans
                /\ flags' = make_flags_int(Signed(i.reg.type, d.ans), d.carry, d.overflow)
  <2>1. i.op \in Chained
    BY <1>6 DEF Chained
  <2>. QED
    BY <1>2, <1>3, <1>6, <2>1, ChainedStep
<1>7. ASSUME i.op \in Plain
      PROVE  Computed(i.op, i.reg.type, x, i.y)' = Computed(i.op, i.reg.type, x, i.y)
  BY <1>7, PlainResult
<1>. QED
  BY <1>4, <1>5, <1>6, <1>7

(* The invariant is inductive. *)
LEMMA Inductive ==
    Spec => []AluInv
<1>1. Init => AluInv
  <2>. SUFFICES ASSUME Init PROVE AluInv
    OBVIOUS
  <2>1. PICK s \in Starts : r \in [0..1 -> s.r] /\ f \in s.f /\ flags \in s.flags
                           /\ todo \in s.programs
    BY DEF Init
  <2>2. /\ s.r \subseteq 0..(Size("Word") - 1) /\ s.f \subseteq Floats \cup {NaN}
        /\ s.flags \subseteq 0..(SignBit("Half") - 1) /\ s.programs \subseteq Seq(Instruction)
    BY StartsAssumption
  <2>3. Size("Word") \in Nat
    BY Widths DEF IntTypes
  <2>4. r \in [0..1 -> Int] /\ f \in Int \cup {NaN}
    <3>1. s.r \subseteq Int
      BY <2>2, <2>3
    <3>2. s.f \subseteq Int \cup {NaN}
      BY <2>2, FloatsAssumption
    <3>. QED
      BY <2>1, <3>1, <3>2
  <2>5. AluTypes
    BY <2>1, <2>2, <2>4 DEF AluTypes, Init
  <2>6. done = <<>> /\ Len(done) = 0
    BY DEF Init
  <2>7. History
    <3>1. <<>> \in Seq(Executed)
      OBVIOUS
    <3>. QED
      BY <2>6, <3>1 DEF History
  <2>8. FirstEffect
    BY <2>6 DEF FirstEffect
  <2>. QED
    BY <2>5, <2>7, <2>8 DEF AluInv
<1>2. AluInv /\ [Next]_vars => AluInv'
  <2>. SUFFICES ASSUME AluInv, [Next]_vars PROVE AluInv'
    OBVIOUS
  <2>1. CASE Next
    BY <2>1, TypesStep, Ending, EndsFacts, FirstStep DEF AluInv
  <2>2. CASE UNCHANGED vars
    <3>1. AluTypes' /\ History'
      BY <2>2 DEF AluInv, AluTypes, History, vars
    <3>2. FirstEffect'
      <4>1. ASSUME NEW reg PROVE read_from_register(reg)' = read_from_register(reg)
        BY <2>2 DEF vars, read_from_register
      <4>2. FirstEffect
        BY DEF AluInv
      <4>3. done' = done /\ flags' = flags /\ outcome' = outcome
        BY <2>2 DEF vars
      <4>. QED
        BY <4>1, <4>2, <4>3, PlainResult DEF FirstEffect
    <3>. QED
      BY <3>1, <3>2 DEF AluInv
  <2>. QED
    BY <2>1, <2>2
<1>. QED
  BY <1>1, <1>2, PTL DEF Spec

-----------------------------------------------------------------------------
(***************************************************************************)
(* The theorems.                                                           *)
(***************************************************************************)

(* What the last instruction met, in the state it leaves. *)
LEMMA Recorded ==
    ASSUME AluInv, Next, NEW i, i = Head(todo), NEW x, x = read_from_register(i.reg)
    PROVE  /\ i \in Instruction /\ outcome # "panic"
           /\ Len(done) \in Nat /\ Len(done') = Len(done) + 1
           /\ done'[Len(done')] = [op |-> i.op, reg |-> i.reg, y |-> i.y, x |-> x,
                                   flags |-> flags]
           /\ \A k \in 1..Len(done) : done'[k] = done[k]
           /\ checked' = checked
           /\ i.reg \in Register
           /\ i.reg.type # "Float" => i.reg.type \in IntTypes /\ x \in 0..(Size(i.reg.type) - 1)
           /\ i.reg.type = "Float" => x \in Int \cup {NaN}
<1>1. AluTypes /\ History
  BY DEF AluInv
<1>2. todo # <<>> /\ outcome # "panic" /\ Ends(outcome')
  BY Ending
<1>3. /\ i \in Instruction
      /\ Len(done) \in Nat /\ Len(done') = Len(done) + 1
      /\ done'[Len(done')] = [op |-> i.op, reg |-> i.reg, y |-> i.y, x |-> x, flags |-> flags]
      /\ \A k \in 1..Len(done) : done'[k] = done[k]
      /\ checked' = checked
  BY <1>1, <1>2, EndsFacts
<1>4. i.reg \in Register /\ (i.reg.type # "Float" => i.reg.type \in IntTypes)
  BY <1>3, InstructionFacts
<1>5. /\ i.reg.type # "Float" => x \in 0..(Size(i.reg.type) - 1)
      /\ i.reg.type = "Float" => x \in Int \cup {NaN}
  BY <1>1, <1>4, ReadType
<1>. QED
  BY <1>2, <1>3, <1>4, <1>5

(* The second instruction, i, follows the first one, c. *)
LEMMA Second ==
    ASSUME AluInv, Next, Len(done') = 2, NEW c, c = done[1], NEW i, i = Head(todo),
           NEW x, x = read_from_register(i.reg)
    PROVE  /\ Len(done) = 1 /\ outcome # "panic"
           /\ done'[1] = c
           /\ done'[2] = [op |-> i.op, reg |-> i.reg, y |-> i.y, x |-> x, flags |-> flags]
           /\ [op |-> c.op, reg |-> c.reg, y |-> c.y] \in Instruction
           /\ c.reg \in Register /\ c.x \in Int \cup {NaN}
           /\ c.reg.type # "Float" => c.reg.type \in IntTypes /\ c.x \in 0..(Size(c.reg.type) - 1)
<1>1. /\ outcome # "panic" /\ Len(done) \in Nat /\ Len(done') = Len(done) + 1
      /\ done'[Len(done')] = [op |-> i.op, reg |-> i.reg, y |-> i.y, x |-> x, flags |-> flags]
      /\ \A k \in 1..Len(done) : done'[k] = done[k]
  BY Recorded
<1>2. Len(done) = 1
  <2>1. Len(done) \in Nat /\ Len(done) + 1 = 2
    BY <1>1
  <2>. DEFINE n == Len(done)
  <2>. HIDE DEF n
  <2>2. n \in Nat /\ n + 1 = 2
    BY <2>1 DEF n
  <2>3. n = 1
    BY <2>2
  <2>. QED
    BY <2>3 DEF n
<1>3. 1 \in 1..Len(done)
  BY <1>2
<1>4. done'[1] = c
  <2>1. done'[1] = done[1]
    BY <1>1, <1>3, Zenon
  <2>. QED
    BY <2>1
<1>. DEFINE ci == [op |-> c.op, reg |-> c.reg, y |-> c.y]
<1>5. /\ c \in Executed /\ ci \in Instruction
      /\ c.reg.type # "Float" => c.x \in 0..(Size(c.reg.type) - 1)
  <2>1. History
    BY DEF AluInv
  <2>2. done \in Seq(Executed)
    BY <2>1 DEF History
  <2>3. done[1] \in Executed
    BY <1>2, <2>2
  <2>. QED
    BY <1>3, <2>1, <2>3 DEF History
<1>6. c.reg \in Register /\ c.x \in Int \cup {NaN}
  BY <1>5 DEF Executed
<1>7. c.reg.type # "Float" => c.reg.type \in IntTypes
  BY <1>6 DEF Register, IntTypes, FLAGS
<1>. QED
  BY <1>1, <1>2, <1>4, <1>5, <1>6, <1>7

(* The jumps after COMPARE decide the relations they are named for,        *)
(* whatever the widths and whatever overflows in the subtraction           *)
(* (cpu.rs:1994-2025, macros.rs:291-374).                                  *)
THEOREM JumpsDecide ==
    Spec => []ComparisonsDecide
<1>1. Init => ComparisonsDecide
  <2>1. Init => Len(done) = 0
    BY DEF Init
  <2>. QED
    BY <2>1 DEF ComparisonsDecide, Ran
<1>2. AluInv /\ ComparisonsDecide /\ [Next]_vars => ComparisonsDecide'
  <2>. SUFFICES ASSUME AluInv, ComparisonsDecide, [Next]_vars PROVE ComparisonsDecide'
    OBVIOUS
  <2>1. CASE UNCHANGED vars
    BY <2>1 DEF vars, ComparisonsDecide, Ran
  <2>2. CASE Next
    <3>. SUFFICES ASSUME NEW j \in Jumps, Len(done') = 2, done'[1].op = "COMPARE",
                         done'[2].op = j
                  PROVE  LET c == done'[1]
                             t == c.reg.type
                         IN IF t # "Float"
                              THEN Condition(j, done'[2].flags) <=> Relation(j, t, c.x, c.y)
                              ELSE \/ FloatDifference(c.x, c.y) = NaN
                                   \/ j \in {"UJGREATER", "UJGREATEREQ", "UJLESSER", "UJLESSEREQ"}
                                   \/ Condition(j, done'[2].flags) <=> FloatRelation(j, c.x, c.y)
      BY DEF ComparisonsDecide, Ran
    <3>1. PICK i : i = Head(todo)
      OBVIOUS
    <3>2. PICK x : x = read_from_register(i.reg)
      OBVIOUS
    <3>3. PICK c : c = done[1]
      OBVIOUS
    <3>. DEFINE t == c.reg.type
                ci == [op |-> c.op, reg |-> c.reg, y |-> c.y]
    <3>4. /\ outcome # "panic" /\ Len(done) = 1 /\ done'[1] = c /\ done'[2].flags = flags
          /\ ci \in Instruction /\ c.x \in Int \cup {NaN}
          /\ t # "Float" => t \in IntTypes /\ c.x \in 0..(Size(t) - 1)
      BY <2>2, <3>1, <3>2, <3>3, Second
    <3>5. c.op = "COMPARE" /\ flags = CompareFlags(c.reg.type, c.x, c.y)
      BY <3>3, <3>4 DEF AluInv, FirstEffect
    <3>6. ci.op = c.op /\ ci.reg = c.reg /\ ci.y = c.y
      OBVIOUS
    <3>. HIDE DEF ci
    <3>7. c.y \in TypedValue(t) /\ c.y \in Int \cup {NaN}
      BY <3>4, <3>5, <3>6, InstructionFacts
    <3>10. CASE t # "Float"
      <4>1. c.y \in 0..(Size(t) - 1)
        BY <3>7, <3>10 DEF TypedValue
      <4>2. Condition(j, CompareFlags(t, c.x, c.y)) <=> Relation(j, t, c.x, c.y)
        BY <3>4, <3>10, <4>1, CompareIntegers
      <4>. QED
        BY <3>4, <3>5, <3>10, <4>2
    <3>11. CASE t = "Float"
      <4>1. \/ FloatDifference(c.x, c.y) = NaN
            \/ j \in {"UJGREATER", "UJGREATEREQ", "UJLESSER", "UJLESSEREQ"}
            \/ Condition(j, CompareFlags("Float", c.x, c.y)) <=> FloatRelation(j, c.x, c.y)
        BY <3>4, <3>7, CompareFloats
      <4>. QED
        BY <3>4, <3>5, <3>11, <4>1
    <3>. QED
      BY <3>10, <3>11
  <2>. QED
    BY <2>1, <2>2
<1>. QED
  BY <1>1, <1>2, Inductive, PTL DEF Spec

(* Two instructions on the two registers of a number: the first has left   *)
(* its result and its flags when the second comes, which leaves its own    *)
(* and the other register alone.                                           *)
LEMMA ChainStep ==
    ASSUME AluInv, Next, Len(done') = 2, outcome' = "ok",
           NEW lo, lo = done'[1], NEW hi, hi = done'[2],
           lo.reg.type # "Float", OnLimbs(lo, hi), lo.op \in Plain, hi.op \in Chained,
           ~(lo.op \in Divisions /\ lo.y = 0), ~(hi.op \in Divisions /\ hi.y = 0)
    PROVE  LET t == lo.reg.type
               d == Computed(lo.op, t, lo.x, lo.y)
               e == Computed(hi.op, t, hi.x, hi.y)
           IN /\ t \in IntTypes
              /\ lo.x \in 0..(Size(t) - 1) /\ hi.x \in 0..(Size(t) - 1)
              /\ lo.y \in Operands(lo.op, t) /\ hi.y \in Operands(hi.op, t)
              /\ read_from_register(lo.reg)' = d.ans /\ read_from_register(hi.reg)' = e.ans
              /\ e.ans \in 0..(Size(t) - 1)
              /\ hi.flags = flags
              /\ Has(flags, FLAG_CARRY) <=> d.carry
              /\ Has(flags', FLAG_CARRY) <=> e.carry
              /\ Has(flags', FLAG_OVERFLOW) <=> e.overflow
<1>. DEFINE t == lo.reg.type
            d == Computed(lo.op, t, lo.x, lo.y)
            e == Computed(hi.op, t, hi.x, hi.y)
<1>1. PICK i : i = Head(todo)
  OBVIOUS
<1>2. PICK x : x = read_from_register(i.reg)
  OBVIOUS
<1>3. PICK c : c = done[1]
  OBVIOUS
<1>4. /\ Len(done) = 1 /\ outcome # "panic" /\ lo = c
      /\ hi = [op |-> i.op, reg |-> i.reg, y |-> i.y, x |-> x, flags |-> flags]
      /\ [op |-> lo.op, reg |-> lo.reg, y |-> lo.y] \in Instruction
      /\ lo.reg \in Register /\ t \in IntTypes /\ lo.x \in 0..(Size(t) - 1)
  BY <1>1, <1>2, <1>3, Second
<1>5. /\ hi.op = i.op /\ hi.reg = i.reg /\ hi.y = i.y /\ hi.x = x /\ hi.flags = flags
      /\ i.reg \in Register
  BY <1>1, <1>2, <1>4, Recorded
<1>6. i.reg.type = t /\ lo.reg.n \in 0..1 /\ i.reg.n \in 0..1 /\ lo.reg.n # i.reg.n
  BY <1>5 DEF OnLimbs
<1>7. lo.reg # FLAGS /\ i.reg # FLAGS
  BY <1>6 DEF FLAGS
<1>8. lo.y \in Operands(lo.op, t)
  <2>. DEFINE j == [op |-> lo.op, reg |-> lo.reg, y |-> lo.y]
  <2>1. j \in Instruction /\ j.op = lo.op /\ j.reg = lo.reg /\ j.y = lo.y
    BY <1>4
  <2>2. lo.op \in Integer
    BY DEF Plain, Integer
  <2>. HIDE DEF j
  <2>. QED
    BY <2>1, <2>2, InstructionFacts
<1>9. /\ read_from_register(lo.reg) = d.ans
      /\ flags = make_flags_int(Signed(t, d.ans), d.carry, d.overflow)
  <2>1. FirstEffect
    BY DEF AluInv
  <2>. QED
    BY <1>3, <1>4, <1>7, <2>1 DEF FirstEffect
<1>10. /\ d.ans \in 0..(Size(t) - 1) /\ d.carry \in BOOLEAN /\ d.overflow \in BOOLEAN
  <2>1. lo.op \in Chained /\ lo.op \in Integer
    BY DEF Chained, Plain, Integer
  <2>2. lo.op \in Divisions => lo.y # 0
    OBVIOUS
  <2>. HIDE DEF t
  <2>. QED
    BY <1>4, <1>8, <2>1, <2>2, ResultRange, ResultType
<1>11. /\ hi.x \in 0..(Size(t) - 1) /\ hi.y \in Operands(hi.op, t)
       /\ e.ans \in 0..(Size(t) - 1) /\ e.carry \in BOOLEAN /\ e.overflow \in BOOLEAN
       /\ flags' = make_flags_int(Signed(t, e.ans), e.carry, e.overflow)
       /\ write_to_register(hi.reg, e.ans)
       /\ read_from_register(hi.reg)' = e.ans
  <2>1. AluTypes /\ History /\ outcome' # "panic"
    BY DEF AluInv
  <2>2. /\ i.op \in Chained /\ i.reg.type # "Float" /\ i.reg # FLAGS
        /\ ~(i.op \in Divisions /\ i.y = 0)
    BY <1>5, <1>6, <1>7
  <2>. QED
    BY SMTT(30), <1>1, <1>2, <1>5, <1>6, <2>1, <2>2, ChainedStep
<1>12. read_from_register(lo.reg)' = read_from_register(lo.reg)
  <2>1. AluTypes /\ hi.reg.type \in IntTypes /\ hi.reg # FLAGS /\ lo.reg.n # hi.reg.n
        /\ hi.reg \in Register
    BY <1>4, <1>5, <1>6, <1>7 DEF AluInv
  <2>2. PICK v : v = e.ans
    OBVIOUS
  <2>3. write_to_register(hi.reg, v)
    BY <1>11, <2>2
  <2>. QED
    BY <1>4, <1>7, <2>1, <2>3, OtherKept
<1>. HIDE DEF d, e, t
<1>13. Signed(t, d.ans) \in Int /\ Signed(t, e.ans) \in Int
  BY <1>4, <1>10, <1>11, SignedFacts, Widths
<1>14. Has(flags, FLAG_CARRY) <=> d.carry
  BY <1>9, <1>10, <1>13, FlagsRead
<1>15. /\ Has(flags', FLAG_CARRY) <=> e.carry
       /\ Has(flags', FLAG_OVERFLOW) <=> e.overflow
  BY <1>11, <1>13, FlagsRead
<1>. QED
  BY <1>4, <1>5, <1>8, <1>9, <1>11, <1>12, <1>14, <1>15 DEF d, e, t

(* A sum and its carry. *)
LEMMA AddFacts ==
    ASSUME NEW t \in IntTypes, NEW x \in 0..(Size(t) - 1), NEW y \in 0..(Size(t) - 1)
    PROVE  /\ Add(t, x, y).ans = IF x + y >= Size(t) THEN x + y - Size(t) ELSE x + y
           /\ Add(t, x, y).carry \in BOOLEAN
           /\ Add(t, x, y).carry <=> x + y >= Size(t)
<1>. DEFINE S == Size(t)
            d == Add(t, x, y)
<1>1. S \in Nat /\ S > 0 /\ x \in Nat /\ x < S /\ y \in Nat /\ y < S
  BY Widths
<1>2. /\ d.ans = Unsigned(t, x + y)
      /\ d.carry = (x + y # Unsigned(t, x + y))
  BY DEF Add, bin_op_multisigned, Result
<1>. HIDE DEF d
<1>3. d.ans = IF x + y >= S THEN x + y - S ELSE x + y
  <2>1. x + y \in Int /\ (x + y >= S => x + y \in S..(2 * S - 1)) /\ (~(x + y >= S) => x + y \in 0..(S - 1))
    BY <1>1
  <2>2. Unsigned(t, x + y) = (x + y) % S
    BY DEF Unsigned
  <2>. HIDE DEF S
  <2>. QED
    BY <1>1, <1>2, <2>1, <2>2, Wrap
<1>4. d.carry \in BOOLEAN /\ (d.carry <=> x + y >= S)
  <2>1. x + y # d.ans <=> x + y >= S
    BY <1>1, <1>3
  <2>2. d.carry = (x + y # d.ans)
    BY <1>2, Zenon
  <2>. QED
    BY <2>1, <2>2, Zenon
<1>. QED
  BY <1>3, <1>4 DEF d, S

(* The operand with the carry added wraps when it has all its bits set. *)
LEMMA IncrementFacts ==
    ASSUME NEW t \in IntTypes, NEW y \in 0..(Size(t) - 1)
    PROVE  LET c == If(Has(flags, FLAG_CARRY), 1)
               w == If(Has(flags, FLAG_CARRY) /\ y = Size(t) - 1, 1)
           IN /\ c \in 0..1 /\ w \in 0..1
              /\ Incremented(t, y) = y + c - w * Size(t)
              /\ Incremented(t, y) \in 0..(Size(t) - 1)
<1>. DEFINE S == Size(t)
            c == If(Has(flags, FLAG_CARRY), 1)
            w == If(Has(flags, FLAG_CARRY) /\ y = S - 1, 1)
<1>1. S \in Nat /\ S > 0 /\ y \in Nat /\ y < S
  BY Widths
<1>2. c \in 0..1 /\ w \in 0..1 /\ (w = 1 <=> c = 1 /\ y = S - 1)
  BY DEF If
<1>3. Incremented(t, y) = (y + c) % S
  BY DEF Incremented, Unsigned
<1>. HIDE DEF S, c, w
<1>4. CASE w = 1
  <2>1. y + c = S
    BY <1>1, <1>2, <1>4
  <2>2. S % S = 0
    BY <1>1, Wrap
  <2>. QED
    BY <1>1, <1>2, <1>3, <1>4, <2>1, <2>2 DEF S, c, w
<1>5. CASE w = 0
  <2>1. y + c \in 0..(S - 1)
    BY <1>1, <1>2, <1>5
  <2>2. (y + c) % S = y + c
    BY <1>1, <2>1, Wrap
  <2>. QED
    BY <1>1, <1>2, <1>3, <1>5, <2>1, <2>2 DEF S, c, w
<1>. QED
  BY <1>2, <1>4, <1>5

(* The carries of two limbs make up the difference of the whole. *)
CarriesMakeUp(S, xl, xh, yl, yh, c, w, k) ==
    /\ (xh * S + xl) + (yh * S + yl) - ((xh + (yh + c - w * S) - k * S) * S + (xl + yl - c * S))
       = (S * S) * (w + k)
    /\ (xh * S + xl) - (yh * S + yl) - ((xh - (yh + c - w * S) + k * S) * S + (xl - yl + c * S))
       = (S * S) * (-(w + k))
(* Carries and borrows between two limbs make up the whole. *)
LEMMA LimbsArithmetic ==
    ASSUME NEW S \in Int, NEW xl \in Int, NEW xh \in Int, NEW yl \in Int, NEW yh \in Int,
           NEW c \in Int, NEW w \in Int, NEW k \in Int
    PROVE  CarriesMakeUp(S, xl, xh, yl, yh, c, w, k)
<1>. DEFINE SS == S * S
            wS == w * S
            kS == k * S
            cS == c * S
<1>1. wS \in Int /\ kS \in Int /\ cS \in Int /\ SS \in Int /\ xh * S \in Int /\ yh * S \in Int
  OBVIOUS
<1>2. wS * S = SS * w /\ kS * S = SS * k
  OBVIOUS
<1>3. (xh + (yh + c - wS) - kS) * S = xh * S + yh * S + cS - wS * S - kS * S
  OBVIOUS
<1>4. (xh - (yh + c - wS) + kS) * S = xh * S - yh * S - cS + wS * S + kS * S
  OBVIOUS
<1>5. SS * (w + k) = SS * w + SS * k /\ SS * (-(w + k)) = -(SS * w) - SS * k
  OBVIOUS
<1>. QED
  BY <1>1, <1>2, <1>3, <1>4, <1>5 DEF CarriesMakeUp

(* One carry is one S. *)
LEMMA OneCarry ==
    ASSUME NEW S \in Int, NEW p \in Int, NEW c
    PROVE  /\ c = (IF p >= S THEN 1 ELSE 0) =>
                (IF p >= S THEN p - S ELSE p) = p - c * S
           /\ c = (IF p < 0 THEN 1 ELSE 0) =>
                (IF p < 0 THEN p + S ELSE p) = p + c * S
  OBVIOUS

(* A multiple leaves nothing. *)
LEMMA NoRemainder ==
    ASSUME NEW S \in Nat, S > 0, NEW a \in Int, NEW v \in Int, v = (S * S) * a
    PROVE  v % (S * S) = 0
<1>. DEFINE M == S * S
<1>1. M \in Nat /\ M > 0
  OBVIOUS
<1>. HIDE DEF M
<1>2. (M * a + 0) % M = 0
  BY <1>1, ModOf
<1>3. v = M * a + 0
  <2>1. v = M * a /\ M * a \in Int
    BY <1>1 DEF M
  <2>. QED
    BY <2>1
<1>. QED
  BY <1>2, <1>3 DEF M

(* ADD and ADDCARRY, and SUB and SUBBORROW, on the limbs of a number. *)
LEMMA LimbsStep ==
    ASSUME AluInv, Next, Len(done') = 2, outcome' = "ok",
           NEW lo, lo = done'[1], NEW hi, hi = done'[2],
           lo.reg.type # "Float", OnLimbs(lo, hi),
           NEW vl, vl = read_from_register(lo.reg)', NEW vh, vh = read_from_register(hi.reg)',
           NEW k, k = CarryOut'
    PROVE  LET S == Size(lo.reg.type)
               x == hi.x * S + lo.x
               y == hi.y * S + lo.y
               v == vh * S + vl
               lost == hi.y = S - 1 /\ Has(hi.flags, FLAG_CARRY)
           IN /\ lo.op = "ADD" /\ hi.op = "ADDCARRY" =>
                   (x + y - v) % (S * S) = 0 /\ (~lost => v + S * S * k = x + y)
              /\ lo.op = "SUB" /\ hi.op = "SUBBORROW" =>
                   (x - y - v) % (S * S) = 0 /\ (~lost => v - S * S * k = x - y)
<1>. DEFINE t == lo.reg.type
            S == Size(t)
            x == hi.x * S + lo.x
            y == hi.y * S + lo.y
            v == vh * S + vl
            d == Computed(lo.op, t, lo.x, lo.y)
            e == Computed(hi.op, t, hi.x, hi.y)
            z == Incremented(t, hi.y)
            c == If(Has(flags, FLAG_CARRY), 1)
            w == If(Has(flags, FLAG_CARRY) /\ hi.y = S - 1, 1)
<1>1. ASSUME lo.op \in {"ADD", "SUB"}, hi.op \in {"ADDCARRY", "SUBBORROW"}
      PROVE  /\ t \in IntTypes
             /\ lo.x \in 0..(S - 1) /\ hi.x \in 0..(S - 1)
             /\ lo.y \in 0..(S - 1) /\ hi.y \in 0..(S - 1)
             /\ vl = d.ans /\ vh = e.ans /\ hi.flags = flags
             /\ Has(flags, FLAG_CARRY) <=> d.carry
             /\ k = If(e.carry, 1)
             /\ S \in Nat /\ S > 0
             /\ c \in 0..1 /\ w \in 0..1 /\ z = hi.y + c - w * S /\ z \in 0..(S - 1)
  <2>1. lo.op \in Plain /\ hi.op \in Chained /\ lo.op \notin Divisions /\ hi.op \notin Divisions
    BY <1>1 DEF Plain, Chained, Divisions
  <2>2. /\ t \in IntTypes
        /\ lo.x \in 0..(S - 1) /\ hi.x \in 0..(S - 1)
        /\ lo.y \in Operands(lo.op, t) /\ hi.y \in Operands(hi.op, t)
        /\ vl = d.ans /\ vh = e.ans /\ hi.flags = flags
        /\ Has(flags, FLAG_CARRY) <=> d.carry
        /\ Has(flags', FLAG_CARRY) <=> e.carry
    BY <2>1, ChainStep
  <2>3. lo.y \in 0..(S - 1) /\ hi.y \in 0..(S - 1)
    BY <1>1, <2>2 DEF Operands, Shifting
  <2>4. k = If(e.carry, 1)
    BY <2>2 DEF CarryOut, If
  <2>5. S \in Nat /\ S > 0
    BY <2>2, Widths
  <2>6. c \in 0..1 /\ w \in 0..1 /\ z = hi.y + c - w * S /\ z \in 0..(S - 1)
    BY <2>2, <2>3, IncrementFacts
  <2>. QED
    BY <2>2, <2>3, <2>4, <2>5, <2>6
<1>2. ASSUME lo.op = "ADD", hi.op = "ADDCARRY"
      PROVE  (x + y - v) % (S * S) = 0
             /\ (~(hi.y = S - 1 /\ Has(hi.flags, FLAG_CARRY)) => v + S * S * k = x + y)
  <2>1. d = Add(t, lo.x, lo.y) /\ e = Add(t, hi.x, z)
    BY <1>2 DEF Computed
  <2>2. /\ d.ans = IF lo.x + lo.y >= S THEN lo.x + lo.y - S ELSE lo.x + lo.y
        /\ d.carry <=> lo.x + lo.y >= S
        /\ e.ans = IF hi.x + z >= S THEN hi.x + z - S ELSE hi.x + z
        /\ e.carry <=> hi.x + z >= S
    <3>. HIDE DEF z, t
    <3>. QED
      BY <1>1, <1>2, <2>1, AddFacts
  <2>. HIDE DEF d, e, z, S
  <2>3. /\ lo.x \in Int /\ hi.x \in Int /\ lo.y \in Int /\ hi.y \in Int /\ S \in Int
        /\ c \in Int /\ w \in Int /\ k \in Int
    BY <1>1, <1>2 DEF If
  <2>4. c = IF lo.x + lo.y >= S THEN 1 ELSE 0
    BY <1>1, <1>2, <2>2 DEF If
  <2>5. vl = lo.x + lo.y - c * S
    <3>. DEFINE p == lo.x + lo.y
    <3>1. vl = d.ans
      BY <1>1, <1>2
    <3>2. p \in Int /\ vl = IF p >= S THEN p - S ELSE p
      BY <2>2, <2>3, <3>1
    <3>3. c = IF p >= S THEN 1 ELSE 0
      BY <2>3, <2>4
    <3>. HIDE DEF p, c
    <3>4. vl = p - c * S
      BY <2>3, <3>2, <3>3, OneCarry
    <3>5. c * S \in Int
      BY <2>3
    <3>. QED
      BY <2>3, <3>4, <3>5 DEF p
  <2>6. k = IF hi.x + z >= S THEN 1 ELSE 0
    BY <1>1, <1>2, <2>2 DEF If
  <2>. HIDE DEF c, w
  <2>7. vh = hi.x + (hi.y + c - w * S) - k * S
    <3>. DEFINE p == hi.x + z
    <3>1. z \in Int /\ z = hi.y + c - w * S
      BY <1>1, <1>2, <2>3
    <3>2. p \in Int /\ vh = IF p >= S THEN p - S ELSE p
      BY <1>1, <1>2, <2>2, <2>3, <3>1
    <3>3. k = IF p >= S THEN 1 ELSE 0
      BY <2>3, <2>6, <3>1
    <3>. HIDE DEF p
    <3>4. vh = p - k * S
      BY <2>3, <3>2, <3>3, OneCarry
    <3>5. k * S \in Int
      BY <2>3
    <3>. QED
      BY <2>3, <3>1, <3>4, <3>5 DEF p
  <2>8. x + y - v = (S * S) * (w + k)
    <3>1. CarriesMakeUp(S, lo.x, hi.x, lo.y, hi.y, c, w, k)
      BY <2>3, LimbsArithmetic
    <3>. QED
      BY <2>5, <2>7, <3>1 DEF CarriesMakeUp
  <2>9. x \in Int /\ y \in Int /\ v \in Int /\ x + y - v \in Int
    <3>1. vl \in Int /\ vh \in Int
      BY <2>3, <2>5, <2>7
    <3>. QED
      BY <2>3, <3>1
  <2>. HIDE DEF x, y, v
  <2>10. (x + y - v) % (S * S) = 0
    <3>1. w + k \in Int
      BY <2>3
    <3>. QED
      BY <1>1, <1>2, <2>8, <2>9, <3>1, NoRemainder
  <2>11. ASSUME ~(hi.y = S - 1 /\ Has(hi.flags, FLAG_CARRY)) PROVE v + S * S * k = x + y
    <3>1. w = 0
      BY <1>1, <1>2, <2>11 DEF w, If
    <3>2. x + y - v = (S * S) * k /\ (S * S) * k \in Int
      BY <2>3, <2>8, <3>1
    <3>. QED
      BY <2>9, <3>2
  <2>. QED
    BY <2>10, <2>11
<1>3. ASSUME lo.op = "SUB", hi.op = "SUBBORROW"
      PROVE  (x - y - v) % (S * S) = 0
             /\ (~(hi.y = S - 1 /\ Has(hi.flags, FLAG_CARRY)) => v - S * S * k = x - y)
  <2>1. d = Sub(t, lo.x, lo.y) /\ e = Sub(t, hi.x, z)
    BY <1>3 DEF Computed
  <2>2. /\ d.ans = IF lo.x < lo.y THEN lo.x - lo.y + S ELSE lo.x - lo.y
        /\ d.carry <=> lo.x < lo.y
        /\ e.ans = IF hi.x < z THEN hi.x - z + S ELSE hi.x - z
        /\ e.carry <=> hi.x < z
    <3>. HIDE DEF z, t
    <3>. QED
      BY <1>1, <1>3, <2>1, SubFacts
  <2>. HIDE DEF d, e, z, S
  <2>3. /\ lo.x \in Int /\ hi.x \in Int /\ lo.y \in Int /\ hi.y \in Int /\ S \in Int
        /\ c \in Int /\ w \in Int /\ k \in Int
    BY <1>1, <1>3 DEF If
  <2>4. c = IF lo.x < lo.y THEN 1 ELSE 0
    BY <1>1, <1>3, <2>2 DEF If
  <2>5. vl = lo.x - lo.y + c * S
    <3>. DEFINE p == lo.x - lo.y
    <3>1. vl = d.ans
      BY <1>1, <1>3
    <3>2. p \in Int /\ vl = IF p < 0 THEN p + S ELSE p
      BY <2>2, <2>3, <3>1
    <3>3. c = IF p < 0 THEN 1 ELSE 0
      BY <2>3, <2>4
    <3>. HIDE DEF p, c
    <3>4. vl = p + c * S
      BY <2>3, <3>2, <3>3, OneCarry
    <3>5. c * S \in Int
      BY <2>3
    <3>. QED
      BY <2>3, <3>4, <3>5 DEF p
  <2>6. k = IF hi.x < z THEN 1 ELSE 0
    BY <1>1, <1>3, <2>2 DEF If
  <2>. HIDE DEF c, w
  <2>7. vh = hi.x - (hi.y + c - w * S) + k * S
    <3>. DEFINE p == hi.x - z
    <3>1. z \in Int /\ z = hi.y + c - w * S
      BY <1>1, <1>3, <2>3
    <3>2. p \in Int /\ vh = IF p < 0 THEN p + S ELSE p
      BY <1>1, <1>3, <2>2, <2>3, <3>1
    <3>3. k = IF p < 0 THEN 1 ELSE 0
      BY <2>3, <2>6, <3>1
    <3>. HIDE DEF p
    <3>4. vh = p + k * S
      BY <2>3, <3>2, <3>3, OneCarry
    <3>5. k * S \in Int
      BY <2>3
    <3>. QED
      BY <2>3, <3>1, <3>4, <3>5 DEF p
  <2>8. x - y - v = (S * S) * (-(w + k))
    <3>1. CarriesMakeUp(S, lo.x, hi.x, lo.y, hi.y, c, w, k)
      BY <2>3, LimbsArithmetic
    <3>. QED
      BY <2>5, <2>7, <3>1 DEF CarriesMakeUp
  <2>9. x \in Int /\ y \in Int /\ v \in Int /\ x - y - v \in Int
    <3>1. vl \in Int /\ vh \in Int
      BY <2>3, <2>5, <2>7
    <3>. QED
      BY <2>3, <3>1
  <2>. HIDE DEF x, y, v
  <2>10. (x - y - v) % (S * S) = 0
    <3>1. -(w + k) \in Int
      BY <2>3
    <3>. QED
      BY <1>1, <1>3, <2>8, <2>9, <3>1, NoRemainder
  <2>11. ASSUME ~(hi.y = S - 1 /\ Has(hi.flags, FLAG_CARRY)) PROVE v - S * S * k = x - y
    <3>1. w = 0
      BY <1>1, <1>3, <2>11 DEF w, If
    <3>2. x - y - v = -((S * S) * k) /\ (S * S) * k \in Int
      BY <2>3, <2>8, <3>1
    <3>. QED
      BY <2>9, <3>2
  <2>. QED
    BY <2>10, <2>11
<1>. QED
  BY <1>2, <1>3

(* Sums and differences of two limbs are those of the whole, for limbs of  *)
(* any width (cpu.rs:1765-1789, 99-107).                                   *)
THEOREM LimbsAddUp ==
    Spec => []LimbsChain
<1>1. Init => LimbsChain
  <2>1. Init => Len(done) = 0
    BY DEF Init
  <2>. QED
    BY <2>1 DEF LimbsChain, Ran
<1>2. AluInv /\ LimbsChain /\ [Next]_vars => LimbsChain'
  <2>. SUFFICES ASSUME AluInv, LimbsChain, [Next]_vars PROVE LimbsChain'
    OBVIOUS
  <2>1. CASE UNCHANGED vars
    BY <2>1 DEF vars, LimbsChain, Ran, OnLimbs, Original, Operand, Number, Wide, CarryOut,
                read_from_register
  <2>2. CASE Next
    <3>1. PICK lo : lo = done'[1]
      OBVIOUS
    <3>2. PICK hi : hi = done'[2]
      OBVIOUS
    <3>3. PICK vl : vl = read_from_register(lo.reg)'
      OBVIOUS
    <3>4. PICK vh : vh = read_from_register(hi.reg)'
      OBVIOUS
    <3>5. PICK k : k = CarryOut'
      OBVIOUS
    <3>6. /\ vl = read_from_register(done[1].reg)' /\ vh = read_from_register(done[2].reg)'
      BY <3>1, <3>2, <3>3, <3>4 DEF read_from_register
    <3>7. ASSUME Len(done') = 2, outcome' = "ok", lo.reg.type \in IntTypes, OnLimbs(lo, hi)
          PROVE  LET S == Size(lo.reg.type)
                     x == hi.x * S + lo.x
                     y == hi.y * S + lo.y
                     v == vh * S + vl
                     lost == hi.y = S - 1 /\ Has(hi.flags, FLAG_CARRY)
                 IN /\ lo.op = "ADD" /\ hi.op = "ADDCARRY" =>
                         (x + y - v) % (S * S) = 0 /\ (~lost => v + S * S * k = x + y)
                    /\ lo.op = "SUB" /\ hi.op = "SUBBORROW" =>
                         (x - y - v) % (S * S) = 0 /\ (~lost => v - S * S * k = x - y)
      <4>1. lo.reg.type # "Float"
        BY <3>7 DEF IntTypes
      <4>. QED
        BY <2>2, <3>1, <3>2, <3>3, <3>4, <3>5, <3>7, <4>1, LimbsStep
    <3>. QED
      BY <3>1, <3>2, <3>5, <3>6, <3>7 DEF LimbsChain, Ran, OnLimbs, Original, Operand, Number, Wide
  <2>. QED
    BY <2>1, <2>2
<1>. QED
  BY <1>1, <1>2, Inductive, PTL DEF Spec

(* Division that truncates: the remainder is smaller than the divisor and  *)
(* has the dividend's sign, and the quotient is no larger than the         *)
(* dividend.                                                               *)
LEMMA TruncatedFacts ==
    ASSUME NEW a \in Int, NEW b \in Int, b # 0
    PROVE  LET T == Truncated(a, b)
               m == a - b * T
           IN /\ T \in Int /\ m \in Int
              /\ Magnitude(m) < Magnitude(b)
              /\ m = 0 \/ (m < 0 <=> a < 0)
              /\ Magnitude(T) <= Magnitude(a)
              /\ Magnitude(T) = Magnitude(a) /\ a # 0 => Magnitude(b) = 1
              /\ T > 0 => (a < 0 <=> b < 0)
<1>. DEFINE A == Magnitude(a)
            B == Magnitude(b)
            q == A \div B
            p == A % B
            T == Truncated(a, b)
            m == a - b * T
<1>1. A \in Nat /\ B \in Nat /\ B > 0 /\ A = (IF a < 0 THEN -a ELSE a) /\ B = (IF b < 0 THEN -b ELSE b)
  BY DEF Magnitude
<1>2. T = IF (a < 0) = (b < 0) THEN q ELSE -q
  BY DEF Truncated
<1>. HIDE DEF A, B, T
<1>3. q \in Int /\ p \in 0..(B - 1) /\ A = B * q + p
  <2>1. A \in Int
    BY <1>1
  <2>2. A \div B \in Int /\ A % B \in 0..(B - 1) /\ A = B * (A \div B) + (A % B)
    BY <1>1, <2>1, DivMod
  <2>. QED
    BY <2>2
<1>4. q \in 0..A
  BY <1>1, QuotientRange
<1>. HIDE DEF q, p
<1>5. q = A /\ A # 0 => B = 1
  <2>1. ASSUME q = A, A # 0, B # 1 PROVE FALSE
    <3>1. B * q >= 2 * q
      BY <1>1, <1>3, <1>4, <2>1
    <3>. QED
      BY <1>1, <1>3, <1>4, <2>1, <3>1
  <2>. QED
    BY <2>1
<1>6. T \in Int /\ (T = q \/ T = -q) /\ (T = q <=> (q = 0 \/ (a < 0 <=> b < 0)))
  <2>1. CASE a < 0 <=> b < 0
    <3>1. (a < 0) = (b < 0)
      BY <2>1
    <3>. QED
      BY <1>2, <1>4, <2>1, <3>1
  <2>2. CASE ~(a < 0 <=> b < 0)
    <3>1. (a < 0) # (b < 0)
      BY <2>2
    <3>. QED
      BY <1>1, <1>2, <1>4, <2>2, <3>1
  <2>. QED
    BY <2>1, <2>2
<1>7. m = IF a < 0 THEN -p ELSE p
  <2>. DEFINE Bq == B * q
              bT == b * T
  <2>1. Bq \in Int /\ bT \in Int /\ A = Bq + p
    BY <1>1, <1>3, <1>6
  <2>2. bT = IF a < 0 THEN -Bq ELSE Bq
    <3>1. CASE a < 0 /\ b < 0
      <4>1. T = q /\ b = -B
        BY <1>1, <1>6, <3>1
      <4>2. (-B) * q = -(B * q)
        BY <1>1, <1>3
      <4>. QED
        BY <3>1, <4>1, <4>2
    <3>2. CASE ~(a < 0) /\ ~(b < 0)
      <4>1. T = q /\ b = B
        BY <1>1, <1>6, <3>2
      <4>. QED
        BY <3>2, <4>1
    <3>3. CASE a < 0 /\ ~(b < 0)
      <4>1. T = -q /\ b = B
        BY <1>1, <1>4, <1>6, <3>3
      <4>2. B * (-q) = -(B * q)
        BY <1>1, <1>3
      <4>. QED
        BY <3>3, <4>1, <4>2
    <3>4. CASE ~(a < 0) /\ b < 0
      <4>1. T = -q /\ b = -B
        BY <1>1, <1>4, <1>6, <3>4
      <4>2. (-B) * (-q) = B * q
        BY <1>1, <1>3
      <4>. QED
        BY <3>4, <4>1, <4>2
    <3>. QED
      BY <3>1, <3>2, <3>3, <3>4
  <2>. HIDE DEF Bq, bT
  <2>3. m = a - bT
    BY DEF bT
  <2>4. p \in Int
    BY <1>1, <1>3
  <2>. QED
    BY <1>1, <2>1, <2>2, <2>3, <2>4
<1>. HIDE DEF m
<1>8. m \in Int /\ Magnitude(m) < B /\ (m = 0 \/ (m < 0 <=> a < 0))
  BY <1>1, <1>3, <1>7 DEF Magnitude
<1>9. Magnitude(T) = q
  BY <1>1, <1>4, <1>6 DEF Magnitude
<1>10. T > 0 => (a < 0 <=> b < 0)
  BY <1>1, <1>4, <1>6
<1>11. Magnitude(a) = A /\ Magnitude(b) = B /\ (A = 0 <=> a = 0)
  BY <1>1 DEF A, B
<1>12. Magnitude(T) <= Magnitude(a) /\ (Magnitude(T) = Magnitude(a) /\ a # 0 => Magnitude(b) = 1)
  BY <1>1, <1>4, <1>5, <1>9, <1>11
<1>. QED
  BY <1>6, <1>8, <1>10, <1>11, <1>12 DEF m, T, A, B

(* A number differs from its unsigned cast, and from its signed reading,   *)
(* by a multiple of S.                                                     *)
LEMMA Multiples ==
    ASSUME NEW t \in IntTypes, NEW v \in Int
    PROVE  /\ \E a \in Int : Unsigned(t, v) = v + Size(t) * a
           /\ \E a \in Int : Signed(t, v) = v + Size(t) * a
<1>. DEFINE S == Size(t)
<1>1. S \in Nat /\ S > 0
  BY Widths
<1>2. \E a \in Int : Signed(t, v) = v + S * a
  <2>1. v + S * 0 = v /\ v + S * (-1) = v - S
    BY <1>1
  <2>2. Signed(t, v) = v \/ Signed(t, v) = v - S
    BY DEF Signed
  <2>3. 0 \in Int /\ -1 \in Int
    OBVIOUS
  <2>. HIDE DEF S
  <2>. QED
    BY <2>1, <2>2, <2>3
<1>3. \E a \in Int : Unsigned(t, v) = v + S * a
  <2>. DEFINE q == v \div S
              u == v % S
  <2>2. Unsigned(t, v) = u
    BY DEF Unsigned
  <2>. HIDE DEF S
  <2>5. v \div S \in Int /\ v % S \in 0..(S - 1) /\ v = S * (v \div S) + (v % S)
    BY <1>1, DivMod
  <2>1. q \in Int /\ u \in Int /\ v = S * q + u
    BY <1>1, <2>5
  <2>. HIDE DEF q, u, S
  <2>3. -q \in Int /\ S * (-q) = -(S * q) /\ S * q \in Int
    BY <1>1, <2>1
  <2>4. u = v + S * (-q)
    BY <2>1, <2>3
  <2>. QED
    BY <2>2, <2>3, <2>4
<1>. QED
  BY <1>2, <1>3

(* Quotient and remainder, as the registers hold them. *)
LEMMA SignedDivision ==
    ASSUME NEW t \in IntTypes, NEW x \in 0..(Size(t) - 1), NEW y \in 0..(Size(t) - 1), y # 0
    PROVE  LET sx == Signed(t, x)
               sy == Signed(t, y)
               uq == SDiv(t, x, y).ans
               ur == SRem(t, x, y).ans
           IN /\ Magnitude(Signed(t, ur)) < Magnitude(sy)
              /\ Signed(t, ur) = 0 \/ (Signed(t, ur) < 0 <=> sx < 0)
              /\ Signed(t, uq) * sy + Signed(t, ur) = sx <=> ~DivOverflows(t, x, y)
              /\ Unsigned(t, uq * y + ur) = x
<1>. DEFINE S == Size(t)
            H == SignBit(t)
            sx == Signed(t, x)
            sy == Signed(t, y)
            T == Truncated(sx, sy)
            m == sx - sy * T
            uq == SDiv(t, x, y).ans
            ur == SRem(t, x, y).ans
<1>1. S \in Nat /\ S > 0 /\ S = 2 * H /\ H \in Nat /\ H > 0 /\ x \in Int /\ y \in Int
  BY Widths
<1>2. sx \in (-H)..(H - 1) /\ sy \in (-H)..(H - 1) /\ sy # 0
  BY SignedFacts
<1>3. sx \in Int /\ sy \in Int
  BY <1>1, <1>2
<1>4. uq = Unsigned(t, T) /\ ur = Unsigned(t, m)
  BY DEF SDiv, SRem, bin_op_signed, Result
<1>5. DivOverflows(t, x, y) <=> sx = -H /\ sy = -1
  BY DEF DivOverflows
<1>6. \E a \in Int : sx = x + S * a
  BY <1>1, Multiples
<1>7. \E a \in Int : sy = y + S * a
  BY <1>1, Multiples
<1>. HIDE DEF S, H, sx, sy
<1>8. /\ T \in Int /\ m \in Int
      /\ Magnitude(m) < Magnitude(sy)
      /\ m = 0 \/ (m < 0 <=> sx < 0)
      /\ Magnitude(T) <= Magnitude(sx)
      /\ Magnitude(T) = Magnitude(sx) /\ sx # 0 => Magnitude(sy) = 1
      /\ T > 0 => (sx < 0 <=> sy < 0)
  BY <1>2, <1>3, TruncatedFacts
<1>9. m = sx - sy * T
  OBVIOUS
<1>. HIDE DEF T, m, uq, ur
<1>10. Signed(t, ur) = m
  <2>1. m \in (-H)..(H - 1)
    BY <1>1, <1>2, <1>3, <1>8 DEF Magnitude
  <2>. QED
    BY <1>4, <1>8, <2>1, CastFacts DEF H
<1>11. T * sy + m = sx
  <2>1. T * sy = sy * T /\ sy * T \in Int
    BY <1>3, <1>8
  <2>. QED
    BY <1>3, <1>8, <1>9, <2>1
<1>12. Signed(t, uq) * sy + Signed(t, ur) = sx <=> ~DivOverflows(t, x, y)
  <2>1. CASE DivOverflows(t, x, y)
    <3>1. sx = -H /\ sy = -1
      BY <1>5, <2>1
    <3>2. m = 0 /\ T = H
      <4>1. m = 0
        BY <1>8, <3>1 DEF Magnitude
      <4>2. sy * T = -T
        BY <1>8, <3>1
      <4>. QED
        BY <1>1, <1>3, <1>8, <1>9, <3>1, <4>1, <4>2
    <3>3. uq = H
      <4>1. H \in Int /\ H \in 0..(Size(t) - 1)
        BY <1>1 DEF S
      <4>. QED
        BY <1>4, <3>2, <4>1, CastFacts
    <3>4. Signed(t, uq) = -H
      BY <1>1, <3>3 DEF Signed, S, H
    <3>5. Signed(t, uq) * sy = H
      BY <1>1, <3>1, <3>4
    <3>. QED
      BY <1>1, <1>10, <2>1, <3>1, <3>2, <3>5
  <2>2. CASE ~DivOverflows(t, x, y)
    <3>1. T \in (-H)..(H - 1)
      <4>1. Magnitude(T) <= H
        BY <1>1, <1>2, <1>3, <1>8 DEF Magnitude
      <4>2. T # H
        <5>1. ASSUME T = H PROVE FALSE
          <6>1. Magnitude(sx) = H /\ sx # 0 /\ T > 0
            BY <1>1, <1>2, <1>3, <1>8, <5>1 DEF Magnitude
          <6>2. Magnitude(T) = Magnitude(sx)
            BY <1>1, <5>1, <6>1 DEF Magnitude
          <6>3. Magnitude(sy) = 1 /\ (sx < 0 <=> sy < 0)
            BY <1>8, <6>1, <6>2
          <6>4. sx = -H
            BY <1>1, <1>2, <1>3, <6>1 DEF Magnitude
          <6>5. sy = -1
            BY <1>1, <1>2, <1>3, <6>3, <6>4 DEF Magnitude
          <6>. QED
            BY <1>5, <2>2, <6>4, <6>5
        <5>. QED
          BY <5>1
      <4>. QED
        BY <1>1, <1>8, <4>1, <4>2 DEF Magnitude
    <3>2. Signed(t, uq) = T
      BY <1>4, <1>8, <3>1, CastFacts DEF H
    <3>. QED
      BY <1>10, <1>11, <2>2, <3>2
  <2>. QED
    BY <2>1, <2>2
<1>13. Unsigned(t, uq * y + ur) = x
  <2>1. PICK a \in Int : sx = x + S * a
    BY <1>6
  <2>2. PICK b \in Int : sy = y + S * b
    BY <1>7
  <2>3. PICK c \in Int : uq = T + S * c
    BY <1>4, <1>8, Multiples DEF S
  <2>4. PICK d \in Int : ur = m + S * d
    BY <1>4, <1>8, Multiples DEF S
  <2>. DEFINE k == a - T * b + c * y + d
  <2>5. k \in Int
    BY <1>1, <1>8
  <2>6. uq * y + ur = S * k + x
    <3>1. y = sy - S * b
      <4>1. S * b \in Int
        BY <1>1
      <4>. QED
        BY <1>1, <1>3, <2>2, <4>1
    <3>2. uq * y = T * y + S * (c * y)
      BY <1>1, <1>8, <2>3
    <3>3. T * y = T * sy - S * (T * b)
      <4>1. T * (sy - S * b) = T * sy - S * (T * b)
        BY <1>1, <1>3, <1>8
      <4>. QED
        BY <3>1, <4>1
    <3>4. S * k = S * a - S * (T * b) + S * (c * y) + S * d
      BY <1>1, <1>8
    <3>. DEFINE A == S * a
                B == S * (T * b)
                C == S * (c * y)
                D == S * d
                P == T * sy
                Q == T * y
                U == uq * y
                K == S * k
    <3>5. A \in Int /\ B \in Int /\ C \in Int /\ D \in Int /\ P \in Int
      BY <1>1, <1>3, <1>8
    <3>6. /\ U = Q + C /\ Q = P - B /\ K = A - B + C + D /\ ur = m + D
          /\ P + m = sx /\ sx = x + A
      BY <1>11, <2>1, <2>4, <3>2, <3>3, <3>4
    <3>. HIDE DEF A, B, C, D, P, Q, U, K, k
    <3>7. U + ur = K + x
      BY <1>1, <1>3, <1>8, <3>5, <3>6
    <3>. QED
      BY <3>7 DEF U, K
  <2>. HIDE DEF k
  <2>7. (S * k + x) % S = x
    BY <1>1, <2>5, ModOf DEF S
  <2>. QED
    BY <2>6, <2>7 DEF Unsigned, S
<1>. QED
  BY <1>8, <1>10, <1>12, <1>13 DEF sx, sy, uq, ur

(* A division that ends well was not by zero. *)
LEMMA NotByZero ==
    ASSUME Next, Head(todo).op \in Divisions, Head(todo).reg.type # "Float", outcome' = "ok"
    PROVE  Head(todo).y # 0
<1>. DEFINE o == Head(todo).op
<1>1. /\ o # "NEGATE" /\ o # "COMPARE" /\ o \notin Conversions /\ o \notin Jumps
      /\ o \notin {"ADDCARRY", "SUBBORROW"}
  BY DEF Divisions, Conversions, Jumps
<1>2. ASSUME NEW op, Executing(op) PROVE o = op
  BY <1>2 DEF Executing
<1>. HIDE DEF o
<1>3. ASSUME NEW op \in Integer, IntegerInstruction(op) PROVE Head(todo).y # 0
  <2>1. Executing(op) /\ ~(op \in Divisions /\ Head(todo).y = 0)
    BY <1>3 DEF IntegerInstruction
  <2>. QED
    BY <1>2, <2>1 DEF o
<1>4. ASSUME NEW op \in Integer, DivideByZero(op) PROVE FALSE
  BY <1>4 DEF DivideByZero, ChangesNothing, Ends
<1>5. ASSUME NEW op \in Integer, IncrementPanics(op) PROVE FALSE
  BY <1>5 DEF IncrementPanics, ChangesNothing, Ends
<1>6. ASSUME NEW op \in FloatOps, FloatInstruction(op) PROVE FALSE
  BY <1>6 DEF FloatInstruction
<1>7. ~Negate
  BY <1>1, <1>2 DEF Negate
<1>8. ~Compare
  BY <1>1, <1>2 DEF Compare
<1>9. ASSUME NEW op \in Conversions, Convert(op) \/ ConvertRejected(op) PROVE FALSE
  BY <1>1, <1>2, <1>9 DEF Convert, ConvertRejected
<1>10. ASSUME NEW j \in Jumps, Jump(j) PROVE FALSE
  BY <1>1, <1>2, <1>10 DEF Jump
<1>. QED
  BY <1>3, <1>4, <1>5, <1>6, <1>7, <1>8, <1>9, <1>10 DEF Next

(* UDIV and UREM, and SDIV and SREM, of the same numbers. *)
LEMMA DivisionStep ==
    ASSUME AluInv, Next, Len(done') = 2, outcome' = "ok",
           NEW q, q = done'[1], NEW s, s = done'[2],
           q.reg.type # "Float", OnLimbs(q, s), q.x = s.x, q.y = s.y,
           NEW uq, uq = read_from_register(q.reg)', NEW ur, ur = read_from_register(s.reg)'
    PROVE  LET t == q.reg.type
               x == Signed(t, q.x)
               y == Signed(t, q.y)
               rem == Signed(t, ur)
           IN /\ q.op = "UDIV" /\ s.op = "UREM" => uq * q.y + ur = q.x /\ ur < q.y
              /\ q.op = "SDIV" /\ s.op = "SREM" =>
                   /\ Magnitude(rem) < Magnitude(y)
                   /\ rem = 0 \/ (rem < 0 <=> x < 0)
                   /\ Signed(t, uq) * y + rem = x <=> ~Has(flags', FLAG_OVERFLOW)
                   /\ Unsigned(t, uq * q.y + ur) = q.x
<1>. DEFINE t == q.reg.type
            d == Computed(q.op, t, q.x, q.y)
            e == Computed(s.op, t, s.x, s.y)
<1>1. ASSUME q.op \in {"UDIV", "SDIV"}, s.op \in {"UREM", "SREM"}
      PROVE  /\ t \in IntTypes /\ q.x \in 0..(Size(t) - 1) /\ q.y \in 0..(Size(t) - 1) /\ q.y # 0
             /\ uq = d.ans /\ ur = e.ans
             /\ Has(flags', FLAG_OVERFLOW) <=> e.overflow
  <2>1. q.op \in Plain /\ s.op \in Chained /\ q.op \in Divisions /\ s.op \in Divisions
        /\ q.op \notin Shifting
    BY <1>1 DEF Plain, Chained, Divisions, Shifting
  <2>2. q.y # 0
    <3>1. PICK i : i = Head(todo)
      OBVIOUS
    <3>2. PICK x : x = read_from_register(i.reg)
      OBVIOUS
    <3>3. PICK c : c = done[1]
      OBVIOUS
    <3>4. s = [op |-> i.op, reg |-> i.reg, y |-> i.y, x |-> x, flags |-> flags]
      BY <3>1, <3>2, <3>3, Second
    <3>5. s.op = i.op /\ s.y = i.y /\ i.reg.type # "Float"
      BY <3>4 DEF OnLimbs
    <3>. QED
      BY <2>1, <3>1, <3>5, NotByZero
  <2>3. /\ t \in IntTypes /\ q.x \in 0..(Size(t) - 1) /\ q.y \in Operands(q.op, t)
        /\ uq = d.ans /\ ur = e.ans
        /\ Has(flags', FLAG_OVERFLOW) <=> e.overflow
    BY <2>1, <2>2, ChainStep
  <2>4. q.y \in 0..(Size(t) - 1)
    BY <2>1, <2>3 DEF Operands
  <2>. QED
    BY <2>2, <2>3, <2>4
<1>2. ASSUME q.op = "UDIV", s.op = "UREM"
      PROVE  uq * q.y + ur = q.x /\ ur < q.y
  <2>1. q.x \in Nat /\ q.y \in Nat /\ q.y > 0
    BY <1>1, <1>2, Widths
  <2>2. uq = q.x \div q.y /\ ur = q.x % q.y
    BY <1>1, <1>2 DEF Computed, UDiv, URem, bin_op_unsigned, Result
  <2>3. uq \in Int /\ ur \in 0..(q.y - 1) /\ q.x = q.y * uq + ur
    <3>. DEFINE S == q.y
                v == q.x
    <3>1. S \in Nat /\ S > 0 /\ v \in Int
      BY <2>1
    <3>. HIDE DEF S, v
    <3>2. v \div S \in Int /\ v % S \in 0..(S - 1) /\ v = S * (v \div S) + (v % S)
      BY <3>1, DivMod
    <3>. QED
      BY <2>2, <3>2 DEF S, v
  <2>4. q.y * uq = uq * q.y
    BY <2>1, <2>3
  <2>. QED
    BY <2>1, <2>3, <2>4
<1>3. ASSUME q.op = "SDIV", s.op = "SREM"
      PROVE  LET x == Signed(t, q.x)
                 y == Signed(t, q.y)
                 rem == Signed(t, ur)
             IN /\ Magnitude(rem) < Magnitude(y)
                /\ rem = 0 \/ (rem < 0 <=> x < 0)
                /\ Signed(t, uq) * y + rem = x <=> ~Has(flags', FLAG_OVERFLOW)
                /\ Unsigned(t, uq * q.y + ur) = q.x
  <2>1. /\ t \in IntTypes /\ q.x \in 0..(Size(t) - 1) /\ q.y \in 0..(Size(t) - 1) /\ q.y # 0
        /\ uq = d.ans /\ ur = e.ans
        /\ Has(flags', FLAG_OVERFLOW) <=> e.overflow
    BY <1>1, <1>3
  <2>2. d = SDiv(t, q.x, q.y) /\ e = SRem(t, q.x, q.y)
    BY <1>3 DEF Computed
  <2>3. e.overflow <=> DivOverflows(t, q.x, q.y)
    BY <2>2 DEF SRem, bin_op_signed, Result
  <2>. HIDE DEF d, e, t
  <2>. QED
    BY <2>1, <2>2, <2>3, SignedDivision
<1>. QED
  BY <1>2, <1>3

(* Quotient and remainder fit together, for any width (macros.rs:90-153;   *)
(* cpu.rs:1796-1830).                                                      *)
THEOREM DivisionsFit ==
    Spec => []DivisionExact
<1>1. Init => DivisionExact
  <2>1. Init => Len(done) = 0
    BY DEF Init
  <2>. QED
    BY <2>1 DEF DivisionExact, Ran
<1>2. AluInv /\ DivisionExact /\ [Next]_vars => DivisionExact'
  <2>. SUFFICES ASSUME AluInv, DivisionExact, [Next]_vars PROVE DivisionExact'
    OBVIOUS
  <2>1. CASE UNCHANGED vars
    BY <2>1 DEF vars, DivisionExact, Ran, OnLimbs, read_from_register
  <2>2. CASE Next
    <3>1. PICK q : q = done'[1]
      OBVIOUS
    <3>2. PICK s : s = done'[2]
      OBVIOUS
    <3>3. PICK uq : uq = read_from_register(q.reg)'
      OBVIOUS
    <3>4. PICK ur : ur = read_from_register(s.reg)'
      OBVIOUS
    <3>5. uq = read_from_register(done[1].reg)' /\ ur = read_from_register(done[2].reg)'
      BY <3>1, <3>2, <3>3, <3>4 DEF read_from_register
    <3>. DEFINE t == q.reg.type
                x == Signed(t, q.x)
                y == Signed(t, q.y)
                rem == Signed(t, ur)
    <3>6. ASSUME Len(done') = 2, outcome' = "ok", t \in IntTypes, OnLimbs(q, s),
                 q.x = s.x, q.y = s.y
          PROVE  /\ q.op = "UDIV" /\ s.op = "UREM" => uq * q.y + ur = q.x /\ ur < q.y
                 /\ q.op = "SDIV" /\ s.op = "SREM" =>
                      /\ Magnitude(rem) < Magnitude(y)
                      /\ rem = 0 \/ (rem < 0) = (x < 0)
                      /\ Signed(t, uq) * y + rem = x <=> ~Has(flags', FLAG_OVERFLOW)
                      /\ Unsigned(t, uq * q.y + ur) = q.x
      <4>1. t # "Float"
        BY <3>6 DEF IntTypes
      <4>2. /\ q.op = "UDIV" /\ s.op = "UREM" => uq * q.y + ur = q.x /\ ur < q.y
            /\ q.op = "SDIV" /\ s.op = "SREM" =>
                 /\ Magnitude(rem) < Magnitude(y)
                 /\ rem = 0 \/ (rem < 0 <=> x < 0)
                 /\ Signed(t, uq) * y + rem = x <=> ~Has(flags', FLAG_OVERFLOW)
                 /\ Unsigned(t, uq * q.y + ur) = q.x
        BY <2>2, <3>1, <3>2, <3>3, <3>4, <3>6, <4>1, DivisionStep
      <4>3. (rem < 0 <=> x < 0) => (rem < 0) = (x < 0)
        OBVIOUS
      <4>. QED
        BY <4>2, <4>3
    <3>. QED
      BY <3>1, <3>2, <3>5, <3>6 DEF DivisionExact, Ran, OnLimbs
  <2>. QED
    BY <2>1, <2>2
<1>. QED
  BY <1>1, <1>2, Inductive, PTL DEF Spec

-----------------------------------------------------------------------------
(***************************************************************************)
(* Powers of two, and the bits that a shift by one loses.                  *)
(***************************************************************************)

(* Powers up to the width of a register and its carry. *)
LEMMA Powers ==
    ASSUME NEW t \in IntTypes
    PROVE  /\ Bits[t] \in Nat /\ Bits[t] > 1
           /\ 2^0 = 1 /\ 2^1 = 2 /\ 2^(Bits[t]) = Size(t) /\ 2^(Bits[t] - 1) = SignBit(t)
           /\ 2^(Bits[t] + 1) = 2 * Size(t)
           /\ \A k \in 0..(Bits[t] + 1) : 2^k \in Nat /\ 2^k > 0
           /\ \A k \in 0..Bits[t] : 2^(k + 1) = 2 * 2^k
<1>. DEFINE B == Bits[t]
<1>1. B \in Nat /\ B > 1
  BY BitsAssumption
<1>2. \A k \in 0..B : 2^k \in Nat \ {0} /\ 2^(k + 1) = 2 * 2^k
  BY PowersAssumption
<1>3. 2^0 = 1
  BY PowersAssumption
<1>4. 2^B = Size(t) /\ 2^(B - 1) = SignBit(t)
  BY DEF Size, SignBit
<1>. HIDE DEF B
<1>5. 2^1 = 2
  <2>1. 0 \in 0..B /\ 0 + 1 = 1
    BY <1>1
  <2>. QED
    BY <1>2, <1>3, <2>1
<1>6. 2^(B + 1) = 2 * 2^B /\ 2^B \in Nat \ {0}
  <2>1. B \in 0..B
    BY <1>1
  <2>. QED
    BY <1>2, <2>1
<1>7. \A k \in 0..(B + 1) : 2^k \in Nat /\ 2^k > 0
  <2>. SUFFICES ASSUME NEW k \in 0..(B + 1) PROVE 2^k \in Nat /\ 2^k > 0
    OBVIOUS
  <2>1. CASE k \in 0..B
    BY <1>2, <2>1
  <2>2. CASE k = B + 1
    BY <1>6, <2>2
  <2>. QED
    BY <1>1, <2>1, <2>2
<1>. QED
  BY <1>1, <1>2, <1>3, <1>4, <1>5, <1>6, <1>7 DEF B

(* The product of two powers. *)
LEMMA PowerProduct ==
    ASSUME NEW t \in IntTypes, NEW i \in Nat, NEW j \in Nat, i + j <= Bits[t] + 1
    PROVE  2^i * 2^j = 2^(i + j)
<1>. DEFINE B == Bits[t]
            T == {k \in 0..j : 2^i * 2^k = 2^(i + k)}
<1>1. /\ B \in Nat /\ 2^0 = 1
      /\ \A k \in 0..(B + 1) : 2^k \in Nat /\ 2^k > 0
      /\ \A k \in 0..B : 2^(k + 1) = 2 * 2^k
  BY Powers
<1>. HIDE DEF B
<1>2. 0 \in T
  <2>1. i \in 0..(B + 1) /\ i + 0 = i
    BY <1>1 DEF B
  <2>2. 2^i \in Nat
    BY <1>1, <2>1
  <2>3. 2^i * 2^0 = 2^i
    BY <1>1, <2>2
  <2>. QED
    BY <2>1, <2>3
<1>3. ASSUME NEW k \in 0..(j - 1), k \in T PROVE k + 1 \in T
  <2>1. k \in 0..B /\ i + k \in 0..B /\ i \in 0..(B + 1) /\ k \in 0..(B + 1)
        /\ i + (k + 1) = (i + k) + 1 /\ k + 1 \in 0..j
    BY <1>1 DEF B
  <2>2. 2^(k + 1) = 2 * 2^k /\ 2^(i + (k + 1)) = 2 * 2^(i + k)
    BY <1>1, <2>1
  <2>3. 2^i \in Nat /\ 2^k \in Nat
    BY <1>1, <2>1
  <2>. DEFINE a == 2^i
              b == 2^k
  <2>. HIDE DEF a, b
  <2>4. a * (2 * b) = 2 * (a * b)
    BY <2>3 DEF a, b
  <2>5. 2^i * 2^(k + 1) = 2 * (2^i * 2^k)
    BY <2>2, <2>4 DEF a, b
  <2>6. 2^i * 2^k = 2^(i + k)
    BY <1>3
  <2>. QED
    BY <2>1, <2>2, <2>5, <2>6
<1>4. \A k \in 0..(j - 1) : k \in T => k + 1 \in T
  BY <1>3
<1>. HIDE DEF T
<1>5. \A k \in 0..j : k \in T
  BY <1>2, <1>4, InductionTo
<1>6. j \in 0..j
  OBVIOUS
<1>. QED
  BY <1>5, <1>6 DEF T

(* Below the leading zeros is the highest bit set. *)
LEMMA LeadingZerosAre ==
    ASSUME NEW t \in IntTypes, NEW x \in 0..(Size(t) - 1), NEW z, z = leading_zeros(t, x)
    PROVE  z \in 0..Bits[t] /\ x < 2^(Bits[t] - z) /\ (z = Bits[t] \/ x >= 2^(Bits[t] - z - 1))
<1>. DEFINE B == Bits[t]
            P(k) == x < 2^(B - k) /\ (k = B \/ x >= 2^(B - k - 1))
<1>1. /\ B \in Nat /\ B > 1 /\ 2^0 = 1 /\ 2^B = Size(t) /\ 2^(B - 1) = SignBit(t)
      /\ \A k \in 0..(B + 1) : 2^k \in Nat /\ 2^k > 0
  BY Powers
<1>2. x \in Nat /\ Size(t) \in Nat /\ SignBit(t) \in Nat /\ x < Size(t)
  BY Widths
<1>3. z = CHOOSE k \in 0..B : P(k)
  BY DEF leading_zeros
<1>. HIDE DEF B
<1>4. \E k \in 0..B : P(k)
  <2>. DEFINE J == {j \in 0..B : x < 2^j}
  <2>1. B \in J /\ J \in SUBSET Nat
    BY <1>1, <1>2
  <2>2. PICK j \in J : \A k \in J : j <= k
    <3>. HIDE DEF J
    <3>. QED
      BY <2>1, LeastNumber
  <2>3. B - j \in 0..B /\ B - (B - j) = j /\ x < 2^j /\ j \in 0..B
    <3>1. x < 2^j /\ j \in 0..B
      OBVIOUS
    <3>2. B - j \in 0..B /\ B - (B - j) = j
      BY <1>1, <3>1
    <3>. QED
      BY <3>1, <3>2
  <2>4. CASE j = 0
    <3>1. B - j = B
      BY <1>1, <2>4
    <3>2. P(B - j)
      BY <2>3, <3>1
    <3>. QED
      BY <2>3, <3>2
  <2>5. CASE j # 0
    <3>1. j - 1 \in 0..B /\ j - 1 \in 0..(B + 1) /\ ~(j <= j - 1) /\ B - (B - j) - 1 = j - 1
      BY <1>1, <2>3, <2>5
    <3>2. ~(x < 2^(j - 1)) /\ 2^(j - 1) \in Nat
      BY <1>1, <2>2, <3>1
    <3>3. x >= 2^(j - 1)
      BY <1>2, <3>2
    <3>4. P(B - j)
      BY <2>3, <3>1, <3>3
    <3>. QED
      BY <2>3, <3>4
  <2>. QED
    BY <2>4, <2>5
<1>5. z \in 0..B /\ P(z)
  <2>. HIDE DEF P
  <2>. QED
    BY <1>3, <1>4
<1>. QED
  BY <1>5 DEF B

(* There is no leading zero exactly when the sign bit is set. *)
LEMMA LeadingZeros ==
    ASSUME NEW t \in IntTypes, NEW x \in 0..(Size(t) - 1)
    PROVE  leading_zeros(t, x) < 1 <=> x >= SignBit(t)
<1>. DEFINE B == Bits[t]
            z == leading_zeros(t, x)
<1>1. /\ B \in Nat /\ B > 1 /\ 2^0 = 1 /\ 2^B = Size(t) /\ 2^(B - 1) = SignBit(t)
      /\ \A k \in 0..(B + 1) : 2^k \in Nat /\ 2^k > 0
  BY Powers
<1>2. x \in Nat /\ Size(t) \in Nat /\ SignBit(t) \in Nat /\ x < Size(t)
  BY Widths
<1>5. z \in 0..B /\ x < 2^(B - z) /\ (z = B \/ x >= 2^(B - z - 1))
  BY LeadingZerosAre
<1>. HIDE DEF B, z
<1>6. CASE x >= SignBit(t)
  <2>1. ASSUME z >= 1 PROVE FALSE
    <3>1. B - z \in Nat /\ z - 1 \in Nat /\ (B - z) + (z - 1) = B - 1 /\ (B - z) + (z - 1) <= B + 1
          /\ B - z \in 0..(B + 1) /\ z - 1 \in 0..(B + 1)
      BY <1>1, <1>5, <2>1
    <3>2. 2^(B - z) * 2^(z - 1) = SignBit(t)
      BY <1>1, <3>1, PowerProduct DEF B
    <3>. DEFINE a == 2^(B - z)
                b == 2^(z - 1)
    <3>3. a \in Nat /\ b \in Nat /\ b > 0 /\ a * b = SignBit(t) /\ x < a
      BY <1>1, <1>5, <3>1, <3>2
    <3>. HIDE DEF a, b
    <3>4. a <= a * b
      BY <3>3
    <3>. QED
      BY <1>2, <1>6, <3>3, <3>4
  <2>. QED
    BY <1>5, <1>6, <2>1 DEF z
<1>7. CASE ~(x >= SignBit(t))
  <2>1. z # 0
    BY <1>1, <1>5, <1>7
  <2>. QED
    BY <1>5, <1>7, <2>1 DEF z
<1>. QED
  BY <1>6, <1>7

(* The trailing zeros are the largest power of two that divides a number. *)
LEMMA TrailingZerosAre ==
    ASSUME NEW t \in IntTypes, NEW x \in 0..(Size(t) - 1), NEW z, z = trailing_zeros(t, x)
    PROVE  /\ z \in 0..Bits[t] /\ x % 2^z = 0
           /\ \A k \in 0..Bits[t] : x % 2^k = 0 => z >= k
<1>. DEFINE B == Bits[t]
            K == {k \in 0..B : x % 2^k = 0}
<1>1. B \in Nat /\ 2^0 = 1
  BY Powers
<1>2. x \in Nat
  BY Widths
<1>3. z = CHOOSE k \in K : \A j \in K : k >= j
  BY DEF trailing_zeros, Max
<1>. HIDE DEF B
<1>4. 0 \in K /\ K \subseteq 0..B
  <2>1. x % 1 = 0
    BY <1>2
  <2>. QED
    BY <1>1, <2>1
<1>. HIDE DEF K
<1>7. \E k \in K : \A j \in K : k >= j
  <2>. DEFINE J == {B - k : k \in K}
  <2>1. J \in SUBSET Nat /\ J # {}
    BY <1>1, <1>4
  <2>2. PICK j \in J : \A i \in J : j <= i
    <3>. HIDE DEF J
    <3>. QED
      BY <2>1, LeastNumber
  <2>3. PICK k \in K : j = B - k
    OBVIOUS
  <2>4. ASSUME NEW i \in K PROVE k >= i
    <3>1. B - k <= B - i
      BY <2>2, <2>3
    <3>. QED
      BY <1>1, <1>4, <3>1
  <2>. QED
    BY <2>4
<1>8. z \in K /\ \A j \in K : z >= j
  BY <1>3, <1>7
<1>. QED
  BY <1>8 DEF K, B

(* There is no trailing zero exactly when the number is odd. *)
LEMMA TrailingZeros ==
    ASSUME NEW t \in IntTypes, NEW x \in 0..(Size(t) - 1)
    PROVE  trailing_zeros(t, x) < 1 <=> x % 2 = 1
<1>. DEFINE B == Bits[t]
            K == {k \in 0..B : x % 2^k = 0}
            z == trailing_zeros(t, x)
<1>1. /\ B \in Nat /\ B > 1 /\ 2^0 = 1 /\ 2^1 = 2
      /\ \A k \in 0..(B + 1) : 2^k \in Nat /\ 2^k > 0
      /\ \A k \in 0..B : 2^(k + 1) = 2 * 2^k
  BY Powers
<1>2. x \in Nat
  BY Widths
<1>8. z \in K /\ \A j \in K : z >= j
  BY TrailingZerosAre
<1>. HIDE DEF B, z
<1>4. K \subseteq 0..B
  OBVIOUS
<1>5. 1 \in K <=> x % 2 = 0
  BY <1>1
<1>6. ASSUME NEW k \in K, x % 2 = 1 PROVE k = 0
  <2>1. ASSUME k # 0 PROVE FALSE
    <3>1. k - 1 \in 0..B /\ k - 1 \in 0..(B + 1) /\ (k - 1) + 1 = k
      BY <1>1, <2>1
    <3>2. 2^k = 2 * 2^(k - 1) /\ 2^(k - 1) \in Nat /\ 2^(k - 1) > 0 /\ x % 2^k = 0
      BY <1>1, <3>1
    <3>. DEFINE p == 2^(k - 1)
                m == 2^k
                q == x \div m
    <3>3. m = 2 * p /\ p \in Nat /\ p > 0 /\ x % m = 0
      BY <3>2
    <3>. HIDE DEF p, m
    <3>4. q \in Int /\ x = m * q + (x % m)
      <4>1. m \in Nat /\ m > 0 /\ x \in Int
        BY <1>2, <3>3
      <4>. QED
        BY <4>1, DivMod
    <3>. HIDE DEF q
    <3>5. x = 2 * (p * q) /\ p * q \in Int
      BY <3>3, <3>4
    <3>. QED
      BY <1>6, <3>5
  <2>. QED
    BY <2>1
<1>. HIDE DEF K
<1>9. x % 2 \in 0..1
  BY <1>2
<1>10. CASE x % 2 = 1
  BY <1>6, <1>8, <1>10 DEF z
<1>11. CASE x % 2 = 0
  <2>1. z >= 1 /\ z \in 0..B
    BY <1>4, <1>5, <1>8, <1>11
  <2>. QED
    BY <1>1, <1>11, <2>1 DEF z
<1>. QED
  BY <1>9, <1>10, <1>11

(* What an operation hands back. *)
LEMMA ResultFields ==
    ASSUME NEW x, NEW c \in BOOLEAN
    PROVE  Result(x, c, FALSE).ans = x /\ Result(x, c, FALSE).carry = c
  BY DEF Result

(* A number is twice its half and its lowest bit. *)
LEMMA Halved ==
    ASSUME NEW x \in Int
    PROVE  x = 2 * (x \div 2) + (x % 2) /\ x % 2 \in 0..1 /\ x \div 2 \in Int
<1>1. \A S, T \in Nat : S > 0 /\ T = S - 1
        => x \div S \in Int /\ x % S \in 0..T /\ x = S * (x \div S) + (x % S)
  BY DivMod
<1>2. 2 \in Nat /\ 1 \in Nat /\ 2 > 0 /\ 1 = 2 - 1
  OBVIOUS
<1>. QED
  BY <1>1, <1>2, Zenon

(* Shifts by one, and the bit that leaves the register. *)
LEMMA ShiftByOne ==
    ASSUME NEW t \in IntTypes, NEW x \in 0..(Size(t) - 1)
    PROVE  /\ LShift(t, x, 1).ans = IF x >= SignBit(t) THEN 2 * x - Size(t) ELSE 2 * x
           /\ LShift(t, x, 1).carry <=> x >= SignBit(t)
           /\ URShift(t, x, 1).ans = x \div 2
           /\ URShift(t, x, 1).carry <=> x % 2 = 1
           /\ SRShift(t, x, 1).ans \in 0..(Size(t) - 1)
           /\ Signed(t, SRShift(t, x, 1).ans) = Signed(t, x) \div 2
           /\ SRShift(t, x, 1).carry <=> x % 2 = 1
<1>. DEFINE S == Size(t)
            H == SignBit(t)
<1>1. 1 < Bits[t] /\ 2^1 = 2
  BY Powers
<1>2. S \in Nat /\ S > 0 /\ S = 2 * H /\ H \in Nat /\ H > 0 /\ x \in Nat /\ x < S
  BY Widths
<1>3. LShift(t, x, 1) = Result(Unsigned(t, x * 2), leading_zeros(t, x) < 1, FALSE)
  BY <1>1 DEF LShift
<1>4. URShift(t, x, 1) = Result(x \div 2, trailing_zeros(t, x) < 1, FALSE)
  BY <1>1 DEF URShift
<1>5. SRShift(t, x, 1) = Result(Unsigned(t, Signed(t, x) \div 2), trailing_zeros(t, x) < 1, FALSE)
  BY <1>1 DEF SRShift
<1>6. Unsigned(t, x * 2) = IF x >= H THEN 2 * x - S ELSE 2 * x
  <2>1. Unsigned(t, x * 2) = (2 * x) % S
    BY <1>2 DEF Unsigned
  <2>. HIDE DEF S, H
  <2>2. 2 * x \in Int /\ (~(x >= H) => 2 * x \in 0..(S - 1)) /\ (x >= H => 2 * x \in S..(2 * S - 1))
    BY <1>2
  <2>. QED
    BY <1>2, <2>1, <2>2, Wrap
<1>7. Unsigned(t, Signed(t, x) \div 2) \in 0..(Size(t) - 1)
      /\ Signed(t, Unsigned(t, Signed(t, x) \div 2)) = Signed(t, x) \div 2
  <2>. DEFINE sx == Signed(t, x)
              h == sx \div 2
  <2>1. sx \in (-H)..(H - 1)
    BY SignedFacts
  <2>. HIDE DEF sx, H
  <2>2. h \in Int /\ h \in (-H)..(H - 1)
    BY <1>2, <2>1
  <2>. HIDE DEF h
  <2>3. Unsigned(t, h) \in 0..(Size(t) - 1) /\ Signed(t, Unsigned(t, h)) = h
    BY <2>2, CastFacts DEF H
  <2>. QED
    BY <2>3 DEF h, sx
<1>8. leading_zeros(t, x) < 1 <=> x >= H
  BY LeadingZeros
<1>9. trailing_zeros(t, x) < 1 <=> x % 2 = 1
  BY TrailingZeros
<1>. DEFINE lz == leading_zeros(t, x) < 1
            tz == trailing_zeros(t, x) < 1
<1>10. lz \in BOOLEAN /\ tz \in BOOLEAN
  OBVIOUS
<1>11. LShift(t, x, 1) = Result(Unsigned(t, x * 2), lz, FALSE)
  BY <1>3
<1>12. URShift(t, x, 1) = Result(x \div 2, tz, FALSE)
  BY <1>4
<1>13. SRShift(t, x, 1) = Result(Unsigned(t, Signed(t, x) \div 2), tz, FALSE)
  BY <1>5
<1>14. (lz <=> x >= H) /\ (tz <=> x % 2 = 1)
  BY <1>8, <1>9
<1>. HIDE DEF lz, tz
<1>15. LShift(t, x, 1).ans = Unsigned(t, x * 2) /\ LShift(t, x, 1).carry = lz
  <2>1. Result(Unsigned(t, x * 2), lz, FALSE).carry = lz
    BY <1>10, ResultFields
  <2>2. Result(Unsigned(t, x * 2), lz, FALSE).ans = Unsigned(t, x * 2)
    BY <1>10, ResultFields
  <2>. QED
    BY <1>11, <2>1, <2>2
<1>16. URShift(t, x, 1).ans = x \div 2 /\ URShift(t, x, 1).carry = tz
  <2>1. Result(x \div 2, tz, FALSE).carry = tz
    BY <1>10, ResultFields
  <2>2. Result(x \div 2, tz, FALSE).ans = x \div 2
    BY <1>10, ResultFields
  <2>. QED
    BY <1>12, <2>1, <2>2
<1>17. SRShift(t, x, 1).ans = Unsigned(t, Signed(t, x) \div 2) /\ SRShift(t, x, 1).carry = tz
  <2>1. Result(Unsigned(t, Signed(t, x) \div 2), tz, FALSE).carry = tz
    BY <1>10, ResultFields
  <2>2. Result(Unsigned(t, Signed(t, x) \div 2), tz, FALSE).ans = Unsigned(t, Signed(t, x) \div 2)
    BY <1>10, ResultFields
  <2>. QED
    BY <1>13, <2>1, <2>2
<1>. QED
  BY <1>6, <1>7, <1>14, <1>15, <1>16, <1>17

(* One position through the carry. *)
LEMMA PositionFacts ==
    ASSUME NEW t \in IntTypes, NEW s \in WithCarry(t)
    PROVE  /\ rcl(t, s).ans = (IF s.ans >= SignBit(t) THEN 2 * s.ans - Size(t) ELSE 2 * s.ans)
                              + If(s.carry, 1)
           /\ rcl(t, s).carry <=> s.ans >= SignBit(t)
           /\ rcr(t, s).ans = s.ans \div 2 + If(s.carry, SignBit(t))
           /\ rcr(t, s).carry <=> s.ans % 2 = 1
<1>. DEFINE S == Size(t)
            H == SignBit(t)
            x == s.ans
<1>1. S \in Nat /\ S > 0 /\ S = 2 * H /\ H \in Nat /\ H > 0 /\ x \in Nat /\ x < S
  BY Widths DEF WithCarry
<1>2. Unsigned(t, x * 2) = IF x >= H THEN 2 * x - S ELSE 2 * x
  <2>1. Unsigned(t, x * 2) = (2 * x) % S
    BY <1>1 DEF Unsigned
  <2>. HIDE DEF S, H, x
  <2>2. 2 * x \in Int /\ (~(x >= H) => 2 * x \in 0..(S - 1)) /\ (x >= H => 2 * x \in S..(2 * S - 1))
    BY <1>1
  <2>. QED
    BY <1>1, <2>1, <2>2, Wrap
<1>3. Signed(t, x) < 0 <=> x >= H
  BY <1>1, SignedFacts
<1>. QED
  BY <1>2, <1>3 DEF rcl, rcr

(* A rotation by one is one position. *)
LEMMA RotateByOne ==
    ASSUME NEW t \in IntTypes, NEW x \in 0..(Size(t) - 1), NEW op
    PROVE  LET s == [ans |-> x, carry |-> Has(flags, FLAG_CARRY)]
               a == bin_op_rotate_carry(t, x, 1, op)
               b == IF op = "rcl" THEN rcl(t, s) ELSE rcr(t, s)
           IN s \in WithCarry(t) /\ a.ans = b.ans /\ a.carry = b.carry
<1>. DEFINE c == Has(flags, FLAG_CARRY)
            a == Rotations(t, x, c, 1, op)
<1>1. c \in BOOLEAN
  BY DEF Has
<1>. HIDE DEF c
<1>2. /\ a[0] = [ans |-> x, carry |-> c]
      /\ \A k \in 1..1 : a[k] = IF op = "rcl" THEN rcl(t, a[k - 1]) ELSE rcr(t, a[k - 1])
  BY <1>1, RotationsFacts
<1>3. bin_op_rotate_carry(t, x, 1, op) = Result(a[1].ans, a[1].carry, FALSE)
  BY DEF bin_op_rotate_carry, c
<1>. HIDE DEF a
<1>4. a[1] = IF op = "rcl" THEN rcl(t, a[0]) ELSE rcr(t, a[0])
  <2>1. 1 \in 1..1 /\ 1 - 1 = 0
    OBVIOUS
  <2>. QED
    BY <1>2, <2>1
<1>5. [ans |-> x, carry |-> c] \in WithCarry(t)
  BY <1>1 DEF WithCarry
<1>. QED
  BY <1>2, <1>3, <1>4, <1>5 DEF Result, c

(* A shift by one, and a rotation by one of the next register. *)
LEMMA ShiftsStep ==
    ASSUME AluInv, Next, Len(done') = 2, outcome' = "ok",
           NEW a, a = done'[1], NEW b, b = done'[2],
           OnLimbs(a, b), a.y = 1, b.y = 1,
           NEW va, va = read_from_register(a.reg)', NEW vb, vb = read_from_register(b.reg)',
           NEW k, k = CarryOut'
    PROVE  LET t == a.reg.type
               S == Size(t)
               SignedWide(n) == IF n >= SignBit(t) * S THEN n - S * S ELSE n
           IN /\ a.op = "LSHIFT" /\ b.op = "LROTCARRY" =>
                   (vb * S + va) + S * S * k = 2 * (b.x * S + a.x)
              /\ a.op = "URSHIFT" /\ b.op = "RROTCARRY" =>
                   2 * (va * S + vb) + k = a.x * S + b.x
              /\ a.op = "SRSHIFT" /\ b.op = "RROTCARRY" =>
                   2 * SignedWide(va * S + vb) + k = SignedWide(a.x * S + b.x)
<1>. DEFINE t == a.reg.type
            S == Size(t)
            H == SignBit(t)
            SignedWide(n) == IF n >= H * S THEN n - S * S ELSE n
            d == Computed(a.op, t, a.x, a.y)
            e == Computed(b.op, t, b.x, b.y)
            s == [ans |-> b.x, carry |-> Has(flags, FLAG_CARRY)]
            c == If(Has(flags, FLAG_CARRY), 1)
<1>1. ASSUME a.op \in {"LSHIFT", "URSHIFT", "SRSHIFT"}, b.op \in {"LROTCARRY", "RROTCARRY"}
      PROVE  /\ t \in IntTypes
             /\ a.x \in 0..(S - 1) /\ b.x \in 0..(S - 1)
             /\ va = d.ans /\ vb = e.ans /\ va \in Int
             /\ c = If(d.carry, 1) /\ k = If(e.carry, 1)
             /\ S \in Nat /\ S > 0 /\ H \in Nat /\ H > 0 /\ S = 2 * H
             /\ s \in WithCarry(t)
             /\ b.op = "LROTCARRY" => e.ans = rcl(t, s).ans /\ e.carry = rcl(t, s).carry
             /\ b.op = "RROTCARRY" => e.ans = rcr(t, s).ans /\ e.carry = rcr(t, s).carry
  <2>1. /\ a.op \in Plain /\ b.op \in Chained /\ a.op \notin Divisions /\ b.op \notin Divisions
        /\ a.op \in Chained /\ a.op \in Integer
    BY <1>1 DEF Plain, Chained, Divisions, Integer
  <2>2. t # "Float"
    <3>1. PICK i : i = Head(todo)
      OBVIOUS
    <3>2. PICK x : x = read_from_register(i.reg)
      OBVIOUS
    <3>3. PICK f1 : f1 = done[1]
      OBVIOUS
    <3>4. a = f1 /\ [op |-> a.op, reg |-> a.reg, y |-> a.y] \in Instruction
      BY <3>1, <3>2, <3>3, Second
    <3>5. a.op \in Integer \ FloatOps /\ a.op \notin Conversions
      BY <1>1 DEF Integer, FloatOps, Conversions
    <3>. QED
      BY <3>4, <3>5 DEF Instruction
  <2>3. /\ t \in IntTypes
        /\ a.x \in 0..(S - 1) /\ b.x \in 0..(S - 1)
        /\ a.y \in Operands(a.op, t)
        /\ va = d.ans /\ vb = e.ans
        /\ Has(flags, FLAG_CARRY) <=> d.carry
        /\ Has(flags', FLAG_CARRY) <=> e.carry
    BY <2>1, <2>2, ChainStep
  <2>4. d.ans \in Int
    <3>. HIDE DEF t
    <3>. QED
      BY <2>1, <2>3, ResultType
  <2>5. c = If(d.carry, 1) /\ k = If(e.carry, 1)
    BY <2>3 DEF CarryOut, If
  <2>6. S \in Nat /\ S > 0 /\ H \in Nat /\ H > 0 /\ S = 2 * H
    BY <2>3, Widths
  <2>7. /\ s \in WithCarry(t)
        /\ b.op = "LROTCARRY" => e.ans = rcl(t, s).ans /\ e.carry = rcl(t, s).carry
        /\ b.op = "RROTCARRY" => e.ans = rcr(t, s).ans /\ e.carry = rcr(t, s).carry
    <3>1. /\ b.op = "LROTCARRY" => e = bin_op_rotate_carry(t, b.x, 1, "rcl")
          /\ b.op = "RROTCARRY" => e = bin_op_rotate_carry(t, b.x, 1, "rcr")
      BY DEF Computed
    <3>. HIDE DEF e, t
    <3>. QED
      BY <1>1, <2>3, <3>1, RotateByOne
  <2>. QED
    BY <2>3, <2>4, <2>5, <2>6, <2>7
<1>2. ASSUME a.op = "LSHIFT", b.op = "LROTCARRY"
      PROVE  (vb * S + va) + S * S * k = 2 * (b.x * S + a.x)
  <2>1. d = LShift(t, a.x, 1)
    BY <1>2 DEF Computed
  <2>2. /\ S \in Nat /\ S > 0 /\ H \in Nat /\ H > 0 /\ S = 2 * H
        /\ a.x \in 0..(S - 1) /\ b.x \in 0..(S - 1) /\ s \in WithCarry(t) /\ t \in IntTypes
        /\ va = d.ans /\ vb = rcl(t, s).ans
        /\ c = If(d.carry, 1) /\ k = If(rcl(t, s).carry, 1)
    BY <1>1, <1>2
  <2>3. /\ va = IF a.x >= H THEN 2 * a.x - S ELSE 2 * a.x
        /\ d.carry <=> a.x >= H
    <3>. HIDE DEF t
    <3>. QED
      BY <2>1, <2>2, ShiftByOne
  <2>4. /\ vb = (IF b.x >= H THEN 2 * b.x - S ELSE 2 * b.x) + c
        /\ rcl(t, s).carry <=> b.x >= H
    <3>1. s.ans = b.x /\ If(s.carry, 1) = c
      OBVIOUS
    <3>. HIDE DEF s, c
    <3>. QED
      BY <2>2, <3>1, PositionFacts
  <2>5. c = (IF a.x >= H THEN 1 ELSE 0) /\ k = (IF b.x >= H THEN 1 ELSE 0)
    BY <2>2, <2>3, <2>4 DEF If
  <2>6. c \in Int /\ k \in Int /\ a.x \in Int /\ b.x \in Int /\ S \in Int
    BY <2>2, <2>5
  <2>. HIDE DEF c, S, H, s, d
  <2>7. va = 2 * a.x - c * S
    <3>1. CASE a.x >= H
      BY <2>3, <2>5, <2>6, <3>1
    <3>2. CASE ~(a.x >= H)
      BY <2>3, <2>5, <2>6, <3>2
    <3>. QED
      BY <3>1, <3>2
  <2>8. vb = (2 * b.x - k * S) + c
    <3>1. CASE b.x >= H
      BY <2>4, <2>5, <2>6, <3>1
    <3>2. CASE ~(b.x >= H)
      BY <2>4, <2>5, <2>6, <3>2
    <3>. QED
      BY <3>1, <3>2
  <2>. DEFINE cS == c * S
              kS == k * S
  <2>9. cS \in Int /\ kS \in Int /\ kS * S \in Int /\ b.x * S \in Int /\ S * S * k = kS * S
    BY <2>6
  <2>10. ((2 * b.x - kS) + c) * S = 2 * (b.x * S) - kS * S + cS
    <3>1. ((2 * b.x - k * S) + c) * S = 2 * (b.x * S) - (k * S) * S + c * S
      BY <2>6
    <3>. QED
      BY <3>1
  <2>11. vb * S = 2 * (b.x * S) - kS * S + cS /\ va = 2 * a.x - cS
    BY <2>7, <2>8, <2>10
  <2>. HIDE DEF cS, kS
  <2>. QED
    BY <2>6, <2>9, <2>11
<1>3. ASSUME a.op \in {"URSHIFT", "SRSHIFT"}, b.op = "RROTCARRY"
      PROVE  /\ 2 * vb + k = b.x + c * S
             /\ vb \in 0..(S - 1) /\ k \in 0..1 /\ c \in 0..1
  <2>1. /\ S \in Nat /\ S > 0 /\ H \in Nat /\ H > 0 /\ S = 2 * H
        /\ b.x \in 0..(S - 1) /\ s \in WithCarry(t) /\ t \in IntTypes
        /\ vb = rcr(t, s).ans /\ k = If(rcr(t, s).carry, 1)
    BY <1>1, <1>3
  <2>2. /\ vb = b.x \div 2 + If(s.carry, H)
        /\ rcr(t, s).carry <=> b.x % 2 = 1
    <3>1. s.ans = b.x
      OBVIOUS
    <3>. HIDE DEF s
    <3>. QED
      BY <2>1, <3>1, PositionFacts
  <2>3. c \in 0..1 /\ If(s.carry, H) = IF c = 1 THEN H ELSE 0
    BY DEF If
  <2>4. k = (IF b.x % 2 = 1 THEN 1 ELSE 0)
    BY <2>1, <2>2 DEF If
  <2>. DEFINE h == b.x \div 2
              p == b.x % 2
  <2>5. h \in Int /\ p \in 0..1 /\ b.x = 2 * h + p /\ b.x \in Nat /\ b.x < S
    BY <2>1
  <2>6. vb = h + (IF c = 1 THEN H ELSE 0) /\ k = p
    BY <2>2, <2>3, <2>4, <2>5
  <2>7. S \in Nat /\ H \in Nat /\ H > 0 /\ S = 2 * H
    BY <2>1
  <2>. HIDE DEF h, p, c, S, H, s
  <2>8. PICK bx \in Nat : bx = b.x
    BY <2>5
  <2>9. h \in Int /\ p \in 0..1 /\ bx = 2 * h + p /\ bx < S
    BY <2>5, <2>8
  <2>10. CASE c = 1
    <3>1. vb = h + H /\ c * S = S
      BY <2>6, <2>7, <2>10
    <3>2. 2 * vb + k = bx + c * S /\ vb \in 0..(S - 1) /\ k \in 0..1 /\ c \in 0..1
      BY <2>6, <2>7, <2>9, <2>10, <3>1
    <3>. QED
      BY <2>8, <3>2
  <2>11. CASE c = 0
    <3>1. vb = h /\ c * S = 0
      BY <2>6, <2>7, <2>9, <2>11
    <3>2. 2 * vb + k = bx + c * S /\ vb \in 0..(S - 1) /\ k \in 0..1 /\ c \in 0..1
      BY <2>6, <2>7, <2>9, <2>11, <3>1
    <3>. QED
      BY <2>8, <3>2
  <2>12. c = 0 \/ c = 1
    BY <2>3
  <2>. QED
    BY <2>10, <2>11, <2>12
<1>4. ASSUME a.op = "URSHIFT", b.op = "RROTCARRY"
      PROVE  2 * (va * S + vb) + k = a.x * S + b.x
  <2>1. d = URShift(t, a.x, 1)
    BY <1>4 DEF Computed
  <2>2. /\ S \in Nat /\ a.x \in 0..(S - 1) /\ b.x \in 0..(S - 1) /\ t \in IntTypes
        /\ va = d.ans /\ c = If(d.carry, 1)
    BY <1>1, <1>4
  <2>3. va = a.x \div 2 /\ (d.carry <=> a.x % 2 = 1)
    <3>. HIDE DEF t
    <3>. QED
      BY <2>1, <2>2, ShiftByOne
  <2>4. a.x = 2 * va + c /\ va \in Int /\ a.x \in Int /\ b.x \in Int
    <3>1. c = (IF a.x % 2 = 1 THEN 1 ELSE 0)
      BY <2>2, <2>3 DEF If
    <3>2. a.x \in Int /\ b.x \in Int
      BY <2>2
    <3>3. a.x = 2 * (a.x \div 2) + (a.x % 2) /\ a.x % 2 \in 0..1 /\ a.x \div 2 \in Int
      BY <3>2, Halved
    <3>. HIDE DEF c
    <3>. QED
      BY <2>3, <3>1, <3>2, <3>3
  <2>5. 2 * vb + k = b.x + c * S /\ vb \in 0..(S - 1) /\ k \in 0..1 /\ c \in 0..1
    BY <1>3, <1>4
  <2>. HIDE DEF c, S
  <2>9. va \in Int /\ vb \in Int /\ c \in Int /\ k \in Int /\ S \in Int
    <3>1. S \in Int
      BY <2>2
    <3>2. va \in Int
      BY <2>4
    <3>. QED
      BY <2>5, <3>1, <3>2
  <2>6. (2 * va + c) * S = 2 * (va * S) + c * S
    BY <2>9
  <2>7. va * S \in Int /\ c * S \in Int /\ vb \in Int /\ k \in Int
    BY <2>9
  <2>8. a.x * S = 2 * (va * S) + c * S
    BY <2>4, <2>6
  <2>. QED
    BY <2>4, <2>5, <2>7, <2>8
<1>5. ASSUME a.op = "SRSHIFT", b.op = "RROTCARRY"
      PROVE  2 * SignedWide(va * S + vb) + k = SignedWide(a.x * S + b.x)
  <2>1. d = SRShift(t, a.x, 1)
    BY <1>5 DEF Computed
  <2>2. /\ S \in Nat /\ S > 0 /\ H \in Nat /\ H > 0 /\ S = 2 * H
        /\ a.x \in 0..(S - 1) /\ b.x \in 0..(S - 1) /\ t \in IntTypes
        /\ va = d.ans /\ c = If(d.carry, 1)
    BY <1>1, <1>5
  <2>. DEFINE sx == Signed(t, a.x)
              sv == Signed(t, va)
  <2>3. va \in 0..(S - 1) /\ sv = sx \div 2 /\ (d.carry <=> a.x % 2 = 1)
    <3>. HIDE DEF t
    <3>. QED
      BY <2>1, <2>2, ShiftByOne
  <2>4. /\ sx = IF a.x >= H THEN a.x - S ELSE a.x
        /\ sv = IF va >= H THEN va - S ELSE va
    BY DEF Signed
  <2>5. 2 * vb + k = b.x + c * S /\ vb \in 0..(S - 1) /\ k \in 0..1 /\ c \in 0..1
    BY <1>3, <1>5
  <2>6. c = (IF a.x % 2 = 1 THEN 1 ELSE 0)
    BY <2>2, <2>3 DEF If
  <2>. HIDE DEF c, S, H, sx, sv, SignedWide
  <2>7. sx = 2 * sv + c /\ sx \in Int /\ sv \in Int
    <3>1. sx \in Int /\ sx % 2 = a.x % 2
      BY <2>2, <2>4
    <3>2. sx = 2 * (sx \div 2) + (sx % 2) /\ sx % 2 \in 0..1 /\ sx \div 2 \in Int
      BY <3>1, Halved
    <3>. DEFINE q == sx \div 2
                m == sx % 2
    <3>3. /\ sx = 2 * q + m /\ q \in Int /\ m \in 0..1 /\ sv = q
          /\ c = (IF m = 1 THEN 1 ELSE 0)
      BY <2>3, <2>6, <3>1, <3>2, Zenon
    <3>. HIDE DEF q, m
    <3>. QED
      BY <3>1, <3>3
  <2>8. ASSUME NEW hi \in 0..(S - 1), NEW lo \in 0..(S - 1), NEW v,
               v = IF hi >= H THEN hi - S ELSE hi
        PROVE  SignedWide(hi * S + lo) = v * S + lo
    <3>1. hi \in Int /\ lo \in Int /\ hi * S \in Int /\ H * S \in Int /\ S * S \in Int
      BY <2>2
    <3>2. CASE hi >= H
      <4>1. hi * S >= H * S
        BY <2>2, <3>1, <3>2
      <4>2. (hi - S) * S = hi * S - S * S
        BY <2>2, <3>1
      <4>3. hi * S + lo >= H * S
        BY <2>2, <3>1, <4>1
      <4>4. v * S = hi * S - S * S
        BY <2>8, <3>2, <4>2
      <4>. QED
        BY <3>1, <4>3, <4>4 DEF SignedWide
    <3>3. CASE ~(hi >= H)
      <4>1. (hi + 1) * S <= H * S
        BY <2>2, <3>1, <3>3
      <4>2. (hi + 1) * S = hi * S + S
        BY <2>2, <3>1
      <4>3. ~(hi * S + lo >= H * S)
        BY <2>2, <3>1, <4>1, <4>2
      <4>. QED
        BY <2>8, <3>1, <3>3, <4>3 DEF SignedWide
    <3>. QED
      BY <3>2, <3>3
  <2>9. /\ SignedWide(a.x * S + b.x) = sx * S + b.x
        /\ SignedWide(va * S + vb) = sv * S + vb
    <3>1. a.x \in 0..(S - 1) /\ b.x \in 0..(S - 1) /\ va \in 0..(S - 1) /\ vb \in 0..(S - 1)
      BY <2>2, <2>3, <2>5
    <3>2. SignedWide(a.x * S + b.x) = sx * S + b.x
      BY <2>4, <2>8, <3>1
    <3>3. SignedWide(va * S + vb) = sv * S + vb
      BY <2>4, <2>8, <3>1
    <3>. QED
      BY <3>2, <3>3
  <2>13. sv \in Int /\ vb \in Int /\ c \in Int /\ k \in Int /\ S \in Int /\ b.x \in Int
    <3>1. S \in Int /\ b.x \in Int
      BY <2>2
    <3>. QED
      BY <2>5, <2>7, <3>1
  <2>10. (2 * sv + c) * S = 2 * (sv * S) + c * S
    BY <2>13
  <2>11. sv * S \in Int /\ c * S \in Int
    BY <2>13
  <2>12. sx * S = 2 * (sv * S) + c * S
    BY <2>7, <2>10
  <2>. QED
    BY <2>5, <2>9, <2>11, <2>12, <2>13
<1>. QED
  BY <1>2, <1>4, <1>5


(* A shift and a rotation through the carry shift the whole number, for    *)
(* limbs of any width (cpu.rs:1847-1992; macros.rs:218-262).               *)
THEOREM ShiftsAddUp ==
    Spec => []ShiftsChain
<1>1. Init => ShiftsChain
  <2>1. Init => Len(done) = 0
    BY DEF Init
  <2>. QED
    BY <2>1 DEF ShiftsChain, Ran
<1>2. AluInv /\ ShiftsChain /\ [Next]_vars => ShiftsChain'
  <2>. SUFFICES ASSUME AluInv, ShiftsChain, [Next]_vars PROVE ShiftsChain'
    OBVIOUS
  <2>1. CASE UNCHANGED vars
    <3>1. done' = done /\ outcome' = outcome /\ CarryOut' = CarryOut
      BY <2>1 DEF vars, CarryOut
    <3>2. \A reg : read_from_register(reg)' = read_from_register(reg)
      BY <2>1 DEF vars, read_from_register
    <3>3. \A t, lo, hi : Number(t, lo, hi)' = Number(t, lo, hi)
      BY <3>2 DEF Number
    <3>. QED
      BY <3>1, <3>3 DEF ShiftsChain, Ran
  <2>2. CASE Next
    <3>1. PICK a : a = done'[1]
      OBVIOUS
    <3>2. PICK b : b = done'[2]
      OBVIOUS
    <3>3. PICK va : va = read_from_register(a.reg)'
      OBVIOUS
    <3>4. PICK vb : vb = read_from_register(b.reg)'
      OBVIOUS
    <3>5. PICK k : k = CarryOut'
      OBVIOUS
    <3>6. va = read_from_register(done[1].reg)' /\ vb = read_from_register(done[2].reg)'
      BY <3>1, <3>2, <3>3, <3>4 DEF read_from_register
    <3>7. ASSUME Len(done') = 2, outcome' = "ok", OnLimbs(a, b), a.y = 1, b.y = 1
          PROVE  LET S == Size(a.reg.type)
                     SignedWide(n) == IF n >= SignBit(a.reg.type) * S THEN n - S * S ELSE n
                 IN /\ a.op = "LSHIFT" /\ b.op = "LROTCARRY" =>
                         (vb * S + va) + S * S * k = 2 * (b.x * S + a.x)
                    /\ a.op = "URSHIFT" /\ b.op = "RROTCARRY" =>
                         2 * (va * S + vb) + k = a.x * S + b.x
                    /\ a.op = "SRSHIFT" /\ b.op = "RROTCARRY" =>
                         2 * SignedWide(va * S + vb) + k = SignedWide(a.x * S + b.x)
      BY <2>2, <3>1, <3>2, <3>3, <3>4, <3>5, <3>7, ShiftsStep
    <3>. QED
      BY <3>1, <3>2, <3>5, <3>6, <3>7 DEF ShiftsChain, Ran, OnLimbs, Original, Number, Wide
  <2>. QED
    BY <2>1, <2>2
<1>. QED
  BY <1>1, <1>2, Inductive, PTL DEF Spec

-----------------------------------------------------------------------------
(***************************************************************************)
(* Rotations through the carry.                                            *)
(***************************************************************************)

(* R is the number N, below A * D, with its first part, which is below A,  *)
(* moved to the end.                                                       *)
Splits(N, R, A, D) ==
    \E q \in 0..(A - 1), m \in 0..(D - 1) : N = q * D + m /\ R = m * A + q

(* R is N, of one bit c and a rest below S, with the bit moved to the end.  *)
OnePlace(S, N, R) ==
    \E c \in 0..1, x \in 0..(S - 1) : N = c * S + x /\ R = 2 * x + c

(* One place to the left doubles the first factor and halves the last.     *)
LEMMA OneLeft ==
    ASSUME NEW A \in Nat, NEW P \in Nat, NEW D, NEW B, NEW S, NEW N, NEW R, NEW Q,
           A > 0, P > 0, D = 2 * P, B = 2 * A, S = A * P,
           Splits(N, R, A, D), OnePlace(S, R, Q)
    PROVE  Splits(N, Q, B, P)
<1>1. PICK q \in 0..(A - 1), m \in 0..(D - 1) : N = q * D + m /\ R = m * A + q
  BY DEF Splits
<1>2. PICK c \in 0..1, x \in 0..(S - 1) : R = c * S + x /\ Q = 2 * x + c
  BY DEF OnePlace
<1>3. S \in Nat /\ q \in Int /\ m \in Int /\ c \in Int /\ x \in Int
  BY <1>1, <1>2
<1>. DEFINE mm == m - c * P
<1>4. mm \in 0..(P - 1) /\ m = c * P + mm
  <2>1. CASE c = 0
    <3>1. ASSUME m >= P PROVE FALSE
      <4>1. m * A >= P * A
        BY <1>3, <3>1
      <4>2. m * A \in Int /\ P * A = S
        BY <1>3
      <4>3. c * S = 0
        BY <1>3, <2>1
      <4>. QED
        BY <1>1, <1>2, <1>3, <4>1, <4>2, <4>3
    <3>2. mm = m
      BY <1>3, <2>1
    <3>. QED
      BY <1>1, <1>3, <2>1, <3>1, <3>2
  <2>2. CASE c = 1
    <3>1. ASSUME m < P PROVE FALSE
      <4>1. (m + 1) * A <= P * A
        BY <1>3, <3>1
      <4>2. (m + 1) * A = m * A + A /\ m * A \in Int /\ P * A = S
        BY <1>3
      <4>3. c * S = S
        BY <1>3, <2>2
      <4>. QED
        BY <1>1, <1>2, <1>3, <4>1, <4>2, <4>3
    <3>2. mm = m - P
      BY <1>3, <2>2
    <3>. QED
      BY <1>1, <1>3, <2>2, <3>1, <3>2
  <2>. QED
    BY <1>2, <2>1, <2>2
<1>. HIDE DEF mm
<1>5. x = mm * A + q
  <2>1. (c * P + mm) * A = c * S + mm * A
    <3>1. mm \in Int
      BY <1>4
    <3>2. (c * P + mm) * A = c * (A * P) + mm * A
      BY <1>3, <3>1
    <3>. QED
      BY <3>2
  <2>2. c * S \in Int /\ mm * A \in Int
    BY <1>3, <1>4
  <2>3. m * A = c * S + mm * A
    BY <1>4, <2>1
  <2>4. m * A + q = c * S + x
    BY <1>1, <1>2
  <2>. QED
    BY <1>3, <2>2, <2>3, <2>4
<1>6. N = (2 * q + c) * P + mm
  <2>1. q * (2 * P) = 2 * (q * P) /\ (2 * q + c) * P = 2 * (q * P) + c * P
    BY <1>3
  <2>2. q * P \in Int /\ c * P \in Int
    BY <1>3
  <2>. QED
    BY <1>1, <1>3, <1>4, <2>1, <2>2
<1>7. Q = mm * B + (2 * q + c)
  <2>1. mm * (2 * A) = 2 * (mm * A) /\ mm * A \in Int
    BY <1>4
  <2>. QED
    BY <1>2, <1>3, <1>5, <2>1
<1>8. 2 * q + c \in 0..(B - 1)
  BY <1>1, <1>2
<1>. QED
  BY <1>4, <1>6, <1>7, <1>8 DEF Splits

(* So does one place to the right, seen from the other end.                *)
LEMMA OneRight ==
    ASSUME NEW A \in Nat, NEW P \in Nat, NEW D, NEW B, NEW S, NEW N, NEW R, NEW Q,
           A > 0, P > 0, D = 2 * P, B = 2 * A, S = A * P,
           Splits(R, N, A, D), OnePlace(S, Q, R)
    PROVE  Splits(Q, N, B, P)
<1>1. PICK q \in 0..(A - 1), m \in 0..(D - 1) : R = q * D + m /\ N = m * A + q
  BY DEF Splits
<1>2. PICK c \in 0..1, x \in 0..(S - 1) : Q = c * S + x /\ R = 2 * x + c
  BY DEF OnePlace
<1>3. S \in Nat /\ q \in Int /\ m \in Int /\ c \in Int /\ x \in Int
  BY <1>1, <1>2
<1>. DEFINE qP == q * P
            mm == x - qP
<1>4. qP \in Int /\ q * D = 2 * qP
  <2>1. q * (2 * P) = 2 * (q * P) /\ q * P \in Int
    BY <1>3
  <2>. QED
    BY <2>1
<1>. HIDE DEF qP
<1>5. m = 2 * mm + c /\ mm \in 0..(P - 1) /\ x = qP + mm
  BY <1>1, <1>2, <1>3, <1>4
<1>. HIDE DEF mm
<1>6. Q = (c * A + q) * P + mm
  <2>1. (c * A + q) * P = c * S + qP /\ c * S \in Int
    BY <1>3 DEF qP
  <2>. QED
    BY <1>2, <1>3, <1>4, <1>5, <2>1
<1>7. N = mm * B + (c * A + q)
  <2>1. (2 * mm + c) * A = mm * (2 * A) + c * A /\ mm * (2 * A) \in Int /\ c * A \in Int
    BY <1>3, <1>5
  <2>2. m * A = mm * B + c * A
    BY <1>5, <2>1
  <2>. QED
    BY <1>1, <1>3, <2>1, <2>2
<1>8. c * A + q \in 0..(B - 1)
  <2>1. CASE c = 0
    BY <1>1, <1>3, <2>1
  <2>2. CASE c = 1
    BY <1>1, <1>3, <2>2
  <2>. QED
    BY <1>2, <2>1, <2>2
<1>. QED
  BY <1>5, <1>6, <1>7, <1>8 DEF Splits

(* The number that is made of the two parts in the other order.            *)
LEMMA SplitsRotate ==
    ASSUME NEW A \in Nat, NEW D \in Nat, NEW M, NEW N, NEW R, A > 0, D > 0, M = A * D,
           Splits(N, R, A, D)
    PROVE  R = ((N * A) % M) + N \div D
<1>1. PICK q \in 0..(A - 1), m \in 0..(D - 1) : N = q * D + m /\ R = m * A + q
  BY DEF Splits
<1>2. q \in Int /\ m \in Int /\ M \in Nat /\ M > 0 /\ N \in Int
  BY <1>1
<1>3. N \div D = q
  <2>1. D * q + m = N
    BY <1>1
  <2>. QED
    BY <1>1, <1>2, <2>1, ModOf
<1>4. (N * A) % M = m * A
  <2>1. (q * D + m) * A = M * q + m * A
    <3>1. (q * D + m) * A = (A * D) * q + m * A
      BY <1>2
    <3>. QED
      BY <3>1
  <2>2. N * A = M * q + m * A
    BY <1>1, <2>1
  <2>3. m * A \in 0..(M - 1)
    <3>1. (m + 1) * A <= D * A /\ (m + 1) * A = m * A + A /\ m * A \in Int /\ m * A >= 0
      BY <1>1, <1>2
    <3>2. M = D * A
      OBVIOUS
    <3>3. m * A + A <= M
      BY <3>1, <3>2
    <3>. QED
      BY <1>2, <3>1, <3>3
  <2>. DEFINE u == m * A
  <2>4. N * A = M * q + u /\ u \in 0..(M - 1)
    BY <2>2, <2>3
  <2>. HIDE DEF u
  <2>5. (M * q + u) % M = u
    BY <1>2, <2>4, ModOf
  <2>. QED
    BY <2>4, <2>5 DEF u
<1>. QED
  BY <1>1, <1>3, <1>4

(* After all the places the number is what it was.                         *)
LEMMA FullTurn ==
    ASSUME NEW M \in Nat, NEW N, NEW R, Splits(N, R, M, 1)
    PROVE  R = N /\ Splits(N, R, 1, M)
<1>1. PICK q \in 0..(M - 1), m \in 0..(1 - 1) : N = q * 1 + m /\ R = m * M + q
  BY DEF Splits
<1>2. m = 0 /\ q \in 0..(M - 1) /\ 0 \in 0..(1 - 1)
  BY <1>1
<1>3. N = q /\ R = q
  BY <1>1, <1>2
<1>4. N = 0 * M + q /\ R = q * 1 + 0
  BY <1>2, <1>3
<1>. QED
  BY <1>2, <1>3, <1>4 DEF Splits

(* The remainder of the next number.                                       *)
LEMMA NextRemainder ==
    ASSUME NEW w \in Nat, w > 0, NEW j \in Nat
    PROVE  j % w \in 0..(w - 1) /\ (j + 1) % w = IF j % w = w - 1 THEN 0 ELSE (j % w) + 1
<1>. DEFINE q == j \div w
            m == j % w
<1>1. q \in Int /\ m \in 0..(w - 1) /\ j = w * q + m
  BY DivMod
<1>. HIDE DEF q, m
<1>2. CASE m = w - 1
  <2>1. j + 1 = w * (q + 1) + 0
    <3>1. w * (q + 1) = w * q + w /\ w * q \in Int
      BY <1>1
    <3>. QED
      BY <1>1, <1>2, <3>1
  <2>2. (w * (q + 1) + 0) % w = 0
    <3>1. q + 1 \in Int /\ 0 \in 0..(w - 1)
      BY <1>1
    <3>. QED
      BY <3>1, ModOf
  <2>. QED
    BY <1>1, <1>2, <2>1, <2>2 DEF m
<1>3. CASE m # w - 1
  <2>1. m + 1 \in 0..(w - 1) /\ j + 1 = w * q + (m + 1)
    <3>1. w * q \in Int
      BY <1>1
    <3>. QED
      BY <1>1, <1>3, <3>1
  <2>2. (w * q + (m + 1)) % w = m + 1
    BY <1>1, <2>1, ModOf
  <2>. QED
    BY <1>1, <1>3, <2>1, <2>2 DEF m
<1>. QED
  BY <1>2, <1>3

(* What j rotations by one place make of N, in numbers of one bit more than *)
(* those of a type.                                                         *)
Turned(t, N, R, j) ==
    LET w == Bits[t] + 1
    IN Splits(N, R, 2^(j % w), 2^(w - (j % w)))

(* The places before the last of a turn, and the last. *)
LEMMA PlacesOf ==
    ASSUME NEW t \in IntTypes, NEW j \in Nat
    PROVE  LET w == Bits[t] + 1
               A == 2^(j % w)
               D == 2^(w - (j % w))
           IN /\ A \in Nat /\ A > 0 /\ D \in Nat /\ D > 0 /\ A * D = 2^w
              /\ 2^w \in Nat /\ 2^w = 2 * Size(t)
              /\ \E P \in Nat :
                   /\ P > 0 /\ D = 2 * P /\ Size(t) = A * P
                   /\ \/ 2^((j + 1) % w) = 2 * A /\ 2^(w - ((j + 1) % w)) = P
                      \/ /\ 2 * A = 2^w /\ P = 1
                         /\ 2^((j + 1) % w) = 1 /\ 2^(w - ((j + 1) % w)) = 2^w
<1>. DEFINE B == Bits[t]
            w == B + 1
            k == j % w
            A == 2^k
            D == 2^(w - k)
            P == 2^(B - k)
<1>1. /\ B \in Nat /\ B > 1 /\ 2^0 = 1 /\ 2^B = Size(t) /\ 2^(B + 1) = 2 * Size(t)
      /\ \A i \in 0..(B + 1) : 2^i \in Nat /\ 2^i > 0
      /\ \A i \in 0..B : 2^(i + 1) = 2 * 2^i
  BY Powers
<1>. HIDE DEF B
<1>2. k \in 0..B /\ (j + 1) % w = IF k = B THEN 0 ELSE k + 1
  <2>1. w \in Nat /\ w > 0 /\ w - 1 = B
    BY <1>1
  <2>. HIDE DEF w
  <2>. QED
    BY <2>1, NextRemainder
<1>. HIDE DEF k
<1>3. /\ k \in 0..B /\ B - k \in 0..B /\ (B - k) + 1 = w - k /\ k + (B - k) = B
      /\ k \in Nat /\ B - k \in Nat /\ k + (B - k) <= B + 1
      /\ w - k \in Nat /\ k + (w - k) = w /\ k + (w - k) <= B + 1
      /\ k \in 0..(B + 1) /\ B - k \in 0..(B + 1) /\ w - k \in 0..(B + 1) /\ w \in 0..(B + 1)
  BY <1>1, <1>2
<1>4. /\ A \in Nat /\ A > 0 /\ D \in Nat /\ D > 0 /\ P \in Nat /\ P > 0
      /\ 2^w \in Nat /\ 2^w = 2 * Size(t)
      /\ D = 2 * P /\ 2^(k + 1) = 2 * A
  <2>1. 2^((B - k) + 1) = 2 * P
    BY <1>1, <1>3
  <2>. QED
    BY <1>1, <1>3, <2>1
<1>5. A * P = Size(t)
  BY <1>1, <1>3, PowerProduct DEF B
<1>6. A * D = 2^w
  <2>. DEFINE v == w - k
  <2>1. k \in Nat /\ v \in Nat /\ k + v = w /\ k + v <= Bits[t] + 1
    BY <1>1, <1>3 DEF B
  <2>. HIDE DEF v, w
  <2>2. 2^k * 2^v = 2^(k + v)
    BY <2>1, PowerProduct
  <2>. QED
    BY <2>1, <2>2 DEF v
<1>7. CASE k = B
  <2>1. B - k = 0 /\ w - 0 = w
    BY <1>1, <1>7
  <2>2. P = 1 /\ 2 * A = 2^w /\ 2^((j + 1) % w) = 1 /\ 2^(w - ((j + 1) % w)) = 2^w
    BY <1>1, <1>2, <1>4, <1>7, <2>1
  <2>. QED
    BY <1>4, <1>5, <1>6, <2>2 DEF k, B
<1>8. CASE k # B
  <2>1. (j + 1) % w = k + 1 /\ w - (k + 1) = B - k
    BY <1>1, <1>2, <1>3, <1>8
  <2>2. 2^((j + 1) % w) = 2 * A /\ 2^(w - ((j + 1) % w)) = P
    BY <1>4, <2>1
  <2>. QED
    BY <1>4, <1>5, <1>6, <2>2 DEF k, B
<1>. QED
  BY <1>7, <1>8

(* One more place. *)
LEMMA TurnedOn ==
    ASSUME NEW t \in IntTypes, NEW j \in Nat, NEW N, NEW R, NEW Q
    PROVE  /\ Turned(t, N, R, j) /\ OnePlace(Size(t), R, Q) => Turned(t, N, Q, j + 1)
           /\ Turned(t, R, N, j) /\ OnePlace(Size(t), Q, R) => Turned(t, Q, N, j + 1)
<1>. DEFINE w == Bits[t] + 1
            A == 2^(j % w)
            D == 2^(w - (j % w))
            M == 2^w
            AA == 2^((j + 1) % w)
            DD == 2^(w - ((j + 1) % w))
<1>1. /\ A \in Nat /\ A > 0 /\ D \in Nat /\ D > 0 /\ M \in Nat
      /\ \E P \in Nat :
           /\ P > 0 /\ D = 2 * P /\ Size(t) = A * P
           /\ \/ AA = 2 * A /\ DD = P
              \/ 2 * A = M /\ P = 1 /\ AA = 1 /\ DD = M
  BY PlacesOf
<1>2. /\ Turned(t, N, R, j) <=> Splits(N, R, A, D)
      /\ Turned(t, R, N, j) <=> Splits(R, N, A, D)
      /\ Turned(t, N, Q, j + 1) <=> Splits(N, Q, AA, DD)
      /\ Turned(t, Q, N, j + 1) <=> Splits(Q, N, AA, DD)
  BY DEF Turned
<1>. HIDE DEF A, D, M, AA, DD
<1>3. PICK P \in Nat : /\ P > 0 /\ D = 2 * P /\ Size(t) = A * P
                       /\ \/ AA = 2 * A /\ DD = P
                          \/ 2 * A = M /\ P = 1 /\ AA = 1 /\ DD = M
  BY <1>1
<1>. DEFINE E == 2 * A
<1>4. E = 2 * A
  OBVIOUS
<1>. HIDE DEF E
<1>5. ASSUME Splits(N, R, A, D), OnePlace(Size(t), R, Q) PROVE Splits(N, Q, AA, DD)
  <2>1. Splits(N, Q, E, P)
    BY <1>1, <1>3, <1>4, <1>5, OneLeft
  <2>2. CASE AA = 2 * A /\ DD = P
    BY <1>4, <2>1, <2>2
  <2>3. CASE 2 * A = M /\ P = 1 /\ AA = 1 /\ DD = M
    <3>1. Splits(N, Q, M, 1)
      BY <1>4, <2>1, <2>3
    <3>. QED
      BY <1>1, <2>3, <3>1, FullTurn
  <2>. QED
    BY <1>3, <2>2, <2>3
<1>6. ASSUME Splits(R, N, A, D), OnePlace(Size(t), Q, R) PROVE Splits(Q, N, AA, DD)
  <2>1. Splits(Q, N, E, P)
    BY <1>1, <1>3, <1>4, <1>6, OneRight
  <2>2. CASE AA = 2 * A /\ DD = P
    BY <1>4, <2>1, <2>2
  <2>3. CASE 2 * A = M /\ P = 1 /\ AA = 1 /\ DD = M
    <3>1. Splits(Q, N, M, 1)
      BY <1>4, <2>1, <2>3
    <3>. QED
      BY <1>1, <2>3, <3>1, FullTurn
  <2>. QED
    BY <1>3, <2>2, <2>3
<1>. QED
  BY <1>2, <1>5, <1>6

(* No place at all. *)
LEMMA NotTurned ==
    ASSUME NEW t \in IntTypes, NEW N \in 0..(2 * Size(t) - 1)
    PROVE  Turned(t, N, N, 0)
<1>. DEFINE w == Bits[t] + 1
            M == 2^w
<1>1. w \in Nat /\ w > 0 /\ 2^0 = 1 /\ M = 2 * Size(t) /\ M \in Nat
  BY Powers, Widths
<1>2. 0 % w = 0 /\ w - 0 = w
  BY <1>1
<1>. HIDE DEF M
<1>3. Splits(N, N, 1, M)
  <2>1. 0 \in 0..(1 - 1) /\ N \in 0..(M - 1) /\ N = 0 * M + N /\ N = N * 1 + 0
    BY <1>1
  <2>. QED
    BY <2>1 DEF Splits
<1>. QED
  BY <1>1, <1>2, <1>3 DEF Turned, M

(* A register and the carry as one number *)
Whole(t, s) == If(s.carry, Size(t)) + s.ans

(* Each step of a rotation through the carry is one place. *)
LEMMA OnePosition ==
    ASSUME NEW t \in IntTypes, NEW s \in WithCarry(t)
    PROVE  /\ Whole(t, s) \in 0..(2 * Size(t) - 1)
           /\ OnePlace(Size(t), Whole(t, s), Whole(t, rcl(t, s)))
           /\ OnePlace(Size(t), Whole(t, rcr(t, s)), Whole(t, s))
<1>. DEFINE S == Size(t)
            H == SignBit(t)
            x == s.ans
            c == If(s.carry, 1)
<1>1. S \in Nat /\ S > 0 /\ S = 2 * H /\ H \in Nat /\ H > 0 /\ x \in Nat /\ x < S
      /\ s.carry \in BOOLEAN
  BY Widths DEF WithCarry
<1>2. c \in 0..1 /\ If(s.carry, S) = c * S /\ If(s.carry, H) = c * H
  BY <1>1 DEF If
<1>3. Whole(t, s) = c * S + x /\ c * S \in 0..S
  <2>1. CASE s.carry
    BY <1>1, <1>2, <2>1 DEF Whole, If
  <2>2. CASE ~s.carry
    BY <1>1, <1>2, <2>2 DEF Whole, If
  <2>. QED
    BY <2>1, <2>2
<1>4. Whole(t, s) \in 0..(2 * S - 1)
  <2>1. S \in Nat /\ x \in Nat /\ x < S /\ c * S \in 0..S /\ Whole(t, s) = c * S + x
    BY <1>1, <1>3
  <2>. HIDE DEF S, c, x
  <2>. DEFINE u == c * S
  <2>2. S \in Nat /\ x \in Nat /\ x < S /\ u \in 0..S /\ Whole(t, s) = u + x
    BY <2>1
  <2>. HIDE DEF u
  <2>. QED
    BY <2>2
<1>5. OnePlace(S, Whole(t, s), Whole(t, rcl(t, s)))
  <2>1. /\ rcl(t, s).ans = (IF x >= H THEN 2 * x - S ELSE 2 * x) + c
        /\ rcl(t, s).carry <=> x >= H
    BY PositionFacts
  <2>2. Whole(t, rcl(t, s)) = (IF x >= H THEN S ELSE 0) + rcl(t, s).ans
    BY <2>1 DEF Whole, If
  <2>. HIDE DEF S, c, x, H
  <2>3. Whole(t, rcl(t, s)) = 2 * x + c
    <3>1. CASE x >= H
      BY <1>1, <1>2, <2>1, <2>2, <3>1
    <3>2. CASE ~(x >= H)
      BY <1>1, <1>2, <2>1, <2>2, <3>2
    <3>. QED
      BY <3>1, <3>2
  <2>. QED
    BY <1>1, <1>2, <1>3, <2>3 DEF OnePlace
<1>6. OnePlace(S, Whole(t, rcr(t, s)), Whole(t, s))
  <2>. DEFINE h == x \div 2
              p == x % 2
              y == h + c * H
  <2>1. /\ rcr(t, s).ans = h + If(s.carry, H)
        /\ rcr(t, s).carry <=> p = 1
    BY PositionFacts
  <2>2. h \in Int /\ p \in 0..1 /\ x = 2 * h + p
    BY <1>1
  <2>3. Whole(t, rcr(t, s)) = (IF p = 1 THEN S ELSE 0) + y
    BY <1>2, <2>1 DEF Whole, If
  <2>. HIDE DEF S, c, x, H, h, p
  <2>4. y \in 0..(S - 1) /\ c * S + x = 2 * y + p
    <3>1. CASE c = 0
      BY <1>1, <2>2, <3>1
    <3>2. CASE c = 1
      BY <1>1, <2>2, <3>2
    <3>. QED
      BY <1>2, <3>1, <3>2
  <2>. HIDE DEF y
  <2>5. Whole(t, rcr(t, s)) = p * S + y
    <3>1. CASE p = 0
      BY <1>1, <2>3, <2>4, <3>1
    <3>2. CASE p = 1
      BY <1>1, <2>3, <2>4, <3>2
    <3>. QED
      BY <2>2, <3>1, <3>2
  <2>6. Whole(t, s) = 2 * y + p
    BY <1>3, <2>4
  <2>. QED
    BY <2>2, <2>4, <2>5, <2>6 DEF OnePlace
<1>. QED
  BY <1>4, <1>5, <1>6

(* Every number of places is a turn by that many. *)
LEMMA TurnedBy ==
    ASSUME NEW t \in IntTypes, NEW x \in 0..(Size(t) - 1), NEW n \in Nat
    PROVE  LET s == [ans |-> x, carry |-> Has(flags, FLAG_CARRY)]
           IN /\ Turned(t, Whole(t, s), Whole(t, bin_op_rotate_carry(t, x, n, "rcl")), n)
              /\ Turned(t, Whole(t, bin_op_rotate_carry(t, x, n, "rcr")), Whole(t, s), n)
<1>. DEFINE c == Has(flags, FLAG_CARRY)
            s == [ans |-> x, carry |-> c]
            l == Rotations(t, x, c, n, "rcl")
            u == Rotations(t, x, c, n, "rcr")
            T == {k \in 0..n : /\ Turned(t, Whole(t, s), Whole(t, l[k]), k)
                               /\ Turned(t, Whole(t, u[k]), Whole(t, s), k)}
<1>1. c \in BOOLEAN
  BY DEF Has
<1>2. /\ Whole(t, bin_op_rotate_carry(t, x, n, "rcl")) = Whole(t, l[n])
      /\ Whole(t, bin_op_rotate_carry(t, x, n, "rcr")) = Whole(t, u[n])
  BY DEF bin_op_rotate_carry, Whole, Result
<1>3. s \in WithCarry(t)
  BY <1>1 DEF WithCarry
<1>. HIDE DEF c
<1>4. /\ l \in [0..n -> WithCarry(t)] /\ l[0] = s
      /\ \A k \in 1..n : l[k] = rcl(t, l[k - 1])
  BY <1>1, RotationsFacts
<1>5. /\ u \in [0..n -> WithCarry(t)] /\ u[0] = s
      /\ \A k \in 1..n : u[k] = rcr(t, u[k - 1])
  BY <1>1, RotationsFacts
<1>. HIDE DEF s, l, u
<1>6. 0 \in T
  <2>1. Turned(t, Whole(t, s), Whole(t, s), 0)
    BY <1>3, OnePosition, NotTurned
  <2>. QED
    BY <1>4, <1>5, <2>1
<1>7. ASSUME NEW k \in 0..(n - 1), k \in T PROVE k + 1 \in T
  <2>1. k + 1 \in 1..n /\ k + 1 \in 0..n /\ (k + 1) - 1 = k /\ k \in Nat /\ k \in 0..n
    OBVIOUS
  <2>2. l[k + 1] = rcl(t, l[k]) /\ u[k + 1] = rcr(t, u[k])
    BY <1>4, <1>5, <2>1
  <2>3. l[k] \in WithCarry(t) /\ u[k] \in WithCarry(t)
    BY <1>4, <1>5, <2>1
  <2>4. /\ Turned(t, Whole(t, s), Whole(t, l[k]), k)
        /\ Turned(t, Whole(t, u[k]), Whole(t, s), k)
    BY <1>7
  <2>5. /\ OnePlace(Size(t), Whole(t, l[k]), Whole(t, l[k + 1]))
        /\ OnePlace(Size(t), Whole(t, u[k + 1]), Whole(t, u[k]))
    BY <2>2, <2>3, OnePosition
  <2>6. /\ Turned(t, Whole(t, s), Whole(t, l[k + 1]), k + 1)
        /\ Turned(t, Whole(t, u[k + 1]), Whole(t, s), k + 1)
    BY <2>1, <2>4, <2>5, TurnedOn
  <2>. QED
    BY <2>1, <2>6
<1>8. n \in T
  <2>1. n \in 0..n
    OBVIOUS
  <2>. HIDE DEF T
  <2>. QED
    BY <1>6, <1>7, <2>1, InductionTo
<1>. QED
  BY <1>2, <1>8 DEF s, c

(* What a turn by j places is, in powers of two. *)
LEMMA TurnedRotated ==
    ASSUME NEW t \in IntTypes, NEW j \in Nat, NEW N, NEW R, Turned(t, N, R, j)
    PROVE  LET w == Bits[t] + 1
               k == j % w
           IN R = ((N * 2^k) % 2^w) + N \div 2^(w - k)
<1>. DEFINE w == Bits[t] + 1
            A == 2^(j % w)
            D == 2^(w - (j % w))
            M == 2^w
<1>1. A \in Nat /\ A > 0 /\ D \in Nat /\ D > 0 /\ M = A * D
  BY PlacesOf
<1>2. Splits(N, R, A, D)
  BY DEF Turned
<1>. HIDE DEF A, D, M
<1>3. R = ((N * A) % M) + N \div D
  BY <1>1, <1>2, SplitsRotate
<1>. QED
  BY <1>3 DEF A, D, M

(* An instruction that rotates its register through the carry. *)
LEMMA RotationStep ==
    ASSUME AluInv, Next, outcome' = "ok", NEW i, i = Head(todo),
           i.op \in {"LROTCARRY", "RROTCARRY"}, i.reg # FLAGS,
           NEW x, x = read_from_register(i.reg),
           NEW v, v = read_from_register(i.reg)', NEW k, k = CarryOut'
    PROVE  LET t == i.reg.type
               w == Bits[t] + 1
               Rotated(n, m) == ((n * 2^m) % 2^w) + n \div 2^(w - m)
               before == If(Has(flags, FLAG_CARRY), Size(t)) + x
               after == Size(t) * k + v
           IN /\ i.op = "LROTCARRY" => after = Rotated(before, i.y % w)
              /\ i.op = "RROTCARRY" => before = Rotated(after, i.y % w)
<1>. DEFINE t == i.reg.type
            d == Computed(i.op, t, x, i.y)
            s == [ans |-> x, carry |-> Has(flags, FLAG_CARRY)]
<1>1. /\ i.op \in Chained /\ i.op \notin Divisions /\ i.op \in Shifting
      /\ i.op \in Integer \ FloatOps /\ i.op \notin Conversions
  BY DEF Chained, Divisions, Shifting, Integer, FloatOps, Conversions
<1>2. t # "Float"
  <2>1. i \in Instruction
    BY Recorded
  <2>. QED
    BY <1>1, <2>1 DEF Instruction
<1>3. /\ t \in IntTypes /\ x \in 0..(Size(t) - 1) /\ i.y \in Operands(i.op, t)
      /\ d.ans \in 0..(Size(t) - 1) /\ d.carry \in BOOLEAN /\ d.overflow \in BOOLEAN
      /\ flags' = make_flags_int(Signed(t, d.ans), d.carry, d.overflow)
      /\ read_from_register(i.reg)' = d.ans
  BY <1>1, <1>2, ChainedStep DEF AluInv
<1>4. i.y \in Nat
  BY <1>1, <1>3 DEF Operands
<1>5. k = If(d.carry, 1) /\ v = d.ans
  <2>1. Signed(t, d.ans) \in Int
    <3>. HIDE DEF d
    <3>. QED
      BY <1>3, SignedFacts
  <2>. HIDE DEF d
  <2>2. Has(flags', FLAG_CARRY) <=> d.carry
    BY <1>3, <2>1, FlagsRead
  <2>. QED
    BY <1>3, <2>2 DEF CarryOut, If
<1>6. Size(t) * k + v = Whole(t, d)
  <2>1. Size(t) \in Nat
    BY <1>3, Widths
  <2>. HIDE DEF d
  <2>. QED
    BY <1>3, <1>5, <2>1 DEF Whole, If
<1>7. If(Has(flags, FLAG_CARRY), Size(t)) + x = Whole(t, s)
  BY DEF Whole
<1>8. /\ i.op = "LROTCARRY" => Turned(t, Whole(t, s), Whole(t, d), i.y)
      /\ i.op = "RROTCARRY" => Turned(t, Whole(t, d), Whole(t, s), i.y)
  <2>1. /\ i.op = "LROTCARRY" => d = bin_op_rotate_carry(t, x, i.y, "rcl")
        /\ i.op = "RROTCARRY" => d = bin_op_rotate_carry(t, x, i.y, "rcr")
    BY DEF Computed
  <2>. HIDE DEF d, t
  <2>. QED
    BY <1>3, <1>4, <2>1, TurnedBy
<1>. DEFINE a == Whole(t, s)
            b == Whole(t, d)
<1>9. /\ i.op = "LROTCARRY" => Turned(t, a, b, i.y)
      /\ i.op = "RROTCARRY" => Turned(t, b, a, i.y)
  BY <1>8
<1>10. Size(t) * k + v = b /\ If(Has(flags, FLAG_CARRY), Size(t)) + x = a
  BY <1>6, <1>7
<1>. HIDE DEF a, b
<1>11. LET w == Bits[t] + 1
           m == i.y % w
       IN /\ i.op = "LROTCARRY" => b = ((a * 2^m) % 2^w) + a \div 2^(w - m)
          /\ i.op = "RROTCARRY" => a = ((b * 2^m) % 2^w) + b \div 2^(w - m)
  BY <1>3, <1>4, <1>9, TurnedRotated
<1>. QED
  BY <1>10, <1>11

(* A rotation through the carry by any number of places is one of the      *)
(* register and the carry as one number, for any width (macros.rs:218-262).*)
THEOREM RotationsTurn ==
    Spec => []RotatesThroughCarry
<1>1. Init => RotatesThroughCarry
  <2>1. Init => DOMAIN done = {}
    BY DEF Init
  <2>. QED
    BY <2>1 DEF RotatesThroughCarry
<1>2. AluInv /\ RotatesThroughCarry /\ [Next]_vars => RotatesThroughCarry'
  <2>. SUFFICES ASSUME AluInv, RotatesThroughCarry, [Next]_vars PROVE RotatesThroughCarry'
    OBVIOUS
  <2>1. CASE UNCHANGED vars
    BY <2>1 DEF vars, RotatesThroughCarry, CarryOut, read_from_register
  <2>2. CASE Next
    <3>1. PICK i : i = Head(todo)
      OBVIOUS
    <3>2. PICK x : x = read_from_register(i.reg)
      OBVIOUS
    <3>3. PICK v : v = read_from_register(i.reg)'
      OBVIOUS
    <3>4. PICK k : k = CarryOut'
      OBVIOUS
    <3>5. PICK s : s = done'[Len(done')]
      OBVIOUS
    <3>6. s.op = i.op /\ s.reg = i.reg /\ s.y = i.y /\ s.x = x /\ s.flags = flags
      <4>1. done'[Len(done')] = [op |-> i.op, reg |-> i.reg, y |-> i.y, x |-> x, flags |-> flags]
        BY <2>2, <3>1, <3>2, Recorded
      <4>. QED
        BY <3>5, <4>1
    <3>7. v = read_from_register(s.reg)'
      <4>1. s.reg = i.reg
        BY <3>6
      <4>. QED
        BY <3>3, <4>1 DEF read_from_register
    <3>8. ASSUME outcome' = "ok", s.reg # FLAGS
          PROVE  LET t == s.reg.type
                     w == Bits[t] + 1
                     Rotated(n, m) == ((n * 2^m) % 2^w) + n \div 2^(w - m)
                     before == If(Has(s.flags, FLAG_CARRY), Size(t)) + s.x
                     after == Size(t) * k + v
                 IN /\ s.op = "LROTCARRY" => after = Rotated(before, s.y % w)
                    /\ s.op = "RROTCARRY" => before = Rotated(after, s.y % w)
      BY SMTT(30), <2>2, <3>1, <3>2, <3>3, <3>4, <3>6, <3>8, RotationStep
    <3>. QED
      BY <3>4, <3>5, <3>7, <3>8 DEF RotatesThroughCarry, read_from_register
  <2>. QED
    BY <2>1, <2>2
<1>. QED
  BY <1>1, <1>2, Inductive, PTL DEF Spec

-----------------------------------------------------------------------------
(***************************************************************************)
(* Shifts by any distance, bit by bit.                                     *)
(***************************************************************************)

(* A quotient of a quotient is one by the product. *)
LEMMA TwoQuotients ==
    ASSUME NEW p \in Nat, p > 0, NEW q \in Nat, q > 0, NEW x \in Int
    PROVE  (x \div p) \div q = x \div (p * q)
<1>. DEFINE u == x \div p
            a == x % p
            v == u \div q
            b == u % q
            m == p * b + a
<1>1. u \in Int /\ a \in 0..(p - 1) /\ x = p * u + a
  BY DivMod
<1>2. v \in Int /\ b \in 0..(q - 1) /\ u = q * v + b
  <2>. HIDE DEF u
  <2>. QED
    BY <1>1, DivMod
<1>. HIDE DEF u, a, v, b
<1>3. p * q \in Nat /\ p * q > 0
  OBVIOUS
<1>4. m \in 0..(p * q - 1)
  <2>1. p * b <= p * (q - 1) /\ p * b >= 0
    BY <1>2
  <2>2. p * (q - 1) = p * q - p
    OBVIOUS
  <2>. DEFINE c == p * b
              d == p * q
  <2>3. c \in Int /\ d \in Int /\ c >= 0 /\ c <= d - p
    BY <1>2, <2>1, <2>2
  <2>. HIDE DEF c, d
  <2>4. c + a \in 0..(d - 1)
    BY <1>1, <2>3
  <2>. QED
    BY <2>4 DEF c, d
<1>5. x = (p * q) * v + m
  <2>1. p * (q * v + b) = (p * q) * v + p * b
    BY <1>2
  <2>. QED
    BY <1>1, <1>2, <2>1
<1>6. x \div (p * q) = v
  <2>. DEFINE S == p * q
  <2>. HIDE DEF S, m
  <2>1. x = S * v + m /\ S \in Nat /\ S > 0 /\ m \in 0..(S - 1)
    BY <1>3, <1>4, <1>5 DEF S
  <2>2. (S * v + m) \div S = v
    BY <1>2, <2>1, ModOf
  <2>. QED
    BY <2>1, <2>2 DEF S
<1>. QED
  BY <1>6 DEF u, v

(* The bits above the lowest ones. *)
LEMMA Above ==
    ASSUME NEW t \in IntTypes, NEW m \in Nat, NEW k \in Nat, m + k <= Bits[t], NEW x \in Int
    PROVE  x \div 2^m \in Int /\ (x \div 2^m) \div 2^k = x \div 2^(m + k)
<1>. DEFINE p == 2^m
            q == 2^k
<1>1. p \in Nat /\ p > 0 /\ q \in Nat /\ q > 0
  <2>1. Bits[t] \in Nat
    BY Powers
  <2>2. m \in 0..(Bits[t] + 1) /\ k \in 0..(Bits[t] + 1)
    BY <2>1
  <2>. QED
    BY <2>2, Powers
<1>2. p * q = 2^(m + k)
  <2>1. Bits[t] \in Nat
    BY Powers
  <2>2. m + k <= Bits[t] + 1
    BY <2>1
  <2>. QED
    BY <2>2, PowerProduct
<1>3. x \div p \in Int /\ (x \div p) \div q = x \div (p * q)
  <2>. HIDE DEF p, q
  <2>. QED
    BY <1>1, TwoQuotients, DivMod
<1>. QED
  BY <1>2, <1>3

(* A multiple of a higher power does not show in a bit. *)
LEMMA BitKept ==
    ASSUME NEW t \in IntTypes, NEW i \in 0..(Bits[t] - 1), NEW m \in (i + 1)..Bits[t],
           NEW x \in Int, NEW c \in Int
    PROVE  Bit(x + 2^m * c, i) = Bit(x, i)
<1>. DEFINE B == Bits[t]
            p == 2^i
            q == 2^(m - i - 1)
            u == x \div p
            a == x % p
<1>1. B \in Nat
  BY Powers
<1>2. i \in Nat /\ m - i - 1 \in Nat /\ i + (m - i - 1) + 1 = m /\ i + (m - i - 1) <= B + 1
      /\ i \in 0..(B + 1) /\ m - i - 1 \in 0..(B + 1) /\ i + (m - i - 1) \in 0..B
  BY <1>1
<1>3. p \in Nat /\ p > 0 /\ q \in Nat
  BY <1>2, Powers
<1>4. p * q = 2^(i + (m - i - 1))
  BY <1>2, PowerProduct
<1>5. 2^m = 2 * (p * q)
  BY <1>2, <1>4, Powers
<1>6. u \in Int /\ a \in 0..(p - 1) /\ x = p * u + a
  <2>. HIDE DEF p
  <2>. QED
    BY <1>3, DivMod
<1>. DEFINE d == q * c
            y == x + 2^m * c
<1>7. y = p * (u + 2 * d) + a /\ d \in Int
  <2>. HIDE DEF p, q, u, a
  <2>1. (2 * (p * q)) * c = p * (2 * (q * c)) /\ q * c \in Int
    BY <1>3
  <2>2. p * (u + 2 * (q * c)) = p * u + p * (2 * (q * c))
    BY <1>3, <1>6, <2>1
  <2>3. 2^m * c = p * (2 * (q * c))
    BY <1>5, <2>1
  <2>4. p * u \in Int /\ p * (2 * (q * c)) \in Int /\ a \in Int
    BY <1>3, <1>6, <2>1
  <2>. HIDE DEF d
  <2>. QED
    BY <1>6, <2>1, <2>2, <2>3, <2>4 DEF d
<1>8. y \div p = u + 2 * d
  <2>. HIDE DEF p, u, a, d, y
  <2>1. u + 2 * d \in Int
    BY <1>6, <1>7
  <2>. QED
    BY <1>3, <1>6, <1>7, <2>1, ModOf
<1>9. (u + 2 * d) % 2 = u % 2
  <2>. HIDE DEF u, d
  <2>. QED
    BY <1>6, <1>7
<1>. QED
  BY <1>8, <1>9 DEF Bit

(* What is all zeros or all ones from one bit on is so from any higher one.*)
LEMMA SameAbove ==
    ASSUME NEW t \in IntTypes, NEW m \in Nat, NEW i \in m..Bits[t], NEW x \in Int,
           NEW e \in {0, -1}, x \div 2^m = e
    PROVE  x \div 2^i = e /\ Bit(x, i) = -e
<1>. DEFINE k == i - m
            p == 2^k
<1>1. Bits[t] \in Nat
  BY Powers
<1>2. m + k = i /\ k \in Nat /\ m + k <= Bits[t] /\ k \in 0..(Bits[t] + 1)
  BY <1>1
<1>. HIDE DEF k
<1>3. p \in Nat /\ p > 0
  BY <1>2, Powers
<1>4. x \div 2^i = e \div p
  BY <1>2, Above
<1>5. e \div p = e
  <2>. HIDE DEF p
  <2>1. (p * e + (IF e = 0 THEN 0 ELSE p - 1)) \div p = e
    <3>1. (IF e = 0 THEN 0 ELSE p - 1) \in 0..(p - 1) /\ e \in Int
      BY <1>3
    <3>. QED
      BY <1>3, <3>1, ModOf
  <2>2. p * e + (IF e = 0 THEN 0 ELSE p - 1) = e
    BY <1>3
  <2>. QED
    BY <2>1, <2>2
<1>6. e % 2 = -e
  OBVIOUS
<1>. QED
  BY <1>4, <1>5, <1>6 DEF Bit

(* A multiple of a power has the bits of the factor above zeros. *)
LEMMA BitOfMultiple ==
    ASSUME NEW t \in IntTypes, NEW n \in 0..Bits[t], NEW i \in 0..(Bits[t] - 1), NEW x \in Int
    PROVE  Bit(x * 2^n, i) = IF i < n THEN 0 ELSE Bit(x, i - n)
<1>1. Bits[t] \in Nat /\ n \in 0..(Bits[t] + 1) /\ i \in 0..(Bits[t] + 1)
  BY Powers
<1>2. 2^n \in Nat /\ 2^n > 0 /\ 2^i \in Nat /\ 2^i > 0
  BY <1>1, Powers
<1>3. CASE i < n
  <2>1. Bit(0 + 2^n * x, i) = Bit(0, i)
    <3>1. n \in (i + 1)..Bits[t] /\ 0 \in Int
      BY <1>1, <1>3
    <3>. QED
      BY <3>1, BitKept
  <2>2. 0 + 2^n * x = x * 2^n
    BY <1>2
  <2>3. Bit(0, i) = 0
    <3>. DEFINE p == 2^i
    <3>1. p \in Nat /\ p > 0
      BY <1>2
    <3>. HIDE DEF p
    <3>2. (p * 0 + 0) \div p = 0
      BY <3>1, ModOf
    <3>3. p * 0 + 0 = 0 /\ 0 % 2 = 0
      BY <3>1
    <3>. QED
      BY <3>2, <3>3 DEF Bit, p
  <2>. QED
    BY <1>3, <2>1, <2>2, <2>3
<1>4. CASE ~(i < n)
  <2>. DEFINE k == i - n
              y == x * 2^n
  <2>1. n + k = i /\ k \in Nat /\ n \in Nat /\ n + k <= Bits[t]
    BY <1>1, <1>4
  <2>2. y \in Int
    BY <1>2
  <2>3. (y \div 2^n) \div 2^k = y \div 2^i
    <3>. HIDE DEF k, y
    <3>1. (y \div 2^n) \div 2^k = y \div 2^(n + k)
      BY <2>1, <2>2, Above
    <3>. QED
      BY <2>1, <3>1
  <2>4. (x * 2^n) \div 2^n = x
    <3>. DEFINE p == 2^n
    <3>1. p \in Nat /\ p > 0
      BY <1>2
    <3>. HIDE DEF p
    <3>2. (p * x + 0) \div p = x
      BY <3>1, ModOf
    <3>3. p * x + 0 = x * p
      BY <3>1
    <3>. QED
      BY <3>2, <3>3 DEF p
  <2>. QED
    BY <1>4, <2>3, <2>4 DEF Bit
<1>. QED
  BY <1>3, <1>4

(* What is cut to a width keeps its bits. *)
LEMMA BitOfUnsigned ==
    ASSUME NEW t \in IntTypes, NEW i \in 0..(Bits[t] - 1), NEW x \in Int
    PROVE  Bit(Unsigned(t, x), i) = Bit(x, i)
<1>. DEFINE S == Size(t)
            q == x \div S
            a == x % S
<1>1. S \in Nat /\ S > 0 /\ S = 2^(Bits[t]) /\ Bits[t] \in Nat
  BY Powers, Widths
<1>2. q \in Int /\ a \in 0..(S - 1) /\ x = S * q + a
  <2>. HIDE DEF S
  <2>. QED
    BY <1>1, DivMod
<1>3. Unsigned(t, x) = a
  BY DEF Unsigned
<1>. HIDE DEF q, a
<1>4. x = a + S * q /\ a \in Int
  <2>. HIDE DEF S
  <2>. QED
    BY <1>1, <1>2
<1>5. Bits[t] \in (i + 1)..Bits[t]
  BY <1>1
<1>6. Bit(a + 2^(Bits[t]) * q, i) = Bit(a, i)
  BY <1>2, <1>4, <1>5, BitKept
<1>. QED
  BY <1>1, <1>3, <1>4, <1>6

(* The signed reading has the same bits, and its sign from the top one on. *)
LEMMA BitOfSigned ==
    ASSUME NEW t \in IntTypes, NEW x \in 0..(Size(t) - 1), NEW v, v = Signed(t, x)
    PROVE  /\ v \in Int /\ \A i \in 0..(Bits[t] - 1) : Bit(v, i) = Bit(x, i)
           /\ v \div SignBit(t) = IF v < 0 THEN -1 ELSE 0
           /\ Bit(x, Bits[t] - 1) = IF v < 0 THEN 1 ELSE 0
<1>. DEFINE S == Size(t)
            H == SignBit(t)
            B == Bits[t]
<1>1. /\ S \in Nat /\ H \in Nat /\ H > 0 /\ S = 2 * H /\ B \in Nat /\ B > 1
      /\ S = 2^B /\ H = 2^(B - 1)
  BY Powers, Widths
<1>2. v \in (-H)..(H - 1) /\ (v = x \/ v = x - S) /\ x \in Int
  BY <1>1, SignedFacts
<1>3. \A i \in 0..(B - 1) : Bit(v, i) = Bit(x, i)
  <2>. SUFFICES ASSUME NEW i \in 0..(B - 1) PROVE Bit(v, i) = Bit(x, i)
    OBVIOUS
  <2>1. B \in (i + 1)..B
    BY <1>1
  <2>2. Bit(x + 2^B * (-1), i) = Bit(x, i)
    BY <1>2, <2>1, BitKept
  <2>3. x + 2^B * (-1) = x - S
    BY <1>1, <1>2
  <2>. QED
    BY <1>2, <2>2, <2>3
<1>. HIDE DEF S, H, B
<1>4. v \div H = IF v < 0 THEN -1 ELSE 0
  <2>1. CASE v < 0
    <3>1. v = H * (-1) + (v + H) /\ v + H \in 0..(H - 1)
      BY <1>1, <1>2, <2>1
    <3>2. (H * (-1) + (v + H)) \div H = -1
      BY <1>1, <3>1, ModOf
    <3>. QED
      BY <2>1, <3>1, <3>2
  <2>2. CASE ~(v < 0)
    <3>1. v = H * 0 + v /\ v \in 0..(H - 1)
      BY <1>1, <1>2, <2>2
    <3>2. (H * 0 + v) \div H = 0
      BY <1>1, <3>1, ModOf
    <3>. QED
      BY <2>2, <3>1, <3>2
  <2>. QED
    BY <2>1, <2>2
<1>5. Bit(x, B - 1) = IF v < 0 THEN 1 ELSE 0
  <2>1. B - 1 \in 0..(B - 1)
    BY <1>1
  <2>2. Bit(v, B - 1) = (v \div H) % 2
    BY <1>1 DEF Bit
  <2>3. 0 % 2 = 0 /\ (-1) % 2 = 1
    <3>1. 2 \in Nat /\ 2 > 0 /\ -1 = 2 * (-1) + 1 /\ -1 \in Int /\ 1 \in 0..(2 - 1)
      OBVIOUS
    <3>2. (2 * (-1) + 1) % 2 = 1
      BY <3>1, ModOf
    <3>. QED
      BY <3>1, <3>2
  <2>. QED
    BY <1>3, <1>4, <2>1, <2>2, <2>3
<1>. QED
  BY <1>1, <1>2, <1>3, <1>4, <1>5 DEF S, H, B

(* A shift to the left moves the bits up. *)
LEMMA LeftBits ==
    ASSUME NEW t \in IntTypes, NEW x \in 0..(Size(t) - 1), NEW n \in Nat,
           NEW b \in 0..(Bits[t] - 1)
    PROVE  Bit(LShift(t, x, n).ans, b) = BitFrom("LSHIFT", t, x, b, n)
<1>1. Bits[t] \in Nat /\ x \in Int
  BY Powers, Widths
<1>2. CASE n < Bits[t]
  <2>1. n \in 0..Bits[t] /\ n \in 0..(Bits[t] + 1)
    BY <1>1, <1>2
  <2>2. x * 2^n \in Int
    BY <1>1, <2>1, Powers
  <2>3. Bit(LShift(t, x, n).ans, b) = Bit(x * 2^n, b)
    BY <1>2, <2>2, BitOfUnsigned DEF LShift, Result
  <2>4. Bit(x * 2^n, b) = IF b < n THEN 0 ELSE Bit(x, b - n)
    BY <1>1, <2>1, BitOfMultiple
  <2>5. b - n \in 0..(Bits[t] - 1) <=> ~(b < n)
    BY <1>1
  <2>. QED
    BY <2>3, <2>4, <2>5 DEF BitFrom
<1>3. CASE ~(n < Bits[t])
  <2>1. LShift(t, x, n).ans = 0
    BY <1>3 DEF LShift, Result
  <2>2. b - n \notin 0..(Bits[t] - 1)
    BY <1>1, <1>3
  <2>3. Bit(0, b) = 0
    <3>1. 0 * 2^(Bits[t]) = 0
      <4>1. Bits[t] \in 0..(Bits[t] + 1)
        BY <1>1
      <4>2. 2^(Bits[t]) \in Nat
        BY <4>1, Powers
      <4>. QED
        BY <4>2
    <3>2. Bits[t] \in 0..Bits[t] /\ b < Bits[t]
      BY <1>1
    <3>3. Bit(0 * 2^(Bits[t]), b) = 0
      BY <3>2, BitOfMultiple
    <3>. QED
      BY <3>1, <3>3
  <2>. QED
    BY <2>1, <2>2, <2>3 DEF BitFrom
<1>. QED
  BY <1>2, <1>3

(* A quotient by a power has the bits further up, and above the top one    *)
(* those of an end that is all zeros or all ones.                          *)
LEMMA QuotientBits ==
    ASSUME NEW t \in IntTypes, NEW v \in Int, NEW m \in 0..Bits[t], NEW e \in {0, -1},
           v \div 2^m = e, NEW n \in 0..m, NEW b \in 0..(Bits[t] - 1)
    PROVE  Bit(v \div 2^n, b) = IF n + b < m THEN Bit(v, n + b) ELSE -e
<1>1. Bits[t] \in Nat
  BY Powers
<1>2. CASE n + b < m
  <2>1. n + b <= Bits[t] /\ n \in Nat /\ b \in Nat
    BY <1>1, <1>2
  <2>2. (v \div 2^n) \div 2^b = v \div 2^(n + b)
    BY <2>1, Above
  <2>. QED
    BY <1>2, <2>2 DEF Bit
<1>3. CASE ~(n + b < m)
  <2>. DEFINE k == m - n
              w == v \div 2^n
  <2>1. n + k = m /\ k \in Nat /\ n \in Nat /\ n + k <= Bits[t] /\ b \in k..Bits[t]
    BY <1>1, <1>3
  <2>2. w \in Int /\ w \div 2^k = e
    <3>. HIDE DEF k
    <3>1. w \in Int /\ w \div 2^k = v \div 2^(n + k)
      BY <2>1, Above
    <3>. QED
      BY <2>1, <3>1
  <2>3. Bit(w, b) = -e
    <3>. HIDE DEF k, w
    <3>. QED
      BY <2>1, <2>2, SameAbove
  <2>. QED
    BY <1>3, <2>3
<1>. QED
  BY <1>2, <1>3

(* An unsigned shift to the right moves the bits down. *)
LEMMA RightBits ==
    ASSUME NEW t \in IntTypes, NEW x \in 0..(Size(t) - 1), NEW n \in Nat,
           NEW b \in 0..(Bits[t] - 1)
    PROVE  Bit(URShift(t, x, n).ans, b) = BitFrom("URSHIFT", t, x, b, n)
<1>. DEFINE B == Bits[t]
<1>1. B \in Nat /\ x \in Int /\ b \in Nat /\ 2^B = Size(t) /\ Size(t) \in Nat /\ Size(t) > 0
  BY Powers, Widths
<1>2. x \div 2^B = 0
  <2>. DEFINE S == Size(t)
  <2>1. S * 0 + x = x /\ x \in 0..(S - 1) /\ S \in Nat /\ S > 0
    BY <1>1
  <2>. HIDE DEF S
  <2>2. (S * 0 + x) \div S = 0
    BY <2>1, ModOf
  <2>. QED
    BY <1>1, <2>1, <2>2 DEF S
<1>3. n + b \in 0..(B - 1) <=> n + b < B
  BY <1>1
<1>4. b + n = n + b
  BY <1>1
<1>5. B \in 0..B
  BY <1>1
<1>6. CASE n < B
  <2>1. n \in 0..B
    BY <1>1, <1>6
  <2>2. Bit(x \div 2^n, b) = IF n + b < B THEN Bit(x, n + b) ELSE -0
    BY <1>1, <1>2, <1>5, <2>1, QuotientBits
  <2>3. URShift(t, x, n).ans = x \div 2^n
    BY <1>6 DEF URShift, Result
  <2>. QED
    BY <1>3, <1>4, <2>2, <2>3 DEF BitFrom
<1>7. CASE ~(n < B)
  <2>1. URShift(t, x, n).ans = 0
    BY <1>7 DEF URShift, Result
  <2>2. Bit(x \div 2^B, b) = IF B + b < B THEN Bit(x, B + b) ELSE -0
    BY <1>1, <1>2, <1>5, QuotientBits
  <2>3. ~(B + b < B) /\ ~(n + b < B)
    BY <1>1, <1>7
  <2>4. Bit(0, b) = 0
    BY <1>2, <2>2, <2>3
  <2>. QED
    BY <1>3, <1>4, <2>1, <2>3, <2>4 DEF BitFrom
<1>. QED
  BY <1>6, <1>7

(* A signed shift to the right moves the bits down and repeats the sign. *)
LEMMA SignedRightBits ==
    ASSUME NEW t \in IntTypes, NEW x \in 0..(Size(t) - 1), NEW n \in Nat,
           NEW b \in 0..(Bits[t] - 1)
    PROVE  Bit(SRShift(t, x, n).ans, b) = BitFrom("SRSHIFT", t, x, b, n)
<1>. DEFINE B == Bits[t]
            T == B - 1
            v == Signed(t, x)
            e == IF v < 0 THEN -1 ELSE 0
<1>1. B \in Nat /\ T \in 0..B /\ T + 1 = B /\ b \in Nat /\ b \in 0..T
  BY Powers
<1>2. /\ v \in Int /\ \A i \in 0..T : Bit(v, i) = Bit(x, i)
      /\ v \div 2^T = e /\ Bit(x, T) = -e
  <2>1. SignBit(t) = 2^T
    BY DEF SignBit
  <2>2. v \in Int /\ (\A i \in 0..T : Bit(v, i) = Bit(x, i))
        /\ v \div SignBit(t) = e /\ Bit(x, T) = IF v < 0 THEN 1 ELSE 0
    BY BitOfSigned
  <2>3. (IF v < 0 THEN 1 ELSE 0) = -e
    OBVIOUS
  <2>. QED
    BY <2>1, <2>2, <2>3
<1>3. e \in {0, -1} /\ (e = -1 <=> v < 0)
  OBVIOUS
<1>4. BitFrom("SRSHIFT", t, x, b, n) = IF n + b < T THEN Bit(x, n + b) ELSE -e
  <2>. HIDE DEF e, v
  <2>1. b + n = n + b /\ n + b \in Nat
    BY <1>1
  <2>2. CASE n + b < T
    <3>1. n + b \in 0..(B - 1)
      BY <1>1, <2>1, <2>2
    <3>. QED
      BY <1>1, <2>1, <2>2, <3>1 DEF BitFrom
  <2>3. CASE n + b = T
    <3>1. n + b \in 0..(B - 1)
      BY <1>1, <2>1, <2>3
    <3>. QED
      BY <1>2, <2>1, <2>3, <3>1 DEF BitFrom
  <2>4. CASE n + b > T
    <3>1. n + b \notin 0..(B - 1) /\ n + b >= B /\ ~(n + b < T)
      BY <1>1, <2>1, <2>4
    <3>. QED
      BY <1>2, <2>1, <3>1 DEF BitFrom
  <2>. QED
    BY <1>1, <2>1, <2>2, <2>3, <2>4
<1>5. CASE n < B
  <2>. HIDE DEF e, v
  <2>1. n \in 0..T /\ (n + b < T => n + b \in 0..T)
    BY <1>1, <1>5
  <2>2. Bit(v \div 2^n, b) = IF n + b < T THEN Bit(v, n + b) ELSE -e
    BY <1>1, <1>2, <1>3, <2>1, QuotientBits
  <2>3. v \div 2^n \in Int
    <3>1. n \in Nat /\ 0 \in Nat /\ n + 0 <= B
      BY <1>1, <2>1
    <3>. QED
      BY <1>2, <3>1, Above
  <2>4. SRShift(t, x, n).ans = Unsigned(t, v \div 2^n)
    BY <1>5 DEF SRShift, Result, v
  <2>5. Bit(SRShift(t, x, n).ans, b) = Bit(v \div 2^n, b)
    BY <2>3, <2>4, BitOfUnsigned
  <2>. QED
    BY <1>2, <1>4, <2>1, <2>2, <2>5
<1>6. CASE ~(n < B)
  <2>1. SRShift(t, x, n).ans = IF v < 0 THEN Size(t) - 1 ELSE 0
    BY <1>6 DEF SRShift, Result, If
  <2>. HIDE DEF e, v
  <2>2. ~(n + b < T)
    BY <1>1, <1>6
  <2>3. SRShift(t, x, n).ans = Unsigned(t, e)
    <3>1. Size(t) \in Nat /\ Size(t) > 0
      BY Widths
    <3>. DEFINE S == Size(t)
    <3>2. (-1) \in (-S)..(-1) /\ -1 + S = S - 1 /\ 0 \in 0..(S - 1)
      BY <3>1
    <3>. HIDE DEF S
    <3>3. (-1) % S = S - 1 /\ 0 % S = 0
      BY <3>1, <3>2, Wrap DEF S
    <3>. QED
      BY <1>3, <2>1, <3>3 DEF Unsigned, S
  <2>4. Bit(SRShift(t, x, n).ans, b) = Bit(e, b)
    BY <1>3, <2>3, BitOfUnsigned
  <2>5. Bit(e, b) = -e
    <3>1. 2^0 = 1 /\ b \in 0..B /\ e \in Int
      BY <1>1, <1>3, Powers
    <3>2. e \div 2^0 = e
      BY <3>1
    <3>3. b \in 0..Bits[t] /\ 0 \in Nat
      BY <1>1
    <3>. QED
      BY <1>3, <3>1, <3>2, <3>3, SameAbove
  <2>. QED
    BY <1>4, <2>2, <2>4, <2>5
<1>. QED
  BY <1>5, <1>6

(* A shift to the left loses a one exactly when there are fewer leading    *)
(* zeros.                                                                  *)
LEMMA LeftLoses ==
    ASSUME NEW t \in IntTypes, NEW x \in 0..(Size(t) - 1), NEW n \in Nat, n < Bits[t]
    PROVE  leading_zeros(t, x) < n <=> \E b \in (Bits[t] - n)..(Bits[t] - 1) : Bit(x, b) = 1
<1>. DEFINE B == Bits[t]
            z == leading_zeros(t, x)
<1>1. /\ B \in Nat /\ x \in Nat
      /\ \A k \in 0..(B + 1) : 2^k \in Nat /\ 2^k > 0
      /\ \A k \in 0..B : 2^(k + 1) = 2 * 2^k
  BY Powers, Widths
<1>2. z \in 0..B /\ x < 2^(B - z) /\ (z = B \/ x >= 2^(B - z - 1))
  BY LeadingZerosAre
<1>. HIDE DEF z
<1>3. ASSUME z < n PROVE \E b \in (B - n)..(B - 1) : Bit(x, b) = 1
  <2>. DEFINE b == B - z - 1
              p == 2^b
  <2>1. b \in (B - n)..(B - 1) /\ b \in 0..B /\ b \in 0..(B + 1) /\ b + 1 = B - z /\ z # B
    BY <1>1, <1>2, <1>3
  <2>2. p \in Nat /\ p > 0 /\ x >= p /\ x < 2^(B - z)
    BY <1>1, <1>2, <2>1
  <2>. HIDE DEF b
  <2>3. 2^(B - z) = 2 * p
    BY <1>1, <2>1
  <2>. HIDE DEF p
  <2>4. x = p * 1 + (x - p) /\ x - p \in 0..(p - 1)
    BY <1>1, <2>2, <2>3
  <2>5. (p * 1 + (x - p)) \div p = 1
    BY <2>2, <2>4, ModOf
  <2>6. x \div p = 1
    BY <2>4, <2>5
  <2>7. Bit(x, b) = 1
    BY <2>6 DEF Bit, p
  <2>. QED
    BY <2>1, <2>7
<1>4. ASSUME z >= n, NEW b \in (B - n)..(B - 1) PROVE Bit(x, b) # 1
  <2>. DEFINE m == B - z
              p == 2^m
  <2>1. m \in Nat /\ m \in 0..(B + 1) /\ b \in m..B
    BY <1>1, <1>2, <1>4
  <2>2. p \in Nat /\ p > 0 /\ x < p
    BY <1>1, <1>2, <2>1
  <2>. HIDE DEF m
  <2>3. x \div p = 0
    <3>. HIDE DEF p
    <3>1. p * 0 + x = x /\ x \in 0..(p - 1)
      BY <1>1, <2>2
    <3>2. (p * 0 + x) \div p = 0
      BY <2>2, <3>1, ModOf
    <3>. QED
      BY <3>1, <3>2
  <2>4. Bit(x, b) = -0
    BY <1>1, <2>1, <2>3, SameAbove
  <2>. QED
    BY <2>4
<1>5. z \in Int /\ n \in Int
  BY <1>1, <1>2
<1>. QED
  BY <1>3, <1>4, <1>5 DEF z

(* A shift to the right loses a one exactly when there are fewer trailing  *)
(* zeros.                                                                  *)
LEMMA RightLoses ==
    ASSUME NEW t \in IntTypes, NEW x \in 0..(Size(t) - 1), NEW n \in Nat, n < Bits[t]
    PROVE  trailing_zeros(t, x) < n <=> \E b \in 0..(n - 1) : Bit(x, b) = 1
<1>. DEFINE B == Bits[t]
            z == trailing_zeros(t, x)
            p == 2^z
            q == x \div p
<1>1. /\ B \in Nat /\ x \in Int
      /\ \A k \in 0..(B + 1) : 2^k \in Nat /\ 2^k > 0
      /\ \A k \in 0..B : 2^(k + 1) = 2 * 2^k
  BY Powers, Widths
<1>2. z \in 0..B /\ x % 2^z = 0 /\ \A k \in 0..B : x % 2^k = 0 => z >= k
  BY TrailingZerosAre
<1>. HIDE DEF z
<1>3. p \in Nat /\ p > 0
  BY <1>1, <1>2
<1>4. q \in Int /\ x = q * p
  <2>1. q \in Int /\ x % p \in 0..(p - 1) /\ x = p * q + (x % p)
    <3>. HIDE DEF p
    <3>. QED
      BY <1>1, <1>3, DivMod
  <2>2. x % p = 0
    BY <1>2
  <2>. HIDE DEF p, q
  <2>. QED
    BY <1>3, <2>1, <2>2
<1>5. ASSUME z < n PROVE \E b \in 0..(n - 1) : Bit(x, b) = 1
  <2>1. z \in 0..(n - 1) /\ z + 1 \in 0..B /\ ~(z >= z + 1) /\ z + 1 \in 0..(B + 1)
    BY <1>1, <1>2, <1>5
  <2>2. 2^(z + 1) = 2 * p /\ x % 2^(z + 1) # 0
    BY <1>1, <1>2, <2>1
  <2>3. q % 2 = 1
    <3>. DEFINE h == q \div 2
                g == q % 2
    <3>1. q = 2 * h + g /\ g \in 0..1 /\ h \in Int
      <4>. HIDE DEF q
      <4>. QED
        BY <1>4, Halved
    <3>. HIDE DEF h, g
    <3>2. ASSUME g = 0 PROVE FALSE
      <4>. DEFINE d == 2 * p
      <4>1. x = d * h + 0
        <5>. HIDE DEF p, q
        <5>1. q * p = (2 * p) * h
          BY <1>3, <3>1, <3>2
        <5>. QED
          BY <1>3, <1>4, <3>1, <5>1
      <4>2. d \in Nat /\ d > 0 /\ 0 \in 0..(d - 1)
        <5>. HIDE DEF p
        <5>. QED
          BY <1>3
      <4>. HIDE DEF d
      <4>3. (d * h + 0) % d = 0
        BY <3>1, <4>2, ModOf
      <4>. QED
        BY <2>2, <4>1, <4>3 DEF d
    <3>. QED
      BY <3>1, <3>2 DEF g
  <2>4. Bit(x, z) = 1
    BY <2>3 DEF Bit
  <2>. QED
    BY <2>1, <2>4
<1>6. ASSUME z >= n, NEW b \in 0..(n - 1) PROVE Bit(x, b) # 1
  <2>1. b < z /\ b \in 0..(B - 1) /\ z \in 0..B
    BY <1>1, <1>2, <1>6
  <2>2. Bit(q * p, b) = 0
    <3>. HIDE DEF q
    <3>. QED
      BY <1>4, <2>1, BitOfMultiple
  <2>. QED
    BY <1>4, <2>2
<1>7. z \in Int /\ n \in Int
  BY <1>1, <1>2
<1>. QED
  BY <1>5, <1>6, <1>7 DEF z

(* What a shift leaves in the register and in the carry. *)
LEMMA ShiftFacts ==
    ASSUME NEW op \in {"LSHIFT", "SRSHIFT", "URSHIFT"}, NEW t \in IntTypes,
           NEW x \in 0..(Size(t) - 1), NEW n \in Nat, NEW d, d = Computed(op, t, x, n)
    PROVE  /\ \A b \in 0..(Bits[t] - 1) : Bit(d.ans, b) = BitFrom(op, t, x, b, n)
           /\ d.carry <=> n >= Bits[t] \/ \E b \in LostBits(op, t, n) : Bit(x, b) = 1
<1>1. Bits[t] \in Nat
  BY Powers
<1>2. CASE op = "LSHIFT"
  <2>1. d = LShift(t, x, n)
    BY <1>2 DEF Computed
  <2>2. \A b \in 0..(Bits[t] - 1) : Bit(d.ans, b) = BitFrom(op, t, x, b, n)
    BY <1>2, <2>1, LeftBits
  <2>3. d.carry = IF n < Bits[t] THEN leading_zeros(t, x) < n ELSE TRUE
    BY <2>1 DEF LShift, Result
  <2>4. LostBits(op, t, n) = (Bits[t] - n)..(Bits[t] - 1)
    BY <1>2 DEF LostBits
  <2>5. n < Bits[t]
        => (leading_zeros(t, x) < n <=> \E b \in LostBits(op, t, n) : Bit(x, b) = 1)
    BY <2>4, LeftLoses
  <2>6. n >= Bits[t] <=> ~(n < Bits[t])
    BY <1>1
  <2>. QED
    BY <2>2, <2>3, <2>5, <2>6
<1>3. CASE op = "SRSHIFT"
  <2>1. d = SRShift(t, x, n)
    BY <1>3 DEF Computed
  <2>2. \A b \in 0..(Bits[t] - 1) : Bit(d.ans, b) = BitFrom(op, t, x, b, n)
    BY <1>3, <2>1, SignedRightBits
  <2>3. d.carry = IF n < Bits[t] THEN trailing_zeros(t, x) < n ELSE TRUE
    BY <2>1 DEF SRShift, Result
  <2>4. LostBits(op, t, n) = 0..(n - 1)
    BY <1>3 DEF LostBits
  <2>5. n < Bits[t]
        => (trailing_zeros(t, x) < n <=> \E b \in LostBits(op, t, n) : Bit(x, b) = 1)
    BY <2>4, RightLoses
  <2>6. n >= Bits[t] <=> ~(n < Bits[t])
    BY <1>1
  <2>. QED
    BY <2>2, <2>3, <2>5, <2>6
<1>4. CASE op = "URSHIFT"
  <2>1. d = URShift(t, x, n)
    BY <1>4 DEF Computed
  <2>2. \A b \in 0..(Bits[t] - 1) : Bit(d.ans, b) = BitFrom(op, t, x, b, n)
    BY <1>4, <2>1, RightBits
  <2>3. d.carry = IF n < Bits[t] THEN trailing_zeros(t, x) < n ELSE TRUE
    BY <2>1 DEF URShift, Result
  <2>4. LostBits(op, t, n) = 0..(n - 1)
    BY <1>4 DEF LostBits
  <2>5. n < Bits[t]
        => (trailing_zeros(t, x) < n <=> \E b \in LostBits(op, t, n) : Bit(x, b) = 1)
    BY <2>4, RightLoses
  <2>6. n >= Bits[t] <=> ~(n < Bits[t])
    BY <1>1
  <2>. QED
    BY <2>2, <2>3, <2>5, <2>6
<1>. QED
  BY <1>2, <1>3, <1>4

(* An instruction that shifts its register. *)
LEMMA ShiftStep ==
    ASSUME AluInv, Next, outcome' = "ok", NEW i, i = Head(todo),
           i.op \in {"LSHIFT", "SRSHIFT", "URSHIFT"}, i.reg # FLAGS,
           NEW x, x = read_from_register(i.reg),
           NEW v, v = read_from_register(i.reg)', NEW k, k = CarryOut'
    PROVE  LET t == i.reg.type
           IN /\ \A b \in 0..(Bits[t] - 1) : Bit(v, b) = BitFrom(i.op, t, x, b, i.y)
              /\ k = 1 <=> i.y >= Bits[t] \/ \E b \in LostBits(i.op, t, i.y) : Bit(x, b) = 1
<1>. DEFINE t == i.reg.type
            d == Computed(i.op, t, x, i.y)
<1>1. /\ i.op \in Chained /\ i.op \notin Divisions /\ i.op \in Shifting
      /\ i.op \in Integer \ FloatOps /\ i.op \notin Conversions
  BY DEF Chained, Plain, Divisions, Shifting, Integer, FloatOps, Conversions
<1>2. t # "Float"
  <2>1. i \in Instruction
    BY Recorded
  <2>. QED
    BY <1>1, <2>1 DEF Instruction
<1>3. /\ t \in IntTypes /\ x \in 0..(Size(t) - 1) /\ i.y \in Operands(i.op, t)
      /\ d.ans \in 0..(Size(t) - 1) /\ d.carry \in BOOLEAN /\ d.overflow \in BOOLEAN
      /\ flags' = make_flags_int(Signed(t, d.ans), d.carry, d.overflow)
      /\ read_from_register(i.reg)' = d.ans
  BY <1>1, <1>2, ChainedStep DEF AluInv
<1>4. i.y \in Nat
  BY <1>1, <1>3 DEF Operands
<1>5. (k = 1 <=> d.carry) /\ v = d.ans
  <2>1. Signed(t, d.ans) \in Int
    <3>. HIDE DEF d
    <3>. QED
      BY <1>3, SignedFacts
  <2>. HIDE DEF d
  <2>2. Has(flags', FLAG_CARRY) <=> d.carry
    BY <1>3, <2>1, FlagsRead
  <2>. QED
    BY <1>3, <2>2 DEF CarryOut, If
<1>6. /\ \A b \in 0..(Bits[t] - 1) : Bit(d.ans, b) = BitFrom(i.op, t, x, b, i.y)
      /\ d.carry <=> i.y >= Bits[t] \/ \E b \in LostBits(i.op, t, i.y) : Bit(x, b) = 1
  BY <1>3, <1>4, ShiftFacts
<1>. HIDE DEF d, t
<1>7. /\ \A b \in 0..(Bits[t] - 1) : Bit(v, b) = BitFrom(i.op, t, x, b, i.y)
      /\ k = 1 <=> i.y >= Bits[t] \/ \E b \in LostBits(i.op, t, i.y) : Bit(x, b) = 1
  BY <1>5, <1>6
<1>. QED
  BY <1>7 DEF t

(* A shift by any distance moves every bit by that distance, and its carry *)
(* tells whether a one was lost, for any width (cpu.rs:1847-1992).         *)
THEOREM ShiftsMove ==
    Spec => []ShiftsByAnyDistance
<1>1. Init => ShiftsByAnyDistance
  <2>1. Init => DOMAIN done = {}
    BY DEF Init
  <2>. QED
    BY <2>1 DEF ShiftsByAnyDistance
<1>2. AluInv /\ ShiftsByAnyDistance /\ [Next]_vars => ShiftsByAnyDistance'
  <2>. SUFFICES ASSUME AluInv, ShiftsByAnyDistance, [Next]_vars PROVE ShiftsByAnyDistance'
    OBVIOUS
  <2>1. CASE UNCHANGED vars
    BY <2>1 DEF vars, ShiftsByAnyDistance, CarryOut, read_from_register
  <2>2. CASE Next
    <3>1. PICK i : i = Head(todo)
      OBVIOUS
    <3>2. PICK x : x = read_from_register(i.reg)
      OBVIOUS
    <3>3. PICK v : v = read_from_register(i.reg)'
      OBVIOUS
    <3>4. PICK k : k = CarryOut'
      OBVIOUS
    <3>5. PICK s : s = done'[Len(done')]
      OBVIOUS
    <3>6. s.op = i.op /\ s.reg = i.reg /\ s.y = i.y /\ s.x = x
      <4>1. done'[Len(done')] = [op |-> i.op, reg |-> i.reg, y |-> i.y, x |-> x, flags |-> flags]
        BY <2>2, <3>1, <3>2, Recorded
      <4>. QED
        BY <3>5, <4>1
    <3>7. v = read_from_register(s.reg)'
      <4>1. s.reg = i.reg
        BY <3>6
      <4>. QED
        BY <3>3, <4>1 DEF read_from_register
    <3>. DEFINE t == s.reg.type
                Moved(w) == \A b \in 0..(Bits[t] - 1) : Bit(w, b) = BitFrom(s.op, t, s.x, b, s.y)
                Lost == s.y >= Bits[t] \/ \E b \in LostBits(s.op, t, s.y) : Bit(s.x, b) = 1
    <3>8. ASSUME outcome' = "ok", s.reg # FLAGS, s.op \in {"LSHIFT", "SRSHIFT", "URSHIFT"}
          PROVE  Moved(v) /\ (k = 1 <=> Lost)
      BY <2>2, <3>1, <3>2, <3>3, <3>4, <3>6, <3>8, ShiftStep
    <3>. QED
      BY <3>4, <3>5, <3>7, <3>8 DEF ShiftsByAnyDistance, read_from_register
  <2>. QED
    BY <2>1, <2>2
<1>. QED
  BY <1>1, <1>2, Inductive, PTL DEF Spec
=============================================================================
