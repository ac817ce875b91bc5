---------------------------- MODULE CycleProofs ----------------------------
(***************************************************************************)
(* Theorems about what a failed cycle leaves behind, for every width of a  *)
(* byte, every layout of physical memory and every page table.             *)
(*                                                                         *)
(* What has to be shown is that the pushes by which IRETURN undoes its     *)
(* pops put back what was there: the bytes of a value read from memory are *)
(* the bytes it was read from (BytesBack), the stack pointer returns, even *)
(* around the end of the address space, so that a push of what was popped  *)
(* is the identity on the machine (PushUndoesPop), whether all of it, some *)
(* of it or nothing could be written.                                      *)
(***************************************************************************)
EXTENDS Cycle, TLAPS

(* A product of two naturals is one, and grows with its factors. *)
LEMMA Products ==
    \A a, b, c \in Nat : /\ a * b \in Nat
                         /\ a <= b => a * c <= b * c
                         /\ a <= b => c * a <= c * b
OBVIOUS

(* Division with remainder. *)
LEMMA Division ==
    ASSUME NEW x \in Nat, NEW b \in Nat, b > 0
    PROVE  /\ x \div b \in Nat /\ x % b \in 0..(b - 1)
           /\ x = b * (x \div b) + (x % b)
OBVIOUS

(* The quotient and the remainder are determined by that. *)
LEMMA DivisionUnique ==
    ASSUME NEW b \in Nat, b > 0, NEW q \in Nat, NEW r \in 0..(b - 1)
    PROVE  (q * b + r) \div b = q /\ (q * b + r) % b = r
<1>. DEFINE x == q * b + r
<1>1. x \in Nat
  BY Products
<1>2. x \div b \in Nat /\ x % b \in 0..(b - 1) /\ x = b * (x \div b) + (x % b)
  BY <1>1, Division
<1>. HIDE DEF x
<1>3. x = q * b + r
  BY DEF x
<1>4. x \div b = q
  <2>. DEFINE d == x \div b
  <2>1. d \in Nat /\ b * d <= q * b + r /\ q * b + r < b * d + b
    BY <1>2, <1>3
  <2>. HIDE DEF d
  <2>2. CASE d < q
    <3>1. b * (d + 1) <= b * q
      BY <2>1, <2>2, Products
    <3>. QED
      BY <2>1, <3>1
  <2>3. CASE d > q
    <3>1. b * (q + 1) <= b * d
      BY <2>1, <2>3, Products
    <3>. QED
      BY <2>1, <3>1
  <2>. QED
    BY <2>1, <2>2, <2>3 DEF d
<1>. QED
  BY <1>2, <1>3, <1>4

(* How many values a half and a word have. *)
LEMMA Ranges ==
    /\ Base \in Nat /\ Base >= 2
    /\ HalfRange \in Nat /\ HalfRange >= 4 /\ HalfRange = Base * Base
    /\ WordRange \in Nat /\ WordRange >= 16 /\ WordRange = HalfRange * HalfRange
    /\ TopBit \in Nat /\ TopBit > 0 /\ HalfRange = 2 * TopBit
<1>1. Base \in Nat /\ Base >= 2
  BY BaseAssumption
<1>2. HalfRange \in Nat /\ HalfRange >= 4
  BY <1>1, Products DEF HalfRange
<1>3. WordRange \in Nat /\ WordRange >= 16
  <2>. HIDE DEF HalfRange
  <2>1. 4 * 4 <= HalfRange * HalfRange
    BY <1>2, Products
  <2>. QED
    BY <1>2, <2>1, Products DEF WordRange
<1>4. TopBit \in Nat /\ TopBit > 0
  <2>. HIDE DEF HalfRange
  <2>. QED
    BY <1>2, BaseAssumption DEF TopBit
<1>. QED
  BY <1>1, <1>2, <1>3, <1>4, BaseAssumption DEF HalfRange, WordRange

(* Addresses wrap around into the address space, and moving forth and back *)
(* ends where it began.                                                    *)
LEMMA Wrapping ==
    /\ \A a \in Address, n \in Nat : Add(a, n) \in Address
    /\ \A a \in Address, n \in 0..4 : Subtract(a, n) \in Address
    /\ \A a \in Address, n \in 0..4 : Subtract(Add(a, n), n) = a
    /\ \A a, p \in Address : /\ Subtract(p, a) \in Address
                              /\ Subtract(p, a) \in Nat
                              /\ Add(a, Subtract(p, a)) = p
<1>. DEFINE W == WordRange
<1>0. W \in Nat /\ W >= 16
  BY Ranges
<1>. HIDE DEF W
<1>1. \A x \in Nat : x % W \in 0..(W - 1)
  BY <1>0
<1>2. \A x \in Nat : (x < W => x % W = x) /\ (x >= W /\ x < 2 * W => x % W = x - W)
  <2>. SUFFICES ASSUME NEW x \in Nat
                PROVE  (x < W => x % W = x) /\ (x >= W /\ x < 2 * W => x % W = x - W)
    OBVIOUS
  <2>1. x < W => x % W = x
    BY <1>0, DivisionUnique
  <2>2. ASSUME x >= W, x < 2 * W PROVE x % W = x - W
    <3>1. x - W \in 0..(W - 1)
      BY <1>0, <2>2
    <3>2. (1 * W + (x - W)) % W = x - W
      BY <1>0, <3>1, DivisionUnique
    <3>. QED
      BY <1>0, <3>2
  <2>. QED
    BY <2>1, <2>2
<1>3. Address = 0..(W - 1)
  BY DEF Address, Word, W
<1>4. \A a, n : Add(a, n) = (a + n) % W /\ Subtract(a, n) = (a + W - n) % W
  BY DEF Add, Subtract, W
<1>5. ASSUME NEW a \in Address, NEW n \in Nat PROVE Add(a, n) \in Address
  <2>1. a + n \in Nat
    BY <1>0, <1>3
  <2>. QED
    BY <2>1, <1>1, <1>3, <1>4
<1>6. ASSUME NEW a \in Address, NEW n \in 0..W PROVE Subtract(a, n) \in Address
  <2>1. a + W - n \in Nat
    BY <1>0, <1>3
  <2>. QED
    BY <2>1, <1>1, <1>3, <1>4
<1>7. ASSUME NEW a \in Address, NEW n \in 0..4 PROVE Subtract(Add(a, n), n) = a
  <2>. DEFINE b == (a + n) % W
  <2>1. a \in 0..(W - 1) /\ a + n \in Nat
    BY <1>0, <1>3
  <2>2. IF a + n < W THEN b = a + n ELSE b = a + n - W
    BY <1>0, <1>2, <2>1
  <2>. HIDE DEF b
  <2>3. b + W - n \in Nat /\ (b + W - n = a + W \/ b + W - n = a)
    BY <1>0, <2>1, <2>2
  <2>4. (b + W - n) % W = a
    BY <1>0, <1>2, <2>1, <2>3
  <2>. QED
    BY <1>4, <2>4 DEF b
<1>8. ASSUME NEW a \in Address, NEW p \in Address PROVE Add(a, Subtract(p, a)) = p
  <2>. DEFINE b == (p + W - a) % W
  <2>1. a \in 0..(W - 1) /\ p \in 0..(W - 1) /\ p + W - a \in Nat
    BY <1>0, <1>3
  <2>2. IF p + W - a < W THEN b = p + W - a ELSE b = p - a
    BY <1>0, <1>2, <2>1
  <2>. HIDE DEF b
  <2>3. a + b \in Nat /\ (a + b = p \/ a + b = p + W)
    BY <1>0, <2>1, <2>2
  <2>4. (a + b) % W = p
    BY <1>0, <1>2, <2>1, <2>3
  <2>. QED
    BY <1>4, <2>4 DEF b
<1>9. \A a \in Address : a \in 0..W /\ a \in Nat
  BY <1>0, <1>3
<1>10. ASSUME NEW a \in Address, NEW n \in 0..4 PROVE Subtract(a, n) \in Address
  <2>1. n \in 0..W
    BY <1>0
  <2>. QED
    BY <2>1, <1>6
<1>11. ASSUME NEW a \in Address, NEW p \in Address PROVE Subtract(p, a) \in Address
  BY <1>6, <1>9
<1>. QED
  BY <1>5, <1>7, <1>8, <1>9, <1>10, <1>11

(* The number of values of one, two and four bytes. *)
LEMMA ValuesFacts ==
    /\ Values(1) = Base /\ Values(2) = HalfRange /\ Values(4) = WordRange
    /\ \A n \in {1, 2, 4} : Values(n) \in Nat /\ Values(n) > 0
BY Ranges DEF Values

-----------------------------------------------------------------------------
(* Two bytes make a half, whose bytes they are. *)
LEMMA HalfBack ==
    ASSUME NEW u \in Byte, NEW l \in Byte
    PROVE  HalfOf(u, l) \in Half /\ HalfOf(u, l) \div Base = u /\ HalfOf(u, l) % Base = l
<1>1. Base \in Nat /\ Base >= 2
  BY Ranges
<1>2. u \in Nat /\ l \in 0..(Base - 1) /\ u + 1 <= Base
  BY <1>1 DEF Byte
<1>3. (u * Base + l) \div Base = u /\ (u * Base + l) % Base = l
  BY <1>1, <1>2, DivisionUnique
<1>4. (u + 1) * Base <= Base * Base
  BY <1>1, <1>2, Products
<1>5. u * Base + l \in 0..(Base * Base - 1)
  BY <1>1, <1>2, <1>4, Products
<1>. QED
  BY <1>3, <1>5 DEF HalfOf, Half, HalfRange

(* A half is made of two bytes. *)
LEMMA HalfBytesType ==
    ASSUME NEW h \in Half
    PROVE  h \div Base \in Byte /\ h % Base \in Byte
<1>1. Base \in Nat /\ Base >= 2 /\ h \in Nat /\ h < Base * Base
  BY Ranges DEF Half
<1>2. h \div Base \in Nat /\ h % Base \in 0..(Base - 1) /\ h = Base * (h \div Base) + (h % Base)
  BY <1>1, Division
<1>. DEFINE q == h \div Base
<1>3. q \in Nat /\ Base * q < Base * Base
  BY <1>1, <1>2
<1>. HIDE DEF q
<1>4. q < Base
  <2>1. Base <= q => Base * Base <= Base * q
    BY <1>1, <1>3, Products
  <2>. QED
    BY <1>1, <1>3, <2>1
<1>5. q \in Byte /\ h % Base \in Byte
  BY <1>1, <1>2, <1>3, <1>4 DEF Byte
<1>. QED
  BY <1>5 DEF q

(* Two halves make a word, whose halves they are. *)
LEMMA WordBack ==
    ASSUME NEW u \in Half, NEW l \in Half
    PROVE  /\ u * HalfRange + l \in Word
           /\ (u * HalfRange + l) \div HalfRange = u
           /\ (u * HalfRange + l) % HalfRange = l
<1>1. HalfRange \in Nat /\ HalfRange >= 4 /\ WordRange = HalfRange * HalfRange
  BY Ranges
<1>2. u \in Nat /\ l \in 0..(HalfRange - 1) /\ u + 1 <= HalfRange
  BY <1>1 DEF Half
<1>3. (u * HalfRange + l) \div HalfRange = u /\ (u * HalfRange + l) % HalfRange = l
  BY <1>1, <1>2, DivisionUnique
<1>4. (u + 1) * HalfRange <= HalfRange * HalfRange
  BY <1>1, <1>2, Products
<1>5. u * HalfRange + l \in 0..(HalfRange * HalfRange - 1)
  BY <1>1, <1>2, <1>4, Products
<1>. QED
  BY <1>1, <1>3, <1>5 DEF Word

(* A word is made of two halves. *)
LEMMA WordHalves ==
    ASSUME NEW w \in Word
    PROVE  w \div HalfRange \in Half /\ w % HalfRange \in Half
<1>. DEFINE H == HalfRange
<1>1. H \in Nat /\ H >= 4 /\ w \in Nat /\ w < H * H
  BY Ranges DEF Word
<1>. HIDE DEF H
<1>2. w \div H \in Nat /\ w % H \in 0..(H - 1) /\ w = H * (w \div H) + (w % H)
  BY <1>1, Division
<1>. DEFINE q == w \div H
<1>3. q \in Nat /\ H * q < H * H
  BY <1>1, <1>2, Products
<1>. HIDE DEF q
<1>4. q < H
  <2>1. H <= q => H * H <= H * q
    BY <1>1, <1>3, Products
  <2>. QED
    BY <1>1, <1>3, <2>1, Products
<1>5. q \in 0..(H - 1) /\ w % H \in 0..(H - 1)
  BY <1>1, <1>2, <1>3, <1>4
<1>. QED
  BY <1>5 DEF Half, H, q

(* A value of n bytes has n bytes. *)
LEMMA BytesType ==
    ASSUME NEW n \in {1, 2, 4}, NEW v \in 0..(Values(n) - 1), NEW k \in 0..(n - 1)
    PROVE  BytesOf(v, n)[k + 1] \in Byte
<1>1. CASE n = 1
  <2>1. k = 0 /\ v \in Byte /\ BytesOf(v, n) = <<v>>
    BY <1>1, ValuesFacts DEF Byte, BytesOf
  <2>. QED
    BY <2>1
<1>2. CASE n = 2
  <2>1. v \in Half /\ BytesOf(v, n) = <<v \div Base, v % Base>>
    BY <1>2, ValuesFacts DEF Half, BytesOf
  <2>. QED
    BY <1>2, <2>1, HalfBytesType
<1>3. CASE n = 4
  <2>. DEFINE u == v \div HalfRange
              l == v % HalfRange
  <2>1. v \in Word /\ BytesOf(v, n) = <<u \div Base, u % Base, l \div Base, l % Base>>
    BY <1>3, ValuesFacts DEF Word, BytesOf
  <2>2. u \in Half /\ l \in Half
    BY <2>1, WordHalves
  <2>. HIDE DEF u, l
  <2>3. /\ u \div Base \in Byte /\ u % Base \in Byte
        /\ l \div Base \in Byte /\ l % Base \in Byte
    BY <2>2, HalfBytesType
  <2>. QED
    BY <1>3, <2>1, <2>3
<1>. QED
  BY <1>1, <1>2, <1>3

(* What is loaded from n bytes is a value of n bytes. *)
LEMMA ValueType ==
    ASSUME NEW mem \in [Address -> Byte], NEW a \in Address, NEW n \in {1, 2, 4}
    PROVE  ValueAt(mem, a, n) \in 0..(Values(n) - 1)
<1>1. /\ mem[a] \in Byte /\ mem[Add(a, 1)] \in Byte
      /\ mem[Add(a, 2)] \in Byte /\ mem[Add(a, 3)] \in Byte
  BY Wrapping
<1>2. /\ HalfOf(mem[a], mem[Add(a, 1)]) \in Half
      /\ HalfOf(mem[Add(a, 2)], mem[Add(a, 3)]) \in Half
  BY <1>1, HalfBack
<1>3. CASE n = 1
  BY <1>1, <1>3, ValuesFacts DEF ValueAt, Byte
<1>4. CASE n = 2
  BY <1>2, <1>4, ValuesFacts DEF ValueAt, Half
<1>5. CASE n = 4
  <2>1. HalfOf(mem[a], mem[Add(a, 1)]) * HalfRange
          + HalfOf(mem[Add(a, 2)], mem[Add(a, 3)]) \in Word
    BY <1>2, WordBack
  <2>. QED
    BY <1>5, <2>1, ValuesFacts DEF ValueAt, Word
<1>. QED
  BY <1>3, <1>4, <1>5

(* The bytes of a value read from memory are the bytes it was read from. *)
LEMMA BytesBack ==
    ASSUME NEW mem \in [Address -> Byte], NEW a \in Address, NEW n \in {2, 4},
           NEW k \in 0..(n - 1)
    PROVE  BytesOf(ValueAt(mem, a, n), n)[k + 1] = mem[Add(a, k)]
<1>. DEFINE b0 == mem[a]
            b1 == mem[Add(a, 1)]
            b2 == mem[Add(a, 2)]
            b3 == mem[Add(a, 3)]
<1>0. Add(a, 0) = a
  <2>1. a \in Nat /\ a \in 0..(WordRange - 1) /\ (0 * WordRange + a) % WordRange = a
    BY Ranges, DivisionUnique DEF Address, Word
  <2>. QED
    BY <2>1, Ranges DEF Add
<1>1. b0 \in Byte /\ b1 \in Byte /\ b2 \in Byte /\ b3 \in Byte
  BY Wrapping
<1>2. CASE n = 2
  <2>1. ValueAt(mem, a, n) = HalfOf(b0, b1)
    BY <1>2 DEF ValueAt
  <2>2. BytesOf(ValueAt(mem, a, n), n) = <<b0, b1>>
    BY <1>1, <1>2, <2>1, HalfBack DEF BytesOf
  <2>. QED
    BY <1>0, <1>2, <2>2
<1>3. CASE n = 4
  <2>. DEFINE u == HalfOf(b0, b1)
              l == HalfOf(b2, b3)
              w == u * HalfRange + l
  <2>1. ValueAt(mem, a, n) = w
    BY <1>3 DEF ValueAt
  <2>2. /\ u \in Half /\ l \in Half
        /\ u \div Base = b0 /\ u % Base = b1
        /\ l \div Base = b2 /\ l % Base = b3
    BY <1>1, HalfBack
  <2>3. w \div HalfRange = u /\ w % HalfRange = l
    BY <2>2, WordBack
  <2>. HIDE DEF w, u, l, b0, b1, b2, b3
  <2>4. BytesOf(w, n) = <<b0, b1, b2, b3>>
    BY <1>3, <2>2, <2>3 DEF BytesOf
  <2>. USE DEF b0, b1, b2, b3
  <2>. QED
    BY <1>0, <1>3, <2>1, <2>4
<1>. QED
  BY <1>2, <1>3

-----------------------------------------------------------------------------
(* The values a register holds, by its width. *)
LEMMA WidthFacts ==
    \A ref \in Destinations : Width(ref) \in {1, 2, 4}
BY DEF Destinations, Sources, Width

(* Moving the stack pointer gives a machine, and the other fields stay. *)
LEMMA StackPointerType ==
    ASSUME NEW m \in Machine
    PROVE  /\ StackPointer(m) \in Address
           /\ \A a \in Address : /\ WithStackPointer(m, a) \in Machine
                                 /\ StackPointer(WithStackPointer(m, a)) = a
                                 /\ WithStackPointer(m, a).mem = m.mem
                                 /\ WithStackPointer(m, a).kernel_mode = m.kernel_mode
BY DEF StackPointer, WithStackPointer, Machine, Address

(* A store leaves a machine. *)
LEMMA StoredType ==
    ASSUME NEW m \in Machine, NEW a \in Address, NEW n \in {1, 2, 4},
           NEW v \in 0..(Values(n) - 1)
    PROVE  /\ Stored(m, a, v, n).machine \in Machine
           /\ Stored(m, a, v, n).end \in {"ok", "TryAgainError"}
<1>. DEFINE Written(p) == LET k == Subtract(p, a)
                          IN  IF k < n /\ MayAll(m, a, k + 1, "W")
                                THEN BytesOf(v, n)[k + 1] ELSE m.mem[p]
            new == [p \in Address |-> Written(p)]
<1>1. Stored(m, a, v, n).machine = [m EXCEPT !.mem = new]
  BY DEF Stored, Result
<1>2. \A p \in Address : Written(p) \in Byte
  <2>. SUFFICES ASSUME NEW p \in Address PROVE Written(p) \in Byte
    OBVIOUS
  <2>1. m.mem[p] \in Byte
    BY DEF Machine
  <2>2. Subtract(p, a) \in Nat
    BY Wrapping
  <2>3. ASSUME Subtract(p, a) < n PROVE BytesOf(v, n)[Subtract(p, a) + 1] \in Byte
    <3>1. Subtract(p, a) \in 0..(n - 1)
      BY <2>2, <2>3
    <3>. QED
      BY <3>1, BytesType
  <2>. QED
    BY <2>1, <2>3
<1>3. new \in [Address -> Byte]
  BY <1>2
<1>. HIDE DEF new
<1>4. [m EXCEPT !.mem = new] \in Machine /\ [m EXCEPT !.mem = new].mem = new
  BY <1>3 DEF Machine
<1>5. Stored(m, a, v, n).end \in {"ok", "TryAgainError"}
  BY DEF Stored, Result
<1>. QED
  BY <1>1, <1>4, <1>5

(* A store changes nothing but memory. *)
LEMMA StoredOnlyMemory ==
    ASSUME NEW m \in Machine, NEW a, NEW n, NEW v
    PROVE  Stored(m, a, v, n).machine = [m EXCEPT !.mem = Stored(m, a, v, n).machine.mem]
<1>. PICK new : Stored(m, a, v, n).machine = [m EXCEPT !.mem = new]
  BY DEF Stored, Result
<1>. QED
  BY DEF Machine

(* A push leaves a machine. *)
LEMMA PushedType ==
    ASSUME NEW m \in Machine, NEW n \in {1, 2, 4}, NEW v \in 0..(Values(n) - 1)
    PROVE  /\ Pushed(m, v, n).machine \in Machine
           /\ Pushed(m, v, n).end \in {"ok", "TryAgainError"}
<1>. DEFINE sp == Subtract(StackPointer(m), n)
<1>1. sp \in Address
  <2>1. n \in 0..4
    OBVIOUS
  <2>. QED
    BY <2>1, StackPointerType, Wrapping
<1>. HIDE DEF sp
<1>. DEFINE m2 == WithStackPointer(m, sp)
<1>2. m2 \in Machine
  BY <1>1, StackPointerType
<1>3. Pushed(m, v, n) = Stored(m2, sp, v, n)
  BY DEF Pushed, sp
<1>. HIDE DEF m2
<1>4. Stored(m2, sp, v, n).machine \in Machine /\ Stored(m2, sp, v, n).end \in {"ok", "TryAgainError"}
  BY <1>1, <1>2, StoredType
<1>. QED
  BY <1>3, <1>4

(* What a pop takes is a value, and the machine stays one. *)
LEMMA PoppedType ==
    ASSUME NEW m \in Machine, NEW n \in {1, 2, 4}
    PROVE  /\ Popped(m, n) \in Machine
           /\ Top(m, n) \in 0..(Values(n) - 1)
           /\ Popped(m, n).kernel_mode = m.kernel_mode
<1>1. StackPointer(m) \in Address /\ Add(StackPointer(m), n) \in Address
  BY StackPointerType, Wrapping
<1>2. m.mem \in [Address -> Byte]
  BY DEF Machine
<1>. QED
  BY <1>1, <1>2, StackPointerType, ValueType DEF Popped, Top

(* Pushing what was popped leaves the machine as it was before the pop,    *)
(* whatever memory may be written.                                         *)
LEMMA PushUndoesPop ==
    ASSUME NEW m \in Machine, NEW n \in {2, 4}
    PROVE  Pushed(Popped(m, n), Top(m, n), n).machine = m
<1>. DEFINE sp == StackPointer(m)
            popped == Popped(m, n)
            v == Top(m, n)
<1>1. sp \in Address /\ Add(sp, n) \in Address
  BY StackPointerType, Wrapping
<1>2. popped = WithStackPointer(m, Add(sp, n))
  BY DEF Popped
<1>3. Subtract(StackPointer(popped), n) = sp
  <2>1. StackPointer(popped) = Add(sp, n) /\ n \in 0..4
    BY <1>1, <1>2, StackPointerType
  <2>. HIDE DEF sp, popped
  <2>. QED
    BY <1>1, <2>1, Wrapping
<1>4. WithStackPointer(popped, sp) = m
  BY <1>1 DEF Popped, WithStackPointer, StackPointer, Machine
<1>5. Pushed(popped, v, n) = Stored(m, sp, v, n)
  BY <1>3, <1>4 DEF Pushed
<1>6. m.mem \in [Address -> Byte] /\ v = ValueAt(m.mem, sp, n)
  BY DEF Machine, Top
<1>. HIDE DEF sp, popped, v
<1>7. ASSUME NEW p \in Address
      PROVE  (LET k == Subtract(p, sp)
              IN  IF k < n /\ MayAll(m, sp, k + 1, "W") THEN BytesOf(v, n)[k + 1] ELSE m.mem[p])
               = m.mem[p]
  <2>. DEFINE k == Subtract(p, sp)
  <2>1. k \in Nat /\ Add(sp, k) = p
    BY <1>1, Wrapping
  <2>. HIDE DEF k
  <2>2. CASE k < n
    <3>1. k \in 0..(n - 1)
      BY <2>1, <2>2
    <3>2. BytesOf(v, n)[k + 1] = m.mem[p]
      BY <1>1, <1>6, <2>1, <3>1, BytesBack
    <3>. QED
      BY <3>2 DEF k
  <2>. QED
    BY <2>2 DEF k
<1>8. [p \in Address |->
         LET k == Subtract(p, sp)
         IN  IF k < n /\ MayAll(m, sp, k + 1, "W") THEN BytesOf(v, n)[k + 1] ELSE m.mem[p]]
        = m.mem
  BY <1>6, <1>7
<1>9. Stored(m, sp, v, n).machine = [m EXCEPT !.mem = m.mem]
  BY <1>8 DEF Stored, Result
<1>10. [m EXCEPT !.mem = m.mem] = m
  BY DEF Machine
<1>. QED
  BY <1>5, <1>9, <1>10 DEF popped, v

(* An IRETURN that fails, and did not panic, leaves the machine as it was. *)
LEMMA IReturnUndone ==
    ASSUME NEW m \in Machine, IReturned(m).end = "TryAgainError"
    PROVE  IReturned(m).machine = m
<1>. DEFINE popped1 == Popped(m, 2)
            popped2 == Popped(popped1, 4)
            imr == Top(m, 2)
            pc == Top(popped1, 4)
            flags == Top(popped2, 2)
            returned == [Popped(popped2, 2) EXCEPT
                           !.imr = imr, !.program_counter = pc, !.flags = flags % TopBit,
                           !.kernel_mode = flags >= TopBit]
<1>1. popped1 \in Machine
  BY PoppedType
<1>2. Pushed(popped1, imr, 2).machine = m
  BY PushUndoesPop
<1>3. Pushed(popped2, pc, 4).machine = popped1
  BY <1>1, PushUndoesPop
<1>4. IReturned(m) = IF ~m.kernel_mode \/ ~MayPop(m, 2) THEN Failed(m)
                     ELSE IF ~MayPop(popped1, 4) THEN PutBack(popped1, imr)
                     ELSE IF ~MayPop(popped2, 2) THEN PutBothBack(popped2, imr, pc)
                     ELSE Done(returned)
  BY DEF IReturned
<1>. HIDE DEF popped1, popped2, imr, pc, flags, returned
<1>5. Failed(m).machine = m /\ Done(returned).end = "ok"
  BY DEF Failed, Done, Result
<1>6. PutBack(popped1, imr).machine = m
  BY <1>2 DEF PutBack, Undone, Result
<1>7. PutBothBack(popped2, imr, pc).end = "TryAgainError" => PutBothBack(popped2, imr, pc).machine = m
  <2>1. Undone(Pushed(popped2, pc, 4)).machine = popped1
    BY <1>3 DEF Undone, Result
  <2>. QED
    BY <1>6, <2>1 DEF PutBothBack
<1>. QED
  BY <1>4, <1>5, <1>6, <1>7

-----------------------------------------------------------------------------
(* Results of instructions on machines. *)
Results == [machine : Machine, end : Outcomes]

(* The endings of an instruction are results. *)
LEMMA ResultTypes ==
    ASSUME NEW m \in Machine
    PROVE  /\ Done(m) \in Results /\ Failed(m) \in Results
           /\ \A end \in Outcomes : Result(m, end) \in Results
BY DEF Done, Failed, Result, Results, Outcomes

(* So are those of a store and of a push. *)
LEMMA StoreResults ==
    ASSUME NEW m \in Machine, NEW n \in {1, 2, 4}, NEW v \in 0..(Values(n) - 1)
    PROVE  /\ \A a \in Address : Stored(m, a, v, n) \in Results
           /\ Pushed(m, v, n) \in Results
<1>1. \A a \in Address : Stored(m, a, v, n) \in Results
  <2>. SUFFICES ASSUME NEW a \in Address PROVE Stored(m, a, v, n) \in Results
    OBVIOUS
  <2>1. Stored(m, a, v, n) = Result(Stored(m, a, v, n).machine, Stored(m, a, v, n).end)
    BY DEF Stored, Result
  <2>2. Stored(m, a, v, n).machine \in Machine /\ Stored(m, a, v, n).end \in Outcomes
    BY StoredType DEF Outcomes
  <2>. QED
    BY <2>1, <2>2, ResultTypes
<1>2. Pushed(m, v, n) \in Results
  <2>1. Pushed(m, v, n) = Result(Pushed(m, v, n).machine, Pushed(m, v, n).end)
    BY DEF Pushed, Stored, Result
  <2>2. Pushed(m, v, n).machine \in Machine /\ Pushed(m, v, n).end \in Outcomes
    BY PushedType DEF Outcomes
  <2>. QED
    BY <2>1, <2>2, ResultTypes
<1>. QED
  BY <1>1, <1>2

(* Replacing the lower part of a word leaves a word. *)
LEMMA LowerPart ==
    ASSUME NEW b \in {Base, HalfRange}, NEW w \in Word, NEW v \in 0..(b - 1)
    PROVE  w - (w % b) + v \in Word
<1>1. PICK c \in Nat : b \in Nat /\ b > 0 /\ WordRange = b * c
  <2>1. CASE b = HalfRange
    BY <2>1, Ranges
  <2>2. CASE b = Base
    <3>. DEFINE c == Base * HalfRange
    <3>1. Base \in Nat /\ Base > 0 /\ HalfRange \in Nat
      BY Ranges
    <3>2. WordRange = (Base * Base) * HalfRange
      BY Ranges
    <3>3. (Base * Base) * HalfRange = Base * c
      BY <3>1
    <3>4. c \in Nat
      BY <3>1, Products
    <3>. HIDE DEF c
    <3>. QED
      BY <2>2, <3>1, <3>2, <3>3, <3>4
  <2>. QED
    BY <2>1, <2>2
<1>. DEFINE q == w \div b
            r == w % b
            W == WordRange
<1>2. w \in Nat /\ w < W /\ W \in Nat
  BY Ranges DEF Word
<1>3. q \in Nat /\ r \in 0..(b - 1) /\ w = b * q + r
  BY <1>1, <1>2, Division
<1>. HIDE DEF q, r, W
<1>4. q < c
  <2>1. c <= q => b * c <= b * q
    BY <1>1, <1>3, Products
  <2>2. b * q < b * c
    BY <1>1, <1>2, <1>3, Products DEF W
  <2>. QED
    BY <1>1, <1>3, <2>1, <2>2, Products
<1>5. b * (q + 1) <= W
  BY <1>1, <1>3, <1>4, Products DEF W
<1>6. b * (q + 1) = b * q + b /\ b * q \in Nat
  BY <1>1, <1>3, Products
<1>7. w - r + v \in 0..(W - 1)
  BY <1>1, <1>2, <1>3, <1>5, <1>6
<1>. QED
  BY <1>7 DEF Word, W, r

(* What is read from a register has the register's width. *)
LEMMA ReadType ==
    ASSUME NEW m \in Machine, NEW ref \in Sources
    PROVE  ReadFrom(m, ref) \in 0..(Values(Width(ref)) - 1)
<1>1. m.r0 \in Word /\ m.uspr \in Word /\ m.kspr \in Word /\ m.imr \in Half /\ m.flags \in 0..(TopBit - 1)
  BY DEF Machine
<1>2. m.r0 % HalfRange \in 0..(HalfRange - 1) /\ m.r0 % Base \in 0..(Base - 1)
  BY <1>1, Ranges, Division DEF Word
<1>3. m.flags \in 0..(HalfRange - 1)
  BY <1>1, Ranges
<1>4. CASE ref \in {"r0", "USPR", "KSPR"}
  <2>1. Values(Width(ref)) = WordRange
    BY <1>4, ValuesFacts DEF Width
  <2>. QED
    BY <1>1, <1>4, <2>1 DEF ReadFrom, Word
<1>5. CASE ref \in {"r0h", "FLAGS", "IMR"}
  <2>1. Values(Width(ref)) = HalfRange
    BY <1>5, ValuesFacts DEF Width
  <2>. QED
    BY <1>1, <1>2, <1>3, <1>5, <2>1 DEF ReadFrom, Half
<1>6. CASE ref = "r0b"
  <2>1. Values(Width(ref)) = Base
    BY <1>6, ValuesFacts DEF Width
  <2>. QED
    BY <1>2, <1>6, <2>1 DEF ReadFrom
<1>. QED
  BY <1>4, <1>5, <1>6 DEF Sources

(* Writing a value of its width to a register leaves a machine. *)
LEMMA WrittenType ==
    ASSUME NEW m \in Machine, NEW ref \in Sources, NEW v \in 0..(Values(Width(ref)) - 1)
    PROVE  WrittenTo(m, ref, v) \in Machine
<1>1. CASE ref \in {"r0", "USPR", "KSPR"}
  <2>1. v \in Word
    BY <1>1, ValuesFacts DEF Width, Word
  <2>. QED
    BY <1>1, <2>1 DEF WrittenTo, Machine
<1>2. CASE ref = "IMR"
  <2>1. v \in Half
    BY <1>2, ValuesFacts DEF Width, Half
  <2>. QED
    BY <1>2, <2>1 DEF WrittenTo, Machine
<1>3. CASE ref = "FLAGS"
  <2>1. v \in Nat
    BY <1>3, ValuesFacts, Ranges DEF Width
  <2>2. v % TopBit \in 0..(TopBit - 1)
    BY <2>1, Ranges, Division
  <2>. QED
    BY <1>3, <2>2 DEF WrittenTo, Machine
<1>4. CASE ref \in {"r0h", "r0b"}
  <2>. DEFINE b == Values(Width(ref))
  <2>1. b \in {Base, HalfRange} /\ b = (IF ref = "r0h" THEN HalfRange ELSE Base)
    BY <1>4, ValuesFacts DEF Width
  <2>2. m.r0 \in Word
    BY DEF Machine
  <2>3. m.r0 - (m.r0 % b) + v \in Word
    BY <2>1, <2>2, LowerPart
  <2>. HIDE DEF b
  <2>4. WrittenTo(m, ref, v) = [m EXCEPT !.r0 = m.r0 - (m.r0 % b) + v]
    BY <1>4, <2>1 DEF WrittenTo
  <2>. DEFINE w == m.r0 - (m.r0 % b) + v
  <2>. HIDE DEF w
  <2>5. [m EXCEPT !.r0 = w] \in Machine
    BY <2>3 DEF Machine, w
  <2>. QED
    BY <2>4, <2>5 DEF w
<1>. QED
  BY <1>1, <1>2, <1>3, <1>4 DEF Sources

(* And a register that refuses the value leaves the machine. *)
LEMMA WriteRegisterType ==
    ASSUME NEW m \in Machine, NEW ref \in Destinations, NEW v \in 0..(Values(Width(ref)) - 1)
    PROVE  WriteRegister(m, ref, v) \in Results
BY WrittenType, ResultTypes DEF WriteRegister, MayWrite, Destinations

-----------------------------------------------------------------------------
(* Jumping leaves a machine. *)
LEMMA JumpType ==
    ASSUME NEW m \in Machine, NEW a \in Word
    PROVE  [m EXCEPT !.program_counter = a] \in Machine
BY DEF Machine

(* Every instruction that reads or writes memory or the stack ends with a  *)
(* result.                                                                 *)
LEMMA MemoryResults ==
    ASSUME NEW m \in Machine, NEW a \in Address
    PROVE  /\ \A ref \in Destinations : Loaded(m, ref, a) \in Results
           /\ \A ref \in Sources : StoredFrom(m, ref, a) \in Results
           /\ \A ref \in Sources : Swapped(m, ref, a) \in Results
<1>1. m.mem \in [Address -> Byte]
  BY DEF Machine
<1>2. ASSUME NEW ref \in Destinations PROVE Loaded(m, ref, a) \in Results
  <2>1. ValueAt(m.mem, a, Width(ref)) \in 0..(Values(Width(ref)) - 1)
    BY <1>1, WidthFacts, ValueType
  <2>. QED
    BY <2>1, WriteRegisterType, ResultTypes DEF Loaded
<1>3. ASSUME NEW ref \in Sources PROVE StoredFrom(m, ref, a) \in Results
  <2>1. Width(ref) \in {1, 2, 4}
    BY WidthFacts DEF Destinations
  <2>2. Stored(m, a, ReadFrom(m, ref), Width(ref)) \in Results
    BY <2>1, ReadType, StoreResults
  <2>. QED
    BY <2>2, ResultTypes DEF StoredFrom
<1>4. ASSUME NEW ref \in Sources PROVE Swapped(m, ref, a) \in Results
  <2>. DEFINE n == Width(ref)
              v == ReadFrom(m, ref)
              m2 == WrittenTo(m, ref, ValueAt(m.mem, a, n))
  <2>1. n \in {1, 2, 4}
    BY WidthFacts DEF Destinations
  <2>2. m2 \in Machine /\ v \in 0..(Values(n) - 1)
    BY <1>1, <2>1, ValueType, WrittenType, ReadType
  <2>3. Swapped(m, ref, a) \in {Stored(m2, a, v, n), Failed(m)}
    BY DEF Swapped
  <2>. HIDE DEF n, v, m2
  <2>4. Stored(m2, a, v, n) \in Results
    BY <2>1, <2>2, StoreResults
  <2>. QED
    BY <2>3, <2>4, ResultTypes
<1>. QED
  BY <1>2, <1>3, <1>4

(* The same for PUSH, POP, CALL and RETURN. *)
LEMMA StackResults ==
    ASSUME NEW m \in Machine
    PROVE  /\ \A ref \in Sources : PushedFrom(m, ref) \in Results
           /\ \A ref \in Destinations : PoppedTo(m, ref) \in Results
           /\ \A a \in Address : Called(m, a) \in Results
           /\ Returned(m) \in Results
<1>1. Values(4) = WordRange
  BY ValuesFacts
<1>2. ASSUME NEW ref \in Sources PROVE PushedFrom(m, ref) \in Results
  <2>1. Width(ref) \in {1, 2, 4}
    BY WidthFacts DEF Destinations
  <2>. QED
    BY <2>1, ReadType, StoreResults, ResultTypes DEF PushedFrom
<1>3. ASSUME NEW ref \in Destinations PROVE PoppedTo(m, ref) \in Results
  <2>1. Width(ref) \in {1, 2, 4}
    BY WidthFacts
  <2>. QED
    BY <2>1, PoppedType, WriteRegisterType, ResultTypes DEF PoppedTo
<1>4. ASSUME NEW a \in Address PROVE Called(m, a) \in Results
  <2>. DEFINE pushed == Pushed(m, m.program_counter, 4)
  <2>1. m.program_counter \in 0..(Values(4) - 1)
    BY <1>1 DEF Machine, Word
  <2>2. pushed \in Results
    BY <2>1, StoreResults
  <2>. HIDE DEF pushed
  <2>3. pushed.machine \in Machine
    BY <2>2 DEF Results
  <2>4. Done([pushed.machine EXCEPT !.program_counter = a]) \in Results
    BY <2>3, JumpType, ResultTypes DEF Address
  <2>5. Called(m, a) \in {Done([pushed.machine EXCEPT !.program_counter = a]), pushed}
    BY DEF Called, pushed
  <2>. QED
    BY <2>2, <2>4, <2>5
<1>5. Returned(m) \in Results
  <2>1. Popped(m, 4) \in Machine /\ Top(m, 4) \in Word
    BY <1>1, PoppedType DEF Word
  <2>. QED
    BY <2>1, JumpType, ResultTypes DEF Returned
<1>. QED
  BY <1>2, <1>3, <1>4, <1>5

(* And for USERMODE and IRETURN. *)
LEMMA ModeResults ==
    ASSUME NEW m \in Machine
    PROVE  EnteredUserMode(m) \in Results /\ IReturned(m) \in Results
<1>0. Values(4) = WordRange /\ Values(2) = HalfRange
  BY ValuesFacts
<1>1. EnteredUserMode(m) \in Results
  <2>. DEFINE popped == Popped(m, 4)
              pc == Top(m, 4)
              entered == [popped EXCEPT !.program_counter = pc, !.flags = 0, !.kernel_mode = FALSE]
  <2>1. popped \in Machine /\ pc \in Word /\ 0 \in 0..(TopBit - 1)
    BY <1>0, PoppedType, Ranges DEF Word
  <2>2. EnteredUserMode(m) \in {Done(entered), Failed(m)}
    BY DEF EnteredUserMode
  <2>. HIDE DEF popped, pc
  <2>3. entered \in Machine
    BY <2>1 DEF Machine
  <2>. QED
    BY <2>2, <2>3, ResultTypes
<1>2. IReturned(m) \in Results
  <2>. DEFINE popped1 == Popped(m, 2)
              popped2 == Popped(popped1, 4)
              popped3 == Popped(popped2, 2)
              imr == Top(m, 2)
              pc == Top(popped1, 4)
              flags == Top(popped2, 2)
              returned == [popped3 EXCEPT
                             !.imr = imr, !.program_counter = pc, !.flags = flags % TopBit,
                             !.kernel_mode = flags >= TopBit]
  <2>1. popped1 \in Machine /\ imr \in 0..(Values(2) - 1)
    BY PoppedType
  <2>2. popped2 \in Machine /\ pc \in 0..(Values(4) - 1)
    BY <2>1, PoppedType
  <2>3. popped3 \in Machine /\ flags \in 0..(Values(2) - 1)
    BY <2>2, PoppedType
  <2>4. IReturned(m) \in {Failed(m), PutBack(popped1, imr), PutBothBack(popped2, imr, pc), Done(returned)}
    BY DEF IReturned
  <2>. HIDE DEF popped1, popped2, popped3, imr, pc, flags
  <2>5. flags % TopBit \in 0..(TopBit - 1) /\ (flags >= TopBit) \in BOOLEAN
    <3>1. flags \in Nat
      BY <1>0, <2>3, Ranges
    <3>. QED
      BY <3>1, Ranges, Division
  <2>6. returned \in Machine
    <3>1. imr \in Half /\ pc \in Word
      BY <1>0, <2>1, <2>2 DEF Half, Word
    <3>. QED
      BY <2>3, <2>5, <3>1 DEF Machine
  <2>. HIDE DEF returned
  <2>7. ASSUME NEW p \in Results PROVE Undone(p) \in Results
    BY ResultTypes DEF Undone, Results, Outcomes
  <2>8. ASSUME NEW p \in Machine PROVE PutBack(p, imr) \in Results
    BY <2>1, <2>7, StoreResults DEF PutBack
  <2>9. PutBothBack(popped2, imr, pc) \in Results
    <3>1. Undone(Pushed(popped2, pc, 4)) \in Results
      BY <2>2, <2>7, StoreResults
    <3>2. Undone(Pushed(popped2, pc, 4)).machine \in Machine
      BY <3>1 DEF Results
    <3>. QED
      BY <2>8, <3>1, <3>2 DEF PutBothBack
  <2>. QED
    BY <2>1, <2>4, <2>6, <2>8, <2>9, ResultTypes
<1>. QED
  BY <1>1, <1>2

-----------------------------------------------------------------------------
(* Fetching and rewinding leave machines. *)
LEMMA FetchType ==
    ASSUME TypeOK, NEW n \in Nat
    PROVE  Fetched(n) \in Machine /\ Fetched(n).kernel_mode = machine.kernel_mode
<1>1. machine \in Machine /\ machine.program_counter \in Address
  BY DEF TypeOK, Machine, Address
<1>2. Add(machine.program_counter, n) \in Address
  BY <1>1, Wrapping
<1>. QED
  BY <1>1, <1>2 DEF Fetched, Machine, Address

(* A cycle that ends with a result keeps the types. *)
LEMMA EndsType ==
    ASSUME TypeOK, NEW op \in Ops, NEW ref \in Destinations \cup {"none"}, NEW n \in Nat,
           NEW result \in Results, Ends(op, ref, n, result)
    PROVE  TypeOK'
<1>1. rewind' \in Address /\ rewind' = Add(rewind, n)
  BY Wrapping DEF Ends, TypeOK, Address
<1>2. result.machine \in Machine /\ result.end \in Outcomes
  BY DEF Results
<1>3. Rewound(result.machine, Add(rewind, n)) \in Machine
  <2>1. result.machine.program_counter \in Address
    BY <1>2 DEF Machine, Address
  <2>2. Subtract(result.machine.program_counter, Add(rewind, n)) \in Word
    BY <1>1, <2>1, Wrapping DEF Address
  <2>. QED
    BY <1>2, <2>2, JumpType DEF Rewound
<1>4. machine' \in Machine
  BY <1>2, <1>3 DEF Ends
<1>5. ins' \in [op : Ops, ref : Destinations \cup {"none"}] /\ outcome' \in Outcomes
      /\ cycles' \in Nat /\ pages' = pages
  BY <1>2 DEF Ends, TypeOK
<1>. QED
  BY <1>1, <1>4, <1>5 DEF TypeOK, Address

(* The value of a copy fits the register. *)
LEMMA FitType ==
    \A value \in Word, ref \in Destinations : Fit(value, ref) \in 0..(Values(Width(ref)) - 1)
<1>. SUFFICES ASSUME NEW value \in Word, NEW ref \in Destinations
              PROVE  Fit(value, ref) \in 0..(Values(Width(ref)) - 1)
  OBVIOUS
<1>1. value \in Nat /\ Values(Width(ref)) \in Nat /\ Values(Width(ref)) > 0
  BY WidthFacts, ValuesFacts, Ranges DEF Word
<1>. QED
  BY <1>1, Division DEF Fit

(* Every step preserves the types. *)
LEMMA NextType == TypeOK /\ [Next]_vars => TypeOK'
<1>. SUFFICES ASSUME TypeOK, [Next]_vars PROVE TypeOK'
  OBVIOUS
<1>0. /\ Operands \subseteq Word /\ Operands \subseteq Address
      /\ Lengths \subseteq Nat /\ {0} \cup Lengths \subseteq Nat /\ 1 \in Nat /\ 2 \in Nat
      /\ \A f \in 0..(TopBit - 1), m \in Machine : [m EXCEPT !.flags = f] \in Machine
      /\ {"FETCH", "OTHER", "LOAD", "STORE", "SWAP", "PUSH", "POP", "CALL",
          "RETURN", "USERMODE", "IRETURN"} \subseteq Ops
  BY OperandsAssumption DEF Address, Ops, Machine
<1>. DEFINE Refs == Destinations \cup {"none"}
<1>01. Sources \subseteq Refs /\ Destinations \subseteq Refs /\ "none" \in Refs
  BY DEF Destinations
<1>02. \A n \in Nat : Fetched(n) \in Machine
  BY FetchType
<1>. HIDE DEF Refs
<1>03. ASSUME NEW op \in Ops, NEW ref \in Refs, NEW n \in Nat, NEW result \in Results,
              Ends(op, ref, n, result)
       PROVE  TypeOK'
  BY <1>03, EndsType DEF Refs
<1>1. ASSUME NEW n \in {0} \cup Lengths, NEW size \in {1, 2, 4}, FetchFault(n, size) PROVE TypeOK'
  <2>1. n \in Nat
    BY <1>0
  <2>2. Failed(Fetched(n)) \in Results /\ Ends("FETCH", "none", n, Failed(Fetched(n)))
    BY <1>02, <1>1, <2>1, ResultTypes DEF FetchFault
  <2>. QED
    BY <1>0, <1>01, <1>03, <2>1, <2>2
<1>2. ASSUME NEW n \in Lengths, NEW value \in Operands, NEW ref \in Destinations, Copy(n, ref, value)
      PROVE  TypeOK'
  <2>1. n \in Nat /\ value \in Word
    BY <1>0
  <2>2. WriteRegister(Fetched(n), ref, Fit(value, ref)) \in Results
    BY <1>02, <2>1, FitType, WriteRegisterType
  <2>. QED
    BY <1>0, <1>01, <1>03, <1>2, <2>1, <2>2 DEF Copy
<1>3. ASSUME NEW n \in Lengths, NEW value \in Operands, NEW ref \in Destinations,
             NEW flags \in 0..(TopBit - 1), Arithmetic(n, ref, value, flags)
      PROVE  TypeOK'
  <2>1. n \in Nat /\ value \in Word /\ ref \in Sources
    BY <1>0, <1>3 DEF Arithmetic, MayWrite, Destinations
  <2>. DEFINE m == WrittenTo(Fetched(n), ref, Fit(value, ref))
  <2>2. m \in Machine
    BY <1>02, <2>1, FitType, WrittenType
  <2>. HIDE DEF m
  <2>3. Done([m EXCEPT !.flags = flags]) \in Results
    BY <1>0, <2>2, ResultTypes
  <2>4. Ends("OTHER", ref, n, Done([m EXCEPT !.flags = flags]))
    BY <1>3 DEF Arithmetic, m
  <2>. QED
    BY <1>0, <1>01, <1>03, <2>1, <2>3, <2>4
<1>4. ASSUME NEW n \in Lengths, NEW value \in Operands, Jump(n, value) PROVE TypeOK'
  <2>1. n \in Nat /\ value \in Word
    BY <1>0
  <2>2. Done([Fetched(n) EXCEPT !.program_counter = value]) \in Results
    BY <1>02, <2>1, JumpType, ResultTypes
  <2>. QED
    BY <1>0, <1>01, <1>03, <1>4, <2>1, <2>2 DEF Jump
<1>5. ASSUME NEW n \in Lengths, OtherFails(n) PROVE TypeOK'
  <2>1. n \in Nat
    BY <1>0
  <2>2. Failed(Fetched(n)) \in Results
    BY <1>02, <2>1, ResultTypes
  <2>. QED
    BY <1>0, <1>01, <1>03, <1>5, <2>1, <2>2 DEF OtherFails
<1>6. ASSUME NEW n \in Lengths, NEW flags \in 0..(TopBit - 1), Compare(n, flags) PROVE TypeOK'
  <2>1. n \in Nat
    BY <1>0
  <2>2. Done([Fetched(n) EXCEPT !.flags = flags]) \in Results
    BY <1>0, <1>02, <2>1, ResultTypes
  <2>. QED
    BY <1>0, <1>01, <1>03, <1>6, <2>1, <2>2 DEF Compare
<1>7. ASSUME NEW n \in Lengths, NEW a \in Operands, NEW ref \in Destinations, Load(n, ref, a)
      PROVE  TypeOK'
  <2>1. n \in Nat /\ Loaded(Fetched(n), ref, a) \in Results
    BY <1>0, <1>02, MemoryResults
  <2>. QED
    BY <1>0, <1>01, <1>03, <1>7, <2>1 DEF Load
<1>8. ASSUME NEW n \in Lengths, NEW a \in Operands, NEW ref \in Sources, Store(n, ref, a)
      PROVE  TypeOK'
  <2>1. n \in Nat /\ StoredFrom(Fetched(n), ref, a) \in Results
    BY <1>0, <1>02, MemoryResults
  <2>. QED
    BY <1>0, <1>01, <1>03, <1>8, <2>1 DEF Store
<1>9. ASSUME NEW n \in Lengths, NEW a \in Operands, NEW ref \in Sources, Swap(n, ref, a)
      PROVE  TypeOK'
  <2>1. n \in Nat /\ Swapped(Fetched(n), ref, a) \in Results
    BY <1>0, <1>02, MemoryResults
  <2>. QED
    BY <1>0, <1>01, <1>03, <1>9, <2>1 DEF Swap
<1>10. ASSUME NEW n \in Lengths, NEW a \in Operands, Call(n, a) PROVE TypeOK'
  <2>1. n \in Nat /\ Called(Fetched(n), a) \in Results
    BY <1>0, <1>02, StackResults
  <2>. QED
    BY <1>0, <1>01, <1>03, <1>10, <2>1 DEF Call
<1>11. ASSUME NEW ref \in Sources, Push(ref) PROVE TypeOK'
  <2>1. PushedFrom(Fetched(2), ref) \in Results
    BY <1>0, <1>02, StackResults
  <2>. QED
    BY <1>0, <1>01, <1>03, <1>11, <2>1 DEF Push
<1>12. ASSUME NEW ref \in Destinations, Pop(ref) PROVE TypeOK'
  <2>1. PoppedTo(Fetched(2), ref) \in Results
    BY <1>0, <1>02, StackResults
  <2>. QED
    BY <1>0, <1>01, <1>03, <1>12, <2>1 DEF Pop
<1>13. CASE Return
  <2>1. Returned(Fetched(1)) \in Results
    BY <1>0, <1>02, StackResults
  <2>. QED
    BY <1>0, <1>01, <1>03, <1>13, <2>1 DEF Return
<1>14. CASE UserMode
  <2>1. EnteredUserMode(Fetched(1)) \in Results
    BY <1>0, <1>02, ModeResults
  <2>. QED
    BY <1>0, <1>01, <1>03, <1>14, <2>1 DEF UserMode
<1>15. CASE IReturn
  <2>1. IReturned(Fetched(1)) \in Results
    BY <1>0, <1>02, ModeResults
  <2>. QED
    BY <1>0, <1>01, <1>03, <1>15, <2>1 DEF IReturn
<1>16. ASSUME NEW a \in Address, NEW right \in {"R", "W", "X"}, Resolve(a, right) PROVE TypeOK'
  <2>1. pages' \in [Address -> SUBSET {"R", "W", "X"}]
    BY <1>16 DEF Resolve, TypeOK
  <2>. QED
    BY <1>16, <2>1 DEF Resolve, TypeOK
<1>17. CASE UNCHANGED vars
  BY <1>17 DEF vars, TypeOK
<1>18. CASE Next
  BY <1>18, <1>1, <1>2, <1>3, <1>4, <1>5, <1>6, <1>7, <1>8, <1>9, <1>10, <1>11, <1>12, <1>13,
     <1>14, <1>15, <1>16
  DEF Next
<1>. QED
  BY <1>17, <1>18

(* Whatever instructions run and fail, and whatever the kernel maps in     *)
(* between, every register and every byte keeps its range.                 *)
THEOREM TypeCorrect == Spec => []TypeOK
<1>1. Init => TypeOK
  <2>. SUFFICES ASSUME Init PROVE TypeOK
    OBVIOUS
  <2>1. PICK mem \in Memories :
          machine = [r0 |-> 0, uspr |-> 0, kspr |-> 0, imr |-> 0, flags |-> 0,
                     program_counter |-> StartOfROM, kernel_mode |-> TRUE, mem |-> mem]
    BY DEF Init
  <2>2. /\ 0 \in Word /\ 0 \in Half /\ 0 \in 0..(TopBit - 1) /\ 0 \in Nat
        /\ StartOfROM \in Word /\ mem \in [Address -> Byte]
    BY Ranges, InitialAssumption DEF Word, Half, Address
  <2>3. machine \in Machine
    BY <2>1, <2>2 DEF Machine
  <2>. QED
    BY <2>2, <2>3, InitialAssumption DEF Init, TypeOK, Ops, Outcomes
<1>. QED
  BY <1>1, NextType, PTL DEF Spec

-----------------------------------------------------------------------------
(* A cycle that fails with the machine as it was fetched moves nothing but *)
(* the program counter.                                                    *)
LEMMA FetchedTraceless ==
    ASSUME TypeOK, NEW op, NEW ref, NEW n \in Nat, NEW result,
           Ends(op, ref, n, result), result.end = "TryAgainError",
           result.machine = Fetched(n)
    PROVE  machine' = [machine EXCEPT !.program_counter = machine'.program_counter]
BY DEF Ends, Rewound, Fetched, TypeOK, Machine

(* A cycle that fails with another memory moves nothing but memory and the *)
(* program counter.                                                        *)
LEMMA StoredTraceless ==
    ASSUME TypeOK, NEW op, NEW ref, NEW n \in Nat, NEW result,
           Ends(op, ref, n, result), result.end = "TryAgainError",
           result.machine = [Fetched(n) EXCEPT !.mem = result.machine.mem]
    PROVE  machine' = [[machine EXCEPT !.program_counter = machine'.program_counter]
                         EXCEPT !.mem = machine'.mem]
BY DEF Ends, Rewound, Fetched, TypeOK, Machine

(* A restartable instruction that fails leaves registers, stack pointers,  *)
(* mode and memory as they were.                                           *)
LEMMA StepLeavesNoTrace == TypeOK /\ [Next]_vars => [LeavesNoTrace]_vars
<1>. DEFINE before == [machine EXCEPT !.program_counter = machine'.program_counter]
            Traceless == /\ Restartable(ins', machine) => machine' = before
                         /\ ins'.op = "STORE" => machine' = [before EXCEPT !.mem = machine'.mem]
<1>1. TypeOK /\ [Next]_vars => [outcome' = "TryAgainError" => Traceless]_vars
  <2>. SUFFICES ASSUME TypeOK, Next, outcome' = "TryAgainError" PROVE Traceless
    OBVIOUS
  <2>00. 1 \in Nat /\ 2 \in Nat
    OBVIOUS
  <2>0. /\ {0} \cup Lengths \subseteq Nat /\ Operands \subseteq Address /\ 1 \in Nat /\ 2 \in Nat
        /\ \A n \in Nat : Fetched(n) \in Machine /\ Fetched(n).kernel_mode = machine.kernel_mode
    BY OperandsAssumption, FetchType DEF Address
  <2>01. ASSUME NEW op, NEW ref, NEW n \in Nat, NEW result, Ends(op, ref, n, result)
         PROVE  ins'.op = op /\ ins'.ref = ref /\ result.end = "TryAgainError"
    BY <2>01 DEF Ends
  <2>02. ASSUME NEW op, NEW ref, NEW n \in Nat, NEW result, Ends(op, ref, n, result),
                op # "STORE", result.machine = Fetched(n)
         PROVE  Traceless
    <3>1. machine' = before
      BY <2>01, <2>02, FetchedTraceless
    <3>. QED
      BY <2>01, <2>02, <3>1
  <2>. HIDE DEF Traceless
  <2>03. \A m : Failed(m).machine = m /\ Failed(m).end = "TryAgainError" /\ Done(m).end = "ok"
    BY DEF Failed, Done, Result
  <2>1. ASSUME NEW n \in {0} \cup Lengths, NEW size \in {1, 2, 4}, FetchFault(n, size) PROVE Traceless
    <3>1. n \in Nat /\ Ends("FETCH", "none", n, Failed(Fetched(n)))
      BY <2>0, <2>1 DEF FetchFault
    <3>. QED
      BY <2>02, <2>03, <3>1
  <2>2. ASSUME NEW n \in Lengths, NEW value \in Operands, NEW ref \in Destinations, Copy(n, ref, value)
        PROVE  Traceless
    <3>. DEFINE result == WriteRegister(Fetched(n), ref, Fit(value, ref))
    <3>1. Ends("OTHER", ref, n, result) /\ n \in Nat
      BY <2>0, <2>2 DEF Copy
    <3>2. result.end = "TryAgainError"
      BY <2>01, <3>1
    <3>3. result.machine = Fetched(n)
      BY <2>03, <3>2 DEF WriteRegister
    <3>. HIDE DEF result
    <3>. QED
      BY <2>02, <3>1, <3>3
  <2>3. ASSUME NEW n \in Lengths, NEW value \in Operands, NEW ref \in Destinations,
               NEW flags \in 0..(TopBit - 1), Arithmetic(n, ref, value, flags)
        PROVE  FALSE
    BY <2>0, <2>01, <2>03, <2>3 DEF Arithmetic
  <2>4. ASSUME NEW n \in Lengths, NEW value \in Operands, Jump(n, value) PROVE FALSE
    BY <2>0, <2>01, <2>03, <2>4 DEF Jump
  <2>5. ASSUME NEW n \in Lengths, OtherFails(n) PROVE Traceless
    BY <2>0, <2>02, <2>03, <2>5 DEF OtherFails
  <2>6. ASSUME NEW n \in Lengths, NEW flags \in 0..(TopBit - 1), Compare(n, flags) PROVE FALSE
    BY <2>0, <2>01, <2>03, <2>6 DEF Compare
  <2>7. ASSUME NEW n \in Lengths, NEW a \in Operands, NEW ref \in Destinations, Load(n, ref, a)
        PROVE  Traceless
    <3>. DEFINE result == Loaded(Fetched(n), ref, a)
    <3>1. Ends("LOAD", ref, n, result) /\ n \in Nat
      BY <2>0, <2>7 DEF Load
    <3>2. result.end = "TryAgainError"
      BY <2>01, <3>1
    <3>3. result.machine = Fetched(n)
      BY <2>03, <3>2 DEF Loaded, WriteRegister
    <3>. HIDE DEF result
    <3>. QED
      BY <2>02, <3>1, <3>3
  <2>8. ASSUME NEW n \in Lengths, NEW a \in Operands, NEW ref \in Sources, Store(n, ref, a)
        PROVE  Traceless
    <3>. DEFINE result == StoredFrom(Fetched(n), ref, a)
    <3>1. Ends("STORE", ref, n, result) /\ n \in Nat /\ Fetched(n) \in Machine
      BY <2>0, <2>8 DEF Store
    <3>2. result.machine = [Fetched(n) EXCEPT !.mem = result.machine.mem]
      <4>1. Fetched(n) = [Fetched(n) EXCEPT !.mem = Fetched(n).mem]
        BY <3>1 DEF Machine
      <4>. QED
        BY <2>03, <3>1, <4>1, StoredOnlyMemory DEF StoredFrom
    <3>. HIDE DEF result
    <3>3. ins'.op = "STORE" /\ result.end = "TryAgainError"
      BY <2>01, <3>1
    <3>4. machine' = [before EXCEPT !.mem = machine'.mem]
      BY <3>1, <3>2, <3>3, StoredTraceless
    <3>. QED
      BY <3>3, <3>4 DEF Restartable, Traceless
  <2>9. ASSUME NEW n \in Lengths, NEW a \in Operands, NEW ref \in Sources, Swap(n, ref, a)
        PROVE  Traceless
    BY <2>0, <2>01, <2>9 DEF Swap, Restartable, Traceless
  <2>10. ASSUME NEW n \in Lengths, NEW a \in Operands, Call(n, a) PROVE Traceless
    BY <2>0, <2>01, <2>10 DEF Call, Restartable, Traceless
  <2>11. ASSUME NEW ref \in Sources, Push(ref) PROVE Traceless
    BY <2>0, <2>01, <2>11 DEF Push, Restartable, Traceless
  <2>12. ASSUME NEW ref \in Destinations, Pop(ref) PROVE Traceless
    <3>. DEFINE m == Fetched(2)
                result == PoppedTo(m, ref)
    <3>1. Ends("POP", ref, 2, result) /\ m \in Machine /\ m.kernel_mode = machine.kernel_mode
      BY <2>0, <2>12 DEF Pop
    <3>2. ins'.op = "POP" /\ ins'.ref = ref /\ result.end = "TryAgainError"
      BY <2>00, <2>01, <3>1
    <3>. HIDE DEF m
    <3>3. CASE MayWrite(machine, ref)
      <4>1. MayWrite(Popped(m, Width(ref)), ref)
        BY <3>1, <3>3, WidthFacts, PoppedType DEF MayWrite, MayRead
      <4>2. result.machine = m
        BY <2>03, <3>2, <4>1 DEF PoppedTo, WriteRegister
      <4>. HIDE DEF result
      <4>. QED
        BY <2>00, <2>02, <3>1, <4>2 DEF m
    <3>4. CASE ~MayWrite(machine, ref)
      BY <3>2, <3>4 DEF Restartable, Traceless
    <3>. QED
      BY <3>3, <3>4
  <2>13. CASE Return
    <3>. DEFINE result == Returned(Fetched(1))
    <3>1. Ends("RETURN", "none", 1, result)
      BY <2>13 DEF Return
    <3>2. result.end = "TryAgainError"
      BY <2>00, <2>01, <3>1
    <3>3. result.machine = Fetched(1)
      BY <2>03, <3>2 DEF Returned
    <3>. HIDE DEF result
    <3>. QED
      BY <2>00, <2>02, <3>1, <3>3
  <2>14. CASE UserMode
    <3>. DEFINE result == EnteredUserMode(Fetched(1))
    <3>1. Ends("USERMODE", "none", 1, result)
      BY <2>14 DEF UserMode
    <3>2. result.end = "TryAgainError"
      BY <2>00, <2>01, <3>1
    <3>3. result.machine = Fetched(1)
      BY <2>03, <3>2 DEF EnteredUserMode
    <3>. HIDE DEF result
    <3>. QED
      BY <2>00, <2>02, <3>1, <3>3
  <2>15. CASE IReturn
    <3>. DEFINE m == Fetched(1)
                result == IReturned(m)
    <3>1. Ends("IRETURN", "none", 1, result) /\ m \in Machine
      BY <2>0, <2>15 DEF IReturn
    <3>2. result.end = "TryAgainError"
      BY <2>00, <2>01, <3>1
    <3>. HIDE DEF m
    <3>3. result.machine = m
      BY <3>1, <3>2, IReturnUndone
    <3>. HIDE DEF result
    <3>. QED
      BY <2>00, <2>02, <3>1, <3>3 DEF m
  <2>16. ASSUME NEW a \in Address, NEW right \in {"R", "W", "X"}, Resolve(a, right) PROVE Traceless
    BY <2>16 DEF Resolve, TypeOK, Machine, Traceless
  <2>. QED
    BY <2>1, <2>2, <2>3, <2>4, <2>5, <2>6, <2>7, <2>8, <2>9, <2>10, <2>11, <2>12, <2>13, <2>14,
       <2>15, <2>16
    DEF Next
<1>. QED
  BY <1>1 DEF LeavesNoTrace

-----------------------------------------------------------------------------
(* Two moves of at most six bytes together are one move. *)
LEMMA MovesAdd ==
    ASSUME NEW a \in Address, NEW n \in 0..6, NEW k \in 0..6
    PROVE  Add(Add(a, n), k) = Add(a, n + k)
<1>. DEFINE W == WordRange
            b == (a + n) % W
<1>0. W \in Nat /\ W >= 16
  BY Ranges
<1>. HIDE DEF W
<1>1. a \in 0..(W - 1)
  BY DEF Address, Word, W
<1>2. ASSUME NEW x \in 0..(W - 1) PROVE x % W = x /\ (x + W) % W = x
  <2>1. (0 * W + x) % W = x /\ (1 * W + x) % W = x
    BY <1>0, DivisionUnique
  <2>. QED
    BY <1>0, <2>1
<1>3. b = a + n \/ b = a + n - W
  <2>1. CASE a + n < W
    BY <1>0, <1>1, <1>2, <2>1
  <2>2. CASE a + n >= W
    <3>1. a + n - W \in 0..(W - 1) /\ (a + n - W) + W = a + n
      BY <1>0, <1>1, <2>2
    <3>. QED
      BY <1>2, <3>1
  <2>. QED
    BY <1>0, <1>1, <2>1, <2>2
<1>. HIDE DEF b
<1>4. b \in 0..(W - 1)
  BY <1>0, <1>1, Division DEF b
<1>5. (b + k) % W = (a + n + k) % W
  <2>1. CASE b = a + n
    BY <2>1
  <2>2. CASE b = a + n - W
    <3>1. b <= 5 /\ a + n + k = (b + k) + W
      BY <1>0, <1>1, <2>2
    <3>2. b + k \in 0..(W - 1)
      BY <1>0, <1>4, <3>1
    <3>. QED
      BY <1>2, <3>1, <3>2
  <2>. QED
    BY <1>3, <2>1, <2>2
<1>6. a + n + k = a + (n + k)
  BY <1>0, <1>1
<1>. QED
  BY <1>5, <1>6 DEF Add, W, b

(* In kernel mode, a push of what was popped fails only where one of the   *)
(* popped bytes can be read and not written.                               *)
LEMMA PushBackFails ==
    ASSUME NEW m \in Machine, m.kernel_mode, NEW n \in {2, 4}, MayPop(m, n), NEW v,
           Pushed(Popped(m, n), v, n).end # "ok"
    PROVE  \E k \in 0..(n - 1) : Zones[Add(m.kspr, k)] = {"R"}
<1>. DEFINE sp == m.kspr
<1>1. sp \in Address /\ Add(sp, n) \in Address /\ Subtract(Add(sp, n), n) = sp
  <2>1. sp \in Address /\ n \in Nat /\ n \in 0..4
    BY DEF Machine, Address
  <2>. HIDE DEF sp
  <2>. QED
    BY <2>1, Wrapping
<1>2. StackPointer(m) = sp /\ Popped(m, n) = [m EXCEPT !.kspr = Add(sp, n)]
  BY DEF StackPointer, Popped, WithStackPointer
<1>. DEFINE popped == [m EXCEPT !.kspr = Add(sp, n)]
<1>3. popped.kernel_mode /\ popped.kspr = Add(sp, n)
  BY DEF Machine
<1>. HIDE DEF sp, popped
<1>4. StackPointer(popped) = Add(sp, n)
  BY <1>3 DEF StackPointer
<1>5. Pushed(popped, v, n) = Stored([popped EXCEPT !.kspr = sp], sp, v, n)
  BY <1>1, <1>3, <1>4 DEF Pushed, WithStackPointer
<1>6. [popped EXCEPT !.kspr = sp] = m
  BY <1>1 DEF popped, sp, Machine
<1>7. ~MayAll(m, sp, n, "W")
  BY <1>2, <1>5, <1>6 DEF Stored, Result, popped
<1>8. PICK k \in 0..(n - 1) : ~May(m, Add(sp, k), "W")
  BY <1>7 DEF MayAll
<1>9. "W" \notin Zones[Add(sp, k)]
  BY <1>8 DEF May
<1>10. "R" \in Zones[Add(sp, k)]
  BY <1>2, <1>8 DEF MayPop, MayAll, May
<1>11. Zones[Add(sp, k)] \subseteq {"R", "W"}
  <2>1. k \in Nat
    BY <1>8
  <2>. QED
    BY <1>1, <2>1, Wrapping, ZonesAssumption
<1>12. Zones[Add(sp, k)] = {"R"}
  BY <1>9, <1>10, <1>11
<1>. QED
  BY <1>8, <1>12 DEF sp

(* An IRETURN panics only where one of the six bytes it may have to push   *)
(* back can be read and not written.                                       *)
LEMMA IReturnPanics ==
    ASSUME NEW m \in Machine, IReturned(m).end = "panic"
    PROVE  \E k \in 0..5 : Zones[Add(m.kspr, k)] = {"R"}
<1>. DEFINE popped1 == Popped(m, 2)
            popped2 == Popped(popped1, 4)
            imr == Top(m, 2)
            pc == Top(popped1, 4)
            flags == Top(popped2, 2)
            returned == [Popped(popped2, 2) EXCEPT
                           !.imr = imr, !.program_counter = pc, !.flags = flags % TopBit,
                           !.kernel_mode = flags >= TopBit]
<1>0. m.kernel_mode \in BOOLEAN /\ m.kspr \in Address
  BY DEF Machine, Address
<1>1. popped1 \in Machine /\ popped1.kernel_mode = m.kernel_mode
  BY PoppedType
<1>2. Pushed(popped2, pc, 4).machine = popped1
  BY <1>1, PushUndoesPop
<1>3. m.kernel_mode => popped1.kspr = Add(m.kspr, 2)
  BY DEF Popped, StackPointer, WithStackPointer, Machine
<1>4. IReturned(m) = IF ~m.kernel_mode \/ ~MayPop(m, 2) THEN Failed(m)
                     ELSE IF ~MayPop(popped1, 4) THEN PutBack(popped1, imr)
                     ELSE IF ~MayPop(popped2, 2) THEN PutBothBack(popped2, imr, pc)
                     ELSE Done(returned)
  BY DEF IReturned
<1>. DEFINE IMRFails == Pushed(popped1, imr, 2).end # "ok"
            PCFails == Pushed(popped2, pc, 4).end # "ok"
<1>5. m.kernel_mode /\ MayPop(m, 2) /\ IMRFails => \E k \in 0..1 : Zones[Add(m.kspr, k)] = {"R"}
  BY PushBackFails
<1>6. ASSUME m.kernel_mode, MayPop(popped1, 4), PCFails
      PROVE  \E k \in 0..5 : Zones[Add(m.kspr, k)] = {"R"}
  <2>1. PICK k \in 0..3 : Zones[Add(popped1.kspr, k)] = {"R"}
    <3>1. popped1.kernel_mode /\ Pushed(Popped(popped1, 4), pc, 4).end # "ok"
      BY <1>1, <1>6
    <3>. HIDE DEF popped1, pc
    <3>2. \E k \in 0..(4 - 1) : Zones[Add(popped1.kspr, k)] = {"R"}
      BY <1>1, <1>6, <3>1, PushBackFails
    <3>. QED
      BY <3>2
  <2>2. Add(Add(m.kspr, 2), k) = Add(m.kspr, 2 + k) /\ 2 + k \in 0..5
    BY <1>0, <2>1, MovesAdd
  <2>. QED
    BY <1>3, <1>6, <2>1, <2>2
<1>. HIDE DEF popped1, popped2, imr, pc, flags, returned
<1>7. Failed(m).end = "TryAgainError" /\ Done(returned).end = "ok"
  BY DEF Failed, Done, Result
<1>8. PutBack(popped1, imr).end = "panic" => IMRFails
  BY DEF PutBack, Undone, Result
<1>9. PutBothBack(popped2, imr, pc).end = "panic" => PCFails \/ IMRFails
  <2>1. Undone(Pushed(popped2, pc, 4)).machine = popped1
    BY <1>2 DEF Undone, Result
  <2>2. Undone(Pushed(popped2, pc, 4)).end = "panic" => PCFails
    BY DEF Undone, Result
  <2>. QED
    BY <1>8, <2>1, <2>2 DEF PutBothBack
<1>. HIDE DEF IMRFails, PCFails
<1>10. m.kernel_mode /\ MayPop(m, 2) /\ (IMRFails \/ (MayPop(popped1, 4) /\ PCFails))
  BY <1>4, <1>7, <1>8, <1>9
<1>11. \A k \in 0..1 : k \in 0..5
  OBVIOUS
<1>. QED
  BY <1>5, <1>6, <1>10, <1>11

(* No other instruction panics. *)
LEMMA OthersDoNotPanic ==
    ASSUME NEW m, NEW ref, NEW a, NEW v, NEW n
    PROVE  /\ Done(m).end # "panic" /\ Failed(m).end # "panic"
           /\ WriteRegister(m, ref, v).end # "panic"
           /\ Stored(m, a, v, n).end # "panic" /\ Pushed(m, v, n).end # "panic"
           /\ Loaded(m, ref, a).end # "panic" /\ StoredFrom(m, ref, a).end # "panic"
           /\ Swapped(m, ref, a).end # "panic"
           /\ PushedFrom(m, ref).end # "panic" /\ PoppedTo(m, ref).end # "panic"
           /\ Called(m, a).end # "panic" /\ Returned(m).end # "panic"
           /\ EnteredUserMode(m).end # "panic"
<1>1. \A p : Done(p).end # "panic" /\ Failed(p).end # "panic"
  BY DEF Done, Failed, Result
<1>2. \A p, r, x : WriteRegister(p, r, x).end # "panic"
  BY <1>1 DEF WriteRegister
<1>3. \A p, b, x, w : Stored(p, b, x, w).end # "panic" /\ Pushed(p, x, w).end # "panic"
  BY DEF Stored, Pushed, Result
<1>4. Loaded(m, ref, a).end # "panic"
  BY <1>1, <1>2 DEF Loaded
<1>5. StoredFrom(m, ref, a).end # "panic" /\ PushedFrom(m, ref).end # "panic"
  BY <1>1, <1>3 DEF StoredFrom, PushedFrom
<1>6. Swapped(m, ref, a).end # "panic"
  BY <1>1, <1>3 DEF Swapped
<1>7. PoppedTo(m, ref).end # "panic"
  BY <1>1, <1>2 DEF PoppedTo
<1>8. Called(m, a).end # "panic"
  BY <1>1, <1>3 DEF Called
<1>9. Returned(m).end # "panic" /\ EnteredUserMode(m).end # "panic"
  BY <1>1 DEF Returned, EnteredUserMode
<1>. QED
  BY <1>1, <1>2, <1>3, <1>4, <1>5, <1>6, <1>7, <1>8, <1>9

(* The undo of an IRETURN pushes back to where it popped from, and so      *)
(* fails only in memory that can be read and not written.                  *)
LEMMA StepPanicsOnlyInROM == TypeOK /\ [Next]_vars => [PanicsOnlyInROM]_vars
<1>. DEFINE InROM == /\ ins'.op = "IRETURN"
                     /\ \E k \in 0..5 : Zones[Add(machine.kspr, k)] = {"R"}
<1>1. TypeOK /\ [Next]_vars => [outcome' = "panic" => InROM]_vars
  <2>. SUFFICES ASSUME TypeOK, Next, outcome' = "panic" PROVE InROM
    OBVIOUS
  <2>1. ASSUME NEW op, NEW ref, NEW n, NEW result, Ends(op, ref, n, result)
        PROVE  result.end = "panic" /\ ins'.op = op
    BY <2>1 DEF Ends
  <2>2. CASE IReturn
    <3>. DEFINE m == Fetched(1)
                result == IReturned(m)
    <3>1. result.end = "panic" /\ ins'.op = "IRETURN"
      BY <2>1, <2>2 DEF IReturn
    <3>2. m \in Machine /\ m.kspr = machine.kspr
      <4>1. 1 \in Nat
        OBVIOUS
      <4>2. m \in Machine
        BY <4>1, FetchType
      <4>. QED
        BY <4>2 DEF Fetched, TypeOK, Machine
    <3>. HIDE DEF m
    <3>. QED
      BY <3>1, <3>2, IReturnPanics
  <2>3. ASSUME NEW n, NEW size, FetchFault(n, size) PROVE FALSE
    BY <2>1, <2>3, OthersDoNotPanic DEF FetchFault
  <2>4. ASSUME NEW n, NEW ref, NEW value, Copy(n, ref, value) PROVE FALSE
    BY <2>1, <2>4, OthersDoNotPanic DEF Copy
  <2>5. ASSUME NEW n, NEW ref, NEW value, NEW flags, Arithmetic(n, ref, value, flags) PROVE FALSE
    BY <2>1, <2>5, OthersDoNotPanic DEF Arithmetic
  <2>6. ASSUME NEW n, NEW value, Jump(n, value) \/ OtherFails(n) \/ Compare(n, value) PROVE FALSE
    BY <2>1, <2>6, OthersDoNotPanic DEF Jump, OtherFails, Compare
  <2>7. ASSUME NEW n, NEW ref, NEW a,
               \/ Load(n, ref, a) \/ Store(n, ref, a) \/ Swap(n, ref, a) \/ Call(n, a)
        PROVE  FALSE
    BY <2>1, <2>7, OthersDoNotPanic DEF Load, Store, Swap, Call
  <2>8. ASSUME NEW ref, Push(ref) \/ Pop(ref) \/ Return \/ UserMode PROVE FALSE
    BY <2>1, <2>8, OthersDoNotPanic DEF Push, Pop, Return, UserMode
  <2>9. ASSUME NEW a, NEW right, Resolve(a, right) PROVE FALSE
    BY <2>9 DEF Resolve
  <2>. HIDE DEF InROM
  <2>. QED
    BY <2>2, <2>3, <2>4, <2>5, <2>6, <2>7, <2>8, <2>9 DEF Next
<1>. QED
  BY <1>1 DEF PanicsOnlyInROM

(* A cycle that fails leaves no trace, or has met a stack in ROM: the undo *)
(* of IRETURN puts back what it popped, where it was.                      *)
THEOREM FailureTraceless == Spec => FailureLeavesNoTrace
<1>1. TypeOK /\ [Next]_vars => [LeavesNoTrace /\ PanicsOnlyInROM]_vars
  BY StepLeavesNoTrace, StepPanicsOnlyInROM
<1>. QED
  BY <1>1, TypeCorrect, PTL DEF Spec, FailureLeavesNoTrace
=============================================================================
