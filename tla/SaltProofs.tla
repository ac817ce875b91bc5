----------------------------- MODULE SaltProofs -----------------------------
(***************************************************************************)
(* Theorems about the assembler, for every source file: what is in the     *)
(* object files it writes, why it panics, and what the linker reads of the *)
(* files it writes, and of any other.                                      *)
(***************************************************************************)
EXTENDS Linking, Induction, SequenceTheorems, TLAPS

-----------------------------------------------------------------------------
(***************************************************************************)
(* Functions defined by recursion up to a bound, and sums.                 *)
(***************************************************************************)

(* A function defined by recursion up to a bound, as an equation *)
Equation(n, V, origin, G) ==
    \E h \in [0..n -> V] : h = [k \in 0..n |-> IF k = 0 THEN origin ELSE G[k][h[k - 1]]]

(* Such a function exists, so CHOOSE finds it. *)
LEMMA Unrolled ==
    ASSUME NEW n \in Nat, NEW V, NEW origin \in V, NEW G \in [1..n -> [V -> V]]
    PROVE  Equation(n, V, origin, G)
<1>0. Recursive(n, V, origin, G)
  BY Recursion
<1>1. PICK h \in [0..n -> V] : h[0] = origin /\ \A k \in 1..n : h[k] = G[k][h[k - 1]]
  BY <1>0 DEF Recursive
<1>2. \A k \in 0..n : h[k] = IF k = 0 THEN origin ELSE G[k][h[k - 1]]
  BY <1>1
<1>. QED
  BY <1>2 DEF Equation

(* and the type of its values *)
LEMMA Typed ==
    ASSUME NEW n \in Nat, NEW V, NEW f, f[0] \in V, \A k \in 1..n : f[k - 1] \in V => f[k] \in V
    PROVE  \A k \in 0..n : f[k] \in V
<1>. DEFINE T == {k \in 0..n : f[k] \in V}
<1>1. 0 \in T
  OBVIOUS
<1>2. ASSUME NEW k \in 0..(n - 1), k \in T PROVE k + 1 \in T
  <2>1. k + 1 \in 1..n /\ k + 1 \in 0..n /\ (k + 1) - 1 = k
    OBVIOUS
  <2>2. f[(k + 1) - 1] \in V => f[k + 1] \in V
    BY <2>1
  <2>3. f[k] \in V
    BY <1>2
  <2>. QED
    BY <2>1, <2>2, <2>3
<1>3. \A k \in 0..n : k \in T
  <2>. HIDE DEF T
  <2>. QED
    BY <1>1, <1>2, InductionTo
<1>. QED
  BY <1>3

(* The sums of the first sizes *)
Sums(sizes) ==
    CHOOSE f : f = [k \in 0..Len(sizes) |-> IF k = 0 THEN 0 ELSE f[k - 1] + sizes[k]]

(* The sum of numbers is a number. *)
LEMMA TotalFacts ==
    ASSUME NEW sizes \in Seq(Int)
    PROVE  Total(sizes) \in Int
<1>. DEFINE n == Len(sizes)
            Body(f) == [k \in 0..n |-> IF k = 0 THEN 0 ELSE f[k - 1] + sizes[k]]
            G == [k \in 1..n |-> [v \in Int |-> v + sizes[k]]]
<1>1. n \in Nat /\ \A k \in 1..n : sizes[k] \in Int
  OBVIOUS
<1>2. G \in [1..n -> [Int -> Int]] /\ \A k \in 1..n : \A v \in Int : G[k][v] = v + sizes[k]
  BY <1>1
<1>3. \E f : f = Body(f)
  <2>. HIDE DEF G, n
  <2>1. PICK h \in [0..n -> Int] : h = [k \in 0..n |-> IF k = 0 THEN 0 ELSE G[k][h[k - 1]]]
    <3>. DEFINE V == Int
                zero == 0
    <3>1. zero \in V /\ G \in [1..n -> [V -> V]]
      BY <1>2
    <3>2. Equation(n, V, zero, G)
      <4>. HIDE DEF V, zero
      <4>. QED
        BY <1>1, <3>1, Unrolled
    <3>. QED
      BY <3>2 DEF Equation
  <2>2. \A k \in 0..n : k # 0 => h[k - 1] \in Int /\ k \in 1..n
    BY <1>1
  <2>3. h = Body(h)
    BY <1>2, <2>1, <2>2
  <2>. QED
    BY <2>3
<1>4. Sums(sizes) = Body(Sums(sizes))
  <2>1. Sums(sizes) = CHOOSE f : f = Body(f)
    BY DEF Sums
  <2>. HIDE DEF Body
  <2>. QED
    BY <1>3, <2>1, Zenon
<1>5. \A k \in 0..n : Sums(sizes)[k] \in Int
  <2>. DEFINE f == Sums(sizes)
  <2>1. \A k \in 0..n : f[k] = IF k = 0 THEN 0 ELSE f[k - 1] + sizes[k]
    BY <1>4, Zenon
  <2>. HIDE DEF f, n
  <2>2. f[0] \in Int /\ \A k \in 1..n : f[k - 1] \in Int => f[k] \in Int
    BY <1>1, <2>1
  <2>3. \A k \in 0..n : f[k] \in Int
    BY <1>1, <2>2, Typed
  <2>. QED
    BY <2>3 DEF f
<1>6. Total(sizes) = Sums(sizes)[n]
  BY Zenon DEF Total, Sums
<1>. QED
  BY <1>1, <1>5, <1>6

-----------------------------------------------------------------------------
(***************************************************************************)
(* Lists of lists, one after the other.                                    *)
(***************************************************************************)

(* The lists seqs one after the other, up to each *)
Flat(seqs) ==
    CHOOSE f : f = [i \in 1..Len(seqs) |-> IF i = 1 THEN seqs[i] ELSE f[i - 1] \o seqs[i]]

(* FlattenSeq, without its recursion *)
LEMMA FlattenCases ==
    ASSUME NEW seqs
    PROVE  /\ FlattenSeq(seqs) = IF Len(seqs) = 0 THEN seqs ELSE Flat(seqs)[Len(seqs)]
           /\ Silk!FlattenSeq(seqs) = IF Len(seqs) = 0 THEN seqs ELSE Flat(seqs)[Len(seqs)]
BY Zenon DEF FlattenSeq, Silk!FlattenSeq, Flat

(* n lists over S *)
Lists(S, seqs, n) == Len(seqs) = n /\ \A k \in 1..n : seqs[k] \in Seq(S)

(* FlattenSeq joins lists one after the other. *)
LEMMA FlattenFacts ==
    ASSUME NEW S, NEW seqs, NEW n \in Nat, Lists(S, seqs, n)
    PROVE  /\ FlattenSeq(seqs) = IF n = 0 THEN seqs ELSE Flat(seqs)[n]
           /\ Silk!FlattenSeq(seqs) = IF n = 0 THEN seqs ELSE Flat(seqs)[n]
           /\ \A k \in 1..n :
                Flat(seqs)[k] = IF k = 1 THEN seqs[k] ELSE Flat(seqs)[k - 1] \o seqs[k]
<1>. USE DEF Lists
<1>. DEFINE Body(f) == [i \in 1..n |-> IF i = 1 THEN seqs[i] ELSE f[i - 1] \o seqs[i]]
<1>1. /\ FlattenSeq(seqs) = IF Len(seqs) = 0 THEN seqs ELSE Flat(seqs)[Len(seqs)]
      /\ Silk!FlattenSeq(seqs) = IF Len(seqs) = 0 THEN seqs ELSE Flat(seqs)[Len(seqs)]
  BY FlattenCases
<1>2. \E f : f = Body(f)
  <2>. DEFINE V == Seq(S)
              first == <<>>
              G == [k \in 1..n |-> [v \in V |-> v \o seqs[k]]]
  <2>1. first \in V /\ G \in [1..n -> [V -> V]]
    OBVIOUS
  <2>2. \A k \in 1..n : \A v \in V : G[k][v] = v \o seqs[k]
    OBVIOUS
  <2>3. \A v \in V : <<>> \o v = v
    OBVIOUS
  <2>4. \A k \in 1..n : seqs[k] \in V
    OBVIOUS
  <2>. HIDE DEF V, G
  <2>5. PICK h \in [0..n -> V] : h[0] = first /\ \A k \in 1..n : h[k] = G[k][h[k - 1]]
    <3>. HIDE DEF first
    <3>1. Recursive(n, V, first, G)
      BY <2>1, Recursion
    <3>. QED
      BY <3>1 DEF Recursive
  <2>. DEFINE g == [k \in 1..n |-> h[k]]
  <2>6. ASSUME NEW k \in 1..n PROVE g[k] = IF k = 1 THEN seqs[k] ELSE g[k - 1] \o seqs[k]
    <3>1. k - 1 \in 0..n /\ k \in 0..n
      OBVIOUS
    <3>2. h[k - 1] \in V /\ h[k] = h[k - 1] \o seqs[k]
      BY <2>2, <2>5, <3>1
    <3>3. CASE k = 1
      <4>1. h[k] = <<>> \o seqs[k]
        BY <2>5, <3>2, <3>3
      <4>. QED
        BY <2>3, <2>4, <3>3, <4>1
    <3>4. CASE k # 1
      <4>1. k - 1 \in 1..n
        BY <3>1, <3>4
      <4>. QED
        BY <3>2, <3>4, <4>1
    <3>. QED
      BY <3>3, <3>4
  <2>7. g = Body(g)
    <3>1. g = [k \in 1..n |-> g[k]]
      OBVIOUS
    <3>. HIDE DEF g
    <3>. QED
      BY <2>6, <3>1
  <2>. QED
    BY <2>7
<1>3. Flat(seqs) = CHOOSE f : f = Body(f)
  BY DEF Flat
<1>4. Flat(seqs) = Body(Flat(seqs))
  <2>. HIDE DEF Body
  <2>. QED
    BY <1>2, <1>3, Zenon
<1>5. \A k \in 1..n : Flat(seqs)[k] = IF k = 1 THEN seqs[k] ELSE Flat(seqs)[k - 1] \o seqs[k]
  BY <1>4, Zenon
<1>. QED
  BY <1>1, <1>5

(* Lists over S one after the other are a list over S. *)
LEMMA FlattenTyped ==
    ASSUME NEW S, NEW seqs, NEW n \in Nat, seqs = [k \in 1..n |-> seqs[k]],
           \A k \in 1..n : seqs[k] \in Seq(S)
    PROVE  FlattenSeq(seqs) \in Seq(S)
<1>1. Len(seqs) = n
  OBVIOUS
<1>2. CASE n = 0
  <2>1. seqs = <<>>
    BY <1>2
  <2>2. FlattenSeq(seqs) = seqs
    BY <1>1, <1>2, FlattenCases
  <2>3. <<>> \in Seq(S)
    OBVIOUS
  <2>. QED
    BY <2>1, <2>2, <2>3, Zenon
<1>3. CASE n # 0
  <2>. DEFINE f == Flat(seqs)
              V == Seq(S)
  <2>1. /\ FlattenSeq(seqs) = f[n]
        /\ \A k \in 1..n : f[k] = IF k = 1 THEN seqs[k] ELSE f[k - 1] \o seqs[k]
    <3>1. FlattenSeq(seqs) = IF n = 0 THEN seqs ELSE Flat(seqs)[n]
      BY <1>1, FlattenCases
    <3>2. \A k \in 1..n : Flat(seqs)[k] = IF k = 1 THEN seqs[k] ELSE Flat(seqs)[k - 1] \o seqs[k]
      <4>1. Lists(S, seqs, n)
        BY <1>1 DEF Lists
      <4>. HIDE DEF f
      <4>. QED
        BY <4>1, FlattenFacts
    <3>. QED
      BY <1>3, <3>1, <3>2
  <2>. DEFINE g == [k \in 0..n |-> IF k = 0 THEN <<>> ELSE f[k]]
  <2>. HIDE DEF f
  <2>2. \A v, w \in V : v \o w \in V
    OBVIOUS
  <2>3. g[0] \in V /\ \A k \in 1..n : g[k - 1] \in V => g[k] \in V
    <3>1. g[0] \in V
      OBVIOUS
    <3>2. ASSUME NEW k \in 1..n, g[k - 1] \in V PROVE g[k] \in V
      <4>0. g[k] = f[k] /\ (k # 1 => g[k - 1] = f[k - 1])
        OBVIOUS
      <4>. HIDE DEF g
      <4>1. seqs[k] \in V
        OBVIOUS
      <4>2. CASE k = 1
        BY <2>1, <4>0, <4>1, <4>2
      <4>3. CASE k # 1
        <5>1. f[k] = f[k - 1] \o seqs[k]
          BY <2>1, <4>3
        <5>. HIDE DEF V
        <5>. QED
          BY <2>2, <3>2, <4>0, <4>1, <4>3, <5>1
      <4>. QED
        BY <4>2, <4>3
    <3>. QED
      BY <3>1, <3>2
  <2>4. \A k \in 0..n : g[k] \in V
    <3>. HIDE DEF g, V
    <3>. QED
      BY <2>3, Typed
  <2>5. g[n] = f[n] /\ n \in 0..n
    BY <1>3
  <2>. HIDE DEF g
  <2>. QED
    BY <2>1, <2>4, <2>5
<1>. QED
  BY <1>2, <1>3

(* Selected elements are elements. *)
LEMMA SelectedTyped ==
    ASSUME NEW S, NEW s \in Seq(S), NEW T
    PROVE  Selected(s, T) \in Seq(S)
<1>. DEFINE n == Len(s)
            parts == [k \in DOMAIN s |-> IF k \in T THEN <<s[k]>> ELSE <<>>]
<1>1. n \in Nat /\ DOMAIN s = 1..n /\ \A k \in 1..n : s[k] \in S
  OBVIOUS
<1>. HIDE DEF n
<1>2. parts = [k \in 1..n |-> parts[k]] /\ \A k \in 1..n : parts[k] \in Seq(S)
  BY <1>1
<1>. HIDE DEF parts
<1>3. FlattenSeq(parts) \in Seq(S)
  BY <1>1, <1>2, FlattenTyped
<1>. QED
  BY <1>3 DEF Selected, parts

-----------------------------------------------------------------------------
(***************************************************************************)
(* The bytes of literals and the sizes of data.                            *)
(***************************************************************************)

(* Lists of bytes *)
Bytes == Seq(0..255)

(* A list of members of S *)
LEMMA IsList ==
    ASSUME NEW S, NEW n \in Nat, NEW s, s = [k \in 1..n |-> s[k]], \A k \in 1..n : s[k] \in S
    PROVE  s \in Seq(S)
OBVIOUS

(* A number is written as bytes, whatever it is. *)
LEMMA BytesOfNumber ==
    ASSUME NEW v \in Int, NEW n \in {1, 2, 4}
    PROVE  BE(v, n) \in Bytes
<1>1. ASSUME NEW k \in 1..n PROVE (v \div Powers[n - k + 1]) % 256 \in 0..255
  <2>1. n - k + 1 \in {1, 2, 3, 4}
    OBVIOUS
  <2>2. Powers[n - k + 1] \in {1, 256, 65536, 16777216}
    BY <2>1 DEF Powers
  <2>3. v \div Powers[n - k + 1] \in Int
    BY <2>2
  <2>. DEFINE q == v \div Powers[n - k + 1]
  <2>4. q \in Int
    BY <2>3
  <2>. HIDE DEF q
  <2>5. q % 256 \in 0..255
    BY <2>4
  <2>. QED
    BY <2>5 DEF q
<1>2. BE(v, n) = [k \in 1..n |-> BE(v, n)[k]] /\ \A k \in 1..n : BE(v, n)[k] \in 0..255
  BY <1>1 DEF BE
<1>3. n \in Nat
  OBVIOUS
<1>. DEFINE b == BE(v, n)
<1>. HIDE DEF b
<1>4. b \in Seq(0..255)
  BY <1>2, <1>3, IsList DEF b
<1>. QED
  BY <1>4 DEF Bytes, b

(* Zeros are bytes. *)
LEMMA ZeroFacts ==
    ASSUME NEW n \in Int
    PROVE  Zeros(n) \in Bytes
<1>1. CASE n \in Nat
  BY <1>1 DEF Zeros, Bytes
<1>2. CASE n \notin Nat
  <2>1. 1..n = {}
    BY <1>2
  <2>2. Zeros(n) = [k \in 1..0 |-> 0]
    BY <2>1 DEF Zeros
  <2>. QED
    BY <2>2 DEF Bytes
<1>. QED
  BY <1>1, <1>2

(* Lists of bytes, one after the other *)
LEMMA JoinBytes ==
    ASSUME NEW v \in Bytes, NEW w \in Bytes
    PROVE  v \o w \in Bytes /\ Len(v \o w) = Len(v) + Len(w) /\ Len(v) \in Nat /\ Len(w) \in Nat
BY DEF Bytes

(* The size of data is a number. *)
Products(d) ==
    CHOOSE f : f = [k \in 0..Len(Dimensions(d)) |->
                      IF k = 0 THEN Size[d.type] ELSE f[k - 1] * Dimensions(d)[k]]

(* The size of a piece of data is the product of numbers. *)
LEMMA DataSizeFacts ==
    ASSUME NEW d \in DataNode
    PROVE  DataSize(d) \in Int
<1>. DEFINE s == Dimensions(d)
            n == Len(s)
            first == Size[d.type]
            Body(f) == [k \in 0..n |-> IF k = 0 THEN first ELSE f[k - 1] * s[k]]
            V == Int
            G == [k \in 1..n |-> [v \in V |-> v * s[k]]]
<1>0. s \in Seq(Int)
  <2>1. d.init.dims \in Seq(Nat) /\ d.dims \in Seq(Nat \cup {Inferred})
    BY DEF DataNode
  <2>2. Len(d.init.dims) \in Nat /\ \A i \in 1..Len(d.init.dims) : d.init.dims[i] \in Int
    BY <2>1
  <2>3. \A i \in 1..Len(d.dims) : d.dims[i] \in Int
    BY <2>1 DEF Inferred
  <2>4. \A i \in 1..Len(d.init.dims) :
          (IF i > Len(d.dims) \/ d.dims[i] = Inferred THEN d.init.dims[i] ELSE d.dims[i]) \in Int
    <3>1. Len(d.dims) \in Nat
      BY <2>1
    <3>. QED
      BY <2>2, <2>3, <3>1
  <2>. QED
    BY <2>2, <2>4 DEF Dimensions
<1>. HIDE DEF s
<1>1. n \in Nat /\ first \in V /\ \A k \in 1..n : s[k] \in V
  <2>1. first \in Int
    BY DEF DataNode, Size
  <2>. QED
    BY <1>0, <2>1
<1>2. G \in [1..n -> [V -> V]] /\ \A k \in 1..n : \A v \in V : G[k][v] = v * s[k]
  BY <1>1
<1>. HIDE DEF G, n, V, first
<1>3. \E f : f = Body(f)
  <2>0. Equation(n, V, first, G)
    BY <1>1, <1>2, Unrolled
  <2>1. PICK h \in [0..n -> V] : h = [k \in 0..n |-> IF k = 0 THEN first ELSE G[k][h[k - 1]]]
    BY <2>0 DEF Equation
  <2>2. \A k \in 0..n : k # 0 => h[k - 1] \in V /\ k \in 1..n
    BY <1>1
  <2>3. h = Body(h)
    BY <1>2, <2>1, <2>2
  <2>. QED
    BY <2>3
<1>. DEFINE f == Products(d)
<1>4. f = Body(f)
  <2>1. f = CHOOSE g : g = Body(g)
    BY DEF Products, s, n, first
  <2>. HIDE DEF Body, f
  <2>. QED
    BY <1>3, <2>1, Zenon
<1>5. \A k \in 0..n : f[k] = IF k = 0 THEN first ELSE f[k - 1] * s[k]
  BY <1>4, Zenon
<1>6. DataSize(d) = f[n]
  BY Zenon DEF DataSize, Products, s, n
<1>. HIDE DEF f
<1>7. f[0] \in V /\ \A k \in 1..n : f[k - 1] \in V => f[k] \in V
  BY <1>1, <1>5 DEF V
<1>8. \A k \in 0..n : f[k] \in V
  BY <1>1, <1>7, Typed
<1>. QED
  BY <1>1, <1>6, <1>8 DEF V

(* Tables of data *)
DataEntry == [public : BOOLEAN, mutable : BOOLEAN, size : Int, initialiser : Bytes]

(* The tables of data: finitely many names *)
Tables == UNION {[D -> DataEntry] : D \in {E \in SUBSET Ident : IsFiniteSet(E)}}

(* What a table of data is *)
LEMMA TablesFacts ==
    ASSUME NEW t
    PROVE  t \in Tables <=> /\ t = [n \in DOMAIN t |-> t[n]]
                            /\ DOMAIN t \subseteq Ident /\ IsFiniteSet(DOMAIN t)
                            /\ \A n \in DOMAIN t : t[n] \in DataEntry
BY DEF Tables

(* A literal that is known has a number for its value. *)
LEMMA LiteralFacts ==
    ASSUME NEW data \in Tables, NEW l \in LiteralNode, Known(data, l)
    PROVE  Literal(data, l).value \in Int
<1>1. CASE l.kind = "sizeof"
  <2>1. l.name \in DOMAIN data
    BY <1>1 DEF Known
  <2>2. data[l.name].size \in Int
    BY <2>1, TablesFacts DEF DataEntry
  <2>. QED
    BY <1>1, <2>2 DEF Literal, Lit
<1>2. CASE l.kind # "sizeof"
  BY <1>2 DEF Literal, LiteralNode
<1>. QED
  BY <1>1, <1>2

-----------------------------------------------------------------------------
(***************************************************************************)
(* The table of data.                                                      *)
(***************************************************************************)

(* The bytes of an initialiser that fits *)
LEMMA InitialiserFacts ==
    ASSUME NEW data \in Tables, NEW d \in DataNode, InitialiserFits(data, d)
    PROVE  Initialiser(data, d) \in Bytes
<1>. DEFINE vs == d.init.values
            n == Len(vs)
            S == 0..255
            parts == [k \in DOMAIN vs |-> BE(Literal(data, vs[k]).value, Size[d.type])]
<1>1. vs \in Seq(LiteralNode) /\ d.type \in DOMAIN Size
  BY DEF DataNode
<1>2. n \in Nat /\ DOMAIN vs = 1..n /\ \A k \in 1..n : vs[k] \in LiteralNode
  BY <1>1
<1>3. \A k \in 1..n : Known(data, vs[k])
  BY <1>2 DEF InitialiserFits
<1>4. Size[d.type] \in {1, 2, 4}
  BY <1>1 DEF Size
<1>. HIDE DEF n, vs
<1>5. ASSUME NEW k \in 1..n PROVE parts[k] \in Bytes
  <2>1. Literal(data, vs[k]).value \in Int
    BY <1>2, <1>3, LiteralFacts
  <2>. DEFINE v == Literal(data, vs[k]).value
              z == Size[d.type]
  <2>2. parts[k] = BE(v, z)
    BY <1>2
  <2>. HIDE DEF v, z
  <2>3. BE(v, z) \in Bytes
    BY <2>1, <1>4, BytesOfNumber DEF v, z
  <2>. QED
    BY <2>2, <2>3
<1>6. parts = [k \in 1..n |-> parts[k]]
  BY <1>2
<1>. HIDE DEF parts
<1>7. FlattenSeq(parts) \in Seq(S)
  <2>1. \A k \in 1..n : parts[k] \in Seq(S)
    BY <1>5 DEF Bytes
  <2>. HIDE DEF S
  <2>. QED
    BY <1>2, <1>6, <2>1, FlattenTyped
<1>. DEFINE b == FlattenSeq(parts)
            z == Zeros(DataSize(d) - Len(b))
<1>8. Initialiser(data, d) = b \o z
  BY DEF Initialiser, parts, vs
<1>. HIDE DEF b
<1>9. b \in Bytes
  BY <1>7 DEF Bytes, b
<1>10. DataSize(d) - Len(b) \in Int
  BY <1>9, DataSizeFacts DEF Bytes
<1>11. z \in Bytes
  BY <1>10, ZeroFacts
<1>. HIDE DEF z
<1>. QED
  BY <1>8, <1>9, <1>11, JoinBytes

(* What a declaration makes of the table *)
Declared == [ok : BOOLEAN, data : Tables]

(* A declaration that is in order enters the table. *)
LEMMA AddDataFacts ==
    ASSUME NEW data \in Tables, NEW d \in DataNode, InitialiserFits(data, d)
    PROVE  AddData(data, d) \in Tables
<1>. DEFINE D == DOMAIN data \cup {d.name}
            e == [public |-> d.public, mutable |-> d.mutable, size |-> DataSize(d),
                  initialiser |-> Initialiser(data, d)]
            t == [n \in D |-> IF n = d.name THEN e ELSE data[n]]
<1>1. e \in DataEntry
  BY DataSizeFacts, InitialiserFacts DEF DataEntry, DataNode
<1>2. /\ DOMAIN data \subseteq Ident /\ IsFiniteSet(DOMAIN data)
      /\ \A n \in DOMAIN data : data[n] \in DataEntry
  BY TablesFacts
<1>3. d.name \in Ident
  BY DEF DataNode
<1>4. D \subseteq Ident /\ IsFiniteSet(D)
  BY <1>2, <1>3, FS_AddElement
<1>5. AddData(data, d) = t
  BY DEF AddData
<1>. HIDE DEF D, e
<1>6. t = [n \in DOMAIN t |-> t[n]] /\ DOMAIN t = D /\ \A n \in D : t[n] \in DataEntry
  BY <1>1, <1>2 DEF D
<1>. HIDE DEF t
<1>. QED
  BY <1>4, <1>5, <1>6, TablesFacts

(* Every declaration leaves a table of data. *)
LEMMA DeclareFacts ==
    ASSUME NEW t \in Declared, NEW d \in DataNode
    PROVE  Declare(t, d) \in Declared /\ DOMAIN Declare(t, d).data \subseteq DOMAIN t.data \cup {d.name}
<1>1. CASE t.ok /\ InitialiserFits(t.data, d)
  <2>. DEFINE data == AddData(t.data, d)
  <2>1. data \in Tables
    BY <1>1, AddDataFacts DEF Declared
  <2>2. DOMAIN data = DOMAIN t.data \cup {d.name}
    BY DEF AddData
  <2>3. Declare(t, d) = [ok |-> TRUE, data |-> data]
    BY <1>1 DEF Declare
  <2>. HIDE DEF data
  <2>. QED
    BY <2>1, <2>2, <2>3 DEF Declared
<1>2. CASE ~(t.ok /\ InitialiserFits(t.data, d))
  BY <1>2 DEF Declare, Declared
<1>. QED
  BY <1>1, <1>2

(* The tables up to each declaration *)
DeclaredUpTo(decls) ==
    CHOOSE f : f = [k \in 0..Len(decls) |->
                      IF k = 0 THEN [ok |-> TRUE, data |-> <<>>] ELSE Declare(f[k - 1], decls[k])]

(* The table of the data of a file *)
LEMMA DataTableFacts ==
    ASSUME NEW decls \in Seq(DataNode)
    PROVE  DataTable(decls) \in Declared /\ DOMAIN DataTable(decls).data \subseteq NamesOf(decls)
<1>. DEFINE n == Len(decls)
            first == [ok |-> TRUE, data |-> <<>>]
            Body(f) == [k \in 0..n |-> IF k = 0 THEN first ELSE Declare(f[k - 1], decls[k])]
            V == {v \in Declared : DOMAIN v.data \subseteq NamesOf(decls)}
            G == [k \in 1..n |-> [v \in V |-> Declare(v, decls[k])]]
<1>1. n \in Nat /\ \A k \in 1..n : decls[k] \in DataNode
  OBVIOUS
<1>9. \A k \in 1..n : decls[k].name \in NamesOf(decls)
  BY DEF NamesOf
<1>0. first \in V
  <2>1. <<>> = [m \in DOMAIN <<>> |-> <<>>[m]] /\ DOMAIN <<>> = {}
    OBVIOUS
  <2>2. IsFiniteSet({})
    BY FS_EmptySet
  <2>3. <<>> \in Tables /\ DOMAIN <<>> = {}
    BY <2>1, <2>2, TablesFacts
  <2>. QED
    BY <2>3 DEF Declared
<1>. HIDE DEF first, n
<1>10. \A k \in 1..n : \A v \in V : Declare(v, decls[k]) \in V
  BY <1>1, <1>9, DeclareFacts
<1>. HIDE DEF V
<1>2. G \in [1..n -> [V -> V]] /\ \A k \in 1..n : \A v \in V : G[k][v] = Declare(v, decls[k])
  BY <1>10
<1>. HIDE DEF G, V
<1>3. \E f : f = Body(f)
  <2>0. Equation(n, V, first, G)
    BY <1>1, <1>0, <1>2, Unrolled
  <2>1. PICK h \in [0..n -> V] : h = [k \in 0..n |-> IF k = 0 THEN first ELSE G[k][h[k - 1]]]
    BY <2>0 DEF Equation
  <2>2. \A k \in 0..n : k # 0 => h[k - 1] \in V /\ k \in 1..n
    BY <1>1
  <2>3. h = Body(h)
    BY <1>2, <2>1, <2>2
  <2>. QED
    BY <2>3
<1>. DEFINE f == DeclaredUpTo(decls)
<1>4. f = Body(f)
  <2>1. f = CHOOSE g : g = Body(g)
    BY DEF DeclaredUpTo, n, first
  <2>. HIDE DEF Body, f
  <2>. QED
    BY <1>3, <2>1, Zenon
<1>5. \A k \in 0..n : f[k] = IF k = 0 THEN first ELSE Declare(f[k - 1], decls[k])
  BY <1>4, Zenon
<1>6. DataTable(decls) = f[n]
  BY Zenon DEF DataTable, DeclaredUpTo, n
<1>. HIDE DEF f
<1>7. f[0] \in V /\ \A k \in 1..n : f[k - 1] \in V => f[k] \in V
  BY <1>0, <1>1, <1>5, <1>10
<1>8. \A k \in 0..n : f[k] \in V
  BY <1>1, <1>7, Typed
<1>. QED
  BY <1>1, <1>6, <1>8 DEF V

-----------------------------------------------------------------------------
(***************************************************************************)
(* The instruction table.                                                  *)
(***************************************************************************)

(* The classes of operands *)
Classes == {"any", "int", "word", "byte", "same", "wf", "fw"}

(* An addressing mode has up to three operands, of classes. *)
Modes == {i_none, i_w, i_BHWF_a, i_a_BHWF, i_BHWF_bhwf, i_BHWF, i_w_a_a, i_w_a_b, i_WF_WF,
          i_BHW_bhw, i_BHW, i_BHW_b, i_a}

(* Every mode is a list of up to three classes. *)
LEMMA ModeFacts ==
    ASSUME NEW m \in Modes
    PROVE  m \in Seq(Classes) /\ Len(m) <= 3
<1>1. ASSUME NEW a \in Classes, NEW b \in Classes, NEW c \in Classes
      PROVE  /\ <<>> \in Seq(Classes) /\ Len(<<>>) <= 3
             /\ <<a>> \in Seq(Classes) /\ Len(<<a>>) <= 3
             /\ <<a, b>> \in Seq(Classes) /\ Len(<<a, b>>) <= 3
             /\ <<a, b, c>> \in Seq(Classes) /\ Len(<<a, b, c>>) <= 3
  OBVIOUS
<1>2. /\ "any" \in Classes /\ "int" \in Classes /\ "word" \in Classes /\ "byte" \in Classes
      /\ "same" \in Classes /\ "wf" \in Classes /\ "fw" \in Classes
  BY DEF Classes
<1>. QED
  BY <1>1, <1>2 DEF Modes, i_none, i_w, i_BHWF_a, i_a_BHWF, i_BHWF_bhwf, i_BHWF, i_w_a_a, i_w_a_b,
     i_WF_WF, i_BHW_bhw, i_BHW, i_BHW_b, i_a

(* The table of the instructions *)
LEMMA OpcodeFacts ==
    ASSUME NEW op \in DOMAIN Opcodes
    PROVE  /\ Opcodes[op] \in [mode : Modes, opcode : 0..109]
           /\ op = "timer" => Opcodes[op].mode = i_w
<1>. DEFINE D == [mode : Modes, opcode : 0..109]
<1>1. \A m \in Modes, o \in 0..109 : Def(m, o) \in D /\ Def(m, o).mode = m
  BY DEF Def
<1>2. /\ i_none \in Modes /\ i_w \in Modes /\ i_BHWF_a \in Modes
      /\ i_a_BHWF \in Modes /\ i_BHWF_bhwf \in Modes /\ i_BHWF \in Modes
      /\ i_w_a_a \in Modes /\ i_w_a_b \in Modes /\ i_WF_WF \in Modes
      /\ i_BHW_bhw \in Modes /\ i_BHW \in Modes /\ i_BHW_b \in Modes
      /\ i_a \in Modes
  BY DEF Modes
<1>. HIDE DEF D
<1>3. \A o \in DOMAIN Opcodes : Opcodes[o] \in D
  <2>1. Opcodes.halt \in D /\ Opcodes.pause \in D /\ Opcodes.timer \in D
    BY <1>1, <1>2 DEF Opcodes
  <2>2. Opcodes.usermode \in D /\ Opcodes.ireturn \in D /\ Opcodes.load \in D
    BY <1>1, <1>2 DEF Opcodes
  <2>3. Opcodes.store \in D /\ Opcodes.copy \in D /\ Opcodes.swap \in D
    BY <1>1, <1>2 DEF Opcodes
  <2>4. Opcodes.push \in D /\ Opcodes.pop \in D /\ Opcodes.blockcopy \in D
    BY <1>1, <1>2 DEF Opcodes
  <2>5. Opcodes.blockset \in D /\ Opcodes.negate \in D /\ Opcodes.add \in D
    BY <1>1, <1>2 DEF Opcodes
  <2>6. Opcodes.addcarry \in D /\ Opcodes.sub \in D /\ Opcodes.subborrow \in D
    BY <1>1, <1>2 DEF Opcodes
  <2>7. Opcodes.mult \in D /\ Opcodes.sdiv \in D /\ Opcodes.udiv \in D
    BY <1>1, <1>2 DEF Opcodes
  <2>8. Opcodes.srem \in D /\ Opcodes.urem \in D /\ Opcodes.not \in D
    BY <1>1, <1>2 DEF Opcodes
  <2>9. Opcodes.and \in D /\ Opcodes.or \in D /\ Opcodes.xor \in D
    BY <1>1, <1>2 DEF Opcodes
  <2>10. Opcodes.lshift \in D /\ Opcodes.srshift \in D /\ Opcodes.urshift \in D
    BY <1>1, <1>2 DEF Opcodes
  <2>11. Opcodes.lrot \in D /\ Opcodes.rrot \in D /\ Opcodes.lrotcarry \in D
    BY <1>1, <1>2 DEF Opcodes
  <2>12. Opcodes.rrotcarry \in D /\ Opcodes.jump \in D /\ Opcodes.compare \in D
    BY <1>1, <1>2 DEF Opcodes
  <2>13. Opcodes.blockcmp \in D /\ Opcodes.jequal \in D /\ Opcodes.jnotequal \in D
    BY <1>1, <1>2 DEF Opcodes
  <2>14. Opcodes.sjgreater \in D /\ Opcodes.sjgreatereq \in D /\ Opcodes.ujgreater \in D
    BY <1>1, <1>2 DEF Opcodes
  <2>15. Opcodes.ujgreatereq \in D /\ Opcodes.sjlesser \in D /\ Opcodes.sjlessereq \in D
    BY <1>1, <1>2 DEF Opcodes
  <2>16. Opcodes.ujlesser \in D /\ Opcodes.ujlessereq \in D /\ Opcodes.call \in D
    BY <1>1, <1>2 DEF Opcodes
  <2>17. Opcodes.return \in D /\ Opcodes.syscall \in D /\ Opcodes.sconvert \in D
    BY <1>1, <1>2 DEF Opcodes
  <2>18. Opcodes.uconvert \in D
    BY <1>1, <1>2 DEF Opcodes
  <2>19. DOMAIN Opcodes = {"halt", "pause", "timer", "usermode", "ireturn", "load",
                        "store", "copy", "swap", "push", "pop", "blockcopy",
                        "blockset", "negate", "add", "addcarry", "sub",
                        "subborrow", "mult", "sdiv", "udiv", "srem", "urem",
                        "not", "and", "or", "xor", "lshift", "srshift",
                        "urshift", "lrot", "rrot", "lrotcarry", "rrotcarry",
                        "jump", "compare", "blockcmp", "jequal", "jnotequal",
                        "sjgreater", "sjgreatereq", "ujgreater", "ujgreatereq",
                        "sjlesser", "sjlessereq", "ujlesser", "ujlessereq",
                        "call", "return", "syscall", "sconvert", "uconvert"}
    BY DEF Opcodes
  <2>. QED
    BY <2>1, <2>2, <2>3, <2>4, <2>5, <2>6, <2>7, <2>8, <2>9, <2>10, <2>11, <2>12, <2>13,
       <2>14, <2>15, <2>16, <2>17, <2>18, <2>19
<1>4. Opcodes["timer"] = Def(i_w, 2)
  BY DEF Opcodes
<1>5. op = "timer" => Opcodes[op].mode = i_w
  <2>1. 2 \in 0..109 /\ i_w \in Modes
    BY <1>2
  <2>2. Def(i_w, 2).mode = i_w
    BY <1>1, <2>1
  <2>. QED
    BY <1>4, <2>2
<1>. QED
  BY <1>3, <1>5 DEF D

-----------------------------------------------------------------------------
(***************************************************************************)
(* The choice of an overload.                                              *)
(***************************************************************************)

(* The number of an overload, operand by operand *)
ChoiceUpTo(mode, operands) ==
    CHOOSE f : f = [k \in 0..Len(mode) |->
          IF k = 0 THEN 0
          ELSE IF mode[k] \notin {"word", "byte", "same"} THEN f[k - 1]
          ELSE 2 * f[k - 1] + IF operands[k].kind = "reg" THEN 1 ELSE 0]

(* The choice c of the operands before operand k, and its own digit *)
Digit(mode, operands, k, c) ==
    IF mode[k] \notin {"word", "byte", "same"} THEN c
    ELSE 2 * c + IF operands[k].kind = "reg" THEN 1 ELSE 0

(* The choice of up to three operands is below 8, a digit for each. *)
LEMMA ChoiceFacts ==
    ASSUME NEW mode, Len(mode) \in 0..3, NEW operands
    PROVE  /\ Choice(mode, operands) \in 0..7
           /\ Len(mode) = 0 => Choice(mode, operands) = 0
           /\ Len(mode) = 1 => Choice(mode, operands) = Digit(mode, operands, 1, 0)
           /\ Len(mode) = 2 => Choice(mode, operands) =
                Digit(mode, operands, 2, Digit(mode, operands, 1, 0))
           /\ Len(mode) = 3 => Choice(mode, operands) =
                Digit(mode, operands, 3, Digit(mode, operands, 2, Digit(mode, operands, 1, 0)))
<1>. DEFINE n == Len(mode)
            Open(k) == mode[k] \notin {"word", "byte", "same"}
            Bit(k) == IF operands[k].kind = "reg" THEN 1 ELSE 0
            Body(f) == [k \in 0..n |-> IF k = 0 THEN 0 ELSE IF Open(k) THEN f[k - 1]
                                       ELSE 2 * f[k - 1] + Bit(k)]
            V == Int
            zero == 0
            G == [k \in 1..n |-> [v \in V |-> IF Open(k) THEN v ELSE 2 * v + Bit(k)]]
<1>1. n \in Nat /\ zero \in V /\ \A k \in 1..n : Bit(k) \in {0, 1}
  OBVIOUS
<1>. HIDE DEF n, Open, Bit
<1>2. /\ G \in [1..n -> [V -> V]]
      /\ \A k \in 1..n : \A v \in V : G[k][v] = IF Open(k) THEN v ELSE 2 * v + Bit(k)
  BY <1>1
<1>3. \E f : f = Body(f)
  <2>0. Equation(n, V, zero, G)
    <3>. HIDE DEF G, V, zero
    <3>. QED
      BY <1>1, <1>2, Unrolled
  <2>1. PICK h \in [0..n -> V] : h = [k \in 0..n |-> IF k = 0 THEN 0 ELSE G[k][h[k - 1]]]
    <3>. HIDE DEF G, V
    <3>. QED
      BY <2>0 DEF Equation
  <2>2. \A k \in 0..n : k # 0 => h[k - 1] \in V /\ k \in 1..n
    BY <1>1
  <2>3. h = Body(h)
    <3>. HIDE DEF G, V
    <3>. QED
      BY <1>2, <2>1, <2>2
  <2>. QED
    BY <2>3
<1>. DEFINE f == ChoiceUpTo(mode, operands)
<1>4. f = Body(f)
  <2>1. f = CHOOSE g : g = Body(g)
    BY DEF ChoiceUpTo, n, Open, Bit
  <2>. HIDE DEF Body, f
  <2>. QED
    BY <1>3, <2>1, Zenon
<1>5. \A k \in 0..n : f[k] = IF k = 0 THEN 0 ELSE IF Open(k) THEN f[k - 1]
                             ELSE 2 * f[k - 1] + Bit(k)
  BY <1>4, Zenon
<1>6. Choice(mode, operands) = f[n]
  BY Zenon DEF Choice, ChoiceUpTo, n
<1>. HIDE DEF f
<1>7. n \in 0..3
  BY DEF n
<1>. DEFINE D(k, c) == Digit(mode, operands, k, c)
<1>11. \A k \in 1..n : f[k] = D(k, f[k - 1])
  BY <1>5, <1>7 DEF Digit, Open, Bit
<1>8. f[0] = 0 /\ (n >= 1 => f[1] \in 0..1 /\ f[1] = D(1, 0))
  <2>1. f[0] = 0
    BY <1>5, <1>7
  <2>2. n >= 1 => f[1] = IF Open(1) THEN f[0] ELSE 2 * f[0] + Bit(1)
    BY <1>5, <1>7
  <2>3. n >= 1 => f[1] = D(1, f[1 - 1])
    BY <1>7, <1>11
  <2>. HIDE DEF D
  <2>. QED
    BY <1>1, <1>7, <2>1, <2>2, <2>3
<1>9. n >= 2 => f[2] \in 0..3 /\ f[2] = D(2, f[1])
  <2>1. n >= 2 => f[2] = IF Open(2) THEN f[1] ELSE 2 * f[1] + Bit(2)
    BY <1>5, <1>7
  <2>2. n >= 2 => f[2] = D(2, f[2 - 1])
    BY <1>7, <1>11
  <2>. HIDE DEF D
  <2>. QED
    BY <1>1, <1>7, <1>8, <2>1, <2>2
<1>10. n >= 3 => f[3] \in 0..7 /\ f[3] = D(3, f[2])
  <2>1. n >= 3 => f[3] = IF Open(3) THEN f[2] ELSE 2 * f[2] + Bit(3)
    BY <1>5, <1>7
  <2>2. n >= 3 => f[3] = D(3, f[3 - 1])
    BY <1>7, <1>11
  <2>. HIDE DEF D
  <2>. QED
    BY <1>1, <1>7, <1>9, <2>1, <2>2
<1>12. f[n] \in 0..7 /\ (n = 0 => f[n] = 0) /\ (n = 1 => f[n] = D(1, 0))
       /\ (n = 2 => f[n] = D(2, D(1, 0))) /\ (n = 3 => f[n] = D(3, D(2, D(1, 0))))
  <2>. HIDE DEF D
  <2>. QED
    BY <1>7, <1>8, <1>9, <1>10
<1>. QED
  BY <1>6, <1>12, Zenon DEF n

(* The state of the generator: the code so far, and the references to      *)
(* symbols in it.                                                          *)
Reference == [name : Ident, at : Nat]

(* The states of the generator *)
Generator == [code : Bytes, refs : Seq(Reference), starts : Seq(Nat), ok : BOOLEAN,
              failed : BOOLEAN, panic : BOOLEAN]

(* The state t goes on from st: bytes and references may have been added. *)
GoesOn(st, t) ==
    t \in Generator /\ t.starts = st.starts /\ t.failed = st.failed /\ Len(t.code) >= Len(st.code)

(* The tables of a file *)
Environments(env) ==
    /\ env.data \in Tables
    /\ \A n \in DOMAIN env.consts : env.consts[n] \in ConstNode
    /\ \A n \in DOMAIN env.labels : env.labels[n] \in LabelNode
    /\ DOMAIN env.labels \subseteq Ident /\ IsFiniteSet(DOMAIN env.labels)

(* A constant stands for an operand. *)
LEMMA OperandResolved ==
    ASSUME NEW env, Environments(env), NEW o \in OperandNode
    PROVE  Resolve(env, o) \in OperandNode
<1>1. CASE o.kind = "name" /\ o.name \in DOMAIN env.consts
  <2>1. env.consts[o.name].value \in LiteralNode
    BY <1>1 DEF Environments, ConstNode
  <2>. QED
    BY <1>1, <2>1 DEF Resolve, OperandNode
<1>2. CASE ~(o.kind = "name" /\ o.name \in DOMAIN env.consts)
  BY <1>2 DEF Resolve
<1>. QED
  BY <1>1, <1>2

(* A register has a type. *)
LEMMA RegisterFacts ==
    ASSUME NEW o \in OperandNode, o.kind = "reg"
    PROVE  o.ref \in 0..37 /\ RegisterType(o.ref) \in DOMAIN Size
<1>1. o.ref \in 0..37
  BY DEF OperandNode, LiteralNode
<1>. QED
  BY <1>1 DEF RegisterType, Size

(* A literal that an operand class accepts has all its names defined. *)
LEMMA AcceptsFacts ==
    ASSUME NEW env, Environments(env), NEW class \in Classes, NEW o \in OperandNode,
           NEW first \in DOMAIN Size
    PROVE  /\ AcceptsOperand(env, class, o, first) \in BOOLEAN
           /\ IsLiteral(o) /\ AcceptsOperand(env, class, o, first) =>
                o \in LiteralNode /\ Known(env.data, o)
<1>1. o.kind \in {"reg", "name", "lit", "sizeof"}
  BY DEF OperandNode, LiteralNode
<1>2. CASE o.kind = "reg"
  <2>1. AcceptsRegister(class, RegisterType(o.ref), first) \in BOOLEAN
    <3>1. CASE class = "any"
      BY <3>1 DEF AcceptsRegister
    <3>2. CASE class = "int"
      BY <3>2 DEF AcceptsRegister
    <3>3. CASE class \in {"word", "byte"}
      BY <3>3 DEF AcceptsRegister
    <3>4. CASE class = "same"
      BY <3>4 DEF AcceptsRegister
    <3>5. CASE class = "wf"
      BY <3>5 DEF AcceptsRegister
    <3>6. CASE class = "fw"
      BY <3>6 DEF AcceptsRegister
    <3>. QED
      BY <3>1, <3>2, <3>3, <3>4, <3>5, <3>6 DEF Classes
  <2>. QED
    BY <1>2, <2>1 DEF AcceptsOperand, IsLiteral
<1>3. CASE o.kind = "name"
  BY <1>3 DEF AcceptsOperand, IsLiteral
<1>4. CASE o.kind \in {"lit", "sizeof"}
  <2>1. AcceptsOperand(env, class, o, first) =
          (/\ class \in {"word", "byte", "same"}
           /\ Known(env.data, o)
           /\ Fits(Literal(env.data, o), LiteralType(class, first)))
    BY <1>4 DEF AcceptsOperand
  <2>2. o \in LiteralNode
    BY <1>4 DEF OperandNode
  <2>. QED
    BY <2>1, <2>2
<1>. QED
  BY <1>1, <1>2, <1>3, <1>4

-----------------------------------------------------------------------------
(***************************************************************************)
(* Operands.                                                               *)
(***************************************************************************)

(* The parts of a state of the generator *)
LEMMA GeneratorFacts ==
    ASSUME NEW st \in Generator
    PROVE  /\ st = [code |-> st.code, refs |-> st.refs, starts |-> st.starts, ok |-> st.ok,
                    failed |-> st.failed, panic |-> st.panic]
           /\ st.code \in Bytes /\ Len(st.code) \in Nat /\ st.refs \in Seq(Reference)
           /\ st.starts \in Seq(Nat) /\ st.ok \in BOOLEAN /\ st.failed \in BOOLEAN
           /\ st.panic \in BOOLEAN
BY DEF Generator, Bytes

(* One operand *)
LEMMA AddOperandFacts ==
    ASSUME NEW env, Environments(env), NEW class \in Classes, NEW o \in OperandNode,
           NEW first \in DOMAIN Size, NEW st \in Generator
    PROVE  LET t == AddOperand(env, class, o, first, st)
           IN  GoesOn(st, t) /\ (t.ok /\ o.kind = "name" => Len(t.code) = Len(st.code) + 4)
<1>. DEFINE t == AddOperand(env, class, o, first, st)
            ok == AcceptsOperand(env, class, o, first)
            Named == [st EXCEPT !.refs = Append(@, [name |-> o.name, at |-> Len(st.code)]),
                                !.code = @ \o Zeros(4), !.ok = ok]
            Register == [st EXCEPT !.code = Append(@, o.ref)]
            Number == [st EXCEPT !.code = @ \o BE(Literal(env.data, o).value,
                                                 Size[LiteralType(class, first)])]
            Rejected == [st EXCEPT !.ok = FALSE,
                           !.panic = IsLiteral(o) /\ class = "word" /\ ~Known(env.data, o)]
<1>0. o.kind \in {"reg", "name", "lit", "sizeof"} /\ ok \in BOOLEAN
  BY AcceptsFacts DEF OperandNode, LiteralNode
<1>6. t = IF ~st.ok THEN st ELSE
          CASE o.kind = "name" -> Named
            [] o.kind = "reg" /\ ok -> Register
            [] IsLiteral(o) /\ ok -> Number
            [] OTHER -> Rejected
  BY DEF AddOperand
<1>. HIDE DEF ok, t, Named, Register, Number, Rejected
<1>1. CASE ~st.ok
  BY <1>1, <1>6, GeneratorFacts DEF GoesOn, t
<1>2. CASE st.ok /\ o.kind = "name"
  <2>. DEFINE c == st.code \o Zeros(4)
              r == Append(st.refs, [name |-> o.name, at |-> Len(st.code)])
  <2>1. t = [st EXCEPT !.refs = r, !.code = c, !.ok = ok]
    <3>1. t = Named
      BY <1>2, <1>6 DEF IsLiteral
    <3>. QED
      BY <3>1 DEF Named
  <2>2. c \in Bytes /\ Len(c) = Len(st.code) + 4
    <3>1. Zeros(4) \in Bytes
      BY ZeroFacts
    <3>2. Len(Zeros(4)) = 4
      BY DEF Zeros
    <3>. QED
      BY <3>1, <3>2, GeneratorFacts, JoinBytes
  <2>3. r \in Seq(Reference)
    <3>1. o.name \in Ident
      BY <1>2 DEF OperandNode, LiteralNode
    <3>2. [name |-> o.name, at |-> Len(st.code)] \in Reference
      BY <3>1, GeneratorFacts DEF Reference
    <3>. QED
      BY <3>2, GeneratorFacts
  <2>. HIDE DEF c, r, t
  <2>4. t \in Generator /\ t.starts = st.starts /\ t.failed = st.failed /\ t.code = c
    BY <1>0, <2>1, <2>2, <2>3 DEF Generator
  <2>. QED
    BY <2>2, <2>4, GeneratorFacts DEF GoesOn, t
<1>3. CASE st.ok /\ o.kind = "reg" /\ ok
  <2>. DEFINE c == Append(st.code, o.ref)
  <2>1. t = [st EXCEPT !.code = c]
    <3>1. ~(o.kind = "name")
      BY <1>3
    <3>2. t = Register
      BY <1>3, <1>6, <3>1 DEF IsLiteral
    <3>. QED
      BY <3>2 DEF Register
  <2>2. c \in Bytes /\ Len(c) = Len(st.code) + 1
    <3>1. o.ref \in 0..255
      BY <1>3, RegisterFacts
    <3>. QED
      BY <3>1, GeneratorFacts DEF Bytes
  <2>. HIDE DEF c, t
  <2>3. t \in Generator /\ t.starts = st.starts /\ t.failed = st.failed /\ t.code = c
    BY <2>1, <2>2 DEF Generator
  <2>. QED
    BY <1>3, <2>2, <2>3, GeneratorFacts DEF GoesOn, t
<1>4. CASE st.ok /\ IsLiteral(o) /\ ok
  <2>. DEFINE v == Literal(env.data, o).value
              z == Size[LiteralType(class, first)]
              b == BE(v, z)
              c == st.code \o b
  <2>1. t = [st EXCEPT !.code = c]
    <3>1. o.kind \notin {"name", "reg"}
      BY <1>4 DEF IsLiteral
    <3>. QED
      BY <1>4, <1>6, <3>1 DEF Number
  <2>2. v \in Int
    <3>1. o \in LiteralNode /\ Known(env.data, o)
      BY <1>4, AcceptsFacts DEF ok
    <3>. QED
      BY <3>1, LiteralFacts DEF Environments
  <2>3. z \in {1, 2, 4}
    BY DEF LiteralType, Size
  <2>. HIDE DEF v, z
  <2>4. b \in Bytes
    BY <2>2, <2>3, BytesOfNumber
  <2>. HIDE DEF b
  <2>5. c \in Bytes /\ Len(c) >= Len(st.code)
    <3>1. st.code \in Bytes
      BY GeneratorFacts
    <3>2. c \in Bytes /\ Len(c) = Len(st.code) + Len(b) /\ Len(st.code) \in Nat /\ Len(b) \in Nat
      <4>. DEFINE a == st.code
      <4>. HIDE DEF a
      <4>1. a \o b \in Bytes /\ Len(a \o b) = Len(a) + Len(b) /\ Len(a) \in Nat /\ Len(b) \in Nat
        BY <2>4, <3>1, JoinBytes DEF a
      <4>. QED
        BY <4>1 DEF a
    <3>. QED
      BY <3>2
  <2>. HIDE DEF c, t
  <2>6. t \in Generator /\ t.starts = st.starts /\ t.failed = st.failed /\ t.code = c
    BY <2>1, <2>5 DEF Generator
  <2>. QED
    BY <1>4, <2>5, <2>6 DEF GoesOn, t, IsLiteral
<1>5. CASE st.ok /\ o.kind # "name" /\ ~(o.kind = "reg" /\ ok) /\ ~(IsLiteral(o) /\ ok)
  <2>. DEFINE p == IsLiteral(o) /\ class = "word" /\ ~Known(env.data, o)
  <2>1. t = [st EXCEPT !.ok = FALSE, !.panic = p]
    BY <1>5, <1>6 DEF Rejected
  <2>2. p \in BOOLEAN
    OBVIOUS
  <2>. HIDE DEF p, t
  <2>3. t \in Generator /\ t.starts = st.starts /\ t.failed = st.failed /\ t.code = st.code
    BY <2>1, <2>2 DEF Generator
  <2>. QED
    BY <1>5, <2>3, GeneratorFacts DEF GoesOn, t
<1>. QED
  BY <1>1, <1>2, <1>3, <1>4, <1>5

(* The type of the first operand, as the generator passes it on *)
FirstType(operands) ==
    IF Len(operands) > 0 /\ operands[1].kind = "reg" THEN RegisterType(operands[1].ref) ELSE "Word"

(* The states of the generator up to each operand *)
OperandsUpTo(env, mode, operands, st) ==
    CHOOSE f : f = [k \in 0..Len(operands) |->
      IF k = 0 THEN st
               ELSE AddOperand(env, mode[k], operands[k], FirstType(operands), f[k - 1])]

(* The operands are added one after the other. *)
OneByOne(env, mode, operands, st) ==
    LET f == OperandsUpTo(env, mode, operands, st)
    IN  /\ Operands(env, mode, operands, st) = f[Len(operands)]
        /\ \A k \in 0..Len(operands) :
             /\ f[k] \in Generator
             /\ f[k] = IF k = 0 THEN st
                       ELSE AddOperand(env, mode[k], operands[k], FirstType(operands), f[k - 1])

(* The first operand has a type. *)
LEMMA FirstTypeFacts ==
    ASSUME NEW operands \in Seq(OperandNode)
    PROVE  FirstType(operands) \in DOMAIN Size
<1>1. "Word" \in DOMAIN Size
  BY DEF Size
<1>2. CASE Len(operands) > 0 /\ operands[1].kind = "reg"
  <2>1. operands[1] \in OperandNode
    BY <1>2
  <2>. QED
    BY <1>2, <2>1, RegisterFacts DEF FirstType
<1>. QED
  BY <1>1, <1>2 DEF FirstType

(* All operands *)
LEMMA OperandsFacts ==
    ASSUME NEW env, Environments(env), NEW mode \in Seq(Classes), NEW operands \in Seq(OperandNode),
           Len(operands) = Len(mode), NEW st \in Generator
    PROVE  LET t == Operands(env, mode, operands, st)
           IN  /\ GoesOn(st, t)
               /\ Len(operands) = 1 /\ operands[1].kind = "name" /\ t.ok =>
                    Len(t.code) = Len(st.code) + 4
               /\ OneByOne(env, mode, operands, st)
<1>. DEFINE n == Len(operands)
            first == FirstType(operands)
            Step(v, k) == AddOperand(env, mode[k], operands[k], first, v)
            Body(f) == [k \in 0..n |-> IF k = 0 THEN st ELSE Step(f[k - 1], k)]
            V == {v \in Generator : GoesOn(st, v)}
            G == [k \in 1..n |-> [v \in V |-> Step(v, k)]]
<1>1. n \in Nat /\ \A k \in 1..n : mode[k] \in Classes /\ operands[k] \in OperandNode
  OBVIOUS
<1>2. first \in DOMAIN Size
  BY FirstTypeFacts
<1>3. st \in V
  BY GeneratorFacts DEF GoesOn
<1>. HIDE DEF n, first
<1>4. \A k \in 1..n : \A v \in Generator :
        /\ GoesOn(v, Step(v, k))
        /\ Step(v, k).ok /\ operands[k].kind = "name" => Len(Step(v, k).code) = Len(v.code) + 4
  BY <1>1, <1>2, AddOperandFacts, Zenon
<1>. HIDE DEF Step
<1>5. \A k \in 1..n : \A v \in V : Step(v, k) \in V
  <2>1. ASSUME NEW k \in 1..n, NEW v \in V PROVE Step(v, k) \in V
    <3>1. GoesOn(v, Step(v, k)) /\ GoesOn(st, v) /\ v \in Generator
      BY <1>4
    <3>2. Step(v, k) \in Generator
      BY <3>1 DEF GoesOn
    <3>3. Len(v.code) \in Nat /\ Len(st.code) \in Nat /\ Len(Step(v, k).code) \in Nat
      BY <3>1, <3>2, GeneratorFacts
    <3>. QED
      BY <3>1, <3>2, <3>3 DEF GoesOn
  <2>. QED
    BY <2>1
<1>. HIDE DEF V
<1>6. G \in [1..n -> [V -> V]] /\ \A k \in 1..n : \A v \in V : G[k][v] = Step(v, k)
  BY <1>5
<1>. HIDE DEF G
<1>7. \E f : f = Body(f)
  <2>0. Equation(n, V, st, G)
    BY <1>1, <1>3, <1>6, Unrolled
  <2>1. PICK h \in [0..n -> V] : h = [k \in 0..n |-> IF k = 0 THEN st ELSE G[k][h[k - 1]]]
    BY <2>0 DEF Equation
  <2>2. \A k \in 0..n : k # 0 => h[k - 1] \in V /\ k \in 1..n
    BY <1>1
  <2>3. h = Body(h)
    BY <1>6, <2>1, <2>2
  <2>. QED
    BY <2>3
<1>. DEFINE f == OperandsUpTo(env, mode, operands, st)
<1>8. f = Body(f)
  <2>1. f = CHOOSE g : g = Body(g)
    BY DEF OperandsUpTo, n, first, Step
  <2>. HIDE DEF Body, f
  <2>. QED
    BY <1>7, <2>1, Zenon
<1>9. \A k \in 0..n : f[k] = IF k = 0 THEN st ELSE Step(f[k - 1], k)
  BY <1>8, Zenon
<1>10. Operands(env, mode, operands, st) = f[n]
  BY Zenon DEF Operands, OperandsUpTo, FirstType, n
<1>. HIDE DEF f
<1>11. f[0] \in V /\ \A k \in 1..n : f[k - 1] \in V => f[k] \in V
  BY <1>1, <1>3, <1>5, <1>9
<1>12. \A k \in 0..n : f[k] \in V
  BY <1>1, <1>11, Typed
<1>13. GoesOn(st, f[n])
  BY <1>1, <1>12 DEF V
<1>14. ASSUME n = 1, operands[1].kind = "name", f[n].ok PROVE Len(f[n].code) = Len(st.code) + 4
  <2>1. f[0] = st /\ f[1] = Step(f[0], 1)
    BY <1>9, <1>14
  <2>. QED
    BY <1>4, <1>14, <2>1
<1>15. \A k \in 0..n : f[k] \in Generator
  BY <1>12 DEF V
<1>. QED
  BY <1>9, <1>10, <1>13, <1>14, <1>15 DEF OneByOne, n, f, Step, first

-----------------------------------------------------------------------------
(***************************************************************************)
(* Opcodes and instructions.                                               *)
(***************************************************************************)

(* The state t is one of the generator, and no instruction was begun or refused. *)
Preserved(st, t) == t \in Generator /\ t.starts = st.starts /\ t.failed = st.failed

(* Nothing but bytes is added. *)
Grows(st, t) ==
    t.refs = st.refs /\ t.panic = st.panic /\ t.ok = st.ok /\ Len(t.code) >= Len(st.code)

(* A piece of a list over S is a list over S. *)
LEMMA Piece ==
    ASSUME NEW S, NEW s \in Seq(S), NEW m \in Nat \ {0}, NEW n \in Nat, n <= Len(s)
    PROVE  SubSeq(s, m, n) \in Seq(S) /\ Len(SubSeq(s, m, n)) = IF m <= n THEN n - m + 1 ELSE 0
<1>1. \A i \in m..n : s[i] \in S
  OBVIOUS
<1>. QED
  BY <1>1, SubSeqProperties

(* The opcode inserted before or behind the operand, or put in its place *)
LEMMA InsertOpcodeFacts ==
    ASSUME NEW t \in Generator, NEW pos \in Nat \ {0}, t.ok => pos <= Len(t.code) + 1,
           NEW opcode \in 0..255
    PROVE  Preserved(t, InsertOpcode(t, pos, opcode)) /\ Grows(t, InsertOpcode(t, pos, opcode))
<1>. DEFINE u == InsertOpcode(t, pos, opcode)
            c == InsertAt(t.code, pos, opcode)
<1>1. CASE ~t.ok
  BY <1>1, GeneratorFacts DEF InsertOpcode, Preserved, Grows
<1>2. CASE t.ok
  <2>1. u = [t EXCEPT !.code = c]
    BY <1>2 DEF InsertOpcode
  <2>2. c \in Bytes /\ Len(c) >= Len(t.code)
    <3>. DEFINE a == SubSeq(t.code, 1, pos - 1)
                b == SubSeq(t.code, pos, Len(t.code))
    <3>1. t.code \in Seq(0..255) /\ Len(t.code) \in Nat /\ pos - 1 <= Len(t.code)
      BY <1>2, GeneratorFacts DEF Bytes
    <3>2. a \in Seq(0..255) /\ b \in Seq(0..255) /\ <<opcode>> \in Seq(0..255)
      <4>1. pos - 1 \in Nat
        OBVIOUS
      <4>2. <<opcode>> \in Seq(0..255)
        OBVIOUS
      <4>. DEFINE s == t.code
                  B == 0..255
      <4>3. s \in Seq(B) /\ Len(s) \in Nat /\ pos - 1 <= Len(s)
        BY <3>1
      <4>. HIDE DEF s, B
      <4>4. SubSeq(s, 1, pos - 1) \in Seq(B) /\ SubSeq(s, pos, Len(s)) \in Seq(B)
        BY <4>1, <4>3, Piece
      <4>. QED
        BY <4>2, <4>4 DEF s, B
    <3>4. Len(a) = pos - 1 /\ Len(b) >= Len(t.code) - (pos - 1)
      <4>. DEFINE s == t.code
                  B == 0..255
                  l == Len(s)
      <4>1. s \in Seq(B) /\ l \in Nat /\ pos - 1 <= l /\ pos - 1 \in Nat /\ 1 \in Nat \ {0}
        BY <3>1
      <4>. HIDE DEF s, B
      <4>3. Len(SubSeq(s, 1, pos - 1)) = IF 1 <= pos - 1 THEN (pos - 1) - 1 + 1 ELSE 0
        BY <4>1, Piece
      <4>4. Len(SubSeq(s, pos, l)) = IF pos <= l THEN l - pos + 1 ELSE 0
        BY <4>1, Piece
      <4>. QED
        BY <4>1, <4>3, <4>4 DEF s
    <3>. HIDE DEF a, b
    <3>3. (a \o <<opcode>>) \o b \in Seq(0..255) /\ Len((a \o <<opcode>>) \o b) >= Len(t.code)
      <4>1. a \o <<opcode>> \in Seq(0..255) /\ Len(a \o <<opcode>>) = pos
        BY <3>2, <3>4
      <4>. DEFINE d == a \o <<opcode>>
      <4>. HIDE DEF d
      <4>2. d \o b \in Seq(0..255) /\ Len(d \o b) >= Len(t.code)
        BY <3>1, <3>2, <3>4, <4>1 DEF d
      <4>. QED
        BY <4>2 DEF d
    <3>. QED
      BY <3>3 DEF InsertAt, Bytes, a, b
  <2>. HIDE DEF u, c
  <2>3. Preserved(t, u) /\ Grows(t, u)
    BY <2>1, <2>2 DEF Generator, Preserved, Grows
  <2>. QED
    BY <2>3 DEF u
<1>. QED
  BY <1>1, <1>2

(* An opcode put into its place leaves bytes. *)
LEMMA SetOpcodeFacts ==
    ASSUME NEW t \in Generator, NEW pos, NEW opcode \in 0..255
    PROVE  Preserved(t, SetOpcode(t, pos, opcode)) /\ Grows(t, SetOpcode(t, pos, opcode))
<1>. DEFINE u == SetOpcode(t, pos, opcode)
            c == [t.code EXCEPT ![pos] = opcode]
<1>1. CASE ~t.ok
  BY <1>1, GeneratorFacts DEF SetOpcode, Preserved, Grows
<1>2. CASE t.ok
  <2>1. u = [t EXCEPT !.code = c]
    BY <1>2 DEF SetOpcode
  <2>2. c \in Bytes /\ Len(c) = Len(t.code) /\ Len(c) \in Nat
    <3>. DEFINE a == t.code
    <3>1. a \in Seq(0..255)
      BY GeneratorFacts DEF Bytes
    <3>. HIDE DEF a
    <3>2. [a EXCEPT ![pos] = opcode] \in Seq(0..255) /\ Len([a EXCEPT ![pos] = opcode]) = Len(a)
          /\ Len(a) \in Nat
      <4>1. CASE pos \in 1..Len(a)
        BY <3>1, <4>1, ExceptSeq
      <4>2. CASE pos \notin DOMAIN a
        <5>1. [a EXCEPT ![pos] = opcode] = a
          BY <3>1, <4>2
        <5>. DEFINE B == 0..255
        <5>2. a \in Seq(B)
          BY <3>1
        <5>. HIDE DEF B
        <5>3. Len(a) \in Nat
          BY <5>2
        <5>. QED
          BY <5>1, <5>2, <5>3 DEF B
      <4>. QED
        BY <3>1, <4>1, <4>2
    <3>. QED
      BY <3>2 DEF Bytes, a
  <2>. HIDE DEF u, c
  <2>3. Preserved(t, u) /\ Grows(t, u)
    BY <2>1, <2>2 DEF Generator, Preserved, Grows
  <2>. QED
    BY <2>3 DEF u
<1>. QED
  BY <1>1, <1>2

(* One instruction *)
LEMMA EmitFacts ==
    ASSUME NEW env, Environments(env), NEW op, NEW def \in [mode : Modes, opcode : 0..109],
           op = "timer" => def.mode = i_w,
           NEW operands \in Seq(OperandNode), NEW st \in Generator
    PROVE  Preserved(st, Emit(env, op, def, operands, st))
<1>. DEFINE opcode == def.opcode + Choice(def.mode, operands)
            pos == Len(st.code) + 1
            t == Operands(env, def.mode, operands, st)
            st1 == [st EXCEPT !.code = Append(@, 0)]
            t1 == Operands(env, def.mode, operands, st1)
            at == IF operands[1].kind = "name" THEN pos + 4 ELSE pos
            Short == [st EXCEPT !.ok = FALSE]
            Timer == InsertOpcode(t, at, opcode)
            Other == SetOpcode(t1, pos, opcode)
<1>1. def.mode \in Seq(Classes) /\ Len(def.mode) \in 0..3 /\ def.opcode \in 0..109
  <2>1. def.mode \in Modes /\ def.opcode \in 0..109
    OBVIOUS
  <2>. DEFINE m == def.mode
  <2>. HIDE DEF m
  <2>2. m \in Seq(Classes) /\ Len(m) <= 3
    BY <2>1, ModeFacts DEF m
  <2>3. Len(m) \in Nat
    BY <2>2, LenProperties
  <2>4. Len(m) \in 0..3
    <3>. DEFINE z == Len(m)
    <3>. HIDE DEF z
    <3>1. z \in Nat /\ z <= 3
      BY <2>2, <2>3 DEF z
    <3>2. z \in 0..3
      BY <3>1
    <3>. QED
      BY <3>2 DEF z
  <2>. QED
    BY <2>1, <2>2, <2>4 DEF m
<1>2. opcode \in 0..255
  <2>. DEFINE c == Choice(def.mode, operands)
              o == def.opcode
  <2>1. c \in 0..7
    BY <1>1, ChoiceFacts
  <2>2. o \in 0..109
    BY <1>1
  <2>. HIDE DEF c, o
  <2>3. o + c \in 0..255
    BY <2>1, <2>2
  <2>. QED
    BY <2>3 DEF c, o
<1>3. Emit(env, op, def, operands, st) =
        CASE Len(operands) # Len(def.mode) -> Short
          [] Len(operands) = Len(def.mode) /\ op = "timer" -> Timer
          [] OTHER -> Other
  BY DEF Emit
<1>4. pos \in Nat \ {0} /\ Len(st.code) \in Nat
  BY GeneratorFacts
<1>. HIDE DEF opcode, Short, Timer, Other
<1>5. CASE Len(operands) # Len(def.mode)
  <2>1. Preserved(st, Short)
    BY DEF Short, Generator, Preserved
  <2>. QED
    BY <1>3, <1>5, <2>1
<1>6. CASE Len(operands) = Len(def.mode) /\ op = "timer"
  <2>1. Emit(env, op, def, operands, st) = Timer
    BY <1>3, <1>6
  <2>2. Len(operands) = 1
    BY <1>6 DEF i_w
  <2>3. /\ GoesOn(st, t)
        /\ operands[1].kind = "name" /\ t.ok => Len(t.code) = Len(st.code) + 4
    <3>. DEFINE m == def.mode
    <3>1. m \in Seq(Classes) /\ Len(operands) = Len(m) /\ t = Operands(env, m, operands, st)
      BY <1>1, <1>6
    <3>. HIDE DEF m, t
    <3>. QED
      BY <2>2, <3>1, OperandsFacts
  <2>. HIDE DEF t
  <2>4. t \in Generator /\ Len(t.code) \in Nat /\ Len(t.code) >= Len(st.code)
    BY <2>3, GeneratorFacts DEF GoesOn
  <2>5. at \in Nat \ {0} /\ (t.ok => at <= Len(t.code) + 1)
    BY <1>4, <2>3, <2>4
  <2>. HIDE DEF at
  <2>6. Preserved(t, Timer)
    BY <1>2, <2>4, <2>5, InsertOpcodeFacts DEF Timer
  <2>. QED
    BY <2>1, <2>3, <2>6 DEF Preserved, GoesOn
<1>7. CASE Len(operands) = Len(def.mode) /\ op # "timer"
  <2>1. Emit(env, op, def, operands, st) = Other
    BY <1>3, <1>7
  <2>2. st1 \in Generator /\ st1.starts = st.starts /\ st1.failed = st.failed
    <3>. DEFINE c == Append(st.code, 0)
    <3>1. c \in Bytes
      BY GeneratorFacts DEF Bytes
    <3>2. st1 = [st EXCEPT !.code = c]
      OBVIOUS
    <3>. HIDE DEF c, st1
    <3>. QED
      BY <3>1, <3>2 DEF Generator
  <2>. HIDE DEF st1
  <2>3. GoesOn(st1, t1)
    BY <1>1, <1>7, <2>2, OperandsFacts
  <2>. HIDE DEF t1, pos
  <2>4. Preserved(t1, Other)
    BY <1>2, <2>3, SetOpcodeFacts DEF Other, GoesOn
  <2>. QED
    BY <2>1, <2>2, <2>3, <2>4 DEF Preserved, GoesOn
<1>. QED
  BY <1>5, <1>6, <1>7

(* The instruction itself adds bytes and references. *)
LEMMA InstructionFacts ==
    ASSUME NEW env, Environments(env), NEW ins \in InstructionNode, NEW st \in Generator
    PROVE  Preserved(st, Instruction(env, ins, st))
<1>1. CASE ins.op \notin DOMAIN Opcodes
  BY <1>1 DEF Instruction, Generator, Preserved
<1>2. CASE ins.op \in DOMAIN Opcodes
  <2>. DEFINE ops == [k \in DOMAIN ins.operands |-> Resolve(env, ins.operands[k])]
              def == Opcodes[ins.op]
              op == ins.op
  <2>1. ops \in Seq(OperandNode)
    <3>1. ins.operands \in Seq(OperandNode)
      BY DEF InstructionNode
    <3>. DEFINE n == Len(ins.operands)
    <3>2. n \in Nat /\ DOMAIN ins.operands = 1..n
      BY <3>1
    <3>3. \A k \in 1..n : Resolve(env, ins.operands[k]) \in OperandNode
      BY <3>1, <3>2, OperandResolved
    <3>. QED
      BY <3>2, <3>3
  <2>2. def \in [mode : Modes, opcode : 0..109] /\ (op = "timer" => def.mode = i_w)
    BY <1>2, OpcodeFacts
  <2>3. Instruction(env, ins, st) = Emit(env, op, def, ops, st)
    BY <1>2 DEF Instruction
  <2>. HIDE DEF ops, def, op
  <2>4. Preserved(st, Emit(env, op, def, ops, st))
    BY <2>1, <2>2, EmitFacts
  <2>. QED
    BY <2>3, <2>4
<1>. QED
  BY <1>1, <1>2

(* Each instruction that does not panic has a place where it starts. *)
LEMMA AddInstructionFacts ==
    ASSUME NEW env, Environments(env), NEW ins \in InstructionNode, NEW st \in Generator
    PROVE  LET t == AddInstruction(env, ins, st)
           IN  /\ t \in Generator
               /\ ~t.panic => ~st.panic /\ Len(t.starts) = Len(st.starts) + 1
<1>1. CASE st.panic
  BY <1>1 DEF AddInstruction
<1>2. CASE ~st.panic
  <2>. DEFINE s == Append(st.starts, Len(st.code))
              st1 == [st EXCEPT !.ok = TRUE, !.starts = s]
              u == Instruction(env, ins, st1)
  <2>1. s \in Seq(Nat) /\ Len(s) = Len(st.starts) + 1
    BY GeneratorFacts
  <2>2. AddInstruction(env, ins, st) = NoteFailure(u)
    BY <1>2 DEF AddInstruction
  <2>. HIDE DEF s
  <2>3. st1 \in Generator /\ st1.starts = s
    BY <2>1 DEF Generator
  <2>. HIDE DEF st1
  <2>4. Preserved(st1, u)
    BY <2>3, InstructionFacts
  <2>. HIDE DEF u
  <2>5. u \in Generator /\ u.starts = s
    BY <2>3, <2>4 DEF Preserved
  <2>6. NoteFailure(u) \in Generator /\ NoteFailure(u).starts = s
    <3>1. (u.failed \/ ~u.ok) \in BOOLEAN
      OBVIOUS
    <3>. DEFINE b == u.failed \/ ~u.ok
    <3>2. NoteFailure(u) = [u EXCEPT !.failed = b] /\ b \in BOOLEAN
      BY DEF NoteFailure
    <3>. HIDE DEF b
    <3>. QED
      BY <2>5, <3>2 DEF Generator
  <2>. QED
    BY <1>2, <2>1, <2>2, <2>6
<1>. QED
  BY <1>1, <1>2

-----------------------------------------------------------------------------
(***************************************************************************)
(* The code of a file, and the tables by name.                             *)
(***************************************************************************)

(* The states of the generator up to each instruction *)
CodeUpTo(env, instrs) ==
    CHOOSE f : f = [k \in 0..Len(instrs) |->
                      IF k = 0 THEN NoCode ELSE AddInstruction(env, instrs[k], f[k - 1])]

(* The code of a file, and where its instructions begin *)
LEMMA CodeFacts ==
    ASSUME NEW env, Environments(env), NEW instrs \in Seq(InstructionNode)
    PROVE  /\ Code(env, instrs) \in Generator
           /\ ~Code(env, instrs).panic => Len(Code(env, instrs).starts) = Len(instrs)
           /\ Code(env, instrs) = CodeUpTo(env, instrs)[Len(instrs)]
           /\ \A k \in 0..Len(instrs) :
                /\ CodeUpTo(env, instrs)[k] \in Generator
                /\ CodeUpTo(env, instrs)[k] =
                     IF k = 0 THEN NoCode
                     ELSE AddInstruction(env, instrs[k], CodeUpTo(env, instrs)[k - 1])
<1>. DEFINE n == Len(instrs)
            first == NoCode
            Step(v, k) == AddInstruction(env, instrs[k], v)
            Body(f) == [k \in 0..n |-> IF k = 0 THEN first ELSE Step(f[k - 1], k)]
            V == Generator
            G == [k \in 1..n |-> [v \in V |-> Step(v, k)]]
<1>1. n \in Nat /\ \A k \in 1..n : instrs[k] \in InstructionNode
  OBVIOUS
<1>0. first \in V /\ first.starts = <<>> /\ Len(first.starts) = 0
  <2>1. <<>> \in Bytes /\ <<>> \in Seq(Reference) /\ <<>> \in Seq(Nat)
    BY DEF Bytes
  <2>. QED
    BY <2>1 DEF NoCode, Generator
<1>. HIDE DEF n, first
<1>2. \A k \in 1..n : \A v \in V :
        /\ Step(v, k) \in V
        /\ ~Step(v, k).panic => ~v.panic /\ Len(Step(v, k).starts) = Len(v.starts) + 1
  BY <1>1, AddInstructionFacts, Zenon
<1>. HIDE DEF Step, V
<1>6. G \in [1..n -> [V -> V]] /\ \A k \in 1..n : \A v \in V : G[k][v] = Step(v, k)
  BY <1>2
<1>. HIDE DEF G
<1>7. \E f : f = Body(f)
  <2>0. Equation(n, V, first, G)
    BY <1>1, <1>0, <1>6, Unrolled
  <2>1. PICK h \in [0..n -> V] : h = [k \in 0..n |-> IF k = 0 THEN first ELSE G[k][h[k - 1]]]
    BY <2>0 DEF Equation
  <2>2. \A k \in 0..n : k # 0 => h[k - 1] \in V /\ k \in 1..n
    BY <1>1
  <2>3. h = Body(h)
    BY <1>6, <2>1, <2>2
  <2>. QED
    BY <2>3
<1>. DEFINE f == CodeUpTo(env, instrs)
<1>8. f = Body(f)
  <2>1. f = CHOOSE g : g = Body(g)
    BY DEF CodeUpTo, n, first, Step
  <2>. HIDE DEF Body, f
  <2>. QED
    BY <1>7, <2>1, Zenon
<1>9. \A k \in 0..n : f[k] = IF k = 0 THEN first ELSE Step(f[k - 1], k)
  BY <1>8, Zenon
<1>10. Code(env, instrs) = f[n]
  BY Zenon DEF Code, CodeUpTo, n
<1>. HIDE DEF f
<1>11. f[0] \in V /\ \A k \in 1..n : f[k - 1] \in V => f[k] \in V
  BY <1>1, <1>0, <1>2, <1>9
<1>12. \A k \in 0..n : f[k] \in V
  BY <1>1, <1>11, Typed
<1>. DEFINE T == {k \in 0..n : ~f[k].panic => Len(f[k].starts) = k}
<1>13. 0 \in T
  BY <1>0, <1>1, <1>9
<1>14. ASSUME NEW k \in 0..(n - 1), k \in T PROVE k + 1 \in T
  <2>1. k + 1 \in 1..n /\ k + 1 \in 0..n /\ (k + 1) - 1 = k /\ k + 1 # 0 /\ k \in 0..n
    BY <1>1
  <2>2. f[k + 1] = Step(f[k], k + 1)
    BY <1>9, <2>1
  <2>3. f[k] \in V
    BY <1>12, <2>1
  <2>4. ~f[k + 1].panic => ~f[k].panic /\ Len(f[k + 1].starts) = Len(f[k].starts) + 1
    BY <1>2, <2>1, <2>2, <2>3
  <2>5. ~f[k + 1].panic => Len(f[k + 1].starts) = k + 1
    BY <1>14, <2>4
  <2>. QED
    BY <2>1, <2>5
<1>15. \A k \in 0..n : k \in T
  <2>. HIDE DEF T
  <2>. QED
    BY <1>1, <1>13, <1>14, InductionTo
<1>16. f[n] \in V /\ n \in T
  BY <1>1, <1>12, <1>15
<1>. QED
  BY <1>9, <1>10, <1>12, <1>16 DEF V, n, f, Step, first

(* The tables of a file have their types. *)
LEMMA ByNameFacts ==
    ASSUME NEW S, NEW decls \in Seq(S)
    PROVE  /\ DOMAIN ByName(decls) = NamesOf(decls)
           /\ \A n \in NamesOf(decls) : ByName(decls)[n] \in S /\ ByName(decls)[n].name = n
                                        /\ \E k \in DOMAIN decls : ByName(decls)[n] = decls[k]
<1>1. ASSUME NEW n \in NamesOf(decls)
      PROVE  ByName(decls)[n] \in S /\ ByName(decls)[n].name = n
             /\ \E k \in DOMAIN decls : ByName(decls)[n] = decls[k]
  <2>1. PICK k \in DOMAIN decls : decls[k].name = n
    BY DEF NamesOf
  <2>. DEFINE c == CHOOSE d \in Range(decls) : d.name = n
  <2>2. \E d \in Range(decls) : d.name = n
    BY <2>1 DEF Range
  <2>3. c \in Range(decls) /\ c.name = n
    BY <2>2
  <2>4. ByName(decls)[n] = c
    BY DEF ByName
  <2>. HIDE DEF c
  <2>5. \E j \in DOMAIN decls : c = decls[j]
    BY <2>3 DEF Range
  <2>. QED
    BY <2>3, <2>4, <2>5
<1>. QED
  BY <1>1 DEF ByName

(* A list has finitely many elements, *)
LEMMA ValuesAreFinite ==
    ASSUME NEW n \in Nat, NEW f, f = [k \in 1..n |-> f[k]]
    PROVE  IsFiniteSet({f[k] : k \in 1..n})
<1>. DEFINE S == 1..n
            T == {f[k] : k \in S}
<1>1. IsFiniteSet(S)
  BY FS_Interval
<1>2. f \in Surjection(S, T)
  <2>1. f \in [S -> T] /\ \A t \in T : \E s \in S : f[s] = t
    OBVIOUS
  <2>. HIDE DEF S, T
  <2>. QED
    BY <2>1 DEF Surjection
<1>. HIDE DEF S, T
<1>3. IsFiniteSet(T)
  BY <1>1, <1>2, FS_Surjection
<1>. QED
  BY <1>3 DEF S, T

(* and declarations have finitely many names. *)
LEMMA NamesAreFinite ==
    ASSUME NEW S, NEW decls \in Seq(S)
    PROVE  IsFiniteSet(NamesOf(decls))
<1>. DEFINE n == Len(decls)
            f == [k \in 1..n |-> decls[k].name]
<1>1. n \in Nat /\ DOMAIN decls = 1..n
  OBVIOUS
<1>2. NamesOf(decls) = {f[k] : k \in 1..n}
  BY <1>1 DEF NamesOf
<1>3. f = [k \in 1..n |-> f[k]]
  OBVIOUS
<1>. HIDE DEF f, n
<1>. QED
  BY <1>1, <1>2, <1>3, ValuesAreFinite

-----------------------------------------------------------------------------
(***************************************************************************)
(* The order of names.                                                     *)
(***************************************************************************)

(* Names compared as if both went on for ever with characters below all *)
Character(a, j) == IF j <= Len(a) THEN a[j] ELSE -1

(* The first place where the names a and b differ is i, and a has the smaller character. *)
FirstDifference(a, b, i) ==
    /\ Character(a, i) < Character(b, i)
    /\ \A j \in 1..(i - 1) : Character(a, j) = Character(b, j)

(* The elements of a list *)
LEMMA ElementsOf ==
    ASSUME NEW S, NEW s \in Seq(S)
    PROVE  Len(s) \in Nat /\ DOMAIN s = 1..Len(s) /\ \A k \in 1..Len(s) : s[k] \in S
OBVIOUS

(* The characters of names *)
Chars == 0..255

(* The characters of a name, and -1 beyond its end *)
LEMMA IdentFacts ==
    ASSUME NEW a \in Ident
    PROVE  /\ a \in Seq(Chars) /\ Len(a) \in Nat /\ DOMAIN a = 1..Len(a)
           /\ \A j \in 1..Len(a) : a[j] \in Chars
           /\ \A j \in Nat \ {0} : Character(a, j) \in Int
           /\ \A j \in Nat \ {0} : j <= Len(a) => Character(a, j) = a[j] /\ Character(a, j) >= 0
           /\ \A j \in Nat \ {0} : ~(j <= Len(a)) => Character(a, j) = -1
<1>1. a \in Seq(Chars)
  BY DEF Ident, Chars
<1>2. Len(a) \in Nat /\ DOMAIN a = 1..Len(a) /\ \A j \in 1..Len(a) : a[j] \in Chars
  BY <1>1, ElementsOf
<1>3. \A x \in Chars : x \in Int /\ x >= 0
  BY DEF Chars
<1>4. \A j \in Nat \ {0} : j <= Len(a) => j \in 1..Len(a)
  BY <1>2
<1>5. \A j \in Nat \ {0} : j <= Len(a) => Character(a, j) = a[j]
  BY DEF Character
<1>6. \A j \in Nat \ {0} : ~(j <= Len(a)) => Character(a, j) = -1
  BY DEF Character
<1>7. \A j \in Nat \ {0} : j <= Len(a) => Character(a, j) \in Int /\ Character(a, j) >= 0
  BY <1>2, <1>3, <1>4, <1>5
<1>8. \A j \in Nat \ {0} : Character(a, j) \in Int
  <2>1. -1 \in Int
    OBVIOUS
  <2>. QED
    BY <1>6, <1>7, <2>1
<1>. QED
  BY <1>1, <1>2, <1>5, <1>6, <1>7, <1>8

(* Names with equal characters begin alike. *)
LEMMA PrefixFacts ==
    ASSUME NEW a \in Ident, NEW b \in Ident, Len(a) <= Len(b)
    PROVE  SubSeq(a, 1, Len(a)) = SubSeq(b, 1, Len(a)) <=> \A j \in 1..Len(a) : a[j] = b[j]
<1>. DEFINE n == Len(a)
<1>1. n \in Nat /\ n \in Int /\ 1 \in Int /\ n - 1 + 1 = n /\ \A i \in 1..n : 1 + i - 1 = i /\ i \in 1..Len(b)
  BY IdentFacts
<1>2. \A i \in 1..n : a[i] \in Chars /\ b[i] \in Chars
  BY <1>1, IdentFacts
<1>. HIDE DEF n
<1>. DEFINE p == SubSeq(a, 1, n)
            q == SubSeq(b, 1, n)
<1>3. /\ p \in Seq(Chars) /\ Len(p) = n
      /\ \A i \in 1..n : p[i] = a[i]
  <2>1. /\ p \in Seq(Chars)
        /\ Len(p) = IF 1 <= n THEN n - 1 + 1 ELSE 0
        /\ \A i \in 1..(n - 1 + 1) : p[i] = a[1 + i - 1]
    BY <1>1, <1>2, SubSeqProperties
  <2>. QED
    BY <1>1, <2>1
<1>4. /\ q \in Seq(Chars) /\ Len(q) = n
      /\ \A i \in 1..n : q[i] = b[i]
  <2>1. /\ q \in Seq(Chars)
        /\ Len(q) = IF 1 <= n THEN n - 1 + 1 ELSE 0
        /\ \A i \in 1..(n - 1 + 1) : q[i] = b[1 + i - 1]
    BY <1>1, <1>2, SubSeqProperties
  <2>. QED
    BY <1>1, <2>1
<1>. HIDE DEF p, q
<1>5. p = q <=> \A j \in 1..n : a[j] = b[j]
  <2>1. ASSUME \A j \in 1..n : a[j] = b[j] PROVE p = q
    <3>1. \A j \in 1..Len(p) : p[j] = q[j]
      BY <1>3, <1>4, <2>1
    <3>. QED
      BY <1>3, <1>4, <3>1, SeqEqual
  <2>. QED
    BY <1>3, <1>4, <2>1
<1>. QED
  BY <1>5 DEF p, q, n

(* The order of names, by the first place where they differ *)
LEMMA BeforeFacts ==
    ASSUME NEW a \in Ident, NEW b \in Ident
    PROVE  Before(a, b) <=> \E i \in Nat \ {0} : FirstDifference(a, b, i)
<1>1. Len(a) \in Nat /\ Len(b) \in Nat /\ DOMAIN a = 1..Len(a) /\ DOMAIN b = 1..Len(b)
  BY IdentFacts
<1>2. ASSUME IsStrictPrefix(a, b) PROVE \E i \in Nat \ {0} : FirstDifference(a, b, i)
  <2>1. Len(a) <= Len(b) /\ a # b /\ SubSeq(a, 1, Len(a)) = SubSeq(b, 1, Len(a))
    BY <1>2 DEF IsStrictPrefix, IsPrefix
  <2>2. \A j \in 1..Len(a) : a[j] = b[j]
    BY <2>1, PrefixFacts
  <2>3. Len(a) # Len(b)
    <3>1. ASSUME Len(a) = Len(b) PROVE a = b
      <4>1. a \in Seq(Chars) /\ b \in Seq(Chars) /\ Len(a) \in Nat
        BY IdentFacts
      <4>. QED
        BY <2>2, <3>1, <4>1, SeqEqual
    <3>. QED
      BY <2>1, <3>1
  <2>. DEFINE i == Len(a) + 1
  <2>4. i \in Nat \ {0} /\ i <= Len(b) /\ ~(i <= Len(a)) /\ \A j \in 1..(i - 1) : j \in 1..Len(a)
    <3>. DEFINE m == Len(a)
                n == Len(b)
    <3>1. m \in Nat /\ n \in Nat /\ m <= n /\ m # n
      BY <1>1, <2>1, <2>3
    <3>. HIDE DEF m, n
    <3>2. /\ m + 1 \in Nat \ {0} /\ m + 1 <= n /\ ~(m + 1 <= m)
          /\ \A j \in 1..(m + 1 - 1) : j \in 1..m
      BY <3>1
    <3>. QED
      BY <3>2 DEF m, n
  <2>. HIDE DEF i
  <2>5. Character(a, i) = -1 /\ Character(b, i) >= 0
    BY <2>4, IdentFacts
  <2>6. \A j \in 1..(i - 1) : Character(a, j) = Character(b, j)
    <3>1. \A j \in 1..Len(a) : j <= Len(a) /\ j <= Len(b) /\ j \in Nat \ {0}
      BY <1>1, <2>1
    <3>. QED
      BY <2>2, <2>4, <3>1, IdentFacts
  <2>7. Character(b, i) \in Int
    BY <2>4, IdentFacts
  <2>8. FirstDifference(a, b, i)
    BY <2>5, <2>6, <2>7 DEF FirstDifference
  <2>. QED
    BY <2>4, <2>8
<1>3. ASSUME NEW i \in DOMAIN a \cap DOMAIN b, a[i] < b[i], \A j \in 1..(i - 1) : a[j] = b[j]
      PROVE  i \in Nat \ {0} /\ FirstDifference(a, b, i)
  <2>1. i \in Nat \ {0} /\ i <= Len(a) /\ i <= Len(b)
    BY <1>1
  <2>2. \A j \in 1..(i - 1) : j \in Nat \ {0} /\ j <= Len(a) /\ j <= Len(b)
    BY <1>1, <2>1
  <2>. QED
    BY <1>3, <2>1, <2>2, IdentFacts DEF FirstDifference
<1>4. ASSUME NEW i \in Nat \ {0}, FirstDifference(a, b, i) PROVE Before(a, b)
  <2>1. i <= Len(b)
    <3>1. /\ Character(a, i) \in Int /\ (i <= Len(a) => Character(a, i) >= 0)
          /\ ~(i <= Len(a)) => Character(a, i) = -1
          /\ ~(i <= Len(b)) => Character(b, i) = -1
      BY IdentFacts
    <3>. QED
      BY <1>1, <1>4, <3>1 DEF FirstDifference
  <2>2. CASE i <= Len(a)
    <3>1. i \in DOMAIN a \cap DOMAIN b
      BY <1>1, <2>1, <2>2
    <3>2. a[i] < b[i]
      BY <1>4, <2>1, <2>2, IdentFacts DEF FirstDifference
    <3>3. \A j \in 1..(i - 1) : j \in Nat \ {0} /\ j <= Len(a) /\ j <= Len(b)
      BY <1>1, <2>1, <2>2
    <3>4. \A j \in 1..(i - 1) : a[j] = b[j]
      BY <1>4, <3>3, IdentFacts DEF FirstDifference
    <3>. QED
      BY <3>1, <3>2, <3>4 DEF Before
  <2>3. CASE ~(i <= Len(a))
    <3>1. \A j \in 1..Len(a) : j \in 1..(i - 1) /\ j \in Nat \ {0} /\ j <= Len(a) /\ j <= Len(b)
      BY <1>1, <2>1, <2>3
    <3>2. \A j \in 1..Len(a) : a[j] = b[j]
      BY <1>4, <3>1, IdentFacts DEF FirstDifference
    <3>3. Len(a) <= Len(b) /\ Len(a) # Len(b)
      <4>. DEFINE m == Len(a)
                  n == Len(b)
      <4>1. m \in Nat /\ n \in Nat /\ i <= n /\ ~(i <= m)
        BY <1>1, <2>1, <2>3
      <4>. HIDE DEF m, n
      <4>2. m <= n /\ m # n
        BY <4>1
      <4>. QED
        BY <4>2 DEF m, n
    <3>4. SubSeq(a, 1, Len(a)) = SubSeq(b, 1, Len(a))
      BY <3>2, <3>3, PrefixFacts
    <3>. QED
      BY <3>3, <3>4 DEF Before, IsStrictPrefix, IsPrefix
  <2>. QED
    BY <2>2, <2>3
<1>. QED
  BY <1>2, <1>3, <1>4 DEF Before

(* It is a strict total order. *)
LEMMA BeforeIsOrder ==
    ASSUME NEW a \in Ident, NEW b \in Ident, NEW c \in Ident
    PROVE  /\ ~Before(a, a)
           /\ Before(a, b) /\ Before(b, c) => Before(a, c)
           /\ a # b => Before(a, b) \/ Before(b, a)
<1>1. \A j \in Nat \ {0} : Character(a, j) \in Int /\ Character(b, j) \in Int /\ Character(c, j) \in Int
  BY IdentFacts
<1>2. ~Before(a, a)
  BY <1>1, BeforeFacts DEF FirstDifference
<1>3. ASSUME Before(a, b), Before(b, c) PROVE Before(a, c)
  <2>1. PICK i \in Nat \ {0} : FirstDifference(a, b, i)
    BY <1>3, BeforeFacts
  <2>2. PICK k \in Nat \ {0} : FirstDifference(b, c, k)
    BY <1>3, BeforeFacts
  <2>. DEFINE m == IF i <= k THEN i ELSE k
  <2>3. m \in Nat \ {0} /\ m <= i /\ m <= k /\ (m = i \/ m = k)
    OBVIOUS
  <2>. HIDE DEF m
  <2>4. \A j \in 1..(m - 1) : j \in 1..(i - 1) /\ j \in 1..(k - 1)
    BY <2>3
  <2>5. \A j \in 1..(m - 1) : Character(a, j) = Character(c, j)
    BY <2>1, <2>2, <2>4 DEF FirstDifference
  <2>6. Character(a, m) < Character(c, m)
    <3>1. Character(a, m) < Character(b, m) \/ (m < i /\ Character(a, m) = Character(b, m))
      BY <2>1, <2>3 DEF FirstDifference
    <3>2. Character(b, m) < Character(c, m) \/ (m < k /\ Character(b, m) = Character(c, m))
      BY <2>2, <2>3 DEF FirstDifference
    <3>. QED
      BY <1>1, <2>3, <3>1, <3>2
  <2>. QED
    BY <2>3, <2>5, <2>6, BeforeFacts DEF FirstDifference
<1>4. ASSUME a # b PROVE Before(a, b) \/ Before(b, a)
  <2>. DEFINE T == {j \in Nat \ {0} : Character(a, j) # Character(b, j)}
  <2>1. T # {}
    <3>1. CASE Len(a) = Len(b)
      <4>1. a \in Seq(Chars) /\ b \in Seq(Chars) /\ Len(a) \in Nat
        BY IdentFacts
      <4>2. PICK j \in 1..Len(a) : a[j] # b[j]
        BY <1>4, <3>1, <4>1, SeqEqual
      <4>3. j \in Nat \ {0} /\ j <= Len(a) /\ j <= Len(b)
        BY <3>1, <4>1
      <4>. QED
        BY <4>2, <4>3, IdentFacts
    <3>2. CASE Len(a) # Len(b)
      <4>. DEFINE j == IF Len(a) < Len(b) THEN Len(b) ELSE Len(a)
      <4>1. Len(a) \in Nat /\ Len(b) \in Nat
        BY IdentFacts
      <4>2. j \in Nat \ {0} /\ (j <= Len(a) <=> ~(j <= Len(b)))
        BY <3>2, <4>1
      <4>. HIDE DEF j
      <4>3. Character(a, j) # Character(b, j)
        <5>1. /\ j <= Len(a) => Character(a, j) >= 0
              /\ ~(j <= Len(a)) => Character(a, j) = -1
          BY <4>2, IdentFacts
        <5>2. /\ j <= Len(b) => Character(b, j) >= 0
              /\ ~(j <= Len(b)) => Character(b, j) = -1
          BY <4>2, IdentFacts
        <5>. QED
          BY <4>2, <5>1, <5>2
      <4>. QED
        BY <4>2, <4>3
    <3>. QED
      BY <3>1, <3>2
  <2>2. PICK i \in T : \A k \in T : i <= k
    <3>1. T \in SUBSET Nat
      OBVIOUS
    <3>. HIDE DEF T
    <3>. QED
      BY <2>1, <3>1, LeastNumber
  <2>3. i \in Nat \ {0} /\ Character(a, i) # Character(b, i)
    OBVIOUS
  <2>4. \A j \in 1..(i - 1) : Character(a, j) = Character(b, j)
    <3>1. ASSUME NEW j \in 1..(i - 1), Character(a, j) # Character(b, j) PROVE FALSE
      <4>1. j \in T
        BY <2>3, <3>1
      <4>2. i <= j
        BY <2>2, <4>1
      <4>. QED
        BY <2>3, <4>2
    <3>. QED
      BY <3>1
  <2>5. FirstDifference(a, b, i) \/ FirstDifference(b, a, i)
    BY <1>1, <2>3, <2>4 DEF FirstDifference
  <2>. QED
    BY <2>3, <2>5, BeforeFacts
<1>. QED
  BY <1>2, <1>3, <1>4

-----------------------------------------------------------------------------
(***************************************************************************)
(* Names, sorted.                                                          *)
(***************************************************************************)

(* The names of S before n *)
Below(S, n) == {m \in S : Before(m, n)}

(* More names are below the greater one. *)
LEMMA BelowFacts ==
    ASSUME NEW S \in SUBSET Ident, IsFiniteSet(S), NEW m \in S, NEW n \in S, Before(m, n)
    PROVE  /\ Cardinality(Below(S, m)) \in Nat /\ Cardinality(Below(S, n)) \in Nat
           /\ Cardinality(Below(S, m)) < Cardinality(Below(S, n))
<1>1. Below(S, m) \subseteq Below(S, n)
  <2>1. ASSUME NEW k \in S, Before(k, m) PROVE Before(k, n)
    <3>1. k \in Ident /\ m \in Ident /\ n \in Ident
      OBVIOUS
    <3>. QED
      BY <2>1, <3>1, BeforeIsOrder
  <2>. QED
    BY <2>1 DEF Below
<1>2. m \in Below(S, n) /\ m \notin Below(S, m)
  <2>1. m \in Ident
    OBVIOUS
  <2>. QED
    BY <2>1, BeforeIsOrder DEF Below
<1>3. IsFiniteSet(Below(S, n)) /\ IsFiniteSet(Below(S, m))
  <2>1. Below(S, n) \in SUBSET S /\ Below(S, m) \in SUBSET S
    BY DEF Below
  <2>. QED
    BY <2>1, FS_Subset
<1>. DEFINE a == Below(S, m)
            b == Below(S, n)
<1>4. a \subseteq b /\ a # b /\ IsFiniteSet(a) /\ IsFiniteSet(b)
  BY <1>1, <1>2, <1>3
<1>. HIDE DEF a, b
<1>5. Cardinality(a) \in Nat /\ Cardinality(b) \in Nat
  BY <1>4, FS_CardinalityType
<1>6. Cardinality(a) <= Cardinality(b) /\ Cardinality(a) # Cardinality(b)
  <2>1. a \in SUBSET b
    BY <1>4
  <2>. QED
    BY <1>4, <2>1, FS_Subset
<1>7. Cardinality(a) < Cardinality(b)
  BY <1>5, <1>6
<1>. QED
  BY <1>5, <1>7 DEF a, b

(* Every place of the list holds a name. *)
LEMMA SortedFacts ==
    ASSUME NEW S \in SUBSET Ident, IsFiniteSet(S)
    PROVE  /\ Cardinality(S) \in Nat /\ Len(Sorted(S)) = Cardinality(S)
           /\ Sorted(S) \in Seq(S)
           /\ \A j, k \in 1..Cardinality(S) : Sorted(S)[j] = Sorted(S)[k] => j = k
<1>. DEFINE c == Cardinality(S)
            R == 0..(c - 1)
            f == [n \in S |-> Cardinality(Below(S, n))]
<1>1. c \in Nat
  BY FS_CardinalityType
<1>2. ASSUME NEW n \in S PROVE f[n] \in R
  <2>. DEFINE b == Below(S, n)
  <2>1. b \in SUBSET S /\ b # S /\ n \notin b
    <3>1. n \in Ident
      OBVIOUS
    <3>. QED
      BY <3>1, BeforeIsOrder DEF Below
  <2>2. f[n] = Cardinality(b)
    OBVIOUS
  <2>. HIDE DEF b, f
  <2>3. IsFiniteSet(b) /\ Cardinality(b) <= c /\ Cardinality(b) # c
    BY <2>1, FS_Subset
  <2>4. Cardinality(b) \in Nat
    BY <2>3, FS_CardinalityType
  <2>. HIDE DEF c
  <2>. QED
    BY <1>1, <2>2, <2>3, <2>4
<1>3. ASSUME NEW m \in S, NEW n \in S, f[m] = f[n] PROVE m = n
  <2>1. ASSUME NEW x \in S, NEW y \in S, Before(x, y) PROVE f[x] # f[y]
    <3>1. Cardinality(Below(S, x)) \in Nat /\ Cardinality(Below(S, y)) \in Nat
          /\ Cardinality(Below(S, x)) < Cardinality(Below(S, y))
      BY <2>1, BelowFacts
    <3>. QED
      BY <3>1
  <2>2. m \in Ident /\ n \in Ident
    OBVIOUS
  <2>3. m # n => Before(m, n) \/ Before(n, m)
    BY <2>2, BeforeIsOrder
  <2>. HIDE DEF f
  <2>. QED
    BY <1>3, <2>1, <2>3
<1>4. f \in Surjection(S, R)
  <2>1. f \in [S -> R]
    BY <1>2
  <2>. HIDE DEF f
  <2>2. f \in Injection(S, R)
    BY <1>3, <2>1 DEF Injection, IsInjective
  <2>3. IsFiniteSet(R) /\ Cardinality(R) = c
    <3>1. c - 1 \in Int /\ 0 \in Int
      BY <1>1
    <3>2. IsFiniteSet(0..(c - 1)) /\ Cardinality(0..(c - 1)) = IF 0 > c - 1 THEN 0 ELSE (c - 1) - 0 + 1
      <4>. DEFINE d == c - 1
      <4>. HIDE DEF d
      <4>1. IsFiniteSet(0..d) /\ Cardinality(0..d) = IF 0 > d THEN 0 ELSE d - 0 + 1
        BY <3>1, FS_Interval DEF d
      <4>. QED
        BY <4>1 DEF d
    <3>. HIDE DEF c
    <3>. QED
      BY <1>1, <3>2
  <2>. HIDE DEF R
  <2>. QED
    BY <2>2, <2>3, FS_Injection
<1>5. ASSUME NEW k \in 1..c
      PROVE  Sorted(S)[k] \in S /\ Cardinality({m \in S : Before(m, Sorted(S)[k])}) = k - 1
  <2>1. k - 1 \in R /\ k \in 1..Cardinality(S)
    BY <1>1
  <2>2. \E n \in S : f[n] = k - 1
    <3>. HIDE DEF f, R
    <3>. QED
      BY <1>4, <2>1 DEF Surjection
  <2>3. \E n \in S : Cardinality({m \in S : Before(m, n)}) = k - 1
    BY <2>2 DEF Below
  <2>. DEFINE P(n) == Cardinality({m \in S : Before(m, n)}) = k - 1
              x == CHOOSE n \in S : P(n)
  <2>4. Sorted(S)[k] = x
    BY <2>1 DEF Sorted
  <2>5. x \in S /\ P(x)
    <3>. HIDE DEF P
    <3>. QED
      BY <2>3 DEF P
  <2>. QED
    BY <2>4, <2>5
<1>6. Len(Sorted(S)) = c /\ Sorted(S) = [k \in 1..c |-> Sorted(S)[k]]
  <2>1. Sorted(S) = [k \in 1..c |-> CHOOSE n \in S : Cardinality({m \in S : Before(m, n)}) = k - 1]
    BY DEF Sorted
  <2>. DEFINE y == [k \in 1..c |-> CHOOSE n \in S : Cardinality({m \in S : Before(m, n)}) = k - 1]
  <2>2. Len(y) = c /\ y = [k \in 1..c |-> y[k]]
    <3>. HIDE DEF c
    <3>. QED
      BY <1>1
  <2>. QED
    BY <2>1, <2>2
<1>. HIDE DEF c
<1>7. Sorted(S) \in Seq(S)
  <2>. DEFINE y == Sorted(S)
  <2>. HIDE DEF y
  <2>. QED
    BY <1>1, <1>5, <1>6, IsList DEF y
<1>8. ASSUME NEW j \in 1..c, NEW k \in 1..c, Sorted(S)[j] = Sorted(S)[k] PROVE j = k
  <2>1. j - 1 = k - 1
    BY <1>5, <1>8
  <2>. QED
    BY <1>1, <2>1
<1>. QED
  BY <1>1, <1>6, <1>7, <1>8 DEF c

-----------------------------------------------------------------------------
(***************************************************************************)
(* Symbols and the places of data.                                         *)
(***************************************************************************)

(* The symbols of a file *)
LEMMA SymbolsFacts ==
    ASSUME NEW env, Environments(env), NEW gen \in Generator
    PROVE  Symbols(env, gen) \in SUBSET Ident /\ IsFiniteSet(Symbols(env, gen))
<1>. DEFINE A == DOMAIN env.data
            B == DOMAIN env.labels
            n == Len(gen.refs)
            f == [k \in 1..n |-> gen.refs[k].name]
            C == {f[k] : k \in 1..n}
<1>1. A \subseteq Ident /\ IsFiniteSet(A) /\ B \subseteq Ident /\ IsFiniteSet(B)
  BY TablesFacts DEF Environments
<1>2. n \in Nat /\ DOMAIN gen.refs = 1..n /\ \A k \in 1..n : gen.refs[k] \in Reference
  BY GeneratorFacts, ElementsOf
<1>3. {gen.refs[k].name : k \in DOMAIN gen.refs} = C
  BY <1>2
<1>4. C \subseteq Ident
  BY <1>2 DEF Reference
<1>5. IsFiniteSet(C)
  <2>1. f = [k \in 1..n |-> f[k]]
    OBVIOUS
  <2>. HIDE DEF f, n
  <2>. QED
    BY <1>2, <2>1, ValuesAreFinite
<1>6. Symbols(env, gen) = (A \cup B) \cup C
  BY <1>3 DEF Symbols
<1>. HIDE DEF A, B, C
<1>7. IsFiniteSet((A \cup B) \cup C)
  <2>1. IsFiniteSet(A \cup B)
    BY <1>1, FS_Union
  <2>. QED
    BY <1>5, <2>1, FS_Union
<1>. QED
  BY <1>1, <1>4, <1>6, <1>7

(* The references to a name *)
LEMMA ReferencesFacts ==
    ASSUME NEW gen \in Generator, NEW n
    PROVE  /\ References(gen, n) \in Seq(Reference) /\ Len(References(gen, n)) \in Nat
           /\ DOMAIN References(gen, n) = 1..Len(References(gen, n))
           /\ \A k \in 1..Len(References(gen, n)) : References(gen, n)[k] \in Reference
<1>. DEFINE r == References(gen, n)
<1>1. r \in Seq(Reference)
  BY GeneratorFacts, SelectedTyped DEF References
<1>. HIDE DEF r
<1>. QED
  BY <1>1, ElementsOf DEF r

(* Names sorted are a list of names. *)
LEMMA SortedNames ==
    ASSUME NEW S \in SUBSET Ident, IsFiniteSet(S)
    PROVE  /\ Len(Sorted(S)) \in Nat /\ DOMAIN Sorted(S) = 1..Len(Sorted(S))
           /\ \A k \in 1..Len(Sorted(S)) : Sorted(S)[k] \in S /\ Sorted(S)[k] \in Ident
<1>1. Sorted(S) \in Seq(S)
  BY SortedFacts
<1>. QED
  BY <1>1, ElementsOf

(* The sum of a list of numbers is a number. *)
LEMMA TotalTyped ==
    ASSUME NEW n \in Nat, NEW s, s = [k \in 1..n |-> s[k]], \A k \in 1..n : s[k] \in Int
    PROVE  Total(s) \in Int
<1>1. s \in Seq(Int)
  BY IsList
<1>. QED
  BY <1>1, TotalFacts

(* The size of the symbol table is a number, *)
LEMMA TableSizeFacts ==
    ASSUME NEW env, Environments(env), NEW gen \in Generator
    PROVE  TableSize(env, gen) \in Int
<1>. DEFINE names == Sorted(Symbols(env, gen))
            n == Len(names)
            s == [k \in DOMAIN names |-> SYMBOL_HEADER_LEN + Len(names[k])
                                          + 4 * Len(References(gen, names[k]))]
<1>1. n \in Nat /\ DOMAIN names = 1..n /\ \A k \in 1..n : names[k] \in Ident
  BY SymbolsFacts, SortedNames
<1>2. TableSize(env, gen) = Total(s)
  BY DEF TableSize
<1>. HIDE DEF names, n
<1>3. \A k \in 1..n : Len(names[k]) \in Nat /\ Len(References(gen, names[k])) \in Nat
  BY <1>1, ReferencesFacts, IdentFacts
<1>4. s = [k \in 1..n |-> s[k]] /\ \A k \in 1..n : s[k] \in Int
  BY <1>1, <1>3 DEF SYMBOL_HEADER_LEN
<1>. HIDE DEF s
<1>. QED
  BY <1>1, <1>2, <1>4, TotalTyped

(* The data of one kind, in order *)
LEMMA DataNamesFacts ==
    ASSUME NEW env, Environments(env), NEW mutable
    PROVE  DataNames(env, mutable) \in Seq(DOMAIN env.data)
<1>. DEFINE S == {n \in DOMAIN env.data : env.data[n].mutable = mutable}
<1>1. S \in SUBSET Ident /\ IsFiniteSet(S) /\ S \subseteq DOMAIN env.data
  <2>1. DOMAIN env.data \subseteq Ident /\ IsFiniteSet(DOMAIN env.data)
    BY TablesFacts DEF Environments
  <2>2. S \in SUBSET DOMAIN env.data
    OBVIOUS
  <2>. HIDE DEF S
  <2>. QED
    BY <2>1, <2>2, FS_Subset
<1>2. DataNames(env, mutable) = Sorted(S)
  BY DEF DataNames
<1>. HIDE DEF S
<1>3. Sorted(S) \in Seq(S)
  BY <1>1, SortedFacts
<1>4. Sorted(S) \in Seq(DOMAIN env.data)
  <2>. DEFINE D == DOMAIN env.data
              x == Sorted(S)
  <2>. HIDE DEF D, x
  <2>1. x \in Seq(S) /\ S \subseteq D
    BY <1>1, <1>3 DEF x, D
  <2>2. x \in Seq(D)
    BY <2>1
  <2>. QED
    BY <2>2 DEF x, D
<1>. QED
  BY <1>2, <1>4

(* so is the size of the data with given names, *)
LEMMA SizeOfAllFacts ==
    ASSUME NEW env, Environments(env), NEW names \in Seq(DOMAIN env.data)
    PROVE  SizeOfAll(env, names) \in Int
<1>. DEFINE n == Len(names)
            s == [k \in DOMAIN names |-> env.data[names[k]].size]
<1>1. n \in Nat /\ DOMAIN names = 1..n /\ \A k \in 1..n : names[k] \in DOMAIN env.data
  BY ElementsOf
<1>2. \A m \in DOMAIN env.data : env.data[m].size \in Int
  BY TablesFacts DEF Environments, DataEntry
<1>3. SizeOfAll(env, names) = Total(s)
  BY DEF SizeOfAll
<1>. HIDE DEF n
<1>4. s = [k \in 1..n |-> s[k]] /\ \A k \in 1..n : s[k] \in Int
  BY <1>1, <1>2
<1>. HIDE DEF s
<1>. QED
  BY <1>1, <1>3, <1>4, TotalTyped

(* and so is the place of a piece of data among the others. *)
LEMMA DataOffsetFacts ==
    ASSUME NEW env, Environments(env), NEW n
    PROVE  DataOffset(env, n) \in Int
<1>1. Earlier(env, n) \in Seq(DOMAIN env.data)
  <2>. DEFINE names == DataNames(env, env.data[n].mutable)
  <2>1. names \in Seq(DOMAIN env.data)
    BY DataNamesFacts
  <2>. HIDE DEF names
  <2>2. Selected(names, {k \in DOMAIN names : Before(names[k], n)}) \in Seq(DOMAIN env.data)
    BY <2>1, SelectedTyped
  <2>. QED
    BY <2>2 DEF Earlier, names
<1>2. SizeOfAll(env, Earlier(env, n)) \in Int
  BY <1>1, SizeOfAllFacts
<1>3. SizeOfAll(env, DataNames(env, FALSE)) \in Int
  BY DataNamesFacts, SizeOfAllFacts
<1>. DEFINE a == SizeOfAll(env, Earlier(env, n))
            b == SizeOfAll(env, DataNames(env, FALSE))
            c == IF env.data[n].mutable THEN b ELSE 0
<1>4. DataOffset(env, n) = a + c
  BY Zenon DEF DataOffset
<1>5. a \in Int /\ b \in Int
  BY <1>2, <1>3
<1>. HIDE DEF a, b
<1>6. c \in Int
  BY <1>5
<1>. HIDE DEF c
<1>. QED
  BY <1>4, <1>5, <1>6

-----------------------------------------------------------------------------
(***************************************************************************)
(* Sections and symbol table entries.                                      *)
(***************************************************************************)

(* Lists of bytes one after the other *)
LEMMA JoinLists ==
    ASSUME NEW n \in Nat, NEW seqs, seqs = [k \in 1..n |-> seqs[k]], \A k \in 1..n : seqs[k] \in Bytes
    PROVE  FlattenSeq(seqs) \in Bytes
<1>. DEFINE S == 0..255
<1>1. \A k \in 1..n : seqs[k] \in Seq(S)
  BY DEF Bytes
<1>. HIDE DEF S
<1>2. FlattenSeq(seqs) \in Seq(S)
  BY <1>1, FlattenTyped
<1>. QED
  BY <1>2 DEF Bytes, S

(* The sections of a file *)
WrittenSection == [flags : 0..255, data : Bytes]

(* The initial values of one kind of data *)
InitialBytes(env, mutable) ==
    FlattenSeq([k \in DOMAIN DataNames(env, mutable) |->
                  env.data[DataNames(env, mutable)[k]].initialiser])

(* Initial values are bytes. *)
LEMMA InitialBytesFacts ==
    ASSUME NEW env, Environments(env), NEW mutable
    PROVE  InitialBytes(env, mutable) \in Bytes
<1>. DEFINE names == DataNames(env, mutable)
            n == Len(names)
            s == [k \in DOMAIN names |-> env.data[names[k]].initialiser]
<1>1. names \in Seq(DOMAIN env.data)
  BY DataNamesFacts
<1>2. InitialBytes(env, mutable) = FlattenSeq(s)
  BY DEF InitialBytes
<1>. HIDE DEF names
<1>3. n \in Nat /\ DOMAIN names = 1..n /\ \A k \in 1..n : names[k] \in DOMAIN env.data
  BY <1>1, ElementsOf
<1>4. \A m \in DOMAIN env.data : env.data[m].initialiser \in Bytes
  BY TablesFacts DEF Environments, DataEntry
<1>. HIDE DEF n
<1>5. s = [k \in 1..n |-> s[k]] /\ \A k \in 1..n : s[k] \in Bytes
  BY <1>3, <1>4
<1>. HIDE DEF s
<1>. QED
  BY <1>2, <1>3, <1>5, JoinLists

(* The sections of the object file hold bytes. *)
LEMMA SectionsFacts ==
    ASSUME NEW env, Environments(env), NEW gen \in Generator, NEW entry
    PROVE  /\ Sections(env, gen, entry) \in Seq(WrittenSection) /\ Len(Sections(env, gen, entry)) \in Nat
           /\ DOMAIN Sections(env, gen, entry) = 1..Len(Sections(env, gen, entry))
           /\ \A k \in 1..Len(Sections(env, gen, entry)) :
                Sections(env, gen, entry)[k] \in WrittenSection
<1>. DEFINE fs == FLAG_EXECUTE + IF entry THEN FLAG_ENTRYPOINT ELSE 0
            a == [flags |-> fs, data |-> gen.code]
            b == [flags |-> FLAG_READ, data |-> InitialBytes(env, FALSE)]
            c == [flags |-> FLAG_READ + FLAG_WRITE, data |-> InitialBytes(env, TRUE)]
            all == AllSections(env, gen, entry)
            s == Sections(env, gen, entry)
<1>1. fs \in 0..255 /\ FLAG_READ \in 0..255 /\ FLAG_READ + FLAG_WRITE \in 0..255
  BY DEF FLAG_EXECUTE, FLAG_ENTRYPOINT, FLAG_READ, FLAG_WRITE
<1>2. gen.code \in Bytes
  BY GeneratorFacts
<1>. HIDE DEF fs
<1>3. a \in WrittenSection /\ b \in WrittenSection /\ c \in WrittenSection
  BY <1>1, <1>2, InitialBytesFacts DEF WrittenSection
<1>4. all = <<a, b, c>>
  BY DEF AllSections, InitialBytes, fs
<1>. HIDE DEF a, b, c, all, s
<1>5. all \in Seq(WrittenSection)
  BY <1>3, <1>4
<1>6. s \in Seq(WrittenSection)
  BY <1>5, SelectedTyped DEF s, all, Sections
<1>. QED
  BY <1>6, ElementsOf DEF s

(* The place where the data begin is a number. *)
LEMMA BaseFacts ==
    ASSUME NEW env, Environments(env), NEW gen \in Generator, NEW entry
    PROVE  Base(env, gen, entry) \in Int
<1>. DEFINE a == TableSize(env, gen)
            b == Len(Sections(env, gen, entry))
<1>1. a \in Int /\ b \in Int
  BY TableSizeFacts, SectionsFacts
<1>2. Base(env, gen, entry) = SIMOBJ_HEADER_LEN + a + SECTION_HEADER_LEN * b
  BY DEF Base
<1>. HIDE DEF a, b
<1>. QED
  BY <1>1, <1>2 DEF SIMOBJ_HEADER_LEN, SECTION_HEADER_LEN

(* Every label is at an instruction. *)
LabelsInside(env, gen) == \A n \in DOMAIN env.labels : env.labels[n].at \in 1..Len(gen.starts)

(* Every symbol has a number for its value, *)
LEMMA ValueFacts ==
    ASSUME NEW env, Environments(env), NEW gen \in Generator, NEW entry, LabelsInside(env, gen), NEW n
    PROVE  Value(env, gen, entry, n) \in Int
<1>. DEFINE origin == Base(env, gen, entry)
            len == Len(gen.code)
            offset == DataOffset(env, n)
            start == gen.starts[env.labels[n].at]
<1>1. origin \in Int /\ len \in Int /\ offset \in Int
  BY BaseFacts, GeneratorFacts, DataOffsetFacts
<1>2. n \in DOMAIN env.labels => start \in Int
  <2>1. \A k \in 1..Len(gen.starts) : gen.starts[k] \in Nat
    BY GeneratorFacts, ElementsOf
  <2>. QED
    BY <2>1 DEF LabelsInside
<1>3. Value(env, gen, entry, n) =
        CASE n \in DOMAIN env.data -> origin + len + offset
          [] n \in DOMAIN env.labels -> origin + start
          [] OTHER -> 0
  BY DEF Value
<1>. HIDE DEF origin, len, offset, start
<1>4. origin + len + offset \in Int /\ (n \in DOMAIN env.labels => origin + start \in Int)
  BY <1>1, <1>2
<1>. QED
  BY <1>3, <1>4

(* a byte for its type, *)
LEMMA TypeFacts ==
    ASSUME NEW env, NEW n
    PROVE  Type(env, n) \in 0..255
BY DEF Type, SYMBOL_TYPE_PUBLIC, SYMBOL_TYPE_INTERNAL, SYMBOL_TYPE_EXTERNAL

(* One byte is a list of bytes. *)
LEMMA OneByte ==
    ASSUME NEW x \in 0..255
    PROVE  <<x>> \in Bytes
BY DEF Bytes

(* A length that fits into a byte *)
LEMMA AtMost ==
    ASSUME NEW x \in Nat, NEW y \in 1..255, x <= y
    PROVE  x \in 0..255
OBVIOUS

(* The entry of a symbol whose name is not too long *)
LEMMA SymbolEntryFacts ==
    ASSUME NEW type \in 0..255, NEW value \in Int, NEW name \in Ident, Len(name) <= MaxName,
           NEW refs, NEW n \in Nat, refs = [k \in 1..n |-> refs[k]], \A k \in 1..n : refs[k] \in Int
    PROVE  SymbolEntry(type, value, name, refs) \in Bytes
<1>. DEFINE a == <<type>>
            b == BE(value, 4)
            c == <<Len(name)>>
            d == BE(Len(refs), 4)
            s == [k \in DOMAIN refs |-> BE(refs[k], 4)]
            e == FlattenSeq(s)
<1>1. Len(name) \in 0..255
  <2>. DEFINE l == Len(name)
  <2>1. l \in Nat /\ l <= MaxName /\ MaxName \in 1..255
    BY IdentFacts, MaxNameAssumption
  <2>. HIDE DEF l
  <2>2. l \in 0..255
    BY <2>1, AtMost
  <2>. QED
    BY <2>2 DEF l
<1>2. a \in Bytes /\ c \in Bytes
  BY <1>1, OneByte
<1>3. b \in Bytes
  BY BytesOfNumber
<1>4. Len(refs) = n /\ DOMAIN refs = 1..n
  OBVIOUS
<1>5. d \in Bytes
  <2>1. Len(refs) \in Int
    BY <1>4
  <2>. QED
    BY <2>1, BytesOfNumber
<1>6. e \in Bytes
  <2>1. s = [k \in 1..n |-> s[k]] /\ \A k \in 1..n : s[k] \in Bytes
    BY <1>4, BytesOfNumber
  <2>. HIDE DEF s
  <2>. QED
    BY <2>1, JoinLists
<1>7. name \in Bytes
  BY DEF Ident, Bytes
<1>8. SymbolEntry(type, value, name, refs) = ((((a \o b) \o c) \o name) \o d) \o e
  BY DEF SymbolEntry
<1>. HIDE DEF a, b, c, d, e
<1>9. a \o b \in Bytes
  BY <1>2, <1>3, JoinBytes
<1>10. (a \o b) \o c \in Bytes
  BY <1>2, <1>9, JoinBytes
<1>11. ((a \o b) \o c) \o name \in Bytes
  BY <1>7, <1>10, JoinBytes
<1>12. (((a \o b) \o c) \o name) \o d \in Bytes
  BY <1>5, <1>11, JoinBytes
<1>. QED
  BY <1>6, <1>8, <1>12, JoinBytes

-----------------------------------------------------------------------------
(***************************************************************************)
(* The object file.                                                        *)
(***************************************************************************)

(* The entries of the symbol table *)
Entries(env, gen, entry) ==
    LET names == Sorted(Symbols(env, gen))
        origin == Base(env, gen, entry)
        Refs(n) == [k \in DOMAIN References(gen, n) |-> origin + References(gen, n)[k].at]
    IN  FlattenSeq([k \in DOMAIN names |->
             SymbolEntry(Type(env, names[k]), Value(env, gen, entry, names[k]), names[k],
                         Refs(names[k]))])

(* The symbol table consists of bytes if no name is longer than the longest allowed. *)
LEMMA EntriesFacts ==
    ASSUME NEW env, Environments(env), NEW gen \in Generator, NEW entry, LabelsInside(env, gen),
           \A n \in Symbols(env, gen) : Len(n) <= MaxName
    PROVE  Entries(env, gen, entry) \in Bytes
<1>. DEFINE names == Sorted(Symbols(env, gen))
            origin == Base(env, gen, entry)
            Refs(n) == [k \in DOMAIN References(gen, n) |-> origin + References(gen, n)[k].at]
            Entry(n) == SymbolEntry(Type(env, n), Value(env, gen, entry, n), n, Refs(n))
            c == Len(names)
            s == [k \in DOMAIN names |-> Entry(names[k])]
<1>1. c \in Nat /\ DOMAIN names = 1..c
      /\ \A k \in 1..c : names[k] \in Symbols(env, gen) /\ names[k] \in Ident
  BY SymbolsFacts, SortedNames
<1>2. origin \in Int
  BY BaseFacts
<1>3. Entries(env, gen, entry) = FlattenSeq(s)
  BY DEF Entries
<1>. HIDE DEF names, origin, c
<1>4. ASSUME NEW n \in Ident, n \in Symbols(env, gen) PROVE Entry(n) \in Bytes
  <2>. DEFINE m == Len(References(gen, n))
              refs == Refs(n)
              type == Type(env, n)
              value == Value(env, gen, entry, n)
  <2>1. m \in Nat /\ DOMAIN References(gen, n) = 1..m
        /\ \A k \in 1..m : References(gen, n)[k] \in Reference
    BY ReferencesFacts
  <2>2. refs = [k \in 1..m |-> refs[k]] /\ \A k \in 1..m : refs[k] \in Int
    <3>1. \A k \in 1..m : References(gen, n)[k].at \in Nat
      BY <2>1 DEF Reference
    <3>. QED
      BY <1>2, <2>1, <3>1
  <2>3. type \in 0..255 /\ value \in Int
    BY TypeFacts, ValueFacts
  <2>4. Len(n) <= MaxName
    BY <1>4
  <2>. HIDE DEF m, refs, type, value
  <2>5. SymbolEntry(type, value, n, refs) \in Bytes
    BY <2>1, <2>2, <2>3, <2>4, SymbolEntryFacts
  <2>. QED
    BY <2>5 DEF refs, type, value
<1>. HIDE DEF Entry
<1>5. s = [k \in 1..c |-> s[k]] /\ \A k \in 1..c : s[k] \in Bytes
  BY <1>1, <1>4
<1>. HIDE DEF s
<1>. QED
  BY <1>1, <1>3, <1>5, JoinLists

(* So do the headers and the contents of the sections. *)
LEMMA SectionHeadersFacts ==
    ASSUME NEW ss, NEW n \in Nat, Len(ss) = n, DOMAIN ss = 1..n, \A k \in 1..n : ss[k] \in WrittenSection
    PROVE  /\ FlattenSeq([k \in DOMAIN ss |-> <<ss[k].flags>> \o BE(Len(ss[k].data), 4)]) \in Bytes
           /\ FlattenSeq([k \in DOMAIN ss |-> ss[k].data]) \in Bytes
<1>. DEFINE s == [k \in DOMAIN ss |-> <<ss[k].flags>> \o BE(Len(ss[k].data), 4)]
            t == [k \in DOMAIN ss |-> ss[k].data]
<1>1. ASSUME NEW k \in 1..n
      PROVE  <<ss[k].flags>> \o BE(Len(ss[k].data), 4) \in Bytes /\ ss[k].data \in Bytes
  <2>. DEFINE f == ss[k].flags
              d == ss[k].data
              l == Len(d)
  <2>1. f \in 0..255 /\ d \in Bytes
    BY DEF WrittenSection
  <2>. HIDE DEF f, d
  <2>2. l \in Int
    BY <2>1 DEF Bytes
  <2>. HIDE DEF l
  <2>3. <<f>> \in Bytes /\ BE(l, 4) \in Bytes
    BY <2>1, <2>2, OneByte, BytesOfNumber
  <2>4. <<f>> \o BE(l, 4) \in Bytes
    BY <2>3, JoinBytes
  <2>. QED
    BY <2>1, <2>4 DEF f, d, l
<1>2. s = [k \in 1..n |-> s[k]] /\ \A k \in 1..n : s[k] \in Bytes
  BY <1>1
<1>3. t = [k \in 1..n |-> t[k]] /\ \A k \in 1..n : t[k] \in Bytes
  BY <1>1
<1>. HIDE DEF s, t
<1>4. FlattenSeq(s) \in Bytes /\ FlattenSeq(t) \in Bytes
  BY <1>2, <1>3, JoinLists
<1>. QED
  BY <1>4 DEF s, t

(* The object file *)
LEMMA SimobjFacts ==
    ASSUME NEW env, Environments(env), NEW gen \in Generator, NEW entry, LabelsInside(env, gen),
           \A n \in Symbols(env, gen) : Len(n) <= MaxName
    PROVE  Simobj(env, gen, entry) \in Bytes
<1>. DEFINE names == Sorted(Symbols(env, gen))
            ss == Sections(env, gen, entry)
            m == Len(names)
            n == Len(ss)
            a == BE(ABI_VERSION, 2)
            b == BE(m, 4)
            c == BE(n, 4)
            d == Entries(env, gen, entry)
            e == FlattenSeq([k \in DOMAIN ss |-> <<ss[k].flags>> \o BE(Len(ss[k].data), 4)])
            f == FlattenSeq([k \in DOMAIN ss |-> ss[k].data])
<1>1. m \in Nat
  BY SymbolsFacts, SortedNames
<1>2. n \in Nat /\ DOMAIN ss = 1..n /\ \A k \in 1..n : ss[k] \in WrittenSection
  BY SectionsFacts
<1>3. Simobj(env, gen, entry) = (((((MAGIC_HEADER \o a) \o b) \o c) \o d) \o e) \o f
  BY DEF Simobj, Entries
<1>4. d \in Bytes
  BY EntriesFacts
<1>5. e \in Bytes /\ f \in Bytes
  <2>. HIDE DEF ss
  <2>. QED
    BY <1>2, SectionHeadersFacts
<1>6. a \in Bytes /\ b \in Bytes /\ c \in Bytes
  <2>1. ABI_VERSION \in Int /\ m \in Int /\ n \in Int
    BY <1>1, <1>2 DEF ABI_VERSION
  <2>. HIDE DEF m, n
  <2>. QED
    BY <2>1, BytesOfNumber
<1>7. MAGIC_HEADER \in Bytes
  BY DEF MAGIC_HEADER, Bytes
<1>. HIDE DEF a, b, c, d, e, f
<1>8. MAGIC_HEADER \o a \in Bytes
  BY <1>6, <1>7, JoinBytes
<1>9. (MAGIC_HEADER \o a) \o b \in Bytes
  BY <1>6, <1>8, JoinBytes
<1>10. ((MAGIC_HEADER \o a) \o b) \o c \in Bytes
  BY <1>6, <1>9, JoinBytes
<1>11. (((MAGIC_HEADER \o a) \o b) \o c) \o d \in Bytes
  BY <1>4, <1>10, JoinBytes
<1>12. ((((MAGIC_HEADER \o a) \o b) \o c) \o d) \o e \in Bytes
  BY <1>5, <1>11, JoinBytes
<1>. QED
  BY <1>3, <1>5, <1>12, JoinBytes

-----------------------------------------------------------------------------
(***************************************************************************)
(* What salt writes is bytes, in every state.                              *)
(***************************************************************************)

(* What the parser hands over *)
SourceNode == [consts : Seq(ConstNode), data : Seq(DataNode), labels : Seq(LabelNode),
               instrs : Seq(InstructionNode)]

(* The first pass builds tables with the right types. *)
LEMMA EnvFacts ==
    ASSUME NEW src \in SourceNode, NEW extra \in Seq(ConstNode)
    PROVE  Environments(Env(src, extra))
<1>. DEFINE env == Env(src, extra)
            cs == src.consts \o extra
            ls == src.labels
<1>1. cs \in Seq(ConstNode) /\ ls \in Seq(LabelNode) /\ src.data \in Seq(DataNode)
  <2>1. src.consts \in Seq(ConstNode)
    BY DEF SourceNode
  <2>2. cs \in Seq(ConstNode)
    BY <2>1
  <2>. QED
    BY <2>2 DEF SourceNode
<1>2. env.consts = ByName(cs) /\ env.labels = ByName(ls) /\ env.data = DataTable(src.data).data
  BY DEF Env
<1>. HIDE DEF env, cs, ls
<1>3. env.data \in Tables
  BY <1>1, <1>2, DataTableFacts DEF Declared
<1>4. \A n \in DOMAIN env.consts : env.consts[n] \in ConstNode
  BY <1>1, <1>2, ByNameFacts
<1>5. \A n \in DOMAIN env.labels : env.labels[n] \in LabelNode
  BY <1>1, <1>2, ByNameFacts
<1>6. DOMAIN env.labels \subseteq Ident
  <2>1. \A n \in DOMAIN env.labels : env.labels[n].name = n
    BY <1>1, <1>2, ByNameFacts
  <2>2. \A l \in LabelNode : l.name \in Ident
    BY DEF LabelNode
  <2>. QED
    BY <1>5, <2>1, <2>2
<1>7. IsFiniteSet(DOMAIN env.labels)
  BY <1>1, <1>2, ByNameFacts, NamesAreFinite
<1>. QED
  BY <1>3, <1>4, <1>5, <1>6, <1>7 DEF Environments, env

(* The names, numbers and instructions of an object file are all in order. *)
InOrderFor(env, gen, entry) ==
    /\ \A n \in Symbols(env, gen) : Len(n) <= MaxName
    /\ ~TooLarge(env, gen, entry)
    /\ ~gen.panic /\ ~gen.failed

(* The three ways in which the code generator ends *)
LEMMA ObjectFacts ==
    ASSUME NEW env, NEW gen, NEW entry
    PROVE  LET run == ObjectFile(env, gen, entry)
           IN  /\ run.outcome = "ok" =>
                    InOrderFor(env, gen, entry) /\ run.simobj = Simobj(env, gen, entry)
               /\ run.outcome = "panic" =>
                    \/ gen.panic \/ TooLarge(env, gen, entry)
                    \/ \E n \in Symbols(env, gen) : ~(Len(n) <= MaxName)
<1>. DEFINE Named == \A n \in Symbols(env, gen) : Len(n) <= MaxName
            Empty == Sections(env, gen, entry) = <<>>
            Large == TooLarge(env, gen, entry)
            Panics == gen.panic \/ (~Empty /\ (~Named \/ Large))
            Fails == ~gen.panic /\ (Empty \/ (Named /\ ~Large /\ gen.failed))
            file == Simobj(env, gen, entry)
            run == ObjectFile(env, gen, entry)
<1>1. run = CASE Panics -> [outcome |-> "panic", simobj |-> <<>>]
              [] Fails -> [outcome |-> "error", simobj |-> <<>>]
              [] OTHER -> [outcome |-> "ok", simobj |-> file]
  BY DEF ObjectFile
<1>2. ~(Panics /\ Fails)
  OBVIOUS
<1>3. ~Panics /\ ~Fails => Named /\ ~Large /\ ~gen.panic /\ ~gen.failed
  OBVIOUS
<1>4. Panics => gen.panic \/ Large \/ ~Named
  OBVIOUS
<1>. HIDE DEF Panics, Fails, file, run
<1>5. CASE Panics
  <2>1. run.outcome = "panic"
    BY <1>1, <1>2, <1>5
  <2>2. gen.panic \/ Large \/ \E n \in Symbols(env, gen) : ~(Len(n) <= MaxName)
    BY <1>4, <1>5
  <2>. QED
    BY <2>1, <2>2 DEF run
<1>6. CASE Fails
  <2>1. run.outcome = "error"
    BY <1>1, <1>2, <1>6
  <2>. QED
    BY <2>1 DEF run
<1>7. CASE ~Panics /\ ~Fails
  <2>1. run.outcome = "ok" /\ run.simobj = file
    BY <1>1, <1>7
  <2>. QED
    BY <1>3, <1>7, <2>1 DEF run, file, InOrderFor
<1>. QED
  BY <1>5, <1>6, <1>7

(* Every label of a file is at one of its instructions. *)
LEMMA LabelFacts ==
    ASSUME NEW src \in SourceNode, NEW extra \in Seq(ConstNode), New(src, extra),
           ~Code(Env(src, extra), src.instrs).panic
    PROVE  LabelsInside(Env(src, extra), Code(Env(src, extra), src.instrs))
<1>. DEFINE env == Env(src, extra)
            gen == Code(env, src.instrs)
<1>1. Environments(env) /\ env.labels = ByName(src.labels)
  <2>1. Environments(env)
    BY EnvFacts
  <2>. QED
    BY <2>1 DEF Env
<1>3. src.instrs \in Seq(InstructionNode) /\ src.labels \in Seq(LabelNode)
  BY DEF SourceNode
<1>. HIDE DEF env
<1>4. gen \in Generator /\ (~gen.panic => Len(gen.starts) = Len(src.instrs))
  BY <1>1, <1>3, CodeFacts
<1>5. ~gen.panic
  BY DEF env
<1>. HIDE DEF gen
<1>6. \A k \in DOMAIN src.labels : src.labels[k].at <= Len(src.instrs)
  BY DEF New
<1>7. ASSUME NEW n \in DOMAIN env.labels PROVE env.labels[n].at \in 1..Len(gen.starts)
  <2>1. PICK k \in DOMAIN src.labels : env.labels[n] = src.labels[k]
    BY <1>1, <1>3, ByNameFacts
  <2>2. env.labels[n].at \in Nat \ {0}
    BY <1>1 DEF Environments, LabelNode
  <2>3. env.labels[n].at <= Len(gen.starts) /\ Len(gen.starts) \in Nat
    BY <1>4, <1>5, <1>6, <2>1, GeneratorFacts, ElementsOf
  <2>. QED
    BY <2>2, <2>3
<1>. QED
  BY <1>7 DEF LabelsInside, env, gen

(* What the code generator writes is bytes. *)
LEMMA RunFacts ==
    ASSUME NEW src \in SourceNode, NEW extra \in Seq(ConstNode), New(src, extra), NEW entry,
           Run(src, extra, entry).outcome = "ok"
    PROVE  Run(src, extra, entry).simobj \in Bytes
<1>. DEFINE env == Env(src, extra)
            gen == Code(env, src.instrs)
            file == Simobj(env, gen, entry)
            run == ObjectFile(env, gen, entry)
<1>1. Environments(env) /\ src.instrs \in Seq(InstructionNode)
  BY EnvFacts DEF SourceNode
<1>2. Run(src, extra, entry) = run
  BY DEF Run, Generate
<1>. HIDE DEF env
<1>3. gen \in Generator
  BY <1>1, CodeFacts
<1>. HIDE DEF gen
<1>4. InOrderFor(env, gen, entry) /\ run.simobj = file
  BY <1>2, ObjectFacts
<1>5. LabelsInside(env, gen)
  BY <1>4, LabelFacts DEF InOrderFor, env, gen
<1>6. file \in Bytes
  BY <1>1, <1>3, <1>4, <1>5, SimobjFacts DEF InOrderFor
<1>. QED
  BY <1>2, <1>4, <1>6

(* The files keep their types in the order in which they are assembled. *)
LEMMA InputsFacts ==
    ASSUME NEW files \in Seq(SourceFile)
    PROVE  Inputs(files) \in Seq(SourceFile)
<1>. DEFINE a == Selected(files, {k \in DOMAIN files : ~files[k].entry})
            b == Selected(files, {k \in DOMAIN files : files[k].entry})
<1>1. a \in Seq(SourceFile) /\ b \in Seq(SourceFile)
  BY SelectedTyped
<1>2. Inputs(files) = a \o b
  BY DEF Inputs
<1>. HIDE DEF a, b
<1>. QED
  BY <1>1, <1>2

(* The invariant holds at first, *)
LEMMA AssembleInvInit == Init => AssembleInv
<1>. SUFFICES ASSUME Init PROVE AssembleInv
  OBVIOUS
<1>1. project.files \in Seq(SourceFile)
  BY ProjectsAssumption DEF Init
<1>2. todo \in Seq(SourceFile)
  BY <1>1, InputsFacts DEF Init
<1>3. consts = <<>> /\ objects = <<>>
  BY DEF Init
<1>. QED
  BY <1>2, <1>3 DEF AssembleInv, ObjectsAreBytes

(* and every step keeps it. *)
LEMMA AssembleInvStep == AssembleInv /\ [Next]_vars => AssembleInv'
<1>. SUFFICES ASSUME AssembleInv, [Next]_vars PROVE AssembleInv'
  OBVIOUS
<1>1. CASE UNCHANGED vars
  BY <1>1 DEF AssembleInv, ObjectsAreBytes, vars
<1>2. CASE Assemble
  <2>. DEFINE f == Head(todo)
  <2>1. pc = "assemble" /\ todo \in Seq(SourceFile) /\ todo # <<>> /\ consts \in Seq(ConstNode)
        /\ objects \in Seq(Linkable)
    BY <1>2 DEF Assemble, AssembleInv, ObjectsAreBytes
  <2>2. f \in SourceFile /\ Tail(todo) \in Seq(SourceFile)
    BY <2>1, HeadTailProperties
  <2>. HIDE DEF f
  <2>3. f.src \in SourceNode /\ f.id \in Nat
    BY <2>2 DEF SourceFile, SourceNode
  <2>4. CASE New(f.src, consts)
             /\ consts' = add_public_consts(f.src)
             /\ (\E run \in {Run(f.src, consts, f.entry)} :
                   objects' = IF run.outcome = "ok"
                                THEN Append(objects, [id |-> f.id, file |-> run.simobj])
                                ELSE objects)
             /\ todo' = Tail(todo)
    <3>1. consts' \in Seq(ConstNode)
      <4>. DEFINE cs == f.src.consts
                  a == Selected(cs, {k \in DOMAIN cs : cs[k].public})
      <4>1. cs \in Seq(ConstNode)
        BY <2>3 DEF SourceNode
      <4>2. a \in Seq(ConstNode)
        BY <4>1, SelectedTyped
      <4>3. consts' = consts \o a
        BY <2>4 DEF add_public_consts, PublicConsts
      <4>. HIDE DEF a
      <4>. QED
        BY <2>1, <4>2, <4>3
    <3>2. objects' \in Seq(Linkable)
      <4>. DEFINE run == Run(f.src, consts, f.entry)
                  o == [id |-> f.id, file |-> run.simobj]
      <4>1. objects' = IF run.outcome = "ok" THEN Append(objects, o) ELSE objects
        BY <2>4
      <4>2. run.outcome = "ok" => run.simobj \in Bytes
        BY <2>1, <2>3, <2>4, RunFacts
      <4>. HIDE DEF run
      <4>3. run.outcome = "ok" => o \in Linkable
        BY <2>3, <4>2 DEF Linkable, Bytes
      <4>. HIDE DEF o
      <4>. QED
        BY <2>1, <4>1, <4>3
    <3>. QED
      BY <2>2, <2>4, <3>1, <3>2 DEF AssembleInv, ObjectsAreBytes
  <2>5. CASE todo' = Tail(todo) /\ UNCHANGED <<consts, objects>>
    BY <2>1, <2>2, <2>5 DEF AssembleInv, ObjectsAreBytes
  <2>6. CASE UNCHANGED <<todo, consts, objects>>
    BY <2>1, <2>6 DEF AssembleInv, ObjectsAreBytes
  <2>. QED
    BY <1>2, <2>4, <2>5, <2>6 DEF Assemble, f
<1>3. CASE StartLinking \/ AddObjects \/ MergeSymbol \/ StartImage \/ ResolveSymbol \/ WriteImage
  <2>1. objects' = objects
    BY <1>3 DEF StartLinking, AddObjects, MergeSymbol, StartImage, ResolveSymbol, WriteImage
  <2>2. pc' # "assemble"
    BY <1>3 DEF StartLinking, AddObjects, MergeSymbol, StartImage, ResolveSymbol, WriteImage, Stop
  <2>. QED
    BY <2>1, <2>2 DEF AssembleInv, ObjectsAreBytes
<1>. QED
  BY <1>1, <1>2, <1>3 DEF Next

(* Whatever the sources, every object file salt writes is a string of      *)
(* bytes: every number in it is cut to its width, and the length of a      *)
(* name fits its byte because salt panics at a longer one                  *)
(* (ObjectsAreBytes).                                                      *)
THEOREM ObjectFilesAreBytes == Spec => []ObjectsAreBytes
<1>1. AssembleInv => ObjectsAreBytes
  BY DEF AssembleInv
<1>. QED
  BY <1>1, AssembleInvInit, AssembleInvStep, PTL DEF Spec

-----------------------------------------------------------------------------
(***************************************************************************)
(* Sections.                                                               *)
(***************************************************************************)

(* The type of a list, from that of its elements. *)
LEMMA RangeSeq ==
    ASSUME NEW s, NEW n \in Nat, s = [k \in 1..n |-> s[k]]
    PROVE  s \in Seq(Range(s)) /\ Len(s) = n /\ DOMAIN s = 1..n
<1>1. DOMAIN s = 1..n
  OBVIOUS
<1>2. s \in [1..n -> Range(s)]
  BY <1>1 DEF Range
<1>. QED
  BY <1>1, <1>2

(* A list is a list of its elements. *)
LEMMA SeqRange ==
    ASSUME NEW S, NEW s \in Seq(S)
    PROVE  s \in Seq(Range(s)) /\ Len(s) \in Nat /\ DOMAIN s = 1..Len(s)
<1>1. Len(s) \in Nat /\ s = [k \in 1..Len(s) |-> s[k]]
  OBVIOUS
<1>. QED
  BY <1>1, RangeSeq

(* Two lists, one after the other *)
LEMMA ConcatFacts ==
    ASSUME NEW s, NEW t, s \in Seq(Range(s)), t \in Seq(Range(t))
    PROVE  /\ Len(s) \in Nat /\ Len(t) \in Nat /\ Len(s \o t) = Len(s) + Len(t)
           /\ DOMAIN s = 1..Len(s) /\ DOMAIN t = 1..Len(t)
           /\ DOMAIN (s \o t) = 1..(Len(s) + Len(t))
           /\ s \o t \in Seq(Range(s \o t))
           /\ \A k \in 1..(Len(s) + Len(t)) :
                (s \o t)[k] = IF k <= Len(s) THEN s[k] ELSE t[k - Len(s)]
<1>. DEFINE S == Range(s) \cup Range(t)
<1>1. s \in Seq(S) /\ t \in Seq(S)
  OBVIOUS
<1>. HIDE DEF S
<1>2. /\ Len(s) \in Nat /\ Len(t) \in Nat /\ Len(s \o t) = Len(s) + Len(t)
      /\ DOMAIN s = 1..Len(s) /\ DOMAIN t = 1..Len(t)
      /\ s \o t \in Seq(S)
      /\ \A k \in 1..(Len(s) + Len(t)) :
           (s \o t)[k] = IF k <= Len(s) THEN s[k] ELSE t[k - Len(s)]
  BY <1>1
<1>3. s \o t \in Seq(Range(s \o t)) /\ DOMAIN (s \o t) = 1..Len(s \o t)
  BY <1>2, SeqRange
<1>. QED
  BY <1>2, <1>3

(* Where the sections end. *)
LEMMA EndFacts ==
    ASSUME NEW ss, Layout(ss)
    PROVE  /\ Len(ss) \in Nat /\ DOMAIN ss = 1..Len(ss)
           /\ Silk!SectionsEnd(ss) = IF Len(ss) = 0 THEN 0
                                     ELSE ss[Len(ss)].start + ss[Len(ss)].length
           /\ Silk!SectionsEnd(ss) \in Nat
           /\ \A k \in DOMAIN ss : ss[k].start + ss[k].length <= Silk!SectionsEnd(ss)
<1>. DEFINE S == Range(ss)
<1>0. ss \in Seq(S)
  BY DEF Layout
<1>. HIDE DEF S
<1>1. Len(ss) \in Nat /\ DOMAIN ss = 1..Len(ss) /\ (ss = <<>> <=> Len(ss) = 0)
  BY <1>0
<1>2. Silk!SectionsEnd(ss) = IF Len(ss) = 0 THEN 0 ELSE ss[Len(ss)].start + ss[Len(ss)].length
  BY <1>1 DEF Silk!SectionsEnd, Silk!Last
<1>3. \A k \in DOMAIN ss : ss[k].start \in Nat /\ ss[k].length \in Nat
  BY DEF Layout
<1>4. Silk!SectionsEnd(ss) \in Nat
  BY <1>1, <1>2, <1>3
<1>5. ASSUME NEW k \in DOMAIN ss PROVE ss[k].start + ss[k].length <= Silk!SectionsEnd(ss)
  <2>1. CASE k = Len(ss)
    BY <1>1, <1>2, <1>3, <2>1
  <2>2. CASE k # Len(ss)
    <3>1. Len(ss) \in DOMAIN ss /\ k < Len(ss) /\ Len(ss) # 0
      BY <1>1, <2>2
    <3>2. ss[k].start + ss[k].length <= ss[Len(ss)].start
      BY <3>1 DEF Layout
    <3>. QED
      BY <1>2, <1>3, <3>1, <3>2
  <2>. QED
    BY <2>1, <2>2
<1>. QED
  BY <1>1, <1>2, <1>4, <1>5

(* The section that holds an address is found. *)
LEMMA FindFacts ==
    ASSUME NEW ss, Layout(ss), NEW a \in Int, Inside(ss, a)
    PROVE  LET s == Silk!Find(ss, a)
           IN  s # 0 /\ s \in DOMAIN ss /\ a + 3 < ss[s].start + ss[s].length
<1>. DEFINE in == {k \in DOMAIN ss : ss[k].start <= a /\ a < ss[k].start + ss[k].length}
            s == Silk!Find(ss, a)
<1>1. /\ DOMAIN ss = 1..Len(ss) /\ Len(ss) \in Nat
      /\ \A k \in DOMAIN ss : ss[k].start \in Nat /\ ss[k].length \in Nat
  BY EndFacts DEF Layout
<1>2. PICK k \in DOMAIN ss : ss[k].start <= a /\ a + 3 < ss[k].start + ss[k].length
  BY DEF Inside
<1>3. k \in in
  BY <1>1, <1>2
<1>4. s \in in
  BY <1>3 DEF Silk!Find
<1>5. s = k
  <2>1. ~(s < k)
    BY <1>1, <1>2, <1>4 DEF Layout
  <2>2. ~(k < s)
    BY <1>1, <1>2, <1>4 DEF Layout
  <2>. QED
    BY <1>1, <1>4, <2>1, <2>2
<1>. QED
  BY <1>1, <1>2, <1>5

-----------------------------------------------------------------------------
(***************************************************************************)
(* The parser.                                                             *)
(***************************************************************************)

(* What the parser reads of a string of bytes is a byte or a number. *)
LEMMA ReadFacts ==
    ASSUME NEW file \in Seq(0..255), NEW p \in Nat
    PROVE  /\ Silk!At(file, p) \in 0..255
           /\ Silk!ReadU32(file, p) \in Nat
<1>. DEFINE S == 0..255
<1>0. Len(file) \in Nat /\ \A k \in 1..Len(file) : file[k] \in 0..255
  <2>1. file \in Seq(S)
    OBVIOUS
  <2>. HIDE DEF S
  <2>2. Len(file) \in Nat /\ \A k \in 1..Len(file) : file[k] \in S
    BY <2>1
  <2>. QED
    BY <2>2 DEF S
<1>. HIDE DEF S
<1>1. ASSUME NEW q \in Nat PROVE Silk!At(file, q) \in 0..255
  <2>1. q < Len(file) => q + 1 \in 1..Len(file)
    BY <1>0
  <2>. QED
    BY <1>0, <2>1 DEF Silk!At
<1>2. ASSUME NEW q \in Nat PROVE Silk!ReadU16(file, q) \in Nat
  <2>1. Silk!At(file, q) \in 0..255 /\ Silk!At(file, q + 1) \in 0..255
    BY <1>1
  <2>2. \A x, y \in 0..255 : (256 * x) + y \in Nat
    OBVIOUS
  <2>3. (256 * Silk!At(file, q)) + Silk!At(file, q + 1) \in Nat
    BY <2>1, <2>2
  <2>. QED
    BY <2>3, Zenon DEF Silk!ReadU16
<1>3. Silk!ReadU32(file, p) \in Nat
  <2>1. Silk!ReadU16(file, p) \in Nat /\ Silk!ReadU16(file, p + 2) \in Nat
    BY <1>2
  <2>. QED
    BY <2>1 DEF Silk!ReadU32
<1>. QED
  BY <1>1, <1>3

(* Blocks that lie one after the other end in their order. *)
LEMMA EndsFacts ==
    ASSUME NEW length, NEW n \in Nat, Len(length) = n, \A k \in 1..n : length[k] \in Nat
    PROVE  LET end == Silk!Ends(length)
           IN  /\ end[0] = 0
               /\ \A k \in 1..n : end[k] = end[k - 1] + length[k]
               /\ \A k \in 0..n : end[k] \in Nat
               /\ \A j, k \in 0..n : j <= k => end[j] <= end[k]
<1>. DEFINE G == [k \in 1..n |-> [v \in Nat |-> v + length[k]]]
            end == Silk!Ends(length)
<1>1. G \in [1..n -> [Nat -> Nat]] /\ \A k \in 1..n : \A v \in Nat : G[k][v] = v + length[k]
  OBVIOUS
<1>. HIDE DEF G
<1>2. PICK h \in [0..n -> Nat] : h[0] = 0 /\ \A k \in 1..n : h[k] = G[k][h[k - 1]]
  <2>. DEFINE V == Nat
              first == 0
  <2>. HIDE DEF V, first
  <2>1. first \in V /\ G \in [1..n -> [V -> V]]
    BY <1>1 DEF V, first
  <2>2. Recursive(n, V, first, G)
    BY <2>1, Recursion
  <2>. QED
    BY <2>2 DEF V, first, Recursive
<1>3. h = [k \in 0..n |-> IF k = 0 THEN 0 ELSE h[k - 1] + length[k]]
  <2>1. \A k \in 0..n : h[k] = IF k = 0 THEN 0 ELSE h[k - 1] + length[k]
    <3>1. ASSUME NEW k \in 0..n, k # 0 PROVE h[k] = h[k - 1] + length[k]
      <4>1. k \in 1..n /\ k - 1 \in 0..n
        BY <3>1
      <4>2. h[k - 1] \in Nat
        BY <4>1
      <4>. QED
        BY <1>1, <1>2, <4>1, <4>2
    <3>. QED
      BY <1>2, <3>1
  <2>. QED
    BY <2>1
<1>4. end = CHOOSE g : g = [k \in 0..n |-> IF k = 0 THEN 0 ELSE g[k - 1] + length[k]]
  BY DEF Silk!Ends
<1>. HIDE DEF end
<1>5. end = [k \in 0..n |-> IF k = 0 THEN 0 ELSE end[k - 1] + length[k]]
  BY <1>3, <1>4, Zenon
<1>6. end[0] = 0 /\ \A k \in 1..n : end[k] = end[k - 1] + length[k]
  <2>1. \A k \in 0..n : end[k] = IF k = 0 THEN 0 ELSE end[k - 1] + length[k]
    BY <1>5, Zenon
  <2>2. 0 \in 0..n /\ \A k \in 1..n : k \in 0..n /\ k # 0
    OBVIOUS
  <2>. QED
    BY <2>1, <2>2, Zenon
<1>7. \A k \in 0..n : end[k] \in Nat /\ \A j \in 0..k : end[j] <= end[k]
  <2>. DEFINE T == {m \in 0..n : \A j \in 0..m : end[j] \in Nat /\ end[j] <= end[m]}
  <2>1. 0 \in T
    BY <1>6
  <2>2. ASSUME NEW k \in 0..(n - 1), k \in T PROVE k + 1 \in T
    <3>1. k + 1 \in 1..n /\ k + 1 \in 0..n /\ (k + 1) - 1 = k
      OBVIOUS
    <3>2. end[k + 1] = end[k] + length[k + 1] /\ length[k + 1] \in Nat
      BY <1>6, <3>1
    <3>3. end[k] \in Nat /\ \A j \in 0..k : end[j] \in Nat /\ end[j] <= end[k]
      BY <2>2
    <3>4. end[k + 1] \in Nat /\ end[k] <= end[k + 1]
      BY <3>2, <3>3
    <3>5. ASSUME NEW j \in 0..(k + 1) PROVE end[j] \in Nat /\ end[j] <= end[k + 1]
      <4>1. CASE j = k + 1
        BY <3>4, <4>1
      <4>2. CASE j # k + 1
        <5>1. j \in 0..k
          BY <4>2
        <5>2. end[j] \in Nat /\ end[j] <= end[k]
          BY <3>3, <5>1
        <5>. QED
          BY <3>3, <3>4, <5>2
      <4>. QED
        BY <4>1, <4>2
    <3>. QED
      BY <3>1, <3>5
  <2>3. \A k \in 0..(n - 1) : k \in T => k + 1 \in T
    BY <2>2
  <2>. HIDE DEF T
  <2>4. \A k \in 0..n : k \in T
    BY <2>1, <2>3, InductionTo
  <2>. QED
    BY <2>4 DEF T
<1>8. \A j, k \in 0..n : j <= k => end[j] <= end[k]
  BY <1>7
<1>. QED
  BY <1>6, <1>7, <1>8 DEF end

(* A buffer that is read is a list of bytes. *)
LEMMA BufferFacts ==
    ASSUME NEW file \in Seq(0..255), NEW p \in Nat, NEW n \in Nat
    PROVE  LET data == Silk!ReadBuffer(file, p, n)
           IN  data \in Seq(Int) /\ Len(data) = n
<1>. DEFINE data == Silk!ReadBuffer(file, p, n)
<1>1. ASSUME NEW k \in 1..n PROVE Silk!At(file, p + k - 1) \in Int
  <2>1. p + k - 1 \in Nat
    OBVIOUS
  <2>2. Silk!At(file, p + k - 1) \in 0..255
    BY <2>1, ReadFacts
  <2>3. \A b \in 0..255 : b \in Int
    OBVIOUS
  <2>. QED
    BY <2>2, <2>3, Zenon
<1>2. data = [k \in 1..n |-> Silk!At(file, p + k - 1)]
  BY DEF Silk!ReadBuffer
<1>. HIDE DEF data
<1>3. data \in Seq(Int)
  <2>. DEFINE at(k) == Silk!At(file, p + k - 1)
  <2>1. data = [k \in 1..n |-> at(k)] /\ \A k \in 1..n : at(k) \in Int
    BY <1>1, <1>2
  <2>. HIDE DEF at
  <2>. QED
    BY <2>1
<1>4. data = [k \in 1..n |-> data[k]]
  BY <1>2
<1>5. Len(data) = n
  BY <1>4, RangeSeq
<1>. QED
  BY <1>3, <1>5 DEF data

(* An entry of the symbol table. *)
LEMMA EntryFacts ==
    ASSUME NEW file \in Seq(0..255), NEW p \in Nat
    PROVE  LET s == Silk!SymbolAt(file, p)
           IN  /\ s.value \in Int /\ s.refs \in Seq(Nat) /\ s.end \in Nat
               /\ s.name \in Seq(Int) /\ (s.value = Silk!None <=> s.type = Silk!SYMBOL_TYPE.E)
<1>. DEFINE len == Silk!At(file, p + 5)
            refs == Silk!ReadU32(file, p + 6 + len)
            At(k) == Silk!ReadU32(file, p + 6 + len + 4 * k)
            s == Silk!SymbolAt(file, p)
<1>1. len \in Nat /\ p + 6 + len \in Nat
  <2>1. p + 5 \in Nat
    OBVIOUS
  <2>2. len \in 0..255
    BY <2>1, ReadFacts
  <2>. HIDE DEF len
  <2>. QED
    BY <2>2
<1>2. refs \in Nat
  BY <1>1, ReadFacts
<1>3. ASSUME NEW k \in 1..refs PROVE At(k) \in Nat
  <2>1. p + 6 + len + (4 * k) \in Nat
    BY <1>1, <1>2
  <2>. QED
    BY <2>1, ReadFacts
<1>4. /\ s.value = IF Silk!At(file, p) = Silk!SYMBOL_TYPE.E THEN Silk!None
                   ELSE Silk!ReadU32(file, p + 1)
      /\ s.refs = [k \in 1..refs |-> At(k)]
      /\ s.end = p + 10 + len + 4 * refs
      /\ s.type = Silk!At(file, p) /\ s.name = Silk!ReadBuffer(file, p + 6, len)
  BY DEF Silk!SymbolAt
<1>5. s.value \in Int /\ (s.value = Silk!None <=> s.type = Silk!SYMBOL_TYPE.E)
  <2>1. Silk!ReadU32(file, p + 1) \in Nat
    BY ReadFacts
  <2>. QED
    BY <1>4, <2>1 DEF Silk!None
<1>8. s.name \in Seq(Int)
  BY <1>1, <1>4, BufferFacts
<1>. HIDE DEF len, refs, At, s
<1>6. s.refs \in Seq(Nat)
  BY <1>2, <1>3, <1>4
<1>7. s.end \in Nat
  BY <1>1, <1>2, <1>4
<1>. QED
  BY <1>5, <1>6, <1>7, <1>8 DEF s

(* Each entry begins where the one before it ends. *)
Chained(file, n, start, sym) ==
    \A k \in 1..n : sym[k] = Silk!SymbolAt(file, IF k = 1 THEN start ELSE sym[k - 1].end)

(* The symbol table is a list of entries. *)
LEMMA TableFacts ==
    ASSUME NEW file \in Seq(0..255), NEW n \in Nat, NEW start \in Nat
    PROVE  LET sym == Silk!ParseSymbols(file, n, start)
           IN  /\ sym = [k \in 1..n |-> sym[k]]
               /\ \A k \in 1..n : \E p \in Nat : sym[k] = Silk!SymbolAt(file, p)
               /\ Chained(file, n, start, sym)
<1>. DEFINE First == [end |-> start]
            V == {First} \cup {Silk!SymbolAt(file, p) : p \in Nat}
            G == [k \in 1..n |-> [v \in V |-> Silk!SymbolAt(file, v.end)]]
            sym == Silk!ParseSymbols(file, n, start)
            Next1(g, k) == Silk!SymbolAt(file, IF k = 1 THEN start ELSE g[k - 1].end)
<1>1. \A v \in V : v.end \in Nat
  BY EntryFacts
<1>2. /\ First \in V /\ First.end = start
      /\ \A p \in Nat : Silk!SymbolAt(file, p) \in V
      /\ \A v \in V : v = First \/ \E p \in Nat : v = Silk!SymbolAt(file, p)
  OBVIOUS
<1>. HIDE DEF First, V
<1>3. G \in [1..n -> [V -> V]] /\ \A k \in 1..n : \A v \in V : G[k][v] = Silk!SymbolAt(file, v.end)
  BY <1>1, <1>2
<1>. HIDE DEF G
<1>4. PICK h \in [0..n -> V] : h[0] = First /\ \A k \in 1..n : h[k] = G[k][h[k - 1]]
  <2>1. Recursive(n, V, First, G)
    BY <1>2, <1>3, Recursion
  <2>. QED
    BY <2>1 DEF Recursive
<1>. DEFINE f == [k \in 1..n |-> h[k]]
<1>5. f = [k \in 1..n |-> Next1(f, k)]
  <2>1. ASSUME NEW k \in 1..n PROVE h[k] = Next1(f, k)
    <3>1. k - 1 \in 0..n /\ h[k - 1] \in V
      OBVIOUS
    <3>2. h[k] = Silk!SymbolAt(file, h[k - 1].end)
      BY <1>3, <1>4, <3>1
    <3>3. CASE k = 1
      BY <1>2, <1>4, <3>2, <3>3
    <3>4. CASE k # 1
      <4>1. k - 1 \in 1..n
        BY <3>4
      <4>2. f[k - 1] = h[k - 1]
        BY <4>1
      <4>. QED
        BY <3>2, <3>4, <4>2
    <3>. QED
      BY <3>3, <3>4
  <2>. QED
    BY <2>1
<1>. HIDE DEF f
<1>6. sym = CHOOSE g : g = [k \in 1..n |-> Next1(g, k)]
  BY DEF Silk!ParseSymbols
<1>. HIDE DEF sym
<1>7. sym = [k \in 1..n |-> Next1(sym, k)]
  BY <1>5, <1>6, Zenon
<1>8. \A k \in 1..n : sym[k] = Next1(sym, k)
  BY <1>7, Zenon
<1>. DEFINE Entry(k) == \E p \in Nat : sym[k] = Silk!SymbolAt(file, p)
            T == {m \in 0..n : \A k \in 1..m : Entry(k)}
<1>9. 0 \in T
  OBVIOUS
<1>10. ASSUME NEW m \in 0..(n - 1), m \in T PROVE m + 1 \in T
  <2>1. m + 1 \in 1..n /\ (m + 1) - 1 = m /\ m + 1 \in 0..n
    OBVIOUS
  <2>2. sym[m + 1] = Silk!SymbolAt(file, IF m + 1 = 1 THEN start ELSE sym[m].end)
    BY <1>8, <2>1
  <2>3. Entry(m + 1)
    <3>1. CASE m = 0
      BY <2>2, <3>1
    <3>2. CASE m # 0
      <4>1. m \in 1..m /\ m + 1 # 1
        BY <3>2
      <4>2. PICK p \in Nat : sym[m] = Silk!SymbolAt(file, p)
        BY <1>10, <4>1
      <4>3. sym[m].end \in Nat
        BY <4>2, EntryFacts
      <4>. QED
        BY <2>2, <4>1, <4>3
    <3>. QED
      BY <3>1, <3>2
  <2>. HIDE DEF Entry
  <2>4. \A k \in 1..m : Entry(k)
    BY <1>10
  <2>5. \A k \in 1..(m + 1) : k \in 1..m \/ k = m + 1
    OBVIOUS
  <2>. QED
    BY <2>1, <2>3, <2>4, <2>5
<1>11. \A k \in 0..(n - 1) : k \in T => k + 1 \in T
  BY <1>10
<1>12. \A k \in 1..n : Entry(k)
  <2>. HIDE DEF T
  <2>1. n \in T
    <3>1. \A k \in 0..n : k \in T
      BY <1>9, <1>11, InductionTo
    <3>. QED
      BY <3>1
  <2>. QED
    BY <2>1 DEF T
<1>13. sym = [k \in 1..n |-> sym[k]]
  BY <1>7
<1>. QED
  BY <1>8, <1>12, <1>13 DEF sym, Chained

(* A parsed file: sections one after the other, and a table of symbols. *)
LEMMA ParseFacts ==
    ASSUME NEW file \in Seq(0..255)
    PROVE  LET parsed == Silk!ParseFile(file)
           IN  /\ parsed.start \in Nat
               /\ Layout(parsed.sections) /\ Solid(parsed.sections)
               /\ \A s \in Range(parsed.symbols) :
                    /\ s.value \in Int /\ s.refs \in Seq(Nat)
                    /\ s.name \in Seq(Int) /\ (s.value = Silk!None <=> s.type = Silk!SYMBOL_TYPE.E)
<1>. DEFINE parsed == Silk!ParseFile(file)
            size == Silk!ReadU32(file, 8)
            symbols == Silk!ParseSymbols(file, size, 16)
            n == Len(symbols)
            headers == IF n = 0 THEN 16 ELSE symbols[n].end
            count == Silk!ReadU32(file, 12)
            start == headers + 5 * count
            length == [k \in 1..count |-> Silk!ReadU32(file, headers + 5 * (k - 1) + 1)]
            end == Silk!Ends(length)
            sec(k) == [flags |-> Silk!At(file, headers + 5 * (k - 1)), start |-> end[k - 1],
                       length |-> length[k],
                       data |-> Silk!ReadBuffer(file, start + end[k - 1], length[k])]
            ss == [k \in 1..count |-> sec(k)]
<1>1. parsed = [symbols |-> symbols, start |-> start, end |-> start + end[count], sections |-> ss]
  BY DEF Silk!ParseFile
<1>. HIDE DEF parsed
<1>2. parsed.symbols = symbols /\ parsed.start = start /\ parsed.sections = ss
  BY <1>1
<1>3. size \in Nat /\ count \in Nat
  BY ReadFacts
<1>. HIDE DEF size, count
<1>4. /\ symbols = [k \in 1..size |-> symbols[k]]
      /\ \A k \in 1..size : \E p \in Nat : symbols[k] = Silk!SymbolAt(file, p)
  BY <1>3, TableFacts
<1>. HIDE DEF symbols
<1>5. n = size /\ DOMAIN symbols = 1..size
  BY <1>3, <1>4, RangeSeq
<1>6. ASSUME NEW k \in 1..size
      PROVE  /\ symbols[k].value \in Int /\ symbols[k].refs \in Seq(Nat) /\ symbols[k].end \in Nat
             /\ symbols[k].name \in Seq(Int)
             /\ (symbols[k].value = Silk!None <=> symbols[k].type = Silk!SYMBOL_TYPE.E)
  <2>1. PICK p \in Nat : symbols[k] = Silk!SymbolAt(file, p)
    BY <1>4
  <2>. QED
    BY <2>1, EntryFacts
<1>7. \A s \in Range(symbols) :
        /\ s.value \in Int /\ s.refs \in Seq(Nat)
        /\ s.name \in Seq(Int) /\ (s.value = Silk!None <=> s.type = Silk!SYMBOL_TYPE.E)
  BY <1>5, <1>6 DEF Range
<1>8. headers \in Nat
  <2>1. n # 0 => n \in 1..size
    BY <1>3, <1>5
  <2>. QED
    BY <1>6, <2>1
<1>. HIDE DEF n, headers
<1>9. start \in Nat
  BY <1>3, <1>8
<1>. HIDE DEF start
<1>10. ASSUME NEW k \in 1..count PROVE Silk!ReadU32(file, headers + 5 * (k - 1) + 1) \in Nat
  <2>1. headers + 5 * (k - 1) + 1 \in Nat
    BY <1>3, <1>8
  <2>. QED
    BY <2>1, ReadFacts
<1>11. DOMAIN length = 1..count /\ \A k \in 1..count : length[k] \in Nat
  BY <1>10
<1>12. Len(length) = count
  <2>1. length = [k \in 1..count |-> length[k]]
    OBVIOUS
  <2>. HIDE DEF length
  <2>. QED
    BY <1>3, <2>1, RangeSeq
<1>. HIDE DEF length
<1>13. /\ end[0] = 0
       /\ \A k \in 1..count : end[k] = end[k - 1] + length[k]
       /\ \A k \in 0..count : end[k] \in Nat
       /\ \A j, k \in 0..count : j <= k => end[j] <= end[k]
  BY <1>3, <1>11, <1>12, EndsFacts
<1>. HIDE DEF end
<1>14. /\ DOMAIN ss = 1..count
       /\ \A k \in 1..count : /\ {"start", "length"} \subseteq DOMAIN ss[k]
                              /\ ss[k].start = end[k - 1]
                              /\ ss[k].length = length[k]
  OBVIOUS
<1>19. Solid(ss)
  <2>. SUFFICES ASSUME NEW k \in 1..count
                PROVE  sec(k) \in Section /\ Len(sec(k).data) = sec(k).length
    BY <1>14 DEF Solid
  <2>. DEFINE data == Silk!ReadBuffer(file, start + end[k - 1], length[k])
              flags == Silk!At(file, headers + 5 * (k - 1))
  <2>1. k - 1 \in 0..count /\ headers + 5 * (k - 1) \in Nat
    BY <1>3, <1>8
  <2>2. end[k - 1] \in Nat /\ length[k] \in Nat /\ start + end[k - 1] \in Nat
    BY <1>9, <1>11, <1>13, <2>1
  <2>3. data \in Seq(Int) /\ Len(data) = length[k]
    BY <2>2, BufferFacts
  <2>4. flags \in Int
    <3>1. flags \in 0..255
      BY <2>1, ReadFacts
    <3>2. \A b \in 0..255 : b \in Int
      OBVIOUS
    <3>. QED
      BY <3>1, <3>2, Zenon
  <2>5. sec(k) = [flags |-> flags, start |-> end[k - 1], length |-> length[k], data |-> data]
    OBVIOUS
  <2>. HIDE DEF data, flags, sec
  <2>. QED
    BY <2>2, <2>3, <2>4, <2>5 DEF Section
<1>15. ss \in Seq(Range(ss))
  <2>1. ss = [k \in 1..count |-> ss[k]]
    BY <1>14
  <2>. HIDE DEF ss
  <2>. QED
    BY <1>3, <2>1, RangeSeq
<1>. HIDE DEF ss
<1>16. ASSUME NEW k \in 1..count
       PROVE  /\ ss[k].start \in Nat /\ ss[k].length \in Nat
              /\ ss[k].start = IF k = 1 THEN 0 ELSE ss[k - 1].start + ss[k - 1].length
  <2>1. k - 1 \in 0..count /\ k \in 1..count
    BY <1>3
  <2>2. ss[k].start = end[k - 1] /\ end[k - 1] \in Nat /\ length[k] \in Nat
    BY <1>11, <1>13, <1>14, <2>1
  <2>3. CASE k = 1
    BY <1>13, <1>14, <2>2, <2>3
  <2>4. CASE k # 1
    <3>1. k - 1 \in 1..count
      BY <2>1, <2>4
    <3>2. ss[k - 1].start = end[(k - 1) - 1] /\ ss[k - 1].length = length[k - 1]
      BY <1>14, <3>1
    <3>3. end[k - 1] = end[(k - 1) - 1] + length[k - 1]
      BY <1>13, <3>1
    <3>. QED
      BY <1>14, <2>2, <2>4, <3>2, <3>3
  <2>. QED
    BY <2>3, <2>4
<1>17. ASSUME NEW j \in 1..count, NEW k \in 1..count, j < k
       PROVE  ss[j].start + ss[j].length <= ss[k].start
  <2>1. j \in 0..count /\ k - 1 \in 0..count /\ j <= k - 1
    BY <1>3, <1>17
  <2>2. ss[j].start + ss[j].length = end[j] /\ ss[k].start = end[k - 1]
    BY <1>13, <1>14
  <2>. QED
    BY <1>13, <2>1, <2>2
<1>18. Layout(ss)
  BY <1>14, <1>15, <1>16, <1>17 DEF Layout
<1>. QED
  BY <1>2, <1>7, <1>9, <1>18, <1>19 DEF parsed

(* The least of some numbers is one of them. *)
LEMMA MinFacts ==
    ASSUME NEW T \in SUBSET Nat, T # {}
    PROVE  Silk!Min(T) \in T /\ \A k \in T : Silk!Min(T) <= k
BY LeastNumber DEF Silk!Min

(* The four bytes at an address are zeros. *)
ZerosAt(ss, a) == \A i \in 1..4 : ByteAt(ss, a + i - 1, 0)

(* A reference that passes lies in a section, with its four bytes, which   *)
(* are zeros. *)
LEMMA ReferenceFacts ==
    ASSUME NEW ss, Layout(ss), NEW ref \in Int, NEW start \in Int,
           Silk!VerifyReference(ref, start, ss) = "ok"
    PROVE  Inside(ss, ref - start) /\ ZerosAt(ss, ref - start)
<1>. DEFINE a == ref - start
            k == Silk!Find(ss, a)
            room == ss[k].start + ss[k].length - a
            last == IF k = 0 THEN 0 ELSE Silk!Min({4, room})
            Byte(i) == ss[k].data[a - ss[k].start + i]
            Clean == \A i \in 1..last : Byte(i) = 0
<1>. HIDE DEF a
<1>1. a \in Int
  BY DEF a
<1>2. Silk!VerifyReference(ref, start, ss) =
        CASE a < 0 \/ k = 0 -> "error"
          [] a >= 0 /\ k # 0 /\ \E i \in 1..last : Byte(i) # 0 -> "error"
          [] a >= 0 /\ k # 0 /\ \A i \in 1..last : Byte(i) = 0 ->
               IF last < 4 THEN "panic" ELSE "ok"
  BY Zenon DEF Silk!VerifyReference, a
<1>3. k # 0 => k \in DOMAIN ss /\ ss[k].start <= a /\ a < ss[k].start + ss[k].length
  BY DEF Silk!Find
<1>4. Clean \/ \E i \in 1..last : Byte(i) # 0
  OBVIOUS
<1>5. Clean <=> ~ \E i \in 1..last : Byte(i) # 0
  OBVIOUS
<1>. HIDE DEF k, last, Clean, Byte
<1>6. k # 0 /\ ~(last < 4) /\ Clean
  BY <1>1, <1>2, <1>4, <1>5 DEF Clean
<1>7. k \in DOMAIN ss /\ ss[k].start <= a /\ a < ss[k].start + ss[k].length
  BY <1>3, <1>6
<1>8. ss[k].start \in Nat /\ ss[k].length \in Nat
  BY <1>7 DEF Layout
<1>9. room \in Nat /\ last = Silk!Min({4, room})
  BY <1>1, <1>6, <1>7, <1>8 DEF last
<1>. HIDE DEF room
<1>10. last \in {4, room} /\ last <= room
  <2>. DEFINE T == {4, room}
  <2>1. T \in SUBSET Nat /\ T # {} /\ room \in T
    BY <1>9
  <2>. HIDE DEF T
  <2>2. Silk!Min(T) \in T /\ Silk!Min(T) <= room
    BY <2>1, MinFacts
  <2>. QED
    BY <1>9, <2>2 DEF T
<1>11. a + 3 < ss[k].start + ss[k].length
  BY <1>1, <1>6, <1>8, <1>9, <1>10 DEF room
<1>12. ASSUME NEW i \in 1..4 PROVE ByteAt(ss, a + i - 1, 0)
  <2>1. i \in 1..last
    BY <1>6, <1>9, <1>10
  <2>2. ss[k].data[a - ss[k].start + i] = 0
    BY <1>6, <2>1 DEF Clean, Byte
  <2>3. (a + i - 1) - ss[k].start + 1 = a - ss[k].start + i
    BY <1>1, <1>8
  <2>4. ss[k].start <= a + i - 1 /\ a + i - 1 < ss[k].start + ss[k].length
    BY <1>1, <1>7, <1>8, <1>11
  <2>. QED
    BY <1>7, <2>2, <2>3, <2>4 DEF ByteAt
<1>. QED
  BY <1>7, <1>11, <1>12 DEF Inside, ZerosAt, a

(* A symbol that passes: its value and its references lie in the sections. *)
LEMMA VerifiedFacts ==
    ASSUME NEW ss, Layout(ss), NEW start \in Nat,
           NEW s, s.value \in Int, s.refs \in Seq(Int),
           Silk!VerifySymbol(s, start, ss) = "ok"
    PROVE  /\ s.value # Silk!None => s.value - start \in 0..(Silk!SectionsEnd(ss) - 1)
           /\ \A k \in DOMAIN s.refs : Inside(ss, s.refs[k] - start) /\ ZerosAt(ss, s.refs[k] - start)
<1>. DEFINE Verdict(k) == Silk!VerifyReference(s.refs[k], start, ss)
            bad == {k \in DOMAIN s.refs : Verdict(k) # "ok"}
            outside == s.value # Silk!None
                       /\ (s.value < start \/ s.value - start >= Silk!SectionsEnd(ss))
<1>1. Silk!VerifySymbol(s, start, ss) =
        IF outside THEN "error" ELSE IF bad = {} THEN "ok" ELSE Verdict(Silk!Min(bad))
  BY Zenon DEF Silk!VerifySymbol
<1>2. ~outside
  BY <1>1
<1>3. DOMAIN s.refs = 1..Len(s.refs) /\ Len(s.refs) \in Nat
      /\ \A k \in DOMAIN s.refs : s.refs[k] \in Int
  OBVIOUS
<1>4. bad = {}
  <2>1. ASSUME bad # {} PROVE FALSE
    <3>1. bad \in SUBSET Nat
      BY <1>3
    <3>2. Silk!Min(bad) \in bad
      BY <2>1, <3>1, MinFacts
    <3>. HIDE DEF outside
    <3>3. Verdict(Silk!Min(bad)) = "ok"
      BY <1>1, <1>2, <2>1
    <3>. QED
      BY <3>2, <3>3
  <2>. QED
    BY <2>1
<1>5. ASSUME NEW k \in DOMAIN s.refs
      PROVE  Inside(ss, s.refs[k] - start) /\ ZerosAt(ss, s.refs[k] - start)
  BY <1>3, <1>4, ReferenceFacts
<1>6. s.value # Silk!None => s.value - start \in 0..(Silk!SectionsEnd(ss) - 1)
  BY <1>2, EndFacts
<1>. QED
  BY <1>5, <1>6

(* The symbols of a file that is accepted. *)
LEMMA AcceptedFacts ==
    ASSUME NEW file \in Seq(0..255),
           "ok" \in Silk!ParseOutcomes(file, Silk!ParseFile(file)),
           NEW s \in Range(Silk!ParseFile(file).symbols)
    PROVE  LET parsed == Silk!ParseFile(file)
           IN  /\ s.type \in Range(Silk!SYMBOL_TYPE) /\ s.value \in Int /\ s.refs \in Seq(Int)
               /\ s.value # Silk!None =>
                    s.value - parsed.start \in 0..(Silk!SectionsEnd(parsed.sections) - 1)
               /\ \A k \in DOMAIN s.refs : /\ Inside(parsed.sections, s.refs[k] - parsed.start)
                                          /\ ZerosAt(parsed.sections, s.refs[k] - parsed.start)
<1>. DEFINE parsed == Silk!ParseFile(file)
            verdicts == {Silk!VerifySymbol(r, parsed.start, parsed.sections) :
                           r \in Range(parsed.symbols)}
<1>1. /\ parsed.start \in Nat /\ Layout(parsed.sections)
      /\ s.value \in Int /\ s.refs \in Seq(Nat)
  BY ParseFacts
<1>. HIDE DEF parsed
<1>2. "ok" \in Silk!ParseOutcomes(file, parsed) /\ s \in Range(parsed.symbols)
  BY DEF parsed
<1>3. Silk!ParsesAs(file, parsed) /\ verdicts \subseteq {"ok"}
  <2>1. Silk!Range(parsed.symbols) = Range(parsed.symbols)
    BY DEF Silk!Range, Range
  <2>2. Silk!ParseOutcomes(file, parsed) =
          IF ~Silk!ParsesAs(file, parsed) THEN {"error"}
          ELSE IF verdicts \subseteq {"ok"} THEN {"ok"} ELSE verdicts \ {"ok"}
    BY <2>1, Zenon DEF Silk!ParseOutcomes
  <2>. HIDE DEF verdicts
  <2>. QED
    BY <1>2, <2>2
<1>4. s.type \in Range(Silk!SYMBOL_TYPE)
  BY <1>2, <1>3 DEF Silk!ParsesAs, Silk!Range, Range
<1>5. Silk!VerifySymbol(s, parsed.start, parsed.sections) = "ok"
  BY <1>2, <1>3
<1>6. s.refs \in Seq(Int)
  BY <1>1
<1>. QED
  BY <1>1, <1>4, <1>5, <1>6, VerifiedFacts DEF parsed

-----------------------------------------------------------------------------
(***************************************************************************)
(* References and panics.                                                  *)
(***************************************************************************)

(* The references lie one after the other in the code, four bytes each. *)
Spaced(st) ==
    /\ \A i \in DOMAIN st.refs : st.refs[i].at + 4 <= Len(st.code)
    /\ \A i, j \in DOMAIN st.refs : i < j => st.refs[i].at + 4 <= st.refs[j].at

(* Is o the sizeof of something that is not in the table of data? *)
Unknown(env, o) == o.kind = "sizeof" /\ ~Known(env.data, o)

(* The references are spaced, each is to a name among the operands W, and  *)
(* a panic means that one of these has no size.                            *)
Tame(env, W, st) ==
    /\ Spaced(st)
    /\ \A i \in DOMAIN st.refs : \E o \in W : o.kind = "name" /\ o.name = st.refs[i].name
    /\ st.panic => \E o \in W : Unknown(env, o)

(* Bytes that are added change nothing about that. *)
LEMMA StaysTame ==
    ASSUME NEW env, NEW W, NEW st \in Generator, Tame(env, W, st), NEW t \in Generator,
           t.refs = st.refs, t.panic => st.panic, Len(t.code) >= Len(st.code)
    PROVE  Tame(env, W, t)
<1>1. \A i \in DOMAIN st.refs : st.refs[i].at \in Nat
  <2>1. \A k \in 1..Len(st.refs) : st.refs[k] \in Reference /\ DOMAIN st.refs = 1..Len(st.refs)
    BY GeneratorFacts, ElementsOf
  <2>2. DOMAIN st.refs = 1..Len(st.refs)
    BY GeneratorFacts, ElementsOf
  <2>. QED
    BY <2>1, <2>2 DEF Reference
<1>2. Len(st.code) \in Nat /\ Len(t.code) \in Nat
  BY GeneratorFacts
<1>. QED
  BY <1>1, <1>2 DEF Tame, Spaced

(* One operand adds at most one reference, behind all others. *)
LEMMA AddOperandTame ==
    ASSUME NEW env, Environments(env), NEW class \in Classes, NEW o \in OperandNode,
           NEW first \in DOMAIN Size, NEW st \in Generator, NEW W, o \in W, Tame(env, W, st)
    PROVE  Tame(env, W, AddOperand(env, class, o, first, st))
<1>. DEFINE t == AddOperand(env, class, o, first, st)
            ok == AcceptsOperand(env, class, o, first)
            Named == [st EXCEPT !.refs = Append(@, [name |-> o.name, at |-> Len(st.code)]),
                                !.code = @ \o Zeros(4), !.ok = ok]
            Register == [st EXCEPT !.code = Append(@, o.ref)]
            Number == [st EXCEPT !.code = @ \o BE(Literal(env.data, o).value,
                                                 Size[LiteralType(class, first)])]
            Rejected == [st EXCEPT !.ok = FALSE,
                           !.panic = IsLiteral(o) /\ class = "word" /\ ~Known(env.data, o)]
<1>0. /\ o.kind \in {"reg", "name", "lit", "sizeof"}
      /\ t \in Generator /\ Len(t.code) \in Nat /\ Len(st.code) \in Nat
      /\ Len(t.code) >= Len(st.code)
  <2>1. GoesOn(st, t)
    BY AddOperandFacts
  <2>2. o.kind \in {"reg", "name", "lit", "sizeof"}
    BY DEF OperandNode, LiteralNode
  <2>. QED
    BY <2>1, <2>2, GeneratorFacts DEF GoesOn
<1>1. t = IF ~st.ok THEN st ELSE
          CASE o.kind = "name" -> Named
            [] o.kind = "reg" /\ ok -> Register
            [] IsLiteral(o) /\ ok -> Number
            [] OTHER -> Rejected
  BY DEF AddOperand
<1>2. st \in [code : Bytes, refs : Seq(Reference), starts : Seq(Nat), ok : BOOLEAN,
              failed : BOOLEAN, panic : BOOLEAN]
  BY DEF Generator
<1>. HIDE DEF ok, t
<1>3. CASE st.ok /\ o.kind = "name"
  <2>. DEFINE r == [name |-> o.name, at |-> Len(st.code)]
              n == Len(st.refs)
  <2>1. t = Named
    <3>. HIDE DEF Named, Register, Number, Rejected
    <3>. QED
      BY <1>1, <1>3 DEF IsLiteral
  <2>2. t.refs = Append(st.refs, r) /\ t.code = st.code \o Zeros(4) /\ t.panic = st.panic
    BY <1>2, <2>1
  <2>3. Len(t.code) = Len(st.code) + 4
    <3>1. Zeros(4) \in Bytes
      BY ZeroFacts
    <3>2. Len(Zeros(4)) = 4
      BY DEF Zeros
    <3>. QED
      BY <2>2, <3>1, <3>2, GeneratorFacts, JoinBytes
  <2>4. /\ st.refs \in Seq(Reference) /\ n \in Nat /\ DOMAIN st.refs = 1..n
        /\ \A k \in 1..n : st.refs[k] \in Reference
    BY GeneratorFacts, ElementsOf
  <2>5. /\ DOMAIN t.refs = 1..(n + 1)
        /\ t.refs[n + 1] = r
        /\ \A k \in 1..n : t.refs[k] = st.refs[k]
    <3>. DEFINE s == st.refs
    <3>. HIDE DEF s, r
    <3>1. t.refs = Append(s, r) /\ s \in Seq(Reference) /\ n = Len(s)
      BY <2>2, <2>4 DEF s
    <3>2. /\ DOMAIN Append(s, r) = 1..(Len(s) + 1)
          /\ \A k \in 1..Len(s) : Append(s, r)[k] = s[k]
          /\ Append(s, r)[Len(s) + 1] = r
      BY <3>1
    <3>. QED
      BY <3>1, <3>2 DEF s
  <2>11. r.at = Len(st.code) /\ r.name = o.name
    OBVIOUS
  <2>. HIDE DEF r, n
  <2>6. \A k \in 1..n : st.refs[k].at \in Nat /\ st.refs[k].at + 4 <= Len(st.code)
    BY <2>4 DEF Tame, Spaced, Reference
  <2>7. \A k \in 1..(n + 1) : k \in 1..n \/ k = n + 1
    BY <2>4
  <2>8. Spaced(t)
    <3>1. ASSUME NEW k \in 1..(n + 1) PROVE t.refs[k].at + 4 <= Len(t.code)
      BY <1>0, <2>3, <2>5, <2>6, <2>7, <2>11
    <3>2. ASSUME NEW i \in 1..(n + 1), NEW j \in 1..(n + 1), i < j
          PROVE  t.refs[i].at + 4 <= t.refs[j].at
      <4>1. i \in 1..n
        BY <2>4, <3>2
      <4>2. CASE j \in 1..n
        <5>1. st.refs[i].at + 4 <= st.refs[j].at
          BY <2>4, <3>2, <4>1, <4>2 DEF Tame, Spaced
        <5>. QED
          BY <2>5, <4>1, <4>2, <5>1
      <4>3. CASE j = n + 1
        BY <2>5, <2>6, <2>11, <4>1, <4>3
      <4>. QED
        BY <2>7, <4>2, <4>3
    <3>. QED
      BY <2>5, <3>1, <3>2 DEF Spaced
  <2>9. ASSUME NEW k \in 1..(n + 1)
        PROVE  \E x \in W : x.kind = "name" /\ x.name = t.refs[k].name
    <3>1. CASE k \in 1..n
      BY <2>4, <2>5, <3>1 DEF Tame
    <3>2. CASE k = n + 1
      BY <1>3, <2>5, <2>11, <3>2
    <3>. QED
      BY <2>7, <3>1, <3>2
  <2>10. t.panic => \E x \in W : Unknown(env, x)
    BY <2>2 DEF Tame
  <2>. QED
    BY <2>5, <2>8, <2>9, <2>10 DEF Tame, t
<1>4. CASE ~st.ok \/ (st.ok /\ o.kind = "reg" /\ ok) \/ (st.ok /\ IsLiteral(o) /\ ok)
  <2>0. IsLiteral(o) => o.kind # "name" /\ o.kind # "reg"
    BY DEF IsLiteral
  <2>1. t = st \/ t = Register \/ t = Number
    <3>. HIDE DEF Named, Register, Number, Rejected
    <3>. QED
      BY <1>1, <1>4, <2>0
  <2>2. t.refs = st.refs /\ t.panic = st.panic
    BY <1>2, <2>1
  <2>. QED
    BY <1>0, <2>2, StaysTame DEF t
<1>5. CASE st.ok /\ o.kind # "name" /\ ~(o.kind = "reg" /\ ok) /\ ~(IsLiteral(o) /\ ok)
  <2>. DEFINE p == IsLiteral(o) /\ class = "word" /\ ~Known(env.data, o)
              u == [st EXCEPT !.ok = FALSE, !.panic = FALSE]
  <2>1. t = Rejected
    <3>. HIDE DEF Named, Register, Number, Rejected
    <3>. QED
      BY <1>1, <1>5
  <2>2. t.refs = st.refs /\ t.code = st.code /\ (t.panic <=> p)
    <3>1. p \in BOOLEAN
      OBVIOUS
    <3>2. t = [st EXCEPT !.ok = FALSE, !.panic = p]
      BY <2>1
    <3>. HIDE DEF p
    <3>. QED
      BY <1>2, <3>1, <3>2
  <2>3. p => Unknown(env, o)
    BY <1>0 DEF Unknown, Known, IsLiteral
  <2>4. u \in Generator /\ u.refs = st.refs /\ u.code = st.code /\ ~u.panic
    BY DEF Generator
  <2>. HIDE DEF u
  <2>5. Tame(env, W, u)
    BY <1>0, <2>2, <2>4, StaysTame
  <2>6. t.panic => \E x \in W : Unknown(env, x)
    BY <2>2, <2>3
  <2>. HIDE DEF p
  <2>. QED
    BY <2>2, <2>4, <2>5, <2>6 DEF Tame, Spaced, t
<1>. QED
  BY <1>3, <1>4, <1>5

(* So do all operands *)
LEMMA OperandsTame ==
    ASSUME NEW env, Environments(env), NEW mode \in Seq(Classes), NEW operands \in Seq(OperandNode),
           Len(operands) = Len(mode), NEW st \in Generator, NEW W,
           \A k \in 1..Len(operands) : operands[k] \in W, Tame(env, W, st)
    PROVE  Tame(env, W, Operands(env, mode, operands, st))
<1>. DEFINE n == Len(operands)
            first == FirstType(operands)
            f == OperandsUpTo(env, mode, operands, st)
            V == {v \in Generator : Tame(env, W, v)}
<1>1. n \in Nat /\ \A k \in 1..n : mode[k] \in Classes /\ operands[k] \in OperandNode
  OBVIOUS
<1>2. first \in DOMAIN Size
  BY FirstTypeFacts
<1>3. /\ Operands(env, mode, operands, st) = f[n]
      /\ \A k \in 0..n :
           /\ f[k] \in Generator
           /\ f[k] = IF k = 0 THEN st ELSE AddOperand(env, mode[k], operands[k], first, f[k - 1])
  <2>1. OneByOne(env, mode, operands, st)
    BY OperandsFacts
  <2>. QED
    BY <2>1 DEF OneByOne
<1>. HIDE DEF f, first
<1>4. ASSUME NEW k \in 1..n, f[k - 1] \in V PROVE f[k] \in V
  <2>1. k \in 0..n /\ k # 0
    OBVIOUS
  <2>2. f[k] = AddOperand(env, mode[k], operands[k], first, f[k - 1]) /\ f[k] \in Generator
    BY <1>3, <2>1
  <2>3. f[k - 1] \in Generator /\ Tame(env, W, f[k - 1])
    BY <1>4
  <2>4. Tame(env, W, f[k])
    BY <1>1, <1>2, <2>2, <2>3, AddOperandTame
  <2>. QED
    BY <2>2, <2>4
<1>5. f[0] \in V
  BY <1>1, <1>3
<1>. HIDE DEF V, n
<1>6. \A k \in 0..n : f[k] \in V
  BY <1>1, <1>4, <1>5, Typed
<1>7. f[n] \in V
  BY <1>1, <1>6
<1>. QED
  BY <1>3, <1>7 DEF V

(* and the opcode with them, *)
LEMMA EmitTame ==
    ASSUME NEW env, Environments(env), NEW op, NEW def \in [mode : Modes, opcode : 0..109],
           op = "timer" => def.mode = i_w,
           NEW operands \in Seq(OperandNode), NEW st \in Generator, NEW W,
           \A k \in 1..Len(operands) : operands[k] \in W, Tame(env, W, st)
    PROVE  Tame(env, W, Emit(env, op, def, operands, st))
<1>. DEFINE mode == def.mode
            opcode == def.opcode + Choice(mode, operands)
            pos == Len(st.code) + 1
            t == Operands(env, mode, operands, st)
            st1 == [st EXCEPT !.code = Append(@, 0)]
            t1 == Operands(env, mode, operands, st1)
            at == IF operands[1].kind = "name" THEN pos + 4 ELSE pos
            Short == [st EXCEPT !.ok = FALSE]
            Timer == InsertOpcode(t, at, opcode)
            Other == SetOpcode(t1, pos, opcode)
            u == Emit(env, op, def, operands, st)
<1>1. mode \in Seq(Classes) /\ Len(mode) \in Nat /\ Len(mode) <= 3
  <2>1. mode \in Modes
    OBVIOUS
  <2>. HIDE DEF mode
  <2>2. mode \in Seq(Classes) /\ Len(mode) <= 3
    BY <2>1, ModeFacts
  <2>. QED
    BY <2>2, LenProperties
<1>2. opcode \in 0..255
  <2>. DEFINE c == Choice(mode, operands)
              o == def.opcode
              l == Len(mode)
  <2>1. l \in 0..3
    <3>. HIDE DEF l
    <3>1. l \in Nat /\ l <= 3
      BY <1>1 DEF l
    <3>. QED
      BY <3>1
  <2>2. c \in 0..7
    <3>. HIDE DEF mode
    <3>. QED
      BY <1>1, <2>1, ChoiceFacts
  <2>3. o \in 0..109
    OBVIOUS
  <2>. HIDE DEF c, o
  <2>4. o + c \in 0..255
    BY <2>2, <2>3
  <2>. QED
    BY <2>4 DEF c, o
<1>3. u = CASE Len(operands) # Len(mode) -> Short
            [] Len(operands) = Len(mode) /\ op = "timer" -> Timer
            [] OTHER -> Other
  BY DEF Emit
<1>4. /\ pos \in Nat \ {0} /\ Len(st.code) \in Nat
      /\ u \in Generator
  <2>1. Preserved(st, u)
    BY EmitFacts
  <2>. QED
    BY <2>1, GeneratorFacts DEF Preserved
<1>5. op = "timer" => Len(mode) = 1
  <2>1. Len(i_w) = 1
    BY DEF i_w
  <2>. QED
    BY <2>1
<1>6. \A s \in {st, st1} : s \in Generator /\ Tame(env, W, s) /\ Len(s.code) >= Len(st.code)
  <2>. DEFINE c == Append(st.code, 0)
  <2>1. c \in Bytes /\ Len(c) = Len(st.code) + 1
    BY GeneratorFacts DEF Bytes
  <2>2. st1 = [st EXCEPT !.code = c]
    OBVIOUS
  <2>. HIDE DEF c, st1
  <2>3. st1 \in Generator /\ st1.refs = st.refs /\ st1.panic = st.panic /\ st1.code = c
    BY <2>1, <2>2 DEF Generator
  <2>4. Tame(env, W, st1) /\ Len(st1.code) >= Len(st.code)
    BY <1>4, <2>1, <2>3, StaysTame
  <2>. QED
    BY <1>4, <2>3, <2>4
<1>. HIDE DEF opcode, Short, Timer, Other, st1, mode, u
<1>7. ASSUME NEW s \in {st, st1}, Len(operands) = Len(mode)
      PROVE  LET v == Operands(env, mode, operands, s)
             IN  /\ Tame(env, W, v) /\ v \in Generator /\ Len(v.code) \in Nat
                 /\ Len(v.code) >= Len(s.code)
  <2>. DEFINE v == Operands(env, mode, operands, s)
  <2>0. s \in Generator /\ Tame(env, W, s)
    BY <1>6
  <2>1. Tame(env, W, v)
    BY <1>1, <1>7, <2>0, OperandsTame
  <2>2. GoesOn(s, v)
    BY <1>1, <1>7, <2>0, OperandsFacts
  <2>. HIDE DEF v
  <2>3. v \in Generator /\ Len(v.code) \in Nat /\ Len(v.code) >= Len(s.code)
    BY <2>2, GeneratorFacts DEF GoesOn
  <2>. QED
    BY <2>1, <2>2, <2>3 DEF v
<1>8. CASE Len(operands) # Len(mode)
  <2>1. u = Short
    BY <1>3, <1>8
  <2>2. u.refs = st.refs /\ u.code = st.code /\ u.panic = st.panic
    BY <2>1 DEF Short, Generator
  <2>. QED
    BY <1>4, <2>2, StaysTame DEF u
<1>9. CASE Len(operands) = Len(mode) /\ op = "timer"
  <2>1. u = Timer
    BY <1>3, <1>9
  <2>2. Tame(env, W, t) /\ t \in Generator /\ Len(t.code) \in Nat /\ Len(t.code) >= Len(st.code)
    BY <1>7, <1>9
  <2>6. Len(operands) = 1 /\ mode \in Seq(Classes) /\ Len(operands) = Len(mode)
        /\ t = Operands(env, mode, operands, st)
    BY <1>1, <1>5, <1>9
  <2>. HIDE DEF t
  <2>7. operands[1].kind = "name" /\ t.ok => Len(t.code) = Len(st.code) + 4
    BY <2>6, OperandsFacts
  <2>3. at \in Nat \ {0} /\ (t.ok => at <= Len(t.code) + 1)
    BY <1>4, <2>2, <2>7
  <2>. HIDE DEF at
  <2>4. Grows(t, Timer)
    BY <1>2, <2>2, <2>3, InsertOpcodeFacts DEF Timer
  <2>5. u.refs = t.refs /\ (u.panic => t.panic) /\ Len(u.code) >= Len(t.code)
    BY <2>1, <2>4 DEF Grows
  <2>. QED
    BY <1>4, <2>2, <2>5, StaysTame DEF u
<1>10. CASE Len(operands) = Len(mode) /\ op # "timer"
  <2>1. u = Other
    BY <1>3, <1>10
  <2>2. Tame(env, W, t1) /\ t1 \in Generator
    BY <1>7, <1>10
  <2>. HIDE DEF t1, pos
  <2>3. Grows(t1, Other)
    BY <1>2, <2>2, SetOpcodeFacts DEF Other
  <2>4. u.refs = t1.refs /\ (u.panic => t1.panic) /\ Len(u.code) >= Len(t1.code)
    BY <2>1, <2>3 DEF Grows
  <2>. QED
    BY <1>4, <2>2, <2>4, StaysTame DEF u
<1>. QED
  BY <1>8, <1>9, <1>10

(* and all the instructions of a file. *)
LEMMA CodeTame ==
    ASSUME NEW env, Environments(env), NEW instrs \in Seq(InstructionNode), NEW W,
           \A k \in 1..Len(instrs) : \A j \in DOMAIN instrs[k].operands :
              Resolve(env, instrs[k].operands[j]) \in W
    PROVE  Tame(env, W, Code(env, instrs))
<1>. DEFINE n == Len(instrs)
            f == CodeUpTo(env, instrs)
            V == {v \in Generator : Tame(env, W, v)}
<1>1. n \in Nat /\ \A k \in 1..n : instrs[k] \in InstructionNode
  OBVIOUS
<1>2. /\ Code(env, instrs) = f[n]
      /\ \A k \in 0..n :
           /\ f[k] \in Generator
           /\ f[k] = IF k = 0 THEN NoCode ELSE AddInstruction(env, instrs[k], f[k - 1])
  BY CodeFacts
<1>. HIDE DEF f
<1>3. ASSUME NEW k \in 1..n, f[k - 1] \in V PROVE f[k] \in V
  <2>. DEFINE ins == instrs[k]
              st == f[k - 1]
              s == Append(st.starts, Len(st.code))
              st1 == [st EXCEPT !.ok = TRUE, !.starts = s]
              u == Instruction(env, ins, st1)
              ops == [j \in DOMAIN ins.operands |-> Resolve(env, ins.operands[j])]
              def == Opcodes[ins.op]
              op == ins.op
  <2>1. k \in 0..n /\ k # 0
    OBVIOUS
  <2>2. f[k] = AddInstruction(env, ins, st) /\ f[k] \in Generator
    BY <1>2, <2>1
  <2>3. st \in Generator /\ Tame(env, W, st)
    BY <1>3
  <2>. HIDE DEF st
  <2>4. CASE st.panic
    BY <2>2, <2>3, <2>4 DEF AddInstruction
  <2>5. CASE ~st.panic
    <3>1. f[k] = NoteFailure(u)
      BY <2>2, <2>5 DEF AddInstruction
    <3>2. s \in Seq(Nat)
      BY <2>3, GeneratorFacts
    <3>. HIDE DEF s
    <3>3. st1 \in Generator /\ st1.refs = st.refs /\ st1.panic = st.panic /\ st1.code = st.code
      BY <2>3, <3>2 DEF Generator
    <3>. HIDE DEF st1
    <3>4. Len(st1.code) >= Len(st.code)
      BY <2>3, <3>3, GeneratorFacts
    <3>5. Tame(env, W, st1)
      BY <2>3, <3>3, <3>4, StaysTame
    <3>6. u \in Generator
      BY <1>1, <3>3, InstructionFacts DEF Preserved
    <3>7. Tame(env, W, u)
      <4>1. CASE op \notin DOMAIN Opcodes
        <5>1. u = [st1 EXCEPT !.ok = FALSE]
          BY <4>1 DEF Instruction
        <5>2. u.refs = st1.refs /\ u.panic = st1.panic /\ u.code = st1.code
          BY <3>3, <5>1 DEF Generator
        <5>. HIDE DEF u
        <5>3. Len(u.code) >= Len(st1.code)
          BY <3>6, <5>2, GeneratorFacts
        <5>. QED
          BY <3>3, <3>5, <3>6, <5>2, <5>3, StaysTame
      <4>2. CASE op \in DOMAIN Opcodes
        <5>1. ops \in Seq(OperandNode) /\ \A j \in 1..Len(ops) : ops[j] \in W
          <6>1. ins.operands \in Seq(OperandNode)
            BY <1>1 DEF InstructionNode
          <6>. DEFINE m == Len(ins.operands)
          <6>2. m \in Nat /\ DOMAIN ins.operands = 1..m
            BY <6>1
          <6>3. \A j \in 1..m : Resolve(env, ins.operands[j]) \in OperandNode
            BY <6>1, <6>2, OperandResolved
          <6>4. \A j \in 1..m : Resolve(env, ins.operands[j]) \in W
            BY <6>2
          <6>. HIDE DEF m
          <6>. QED
            BY <6>2, <6>3, <6>4
        <5>2. def \in [mode : Modes, opcode : 0..109] /\ (op = "timer" => def.mode = i_w)
          BY <4>2, OpcodeFacts
        <5>3. u = Emit(env, op, def, ops, st1)
          BY <4>2 DEF Instruction
        <5>. HIDE DEF u, ops, def, op
        <5>. QED
          BY <3>3, <3>5, <5>1, <5>2, <5>3, EmitTame
      <4>. QED
        BY <4>1, <4>2
    <3>. HIDE DEF u
    <3>8. f[k].refs = u.refs /\ f[k].panic = u.panic /\ f[k].code = u.code
      BY <3>1, <3>6 DEF NoteFailure, Generator
    <3>9. Len(f[k].code) >= Len(u.code)
      BY <3>6, <3>8, GeneratorFacts
    <3>10. Tame(env, W, f[k])
      BY <2>2, <3>6, <3>7, <3>8, <3>9, StaysTame
    <3>. QED
      BY <2>2, <3>10
  <2>. QED
    BY <2>4, <2>5
<1>4. f[0] \in V
  <2>1. f[0] = NoCode /\ f[0] \in Generator
    BY <1>1, <1>2
  <2>2. DOMAIN NoCode.refs = {} /\ ~NoCode.panic
    BY DEF NoCode
  <2>3. Tame(env, W, NoCode)
    BY <2>2 DEF Tame, Spaced
  <2>. QED
    BY <2>1, <2>3
<1>. HIDE DEF V, n
<1>5. \A k \in 0..n : f[k] \in V
  BY <1>1, <1>3, <1>4, Typed
<1>6. f[n] \in V
  BY <1>1, <1>5
<1>. QED
  BY <1>2, <1>6 DEF V

-----------------------------------------------------------------------------
(***************************************************************************)
(* Why the code generator panics, and what a file sees of the others.      *)
(***************************************************************************)

(* What the tools make of the operands of a file *)
OperandsIn(f) == UNION {Range(OperandsOf(f, k)) : k \in DOMAIN f.src.instrs}

(* When the code generator panics, the file has one of the causes. *)
LEMMA CauseOfPanic ==
    ASSUME NEW f \in SourceFile, Extra(f) \in Seq(ConstNode), New(f.src, Extra(f)),
           Run(f.src, Extra(f), f.entry).outcome = "panic"
    PROVE  TooLong(f) \/ TooLargeFile(f) \/ UnknownSizeof(f)
<1>. DEFINE src == f.src
            env == EnvOf(f)
            gen == Code(env, src.instrs)
            W == OperandsIn(f)
            run == ObjectFile(env, gen, f.entry)
<1>1. /\ src \in SourceNode /\ src.instrs \in Seq(InstructionNode)
      /\ src.data \in Seq(DataNode) /\ src.labels \in Seq(LabelNode)
  BY DEF SourceFile, SourceNode
<1>2. Environments(env)
  BY <1>1, EnvFacts DEF EnvOf
<1>3. run.outcome = "panic"
  BY DEF Run, Generate, EnvOf
<1>4. /\ DOMAIN env.data \subseteq NamesOf(src.data)
      /\ DOMAIN env.labels = NamesOf(src.labels)
  <2>1. env.data = DataTable(src.data).data /\ env.labels = ByName(src.labels)
    BY DEF EnvOf, Env
  <2>2. DOMAIN DataTable(src.data).data \subseteq NamesOf(src.data)
    BY <1>1, DataTableFacts
  <2>3. DOMAIN ByName(src.labels) = NamesOf(src.labels)
    BY <1>1, ByNameFacts
  <2>. QED
    BY <2>1, <2>2, <2>3
<1>5. Tame(env, W, gen)
  <2>1. ASSUME NEW k \in 1..Len(src.instrs), NEW j \in DOMAIN src.instrs[k].operands
        PROVE  Resolve(env, src.instrs[k].operands[j]) \in W
    <3>1. k \in DOMAIN src.instrs
      BY <1>1
    <3>2. /\ j \in DOMAIN OperandsOf(f, k)
          /\ OperandsOf(f, k)[j] = Resolve(env, src.instrs[k].operands[j])
      BY DEF OperandsOf
    <3>3. OperandsOf(f, k)[j] \in Range(OperandsOf(f, k))
      BY <3>2 DEF Range
    <3>. QED
      BY <3>1, <3>2, <3>3 DEF OperandsIn
  <2>. HIDE DEF W, env
  <2>. QED
    BY <1>1, <1>2, <2>1, CodeTame
<1>6. gen \in Generator
  BY <1>1, <1>2, CodeFacts
<1>7. \/ gen.panic \/ TooLarge(env, gen, f.entry)
      \/ \E n \in Symbols(env, gen) : ~(Len(n) <= MaxName)
  BY <1>3, ObjectFacts
<1>8. CASE gen.panic
  <2>1. PICK o \in W : Unknown(env, o)
    BY <1>5, <1>8 DEF Tame
  <2>2. PICK k \in DOMAIN src.instrs : o \in Range(OperandsOf(f, k))
    BY <2>1 DEF OperandsIn
  <2>3. UnknownSizeof(f)
    BY <2>1, <2>2 DEF UnknownSizeof, Unknown
  <2>. QED
    BY <2>3
<1>9. CASE TooLarge(env, gen, f.entry)
  <2>1. \E e \in {EnvOf(f)} : TooLarge(e, Code(e, f.src.instrs), f.entry)
    BY <1>9
  <2>. QED
    BY <2>1 DEF TooLargeFile
<1>10. CASE \E n \in Symbols(env, gen) : ~(Len(n) <= MaxName)
  <2>1. PICK n \in Symbols(env, gen) : ~(Len(n) <= MaxName)
    BY <1>10
  <2>2. n \in Defined(f) \cup UsedNames(f)
    <3>1. CASE n \in DOMAIN env.data \cup DOMAIN env.labels
      BY <1>4, <3>1 DEF Defined
    <3>2. CASE n \in {gen.refs[k].name : k \in DOMAIN gen.refs}
      <4>1. PICK i \in DOMAIN gen.refs : n = gen.refs[i].name
        BY <3>2
      <4>2. PICK o \in W : o.kind = "name" /\ o.name = n
        BY <1>5, <4>1 DEF Tame
      <4>3. n \in UsedNames(f)
        BY <4>2 DEF UsedNames, OperandsIn
      <4>. QED
        BY <4>3
    <3>. QED
      BY <2>1, <3>1, <3>2 DEF Symbols
  <2>3. Len(n) > MaxName
    <3>1. n \in Ident
      BY <1>2, <1>6, <2>1, SymbolsFacts
    <3>2. Len(n) \in Nat /\ MaxName \in Int
      BY <3>1, IdentFacts, MaxNameAssumption
    <3>. QED
      BY <2>1, <3>2
  <2>4. TooLong(f)
    BY <2>2, <2>3 DEF TooLong
  <2>. QED
    BY <2>4
<1>. QED
  BY <1>7, <1>8, <1>9, <1>10

(* The constants that one file passes on to the next *)
LEMMA CarryFacts ==
    ASSUME NEW cs \in Seq(ConstNode), NEW src \in SourceNode
    PROVE  Carry(cs, src) \in Seq(ConstNode)
<1>1. PublicConsts(src) \in Seq(ConstNode)
  <2>1. src.consts \in Seq(ConstNode)
    BY DEF SourceNode
  <2>. QED
    BY <2>1, SelectedTyped DEF PublicConsts
<1>2. cs \o PublicConsts(src) \in Seq(ConstNode)
  <2>. DEFINE p == PublicConsts(src)
  <2>. HIDE DEF p
  <2>1. p \in Seq(ConstNode)
    BY <1>1 DEF p
  <2>2. cs \o p \in Seq(ConstNode)
    BY <2>1
  <2>. QED
    BY <2>2 DEF p
<1>. QED
  BY <1>2 DEF Carry

(* The constants carried along from file to file are constants. *)
LEMMA CarriedFacts ==
    ASSUME NEW inputs \in Seq(SourceFile)
    PROVE  \A k \in 0..Len(inputs) :
             /\ Carried(inputs)[k] \in Seq(ConstNode)
             /\ Carried(inputs)[k] = IF k = 0 THEN <<>> ELSE Carry(Carried(inputs)[k - 1], inputs[k].src)
<1>. DEFINE n == Len(inputs)
            V == Seq(ConstNode)
            none == <<>>
            Step(v, k) == Carry(v, inputs[k].src)
            Body(f) == [k \in 0..n |-> IF k = 0 THEN none ELSE Step(f[k - 1], k)]
            G == [k \in 1..n |-> [v \in V |-> Step(v, k)]]
            f == Carried(inputs)
<1>1. n \in Nat /\ \A k \in 1..n : inputs[k].src \in SourceNode
  <2>1. n \in Nat /\ \A k \in 1..n : inputs[k] \in SourceFile
    OBVIOUS
  <2>. QED
    BY <2>1 DEF SourceFile, SourceNode
<1>2. none \in V
  OBVIOUS
<1>3. \A k \in 1..n : \A v \in V : Step(v, k) \in V
  BY <1>1, CarryFacts
<1>4. f = CHOOSE g : g = Body(g)
  BY DEF Carried
<1>. HIDE DEF n, V, none, Step
<1>5. G \in [1..n -> [V -> V]] /\ \A k \in 1..n : \A v \in V : G[k][v] = Step(v, k)
  BY <1>3
<1>. HIDE DEF G
<1>6. \E g : g = Body(g)
  <2>0. Equation(n, V, none, G)
    BY <1>1, <1>2, <1>5, Unrolled
  <2>1. PICK h \in [0..n -> V] : h = [k \in 0..n |-> IF k = 0 THEN none ELSE G[k][h[k - 1]]]
    BY <2>0 DEF Equation
  <2>2. \A k \in 0..n : k # 0 => h[k - 1] \in V /\ k \in 1..n
    BY <1>1
  <2>3. h = Body(h)
    BY <1>5, <2>1, <2>2
  <2>. QED
    BY <2>3
<1>7. f = Body(f)
  <2>. HIDE DEF Body, f
  <2>. QED
    BY <1>4, <1>6, Zenon
<1>8. \A k \in 0..n : f[k] = IF k = 0 THEN none ELSE Step(f[k - 1], k)
  BY <1>7, Zenon
<1>. HIDE DEF f
<1>9. f[0] \in V /\ \A k \in 1..n : f[k - 1] \in V => f[k] \in V
  BY <1>1, <1>2, <1>3, <1>8
<1>10. \A k \in 0..n : f[k] \in V
  BY <1>1, <1>9, Typed
<1>. QED
  BY <1>8, <1>10 DEF n, V, none, Step, f

(* The files have different ids. *)
DifferentIds(files) == \A i, j \in DOMAIN files : files[i].id = files[j].id => i = j

(* What the file k of the loop sees of the files before it. *)
LEMMA ExtraFacts ==
    ASSUME DifferentIds(Inputs(project.files)), NEW k \in DOMAIN Inputs(project.files)
    PROVE  Extra(Inputs(project.files)[k]) = Carried(Inputs(project.files))[k - 1]
<1>. DEFINE inputs == Inputs(project.files)
            f == inputs[k]
            j == CHOOSE i \in DOMAIN inputs : inputs[i].id = f.id
<1>1. j \in DOMAIN inputs /\ inputs[j].id = f.id
  OBVIOUS
<1>2. j = k
  BY <1>1 DEF DifferentIds
<1>3. Extra(f) = Carried(inputs)[j - 1]
  BY DEF Extra
<1>. QED
  BY <1>2, <1>3

-----------------------------------------------------------------------------
(***************************************************************************)
(* Lists of lists, and the files in the order of the loop.                 *)
(***************************************************************************)

(* The lists seqs one after the other, up to each, from none *)
Joined(seqs) == [k \in 0..Len(seqs) |-> IF k = 0 THEN <<>> ELSE Flat(seqs)[k]]

(* Joining lists adds one after the other. *)
LEMMA JoinedFacts ==
    ASSUME NEW S, NEW seqs, NEW n \in Nat, seqs = [k \in 1..n |-> seqs[k]],
           \A k \in 1..n : seqs[k] \in Seq(S)
    PROVE  /\ FlattenSeq(seqs) = Joined(seqs)[n]
           /\ Joined(seqs)[0] = <<>>
           /\ \A k \in 1..n : Joined(seqs)[k] = Joined(seqs)[k - 1] \o seqs[k]
           /\ \A k \in 0..n : Joined(seqs)[k] \in Seq(S)
<1>. DEFINE f == Flat(seqs)
            g == Joined(seqs)
            V == Seq(S)
<1>1. Len(seqs) = n
  OBVIOUS
<1>2. /\ FlattenSeq(seqs) = IF n = 0 THEN seqs ELSE f[n]
      /\ \A k \in 1..n : f[k] = IF k = 1 THEN seqs[k] ELSE f[k - 1] \o seqs[k]
  <2>1. Lists(S, seqs, n)
    BY <1>1 DEF Lists
  <2>2. /\ FlattenSeq(seqs) = IF n = 0 THEN seqs ELSE Flat(seqs)[n]
        /\ \A k \in 1..n :
             Flat(seqs)[k] = IF k = 1 THEN seqs[k] ELSE Flat(seqs)[k - 1] \o seqs[k]
    <3>1. FlattenSeq(seqs) = IF n = 0 THEN seqs ELSE Flat(seqs)[n]
      BY <1>1, FlattenCases
    <3>2. \A k \in 1..n : Flat(seqs)[k] = IF k = 1 THEN seqs[k] ELSE Flat(seqs)[k - 1] \o seqs[k]
      BY <2>1, FlattenFacts
    <3>. QED
      BY <3>1, <3>2, Zenon
  <2>. QED
    BY <2>2, Zenon
<1>3. g = [k \in 0..n |-> IF k = 0 THEN <<>> ELSE f[k]]
  BY <1>1 DEF Joined
<1>. HIDE DEF f, g
<1>4. g[0] = <<>> /\ \A k \in 1..n : g[k] = f[k]
  BY <1>3
<1>5. \A v, w \in V : v \o w \in V
  OBVIOUS
<1>6. \A v \in V : <<>> \o v = v
  OBVIOUS
<1>7. <<>> \in V /\ \A k \in 1..n : seqs[k] \in V
  OBVIOUS
<1>8. ASSUME NEW k \in 1..n PROVE g[k] = g[k - 1] \o seqs[k]
  <2>1. CASE k = 1
    <3>1. g[k] = seqs[k] /\ g[k - 1] = <<>>
      BY <1>2, <1>4, <2>1
    <3>. HIDE DEF V
    <3>. QED
      BY <1>6, <1>7, <3>1
  <2>2. CASE k # 1
    <3>1. k - 1 \in 1..n
      BY <2>2
    <3>. QED
      BY <1>2, <1>4, <2>2, <3>1
  <2>. QED
    BY <2>1, <2>2
<1>. HIDE DEF V
<1>9. g[0] \in V /\ \A k \in 1..n : g[k - 1] \in V => g[k] \in V
  BY <1>4, <1>5, <1>7, <1>8
<1>10. \A k \in 0..n : g[k] \in V
  BY <1>9, Typed
<1>11. FlattenSeq(seqs) = g[n]
  <2>1. CASE n = 0
    <3>1. seqs = <<>>
      BY <2>1
    <3>. QED
      BY <1>2, <1>4, <2>1, <3>1
  <2>2. CASE n # 0
    BY <1>2, <1>4, <2>2
  <2>. QED
    BY <2>1, <2>2
<1>. QED
  BY <1>4, <1>8, <1>10, <1>11 DEF g, V

(* The list t consists of elements of s at some of the first k places in   *)
(* T, in their order.                                                      *)
Picked(s, T, k, t) ==
    \E g \in [1..Len(t) -> T \cap (1..k)] :
       /\ \A r \in 1..Len(t) : t[r] = s[g[r]]
       /\ \A q, r \in 1..Len(t) : q < r => g[q] < g[r]

(* What is selected are elements in their order. *)
LEMMA SelectedFacts ==
    ASSUME NEW S, NEW s \in Seq(S), NEW T
    PROVE  Selected(s, T) \in Seq(S) /\ Picked(s, T, Len(s), Selected(s, T))
<1>. DEFINE n == Len(s)
            parts == [k \in DOMAIN s |-> IF k \in T THEN <<s[k]>> ELSE <<>>]
            f == Joined(parts)
            V == Seq(S)
<1>1. n \in Nat /\ DOMAIN s = 1..n /\ \A k \in 1..n : s[k] \in S
  OBVIOUS
<1>. HIDE DEF n
<1>2. parts = [k \in 1..n |-> parts[k]] /\ \A k \in 1..n : parts[k] \in Seq(S)
  BY <1>1
<1>3. \A k \in 1..n : parts[k] = IF k \in T THEN <<s[k]>> ELSE <<>>
  BY <1>1
<1>4. Selected(s, T) = FlattenSeq(parts)
  BY DEF Selected
<1>. HIDE DEF parts
<1>5. /\ FlattenSeq(parts) = f[n] /\ f[0] = <<>>
      /\ \A k \in 1..n : f[k] = f[k - 1] \o parts[k]
      /\ \A k \in 0..n : f[k] \in Seq(S)
  <2>1. /\ FlattenSeq(parts) = Joined(parts)[n]
        /\ Joined(parts)[0] = <<>>
        /\ \A k \in 1..n : Joined(parts)[k] = Joined(parts)[k - 1] \o parts[k]
        /\ \A k \in 0..n : Joined(parts)[k] \in Seq(S)
    BY <1>1, <1>2, JoinedFacts
  <2>. QED
    BY <2>1, Zenon
<1>. HIDE DEF f
<1>. DEFINE Q == {k \in 0..n : Picked(s, T, k, f[k])}
<1>6. 0 \in Q
  <2>1. Len(f[0]) = 0
    BY <1>5
  <2>2. \E g : g \in [1..0 -> T \cap (1..0)]
    <3>. DEFINE g == [r \in 1..0 |-> 0]
    <3>1. g \in [1..0 -> T \cap (1..0)]
      OBVIOUS
    <3>. QED
      BY <3>1
  <2>3. \A r : r \notin 1..0
    OBVIOUS
  <2>4. Picked(s, T, 0, f[0])
    <3>. DEFINE t == f[0]
    <3>. HIDE DEF t
    <3>1. Len(t) = 0
      BY <2>1 DEF t
    <3>2. \E g \in [1..0 -> T \cap (1..0)] :
             /\ \A r \in 1..0 : t[r] = s[g[r]]
             /\ \A q, r \in 1..0 : q < r => g[q] < g[r]
      BY <2>2, <2>3, Zenon
    <3>. QED
      BY <3>1, <3>2 DEF Picked, t
  <2>. QED
    BY <1>1, <2>4
<1>7. ASSUME NEW k \in 0..(n - 1), k \in Q PROVE k + 1 \in Q
  <2>. DEFINE m == Len(f[k])
  <2>1. k + 1 \in 1..n /\ k + 1 \in 0..n /\ (k + 1) - 1 = k /\ k \in 0..n /\ k \in Nat
    BY <1>1
  <2>2. f[k] \in Seq(S) /\ m \in Nat /\ f[k + 1] = f[k] \o parts[k + 1] /\ s[k + 1] \in S
    <3>1. f[k] \in Seq(S) /\ f[k + 1] = f[k] \o parts[k + 1] /\ s[k + 1] \in S
      BY <1>1, <1>5, <2>1
    <3>2. m \in Nat
      <4>. DEFINE t == f[k]
      <4>1. t \in Seq(S)
        BY <3>1
      <4>. HIDE DEF t
      <4>2. Len(t) \in Nat
        BY <4>1
      <4>. QED
        BY <4>2 DEF t
    <3>. QED
      BY <3>1, <3>2
  <2>3. PICK g \in [1..m -> T \cap (1..k)] :
          /\ \A r \in 1..m : f[k][r] = s[g[r]]
          /\ \A q, r \in 1..m : q < r => g[q] < g[r]
    BY <1>7 DEF Picked
  <2>. HIDE DEF m
  <2>4. CASE k + 1 \notin T
    <3>1. f[k + 1] = f[k]
      <4>1. f[k + 1] = f[k] \o <<>>
        BY <1>3, <2>1, <2>2, <2>4
      <4>. QED
        BY <2>2, <4>1
    <3>2. g \in [1..m -> T \cap (1..(k + 1))]
      BY <2>1
    <3>3. Picked(s, T, k + 1, f[k + 1])
      BY <2>3, <3>1, <3>2 DEF Picked, m
    <3>. QED
      BY <2>1, <3>3
  <2>5. CASE k + 1 \in T
    <3>. DEFINE h == [r \in 1..(m + 1) |-> IF r = m + 1 THEN k + 1 ELSE g[r]]
                x == s[k + 1]
                t == f[k] \o <<x>>
    <3>1. f[k + 1] = t
      BY <1>3, <2>1, <2>2, <2>5
    <3>. HIDE DEF x
    <3>2. Len(t) = m + 1 /\ t[m + 1] = x /\ \A r \in 1..m : t[r] = f[k][r]
      BY <2>2 DEF x, m
    <3>. HIDE DEF t
    <3>3. \A r \in 1..(m + 1) : r = m + 1 \/ (r \in 1..m /\ r # m + 1)
      BY <2>2
    <3>4. \A r \in 1..m : g[r] \in 1..k /\ g[r] \in T
      OBVIOUS
    <3>5. h \in [1..(m + 1) -> T \cap (1..(k + 1))]
      <4>1. ASSUME NEW r \in 1..(m + 1) PROVE h[r] \in T \cap (1..(k + 1))
        <5>1. CASE r = m + 1
          BY <2>1, <2>5, <5>1
        <5>2. CASE r \in 1..m /\ r # m + 1
          <6>1. h[r] = g[r] /\ g[r] \in T /\ g[r] \in 1..k
            BY <3>4, <5>2
          <6>. QED
            BY <2>1, <6>1
        <5>. QED
          BY <3>3, <5>1, <5>2
      <4>. QED
        BY <4>1
    <3>6. /\ \A r \in 1..m : h[r] = g[r]
          /\ h[m + 1] = k + 1
      BY <2>2
    <3>. HIDE DEF h
    <3>7. \A r \in 1..(m + 1) : t[r] = s[h[r]]
      BY <2>3, <3>2, <3>3, <3>6 DEF x
    <3>8. \A q, r \in 1..(m + 1) : q < r => h[q] < h[r]
      <4>1. ASSUME NEW q \in 1..(m + 1), NEW r \in 1..(m + 1), q < r PROVE h[q] < h[r]
        <5>1. q \in 1..m
          BY <2>2, <4>1
        <5>2. CASE r = m + 1
          BY <2>1, <3>4, <3>6, <5>1, <5>2
        <5>3. CASE r \in 1..m
          BY <2>3, <3>6, <4>1, <5>1, <5>3
        <5>. QED
          BY <3>3, <5>2, <5>3
      <4>. QED
        BY <4>1
    <3>9. Picked(s, T, k + 1, f[k + 1])
      BY <3>1, <3>2, <3>5, <3>7, <3>8 DEF Picked
    <3>. QED
      BY <2>1, <3>9
  <2>. QED
    BY <2>4, <2>5
<1>8. \A k \in 0..n : k \in Q
  <2>. HIDE DEF Q
  <2>. QED
    BY <1>1, <1>6, <1>7, InductionTo
<1>9. Picked(s, T, n, f[n]) /\ f[n] \in Seq(S)
  BY <1>1, <1>5, <1>8
<1>. QED
  BY <1>4, <1>5, <1>9 DEF n

(* The files are those of the project, each once. *)
LEMMA InputsDiffer ==
    ASSUME NEW files \in Seq(SourceFile), DifferentIds(files)
    PROVE  DifferentIds(Inputs(files)) /\ Range(Inputs(files)) \subseteq Range(files)
<1>. DEFINE A == {k \in DOMAIN files : ~files[k].entry}
            B == {k \in DOMAIN files : files[k].entry}
            a == Selected(files, A)
            b == Selected(files, B)
            n == Len(files)
            inputs == Inputs(files)
<1>0. A \cap B = {} /\ DOMAIN files = 1..n /\ n \in Nat
  BY ElementsOf
<1>. HIDE DEF A, B
<1>1. /\ a \in Seq(SourceFile) /\ Picked(files, A, n, a)
      /\ b \in Seq(SourceFile) /\ Picked(files, B, n, b)
  BY SelectedFacts
<1>2. inputs = a \o b
  BY DEF Inputs, A, B
<1>. HIDE DEF a, b, inputs
<1>3. PICK g \in [1..Len(a) -> A \cap (1..n)] :
        /\ \A r \in 1..Len(a) : a[r] = files[g[r]]
        /\ \A q, r \in 1..Len(a) : q < r => g[q] < g[r]
  BY <1>1 DEF Picked
<1>4. PICK h \in [1..Len(b) -> B \cap (1..n)] :
        /\ \A r \in 1..Len(b) : b[r] = files[h[r]]
        /\ \A q, r \in 1..Len(b) : q < r => h[q] < h[r]
  BY <1>1 DEF Picked
<1>5. /\ Len(a) \in Nat /\ Len(b) \in Nat /\ DOMAIN inputs = 1..(Len(a) + Len(b))
      /\ \A k \in 1..(Len(a) + Len(b)) :
           inputs[k] = IF k <= Len(a) THEN a[k] ELSE b[k - Len(a)]
  BY <1>1, <1>2
<1>. DEFINE From(k) == IF k <= Len(a) THEN g[k] ELSE h[k - Len(a)]
<1>6. ASSUME NEW k \in DOMAIN inputs
      PROVE  /\ inputs[k] = files[From(k)] /\ From(k) \in 1..n
             /\ IF k <= Len(a) THEN k \in 1..Len(a) /\ From(k) \in A
                ELSE k - Len(a) \in 1..Len(b) /\ From(k) \in B
  <2>1. CASE k <= Len(a)
    <3>1. k \in 1..Len(a)
      BY <1>5, <2>1
    <3>. QED
      BY <1>3, <1>5, <2>1, <3>1
  <2>2. CASE ~(k <= Len(a))
    <3>1. k - Len(a) \in 1..Len(b)
      BY <1>5, <2>2
    <3>. QED
      BY <1>4, <1>5, <2>2, <3>1
  <2>. QED
    BY <2>1, <2>2
<1>7. ASSUME NEW j \in DOMAIN inputs, NEW k \in DOMAIN inputs, j < k PROVE From(j) # From(k)
  <2>1. CASE k <= Len(a)
    <3>1. j <= Len(a) /\ j \in 1..Len(a) /\ k \in 1..Len(a)
      BY <1>5, <1>7, <2>1
    <3>2. g[j] < g[k] /\ g[j] \in 1..n /\ g[k] \in 1..n
      BY <1>3, <1>7, <3>1
    <3>. QED
      BY <2>1, <3>1, <3>2
  <2>2. CASE j <= Len(a) /\ ~(k <= Len(a))
    BY <1>0, <1>6, <2>2
  <2>3. CASE ~(j <= Len(a))
    <3>1. ~(k <= Len(a)) /\ j - Len(a) \in 1..Len(b) /\ k - Len(a) \in 1..Len(b)
          /\ j - Len(a) < k - Len(a)
      BY <1>5, <1>7, <2>3
    <3>2. h[j - Len(a)] < h[k - Len(a)] /\ h[j - Len(a)] \in 1..n /\ h[k - Len(a)] \in 1..n
      BY <1>4, <3>1
    <3>. QED
      BY <2>3, <3>1, <3>2
  <2>. QED
    BY <1>5, <1>7, <2>1, <2>2, <2>3
<1>. HIDE DEF From
<1>8. ASSUME NEW j \in DOMAIN inputs, NEW k \in DOMAIN inputs, inputs[j].id = inputs[k].id
      PROVE  j = k
  <2>1. From(j) = From(k)
    BY <1>0, <1>6, <1>8 DEF DifferentIds
  <2>2. ~(j < k) /\ ~(k < j)
    BY <1>7, <2>1
  <2>. QED
    BY <1>5, <2>2
<1>9. \A k \in DOMAIN inputs : inputs[k] \in Range(files)
  BY <1>0, <1>6 DEF Range
<1>. QED
  BY <1>8, <1>9 DEF DifferentIds, Range, inputs

-----------------------------------------------------------------------------
(***************************************************************************)
(* What is written in four bytes is read as it was.                        *)
(***************************************************************************)

(* The next place of a list, counted from either end *)
LEMMA NextPlace ==
    ASSUME NEW n \in Nat, NEW k \in 0..(n - 1)
    PROVE  /\ k + 1 \in 1..n /\ k + 1 \in 0..n /\ (k + 1) - 1 = k /\ k \in 0..n
           /\ n - k \in 1..n /\ (n - k) - 1 \in 0..n /\ (n - k) - 1 = n - (k + 1)
OBVIOUS

(* The list s is in the file, after the first p elements. *)
Occurs(file, p, s) == p + Len(s) <= Len(file) /\ \A i \in 1..Len(s) : file[p + i] = s[i]

(* When two lists are there one after the other, so is each. *)
LEMMA OccursJoined ==
    ASSUME NEW S, NEW file \in Seq(S), NEW p \in Nat, NEW a \in Seq(S), NEW b \in Seq(S),
           Occurs(file, p, a \o b)
    PROVE  Occurs(file, p, a) /\ Occurs(file, p + Len(a), b)
<1>. DEFINE t == a \o b
            l == Len(a)
            m == Len(b)
            n == Len(file)
<1>1. l \in Nat /\ m \in Nat /\ n \in Nat
  OBVIOUS
<1>2. Len(t) = l + m /\ (\A i \in 1..l : t[i] = a[i]) /\ \A i \in 1..m : t[l + i] = b[i]
  OBVIOUS
<1>. HIDE DEF t, l, m, n
<1>3. p + (l + m) <= n /\ \A i \in 1..(l + m) : file[p + i] = t[i]
  BY <1>2 DEF Occurs, t, n
<1>4. p + l <= n /\ \A i \in 1..l : file[p + i] = a[i]
  BY <1>1, <1>2, <1>3
<1>5. (p + l) + m <= n /\ \A i \in 1..m : file[(p + l) + i] = b[i]
  <2>1. ASSUME NEW i \in 1..m PROVE file[(p + l) + i] = b[i]
    <3>1. l + i \in 1..(l + m) /\ p + (l + i) = (p + l) + i
      BY <1>1
    <3>. QED
      BY <1>2, <1>3, <3>1
  <2>. QED
    BY <1>1, <1>3, <2>1
<1>. QED
  BY <1>4, <1>5 DEF Occurs, l, m, n

(* e has where each of n lists ends, when they lie one after the other. *)
AddsUp(e, n, seqs) == e[0] = 0 /\ \A k \in 1..n : e[k] = e[k - 1] + Len(seqs[k])

(* How long a list of lists is, up to each *)
LEMMA FlatLength ==
    ASSUME NEW S, NEW seqs, NEW n \in Nat, seqs = [k \in 1..n |-> seqs[k]],
           \A k \in 1..n : seqs[k] \in Seq(S), NEW e, AddsUp(e, n, seqs)
    PROVE  /\ \A k \in 0..n : Len(Joined(seqs)[k]) = e[k]
           /\ Len(FlattenSeq(seqs)) = e[n]
<1>. DEFINE f == Joined(seqs)
            V == Seq(S)
<1>1. /\ FlattenSeq(seqs) = f[n] /\ f[0] = <<>>
      /\ \A k \in 1..n : f[k] = f[k - 1] \o seqs[k]
      /\ \A k \in 0..n : f[k] \in Seq(S)
  <2>1. /\ FlattenSeq(seqs) = Joined(seqs)[n]
        /\ Joined(seqs)[0] = <<>>
        /\ \A k \in 1..n : Joined(seqs)[k] = Joined(seqs)[k - 1] \o seqs[k]
        /\ \A k \in 0..n : Joined(seqs)[k] \in Seq(S)
    BY JoinedFacts
  <2>. QED
    BY <2>1, Zenon
<1>. HIDE DEF f
<1>2. \A a, b \in V : Len(a \o b) = Len(a) + Len(b)
  OBVIOUS
<1>3. \A k \in 1..n : seqs[k] \in V
  OBVIOUS
<1>. HIDE DEF V
<1>. DEFINE T == {k \in 0..n : Len(f[k]) = e[k]}
<1>4. 0 \in T
  <2>1. Len(f[0]) = 0
    BY <1>1
  <2>. QED
    BY <2>1 DEF AddsUp
<1>5. ASSUME NEW k \in 0..(n - 1), k \in T PROVE k + 1 \in T
  <2>1. k + 1 \in 1..n /\ k + 1 \in 0..n /\ (k + 1) - 1 = k /\ k \in 0..n
    BY NextPlace
  <2>2. f[k + 1] = f[k] \o seqs[k + 1] /\ f[k] \in V /\ seqs[k + 1] \in V
    BY <1>1, <1>3, <2>1 DEF V
  <2>3. Len(f[k + 1]) = Len(f[k]) + Len(seqs[k + 1])
    BY <1>2, <2>2
  <2>4. e[k + 1] = e[k] + Len(seqs[k + 1])
    BY <2>1 DEF AddsUp
  <2>. QED
    BY <1>5, <2>1, <2>3, <2>4
<1>. HIDE DEF T
<1>6. \A k \in 0..n : k \in T
  BY <1>4, <1>5, InductionTo
<1>7. n \in 0..n
  OBVIOUS
<1>. QED
  BY <1>1, <1>6, <1>7 DEF T, f

(* Each of some lists is in the file where the ones before it end. *)
LEMMA OccursFlat ==
    ASSUME NEW S, NEW file \in Seq(S), NEW p \in Nat, NEW seqs, NEW n \in Nat,
           seqs = [k \in 1..n |-> seqs[k]], \A k \in 1..n : seqs[k] \in Seq(S),
           Occurs(file, p, FlattenSeq(seqs)), NEW e, AddsUp(e, n, seqs)
    PROVE  \A k \in 1..n : Occurs(file, p + e[k - 1], seqs[k])
<1>. DEFINE f == Joined(seqs)
<1>1. /\ FlattenSeq(seqs) = f[n] /\ f[0] = <<>>
      /\ \A k \in 1..n : f[k] = f[k - 1] \o seqs[k]
      /\ \A k \in 0..n : f[k] \in Seq(S)
  <2>1. /\ FlattenSeq(seqs) = Joined(seqs)[n]
        /\ Joined(seqs)[0] = <<>>
        /\ \A k \in 1..n : Joined(seqs)[k] = Joined(seqs)[k - 1] \o seqs[k]
        /\ \A k \in 0..n : Joined(seqs)[k] \in Seq(S)
    BY JoinedFacts
  <2>. QED
    BY <2>1, Zenon
<1>. HIDE DEF f
<1>4. \A k \in 0..n : Len(f[k]) = e[k]
  BY FlatLength DEF f
<1>5. \A k \in 0..n : Occurs(file, p, f[n - k])
  <2>. DEFINE T == {k \in 0..n : Occurs(file, p, f[n - k])}
  <2>1. 0 \in T
    <3>1. n - 0 = n
      OBVIOUS
    <3>. QED
      BY <1>1, <3>1
  <2>2. ASSUME NEW k \in 0..(n - 1), k \in T PROVE k + 1 \in T
    <3>. DEFINE m == n - k
    <3>1. m \in 1..n /\ m - 1 \in 0..n /\ m - 1 = n - (k + 1) /\ k + 1 \in 0..n
      BY NextPlace
    <3>2. Occurs(file, p, f[m])
      BY <2>2
    <3>. HIDE DEF m
    <3>3. f[m] = f[m - 1] \o seqs[m] /\ f[m - 1] \in Seq(S) /\ seqs[m] \in Seq(S)
      BY <1>1, <3>1
    <3>4. Occurs(file, p, f[m - 1] \o seqs[m])
      BY <3>2, <3>3
    <3>5. Occurs(file, p, f[m - 1])
      BY <3>3, <3>4, OccursJoined
    <3>. QED
      BY <3>1, <3>5
  <2>. HIDE DEF T
  <2>3. \A k \in 0..n : k \in T
    BY <2>1, <2>2, InductionTo
  <2>. QED
    BY <2>3 DEF T
<1>6. ASSUME NEW k \in 1..n PROVE Occurs(file, p + e[k - 1], seqs[k])
  <2>1. n - k \in 0..n /\ n - (n - k) = k /\ k - 1 \in 0..n
    OBVIOUS
  <2>2. Occurs(file, p, f[k])
    <3>1. Occurs(file, p, f[n - (n - k)])
      BY <1>5, <2>1
    <3>. QED
      BY <2>1, <3>1
  <2>3. f[k] = f[k - 1] \o seqs[k] /\ f[k - 1] \in Seq(S) /\ seqs[k] \in Seq(S)
    BY <1>1, <2>1
  <2>4. Occurs(file, p, f[k - 1] \o seqs[k])
    BY <2>2, <2>3
  <2>5. Occurs(file, p + Len(f[k - 1]), seqs[k])
    BY <2>3, <2>4, OccursJoined
  <2>6. Len(f[k - 1]) = e[k - 1]
    BY <1>4, <2>1
  <2>. QED
    BY <2>5, <2>6
<1>. QED
  BY <1>6

(* A number that has room in four bytes *)
FourBytes(v) == v \in Nat /\ v \div 65536 < 65536

(* Such a number is made up of its digits. *)
LEMMA DigitsFacts ==
    ASSUME NEW v, FourBytes(v)
    PROVE  v = 65536 * (256 * ((v \div 16777216) % 256) + ((v \div 65536) % 256))
               + (256 * ((v \div 256) % 256) + ((v \div 1) % 256))
<1>. DEFINE a == v \div 256
            b == a \div 256
            c == b \div 256
<1>1. v \in Nat /\ a \in Nat /\ b \in Nat /\ c \in Nat
  BY DEF FourBytes
<1>2. v \div 65536 = b /\ v \div 16777216 = c /\ v \div 1 = v
  BY DEF FourBytes
<1>3. b < 65536
  BY <1>2 DEF FourBytes
<1>4. v = 256 * a + (v % 256) /\ a = 256 * b + (a % 256) /\ b = 256 * c + (b % 256)
  BY <1>1
<1>5. c < 256 /\ c % 256 = c
  BY <1>1, <1>3, <1>4
<1>. HIDE DEF a, b, c
<1>6. v = 65536 * (256 * (c % 256) + (b % 256)) + (256 * (a % 256) + (v % 256))
  BY <1>1, <1>4, <1>5
<1>. QED
  BY <1>2, <1>6 DEF a

(* A number that is read, from its bytes *)
LEMMA WordRead ==
    ASSUME NEW file, NEW p \in Nat, NEW a \in Int, NEW b \in Int, NEW c \in Int, NEW d \in Int,
           Silk!At(file, p) = a, Silk!At(file, p + 1) = b,
           Silk!At(file, p + 2) = c, Silk!At(file, (p + 2) + 1) = d
    PROVE  Silk!ReadU32(file, p) = 65536 * (256 * a + b) + (256 * c + d)
<1>. DEFINE g == Silk!ReadU16(file, p)
            h == Silk!ReadU16(file, p + 2)
<1>1. g = 256 * a + b /\ h = 256 * c + d
  BY DEF Silk!ReadU16
<1>. HIDE DEF g, h
<1>2. g \in Int /\ h \in Int
  BY <1>1
<1>3. Silk!ReadU32(file, p) = 65536 * g + h
  BY <1>2 DEF Silk!ReadU32, g, h
<1>. QED
  BY <1>1, <1>3

(* A number that is read is the number that was written. *)
LEMMA NumberRead ==
    ASSUME NEW S, NEW file \in Seq(S), NEW p \in Nat, NEW v, FourBytes(v), Occurs(file, p, BE(v, 4))
    PROVE  Silk!ReadU32(file, p) = v
<1>1. \A k \in 1..4 : BE(v, 4)[k] = (v \div Powers[4 - k + 1]) % 256
  BY DEF BE
<1>2. Len(BE(v, 4)) = 4
  BY DEF BE
<1>3. /\ BE(v, 4)[1] = (v \div 16777216) % 256 /\ BE(v, 4)[2] = (v \div 65536) % 256
      /\ BE(v, 4)[3] = (v \div 256) % 256 /\ BE(v, 4)[4] = (v \div 1) % 256
  BY <1>1 DEF Powers
<1>. DEFINE w == BE(v, 4)
<1>4. Len(w) = 4
  BY <1>2
<1>5. p + Len(w) <= Len(file) /\ \A i \in 1..Len(w) : file[p + i] = w[i]
  BY DEF Occurs
<1>. HIDE DEF w
<1>6. p + 4 <= Len(file) /\ file[p + 1] = w[1] /\ file[p + 2] = w[2] /\ file[p + 3] = w[3]
      /\ file[p + 4] = w[4] /\ Len(file) \in Nat
  BY <1>4, <1>5
<1>7. /\ Silk!At(file, p) = w[1] /\ Silk!At(file, p + 1) = w[2]
      /\ Silk!At(file, p + 2) = w[3] /\ Silk!At(file, (p + 2) + 1) = w[4]
  <2>1. /\ p < Len(file) /\ p + 1 < Len(file) /\ p + 2 < Len(file) /\ (p + 2) + 1 < Len(file)
        /\ (p + 1) + 1 = p + 2 /\ (p + 2) + 1 = p + 3 /\ ((p + 2) + 1) + 1 = p + 4
    BY <1>6
  <2>. QED
    BY <1>6, <2>1 DEF Silk!At
<1>8. w[1] \in Int /\ w[2] \in Int /\ w[3] \in Int /\ w[4] \in Int
  <2>1. \A u \in Nat : u % 256 \in Int /\ u \div 1 \in Nat /\ u \div 256 \in Nat
                     /\ u \div 65536 \in Nat /\ u \div 16777216 \in Nat
    OBVIOUS
  <2>. QED
    BY <1>3, <2>1 DEF w, FourBytes
<1>. DEFINE a == w[1]
            b == w[2]
            c == w[3]
            d == w[4]
            word == Silk!ReadU32(file, p)
<1>9. /\ a \in Int /\ b \in Int /\ c \in Int /\ d \in Int
      /\ Silk!At(file, p) = a /\ Silk!At(file, p + 1) = b
      /\ Silk!At(file, p + 2) = c /\ Silk!At(file, (p + 2) + 1) = d
  BY <1>7, <1>8
<1>10. v = 65536 * (256 * a + b) + (256 * c + d)
  BY <1>3, DigitsFacts DEF w
<1>. HIDE DEF a, b, c, d
<1>11. word = 65536 * (256 * a + b) + (256 * c + d)
  BY <1>9, WordRead
<1>. HIDE DEF word
<1>12. word = v
  BY <1>10, <1>11
<1>. QED
  BY <1>12 DEF word

(* The numbers of a list, four bytes each *)
Words(refs) == FlattenSeq([k \in DOMAIN refs |-> BE(refs[k], 4)])

(* Numbers of four bytes each make a string of bytes, four times as long. *)
LEMMA WordsFacts ==
    ASSUME NEW refs, NEW n \in Nat, refs = [k \in 1..n |-> refs[k]],
           \A k \in 1..n : FourBytes(refs[k])
    PROVE  /\ Words(refs) \in Bytes /\ Len(Words(refs)) = 4 * n
           /\ \A file \in Bytes : \A p \in Nat : Occurs(file, p, Words(refs)) =>
                \A k \in 1..n : Silk!ReadU32(file, p + 4 * (k - 1)) = refs[k]
<1>. DEFINE S == 0..255
            s == [k \in DOMAIN refs |-> BE(refs[k], 4)]
            e == [k \in 0..n |-> 4 * k]
<1>1. \A k \in 1..n : BE(refs[k], 4) \in Seq(S)
  <2>1. \A k \in 1..n : refs[k] \in Int
    BY DEF FourBytes
  <2>. HIDE DEF S
  <2>. QED
    BY <2>1, BytesOfNumber DEF Bytes, S
<1>2. \A k \in 1..n : Len(BE(refs[k], 4)) = 4
  BY DEF BE
<1>3. s = [k \in 1..n |-> s[k]] /\ \A k \in 1..n : s[k] = BE(refs[k], 4)
  OBVIOUS
<1>4. Words(refs) = FlattenSeq(s)
  BY DEF Words
<1>. HIDE DEF S, s
<1>5. \A k \in 1..n : s[k] \in Seq(S) /\ Len(s[k]) = 4
  BY <1>1, <1>2, <1>3
<1>6. /\ e[0] = 0 /\ \A k \in 1..n : e[k] = e[k - 1] + 4 /\ e[k - 1] = 4 * (k - 1)
      /\ e[n] = 4 * n
  OBVIOUS
<1>. HIDE DEF e
<1>7. AddsUp(e, n, s)
  BY <1>5, <1>6 DEF AddsUp
<1>8. FlattenSeq(s) \in Seq(S) /\ Len(FlattenSeq(s)) = e[n]
  <2>1. FlattenSeq(s) \in Seq(S)
    BY <1>3, <1>5, FlattenTyped
  <2>2. Len(FlattenSeq(s)) = e[n]
    BY <1>3, <1>5, <1>7, FlatLength
  <2>. QED
    BY <2>1, <2>2
<1>9. ASSUME NEW file \in Seq(S), NEW p \in Nat, Occurs(file, p, FlattenSeq(s)), NEW k \in 1..n
      PROVE  Silk!ReadU32(file, p + 4 * (k - 1)) = refs[k]
  <2>1. \A j \in 1..n : Occurs(file, p + e[j - 1], s[j])
    BY <1>3, <1>5, <1>7, <1>9, OccursFlat
  <2>. DEFINE q == p + 4 * (k - 1)
              v == refs[k]
  <2>2. q \in Nat /\ q = p + e[k - 1] /\ FourBytes(v)
    BY <1>6
  <2>. HIDE DEF q
  <2>3. Occurs(file, q, BE(v, 4))
    BY <1>3, <2>1, <2>2
  <2>. HIDE DEF v
  <2>4. Silk!ReadU32(file, q) = v
    BY <2>2, <2>3, NumberRead
  <2>. QED
    BY <2>4 DEF q, v
<1>. QED
  BY <1>4, <1>6, <1>8, <1>9 DEF Bytes, S

(* The lengths of the parts of an entry *)
LEMMA EntryLengths ==
    ASSUME NEW l \in Nat, NEW n \in Nat, NEW ab, NEW abc, NEW abcn, NEW abcnd, NEW all,
           ab = 1 + 4, abc = ab + 1, abcn = abc + l, abcnd = abcn + 4, all = abcnd + 4 * n
    PROVE  ab = 5 /\ abc = 6 /\ abcn = 6 + l /\ abcnd = 10 + l /\ all = 10 + l + 4 * n
OBVIOUS

(* The places of the references in an entry *)
LEMMA EntryPlaces ==
    ASSUME NEW l \in Nat, NEW p \in Nat, NEW k \in Nat
    PROVE  p + (10 + l) \in Nat /\ (p + (10 + l)) + 4 * (k - 1) = p + 6 + l + 4 * k
OBVIOUS

(* The bytes w are read as a symbol with the references refs, n of them. *)
ReadsAs(w, name, refs, n) ==
    /\ Len(w) = 10 + Len(name) + 4 * n
    /\ \A file \in Bytes : \A p \in Nat : Occurs(file, p, w) =>
         /\ Silk!SymbolAt(file, p).refs = refs
         /\ Silk!SymbolAt(file, p).end = p + (10 + Len(name) + 4 * n)

(* The entry of a symbol, as the linker reads it *)
LEMMA EntryRead ==
    ASSUME NEW type \in 0..255, NEW value \in Int, NEW name \in Ident, Len(name) <= MaxName,
           NEW refs, NEW n, FourBytes(n), refs = [k \in 1..n |-> refs[k]],
           \A k \in 1..n : FourBytes(refs[k])
    PROVE  ReadsAs(SymbolEntry(type, value, name, refs), name, refs, n)
<1>. DEFINE S == 0..255
            l == Len(name)
            a == <<type>>
            b == BE(value, 4)
            c == <<l>>
            d == BE(n, 4)
            e == Words(refs)
<1>0. n \in Nat /\ n \in Int
  BY DEF FourBytes
<1>1. l \in 0..255 /\ l \in Nat
  <2>1. l \in Nat /\ l <= MaxName /\ MaxName \in 1..255
    BY IdentFacts, MaxNameAssumption
  <2>. HIDE DEF l
  <2>. QED
    BY <2>1, AtMost
<1>15. l \in Nat
  BY <1>1
<1>. HIDE DEF l
<1>2. a \in Seq(S) /\ c \in Seq(S) /\ Len(a) = 1 /\ Len(c) = 1 /\ c[1] = l
  <2>1. a \in Bytes
    BY OneByte
  <2>2. c \in Bytes
    BY <1>1, OneByte
  <2>. QED
    BY <2>1, <2>2 DEF Bytes
<1>3. b \in Seq(S) /\ d \in Seq(S) /\ Len(b) = 4 /\ Len(d) = 4
  <2>1. b \in Bytes /\ d \in Bytes
    BY <1>0, BytesOfNumber
  <2>2. Len(b) = 4 /\ Len(d) = 4
    BY DEF BE
  <2>. QED
    BY <2>1, <2>2 DEF Bytes
<1>4. e \in Seq(S) /\ Len(e) = 4 * n
  BY <1>0, WordsFacts DEF Bytes
<1>5. name \in Seq(S)
  BY DEF Ident
<1>6. Len(refs) = n
  BY <1>0
<1>7. SymbolEntry(type, value, name, refs) = ((((a \o b) \o c) \o name) \o d) \o e
  BY <1>6 DEF SymbolEntry, Words, l
<1>. DEFINE V == Seq(S)
<1>. HIDE DEF a, b, c, d, e, S
<1>8. /\ \A u, v \in V : u \o v \in V /\ Len(u \o v) = Len(u) + Len(v) /\ Len(u) \in Nat
      /\ \A file, u, v \in V : \A p \in Nat :
           Occurs(file, p, u \o v) => Occurs(file, p, u) /\ Occurs(file, p + Len(u), v)
  BY OccursJoined
<1>. HIDE DEF V
<1>. DEFINE ab == a \o b
            abc == ab \o c
            abcn == abc \o name
            abcnd == abcn \o d
            all == abcnd \o e
<1>9. a \in V /\ b \in V /\ c \in V /\ name \in V /\ d \in V /\ e \in V
  BY <1>2, <1>3, <1>4, <1>5 DEF V
<1>10. ab \in V /\ abc \in V /\ abcn \in V /\ abcnd \in V /\ all \in V
  BY <1>8, <1>9
<1>14. abc = ab \o c /\ abcn = abc \o name /\ abcnd = abcn \o d /\ all = abcnd \o e
  OBVIOUS
<1>11. /\ Len(ab) = 5 /\ Len(abc) = 6 /\ Len(abcn) = 6 + l /\ Len(abcnd) = 10 + l
       /\ Len(all) = 10 + l + 4 * n
  <2>1. /\ Len(ab) = Len(a) + Len(b) /\ Len(abc) = Len(ab) + Len(c)
        /\ Len(abcn) = Len(abc) + Len(name) /\ Len(abcnd) = Len(abcn) + Len(d)
        /\ Len(all) = Len(abcnd) + Len(e)
    BY <1>8, <1>9, <1>10
  <2>2. Len(name) = l
    BY DEF l
  <2>. HIDE DEF ab, abc, abcn, abcnd, all
  <2>3. /\ Len(ab) = 1 + 4 /\ Len(abc) = Len(ab) + 1 /\ Len(abcn) = Len(abc) + l
        /\ Len(abcnd) = Len(abcn) + 4 /\ Len(all) = Len(abcnd) + 4 * n
    BY <1>2, <1>3, <1>4, <2>1, <2>2, Zenon
  <2>. QED
    BY <1>0, <1>15, <2>3, EntryLengths
<1>13. SymbolEntry(type, value, name, refs) = all
  BY <1>7
<1>. HIDE DEF ab, abc, abcn, abcnd, all
<1>12. ASSUME NEW file \in V, NEW p \in Nat, Occurs(file, p, all)
       PROVE  /\ Silk!SymbolAt(file, p).refs = refs
              /\ Silk!SymbolAt(file, p).end = p + (10 + l + 4 * n)
  <2>1. Occurs(file, p, abcnd) /\ Occurs(file, p + (10 + l), e)
    BY <1>8, <1>9, <1>10, <1>11, <1>12, <1>14
  <2>2. Occurs(file, p, abcn) /\ Occurs(file, p + (6 + l), d)
    BY <1>8, <1>9, <1>10, <1>11, <1>14, <2>1
  <2>3. Occurs(file, p, abc)
    BY <1>8, <1>9, <1>10, <1>14, <2>2
  <2>4. Occurs(file, p + 5, c)
    BY <1>8, <1>9, <1>10, <1>11, <1>14, <2>3
  <2>5. Silk!At(file, p + 5) = l
    <3>1. (p + 5) + 1 <= Len(file) /\ file[(p + 5) + 1] = l /\ Len(file) \in Nat
      BY <1>2, <1>8, <2>4 DEF Occurs
    <3>. QED
      BY <3>1 DEF Silk!At
  <2>6. Silk!ReadU32(file, p + 6 + l) = n
    <3>. DEFINE q == p + 6 + l
    <3>1. q \in Nat /\ q = p + (6 + l)
      BY <1>1
    <3>. HIDE DEF q
    <3>2. Occurs(file, q, BE(n, 4))
      BY <2>2, <3>1 DEF d
    <3>3. Silk!ReadU32(file, q) = n
      BY <3>1, <3>2, NumberRead DEF V
    <3>. QED
      BY <3>3 DEF q
  <2>7. ASSUME NEW k \in 1..n PROVE Silk!ReadU32(file, p + 6 + l + 4 * k) = refs[k]
    <3>1. k \in Nat
      BY <1>0
    <3>2. p + (10 + l) \in Nat /\ (p + (10 + l)) + 4 * (k - 1) = p + 6 + l + 4 * k
      BY <1>15, <3>1, EntryPlaces
    <3>. DEFINE q == p + (10 + l)
    <3>3. Occurs(file, q, Words(refs)) /\ file \in Bytes /\ q \in Nat
      BY <2>1, <3>2 DEF V, S, Bytes, e
    <3>. HIDE DEF q
    <3>4. Silk!ReadU32(file, q + 4 * (k - 1)) = refs[k]
      BY <1>0, <3>3, WordsFacts
    <3>. QED
      BY <3>2, <3>4 DEF q
  <2>8. /\ Silk!SymbolAt(file, p).refs = [k \in 1..n |-> Silk!ReadU32(file, p + 6 + l + 4 * k)]
        /\ Silk!SymbolAt(file, p).end = p + 10 + l + 4 * n
    BY <2>5, <2>6 DEF Silk!SymbolAt
  <2>9. [k \in 1..n |-> Silk!ReadU32(file, p + 6 + l + 4 * k)] = [k \in 1..n |-> refs[k]]
    BY <2>7
  <2>10. p + 10 + l + 4 * n = p + (10 + l + 4 * n)
    BY <1>0, <1>1
  <2>. QED
    BY <2>8, <2>9, <2>10
<1>. QED
  BY <1>11, <1>12, <1>13 DEF V, S, Bytes, l, ReadsAs

-----------------------------------------------------------------------------
(***************************************************************************)
(* The symbols of a file whose entries are as long as they say.            *)
(***************************************************************************)

(* The entry k of a table ends where the next begins, e[k] after its start. *)
EntriesAt(file, m, start, e) ==
    \A k \in 1..m : Silk!SymbolAt(file, start + e[k - 1]).end = start + e[k]

(* The table of symbols, when it is known where each entry begins *)
LEMMA SymbolsRead ==
    ASSUME NEW file \in Seq(0..255), NEW m \in Nat, NEW start \in Nat, NEW e, e[0] = 0,
           EntriesAt(file, m, start, e)
    PROVE  LET sym == Silk!ParseSymbols(file, m, start)
           IN  /\ sym = [k \in 1..m |-> sym[k]]
               /\ \A k \in 1..m : sym[k] = Silk!SymbolAt(file, start + e[k - 1])
<1>. DEFINE sym == Silk!ParseSymbols(file, m, start)
<1>1. /\ sym = [k \in 1..m |-> sym[k]]
      /\ \A k \in 1..m : sym[k] = Silk!SymbolAt(file, IF k = 1 THEN start ELSE sym[k - 1].end)
  <2>1. sym = [k \in 1..m |-> sym[k]] /\ Chained(file, m, start, sym)
    BY TableFacts
  <2>. HIDE DEF sym
  <2>. QED
    BY <2>1 DEF Chained
<1>. HIDE DEF sym
<1>. DEFINE T == {k \in 0..m : k = 0 \/ sym[k] = Silk!SymbolAt(file, start + e[k - 1])}
<1>2. 0 \in T
  OBVIOUS
<1>3. ASSUME NEW k \in 0..(m - 1), k \in T PROVE k + 1 \in T
  <2>1. k + 1 \in 1..m /\ k + 1 \in 0..m /\ (k + 1) - 1 = k /\ k \in 0..m
    BY NextPlace
  <2>2. sym[k + 1] = Silk!SymbolAt(file, IF k + 1 = 1 THEN start ELSE sym[k].end)
    BY <1>1, <2>1
  <2>3. CASE k = 0
    <3>1. start + e[k] = start
      BY <2>3
    <3>2. sym[k + 1] = Silk!SymbolAt(file, start + e[(k + 1) - 1])
      BY <2>1, <2>2, <2>3, <3>1
    <3>. QED
      BY <2>1, <3>2
  <2>4. CASE k # 0
    <3>1. k \in 1..m /\ k + 1 # 1
      BY <2>1, <2>4
    <3>2. sym[k] = Silk!SymbolAt(file, start + e[k - 1])
      BY <1>3, <2>4
    <3>3. sym[k].end = start + e[k]
      BY <3>1, <3>2 DEF EntriesAt
    <3>4. sym[k + 1] = Silk!SymbolAt(file, start + e[(k + 1) - 1])
      BY <2>1, <2>2, <3>1, <3>3
    <3>. QED
      BY <2>1, <3>4
  <2>. QED
    BY <2>3, <2>4
<1>. HIDE DEF T
<1>4. \A k \in 0..m : k \in T
  BY <1>2, <1>3, InductionTo
<1>5. ASSUME NEW k \in 1..m PROVE sym[k] = Silk!SymbolAt(file, start + e[k - 1])
  <2>1. k \in 0..m /\ k # 0
    OBVIOUS
  <2>. QED
    BY <1>4, <2>1 DEF T
<1>. QED
  BY <1>1, <1>5 DEF sym

(* What the linker reads of a file with m symbols and n sections *)
LEMMA FileRead ==
    ASSUME NEW file \in Seq(0..255), NEW m \in Nat, NEW n \in Nat, NEW e, e[0] = 0,
           Silk!ReadU32(file, 8) = m, Silk!ReadU32(file, 12) = n,
           EntriesAt(file, m, 16, e), 16 + e[m] \in Nat
    PROVE  LET parsed == Silk!ParseFile(file)
           IN  /\ DOMAIN parsed.symbols = 1..m
               /\ \A k \in 1..m : parsed.symbols[k] = Silk!SymbolAt(file, 16 + e[k - 1])
               /\ parsed.start = (16 + e[m]) + 5 * n
               /\ DOMAIN parsed.sections = 1..n
               /\ n > 0 => parsed.sections[1].length = Silk!ReadU32(file, (16 + e[m]) + 1)
<1>. DEFINE parsed == Silk!ParseFile(file)
            symbols == Silk!ParseSymbols(file, m, 16)
            h == 16 + e[m]
            headers == IF Len(symbols) = 0 THEN 16 ELSE symbols[Len(symbols)].end
            start == headers + 5 * n
            length == [k \in 1..n |-> Silk!ReadU32(file, headers + 5 * (k - 1) + 1)]
            end == Silk!Ends(length)
            sec(k) == [flags |-> Silk!At(file, headers + 5 * (k - 1)), start |-> end[k - 1],
                       length |-> length[k],
                       data |-> Silk!ReadBuffer(file, start + end[k - 1], length[k])]
            ss == [k \in 1..n |-> sec(k)]
<1>1. parsed = [symbols |-> symbols, start |-> start, end |-> start + end[n], sections |-> ss]
  BY ZenonT(60) DEF Silk!ParseFile
<1>2. parsed.symbols = symbols /\ parsed.start = start /\ parsed.sections = ss
  <2>. HIDE DEF symbols, start, end, ss, parsed
  <2>. QED
    BY <1>1
<1>3. /\ symbols = [k \in 1..m |-> symbols[k]]
      /\ \A k \in 1..m : symbols[k] = Silk!SymbolAt(file, 16 + e[k - 1])
  <2>. DEFINE o == 16
  <2>1. o \in Nat /\ EntriesAt(file, m, o, e)
    OBVIOUS
  <2>. HIDE DEF o
  <2>2. LET sym == Silk!ParseSymbols(file, m, o)
        IN  /\ sym = [k \in 1..m |-> sym[k]]
            /\ \A k \in 1..m : sym[k] = Silk!SymbolAt(file, o + e[k - 1])
    BY <2>1, SymbolsRead
  <2>. QED
    BY <2>2 DEF o
<1>. HIDE DEF symbols
<1>4. Len(symbols) = m /\ DOMAIN symbols = 1..m
  BY <1>3, RangeSeq
<1>5. headers = h
  <2>1. CASE m = 0
    BY <1>4, <2>1
  <2>2. CASE m # 0
    <3>1. m \in 1..m
      BY <2>2
    <3>2. symbols[m].end = 16 + e[m]
      BY <1>3, <3>1 DEF EntriesAt
    <3>. QED
      BY <1>4, <2>2, <3>2
  <2>. QED
    BY <2>1, <2>2
<1>6. h \in Nat
  OBVIOUS
<1>. HIDE DEF headers, h
<1>7. start = h + 5 * n
  BY <1>5
<1>8. ASSUME n > 0 PROVE ss[1].length = Silk!ReadU32(file, h + 1)
  <2>1. 1 \in 1..n
    BY <1>8
  <2>2. ss[1].length = length[1] /\ length[1] = Silk!ReadU32(file, headers + 5 * (1 - 1) + 1)
    BY <2>1
  <2>3. headers + 5 * (1 - 1) + 1 = h + 1
    BY <1>5, <1>6
  <2>. QED
    BY <2>2, <2>3
<1>9. DOMAIN ss = 1..n
  OBVIOUS
<1>. HIDE DEF start, ss
<1>. QED
  BY <1>2, <1>3, <1>4, <1>7, <1>8, <1>9 DEF parsed, h

-----------------------------------------------------------------------------
(***************************************************************************)
(* The numbers of an object file, and its symbol table.                    *)
(***************************************************************************)

(* A number that is not too large has room in four bytes. *)
LEMMA SmallEnough ==
    ASSUME NEW v \in Nat, ~(v > MaxNumber)
    PROVE  FourBytes(v)
<1>1. MaxNumber \in Nat /\ MaxNumber \div 65536 < 65536
  BY MaxNumberAssumption
<1>2. v <= MaxNumber
  BY <1>1
<1>3. v \div 65536 <= MaxNumber \div 65536
  BY <1>1, <1>2
<1>4. v \div 65536 < 65536
  BY <1>1, <1>3
<1>. QED
  BY <1>4 DEF FourBytes

(* The sum of some sizes is where the last of them ends. *)
LEMMA TotalEnds ==
    ASSUME NEW s
    PROVE  Total(s) = Silk!Ends(s)[Len(s)]
BY Zenon DEF Total, Silk!Ends

(* How long the entries of the symbol table are, and where each ends *)
EntryLens(env, gen) ==
    LET names == Sorted(Symbols(env, gen))
    IN  [k \in DOMAIN names |-> SYMBOL_HEADER_LEN + Len(names[k]) + 4 * Len(References(gen, names[k]))]
TableEnds(env, gen) == Silk!Ends(EntryLens(env, gen))

(* The symbols of a file take as many bytes as their entries together. *)
LEMMA TableEndsFacts ==
    ASSUME NEW env, Environments(env), NEW gen \in Generator
    PROVE  LET e == TableEnds(env, gen)
               m == Len(Sorted(Symbols(env, gen)))
           IN  /\ m \in Nat /\ e[0] = 0
               /\ \A k \in 1..m : e[k] = e[k - 1] + EntryLens(env, gen)[k]
               /\ \A k \in 0..m : e[k] \in Nat
               /\ TableSize(env, gen) = e[m] /\ e[m] \in Nat
<1>. DEFINE names == Sorted(Symbols(env, gen))
            s == EntryLens(env, gen)
            m == Len(names)
            e == Silk!Ends(s)
<1>1. m \in Nat /\ DOMAIN names = 1..m /\ \A k \in 1..m : names[k] \in Ident
  BY SymbolsFacts, SortedNames
<1>2. s = [k \in DOMAIN names |-> SYMBOL_HEADER_LEN + Len(names[k])
                                    + 4 * Len(References(gen, names[k]))]
  BY DEF EntryLens
<1>3. TableSize(env, gen) = Total(s)
  BY <1>2 DEF TableSize
<1>. HIDE DEF names, m, s
<1>4. \A k \in 1..m : Len(names[k]) \in Nat /\ Len(References(gen, names[k])) \in Nat
  BY <1>1, ReferencesFacts, IdentFacts
<1>5. \A k \in 1..m : s[k] \in Nat
  BY <1>1, <1>2, <1>4 DEF SYMBOL_HEADER_LEN
<1>6. s = [k \in 1..m |-> s[k]]
  BY <1>1, <1>2
<1>7. Len(s) = m
  BY <1>1, <1>6, RangeSeq
<1>8. /\ e[0] = 0 /\ (\A k \in 1..m : e[k] = e[k - 1] + s[k])
      /\ \A k \in 0..m : e[k] \in Nat
  BY <1>1, <1>5, <1>7, EndsFacts
<1>9. TableSize(env, gen) = e[m]
  BY <1>3, <1>7, TotalEnds
<1>10. m \in 0..m
  BY <1>1
<1>. QED
  BY <1>1, <1>8, <1>9, <1>10 DEF TableEnds, m, names, s

(* The references to a name are references, in their order. *)
LEMMA ReferenceSource ==
    ASSUME NEW gen \in Generator, NEW n
    PROVE  \E g \in [1..Len(References(gen, n)) -> 1..Len(gen.refs)] :
             /\ \A r \in 1..Len(References(gen, n)) :
                  References(gen, n)[r] = gen.refs[g[r]] /\ gen.refs[g[r]].name = n
             /\ \A q, r \in 1..Len(References(gen, n)) : q < r => g[q] < g[r]
<1>. DEFINE T == {k \in DOMAIN gen.refs : gen.refs[k].name = n}
            t == References(gen, n)
            l == Len(gen.refs)
<1>1. gen.refs \in Seq(Reference)
  BY GeneratorFacts
<1>2. t = Selected(gen.refs, T)
  BY DEF References
<1>3. \A k \in T : gen.refs[k].name = n
  OBVIOUS
<1>. HIDE DEF T, t
<1>4. Picked(gen.refs, T, Len(gen.refs), t)
  BY <1>1, <1>2, SelectedFacts
<1>5. PICK g \in [1..Len(t) -> T \cap (1..l)] :
        /\ \A r \in 1..Len(t) : t[r] = gen.refs[g[r]]
        /\ \A q, r \in 1..Len(t) : q < r => g[q] < g[r]
  BY <1>4 DEF Picked
<1>6. g \in [1..Len(t) -> 1..l] /\ \A r \in 1..Len(t) : gen.refs[g[r]].name = n
  <2>1. \A r \in 1..Len(t) : g[r] \in T /\ g[r] \in 1..l
    OBVIOUS
  <2>. QED
    BY <1>3, <2>1
<1>. QED
  BY <1>5, <1>6 DEF t

(* Where the references to a name are in the file *)
RefsOf(env, gen, entry, n) ==
    [k \in DOMAIN References(gen, n) |-> Base(env, gen, entry) + References(gen, n)[k].at]

(* A reference inside a section that fits the format fits it too. *)
LEMMA SmallerSum ==
    ASSUME NEW b \in Nat, NEW l \in Nat, NEW a \in Nat, NEW max \in Nat, ~(b + l > max), a + 4 <= l
    PROVE  b + a \in Nat /\ ~(b + a > max)
OBVIOUS

(* All numbers of a file that is in order have room, *)
LEMMA NumbersFit ==
    ASSUME NEW env, Environments(env), NEW gen \in Generator, NEW entry,
           InOrderFor(env, gen, entry), Spaced(gen)
    PROVE  /\ Base(env, gen, entry) \in Nat
           /\ Base(env, gen, entry) = (16 + TableSize(env, gen)) + 5 * Len(Sections(env, gen, entry))
           /\ FourBytes(Len(Sorted(Symbols(env, gen))))
           /\ FourBytes(Len(Sections(env, gen, entry)))
           /\ FourBytes(Len(gen.code))
           /\ \A n \in Symbols(env, gen) :
                /\ FourBytes(Len(References(gen, n)))
                /\ \A r \in 1..Len(References(gen, n)) : FourBytes(RefsOf(env, gen, entry, n)[r])
<1>. DEFINE b == Base(env, gen, entry)
            l == Len(gen.code)
            m == Len(Sorted(Symbols(env, gen)))
            c == Len(Sections(env, gen, entry))
            s == TableSize(env, gen)
            e == TableEnds(env, gen)
            N == Numbers(env, gen, entry)
<1>1. m \in Nat /\ s \in Nat /\ c \in Nat /\ l \in Nat
  <2>1. m \in Nat /\ s = e[m] /\ e[m] \in Nat
    BY TableEndsFacts
  <2>. QED
    BY <2>1, SectionsFacts, GeneratorFacts
<1>2. b = (16 + s) + 5 * c
  BY DEF Base, SIMOBJ_HEADER_LEN, SECTION_HEADER_LEN
<1>3. m = Cardinality(Symbols(env, gen))
  BY SymbolsFacts, SortedFacts
<1>4. \A v \in N : ~(v > MaxNumber)
  BY DEF InOrderFor, TooLarge
<1>5. /\ m \in N /\ b \in N /\ b + l \in N
      /\ \A n \in Symbols(env, gen) : Len(References(gen, n)) \in N
  <2>1. /\ Cardinality(Symbols(env, gen)) \in N /\ b \in N /\ b + l \in N
    BY DEF Numbers
  <2>2. \A n \in Symbols(env, gen) : Len(References(gen, n)) \in N
    BY DEF Numbers
  <2>. HIDE DEF N, m, b, l
  <2>. QED
    BY <1>3, <2>1, <2>2
<1>6. MaxNumber \in Nat
  BY MaxNumberAssumption
<1>. HIDE DEF b, l, m, c, s, e, N
<1>7. b \in Nat /\ c <= b /\ l <= b + l
  BY <1>1, <1>2
<1>8. ~(m > MaxNumber) /\ ~(b > MaxNumber) /\ ~(b + l > MaxNumber)
  BY <1>4, <1>5
<1>9. ~(c > MaxNumber) /\ ~(l > MaxNumber)
  BY <1>1, <1>6, <1>7, <1>8
<1>10. FourBytes(m) /\ FourBytes(c) /\ FourBytes(l)
  BY <1>1, <1>8, <1>9, SmallEnough
<1>11. ASSUME NEW n \in Symbols(env, gen)
       PROVE  /\ FourBytes(Len(References(gen, n)))
              /\ \A r \in 1..Len(References(gen, n)) : FourBytes(RefsOf(env, gen, entry, n)[r])
  <2>. DEFINE t == References(gen, n)
  <2>1. Len(t) \in Nat /\ DOMAIN t = 1..Len(t)
    BY ReferencesFacts
  <2>2. FourBytes(Len(t))
    <3>. DEFINE v == Len(t)
    <3>1. v \in Nat /\ ~(v > MaxNumber)
      BY <1>4, <1>5, <2>1
    <3>. HIDE DEF v
    <3>2. FourBytes(v)
      BY <3>1, SmallEnough
    <3>. QED
      BY <3>2 DEF v
  <2>3. ASSUME NEW r \in 1..Len(t) PROVE FourBytes(RefsOf(env, gen, entry, n)[r])
    <3>1. RefsOf(env, gen, entry, n)[r] = b + t[r].at
      BY <2>1 DEF RefsOf, b
    <3>2. t[r].at \in Nat /\ t[r].at + 4 <= l
      <4>1. PICK g \in [1..Len(t) -> 1..Len(gen.refs)] : \A q \in 1..Len(t) : t[q] = gen.refs[g[q]]
        BY ReferenceSource
      <4>2. g[r] \in 1..Len(gen.refs) /\ t[r] = gen.refs[g[r]]
        BY <4>1
      <4>3. DOMAIN gen.refs = 1..Len(gen.refs) /\ \A k \in 1..Len(gen.refs) : gen.refs[k] \in Reference
        BY GeneratorFacts, ElementsOf
      <4>. QED
        BY <4>2, <4>3 DEF Spaced, l, Reference
    <3>. DEFINE a == t[r].at
                v == b + a
    <3>. HIDE DEF a
    <3>3. v \in Nat /\ ~(v > MaxNumber)
      BY <1>1, <1>6, <1>7, <1>8, <3>2, SmallerSum DEF a
    <3>. HIDE DEF v
    <3>4. FourBytes(v)
      BY <3>3, SmallEnough
    <3>. QED
      BY <3>1, <3>4 DEF v, a
  <2>. QED
    BY <2>2, <2>3
<1>. QED
  BY <1>2, <1>7, <1>10, <1>11 DEF b, l, m, c, s

(* and its symbols are read as they were written. *)
LEMMA EntriesRead ==
    ASSUME NEW env, Environments(env), NEW gen \in Generator, NEW entry,
           InOrderFor(env, gen, entry), Spaced(gen), LabelsInside(env, gen)
    PROVE  LET names == Sorted(Symbols(env, gen))
               m == Len(names)
               e == TableEnds(env, gen)
           IN  /\ Entries(env, gen, entry) \in Bytes /\ Len(Entries(env, gen, entry)) = e[m]
               /\ \A file \in Bytes : Occurs(file, 16, Entries(env, gen, entry)) =>
                    /\ EntriesAt(file, m, 16, e)
                    /\ \A k \in 1..m : Silk!SymbolAt(file, 16 + e[k - 1]).refs
                                         = RefsOf(env, gen, entry, names[k])
<1>. DEFINE names == Sorted(Symbols(env, gen))
            m == Len(names)
            e == TableEnds(env, gen)
            lens == EntryLens(env, gen)
            Refs(n) == RefsOf(env, gen, entry, n)
            Entry(n) == SymbolEntry(Type(env, n), Value(env, gen, entry, n), n, Refs(n))
            s == [k \in DOMAIN names |-> Entry(names[k])]
<1>1. m \in Nat /\ DOMAIN names = 1..m
      /\ \A k \in 1..m : names[k] \in Symbols(env, gen) /\ names[k] \in Ident
  BY SymbolsFacts, SortedNames
<1>2. /\ e[0] = 0 /\ (\A k \in 1..m : e[k] = e[k - 1] + lens[k])
      /\ \A k \in 0..m : e[k] \in Nat
  BY TableEndsFacts
<1>3. \A k \in 1..m : lens[k] = 10 + Len(names[k]) + 4 * Len(References(gen, names[k]))
  BY <1>1 DEF EntryLens, SYMBOL_HEADER_LEN
<1>4. Entries(env, gen, entry) = FlattenSeq(s)
  BY DEF Entries, RefsOf
<1>5. ASSUME NEW n \in Symbols(env, gen), n \in Ident
      PROVE  /\ Entry(n) \in Bytes
             /\ Len(Entry(n)) = 10 + Len(n) + 4 * Len(References(gen, n))
             /\ \A file \in Bytes : \A p \in Nat : Occurs(file, p, Entry(n)) =>
                  /\ Silk!SymbolAt(file, p).refs = Refs(n)
                  /\ Silk!SymbolAt(file, p).end = p + (10 + Len(n) + 4 * Len(References(gen, n)))
  <2>. DEFINE l == Len(References(gen, n))
              type == Type(env, n)
              value == Value(env, gen, entry, n)
              refs == Refs(n)
  <2>1. l \in Nat /\ DOMAIN References(gen, n) = 1..l
    BY ReferencesFacts
  <2>2. FourBytes(l) /\ \A r \in 1..l : FourBytes(refs[r])
    BY NumbersFit
  <2>3. refs = [r \in 1..l |-> refs[r]]
    BY <2>1 DEF RefsOf
  <2>4. type \in 0..255 /\ value \in Int /\ Len(n) <= MaxName
    BY <1>5, TypeFacts, ValueFacts DEF InOrderFor
  <2>5. Entry(n) = SymbolEntry(type, value, n, refs)
    OBVIOUS
  <2>. HIDE DEF l, type, value, refs, Entry
  <2>6. \A r \in 1..l : refs[r] \in Int
    BY <2>2 DEF FourBytes
  <2>7. SymbolEntry(type, value, n, refs) \in Bytes
    BY <1>5, <2>1, <2>3, <2>4, <2>6, SymbolEntryFacts
  <2>8. ReadsAs(SymbolEntry(type, value, n, refs), n, refs, l)
    BY <1>5, <2>2, <2>3, <2>4, EntryRead
  <2>. QED
    BY <2>5, <2>7, <2>8 DEF l, refs, ReadsAs
<1>. HIDE DEF Entry, names, m, lens, e
<1>6. s = [k \in 1..m |-> s[k]] /\ \A k \in 1..m : s[k] = Entry(names[k])
  BY <1>1
<1>. HIDE DEF s
<1>7. \A k \in 1..m : s[k] \in Bytes /\ Len(s[k]) = lens[k]
  BY <1>1, <1>3, <1>5, <1>6
<1>8. AddsUp(e, m, s)
  BY <1>2, <1>7 DEF AddsUp
<1>. DEFINE S == 0..255
<1>9. \A k \in 1..m : s[k] \in Seq(S)
  BY <1>7 DEF Bytes
<1>. HIDE DEF S
<1>10. FlattenSeq(s) \in Seq(S)
  BY <1>1, <1>6, <1>9, FlattenTyped
<1>11. Len(FlattenSeq(s)) = e[m]
  BY <1>1, <1>6, <1>8, <1>9, FlatLength
<1>12. ASSUME NEW file \in Seq(S), Occurs(file, 16, FlattenSeq(s)), NEW k \in 1..m
       PROVE  /\ Silk!SymbolAt(file, 16 + e[k - 1]).end = 16 + e[k]
              /\ Silk!SymbolAt(file, 16 + e[k - 1]).refs = Refs(names[k])
  <2>. DEFINE o == 16
              p == 16 + e[k - 1]
              n == names[k]
  <2>1. o \in Nat /\ Occurs(file, o, FlattenSeq(s))
    BY <1>12
  <2>. HIDE DEF o
  <2>2. \A j \in 1..m : Occurs(file, o + e[j - 1], s[j])
    BY <1>1, <1>6, <1>8, <1>9, <1>12, <2>1, OccursFlat
  <2>3. k - 1 \in 0..m /\ n \in Symbols(env, gen) /\ n \in Ident
    BY <1>1
  <2>4. p \in Nat /\ Occurs(file, p, Entry(n)) /\ file \in Bytes
    <3>1. e[k - 1] \in Nat
      BY <1>2, <2>3
    <3>2. Occurs(file, 16 + e[k - 1], s[k])
      BY <2>2 DEF o
    <3>. QED
      BY <1>6, <1>12, <3>1, <3>2 DEF S, Bytes
  <2>. HIDE DEF p, n
  <2>5. /\ Silk!SymbolAt(file, p).refs = Refs(n)
        /\ Silk!SymbolAt(file, p).end = p + (10 + Len(n) + 4 * Len(References(gen, n)))
    BY <1>5, <2>3, <2>4
  <2>6. p + (10 + Len(n) + 4 * Len(References(gen, n))) = 16 + e[k]
    <3>. DEFINE a == e[k - 1]
                c == e[k]
                d == lens[k]
    <3>1. c = a + d /\ a \in Nat /\ d = 10 + Len(n) + 4 * Len(References(gen, n)) /\ c \in Nat
      <4>1. k \in 0..m
        BY <1>1
      <4>. QED
        BY <1>2, <1>3, <2>3, <4>1 DEF n
    <3>2. d \in Nat
      <4>1. Len(n) \in Nat /\ Len(References(gen, n)) \in Nat
        BY <2>3, IdentFacts, ReferencesFacts
      <4>. HIDE DEF d
      <4>. QED
        BY <3>1, <4>1
    <3>3. p = 16 + a
      BY DEF p
    <3>. HIDE DEF a, c, d
    <3>4. p + d = 16 + c
      BY <3>1, <3>2, <3>3
    <3>. QED
      BY <3>1, <3>4 DEF c
  <2>. QED
    BY <2>5, <2>6 DEF p, n
<1>13. \A file \in Seq(S) : Occurs(file, 16, FlattenSeq(s)) =>
          /\ EntriesAt(file, m, 16, e)
          /\ \A k \in 1..m : Silk!SymbolAt(file, 16 + e[k - 1]).refs = Refs(names[k])
  BY <1>12 DEF EntriesAt
<1>. QED
  BY <1>4, <1>10, <1>11, <1>13 DEF S, Bytes, names, m, e

-----------------------------------------------------------------------------
(***************************************************************************)
(* Its headers, and the file as a whole.                                   *)
(***************************************************************************)

(* A sequence occurs in itself. *)
LEMMA OccursItself ==
    ASSUME NEW S, NEW s \in Seq(S)
    PROVE  Occurs(s, 0, s)
<1>1. Len(s) \in Nat
  OBVIOUS
<1>2. \A i \in 1..Len(s) : 0 + i = i
  BY <1>1
<1>3. 0 + Len(s) <= Len(s)
  BY <1>1
<1>. QED
  BY <1>2, <1>3 DEF Occurs

(* The headers of sections *)
Headers(ss) == FlattenSeq([k \in DOMAIN ss |-> <<ss[k].flags>> \o BE(Len(ss[k].data), 4)])

(* What the first of them says *)
LEMMA HeaderRead ==
    ASSUME NEW ss, NEW n \in Nat, Len(ss) = n, DOMAIN ss = 1..n, \A k \in 1..n : ss[k] \in WrittenSection,
           n > 0, FourBytes(Len(ss[1].data)), NEW file \in Bytes, NEW p \in Nat,
           Occurs(file, p, Headers(ss))
    PROVE  Silk!ReadU32(file, p + 1) = Len(ss[1].data)
<1>. DEFINE S == 0..255
            s == [k \in DOMAIN ss |-> <<ss[k].flags>> \o BE(Len(ss[k].data), 4)]
            e == [k \in 0..n |-> 5 * k]
<1>1. ASSUME NEW k \in 1..n
      PROVE  /\ <<ss[k].flags>> \in Seq(S) /\ Len(<<ss[k].flags>>) = 1
             /\ BE(Len(ss[k].data), 4) \in Seq(S) /\ Len(BE(Len(ss[k].data), 4)) = 4
  <2>. DEFINE f == ss[k].flags
              d == ss[k].data
              l == Len(d)
  <2>1. f \in 0..255 /\ d \in Bytes
    BY DEF WrittenSection
  <2>. HIDE DEF f, d
  <2>2. l \in Int
    BY <2>1 DEF Bytes
  <2>. HIDE DEF l
  <2>3. <<f>> \in Bytes /\ BE(l, 4) \in Bytes
    BY <2>1, <2>2, OneByte, BytesOfNumber
  <2>4. Len(BE(l, 4)) = 4 /\ Len(<<f>>) = 1
    BY DEF BE
  <2>. QED
    BY <2>3, <2>4 DEF f, d, l, Bytes
<1>. HIDE DEF S
<1>2. \A u, v \in Seq(S) : u \o v \in Seq(S) /\ Len(u \o v) = Len(u) + Len(v)
  OBVIOUS
<1>3. \A k \in 1..n : s[k] = <<ss[k].flags>> \o BE(Len(ss[k].data), 4)
  OBVIOUS
<1>4. s = [k \in 1..n |-> s[k]]
  OBVIOUS
<1>5. Headers(ss) = FlattenSeq(s)
  BY DEF Headers
<1>. HIDE DEF s
<1>6. \A k \in 1..n : s[k] \in Seq(S) /\ Len(s[k]) = 5
  <2>1. ASSUME NEW k \in 1..n PROVE s[k] \in Seq(S) /\ Len(s[k]) = 5
    <3>. DEFINE u == <<ss[k].flags>>
                v == BE(Len(ss[k].data), 4)
    <3>1. u \in Seq(S) /\ v \in Seq(S) /\ Len(u) = 1 /\ Len(v) = 4 /\ s[k] = u \o v
      BY <1>1, <1>3
    <3>. HIDE DEF u, v
    <3>2. u \o v \in Seq(S) /\ Len(u \o v) = Len(u) + Len(v)
      BY <1>2, <3>1
    <3>. QED
      BY <3>1, <3>2
  <2>. QED
    BY <2>1
<1>7. /\ e[0] = 0 /\ \A k \in 1..n : e[k] = e[k - 1] + 5
  OBVIOUS
<1>. HIDE DEF e
<1>8. AddsUp(e, n, s)
  BY <1>6, <1>7 DEF AddsUp
<1>9. file \in Seq(S) /\ Occurs(file, p, FlattenSeq(s))
  BY <1>5 DEF Bytes, S
<1>10. \A k \in 1..n : Occurs(file, p + e[k - 1], s[k])
  BY <1>4, <1>6, <1>8, <1>9, OccursFlat
<1>11. 1 \in 1..n /\ 1 - 1 = 0
  OBVIOUS
<1>. DEFINE u == <<ss[1].flags>>
            l == Len(ss[1].data)
            v == BE(l, 4)
<1>12. p + e[1 - 1] = p
  BY <1>7, <1>11
<1>13. u \in Seq(S) /\ v \in Seq(S) /\ Len(u) = 1 /\ Occurs(file, p, u \o v)
  BY <1>1, <1>3, <1>10, <1>11, <1>12
<1>. HIDE DEF u, v
<1>14. Occurs(file, p + Len(u), v)
  BY <1>9, <1>13, OccursJoined
<1>. DEFINE q == p + 1
<1>15. q \in Nat /\ Occurs(file, q, BE(l, 4))
  BY <1>13, <1>14 DEF v
<1>. HIDE DEF q, l
<1>16. FourBytes(l)
  BY DEF l
<1>17. Silk!ReadU32(file, q) = l
  BY <1>9, <1>15, <1>16, NumberRead
<1>. QED
  BY <1>17 DEF q, l

(* A file that has code begins with it. *)
LEMMA CodeFirst ==
    ASSUME NEW env, Environments(env), NEW gen \in Generator, NEW entry, Len(gen.code) > 0
    PROVE  /\ Len(Sections(env, gen, entry)) > 0
           /\ Sections(env, gen, entry)[1].data = gen.code
<1>. DEFINE all == AllSections(env, gen, entry)
            T == {k \in 1..3 : Len(all[k].data) > 0}
            parts == [k \in DOMAIN all |-> IF k \in T THEN <<all[k]>> ELSE <<>>]
            f == Joined(parts)
            S == WrittenSection
            V == Seq(S)
<1>0. all[1].data = gen.code /\ Len(all) = 3 /\ DOMAIN all = 1..3
  BY DEF AllSections
<1>1. \A k \in 1..3 : all[k] \in S
  <2>. DEFINE fs == FLAG_EXECUTE + IF entry THEN FLAG_ENTRYPOINT ELSE 0
              a == [flags |-> fs, data |-> gen.code]
              b == [flags |-> FLAG_READ, data |-> InitialBytes(env, FALSE)]
              c == [flags |-> FLAG_READ + FLAG_WRITE, data |-> InitialBytes(env, TRUE)]
  <2>1. fs \in 0..255 /\ FLAG_READ \in 0..255 /\ FLAG_READ + FLAG_WRITE \in 0..255
    BY DEF FLAG_EXECUTE, FLAG_ENTRYPOINT, FLAG_READ, FLAG_WRITE
  <2>2. gen.code \in Bytes
    BY GeneratorFacts
  <2>. HIDE DEF fs
  <2>3. a \in WrittenSection /\ b \in WrittenSection /\ c \in WrittenSection
    BY <2>1, <2>2, InitialBytesFacts DEF WrittenSection
  <2>4. all = <<a, b, c>>
    BY DEF AllSections, InitialBytes, fs
  <2>. HIDE DEF a, b, c, all
  <2>. QED
    BY <2>3, <2>4
<1>2. Sections(env, gen, entry) = FlattenSeq(parts)
  BY DEF Sections, Selected
<1>3. 1 \in T
  BY <1>0
<1>. HIDE DEF all, T
<1>4. parts = [k \in 1..3 |-> parts[k]] /\ \A k \in 1..3 : parts[k] = IF k \in T THEN <<all[k]>> ELSE <<>>
  BY <1>0
<1>. HIDE DEF parts, S
<1>5. \A k \in 1..3 : parts[k] \in Seq(S)
  <2>1. \A x \in S : <<x>> \in Seq(S)
    OBVIOUS
  <2>2. <<>> \in Seq(S)
    OBVIOUS
  <2>. QED
    BY <1>1, <1>4, <2>1, <2>2
<1>6. /\ FlattenSeq(parts) = f[3] /\ f[0] = <<>>
      /\ \A k \in 1..3 : f[k] = f[k - 1] \o parts[k]
      /\ \A k \in 0..3 : f[k] \in Seq(S)
  <2>. DEFINE n == 3
  <2>0. n \in Nat /\ parts = [k \in 1..n |-> parts[k]] /\ \A k \in 1..n : parts[k] \in Seq(S)
    BY <1>4, <1>5
  <2>. HIDE DEF n
  <2>1. /\ FlattenSeq(parts) = Joined(parts)[n]
        /\ Joined(parts)[0] = <<>>
        /\ \A k \in 1..n : Joined(parts)[k] = Joined(parts)[k - 1] \o parts[k]
        /\ \A k \in 0..n : Joined(parts)[k] \in Seq(S)
    BY <2>0, JoinedFacts
  <2>. QED
    BY <2>1, Zenon DEF n
<1>. HIDE DEF f
<1>7. f[1] = f[0] \o parts[1] /\ f[2] = f[1] \o parts[2] /\ f[3] = f[2] \o parts[3]
  <2>1. 1 - 1 = 0 /\ 2 - 1 = 1 /\ 3 - 1 = 2 /\ 1 \in 1..3 /\ 2 \in 1..3 /\ 3 \in 1..3
    OBVIOUS
  <2>. QED
    BY <1>6, <2>1
<1>8. parts[1] = <<all[1]>> /\ Len(<<all[1]>>) = 1 /\ <<all[1]>>[1] = all[1]
  BY <1>3, <1>4
<1>. HIDE DEF V
<1>9. parts[1] \in V /\ parts[2] \in V /\ parts[3] \in V /\ f[1] \in V /\ f[2] \in V
  BY <1>5, <1>6 DEF V
<1>10. \A u, v \in V : Len(u) > 0 => Len(u \o v) > 0 /\ (u \o v)[1] = u[1]
  BY DEF V
<1>11. \A v \in V : <<>> \o v = v
  BY DEF V
<1>12. f[1] = <<all[1]>>
  BY <1>6, <1>7, <1>8, <1>9, <1>11
<1>13. Len(f[2]) > 0 /\ f[2][1] = all[1]
  <2>1. f[1] \in V /\ parts[2] \in V /\ f[2] = f[1] \o parts[2]
    BY <1>7, <1>9
  <2>2. Len(f[1]) > 0 /\ f[1][1] = all[1]
    <3>1. Len(f[1]) = 1
      BY <1>8, <1>12
    <3>. QED
      BY <1>8, <1>12, <3>1
  <2>. DEFINE u == f[1]
              v == parts[2]
              w == f[2]
  <2>. HIDE DEF u, v, w
  <2>3. u \in V /\ v \in V /\ w = u \o v /\ Len(u) > 0 /\ u[1] = all[1]
    BY <2>1, <2>2 DEF u, v, w
  <2>4. Len(w) > 0 /\ w[1] = all[1]
    BY <1>10, <2>3
  <2>. QED
    BY <2>4 DEF w
<1>14. Len(f[3]) > 0 /\ f[3][1] = all[1]
  BY <1>7, <1>9, <1>10, <1>13
<1>. QED
  BY <1>0, <1>2, <1>6, <1>14

(* The parts of an object file *)
LEMMA SimobjRead ==
    ASSUME NEW env, Environments(env), NEW gen \in Generator, NEW entry,
           InOrderFor(env, gen, entry), Spaced(gen), LabelsInside(env, gen)
    PROVE  LET file == Simobj(env, gen, entry)
               m == Len(Sorted(Symbols(env, gen)))
               ss == Sections(env, gen, entry)
               e == TableEnds(env, gen)
           IN  /\ file \in Bytes
               /\ Silk!ReadU32(file, 8) = m /\ Silk!ReadU32(file, 12) = Len(ss)
               /\ Occurs(file, 16, Entries(env, gen, entry))
               /\ Occurs(file, 16 + e[m], Headers(ss))
<1>. DEFINE names == Sorted(Symbols(env, gen))
            ss == Sections(env, gen, entry)
            m == Len(names)
            n == Len(ss)
            S == 0..255
            V == Seq(S)
            t == TableEnds(env, gen)[m]
            a == MAGIC_HEADER \o BE(ABI_VERSION, 2)
            b == BE(m, 4)
            c == BE(n, 4)
            d == Entries(env, gen, entry)
            e == Headers(ss)
            f == FlattenSeq([k \in DOMAIN ss |-> ss[k].data])
            file == Simobj(env, gen, entry)
<1>1. FourBytes(m) /\ FourBytes(n) /\ m \in Int /\ n \in Nat /\ t \in Nat
  <2>1. FourBytes(m) /\ FourBytes(n)
    BY NumbersFit
  <2>2. n \in Nat
    BY SectionsFacts
  <2>3. t \in Nat /\ m \in Nat
    BY TableEndsFacts
  <2>. HIDE DEF m, n, t
  <2>. QED
    BY <2>1, <2>2, <2>3
<1>2. DOMAIN ss = 1..n /\ \A k \in 1..n : ss[k] \in WrittenSection
  BY SectionsFacts
<1>3. file = ((((a \o b) \o c) \o d) \o e) \o f
  BY DEF Simobj, Entries, Headers
<1>4. d \in Bytes /\ Len(d) = t
  BY EntriesRead
<1>5. e \in Bytes /\ f \in Bytes
  <2>. HIDE DEF ss
  <2>. QED
    BY <1>1, <1>2, SectionHeadersFacts DEF Headers
<1>6. b \in Bytes /\ c \in Bytes /\ Len(b) = 4 /\ Len(c) = 4
  <2>1. Len(b) = 4 /\ Len(c) = 4
    BY DEF BE
  <2>2. m \in Int /\ n \in Int
    BY <1>1
  <2>. HIDE DEF m, n
  <2>3. b \in Bytes /\ c \in Bytes
    BY <2>2, BytesOfNumber
  <2>. QED
    BY <2>1, <2>3
<1>7. a \in Bytes /\ Len(a) = 8
  <2>1. MAGIC_HEADER \in Bytes /\ Len(MAGIC_HEADER) = 6 /\ ABI_VERSION \in Int
    BY DEF MAGIC_HEADER, Bytes, ABI_VERSION
  <2>2. BE(ABI_VERSION, 2) \in Bytes /\ Len(BE(ABI_VERSION, 2)) = 2
    <3>1. BE(ABI_VERSION, 2) \in Bytes
      BY <2>1, BytesOfNumber
    <3>2. Len(BE(ABI_VERSION, 2)) = 2
      BY DEF BE
    <3>. QED
      BY <3>1, <3>2
  <2>. DEFINE u == MAGIC_HEADER
              v == BE(ABI_VERSION, 2)
  <2>. HIDE DEF u, v
  <2>3. u \o v \in Bytes /\ Len(u \o v) = Len(u) + Len(v)
    BY <2>1, <2>2, JoinBytes DEF u, v
  <2>4. Len(u) = 6 /\ Len(v) = 2
    BY <2>1, <2>2 DEF u, v
  <2>5. Len(u \o v) = 8
    BY <2>3, <2>4
  <2>. QED
    BY <2>3, <2>5 DEF u, v
<1>8. a \in V /\ b \in V /\ c \in V /\ d \in V /\ e \in V /\ f \in V
  BY <1>4, <1>5, <1>6, <1>7 DEF Bytes
<1>. HIDE DEF a, b, c, d, e, f, S, file, m, n, t
<1>9. /\ \A u, v \in V : u \o v \in V /\ Len(u \o v) = Len(u) + Len(v) /\ Len(u) \in Nat
      /\ \A w, u, v \in V : \A p \in Nat :
           Occurs(w, p, u \o v) => Occurs(w, p, u) /\ Occurs(w, p + Len(u), v)
      /\ \A w \in V : Occurs(w, 0, w)
  BY OccursJoined, OccursItself
<1>. HIDE DEF V
<1>. DEFINE ab == a \o b
            abc == ab \o c
            abcd == abc \o d
            abcde == abcd \o e
<1>10. ab = a \o b /\ abc = ab \o c /\ abcd = abc \o d /\ abcde = abcd \o e /\ file = abcde \o f
  BY <1>3
<1>. HIDE DEF ab, abc, abcd, abcde
<1>11. ab \in V /\ abc \in V /\ abcd \in V /\ abcde \in V /\ file \in V
  BY <1>8, <1>9, <1>10
<1>12. Len(ab) = 12 /\ Len(abc) = 16 /\ Len(abcd) = 16 + t
  <2>1. Len(ab) = Len(a) + Len(b) /\ Len(abc) = Len(ab) + Len(c) /\ Len(abcd) = Len(abc) + Len(d)
    BY <1>8, <1>9, <1>10, <1>11
  <2>2. Len(ab) = 8 + 4 /\ Len(abc) = Len(ab) + 4 /\ Len(abcd) = Len(abc) + t
    BY <1>4, <1>6, <1>7, <2>1
  <2>. QED
    BY <2>2
<1>13. Occurs(file, 0, abcde) /\ Occurs(file, 0, abcd) /\ Occurs(file, 0, abc) /\ Occurs(file, 0, ab)
  <2>1. Occurs(file, 0, file)
    BY <1>9, <1>11
  <2>2. Occurs(file, 0, abcde)
    BY <1>8, <1>9, <1>10, <1>11, <2>1
  <2>3. Occurs(file, 0, abcd)
    BY <1>8, <1>9, <1>10, <1>11, <2>2
  <2>4. Occurs(file, 0, abc)
    BY <1>8, <1>9, <1>10, <1>11, <2>3
  <2>5. Occurs(file, 0, ab)
    BY <1>8, <1>9, <1>10, <1>11, <2>4
  <2>. QED
    BY <2>2, <2>3, <2>4, <2>5
<1>14. /\ Occurs(file, 0 + Len(a), b) /\ Occurs(file, 0 + Len(ab), c)
       /\ Occurs(file, 0 + Len(abc), d) /\ Occurs(file, 0 + Len(abcd), e)
  <2>1. Occurs(file, 0 + Len(a), b)
    BY <1>8, <1>9, <1>10, <1>11, <1>13
  <2>2. Occurs(file, 0 + Len(ab), c)
    BY <1>8, <1>9, <1>10, <1>11, <1>13
  <2>3. Occurs(file, 0 + Len(abc), d)
    BY <1>8, <1>9, <1>10, <1>11, <1>13
  <2>4. Occurs(file, 0 + Len(abcd), e)
    BY <1>8, <1>9, <1>10, <1>11, <1>13
  <2>. QED
    BY <2>1, <2>2, <2>3, <2>4
<1>15. Occurs(file, 8, b) /\ Occurs(file, 12, c) /\ Occurs(file, 16, d) /\ Occurs(file, 16 + t, e)
  <2>1. 0 + Len(a) = 8 /\ 0 + Len(ab) = 12 /\ 0 + Len(abc) = 16 /\ 0 + Len(abcd) = 16 + t
    BY <1>1, <1>7, <1>12
  <2>. QED
    BY <1>14, <2>1
<1>16. Silk!ReadU32(file, 8) = m
  <2>. DEFINE p == 8
  <2>1. p \in Nat /\ Occurs(file, p, BE(m, 4)) /\ file \in Seq(S)
    BY <1>11, <1>15 DEF b, V
  <2>. HIDE DEF p
  <2>2. Silk!ReadU32(file, p) = m
    BY <1>1, <2>1, NumberRead
  <2>. QED
    BY <2>2 DEF p
<1>17. Silk!ReadU32(file, 12) = n
  <2>. DEFINE p == 12
  <2>1. p \in Nat /\ Occurs(file, p, BE(n, 4)) /\ file \in Seq(S)
    BY <1>11, <1>15 DEF c, V
  <2>. HIDE DEF p
  <2>2. Silk!ReadU32(file, p) = n
    BY <1>1, <2>1, NumberRead
  <2>. QED
    BY <2>2 DEF p
<1>18. file \in Bytes
  BY <1>11 DEF V, S, Bytes
<1>. QED
  BY <1>15, <1>16, <1>17, <1>18 DEF d, e, file, m, n, t

-----------------------------------------------------------------------------
(***************************************************************************)
(* Its references, as the linker finds them.                               *)
(***************************************************************************)

(* The linker finds in an object file of salt the references that were     *)
(* written, and a first section with the code.                             *)
LEMMA OwnFileRead ==
    ASSUME NEW env, Environments(env), NEW gen \in Generator, NEW entry,
           InOrderFor(env, gen, entry), Spaced(gen), LabelsInside(env, gen)
    PROVE  LET parsed == Silk!ParseFile(Simobj(env, gen, entry))
               names == Sorted(Symbols(env, gen))
           IN  /\ DOMAIN parsed.symbols = 1..Len(names)
               /\ \A k \in 1..Len(names) :
                    parsed.symbols[k].refs = RefsOf(env, gen, entry, names[k])
               /\ parsed.start = Base(env, gen, entry)
               /\ Len(gen.code) > 0 =>
                    1 \in DOMAIN parsed.sections /\ parsed.sections[1].length = Len(gen.code)
<1>. DEFINE file == Simobj(env, gen, entry)
            parsed == Silk!ParseFile(file)
            names == Sorted(Symbols(env, gen))
            m == Len(names)
            ss == Sections(env, gen, entry)
            n == Len(ss)
            e == TableEnds(env, gen)
<1>1. /\ m \in Nat /\ e[0] = 0 /\ e[m] \in Nat /\ TableSize(env, gen) = e[m]
      /\ n \in Nat /\ DOMAIN ss = 1..n /\ \A k \in 1..n : ss[k] \in WrittenSection
  <2>1. m \in Nat /\ e[0] = 0 /\ e[m] \in Nat /\ TableSize(env, gen) = e[m]
    BY TableEndsFacts
  <2>2. n \in Nat /\ DOMAIN ss = 1..n /\ \A k \in 1..n : ss[k] \in WrittenSection
    BY SectionsFacts
  <2>. QED
    BY <2>1, <2>2
<1>2. /\ file \in Bytes
      /\ Silk!ReadU32(file, 8) = m /\ Silk!ReadU32(file, 12) = n
      /\ Occurs(file, 16, Entries(env, gen, entry))
      /\ Occurs(file, 16 + e[m], Headers(ss))
  BY SimobjRead
<1>3. Base(env, gen, entry) = (16 + e[m]) + 5 * n
  BY <1>1, NumbersFit
<1>4. /\ EntriesAt(file, m, 16, e)
      /\ \A k \in 1..m : Silk!SymbolAt(file, 16 + e[k - 1]).refs = RefsOf(env, gen, entry, names[k])
  BY <1>2, EntriesRead
<1>5. Len(gen.code) > 0 => n > 0 /\ ss[1].data = gen.code
  BY CodeFirst
<1>6. FourBytes(Len(gen.code))
  BY NumbersFit
<1>. HIDE DEF file, names, m, ss, n, e
<1>7. 16 + e[m] \in Nat
  BY <1>1
<1>8. /\ DOMAIN parsed.symbols = 1..m
      /\ \A k \in 1..m : parsed.symbols[k] = Silk!SymbolAt(file, 16 + e[k - 1])
      /\ parsed.start = (16 + e[m]) + 5 * n
      /\ DOMAIN parsed.sections = 1..n
      /\ n > 0 => parsed.sections[1].length = Silk!ReadU32(file, (16 + e[m]) + 1)
  <2>1. file \in Seq(0..255)
    BY <1>2 DEF Bytes
  <2>. QED
    BY <1>1, <1>2, <1>4, <1>7, <2>1, FileRead
<1>. HIDE DEF parsed
<1>9. ASSUME Len(gen.code) > 0
      PROVE  1 \in DOMAIN parsed.sections /\ parsed.sections[1].length = Len(gen.code)
  <2>1. n > 0 /\ Len(ss[1].data) = Len(gen.code)
    BY <1>5, <1>9
  <2>2. FourBytes(Len(ss[1].data))
    BY <1>6, <2>1
  <2>. DEFINE p == 16 + e[m]
  <2>3. p \in Nat /\ Occurs(file, p, Headers(ss))
    BY <1>2, <1>7
  <2>. HIDE DEF p
  <2>4. Len(ss) = n
    BY DEF n
  <2>5. Silk!ReadU32(file, p + 1) = Len(ss[1].data)
    BY <1>1, <1>2, <2>1, <2>2, <2>3, <2>4, HeaderRead
  <2>6. 1 \in 1..n
    BY <1>1, <2>1
  <2>. QED
    BY <1>8, <2>1, <2>5, <2>6 DEF p
<1>. QED
  BY <1>3, <1>4, <1>8, <1>9 DEF parsed, file, names, m

(* Two references to the same name or to two names are at different places. *)
LEMMA ReferencesDiffer ==
    ASSUME NEW gen \in Generator, Spaced(gen), NEW a, NEW b,
           NEW r \in 1..Len(References(gen, a)), NEW q \in 1..Len(References(gen, b)),
           a # b \/ r # q
    PROVE  References(gen, a)[r].at - References(gen, b)[q].at \notin 0..3
<1>. DEFINE l == Len(gen.refs)
<1>1. \E i, j \in 1..l :
         /\ References(gen, a)[r] = gen.refs[i] /\ References(gen, b)[q] = gen.refs[j] /\ i # j
  <2>1. PICK g \in [1..Len(References(gen, a)) -> 1..l] :
           /\ \A s \in 1..Len(References(gen, a)) :
                References(gen, a)[s] = gen.refs[g[s]] /\ gen.refs[g[s]].name = a
           /\ \A s, t \in 1..Len(References(gen, a)) : s < t => g[s] < g[t]
    BY ReferenceSource
  <2>2. PICK h \in [1..Len(References(gen, b)) -> 1..l] :
           /\ \A s \in 1..Len(References(gen, b)) :
                References(gen, b)[s] = gen.refs[h[s]] /\ gen.refs[h[s]].name = b
    BY ReferenceSource
  <2>3. CASE a # b
    <3>1. g[r] # h[q] /\ g[r] \in 1..l /\ h[q] \in 1..l
      <4>1. g[r] \in 1..l /\ gen.refs[g[r]].name = a
        BY <2>1
      <4>2. h[q] \in 1..l /\ gen.refs[h[q]].name = b
        BY <2>2
      <4>. QED
        BY <2>3, <4>1, <4>2
    <3>. QED
      BY <2>1, <2>2, <3>1
  <2>4. CASE a = b
    <3>1. r # q /\ q \in 1..Len(References(gen, a))
      BY <2>4
    <3>2. g[r] \in 1..l /\ g[q] \in 1..l
      BY <2>1, <3>1
    <3>3. g[r] # g[q]
      <4>1. r < q \/ q < r
        BY <3>1, ReferencesFacts
      <4>. QED
        BY <2>1, <3>1, <3>2, <4>1
    <3>. QED
      BY <2>1, <2>4, <3>1, <3>2, <3>3
  <2>. QED
    BY <2>3, <2>4
<1>2. PICK i \in 1..l, j \in 1..l :
         References(gen, a)[r] = gen.refs[i] /\ References(gen, b)[q] = gen.refs[j] /\ i # j
  BY <1>1
<1>3. DOMAIN gen.refs = 1..l /\ \A k \in 1..l : gen.refs[k] \in Reference
  BY GeneratorFacts, ElementsOf
<1>. DEFINE x == gen.refs[i].at
            y == gen.refs[j].at
<1>4. x \in Nat /\ y \in Nat
  BY <1>3 DEF Reference
<1>5. i < j \/ j < i
  BY <1>2
<1>6. x + 4 <= y \/ y + 4 <= x
  BY <1>3, <1>5 DEF Spaced
<1>. HIDE DEF x, y
<1>7. x - y \notin 0..3
  BY <1>4, <1>6
<1>. QED
  BY <1>2, <1>7 DEF x, y

(* A reference is inside the code, *)
LEMMA ReferenceInside ==
    ASSUME NEW gen \in Generator, Spaced(gen), NEW a, NEW r \in 1..Len(References(gen, a))
    PROVE  References(gen, a)[r].at \in Nat /\ References(gen, a)[r].at + 4 <= Len(gen.code)
<1>. DEFINE l == Len(gen.refs)
<1>1. PICK g \in [1..Len(References(gen, a)) -> 1..l] :
         \A s \in 1..Len(References(gen, a)) : References(gen, a)[s] = gen.refs[g[s]]
  BY ReferenceSource
<1>2. g[r] \in 1..l /\ References(gen, a)[r] = gen.refs[g[r]]
  BY <1>1
<1>3. DOMAIN gen.refs = 1..l /\ \A k \in 1..l : gen.refs[k] \in Reference
  BY GeneratorFacts, ElementsOf
<1>. QED
  BY <1>2, <1>3 DEF Spaced, Reference

(* and at least four bytes before the end of any section. *)
LEMMA ReferenceBeforeEnd ==
    ASSUME NEW start \in Nat, NEW length \in Nat, NEW first \in Nat, NEW a \in Nat, NEW l \in Nat,
           first = l, a + 4 <= l, start + length >= first, NEW origin \in Nat
    PROVE  start + length - ((origin + a) - origin) \notin 1..3
OBVIOUS

(* References stay as far apart when a section is moved. *)
LEMMA Differences ==
    ASSUME NEW origin \in Nat, NEW a \in Nat, NEW b \in Nat, a - b \notin 0..3
    PROVE  (origin + a) - (origin + b) \notin 0..3
OBVIOUS

(* No object file of salt has a reference that leaves its section or       *)
(* overlaps another.                                                       *)
LEMMA OwnReferencesGood ==
    ASSUME NEW env, Environments(env), NEW gen \in Generator, NEW entry,
           InOrderFor(env, gen, entry), Spaced(gen), LabelsInside(env, gen)
    PROVE  ~BadReference(Simobj(env, gen, entry))
<1>. DEFINE file == Simobj(env, gen, entry)
            parsed == Silk!ParseFile(file)
            names == Sorted(Symbols(env, gen))
            origin == Base(env, gen, entry)
            l == Len(gen.code)
            At(k, r) == References(gen, names[k])[r].at
<1>1. /\ DOMAIN parsed.symbols = 1..Len(names)
      /\ \A k \in 1..Len(names) : parsed.symbols[k].refs = RefsOf(env, gen, entry, names[k])
      /\ parsed.start = origin
      /\ l > 0 => 1 \in DOMAIN parsed.sections /\ parsed.sections[1].length = l
  BY OwnFileRead
<1>2. origin \in Nat /\ l \in Nat
  BY NumbersFit, GeneratorFacts
<1>3. \A j, k \in 1..Len(names) : names[j] = names[k] => j = k
  BY SymbolsFacts, SortedFacts
<1>4. Layout(parsed.sections)
  <2>1. file \in Seq(0..255)
    BY SimobjFacts DEF InOrderFor, Bytes
  <2>. HIDE DEF file
  <2>. QED
    BY <2>1, ParseFacts
<1>. HIDE DEF parsed, names, origin, l
<1>5. ASSUME NEW k \in DOMAIN parsed.symbols, NEW r \in DOMAIN parsed.symbols[k].refs
      PROVE  /\ k \in 1..Len(names) /\ r \in 1..Len(References(gen, names[k]))
             /\ parsed.symbols[k].refs[r] = origin + At(k, r)
             /\ At(k, r) \in Nat /\ At(k, r) + 4 <= l
  <2>1. k \in 1..Len(names)
    BY <1>1
  <2>2. parsed.symbols[k].refs = RefsOf(env, gen, entry, names[k])
    BY <1>1, <2>1
  <2>3. r \in DOMAIN References(gen, names[k]) /\ parsed.symbols[k].refs[r] = origin + At(k, r)
    BY <2>2 DEF RefsOf, origin
  <2>4. r \in 1..Len(References(gen, names[k]))
    BY <2>3, ReferencesFacts
  <2>5. At(k, r) \in Nat /\ At(k, r) + 4 <= l
    BY <2>4, ReferenceInside DEF l
  <2>. QED
    BY <2>1, <2>3, <2>4, <2>5
<1>6. ~Overlaps(parsed)
  <2>1. ASSUME NEW j \in DOMAIN parsed.symbols, NEW i \in DOMAIN parsed.symbols,
               NEW r \in DOMAIN parsed.symbols[j].refs, NEW q \in DOMAIN parsed.symbols[i].refs,
               <<j, r>> # <<i, q>>
        PROVE  parsed.symbols[j].refs[r] - parsed.symbols[i].refs[q] \notin 0..3
    <3>1. j # i \/ r # q
      BY <2>1
    <3>2. names[j] # names[i] \/ r # q
      BY <1>3, <1>5, <3>1
    <3>. DEFINE x == At(j, r)
                y == At(i, q)
    <3>3. x - y \notin 0..3
      BY <1>5, <3>2, ReferencesDiffer
    <3>4. x \in Nat /\ y \in Nat
      BY <1>5
    <3>5. parsed.symbols[j].refs[r] = origin + x /\ parsed.symbols[i].refs[q] = origin + y
      BY <1>5
    <3>. HIDE DEF x, y
    <3>6. (origin + x) - (origin + y) \notin 0..3
      BY <1>2, <3>3, <3>4, Differences
    <3>. QED
      BY <3>5, <3>6
  <2>. QED
    BY <2>1 DEF Overlaps
<1>7. ~LeavesSection(parsed)
  <2>1. ASSUME NEW j \in DOMAIN parsed.symbols, NEW c \in DOMAIN parsed.sections,
               NEW r \in DOMAIN parsed.symbols[j].refs
        PROVE  parsed.sections[c].start + parsed.sections[c].length
                 - (parsed.symbols[j].refs[r] - parsed.start) \notin 1..3
    <3>. DEFINE x == At(j, r)
                start == parsed.sections[c].start
                length == parsed.sections[c].length
                first == parsed.sections[1].length
    <3>1. x \in Nat /\ x + 4 <= l /\ parsed.symbols[j].refs[r] = origin + x /\ parsed.start = origin
      BY <1>1, <1>5
    <3>2. l > 0
      <4>. HIDE DEF x
      <4>. QED
        BY <1>2, <3>1
    <3>3. 1 \in DOMAIN parsed.sections /\ first = l
      BY <1>1, <3>2
    <3>4. start \in Nat /\ length \in Nat /\ start + length >= first
      <4>1. /\ start \in Nat /\ length \in Nat /\ first \in Nat /\ parsed.sections[1].start = 0
            /\ c \in Nat /\ c >= 1
        <5>1. DOMAIN parsed.sections = 1..Len(parsed.sections) /\ Len(parsed.sections) \in Nat
          BY <1>4 DEF Layout
        <5>. QED
          BY <1>4, <3>3, <5>1 DEF Layout
      <4>2. c = 1 => start = 0 /\ length = first
        BY <4>1
      <4>3. 1 < c => 0 + first <= start
        BY <1>4, <3>3, <4>1 DEF Layout
      <4>. HIDE DEF start, length, first
      <4>. QED
        BY <4>1, <4>2, <4>3
    <3>. HIDE DEF x, start, length, first
    <3>5. start + length - ((origin + x) - origin) \notin 1..3
      BY <1>2, <3>1, <3>3, <3>4, ReferenceBeforeEnd
    <3>. QED
      BY <3>1, <3>5 DEF start, length
  <2>. QED
    BY <2>1 DEF LeavesSection
<1>. QED
  BY <1>6, <1>7 DEF BadReference, parsed

-----------------------------------------------------------------------------
(***************************************************************************)
(* The assembler's table of instructions is the CPU's.                     *)
(***************************************************************************)

(* What the CPU fetches for an operand of a class, a register or not *)
RoleOf(class, register) ==
    CASE class = "any" -> "reg"
      [] class = "int" -> "int"
      [] class = "word" -> IF register THEN "wordref" ELSE "word"
      [] class = "byte" -> IF register THEN "byteref" ELSE "byte"
      [] class = "same" -> IF register THEN "same" ELSE "value"
      [] class \in {"wf", "fw"} -> "conv"

(* The CPU's instruction at an opcode has this name and these roles. *)
Has0(o, op) == CPU!Instructions[o] = [op |-> op, roles |-> <<>>]
Has1(o, op, a) == CPU!Instructions[o] = [op |-> op, roles |-> <<a>>]
Has2(o, op, a, b) == CPU!Instructions[o] = [op |-> op, roles |-> <<a, b>>]
Has3(o, op, a, b, c) == CPU!Instructions[o] = [op |-> op, roles |-> <<a, b, c>>]

(* Those that may be a literal or a register, by their digit of the opcode *)
One(o, op) == \A b \in {0, 1} : Has1(o + b, op, CPU!Word(b))
Left(o, op) == \A b \in {0, 1} : Has2(o + b, op, CPU!Word(b), "reg")
Right(o, op, a, literal, register) ==
    Has2(o, op, a, literal) /\ Has2(o + 1, op, a, register)
Three(o, op) ==
    \A b, c, d \in {0, 1} :
       Has3(o + (4 * b + 2 * c + d), op, CPU!Word(b), CPU!Word(c), CPU!Word(d))
ThreeByte(o, op) ==
    \A b, c, d \in {0, 1} :
       Has3(o + (4 * b + 2 * c + d), op, CPU!Word(b), CPU!Word(c), CPU!Byte(d))

(* The instructions of the CPU, by opcode *)
LEMMA InstructionTable ==
    /\ Has0(\h00, "halt")
    /\ Has0(\h01, "pause")
    /\ One(\h02, "timer")
    /\ Has0(\h04, "usermode")
    /\ Has0(\h05, "ireturn")
    /\ Right(\h06, "load", "reg", "word", "wordref")
    /\ Left(\h08, "store")
    /\ Right(\h0A, "copy", "reg", "value", "same")
    /\ Right(\h0C, "swap", "reg", "word", "wordref")
    /\ Has1(\h0E, "push", "reg")
    /\ Has1(\h0F, "pop", "reg")
    /\ Three(\h10, "blockcopy")
    /\ ThreeByte(\h18, "blockset")
    /\ Has1(\h20, "negate", "reg")
    /\ Right(\h21, "add", "reg", "value", "same")
    /\ Right(\h23, "addcarry", "int", "value", "same")
    /\ Right(\h25, "sub", "reg", "value", "same")
    /\ Right(\h27, "subborrow", "int", "value", "same")
    /\ Right(\h29, "mult", "reg", "value", "same")
    /\ Right(\h2B, "sdiv", "reg", "value", "same")
    /\ Right(\h2D, "udiv", "int", "value", "same")
    /\ Right(\h2F, "srem", "reg", "value", "same")
    /\ Right(\h31, "urem", "int", "value", "same")
    /\ Has1(\h33, "not", "int")
    /\ Right(\h34, "and", "int", "value", "same")
    /\ Right(\h36, "or", "int", "value", "same")
    /\ Right(\h38, "xor", "int", "value", "same")
    /\ Right(\h3A, "lshift", "int", "byte", "byteref")
    /\ Right(\h3C, "srshift", "int", "byte", "byteref")
    /\ Right(\h3E, "urshift", "int", "byte", "byteref")
    /\ Right(\h40, "lrot", "int", "byte", "byteref")
    /\ Right(\h42, "rrot", "int", "byte", "byteref")
    /\ Right(\h44, "lrotcarry", "int", "byte", "byteref")
    /\ Right(\h46, "rrotcarry", "int", "byte", "byteref")
    /\ One(\h48, "jump")
    /\ Right(\h4A, "compare", "reg", "value", "same")
    /\ Three(\h4C, "blockcmp")
    /\ One(\h54, "jequal")
    /\ One(\h56, "jnotequal")
    /\ One(\h58, "sjgreater")
    /\ One(\h5A, "sjgreatereq")
    /\ One(\h5C, "ujgreater")
    /\ One(\h5E, "ujgreatereq")
    /\ One(\h60, "sjlesser")
    /\ One(\h62, "sjlessereq")
    /\ One(\h64, "ujlesser")
    /\ One(\h66, "ujlessereq")
    /\ One(\h68, "call")
    /\ Has0(\h6A, "return")
    /\ Has0(\h6B, "syscall")
    /\ Has2(\h6C, "sconvert", "conv", "conv")
    /\ Has2(\h6D, "uconvert", "conv", "conv")
<1>1. /\ Has0(\h00, "halt")
      /\ Has0(\h01, "pause")
      /\ One(\h02, "timer")
      /\ Has0(\h04, "usermode")
      /\ Has0(\h05, "ireturn")
  BY DEF Has0, Has1, One, CPU!Instructions, CPU!Control, CPU!Form, CPU!Forms, CPU!Word, CPU!Byte,
     CPU!Jump, CPU!Shift, CPU!Arithmetic1, CPU!Integer
<1>2. /\ Right(\h06, "load", "reg", "word", "wordref")
      /\ Left(\h08, "store")
      /\ Right(\h0A, "copy", "reg", "value", "same")
      /\ Right(\h0C, "swap", "reg", "word", "wordref")
      /\ Has1(\h0E, "push", "reg")
      /\ Has1(\h0F, "pop", "reg")
  BY DEF Has1, Has2, Left, Right, CPU!Instructions, CPU!Memory, CPU!Form, CPU!Forms, CPU!Word, CPU!Byte,
     CPU!Jump, CPU!Shift, CPU!Arithmetic1, CPU!Integer
<1>3. /\ Three(\h10, "blockcopy")
  BY DEF Has3, Three, CPU!Instructions, CPU!BlockCopy, CPU!Words, CPU!Form, CPU!Forms, CPU!Word, CPU!Byte,
     CPU!Jump, CPU!Shift, CPU!Arithmetic1, CPU!Integer
<1>4. /\ ThreeByte(\h18, "blockset")
  BY DEF Has3, ThreeByte, CPU!Instructions, CPU!BlockSet, CPU!Form, CPU!Forms, CPU!Word, CPU!Byte,
     CPU!Jump, CPU!Shift, CPU!Arithmetic1, CPU!Integer
<1>5. /\ Has1(\h20, "negate", "reg")
      /\ Right(\h21, "add", "reg", "value", "same")
      /\ Right(\h23, "addcarry", "int", "value", "same")
      /\ Right(\h25, "sub", "reg", "value", "same")
      /\ Right(\h27, "subborrow", "int", "value", "same")
      /\ Right(\h29, "mult", "reg", "value", "same")
      /\ Right(\h2B, "sdiv", "reg", "value", "same")
  BY DEF Has1, Has2, Right, CPU!Instructions, CPU!Arithmetic, CPU!Form, CPU!Forms, CPU!Word, CPU!Byte,
     CPU!Jump, CPU!Shift, CPU!Arithmetic1, CPU!Integer
<1>6. /\ Right(\h2D, "udiv", "int", "value", "same")
      /\ Right(\h2F, "srem", "reg", "value", "same")
      /\ Right(\h31, "urem", "int", "value", "same")
  BY DEF Has2, Right, CPU!Instructions, CPU!Division, CPU!Form, CPU!Forms, CPU!Word, CPU!Byte,
     CPU!Jump, CPU!Shift, CPU!Arithmetic1, CPU!Integer
<1>7. /\ Has1(\h33, "not", "int")
      /\ Right(\h34, "and", "int", "value", "same")
      /\ Right(\h36, "or", "int", "value", "same")
      /\ Right(\h38, "xor", "int", "value", "same")
  BY DEF Has1, Has2, Right, CPU!Instructions, CPU!Logic, CPU!Form, CPU!Forms, CPU!Word, CPU!Byte,
     CPU!Jump, CPU!Shift, CPU!Arithmetic1, CPU!Integer
<1>8. /\ Right(\h3A, "lshift", "int", "byte", "byteref")
      /\ Right(\h3C, "srshift", "int", "byte", "byteref")
      /\ Right(\h3E, "urshift", "int", "byte", "byteref")
      /\ Right(\h40, "lrot", "int", "byte", "byteref")
      /\ Right(\h42, "rrot", "int", "byte", "byteref")
      /\ Right(\h44, "lrotcarry", "int", "byte", "byteref")
      /\ Right(\h46, "rrotcarry", "int", "byte", "byteref")
  BY DEF Has2, Right, CPU!Instructions, CPU!Shifts, CPU!Form, CPU!Forms, CPU!Word, CPU!Byte,
     CPU!Jump, CPU!Shift, CPU!Arithmetic1, CPU!Integer
<1>9. /\ One(\h48, "jump")
      /\ Right(\h4A, "compare", "reg", "value", "same")
  BY DEF Has1, Has2, One, Right, CPU!Instructions, CPU!Jumps, CPU!Form, CPU!Forms, CPU!Word, CPU!Byte,
     CPU!Jump, CPU!Shift, CPU!Arithmetic1, CPU!Integer
<1>10. /\ Three(\h4C, "blockcmp")
  BY DEF Has3, Three, CPU!Instructions, CPU!BlockCmp, CPU!Words, CPU!Form, CPU!Forms, CPU!Word, CPU!Byte,
     CPU!Jump, CPU!Shift, CPU!Arithmetic1, CPU!Integer
<1>11. /\ One(\h54, "jequal")
      /\ One(\h56, "jnotequal")
      /\ One(\h58, "sjgreater")
      /\ One(\h5A, "sjgreatereq")
      /\ One(\h5C, "ujgreater")
      /\ One(\h5E, "ujgreatereq")
      /\ One(\h60, "sjlesser")
      /\ One(\h62, "sjlessereq")
      /\ One(\h64, "ujlesser")
      /\ One(\h66, "ujlessereq")
  BY DEF Has1, One, CPU!Instructions, CPU!ConditionalJumps, CPU!Form, CPU!Forms, CPU!Word, CPU!Byte,
     CPU!Jump, CPU!Shift, CPU!Arithmetic1, CPU!Integer
<1>12. /\ One(\h68, "call")
      /\ Has0(\h6A, "return")
      /\ Has0(\h6B, "syscall")
      /\ Has2(\h6C, "sconvert", "conv", "conv")
      /\ Has2(\h6D, "uconvert", "conv", "conv")
  BY DEF Has0, Has1, Has2, One, CPU!Instructions, CPU!Calls, CPU!Form, CPU!Forms, CPU!Word, CPU!Byte,
     CPU!Jump, CPU!Shift, CPU!Arithmetic1, CPU!Integer
<1>. QED
  BY <1>1, <1>2, <1>3, <1>4, <1>5, <1>6, <1>7, <1>8, <1>9, <1>10, <1>11, <1>12

(* Whatever its operands are, the opcode of an instruction is one at which *)
(* the CPU has that instruction, with the roles of these operands.         *)
SameInstruction(op, def, operands, ins) ==
    /\ ins.op = op /\ Len(ins.roles) = Len(def.mode)
    /\ \A k \in 1..Len(def.mode) :
          ins.roles[k] = RoleOf(def.mode[k], operands[k].kind = "reg")
Agreement(op, def) ==
    \A operands :
       /\ def.opcode + Choice(def.mode, operands) \in 0..109
       /\ SameInstruction(op, def, operands,
                          CPU!Instructions[def.opcode + Choice(def.mode, operands)])

(* For each of the modes *)
LEMMA AgreementNone ==
    ASSUME NEW op, NEW o \in 0..109, Has0(o, op)
    PROVE  Agreement(op, Def(i_none, o))
<1>1. \A operands : Choice(i_none, operands) = 0
  BY ChoiceFacts DEF i_none
<1>2. ASSUME NEW operands, NEW ins, ins = [op |-> op, roles |-> <<>>]
      PROVE  SameInstruction(op, Def(i_none, o), operands, ins)
  BY <1>2 DEF SameInstruction, Def, i_none
<1>3. Def(i_none, o).mode = i_none /\ Def(i_none, o).opcode = o
  BY DEF Def
<1>4. o + 0 = o
  OBVIOUS
<1>. QED
  BY <1>1, <1>2, <1>3, <1>4 DEF Agreement, Has0

(* The tables agree on instructions with one operand, a literal or a register, *)
LEMMA AgreementOne ==
    ASSUME NEW op, NEW o \in 0..108, One(o, op)
    PROVE  Agreement(op, Def(i_w, o)) /\ Agreement(op, Def(i_a, o))
<1>1. ASSUME NEW operands
      PROVE  /\ o + Choice(i_w, operands) \in 0..109
             /\ SameInstruction(op, Def(i_w, o), operands,
                                CPU!Instructions[o + Choice(i_w, operands)])
  <2>1. Choice(i_w, operands) = IF operands[1].kind = "reg" THEN 1 ELSE 0
    BY ChoiceFacts DEF i_w, Digit
  <2>. QED
    BY <2>1 DEF SameInstruction, Def, i_w, One, Has1, CPU!Word, RoleOf
<1>2. i_w = i_a
  BY DEF i_w, i_a
<1>. QED
  BY <1>1, <1>2 DEF Agreement, Def

(* on those without such an operand, *)
LEMMA AgreementAny ==
    ASSUME NEW op, NEW o \in 0..109
    PROVE  /\ Has1(o, op, "reg") => Agreement(op, Def(i_BHWF, o))
           /\ Has1(o, op, "int") => Agreement(op, Def(i_BHW, o))
           /\ Has2(o, op, "conv", "conv") => Agreement(op, Def(i_WF_WF, o))
<1>1. \A operands : /\ Choice(i_BHWF, operands) = 0 /\ Choice(i_BHW, operands) = 0
                    /\ Choice(i_WF_WF, operands) = 0
  BY ChoiceFacts DEF i_BHWF, i_BHW, i_WF_WF, Digit
<1>2. ASSUME NEW operands, NEW ins, ins = [op |-> op, roles |-> <<"reg">>]
      PROVE  SameInstruction(op, Def(i_BHWF, o), operands, ins)
  BY <1>2 DEF SameInstruction, Def, i_BHWF, RoleOf
<1>3. ASSUME NEW operands, NEW ins, ins = [op |-> op, roles |-> <<"int">>]
      PROVE  SameInstruction(op, Def(i_BHW, o), operands, ins)
  BY <1>3 DEF SameInstruction, Def, i_BHW, RoleOf
<1>4. ASSUME NEW operands, NEW ins, ins = [op |-> op, roles |-> <<"conv", "conv">>]
      PROVE  SameInstruction(op, Def(i_WF_WF, o), operands, ins)
  BY <1>4 DEF SameInstruction, Def, i_WF_WF, RoleOf
<1>. QED
  BY <1>1, <1>2, <1>3, <1>4 DEF Agreement, Def, Has1, Has2

(* on those where it is the second, *)
LEMMA AgreementRight ==
    ASSUME NEW op, NEW o \in 0..108,
           NEW mode, NEW a, NEW literal, NEW register, Right(o, op, a, literal, register),
           \/ mode = i_BHWF_a /\ a = "reg" /\ literal = "word" /\ register = "wordref"
           \/ mode = i_BHWF_bhwf /\ a = "reg" /\ literal = "value" /\ register = "same"
           \/ mode = i_BHW_bhw /\ a = "int" /\ literal = "value" /\ register = "same"
           \/ mode = i_BHW_b /\ a = "int" /\ literal = "byte" /\ register = "byteref"
    PROVE  Agreement(op, Def(mode, o))
<1>1. ASSUME NEW operands
      PROVE  /\ o + Choice(mode, operands) \in 0..109
             /\ SameInstruction(op, Def(mode, o), operands,
                                CPU!Instructions[o + Choice(mode, operands)])
  <2>1. Len(mode) = 2 /\ mode[1] \in {"any", "int"} /\ mode[2] \in {"word", "same", "byte"}
        /\ a = RoleOf(mode[1], operands[1].kind = "reg")
        /\ literal = RoleOf(mode[2], FALSE) /\ register = RoleOf(mode[2], TRUE)
    BY DEF i_BHWF_a, i_BHWF_bhwf, i_BHW_bhw, i_BHW_b, RoleOf
  <2>2. Choice(mode, operands) = IF operands[2].kind = "reg" THEN 1 ELSE 0
    BY <2>1, ChoiceFacts DEF Digit
  <2>. DEFINE b == operands[2].kind = "reg"
              ins == CPU!Instructions[o + Choice(mode, operands)]
  <2>3. ins = [op |-> op, roles |-> <<a, IF b THEN register ELSE literal>>]
    BY <2>2 DEF Right, Has2
  <2>4. (IF b THEN register ELSE literal) = RoleOf(mode[2], b)
    <3>1. CASE b
      <4>1. b = TRUE
        BY <3>1
      <4>. QED
        BY <2>1, <4>1
    <3>2. CASE ~b
      <4>1. b = FALSE
        BY <3>2
      <4>. QED
        BY <2>1, <4>1
    <3>. QED
      BY <3>1, <3>2
  <2>5. ins.op = op /\ Len(ins.roles) = 2 /\ ins.roles[1] = a
        /\ ins.roles[2] = (IF b THEN register ELSE literal)
    BY <2>3
  <2>6. Def(mode, o).mode = mode /\ \A k \in 1..2 : k = 1 \/ k = 2
    BY DEF Def
  <2>7. o + Choice(mode, operands) \in 0..109
    BY <2>2
  <2>. HIDE DEF ins
  <2>8. SameInstruction(op, Def(mode, o), operands, ins)
    <3>1. ASSUME NEW k \in 1..2 PROVE ins.roles[k] = RoleOf(mode[k], operands[k].kind = "reg")
      <4>1. CASE k = 1
        BY <2>1, <2>5, <4>1
      <4>2. CASE k = 2
        BY <2>4, <2>5, <4>2 DEF b
      <4>. QED
        BY <2>6, <4>1, <4>2
    <3>. QED
      BY <2>1, <2>5, <2>6, <3>1 DEF SameInstruction
  <2>. QED
    BY <2>7, <2>8 DEF ins
<1>. QED
  BY <1>1 DEF Agreement, Def

(* by their mode, *)
LEMMA AgreementByMode ==
    ASSUME NEW op, NEW o \in 0..108
    PROVE  /\ Right(o, op, "reg", "word", "wordref") => Agreement(op, Def(i_BHWF_a, o))
           /\ Right(o, op, "reg", "value", "same") => Agreement(op, Def(i_BHWF_bhwf, o))
           /\ Right(o, op, "int", "value", "same") => Agreement(op, Def(i_BHW_bhw, o))
           /\ Right(o, op, "int", "byte", "byteref") => Agreement(op, Def(i_BHW_b, o))
BY AgreementRight, Zenon

(* on STORE, where it is the first, *)
LEMMA AgreementLeft ==
    ASSUME NEW op, NEW o \in 0..108, Left(o, op)
    PROVE  Agreement(op, Def(i_a_BHWF, o))
<1>1. ASSUME NEW operands
      PROVE  /\ o + Choice(i_a_BHWF, operands) \in 0..109
             /\ SameInstruction(op, Def(i_a_BHWF, o), operands,
                                CPU!Instructions[o + Choice(i_a_BHWF, operands)])
  <2>1. Choice(i_a_BHWF, operands) = IF operands[1].kind = "reg" THEN 1 ELSE 0
    BY ChoiceFacts DEF i_a_BHWF, Digit
  <2>. QED
    BY <2>1 DEF SameInstruction, Def, i_a_BHWF, Left, Has2, CPU!Word, RoleOf
<1>. QED
  BY <1>1 DEF Agreement, Def

(* and on those with three. *)
LEMMA AgreementThree ==
    ASSUME NEW op, NEW o \in 0..102
    PROVE  /\ Three(o, op) => Agreement(op, Def(i_w_a_a, o))
           /\ ThreeByte(o, op) => Agreement(op, Def(i_w_a_b, o))
<1>. DEFINE Bit(operands, k) == IF operands[k].kind = "reg" THEN 1 ELSE 0
            Number(operands) == 4 * Bit(operands, 1) + 2 * Bit(operands, 2) + Bit(operands, 3)
<1>1. ASSUME NEW operands
      PROVE  Choice(i_w_a_a, operands) = Number(operands) /\ Choice(i_w_a_b, operands) = Number(operands)
  <2>1. ASSUME NEW mode, Len(mode) = 3, \A k \in 1..3 : mode[k] \in {"word", "byte", "same"}
        PROVE  Choice(mode, operands) = Number(operands)
    <3>1. /\ Digit(mode, operands, 1, 0) = Bit(operands, 1)
          /\ \A c \in Int : Digit(mode, operands, 2, c) = 2 * c + Bit(operands, 2)
          /\ \A c \in Int : Digit(mode, operands, 3, c) = 2 * c + Bit(operands, 3)
      BY <2>1 DEF Digit
    <3>2. Bit(operands, 1) \in Int /\ Bit(operands, 2) \in Int /\ Bit(operands, 3) \in Int
      OBVIOUS
    <3>3. Choice(mode, operands) =
            Digit(mode, operands, 3, Digit(mode, operands, 2, Digit(mode, operands, 1, 0)))
      BY <2>1, ChoiceFacts
    <3>. DEFINE a == Bit(operands, 1)
                b == Bit(operands, 2)
                c == Bit(operands, 3)
    <3>. HIDE DEF a, b, c
    <3>4. Choice(mode, operands) = 2 * (2 * a + b) + c
      BY <3>1, <3>2, <3>3 DEF a, b, c
    <3>5. 2 * (2 * a + b) + c = 4 * a + 2 * b + c
      BY <3>2 DEF a, b, c
    <3>. QED
      BY <3>4, <3>5 DEF a, b, c
  <2>2. /\ Len(i_w_a_a) = 3 /\ \A k \in 1..3 : i_w_a_a[k] \in {"word", "byte", "same"}
        /\ Len(i_w_a_b) = 3 /\ \A k \in 1..3 : i_w_a_b[k] \in {"word", "byte", "same"}
    BY DEF i_w_a_a, i_w_a_b
  <2>. HIDE DEF Number
  <2>. QED
    BY <2>1, <2>2
<1>2. ASSUME NEW operands
      PROVE  /\ Three(o, op) => SameInstruction(op, Def(i_w_a_a, o), operands,
                                                CPU!Instructions[o + Number(operands)])
             /\ ThreeByte(o, op) => SameInstruction(op, Def(i_w_a_b, o), operands,
                                                    CPU!Instructions[o + Number(operands)])
  <2>. DEFINE b == Bit(operands, 1)
              c == Bit(operands, 2)
              d == Bit(operands, 3)
  <2>1. b \in {0, 1} /\ c \in {0, 1} /\ d \in {0, 1}
        /\ (operands[1].kind = "reg") = (b = 1) /\ (operands[2].kind = "reg") = (c = 1)
        /\ (operands[3].kind = "reg") = (d = 1)
    OBVIOUS
  <2>2. Number(operands) = 4 * b + 2 * c + d
    OBVIOUS
  <2>. HIDE DEF b, c, d, Number
  <2>3. Three(o, op) => Has3(o + Number(operands), op, CPU!Word(b), CPU!Word(c), CPU!Word(d))
    BY <2>1, <2>2 DEF Three
  <2>4. ThreeByte(o, op) => Has3(o + Number(operands), op, CPU!Word(b), CPU!Word(c), CPU!Byte(d))
    BY <2>1, <2>2 DEF ThreeByte
  <2>5. ASSUME NEW r \in {0, 1}
        PROVE  CPU!Word(r) = RoleOf("word", r = 1) /\ CPU!Byte(r) = RoleOf("byte", r = 1)
    BY DEF CPU!Word, CPU!Byte, RoleOf
  <2>6. Three(o, op) => SameInstruction(op, Def(i_w_a_a, o), operands,
                                        CPU!Instructions[o + Number(operands)])
    BY <2>1, <2>3, <2>5 DEF SameInstruction, Def, i_w_a_a, Has3
  <2>7. ThreeByte(o, op) => SameInstruction(op, Def(i_w_a_b, o), operands,
                                            CPU!Instructions[o + Number(operands)])
    BY <2>1, <2>4, <2>5 DEF SameInstruction, Def, i_w_a_b, Has3
  <2>. QED
    BY <2>6, <2>7
<1>3. \A operands : o + Number(operands) \in 0..109
  OBVIOUS
<1>. HIDE DEF Number
<1>. QED
  BY <1>1, <1>2, <1>3 DEF Agreement, Def

(* For every instruction *)
LEMMA OpcodesAgree ==
    ASSUME NEW op \in DOMAIN Opcodes
    PROVE  Agreement(op, Opcodes[op])
<1>1. DOMAIN Opcodes = {"halt", "pause", "timer", "usermode", "ireturn", "load",
                        "store", "copy", "swap", "push", "pop", "blockcopy",
                        "blockset", "negate", "add", "addcarry", "sub",
                        "subborrow", "mult", "sdiv", "udiv", "srem", "urem",
                        "not", "and", "or", "xor", "lshift", "srshift",
                        "urshift", "lrot", "rrot", "lrotcarry", "rrotcarry",
                        "jump", "compare", "blockcmp", "jequal", "jnotequal",
                        "sjgreater", "sjgreatereq", "ujgreater", "ujgreatereq",
                        "sjlesser", "sjlessereq", "ujlesser", "ujlessereq",
                        "call", "return", "syscall", "sconvert", "uconvert"}
  BY DEF Opcodes
<1>2. /\ Agreement("halt", Opcodes["halt"])
      /\ Agreement("pause", Opcodes["pause"])
      /\ Agreement("usermode", Opcodes["usermode"])
      /\ Agreement("ireturn", Opcodes["ireturn"])
      /\ Agreement("return", Opcodes["return"])
      /\ Agreement("syscall", Opcodes["syscall"])
  <2>1. /\ Opcodes["halt"] = Def(i_none, \h00)
        /\ Opcodes["pause"] = Def(i_none, \h01)
        /\ Opcodes["usermode"] = Def(i_none, \h04)
        /\ Opcodes["ireturn"] = Def(i_none, \h05)
        /\ Opcodes["return"] = Def(i_none, \h6A)
        /\ Opcodes["syscall"] = Def(i_none, \h6B)
    BY DEF Opcodes
  <2>2. /\ Agreement("halt", Def(i_none, \h00))
        /\ Agreement("pause", Def(i_none, \h01))
        /\ Agreement("usermode", Def(i_none, \h04))
        /\ Agreement("ireturn", Def(i_none, \h05))
        /\ Agreement("return", Def(i_none, \h6A))
        /\ Agreement("syscall", Def(i_none, \h6B))
    BY InstructionTable, AgreementNone
  <2>. QED
    BY <2>1, <2>2
<1>3. /\ Agreement("timer", Opcodes["timer"])
  <2>1. /\ Opcodes["timer"] = Def(i_w, \h02)
    BY DEF Opcodes
  <2>2. /\ Agreement("timer", Def(i_w, \h02))
    BY InstructionTable, AgreementOne
  <2>. QED
    BY <2>1, <2>2
<1>4. /\ Agreement("load", Opcodes["load"])
      /\ Agreement("swap", Opcodes["swap"])
  <2>1. /\ Opcodes["load"] = Def(i_BHWF_a, \h06)
        /\ Opcodes["swap"] = Def(i_BHWF_a, \h0C)
    BY DEF Opcodes
  <2>2. /\ Agreement("load", Def(i_BHWF_a, \h06))
        /\ Agreement("swap", Def(i_BHWF_a, \h0C))
    BY InstructionTable, AgreementByMode
  <2>. QED
    BY <2>1, <2>2
<1>5. /\ Agreement("store", Opcodes["store"])
  <2>1. /\ Opcodes["store"] = Def(i_a_BHWF, \h08)
    BY DEF Opcodes
  <2>2. /\ Agreement("store", Def(i_a_BHWF, \h08))
    BY InstructionTable, AgreementLeft
  <2>. QED
    BY <2>1, <2>2
<1>6. /\ Agreement("copy", Opcodes["copy"])
      /\ Agreement("add", Opcodes["add"])
      /\ Agreement("sub", Opcodes["sub"])
      /\ Agreement("mult", Opcodes["mult"])
      /\ Agreement("sdiv", Opcodes["sdiv"])
      /\ Agreement("srem", Opcodes["srem"])
      /\ Agreement("compare", Opcodes["compare"])
  <2>1. /\ Opcodes["copy"] = Def(i_BHWF_bhwf, \h0A)
        /\ Opcodes["add"] = Def(i_BHWF_bhwf, \h21)
        /\ Opcodes["sub"] = Def(i_BHWF_bhwf, \h25)
        /\ Opcodes["mult"] = Def(i_BHWF_bhwf, \h29)
        /\ Opcodes["sdiv"] = Def(i_BHWF_bhwf, \h2B)
        /\ Opcodes["srem"] = Def(i_BHWF_bhwf, \h2F)
        /\ Opcodes["compare"] = Def(i_BHWF_bhwf, \h4A)
    BY DEF Opcodes
  <2>2. /\ Agreement("copy", Def(i_BHWF_bhwf, \h0A))
        /\ Agreement("add", Def(i_BHWF_bhwf, \h21))
        /\ Agreement("sub", Def(i_BHWF_bhwf, \h25))
        /\ Agreement("mult", Def(i_BHWF_bhwf, \h29))
        /\ Agreement("sdiv", Def(i_BHWF_bhwf, \h2B))
        /\ Agreement("srem", Def(i_BHWF_bhwf, \h2F))
        /\ Agreement("compare", Def(i_BHWF_bhwf, \h4A))
    BY InstructionTable, AgreementByMode
  <2>. QED
    BY <2>1, <2>2
<1>7. /\ Agreement("push", Opcodes["push"])
      /\ Agreement("pop", Opcodes["pop"])
      /\ Agreement("negate", Opcodes["negate"])
  <2>1. /\ Opcodes["push"] = Def(i_BHWF, \h0E)
        /\ Opcodes["pop"] = Def(i_BHWF, \h0F)
        /\ Opcodes["negate"] = Def(i_BHWF, \h20)
    BY DEF Opcodes
  <2>2. /\ Agreement("push", Def(i_BHWF, \h0E))
        /\ Agreement("pop", Def(i_BHWF, \h0F))
        /\ Agreement("negate", Def(i_BHWF, \h20))
    BY InstructionTable, AgreementAny
  <2>. QED
    BY <2>1, <2>2
<1>8. /\ Agreement("blockcopy", Opcodes["blockcopy"])
      /\ Agreement("blockcmp", Opcodes["blockcmp"])
  <2>1. /\ Opcodes["blockcopy"] = Def(i_w_a_a, \h10)
        /\ Opcodes["blockcmp"] = Def(i_w_a_a, \h4C)
    BY DEF Opcodes
  <2>2. /\ Agreement("blockcopy", Def(i_w_a_a, \h10))
        /\ Agreement("blockcmp", Def(i_w_a_a, \h4C))
    BY InstructionTable, AgreementThree
  <2>. QED
    BY <2>1, <2>2
<1>9. /\ Agreement("blockset", Opcodes["blockset"])
  <2>1. /\ Opcodes["blockset"] = Def(i_w_a_b, \h18)
    BY DEF Opcodes
  <2>2. /\ Agreement("blockset", Def(i_w_a_b, \h18))
    BY InstructionTable, AgreementThree
  <2>. QED
    BY <2>1, <2>2
<1>10. /\ Agreement("addcarry", Opcodes["addcarry"])
      /\ Agreement("subborrow", Opcodes["subborrow"])
      /\ Agreement("udiv", Opcodes["udiv"])
      /\ Agreement("urem", Opcodes["urem"])
      /\ Agreement("and", Opcodes["and"])
      /\ Agreement("or", Opcodes["or"])
      /\ Agreement("xor", Opcodes["xor"])
  <2>1. /\ Opcodes["addcarry"] = Def(i_BHW_bhw, \h23)
        /\ Opcodes["subborrow"] = Def(i_BHW_bhw, \h27)
        /\ Opcodes["udiv"] = Def(i_BHW_bhw, \h2D)
        /\ Opcodes["urem"] = Def(i_BHW_bhw, \h31)
        /\ Opcodes["and"] = Def(i_BHW_bhw, \h34)
        /\ Opcodes["or"] = Def(i_BHW_bhw, \h36)
        /\ Opcodes["xor"] = Def(i_BHW_bhw, \h38)
    BY DEF Opcodes
  <2>2. /\ Agreement("addcarry", Def(i_BHW_bhw, \h23))
        /\ Agreement("subborrow", Def(i_BHW_bhw, \h27))
        /\ Agreement("udiv", Def(i_BHW_bhw, \h2D))
        /\ Agreement("urem", Def(i_BHW_bhw, \h31))
        /\ Agreement("and", Def(i_BHW_bhw, \h34))
        /\ Agreement("or", Def(i_BHW_bhw, \h36))
        /\ Agreement("xor", Def(i_BHW_bhw, \h38))
    BY InstructionTable, AgreementByMode
  <2>. QED
    BY <2>1, <2>2
<1>11. /\ Agreement("not", Opcodes["not"])
  <2>1. /\ Opcodes["not"] = Def(i_BHW, \h33)
    BY DEF Opcodes
  <2>2. /\ Agreement("not", Def(i_BHW, \h33))
    BY InstructionTable, AgreementAny
  <2>. QED
    BY <2>1, <2>2
<1>12. /\ Agreement("lshift", Opcodes["lshift"])
      /\ Agreement("srshift", Opcodes["srshift"])
      /\ Agreement("urshift", Opcodes["urshift"])
      /\ Agreement("lrot", Opcodes["lrot"])
      /\ Agreement("rrot", Opcodes["rrot"])
      /\ Agreement("lrotcarry", Opcodes["lrotcarry"])
      /\ Agreement("rrotcarry", Opcodes["rrotcarry"])
  <2>1. /\ Opcodes["lshift"] = Def(i_BHW_b, \h3A)
        /\ Opcodes["srshift"] = Def(i_BHW_b, \h3C)
        /\ Opcodes["urshift"] = Def(i_BHW_b, \h3E)
        /\ Opcodes["lrot"] = Def(i_BHW_b, \h40)
        /\ Opcodes["rrot"] = Def(i_BHW_b, \h42)
        /\ Opcodes["lrotcarry"] = Def(i_BHW_b, \h44)
        /\ Opcodes["rrotcarry"] = Def(i_BHW_b, \h46)
    BY DEF Opcodes
  <2>2. /\ Agreement("lshift", Def(i_BHW_b, \h3A))
        /\ Agreement("srshift", Def(i_BHW_b, \h3C))
        /\ Agreement("urshift", Def(i_BHW_b, \h3E))
        /\ Agreement("lrot", Def(i_BHW_b, \h40))
        /\ Agreement("rrot", Def(i_BHW_b, \h42))
        /\ Agreement("lrotcarry", Def(i_BHW_b, \h44))
        /\ Agreement("rrotcarry", Def(i_BHW_b, \h46))
    BY InstructionTable, AgreementByMode
  <2>. QED
    BY <2>1, <2>2
<1>13. /\ Agreement("jump", Opcodes["jump"])
      /\ Agreement("jequal", Opcodes["jequal"])
      /\ Agreement("jnotequal", Opcodes["jnotequal"])
      /\ Agreement("sjgreater", Opcodes["sjgreater"])
      /\ Agreement("sjgreatereq", Opcodes["sjgreatereq"])
      /\ Agreement("ujgreater", Opcodes["ujgreater"])
      /\ Agreement("ujgreatereq", Opcodes["ujgreatereq"])
      /\ Agreement("sjlesser", Opcodes["sjlesser"])
      /\ Agreement("sjlessereq", Opcodes["sjlessereq"])
      /\ Agreement("ujlesser", Opcodes["ujlesser"])
      /\ Agreement("ujlessereq", Opcodes["ujlessereq"])
      /\ Agreement("call", Opcodes["call"])
  <2>1. /\ Opcodes["jump"] = Def(i_a, \h48)
        /\ Opcodes["jequal"] = Def(i_a, \h54)
        /\ Opcodes["jnotequal"] = Def(i_a, \h56)
        /\ Opcodes["sjgreater"] = Def(i_a, \h58)
        /\ Opcodes["sjgreatereq"] = Def(i_a, \h5A)
        /\ Opcodes["ujgreater"] = Def(i_a, \h5C)
        /\ Opcodes["ujgreatereq"] = Def(i_a, \h5E)
        /\ Opcodes["sjlesser"] = Def(i_a, \h60)
        /\ Opcodes["sjlessereq"] = Def(i_a, \h62)
        /\ Opcodes["ujlesser"] = Def(i_a, \h64)
        /\ Opcodes["ujlessereq"] = Def(i_a, \h66)
        /\ Opcodes["call"] = Def(i_a, \h68)
    BY DEF Opcodes
  <2>2. /\ Agreement("jump", Def(i_a, \h48))
        /\ Agreement("jequal", Def(i_a, \h54))
        /\ Agreement("jnotequal", Def(i_a, \h56))
        /\ Agreement("sjgreater", Def(i_a, \h58))
        /\ Agreement("sjgreatereq", Def(i_a, \h5A))
        /\ Agreement("ujgreater", Def(i_a, \h5C))
        /\ Agreement("ujgreatereq", Def(i_a, \h5E))
        /\ Agreement("sjlesser", Def(i_a, \h60))
        /\ Agreement("sjlessereq", Def(i_a, \h62))
        /\ Agreement("ujlesser", Def(i_a, \h64))
        /\ Agreement("ujlessereq", Def(i_a, \h66))
        /\ Agreement("call", Def(i_a, \h68))
    BY InstructionTable, AgreementOne
  <2>. QED
    BY <2>1, <2>2
<1>14. /\ Agreement("sconvert", Opcodes["sconvert"])
      /\ Agreement("uconvert", Opcodes["uconvert"])
  <2>1. /\ Opcodes["sconvert"] = Def(i_WF_WF, \h6C)
        /\ Opcodes["uconvert"] = Def(i_WF_WF, \h6D)
    BY DEF Opcodes
  <2>2. /\ Agreement("sconvert", Def(i_WF_WF, \h6C))
        /\ Agreement("uconvert", Def(i_WF_WF, \h6D))
    BY InstructionTable, AgreementAny
  <2>. QED
    BY <2>1, <2>2
<1>. QED
  BY <1>1, <1>2, <1>3, <1>4, <1>5, <1>6, <1>7, <1>8, <1>9, <1>10, <1>11, <1>12, <1>13, <1>14

-----------------------------------------------------------------------------
(***************************************************************************)
(* The CPU decodes what the table describes, and the places of operands.   *)
(***************************************************************************)

(* Where the CPU looks for the operands of the instruction at index i *)
FetchPlaces(ins, first, i) ==
    CHOOSE at : at = [k \in 1..(Len(ins.roles) + 1) |->
       IF k = 1 THEN i + 1
       ELSE at[k - 1] + CPU!FetchSize(ins.roles[k - 1], IF first = "none" THEN "Byte" ELSE first)]

(* What it makes of them *)
FetchedType(ins, bytes, at, k) ==
    IF CPU!IsLiteral(ins.roles[k]) THEN "literal" ELSE CPU!reg_ref_type(bytes[at[k]])
Fetched(ins, first, bytes, i, at) ==
    LET n == Len(ins.roles)
    IN  IF \/ at[n + 1] > Len(bytes) + 1
           \/ \E k \in 1..n : ~CPU!Accepts(ins.roles[k], FetchedType(ins, bytes, at, k), first,
                                           FetchedType(ins, bytes, at, IF k = 1 THEN n ELSE 1))
          THEN CPU!Illegal
          ELSE [op |-> ins.op,
                args |-> [k \in 1..n |-> [literal |-> CPU!IsLiteral(ins.roles[k]),
                                          bytes |-> SubSeq(bytes, at[k], at[k + 1] - 1)]],
                length |-> at[n + 1] - i]

(* These are the steps of Decode. *)
LEMMA DecodeAsFacts ==
    ASSUME NEW ins, NEW first, NEW bytes, NEW i
    PROVE  CPU!DecodeAs(ins, first, bytes, i) =
             Fetched(ins, first, bytes, i, FetchPlaces(ins, first, i))
BY Zenon DEF CPU!DecodeAs, Fetched, FetchedType, FetchPlaces

(* They follow one another. *)
Consecutive(ins, n, first, i, at) ==
    /\ at \in [1..(n + 1) -> Nat] /\ at[1] = i + 1
    /\ \A k \in 1..n : at[k + 1] = at[k] + CPU!FetchSize(ins.roles[k],
                                               IF first = "none" THEN "Byte" ELSE first)

(* The CPU looks there. *)
LEMMA PlacesFacts ==
    ASSUME NEW ins, NEW n \in 0..3, Len(ins.roles) = n, NEW first, NEW i \in Nat,
           NEW at, Consecutive(ins, n, first, i, at)
    PROVE  FetchPlaces(ins, first, i) = at
<1>. DEFINE Width(k) == CPU!FetchSize(ins.roles[k], IF first = "none" THEN "Byte" ELSE first)
            Body(f) == [k \in 1..(n + 1) |-> IF k = 1 THEN i + 1 ELSE f[k - 1] + Width(k - 1)]
            f == FetchPlaces(ins, first, i)
<1>1. /\ at \in [1..(n + 1) -> Nat] /\ at[1] = i + 1
      /\ \A k \in 1..n : at[k + 1] = at[k] + Width(k)
  BY DEF Consecutive
<1>2. f = CHOOSE g : g = Body(g)
  BY Zenon DEF FetchPlaces
<1>. HIDE DEF f, Width
<1>3. at = Body(at)
  <2>1. \A k \in 1..(n + 1) : at[k] = IF k = 1 THEN i + 1 ELSE at[k - 1] + Width(k - 1)
    <3>1. ASSUME NEW k \in 1..(n + 1), k # 1 PROVE at[k] = at[k - 1] + Width(k - 1)
      <4>1. k - 1 \in 1..n /\ (k - 1) + 1 = k
        BY <3>1
      <4>. QED
        BY <1>1, <4>1
    <3>. QED
      BY <1>1, <3>1
  <2>. QED
    BY <1>1, <2>1
<1>4. f = Body(f)
  <2>. HIDE DEF Body
  <2>. QED
    BY <1>2, <1>3, Zenon
<1>5. \A k \in 1..(n + 1) : f[k] = IF k = 1 THEN i + 1 ELSE f[k - 1] + Width(k - 1)
  BY <1>4, Zenon
<1>6. DOMAIN f = 1..(n + 1) /\ f = [k \in 1..(n + 1) |-> f[k]]
  BY <1>4
<1>7. f[1] = at[1] /\ (n >= 1 => f[2] = at[2])
  BY <1>1, <1>5
<1>8. n >= 2 => f[3] = at[3]
  BY <1>1, <1>5, <1>7
<1>9. n >= 3 => f[4] = at[4]
  BY <1>1, <1>5, <1>8
<1>10. ASSUME NEW k \in 1..(n + 1) PROVE f[k] = at[k]
  <2>1. k = 1 \/ (n >= 1 /\ k = 2) \/ (n >= 2 /\ k = 3) \/ (n >= 3 /\ k = 4)
    OBVIOUS
  <2>. QED
    BY <1>7, <1>8, <1>9, <2>1
<1>11. f = at
  BY <1>1, <1>6, <1>10
<1>. QED
  BY <1>11 DEF f

(* How many bytes the assembler writes for an operand *)
WidthOf(class, o, first) ==
    CASE o.kind = "reg" -> 1 [] o.kind = "name" -> 4 [] OTHER -> Size[LiteralType(class, first)]

(* The types of registers *)
LEMMA TypesAgree ==
    ASSUME NEW r \in 0..37
    PROVE  CPU!reg_ref_type(r) = RegisterType(r) /\ RegisterType(r) \in DOMAIN Size
           /\ CPU!reg_ref_type(r) # "none"
BY DEF CPU!reg_ref_type, RegisterType, Size

(* The CPU fetches as many bytes for an operand as the assembler writes,   *)
(* and executes the instruction with a register that the assembler accepts *)
LEMMA RolesAgree ==
    ASSUME NEW env, NEW class \in Classes, NEW o \in OperandNode, NEW first \in DOMAIN Size,
           AcceptsOperand(env, class, o, first), NEW type, class = "same" => type = first
    PROVE  LET role == RoleOf(class, o.kind = "reg")
           IN  /\ CPU!IsLiteral(role) <=> o.kind # "reg"
               /\ CPU!FetchSize(role, type) = WidthOf(class, o, first)
               /\ WidthOf(class, o, first) \in {1, 2, 4}
               /\ class \notin {"wf", "fw"} => \A other :
                    CPU!Accepts(role, IF o.kind = "reg" THEN CPU!reg_ref_type(o.ref) ELSE "literal",
                                type, other)
<1>. DEFINE role == RoleOf(class, o.kind = "reg")
<1>0. o.kind \in {"reg", "name", "lit", "sizeof"} /\ (o.kind = "reg" => o.ref \in 0..37)
  BY DEF OperandNode, LiteralNode
<1>1. CASE o.kind = "reg"
  <2>1. /\ CPU!reg_ref_type(o.ref) = RegisterType(o.ref) /\ CPU!reg_ref_type(o.ref) # "none"
        /\ AcceptsRegister(class, RegisterType(o.ref), first)
    BY <1>0, <1>1, TypesAgree DEF AcceptsOperand
  <2>2. (o.kind = "reg") = TRUE
    BY <1>1
  <2>3. role = CASE class = "any" -> "reg"
                 [] class = "int" -> "int"
                 [] class = "word" -> "wordref"
                 [] class = "byte" -> "byteref"
                 [] class = "same" -> "same"
                 [] class \in {"wf", "fw"} -> "conv"
    BY <2>2 DEF RoleOf
  <2>. HIDE DEF role
  <2>4. role \in {"reg", "int", "wordref", "byteref", "same", "conv"}
    BY <2>3 DEF Classes
  <2>5. ~CPU!IsLiteral(role) /\ CPU!FetchSize(role, type) = 1
    BY <2>4 DEF CPU!IsLiteral, CPU!FetchSize
  <2>6. WidthOf(class, o, first) = 1
    BY <1>1 DEF WidthOf
  <2>. DEFINE t == CPU!reg_ref_type(o.ref)
  <2>7. t = RegisterType(o.ref) /\ t # "none" /\ AcceptsRegister(class, t, first)
    BY <2>1
  <2>. HIDE DEF t
  <2>8. class \notin {"wf", "fw"} => \A other : CPU!Accepts(role, t, type, other)
    <3>1. CASE class = "any"
      BY <2>3, <2>7, <3>1 DEF CPU!Accepts
    <3>2. CASE class = "int"
      BY <2>3, <2>7, <3>2 DEF CPU!Accepts, AcceptsRegister
    <3>3. CASE class = "word"
      BY <2>3, <2>7, <3>3 DEF CPU!Accepts, AcceptsRegister
    <3>4. CASE class = "byte"
      BY <2>3, <2>7, <3>4 DEF CPU!Accepts, AcceptsRegister
    <3>5. CASE class = "same"
      BY <2>3, <2>7, <3>5 DEF CPU!Accepts, AcceptsRegister
    <3>. QED
      BY <3>1, <3>2, <3>3, <3>4, <3>5 DEF Classes
  <2>. QED
    BY <1>1, <2>5, <2>6, <2>8 DEF role, t
<1>2. CASE o.kind # "reg"
  <2>1. (o.kind = "reg") = FALSE
    BY <1>2
  <2>2. class \in {"word", "byte", "same"} /\ (o.kind = "name" =>
          class = "word" \/ (class = "same" /\ first = "Word"))
    BY <1>0, <1>2 DEF AcceptsOperand
  <2>3. role = IF class = "word" THEN "word" ELSE IF class = "byte" THEN "byte" ELSE "value"
    BY <2>1, <2>2 DEF RoleOf
  <2>. HIDE DEF role
  <2>4. CPU!IsLiteral(role) /\ \A t, other : CPU!Accepts(role, t, type, other)
    BY <2>3 DEF CPU!IsLiteral, CPU!Accepts
  <2>5. CPU!FetchSize(role, type) = WidthOf(class, o, first)
    BY <1>0, <1>2, <2>2, <2>3 DEF CPU!FetchSize, CPU!Width, WidthOf, LiteralType, Size
  <2>6. WidthOf(class, o, first) \in {1, 2, 4}
    BY <1>0, <1>2, <2>2 DEF WidthOf, LiteralType, Size
  <2>. QED
    BY <1>2, <2>4, <2>5, <2>6 DEF role
<1>. QED
  BY <1>1, <1>2

(* The operands are accepted, and these are where their bytes are when the *)
(* opcode is at index i.                                                   *)
AllAccepted(env, mode, operands) ==
    \A k \in 1..Len(mode) : AcceptsOperand(env, mode[k], operands[k], FirstType(operands))
PlacesOf(mode, operands, i, at) ==
    /\ at \in [1..(Len(mode) + 1) -> Nat] /\ at[1] = i + 1
    /\ \A k \in 1..Len(mode) :
         at[k + 1] = at[k] + WidthOf(mode[k], operands[k], FirstType(operands))

(* An operand of the type of the first follows one that is a register, and *)
(* the two of a conversion are registers of different types.               *)
LEMMA ModesFit ==
    ASSUME NEW mode \in Modes
    PROVE  /\ \A k \in 1..Len(mode) : mode[k] = "same" => mode[1] \in {"any", "int"}
           /\ \A k \in 1..Len(mode) : mode[k] \in {"wf", "fw"} => mode = i_WF_WF
BY DEF Modes, i_none, i_w, i_BHWF_a, i_a_BHWF, i_BHWF_bhwf, i_BHWF, i_w_a_a, i_w_a_b, i_WF_WF,
   i_BHW_bhw, i_BHW, i_BHW_b, i_a

(* The operands of a conversion are two registers, of the two types. *)
LEMMA ConversionFits ==
    ASSUME NEW env, NEW operands, \A k \in 1..2 : operands[k] \in OperandNode,
           Len(operands) = 2, AllAccepted(env, i_WF_WF, operands)
    PROVE  /\ operands[1].kind = "reg" /\ operands[2].kind = "reg"
           /\ {CPU!reg_ref_type(operands[1].ref), CPU!reg_ref_type(operands[2].ref)} =
                {"Word", "Float"}
<1>1. /\ AcceptsOperand(env, "wf", operands[1], FirstType(operands))
      /\ AcceptsOperand(env, "fw", operands[2], FirstType(operands))
  BY DEF AllAccepted, i_WF_WF
<1>2. \A k \in 1..2 : operands[k].kind \in {"reg", "name", "lit", "sizeof"}
                      /\ (operands[k].kind = "reg" => operands[k].ref \in 0..37)
  BY DEF OperandNode, LiteralNode
<1>3. operands[1].kind = "reg" /\ operands[2].kind = "reg"
  BY <1>1, <1>2 DEF AcceptsOperand
<1>4. FirstType(operands) = RegisterType(operands[1].ref)
  BY <1>3 DEF FirstType
<1>5. {RegisterType(operands[2].ref), RegisterType(operands[1].ref)} = {"Word", "Float"}
  BY <1>1, <1>3, <1>4 DEF AcceptsOperand, AcceptsRegister
<1>6. /\ CPU!reg_ref_type(operands[1].ref) = RegisterType(operands[1].ref)
      /\ CPU!reg_ref_type(operands[2].ref) = RegisterType(operands[2].ref)
  BY <1>2, <1>3, TypesAgree
<1>. QED
  BY <1>3, <1>5, <1>6

(* What the CPU makes of an instruction whose operands are at these places *)
InstructionAs(op, operands, bytes, i, at) ==
    [op |-> op,
     args |-> [k \in 1..Len(operands) |-> [literal |-> operands[k].kind # "reg",
                                            bytes |-> SubSeq(bytes, at[k], at[k + 1] - 1)]],
     length |-> at[Len(operands) + 1] - i]

(* The CPU decodes an accepted instruction as the one that was written: an *)
(* operand that is no register is in the bytes where the assembler put it. *)
LEMMA DecodeFacts ==
    ASSUME NEW env, NEW op \in DOMAIN Opcodes, NEW operands \in Seq(OperandNode),
           Len(operands) = Len(Opcodes[op].mode), AllAccepted(env, Opcodes[op].mode, operands),
           NEW i \in Nat \ {0}, NEW at, PlacesOf(Opcodes[op].mode, operands, i, at),
           NEW bytes, Len(bytes) \in Nat, at[Len(operands) + 1] <= Len(bytes) + 1,
           bytes[i] = Opcodes[op].opcode + Choice(Opcodes[op].mode, operands),
           \A k \in 1..Len(operands) : operands[k].kind = "reg" => bytes[at[k]] = operands[k].ref
    PROVE  CPU!Decode(bytes, i) = InstructionAs(op, operands, bytes, i, at)
<1>. DEFINE def == Opcodes[op]
            mode == def.mode
            n == Len(operands)
            opcode == def.opcode + Choice(mode, operands)
            ins == CPU!Instructions[opcode]
            first == IF n > 0 /\ i < Len(bytes) THEN CPU!reg_ref_type(bytes[i + 1]) ELSE "none"
            type == IF first = "none" THEN "Byte" ELSE first
            role(k) == RoleOf(mode[k], operands[k].kind = "reg")
<1>1. mode \in Modes /\ mode \in Seq(Classes) /\ n \in 0..3 /\ Len(mode) = n
  <2>1. mode \in Modes
    BY OpcodeFacts
  <2>2. mode \in Seq(Classes) /\ Len(mode) <= 3 /\ Len(mode) \in Nat
    <3>. HIDE DEF mode
    <3>. QED
      BY <2>1, ModeFacts, LenProperties
  <2>3. n = Len(mode)
    OBVIOUS
  <2>. HIDE DEF n, mode
  <2>. QED
    BY <2>1, <2>2, <2>3
<1>2. /\ opcode \in 0..109
      /\ ins.op = op /\ Len(ins.roles) = n
      /\ \A k \in 1..n : ins.roles[k] = role(k)
  <2>1. Agreement(op, def)
    BY OpcodesAgree
  <2>2. SameInstruction(op, def, operands, ins) /\ opcode \in 0..109
    <3>. HIDE DEF def
    <3>. QED
      BY <2>1 DEF Agreement
  <2>. HIDE DEF ins, opcode, def
  <2>. QED
    BY <1>1, <2>2 DEF SameInstruction
<1>3. /\ at \in [1..(n + 1) -> Nat] /\ at[1] = i + 1
      /\ \A k \in 1..n : at[k + 1] = at[k] + WidthOf(mode[k], operands[k], FirstType(operands))
  BY <1>1 DEF PlacesOf
<1>4. \A k \in 1..n : /\ mode[k] \in Classes /\ operands[k] \in OperandNode
                      /\ AcceptsOperand(env, mode[k], operands[k], FirstType(operands))
  BY <1>1 DEF AllAccepted
<1>5. FirstType(operands) \in DOMAIN Size
  BY FirstTypeFacts
<1>6. bytes[i] = opcode /\ at[n + 1] <= Len(bytes) + 1
      /\ \A k \in 1..n : operands[k].kind = "reg" => bytes[at[k]] = operands[k].ref
  OBVIOUS
<1>7. DOMAIN CPU!Instructions = 0..109
  BY DEF CPU!Instructions
<1>8. CPU!Decode(bytes, i) = Fetched(ins, first, bytes, i, FetchPlaces(ins, first, i))
  <2>1. CPU!Decode(bytes, i) = CPU!DecodeAs(ins, first, bytes, i)
    <3>. HIDE DEF opcode, n
    <3>1. bytes[i] = opcode /\ opcode \in DOMAIN CPU!Instructions /\ Len(ins.roles) = n
      BY <1>2, <1>6, <1>7
    <3>. QED
      BY <3>1 DEF CPU!Decode
  <2>. HIDE DEF ins, first
  <2>. QED
    BY <2>1, DecodeAsFacts
<1>0. n = Len(operands) /\ n \in Nat /\ Len(bytes) \in Nat
  OBVIOUS
<1>. HIDE DEF mode, opcode, def, ins, n
<1>9. \A k \in 1..n : mode[k] = "same" => type = FirstType(operands) /\ first = FirstType(operands)
  <2>1. ASSUME NEW k \in 1..n, mode[k] = "same"
        PROVE  type = FirstType(operands) /\ first = FirstType(operands)
    <3>1. mode[1] \in {"any", "int"} /\ 1 \in 1..n
      BY <1>1, <2>1, ModesFit
    <3>2. operands[1].kind = "reg" /\ operands[1].ref \in 0..37
      <4>1. operands[1].kind \in {"reg", "name", "lit", "sizeof"}
            /\ (operands[1].kind = "reg" => operands[1].ref \in 0..37)
        BY <1>4, <3>1 DEF OperandNode, LiteralNode
      <4>. QED
        BY <1>4, <3>1, <4>1 DEF AcceptsOperand
    <3>3. bytes[i + 1] = operands[1].ref
      BY <1>3, <1>6, <3>1, <3>2
    <3>4. i < Len(bytes)
      <4>1. \A j \in 1..n : WidthOf(mode[j], operands[j], FirstType(operands)) \in {1, 2, 4}
        <5>1. \A j \in 1..n : operands[j].kind \in {"reg", "name", "lit", "sizeof"}
          BY <1>4 DEF OperandNode, LiteralNode
        <5>. QED
          BY <1>5, <5>1 DEF WidthOf, LiteralType, Size
      <4>. DEFINE W(j) == WidthOf(mode[j], operands[j], FirstType(operands))
      <4>. HIDE DEF W
      <4>2. \A j \in 1..n : at[j + 1] >= at[j] + 1
        <5>1. ASSUME NEW j \in 1..n PROVE at[j + 1] >= at[j] + 1
          <6>. DEFINE w == W(j)
          <6>1. at[j] \in Nat /\ at[j + 1] = at[j] + w /\ w \in {1, 2, 4}
            <7>1. j \in 1..(n + 1) /\ at[j] \in Nat
              <8>1. j \in 1..(n + 1)
                BY <1>0
              <8>. QED
                BY <1>3, <8>1
            <7>. QED
              BY <1>3, <4>1, <7>1 DEF W
          <6>. HIDE DEF w
          <6>. QED
            BY <6>1
        <5>. QED
          BY <5>1
      <4>3. at[n + 1] >= i + 2
        <5>1. n = 1 \/ n = 2 \/ n = 3
          BY <1>1, <3>1
        <5>2. CASE n = 1
          BY <1>3, <4>2, <5>2
        <5>3. CASE n = 2
          BY <1>3, <4>2, <5>3
        <5>4. CASE n = 3
          BY <1>3, <4>2, <5>4
        <5>. QED
          BY <5>1, <5>2, <5>3, <5>4
      <4>4. at[n + 1] \in Nat
        BY <1>0, <1>3
      <4>. QED
        BY <1>0, <1>6, <4>3, <4>4
    <3>5. first = CPU!reg_ref_type(operands[1].ref) /\ FirstType(operands) = RegisterType(operands[1].ref)
      BY <1>0, <3>1, <3>2, <3>3, <3>4 DEF FirstType
    <3>. QED
      BY <3>2, <3>5, TypesAgree
  <2>. QED
    BY <2>1
<1>. HIDE DEF first
<1>10. ASSUME NEW k \in 1..n
       PROVE  /\ CPU!IsLiteral(role(k)) <=> operands[k].kind # "reg"
              /\ CPU!FetchSize(role(k), type) = WidthOf(mode[k], operands[k], FirstType(operands))
              /\ mode[k] \notin {"wf", "fw"} => \A other :
                   CPU!Accepts(role(k), IF operands[k].kind = "reg"
                                          THEN CPU!reg_ref_type(operands[k].ref)
                                          ELSE "literal", first, other)
  <2>. DEFINE c == mode[k]
              o == operands[k]
              f == FirstType(operands)
  <2>1. /\ c \in Classes /\ o \in OperandNode /\ f \in DOMAIN Size
        /\ AcceptsOperand(env, c, o, f) /\ (c = "same" => type = f /\ first = f)
    BY <1>4, <1>5, <1>9
  <2>. HIDE DEF c, o, f, type
  <2>2. /\ CPU!IsLiteral(RoleOf(c, o.kind = "reg")) <=> o.kind # "reg"
        /\ CPU!FetchSize(RoleOf(c, o.kind = "reg"), type) = WidthOf(c, o, f)
    BY <2>1, RolesAgree
  <2>3. c \notin {"wf", "fw"} => \A other :
          CPU!Accepts(RoleOf(c, o.kind = "reg"),
                      IF o.kind = "reg" THEN CPU!reg_ref_type(o.ref) ELSE "literal", first, other)
    BY <2>1, RolesAgree
  <2>. QED
    BY <2>2, <2>3 DEF c, o, f
<1>. HIDE DEF type, role
<1>11. FetchPlaces(ins, first, i) = at
  <2>1. \A k \in 1..n : at[k + 1] = at[k] + CPU!FetchSize(ins.roles[k], type)
    BY <1>2, <1>3, <1>10
  <2>2. \A k \in 1..n : at[k + 1] = at[k] + CPU!FetchSize(ins.roles[k],
                                                 IF first = "none" THEN "Byte" ELSE first)
    BY <2>1 DEF type
  <2>3. Consecutive(ins, n, first, i, at)
    BY <1>3, <2>2 DEF Consecutive
  <2>. QED
    BY <1>1, <1>2, <2>3, PlacesFacts
<1>12. \A k \in 1..n : FetchedType(ins, bytes, at, k) =
         IF operands[k].kind = "reg" THEN CPU!reg_ref_type(operands[k].ref) ELSE "literal"
  BY <1>2, <1>6, <1>10 DEF FetchedType
<1>13. \A k \in 1..n : CPU!Accepts(ins.roles[k], FetchedType(ins, bytes, at, k), first,
                                   FetchedType(ins, bytes, at, IF k = 1 THEN n ELSE 1))
  <2>1. ASSUME NEW k \in 1..n, mode[k] \notin {"wf", "fw"}
        PROVE  CPU!Accepts(ins.roles[k], FetchedType(ins, bytes, at, k), first,
                           FetchedType(ins, bytes, at, IF k = 1 THEN n ELSE 1))
    BY <1>2, <1>10, <1>12, <2>1
  <2>2. ASSUME NEW k \in 1..n, mode[k] \in {"wf", "fw"}
        PROVE  CPU!Accepts(ins.roles[k], FetchedType(ins, bytes, at, k), first,
                           FetchedType(ins, bytes, at, IF k = 1 THEN n ELSE 1))
    <3>1. mode = i_WF_WF
      BY <1>1, <2>2, ModesFit
    <3>2. n = 2 /\ AllAccepted(env, i_WF_WF, operands)
      <4>1. AllAccepted(env, mode, operands)
        BY DEF mode, def
      <4>2. Len(i_WF_WF) = 2
        BY DEF i_WF_WF
      <4>. QED
        BY <1>1, <3>1, <4>1, <4>2
    <3>3. /\ operands[1].kind = "reg" /\ operands[2].kind = "reg"
          /\ {CPU!reg_ref_type(operands[1].ref), CPU!reg_ref_type(operands[2].ref)} =
               {"Word", "Float"}
      BY <1>0, <1>4, <3>2, ConversionFits
    <3>4. FetchedType(ins, bytes, at, 1) = CPU!reg_ref_type(operands[1].ref)
          /\ FetchedType(ins, bytes, at, 2) = CPU!reg_ref_type(operands[2].ref)
      BY <1>12, <3>2, <3>3
    <3>5. ins.roles[k] = "conv"
      BY <1>2, <2>2 DEF role, RoleOf
    <3>6. (k = 1 \/ k = 2) /\ (IF k = 1 THEN n ELSE 1) = IF k = 1 THEN 2 ELSE 1
      BY <3>2
    <3>7. {FetchedType(ins, bytes, at, k), FetchedType(ins, bytes, at, IF k = 1 THEN n ELSE 1)}
            = {"Word", "Float"}
      BY <3>3, <3>4, <3>6
    <3>. QED
      BY <3>5, <3>7 DEF CPU!Accepts
  <2>. QED
    BY <2>1, <2>2
<1>14. Fetched(ins, first, bytes, i, at) =
         [op |-> op,
          args |-> [k \in 1..n |-> [literal |-> operands[k].kind # "reg",
                                    bytes |-> SubSeq(bytes, at[k], at[k + 1] - 1)]],
          length |-> at[n + 1] - i]
  <2>1. ~(at[n + 1] > Len(bytes) + 1)
    <3>1. at[n + 1] \in Nat
      BY <1>0, <1>3
    <3>. QED
      BY <1>0, <1>6, <3>1
  <2>2. Fetched(ins, first, bytes, i, at) =
         [op |-> op,
          args |-> [k \in 1..n |-> [literal |-> CPU!IsLiteral(ins.roles[k]),
                                    bytes |-> SubSeq(bytes, at[k], at[k + 1] - 1)]],
          length |-> at[n + 1] - i]
    BY <1>2, <1>13, <2>1 DEF Fetched
  <2>3. \A k \in 1..n : CPU!IsLiteral(ins.roles[k]) = (operands[k].kind # "reg")
    <3>1. \A k \in 1..n : CPU!IsLiteral(ins.roles[k]) \in BOOLEAN
      BY DEF CPU!IsLiteral
    <3>. QED
      BY <1>2, <1>10, <3>1
  <2>. QED
    BY <2>2, <2>3
<1>15. InstructionAs(op, operands, bytes, i, at) =
         [op |-> op,
          args |-> [k \in 1..n |-> [literal |-> operands[k].kind # "reg",
                                    bytes |-> SubSeq(bytes, at[k], at[k + 1] - 1)]],
          length |-> at[n + 1] - i]
  BY Zenon DEF InstructionAs, n
<1>16. InstructionAs(op, operands, bytes, i, at) = Fetched(ins, first, bytes, i, at)
  BY <1>14, <1>15, Zenon
<1>. HIDE DEF ins, first
<1>. QED
  BY <1>0, <1>8, <1>11, <1>16

-----------------------------------------------------------------------------
(***************************************************************************)
(* The bytes the assembler writes, operand by operand.                     *)
(***************************************************************************)

(* The list t goes on from s. *)
Continues(s, t) == Len(s) <= Len(t) /\ \A i \in 1..Len(s) : t[i] = s[i]

(* A list with another appended *)
LEMMA AppendedFacts ==
    ASSUME NEW S, NEW s \in Seq(S), NEW w \in Seq(S)
    PROVE  /\ Continues(s, s \o w) /\ Len(s \o w) = Len(s) + Len(w)
           /\ Len(s) \in Nat /\ Len(w) \in Nat
           /\ \A i \in 1..Len(w) : (s \o w)[Len(s) + i] = w[i]
BY DEF Continues

(* One list goes on from another that goes on from a third. *)
LEMMA ContinuesOn ==
    ASSUME NEW s, NEW t, NEW u, Len(s) \in Nat, Len(t) \in Nat, Len(u) \in Nat,
           Continues(s, t), Continues(t, u)
    PROVE  Continues(s, u)
<1>1. ASSUME NEW i \in 1..Len(s) PROVE u[i] = s[i]
  <2>1. i \in 1..Len(t) /\ t[i] = s[i]
    BY DEF Continues
  <2>. QED
    BY <2>1 DEF Continues
<1>2. Len(s) <= Len(u)
  BY DEF Continues
<1>. QED
  BY <1>1, <1>2 DEF Continues

(* The bytes the assembler writes for an operand *)
Encoded(env, class, o, first) ==
    CASE o.kind = "reg" -> <<o.ref>>
      [] o.kind = "name" -> Zeros(4)
      [] OTHER -> BE(Literal(env.data, o).value, Size[LiteralType(class, first)])

(* They are bytes, as many as the width says. *)
LEMMA WrittenFacts ==
    ASSUME NEW env, Environments(env), NEW class \in Classes, NEW o \in OperandNode,
           NEW first \in DOMAIN Size, AcceptsOperand(env, class, o, first)
    PROVE  /\ Encoded(env, class, o, first) \in Bytes
           /\ Len(Encoded(env, class, o, first)) = WidthOf(class, o, first)
           /\ WidthOf(class, o, first) \in {1, 2, 4}
<1>0. o.kind \in {"reg", "name", "lit", "sizeof"}
  BY DEF OperandNode, LiteralNode
<1>1. CASE o.kind = "reg"
  <2>1. o.ref \in 0..255
    BY <1>1, RegisterFacts
  <2>2. Encoded(env, class, o, first) = <<o.ref>> /\ WidthOf(class, o, first) = 1
    BY <1>1 DEF Encoded, WidthOf
  <2>. QED
    BY <2>1, <2>2 DEF Bytes
<1>2. CASE o.kind = "name"
  <2>1. Encoded(env, class, o, first) = Zeros(4) /\ WidthOf(class, o, first) = 4
    BY <1>2 DEF Encoded, WidthOf
  <2>3. Zeros(4) \in Bytes
    BY ZeroFacts
  <2>2. Zeros(4) \in Bytes /\ Len(Zeros(4)) = 4
    BY <2>3 DEF Zeros
  <2>. QED
    BY <2>1, <2>2
<1>3. CASE o.kind \in {"lit", "sizeof"}
  <2>. DEFINE v == Literal(env.data, o).value
              z == Size[LiteralType(class, first)]
  <2>1. v \in Int
    <3>1. o \in LiteralNode /\ Known(env.data, o)
      BY <1>3, AcceptsFacts DEF IsLiteral
    <3>. QED
      BY <3>1, LiteralFacts DEF Environments
  <2>2. z \in {1, 2, 4}
    BY DEF LiteralType, Size
  <2>3. Encoded(env, class, o, first) = BE(v, z) /\ WidthOf(class, o, first) = z
    BY <1>3 DEF Encoded, WidthOf
  <2>. HIDE DEF v, z
  <2>5. BE(v, z) \in Bytes
    BY <2>1, <2>2, BytesOfNumber
  <2>4. BE(v, z) \in Bytes /\ Len(BE(v, z)) = z
    BY <2>2, <2>5 DEF BE
  <2>. QED
    BY <2>2, <2>3, <2>4
<1>. QED
  BY <1>0, <1>1, <1>2, <1>3

(* An operand that is not refused *)
LEMMA AddOperandWrites ==
    ASSUME NEW env, Environments(env), NEW class \in Classes, NEW o \in OperandNode,
           NEW first \in DOMAIN Size, NEW st \in Generator,
           AddOperand(env, class, o, first, st).ok
    PROVE  LET t == AddOperand(env, class, o, first, st)
           IN  /\ st.ok /\ AcceptsOperand(env, class, o, first)
               /\ t.code = st.code \o Encoded(env, class, o, first)
               /\ t.refs = IF o.kind = "name"
                             THEN Append(st.refs, [name |-> o.name, at |-> Len(st.code)])
                             ELSE st.refs
<1>. DEFINE t == AddOperand(env, class, o, first, st)
            ok == AcceptsOperand(env, class, o, first)
            W == Encoded(env, class, o, first)
            r == Append(st.refs, [name |-> o.name, at |-> Len(st.code)])
            Named == [st EXCEPT !.refs = Append(@, [name |-> o.name, at |-> Len(st.code)]),
                                !.code = @ \o Zeros(4), !.ok = ok]
            Register == [st EXCEPT !.code = Append(@, o.ref)]
            Number == [st EXCEPT !.code = @ \o BE(Literal(env.data, o).value,
                                                 Size[LiteralType(class, first)])]
            Rejected == [st EXCEPT !.ok = FALSE,
                           !.panic = IsLiteral(o) /\ class = "word" /\ ~Known(env.data, o)]
<1>0. o.kind \in {"reg", "name", "lit", "sizeof"} /\ ok \in BOOLEAN
  BY AcceptsFacts DEF OperandNode, LiteralNode
<1>1. t = IF ~st.ok THEN st ELSE
          CASE o.kind = "name" -> Named
            [] o.kind = "reg" /\ ok -> Register
            [] IsLiteral(o) /\ ok -> Number
            [] OTHER -> Rejected
  BY DEF AddOperand
<1>2. st \in [code : Bytes, refs : Seq(Reference), starts : Seq(Nat), ok : BOOLEAN,
              failed : BOOLEAN, panic : BOOLEAN]
  BY DEF Generator
<1>3. Named.ok = ok /\ Named.code = st.code \o Zeros(4) /\ Named.refs = r
  BY <1>2
<1>4. Register.code = Append(st.code, o.ref) /\ Register.refs = st.refs
  BY <1>2
<1>5. Number.code = st.code \o BE(Literal(env.data, o).value, Size[LiteralType(class, first)])
      /\ Number.refs = st.refs
  BY <1>2
<1>6. Rejected.ok = FALSE
  BY <1>2
<1>7. t.ok
  OBVIOUS
<1>. HIDE DEF ok, t, Named, Register, Number, Rejected, r
<1>8. st.ok
  BY <1>1, <1>7
<1>9. CASE o.kind = "name"
  <2>1. t = Named
    BY <1>1, <1>8, <1>9 DEF IsLiteral
  <2>2. W = Zeros(4)
    BY <1>9 DEF Encoded
  <2>. QED
    BY <1>3, <1>7, <1>8, <1>9, <2>1, <2>2 DEF t, r, ok
<1>10. CASE o.kind = "reg"
  <2>1. t = Register /\ ok
    <3>1. ~IsLiteral(o)
      BY <1>10 DEF IsLiteral
    <3>. QED
      BY <1>1, <1>6, <1>7, <1>8, <1>10, <3>1
  <2>2. W = <<o.ref>>
    BY <1>10 DEF Encoded
  <2>3. Append(st.code, o.ref) = st.code \o <<o.ref>>
    <3>. DEFINE s == st.code
    <3>1. s \in Seq(0..255) /\ o.ref \in 0..255
      <4>1. st.code \in Bytes
        BY GeneratorFacts
      <4>2. o.ref \in 0..37
        BY <1>10, RegisterFacts
      <4>. QED
        BY <4>1, <4>2 DEF Bytes
    <3>. HIDE DEF s
    <3>2. Append(s, o.ref) = s \o <<o.ref>>
      BY <3>1
    <3>. QED
      BY <3>2 DEF s
  <2>. QED
    BY <1>4, <1>8, <1>10, <2>1, <2>2, <2>3 DEF t, ok
<1>11. CASE o.kind \in {"lit", "sizeof"}
  <2>1. t = Number /\ ok
    <3>1. IsLiteral(o)
      BY <1>11 DEF IsLiteral
    <3>. QED
      BY <1>1, <1>6, <1>7, <1>8, <1>11, <3>1
  <2>2. W = BE(Literal(env.data, o).value, Size[LiteralType(class, first)])
    BY <1>11 DEF Encoded
  <2>. QED
    BY <1>5, <1>8, <1>11, <2>1, <2>2 DEF t, ok
<1>. QED
  BY <1>0, <1>9, <1>10, <1>11

(* The bytes of the first m operands are at their places in the code. *)
CodeHas(env, mode, operands, m, code, at) ==
    \A k \in 1..m : \A b \in 1..WidthOf(mode[k], operands[k], FirstType(operands)) :
       code[at[k] + b - 1] = Encoded(env, mode[k], operands[k], FirstType(operands))[b]

(* There is a reference for every symbol among them, and no other is added *)
RefTo(operands, at, k) == [name |-> operands[k].name, at |-> at[k] - 1]
Refers(operands, m, old, new, at) ==
    /\ Continues(old, new)
    /\ \A k \in 1..m : operands[k].kind = "name" =>
          \E r \in 1..Len(new) : new[r] = RefTo(operands, at, k)
    /\ \A r \in 1..Len(new) : r \in 1..Len(old) \/
          \E k \in 1..m : operands[k].kind = "name" /\ new[r] = RefTo(operands, at, k)

(* One reference more *)
LEMMA RefersOn ==
    ASSUME NEW S, NEW operands, NEW m \in Nat, NEW old, NEW new \in Seq(S), NEW at, Len(old) \in Nat,
           Refers(operands, m, old, new, at), NEW next,
           next = IF operands[m + 1].kind = "name" THEN Append(new, RefTo(operands, at, m + 1)) ELSE new
    PROVE  Refers(operands, m + 1, old, next, at)
<1>0. Len(new) \in Nat /\ DOMAIN new = 1..Len(new) /\ \A k \in 1..(m + 1) : k \in 1..m \/ k = m + 1
  OBVIOUS
<1>1. CASE operands[m + 1].kind # "name"
  BY <1>0, <1>1 DEF Refers
<1>2. CASE operands[m + 1].kind = "name"
  <2>. DEFINE x == RefTo(operands, at, m + 1)
              l == Len(new)
  <2>1. next = Append(new, x)
    BY <1>2
  <2>. HIDE DEF x
  <2>2. Len(next) = l + 1 /\ next[l + 1] = x /\ \A r \in 1..l : next[r] = new[r]
    BY <2>1
  <2>3. \A r \in 1..(l + 1) : r \in 1..l \/ r = l + 1
    BY <1>0
  <2>. HIDE DEF l
  <2>4. l = Len(new) /\ l \in Nat /\ l + 1 \in 1..(l + 1) /\ \A r \in 1..l : r \in 1..(l + 1)
    BY <1>0 DEF l
  <2>5. Continues(old, next)
    BY <2>2, <2>4 DEF Refers, Continues
  <2>6. ASSUME NEW k \in 1..(m + 1), operands[k].kind = "name"
        PROVE  \E r \in 1..Len(next) : next[r] = RefTo(operands, at, k)
    <3>1. CASE k \in 1..m
      <4>1. PICK r \in 1..l : new[r] = RefTo(operands, at, k)
        BY <2>4, <2>6, <3>1 DEF Refers
      <4>. QED
        BY <2>2, <2>4, <4>1
    <3>2. CASE k = m + 1
      BY <2>2, <2>4, <3>2 DEF x
    <3>. QED
      BY <1>0, <3>1, <3>2
  <2>7. ASSUME NEW r \in 1..Len(next)
        PROVE  r \in 1..Len(old) \/
               \E k \in 1..(m + 1) : operands[k].kind = "name" /\ next[r] = RefTo(operands, at, k)
    <3>1. CASE r \in 1..l
      <4>1. next[r] = new[r] /\ \A k \in 1..m : k \in 1..(m + 1)
        BY <2>2, <3>1
      <4>. QED
        BY <2>4, <3>1, <4>1 DEF Refers
    <3>2. CASE r = l + 1
      <4>1. m + 1 \in 1..(m + 1)
        OBVIOUS
      <4>. QED
        BY <1>2, <2>2, <3>2, <4>1 DEF x
    <3>. QED
      BY <2>2, <2>3, <3>1, <3>2
  <2>. QED
    BY <2>5, <2>6, <2>7 DEF Refers
<1>. QED
  BY <1>1, <1>2

(* The operands of an instruction that is not refused *)
OperandsThere(env, mode, operands, st, t, at) ==
    /\ st.ok /\ AllAccepted(env, mode, operands)
    /\ PlacesOf(mode, operands, Len(st.code), at)
    /\ at[Len(mode) + 1] = Len(t.code) + 1
    /\ Continues(st.code, t.code)
    /\ CodeHas(env, mode, operands, Len(mode), t.code, at)
    /\ Refers(operands, Len(mode), st.refs, t.refs, at)

(* The operands of an accepted instruction are written one after the other. *)
LEMMA OperandsWrite ==
    ASSUME NEW env, Environments(env), NEW mode \in Seq(Classes), NEW operands \in Seq(OperandNode),
           Len(operands) = Len(mode), NEW st \in Generator,
           Operands(env, mode, operands, st).ok
    PROVE  \E at : OperandsThere(env, mode, operands, st, Operands(env, mode, operands, st), at)
<1>. DEFINE n == Len(operands)
            first == FirstType(operands)
            f == OperandsUpTo(env, mode, operands, st)
            at == [k \in 1..(n + 1) |-> Len(f[k - 1].code) + 1]
            W(k) == Encoded(env, mode[k], operands[k], first)
            Width(k) == WidthOf(mode[k], operands[k], first)
            Good(m) == /\ st.ok
                       /\ Continues(st.code, f[m].code)
                       /\ \A k \in 1..m : AcceptsOperand(env, mode[k], operands[k], first)
                                          /\ at[k + 1] = at[k] + Width(k)
                                          /\ at[k + 1] <= Len(f[m].code) + 1
                       /\ CodeHas(env, mode, operands, m, f[m].code, at)
                       /\ Refers(operands, m, st.refs, f[m].refs, at)
            T == {m \in 0..n : f[m].ok => Good(m)}
<1>1. n \in Nat /\ \A k \in 1..n : mode[k] \in Classes /\ operands[k] \in OperandNode
  OBVIOUS
<1>2. first \in DOMAIN Size
  BY FirstTypeFacts
<1>3. /\ Operands(env, mode, operands, st) = f[n]
      /\ \A k \in 0..n :
           /\ f[k] \in Generator
           /\ f[k] = IF k = 0 THEN st ELSE AddOperand(env, mode[k], operands[k], first, f[k - 1])
  <2>1. OneByOne(env, mode, operands, st)
    BY OperandsFacts
  <2>. QED
    BY <2>1 DEF OneByOne
<1>. HIDE DEF f, first, n
<1>4. /\ at \in [1..(n + 1) -> Nat]
      /\ \A k \in 1..(n + 1) : at[k] = Len(f[k - 1].code) + 1
  <2>1. ASSUME NEW k \in 1..(n + 1) PROVE Len(f[k - 1].code) + 1 \in Nat
    <3>1. k - 1 \in 0..n
      BY <1>1
    <3>2. Len(f[k - 1].code) \in Nat
      BY <1>3, <3>1, GeneratorFacts
    <3>. QED
      BY <3>2
  <2>. QED
    BY <2>1
<1>. HIDE DEF at
<1>5. 0 \in T
  <2>1. f[0] = st /\ 0 \in 0..n
    BY <1>1, <1>3
  <2>2. Continues(st.code, st.code) /\ Continues(st.refs, st.refs)
        /\ Len(st.code) \in Nat /\ Len(st.refs) \in Nat
    BY GeneratorFacts DEF Continues
  <2>3. CodeHas(env, mode, operands, 0, st.code, at) /\ Refers(operands, 0, st.refs, st.refs, at)
    BY <2>2 DEF CodeHas, Refers
  <2>4. \A k \in 1..0 : FALSE
    OBVIOUS
  <2>. QED
    BY <2>1, <2>2, <2>3, <2>4
<1>6. ASSUME NEW m \in 0..(n - 1), m \in T PROVE m + 1 \in T
  <2>1. m + 1 \in 1..n /\ m + 1 \in 0..n /\ (m + 1) - 1 = m /\ m + 1 # 0 /\ m \in 0..n /\ m \in Nat
        /\ m + 1 \in 1..(n + 1) /\ m + 2 \in 1..(n + 1) /\ (m + 1) + 1 = m + 2 /\ (m + 2) - 1 = m + 1
        /\ \A k \in 1..(m + 1) : k \in 1..m \/ k = m + 1
    BY <1>1
  <2>4. \A k \in 1..m : /\ k \in 1..n /\ k \in 1..(n + 1) /\ k + 1 \in 1..(n + 1)
                         /\ k - 1 \in 0..n
    BY <1>1
  <2>2. f[m + 1] = AddOperand(env, mode[m + 1], operands[m + 1], first, f[m])
        /\ f[m] \in Generator /\ f[m + 1] \in Generator
    BY <1>3, <2>1
  <2>3. ASSUME f[m + 1].ok PROVE Good(m + 1)
    <3>. DEFINE o == operands[m + 1]
                w == W(m + 1)
                c == f[m].code
                d == f[m + 1].code
    <3>1. /\ f[m].ok /\ AcceptsOperand(env, mode[m + 1], o, first)
          /\ d = c \o w
          /\ f[m + 1].refs = IF o.kind = "name"
                               THEN Append(f[m].refs, [name |-> o.name, at |-> Len(c)])
                               ELSE f[m].refs
      <4>. DEFINE class == mode[m + 1]
                  s == f[m]
                  u == f[m + 1]
      <4>1. /\ class \in Classes /\ o \in OperandNode /\ s \in Generator /\ u.ok
            /\ u = AddOperand(env, class, o, first, s)
        BY <1>1, <2>1, <2>2, <2>3
      <4>2. w = Encoded(env, class, o, first)
        OBVIOUS
      <4>. HIDE DEF class, o, s, u, w
      <4>3. /\ s.ok /\ AcceptsOperand(env, class, o, first)
            /\ u.code = s.code \o w
            /\ u.refs = IF o.kind = "name"
                          THEN Append(s.refs, [name |-> o.name, at |-> Len(s.code)])
                          ELSE s.refs
        BY <1>2, <4>1, <4>2, AddOperandWrites
      <4>. QED
        BY <4>3 DEF class, s, u
    <3>2. Good(m)
      BY <1>6, <3>1
    <3>3. w \in Bytes /\ Len(w) = Width(m + 1) /\ Width(m + 1) \in {1, 2, 4}
      BY <1>1, <1>2, <2>1, <3>1, WrittenFacts
    <3>4. /\ Continues(c, d) /\ Len(d) = Len(c) + Len(w) /\ Len(c) \in Nat
          /\ \A i \in 1..Len(w) : d[Len(c) + i] = w[i]
      <4>1. c \in Seq(0..255) /\ w \in Seq(0..255)
        BY <2>2, <3>3, GeneratorFacts DEF Bytes
      <4>. DEFINE B == 0..255
      <4>. HIDE DEF c, d, w, B
      <4>2. d = c \o w /\ c \in Seq(B) /\ w \in Seq(B)
        BY <3>1, <4>1 DEF B, c, d, w
      <4>. QED
        BY <4>2, AppendedFacts
    <3>5. at[m + 1] = Len(c) + 1 /\ at[m + 2] = Len(d) + 1
      BY <1>4, <2>1
    <3>6. at[(m + 1) + 1] = at[m + 1] + Width(m + 1)
      <4>. HIDE DEF w, Width, c, d
      <4>. QED
        BY <2>1, <3>3, <3>4, <3>5
    <3>7. Continues(st.code, d)
      <4>1. Len(st.code) \in Nat /\ Len(c) \in Nat /\ Len(d) \in Nat
        BY <2>2, GeneratorFacts
      <4>. QED
        BY <3>2, <3>4, <4>1, ContinuesOn
    <3>8. CodeHas(env, mode, operands, m + 1, d, at)
      <4>1. ASSUME NEW k \in 1..(m + 1), NEW b \in 1..Width(k)
            PROVE  d[at[k] + b - 1] = W(k)[b]
        <5>1. CASE k \in 1..m
          <6>1. c[at[k] + b - 1] = W(k)[b]
            BY <3>2, <5>1 DEF CodeHas, first
          <6>2. at[k] + b - 1 \in 1..Len(c)
            <7>. DEFINE v == Width(k)
                        l == Len(c)
            <7>1. at[k + 1] = at[k] + v /\ at[k + 1] <= l + 1
              BY <3>2, <5>1
            <7>2. v \in {1, 2, 4}
              <8>1. AcceptsOperand(env, mode[k], operands[k], first) /\ k \in 1..n
                BY <2>4, <3>2, <5>1
              <8>. QED
                BY <1>1, <1>2, <8>1, WrittenFacts
            <7>3. at[k] \in Nat /\ at[k] >= 1 /\ l \in Nat
              <8>1. k \in 1..(n + 1) /\ k - 1 \in 0..n
                BY <2>4, <5>1
              <8>2. at[k] = Len(f[k - 1].code) + 1 /\ Len(f[k - 1].code) \in Nat
                BY <1>3, <1>4, <8>1, GeneratorFacts
              <8>. QED
                BY <3>4, <8>2
            <7>4. b \in 1..v
              OBVIOUS
            <7>. HIDE DEF v, l
            <7>5. at[k] + b - 1 \in 1..l
              BY <7>1, <7>2, <7>3, <7>4
            <7>. QED
              BY <7>5 DEF l
          <6>. QED
            BY <3>4, <6>1, <6>2 DEF Continues
        <5>2. CASE k = m + 1
          <6>1. b \in 1..Len(w) /\ d[Len(c) + b] = w[b] /\ w = W(k)
            BY <3>3, <3>4, <5>2
          <6>2. at[k] + b - 1 = Len(c) + b
            <7>. DEFINE l == Len(c)
            <7>1. at[k] = l + 1 /\ l \in Nat /\ b \in Int
              BY <3>4, <3>5, <5>2
            <7>. HIDE DEF l
            <7>2. at[k] + b - 1 = l + b
              BY <7>1
            <7>. QED
              BY <7>2 DEF l
          <6>. QED
            BY <6>1, <6>2
        <5>. QED
          BY <2>1, <5>1, <5>2
      <4>. QED
        BY <4>1 DEF CodeHas, first
    <3>9. Refers(operands, m + 1, st.refs, f[m + 1].refs, at)
      <4>1. [name |-> o.name, at |-> Len(c)] = RefTo(operands, at, m + 1)
        BY <3>4, <3>5 DEF RefTo
      <4>2. f[m].refs \in Seq(Reference) /\ Len(st.refs) \in Nat
        BY <2>2, GeneratorFacts
      <4>3. f[m + 1].refs = IF operands[m + 1].kind = "name"
                              THEN Append(f[m].refs, RefTo(operands, at, m + 1)) ELSE f[m].refs
        BY <3>1, <4>1
      <4>. QED
        BY <2>1, <3>2, <4>2, <4>3, RefersOn
    <3>10. ASSUME NEW k \in 1..(m + 1)
           PROVE  /\ AcceptsOperand(env, mode[k], operands[k], first)
                  /\ at[k + 1] = at[k] + Width(k) /\ at[k + 1] <= Len(d) + 1
      <4>1. CASE k \in 1..m
        <5>1. AcceptsOperand(env, mode[k], operands[k], first) /\ at[k + 1] = at[k] + Width(k)
              /\ at[k + 1] <= Len(c) + 1
          BY <3>2, <4>1
        <5>2. Len(c) <= Len(d) /\ at[k + 1] \in Nat /\ Len(d) \in Nat /\ Len(c) \in Nat
          <6>1. k + 1 \in 1..(n + 1)
            BY <2>4, <4>1
          <6>2. Len(d) \in Nat
            BY <2>2, GeneratorFacts
          <6>. QED
            BY <1>4, <3>4, <6>1, <6>2 DEF Continues
        <5>. HIDE DEF c, d, Width
        <5>. QED
          BY <5>1, <5>2
      <4>2. CASE k = m + 1
        <5>1. Len(d) + 1 \in Nat
          BY <2>2, GeneratorFacts
        <5>2. at[k + 1] = Len(d) + 1
          BY <2>1, <3>5, <4>2
        <5>3. at[k + 1] <= Len(d) + 1
          <6>. DEFINE l == Len(d) + 1
          <6>. HIDE DEF l
          <6>. QED
            BY <5>1, <5>2 DEF l
        <5>. HIDE DEF d, Width
        <5>. QED
          BY <3>1, <3>6, <4>2, <5>3
      <4>. QED
        BY <2>1, <4>1, <4>2
    <3>. QED
      BY <3>2, <3>7, <3>8, <3>9, <3>10
  <2>. QED
    BY <2>1, <2>3
<1>. HIDE DEF T
<1>7. \A m \in 0..n : m \in T
  BY <1>1, <1>5, <1>6, InductionTo
<1>8. Good(n)
  <2>1. n \in 0..n
    BY <1>1
  <2>. QED
    BY <1>3, <1>7, <2>1 DEF T
<1>9. OperandsThere(env, mode, operands, st, f[n], at)
  <2>1. n = Len(mode) /\ n = Len(operands)
    BY DEF n
  <2>2. at[1] = Len(st.code) + 1 /\ at[n + 1] = Len(f[n].code) + 1
    <3>1. 1 \in 1..(n + 1) /\ n + 1 \in 1..(n + 1) /\ (n + 1) - 1 = n /\ 1 - 1 = 0 /\ 0 \in 0..n
      BY <1>1
    <3>. QED
      BY <1>3, <1>4, <3>1
  <2>3. PlacesOf(mode, operands, Len(st.code), at)
    BY <1>4, <1>8, <2>1, <2>2 DEF PlacesOf, first
  <2>4. AllAccepted(env, mode, operands)
    BY <1>8, <2>1 DEF AllAccepted, first
  <2>. QED
    BY <1>8, <2>1, <2>2, <2>3, <2>4 DEF OperandsThere
<1>. QED
  BY <1>3, <1>9

(* Places grow with the operands. *)
LEMMA PlacesGrow ==
    ASSUME NEW env, Environments(env), NEW mode \in Seq(Classes), Len(mode) \in 0..3,
           NEW operands \in Seq(OperandNode), Len(operands) = Len(mode),
           AllAccepted(env, mode, operands),
           NEW i \in Nat, NEW at, PlacesOf(mode, operands, i, at)
    PROVE  \A k \in 1..Len(mode) :
              /\ at[k] \in Nat /\ i + 1 <= at[k]
              /\ at[k] + WidthOf(mode[k], operands[k], FirstType(operands)) <= at[Len(mode) + 1]
              /\ WidthOf(mode[k], operands[k], FirstType(operands)) \in {1, 2, 4}
<1>. DEFINE n == Len(mode)
            W(k) == WidthOf(mode[k], operands[k], FirstType(operands))
<1>1. \A k \in 1..n : W(k) \in {1, 2, 4}
  <2>1. FirstType(operands) \in DOMAIN Size
    BY FirstTypeFacts
  <2>2. \A k \in 1..n : /\ mode[k] \in Classes /\ operands[k] \in OperandNode
                        /\ AcceptsOperand(env, mode[k], operands[k], FirstType(operands))
    BY DEF AllAccepted
  <2>. QED
    BY <2>1, <2>2, WrittenFacts
<1>2. /\ at \in [1..(n + 1) -> Nat] /\ at[1] = i + 1 /\ n \in 0..3
      /\ \A k \in 1..n : at[k + 1] = at[k] + W(k)
  BY DEF PlacesOf
<1>. HIDE DEF n, W
<1>3. \A k \in 1..n : at[k] \in Nat /\ at[k + 1] \in Nat /\ at[k] <= at[k + 1]
  <2>1. ASSUME NEW k \in 1..n PROVE at[k] \in Nat /\ at[k + 1] \in Nat /\ at[k] <= at[k + 1]
    <3>. DEFINE w == W(k)
    <3>1. at[k + 1] = at[k] + w /\ w \in {1, 2, 4} /\ at[k] \in Nat
      BY <1>1, <1>2
    <3>. HIDE DEF w
    <3>. QED
      BY <3>1
  <2>. QED
    BY <2>1
<1>4. \A k \in 1..n : i + 1 <= at[k] /\ at[k + 1] <= at[n + 1]
  <2>1. CASE n = 0
    BY <2>1
  <2>2. CASE n = 1
    BY <1>2, <1>3, <2>2
  <2>3. CASE n = 2
    <3>1. at[1] <= at[2] /\ at[2] <= at[3] /\ at[1] \in Nat /\ at[2] \in Nat /\ at[3] \in Nat
      BY <1>3, <2>3
    <3>2. \A k \in 1..n : k = 1 \/ k = 2
      BY <2>3
    <3>. QED
      BY <1>2, <2>3, <3>1, <3>2
  <2>4. CASE n = 3
    <3>1. at[1] <= at[2] /\ at[2] <= at[3] /\ at[3] <= at[4] /\ at[1] \in Nat /\ at[2] \in Nat
          /\ at[3] \in Nat /\ at[4] \in Nat
      BY <1>3, <2>4
    <3>2. \A k \in 1..n : k = 1 \/ k = 2 \/ k = 3
      BY <2>4
    <3>. QED
      BY <1>2, <2>4, <3>1, <3>2
  <2>5. n = 0 \/ n = 1 \/ n = 2 \/ n = 3
    BY <1>2
  <2>. QED
    BY <2>1, <2>2, <2>3, <2>4, <2>5, Zenon
<1>. QED
  BY <1>1, <1>2, <1>3, <1>4 DEF n, W

(* A byte inserted *)
LEMMA InsertedFacts ==
    ASSUME NEW S, NEW s \in Seq(S), NEW e \in S, NEW pos \in 1..(Len(s) + 1)
    PROVE  /\ Len(InsertAt(s, pos, e)) = Len(s) + 1
           /\ \A k \in 1..(Len(s) + 1) :
                InsertAt(s, pos, e)[k] = IF k < pos THEN s[k] ELSE IF k = pos THEN e ELSE s[k - 1]
<1>. DEFINE a == SubSeq(s, 1, pos - 1)
            b == SubSeq(s, pos, Len(s))
            l == Len(s)
            c == a \o <<e>>
<1>1. l \in Nat /\ pos \in 1..(l + 1) /\ pos - 1 \in Nat /\ pos \in Nat \ {0}
  OBVIOUS
<1>2. a \in Seq(S) /\ Len(a) = pos - 1 /\ \A k \in 1..(pos - 1) : a[k] = s[k]
  BY <1>1
<1>3. b \in Seq(S) /\ Len(b) = l - pos + 1 /\ \A k \in 1..(l - pos + 1) : b[k] = s[pos + k - 1]
  BY <1>1
<1>. HIDE DEF a, b, l
<1>4. c \in Seq(S) /\ Len(c) = pos /\ c[pos] = e /\ \A k \in 1..(pos - 1) : c[k] = a[k]
  BY <1>1, <1>2
<1>. HIDE DEF c
<1>5. /\ Len(c \o b) = Len(c) + Len(b)
      /\ \A k \in 1..Len(c) : (c \o b)[k] = c[k]
      /\ \A k \in 1..Len(b) : (c \o b)[Len(c) + k] = b[k]
  <2>1. c \in Seq(S) /\ b \in Seq(S)
    BY <1>3, <1>4
  <2>2. /\ Continues(c, c \o b) /\ Len(c \o b) = Len(c) + Len(b)
        /\ \A i \in 1..Len(b) : (c \o b)[Len(c) + i] = b[i]
    BY <2>1, AppendedFacts
  <2>. QED
    BY <2>2 DEF Continues
<1>6. InsertAt(s, pos, e) = c \o b
  BY DEF InsertAt, a, b, c
<1>7. Len(c \o b) = l + 1
  BY <1>1, <1>3, <1>4, <1>5
<1>8. ASSUME NEW k \in 1..(l + 1)
      PROVE  (c \o b)[k] = IF k < pos THEN s[k] ELSE IF k = pos THEN e ELSE s[k - 1]
  <2>1. CASE k < pos
    <3>1. k \in 1..(pos - 1) /\ k \in 1..Len(c)
      BY <1>1, <1>4, <2>1
    <3>. QED
      BY <1>2, <1>4, <1>5, <2>1, <3>1
  <2>2. CASE k = pos
    <3>1. k \in 1..Len(c)
      BY <1>1, <1>4, <2>2
    <3>. QED
      BY <1>1, <1>4, <1>5, <2>2, <3>1
  <2>3. CASE k > pos
    <3>1. k - pos \in 1..(l - pos + 1) /\ pos + (k - pos) = k /\ pos + (k - pos) - 1 = k - 1
      BY <1>1, <2>3
    <3>2. (c \o b)[k] = b[k - pos] /\ b[k - pos] = s[k - 1]
      BY <1>3, <1>4, <1>5, <3>1
    <3>. QED
      BY <1>1, <2>3, <3>2
  <2>4. k < pos \/ k = pos \/ k > pos
    BY <1>1
  <2>. QED
    BY <2>1, <2>2, <2>3, <2>4
<1>. QED
  BY <1>6, <1>7, <1>8 DEF l

(* An instruction that is not refused *)
InstructionThere(env, op, operands, st, t, at) ==
    LET def == Opcodes[op]
    IN  /\ Len(operands) = Len(def.mode) /\ AllAccepted(env, def.mode, operands)
        /\ PlacesOf(def.mode, operands, Len(st.code) + 1, at)
        /\ at[Len(def.mode) + 1] = Len(t.code) + 1
        /\ t.code[Len(st.code) + 1] = def.opcode + Choice(def.mode, operands)
        /\ Continues(st.code, t.code)
        /\ CodeHas(env, def.mode, operands, Len(def.mode), t.code, at)
        /\ Refers(operands, Len(def.mode), st.refs, t.refs, at)

(* With the opcode before them. *)
LEMMA EmitWrites ==
    ASSUME NEW env, Environments(env), NEW op \in DOMAIN Opcodes,
           NEW operands \in Seq(OperandNode), NEW st \in Generator,
           ~(op = "timer" /\ Len(operands) = 1 /\ operands[1].kind = "name"),
           st.ok, Emit(env, op, Opcodes[op], operands, st).ok
    PROVE  \E at : InstructionThere(env, op, operands, st,
                                    Emit(env, op, Opcodes[op], operands, st), at)
<1>. DEFINE def == Opcodes[op]
            mode == def.mode
            n == Len(mode)
            opcode == def.opcode + Choice(mode, operands)
            pos == Len(st.code) + 1
            t == Operands(env, mode, operands, st)
            st1 == [st EXCEPT !.code = Append(@, 0)]
            t1 == Operands(env, mode, operands, st1)
            place == IF operands[1].kind = "name" THEN pos + 4 ELSE pos
            Short == [st EXCEPT !.ok = FALSE]
            Timer == InsertOpcode(t, place, opcode)
            Other == SetOpcode(t1, pos, opcode)
            u == Emit(env, op, def, operands, st)
<1>1. mode \in Seq(Classes) /\ n \in 0..3
  <2>1. mode \in Modes
    BY OpcodeFacts
  <2>. HIDE DEF mode
  <2>2. mode \in Seq(Classes) /\ Len(mode) <= 3
    BY <2>1, ModeFacts
  <2>3. n \in Nat /\ n <= 3
    BY <2>2, LenProperties
  <2>. HIDE DEF n
  <2>. QED
    BY <2>2, <2>3
<1>2. opcode \in 0..255
  <2>1. Agreement(op, def)
    BY OpcodesAgree
  <2>2. opcode \in 0..109
    <3>. HIDE DEF def
    <3>. QED
      BY <2>1 DEF Agreement
  <2>. HIDE DEF opcode
  <2>. QED
    BY <2>2
<1>3. u = CASE Len(operands) # Len(mode) -> Short
            [] Len(operands) = Len(mode) /\ op = "timer" -> Timer
            [] OTHER -> Other
  BY DEF Emit
<1>4. Len(st.code) \in Nat /\ pos \in Nat \ {0} /\ u.ok
  BY GeneratorFacts
<1>5. st \in [code : Bytes, refs : Seq(Reference), starts : Seq(Nat), ok : BOOLEAN,
              failed : BOOLEAN, panic : BOOLEAN]
  BY DEF Generator
<1>6. op = "timer" => mode = i_w
  BY OpcodeFacts
<1>7. Len(operands) = n
  <2>1. ~Short.ok
    BY <1>5
  <2>. HIDE DEF Short, Timer, Other, u
  <2>. QED
    BY <1>3, <1>4, <2>1
<1>8. CASE op = "timer"
  <2>1. u = Timer
    <3>. HIDE DEF Short, Timer, Other, u
    <3>. QED
      BY <1>3, <1>7, <1>8
  <2>2. n = 1 /\ operands[1].kind # "name" /\ place = pos
    BY <1>6, <1>7, <1>8 DEF i_w
  <2>. HIDE DEF mode, u, pos, opcode
  <2>3. t.ok /\ u = [t EXCEPT !.code = InsertAt(@, pos, opcode)]
    BY <1>4, <2>1, <2>2 DEF InsertOpcode
  <2>. HIDE DEF t
  <2>4. PICK at0 : OperandsThere(env, mode, operands, st, t, at0)
    BY <1>1, <1>7, <2>3, OperandsWrite DEF t
  <2>5. t \in Generator
    BY <1>1, <1>7, OperandsFacts DEF t, GoesOn
  <2>. DEFINE c == t.code
              d == InsertAt(c, pos, opcode)
              at == [k \in 1..2 |-> at0[k] + 1]
              w == WidthOf(mode[1], operands[1], FirstType(operands))
  <2>6. u.code = d /\ u.refs = t.refs
    BY <2>3, <2>5 DEF Generator
  <2>7. /\ Len(d) = Len(c) + 1 /\ Len(c) \in Nat /\ Len(st.code) <= Len(c)
        /\ \A k \in 1..(Len(c) + 1) : d[k] = IF k < pos THEN c[k] ELSE IF k = pos THEN opcode
                                             ELSE c[k - 1]
    <3>1. c \in Seq(0..255) /\ Len(c) \in Nat /\ Len(st.code) <= Len(c)
      BY <2>4, <2>5, GeneratorFacts DEF OperandsThere, Continues, Bytes
    <3>2. pos \in 1..(Len(c) + 1)
      <4>. DEFINE l == Len(c)
      <4>. HIDE DEF l
      <4>. QED
        BY <1>4, <3>1 DEF l, pos
    <3>. DEFINE B == 0..255
    <3>3. c \in Seq(B) /\ opcode \in B
      BY <1>2, <3>1
    <3>. HIDE DEF B, c
    <3>. QED
      BY <3>1, <3>2, <3>3, InsertedFacts
  <2>8. /\ AllAccepted(env, mode, operands) /\ at0 \in [1..2 -> Nat] /\ at0[1] = Len(st.code) + 1
        /\ at0[2] = at0[1] + w /\ at0[2] = Len(c) + 1 /\ w \in {1, 2, 4}
    <3>1. /\ AllAccepted(env, mode, operands) /\ PlacesOf(mode, operands, Len(st.code), at0)
          /\ at0[n + 1] = Len(c) + 1
      BY <2>4 DEF OperandsThere
    <3>2. at0 \in [1..2 -> Nat] /\ at0[1] = Len(st.code) + 1 /\ at0[2] = at0[1] + w
      BY <2>2, <3>1 DEF PlacesOf
    <3>3. w \in {1, 2, 4}
      BY <1>1, <1>4, <1>7, <2>2, <3>1, PlacesGrow
    <3>. QED
      BY <2>2, <3>1, <3>2, <3>3
  <2>. HIDE DEF w, d
  <2>9. at \in [1..2 -> Nat] /\ at[1] = pos + 1 /\ at[2] = at[1] + w /\ at[2] = Len(d) + 1
    <3>1. at0[1] \in Nat /\ at0[2] \in Nat /\ at[1] = at0[1] + 1 /\ at[2] = at0[2] + 1
          /\ at \in [1..2 -> Nat]
      BY <2>8
    <3>2. at0[1] = pos
      BY <2>8 DEF pos
    <3>. HIDE DEF at
    <3>3. Len(d) = Len(c) + 1 /\ Len(c) \in Nat /\ at0[2] = Len(c) + 1 /\ at0[2] = at0[1] + w
          /\ w \in {1, 2, 4}
      BY <2>7, <2>8
    <3>. QED
      BY <3>1, <3>2, <3>3
  <2>. HIDE DEF at
  <2>10. PlacesOf(mode, operands, pos, at)
    BY <1>4, <2>2, <2>9 DEF PlacesOf, w
  <2>11. d[pos] = opcode /\ Continues(st.code, d)
    <3>1. Continues(st.code, c)
      BY <2>4 DEF OperandsThere
    <3>2. \A k \in 1..Len(st.code) : k \in 1..(Len(c) + 1) /\ k < pos
      BY <1>4, <2>7 DEF pos
    <3>3. pos \in 1..(Len(c) + 1) /\ Len(st.code) <= Len(d)
      BY <1>4, <2>7 DEF pos
    <3>. QED
      BY <2>7, <3>1, <3>2, <3>3 DEF Continues
  <2>12. CodeHas(env, mode, operands, 1, d, at)
    <3>1. ASSUME NEW b \in 1..w
          PROVE  d[at[1] + b - 1] = Encoded(env, mode[1], operands[1], FirstType(operands))[b]
      <4>1. c[at0[1] + b - 1] = Encoded(env, mode[1], operands[1], FirstType(operands))[b]
        BY <2>2, <2>4 DEF OperandsThere, CodeHas, w
      <4>2. d[at[1] + b - 1] = c[at0[1] + b - 1]
        <5>1. at[1] + b - 1 = pos + b /\ at0[1] + b - 1 = (pos + b) - 1 /\ pos + b > pos
              /\ pos + b \in 1..(Len(c) + 1)
          <6>1. at0[1] = pos /\ at[1] = pos + 1 /\ pos \in Nat \ {0} /\ Len(c) \in Nat
                /\ pos + w = Len(c) + 1 /\ w \in {1, 2, 4}
            BY <1>4, <2>7, <2>8, <2>9 DEF pos
          <6>. DEFINE l == Len(c)
                      x == at0[1]
                      y == at[1]
          <6>. HIDE DEF c
          <6>2. x = pos /\ y = pos + 1 /\ pos \in Nat \ {0} /\ l \in Nat
                /\ pos + w = l + 1 /\ w \in {1, 2, 4} /\ b \in 1..w
            BY <6>1
          <6>. HIDE DEF l, x, y
          <6>3. y + b - 1 = pos + b /\ x + b - 1 = (pos + b) - 1 /\ pos + b > pos
                /\ pos + b \in 1..(l + 1)
            BY <6>2
          <6>. QED
            BY <6>3 DEF l, x, y
        <5>2. d[pos + b] = c[(pos + b) - 1]
          <6>. DEFINE z == pos + b
          <6>1. z > pos /\ z \in 1..(Len(c) + 1) /\ pos \in Nat /\ z \in Int
            BY <1>4, <5>1
          <6>. HIDE DEF z
          <6>2. d[z] = IF z < pos THEN c[z] ELSE IF z = pos THEN opcode ELSE c[z - 1]
            BY <2>7, <6>1
          <6>3. ~(z < pos) /\ z # pos
            BY <6>1
          <6>. QED
            BY <6>2, <6>3 DEF z
        <5>. QED
          BY <5>1, <5>2
      <4>. QED
        BY <4>1, <4>2
    <3>2. \A k \in 1..1 : k = 1
      OBVIOUS
    <3>. QED
      BY <3>1, <3>2 DEF CodeHas, w
  <2>13. Refers(operands, 1, st.refs, t.refs, at)
    <3>1. Refers(operands, 1, st.refs, t.refs, at0)
      BY <2>2, <2>4 DEF OperandsThere
    <3>2. \A k \in 1..1 : operands[k].kind # "name"
      BY <2>2
    <3>. QED
      BY <3>1, <3>2 DEF Refers
  <2>14. InstructionThere(env, op, operands, st, u, at)
    <3>1. mode = Opcodes[op].mode /\ opcode = Opcodes[op].opcode + Choice(mode, operands)
      BY DEF mode, opcode
    <3>2. /\ Len(operands) = Len(mode) /\ AllAccepted(env, mode, operands)
          /\ PlacesOf(mode, operands, Len(st.code) + 1, at)
          /\ at[Len(mode) + 1] = Len(u.code) + 1
      BY <1>7, <2>2, <2>6, <2>8, <2>9, <2>10 DEF pos
    <3>3. /\ u.code[Len(st.code) + 1] = opcode
          /\ Continues(st.code, u.code)
          /\ CodeHas(env, mode, operands, Len(mode), u.code, at)
          /\ Refers(operands, Len(mode), st.refs, u.refs, at)
      BY <2>2, <2>6, <2>11, <2>12, <2>13 DEF pos
    <3>. QED
      BY <3>1, <3>2, <3>3 DEF InstructionThere
  <2>. QED
    BY <2>14 DEF u
<1>9. CASE op # "timer"
  <2>1. u = Other
    <3>. HIDE DEF Short, Timer, Other, u
    <3>. QED
      BY <1>3, <1>7, <1>9
  <2>2. /\ st1 \in Generator /\ st1.refs = st.refs /\ st1.code = Append(st.code, 0)
    <3>1. Append(st.code, 0) \in Bytes
      BY GeneratorFacts DEF Bytes
    <3>. QED
      BY <1>5, <3>1 DEF Generator
  <2>3. Len(st1.code) = pos /\ Continues(st.code, st1.code)
    <3>. DEFINE c == st.code
    <3>1. c \in Seq(0..255)
      BY GeneratorFacts DEF Bytes
    <3>. HIDE DEF c
    <3>2. Len(Append(c, 0)) = Len(c) + 1 /\ Continues(c, Append(c, 0))
      BY <3>1 DEF Continues
    <3>. QED
      BY <2>2, <3>2 DEF c
  <2>. HIDE DEF mode, u, pos, opcode, st1
  <2>4. t1.ok /\ u = [t1 EXCEPT !.code[pos] = opcode]
    BY <1>4, <2>1 DEF SetOpcode
  <2>. HIDE DEF t1
  <2>5. PICK at : OperandsThere(env, mode, operands, st1, t1, at)
    BY <1>1, <1>7, <2>2, <2>4, OperandsWrite DEF t1
  <2>6. t1 \in Generator
    BY <1>1, <1>7, <2>2, OperandsFacts DEF t1, GoesOn
  <2>. DEFINE c == t1.code
              d == [c EXCEPT ![pos] = opcode]
              w(k) == WidthOf(mode[k], operands[k], FirstType(operands))
  <2>7. u.code = d /\ u.refs = t1.refs
    BY <2>4, <2>6 DEF Generator
  <2>8. /\ AllAccepted(env, mode, operands) /\ PlacesOf(mode, operands, pos, at)
        /\ at[n + 1] = Len(c) + 1 /\ Continues(st1.code, c)
        /\ CodeHas(env, mode, operands, n, c, at) /\ Refers(operands, n, st.refs, t1.refs, at)
    BY <2>2, <2>3, <2>5 DEF OperandsThere
  <2>9. /\ Len(c) \in Nat /\ pos <= Len(c) /\ Len(d) = Len(c) /\ d[pos] = opcode
        /\ \A k \in 1..Len(c) : k # pos => d[k] = c[k]
    <3>1. c \in Seq(0..255) /\ Len(c) \in Nat /\ pos <= Len(c)
      BY <2>3, <2>6, <2>8, GeneratorFacts DEF Bytes, Continues
    <3>. HIDE DEF c
    <3>2. pos \in 1..Len(c) /\ DOMAIN c = 1..Len(c)
      BY <1>4, <3>1
    <3>. QED
      BY <3>1, <3>2
  <2>. HIDE DEF c, d, w
  <2>10. Continues(st.code, d)
    <3>1. Continues(st.code, c)
      BY <1>4, <2>3, <2>8, <2>9, ContinuesOn
    <3>2. \A k \in 1..Len(st.code) : k \in 1..Len(c) /\ k # pos
      BY <1>4, <2>9 DEF pos
    <3>. QED
      BY <2>9, <3>1, <3>2 DEF Continues
  <2>11. CodeHas(env, mode, operands, n, d, at)
    <3>1. ASSUME NEW k \in 1..n, NEW b \in 1..w(k)
          PROVE  d[at[k] + b - 1] = Encoded(env, mode[k], operands[k], FirstType(operands))[b]
      <4>1. /\ at[k] \in Nat /\ pos + 1 <= at[k] /\ at[k] + w(k) <= at[n + 1]
            /\ w(k) \in {1, 2, 4}
        BY <1>1, <1>4, <1>7, <2>8, PlacesGrow DEF w
      <4>. DEFINE x == at[k]
                  y == w(k)
      <4>2. x \in Nat /\ pos + 1 <= x /\ x + y <= Len(c) + 1 /\ y \in {1, 2, 4} /\ b \in 1..y
        BY <2>8, <4>1
      <4>. HIDE DEF x, y
      <4>3. x + b - 1 \in 1..Len(c) /\ x + b - 1 # pos
        BY <1>4, <2>9, <4>2
      <4>4. d[x + b - 1] = c[x + b - 1]
        BY <2>9, <4>3
      <4>5. c[at[k] + b - 1] = Encoded(env, mode[k], operands[k], FirstType(operands))[b]
        BY <2>8 DEF CodeHas, w
      <4>. QED
        BY <4>4, <4>5 DEF x
    <3>. QED
      BY <3>1 DEF CodeHas, w
  <2>12. InstructionThere(env, op, operands, st, u, at)
    <3>1. mode = Opcodes[op].mode /\ opcode = Opcodes[op].opcode + Choice(mode, operands)
      BY DEF mode, opcode
    <3>2. /\ Len(operands) = Len(mode) /\ AllAccepted(env, mode, operands)
          /\ PlacesOf(mode, operands, Len(st.code) + 1, at)
          /\ at[Len(mode) + 1] = Len(u.code) + 1
      BY <1>7, <2>7, <2>8, <2>9 DEF pos
    <3>3. /\ u.code[Len(st.code) + 1] = opcode
          /\ Continues(st.code, u.code)
          /\ CodeHas(env, mode, operands, Len(mode), u.code, at)
          /\ Refers(operands, Len(mode), st.refs, u.refs, at)
      BY <2>7, <2>8, <2>9, <2>10, <2>11 DEF pos
    <3>. QED
      BY <3>1, <3>2, <3>3 DEF InstructionThere
  <2>. QED
    BY <2>12 DEF u
<1>. QED
  BY <1>8, <1>9

(* The operands of an instruction, and whether it is TIMER with a symbol *)
ResolvedOf(env, ins) == [j \in DOMAIN ins.operands |-> Resolve(env, ins.operands[j])]
SymbolTimer(env, ins) ==
    ins.op = "timer" /\ Len(ins.operands) = 1 /\ ResolvedOf(env, ins)[1].kind = "name"

(* Operands stay operands. *)
LEMMA ResolvedOperands ==
    ASSUME NEW env, Environments(env), NEW ins \in InstructionNode
    PROVE  /\ ResolvedOf(env, ins) \in Seq(OperandNode)
           /\ Len(ResolvedOf(env, ins)) = Len(ins.operands)
<1>. DEFINE n == Len(ins.operands)
<1>1. ins.operands \in Seq(OperandNode)
  BY DEF InstructionNode
<1>2. n \in Nat /\ DOMAIN ins.operands = 1..n
  BY <1>1
<1>3. \A k \in 1..n : Resolve(env, ins.operands[k]) \in OperandNode
  BY <1>1, <1>2, OperandResolved
<1>. HIDE DEF n
<1>4. ResolvedOf(env, ins) = [k \in 1..n |-> Resolve(env, ins.operands[k])]
  BY <1>2 DEF ResolvedOf
<1>. QED
  BY <1>2, <1>3, <1>4 DEF n

(* An instruction after which there is no error *)
LEMMA AddInstructionWrites ==
    ASSUME NEW env, Environments(env), NEW ins \in InstructionNode, ~SymbolTimer(env, ins),
           NEW st \in Generator, NEW t, t = AddInstruction(env, ins, st), ~t.failed, ~t.panic
    PROVE  /\ ~st.failed /\ ~st.panic /\ ins.op \in DOMAIN Opcodes
           /\ t.starts = Append(st.starts, Len(st.code))
           /\ \E at : InstructionThere(env, ins.op, ResolvedOf(env, ins), st, t, at)
<1>. DEFINE s == Append(st.starts, Len(st.code))
            st1 == [st EXCEPT !.ok = TRUE, !.starts = s]
            u == Instruction(env, ins, st1)
            ops == ResolvedOf(env, ins)
            op == ins.op
<1>1. ~st.panic
  BY DEF AddInstruction
<1>2. t = NoteFailure(u)
  BY <1>1 DEF AddInstruction
<1>3. s \in Seq(Nat)
  BY GeneratorFacts
<1>. HIDE DEF s
<1>4. /\ st1 \in Generator /\ st1.starts = s /\ st1.ok /\ st1.code = st.code
      /\ st1.refs = st.refs /\ st1.failed = st.failed
  BY <1>3 DEF Generator
<1>. HIDE DEF st1
<1>5. u \in Generator /\ u.starts = s /\ u.failed = st.failed
  <2>1. Preserved(st1, u)
    BY <1>4, InstructionFacts
  <2>. QED
    BY <1>4, <2>1 DEF Preserved
<1>6. t.failed = (u.failed \/ ~u.ok) /\ t.code = u.code /\ t.refs = u.refs /\ t.starts = u.starts
  <2>. DEFINE b == u.failed \/ ~u.ok
  <2>. HIDE DEF u
  <2>1. NoteFailure(u) = [u EXCEPT !.failed = b]
    BY DEF NoteFailure
  <2>. HIDE DEF b
  <2>2. t = [u EXCEPT !.failed = b]
    BY <1>2, <2>1
  <2>3. t.failed = b /\ t.code = u.code /\ t.refs = u.refs /\ t.starts = u.starts
    BY <1>5, <2>2 DEF Generator
  <2>. QED
    BY <2>3 DEF b
<1>7. u.ok /\ ~u.failed
  BY <1>6
<1>8. op \in DOMAIN Opcodes
  <2>1. ASSUME op \notin DOMAIN Opcodes PROVE FALSE
    <3>1. u = [st1 EXCEPT !.ok = FALSE]
      BY <2>1 DEF Instruction
    <3>2. ~u.ok
      BY <1>4, <3>1 DEF Generator
    <3>. QED
      BY <1>7, <3>2
  <2>. QED
    BY <2>1
<1>9. u = Emit(env, op, Opcodes[op], ops, st1)
  BY <1>8 DEF Instruction, ResolvedOf
<1>10. ops \in Seq(OperandNode) /\ Len(ops) = Len(ins.operands)
  BY ResolvedOperands
<1>11. ~(op = "timer" /\ Len(ops) = 1 /\ ops[1].kind = "name")
  BY <1>10 DEF SymbolTimer
<1>. HIDE DEF u, ops, op
<1>12. PICK at : InstructionThere(env, op, ops, st1, u, at)
  <2>1. Emit(env, op, Opcodes[op], ops, st1).ok
    BY <1>7, <1>9
  <2>2. \E at : InstructionThere(env, op, ops, st1, Emit(env, op, Opcodes[op], ops, st1), at)
    BY <1>4, <1>8, <1>10, <1>11, <2>1, EmitWrites
  <2>. QED
    BY <1>9, <2>2
<1>13. InstructionThere(env, op, ops, st, t, at)
  BY <1>4, <1>6, <1>12 DEF InstructionThere
<1>. QED
  BY <1>1, <1>5, <1>6, <1>7, <1>8, <1>13 DEF s, op, ops

-----------------------------------------------------------------------------
(***************************************************************************)
(* Where each instruction of a file is, once the others are written.       *)
(***************************************************************************)

(* The instruction ins lies in the bytes a+1..b of the code of gen, with   *)
(* its operands at the places at; the references in these bytes are those  *)
(* to its symbols.                                                         *)
WrittenAt(env, ins, gen, a, b, at) ==
    LET ops == ResolvedOf(env, ins)
        def == Opcodes[ins.op]
    IN  /\ ins.op \in DOMAIN Opcodes
        /\ Len(ops) = Len(def.mode) /\ AllAccepted(env, def.mode, ops)
        /\ PlacesOf(def.mode, ops, a + 1, at) /\ at[Len(def.mode) + 1] = b + 1
        /\ a \in Nat /\ b \in Nat /\ a < b /\ b <= Len(gen.code)
        /\ gen.code[a + 1] = def.opcode + Choice(def.mode, ops)
        /\ CodeHas(env, def.mode, ops, Len(def.mode), gen.code, at)
        /\ \A k \in 1..Len(def.mode) : ops[k].kind = "name" =>
             \E r \in 1..Len(gen.refs) : gen.refs[r] = RefTo(ops, at, k)
        /\ \A r \in 1..Len(gen.refs) :
             \/ gen.refs[r].at + 4 <= a \/ b <= gen.refs[r].at
             \/ \E k \in 1..Len(def.mode) : ops[k].kind = "name" /\ gen.refs[r] = RefTo(ops, at, k)

(* All references are within the code. *)
Within(gen) == \A r \in 1..Len(gen.refs) : gen.refs[r].at + 4 <= Len(gen.code)

(* Where the four bytes of a reference to a symbol are *)
LEMMA PlaceOfName ==
    ASSUME NEW env, Environments(env), NEW mode \in Seq(Classes), Len(mode) \in 0..3,
           NEW operands \in Seq(OperandNode), Len(operands) = Len(mode),
           AllAccepted(env, mode, operands),
           NEW i \in Nat, NEW at, PlacesOf(mode, operands, i, at),
           NEW k \in 1..Len(mode), operands[k].kind = "name"
    PROVE  LET p == RefTo(operands, at, k).at
           IN  p \in Nat /\ i <= p /\ p + 5 <= at[Len(mode) + 1]
<1>1. /\ at[k] \in Nat /\ i + 1 <= at[k]
      /\ at[k] + WidthOf(mode[k], operands[k], FirstType(operands)) <= at[Len(mode) + 1]
  BY PlacesGrow
<1>2. WidthOf(mode[k], operands[k], FirstType(operands)) = 4
  BY DEF WidthOf
<1>3. at[Len(mode) + 1] \in Nat
  <2>1. at \in [1..(Len(mode) + 1) -> Nat] /\ Len(mode) + 1 \in 1..(Len(mode) + 1)
    BY DEF PlacesOf
  <2>. QED
    BY <2>1
<1>4. RefTo(operands, at, k).at = at[k] - 1
  BY DEF RefTo
<1>. DEFINE p == RefTo(operands, at, k).at
            x == at[k]
            y == at[Len(mode) + 1]
<1>5. x \in Nat /\ y \in Nat /\ p = x - 1 /\ i + 1 <= x /\ x + 4 <= y
  BY <1>1, <1>2, <1>3, <1>4
<1>. HIDE DEF p, x, y
<1>6. p \in Nat /\ i <= p /\ p + 5 <= y
  BY <1>5
<1>. QED
  BY <1>6 DEF p, y

(* The modes of instructions *)
LEMMA ModeOf ==
    ASSUME NEW op \in DOMAIN Opcodes
    PROVE  Opcodes[op].mode \in Seq(Classes) /\ Len(Opcodes[op].mode) \in 0..3
<1>. DEFINE mode == Opcodes[op].mode
            n == Len(mode)
<1>1. mode \in Modes
  BY OpcodeFacts
<1>. HIDE DEF mode
<1>2. mode \in Seq(Classes) /\ Len(mode) <= 3
  BY <1>1, ModeFacts
<1>3. n \in Nat /\ n <= 3
  BY <1>2, LenProperties
<1>. HIDE DEF n
<1>4. n \in 0..3
  BY <1>3
<1>. QED
  BY <1>2, <1>4 DEF n, mode

(* An instruction where the code has ended before *)
LEMMA WrittenFirst ==
    ASSUME NEW env, Environments(env), NEW ins \in InstructionNode, ins.op \in DOMAIN Opcodes,
           NEW st \in Generator, NEW t \in Generator, Within(st), NEW at,
           InstructionThere(env, ins.op, ResolvedOf(env, ins), st, t, at)
    PROVE  Within(t) /\ WrittenAt(env, ins, t, Len(st.code), Len(t.code), at)
<1>. DEFINE ops == ResolvedOf(env, ins)
            mode == Opcodes[ins.op].mode
            n == Len(mode)
            a == Len(st.code)
            b == Len(t.code)
<1>1. mode \in Seq(Classes) /\ n \in 0..3
  BY ModeOf
<1>2. ops \in Seq(OperandNode)
  BY ResolvedOperands
<1>3. /\ Len(ops) = n /\ AllAccepted(env, mode, ops)
      /\ PlacesOf(mode, ops, a + 1, at) /\ at[n + 1] = b + 1
      /\ t.code[a + 1] = Opcodes[ins.op].opcode + Choice(mode, ops)
      /\ CodeHas(env, mode, ops, n, t.code, at)
      /\ Refers(ops, n, st.refs, t.refs, at)
  BY DEF InstructionThere
<1>4. a \in Nat /\ b \in Nat /\ DOMAIN t.refs = 1..Len(t.refs) /\ Len(st.refs) \in Nat
      /\ a <= b
  <2>1. a <= b
    BY DEF InstructionThere, Continues
  <2>. QED
    BY <2>1, GeneratorFacts
<1>5. \A r \in 1..Len(t.refs) : t.refs[r] \in Reference
  BY GeneratorFacts, ElementsOf
<1>. HIDE DEF ops, mode, n, a, b
<1>6. ASSUME NEW r \in 1..Len(t.refs)
      PROVE  /\ t.refs[r].at + 4 <= b
             /\ \/ t.refs[r].at + 4 <= a \/ b <= t.refs[r].at
                \/ \E k \in 1..n : ops[k].kind = "name" /\ t.refs[r] = RefTo(ops, at, k)
  <2>1. CASE r \in 1..Len(st.refs)
    <3>1. t.refs[r] = st.refs[r]
      BY <1>3, <2>1 DEF Refers, Continues
    <3>2. t.refs[r].at + 4 <= a
      BY <2>1, <3>1 DEF Within, a
    <3>3. t.refs[r].at \in Nat
      BY <1>5 DEF Reference
    <3>. QED
      BY <1>4, <3>2, <3>3
  <2>2. CASE r \notin 1..Len(st.refs)
    <3>1. PICK k \in 1..n : ops[k].kind = "name" /\ t.refs[r] = RefTo(ops, at, k)
      BY <1>3, <2>2 DEF Refers
    <3>. DEFINE p == RefTo(ops, at, k).at
    <3>2. a + 1 \in Nat /\ k \in 1..Len(mode)
      BY <1>4, <3>1 DEF n
    <3>3. p \in Nat /\ p + 5 <= at[Len(mode) + 1]
      BY <1>1, <1>2, <1>3, <3>1, <3>2, PlaceOfName DEF n
    <3>4. p + 5 <= b + 1
      BY <1>3, <3>3 DEF n
    <3>. HIDE DEF p
    <3>5. p + 4 <= b
      BY <1>4, <3>3, <3>4
    <3>. QED
      BY <3>1, <3>5 DEF p
  <2>. QED
    BY <2>1, <2>2
<1>7. a < b
  <2>1. at[1] = a + 2 /\ at[1] \in Nat
    <3>1. at \in [1..(n + 1) -> Nat] /\ at[1] = (a + 1) + 1 /\ 1 \in 1..(n + 1)
      BY <1>1, <1>3 DEF PlacesOf, n
    <3>. QED
      BY <1>4, <3>1
  <2>2. at[1] <= at[n + 1]
    <3>1. CASE n = 0
      BY <2>1, <3>1
    <3>2. CASE n # 0
      <4>1. 1 \in 1..n /\ a + 1 \in Nat /\ Len(mode) \in 0..3
        BY <1>1, <1>4, <3>2 DEF n
      <4>2. at[1] + WidthOf(mode[1], ops[1], FirstType(ops)) <= at[n + 1]
            /\ WidthOf(mode[1], ops[1], FirstType(ops)) \in {1, 2, 4}
        BY <1>1, <1>2, <1>3, <4>1, PlacesGrow DEF n
      <4>. DEFINE w == WidthOf(mode[1], ops[1], FirstType(ops))
                  x == at[1]
                  y == at[n + 1]
      <4>3. x + w <= y /\ w \in {1, 2, 4} /\ x \in Nat /\ y \in Nat
        BY <1>3, <1>4, <2>1, <4>2
      <4>. HIDE DEF w, x, y
      <4>4. x <= y
        BY <4>3
      <4>. QED
        BY <4>4 DEF x, y
    <3>. QED
      BY <3>1, <3>2
  <2>. QED
    BY <1>3, <1>4, <2>1, <2>2
<1>8. \A k \in 1..n : ops[k].kind = "name" => \E r \in 1..Len(t.refs) : t.refs[r] = RefTo(ops, at, k)
  BY <1>3 DEF Refers
<1>9. Within(t)
  BY <1>6 DEF Within, b
<1>10. b <= Len(t.code)
  BY <1>4 DEF b
<1>11. WrittenAt(env, ins, t, a, b, at)
  BY <1>3, <1>4, <1>6, <1>7, <1>8, <1>10 DEF WrittenAt, ops, mode, n
<1>. QED
  BY <1>9, <1>11 DEF a, b

(* It stays there when others follow. *)
LEMMA WrittenStays ==
    ASSUME NEW env, Environments(env), NEW ins \in InstructionNode, NEW old \in InstructionNode,
           ins.op \in DOMAIN Opcodes, NEW st \in Generator, NEW t \in Generator, NEW at,
           InstructionThere(env, ins.op, ResolvedOf(env, ins), st, t, at),
           NEW a, NEW b, NEW place, WrittenAt(env, old, st, a, b, place)
    PROVE  WrittenAt(env, old, t, a, b, place)
<1>. DEFINE ops == ResolvedOf(env, old)
            mode == Opcodes[old.op].mode
            n == Len(mode)
            new == ResolvedOf(env, ins)
            modeN == Opcodes[ins.op].mode
            c == st.code
            d == t.code
            l == Len(c)
<1>1. /\ old.op \in DOMAIN Opcodes
      /\ Len(ops) = n /\ AllAccepted(env, mode, ops)
      /\ PlacesOf(mode, ops, a + 1, place) /\ place[n + 1] = b + 1
      /\ a \in Nat /\ b \in Nat /\ a < b /\ b <= l
      /\ c[a + 1] = Opcodes[old.op].opcode + Choice(mode, ops)
      /\ CodeHas(env, mode, ops, n, c, place)
      /\ \A k \in 1..n : ops[k].kind = "name" =>
           \E r \in 1..Len(st.refs) : st.refs[r] = RefTo(ops, place, k)
      /\ \A r \in 1..Len(st.refs) :
           \/ st.refs[r].at + 4 <= a \/ b <= st.refs[r].at
           \/ \E k \in 1..n : ops[k].kind = "name" /\ st.refs[r] = RefTo(ops, place, k)
  BY DEF WrittenAt
<1>2. /\ mode \in Seq(Classes) /\ n \in 0..3 /\ modeN \in Seq(Classes) /\ Len(modeN) \in 0..3
  BY <1>1, ModeOf
<1>3. ops \in Seq(OperandNode) /\ new \in Seq(OperandNode)
  BY ResolvedOperands
<1>4. l \in Nat /\ Len(d) \in Nat /\ Len(st.refs) \in Nat
  BY GeneratorFacts
<1>5. /\ Len(new) = Len(modeN) /\ AllAccepted(env, modeN, new)
      /\ PlacesOf(modeN, new, l + 1, at)
      /\ Continues(c, d) /\ Refers(new, Len(modeN), st.refs, t.refs, at)
  BY DEF InstructionThere
<1>. HIDE DEF ops, mode, n, new, modeN, c, d, l
<1>6. l <= Len(d) /\ \A i \in 1..l : d[i] = c[i]
  BY <1>5 DEF Continues, l
<1>7. d[a + 1] = c[a + 1] /\ b <= Len(d)
  <2>1. a \in Nat /\ b \in Nat /\ a < b /\ b <= l
    BY <1>1
  <2>2. a + 1 \in 1..l /\ b <= Len(d)
    BY <1>4, <1>6, <2>1
  <2>. QED
    BY <1>6, <2>2
<1>8. CodeHas(env, mode, ops, n, d, place)
  <2>. DEFINE W(k) == WidthOf(mode[k], ops[k], FirstType(ops))
  <2>1. ASSUME NEW k \in 1..n, NEW x \in 1..W(k)
        PROVE  d[place[k] + x - 1] = Encoded(env, mode[k], ops[k], FirstType(ops))[x]
    <3>1. /\ place[k] \in Nat /\ (a + 1) + 1 <= place[k] /\ place[k] + W(k) <= b + 1
          /\ W(k) \in {1, 2, 4}
      <4>1. a + 1 \in Nat /\ k \in 1..Len(mode) /\ Len(mode) \in 0..3
        <5>1. a \in Nat
          BY <1>1
        <5>2. k \in 1..Len(mode) /\ Len(mode) \in 0..3
          BY <1>2 DEF n
        <5>. QED
          BY <5>1, <5>2
      <4>2. /\ mode \in Seq(Classes) /\ ops \in Seq(OperandNode) /\ Len(ops) = Len(mode)
            /\ AllAccepted(env, mode, ops) /\ PlacesOf(mode, ops, a + 1, place)
        BY <1>1, <1>2, <1>3 DEF n
      <4>3. /\ place[k] \in Nat /\ (a + 1) + 1 <= place[k]
            /\ place[k] + W(k) <= place[Len(mode) + 1] /\ W(k) \in {1, 2, 4}
        BY <4>1, <4>2, PlacesGrow
      <4>. QED
        BY <1>1, <4>3 DEF n
    <3>. DEFINE p == place[k]
                w == W(k)
    <3>2. p \in Nat /\ a + 2 <= p /\ p + w <= b + 1 /\ w \in {1, 2, 4} /\ x \in 1..w
      BY <1>1, <3>1
    <3>. HIDE DEF p, w
    <3>3. p + x - 1 \in 1..l
      BY <1>1, <1>4, <3>2
    <3>4. d[p + x - 1] = c[p + x - 1]
      BY <1>6, <3>3
    <3>5. c[place[k] + x - 1] = Encoded(env, mode[k], ops[k], FirstType(ops))[x]
      BY <1>1 DEF CodeHas
    <3>. QED
      BY <3>4, <3>5 DEF p
  <2>. QED
    BY <2>1 DEF CodeHas
<1>9. Len(st.refs) <= Len(t.refs) /\ \A r \in 1..Len(st.refs) : t.refs[r] = st.refs[r]
  BY <1>5 DEF Refers, Continues
<1>10. \A k \in 1..n : ops[k].kind = "name" => \E r \in 1..Len(t.refs) : t.refs[r] = RefTo(ops, place, k)
  <2>1. Len(t.refs) \in Nat
    BY GeneratorFacts
  <2>2. \A r \in 1..Len(st.refs) : r \in 1..Len(t.refs)
    BY <1>4, <1>9, <2>1
  <2>3. ASSUME NEW k \in 1..n, ops[k].kind = "name"
        PROVE  \E r \in 1..Len(t.refs) : t.refs[r] = RefTo(ops, place, k)
    <3>1. PICK r \in 1..Len(st.refs) : st.refs[r] = RefTo(ops, place, k)
      BY <1>1, <2>3
    <3>. QED
      BY <1>9, <2>2, <3>1
  <2>. QED
    BY <2>3
<1>11. ASSUME NEW r \in 1..Len(t.refs)
       PROVE  \/ t.refs[r].at + 4 <= a \/ b <= t.refs[r].at
              \/ \E k \in 1..n : ops[k].kind = "name" /\ t.refs[r] = RefTo(ops, place, k)
  <2>1. CASE r \in 1..Len(st.refs)
    BY <1>1, <1>9, <2>1
  <2>2. CASE r \notin 1..Len(st.refs)
    <3>1. PICK k \in 1..Len(modeN) : new[k].kind = "name" /\ t.refs[r] = RefTo(new, at, k)
      BY <1>5, <2>2 DEF Refers
    <3>2. RefTo(new, at, k).at \in Nat /\ l + 1 <= RefTo(new, at, k).at
      <4>1. l + 1 \in Nat
        BY <1>4
      <4>. QED
        BY <1>2, <1>3, <1>5, <3>1, <4>1, PlaceOfName
    <3>. DEFINE p == RefTo(new, at, k).at
    <3>3. p \in Nat /\ l + 1 <= p
      BY <3>2
    <3>. HIDE DEF p
    <3>4. b <= p
      BY <1>1, <1>4, <3>3
    <3>. QED
      BY <3>1, <3>4 DEF p
  <2>. QED
    BY <2>1, <2>2
<1>. QED
  BY <1>1, <1>7, <1>8, <1>10, <1>11 DEF WrittenAt, ops, mode, n, c, d, l

(* Where an instruction starts, and where the last ends *)
Start(gen, k) == IF k \in 1..Len(gen.starts) THEN gen.starts[k] ELSE Len(gen.code)

(* The instructions of a file without errors *)
LEMMA CodeWrites ==
    ASSUME NEW env, Environments(env), NEW instrs \in Seq(InstructionNode),
           \A k \in DOMAIN instrs : ~SymbolTimer(env, instrs[k]),
           ~Code(env, instrs).failed, ~Code(env, instrs).panic
    PROVE  LET gen == Code(env, instrs)
           IN  /\ Len(gen.starts) = Len(instrs)
               /\ Start(gen, 1) = 0
               /\ \A k \in 1..Len(instrs) :
                    \E at : WrittenAt(env, instrs[k], gen, Start(gen, k), Start(gen, k + 1), at)
<1>. DEFINE n == Len(instrs)
            f == CodeUpTo(env, instrs)
            Good(m) == /\ Len(f[m].starts) = m /\ Within(f[m]) /\ Start(f[m], 1) = 0
                       /\ \A k \in 1..m :
                            \E at : WrittenAt(env, instrs[k], f[m], Start(f[m], k),
                                              Start(f[m], k + 1), at)
            T == {m \in 0..n : ~f[m].failed /\ ~f[m].panic => Good(m)}
<1>1. n \in Nat /\ DOMAIN instrs = 1..n /\ \A k \in 1..n : instrs[k] \in InstructionNode
  OBVIOUS
<1>2. /\ Code(env, instrs) = f[n]
      /\ \A k \in 0..n :
           /\ f[k] \in Generator
           /\ f[k] = IF k = 0 THEN NoCode ELSE AddInstruction(env, instrs[k], f[k - 1])
  BY CodeFacts
<1>. HIDE DEF f, n
<1>3. 0 \in T
  <2>1. f[0] = NoCode /\ 0 \in 0..n
    BY <1>1, <1>2
  <2>2. NoCode.starts = <<>> /\ NoCode.code = <<>> /\ NoCode.refs = <<>>
    BY DEF NoCode
  <2>3. Len(<<>>) = 0 /\ ~(1 \in 1..0) /\ \A k \in 1..0 : FALSE
    OBVIOUS
  <2>. QED
    BY <2>1, <2>2, <2>3 DEF Within, Start
<1>4. ASSUME NEW m \in 0..(n - 1), m \in T PROVE m + 1 \in T
  <2>. DEFINE st == f[m]
              t == f[m + 1]
              ins == instrs[m + 1]
  <2>1. m + 1 \in 1..n /\ m + 1 \in 0..n /\ (m + 1) - 1 = m /\ m + 1 # 0 /\ m \in 0..n /\ m \in Nat
        /\ \A k \in 1..(m + 1) : k \in 1..m \/ k = m + 1
    BY <1>1
  <2>2. /\ t = AddInstruction(env, ins, st) /\ st \in Generator /\ t \in Generator
        /\ ins \in InstructionNode /\ ~SymbolTimer(env, ins)
    BY <1>1, <1>2, <2>1
  <2>. HIDE DEF st, t, ins
  <2>3. ASSUME ~t.failed, ~t.panic PROVE Good(m + 1)
    <3>1. /\ ~st.failed /\ ~st.panic /\ ins.op \in DOMAIN Opcodes
          /\ t.starts = Append(st.starts, Len(st.code))
          /\ \E at : InstructionThere(env, ins.op, ResolvedOf(env, ins), st, t, at)
      BY <2>2, <2>3, AddInstructionWrites
    <3>2. PICK at : InstructionThere(env, ins.op, ResolvedOf(env, ins), st, t, at)
      BY <3>1
    <3>3. /\ Len(st.starts) = m /\ Within(st) /\ Start(st, 1) = 0
          /\ \A k \in 1..m :
               \E p : WrittenAt(env, instrs[k], st, Start(st, k), Start(st, k + 1), p)
      BY <1>4, <3>1 DEF st
    <3>4. Within(t) /\ WrittenAt(env, ins, t, Len(st.code), Len(t.code), at)
      BY <2>2, <3>1, <3>2, <3>3, WrittenFirst
    <3>5. /\ Len(t.starts) = m + 1 /\ t.starts[m + 1] = Len(st.code)
          /\ \A k \in 1..m : t.starts[k] = st.starts[k]
      <4>. DEFINE s == st.starts
      <4>1. s \in Seq(Nat) /\ Len(st.code) \in Nat
        BY <2>2, GeneratorFacts
      <4>. HIDE DEF s
      <4>. QED
        BY <3>1, <3>3, <4>1 DEF s
    <3>6. /\ Start(t, m + 1) = Len(st.code) /\ Start(t, m + 2) = Len(t.code)
          /\ \A k \in 1..m : Start(t, k) = Start(st, k) /\ Start(t, k + 1) = Start(st, k + 1)
      <4>1. m + 1 \in 1..(m + 1) /\ m + 2 \notin 1..(m + 1)
        BY <2>1
      <4>2. \A k \in 1..m : k \in 1..(m + 1) /\ k + 1 \in 1..(m + 1)
                            /\ (k + 1 \in 1..m \/ k = m)
        BY <2>1
      <4>3. m + 1 \notin 1..m
        BY <2>1
      <4>. QED
        BY <3>3, <3>5, <4>1, <4>2, <4>3 DEF Start
    <3>7. Start(t, 1) = 0
      <4>1. CASE m = 0
        <5>1. Start(st, 1) = Len(st.code)
          BY <3>3, <4>1 DEF Start
        <5>. QED
          BY <3>3, <3>6, <4>1, <5>1
      <4>2. CASE m # 0
        <5>1. 1 \in 1..m
          BY <2>1, <4>2
        <5>. QED
          BY <3>3, <3>6, <5>1
      <4>. QED
        BY <4>1, <4>2
    <3>8. ASSUME NEW k \in 1..(m + 1)
          PROVE  \E p : WrittenAt(env, instrs[k], t, Start(t, k), Start(t, k + 1), p)
      <4>1. CASE k \in 1..m
        <5>1. PICK p : WrittenAt(env, instrs[k], st, Start(st, k), Start(st, k + 1), p)
          BY <3>3, <4>1
        <5>2. instrs[k] \in InstructionNode
          BY <1>1, <2>1, <4>1
        <5>3. WrittenAt(env, instrs[k], t, Start(st, k), Start(st, k + 1), p)
          BY <2>2, <3>1, <3>2, <5>1, <5>2, WrittenStays
        <5>. QED
          BY <3>6, <4>1, <5>3
      <4>2. CASE k = m + 1
        <5>1. (m + 1) + 1 = m + 2
          BY <2>1
        <5>. QED
          BY <3>4, <3>6, <4>2, <5>1 DEF ins
      <4>. QED
        BY <2>1, <4>1, <4>2
    <3>. QED
      BY <3>4, <3>5, <3>7, <3>8 DEF t
  <2>. QED
    BY <2>1, <2>3 DEF t
<1>5. n \in T
  <2>. HIDE DEF T
  <2>1. \A m \in 0..n : m \in T
    BY <1>1, <1>3, <1>4, InductionTo
  <2>. QED
    BY <1>1, <2>1
<1>. HIDE DEF Good
<1>6. Good(n)
  BY <1>2, <1>5
<1>. QED
  BY <1>2, <1>6 DEF Good, n

-----------------------------------------------------------------------------
(***************************************************************************)
(* The code of a file, decoded.                                            *)
(***************************************************************************)

(* An operand as the CPU takes it from the bytes at p: the register or the *)
(* value written, and for a symbol zeros, with a reference to it there.    *)
OperandIs(env, gen, o, arg, p) ==
    CASE o.kind = "reg" -> ~arg.literal /\ arg.bytes = <<o.ref>>
      [] o.kind = "name" -> /\ arg.literal /\ arg.bytes = Zeros(4)
                            /\ \E r \in DOMAIN gen.refs : gen.refs[r] = [name |-> o.name, at |-> p - 1]
      [] OTHER -> arg.literal /\ arg.bytes = BE(Literal(env.data, o).value, Len(arg.bytes))

(* What the CPU decodes from the bytes that begin after the first a, as    *)
(* far as b, is the instruction ins; p are where its operands begin.       *)
DecodedAs(env, ins, gen, a, b) ==
    LET d == CPU!Decode(gen.code, a + 1)
        ops == ResolvedOf(env, ins)
    IN  /\ d.op = ins.op /\ d.length = b - a /\ Len(d.args) = Len(ops)
        /\ \E p :
             /\ p[1] = a + 2
             /\ \A j \in DOMAIN d.args : /\ p[j + 1] = p[j] + Len(d.args[j].bytes)
                                         /\ OperandIs(env, gen, ops[j], d.args[j], p[j])
             /\ \A r \in DOMAIN gen.refs :
                  gen.refs[r].at \in a..(b - 1) =>
                     \E j \in DOMAIN ops : ops[j].kind = "name" /\ gen.refs[r].at = p[j] - 1
                                           /\ gen.refs[r].name = ops[j].name

(* The bytes that a list has from p on *)
LEMMA BytesThere ==
    ASSUME NEW s \in Seq(0..255), NEW w \in Bytes, NEW p \in Nat \ {0}, NEW n \in {1, 2, 4},
           Len(w) = n, p + n <= Len(s) + 1, \A b \in 1..n : s[p + b - 1] = w[b]
    PROVE  SubSeq(s, p, (p + n) - 1) = w
<1>. DEFINE q == (p + n) - 1
            u == SubSeq(s, p, q)
<1>1. p \in 1..(Len(s) + 1) /\ q \in 0..Len(s) /\ q - p + 1 = n /\ p \in Int /\ q \in Int
      /\ Len(s) \in Nat
  OBVIOUS
<1>2. u \in Seq(0..255) /\ Len(u) = n /\ \A b \in 1..n : u[b] = s[p + b - 1]
  <2>1. p <= q /\ \A i \in p..q : i \in 1..Len(s)
    BY <1>1
  <2>3. \A i \in p..q : s[i] \in 0..255
    <3>1. \A i \in 1..Len(s) : s[i] \in 0..255
      BY ElementsOf
    <3>. HIDE DEF q
    <3>. QED
      BY <2>1, <3>1
  <2>. HIDE DEF q
  <2>2. u \in Seq(0..255) /\ Len(u) = q - p + 1
        /\ \A b \in 1..(q - p + 1) : u[b] = s[p + b - 1]
    BY <1>1, <2>1, <2>3, SubSeqProperties
  <2>. QED
    BY <1>1, <2>2
<1>. HIDE DEF u
<1>3. \A b \in 1..n : u[b] = w[b]
  BY <1>2
<1>4. w \in Seq(0..255)
  BY DEF Bytes
<1>. QED
  BY <1>2, <1>3, <1>4, SeqEqual DEF u

(* An instruction that the assembler has written is the one that the CPU decodes. *)
LEMMA WrittenDecodes ==
    ASSUME NEW env, Environments(env), NEW ins \in InstructionNode, NEW gen \in Generator,
           NEW a, NEW b, NEW at, WrittenAt(env, ins, gen, a, b, at)
    PROVE  DecodedAs(env, ins, gen, a, b)
<1>. DEFINE ops == ResolvedOf(env, ins)
            mode == Opcodes[ins.op].mode
            n == Len(mode)
            first == FirstType(ops)
            W(k) == Encoded(env, mode[k], ops[k], first)
            code == gen.code
            d == CPU!Decode(code, a + 1)
<1>1. ins.op \in DOMAIN Opcodes /\ mode \in Seq(Classes) /\ n \in 0..3
  BY ModeOf DEF WrittenAt
<1>2. ops \in Seq(OperandNode) /\ Len(ops) = n
  BY ResolvedOperands DEF WrittenAt
<1>3. /\ AllAccepted(env, mode, ops)
      /\ PlacesOf(mode, ops, a + 1, at) /\ at[n + 1] = b + 1
      /\ a \in Nat /\ b \in Nat /\ a < b /\ b <= Len(code)
      /\ code[a + 1] = Opcodes[ins.op].opcode + Choice(mode, ops)
      /\ CodeHas(env, mode, ops, n, code, at)
  BY DEF WrittenAt
<1>4. code \in Seq(0..255) /\ Len(code) \in Nat /\ DOMAIN gen.refs = 1..Len(gen.refs)
  BY GeneratorFacts DEF Bytes
<1>5. first \in DOMAIN Size
  BY <1>2, FirstTypeFacts
<1>6. ASSUME NEW k \in 1..n
      PROVE  /\ mode[k] \in Classes /\ ops[k] \in OperandNode
             /\ AcceptsOperand(env, mode[k], ops[k], first)
             /\ W(k) \in Bytes /\ Len(W(k)) = WidthOf(mode[k], ops[k], first)
             /\ WidthOf(mode[k], ops[k], first) \in {1, 2, 4}
  <2>1. mode[k] \in Classes /\ ops[k] \in OperandNode
    BY <1>1, <1>2
  <2>2. AcceptsOperand(env, mode[k], ops[k], first)
    BY <1>3 DEF AllAccepted
  <2>. HIDE DEF ops, mode, first
  <2>. QED
    BY <1>5, <2>1, <2>2, WrittenFacts
<1>. HIDE DEF ops, mode, first, code
<1>7. /\ at \in [1..(n + 1) -> Nat] /\ at[1] = (a + 1) + 1
      /\ \A k \in 1..n : at[k + 1] = at[k] + WidthOf(mode[k], ops[k], first)
  BY <1>3 DEF PlacesOf, first
<1>8. ASSUME NEW k \in 1..n
      PROVE  /\ at[k] \in Nat \ {0} /\ at[k + 1] \in Nat
             /\ at[k] + WidthOf(mode[k], ops[k], first) <= Len(code) + 1
  <2>1. k \in 1..(n + 1) /\ k + 1 \in 1..(n + 1)
    BY <1>1
  <2>2. /\ at[k] \in Nat /\ (a + 1) + 1 <= at[k]
        /\ at[k] + WidthOf(mode[k], ops[k], first) <= at[n + 1]
    <3>1. a + 1 \in Nat
      BY <1>3
    <3>. QED
      BY <1>1, <1>2, <1>3, <3>1, PlacesGrow DEF first, n
  <2>. DEFINE x == at[k]
              w == WidthOf(mode[k], ops[k], first)
              l == Len(code)
  <2>3. x \in Nat /\ w \in {1, 2, 4} /\ l \in Nat /\ (a + 1) + 1 <= x /\ x + w <= b + 1 /\ b <= l
    BY <1>3, <1>4, <1>6, <2>2
  <2>. HIDE DEF x, w, l
  <2>4. x # 0 /\ x + w <= l + 1
    BY <1>3, <2>3
  <2>. QED
    BY <1>7, <2>1, <2>3, <2>4 DEF x, w, l
<1>9. ASSUME NEW k \in 1..n PROVE SubSeq(code, at[k], at[k + 1] - 1) = W(k)
  <2>. DEFINE w == W(k)
              m == WidthOf(mode[k], ops[k], first)
              x == at[k]
  <2>1. \A i \in 1..m : code[x + i - 1] = w[i]
    BY <1>3 DEF CodeHas, first
  <2>2. x \in Nat \ {0} /\ m \in {1, 2, 4} /\ w \in Bytes /\ Len(w) = m /\ x + m <= Len(code) + 1
    BY <1>6, <1>8
  <2>3. at[k + 1] = x + m
    BY <1>7
  <2>. HIDE DEF w, m, x
  <2>4. SubSeq(code, x, (x + m) - 1) = w
    BY <1>4, <2>1, <2>2, BytesThere
  <2>. QED
    BY <2>3, <2>4 DEF w, x
<1>10. \A k \in 1..n : ops[k].kind = "reg" => code[at[k]] = ops[k].ref
  <2>1. ASSUME NEW k \in 1..n, ops[k].kind = "reg" PROVE code[at[k]] = ops[k].ref
    <3>1. WidthOf(mode[k], ops[k], first) = 1 /\ W(k) = <<ops[k].ref>>
      BY <2>1 DEF WidthOf, Encoded
    <3>2. 1 \in 1..1
      OBVIOUS
    <3>3. code[at[k] + 1 - 1] = W(k)[1]
      BY <1>3, <3>1, <3>2 DEF CodeHas, first
    <3>4. at[k] + 1 - 1 = at[k]
      BY <1>8
    <3>. QED
      BY <3>1, <3>3, <3>4
  <2>. QED
    BY <2>1
<1>11. d = [op |-> ins.op,
            args |-> [k \in 1..n |-> [literal |-> ops[k].kind # "reg",
                                       bytes |-> SubSeq(code, at[k], at[k + 1] - 1)]],
            length |-> at[n + 1] - (a + 1)]
  <2>. DEFINE i == a + 1
              op == ins.op
  <2>1. i \in Nat \ {0} /\ at[n + 1] <= Len(code) + 1
    BY <1>3, <1>4
  <2>. HIDE DEF i, op
  <2>2. /\ op \in DOMAIN Opcodes /\ mode = Opcodes[op].mode /\ PlacesOf(mode, ops, i, at)
        /\ code[i] = Opcodes[op].opcode + Choice(mode, ops)
    BY <1>1, <1>3 DEF i, op, mode
  <2>3. Len(ops) = n
    BY <1>2
  <2>4. CPU!Decode(code, i) = InstructionAs(op, ops, code, i, at)
    <3>2. code[i] = Opcodes[op].opcode + Choice(Opcodes[op].mode, ops)
      BY <2>2
    <3>1. /\ Len(ops) = Len(Opcodes[op].mode) /\ AllAccepted(env, Opcodes[op].mode, ops)
          /\ PlacesOf(Opcodes[op].mode, ops, i, at) /\ at[Len(ops) + 1] <= Len(code) + 1
          /\ \A k \in 1..Len(ops) : ops[k].kind = "reg" => code[at[k]] = ops[k].ref
      BY <1>2, <1>3, <1>10, <2>1, <2>2, <2>3
    <3>. HIDE DEF n
    <3>. QED
      BY <1>2, <1>4, <2>1, <2>2, <3>1, <3>2, DecodeFacts
  <2>. QED
    BY <2>3, <2>4 DEF i, op, InstructionAs
<1>. HIDE DEF d, W
<1>12. /\ d.op = ins.op /\ d.length = b - a /\ DOMAIN d.args = 1..n /\ Len(d.args) = n
       /\ \A k \in 1..n : d.args[k] = [literal |-> ops[k].kind # "reg", bytes |-> W(k)]
  <2>1. d.op = ins.op /\ d.length = at[n + 1] - (a + 1)
        /\ d.args = [k \in 1..n |-> [literal |-> ops[k].kind # "reg",
                                       bytes |-> SubSeq(code, at[k], at[k + 1] - 1)]]
    BY <1>11
  <2>2. d.length = b - a
    BY <1>3, <2>1
  <2>3. DOMAIN d.args = 1..n /\ Len(d.args) = n
    <3>. DEFINE F(k) == [literal |-> ops[k].kind # "reg", bytes |-> SubSeq(code, at[k], at[k + 1] - 1)]
    <3>. HIDE DEF F
    <3>1. d.args = [k \in 1..n |-> F(k)]
      BY <2>1 DEF F
    <3>. QED
      BY <1>1, <3>1
  <2>. QED
    BY <1>9, <2>1, <2>2, <2>3
<1>13. ASSUME NEW k \in 1..n PROVE OperandIs(env, gen, ops[k], d.args[k], at[k])
  <2>0. d.args[k].literal = (ops[k].kind # "reg") /\ d.args[k].bytes = W(k)
    <3>. DEFINE x == (ops[k].kind # "reg")
                w == W(k)
    <3>1. d.args[k] = [literal |-> x, bytes |-> w]
      BY <1>12
    <3>. HIDE DEF x, w
    <3>2. d.args[k].literal = x /\ d.args[k].bytes = w
      BY <3>1
    <3>. QED
      BY <3>2 DEF x, w
  <2>1. CASE ops[k].kind = "reg"
    <3>1. W(k) = <<ops[k].ref>> /\ (ops[k].kind # "reg") = FALSE
      BY <2>1 DEF W, Encoded
    <3>. QED
      BY <2>0, <2>1, <3>1 DEF OperandIs
  <2>2. CASE ops[k].kind = "name"
    <3>1. W(k) = Zeros(4) /\ (ops[k].kind # "reg") = TRUE
      BY <2>2 DEF W, Encoded
    <3>2. \E r \in 1..Len(gen.refs) : gen.refs[r] = RefTo(ops, at, k)
      BY <2>2 DEF WrittenAt, ops, n, mode
    <3>. QED
      BY <1>4, <2>0, <2>2, <3>1, <3>2 DEF OperandIs, RefTo
  <2>3. CASE ops[k].kind \notin {"reg", "name"}
    <3>1. W(k) = BE(Literal(env.data, ops[k]).value, Size[LiteralType(mode[k], first)])
          /\ (ops[k].kind # "reg") = TRUE
      BY <2>3 DEF W, Encoded
    <3>2. Len(W(k)) = Size[LiteralType(mode[k], first)]
      BY <1>6, <2>3 DEF W, WidthOf
    <3>. QED
      BY <2>0, <2>3, <3>1, <3>2 DEF OperandIs
  <2>. QED
    BY <2>1, <2>2, <2>3
<1>14. ASSUME NEW k \in 1..n PROVE at[k + 1] = at[k] + Len(d.args[k].bytes)
  <2>1. d.args[k].bytes = W(k)
    <3>. DEFINE x == (ops[k].kind # "reg")
    <3>1. d.args[k] = [literal |-> x, bytes |-> W(k)]
      BY <1>12
    <3>. HIDE DEF x
    <3>. QED
      BY <3>1
  <2>2. Len(W(k)) = WidthOf(mode[k], ops[k], first)
    BY <1>6
  <2>. QED
    BY <1>7, <2>1, <2>2
<1>15. ASSUME NEW r \in DOMAIN gen.refs, gen.refs[r].at \in a..(b - 1)
       PROVE  \E k \in 1..n : ops[k].kind = "name" /\ gen.refs[r].at = at[k] - 1
                                /\ gen.refs[r].name = ops[k].name
  <2>1. \/ gen.refs[r].at + 4 <= a \/ b <= gen.refs[r].at
        \/ \E k \in 1..n : ops[k].kind = "name" /\ gen.refs[r] = RefTo(ops, at, k)
    BY <1>4 DEF WrittenAt, ops, n, mode
  <2>2. ~(gen.refs[r].at + 4 <= a) /\ ~(b <= gen.refs[r].at)
    BY <1>3, <1>15
  <2>3. PICK k \in 1..n : ops[k].kind = "name" /\ gen.refs[r] = RefTo(ops, at, k)
    BY <2>1, <2>2
  <2>. QED
    BY <2>3 DEF RefTo
<1>16. at[1] = a + 2 /\ DOMAIN ops = 1..n
  BY <1>2, <1>3, <1>7
<1>17. /\ d.op = ins.op /\ d.length = b - a /\ Len(d.args) = Len(ops)
       /\ at[1] = a + 2
       /\ \A j \in DOMAIN d.args : /\ at[j + 1] = at[j] + Len(d.args[j].bytes)
                                     /\ OperandIs(env, gen, ops[j], d.args[j], at[j])
       /\ \A r \in DOMAIN gen.refs :
            gen.refs[r].at \in a..(b - 1) =>
               \E j \in DOMAIN ops : ops[j].kind = "name" /\ gen.refs[r].at = at[j] - 1
                                     /\ gen.refs[r].name = ops[j].name
  BY <1>2, <1>12, <1>13, <1>14, <1>15, <1>16
<1>. QED
  BY <1>17 DEF DecodedAs, d, ops, code

(***************************************************************************)
(* The code that salt writes for a file without errors is, for the CPU     *)
(* that decodes it from its first byte, the instructions of the source,    *)
(* one after the other, each with its operands: registers and values as    *)
(* written, and zeros with a reference, and no other, where a symbol is    *)
(* meant.  (What the linker writes there: ImageIsAsWritten.)  TIMER with a *)
(* symbol is excepted, as in ExecutesAsWritten.                            *)
(***************************************************************************)
THEOREM CodeIsAsWritten ==
    ASSUME NEW env, Environments(env), NEW instrs \in Seq(InstructionNode),
           \A k \in DOMAIN instrs : ~SymbolTimer(env, instrs[k]),
           ~Code(env, instrs).failed, ~Code(env, instrs).panic
    PROVE  LET gen == Code(env, instrs)
           IN  /\ Len(gen.starts) = Len(instrs) /\ Start(gen, 1) = 0
               /\ \A k \in DOMAIN instrs :
                    DecodedAs(env, instrs[k], gen, Start(gen, k), Start(gen, k + 1))
<1>. DEFINE gen == Code(env, instrs)
<1>1. /\ Len(gen.starts) = Len(instrs) /\ Start(gen, 1) = 0
      /\ \A k \in 1..Len(instrs) :
           \E at : WrittenAt(env, instrs[k], gen, Start(gen, k), Start(gen, k + 1), at)
  BY CodeWrites
<1>2. gen \in Generator
  BY CodeFacts
<1>. HIDE DEF gen
<1>3. ASSUME NEW k \in DOMAIN instrs
      PROVE  DecodedAs(env, instrs[k], gen, Start(gen, k), Start(gen, k + 1))
  <2>1. k \in 1..Len(instrs) /\ instrs[k] \in InstructionNode
    OBVIOUS
  <2>2. PICK at : WrittenAt(env, instrs[k], gen, Start(gen, k), Start(gen, k + 1), at)
    BY <1>1, <2>1
  <2>. QED
    BY <1>2, <2>1, <2>2, WrittenDecodes
<1>. QED
  BY <1>1, <1>3 DEF gen
=============================================================================
