-------------------------- MODULE ToolchainProofs ---------------------------
(***************************************************************************)
(* Theorems about the linker, for every project and every object file, and *)
(* about both tools together.                                              *)
(***************************************************************************)
EXTENDS SaltProofs

-----------------------------------------------------------------------------
(***************************************************************************)
(* The sections move.                                                      *)
(***************************************************************************)

(* Sections that each begin where the one before ends are in order. *)
LEMMA LayoutFrom ==
    ASSUME NEW ss, NEW n \in Nat, ss \in Seq(Range(ss)), DOMAIN ss = 1..n,
           \A k \in 1..n : /\ {"start", "length"} \subseteq DOMAIN ss[k]
                           /\ ss[k].start \in Nat /\ ss[k].length \in Nat
                           /\ ss[k].start = IF k = 1 THEN 0 ELSE ss[k - 1].start + ss[k - 1].length
    PROVE  Layout(ss)
<1>. DEFINE Ordered(k) == \A j \in 1..n : j < k => ss[j].start + ss[j].length <= ss[k].start
            T == {m \in 0..n : m = 0 \/ Ordered(m)}
<1>1. 0 \in T
  OBVIOUS
<1>2. ASSUME NEW m \in 0..(n - 1), m \in T PROVE m + 1 \in T
  <2>1. m + 1 \in 1..n /\ m + 1 \in 0..n /\ (m + 1) - 1 = m
    OBVIOUS
  <2>2. ASSUME NEW j \in 1..n, j < m + 1
        PROVE  ss[j].start + ss[j].length <= ss[m + 1].start
    <3>1. m \in 1..n /\ m + 1 # 1
      BY <2>2
    <3>2. ss[m + 1].start = ss[m].start + ss[m].length
      BY <2>1, <3>1
    <3>5. Ordered(m)
      BY <1>2, <3>1
    <3>3. CASE j = m
      BY <3>1, <3>2, <3>3
    <3>4. CASE j # m
      <4>1. j < m
        BY <2>2, <3>4
      <4>2. ss[j].start + ss[j].length <= ss[m].start
        BY <3>5, <4>1
      <4>. QED
        BY <3>1, <3>2, <4>2
    <3>. QED
      BY <3>3, <3>4
  <2>3. Ordered(m + 1)
    BY <2>2
  <2>. HIDE DEF Ordered
  <2>. QED
    BY <2>1, <2>3
<1>3. \A k \in 0..(n - 1) : k \in T => k + 1 \in T
  BY <1>2
<1>4. \A k \in 0..n : k \in T
  <2>. HIDE DEF T
  <2>. QED
    BY <1>1, <1>3, InductionTo
<1>5. \A k \in 1..n : Ordered(k)
  BY <1>4
<1>. QED
  BY <1>5 DEF Layout

(* The sections of a file are added after the others. *)
LEMMA AddFacts ==
    ASSUME NEW ss, Layout(ss), NEW new, Layout(new)
    PROVE  LET all == Silk!AddSections(ss, new)
               end == Silk!SectionsEnd(ss)
           IN  /\ Layout(all)
               /\ Silk!SectionsEnd(all) = end + Silk!SectionsEnd(new)
               /\ \A a \in Int : Inside(ss, a) => Inside(all, a)
               /\ \A a \in Int : Inside(new, a) => Inside(all, a + end)
               /\ Len(all) = Len(ss) + Len(new)
               /\ \A k \in 1..Len(ss) : all[k] = ss[k]
               /\ \A k \in 1..Len(new) : all[Len(ss) + k] = [new[k] EXCEPT !.start = @ + end]
<1>. DEFINE end == Silk!SectionsEnd(ss)
            n == Len(ss)
            m == Len(new)
            moved == [k \in DOMAIN new |-> [new[k] EXCEPT !.start = @ + end]]
            all == Silk!AddSections(ss, new)
<1>1. /\ n \in Nat /\ DOMAIN ss = 1..n /\ end \in Nat
      /\ end = IF n = 0 THEN 0 ELSE ss[n].start + ss[n].length
  BY EndFacts
<1>2. /\ m \in Nat /\ DOMAIN new = 1..m
      /\ Silk!SectionsEnd(new) = IF m = 0 THEN 0 ELSE new[m].start + new[m].length
  BY EndFacts
<1>3. all = ss \o moved
  BY Zenon DEF Silk!AddSections
<1>. HIDE DEF end, n, m, all
<1>4. /\ DOMAIN moved = 1..m
      /\ \A k \in 1..m : /\ {"start", "length"} \subseteq DOMAIN new[k]
                         /\ new[k].start \in Nat /\ new[k].length \in Nat
                         /\ new[k].start = IF k = 1 THEN 0 ELSE new[k - 1].start + new[k - 1].length
  BY <1>2 DEF Layout
<1>5. ASSUME NEW k \in 1..m
      PROVE  /\ {"start", "length"} \subseteq DOMAIN moved[k]
             /\ moved[k].start = new[k].start + end /\ moved[k].length = new[k].length
             /\ moved[k] = [new[k] EXCEPT !.start = @ + end]
  BY <1>2, <1>4
<1>6. moved \in Seq(Range(moved)) /\ Len(moved) = m
  <2>1. moved = [k \in 1..m |-> moved[k]]
    BY <1>4
  <2>. HIDE DEF moved
  <2>. QED
    BY <1>2, <2>1, RangeSeq
<1>. HIDE DEF moved
<1>7. /\ DOMAIN all = 1..(n + m) /\ all \in Seq(Range(all))
      /\ \A k \in 1..(n + m) : all[k] = IF k <= n THEN ss[k] ELSE moved[k - n]
  <2>1. ss \in Seq(Range(ss))
    BY DEF Layout
  <2>. QED
    BY <1>3, <1>6, <2>1, ConcatFacts DEF n
<1>8. \A k \in 1..n : k \in 1..(n + m) /\ all[k] = ss[k]
  BY <1>1, <1>2, <1>7
<1>9. ASSUME NEW k \in 1..m
      PROVE  /\ n + k \in 1..(n + m)
             /\ {"start", "length"} \subseteq DOMAIN all[n + k]
             /\ all[n + k].start = new[k].start + end
             /\ all[n + k].length = new[k].length
             /\ all[n + k] = [new[k] EXCEPT !.start = @ + end]
  <2>1. n + k \in 1..(n + m) /\ ~(n + k <= n) /\ (n + k) - n = k
    BY <1>1, <1>2
  <2>2. all[n + k] = moved[k]
    BY <1>7, <2>1
  <2>. QED
    BY <1>5, <2>1, <2>2
<1>10. ASSUME NEW k \in 1..(n + m)
       PROVE  /\ {"start", "length"} \subseteq DOMAIN all[k]
              /\ all[k].start \in Nat /\ all[k].length \in Nat
              /\ all[k].start = IF k = 1 THEN 0 ELSE all[k - 1].start + all[k - 1].length
  <2>1. CASE k <= n
    <3>1. k \in 1..n /\ (k # 1 => k - 1 \in 1..n)
      BY <1>1, <1>2, <2>1
    <3>2. /\ {"start", "length"} \subseteq DOMAIN ss[k]
          /\ ss[k].start \in Nat /\ ss[k].length \in Nat
          /\ ss[k].start = IF k = 1 THEN 0 ELSE ss[k - 1].start + ss[k - 1].length
      BY <1>1, <3>1 DEF Layout
    <3>. QED
      BY <1>8, <3>1, <3>2
  <2>2. CASE k > n
    <3>. DEFINE j == k - n
    <3>1. j \in 1..m /\ n + j = k
      BY <1>1, <1>2, <2>2
    <3>. HIDE DEF j
    <3>2. /\ {"start", "length"} \subseteq DOMAIN all[k]
          /\ all[k].start = new[j].start + end /\ all[k].length = new[j].length
      BY <1>9, <3>1
    <3>3. all[k].start \in Nat /\ all[k].length \in Nat
      BY <1>1, <1>4, <3>1, <3>2
    <3>4. all[k].start = IF k = 1 THEN 0 ELSE all[k - 1].start + all[k - 1].length
      <4>1. CASE j = 1
        <5>1. all[k].start = end /\ k = n + 1
          BY <1>1, <1>4, <3>1, <3>2, <4>1
        <5>2. CASE n = 0
          BY <1>1, <5>1, <5>2
        <5>3. CASE n # 0
          <6>1. n \in 1..n /\ k - 1 = n /\ k # 1
            BY <1>1, <5>1, <5>3
          <6>. QED
            BY <1>1, <1>8, <5>1, <5>3, <6>1
        <5>. QED
          BY <5>2, <5>3
      <4>2. CASE j # 1
        <5>1. j - 1 \in 1..m /\ k # 1 /\ n + (j - 1) = k - 1
          BY <1>1, <1>2, <3>1, <4>2
        <5>2. new[j].start = new[j - 1].start + new[j - 1].length
          BY <1>4, <3>1, <4>2
        <5>3. all[k - 1].start = new[j - 1].start + end /\ all[k - 1].length = new[j - 1].length
          BY <1>9, <5>1
        <5>4. new[j - 1].start \in Nat /\ new[j - 1].length \in Nat
          BY <1>4, <5>1
        <5>. QED
          BY <1>1, <3>2, <5>1, <5>2, <5>3, <5>4
      <4>. QED
        BY <4>1, <4>2
    <3>. QED
      BY <3>2, <3>3, <3>4
  <2>. QED
    BY <1>1, <1>2, <2>1, <2>2
<1>11. Layout(all)
  <2>1. n + m \in Nat
    BY <1>1, <1>2
  <2>. QED
    BY <1>7, <1>10, <2>1, LayoutFrom
<1>15. Len(all) = n + m
  BY <1>1, <1>2, <1>7, <1>11, EndFacts
<1>12. Silk!SectionsEnd(all) = end + Silk!SectionsEnd(new)
  <2>1. Len(all) = n + m
    BY <1>15
  <2>2. Silk!SectionsEnd(all) = IF n + m = 0 THEN 0 ELSE all[n + m].start + all[n + m].length
    BY <1>11, <2>1, EndFacts
  <2>3. CASE m = 0
    <3>1. CASE n = 0
      BY <1>1, <1>2, <2>2, <2>3, <3>1
    <3>2. CASE n # 0
      <4>1. n + m = n /\ n \in 1..n
        BY <1>1, <2>3, <3>2
      <4>. QED
        BY <1>1, <1>2, <1>8, <2>2, <2>3, <3>2, <4>1
    <3>. QED
      BY <3>1, <3>2
  <2>4. CASE m # 0
    <3>1. m \in 1..m /\ n + m # 0
      BY <1>1, <1>2, <2>4
    <3>2. all[n + m].start = new[m].start + end /\ all[n + m].length = new[m].length
      BY <1>9, <3>1
    <3>3. new[m].start \in Nat /\ new[m].length \in Nat
      BY <1>4, <3>1
    <3>. QED
      BY <1>1, <1>2, <2>2, <2>4, <3>1, <3>2, <3>3
  <2>. QED
    BY <2>3, <2>4
<1>13. ASSUME NEW a \in Int, Inside(ss, a) PROVE Inside(all, a)
  BY <1>1, <1>7, <1>8, <1>13 DEF Inside
<1>14. ASSUME NEW a \in Int, Inside(new, a) PROVE Inside(all, a + end)
  <2>1. PICK k \in 1..m : new[k].start <= a /\ a + 3 < new[k].start + new[k].length
    BY <1>2, <1>14 DEF Inside
  <2>2. /\ n + k \in DOMAIN all
        /\ all[n + k].start = new[k].start + end /\ all[n + k].length = new[k].length
    BY <1>7, <1>9
  <2>3. new[k].start \in Nat /\ new[k].length \in Nat
    BY <1>4
  <2>4. all[n + k].start <= a + end /\ a + end + 3 < all[n + k].start + all[n + k].length
    <3>. DEFINE s == new[k].start
                l == new[k].length
    <3>1. s \in Nat /\ l \in Nat /\ s <= a /\ a + 3 < s + l /\ end \in Nat
      BY <1>1, <2>1, <2>3
    <3>. HIDE DEF s, l
    <3>2. s + end <= a + end /\ a + end + 3 < (s + end) + l
      BY <3>1
    <3>. QED
      BY <2>2, <3>2, Zenon DEF s, l
  <2>. QED
    BY <2>2, <2>4 DEF Inside
<1>. QED
  BY <1>8, <1>9, <1>11, <1>12, <1>13, <1>14, <1>15 DEF all, end, n, m

(* The list of the sections with the entry section first. *)
LEMMA MovedList ==
    ASSUME NEW ss, NEW n \in Nat, ss \in Seq(Range(ss)), Len(ss) = n, NEW entry \in 1..n
    PROVE  LET all == Silk!MoveToStart(ss, entry)
           IN  /\ all \in Seq(Range(all)) /\ DOMAIN all = 1..n
               /\ all[1] = [ss[entry] EXCEPT !.start = 0]
               /\ \A k \in 2..entry : all[k] = [ss[k - 1] EXCEPT !.start = @ + ss[entry].length]
               /\ \A k \in (entry + 1)..n : all[k] = ss[k]
<1>. DEFINE first == <<[ss[entry] EXCEPT !.start = 0]>>
            up == [k \in 1..(entry - 1) |-> [ss[k] EXCEPT !.start = @ + ss[entry].length]]
            rest == SubSeq(ss, entry + 1, n)
            all == Silk!MoveToStart(ss, entry)
<1>1. all = (first \o up) \o rest
  BY Zenon DEF Silk!MoveToStart
<1>. HIDE DEF all
<1>2. first \in Seq(Range(first)) /\ Len(first) = 1 /\ first[1] = [ss[entry] EXCEPT !.start = 0]
  <2>. DEFINE x == [ss[entry] EXCEPT !.start = 0]
  <2>. HIDE DEF x
  <2>1. <<x>> = [k \in 1..1 |-> <<x>>[k]] /\ <<x>>[1] = x
    OBVIOUS
  <2>2. first = <<x>>
    BY DEF x
  <2>. HIDE DEF first
  <2>3. first = [k \in 1..1 |-> first[k]]
    BY <2>1, <2>2
  <2>. QED
    BY <2>1, <2>2, <2>3, RangeSeq DEF x
<1>3. /\ up \in Seq(Range(up)) /\ Len(up) = entry - 1
      /\ \A k \in 1..(entry - 1) : up[k] = [ss[k] EXCEPT !.start = @ + ss[entry].length]
  <2>1. up = [k \in 1..(entry - 1) |-> up[k]] /\ entry - 1 \in Nat
    OBVIOUS
  <2>2. \A k \in 1..(entry - 1) : up[k] = [ss[k] EXCEPT !.start = @ + ss[entry].length]
    OBVIOUS
  <2>. HIDE DEF up
  <2>. QED
    BY <2>1, <2>2, RangeSeq
<1>4. /\ rest \in Seq(Range(rest)) /\ Len(rest) = n - entry
      /\ \A k \in 1..(n - entry) : rest[k] = ss[k + entry]
  <2>. DEFINE S == Range(ss)
  <2>0. ss \in Seq(S) /\ entry + 1 \in 1..(n + 1)
    OBVIOUS
  <2>. HIDE DEF S
  <2>1. /\ rest \in Seq(S) /\ Len(rest) = n - entry
        /\ \A k \in 1..(n - entry) : rest[k] = ss[k + entry]
    BY <2>0
  <2>2. rest \in Seq(Range(rest))
    BY <2>1, SeqRange
  <2>. QED
    BY <2>1, <2>2
<1>. HIDE DEF first, up, rest
<1>. DEFINE fu == first \o up
<1>5. /\ fu \in Seq(Range(fu)) /\ Len(fu) = entry
      /\ \A k \in 1..entry : fu[k] = IF k <= 1 THEN first[k] ELSE up[k - 1]
  <2>1. /\ fu \in Seq(Range(fu)) /\ Len(fu) = Len(first) + Len(up)
        /\ \A k \in 1..(Len(first) + Len(up)) :
             fu[k] = IF k <= Len(first) THEN first[k] ELSE up[k - Len(first)]
    BY <1>2, <1>3, ConcatFacts
  <2>2. Len(first) = 1 /\ Len(first) + Len(up) = entry
    BY <1>2, <1>3
  <2>. HIDE DEF fu
  <2>. QED
    BY <2>1, <2>2
<1>6. /\ all \in Seq(Range(all)) /\ DOMAIN all = 1..n
      /\ \A k \in 1..n : all[k] = IF k <= entry THEN fu[k] ELSE rest[k - entry]
  <2>. HIDE DEF fu
  <2>1. /\ all \in Seq(Range(all)) /\ DOMAIN all = 1..(Len(fu) + Len(rest))
        /\ \A k \in 1..(Len(fu) + Len(rest)) :
             all[k] = IF k <= Len(fu) THEN fu[k] ELSE rest[k - Len(fu)]
    <3>1. all = fu \o rest
      BY <1>1 DEF fu
    <3>2. /\ fu \o rest \in Seq(Range(fu \o rest))
          /\ DOMAIN (fu \o rest) = 1..(Len(fu) + Len(rest))
          /\ \A k \in 1..(Len(fu) + Len(rest)) :
               (fu \o rest)[k] = IF k <= Len(fu) THEN fu[k] ELSE rest[k - Len(fu)]
      BY <1>4, <1>5, ConcatFacts
    <3>. QED
      BY <3>1, <3>2, Zenon
  <2>2. Len(fu) = entry /\ Len(fu) + Len(rest) = n
    BY <1>4, <1>5
  <2>. QED
    BY <2>1, <2>2
<1>. HIDE DEF fu
<1>7. all[1] = [ss[entry] EXCEPT !.start = 0]
  <2>1. 1 \in 1..entry /\ 1 \in 1..n
    OBVIOUS
  <2>. QED
    BY <1>2, <1>5, <1>6, <2>1
<1>8. ASSUME NEW k \in 2..entry
      PROVE  all[k] = [ss[k - 1] EXCEPT !.start = @ + ss[entry].length]
  <2>1. k \in 1..entry /\ k \in 1..n /\ ~(k <= 1) /\ k - 1 \in 1..(entry - 1)
    OBVIOUS
  <2>2. all[k] = up[k - 1]
    BY <1>5, <1>6, <2>1
  <2>3. up[k - 1] = [ss[k - 1] EXCEPT !.start = @ + ss[entry].length]
    BY <1>3, <2>1
  <2>. QED
    BY <2>2, <2>3, Zenon
<1>9. ASSUME NEW k \in (entry + 1)..n PROVE all[k] = ss[k]
  <2>1. k \in 1..n /\ ~(k <= entry) /\ k - entry \in 1..(n - entry) /\ (k - entry) + entry = k
    OBVIOUS
  <2>. QED
    BY <1>4, <1>6, <2>1
<1>. QED
  BY <1>6, <1>7, <1>8, <1>9 DEF all

(* The entry section moves to the start, and every address with it. *)
LEMMA MoveFacts ==
    ASSUME NEW ss, Layout(ss), NEW entry \in DOMAIN ss
    PROVE  LET all == Silk!MoveToStart(ss, entry)
               To(a) == Silk!Relocate(a, ss[entry].start, ss[entry].length)
               end == Silk!SectionsEnd(ss)
           IN  /\ Layout(all)
               /\ Silk!SectionsEnd(all) = end
               /\ \A a \in 0..(end - 1) : To(a) \in 0..(end - 1)
               /\ \A a \in Int : Inside(ss, a) => Inside(all, To(a))
<1>. DEFINE all == Silk!MoveToStart(ss, entry)
            cutoff == ss[entry].start
            offset == ss[entry].length
            end == Silk!SectionsEnd(ss)
            n == Len(ss)
            To(a) == Silk!Relocate(a, cutoff, offset)
<1>1. /\ n \in Nat /\ DOMAIN ss = 1..n /\ end \in Nat
      /\ end = IF n = 0 THEN 0 ELSE ss[n].start + ss[n].length
      /\ \A k \in 1..n : ss[k].start + ss[k].length <= end
  BY EndFacts
<1>2. /\ ss \in Seq(Range(ss))
      /\ \A k \in 1..n : /\ {"start", "length"} \subseteq DOMAIN ss[k]
                         /\ ss[k].start \in Nat /\ ss[k].length \in Nat
                         /\ ss[k].start = IF k = 1 THEN 0 ELSE ss[k - 1].start + ss[k - 1].length
      /\ \A j, k \in 1..n : j < k => ss[j].start + ss[j].length <= ss[k].start
  BY <1>1 DEF Layout
<1>3. /\ all \in Seq(Range(all)) /\ DOMAIN all = 1..n
      /\ all[1] = [ss[entry] EXCEPT !.start = 0]
      /\ \A k \in 2..entry : all[k] = [ss[k - 1] EXCEPT !.start = @ + offset]
      /\ \A k \in (entry + 1)..n : all[k] = ss[k]
  <2>1. entry \in 1..n /\ Len(ss) = n /\ n \in Nat /\ ss \in Seq(Range(ss))
    BY <1>1, <1>2
  <2>. DEFINE new == Silk!MoveToStart(ss, entry)
  <2>. HIDE DEF n, new
  <2>2. /\ new \in Seq(Range(new)) /\ DOMAIN new = 1..n
        /\ new[1] = [ss[entry] EXCEPT !.start = 0]
        /\ \A k \in 2..entry : new[k] = [ss[k - 1] EXCEPT !.start = @ + ss[entry].length]
        /\ \A k \in (entry + 1)..n : new[k] = ss[k]
    BY <2>1, MovedList DEF new
  <2>. QED
    BY <2>2, Zenon DEF new
<1>4. entry \in 1..n /\ cutoff \in Nat /\ offset \in Nat /\ cutoff + offset <= end
  BY <1>1, <1>2
<1>. HIDE DEF all, n, end
<1>5. {"start", "length"} \subseteq DOMAIN all[1] /\ all[1].start = 0 /\ all[1].length = offset
  BY <1>2, <1>3, <1>4
<1>6. ASSUME NEW k \in 2..entry
      PROVE  /\ k - 1 \in 1..n
             /\ {"start", "length"} \subseteq DOMAIN all[k]
             /\ all[k].start = ss[k - 1].start + offset /\ all[k].length = ss[k - 1].length
  <2>1. k - 1 \in 1..n
    BY <1>1, <1>4
  <2>2. {"start", "length"} \subseteq DOMAIN ss[k - 1]
    BY <1>2, <2>1
  <2>3. all[k] = [ss[k - 1] EXCEPT !.start = @ + offset]
    BY <1>3
  <2>. QED
    BY <2>1, <2>2, <2>3
<1>. HIDE DEF cutoff, offset
<1>7. ASSUME NEW k \in 1..n
      PROVE  /\ {"start", "length"} \subseteq DOMAIN all[k]
             /\ all[k].start \in Nat /\ all[k].length \in Nat
             /\ all[k].start = IF k = 1 THEN 0 ELSE all[k - 1].start + all[k - 1].length
  <2>1. CASE k = 1
    BY <1>4, <1>5, <2>1
  <2>2. CASE k \in 2..entry
    <3>1. /\ k - 1 \in 1..n /\ k # 1
          /\ {"start", "length"} \subseteq DOMAIN all[k]
          /\ all[k].start = ss[k - 1].start + offset /\ all[k].length = ss[k - 1].length
      BY <1>6, <2>2
    <3>2. ss[k - 1].start \in Nat /\ ss[k - 1].length \in Nat
          /\ ss[k - 1].start = IF k - 1 = 1 THEN 0
                               ELSE ss[(k - 1) - 1].start + ss[(k - 1) - 1].length
      BY <1>2, <3>1
    <3>3. CASE k = 2
      BY <1>4, <1>5, <3>1, <3>2, <3>3
    <3>4. CASE k # 2
      <4>1. k - 1 \in 2..entry
        BY <1>4, <2>2, <3>4
      <4>2. all[k - 1].start = ss[(k - 1) - 1].start + offset
            /\ all[k - 1].length = ss[(k - 1) - 1].length /\ (k - 1) - 1 \in 1..n
        BY <1>6, <4>1
      <4>3. ss[(k - 1) - 1].start \in Nat /\ ss[(k - 1) - 1].length \in Nat
        BY <1>2, <4>2
      <4>. QED
        BY <1>4, <3>1, <3>2, <3>4, <4>2, <4>3
    <3>. QED
      BY <3>3, <3>4
  <2>3. CASE k \in (entry + 1)..n
    <3>1. k - 1 \in 1..n /\ k # 1 /\ all[k] = ss[k]
      BY <1>1, <1>3, <1>4, <2>3
    <3>2. /\ {"start", "length"} \subseteq DOMAIN ss[k]
          /\ ss[k].start \in Nat /\ ss[k].length \in Nat
          /\ ss[k].start = ss[k - 1].start + ss[k - 1].length
      BY <1>2, <3>1
    <3>3. ss[k - 1].start + ss[k - 1].length = all[k - 1].start + all[k - 1].length
      <4>1. CASE k - 1 \in (entry + 1)..n
        BY <1>3, <4>1
      <4>2. CASE k - 1 = entry
        <5>1. ss[k - 1].start = cutoff /\ ss[k - 1].length = offset
          BY <4>2 DEF cutoff, offset
        <5>2. CASE entry = 1
          <6>1. cutoff = 0
            BY <1>2, <1>4, <5>2 DEF cutoff
          <6>. QED
            BY <1>4, <1>5, <4>2, <5>1, <5>2, <6>1
        <5>3. CASE entry # 1
          <6>1. entry \in 2..entry
            BY <1>4, <5>3
          <6>2. /\ entry - 1 \in 1..n /\ all[entry].start = ss[entry - 1].start + offset
                /\ all[entry].length = ss[entry - 1].length
            BY <1>6, <6>1
          <6>3. cutoff = ss[entry - 1].start + ss[entry - 1].length
            BY <1>2, <1>4, <5>3 DEF cutoff
          <6>4. ss[entry - 1].start \in Nat /\ ss[entry - 1].length \in Nat
            BY <1>2, <6>2
          <6>. QED
            BY <1>4, <4>2, <5>1, <6>2, <6>3, <6>4
        <5>. QED
          BY <5>2, <5>3
      <4>. QED
        BY <1>1, <1>4, <2>3, <4>1, <4>2
    <3>. QED
      BY <3>1, <3>2, <3>3
  <2>. QED
    BY <1>4, <2>1, <2>2, <2>3
<1>8. Layout(all)
  BY <1>1, <1>3, <1>7, LayoutFrom
<1>9. Silk!SectionsEnd(all) = end
  <2>1. Len(all) = n /\ n # 0 /\ n \in 1..n
    BY <1>1, <1>3, <1>4, <1>8, EndFacts
  <2>2. Silk!SectionsEnd(all) = all[n].start + all[n].length
    BY <1>8, <2>1, EndFacts
  <2>3. end = ss[n].start + ss[n].length
    BY <1>1, <2>1
  <2>4. CASE entry = n
    <3>1. cutoff = ss[n].start /\ offset = ss[n].length
      BY <2>4 DEF cutoff, offset
    <3>2. CASE n = 1
      <4>1. cutoff = 0
        BY <1>2, <1>4, <2>4, <3>2 DEF cutoff
      <4>. QED
        BY <1>4, <1>5, <2>2, <2>3, <3>1, <3>2, <4>1
    <3>3. CASE n # 1
      <4>1. n \in 2..entry /\ n - 1 \in 1..n
        BY <1>1, <1>4, <2>4, <3>3
      <4>2. all[n].start = ss[n - 1].start + offset /\ all[n].length = ss[n - 1].length
        BY <1>6, <4>1
      <4>3. ss[n].start = ss[n - 1].start + ss[n - 1].length
            /\ ss[n - 1].start \in Nat /\ ss[n - 1].length \in Nat
        BY <1>2, <2>1, <3>3, <4>1
      <4>. QED
        BY <1>4, <2>2, <2>3, <3>1, <4>2, <4>3
    <3>. QED
      BY <3>2, <3>3
  <2>5. CASE entry # n
    <3>1. n \in (entry + 1)..n
      BY <1>1, <1>4, <2>5
    <3>. QED
      BY <1>3, <2>2, <2>3, <3>1
  <2>. QED
    BY <2>4, <2>5
<1>10. ASSUME NEW a \in Int
       PROVE  /\ a < cutoff => To(a) = a + offset
              /\ a >= cutoff /\ a < cutoff + offset => To(a) = a - cutoff
              /\ a >= cutoff + offset => To(a) = a
  BY <1>4 DEF Silk!Relocate
<1>. HIDE DEF To
<1>11. ASSUME NEW a \in 0..(end - 1) PROVE To(a) \in 0..(end - 1)
  BY <1>1, <1>4, <1>10
<1>12. ASSUME NEW a \in Int, Inside(ss, a) PROVE Inside(all, To(a))
  <2>1. PICK k \in 1..n : ss[k].start <= a /\ a + 3 < ss[k].start + ss[k].length
    BY <1>1, <1>12 DEF Inside
  <2>2. ss[k].start \in Nat /\ ss[k].length \in Nat
    BY <1>2
  <2>3. CASE k = entry
    <3>1. cutoff = ss[k].start /\ offset = ss[k].length
      BY <2>3 DEF cutoff, offset
    <3>2. To(a) = a - cutoff /\ 1 \in DOMAIN all
      BY <1>1, <1>3, <1>4, <1>10, <2>1, <3>1
    <3>3. all[1].start <= To(a) /\ To(a) + 3 < all[1].start + all[1].length
      BY <1>4, <1>5, <2>1, <2>2, <3>1, <3>2
    <3>. QED
      BY <3>2, <3>3 DEF Inside
  <2>4. CASE k < entry
    <3>1. k + 1 \in 2..entry /\ (k + 1) - 1 = k /\ k + 1 \in DOMAIN all
      BY <1>1, <1>3, <1>4, <2>4
    <3>2. all[k + 1].start = ss[k].start + offset /\ all[k + 1].length = ss[k].length
      BY <1>6, <3>1
    <3>3. ss[k].start + ss[k].length <= cutoff
      BY <1>2, <1>4, <2>4 DEF cutoff
    <3>4. To(a) = a + offset
      BY <1>4, <1>10, <2>1, <2>2, <3>3
    <3>5. all[k + 1].start <= To(a) /\ To(a) + 3 < all[k + 1].start + all[k + 1].length
      BY <1>4, <2>1, <2>2, <3>2, <3>4
    <3>. QED
      BY <3>1, <3>5 DEF Inside
  <2>5. CASE k > entry
    <3>1. k \in (entry + 1)..n /\ k \in DOMAIN all
      BY <1>1, <1>3, <1>4, <2>5
    <3>2. cutoff + offset <= ss[k].start
      BY <1>2, <1>4, <2>5 DEF cutoff, offset
    <3>3. To(a) = a /\ all[k] = ss[k]
      BY <1>3, <1>4, <1>10, <2>1, <2>2, <3>1, <3>2
    <3>. QED
      BY <2>1, <3>1, <3>3 DEF Inside
  <2>. QED
    BY <1>1, <1>4, <2>3, <2>4, <2>5
<1>. QED
  BY <1>8, <1>9, <1>11, <1>12 DEF all, end, To, cutoff, offset

-----------------------------------------------------------------------------
(***************************************************************************)
(* The symbol table.                                                       *)
(***************************************************************************)

(* The symbols whose value and references lie in the sections ss *)
Lying(ss) ==
    {e \in Symbol : /\ e.value # Silk!None => e.value \in 0..(Silk!SectionsEnd(ss) - 1)
                    /\ \A k \in DOMAIN e.refs : Inside(ss, e.refs[k])}

(* A symbol that gets the references of another. *)
LEMMA JoinFacts ==
    ASSUME NEW ss, NEW x \in Lying(ss), NEW y \in Lying(ss)
    PROVE  /\ [x EXCEPT !.refs = x.refs \o y.refs] \in Lying(ss)
           /\ [x EXCEPT !.refs = y.refs \o x.refs] \in Lying(ss)
<1>1. x \in Symbol /\ y \in Symbol
  BY DEF Lying
<1>2. /\ x.refs \in Seq(Int) /\ y.refs \in Seq(Int)
      /\ x = [type |-> x.type, value |-> x.value, refs |-> x.refs]
  BY <1>1 DEF Symbol
<1>3. ASSUME NEW f \in Seq(Int), NEW g \in Seq(Int),
             \A k \in DOMAIN f : Inside(ss, f[k]), \A k \in DOMAIN g : Inside(ss, g[k])
      PROVE  f \o g \in Seq(Int) /\ \A k \in DOMAIN (f \o g) : Inside(ss, (f \o g)[k])
  <2>1. f \o g \in Seq(Int) /\ f \in Seq(Range(f)) /\ g \in Seq(Range(g))
    BY SeqRange
  <2>2. /\ DOMAIN f = 1..Len(f) /\ DOMAIN g = 1..Len(g) /\ Len(f) \in Nat /\ Len(g) \in Nat
        /\ DOMAIN (f \o g) = 1..(Len(f) + Len(g))
        /\ \A k \in 1..(Len(f) + Len(g)) :
             (f \o g)[k] = IF k <= Len(f) THEN f[k] ELSE g[k - Len(f)]
    BY <2>1, ConcatFacts
  <2>3. ASSUME NEW k \in 1..(Len(f) + Len(g)) PROVE Inside(ss, (f \o g)[k])
    <3>1. CASE k <= Len(f)
      <4>1. k \in DOMAIN f /\ (f \o g)[k] = f[k]
        BY <2>2, <3>1
      <4>. QED
        BY <1>3, <4>1
    <3>2. CASE k > Len(f)
      <4>1. k - Len(f) \in DOMAIN g /\ (f \o g)[k] = g[k - Len(f)]
        BY <2>2, <3>2
      <4>. QED
        BY <1>3, <4>1
    <3>. QED
      BY <2>2, <3>1, <3>2
  <2>. QED
    BY <2>1, <2>2, <2>3
<1>4. (\A k \in DOMAIN x.refs : Inside(ss, x.refs[k])) /\ \A k \in DOMAIN y.refs : Inside(ss, y.refs[k])
  BY DEF Lying
<1>5. ASSUME NEW r \in Seq(Int), \A k \in DOMAIN r : Inside(ss, r[k])
      PROVE  [x EXCEPT !.refs = r] \in Lying(ss)
  <2>1. /\ [x EXCEPT !.refs = r] \in Symbol
        /\ [x EXCEPT !.refs = r].value = x.value /\ [x EXCEPT !.refs = r].refs = r
    BY <1>1, <1>5 DEF Symbol
  <2>. DEFINE z == [x EXCEPT !.refs = r]
  <2>. HIDE DEF z
  <2>2. z \in Symbol /\ z.value = x.value /\ z.refs = r
    BY <2>1 DEF z
  <2>3. z \in Lying(ss)
    BY <1>5, <2>2 DEF Lying
  <2>. QED
    BY <2>3 DEF z
<1>. QED
  BY <1>2, <1>3, <1>4, <1>5

(* A symbol added to the table. *)
LEMMA MergeFacts ==
    ASSUME NEW ss, NEW t, NEW name, NEW e \in Lying(ss),
           \A x \in Range(t) : x \in Lying(ss)
    PROVE  \A x \in Range(Silk!Merge(t, name, e).table) : x \in Lying(ss)
<1>. DEFINE T == Silk!SYMBOL_TYPE
            old == t[name]
            Adds(u) == [outcome |-> "ok", table |-> u]
            Fails(o) == [outcome |-> o, table |-> t]
            m == Silk!Merge(t, name, e)
            Good(u) == \A x \in Range(u) : x \in Lying(ss)
            fresh == Silk!FreshName(t, name)
            t1 == Silk!Insert(t, name, e)
            t2 == Silk!Insert(t, fresh, e)
            t3 == Silk!Insert(Silk!Rename(t, name, fresh), name, e)
            t4 == [t EXCEPT ![name].refs = @ \o e.refs]
            t5 == [t EXCEPT ![name] = [e EXCEPT !.refs = old.refs \o @]]
<1>1. m = CASE name \notin DOMAIN t -> Adds(t1)
            [] name \in DOMAIN t /\ e.type = T.I -> Adds(t2)
            [] name \in DOMAIN t /\ e.type # T.I /\ old.type = T.I -> Adds(t3)
            [] name \in DOMAIN t /\ e.type = T.E /\ old.type = T.P -> Adds(t4)
            [] name \in DOMAIN t /\ e.type = T.P /\ old.type = T.E -> Adds(t5)
            [] name \in DOMAIN t /\ e.type = T.P /\ old.type = T.P -> Fails("error")
            [] name \in DOMAIN t /\ e.type = T.E /\ old.type = T.E -> Fails("panic")
  BY Zenon DEF Silk!Merge
<1>2. T.I = 73 /\ T.P = 80 /\ T.E = 69 /\ Range(T) = {73, 80, 69}
  BY DEF Silk!SYMBOL_TYPE, Range
<1>3. \A x \in Lying(ss) : x.type \in {73, 80, 69}
  BY <1>2 DEF Lying, Symbol
<1>. HIDE DEF T, m
<1>4. name \in DOMAIN t => old \in Lying(ss)
  BY DEF Range
<1>. HIDE DEF old
<1>5. Good(t)
  OBVIOUS
<1>6. ASSUME NEW u, Good(u), NEW n PROVE Good(Silk!Insert(u, n, e))
  BY <1>6 DEF Silk!Insert, Range
<1>7. Good(t1) /\ Good(t2)
  BY <1>5, <1>6
<1>8. name \in DOMAIN t => Good(t3)
  <2>1. name \in DOMAIN t => Good(Silk!Rename(t, name, fresh))
    BY DEF Silk!Rename, Range
  <2>. HIDE DEF fresh
  <2>. QED
    BY <1>6, <2>1
<1>9. name \in DOMAIN t => Good(t4)
  <2>1. ASSUME name \in DOMAIN t PROVE Good(t4)
    <3>. DEFINE z == [old EXCEPT !.refs = old.refs \o e.refs]
    <3>1. z \in Lying(ss)
      BY <1>4, <2>1, JoinFacts
    <3>2. DOMAIN t4 = DOMAIN t /\ \A n \in DOMAIN t : t4[n] = IF n = name THEN z ELSE t[n]
      BY <2>1 DEF old
    <3>. HIDE DEF z, t4
    <3>. QED
      BY <3>1, <3>2 DEF Range
  <2>. QED
    BY <2>1
<1>10. name \in DOMAIN t => Good(t5)
  <2>1. ASSUME name \in DOMAIN t PROVE Good(t5)
    <3>. DEFINE z == [e EXCEPT !.refs = old.refs \o e.refs]
    <3>1. z \in Lying(ss)
      BY <1>4, <2>1, JoinFacts
    <3>2. DOMAIN t5 = DOMAIN t /\ \A n \in DOMAIN t : t5[n] = IF n = name THEN z ELSE t[n]
      BY <2>1
    <3>. HIDE DEF z, t5
    <3>. QED
      BY <3>1, <3>2 DEF Range
  <2>. QED
    BY <2>1
<1>11. (\A u : Adds(u).table = u) /\ \A o : Fails(o).table = t
  OBVIOUS
<1>. HIDE DEF t1, t2, t3, t4, t5, Adds, Fails, Good
<1>12. e.type \in {73, 80, 69} /\ (name \in DOMAIN t => old.type \in {73, 80, 69})
  BY <1>3, <1>4
<1>13. CASE name \notin DOMAIN t
  BY <1>1, <1>7, <1>11, <1>13 DEF m, Good
<1>14. CASE name \in DOMAIN t
  <2>1. \/ m = Adds(t2) \/ m = Adds(t3) \/ m = Adds(t4) \/ m = Adds(t5)
        \/ m = Fails("error") \/ m = Fails("panic")
    BY <1>1, <1>2, <1>12, <1>14
  <2>2. Good(m.table)
    BY <1>5, <1>7, <1>8, <1>9, <1>10, <1>11, <1>14, <2>1
  <2>. QED
    BY <2>2 DEF m, Good
<1>. QED
  BY <1>13, <1>14

(* The symbols of an accepted file, in the sections of all files. *)
LEMMA RelocatedFacts ==
    ASSUME NEW ss, Layout(ss), NEW file \in Seq(0..255),
           "ok" \in Silk!ParseOutcomes(file, Silk!ParseFile(file)),
           NEW s \in Range(Silk!ParseFile(file).symbols)
    PROVE  LET parsed == Silk!ParseFile(file)
               by == Silk!SectionsEnd(ss) - parsed.start
           IN  Silk!Relocated(s, by) \in Lying(Silk!AddSections(ss, parsed.sections))
<1>. DEFINE parsed == Silk!ParseFile(file)
            new == parsed.sections
            start == parsed.start
            end == Silk!SectionsEnd(ss)
            by == end - start
            all == Silk!AddSections(ss, new)
            r == Silk!Relocated(s, by)
<1>1. /\ s.type \in Range(Silk!SYMBOL_TYPE) /\ s.value \in Int /\ s.refs \in Seq(Int)
      /\ s.value # Silk!None => s.value - start \in 0..(Silk!SectionsEnd(new) - 1)
      /\ \A k \in DOMAIN s.refs : Inside(new, s.refs[k] - start)
  BY AcceptedFacts
<1>2. start \in Nat /\ Layout(new)
  BY ParseFacts
<1>. HIDE DEF parsed, start, new
<1>3. /\ Silk!SectionsEnd(all) = end + Silk!SectionsEnd(new)
      /\ \A a \in Int : Inside(new, a) => Inside(all, a + end)
      /\ end \in Nat /\ Silk!SectionsEnd(new) \in Nat
  BY <1>2, AddFacts, EndFacts
<1>. HIDE DEF end, all
<1>4. /\ DOMAIN s.refs = 1..Len(s.refs) /\ Len(s.refs) \in Nat
      /\ \A k \in DOMAIN s.refs : s.refs[k] \in Int
  BY <1>1
<1>5. by \in Int /\ \A a \in Int : (a - start) + end = a + by
  BY <1>2, <1>3
<1>. DEFINE value == IF s.value = Silk!None THEN Silk!None ELSE s.value + by
            refs == [k \in DOMAIN s.refs |-> s.refs[k] + by]
<1>6. r = [type |-> s.type, value |-> value, refs |-> refs]
  BY Zenon DEF Silk!Relocated
<1>7. value \in Int /\ (value # Silk!None => value \in 0..(Silk!SectionsEnd(all) - 1))
  <2>1. CASE s.value = Silk!None
    BY <2>1 DEF Silk!None
  <2>2. CASE s.value # Silk!None
    <3>1. s.value - start \in 0..(Silk!SectionsEnd(new) - 1) /\ value = (s.value - start) + end
      BY <1>1, <1>5, <2>2
    <3>2. s.value - start \in Int
      BY <1>1, <1>2
    <3>. QED
      BY <1>3, <3>1, <3>2
  <2>. QED
    BY <2>1, <2>2
<1>. HIDE DEF by
<1>8. refs \in Seq(Int) /\ DOMAIN refs = DOMAIN s.refs /\ \A k \in DOMAIN refs : Inside(all, refs[k])
  <2>1. ASSUME NEW k \in DOMAIN s.refs PROVE s.refs[k] + by \in Int
    <3>1. s.refs[k] \in Int /\ by \in Int
      BY <1>4, <1>5
    <3>. QED
      BY <3>1
  <2>2. refs \in Seq(Int)
    <3>. DEFINE n == Len(s.refs)
                at == [k \in 1..n |-> s.refs[k] + by]
    <3>1. refs = at
      BY <1>4
    <3>. HIDE DEF n
    <3>2. n \in Nat /\ \A k \in 1..n : s.refs[k] + by \in Int
      BY <1>4, <2>1 DEF n
    <3>3. at \in [1..n -> Int]
      BY <3>2
    <3>. HIDE DEF at
    <3>. QED
      BY <3>1, <3>2, <3>3
  <2>3. ASSUME NEW k \in DOMAIN s.refs PROVE Inside(all, s.refs[k] + by)
    <3>1. s.refs[k] \in Int /\ s.refs[k] - start \in Int
      BY <1>2, <1>4
    <3>2. Inside(all, (s.refs[k] - start) + end)
      BY <1>1, <1>3, <3>1
    <3>3. (s.refs[k] - start) + end = s.refs[k] + by
      BY <1>5, <3>1
    <3>. QED
      BY <3>2, <3>3
  <2>. QED
    BY <2>2, <2>3
<1>. HIDE DEF value, refs, r
<1>9. r \in Symbol /\ r.value = value /\ r.refs = refs
  BY <1>1, <1>6, <1>7, <1>8 DEF Symbol
<1>10. r \in Lying(all)
  BY <1>7, <1>8, <1>9 DEF Lying
<1>. QED
  BY <1>10 DEF r, all, new, by, end, start, parsed

(* Sections with other data, and the writing of references one by one *)
With(ss, d) == [k \in DOMAIN ss |-> [ss[k] EXCEPT !.data = d[k]]]
Written(ss, e, mv, st, k) ==
    IF st.outcome = "ok" THEN Silk!WriteReference(st, ss, e.refs[k], e.value, mv) ELSE st
Unwritten(ss) == [outcome |-> "ok", data |-> [s \in DOMAIN ss |-> ss[s].data]]
Steps(ss, e, mv) ==
    CHOOSE f : f = [k \in 0..Len(e.refs) |->
                      IF k = 0 THEN Unwritten(ss) ELSE Written(ss, e, mv, f[k - 1], k)]

(* What writing them one by one comes to is what the linker makes of them. *)
LEMMA ResolvedFacts ==
    ASSUME NEW ss, NEW e, NEW mv
    PROVE  LET last == Steps(ss, e, mv)[Len(e.refs)]
           IN  Silk!ResolveReferences(ss, e, mv) = [outcome |-> last.outcome,
                                                    sections |-> With(ss, last.data)]
BY Zenon DEF Silk!ResolveReferences, Steps, Written, Unwritten, With

(* Sections whose data change stay where they are. *)
LEMMA DataFacts ==
    ASSUME NEW ss, Layout(ss), NEW d
    PROVE  LET new == With(ss, d)
           IN  /\ Layout(new)
               /\ Silk!SectionsEnd(new) = Silk!SectionsEnd(ss)
               /\ \A a : Inside(ss, a) => Inside(new, a)
<1>. DEFINE n == Len(ss)
            new == With(ss, d)
<1>1. /\ n \in Nat /\ DOMAIN ss = 1..n
      /\ Silk!SectionsEnd(ss) = IF n = 0 THEN 0 ELSE ss[n].start + ss[n].length
  BY EndFacts
<1>. HIDE DEF n
<1>2. \A k \in 1..n : /\ {"start", "length"} \subseteq DOMAIN ss[k]
                      /\ ss[k].start \in Nat /\ ss[k].length \in Nat
                      /\ ss[k].start = IF k = 1 THEN 0 ELSE ss[k - 1].start + ss[k - 1].length
  BY <1>1 DEF Layout
<1>3. ASSUME NEW k \in 1..n
      PROVE  /\ {"start", "length"} \subseteq DOMAIN new[k]
             /\ new[k].start = ss[k].start /\ new[k].length = ss[k].length
  <2>1. new[k] = [ss[k] EXCEPT !.data = d[k]]
    BY <1>1 DEF With
  <2>. HIDE DEF new
  <2>2. {"start", "length"} \subseteq DOMAIN ss[k]
    BY <1>2
  <2>. QED
    BY <2>1, <2>2
<1>4. DOMAIN new = 1..n /\ new = [k \in 1..n |-> new[k]]
  BY <1>1 DEF With
<1>. HIDE DEF new
<1>5. new \in Seq(Range(new)) /\ Len(new) = n
  BY <1>1, <1>4, RangeSeq
<1>6. ASSUME NEW k \in 1..n
      PROVE  /\ {"start", "length"} \subseteq DOMAIN new[k]
             /\ new[k].start \in Nat /\ new[k].length \in Nat
             /\ new[k].start = IF k = 1 THEN 0 ELSE new[k - 1].start + new[k - 1].length
  <2>1. k # 1 => k - 1 \in 1..n
    BY <1>1
  <2>. QED
    BY <1>2, <1>3, <2>1
<1>7. Layout(new)
  BY <1>1, <1>4, <1>5, <1>6, LayoutFrom
<1>8. Silk!SectionsEnd(new) = Silk!SectionsEnd(ss)
  <2>1. Silk!SectionsEnd(new) = IF n = 0 THEN 0 ELSE new[n].start + new[n].length
    BY <1>5, <1>7, EndFacts
  <2>2. n # 0 => n \in 1..n
    BY <1>1
  <2>. QED
    BY <1>1, <1>3, <2>1, <2>2
<1>9. ASSUME NEW a, Inside(ss, a) PROVE Inside(new, a)
  <2>1. PICK k \in 1..n : ss[k].start <= a /\ a + 3 < ss[k].start + ss[k].length
    BY <1>1, <1>9 DEF Inside
  <2>. QED
    BY <1>3, <1>4, <2>1 DEF Inside
<1>. QED
  BY <1>7, <1>8, <1>9 DEF new

-----------------------------------------------------------------------------
(***************************************************************************)
(* The invariant.                                                          *)
(***************************************************************************)
Good == \A e \in Range(table) \cup Range(pending) : Placed(e)

(* While the files are combined, the addresses are already those of the    *)
(* sections.                                                               *)
LEMMA CombinePlaced ==
    ASSUME pc = "combine", NEW e
    PROVE  Placed(e) <=> e \in Lying(sections)
<1>1. \A a : Now(a) = a
  BY DEF Now
<1>. QED
  BY <1>1 DEF Placed, Lying

(* and so it is after a step. *)
LEMMA CombinePlacedNext ==
    ASSUME pc' = "combine", NEW e
    PROVE  Placed(e)' <=> e \in Lying(sections')
<1>1. \A a : Now(a)' = a
  BY DEF Now
<1>. QED
  BY <1>1 DEF Placed, Lying

(* What a step must establish where it leaves the files behind. *)
LEMMA DoneKeeps ==
    ASSUME LinkInv, pc' = "done", UNCHANGED <<project, move>>
    PROVE  LinkInv'
BY DEF LinkInv

(* The steps, one by one *)
LEMMA AssembleKeeps ==
    ASSUME LinkInv, Assemble
    PROVE  LinkInv'
<1>1. UNCHANGED <<project, move, sections, table, pending>> /\ pc = "assemble"
  BY DEF Assemble
<1>2. pc' = "assemble" \/ pc' = "done"
  BY DEF Assemble, Stop
<1>3. CASE pc' = "assemble"
  BY <1>1, <1>3 DEF LinkInv
<1>4. CASE pc' = "done"
  BY <1>1, <1>4, DoneKeeps
<1>. QED
  BY <1>2, <1>3, <1>4

(* The linker begins. *)
LEMMA StartLinkingKeeps ==
    ASSUME LinkInv, ObjectsAreBytes, StartLinking
    PROVE  LinkInv'
<1>1. UNCHANGED <<project, move, sections, table, pending>> /\ pc = "assemble"
  BY DEF StartLinking
<1>2. CASE Len(objects) < Len(project.files)
  BY <1>1, <1>2, DoneKeeps DEF StartLinking, Stop
<1>3. CASE ~(Len(objects) < Len(project.files))
  <2>. DEFINE files == objects \o project.raw
              n == Len(files)
  <2>1. PICK p \in Bijection(DOMAIN files, DOMAIN files) :
              order' = [k \in DOMAIN files |-> files[p[k]]]
    BY <1>3 DEF StartLinking
  <2>2. todo' = order' /\ pc' = "combine"
    BY <1>3 DEF StartLinking
  <2>3. files \in Seq(Linkable)
    BY DEF LinkInv, ObjectsAreBytes
  <2>4. p \in [DOMAIN files -> DOMAIN files]
    BY <2>1 DEF Bijection, Injection, Surjection
  <2>5. todo' \in Seq(Linkable)
    <3>. HIDE DEF files
    <3>1. n \in Nat /\ DOMAIN files = 1..n /\ \A k \in 1..n : files[k] \in Linkable
      BY <2>3
    <3>2. \A k \in 1..n : files[p[k]] \in Linkable
      BY <2>4, <3>1
    <3>3. todo' = [k \in 1..n |-> files[p[k]]]
      BY <2>1, <2>2, <3>1
    <3>4. todo' \in [1..n -> Linkable]
      BY <3>2, <3>3
    <3>. QED
      BY <3>1, <3>4
  <2>6. sections' = <<>> /\ table' = <<>> /\ pending' = <<>>
    BY <1>1 DEF LinkInv
  <2>7. Layout(sections')
    <3>1. <<>> \in Seq(Range(<<>>)) /\ DOMAIN <<>> = {}
      OBVIOUS
    <3>. QED
      BY <2>6, <3>1 DEF Layout
  <2>8. Range(table') \cup Range(pending') = {}
    BY <2>6 DEF Range
  <2>. QED
    BY <1>1, <2>2, <2>5, <2>7, <2>8 DEF LinkInv
<1>. QED
  BY <1>2, <1>3

(* A file is added. *)
LEMMA AddObjectsKeeps ==
    ASSUME LinkInv, AddObjects
    PROVE  LinkInv'
<1>. DEFINE file == Head(todo).file
            parsed == Silk!ParseFile(file)
            by == Silk!SectionsEnd(sections) - parsed.start
            all == Silk!AddSections(sections, parsed.sections)
            moved(n) == Silk!Relocated(ByName(parsed.symbols)[n], by)
<1>1. UNCHANGED <<project, move, table>> /\ pc = "combine" /\ todo' = Tail(todo) /\ todo # <<>>
  BY DEF AddObjects
<1>2. PICK o \in Silk!ParseOutcomes(file, parsed) :
        IF o = "ok"
          THEN /\ sections' = all
               /\ pending' = [n \in NamesOf(parsed.symbols) |-> moved(n)]
               /\ UNCHANGED <<pc, result>>
          ELSE Stop(o) /\ UNCHANGED <<sections, pending>>
  BY Zenon DEF AddObjects
<1>3. todo \in Seq(Linkable) /\ Layout(sections) /\ Good
  BY <1>1 DEF LinkInv, Good
<1>4. file \in Seq(0..255) /\ Tail(todo) \in Seq(Linkable)
  <2>1. Head(todo) \in Linkable /\ Tail(todo) \in Seq(Linkable)
    BY <1>1, <1>3
  <2>. QED
    BY <2>1 DEF Linkable
<1>5. CASE o = "ok"
  <2>. HIDE DEF file
  <2>1. /\ sections' = all /\ pc' = "combine"
        /\ pending' = [n \in NamesOf(parsed.symbols) |-> moved(n)]
        /\ "ok" \in Silk!ParseOutcomes(file, parsed)
    BY <1>1, <1>2, <1>5
  <2>2. Layout(parsed.sections)
    BY <1>4, ParseFacts
  <2>3. Layout(all) /\ \A a \in Int : Inside(sections, a) => Inside(all, a)
    BY <1>3, <2>2, AddFacts
  <2>4. Silk!SectionsEnd(all) >= Silk!SectionsEnd(sections) /\ Silk!SectionsEnd(all) \in Nat
        /\ Silk!SectionsEnd(sections) \in Nat
    <3>1. /\ Silk!SectionsEnd(all) = Silk!SectionsEnd(sections) + Silk!SectionsEnd(parsed.sections)
          /\ Silk!SectionsEnd(sections) \in Nat /\ Silk!SectionsEnd(parsed.sections) \in Nat
      BY <1>3, <2>2, AddFacts, EndFacts
    <3>. QED
      BY <3>1
  <2>5. ASSUME NEW e \in Range(table') PROVE e \in Lying(all)
    <3>1. e \in Lying(sections)
      BY <1>1, <1>3, CombinePlaced DEF Good
    <3>2. e \in Symbol /\ \A k \in DOMAIN e.refs : e.refs[k] \in Int
      BY <3>1 DEF Lying, Symbol
    <3>3. \A k \in DOMAIN e.refs : Inside(all, e.refs[k])
      BY <2>3, <3>1, <3>2 DEF Lying
    <3>4. e.value # Silk!None => e.value \in 0..(Silk!SectionsEnd(all) - 1)
      BY <2>4, <3>1 DEF Lying
    <3>. HIDE DEF all
    <3>. QED
      BY <3>2, <3>3, <3>4 DEF Lying
  <2>6. ASSUME NEW n \in NamesOf(parsed.symbols) PROVE moved(n) \in Lying(all)
    <3>. DEFINE s == ByName(parsed.symbols)[n]
    <3>1. s \in Range(parsed.symbols)
      <4>. DEFINE ls == parsed.symbols
      <4>. HIDE DEF ls
      <4>1. \E d \in Range(ls) : d.name = n
        BY DEF NamesOf, Range, ls
      <4>2. ByName(ls)[n] \in Range(ls)
        BY <4>1 DEF ByName, ls
      <4>. QED
        BY <4>2 DEF ls
    <3>. HIDE DEF s
    <3>2. Silk!Relocated(s, by) \in Lying(all)
      BY <1>3, <1>4, <2>1, <3>1, RelocatedFacts
    <3>. QED
      BY <3>2 DEF s
  <2>. HIDE DEF all, moved, parsed
  <2>7. \A e \in Range(pending') : e \in Lying(all)
    BY <2>1, <2>6 DEF Range
  <2>8. Good'
    BY <2>1, <2>5, <2>7, CombinePlacedNext DEF Good
  <2>. QED
    BY <1>1, <1>4, <2>1, <2>3, <2>8 DEF LinkInv, Good
<1>6. CASE o # "ok"
  BY <1>1, <1>2, <1>6, DoneKeeps DEF Stop
<1>. QED
  BY <1>5, <1>6

(* A symbol that the current loop is done with. *)
LEMMA TakenFacts ==
    ASSUME NEW f, NEW n, NEW g, g = [k \in DOMAIN f \ {n} |-> f[k]]
    PROVE  Range(g) \subseteq Range(f)
BY DEF Range

(* A symbol is merged. *)
LEMMA MergeSymbolKeeps ==
    ASSUME LinkInv, MergeSymbol
    PROVE  LinkInv'
<1>1. UNCHANGED <<project, move, todo, sections>> /\ pc = "combine"
  BY DEF MergeSymbol
<1>2. PICK n \in DOMAIN pending :
        /\ pending' = [k \in DOMAIN pending \ {n} |-> pending[k]]
        /\ table' = Silk!Merge(table, n, pending[n]).table
        /\ IF Silk!Merge(table, n, pending[n]).outcome = "ok"
             THEN UNCHANGED <<pc, result>>
             ELSE Stop(Silk!Merge(table, n, pending[n]).outcome)
  BY Zenon DEF MergeSymbol
<1>3. pc' = "combine" \/ pc' = "done"
  BY <1>1, <1>2 DEF Stop
<1>4. CASE pc' = "combine"
  <2>1. todo \in Seq(Linkable) /\ Layout(sections) /\ Good
    BY <1>1 DEF LinkInv, Good
  <2>2. \A e \in Range(table) \cup Range(pending) : e \in Lying(sections)
    BY <1>1, <2>1, CombinePlaced DEF Good
  <2>3. pending[n] \in Lying(sections)
    BY <2>2 DEF Range
  <2>4. \A e \in Range(table') : e \in Lying(sections)
    BY <1>2, <2>2, <2>3, MergeFacts
  <2>5. Range(pending') \subseteq Range(pending)
    BY <1>2, TakenFacts
  <2>6. Good'
    BY <1>1, <1>4, <2>2, <2>4, <2>5, CombinePlacedNext DEF Good
  <2>. QED
    BY <1>1, <1>4, <2>1, <2>6 DEF LinkInv, Good
<1>5. CASE pc' = "done"
  BY <1>1, <1>5, DoneKeeps
<1>. QED
  BY <1>3, <1>4, <1>5

(* The image begins. *)
LEMMA StartImageKeeps ==
    ASSUME LinkInv, StartImage
    PROVE  LinkInv'
<1>. DEFINE accepted == Silk!FlagsAccepted(sections, project.target = "ROM")
            entry == CHOOSE k \in Silk!EntryPoints(sections) : TRUE
<1>1. UNCHANGED <<project, table>> /\ pc = "combine"
  BY DEF StartImage
<1>2. Layout(sections) /\ Good
  BY <1>1 DEF LinkInv, Good
<1>3. CASE accepted
  <2>1. /\ sections' = Silk!MoveToStart(sections, entry)
        /\ pending' = table /\ pc' = "resolve"
        /\ move'.cutoff = sections[entry].start /\ move'.offset = sections[entry].length
        /\ move'.base = IF project.target = "ROM" THEN Silk!ROM_BASE ELSE Silk!DISK_BASE
    BY <1>3 DEF StartImage
  <2>2. entry \in DOMAIN sections
    <3>1. PICK k \in DOMAIN sections : Silk!EntryPoints(sections) = {k}
      BY <1>3 DEF Silk!FlagsAccepted
    <3>. QED
      BY <3>1
  <2>. HIDE DEF accepted, entry
  <2>. DEFINE To(a) == Silk!Relocate(a, sections[entry].start, sections[entry].length)
              end == Silk!SectionsEnd(sections)
  <2>3. /\ Layout(sections') /\ Silk!SectionsEnd(sections') = end
        /\ \A a \in 0..(end - 1) : To(a) \in 0..(end - 1)
        /\ \A a \in Int : Inside(sections, a) => Inside(sections', To(a))
    BY <1>2, <2>1, <2>2, MoveFacts
  <2>4. \A a : Now(a)' = To(a)
    BY <2>1 DEF Now
  <2>5. sections[entry].start \in Nat /\ sections[entry].length \in Nat
    BY <1>2, <2>2 DEF Layout
  <2>. HIDE DEF To, end
  <2>6. ASSUME NEW e \in Range(table) PROVE Placed(e)'
    <3>1. e \in Lying(sections)
      BY <1>1, <1>2, CombinePlaced DEF Good
    <3>2. e \in Symbol /\ \A k \in DOMAIN e.refs : e.refs[k] \in Int
      BY <3>1 DEF Lying, Symbol
    <3>3. \A k \in DOMAIN e.refs : Inside(sections', To(e.refs[k]))
      BY <2>3, <3>1, <3>2 DEF Lying
    <3>4. e.value # Silk!None => To(e.value) \in 0..(end - 1)
      BY <2>3, <3>1 DEF Lying, end
    <3>. QED
      BY <2>3, <2>4, <3>2, <3>3, <3>4 DEF Placed
  <2>7. \A e \in Range(table') \cup Range(pending') : Placed(e)'
    BY <1>1, <2>1, <2>6
  <2>8. move'.base \in Nat
    BY <2>1 DEF Silk!ROM_BASE, Silk!DISK_BASE
  <2>. QED
    BY <1>1, <2>1, <2>3, <2>5, <2>7, <2>8 DEF LinkInv
<1>4. CASE ~accepted
  BY <1>1, <1>4, DoneKeeps DEF StartImage, Stop
<1>. QED
  BY <1>3, <1>4

(* The references of a symbol are written. *)
LEMMA ResolveSymbolKeeps ==
    ASSUME LinkInv, ResolveSymbol
    PROVE  LinkInv'
<1>1. UNCHANGED <<project, move, table>> /\ pc = "resolve"
  BY DEF ResolveSymbol
<1>2. PICK n \in DOMAIN pending :
        IF pending[n].value = Silk!None
          THEN Stop("error") /\ UNCHANGED <<sections, pending>>
          ELSE /\ sections' = Silk!ResolveReferences(sections, pending[n], move).sections
               /\ pending' = [k \in DOMAIN pending \ {n} |-> pending[k]]
               /\ IF Silk!ResolveReferences(sections, pending[n], move).outcome = "ok"
                    THEN UNCHANGED <<pc, result>>
                    ELSE Stop(Silk!ResolveReferences(sections, pending[n], move).outcome)
  BY Zenon DEF ResolveSymbol
<1>3. pc' = "resolve" \/ pc' = "done"
  BY <1>1, <1>2 DEF Stop
<1>4. CASE pc' = "resolve"
  <2>1. /\ sections' = Silk!ResolveReferences(sections, pending[n], move).sections
        /\ pending' = [k \in DOMAIN pending \ {n} |-> pending[k]]
    BY <1>2, <1>4 DEF Stop
  <2>2. Layout(sections) /\ Good
    BY <1>1 DEF LinkInv, Good
  <2>3. PICK d : sections' = With(sections, d)
    <3>1. \E d : Silk!ResolveReferences(sections, pending[n], move).sections = With(sections, d)
      BY ResolvedFacts
    <3>. QED
      BY <2>1, <3>1
  <2>4. /\ Layout(sections') /\ Silk!SectionsEnd(sections') = Silk!SectionsEnd(sections)
        /\ \A a : Inside(sections, a) => Inside(sections', a)
    BY <2>2, <2>3, DataFacts
  <2>5. \A a : Now(a)' = Now(a)
    BY <1>1, <1>4 DEF Now
  <2>6. ASSUME NEW e, Placed(e) PROVE Placed(e)'
    BY <2>4, <2>5, <2>6 DEF Placed
  <2>7. Range(pending') \subseteq Range(pending)
    BY <2>1, TakenFacts
  <2>8. \A e \in Range(table') \cup Range(pending') : Placed(e)'
    BY <1>1, <2>2, <2>6, <2>7 DEF Good
  <2>. QED
    BY <1>1, <1>4, <2>4, <2>8 DEF LinkInv
<1>5. CASE pc' = "done"
  BY <1>1, <1>5, DoneKeeps
<1>. QED
  BY <1>3, <1>4, <1>5

(* Every step of the toolchain keeps the invariant. *)
LEMMA LinkInvKept == LinkInv /\ ObjectsAreBytes /\ [Next]_vars => LinkInv'
<1>. SUFFICES ASSUME LinkInv, ObjectsAreBytes, [Next]_vars PROVE LinkInv'
  OBVIOUS
<1>1. CASE Assemble
  BY <1>1, AssembleKeeps
<1>2. CASE StartLinking
  BY <1>2, StartLinkingKeeps
<1>3. CASE AddObjects
  BY <1>3, AddObjectsKeeps
<1>4. CASE MergeSymbol
  BY <1>4, MergeSymbolKeeps
<1>5. CASE StartImage
  BY <1>5, StartImageKeeps
<1>6. CASE ResolveSymbol
  BY <1>6, ResolveSymbolKeeps
<1>7. CASE WriteImage
  BY <1>7, DoneKeeps DEF WriteImage
<1>8. CASE UNCHANGED vars
  <2>1. UNCHANGED <<project, pc, todo, sections, table, pending, move>>
    BY <1>8 DEF vars
  <2>2. \A e : Placed(e)' <=> Placed(e)
    BY <2>1 DEF Placed, Now
  <2>. QED
    BY <2>1, <2>2 DEF LinkInv
<1>. QED
  BY <1>1, <1>2, <1>3, <1>4, <1>5, <1>6, <1>7, <1>8 DEF Next

(* The invariant says what it is for. *)
LEMMA LinkInvSuffices == LinkInv => AddressesValid
<1>. SUFFICES ASSUME LinkInv, pc \in {"combine", "resolve"}, NEW e \in Range(table) \cup Range(pending)
              PROVE  /\ e.value # Silk!None => Now(e.value) \in 0..(Silk!SectionsEnd(sections) - 1)
                     /\ \A k \in DOMAIN e.refs :
                          LET s == Silk!Find(sections, Now(e.refs[k]))
                          IN  /\ s # 0
                              /\ Now(e.refs[k]) + 3 < sections[s].start + sections[s].length
  BY Zenon DEF AddressesValid
<1>1. Placed(e) /\ Layout(sections) /\ move.cutoff \in Nat /\ move.offset \in Nat
  BY DEF LinkInv
<1>2. ASSUME NEW a \in Int PROVE Now(a) \in Int
  BY <1>1 DEF Now, Silk!Relocate
<1>3. ASSUME NEW k \in DOMAIN e.refs
      PROVE  LET s == Silk!Find(sections, Now(e.refs[k]))
             IN  /\ s # 0
                 /\ Now(e.refs[k]) + 3 < sections[s].start + sections[s].length
  <2>1. e.refs[k] \in Int /\ Inside(sections, Now(e.refs[k]))
    BY <1>1 DEF Placed, Symbol
  <2>2. Now(e.refs[k]) \in Int
    BY <1>2, <2>1
  <2>. QED
    BY <1>1, <2>1, <2>2, FindFacts
<1>. QED
  BY <1>1, <1>3 DEF Placed

(***************************************************************************)
(* The linker knows where every reference it still has to write lies, and  *)
(* every value, through add_objects, the merging of symbols in any order   *)
(* and the relocation of the entry section, whatever the project and its   *)
(* foreign object files: the "BUG: an invalid reference escaped the        *)
(* parsing stage" of link_as_image is never the place that was not found.  *)
(***************************************************************************)
THEOREM ReferencesHavePlaces == Spec => []AddressesValid
<1>1. Init => LinkInv
  <2>. SUFFICES ASSUME Init PROVE LinkInv
    OBVIOUS
  <2>1. project.raw \in Seq(Linkable)
    BY ProjectsAssumption DEF Init
  <2>. QED
    BY <2>1 DEF Init, LinkInv
<1>2. LinkInv /\ ObjectsAreBytes /\ [Next]_vars => LinkInv'
  BY LinkInvKept
<1>3. LinkInv => AddressesValid
  BY LinkInvSuffices
<1>. QED
  BY <1>1, <1>2, <1>3, ObjectFilesAreBytes, PTL DEF Spec

-----------------------------------------------------------------------------
(***************************************************************************)
(* The bytes of the sections, moved and written to the image.              *)
(***************************************************************************)

(* An address lies in one section. *)
LEMMA OneSection ==
    ASSUME NEW ss, Layout(ss), NEW a \in Int, NEW j \in DOMAIN ss, NEW k \in DOMAIN ss,
           ss[j].start <= a, a < ss[j].start + ss[j].length,
           ss[k].start <= a, a < ss[k].start + ss[k].length
    PROVE  j = k
<1>1. /\ DOMAIN ss = 1..Len(ss) /\ Len(ss) \in Nat
      /\ \A i \in DOMAIN ss : ss[i].start \in Nat /\ ss[i].length \in Nat
  BY EndFacts DEF Layout
<1>2. ~(j < k)
  BY <1>1 DEF Layout
<1>3. ~(k < j)
  BY <1>1 DEF Layout
<1>. QED
  BY <1>1, <1>2, <1>3

(* An address lies at most in one place, and holds one byte. *)
LEMMA ByteFacts ==
    ASSUME NEW ss, Layout(ss), NEW a \in Int, NEW k \in DOMAIN ss,
           ss[k].start <= a, a < ss[k].start + ss[k].length,
           NEW b, ByteAt(ss, a, b)
    PROVE  ss[k].data[a - ss[k].start + 1] = b
<1>1. PICK j \in DOMAIN ss : /\ ss[j].start <= a /\ a < ss[j].start + ss[j].length
                             /\ ss[j].data[a - ss[j].start + 1] = b
  BY DEF ByteAt
<1>2. j = k
  BY <1>1, OneSection
<1>. QED
  BY <1>1, <1>2

(* Two lists of numbers, one after the other *)
LEMMA JoinedLists ==
    ASSUME NEW x \in Seq(Int), NEW y \in Seq(Int)
    PROVE  /\ x \o y \in Seq(Int) /\ Len(x \o y) = Len(x) + Len(y)
           /\ \A i \in 1..Len(x) : (x \o y)[i] = x[i]
           /\ \A i \in 1..Len(y) : (x \o y)[Len(x) + i] = y[i]
<1>1. /\ x \o y \in Seq(Int) /\ Len(x \o y) = Len(x) + Len(y)
      /\ \A i \in 1..(Len(x) + Len(y)) :
           (x \o y)[i] = IF i <= Len(x) THEN x[i] ELSE y[i - Len(x)]
  BY ConcatProperties
<1>2. Len(x) \in Nat /\ Len(y) \in Nat
  OBVIOUS
<1>3. ASSUME NEW i \in 1..Len(x) PROVE (x \o y)[i] = x[i]
  BY <1>1, <1>2
<1>4. ASSUME NEW i \in 1..Len(y) PROVE (x \o y)[Len(x) + i] = y[i]
  <2>1. Len(x) + i \in 1..(Len(x) + Len(y)) /\ ~(Len(x) + i <= Len(x)) /\ Len(x) + i - Len(x) = i
    BY <1>2
  <2>. QED
    BY <1>1, <2>1
<1>. QED
  BY <1>1, <1>3, <1>4

(* The sections one after the other hold each byte at its address. *)
LEMMA ConcatenateFacts ==
    ASSUME NEW ss, Layout(ss), Solid(ss)
    PROVE  LET image == Silk!Concatenate(ss)
           IN  /\ image \in Seq(Int) /\ Len(image) = Silk!SectionsEnd(ss)
               /\ \A a \in Int : \A b : ByteAt(ss, a, b) =>
                    a \in 0..(Silk!SectionsEnd(ss) - 1) /\ image[a + 1] = b
<1>. DEFINE n == Len(ss)
            seqs == [k \in DOMAIN ss |-> ss[k].data]
            image == Silk!Concatenate(ss)
            f == Flat(seqs)
            Up(k) == ss[k].start + ss[k].length
<1>1. /\ n \in Nat /\ DOMAIN ss = 1..n
      /\ Silk!SectionsEnd(ss) = IF n = 0 THEN 0 ELSE Up(n)
      /\ Silk!SectionsEnd(ss) \in Nat
      /\ \A k \in 1..n : Up(k) <= Silk!SectionsEnd(ss)
  BY EndFacts
<1>. HIDE DEF n
<1>2. \A k \in 1..n : /\ ss[k].start \in Nat /\ ss[k].length \in Nat
                      /\ ss[k].start = IF k = 1 THEN 0 ELSE Up(k - 1)
  BY <1>1 DEF Layout
<1>3. ASSUME NEW k \in 1..n
      PROVE  seqs[k] = ss[k].data /\ seqs[k] \in Seq(Int) /\ Len(seqs[k]) = ss[k].length
  <2>1. k \in DOMAIN ss
    BY <1>1
  <2>2. ss[k].data \in Seq(Int) /\ Len(ss[k].data) = ss[k].length
    BY <2>1 DEF Solid, Section
  <2>. QED
    BY <2>1, <2>2
<1>4. seqs = [k \in 1..n |-> seqs[k]] /\ (n = 0 => seqs = <<>>)
  BY <1>1
<1>5. image = Silk!FlattenSeq(seqs)
  BY DEF Silk!Concatenate
<1>. HIDE DEF seqs
<1>6. Len(seqs) = n
  BY <1>1, <1>4, RangeSeq
<1>7. /\ image = IF n = 0 THEN seqs ELSE f[n]
      /\ \A k \in 1..n : f[k] = IF k = 1 THEN seqs[k] ELSE f[k - 1] \o seqs[k]
  <2>1. Lists(Int, seqs, n)
    BY <1>3, <1>6 DEF Lists
  <2>. QED
    BY <1>1, <1>5, <2>1, FlattenFacts
<1>8. \A k \in 1..n : Up(k) \in Nat
  BY <1>2
<1>81. \A j, k \in 1..n : j <= k => Up(j) <= Up(k)
  <2>. SUFFICES ASSUME NEW j \in 1..n, NEW k \in 1..n, j <= k PROVE Up(j) <= Up(k)
    OBVIOUS
  <2>0. ss[j].start \in Nat /\ ss[j].length \in Nat /\ ss[k].start \in Nat /\ ss[k].length \in Nat
    BY <1>2
  <2>1. CASE j = k
    BY <2>0, <2>1
  <2>2. CASE j < k
    <3>1. Up(j) <= ss[k].start
      BY <1>1, <2>2 DEF Layout
    <3>. QED
      BY <2>0, <3>1
  <2>. QED
    BY <1>1, <2>1, <2>2
<1>. HIDE DEF image, f, Up
<1>9. CASE n = 0
  <2>1. image = <<>>
    BY <1>4, <1>7, <1>9
  <2>. QED
    BY <1>1, <1>9, <2>1 DEF ByteAt, image
<1>10. CASE n # 0
  <2>. DEFINE Kept(k) == \A j \in 1..k : \A i \in 1..ss[j].length :
                              f[k][ss[j].start + i] = ss[j].data[i]
              Holds(k) == f[k] \in Seq(Int) /\ Len(f[k]) = Up(k) /\ Kept(k)
              T == {k \in 0..n : k = 0 \/ Holds(k)}
  <2>1. 0 \in T
    BY <1>1
  <2>2. ASSUME NEW k \in 0..(n - 1), k = 0 \/ Holds(k) PROVE Holds(k + 1)
    <3>. DEFINE m == k + 1
    <3>1. m \in 1..n /\ m - 1 = k /\ (m = 1 <=> k = 0) /\ (k # 0 => k \in 1..n)
      BY <1>1
    <3>. HIDE DEF m
    <3>2. /\ seqs[m] = ss[m].data /\ seqs[m] \in Seq(Int) /\ Len(seqs[m]) = ss[m].length
          /\ ss[m].length \in Nat /\ ss[m].start \in Nat
      BY <1>2, <1>3, <3>1
    <3>3. CASE k = 0
      <4>1. f[m] = seqs[m] /\ ss[m].start = 0
        BY <1>2, <1>7, <3>1, <3>3
      <4>2. Up(m) = ss[m].length
        BY <3>2, <4>1 DEF Up
      <4>3. ASSUME NEW j \in 1..m, NEW i \in 1..ss[j].length
            PROVE  f[m][ss[j].start + i] = ss[j].data[i]
        <5>1. j = m
          BY <3>1, <3>3
        <5>2. i \in 1..ss[m].length /\ ss[m].start + i = i
          BY <3>2, <4>1, <5>1
        <5>. QED
          BY <3>2, <4>1, <5>1, <5>2
      <4>. QED
        BY <3>2, <4>1, <4>2, <4>3 DEF m
    <3>4. CASE k # 0
      <4>1. f[m] = f[k] \o seqs[m] /\ ss[m].start = Up(k) /\ Up(k) \in Nat
        BY <1>2, <1>7, <1>8, <3>1, <3>4
      <4>2. f[k] \in Seq(Int) /\ Len(f[k]) = Up(k) /\ Kept(k)
        BY <2>2, <3>4
      <4>. HIDE DEF Kept
      <4>3. /\ f[m] \in Seq(Int) /\ Len(f[m]) = Up(k) + ss[m].length
            /\ \A i \in 1..Up(k) : f[m][i] = f[k][i]
            /\ \A i \in 1..ss[m].length : f[m][Up(k) + i] = seqs[m][i]
        <5>. DEFINE x == f[k]
                    y == seqs[m]
                    u == Up(k)
                    l == ss[m].length
        <5>1. x \in Seq(Int) /\ y \in Seq(Int) /\ Len(x) = u /\ Len(y) = l
          BY <3>2, <4>1, <4>2
        <5>. HIDE DEF x, y, u, l
        <5>3. /\ x \o y \in Seq(Int) /\ Len(x \o y) = Len(x) + Len(y)
              /\ \A i \in 1..Len(x) : (x \o y)[i] = x[i]
              /\ \A i \in 1..Len(y) : (x \o y)[Len(x) + i] = y[i]
          <6>1. x \in Seq(Int) /\ y \in Seq(Int)
            BY <5>1
          <6>. QED
            BY ONLY <6>1, JoinedLists
        <5>2. /\ x \o y \in Seq(Int) /\ Len(x \o y) = u + l
              /\ \A i \in 1..u : (x \o y)[i] = x[i]
              /\ \A i \in 1..l : (x \o y)[u + i] = y[i]
          <6>1. Len(x) = u /\ Len(y) = l
            BY <5>1
          <6>. QED
            BY ONLY <5>3, <6>1
        <5>. QED
          BY <4>1, <5>2 DEF x, y, u, l
      <4>4. Up(m) = Up(k) + ss[m].length
        BY <4>1 DEF Up
      <4>5. ASSUME NEW j \in 1..m, NEW i \in 1..ss[j].length
            PROVE  f[m][ss[j].start + i] = ss[j].data[i]
        <5>1. CASE j = m
          BY <3>2, <4>1, <4>3, <5>1
        <5>2. CASE j # m
          <6>1. j \in 1..k /\ j \in 1..n /\ j <= k /\ k \in 1..n
            BY <1>1, <3>1, <3>4, <5>2 DEF m
          <6>2. f[k][ss[j].start + i] = ss[j].data[i]
            BY <4>2, <6>1 DEF Kept
          <6>3. ss[j].start \in Nat /\ ss[j].length \in Nat /\ ss[j].start + ss[j].length <= Up(k)
            BY <1>2, <1>81, <6>1 DEF Up
          <6>4. ss[j].start + i \in 1..Up(k)
            BY <4>1, <6>3
          <6>. QED
            BY <4>3, <6>2, <6>4
        <5>. QED
          BY <5>1, <5>2
      <4>. QED
        BY <4>3, <4>4, <4>5 DEF m, Kept
    <3>. QED
      BY <3>3, <3>4
  <2>3. ASSUME NEW k \in 0..(n - 1), k \in T PROVE k + 1 \in T
    <3>1. k = 0 \/ Holds(k)
      BY <2>3
    <3>2. Holds(k + 1)
      BY <2>2, <3>1
    <3>3. k + 1 \in 0..n
      BY <1>1
    <3>. HIDE DEF Holds
    <3>. QED
      BY <3>2, <3>3
  <2>4. Holds(n)
    <3>1. \A k \in 0..(n - 1) : k \in T => k + 1 \in T
      BY <2>3
    <3>. HIDE DEF T
    <3>2. n \in 0..n
      BY <1>1
    <3>3. n \in T
      BY <1>1, <2>1, <3>1, <3>2, InductionTo
    <3>. HIDE DEF Holds
    <3>. QED
      BY <1>10, <3>3 DEF T
  <2>5. image = f[n] /\ Silk!SectionsEnd(ss) = Up(n)
    BY <1>1, <1>7, <1>10
  <2>6. ASSUME NEW a \in Int, NEW b, ByteAt(ss, a, b)
        PROVE  a \in 0..(Silk!SectionsEnd(ss) - 1) /\ image[a + 1] = b
    <3>1. PICK k \in 1..n : /\ ss[k].start <= a /\ a < Up(k)
                            /\ ss[k].data[a - ss[k].start + 1] = b
      BY <1>1, <2>6 DEF ByteAt, Up
    <3>2. ss[k].start \in Nat /\ ss[k].length \in Nat /\ Up(k) = ss[k].start + ss[k].length
      BY <1>2 DEF Up
    <3>. DEFINE i == a - ss[k].start + 1
    <3>3. i \in 1..ss[k].length /\ ss[k].start + i = a + 1 /\ ss[k].data[i] = b
      BY <3>1, <3>2
    <3>. HIDE DEF i
    <3>4. f[n][ss[k].start + i] = ss[k].data[i]
      BY <2>4, <3>3
    <3>5. Up(k) <= Silk!SectionsEnd(ss)
      BY <1>1
    <3>6. a \in 0..(Silk!SectionsEnd(ss) - 1)
      BY <1>1, <3>1, <3>2, <3>5
    <3>7. image[a + 1] = b
      BY <2>5, <3>3, <3>4
    <3>. QED
      BY <3>6, <3>7
  <2>7. image \in Seq(Int) /\ Len(image) = Silk!SectionsEnd(ss)
    BY <2>4, <2>5
  <2>. QED
    BY <2>6, <2>7 DEF image
<1>. QED
  BY <1>9, <1>10

(* Where an address is after the entry section has moved *)
LEMMA RelocateFacts ==
    ASSUME NEW cutoff \in Nat, NEW offset \in Nat
    PROVE  LET To(a) == Silk!Relocate(a, cutoff, offset)
           IN  /\ \A a \in Int : To(a) \in Int
               /\ \A a \in Nat : To(a) \in Nat
               /\ \A a, b \in Nat : To(a) = To(b) => a = b
               /\ offset > 0 => To(cutoff) = 0
<1>. DEFINE To(a) == Silk!Relocate(a, cutoff, offset)
<1>1. \A a \in Int : To(a) = IF a < cutoff THEN a + offset
                             ELSE IF a < cutoff + offset THEN a - cutoff ELSE a
  BY DEF Silk!Relocate
<1>. HIDE DEF To
<1>2. \A a \in Int : To(a) \in Int
  BY <1>1
<1>3. \A a \in Nat : To(a) \in Nat
  BY <1>1
<1>4. \A a, b \in Nat : To(a) = To(b) => a = b
  BY <1>1
<1>5. offset > 0 => To(cutoff) = 0
  BY <1>1
<1>. QED
  BY <1>2, <1>3, <1>4, <1>5 DEF To

(* Four bytes that lie in one section move together. *)
LEMMA StraightFacts ==
    ASSUME NEW ss, Layout(ss), NEW entry \in DOMAIN ss, NEW a \in Int, Inside(ss, a)
    PROVE  LET To(c) == Silk!Relocate(c, ss[entry].start, ss[entry].length)
           IN  a \in Nat /\ \A i \in 0..3 : To(a + i) = To(a) + i
<1>. DEFINE cutoff == ss[entry].start
            offset == ss[entry].length
            To(c) == Silk!Relocate(c, cutoff, offset)
<1>1. DOMAIN ss = 1..Len(ss) /\ Len(ss) \in Nat
  BY EndFacts
<1>2. PICK k \in DOMAIN ss : ss[k].start <= a /\ a + 3 < ss[k].start + ss[k].length
  BY DEF Inside
<1>3. /\ cutoff \in Nat /\ offset \in Nat /\ ss[k].start \in Nat /\ ss[k].length \in Nat
      /\ k < entry => ss[k].start + ss[k].length <= cutoff
      /\ entry < k => cutoff + offset <= ss[k].start
      /\ k = entry => ss[k].start = cutoff /\ ss[k].length = offset
  BY <1>1 DEF Layout
<1>. HIDE DEF cutoff, offset
<1>4. \A c \in Int : To(c) = IF c < cutoff THEN c + offset
                             ELSE IF c < cutoff + offset THEN c - cutoff ELSE c
  BY <1>3 DEF Silk!Relocate
<1>. HIDE DEF To
<1>5. a \in Nat
  BY <1>2, <1>3
<1>6. ASSUME NEW i \in 0..3 PROVE To(a + i) = To(a) + i
  <2>1. a + i \in Int /\ a \in Int
    BY <1>5
  <2>2. CASE k < entry
    <3>1. a < cutoff /\ a + i < cutoff
      BY <1>2, <1>3, <1>5, <2>2
    <3>. QED
      BY <1>3, <1>4, <2>1, <3>1
  <2>3. CASE k = entry
    <3>1. ~(a < cutoff) /\ ~(a + i < cutoff) /\ a < cutoff + offset /\ a + i < cutoff + offset
      BY <1>2, <1>3, <1>5, <2>3
    <3>. QED
      BY <1>3, <1>4, <2>1, <3>1
  <2>4. CASE entry < k
    <3>1. ~(a < cutoff) /\ ~(a + i < cutoff) /\ ~(a < cutoff + offset) /\ ~(a + i < cutoff + offset)
      BY <1>2, <1>3, <1>5, <2>4
    <3>. QED
      BY <1>3, <1>4, <2>1, <3>1
  <2>. QED
    BY <1>1, <2>2, <2>3, <2>4
<1>. QED
  BY <1>5, <1>6 DEF To, cutoff, offset

(* The entry section moves to the start, and every byte with it. *)
LEMMA MoveBytes ==
    ASSUME NEW ss, Layout(ss), Solid(ss), NEW entry \in DOMAIN ss
    PROVE  LET all == Silk!MoveToStart(ss, entry)
               To(a) == Silk!Relocate(a, ss[entry].start, ss[entry].length)
           IN  /\ Solid(all)
               /\ \A a \in Int : \A b : ByteAt(ss, a, b) => ByteAt(all, To(a), b)
<1>. DEFINE all == Silk!MoveToStart(ss, entry)
            cutoff == ss[entry].start
            offset == ss[entry].length
            n == Len(ss)
            To(a) == Silk!Relocate(a, cutoff, offset)
<1>1. n \in Nat /\ DOMAIN ss = 1..n
  BY EndFacts
<1>2. /\ ss \in Seq(Range(ss))
      /\ \A j, k \in 1..n : j < k => ss[j].start + ss[j].length <= ss[k].start
  BY <1>1 DEF Layout
<1>3. /\ DOMAIN all = 1..n
      /\ all[1] = [ss[entry] EXCEPT !.start = 0]
      /\ \A k \in 2..entry : all[k] = [ss[k - 1] EXCEPT !.start = @ + offset]
      /\ \A k \in (entry + 1)..n : all[k] = ss[k]
  <2>1. entry \in 1..n /\ Len(ss) = n /\ n \in Nat /\ ss \in Seq(Range(ss))
    BY <1>1, <1>2
  <2>. DEFINE new == Silk!MoveToStart(ss, entry)
  <2>. HIDE DEF n, new
  <2>2. /\ DOMAIN new = 1..n
        /\ new[1] = [ss[entry] EXCEPT !.start = 0]
        /\ \A k \in 2..entry : new[k] = [ss[k - 1] EXCEPT !.start = @ + ss[entry].length]
        /\ \A k \in (entry + 1)..n : new[k] = ss[k]
    BY <2>1, MovedList DEF new
  <2>. QED
    BY <2>2, Zenon DEF new
<1>. HIDE DEF all, n
<1>4. \A k \in 1..n : /\ ss[k] \in Section /\ Len(ss[k].data) = ss[k].length
                      /\ ss[k].start \in Nat /\ ss[k].length \in Nat
  BY <1>1 DEF Solid, Section
<1>5. entry \in 1..n /\ cutoff \in Nat /\ offset \in Nat
  BY <1>1, <1>4
<1>. HIDE DEF cutoff, offset
<1>6. ASSUME NEW k \in 1..n, NEW v \in Nat
      PROVE  LET s == [ss[k] EXCEPT !.start = v]
             IN  s \in Section /\ s.start = v /\ s.length = ss[k].length /\ s.data = ss[k].data
  BY <1>4 DEF Section
<1>7. /\ all[1] \in Section /\ all[1].start = 0
      /\ all[1].length = ss[entry].length /\ all[1].data = ss[entry].data
  BY <1>3, <1>5, <1>6
<1>8. ASSUME NEW k \in 2..entry
      PROVE  /\ k - 1 \in 1..n /\ all[k] \in Section /\ all[k].start = ss[k - 1].start + offset
             /\ all[k].length = ss[k - 1].length /\ all[k].data = ss[k - 1].data
  <2>1. k - 1 \in 1..n
    BY <1>1, <1>5
  <2>2. ss[k - 1].start + offset \in Nat
    BY <1>4, <1>5, <2>1
  <2>3. all[k] = [ss[k - 1] EXCEPT !.start = ss[k - 1].start + offset]
    BY <1>3
  <2>. QED
    BY <1>6, <2>1, <2>2, <2>3
<1>9. Solid(all)
  <2>1. ASSUME NEW k \in 1..n PROVE all[k] \in Section /\ Len(all[k].data) = all[k].length
    <3>1. CASE k = 1
      BY <1>4, <1>5, <1>7, <3>1
    <3>2. CASE k \in 2..entry
      BY <1>4, <1>8, <3>2
    <3>3. CASE k \in (entry + 1)..n
      BY <1>3, <1>4, <3>3
    <3>. QED
      BY <1>1, <1>5, <3>1, <3>2, <3>3
  <2>. QED
    BY <1>3, <2>1 DEF Solid
<1>10. \A a \in Int : To(a) = IF a < cutoff THEN a + offset
                              ELSE IF a < cutoff + offset THEN a - cutoff ELSE a
  BY <1>5 DEF Silk!Relocate
<1>. HIDE DEF To
<1>11. ASSUME NEW a \in Int, NEW b, ByteAt(ss, a, b) PROVE ByteAt(all, To(a), b)
  <2>1. PICK k \in 1..n : /\ ss[k].start <= a /\ a < ss[k].start + ss[k].length
                          /\ ss[k].data[a - ss[k].start + 1] = b
    BY <1>1, <1>11 DEF ByteAt
  <2>2. ss[k].start \in Nat /\ ss[k].length \in Nat
    BY <1>4
  <2>3. ASSUME NEW j \in 1..n, all[j].start - ss[k].start = To(a) - a, all[j].start \in Nat,
               all[j].length = ss[k].length, all[j].data = ss[k].data, To(a) \in Int
        PROVE  ByteAt(all, To(a), b)
    <3>1. To(a) - all[j].start + 1 = a - ss[k].start + 1
      BY <2>2, <2>3
    <3>2. all[j].data[To(a) - all[j].start + 1] = b
      BY <2>1, <2>3, <3>1
    <3>3. all[j].start <= To(a) /\ To(a) < all[j].start + all[j].length
      BY <2>1, <2>2, <2>3
    <3>. QED
      BY <1>3, <3>2, <3>3 DEF ByteAt
  <2>4. CASE k = entry
    <3>1. cutoff = ss[k].start /\ offset = ss[k].length
      BY <2>4 DEF cutoff, offset
    <3>2. To(a) = a - cutoff /\ 1 \in 1..n
      BY <1>1, <1>5, <1>10, <2>1, <3>1
    <3>3. all[1].start - ss[k].start = To(a) - a /\ To(a) \in Int
      BY <1>5, <1>7, <3>1, <3>2
    <3>. QED
      BY <1>7, <2>3, <2>4, <3>2, <3>3
  <2>5. CASE k < entry
    <3>1. k + 1 \in 2..entry /\ (k + 1) - 1 = k /\ k + 1 \in 1..n
      BY <1>1, <1>5, <2>5
    <3>2. /\ all[k + 1].start = ss[k].start + offset /\ all[k + 1].length = ss[k].length
          /\ all[k + 1].data = ss[k].data
      BY <1>8, <3>1
    <3>3. ss[k].start + ss[k].length <= cutoff
      BY <1>2, <1>5, <2>5 DEF cutoff
    <3>4. To(a) = a + offset
      BY <1>5, <1>10, <2>1, <2>2, <3>3
    <3>5. all[k + 1].start - ss[k].start = To(a) - a /\ To(a) \in Int /\ all[k + 1].start \in Nat
      BY <1>5, <2>2, <3>2, <3>4
    <3>. QED
      BY <2>3, <3>1, <3>2, <3>5
  <2>6. CASE k > entry
    <3>1. k \in (entry + 1)..n
      BY <1>1, <1>5, <2>6
    <3>2. cutoff + offset <= ss[k].start
      BY <1>2, <1>5, <2>6 DEF cutoff, offset
    <3>3. To(a) = a /\ all[k] = ss[k]
      BY <1>3, <1>5, <1>10, <2>1, <2>2, <3>1, <3>2
    <3>. QED
      BY <2>2, <2>3, <3>3
  <2>. QED
    BY <1>1, <1>5, <2>4, <2>5, <2>6
<1>. QED
  BY <1>9, <1>11 DEF all, To, cutoff, offset

(* What the loop over the references of a symbol may have made of the data *)
Writing(ss) ==
    {st \in [outcome : {"ok", "panic"}, data : [DOMAIN ss -> Seq(Int)]] :
       \A k \in DOMAIN ss : Len(st.data[k]) = ss[k].length}

(* New data in the sections leaves them where they are. *)
LEMMA WithFacts ==
    ASSUME NEW ss, Solid(ss), NEW st \in Writing(ss)
    PROVE  LET new == With(ss, st.data)
           IN  /\ Solid(new) /\ DOMAIN new = DOMAIN ss
               /\ \A k \in DOMAIN ss : /\ new[k].start = ss[k].start /\ new[k].length = ss[k].length
                                       /\ new[k].data = st.data[k]
<1>. DEFINE d == st.data
            new == With(ss, d)
<1>1. \A k \in DOMAIN ss : d[k] \in Seq(Int) /\ Len(d[k]) = ss[k].length
  BY DEF Writing
<1>. HIDE DEF d
<1>2. DOMAIN new = DOMAIN ss /\ \A k \in DOMAIN ss : new[k] = [ss[k] EXCEPT !.data = d[k]]
  BY DEF With
<1>. HIDE DEF new
<1>3. ASSUME NEW k \in DOMAIN ss
      PROVE  /\ new[k] \in Section /\ new[k].start = ss[k].start /\ new[k].length = ss[k].length
             /\ new[k].data = d[k]
  <2>1. ss[k] \in Section
    BY DEF Solid
  <2>. QED
    BY <1>1, <1>2, <2>1 DEF Section
<1>4. Solid(new)
  BY <1>1, <1>2, <1>3 DEF Solid
<1>. QED
  BY <1>2, <1>3, <1>4 DEF new, d

(* The four bytes of an address are numbers. *)
LEMMA AddressFacts ==
    ASSUME NEW v \in Int
    PROVE  \A i \in 1..4 : Silk!Address(v)[i] \in Int
<1>1. \A a, b, c, d \in Int : \A i \in 1..4 : <<a, b, c, d>>[i] \in Int
  BY SMT
<1>2. /\ (v \div 16777216) % 256 \in Int /\ (v \div 65536) % 256 \in Int
      /\ (v \div 256) % 256 \in Int /\ v % 256 \in Int
  BY SMT
<1>. QED
  BY <1>1, <1>2, SMT DEF Silk!Address

(* One reference: where four zero bytes are in place it is written, and    *)
(* the other bytes stay.                                                   *)
LEMMA WriteFacts ==
    ASSUME NEW ss, Layout(ss), Solid(ss), NEW st \in Writing(ss), NEW ref \in Int, NEW value \in Int,
           NEW mv, mv.cutoff \in Nat, mv.offset \in Nat, mv.base \in Int
    PROVE  LET new == Silk!WriteReference(st, ss, ref, value, mv)
               a == Silk!Relocate(ref, mv.cutoff, mv.offset)
               bytes == Silk!Address(mv.base + Silk!Relocate(value, mv.cutoff, mv.offset))
           IN  /\ new \in Writing(ss)
               /\ Inside(ss, a) /\ (\A i \in 1..4 : ByteAt(With(ss, st.data), a + i - 1, 0)) =>
                    /\ new.outcome = st.outcome
                    /\ \A i \in 1..4 : ByteAt(With(ss, new.data), a + i - 1, bytes[i])
                    /\ \A c \in Int : \A b :
                         ByteAt(With(ss, st.data), c, b) /\ c - a \notin 0..3 =>
                           ByteAt(With(ss, new.data), c, b)
<1>. DEFINE new == Silk!WriteReference(st, ss, ref, value, mv)
            a == Silk!Relocate(ref, mv.cutoff, mv.offset)
            v == mv.base + Silk!Relocate(value, mv.cutoff, mv.offset)
            bytes == Silk!Address(v)
            k == Silk!Find(ss, a)
            p == a - ss[k].start
            x == st.data[k]
            y == [i \in DOMAIN x |-> IF i - p \in 1..4 THEN bytes[i - p] ELSE x[i]]
            clash == k = 0 \/ \E i \in 1..4 : x[p + i] # 0
<1>1. new = IF clash THEN [st EXCEPT !.outcome = "panic"] ELSE [st EXCEPT !.data[k] = y]
  BY SMT DEF Silk!WriteReference
<1>2. a \in Int /\ v \in Int
  <2>1. \A c \in Int : Silk!Relocate(c, mv.cutoff, mv.offset) \in Int
    BY RelocateFacts
  <2>2. a \in Int /\ Silk!Relocate(value, mv.cutoff, mv.offset) \in Int
    BY <2>1
  <2>. HIDE DEF a
  <2>. QED
    BY <2>2
<1>3. \A i \in 1..4 : bytes[i] \in Int
  BY <1>2, AddressFacts
<1>4. k # 0 => k \in DOMAIN ss /\ ss[k].start <= a /\ a < ss[k].start + ss[k].length
  BY DEF Silk!Find
<1>. HIDE DEF a, v, bytes
<1>5. /\ st = [outcome |-> st.outcome, data |-> st.data] /\ st.outcome \in {"ok", "panic"}
      /\ st.data \in [DOMAIN ss -> Seq(Int)]
      /\ \A j \in DOMAIN ss : Len(st.data[j]) = ss[j].length
  BY DEF Writing
<1>6. \A j \in DOMAIN ss : ss[j].start \in Nat /\ ss[j].length \in Nat
  BY DEF Layout
<1>7. ASSUME clash PROVE new \in Writing(ss)
  <2>1. new = [outcome |-> "panic", data |-> st.data]
    <3>1. new = [st EXCEPT !.outcome = "panic"]
      <4>. HIDE DEF clash, new, k, y
      <4>. QED
        BY <1>1, <1>7
    <3>2. [st EXCEPT !.outcome = "panic"] = [outcome |-> "panic", data |-> st.data]
      <4>. HIDE DEF new
      <4>. QED
        BY <1>5
    <3>. QED
      BY <3>1, <3>2
  <2>. HIDE DEF new
  <2>. QED
    BY <1>5, <2>1 DEF Writing
<1>8. ASSUME ~clash
      PROVE  /\ new \in Writing(ss) /\ new.outcome = st.outcome
             /\ k \in DOMAIN ss /\ x \in Seq(Int) /\ Len(x) = ss[k].length
             /\ new.data = [st.data EXCEPT ![k] = y] /\ y \in Seq(Int) /\ Len(y) = Len(x)
  <2>1. k # 0
    BY <1>8
  <2>2. k \in DOMAIN ss /\ ss[k].start <= a /\ a < ss[k].start + ss[k].length
    BY <1>4, <2>1
  <2>3. x \in Seq(Int) /\ Len(x) = ss[k].length
    BY <1>5, <2>2
  <2>4. p \in Int
    BY <1>2, <1>6, <2>2
  <2>5. y \in Seq(Int) /\ Len(y) = Len(x)
    <3>. DEFINE n == Len(x)
    <3>1. n \in Nat /\ DOMAIN x = 1..n /\ \A i \in 1..n : x[i] \in Int
      BY <2>3
    <3>. HIDE DEF n, x, p
    <3>2. y \in [1..n -> Int]
      BY <1>3, <2>4, <3>1
    <3>. HIDE DEF y
    <3>3. y \in Seq(Int) /\ Len(y) = n
      BY <3>1, <3>2
    <3>. QED
      BY <3>3 DEF n
  <2>. DEFINE d == [st.data EXCEPT ![k] = y]
  <2>6. new = [st EXCEPT !.data[k] = y]
    <3>. HIDE DEF clash, new, k, y
    <3>. QED
      BY <1>1, <1>8
  <2>. HIDE DEF y
  <2>7. new = [outcome |-> st.outcome, data |-> d]
    <3>1. \A z : [st EXCEPT !.data = z] = [outcome |-> st.outcome, data |-> z]
      BY <1>5, SMT
    <3>2. new = [st EXCEPT !.data = d]
      BY <2>6
    <3>. HIDE DEF d, new
    <3>. QED
      BY <3>1, <3>2
  <2>8. d \in [DOMAIN ss -> Seq(Int)] /\ \A j \in DOMAIN ss : Len(d[j]) = ss[j].length
    BY <1>5, <2>2, <2>3, <2>5
  <2>. HIDE DEF d, new, x
  <2>9. new \in Writing(ss)
    BY <1>5, <2>7, <2>8 DEF Writing
  <2>. QED
    BY <2>2, <2>3, <2>5, <2>7, <2>9 DEF d, y
<1>9. ASSUME Inside(ss, a), \A i \in 1..4 : ByteAt(With(ss, st.data), a + i - 1, 0)
      PROVE  /\ new.outcome = st.outcome
             /\ \A i \in 1..4 : ByteAt(With(ss, new.data), a + i - 1, bytes[i])
             /\ \A c \in Int : \A b :
                  ByteAt(With(ss, st.data), c, b) /\ c - a \notin 0..3 =>
                    ByteAt(With(ss, new.data), c, b)
  <2>. DEFINE old == With(ss, st.data)
              now == With(ss, new.data)
  <2>1. k # 0 /\ k \in DOMAIN ss /\ a + 3 < ss[k].start + ss[k].length /\ ss[k].start <= a
    BY <1>2, <1>4, <1>9, FindFacts
  <2>2. /\ Layout(old) /\ DOMAIN old = DOMAIN ss
        /\ \A j \in DOMAIN ss : /\ old[j].start = ss[j].start /\ old[j].length = ss[j].length
                                /\ old[j].data = st.data[j]
    BY WithFacts, DataFacts
  <2>. HIDE DEF k, old
  <2>3. p \in Nat /\ p + 4 <= ss[k].length /\ ss[k].start \in Nat /\ ss[k].length \in Nat
    BY <1>2, <1>6, <2>1
  <2>4. ASSUME NEW i \in 1..4 PROVE x[p + i] = 0
    <3>1. /\ a + i - 1 \in Int /\ ss[k].start <= a + i - 1 /\ a + i - 1 < ss[k].start + ss[k].length
          /\ (a + i - 1) - ss[k].start + 1 = p + i
      BY <1>2, <2>1, <2>3
    <3>2. old[k].start <= a + i - 1 /\ a + i - 1 < old[k].start + old[k].length /\ k \in DOMAIN old
      BY <2>1, <2>2, <3>1
    <3>3. ByteAt(old, a + i - 1, 0)
      BY <1>9 DEF old
    <3>4. old[k].data[(a + i - 1) - old[k].start + 1] = 0
      BY <2>2, <3>1, <3>2, <3>3, ByteFacts
    <3>. QED
      BY <2>1, <2>2, <3>1, <3>4
  <2>5. ~clash
    BY <2>1, <2>4
  <2>6. /\ new \in Writing(ss) /\ new.outcome = st.outcome
        /\ x \in Seq(Int) /\ Len(x) = ss[k].length
        /\ new.data = [st.data EXCEPT ![k] = y] /\ y \in Seq(Int) /\ Len(y) = Len(x)
    BY <1>8, <2>5
  <2>. HIDE DEF clash, new
  <2>7. /\ Layout(now) /\ DOMAIN now = DOMAIN ss
        /\ \A j \in DOMAIN ss : /\ now[j].start = ss[j].start /\ now[j].length = ss[j].length
                                /\ now[j].data = new.data[j]
    <3>1. Layout(now)
      BY DataFacts
    <3>2. DOMAIN now = DOMAIN ss
      BY DEF With
    <3>3. \A j \in DOMAIN ss : /\ now[j].start = ss[j].start /\ now[j].length = ss[j].length
                              /\ now[j].data = new.data[j]
      <4>. DEFINE w == new
      <4>1. w \in Writing(ss) /\ now = With(ss, w.data)
        BY <2>6
      <4>. HIDE DEF w, now
      <4>2. \A j \in DOMAIN ss : /\ now[j].start = ss[j].start /\ now[j].length = ss[j].length
                                /\ now[j].data = w.data[j]
        BY <4>1, WithFacts
      <4>. QED
        BY <4>2 DEF w
    <3>. QED
      BY <3>1, <3>2, <3>3
  <2>. HIDE DEF now
  <2>8. \A i \in 1..ss[k].length : y[i] = IF i - p \in 1..4 THEN bytes[i - p] ELSE x[i]
    <3>1. DOMAIN x = 1..ss[k].length
      BY <2>6
    <3>. QED
      BY <3>1
  <2>9. now[k].data = y /\ \A j \in DOMAIN ss : j # k => now[j].data = old[j].data
    BY <1>5, <2>1, <2>2, <2>6, <2>7
  <2>. HIDE DEF y
  <2>10. ASSUME NEW i \in 1..4 PROVE ByteAt(now, a + i - 1, bytes[i])
    <3>1. /\ a + i - 1 \in Int /\ ss[k].start <= a + i - 1 /\ a + i - 1 < ss[k].start + ss[k].length
          /\ (a + i - 1) - ss[k].start + 1 = p + i /\ p + i \in 1..ss[k].length /\ (p + i) - p = i
      BY <1>2, <2>1, <2>3
    <3>2. y[p + i] = bytes[i]
      BY <2>8, <3>1
    <3>3. /\ now[k].start <= a + i - 1 /\ a + i - 1 < now[k].start + now[k].length
          /\ now[k].data[(a + i - 1) - now[k].start + 1] = bytes[i]
      BY <2>1, <2>7, <2>9, <3>1, <3>2
    <3>. QED
      BY <2>1, <2>7, <3>3 DEF ByteAt
  <2>11. ASSUME NEW c \in Int, NEW b, ByteAt(old, c, b), c - a \notin 0..3
         PROVE  ByteAt(now, c, b)
    <3>1. PICK j \in DOMAIN ss : /\ ss[j].start <= c /\ c < ss[j].start + ss[j].length
                                 /\ old[j].data[c - ss[j].start + 1] = b
      BY <2>2, <2>11 DEF ByteAt
    <3>2. now[j].data[c - ss[j].start + 1] = b
      <4>1. CASE j # k
        BY <2>9, <3>1, <4>1
      <4>2. CASE j = k
        <5>. DEFINE i == c - ss[k].start + 1
        <5>1. i \in 1..ss[k].length /\ i - p \notin 1..4
          BY <1>2, <2>3, <2>11, <3>1, <4>2
        <5>2. y[i] = x[i]
          BY <2>8, <5>1
        <5>3. old[k].data = x
          BY <2>1, <2>2
        <5>. QED
          BY <2>9, <3>1, <4>2, <5>2, <5>3
      <4>. QED
        BY <4>1, <4>2
    <3>3. now[j].start <= c /\ c < now[j].start + now[j].length
      BY <2>7, <3>1
    <3>4. now[j].data[c - now[j].start + 1] = b
      BY <2>7, <3>2
    <3>. QED
      BY <2>7, <3>3, <3>4 DEF ByteAt
  <2>. QED
    BY <2>6, <2>10, <2>11 DEF old, now
<1>10. new \in Writing(ss)
  BY <1>7, <1>8
<1>. QED
  BY <1>9, <1>10 DEF a, v, bytes

(* The references of a symbol are written one after the other. *)
LEMMA StepsFacts ==
    ASSUME NEW ss, Layout(ss), Solid(ss), NEW e \in Symbol,
           NEW mv, mv.cutoff \in Nat, mv.offset \in Nat, mv.base \in Int
    PROVE  LET after == Steps(ss, e, mv)
               n == Len(e.refs)
           IN  /\ after[0] = Unwritten(ss)
               /\ \A k \in 1..n : after[k] = Written(ss, e, mv, after[k - 1], k)
               /\ \A k \in 0..n : after[k] \in Writing(ss)
<1>. DEFINE n == Len(e.refs)
            V == Writing(ss)
            first == Unwritten(ss)
            G == [k \in 1..n |-> [st \in V |-> Written(ss, e, mv, st, k)]]
            Body(f) == [k \in 0..n |-> IF k = 0 THEN first ELSE Written(ss, e, mv, f[k - 1], k)]
            after == Steps(ss, e, mv)
<1>1. e.refs \in Seq(Int) /\ e.value \in Int
  BY DEF Symbol
<1>2. n \in Nat /\ DOMAIN e.refs = 1..n /\ \A k \in 1..n : e.refs[k] \in Int
  BY <1>1
<1>3. after = CHOOSE f : f = Body(f)
  BY DEF Steps
<1>. HIDE DEF n, after
<1>4. first \in V
  <2>. DEFINE d == [s \in DOMAIN ss |-> ss[s].data]
  <2>1. \A s \in DOMAIN ss : ss[s].data \in Seq(Int) /\ Len(ss[s].data) = ss[s].length
    BY DEF Solid, Section
  <2>2. d \in [DOMAIN ss -> Seq(Int)] /\ \A s \in DOMAIN ss : Len(d[s]) = ss[s].length
    BY <2>1
  <2>3. first = [outcome |-> "ok", data |-> d]
    BY DEF Unwritten
  <2>. HIDE DEF d, first
  <2>. QED
    BY <2>2, <2>3 DEF Writing
<1>5. ASSUME NEW k \in 1..n, NEW st \in V PROVE Written(ss, e, mv, st, k) \in V
  <2>1. e.refs[k] \in Int
    BY <1>2
  <2>2. Silk!WriteReference(st, ss, e.refs[k], e.value, mv) \in Writing(ss)
    BY <1>1, <2>1, WriteFacts
  <2>. QED
    BY <2>2 DEF Written
<1>. HIDE DEF first, V
<1>6. G \in [1..n -> [V -> V]] /\ \A k \in 1..n : \A st \in V : G[k][st] = Written(ss, e, mv, st, k)
  BY <1>5
<1>. HIDE DEF G
<1>7. PICK h \in [0..n -> V] : h[0] = first /\ \A k \in 1..n : h[k] = G[k][h[k - 1]]
  <2>1. Recursive(n, V, first, G)
    BY <1>2, <1>4, <1>6, Recursion
  <2>. QED
    BY <2>1 DEF Recursive
<1>8. h = Body(h)
  <2>1. ASSUME NEW k \in 0..n
        PROVE  h[k] = IF k = 0 THEN first ELSE Written(ss, e, mv, h[k - 1], k)
    <3>1. CASE k = 0
      BY <1>7, <3>1
    <3>2. CASE k # 0
      <4>1. k \in 1..n /\ k - 1 \in 0..n
        BY <1>2, <3>2
      <4>2. h[k - 1] \in V /\ h[k] = G[k][h[k - 1]]
        BY <1>7, <4>1
      <4>. QED
        BY <1>6, <3>2, <4>1, <4>2
    <3>. QED
      BY <3>1, <3>2
  <2>2. h = [k \in 0..n |-> h[k]]
    OBVIOUS
  <2>. QED
    BY <2>1, <2>2
<1>9. after = Body(after)
  <2>. HIDE DEF Body
  <2>. QED
    BY <1>3, <1>8, Zenon
<1>10. \A k \in 0..n : after[k] = IF k = 0 THEN first ELSE Written(ss, e, mv, after[k - 1], k)
  BY <1>9, Zenon
<1>11. after[0] = first /\ \A k \in 1..n : after[k] = Written(ss, e, mv, after[k - 1], k)
  <2>1. 0 \in 0..n /\ \A k \in 1..n : k \in 0..n /\ k # 0
    BY <1>2
  <2>. QED
    BY <1>10, <2>1, Zenon
<1>12. \A k \in 0..n : after[k] \in V
  <2>. DEFINE T == {k \in 0..n : after[k] \in V}
  <2>1. 0 \in T
    BY <1>2, <1>4, <1>11
  <2>2. ASSUME NEW k \in 0..(n - 1), k \in T PROVE k + 1 \in T
    <3>1. k + 1 \in 1..n /\ k + 1 \in 0..n /\ (k + 1) - 1 = k
      BY <1>2
    <3>2. after[k + 1] = Written(ss, e, mv, after[k], k + 1)
      BY <1>11, <3>1
    <3>3. after[k + 1] \in V
      BY <1>5, <2>2, <3>1, <3>2
    <3>. QED
      BY <3>1, <3>3
  <2>3. \A k \in 0..(n - 1) : k \in T => k + 1 \in T
    BY <2>2
  <2>. HIDE DEF T
  <2>4. \A k \in 0..n : k \in T
    BY <1>2, <2>1, <2>3, InductionTo
  <2>. QED
    BY <2>4 DEF T
<1>. QED
  BY <1>11, <1>12 DEF after, n, first, V

(* The address c is in none of the references of e. *)
Clear(e, mv, c) ==
    \A i \in DOMAIN e.refs : c - Silk!Relocate(e.refs[i], mv.cutoff, mv.offset) \notin 0..3

(* A symbol whose references lie apart and are zeros is written to all of  *)
(* them, and the other bytes stay.                                         *)
LEMMA ResolveFacts ==
    ASSUME NEW ss, Layout(ss), Solid(ss), NEW e \in Symbol,
           NEW mv, mv.cutoff \in Nat, mv.offset \in Nat, mv.base \in Int
    PROVE  LET r == Silk!ResolveReferences(ss, e, mv)
               To(a) == Silk!Relocate(a, mv.cutoff, mv.offset)
               bytes == Silk!Address(mv.base + To(e.value))
           IN  /\ r.outcome \in {"ok", "panic"} /\ Solid(r.sections)
               /\ /\ \A i \in DOMAIN e.refs : Inside(ss, To(e.refs[i]))
                  /\ \A i \in DOMAIN e.refs : \A j \in 1..4 : ByteAt(ss, To(e.refs[i]) + j - 1, 0)
                  /\ \A i, j \in DOMAIN e.refs : i # j => To(e.refs[i]) - To(e.refs[j]) \notin 0..3
                  => /\ r.outcome = "ok"
                     /\ \A i \in DOMAIN e.refs : \A j \in 1..4 :
                          ByteAt(r.sections, To(e.refs[i]) + j - 1, bytes[j])
                     /\ \A c \in Int : \A b :
                          ByteAt(ss, c, b) /\ Clear(e, mv, c)
                            => ByteAt(r.sections, c, b)
<1>. SUFFICES LET r == Silk!ResolveReferences(ss, e, mv)
                  To(a) == Silk!Relocate(a, mv.cutoff, mv.offset)
                  bytes == Silk!Address(mv.base + To(e.value))
              IN  /\ r.outcome \in {"ok", "panic"} /\ Solid(r.sections)
                  /\ /\ \A i \in DOMAIN e.refs : Inside(ss, To(e.refs[i]))
                     /\ \A i \in DOMAIN e.refs : \A j \in 1..4 : ByteAt(ss, To(e.refs[i]) + j - 1, 0)
                     /\ \A i, j \in DOMAIN e.refs : i # j => To(e.refs[i]) - To(e.refs[j]) \notin 0..3
                     => /\ r.outcome = "ok"
                        /\ \A i \in DOMAIN e.refs : \A j \in 1..4 :
                             ByteAt(r.sections, To(e.refs[i]) + j - 1, bytes[j])
                        /\ \A c \in Int : \A b :
                             ByteAt(ss, c, b) /\ (\A i \in DOMAIN e.refs : c - To(e.refs[i]) \notin 0..3)
                               => ByteAt(r.sections, c, b)
  BY DEF Clear
<1>. DEFINE n == Len(e.refs)
            after == Steps(ss, e, mv)
            r == Silk!ResolveReferences(ss, e, mv)
            To(a) == Silk!Relocate(a, mv.cutoff, mv.offset)
            at == [i \in 1..n |-> To(e.refs[i])]
            bytes == Silk!Address(mv.base + To(e.value))
            Mem(k) == With(ss, after[k].data)
<1>1. e.refs \in Seq(Int) /\ e.value \in Int
  BY DEF Symbol
<1>2. n \in Nat /\ DOMAIN e.refs = 1..n /\ \A k \in 1..n : e.refs[k] \in Int
  BY <1>1
<1>3. r = [outcome |-> after[n].outcome, sections |-> Mem(n)]
  BY ResolvedFacts
<1>4. /\ after[0] = Unwritten(ss)
      /\ \A k \in 1..n : after[k] = Written(ss, e, mv, after[k - 1], k)
      /\ \A k \in 0..n : after[k] \in Writing(ss)
  BY StepsFacts
<1>5. \A k \in 1..n : at[k] = To(e.refs[k]) /\ at[k] \in Int
  <2>1. \A a \in Int : To(a) \in Int
    BY RelocateFacts
  <2>. HIDE DEF To, n
  <2>. QED
    BY <1>2, <2>1
<1>. HIDE DEF n, after
<1>6. n \in 0..n
  BY <1>2
<1>7. r.outcome \in {"ok", "panic"} /\ Solid(r.sections)
  <2>1. after[n] \in Writing(ss)
    BY <1>4, <1>6
  <2>2. after[n].outcome \in {"ok", "panic"}
    BY <2>1 DEF Writing
  <2>3. Solid(Mem(n))
    BY <2>1, WithFacts
  <2>. QED
    BY <1>3, <2>2, <2>3
<1>8. ASSUME \A i \in 1..n : Inside(ss, at[i]) /\ \A j \in 1..4 : ByteAt(ss, at[i] + j - 1, 0),
             \A i, j \in 1..n : i # j => at[i] - at[j] \notin 0..3
      PROVE  /\ after[n].outcome = "ok"
             /\ \A i \in 1..n : \A j \in 1..4 : ByteAt(Mem(n), at[i] + j - 1, bytes[j])
             /\ \A c \in Int : \A b : ByteAt(ss, c, b) /\ (\A i \in 1..n : c - at[i] \notin 0..3)
                                        => ByteAt(Mem(n), c, b)
  <2>. DEFINE Holds(k) ==
                /\ after[k].outcome = "ok"
                /\ \A i \in 1..k : \A j \in 1..4 : ByteAt(Mem(k), at[i] + j - 1, bytes[j])
                /\ \A c \in Int : \A b : ByteAt(ss, c, b) /\ (\A i \in 1..k : c - at[i] \notin 0..3)
                                           => ByteAt(Mem(k), c, b)
              T == {k \in 0..n : Holds(k)}
  <2>1. Holds(0)
    <3>. DEFINE d == [s \in DOMAIN ss |-> ss[s].data]
    <3>1. after[0].outcome = "ok" /\ after[0].data = d
      BY <1>4 DEF Unwritten
    <3>2. 0 \in 0..n /\ after[0] \in Writing(ss)
      BY <1>2, <1>4
    <3>3. /\ DOMAIN Mem(0) = DOMAIN ss
          /\ \A k \in DOMAIN ss : /\ Mem(0)[k].start = ss[k].start /\ Mem(0)[k].length = ss[k].length
                                  /\ Mem(0)[k].data = ss[k].data
      <4>. DEFINE st == after[0]
      <4>1. st \in Writing(ss) /\ Mem(0) = With(ss, st.data) /\ st.data = d
        BY <3>1, <3>2
      <4>. HIDE DEF st, Mem, d
      <4>2. /\ DOMAIN Mem(0) = DOMAIN ss
            /\ \A k \in DOMAIN ss : /\ Mem(0)[k].start = ss[k].start
                                    /\ Mem(0)[k].length = ss[k].length /\ Mem(0)[k].data = st.data[k]
        BY <4>1, WithFacts
      <4>3. \A k \in DOMAIN ss : st.data[k] = ss[k].data
        BY <4>1 DEF d
      <4>. QED
        BY <4>2, <4>3
    <3>. HIDE DEF Mem
    <3>4. \A c, b : ByteAt(ss, c, b) => ByteAt(Mem(0), c, b)
      BY <3>3 DEF ByteAt
    <3>. QED
      BY <3>1, <3>4
  <2>2. ASSUME NEW k \in 0..(n - 1), Holds(k) PROVE Holds(k + 1)
    <3>. DEFINE m == k + 1
    <3>1. m \in 1..n /\ m \in 0..n /\ m - 1 = k /\ k \in 0..n
      BY <1>2
    <3>2. \A i \in 1..k : i \in 1..n /\ i # m
      BY <1>2
    <3>3. \A i \in 1..m : i \in 1..k \/ i = m
      BY <3>1
    <3>. HIDE DEF m
    <3>4. ASSUME NEW i \in 1..k, NEW j \in 1..4
          PROVE  /\ (at[m] + j - 1) - at[i] \notin 0..3
                 /\ (at[i] + j - 1) - at[m] \notin 0..3
      <4>1. i \in 1..n /\ at[i] \in Int /\ at[m] \in Int
        BY <1>5, <3>1, <3>2
      <4>2. at[i] - at[m] \notin 0..3 /\ at[m] - at[i] \notin 0..3
        BY <1>8, <3>1, <3>2
      <4>. HIDE DEF at
      <4>. DEFINE x == at[i]
                  y == at[m]
      <4>3. x \in Int /\ y \in Int /\ x - y \notin 0..3 /\ y - x \notin 0..3
        BY <4>1, <4>2
      <4>. HIDE DEF x, y
      <4>4. (y + j - 1) - x \notin 0..3 /\ (x + j - 1) - y \notin 0..3
        BY <4>3
      <4>. QED
        BY <4>4 DEF x, y
    <3>5. \A j \in 1..4 : at[m] + j - 1 \in Int /\ \A i \in 1..n : at[i] + j - 1 \in Int
      BY <1>5, <3>1
    <3>6. \A j \in 1..4 : ByteAt(Mem(k), at[m] + j - 1, 0)
      BY <1>8, <2>2, <3>1, <3>4, <3>5
    <3>7. after[k] \in Writing(ss) /\ after[k].outcome = "ok"
      BY <1>4, <2>2, <3>1
    <3>8. after[m] = Silk!WriteReference(after[k], ss, e.refs[m], e.value, mv)
      BY <1>4, <3>1, <3>7 DEF Written
    <3>9. /\ after[m].outcome = "ok"
          /\ \A j \in 1..4 : ByteAt(Mem(m), at[m] + j - 1, bytes[j])
          /\ \A c \in Int : \A b : ByteAt(Mem(k), c, b) /\ c - at[m] \notin 0..3 => ByteAt(Mem(m), c, b)
      <4>. DEFINE new == Silk!WriteReference(after[k], ss, e.refs[m], e.value, mv)
                  a == To(e.refs[m])
      <4>1. a = at[m] /\ e.refs[m] \in Int
        BY <1>2, <1>5, <3>1
      <4>. HIDE DEF at
      <4>2. Inside(ss, a) /\ \A j \in 1..4 : ByteAt(With(ss, after[k].data), a + j - 1, 0)
        BY <1>8, <3>1, <3>6, <4>1
      <4>3. /\ new.outcome = after[k].outcome
            /\ \A j \in 1..4 : ByteAt(With(ss, new.data), a + j - 1, bytes[j])
            /\ \A c \in Int : \A b : ByteAt(With(ss, after[k].data), c, b) /\ c - a \notin 0..3
                                       => ByteAt(With(ss, new.data), c, b)
        BY <1>1, <3>7, <4>1, <4>2, WriteFacts
      <4>. HIDE DEF new, a, bytes
      <4>4. new = after[m]
        BY <3>8 DEF new
      <4>. QED
        BY <3>7, <4>1, <4>3, <4>4
    <3>. HIDE DEF Mem, at, bytes
    <3>10. ASSUME NEW i \in 1..m, NEW j \in 1..4 PROVE ByteAt(Mem(m), at[i] + j - 1, bytes[j])
      <4>1. CASE i = m
        BY <3>9, <4>1
      <4>2. CASE i \in 1..k
        <5>1. ByteAt(Mem(k), at[i] + j - 1, bytes[j])
          BY <2>2, <4>2
        <5>2. at[i] + j - 1 \in Int /\ (at[i] + j - 1) - at[m] \notin 0..3
          BY <3>2, <3>4, <3>5, <4>2
        <5>. QED
          BY <3>9, <5>1, <5>2
      <4>. QED
        BY <3>3, <4>1, <4>2
    <3>11. ASSUME NEW c \in Int, NEW b, ByteAt(ss, c, b), \A i \in 1..m : c - at[i] \notin 0..3
           PROVE  ByteAt(Mem(m), c, b)
      <4>1. m \in 1..m /\ \A i \in 1..k : i \in 1..m
        BY <3>1 DEF m
      <4>2. ByteAt(Mem(k), c, b)
        BY <2>2, <3>11, <4>1
      <4>. QED
        BY <3>9, <3>11, <4>1, <4>2
    <3>. QED
      BY <3>9, <3>10, <3>11 DEF m
  <2>3. Holds(n)
    <3>1. ASSUME NEW k \in 0..(n - 1), k \in T PROVE k + 1 \in T
      <4>1. Holds(k + 1)
        BY <2>2, <3>1
      <4>2. k + 1 \in 0..n
        BY <1>2
      <4>. HIDE DEF Holds
      <4>. QED
        BY <4>1, <4>2
    <3>2. 0 \in T
      <4>1. 0 \in 0..n
        BY <1>2
      <4>. HIDE DEF Holds
      <4>. QED
        BY <2>1, <4>1
    <3>. HIDE DEF T
    <3>3. n \in T
      BY <1>2, <1>6, <3>1, <3>2, InductionTo
    <3>. HIDE DEF Holds
    <3>. QED
      BY <3>3 DEF T
  <2>. QED
    BY <2>3
<1>. HIDE DEF Mem, bytes
<1>9. r.outcome = after[n].outcome /\ r.sections = Mem(n)
  BY <1>3
<1>. HIDE DEF r, To, at
<1>10. ASSUME /\ \A i \in 1..n : Inside(ss, To(e.refs[i]))
              /\ \A i \in 1..n : \A j \in 1..4 : ByteAt(ss, To(e.refs[i]) + j - 1, 0)
              /\ \A i, j \in 1..n : i # j => To(e.refs[i]) - To(e.refs[j]) \notin 0..3
       PROVE  /\ r.outcome = "ok"
              /\ \A i \in 1..n : \A j \in 1..4 : ByteAt(r.sections, To(e.refs[i]) + j - 1, bytes[j])
              /\ \A c \in Int : \A b :
                   ByteAt(ss, c, b) /\ (\A i \in 1..n : c - To(e.refs[i]) \notin 0..3)
                     => ByteAt(r.sections, c, b)
  <2>1. \A i \in 1..n : Inside(ss, at[i]) /\ \A j \in 1..4 : ByteAt(ss, at[i] + j - 1, 0)
    BY <1>5, <1>10
  <2>2. \A i, j \in 1..n : i # j => at[i] - at[j] \notin 0..3
    BY <1>5, <1>10
  <2>3. /\ after[n].outcome = "ok"
        /\ \A i \in 1..n : \A j \in 1..4 : ByteAt(Mem(n), at[i] + j - 1, bytes[j])
        /\ \A c \in Int : \A b : ByteAt(ss, c, b) /\ (\A i \in 1..n : c - at[i] \notin 0..3)
                                   => ByteAt(Mem(n), c, b)
    BY <1>8, <2>1, <2>2
  <2>. QED
    BY <1>5, <1>9, <2>3
<1>. QED
  BY <1>2, <1>7, <1>10 DEF r, To, bytes, n

-----------------------------------------------------------------------------
(***************************************************************************)
(* The names that a symbol may get.                                        *)
(***************************************************************************)

(* The digits of a number end with its last, and others precede it. *)
LEMMA DecimalFacts ==
    ASSUME NEW n \in Nat
    PROVE  LET d == Silk!Decimals(n)
           IN  /\ DOMAIN d = 0..n
               /\ \A m \in 0..n : d[m] = (IF m < 10 THEN <<>> ELSE d[m \div 10]) \o <<48 + (m % 10)>>
<1>. DEFINE Digits(f, m) == (IF m < 10 THEN <<>> ELSE f[m \div 10]) \o <<48 + (m % 10)>>
            Body(f, k) == [m \in 0..k |-> Digits(f, m)]
            d == Silk!Decimals(n)
<1>1. d = CHOOSE f : f = Body(f, n)
  BY DEF Silk!Decimals
<1>. HIDE DEF d
<1>2. \A m \in Nat : m >= 10 => m \div 10 \in 0..(m - 1)
  OBVIOUS
<1>3. \E f : f = Body(f, n)
  <2>. DEFINE T == {k \in 0..n : \E f : f = Body(f, k)}
  <2>1. 0 \in T
    <3>. DEFINE f == [m \in 0..0 |-> <<>> \o <<48 + (m % 10)>>]
    <3>1. \A m \in 0..0 : Digits(f, m) = <<>> \o <<48 + (m % 10)>>
      OBVIOUS
    <3>2. f = Body(f, 0)
      BY <3>1
    <3>. HIDE DEF f, Body
    <3>. QED
      BY <3>2
  <2>2. ASSUME NEW k \in 0..(n - 1), k \in T PROVE k + 1 \in T
    <3>1. PICK f : f = Body(f, k)
      BY <2>2
    <3>2. \A m \in 0..k : f[m] = Digits(f, m)
      BY <3>1, Zenon
    <3>. DEFINE g == [m \in 0..(k + 1) |-> IF m <= k THEN f[m] ELSE Digits(f, m)]
    <3>3. \A m \in 0..k : g[m] = f[m]
      OBVIOUS
    <3>4. ASSUME NEW m \in 0..(k + 1) PROVE g[m] = Digits(g, m)
      <4>1. Digits(g, m) = Digits(f, m)
        <5>1. m >= 10 => m \div 10 \in 0..k
          BY <1>2
        <5>2. m >= 10 => g[m \div 10] = f[m \div 10]
          BY <3>3, <5>1
        <5>. HIDE DEF g
        <5>3. CASE m < 10
          BY <5>3, Zenon
        <5>4. CASE m >= 10
          BY <5>2, <5>4, Zenon
        <5>5. m < 10 \/ m >= 10
          OBVIOUS
        <5>. QED
          BY <5>3, <5>4, <5>5, Zenon
      <4>2. g[m] = Digits(f, m)
        <5>. HIDE DEF Digits
        <5>. QED
          BY <3>2
      <4>. QED
        BY <4>1, <4>2
    <3>5. g = [m \in 0..(k + 1) |-> g[m]]
      OBVIOUS
    <3>. HIDE DEF g, Digits
    <3>6. g = Body(g, k + 1)
      BY <3>4, <3>5
    <3>7. k + 1 \in 0..n
      OBVIOUS
    <3>. HIDE DEF Body
    <3>. QED
      BY <3>6, <3>7
  <2>3. \A k \in 0..(n - 1) : k \in T => k + 1 \in T
    BY <2>2
  <2>. HIDE DEF T
  <2>4. n \in T
    <3>1. n \in 0..n
      OBVIOUS
    <3>. QED
      BY <2>1, <2>3, <3>1, InductionTo
  <2>. QED
    BY <2>4 DEF T
<1>4. d = Body(d, n)
  <2>. HIDE DEF Body
  <2>. QED
    BY <1>1, <1>3, Zenon
<1>5. DOMAIN d = 0..n
  BY <1>4, Zenon
<1>6. \A m \in 0..n : d[m] = Digits(d, m)
  BY <1>4, Zenon
<1>. QED
  BY <1>5, <1>6 DEF d

(* Two numbers have different digits. *)
LEMMA DecimalsDiffer ==
    ASSUME NEW n \in Nat
    PROVE  LET d == Silk!Decimals(n)
           IN  /\ \A m \in 0..n : d[m] \in Seq(Int)
               /\ \A i, j \in 0..n : d[i] = d[j] => i = j
<1>. DEFINE d == Silk!Decimals(n)
            rest(m) == IF m < 10 THEN <<>> ELSE d[m \div 10]
<1>1. \A m \in 0..n : d[m] = rest(m) \o <<48 + (m % 10)>>
  BY DecimalFacts
<1>. HIDE DEF d
<1>2. \A m \in Nat : m >= 10 => m \div 10 \in 0..(m - 1)
  OBVIOUS
<1>. DEFINE Holds(k) == /\ \A m \in 0..k : d[m] \in Seq(Int) /\ d[m] # <<>>
                        /\ \A i, j \in 0..k : d[i] = d[j] => i = j
            T == {k \in 0..n : Holds(k)}
<1>3. \A x \in Seq(Int) : \A c \in Int : x \o <<c>> \in Seq(Int) /\ x \o <<c>> # <<>>
  OBVIOUS
<1>5. \A m \in Nat : 48 + (m % 10) \in Int
  OBVIOUS
<1>6. \A m \in Nat : m < 10 => m % 10 = m
  OBVIOUS
<1>7. \A i, j \in Nat : i % 10 = j % 10 /\ i \div 10 = j \div 10 => i = j
  OBVIOUS
<1>8. ASSUME NEW k \in Nat, k <= n, k < 10 \/ Holds(k - 1) PROVE rest(k) \in Seq(Int)
  <2>1. CASE k < 10
    BY <2>1
  <2>2. CASE k >= 10
    <3>1. k \div 10 \in 0..(k - 1)
      BY <1>2, <2>2
    <3>. QED
      BY <1>8, <2>2, <3>1
  <2>. QED
    BY <2>1, <2>2
<1>9. Holds(0)
  <2>1. 0 \in 0..n /\ rest(0) = <<>>
    OBVIOUS
  <2>2. d[0] = <<>> \o <<48 + (0 % 10)>>
    BY <1>1, <2>1
  <2>3. <<>> \in Seq(Int) /\ 48 + (0 % 10) \in Int
    OBVIOUS
  <2>4. d[0] \in Seq(Int) /\ d[0] # <<>>
    BY <1>3, <2>2, <2>3
  <2>. QED
    BY <2>4
<1>10. ASSUME NEW k \in 0..(n - 1), Holds(k) PROVE Holds(k + 1)
  <2>. DEFINE m == k + 1
  <2>1. m \in 0..n /\ m \in Nat /\ m <= n /\ m - 1 = k /\ \A i \in 0..m : i \in 0..k \/ i = m
    OBVIOUS
  <2>. HIDE DEF m, Holds
  <2>2. rest(m) \in Seq(Int)
    BY <1>8, <1>10, <2>1
  <2>3. d[m] = rest(m) \o <<48 + (m % 10)>> /\ 48 + (m % 10) \in Int
    BY <1>1, <1>5, <2>1
  <2>4. d[m] \in Seq(Int) /\ d[m] # <<>>
    <3>. HIDE DEF rest
    <3>. QED
      BY <1>3, <2>2, <2>3
  <2>5. ASSUME NEW i \in 0..k, d[i] = d[m] PROVE i = m
    <3>1. i \in 0..n /\ i \in Nat
      OBVIOUS
    <3>2. rest(i) \in Seq(Int)
      <4>1. i >= 10 => i \div 10 \in 0..k
        BY <1>2, <3>1
      <4>. QED
        BY <1>10, <4>1 DEF Holds
    <3>3. d[i] = rest(i) \o <<48 + (i % 10)>> /\ 48 + (i % 10) \in Int
      BY <1>1, <1>5, <3>1
    <3>4. rest(i) = rest(m) /\ 48 + (i % 10) = 48 + (m % 10)
      <4>. DEFINE x == rest(i)
                  y == rest(m)
                  a == 48 + (i % 10)
                  b == 48 + (m % 10)
      <4>1. x \in Seq(Int) /\ y \in Seq(Int) /\ a \in Int /\ b \in Int /\ x \o <<a>> = y \o <<b>>
        BY <2>2, <2>3, <2>5, <3>2, <3>3, Zenon
      <4>. HIDE DEF x, y, a, b
      <4>2. /\ Len(x) \in Nat /\ Len(y) \in Nat /\ Len(x \o <<a>>) = Len(x) + 1
            /\ Len(y \o <<b>>) = Len(y) + 1
            /\ (x \o <<a>>)[Len(x) + 1] = a /\ (y \o <<b>>)[Len(y) + 1] = b
            /\ \A j \in 1..Len(x) : (x \o <<a>>)[j] = x[j]
            /\ \A j \in 1..Len(y) : (y \o <<b>>)[j] = y[j]
        BY <4>1
      <4>3. Len(x) = Len(y)
        BY <4>1, <4>2
      <4>4. a = b /\ \A j \in 1..Len(x) : x[j] = y[j]
        BY <4>1, <4>2, <4>3
      <4>5. x = y
        BY <4>1, <4>3, <4>4, SeqEqual
      <4>. QED
        BY <4>4, <4>5 DEF x, y, a, b
    <3>5. i % 10 = m % 10
      BY <2>1, <3>1, <3>4
    <3>6. ASSUME NEW x \in Nat, x >= 10, x <= m PROVE x \div 10 \in 0..k /\ rest(x) # <<>>
      <4>1. x \div 10 \in 0..k
        BY <1>2, <2>1, <3>6
      <4>. QED
        BY <1>10, <3>6, <4>1 DEF Holds
    <3>7. CASE i < 10
      <4>1. m < 10
        BY <2>1, <3>4, <3>6, <3>7
      <4>. QED
        BY <1>6, <2>1, <3>1, <3>5, <3>7, <4>1
    <3>8. CASE i >= 10
      <4>1. i <= m
        BY <2>1
      <4>2. m >= 10
        BY <2>1, <3>1, <3>4, <3>6, <3>8, <4>1
      <4>3. d[i \div 10] = d[m \div 10] /\ i \div 10 \in 0..k /\ m \div 10 \in 0..k
        BY <2>1, <3>1, <3>4, <3>6, <3>8, <4>1, <4>2
      <4>4. i \div 10 = m \div 10
        BY <1>10, <4>3 DEF Holds
      <4>. QED
        BY <1>7, <2>1, <3>1, <3>5, <4>4
    <3>. QED
      BY <3>1, <3>7, <3>8
  <2>6. Holds(m)
    BY <1>10, <2>1, <2>4, <2>5 DEF Holds
  <2>. QED
    BY <2>6 DEF m
<1>11. \A k \in 0..(n - 1) : k \in T => k + 1 \in T
  <2>1. \A k \in 0..(n - 1) : k + 1 \in 0..n
    OBVIOUS
  <2>. HIDE DEF Holds
  <2>. QED
    BY <1>10, <2>1
<1>12. 0 \in T
  <2>1. 0 \in 0..n
    OBVIOUS
  <2>. HIDE DEF Holds
  <2>. QED
    BY <1>9, <2>1
<1>13. Holds(n)
  <2>1. n \in 0..n
    OBVIOUS
  <2>. HIDE DEF T
  <2>2. n \in T
    BY <1>11, <1>12, <2>1, InductionTo
  <2>. HIDE DEF Holds
  <2>. QED
    BY <2>2 DEF T
<1>. QED
  BY <1>13 DEF d

(* The new name of a symbol is not one of the table. *)
LEMMA FreshFacts ==
    ASSUME NEW t, IsFiniteSet(DOMAIN t), NEW root \in Seq(Int)
    PROVE  Silk!FreshName(t, root) \notin DOMAIN t
<1>. DEFINE c == Cardinality(DOMAIN t)
            d == Silk!Decimals(c)
            free == {n \in DOMAIN d : root \o d[n] \notin DOMAIN t}
            f == [n \in 0..c |-> root \o d[n]]
<1>1. c \in Nat
  BY FS_CardinalityType
<1>. HIDE DEF c
<1>2. /\ DOMAIN d = 0..c /\ \A m \in 0..c : d[m] \in Seq(Int)
      /\ \A i, j \in 0..c : d[i] = d[j] => i = j
  BY <1>1, DecimalFacts, DecimalsDiffer
<1>. HIDE DEF d
<1>3. free # {}
  <2>. SUFFICES ASSUME free = {} PROVE FALSE
    OBVIOUS
  <2>1. f \in [0..c -> DOMAIN t]
    BY <1>2
  <2>2. IsFiniteSet(0..c) /\ Cardinality(0..c) = c + 1
    BY <1>1, FS_Interval
  <2>3. Cardinality(DOMAIN t) < Cardinality(0..c)
    BY <1>1, <2>2 DEF c
  <2>4. \E x, y \in 0..c : x # y /\ f[x] = f[y]
    <3>. DEFINE S == 0..c
                R == DOMAIN t
    <3>1. IsFiniteSet(S) /\ IsFiniteSet(R) /\ Cardinality(R) < Cardinality(S) /\ f \in [S -> R]
      BY <2>1, <2>2, <2>3
    <3>. HIDE DEF f, S, R
    <3>2. \E x, y \in S : x # y /\ f[x] = f[y]
      BY <3>1, FS_PigeonHole
    <3>. QED
      BY <3>2 DEF S
  <2>5. PICK x \in 0..c, y \in 0..c : x # y /\ root \o d[x] = root \o d[y]
    BY <2>4
  <2>6. \A u, v \in Seq(Int) : root \o u = root \o v => u = v
    <3>. SUFFICES ASSUME NEW u \in Seq(Int), NEW v \in Seq(Int), root \o u = root \o v
                  PROVE  u = v
      OBVIOUS
    <3>1. /\ Len(root) \in Nat /\ Len(u) \in Nat /\ Len(v) \in Nat
          /\ Len(root \o u) = Len(root) + Len(u) /\ Len(root \o v) = Len(root) + Len(v)
      OBVIOUS
    <3>2. Len(u) = Len(v)
      BY <3>1
    <3>3. ASSUME NEW i \in 1..Len(u) PROVE u[i] = v[i]
      <4>1. (root \o u)[Len(root) + i] = u[i] /\ (root \o v)[Len(root) + i] = v[i]
        BY <3>1, <3>2
      <4>. QED
        BY <4>1
    <3>. QED
      BY <3>2, <3>3, SeqEqual
  <2>7. d[x] \in Seq(Int) /\ d[y] \in Seq(Int)
    BY <1>2
  <2>8. d[x] = d[y]
    BY <2>5, <2>6, <2>7
  <2>. QED
    BY <1>2, <2>5, <2>8
<1>4. Silk!FreshName(t, root) = root \o d[Silk!Min(free)]
  BY Zenon DEF Silk!FreshName, d, c, Silk!Cardinality, Cardinality
<1>5. Silk!Min(free) \in free
  <2>1. free \in SUBSET Nat
    BY <1>1, <1>2
  <2>. QED
    BY <1>3, <2>1, MinFacts
<1>. QED
  BY <1>4, <1>5

-----------------------------------------------------------------------------
(***************************************************************************)
(* The table of symbols.                                                   *)
(***************************************************************************)

(* e is the symbol u with the addresses of all sections. *)
IsSymbol(fs, u, e) ==
    /\ e \in Symbol /\ e.type = Sym(fs, u).type
    /\ e.type = TYPE.E <=> e.value = Silk!None
    /\ e.type # TYPE.E => e.value = ValueOf(fs, u)
    /\ DOMAIN e.refs = DOMAIN Sym(fs, u).refs
    /\ \A r \in DOMAIN e.refs : e.refs[r] = RefOf(fs, u, r)

(* No two references of the symbols M are at the same place. *)
Distinct(fs, M) ==
    \A v, w \in M : \A r \in DOMAIN Sym(fs, v).refs, q \in DOMAIN Sym(fs, w).refs :
       RefOf(fs, v, r) = RefOf(fs, w, q) => v = w /\ r = q

(* References at the same place are the same. *)
LEMMA DistinctFacts ==
    ASSUME NEW fs, NEW M, Distinct(fs, M), NEW v \in M, NEW w \in M,
           NEW r \in DOMAIN Sym(fs, v).refs, NEW q \in DOMAIN Sym(fs, w).refs,
           RefOf(fs, v, r) = RefOf(fs, w, q)
    PROVE  v = w /\ r = q
BY DEF Distinct

(* Symbol u, as e, becomes an entry n of its own; the others are renamed to. *)
Separate(fs, u, e, t, new, to, n) ==
    /\ n \in DOMAIN new /\ new[n] = e
    /\ \A m \in DOMAIN t : to[m] \in DOMAIN new /\ to[m] # n /\ new[to[m]] = t[m]
    /\ \A k \in DOMAIN new : k = n \/ \E m \in DOMAIN t : k = to[m]
    /\ \A m \in DOMAIN t : t[m].type # TYPE.I => to[m] = m
    /\ e.type # TYPE.I => n = Sym(fs, u).name

(* The table with an entry more is that of one symbol more, *)
LEMMA AddedKeeps ==
    ASSUME NEW fs, NEW M, NEW t, TableOf(fs, M, t), NEW u, u \notin M,
           NEW e, IsSymbol(fs, u, e), Apart(fs) => Distinct(fs, M \cup {u}),
           NEW new, NEW to, NEW n, IsFiniteSet(DOMAIN new),
           Separate(fs, u, e, t, new, to, n)
    PROVE  TableOf(fs, M \cup {u}, new)
<1>. USE DEF Separate
<1>. DEFINE N == M \cup {u}
<1>0. TYPE.I # TYPE.P /\ TYPE.E # TYPE.P /\ TYPE.I # TYPE.E
  BY DEF TYPE, Silk!SYMBOL_TYPE
<1>. HIDE DEF TYPE
<1>1. /\ DefinedOnce(fs, M)
      /\ \A v \in M : Entered(fs, v, t)
      /\ \A m \in DOMAIN t : FromSymbols(fs, M, t, m)
      /\ Apart(fs) => Once(t)
  BY DEF TableOf
<1>2. DefinedOnce(fs, N)
  <2>1. ASSUME NEW v \in M, Sym(fs, v).type = TYPE.P, Sym(fs, u).type = TYPE.P,
               Sym(fs, v).name = Sym(fs, u).name
        PROVE  FALSE
    <3>1. PICK m \in DOMAIN t : m = Sym(fs, v).name /\ t[m].type = TYPE.P
      BY <1>0, <1>1, <2>1 DEF Entered
    <3>2. to[m] = m /\ to[m] # n
      BY <1>0, <3>1
    <3>3. n = Sym(fs, u).name
      BY <1>0, <2>1 DEF IsSymbol
    <3>. QED
      BY <2>1, <3>1, <3>2, <3>3
  <2>. QED
    BY <1>1, <2>1 DEF DefinedOnce
<1>3. ASSUME NEW v \in N PROVE Entered(fs, v, new)
  <2>1. CASE v \in M
    <3>1. PICK m \in DOMAIN t :
            /\ \A r \in DOMAIN Sym(fs, v).refs :
                 \E i \in DOMAIN t[m].refs : t[m].refs[i] = RefOf(fs, v, r)
            /\ IF Sym(fs, v).type = TYPE.I THEN t[m].type = TYPE.I
               ELSE m = Sym(fs, v).name /\ t[m].type \in {Sym(fs, v).type, TYPE.P}
            /\ Sym(fs, v).type # TYPE.E => t[m].value = ValueOf(fs, v)
      BY <1>1, <2>1 DEF Entered
    <3>2. to[m] \in DOMAIN new /\ new[to[m]] = t[m]
      OBVIOUS
    <3>3. Sym(fs, v).type # TYPE.I => to[m] = m
      BY <1>0, <3>1
    <3>. QED
      BY <3>1, <3>2, <3>3 DEF Entered
  <2>2. CASE v = u
    BY <2>2 DEF Entered, IsSymbol
  <2>. QED
    BY <2>1, <2>2
<1>4. ASSUME NEW k \in DOMAIN new PROVE FromSymbols(fs, N, new, k)
  <2>1. CASE k = n
    BY <2>1 DEF FromSymbols, IsSymbol
  <2>2. CASE k # n
    <3>1. PICK m \in DOMAIN t : k = to[m]
      BY <2>2
    <3>2. new[k] = t[m] /\ (t[m].type # TYPE.I => k = m) /\ FromSymbols(fs, M, t, m)
      BY <1>1, <3>1
    <3>. QED
      BY <3>2 DEF FromSymbols
  <2>. QED
    BY <2>1, <2>2
<1>5. ASSUME Apart(fs) PROVE Once(new)
  <2>1. Once(t) /\ Distinct(fs, N)
    BY <1>1, <1>5
  <2>2. ASSUME NEW m \in DOMAIN t, NEW i \in DOMAIN t[m].refs, NEW r \in DOMAIN e.refs,
               t[m].refs[i] = e.refs[r]
        PROVE  FALSE
    <3>1. PICK v \in M : \E q \in DOMAIN Sym(fs, v).refs : t[m].refs[i] = RefOf(fs, v, q)
      BY <1>1 DEF FromSymbols
    <3>2. PICK q \in DOMAIN Sym(fs, v).refs : t[m].refs[i] = RefOf(fs, v, q)
      BY <3>1
    <3>3. r \in DOMAIN Sym(fs, u).refs /\ e.refs[r] = RefOf(fs, u, r)
      BY DEF IsSymbol
    <3>4. RefOf(fs, v, q) = RefOf(fs, u, r) /\ v \in N /\ u \in N
      BY <2>2, <3>2, <3>3
    <3>5. v = u
      <4>1. Distinct(fs, N) /\ v \in N /\ u \in N
        BY <2>1, <3>4
      <4>. HIDE DEF N
      <4>. QED
        BY <3>2, <3>3, <3>4, <4>1, DistinctFacts
    <3>. QED
      BY <3>5
  <2>3. ASSUME NEW r \in DOMAIN e.refs, NEW q \in DOMAIN e.refs, e.refs[r] = e.refs[q]
        PROVE  r = q
    BY <2>1, <2>3 DEF Distinct, IsSymbol
  <2>4. ASSUME NEW k \in DOMAIN new, NEW l \in DOMAIN new,
               NEW i \in DOMAIN new[k].refs, NEW j \in DOMAIN new[l].refs,
               new[k].refs[i] = new[l].refs[j]
        PROVE  k = l /\ i = j
    <3>1. CASE k = n /\ l = n
      BY <2>3, <2>4, <3>1
    <3>2. CASE k = n /\ l # n
      <4>1. PICK m \in DOMAIN t : l = to[m]
        BY <3>2
      <4>. QED
        BY <2>2, <2>4, <3>2, <4>1
    <3>3. CASE k # n /\ l = n
      <4>1. PICK m \in DOMAIN t : k = to[m]
        BY <3>3
      <4>. QED
        BY <2>2, <2>4, <3>3, <4>1
    <3>4. CASE k # n /\ l # n
      <4>1. PICK m1 \in DOMAIN t : k = to[m1]
        BY <3>4
      <4>2. PICK m2 \in DOMAIN t : l = to[m2]
        BY <3>4
      <4>3. new[k] = t[m1] /\ new[l] = t[m2]
        BY <4>1, <4>2
      <4>4. m1 = m2 /\ i = j
        BY <2>1, <2>4, <4>3 DEF Once
      <4>. QED
        BY <4>1, <4>2, <4>4
    <3>. QED
      BY <3>1, <3>2, <3>3, <3>4
  <2>. QED
    BY <2>4 DEF Once
<1>. QED
  BY <1>2, <1>3, <1>4, <1>5 DEF TableOf

(* A reference to a symbol and its definition, one of them in t and the    *)
(* other u, as e, become one entry. *)
Together(fs, u, e, t, new, n) ==
    /\ n \in DOMAIN t /\ n = Sym(fs, u).name /\ t[n] \in Symbol
    /\ DOMAIN new = DOMAIN t /\ \A k \in DOMAIN t : k # n => new[k] = t[k]
    /\ new[n].type = TYPE.P /\ new[n].refs = t[n].refs \o e.refs
    /\ \/ e.type = TYPE.E /\ t[n].type = TYPE.P /\ new[n].value = t[n].value
       \/ e.type = TYPE.P /\ t[n].type = TYPE.E /\ new[n].value = e.value

(* and so is the table with a definition joined to its references. *)
LEMMA JoinedKeeps ==
    ASSUME NEW fs, NEW M, NEW t, TableOf(fs, M, t), NEW u, u \notin M,
           NEW e, IsSymbol(fs, u, e), Apart(fs) => Distinct(fs, M \cup {u}),
           NEW n, NEW new, Together(fs, u, e, t, new, n)
    PROVE  TableOf(fs, M \cup {u}, new)
<1>. USE DEF Together
<1>. DEFINE N == M \cup {u}
            old == t[n].refs
            L == Len(old)
<1>0. TYPE.I # TYPE.P /\ TYPE.E # TYPE.P /\ TYPE.I # TYPE.E
  BY DEF TYPE, Silk!SYMBOL_TYPE
<1>. HIDE DEF TYPE
<1>1. /\ IsFiniteSet(DOMAIN t) /\ DefinedOnce(fs, M)
      /\ \A v \in M : Entered(fs, v, t)
      /\ \A m \in DOMAIN t : FromSymbols(fs, M, t, m)
      /\ Apart(fs) => Once(t)
  BY DEF TableOf
<1>2. /\ \A i \in DOMAIN old : i \in DOMAIN new[n].refs /\ new[n].refs[i] = old[i]
      /\ \A i \in DOMAIN e.refs : L + i \in DOMAIN new[n].refs /\ new[n].refs[L + i] = e.refs[i]
      /\ \A i \in DOMAIN new[n].refs : 
           \/ i \in DOMAIN old /\ new[n].refs[i] = old[i]
           \/ i - L \in DOMAIN e.refs /\ L + (i - L) = i /\ new[n].refs[i] = e.refs[i - L]
  <2>. DEFINE x == e.refs
  <2>1. old \in Seq(Int) /\ x \in Seq(Int)
    BY DEF IsSymbol, Symbol
  <2>2. old \in Seq(Range(old)) /\ x \in Seq(Range(x))
    BY <2>1, SeqRange
  <2>3. new[n].refs = old \o x
    OBVIOUS
  <2>. HIDE DEF old, x
  <2>4. /\ L \in Nat /\ Len(x) \in Nat
        /\ DOMAIN old = 1..L /\ DOMAIN x = 1..Len(x)
        /\ DOMAIN (old \o x) = 1..(L + Len(x))
        /\ \A k \in 1..(L + Len(x)) : (old \o x)[k] = IF k <= L THEN old[k] ELSE x[k - L]
    BY <2>2, ConcatFacts
  <2>. DEFINE z == new[n].refs
              K == Len(x)
  <2>5. z = old \o x
    BY <2>3
  <2>. HIDE DEF z, L, K
  <2>6. /\ DOMAIN z = 1..(L + K)
        /\ \A k \in 1..(L + K) : z[k] = IF k <= L THEN old[k] ELSE x[k - L]
    BY <2>4, <2>5 DEF K
  <2>7. L \in Nat /\ K \in Nat /\ DOMAIN old = 1..L /\ DOMAIN x = 1..K
    BY <2>4 DEF K
  <2>8. \A i \in 1..L : i \in 1..(L + K) /\ z[i] = old[i]
    BY <2>6, <2>7
  <2>9. \A i \in 1..K : L + i \in 1..(L + K) /\ z[L + i] = x[i]
    <3>1. \A i \in 1..K : L + i \in 1..(L + K) /\ ~(L + i <= L) /\ (L + i) - L = i
      BY <2>7
    <3>. QED
      BY <2>6, <3>1
  <2>10. \A i \in 1..(L + K) : \/ i \in 1..L /\ z[i] = old[i]
                               \/ i - L \in 1..K /\ L + (i - L) = i /\ z[i] = x[i - L]
    BY <2>6, <2>7
  <2>11. /\ \A i \in DOMAIN old : i \in DOMAIN z /\ z[i] = old[i]
         /\ \A i \in DOMAIN x : L + i \in DOMAIN z /\ z[L + i] = x[i]
         /\ \A i \in DOMAIN z : \/ i \in DOMAIN old /\ z[i] = old[i]
                                \/ i - L \in DOMAIN x /\ L + (i - L) = i /\ z[i] = x[i - L]
    BY <2>6, <2>7, <2>8, <2>9, <2>10
  <2>. QED
    BY <2>11 DEF z, x
<1>. HIDE DEF L
<1>3. DefinedOnce(fs, N)
  <2>1. ASSUME NEW v \in M, Sym(fs, v).type = TYPE.P, Sym(fs, u).type = TYPE.P,
               Sym(fs, v).name = Sym(fs, u).name
        PROVE  FALSE
    <3>1. t[n].type = TYPE.P
      BY <1>0, <1>1, <2>1 DEF Entered
    <3>2. e.type = TYPE.P
      BY <2>1 DEF IsSymbol
    <3>. QED
      BY <1>0, <3>1, <3>2
  <2>. QED
    BY <1>1, <2>1 DEF DefinedOnce
<1>4. ASSUME NEW v \in N PROVE Entered(fs, v, new)
  <2>1. CASE v \in M
    <3>1. PICK m \in DOMAIN t :
            /\ \A r \in DOMAIN Sym(fs, v).refs :
                 \E i \in DOMAIN t[m].refs : t[m].refs[i] = RefOf(fs, v, r)
            /\ IF Sym(fs, v).type = TYPE.I THEN t[m].type = TYPE.I
               ELSE m = Sym(fs, v).name /\ t[m].type \in {Sym(fs, v).type, TYPE.P}
            /\ Sym(fs, v).type # TYPE.E => t[m].value = ValueOf(fs, v)
      BY <1>1, <2>1 DEF Entered
    <3>2. CASE m # n
      BY <3>1, <3>2 DEF Entered
    <3>3. CASE m = n
      <4>1. Sym(fs, v).type # TYPE.I
        BY <1>0, <3>1, <3>3
      <4>2. Sym(fs, v).type # TYPE.E => new[n].value = ValueOf(fs, v)
        BY <1>0, <3>1, <3>3, <4>1
      <4>3. \A r \in DOMAIN Sym(fs, v).refs :
              \E i \in DOMAIN new[n].refs : new[n].refs[i] = RefOf(fs, v, r)
        <5>. SUFFICES ASSUME NEW r \in DOMAIN Sym(fs, v).refs
                      PROVE  \E i \in DOMAIN new[n].refs : new[n].refs[i] = RefOf(fs, v, r)
          OBVIOUS
        <5>1. PICK i \in DOMAIN old : old[i] = RefOf(fs, v, r)
          BY <3>1, <3>3
        <5>2. i \in DOMAIN new[n].refs /\ new[n].refs[i] = old[i]
          BY <1>2
        <5>. QED
          BY <5>1, <5>2
      <4>. QED
        BY <3>1, <3>3, <4>1, <4>2, <4>3 DEF Entered
    <3>. QED
      BY <3>2, <3>3
  <2>2. CASE v = u
    <3>1. /\ e.type = Sym(fs, u).type /\ (e.type # TYPE.E => e.value = ValueOf(fs, u))
          /\ \A r \in DOMAIN Sym(fs, u).refs : r \in DOMAIN e.refs /\ e.refs[r] = RefOf(fs, u, r)
      BY DEF IsSymbol
    <3>2. \A r \in DOMAIN Sym(fs, u).refs :
            \E i \in DOMAIN new[n].refs : new[n].refs[i] = RefOf(fs, u, r)
      <4>. SUFFICES ASSUME NEW r \in DOMAIN Sym(fs, u).refs
                    PROVE  \E i \in DOMAIN new[n].refs : new[n].refs[i] = RefOf(fs, u, r)
        OBVIOUS
      <4>1. r \in DOMAIN e.refs /\ e.refs[r] = RefOf(fs, u, r)
        BY <3>1
      <4>2. L + r \in DOMAIN new[n].refs /\ new[n].refs[L + r] = e.refs[r]
        BY <1>2, <4>1
      <4>. QED
        BY <4>1, <4>2
    <3>3. Sym(fs, u).type # TYPE.I /\ (Sym(fs, u).type # TYPE.E => new[n].value = ValueOf(fs, u))
      BY <1>0, <3>1
    <3>. QED
      BY <2>2, <3>2, <3>3 DEF Entered
  <2>. QED
    BY <2>1, <2>2
<1>5. ASSUME NEW m \in DOMAIN t, NEW i \in DOMAIN t[m].refs
      PROVE  \E v \in M : \E q \in DOMAIN Sym(fs, v).refs : t[m].refs[i] = RefOf(fs, v, q)
  BY <1>1 DEF FromSymbols
<1>6. ASSUME NEW i \in DOMAIN e.refs
      PROVE  i \in DOMAIN Sym(fs, u).refs /\ e.refs[i] = RefOf(fs, u, i)
  BY DEF IsSymbol
<1>7. ASSUME NEW k \in DOMAIN new PROVE FromSymbols(fs, N, new, k)
  <2>1. CASE k # n
    <3>1. FromSymbols(fs, M, t, k) /\ new[k] = t[k]
      BY <1>1, <2>1
    <3>. QED
      BY <3>1 DEF FromSymbols
  <2>2. CASE k = n
    <3>1. \E v \in N : Sym(fs, v).type = TYPE.P /\ Sym(fs, v).name = n
      <4>1. CASE e.type = TYPE.P
        BY <4>1 DEF IsSymbol
      <4>2. CASE t[n].type = TYPE.P
        BY <1>0, <1>1, <4>2 DEF FromSymbols
      <4>. QED
        BY <4>1, <4>2
    <3>2. new[n].value # Silk!None
      BY <1>0, <1>1 DEF FromSymbols, IsSymbol
    <3>3. ASSUME NEW i \in DOMAIN new[n].refs
          PROVE  \E v \in N : \E r \in DOMAIN Sym(fs, v).refs : new[n].refs[i] = RefOf(fs, v, r)
      <4>1. CASE i \in DOMAIN old /\ new[n].refs[i] = old[i]
        <5>1. PICK v \in M : \E q \in DOMAIN Sym(fs, v).refs : t[n].refs[i] = RefOf(fs, v, q)
          BY <1>5, <4>1
        <5>. QED
          BY <4>1, <5>1
      <4>2. CASE i - L \in DOMAIN e.refs /\ new[n].refs[i] = e.refs[i - L]
        <5>1. i - L \in DOMAIN Sym(fs, u).refs /\ e.refs[i - L] = RefOf(fs, u, i - L)
          BY <1>6, <4>2
        <5>. QED
          BY <4>2, <5>1
      <4>. QED
        BY <1>2, <4>1, <4>2
    <3>. QED
      BY <1>0, <2>2, <3>1, <3>2, <3>3 DEF FromSymbols
  <2>. QED
    BY <2>1, <2>2
<1>8. ASSUME Apart(fs) PROVE Once(new)
  <2>1. Once(t) /\ Distinct(fs, N)
    BY <1>1, <1>8
  <2>2. ASSUME NEW m \in DOMAIN t, NEW i \in DOMAIN t[m].refs, NEW r \in DOMAIN e.refs
        PROVE  t[m].refs[i] # e.refs[r]
    <3>. SUFFICES ASSUME t[m].refs[i] = e.refs[r] PROVE FALSE
      OBVIOUS
    <3>1. PICK v \in M : \E q \in DOMAIN Sym(fs, v).refs : t[m].refs[i] = RefOf(fs, v, q)
      BY <1>5
    <3>2. PICK q \in DOMAIN Sym(fs, v).refs : t[m].refs[i] = RefOf(fs, v, q)
      BY <3>1
    <3>3. r \in DOMAIN Sym(fs, u).refs /\ e.refs[r] = RefOf(fs, u, r)
      BY <1>6
    <3>4. RefOf(fs, v, q) = RefOf(fs, u, r) /\ v \in N /\ u \in N
      BY <3>2, <3>3
    <3>5. v = u
      <4>1. Distinct(fs, N) /\ v \in N /\ u \in N
        BY <2>1, <3>4
      <4>. HIDE DEF N
      <4>. QED
        BY <3>2, <3>3, <3>4, <4>1, DistinctFacts
    <3>. QED
      BY <3>5
  <2>3. ASSUME NEW r \in DOMAIN e.refs, NEW q \in DOMAIN e.refs, e.refs[r] = e.refs[q]
        PROVE  r = q
    BY <1>6, <2>1, <2>3 DEF Distinct
  <2>4. ASSUME NEW l \in DOMAIN t, l # n, NEW i \in DOMAIN new[n].refs, NEW j \in DOMAIN t[l].refs
        PROVE  new[n].refs[i] # t[l].refs[j]
    <3>1. CASE i \in DOMAIN old /\ new[n].refs[i] = old[i]
      BY <2>1, <2>4, <3>1 DEF Once
    <3>2. CASE i - L \in DOMAIN e.refs /\ new[n].refs[i] = e.refs[i - L]
      BY <2>2, <3>2
    <3>. QED
      BY <1>2, <3>1, <3>2
  <2>5. ASSUME NEW i \in DOMAIN new[n].refs, NEW j \in DOMAIN new[n].refs,
               new[n].refs[i] = new[n].refs[j]
        PROVE  i = j
    <3>1. CASE i \in DOMAIN old /\ new[n].refs[i] = old[i]
      <4>1. CASE j \in DOMAIN old /\ new[n].refs[j] = old[j]
        <5>1. t[n].refs[i] = t[n].refs[j]
          BY <2>5, <3>1, <4>1
        <5>. QED
          BY <2>1, <3>1, <4>1, <5>1 DEF Once
      <4>2. CASE j - L \in DOMAIN e.refs /\ new[n].refs[j] = e.refs[j - L]
        <5>1. n \in DOMAIN t /\ i \in DOMAIN t[n].refs /\ t[n].refs[i] = e.refs[j - L]
          BY <1>0, <2>5, <3>1, <4>2
        <5>. HIDE DEF L, old
        <5>. QED
          BY <2>2, <4>2, <5>1
      <4>. QED
        BY <1>2, <4>1, <4>2
    <3>2. CASE i - L \in DOMAIN e.refs /\ L + (i - L) = i /\ new[n].refs[i] = e.refs[i - L]
      <4>1. CASE j \in DOMAIN old /\ new[n].refs[j] = old[j]
        <5>1. n \in DOMAIN t /\ j \in DOMAIN t[n].refs /\ t[n].refs[j] = e.refs[i - L]
          BY <1>0, <2>5, <3>2, <4>1
        <5>. HIDE DEF L, old
        <5>. QED
          BY <2>2, <3>2, <5>1
      <4>2. CASE j - L \in DOMAIN e.refs /\ L + (j - L) = j /\ new[n].refs[j] = e.refs[j - L]
        <5>1. i - L = j - L
          BY <2>3, <2>5, <3>2, <4>2
        <5>. QED
          BY <3>2, <4>2, <5>1
      <4>. QED
        BY <1>2, <4>1, <4>2
    <3>. QED
      BY <1>2, <3>1, <3>2
  <2>6. ASSUME NEW k \in DOMAIN new, NEW l \in DOMAIN new,
               NEW i \in DOMAIN new[k].refs, NEW j \in DOMAIN new[l].refs,
               new[k].refs[i] = new[l].refs[j]
        PROVE  k = l /\ i = j
    <3>1. CASE k = n /\ l = n
      BY <2>5, <2>6, <3>1
    <3>2. CASE k = n /\ l # n
      <4>1. l \in DOMAIN t /\ new[l] = t[l]
        BY <3>2
      <4>. QED
        <5>1. j \in DOMAIN t[l].refs /\ new[n].refs[i] = t[l].refs[j] /\ i \in DOMAIN new[n].refs
          BY <2>6, <3>2, <4>1, Zenon
        <5>. QED
          BY <2>4, <3>2, <4>1, <5>1
    <3>3. CASE k # n /\ l = n
      <4>1. k \in DOMAIN t /\ new[k] = t[k]
        BY <3>3
      <4>. QED
        <5>1. i \in DOMAIN t[k].refs /\ new[n].refs[j] = t[k].refs[i] /\ j \in DOMAIN new[n].refs
          BY <2>6, <3>3, <4>1, Zenon
        <5>. QED
          BY <2>4, <3>3, <4>1, <5>1
    <3>4. CASE k # n /\ l # n
      BY <2>1, <2>6, <3>4 DEF Once
    <3>. QED
      BY <3>1, <3>2, <3>3, <3>4
  <2>. QED
    BY <2>6 DEF Once
<1>. QED
  BY <1>1, <1>3, <1>4, <1>7, <1>8 DEF TableOf

(* Symbol u, as e, is next to enter the table t of the symbols M. *)
Entering(fs, M, t, u, e) ==
    /\ TableOf(fs, M, t) /\ \A k \in DOMAIN t : t[k] \in Symbol
    /\ u \notin M /\ Sym(fs, u).name \in Seq(Int) /\ IsSymbol(fs, u, e)
    /\ Apart(fs) => Distinct(fs, M \cup {u})

(* What m, the answer of add_objects to the symbol u, as e, says *)
Merging(fs, M, u, e, m) ==
    /\ m.outcome \in {"ok", "error", "panic"}
    /\ m.outcome = "ok" => TableOf(fs, M \cup {u}, m.table)
    /\ m.outcome = "error" =>
         e.type = TYPE.P /\ \E v \in M : Sym(fs, v).type = TYPE.P /\ Sym(fs, v).name = Sym(fs, u).name
    /\ m.outcome = "panic" =>
         /\ e.type = TYPE.E
         /\ \E v \in M : Sym(fs, v).type = TYPE.E /\ Sym(fs, v).name = Sym(fs, u).name
         /\ \A v \in M : Sym(fs, v).name = Sym(fs, u).name => Sym(fs, v).type # TYPE.P

(* What add_objects does with one symbol, and why it fails *)
LEMMA MergedTable ==
    ASSUME NEW fs, NEW M, NEW t, NEW u, NEW e, Entering(fs, M, t, u, e)
    PROVE  Merging(fs, M, u, e, Silk!Merge(t, Sym(fs, u).name, e))
<1>. SUFFICES LET name == Sym(fs, u).name
                  m == Silk!Merge(t, name, e)
              IN  /\ m.outcome \in {"ok", "error", "panic"}
                  /\ m.outcome = "ok" => TableOf(fs, M \cup {u}, m.table)
                  /\ m.outcome = "error" =>
                       e.type = TYPE.P /\ \E v \in M : Sym(fs, v).type = TYPE.P /\ Sym(fs, v).name = name
                  /\ m.outcome = "panic" =>
                       /\ e.type = TYPE.E
                       /\ \E v \in M : Sym(fs, v).type = TYPE.E /\ Sym(fs, v).name = name
                       /\ \A v \in M : Sym(fs, v).name = name => Sym(fs, v).type # TYPE.P
  BY DEF Merging
<1>. USE DEF Entering
<1>. DEFINE T == Silk!SYMBOL_TYPE
            name == Sym(fs, u).name
            old == t[name]
            Adds(s) == [outcome |-> "ok", table |-> s]
            Fails(o) == [outcome |-> o, table |-> t]
            m == Silk!Merge(t, name, e)
            fresh == Silk!FreshName(t, name)
            t1 == Silk!Insert(t, name, e)
            t2 == Silk!Insert(t, fresh, e)
            t3 == Silk!Insert(Silk!Rename(t, name, fresh), name, e)
            t4 == [t EXCEPT ![name].refs = @ \o e.refs]
            t5 == [t EXCEPT ![name] = [e EXCEPT !.refs = old.refs \o @]]
            To(s) == TableOf(fs, M \cup {u}, s)
<1>1. m = CASE name \notin DOMAIN t -> Adds(t1)
            [] name \in DOMAIN t /\ e.type = T.I -> Adds(t2)
            [] name \in DOMAIN t /\ e.type # T.I /\ old.type = T.I -> Adds(t3)
            [] name \in DOMAIN t /\ e.type = T.E /\ old.type = T.P -> Adds(t4)
            [] name \in DOMAIN t /\ e.type = T.P /\ old.type = T.E -> Adds(t5)
            [] name \in DOMAIN t /\ e.type = T.P /\ old.type = T.P -> Fails("error")
            [] name \in DOMAIN t /\ e.type = T.E /\ old.type = T.E -> Fails("panic")
  BY Zenon DEF Silk!Merge
<1>2. T.I = 73 /\ T.P = 80 /\ T.E = 69 /\ Range(T) = {73, 80, 69} /\ TYPE = T
  BY DEF Silk!SYMBOL_TYPE, Range, TYPE
<1>3. \A x \in Symbol : x.type \in {73, 80, 69}
  BY <1>2 DEF Symbol
<1>. HIDE DEF T, m
<1>4. /\ IsFiniteSet(DOMAIN t)
      /\ \A v \in M : Entered(fs, v, t)
      /\ \A k \in DOMAIN t : FromSymbols(fs, M, t, k)
  BY DEF TableOf
<1>5. /\ e \in Symbol /\ e.type \in {73, 80, 69}
      /\ (name \in DOMAIN t => old \in Symbol /\ old.type \in {73, 80, 69})
  BY <1>3 DEF IsSymbol
<1>6. fresh \notin DOMAIN t
  BY <1>4, FreshFacts
<1>. HIDE DEF fresh
<1>7. name \notin DOMAIN t => To(t1)
  <2>. SUFFICES ASSUME name \notin DOMAIN t PROVE To(t1)
    OBVIOUS
  <2>. DEFINE to == [k \in DOMAIN t |-> k]
  <2>1. DOMAIN t1 = DOMAIN t \cup {name} /\ \A k \in DOMAIN t1 : t1[k] = IF k = name THEN e ELSE t[k]
    BY DEF Silk!Insert
  <2>. HIDE DEF t1
  <2>2. IsFiniteSet(DOMAIN t1)
    BY <1>4, <2>1, FS_AddElement
  <2>3. name \in DOMAIN t1 /\ t1[name] = e
    BY <2>1
  <2>4. \A k \in DOMAIN t : to[k] \in DOMAIN t1 /\ to[k] # name /\ t1[to[k]] = t[k]
    BY <2>1
  <2>5. \A k \in DOMAIN t1 : k = name \/ \E l \in DOMAIN t : k = to[l]
    BY <2>1
  <2>6. \A k \in DOMAIN t : t[k].type # TYPE.I => to[k] = k
    OBVIOUS
  <2>. HIDE DEF to, name
  <2>7. e.type # TYPE.I => name = Sym(fs, u).name
    BY DEF name
  <2>8. Separate(fs, u, e, t, t1, to, name)
    BY <2>3, <2>4, <2>5, <2>6, <2>7 DEF Separate
  <2>. QED
    BY <2>2, <2>8, AddedKeeps
<1>8. e.type = T.I => To(t2)
  <2>. SUFFICES ASSUME e.type = T.I PROVE To(t2)
    OBVIOUS
  <2>. DEFINE to == [k \in DOMAIN t |-> k]
  <2>1. DOMAIN t2 = DOMAIN t \cup {fresh} /\ \A k \in DOMAIN t2 : t2[k] = IF k = fresh THEN e ELSE t[k]
    BY DEF Silk!Insert
  <2>. HIDE DEF t2
  <2>2. IsFiniteSet(DOMAIN t2)
    BY <1>4, <2>1, FS_AddElement
  <2>3. fresh \in DOMAIN t2 /\ t2[fresh] = e
    BY <2>1
  <2>4. \A k \in DOMAIN t : to[k] \in DOMAIN t2 /\ to[k] # fresh /\ t2[to[k]] = t[k]
    BY <1>6, <2>1
  <2>5. \A k \in DOMAIN t2 : k = fresh \/ \E l \in DOMAIN t : k = to[l]
    BY <2>1
  <2>6. \A k \in DOMAIN t : t[k].type # TYPE.I => to[k] = k
    OBVIOUS
  <2>. HIDE DEF to, name
  <2>7. e.type # TYPE.I => fresh = Sym(fs, u).name
    BY <1>2
  <2>8. Separate(fs, u, e, t, t2, to, fresh)
    BY <2>3, <2>4, <2>5, <2>6, <2>7 DEF Separate
  <2>. QED
    BY <2>2, <2>8, AddedKeeps
<1>9. name \in DOMAIN t /\ old.type = T.I => To(t3)
  <2>. SUFFICES ASSUME name \in DOMAIN t, old.type = T.I PROVE To(t3)
    OBVIOUS
  <2>. DEFINE to == [k \in DOMAIN t |-> IF k = name THEN fresh ELSE k]
              mid == Silk!Rename(t, name, fresh)
  <2>1. /\ DOMAIN mid = (DOMAIN t \ {name}) \cup {fresh}
        /\ \A k \in DOMAIN mid : mid[k] = IF k = fresh THEN old ELSE t[k]
    BY DEF Silk!Rename
  <2>. HIDE DEF mid
  <2>2. /\ DOMAIN t3 = DOMAIN mid \cup {name}
        /\ \A k \in DOMAIN t3 : t3[k] = IF k = name THEN e ELSE mid[k]
    BY DEF Silk!Insert, mid
  <2>. HIDE DEF t3
  <2>3. IsFiniteSet(DOMAIN t3)
    <3>1. IsFiniteSet(DOMAIN t \ {name})
      BY <1>4, FS_RemoveElement
    <3>2. IsFiniteSet((DOMAIN t \ {name}) \cup {fresh})
      BY <3>1, FS_AddElement
    <3>3. IsFiniteSet(((DOMAIN t \ {name}) \cup {fresh}) \cup {name})
      BY <3>2, FS_AddElement
    <3>. QED
      BY <2>1, <2>2, <3>3
  <2>4. name \in DOMAIN t3 /\ t3[name] = e
    BY <2>2
  <2>. HIDE DEF name
  <2>5. fresh # name
    BY <1>6
  <2>6. \A k \in DOMAIN t : to[k] \in DOMAIN t3 /\ to[k] # name /\ t3[to[k]] = t[k]
    BY <1>6, <2>1, <2>2, <2>5
  <2>7. \A k \in DOMAIN t3 : k = name \/ \E l \in DOMAIN t : k = to[l]
    <3>. SUFFICES ASSUME NEW k \in DOMAIN t3, k # name PROVE \E l \in DOMAIN t : k = to[l]
      OBVIOUS
    <3>1. CASE k = fresh
      <4>1. k = to[name]
        BY <3>1
      <4>. QED
        BY <4>1
    <3>2. CASE k # fresh
      <4>1. k \in DOMAIN t /\ k = to[k]
        BY <2>1, <2>2, <3>2
      <4>. QED
        BY <4>1
    <3>. QED
      BY <3>1, <3>2
  <2>8. \A k \in DOMAIN t : t[k].type # TYPE.I => to[k] = k
    BY <1>2
  <2>. HIDE DEF to
  <2>9. e.type # TYPE.I => name = Sym(fs, u).name
    BY DEF name
  <2>10. Separate(fs, u, e, t, t3, to, name)
    BY <2>4, <2>6, <2>7, <2>8, <2>9 DEF Separate
  <2>. QED
    BY <2>3, <2>10, AddedKeeps
<1>10. name \in DOMAIN t /\ e.type = T.E /\ old.type = T.P => To(t4)
  <2>. SUFFICES ASSUME name \in DOMAIN t, e.type = T.E, old.type = T.P PROVE To(t4)
    OBVIOUS
  <2>. DEFINE x == t[name].refs \o e.refs
              n == name
  <2>1. \A z : DOMAIN [t EXCEPT ![n].refs = z] = DOMAIN t
               /\ (\A k \in DOMAIN t : k # n => [t EXCEPT ![n].refs = z][k] = t[k])
               /\ [t EXCEPT ![n].refs = z][n] = [t[n] EXCEPT !.refs = z]
    OBVIOUS
  <2>2. t4 = [t EXCEPT ![n].refs = x]
    OBVIOUS
  <2>. HIDE DEF n, x
  <2>3. t4[n] = [t[n] EXCEPT !.refs = x] /\ DOMAIN t4 = DOMAIN t
        /\ \A k \in DOMAIN t : k # n => t4[k] = t[k]
    BY <2>1, <2>2
  <2>. HIDE DEF t4
  <2>4. t4[n].type = t[n].type /\ t4[n].value = t[n].value /\ t4[n].refs = x
    BY <1>5, <2>3 DEF Symbol, n, old
  <2>5. t4[n].refs = t[n].refs \o e.refs
    BY <2>4 DEF x, n
  <2>6. t[n] \in Symbol /\ n \in DOMAIN t /\ n = Sym(fs, u).name /\ t[n].type = TYPE.P /\ e.type = TYPE.E
    BY <1>2, <1>5 DEF n
  <2>. HIDE DEF name, old
  <2>. DEFINE refs == t[n].refs \o e.refs
  <2>7. t4[n].refs = refs
    BY <2>5
  <2>. HIDE DEF refs
  <2>8. Together(fs, u, e, t, t4, n)
    BY <2>3, <2>4, <2>6, <2>7 DEF Together, refs
  <2>. QED
    BY <2>8, JoinedKeeps
<1>11. name \in DOMAIN t /\ e.type = T.P /\ old.type = T.E => To(t5)
  <2>. SUFFICES ASSUME name \in DOMAIN t, e.type = T.P, old.type = T.E PROVE To(t5)
    OBVIOUS
  <2>. DEFINE x == t[name].refs \o e.refs
              n == name
              z == [e EXCEPT !.refs = x]
  <2>1. t5 = [t EXCEPT ![n] = z]
    BY <1>5 DEF Symbol
  <2>2. z.type = e.type /\ z.value = e.value /\ z.refs = x
    BY <1>5 DEF Symbol
  <2>. HIDE DEF z, n, x, t5
  <2>3. t5[n] = z /\ DOMAIN t5 = DOMAIN t /\ \A k \in DOMAIN t : k # n => t5[k] = t[k]
    BY <2>1 DEF n
  <2>5. t5[n].refs = t[n].refs \o e.refs
    BY <2>2, <2>3 DEF x, n
  <2>6. t[n] \in Symbol /\ n \in DOMAIN t /\ n = Sym(fs, u).name /\ t[n].type = TYPE.E /\ e.type = TYPE.P
    BY <1>2, <1>5 DEF n
  <2>7. t5[n].type = TYPE.P /\ t5[n].value = e.value
    BY <2>2, <2>3, <2>6
  <2>. HIDE DEF name, old
  <2>. DEFINE refs == t[n].refs \o e.refs
  <2>8. t5[n].refs = refs
    BY <2>5
  <2>. HIDE DEF refs
  <2>9. Together(fs, u, e, t, t5, n)
    BY <2>3, <2>6, <2>7, <2>8 DEF Together, refs
  <2>. QED
    BY <2>9, JoinedKeeps
<1>12. (\A s : Adds(s).table = s /\ Adds(s).outcome = "ok") /\ \A o : Fails(o).outcome = o
  OBVIOUS
<1>. HIDE DEF t1, t2, t3, t4, t5, Adds, Fails, To
<1>13. CASE name \notin DOMAIN t
  <2>1. m = Adds(t1)
    BY <1>1, <1>13
  <2>2. m.outcome = "ok" /\ To(m.table)
    BY <1>7, <1>12, <1>13, <2>1
  <2>. QED
    BY <2>2 DEF m, To
<1>14. CASE name \in DOMAIN t /\ e.type = T.I
  <2>1. m = Adds(t2)
    BY <1>1, <1>2, <1>14
  <2>2. m.outcome = "ok" /\ To(m.table)
    BY <1>8, <1>12, <1>14, <2>1
  <2>. QED
    BY <2>2 DEF m, To
<1>15. CASE name \in DOMAIN t /\ e.type # T.I /\ old.type = T.I
  <2>1. m = Adds(t3)
    BY <1>1, <1>2, <1>15
  <2>2. m.outcome = "ok" /\ To(m.table)
    BY <1>9, <1>12, <1>15, <2>1
  <2>. QED
    BY <2>2 DEF m, To
<1>16. CASE name \in DOMAIN t /\ e.type = T.E /\ old.type = T.P
  <2>1. m = Adds(t4)
    BY <1>1, <1>2, <1>16
  <2>2. m.outcome = "ok" /\ To(m.table)
    BY <1>10, <1>12, <1>16, <2>1
  <2>. QED
    BY <2>2 DEF m, To
<1>17. CASE name \in DOMAIN t /\ e.type = T.P /\ old.type = T.E
  <2>1. m = Adds(t5)
    BY <1>1, <1>2, <1>17
  <2>2. m.outcome = "ok" /\ To(m.table)
    BY <1>11, <1>12, <1>17, <2>1
  <2>. QED
    BY <2>2 DEF m, To
<1>18. CASE name \in DOMAIN t /\ e.type = T.P /\ old.type = T.P
  <2>1. m = Fails("error")
    BY <1>1, <1>2, <1>18
  <2>2. m.outcome = "error"
    BY <1>12, <2>1
  <2>3. \E v \in M : Sym(fs, v).type = TYPE.P /\ Sym(fs, v).name = name
    BY <1>2, <1>4, <1>18 DEF FromSymbols
  <2>. QED
    BY <1>2, <1>18, <2>2, <2>3 DEF m
<1>19. CASE name \in DOMAIN t /\ e.type = T.E /\ old.type = T.E
  <2>1. m = Fails("panic")
    BY <1>1, <1>2, <1>19
  <2>2. m.outcome = "panic"
    BY <1>12, <2>1
  <2>3. \E v \in M : Sym(fs, v).type = TYPE.E /\ Sym(fs, v).name = name
    BY <1>2, <1>4, <1>19 DEF FromSymbols
  <2>4. ASSUME NEW v \in M, Sym(fs, v).name = name, Sym(fs, v).type = TYPE.P PROVE FALSE
    <3>1. t[name].type = TYPE.P
      BY <1>2, <1>4, <2>4 DEF Entered
    <3>. QED
      BY <1>2, <1>19, <3>1
  <2>. QED
    BY <1>2, <1>19, <2>2, <2>3, <2>4 DEF m
<1>. QED
  BY <1>2, <1>5, <1>13, <1>14, <1>15, <1>16, <1>17, <1>18, <1>19

-----------------------------------------------------------------------------
(***************************************************************************)
(* The files as they are parsed.                                           *)
(***************************************************************************)

(* What the parser makes of any file *)
ParsedFile(f) ==
    /\ f.start \in Nat /\ Layout(f.sections) /\ Solid(f.sections)
    /\ \A j \in DOMAIN f.symbols : LET s == f.symbols[j]
                                   IN  /\ s.value \in Int /\ s.refs \in Seq(Int) /\ s.name \in Seq(Int)
                                       /\ s.value = Silk!None <=> s.type = TYPE.E

(* and of one that it accepts *)
InOrder(f) ==
    /\ \A j \in DOMAIN f.symbols :
         LET s == f.symbols[j]
         IN  /\ s.type \in Range(TYPE)
             /\ s.value # Silk!None => s.value - f.start \in 0..(Silk!SectionsEnd(f.sections) - 1)
             /\ \A r \in DOMAIN s.refs : /\ Inside(f.sections, s.refs[r] - f.start)
                                         /\ ZerosAt(f.sections, s.refs[r] - f.start)
    /\ \A i, j \in DOMAIN f.symbols : f.symbols[i].name = f.symbols[j].name => i = j

(* The parser makes of any bytes a file in that form. *)
LEMMA FileFacts ==
    ASSUME NEW file \in Seq(0..255)
    PROVE  LET f == Silk!ParseFile(file)
           IN  /\ ParsedFile(f)
               /\ "ok" \in Silk!ParseOutcomes(file, f) => InOrder(f)
<1>. DEFINE f == Silk!ParseFile(file)
<1>1. \A j \in DOMAIN f.symbols : f.symbols[j] \in Range(f.symbols)
  BY DEF Range
<1>2. \A x \in Seq(Nat) : x \in Seq(Int)
  OBVIOUS
<1>3. TYPE = Silk!SYMBOL_TYPE
  BY DEF TYPE
<1>4. ParsedFile(f)
  <2>1. /\ f.start \in Nat
        /\ Layout(f.sections) /\ Solid(f.sections)
        /\ \A s \in Range(f.symbols) :
             /\ s.value \in Int /\ s.refs \in Seq(Nat)
             /\ s.name \in Seq(Int) /\ (s.value = Silk!None <=> s.type = TYPE.E)
    BY <1>3, ParseFacts
  <2>. HIDE DEF f
  <2>. QED
    BY <1>1, <1>2, <2>1 DEF ParsedFile
<1>5. ASSUME "ok" \in Silk!ParseOutcomes(file, f) PROVE InOrder(f)
  <2>1. \A s \in Range(f.symbols) :
          /\ s.type \in Range(TYPE)
          /\ s.value # Silk!None => s.value - f.start \in 0..(Silk!SectionsEnd(f.sections) - 1)
          /\ \A r \in DOMAIN s.refs : /\ Inside(f.sections, s.refs[r] - f.start)
                                      /\ ZerosAt(f.sections, s.refs[r] - f.start)
    BY <1>3, <1>5, AcceptedFacts
  <2>2. Silk!ParsesAs(file, f)
    BY <1>5 DEF Silk!ParseOutcomes
  <2>3. \A i, j \in DOMAIN f.symbols : f.symbols[i].name = f.symbols[j].name => i = j
    BY <2>2 DEF Silk!ParsesAs
  <2>. HIDE DEF f
  <2>. QED
    BY <1>1, <2>1, <2>3 DEF InOrder
<1>. QED
  BY <1>4, <1>5

(* A file has one verdict or it is not in order; a panic is explained. *)
LEMMA OutcomeFacts ==
    ASSUME NEW file \in Seq(0..255), NEW o \in Silk!ParseOutcomes(file, Silk!ParseFile(file)), o # "ok"
    PROVE  LET f == Silk!ParseFile(file)
           IN  /\ "ok" \notin Silk!ParseOutcomes(file, f)
               /\ o \in {"error", "panic"}
               /\ o = "panic" => LeavesSection(f)
<1>. DEFINE f == Silk!ParseFile(file)
            verdicts == {Silk!VerifySymbol(r, f.start, f.sections) : r \in Silk!Range(f.symbols)}
<1>1. ParsedFile(f)
  BY FileFacts
<1>. HIDE DEF f
<1>2. Silk!ParseOutcomes(file, f) =
        IF ~Silk!ParsesAs(file, f) THEN {"error"}
        ELSE IF verdicts \subseteq {"ok"} THEN {"ok"} ELSE verdicts \ {"ok"}
  BY Zenon DEF Silk!ParseOutcomes
<1>3. o \in Silk!ParseOutcomes(file, f)
  BY DEF f
<1>4. CASE ~Silk!ParsesAs(file, f)
  <2>. HIDE DEF verdicts
  <2>. QED
    BY <1>2, <1>3, <1>4 DEF f
<1>5. CASE Silk!ParsesAs(file, f)
  <2>1. o \in verdicts /\ "ok" \notin Silk!ParseOutcomes(file, f)
    <3>. HIDE DEF verdicts
    <3>. QED
      BY <1>2, <1>3, <1>5
  <2>2. PICK j \in DOMAIN f.symbols : o = Silk!VerifySymbol(f.symbols[j], f.start, f.sections)
    BY <2>1 DEF Silk!Range
  <2>. DEFINE s == f.symbols[j]
              start == f.start
              ss == f.sections
              Verdict(k) == Silk!VerifyReference(s.refs[k], start, ss)
              bad == {k \in DOMAIN s.refs : Verdict(k) # "ok"}
              outside == s.value # Silk!None
                         /\ (s.value < start \/ s.value - start >= Silk!SectionsEnd(ss))
  <2>3. o = IF outside THEN "error" ELSE IF bad = {} THEN "ok" ELSE Verdict(Silk!Min(bad))
    BY <2>2, Zenon DEF Silk!VerifySymbol
  <2>4. s.refs \in Seq(Int) /\ start \in Nat /\ Layout(ss)
    BY <1>1 DEF ParsedFile
  <2>. HIDE DEF s, start, ss, outside
  <2>5. ASSUME NEW k \in DOMAIN s.refs, Verdict(k) # "ok"
        PROVE  Verdict(k) \in {"error", "panic"} /\ (Verdict(k) = "panic" => LeavesSection(f))
    <3>. DEFINE a == s.refs[k] - start
                c == Silk!Find(ss, a)
                room == ss[c].start + ss[c].length - a
                last == IF c = 0 THEN 0 ELSE Silk!Min({4, room})
                Byte(i) == ss[c].data[a - ss[c].start + i]
                Clean == \A i \in 1..last : Byte(i) = 0
    <3>1. a \in Int
      BY <2>4
    <3>2. Verdict(k) =
            CASE a < 0 \/ c = 0 -> "error"
              [] a >= 0 /\ c # 0 /\ \E i \in 1..last : Byte(i) # 0 -> "error"
              [] a >= 0 /\ c # 0 /\ \A i \in 1..last : Byte(i) = 0 ->
                   IF last < 4 THEN "panic" ELSE "ok"
      BY Zenon DEF Silk!VerifyReference
    <3>. HIDE DEF a
    <3>3. c # 0 => c \in DOMAIN ss /\ ss[c].start <= a /\ a < ss[c].start + ss[c].length
      BY DEF Silk!Find
    <3>4. Clean \/ \E i \in 1..last : Byte(i) # 0
      OBVIOUS
    <3>5. Clean <=> ~ \E i \in 1..last : Byte(i) # 0
      OBVIOUS
    <3>. HIDE DEF c, last, Clean, Byte, Verdict
    <3>6. Verdict(k) \in {"error", "panic"} /\ (Verdict(k) = "panic" => c # 0 /\ last < 4)
      BY <2>5, <3>1, <3>2, <3>4, <3>5 DEF Clean
    <3>7. ASSUME c # 0, last < 4 PROVE LeavesSection(f)
      <4>1. c \in DOMAIN ss /\ ss[c].start <= a /\ a < ss[c].start + ss[c].length
        BY <3>3, <3>7
      <4>2. ss[c].start \in Nat /\ ss[c].length \in Nat
        BY <2>4, <4>1 DEF Layout
      <4>3. room \in Nat \ {0} /\ last = Silk!Min({4, room})
        BY <3>1, <3>7, <4>1, <4>2 DEF last
      <4>. HIDE DEF room
      <4>4. last \in {4, room}
        <5>. DEFINE R == {4, room}
        <5>1. R \in SUBSET Nat /\ R # {}
          BY <4>3
        <5>. HIDE DEF R
        <5>2. Silk!Min(R) \in R
          BY <5>1, MinFacts
        <5>. QED
          BY <4>3, <5>2 DEF R
      <4>5. room \in 1..3
        BY <3>7, <4>3, <4>4
      <4>6. f.sections[c].start + f.sections[c].length - (f.symbols[j].refs[k] - f.start) \in 1..3
        BY <4>5 DEF room, a, s, start, ss
      <4>7. j \in DOMAIN f.symbols /\ c \in DOMAIN f.sections /\ k \in DOMAIN f.symbols[j].refs
        BY <4>1 DEF s, ss
      <4>. QED
        BY <4>6, <4>7, Zenon DEF LeavesSection
    <3>. QED
      BY <3>6, <3>7
  <2>6. bad # {} => Silk!Min(bad) \in bad
    <3>1. bad \in SUBSET Nat
      <4>1. DOMAIN s.refs = 1..Len(s.refs) /\ Len(s.refs) \in Nat
        BY <2>4
      <4>. HIDE DEF Verdict
      <4>. QED
        BY <4>1
    <3>. HIDE DEF bad
    <3>. QED
      BY <3>1, MinFacts
  <2>7. o \in {"error", "panic"} /\ (o = "panic" => LeavesSection(f))
    <3>. DEFINE least == Silk!Min(bad)
    <3>1. CASE outside
      BY <2>3, <3>1
    <3>2. CASE ~outside
      <4>1. bad # {}
        BY <2>3, <3>2
      <4>2. o = Verdict(least) /\ least \in bad
        BY <2>3, <2>6, <3>2, <4>1
      <4>. HIDE DEF least
      <4>3. least \in DOMAIN s.refs /\ Verdict(least) # "ok"
        BY <4>2
      <4>. HIDE DEF Verdict
      <4>. QED
        BY <2>5, <4>2, <4>3
    <3>. QED
      BY <3>1, <3>2
  <2>. QED
    BY <2>1, <2>7 DEF f
<1>. QED
  BY <1>4, <1>5

(* A list of parsed files *)
Parsing(fs, n) ==
    /\ n \in Nat /\ Len(fs) = n /\ DOMAIN fs = 1..n
    /\ \A k \in 1..n : ParsedFile(fs[k])

(* The object files of a project are such a list. *)
LEMMA ParsedFacts ==
    ASSUME NEW files \in Seq(Linkable),
           NEW fs, fs = [k \in DOMAIN files |-> Silk!ParseFile(files[k].file)]
    PROVE  /\ Len(files) \in Nat /\ DOMAIN files = 1..Len(files)
           /\ Parsing(fs, Len(files))
           /\ \A k \in 1..Len(files) :
                /\ files[k].file \in Seq(0..255)
                /\ fs[k] = Silk!ParseFile(files[k].file)
                /\ "ok" \in Silk!ParseOutcomes(files[k].file, fs[k]) => InOrder(fs[k])
<1>. DEFINE n == Len(files)
<1>1. n \in Nat /\ DOMAIN files = 1..n /\ \A k \in 1..n : files[k].file \in Seq(0..255)
  <2>1. n \in Nat /\ DOMAIN files = 1..n /\ \A k \in 1..n : files[k] \in Linkable
    OBVIOUS
  <2>2. \A o \in Linkable : o.file \in Seq(0..255)
    BY DEF Linkable
  <2>. QED
    BY <2>1, <2>2
<1>. HIDE DEF n
<1>2. fs = [k \in 1..n |-> Silk!ParseFile(files[k].file)]
  BY <1>1
<1>3. DOMAIN fs = 1..n /\ \A k \in 1..n : fs[k] = Silk!ParseFile(files[k].file)
  BY <1>2
<1>4. Len(fs) = n
  <2>1. fs = [k \in 1..n |-> fs[k]]
    BY <1>2
  <2>. QED
    BY <1>1, <2>1, RangeSeq
<1>5. \A k \in 1..n : /\ ParsedFile(fs[k])
                      /\ "ok" \in Silk!ParseOutcomes(files[k].file, fs[k]) => InOrder(fs[k])
  BY <1>1, <1>3, FileFacts
<1>6. Parsing(fs, n)
  BY <1>1, <1>3, <1>4, <1>5 DEF Parsing
<1>. QED
  BY <1>1, <1>3, <1>5, <1>6 DEF n

(* The sections of the files, one file after the other *)
LEMMA FileEndFacts ==
    ASSUME NEW fs, NEW n, Parsing(fs, n)
    PROVE  /\ FileEnds(fs)[0] = 0
           /\ \A k \in 1..n : FileEnds(fs)[k] = FileEnds(fs)[k - 1] + Silk!SectionsEnd(fs[k].sections)
           /\ \A k \in 0..n : FileEnds(fs)[k] \in Nat
           /\ \A j, k \in 0..n : j <= k => FileEnds(fs)[j] <= FileEnds(fs)[k]
<1>. DEFINE length == [k \in DOMAIN fs |-> Silk!SectionsEnd(fs[k].sections)]
<1>1. n \in Nat /\ DOMAIN fs = 1..n
  BY DEF Parsing
<1>2. DOMAIN length = 1..n /\ \A k \in 1..n : length[k] = Silk!SectionsEnd(fs[k].sections)
  BY <1>1
<1>3. \A k \in 1..n : length[k] \in Nat
  <2>1. \A k \in 1..n : Layout(fs[k].sections)
    BY DEF Parsing, ParsedFile
  <2>2. \A k \in 1..n : Silk!SectionsEnd(fs[k].sections) \in Nat
    BY <2>1, EndFacts
  <2>. HIDE DEF length
  <2>. QED
    BY <1>2, <2>2
<1>4. length = [k \in 1..n |-> length[k]]
  BY <1>2
<1>5. FileEnds(fs) = Silk!Ends(length)
  BY DEF FileEnds
<1>. HIDE DEF length
<1>6. Len(length) = n
  BY <1>1, <1>4, RangeSeq
<1>. DEFINE end == Silk!Ends(length)
<1>7. /\ end[0] = 0
      /\ \A k \in 1..n : end[k] = end[k - 1] + length[k]
      /\ \A k \in 0..n : end[k] \in Nat
      /\ \A j, k \in 0..n : j <= k => end[j] <= end[k]
  BY <1>1, <1>3, <1>6, EndsFacts
<1>. HIDE DEF end
<1>. QED
  BY <1>2, <1>5, <1>7 DEF end

(* The numbers of the sections, one file after the other *)
LEMMA CountFacts ==
    ASSUME NEW fs, NEW n, Parsing(fs, n)
    PROVE  /\ Counts(fs)[0] = 0
           /\ \A k \in 1..n : Counts(fs)[k] = Counts(fs)[k - 1] + Len(fs[k].sections)
           /\ \A k \in 0..n : Counts(fs)[k] \in Nat
           /\ \A j, k \in 0..n : j <= k => Counts(fs)[j] <= Counts(fs)[k]
<1>. DEFINE length == [k \in DOMAIN fs |-> Len(fs[k].sections)]
<1>1. n \in Nat /\ DOMAIN fs = 1..n
  BY DEF Parsing
<1>2. DOMAIN length = 1..n /\ \A k \in 1..n : length[k] = Len(fs[k].sections)
  BY <1>1
<1>3. \A k \in 1..n : length[k] \in Nat
  <2>1. \A k \in 1..n : Layout(fs[k].sections)
    BY DEF Parsing, ParsedFile
  <2>2. \A k \in 1..n : Len(fs[k].sections) \in Nat
    BY <2>1, EndFacts
  <2>. HIDE DEF length
  <2>. QED
    BY <1>2, <2>2
<1>4. length = [k \in 1..n |-> length[k]]
  BY <1>2
<1>5. Counts(fs) = Silk!Ends(length)
  BY DEF Counts
<1>. HIDE DEF length
<1>6. Len(length) = n
  BY <1>1, <1>4, RangeSeq
<1>. DEFINE end == Silk!Ends(length)
<1>7. /\ end[0] = 0
      /\ \A k \in 1..n : end[k] = end[k - 1] + length[k]
      /\ \A k \in 0..n : end[k] \in Nat
      /\ \A j, k \in 0..n : j <= k => end[j] <= end[k]
  BY <1>1, <1>3, <1>6, EndsFacts
<1>. HIDE DEF end
<1>. QED
  BY <1>2, <1>5, <1>7 DEF end

(* Symbols and sections are named by their file and place. *)
LEMMA IdFacts ==
    ASSUME NEW fs
    PROVE  /\ \A u \in SymbolIds(fs) :
                u[1] \in DOMAIN fs /\ u[2] \in DOMAIN fs[u[1]].symbols /\ u = <<u[1], u[2]>>
           /\ \A k \in DOMAIN fs : \A j \in DOMAIN fs[k].symbols : <<k, j>> \in SymbolIds(fs)
           /\ \A x \in SectionIds(fs) :
                x[1] \in DOMAIN fs /\ x[2] \in DOMAIN fs[x[1]].sections /\ x = <<x[1], x[2]>>
           /\ \A k \in DOMAIN fs : \A j \in DOMAIN fs[k].sections : <<k, j>> \in SectionIds(fs)
BY DEF SymbolIds, SectionIds

(* A symbol of a file in order: its references and its value lie among the *)
(* sections of the file. *)
LEMMA PlaceFacts ==
    ASSUME NEW fs, NEW n, Parsing(fs, n), NEW u \in SymbolIds(fs), InOrder(fs[u[1]])
    PROVE  LET from == FileEnds(fs)[u[1] - 1]
               to == FileEnds(fs)[u[1]]
           IN  /\ u[1] \in 1..n /\ from \in Nat /\ to \in Nat
               /\ \A r \in DOMAIN Sym(fs, u).refs :
                    /\ Sym(fs, u).refs[r] \in Int /\ fs[u[1]].start \in Nat
                    /\ RefOf(fs, u, r) \in Nat
                    /\ from <= RefOf(fs, u, r) /\ RefOf(fs, u, r) + 3 < to
               /\ Sym(fs, u).type # TYPE.E =>
                    ValueOf(fs, u) \in Nat /\ from <= ValueOf(fs, u) /\ ValueOf(fs, u) < to
<1>. DEFINE k == u[1]
            f == fs[k]
            s == Sym(fs, u)
            from == FileEnds(fs)[k - 1]
            to == FileEnds(fs)[k]
            size == Silk!SectionsEnd(f.sections)
<1>1. k \in DOMAIN fs /\ u[2] \in DOMAIN f.symbols
  BY IdFacts
<1>2. k \in 1..n /\ n \in Nat /\ ParsedFile(f)
  BY <1>1 DEF Parsing
<1>3. k - 1 \in 0..n /\ k \in 0..n
  BY <1>2
<1>4. from \in Nat /\ to \in Nat /\ to = from + size
  BY <1>2, <1>3, FileEndFacts
<1>5. s.value \in Int /\ s.refs \in Seq(Int) /\ (s.value = Silk!None <=> s.type = TYPE.E)
  BY <1>1, <1>2 DEF ParsedFile, Sym
<1>6. f.start \in Nat /\ Layout(f.sections)
  BY <1>2 DEF ParsedFile
<1>7. size \in Nat
  BY <1>6, EndFacts
<1>8. /\ s.value # Silk!None => s.value - f.start \in 0..(size - 1)
      /\ \A r \in DOMAIN s.refs : Inside(f.sections, s.refs[r] - f.start)
  BY <1>1 DEF InOrder, Sym
<1>9. ASSUME NEW r \in DOMAIN s.refs
      PROVE  /\ s.refs[r] \in Int /\ RefOf(fs, u, r) \in Nat
             /\ from <= RefOf(fs, u, r) /\ RefOf(fs, u, r) + 3 < to
  <2>. DEFINE a == s.refs[r] - f.start
              ss == f.sections
  <2>1. s.refs[r] \in Int
    BY <1>5
  <2>2. RefOf(fs, u, r) = from + a
    BY DEF RefOf, Combined
  <2>3. a \in Int /\ Inside(ss, a) /\ Layout(ss) /\ size = Silk!SectionsEnd(ss)
    BY <1>6, <1>8, <2>1
  <2>. HIDE DEF a, ss, from, to, size
  <2>4. PICK c \in DOMAIN ss : ss[c].start <= a /\ a + 3 < ss[c].start + ss[c].length
    BY <2>3 DEF Inside
  <2>5. ss[c].start \in Nat /\ ss[c].length \in Nat /\ ss[c].start + ss[c].length <= size
    BY <2>3, EndFacts DEF Layout
  <2>6. 0 <= a /\ a + 3 < size
    BY <1>7, <2>3, <2>4, <2>5
  <2>. QED
    BY <1>4, <1>7, <2>1, <2>2, <2>3, <2>6
<1>10. ASSUME s.type # TYPE.E
       PROVE  ValueOf(fs, u) \in Nat /\ from <= ValueOf(fs, u) /\ ValueOf(fs, u) < to
  <2>. DEFINE a == s.value - f.start
  <2>1. ValueOf(fs, u) = from + a
    BY DEF ValueOf, Combined
  <2>2. a \in 0..(size - 1)
    BY <1>5, <1>8, <1>10
  <2>. HIDE DEF a, from, to, size
  <2>. QED
    BY <1>4, <1>7, <2>1, <2>2
<1>. QED
  BY <1>2, <1>4, <1>6, <1>9, <1>10

(* References of files that do not overlap in any of them are apart. *)
LEMMA RefsApart ==
    ASSUME NEW fs, NEW n, Parsing(fs, n), Apart(fs),
           NEW u \in SymbolIds(fs), InOrder(fs[u[1]]), NEW v \in SymbolIds(fs), InOrder(fs[v[1]]),
           NEW r \in DOMAIN Sym(fs, u).refs, NEW q \in DOMAIN Sym(fs, v).refs, u # v \/ r # q
    PROVE  RefOf(fs, u, r) - RefOf(fs, v, q) \notin 0..3
<1>. DEFINE a == RefOf(fs, u, r)
            b == RefOf(fs, v, q)
            F(k) == FileEnds(fs)[k]
<1>1. /\ u[1] \in 1..n /\ F(u[1] - 1) \in Nat /\ F(u[1]) \in Nat
      /\ Sym(fs, u).refs[r] \in Int /\ fs[u[1]].start \in Nat
      /\ a \in Nat /\ F(u[1] - 1) <= a /\ a + 3 < F(u[1])
  BY PlaceFacts
<1>2. /\ v[1] \in 1..n /\ F(v[1] - 1) \in Nat /\ F(v[1]) \in Nat
      /\ Sym(fs, v).refs[q] \in Int
      /\ b \in Nat /\ F(v[1] - 1) <= b /\ b + 3 < F(v[1])
  BY PlaceFacts
<1>3. \A i, j \in 0..n : i <= j => F(i) <= F(j)
  BY FileEndFacts
<1>4. n \in Nat /\ DOMAIN fs = 1..n
  BY DEF Parsing
<1>8. \A i, j \in 1..n : i < j => i \in 0..n /\ j - 1 \in 0..n /\ i <= j - 1
  BY <1>4
<1>5. CASE u[1] = v[1]
  <2>. DEFINE f == fs[u[1]]
  <2>1. u[2] \in DOMAIN f.symbols /\ v[2] \in DOMAIN f.symbols /\ u = <<u[1], u[2]>> /\ v = <<v[1], v[2]>>
    BY <1>5, IdFacts
  <2>2. <<u[2], r>> # <<v[2], q>>
    BY <1>5, <2>1
  <2>3. ~Overlaps(f)
    BY <1>1, <1>4 DEF Apart
  <2>4. r \in DOMAIN f.symbols[u[2]].refs /\ q \in DOMAIN f.symbols[v[2]].refs
    BY <1>5 DEF Sym
  <2>5. f.symbols[u[2]].refs[r] - f.symbols[v[2]].refs[q] \notin 0..3
    BY <2>1, <2>2, <2>3, <2>4 DEF Overlaps
  <2>6. Sym(fs, u).refs[r] - Sym(fs, v).refs[q] \notin 0..3
    BY <1>5, <2>5 DEF Sym
  <2>7. /\ a = F(u[1] - 1) + (Sym(fs, u).refs[r] - fs[u[1]].start)
        /\ b = F(u[1] - 1) + (Sym(fs, v).refs[q] - fs[u[1]].start)
    BY <1>5 DEF RefOf, Combined
  <2>8. a - b = Sym(fs, u).refs[r] - Sym(fs, v).refs[q]
    <3>. DEFINE x == Sym(fs, u).refs[r]
                y == Sym(fs, v).refs[q]
                z == F(u[1] - 1)
                w == fs[u[1]].start
    <3>1. x \in Int /\ y \in Int /\ z \in Int /\ w \in Int /\ a = z + (x - w) /\ b = z + (y - w)
      BY <1>1, <1>2, <2>7
    <3>. HIDE DEF x, y, z, w, a, b
    <3>2. a - b = x - y
      BY <3>1
    <3>. QED
      BY <3>2 DEF x, y
  <2>. QED
    BY <2>6, <2>8
<1>6. CASE u[1] < v[1]
  <2>1. u[1] \in 0..n /\ v[1] - 1 \in 0..n /\ u[1] <= v[1] - 1
    BY <1>1, <1>2, <1>6, <1>8
  <2>2. F(u[1]) <= F(v[1] - 1)
    BY <1>3, <2>1
  <2>. HIDE DEF a, b, F
  <2>3. a - b < 0
    BY <1>1, <1>2, <2>2
  <2>4. a - b \notin 0..3
    BY <1>1, <1>2, <2>3
  <2>. QED
    BY <2>4 DEF a, b
<1>7. CASE v[1] < u[1]
  <2>1. v[1] \in 0..n /\ u[1] - 1 \in 0..n /\ v[1] <= u[1] - 1
    BY <1>1, <1>2, <1>7, <1>8
  <2>2. F(v[1]) <= F(u[1] - 1)
    BY <1>3, <2>1
  <2>. HIDE DEF a, b, F
  <2>3. a - b > 3
    BY <1>1, <1>2, <2>2
  <2>4. a - b \notin 0..3
    BY <1>1, <1>2, <2>3
  <2>. QED
    BY <2>4 DEF a, b
<1>. QED
  BY <1>1, <1>2, <1>5, <1>6, <1>7

(* So no two references of the files are at the same place. *)
LEMMA DistinctFrom ==
    ASSUME NEW fs, NEW n, Parsing(fs, n), Apart(fs),
           NEW M, \A u \in M : u \in SymbolIds(fs) /\ InOrder(fs[u[1]])
    PROVE  Distinct(fs, M)
<1>. SUFFICES ASSUME NEW v \in M, NEW w \in M,
                     NEW r \in DOMAIN Sym(fs, v).refs, NEW q \in DOMAIN Sym(fs, w).refs,
                     RefOf(fs, v, r) = RefOf(fs, w, q), v # w \/ r # q
              PROVE  FALSE
  BY DEF Distinct
<1>1. RefOf(fs, v, r) - RefOf(fs, w, q) \notin 0..3
  BY RefsApart
<1>2. RefOf(fs, v, r) \in Nat /\ RefOf(fs, w, q) \in Nat
  BY PlaceFacts
<1>. QED
  BY <1>1, <1>2

-----------------------------------------------------------------------------
(***************************************************************************)
(* The steps of the linker, and what they keep of the image.               *)
(***************************************************************************)

(* The object files do not change while they are linked. *)
LEMMA SameFiles ==
    ASSUME UNCHANGED order
    PROVE  Parsed' = Parsed
BY DEF Parsed

(* A step that ends without an image, for a reason that the files give *)
LEMMA StopKeeps ==
    ASSUME UNCHANGED <<project, order, move>>, pc' = "done",
           NEW o \in {"error", "panic"}, result' = [outcome |-> o, image |-> <<>>],
           o = "error" /\ order # <<>> => ~CanBeLinked(Parsed),
           o = "panic" /\ order # <<>> =>
             TwoExternals \/ \E k \in DOMAIN order : BadReference(order[k].file)
    PROVE  ImageInv'
<1>1. result'.outcome = o /\ o # "image" /\ o # "none"
  OBVIOUS
<1>2. LinkedAsWritten'
  BY <1>1 DEF LinkedAsWritten
<1>3. LinkedIffPossible'
  <2>1. ASSUME NEW fs, fs = Parsed, ~CanBeLinked(fs) PROVE ~CanBeLinked(fs)'
    BY <2>1 DEF CanBeLinked, FlagsOf
  <2>. SUFFICES ASSUME order' # <<>>, o # "panic", NEW fs, fs = Parsed'
                PROVE  ~CanBeLinked(fs)'
    BY <1>1 DEF LinkedIffPossible
  <2>2. fs = Parsed
    BY SameFiles
  <2>. QED
    BY <2>1, <2>2
<1>4. LinkerPanicsExplained'
  <2>1. TwoExternals => TwoExternals'
    BY SameFiles, Zenon DEF TwoExternals
  <2>. SUFFICES ASSUME o = "panic", order' # <<>>
                PROVE  TwoExternals' \/ \E k \in DOMAIN order : BadReference(order[k].file)
    BY <1>1 DEF LinkerPanicsExplained
  <2>. QED
    BY <2>1
<1>. QED
  BY <1>2, <1>3, <1>4 DEF ImageInv

(* The assembler comes before all of this. *)
LEMMA AssembleImage ==
    ASSUME ImageInv, Assemble
    PROVE  ImageInv'
<1>1. order = <<>> /\ order' = order /\ UNCHANGED <<project, move>> /\ pc = "assemble"
  BY DEF Assemble, ImageInv
<1>2. CASE Stop("panic")
  BY <1>1, <1>2, StopKeeps DEF Stop
<1>3. CASE ~Stop("panic")
  <2>1. pc' = pc /\ result' = result
    BY <1>3 DEF Assemble
  <2>. QED
    BY <1>1, <2>1 DEF ImageInv
<1>. QED
  BY <1>2, <1>3

(* Before the first file is read *)
LEMMA StartLinkingImage ==
    ASSUME LinkInv, LinkInv', ImageInv, StartLinking
    PROVE  ImageInv'
<1>1. /\ order = <<>> /\ pc = "assemble" /\ UNCHANGED <<project, move, sections, table, pending>>
      /\ result.outcome = "none"
      /\ sections = <<>> /\ table = <<>> /\ pending = <<>>
  BY DEF StartLinking, ImageInv, LinkInv
<1>2. CASE Stop("error") /\ UNCHANGED <<todo, order>>
  BY <1>1, <1>2, StopKeeps DEF Stop
<1>3. CASE ~(Stop("error") /\ UNCHANGED <<todo, order>>)
  <2>1. todo' = order' /\ pc' = "combine" /\ UNCHANGED result
    BY <1>3 DEF StartLinking
  <2>2. order' \in Seq(Linkable)
    BY <2>1 DEF LinkInv
  <2>. SUFFICES ASSUME NEW fs, fs = Parsed'
                PROVE  (\A k \in 1..Read' : "ok" \in Silk!ParseOutcomes(order'[k].file, fs[k]))
                       /\ Reading(fs)'
    BY <1>1, <2>1, <2>2 DEF ImageInv
  <2>. DEFINE n == Len(order')
  <2>3. Parsing(fs, n)
    <3>1. fs = [k \in DOMAIN order' |-> Silk!ParseFile(order'[k].file)]
      BY DEF Parsed
    <3>. QED
      BY <2>2, <3>1, ParsedFacts
  <2>4. n \in Nat /\ DOMAIN fs = 1..n
    BY <2>3 DEF Parsing
  <2>5. Read' = 0
    BY <2>1, <2>4 DEF Read
  <2>6. todo' = SubSeq(order', Read' + 1, n)
    BY <2>1, <2>2, <2>5
  <2>7. SectionsOf(fs, Read', sections')
    <3>1. sections' = <<>> /\ Silk!SectionsEnd(sections') = 0 /\ Len(sections') = 0
      BY <1>1 DEF Silk!SectionsEnd
    <3>2. FileEnds(fs)[0] = 0 /\ Counts(fs)[0] = 0
      BY <2>3, FileEndFacts, CountFacts
    <3>3. \A x \in SectionIds(fs) : ~(x[1] <= 0)
      BY <2>4, IdFacts
    <3>. QED
      BY <2>5, <3>1, <3>2, <3>3 DEF SectionsOf
  <2>8. Merged(fs)' = {}
    <3>1. \A u \in SymbolIds(fs) : ~(u[1] <= 0)
      BY <2>4, IdFacts
    <3>. QED
      BY <2>5, <3>1 DEF Merged
  <2>9. TableOf(fs, {}, <<>>)
    <3>1. DOMAIN <<>> = {} /\ IsFiniteSet({})
      BY FS_EmptySet
    <3>. QED
      BY <3>1, Zenon DEF TableOf, DefinedOnce, Once
  <2>10. TableOf(fs, Merged(fs)', table')
    BY <1>1, <2>8, <2>9
  <2>11. DOMAIN pending' = {}
    BY <1>1
  <2>. QED
    BY <2>4, <2>5, <2>6, <2>7, <2>10, <2>11 DEF Reading
<1>. QED
  BY <1>2, <1>3

(* The files still to be read: the next one and those after it *)
LEMMA TodoFacts ==
    ASSUME NEW s \in Seq(Linkable), NEW r \in 0..Len(s), NEW t, t = SubSeq(s, r + 1, Len(s))
    PROVE  /\ Len(t) = Len(s) - r
           /\ t # <<>> => /\ r + 1 \in 1..Len(s) /\ Head(t) = s[r + 1]
                          /\ Tail(t) = SubSeq(s, r + 2, Len(s))
<1>. DEFINE n == Len(s)
            rest == SubSeq(s, r + 2, n)
<1>1. n \in Nat /\ r \in Nat /\ r <= n
  OBVIOUS
<1>2. t \in Seq(Linkable) /\ Len(t) = n - r /\ \A i \in 1..(n - r) : t[i] = s[r + i]
  <2>1. r + 1 \in Nat /\ n - (r + 1) + 1 = n - r
    BY <1>1
  <2>2. t = [i \in 1..(n - r) |-> s[r + i]]
    <3>1. t = [i \in 1..(IF r + 1 <= n THEN (n - (r + 1)) + 1 ELSE 0) |-> s[(i + (r + 1)) - 1]]
      BY <1>1
    <3>. QED
      BY <1>1, <3>1
  <2>. QED
    BY <1>1, <2>2
<1>. HIDE DEF n
<1>3. Len(t) = n - r
  BY <1>2
<1>4. ASSUME t # <<>>
      PROVE  r + 1 \in 1..n /\ Head(t) = s[r + 1] /\ Tail(t) = rest
  <2>1. r < n
    BY <1>1, <1>2, <1>4
  <2>2. Head(t) = s[r + 1]
    BY <1>1, <1>2, <2>1
  <2>3. /\ Tail(t) \in Seq(Linkable) /\ Len(Tail(t)) = n - r - 1
        /\ \A i \in 1..(n - r - 1) : Tail(t)[i] = s[r + i + 1]
    BY <1>1, <1>2, <1>4, <2>1
  <2>4. /\ rest \in Seq(Linkable) /\ Len(rest) = n - r - 1
        /\ \A i \in 1..(n - r - 1) : rest[i] = s[r + i + 1]
    <3>1. rest = [i \in 1..(IF r + 2 <= n THEN (n - (r + 2)) + 1 ELSE 0) |-> s[(i + (r + 2)) - 1]]
      BY <1>1
    <3>. HIDE DEF rest
    <3>2. (IF r + 2 <= n THEN (n - (r + 2)) + 1 ELSE 0) = n - r - 1 /\ n - r - 1 \in Nat
      BY <1>1, <2>1
    <3>3. rest = [i \in 1..(n - r - 1) |-> s[r + i + 1]]
      BY <1>1, <3>1, <3>2
    <3>4. \A i \in 1..(n - r - 1) : s[r + i + 1] \in Linkable
      BY <1>1 DEF n
    <3>5. rest \in Seq(Linkable)
      <4>. HIDE DEF n
      <4>. QED
        BY <3>2, <3>3, <3>4
    <3>6. rest = [i \in 1..(n - r - 1) |-> rest[i]] /\ \A i \in 1..(n - r - 1) : rest[i] = s[r + i + 1]
      BY <3>3, Zenon
    <3>7. Len(rest) = n - r - 1
      BY <3>2, <3>6, RangeSeq
    <3>. QED
      BY <3>5, <3>6, <3>7
  <2>. HIDE DEF rest
  <2>5. Tail(t) = rest
    BY <2>3, <2>4, SeqEqual
  <2>6. r + 1 \in 1..n
    BY <1>1, <2>1
  <2>. QED
    BY <2>2, <2>5, <2>6
<1>. QED
  BY <1>3, <1>4 DEF n

(* Reading a file puts its sections after those of the others. *)
LEMMA SectionsAdded ==
    ASSUME NEW fs, NEW n, Parsing(fs, n), NEW k \in 1..n,
           NEW ss, Layout(ss), SectionsOf(fs, k - 1, ss)
    PROVE  SectionsOf(fs, k, Silk!AddSections(ss, fs[k].sections))
<1>. DEFINE new == fs[k].sections
            all == Silk!AddSections(ss, new)
            end == Silk!SectionsEnd(ss)
<1>1. n \in Nat /\ DOMAIN fs = 1..n /\ Layout(new)
  BY DEF Parsing, ParsedFile
<1>2. k - 1 \in 0..n /\ k \in 0..n
  BY <1>1
<1>3. /\ Len(ss) \in Nat /\ DOMAIN ss = 1..Len(ss)
      /\ Len(new) \in Nat /\ DOMAIN new = 1..Len(new)
  BY <1>1, EndFacts
<1>4. /\ Silk!SectionsEnd(all) = end + Silk!SectionsEnd(new)
      /\ Len(all) = Len(ss) + Len(new)
      /\ \A j \in 1..Len(ss) : all[j] = ss[j]
      /\ \A j \in 1..Len(new) : all[Len(ss) + j] = [new[j] EXCEPT !.start = @ + end]
  <2>1. Layout(ss) /\ Layout(new)
    BY <1>1
  <2>. HIDE DEF new
  <2>. QED
    BY ONLY <2>1, AddFacts
<1>5. end = FileEnds(fs)[k - 1] /\ Len(ss) = Counts(fs)[k - 1]
  BY DEF SectionsOf
<1>. HIDE DEF new, all, end
<1>6. Silk!SectionsEnd(all) = FileEnds(fs)[k]
  <2>1. FileEnds(fs)[k] = FileEnds(fs)[k - 1] + Silk!SectionsEnd(new)
    BY FileEndFacts DEF new
  <2>. QED
    BY <1>4, <1>5, <2>1
<1>7. Len(all) = Counts(fs)[k]
  <2>1. Counts(fs)[k] = Counts(fs)[k - 1] + Len(new)
    BY CountFacts DEF new
  <2>. QED
    BY <1>4, <1>5, <2>1
<1>8. ASSUME NEW x \in SectionIds(fs), x[1] <= k
      PROVE  all[Index(fs, x)] = [Sec(fs, x) EXCEPT !.start = @ + FileEnds(fs)[x[1] - 1]]
  <2>1. x[1] \in 1..n /\ x[2] \in DOMAIN fs[x[1]].sections
    BY <1>1, IdFacts
  <2>2. CASE x[1] = k
    <3>1. x[2] \in 1..Len(new) /\ Sec(fs, x) = new[x[2]]
      BY <1>3, <2>1, <2>2 DEF new, Sec
    <3>2. Index(fs, x) = Len(ss) + x[2]
      BY <1>5, <2>2 DEF Index
    <3>. QED
      BY <1>4, <1>5, <2>2, <3>1, <3>2
  <2>3. CASE x[1] # k
    <3>1. x[1] <= k - 1 /\ x[1] - 1 \in 0..n /\ x[1] \in 0..n
      BY <1>1, <1>8, <2>1, <2>3
    <3>2. ss[Index(fs, x)] = [Sec(fs, x) EXCEPT !.start = @ + FileEnds(fs)[x[1] - 1]]
      BY <3>1 DEF SectionsOf
    <3>3. Index(fs, x) \in 1..Len(ss)
      <4>. DEFINE c == Counts(fs)[x[1] - 1]
                  l == Len(fs[x[1]].sections)
      <4>1. c \in Nat /\ Counts(fs)[x[1]] = c + l /\ Counts(fs)[x[1]] <= Counts(fs)[k - 1]
        BY <1>2, <2>1, <3>1, CountFacts
      <4>2. l \in Nat /\ x[2] \in 1..l
        <5>1. Layout(fs[x[1]].sections)
          BY <2>1 DEF Parsing, ParsedFile
        <5>. QED
          BY <2>1, <5>1, EndFacts
      <4>3. Index(fs, x) = c + x[2]
        BY DEF Index
      <4>. HIDE DEF c, l
      <4>4. c + l <= Len(ss)
        BY <1>5, <4>1
      <4>. QED
        BY <1>3, <4>1, <4>2, <4>3, <4>4
    <3>. QED
      BY <1>4, <3>2, <3>3
  <2>. QED
    BY <2>2, <2>3
<1>. QED
  BY <1>6, <1>7, <1>8 DEF SectionsOf, all, new

(* The symbols of the next file become pending; the table stays. *)
LEMMA AddObjectsImage ==
    ASSUME LinkInv, ImageInv, AddObjects
    PROVE  ImageInv'
<1>. DEFINE file == Head(todo).file
            n == Len(order)
            k == Read + 1
<1>1. /\ UNCHANGED <<project, move, table, order>> /\ pc = "combine" /\ DOMAIN pending = {}
      /\ todo' = Tail(todo) /\ todo # <<>> /\ result.outcome = "none"
  BY DEF AddObjects, ImageInv
<1>2. PICK fs : fs = Parsed
  OBVIOUS
<1>3. /\ order \in Seq(Linkable) /\ Reading(fs)
      /\ \A j \in 1..Read : "ok" \in Silk!ParseOutcomes(order[j].file, fs[j])
  BY <1>1, <1>2 DEF ImageInv
<1>4. /\ n \in Nat /\ DOMAIN order = 1..n /\ Parsing(fs, n)
      /\ \A j \in 1..n : /\ order[j].file \in Seq(0..255)
                         /\ fs[j] = Silk!ParseFile(order[j].file)
                         /\ "ok" \in Silk!ParseOutcomes(order[j].file, fs[j]) => InOrder(fs[j])
  <2>1. fs = [j \in DOMAIN order |-> Silk!ParseFile(order[j].file)]
    BY <1>2 DEF Parsed
  <2>. QED
    BY <1>3, <2>1, ParsedFacts
<1>. HIDE DEF n
<1>5. Read \in 0..n /\ todo = SubSeq(order, Read + 1, n)
  BY <1>3 DEF Reading, n
<1>6. k \in 1..n /\ Head(todo) = order[k] /\ Tail(todo) = SubSeq(order, Read + 2, n) /\ Len(todo) = n - Read
  BY <1>1, <1>3, <1>5, TodoFacts DEF n
<1>7. file = order[k].file /\ fs[k] = Silk!ParseFile(file)
  BY <1>4, <1>6
<1>. DEFINE by == Silk!SectionsEnd(sections) - fs[k].start
<1>8. PICK o \in Silk!ParseOutcomes(file, fs[k]) :
        IF o = "ok"
          THEN /\ sections' = Silk!AddSections(sections, fs[k].sections)
               /\ pending' = [m \in NamesOf(fs[k].symbols) |->
                                Silk!Relocated(ByName(fs[k].symbols)[m], by)]
               /\ UNCHANGED <<pc, result>>
          ELSE Stop(o) /\ UNCHANGED <<sections, pending>>
  BY <1>7, Zenon DEF AddObjects
<1>. HIDE DEF file, k, by
<1>9. CASE o # "ok"
  <2>1. /\ "ok" \notin Silk!ParseOutcomes(file, fs[k]) /\ o \in {"error", "panic"}
        /\ o = "panic" => LeavesSection(fs[k])
    <3>1. file \in Seq(0..255)
      BY <1>4, <1>6, <1>7
    <3>. QED
      BY <1>7, <1>8, <1>9, <3>1, OutcomeFacts
  <2>2. pc' = "done" /\ result' = [outcome |-> o, image |-> <<>>]
    BY <1>8, <1>9 DEF Stop
  <2>3. ~CanBeLinked(Parsed)
    <3>1. ~CanBeLinked(fs)
      <4>1. k \in DOMAIN fs
        BY <1>4, <1>6 DEF Parsing
      <4>. QED
        BY <1>7, <2>1, <4>1 DEF CanBeLinked
    <3>. QED
      BY <1>2, <3>1
  <2>4. o = "panic" => \E j \in DOMAIN order : BadReference(order[j].file)
    <3>1. ASSUME o = "panic" PROVE BadReference(order[k].file)
      BY <1>7, <2>1, <3>1 DEF BadReference
    <3>. QED
      BY <1>4, <1>6, <3>1
  <2>. QED
    BY <1>1, <2>1, <2>2, <2>3, <2>4, StopKeeps
<1>10. CASE o = "ok"
  <2>1. /\ sections' = Silk!AddSections(sections, fs[k].sections)
        /\ pending' = [m \in NamesOf(fs[k].symbols) |->
                         Silk!Relocated(ByName(fs[k].symbols)[m], by)]
        /\ pc' = "combine" /\ UNCHANGED result
        /\ "ok" \in Silk!ParseOutcomes(order[k].file, fs[k])
    BY <1>1, <1>7, <1>8, <1>10
  <2>2. Len(Tail(todo)) = n - Read - 1
    <3>1. todo \in Seq(Linkable)
      BY <1>1 DEF LinkInv
    <3>. QED
      BY <1>1, <1>5, <1>6, <3>1
  <2>3. Read' = k
    BY <1>1, <1>4, <1>5, <2>2 DEF Read, n, k
  <2>4. k - 1 = Read /\ (\A j \in 1..k : j \in 1..Read \/ j = k) /\ k \in Nat
    BY <1>5, <1>6 DEF k
  <2>5. \A j \in 1..Read' : "ok" \in Silk!ParseOutcomes(order'[j].file, fs[j])
    BY <1>1, <1>3, <2>1, <2>3, <2>4
  <2>6. SectionsOf(fs, Read', sections')
    <3>1. SectionsOf(fs, k - 1, sections) /\ Layout(sections)
      BY <1>1, <1>3, <2>4 DEF Reading, LinkInv
    <3>. QED
      BY <1>4, <1>6, <2>1, <2>3, <3>1, SectionsAdded
  <2>7. InOrder(fs[k])
    BY <1>4, <1>6, <2>1
  <2>8. ASSUME NEW m \in DOMAIN pending'
        PROVE  \E u \in SymbolIds(fs) :
                 /\ u[1] = k /\ Sym(fs, u).name = m
                 /\ pending'[m] = Silk!Relocated(Sym(fs, u), FileEnds(fs)[k - 1] - fs[k].start)
    <3>. DEFINE ls == fs[k].symbols
    <3>1. m \in NamesOf(ls) /\ pending'[m] = Silk!Relocated(ByName(ls)[m], by)
      BY <2>1
    <3>2. by = FileEnds(fs)[k - 1] - fs[k].start
      BY <1>3, <2>4 DEF by, Reading, SectionsOf
    <3>3. PICK j \in DOMAIN ls : ls[j].name = m
      BY <3>1 DEF NamesOf
    <3>4. ByName(ls)[m] = CHOOSE d \in Range(ls) : d.name = m
      BY <3>1 DEF ByName
    <3>. DEFINE d == ByName(ls)[m]
    <3>5. d \in Range(ls) /\ d.name = m
      BY <3>3, <3>4 DEF Range
    <3>6. d = ls[j]
      BY <2>7, <3>3, <3>5 DEF InOrder, Range
    <3>7. <<k, j>> \in SymbolIds(fs) /\ Sym(fs, <<k, j>>) = ls[j]
      <4>1. k \in DOMAIN fs
        BY <1>4, <1>6 DEF Parsing
      <4>. QED
        BY <4>1, IdFacts DEF Sym
    <3>. HIDE DEF ls, d
    <3>8. pending'[m] = Silk!Relocated(ls[j], by)
      BY <3>1, <3>6 DEF d
    <3>. QED
      BY <3>2, <3>3, <3>7, <3>8
  <2>9. Merged(fs)' = Merged(fs)
    <3>1. \A u \in SymbolIds(fs) : u[1] = k => Sym(fs, u).name \in DOMAIN pending'
      <4>1. DOMAIN pending' = NamesOf(fs[k].symbols)
        BY <2>1
      <4>. QED
        BY <4>1, IdFacts DEF NamesOf, Sym
    <3>2. \A u \in SymbolIds(fs) : u[1] \in 1..n
      BY <1>4, IdFacts DEF Parsing
    <3>3. \A i \in 1..n : (i <= k /\ i # k) <=> i <= Read
      BY <1>5, <2>4
    <3>4. \A u \in SymbolIds(fs) : (u[1] <= k /\ (u[1] = k => Sym(fs, u).name \notin DOMAIN pending'))
                                    <=> u[1] <= Read
      BY <3>1, <3>2, <3>3
    <3>5. Merged(fs)' = {u \in SymbolIds(fs) : u[1] <= Read}
      BY <2>3, <3>4 DEF Merged
    <3>. QED
      BY <1>1, <3>5 DEF Merged
  <2>10. TableOf(fs, Merged(fs)', table')
    BY <1>1, <1>3, <2>9 DEF Reading
  <2>11. todo' = SubSeq(order', Read' + 1, Len(order'))
    <3>1. k + 1 = Read + 2
      BY <1>5 DEF k
    <3>. QED
      BY <1>1, <1>6, <2>3, <3>1 DEF n
  <2>12. Read' \in 0..Len(order')
    BY <1>1, <1>6, <2>3 DEF n
  <2>13. Reading(fs)'
    BY <2>3, <2>6, <2>8, <2>10, <2>11, <2>12 DEF Reading
  <2>14. Parsed' = fs
    BY <1>1, <1>2, SameFiles
  <2>. QED
    BY <1>1, <1>3, <2>1, <2>5, <2>13, <2>14 DEF ImageInv
<1>. QED
  BY <1>9, <1>10

(* A symbol with the addresses of its file moved to where its sections are *)
LEMMA MovedSymbol ==
    ASSUME NEW fs, NEW n, Parsing(fs, n), NEW u \in SymbolIds(fs), InOrder(fs[u[1]]),
           NEW e \in Symbol,
           e = Silk!Relocated(Sym(fs, u), FileEnds(fs)[u[1] - 1] - fs[u[1]].start)
    PROVE  IsSymbol(fs, u, e)
<1>. DEFINE s == Sym(fs, u)
            start == fs[u[1]].start
            from == FileEnds(fs)[u[1] - 1]
            by == from - start
<1>1. /\ u[1] \in 1..n /\ from \in Nat
      /\ \A r \in DOMAIN s.refs : s.refs[r] \in Int /\ start \in Nat
      /\ s.type # TYPE.E => ValueOf(fs, u) \in Nat
  BY PlaceFacts
<1>2. s.value \in Int /\ start \in Nat /\ (s.value = Silk!None <=> s.type = TYPE.E)
  BY <1>1, IdFacts DEF Parsing, ParsedFile, Sym
<1>3. /\ e.type = s.type /\ e.value = IF s.value = Silk!None THEN Silk!None ELSE s.value + by
      /\ e.refs = [r \in DOMAIN s.refs |-> s.refs[r] + by]
  BY DEF Silk!Relocated
<1>4. ValueOf(fs, u) = from + (s.value - start)
      /\ \A r \in DOMAIN s.refs : RefOf(fs, u, r) = from + (s.refs[r] - start)
  BY DEF ValueOf, RefOf, Combined
<1>5. by = from - start
  OBVIOUS
<1>. HIDE DEF by, start, from, s
<1>6. s.value # Silk!None => e.value = ValueOf(fs, u) /\ e.value # Silk!None
  BY <1>1, <1>2, <1>3, <1>4, <1>5 DEF Silk!None
<1>7. DOMAIN e.refs = DOMAIN s.refs /\ \A r \in DOMAIN s.refs : e.refs[r] = s.refs[r] + by
  BY <1>3
<1>8. \A r \in DOMAIN s.refs : e.refs[r] = RefOf(fs, u, r)
  BY <1>1, <1>2, <1>4, <1>5, <1>7
<1>. QED
  BY <1>2, <1>3, <1>6, <1>7, <1>8 DEF IsSymbol, s

(* One symbol of the current file enters the table, or clashes with one of *)
(* an earlier file. *)
LEMMA MergeSymbolImage ==
    ASSUME LinkInv, ImageInv, MergeSymbol
    PROVE  ImageInv'
<1>. DEFINE n == Len(order)
<1>1. /\ UNCHANGED <<project, move, todo, order, sections>> /\ pc = "combine"
      /\ result.outcome = "none"
  BY DEF MergeSymbol, ImageInv
<1>2. PICK fs : fs = Parsed
  OBVIOUS
<1>3. /\ order \in Seq(Linkable) /\ Reading(fs)
      /\ \A j \in 1..Read : "ok" \in Silk!ParseOutcomes(order[j].file, fs[j])
  BY <1>1, <1>2 DEF ImageInv
<1>4. /\ n \in Nat /\ DOMAIN order = 1..n /\ Parsing(fs, n)
      /\ \A j \in 1..n : /\ fs[j] = Silk!ParseFile(order[j].file)
                         /\ "ok" \in Silk!ParseOutcomes(order[j].file, fs[j]) => InOrder(fs[j])
  <2>1. fs = [j \in DOMAIN order |-> Silk!ParseFile(order[j].file)]
    BY <1>2 DEF Parsed
  <2>. QED
    BY <1>3, <2>1, ParsedFacts
<1>. HIDE DEF n
<1>5. Read \in 0..n /\ Read' = Read /\ \A j \in 1..Read : j \in 1..n /\ InOrder(fs[j])
  <2>1. Read \in 0..n /\ Read' = Read
    BY <1>1, <1>3 DEF Reading, n, Read
  <2>2. \A j \in 1..Read : j \in 1..n
    BY <1>4, <2>1
  <2>. QED
    BY <1>3, <1>4, <2>1, <2>2
<1>6. DOMAIN fs = 1..n /\ \A u \in SymbolIds(fs) : u[1] \in 1..n
  BY <1>4, IdFacts DEF Parsing
<1>7. PICK name \in DOMAIN pending :
        LET m == Silk!Merge(table, name, pending[name])
        IN  /\ pending' = [k \in DOMAIN pending \ {name} |-> pending[k]]
            /\ table' = m.table
            /\ IF m.outcome = "ok" THEN UNCHANGED <<pc, result>> ELSE Stop(m.outcome)
  BY Zenon DEF MergeSymbol
<1>. DEFINE e == pending[name]
            m == Silk!Merge(table, name, e)
            M == Merged(fs)
<1>8. PICK u \in SymbolIds(fs) :
        /\ u[1] = Read /\ Sym(fs, u).name = name
        /\ e = Silk!Relocated(Sym(fs, u), FileEnds(fs)[Read - 1] - fs[Read].start)
  BY <1>3 DEF Reading
<1>9. e \in Symbol /\ \A k \in DOMAIN table : table[k] \in Symbol
  <2>1. e \in Range(table) \cup Range(pending) /\ \A k \in DOMAIN table : table[k] \in Range(table)
    BY DEF Range
  <2>2. \A x \in Range(table) \cup Range(pending) : x \in Symbol
    BY <1>1 DEF LinkInv, Placed
  <2>. QED
    BY <2>1, <2>2
<1>10. u[1] \in 1..Read /\ InOrder(fs[u[1]])
  BY <1>4, <1>5, <1>6, <1>8
<1>11. IsSymbol(fs, u, e)
  <2>. HIDE DEF e
  <2>. QED
    BY <1>4, <1>8, <1>9, <1>10, MovedSymbol
<1>12. name \in Seq(Int)
  BY <1>4, <1>6, <1>8, IdFacts DEF Parsing, ParsedFile, Sym
<1>13. u \notin M
  BY <1>8 DEF Merged
<1>14. \A v \in SymbolIds(fs) : v[1] = Read /\ Sym(fs, v).name = name => v = u
  <2>. SUFFICES ASSUME NEW v \in SymbolIds(fs), v[1] = Read, Sym(fs, v).name = name PROVE v = u
    OBVIOUS
  <2>. DEFINE ls == fs[Read].symbols
  <2>1. u[2] \in DOMAIN ls /\ v[2] \in DOMAIN ls /\ u = <<u[1], u[2]>> /\ v = <<v[1], v[2]>>
    BY <1>8, IdFacts
  <2>2. ls[u[2]].name = ls[v[2]].name
    BY <1>8 DEF Sym
  <2>3. u[2] = v[2]
    BY <1>8, <1>10, <2>1, <2>2 DEF InOrder
  <2>. QED
    BY <1>8, <2>1, <2>3
<1>15. \A v \in M : v \in SymbolIds(fs) /\ v[1] \in 1..Read /\ InOrder(fs[v[1]])
  <2>1. \A j \in 1..n : j <= Read => j \in 1..Read
    BY <1>4, <1>5
  <2>. QED
    BY <1>5, <1>6, <2>1 DEF Merged
<1>16. Apart(fs) => Distinct(fs, M \cup {u})
  BY <1>4, <1>10, <1>15, DistinctFrom
<1>17. TableOf(fs, M, table)
  BY <1>3 DEF Reading
<1>18. /\ m.outcome \in {"ok", "error", "panic"}
       /\ m.outcome = "ok" => TableOf(fs, M \cup {u}, m.table)
       /\ m.outcome = "error" =>
            e.type = TYPE.P /\ \E v \in M : Sym(fs, v).type = TYPE.P /\ Sym(fs, v).name = name
       /\ m.outcome = "panic" =>
            /\ e.type = TYPE.E
            /\ \E v \in M : Sym(fs, v).type = TYPE.E /\ Sym(fs, v).name = name
            /\ \A v \in M : Sym(fs, v).name = name => Sym(fs, v).type # TYPE.P
  <2>. HIDE DEF e, M
  <2>1. Sym(fs, u).name = name
    BY <1>8
  <2>2. Sym(fs, u).name \in Seq(Int)
    BY <1>12, <2>1
  <2>3. Entering(fs, M, table, u, e)
    BY <1>9, <1>11, <1>13, <1>16, <1>17, <2>2 DEF Entering
  <2>4. Merging(fs, M, u, e, Silk!Merge(table, Sym(fs, u).name, e))
    BY <2>3, MergedTable
  <2>5. Merging(fs, M, u, e, m)
    BY <2>1, <2>4
  <2>. HIDE DEF m
  <2>. QED
    BY <2>1, <2>5 DEF Merging
<1>19. e.type = Sym(fs, u).type
  BY <1>11 DEF IsSymbol
<1>20. DOMAIN pending' = DOMAIN pending \ {name} /\ \A k \in DOMAIN pending' : pending'[k] = pending[k]
  BY <1>7
<1>21. table' = m.table /\ IF m.outcome = "ok" THEN UNCHANGED <<pc, result>> ELSE Stop(m.outcome)
  BY <1>7
<1>. HIDE DEF e, m, M
<1>22. CASE m.outcome = "ok"
  <2>1. UNCHANGED <<pc, result>> /\ TableOf(fs, M \cup {u}, table')
    BY <1>18, <1>21, <1>22
  <2>2. Merged(fs)' = M \cup {u}
    <3>1. \A v \in SymbolIds(fs) :
            (v[1] <= Read /\ (v[1] = Read => Sym(fs, v).name \notin DOMAIN pending \ {name}))
            <=> (v[1] <= Read /\ (v[1] = Read => Sym(fs, v).name \notin DOMAIN pending)) \/ v = u
      <4>1. u[1] <= Read
        BY <1>5, <1>8
      <4>. QED
        BY <1>8, <1>14, <4>1
    <3>. QED
      BY <1>5, <1>8, <1>20, <3>1 DEF Merged, M
  <2>3. TableOf(fs, Merged(fs)', table')
    BY <2>1, <2>2
  <2>4. Reading(fs)'
    BY <1>1, <1>3, <1>5, <1>20, <2>3 DEF Reading
  <2>5. Parsed' = fs
    BY <1>1, <1>2, SameFiles
  <2>. QED
    BY <1>1, <1>3, <1>5, <2>1, <2>4, <2>5 DEF ImageInv
<1>23. CASE m.outcome = "error"
  <2>1. pc' = "done" /\ result' = [outcome |-> "error", image |-> <<>>]
    BY <1>21, <1>23 DEF Stop
  <2>2. PICK v \in M : Sym(fs, v).type = TYPE.P /\ Sym(fs, v).name = name
    BY <1>18, <1>23
  <2>3. v \in SymbolIds(fs) /\ v # u /\ Sym(fs, u).type = TYPE.P
    BY <1>13, <1>15, <1>18, <1>19, <1>23
  <2>4. ~CanBeLinked(fs)
    BY <1>8, <2>2, <2>3 DEF CanBeLinked, DefinedOnce
  <2>. QED
    BY <1>1, <1>2, <2>1, <2>4, StopKeeps
<1>24. CASE m.outcome = "panic"
  <2>1. pc' = "done" /\ result' = [outcome |-> "panic", image |-> <<>>]
    BY <1>21, <1>24 DEF Stop
  <2>2. PICK v \in M : Sym(fs, v).type = TYPE.E /\ Sym(fs, v).name = name
    BY <1>18, <1>24
  <2>3. /\ Sym(fs, u).type = TYPE.E
        /\ \A w \in M : Sym(fs, w).name = name => Sym(fs, w).type # TYPE.P
    BY <1>18, <1>19, <1>24
  <2>4. v \in SymbolIds(fs) /\ v[1] \in 1..Read /\ v[1] # Read
    BY <1>13, <1>14, <1>15, <2>2
  <2>5. v[1] < u[1] /\ v[1] \in DOMAIN fs /\ u[1] \in DOMAIN fs
    BY <1>5, <1>6, <1>8, <2>4
  <2>6. \A w \in SymbolIds(fs) : w[1] \in 1..Read /\ Sym(fs, w).name = name => Sym(fs, w).type # TYPE.P
    <3>. SUFFICES ASSUME NEW w \in SymbolIds(fs), w[1] \in 1..Read, Sym(fs, w).name = name
                  PROVE  Sym(fs, w).type # TYPE.P
      OBVIOUS
    <3>1. CASE w[1] = Read
      BY <1>14, <2>3, <3>1 DEF TYPE, Silk!SYMBOL_TYPE
    <3>2. CASE w[1] # Read
      <4>1. w \in M
        BY <1>5, <3>2 DEF M, Merged
      <4>. QED
        BY <2>3, <4>1
    <3>. QED
      BY <3>1, <3>2
  <2>7. SYMBOL_TYPE_EXTERNAL = TYPE.E /\ SYMBOL_TYPE_PUBLIC = TYPE.P
    BY DEF TYPE, Silk!SYMBOL_TYPE, SYMBOL_TYPE_EXTERNAL, SYMBOL_TYPE_PUBLIC
  <2>8. \A w \in SymbolIds(fs) : Sym(fs, w) \in Range(fs[w[1]].symbols)
    BY IdFacts DEF Sym, Range
  <2>9. name \in NamesOf(fs[u[1]].symbols)
    BY <1>8, IdFacts DEF NamesOf, Sym
  <2>10. SYMBOL_TYPE_EXTERNAL \in TypesOf(fs[v[1]], name) \cap TypesOf(fs[u[1]], name)
    BY <1>8, <2>2, <2>3, <2>4, <2>7, <2>8 DEF TypesOf
  <2>11. ASSUME NEW k \in 1..u[1], SYMBOL_TYPE_PUBLIC \in TypesOf(fs[k], name) PROVE FALSE
    <3>1. PICK s \in Range(fs[k].symbols) : s.name = name /\ s.type = TYPE.P
      BY <2>7, <2>11 DEF TypesOf
    <3>2. PICK j \in DOMAIN fs[k].symbols : s = fs[k].symbols[j]
      BY <3>1 DEF Range
    <3>3. k \in 1..Read /\ k \in DOMAIN fs
      BY <1>5, <1>6, <1>8, <2>11
    <3>4. <<k, j>> \in SymbolIds(fs) /\ Sym(fs, <<k, j>>) = s /\ <<k, j>>[1] = k
      BY <3>2, <3>3, IdFacts DEF Sym
    <3>. QED
      BY <2>6, <3>1, <3>3, <3>4
  <2>12. TwoExternals
    BY <1>2, <2>5, <2>9, <2>10, <2>11, Zenon DEF TwoExternals
  <2>. QED
    BY <1>1, <2>1, <2>12, StopKeeps
<1>. QED
  BY <1>18, <1>22, <1>23, <1>24

(* The places of the sections of all files: each has one of its own, and *)
(* there are no others. *)
LEMMA IndexFacts ==
    ASSUME NEW fs, NEW n, Parsing(fs, n)
    PROVE  /\ \A x \in SectionIds(fs) : Index(fs, x) \in 1..Counts(fs)[n]
           /\ \A k \in 1..Counts(fs)[n] : \E x \in SectionIds(fs) : k = Index(fs, x)
           /\ \A x, y \in SectionIds(fs) : Index(fs, x) = Index(fs, y) => x = y
<1>. DEFINE C(k) == Counts(fs)[k]
            L(k) == Len(fs[k].sections)
<1>1. n \in Nat /\ DOMAIN fs = 1..n
  BY DEF Parsing
<1>2. /\ C(0) = 0 /\ \A k \in 1..n : C(k) = C(k - 1) + L(k)
      /\ \A k \in 0..n : C(k) \in Nat
      /\ \A j, k \in 0..n : j <= k => C(j) <= C(k)
  BY CountFacts
<1>3. \A k \in 1..n : L(k) \in Nat /\ DOMAIN fs[k].sections = 1..L(k)
  <2>1. \A k \in 1..n : Layout(fs[k].sections)
    BY DEF Parsing, ParsedFile
  <2>. QED
    BY <2>1, EndFacts
<1>4. ASSUME NEW x \in SectionIds(fs)
      PROVE  /\ x[1] \in 1..n /\ x[2] \in 1..L(x[1]) /\ x = <<x[1], x[2]>>
             /\ x[1] - 1 \in 0..n /\ x[1] \in 0..n
             /\ Index(fs, x) = C(x[1] - 1) + x[2]
             /\ C(x[1] - 1) < Index(fs, x) /\ Index(fs, x) <= C(x[1])
             /\ Index(fs, x) \in Nat
  <2>1. x[1] \in 1..n /\ x[2] \in DOMAIN fs[x[1]].sections /\ x = <<x[1], x[2]>>
    BY <1>1, IdFacts
  <2>2. x[2] \in 1..L(x[1]) /\ L(x[1]) \in Nat
    BY <1>3, <2>1
  <2>3. x[1] - 1 \in 0..n /\ x[1] \in 0..n
    BY <1>1, <2>1
  <2>4. C(x[1]) = C(x[1] - 1) + L(x[1]) /\ C(x[1] - 1) \in Nat
    BY <1>2, <2>1, <2>3
  <2>5. Index(fs, x) = C(x[1] - 1) + x[2]
    BY DEF Index
  <2>. HIDE DEF C, L
  <2>. QED
    BY <2>1, <2>2, <2>3, <2>4, <2>5
<1>. HIDE DEF C, L
<1>5. ASSUME NEW x \in SectionIds(fs) PROVE Index(fs, x) \in 1..C(n)
  <2>1. C(x[1]) <= C(n) /\ C(n) \in Nat /\ C(x[1] - 1) \in Nat
    <3>1. n \in 0..n /\ x[1] \in 0..n /\ x[1] <= n /\ x[1] - 1 \in 0..n
      BY <1>1, <1>4
    <3>. QED
      BY <1>2, <3>1
  <2>2. C(x[1]) \in Nat
    BY <1>2, <1>4
  <2>. QED
    BY <1>4, <2>1, <2>2
<1>6. ASSUME NEW k \in 1..C(n) PROVE \E x \in SectionIds(fs) : k = Index(fs, x)
  <2>. DEFINE T == {j \in 0..n : k <= C(j)}
  <2>1. n \in 0..n /\ C(n) \in Nat
    BY <1>1, <1>2
  <2>2. T \in SUBSET Nat /\ n \in T
    BY <1>1, <2>1
  <2>3. PICK m \in T : \A j \in T : m <= j
    BY <2>2, LeastNumber
  <2>4. m \in 0..n /\ k <= C(m) /\ m # 0
    BY <1>2, <2>1
  <2>5. m - 1 \in 0..n /\ ~(m <= m - 1) /\ m \in 1..n
    BY <1>1, <2>4
  <2>6. m - 1 \notin T
    BY <2>3, <2>5
  <2>7. ~(k <= C(m - 1))
    BY <2>5, <2>6
  <2>8. C(m) = C(m - 1) + L(m) /\ C(m - 1) \in Nat /\ L(m) \in Nat
    BY <1>2, <1>3, <2>5
  <2>. DEFINE j == k - C(m - 1)
  <2>9. j \in 1..L(m) /\ k = C(m - 1) + j
    BY <2>1, <2>4, <2>7, <2>8
  <2>. HIDE DEF j
  <2>10. <<m, j>> \in SectionIds(fs)
    BY <1>1, <1>3, <2>5, <2>9, IdFacts
  <2>11. Index(fs, <<m, j>>) = C(m - 1) + j
    BY DEF Index, C
  <2>. QED
    BY <2>9, <2>10, <2>11
<1>7. ASSUME NEW x \in SectionIds(fs), NEW y \in SectionIds(fs), Index(fs, x) = Index(fs, y)
      PROVE  x = y
  <2>1. ASSUME NEW v \in SectionIds(fs), NEW w \in SectionIds(fs), v[1] < w[1]
        PROVE  Index(fs, v) < Index(fs, w)
    <3>1. v[1] \in 0..n /\ w[1] - 1 \in 0..n /\ v[1] \in Int /\ w[1] \in Int
      BY <1>4
    <3>2. C(v[1]) <= C(w[1] - 1) /\ C(v[1]) \in Nat /\ C(w[1] - 1) \in Nat
      BY <1>2, <2>1, <3>1
    <3>3. /\ Index(fs, v) <= C(v[1]) /\ C(w[1] - 1) < Index(fs, w)
          /\ Index(fs, v) \in Nat /\ Index(fs, w) \in Nat
      BY <1>4
    <3>. QED
      BY <3>2, <3>3
  <2>2. Index(fs, x) \in Nat /\ Index(fs, y) \in Nat /\ x[1] \in Int /\ y[1] \in Int
    BY <1>4
  <2>3. x[1] = y[1]
    <3>1. ~(x[1] < y[1]) /\ ~(y[1] < x[1])
      BY <1>7, <2>1, <2>2
    <3>. QED
      BY <2>2, <3>1
  <2>4. x[2] = y[2]
    <3>1. C(x[1] - 1) + x[2] = C(x[1] - 1) + y[2]
      BY <1>4, <1>7, <2>3
    <3>2. C(x[1] - 1) \in Nat /\ x[2] \in Int /\ y[2] \in Int
      BY <1>2, <1>4
    <3>. QED
      BY <3>1, <3>2
  <2>. QED
    BY <1>4, <2>3, <2>4
<1>. QED
  BY <1>5, <1>6, <1>7 DEF C

(* The sections of all files are those of the files, moved. *)
LEMMA SectionFacts ==
    ASSUME NEW fs, NEW n, Parsing(fs, n), NEW ss, Layout(ss), SectionsOf(fs, n, ss)
    PROVE  /\ DOMAIN ss = 1..Counts(fs)[n]
           /\ \A x \in SectionIds(fs) :
                LET s == ss[Index(fs, x)]
                IN  /\ Sec(fs, x) \in Section /\ Len(Sec(fs, x).data) = Sec(fs, x).length
                    /\ s.flags = Sec(fs, x).flags /\ s.length = Sec(fs, x).length
                    /\ s.data = Sec(fs, x).data /\ s.start \in Nat
                    /\ s.start = FileEnds(fs)[x[1] - 1] + Sec(fs, x).start
           /\ Solid(ss)
<1>1. n \in Nat /\ DOMAIN fs = 1..n
  BY DEF Parsing
<1>2. DOMAIN ss = 1..Counts(fs)[n]
  <2>1. DOMAIN ss = 1..Len(ss)
    BY EndFacts
  <2>. QED
    BY <2>1 DEF SectionsOf
<1>3. ASSUME NEW x \in SectionIds(fs)
      PROVE  LET s == ss[Index(fs, x)]
             IN  /\ Sec(fs, x) \in Section /\ Len(Sec(fs, x).data) = Sec(fs, x).length
                 /\ s.flags = Sec(fs, x).flags /\ s.length = Sec(fs, x).length
                 /\ s.data = Sec(fs, x).data /\ s.start \in Nat
                 /\ s.start = FileEnds(fs)[x[1] - 1] + Sec(fs, x).start
                 /\ s \in Section
  <2>. DEFINE s == ss[Index(fs, x)]
              end == FileEnds(fs)[x[1] - 1]
              c == Sec(fs, x)
  <2>1. x[1] \in 1..n /\ x[2] \in DOMAIN fs[x[1]].sections
    BY <1>1, IdFacts
  <2>2. c \in Section /\ Len(c.data) = c.length
    BY <2>1 DEF Parsing, ParsedFile, Solid, Sec
  <2>3. s = [c EXCEPT !.start = @ + end]
    BY <1>1, <2>1 DEF SectionsOf
  <2>4. end \in Nat
    BY <1>1, <2>1, FileEndFacts
  <2>. HIDE DEF s, c, end
  <2>5. c.start + end \in Nat /\ c.start + end = end + c.start
    BY <2>2, <2>4 DEF Section
  <2>. DEFINE z == c.start + end
  <2>6. s = [c EXCEPT !.start = z] /\ z \in Nat /\ z = end + c.start
    BY <2>3, <2>5
  <2>. HIDE DEF z
  <2>7. /\ s.flags = c.flags /\ s.length = c.length /\ s.data = c.data /\ s.start = z /\ s \in Section
    BY <2>2, <2>6 DEF Section
  <2>. QED
    BY <2>2, <2>6, <2>7 DEF s, c, end
<1>4. Solid(ss)
  <2>. SUFFICES ASSUME NEW k \in DOMAIN ss PROVE ss[k] \in Section /\ Len(ss[k].data) = ss[k].length
    BY DEF Solid
  <2>1. PICK x \in SectionIds(fs) : k = Index(fs, x)
    BY <1>2, IndexFacts
  <2>. QED
    BY <1>3, <2>1
<1>. QED
  BY <1>2, <1>3, <1>4

(* The bytes of the sections have addresses. *)
LEMMA ByteNumber ==
    ASSUME NEW fs, NEW n, Parsing(fs, n), NEW x \in SectionIds(fs), NEW i \in 1..Sec(fs, x).length
    PROVE  ByteOf(fs, x, i) \in Nat
<1>. DEFINE end == FileEnds(fs)[x[1] - 1]
            start == Sec(fs, x).start
            first == fs[x[1]].start
<1>1. x[1] \in 1..n /\ x[2] \in DOMAIN fs[x[1]].sections /\ n \in Nat
  BY IdFacts DEF Parsing
<1>2. Sec(fs, x) \in Section /\ first \in Nat
  BY <1>1 DEF Parsing, ParsedFile, Solid, Sec
<1>3. end \in Nat
  <2>1. x[1] - 1 \in 0..n
    BY <1>1
  <2>. QED
    BY <2>1, FileEndFacts
<1>4. start \in Nat /\ i \in Int /\ 1 <= i
  BY <1>2 DEF Section
<1>5. ByteOf(fs, x, i) = end + ((first + start + i - 1) - first)
  BY DEF ByteOf, Combined
<1>. HIDE DEF end, start, first
<1>. QED
  BY <1>2, <1>3, <1>4, <1>5

(* Each byte of a file is in them at its address, and the places of *)
(* references hold zeros. *)
LEMMA SectionBytes ==
    ASSUME NEW fs, NEW n, Parsing(fs, n), NEW ss, Layout(ss), SectionsOf(fs, n, ss)
    PROVE  /\ \A x \in SectionIds(fs) : \A i \in 1..Sec(fs, x).length :
                ByteOf(fs, x, i) \in Nat /\ ByteAt(ss, ByteOf(fs, x, i), Sec(fs, x).data[i])
           /\ \A x \in SectionIds(fs) : ByteOf(fs, x, 1) = ss[Index(fs, x)].start
           /\ \A u \in SymbolIds(fs) : InOrder(fs[u[1]]) =>
                \A r \in DOMAIN Sym(fs, u).refs : \A i \in 0..3 : ByteAt(ss, RefOf(fs, u, r) + i, 0)
<1>1. n \in Nat /\ DOMAIN fs = 1..n /\ \A k \in 1..n : fs[k].start \in Nat
  BY DEF Parsing, ParsedFile
<1>2. DOMAIN ss = 1..Counts(fs)[n]
  BY SectionFacts
<1>3. ASSUME NEW x \in SectionIds(fs), NEW i \in Int
      PROVE  /\ x[1] \in 1..n /\ Index(fs, x) \in DOMAIN ss
             /\ ByteOf(fs, x, i) = ss[Index(fs, x)].start + (i - 1)
             /\ ss[Index(fs, x)].start \in Nat
             /\ ss[Index(fs, x)].length = Sec(fs, x).length /\ Sec(fs, x).length \in Nat
             /\ ss[Index(fs, x)].data = Sec(fs, x).data
             /\ ss[Index(fs, x)].start = FileEnds(fs)[x[1] - 1] + Sec(fs, x).start
             /\ FileEnds(fs)[x[1] - 1] \in Nat /\ Sec(fs, x).start \in Nat
  <2>. DEFINE s == ss[Index(fs, x)]
              end == FileEnds(fs)[x[1] - 1]
              c == Sec(fs, x)
              f == fs[x[1]].start
  <2>1. x[1] \in 1..n /\ Index(fs, x) \in DOMAIN ss
    BY <1>1, <1>2, IdFacts, IndexFacts
  <2>2. c \in Section /\ s.start = end + c.start /\ s.length = c.length /\ s.data = c.data
    BY SectionFacts
  <2>3. end \in Nat /\ f \in Nat /\ c.start \in Nat /\ c.length \in Nat
    <3>1. x[1] - 1 \in 0..n
      BY <1>1, <2>1
    <3>. QED
      BY <1>1, <2>1, <2>2, <3>1, FileEndFacts DEF Section
  <2>4. ByteOf(fs, x, i) = end + ((f + c.start + i - 1) - f)
    BY DEF ByteOf, Combined
  <2>. HIDE DEF s, end, c, f
  <2>5. ByteOf(fs, x, i) = s.start + (i - 1) /\ s.start \in Nat
    BY <2>2, <2>3, <2>4
  <2>. QED
    BY <2>1, <2>2, <2>3, <2>5 DEF s, end, c
<1>4. ASSUME NEW x \in SectionIds(fs), NEW i \in 1..Sec(fs, x).length
      PROVE  ByteOf(fs, x, i) \in Nat /\ ByteAt(ss, ByteOf(fs, x, i), Sec(fs, x).data[i])
  <2>. DEFINE k == Index(fs, x)
              a == ByteOf(fs, x, i)
  <2>1. i \in Int /\ 1 <= i /\ i <= Sec(fs, x).length
    BY <1>3
  <2>2. /\ k \in DOMAIN ss /\ a = ss[k].start + (i - 1) /\ ss[k].start \in Nat
        /\ ss[k].length = Sec(fs, x).length /\ Sec(fs, x).length \in Nat /\ ss[k].data = Sec(fs, x).data
    BY <1>3, <2>1
  <2>. HIDE DEF k, a
  <2>3. /\ a \in Nat /\ ss[k].start <= a /\ a < ss[k].start + ss[k].length /\ a - ss[k].start + 1 = i
    BY <2>1, <2>2
  <2>4. ByteAt(ss, a, Sec(fs, x).data[i])
    BY <2>2, <2>3 DEF ByteAt
  <2>. QED
    BY <2>3, <2>4 DEF a
<1>5. ASSUME NEW x \in SectionIds(fs) PROVE ByteOf(fs, x, 1) = ss[Index(fs, x)].start
  <2>1. ByteOf(fs, x, 1) = ss[Index(fs, x)].start + (1 - 1) /\ ss[Index(fs, x)].start \in Nat
    BY <1>3
  <2>. QED
    BY <2>1
<1>6. ASSUME NEW u \in SymbolIds(fs), InOrder(fs[u[1]]), NEW r \in DOMAIN Sym(fs, u).refs, NEW i \in 0..3
      PROVE  ByteAt(ss, RefOf(fs, u, r) + i, 0)
  <2>. DEFINE f == fs[u[1]]
              end == FileEnds(fs)[u[1] - 1]
              a == Sym(fs, u).refs[r] - f.start
              cs == f.sections
  <2>1. /\ u[1] \in 1..n /\ end \in Nat
        /\ Sym(fs, u).refs[r] \in Int /\ f.start \in Nat /\ RefOf(fs, u, r) \in Nat
    BY <1>6, PlaceFacts
  <2>2. RefOf(fs, u, r) = end + a /\ a \in Int
    BY <2>1 DEF RefOf, Combined
  <2>3. ZerosAt(cs, a)
    BY <1>6, IdFacts DEF InOrder, Sym
  <2>4. i + 1 \in 1..4 /\ a + (i + 1) - 1 = a + i
    BY <2>2
  <2>5. ByteAt(cs, a + i, 0)
    BY <2>3, <2>4 DEF ZerosAt
  <2>. DEFINE z == a + i
  <2>. HIDE DEF z
  <2>6. PICK c \in DOMAIN cs : /\ cs[c].start <= z /\ z < cs[c].start + cs[c].length
                               /\ cs[c].data[z - cs[c].start + 1] = 0
    <3>1. ByteAt(cs, z, 0)
      BY <2>5 DEF z
    <3>. HIDE DEF cs
    <3>. QED
      BY <3>1, Zenon DEF ByteAt
  <2>. DEFINE x == <<u[1], c>>
              k == Index(fs, x)
  <2>7. x \in SectionIds(fs) /\ Sec(fs, x) = cs[c] /\ x[1] = u[1]
    BY <1>1, <2>1, <2>6, IdFacts DEF Sec
  <2>8. /\ k \in DOMAIN ss /\ ss[k].length = cs[c].length /\ ss[k].data = cs[c].data
        /\ ss[k].start = end + cs[c].start /\ cs[c].start \in Nat /\ cs[c].length \in Nat
    <3>1. 0 \in Int
      OBVIOUS
    <3>. QED
      BY <1>3, <2>7, <3>1
  <2>. DEFINE b == RefOf(fs, u, r) + i
  <2>. HIDE DEF x, k, end, a, cs
  <2>9. b = end + z /\ z \in Int
    BY <2>1, <2>2 DEF z
  <2>. HIDE DEF b
  <2>10. /\ ss[k].start <= b /\ b < ss[k].start + ss[k].length
         /\ b - ss[k].start + 1 = z - cs[c].start + 1
    BY <2>1, <2>2, <2>6, <2>8, <2>9
  <2>11. ss[k].data[b - ss[k].start + 1] = 0
    BY <2>6, <2>8, <2>10
  <2>12. ByteAt(ss, b, 0)
    BY <2>8, <2>10, <2>11 DEF ByteAt
  <2>. QED
    BY <2>12 DEF b
<1>. QED
  BY <1>4, <1>5, <1>6

(* The flags of the sections are accepted as those of the files are, and *)
(* the entry section is the only one with that flag. *)
LEMMA FlagFacts ==
    ASSUME NEW fs, NEW n, Parsing(fs, n), NEW ss, Layout(ss), SectionsOf(fs, n, ss)
    PROVE  LET entry == CHOOSE k \in Silk!EntryPoints(ss) : TRUE
           IN  /\ Silk!FlagsAccepted(ss, project.target = "ROM") <=> FlagsOf(fs)
               /\ FlagsOf(fs) => /\ entry \in DOMAIN ss
                                 /\ \A x \in SectionIds(fs) : IsEntry(fs, x) => Index(fs, x) = entry
<1>. DEFINE E == Silk!EntryPoints(ss)
            entry == CHOOSE k \in E : TRUE
            Bad(g) == \/ \E f \in Silk!INVALID_FLAGS : Silk!Has(g, f)
                      \/ project.target = "ROM" /\ Silk!Has(g, Silk!FLAG.WRITE)
            Ent(g) == Silk!Has(g, Silk!FLAG.ENTRYPOINT)
            Exe(g) == Silk!Has(g, Silk!FLAG.EXECUTE)
<1>1. /\ \A x \in SectionIds(fs) : Index(fs, x) \in DOMAIN ss /\ ss[Index(fs, x)].flags = Sec(fs, x).flags
      /\ \A k \in DOMAIN ss : \E x \in SectionIds(fs) : k = Index(fs, x)
      /\ \A x, y \in SectionIds(fs) : Index(fs, x) = Index(fs, y) => x = y
  <2>1. DOMAIN ss = 1..Counts(fs)[n] /\ \A x \in SectionIds(fs) : ss[Index(fs, x)].flags = Sec(fs, x).flags
    BY SectionFacts
  <2>2. /\ \A x \in SectionIds(fs) : Index(fs, x) \in 1..Counts(fs)[n]
        /\ \A k \in 1..Counts(fs)[n] : \E x \in SectionIds(fs) : k = Index(fs, x)
        /\ \A x, y \in SectionIds(fs) : Index(fs, x) = Index(fs, y) => x = y
    BY IndexFacts
  <2>. QED
    BY <2>1, <2>2, Zenon
<1>2. Silk!FlagsAccepted(ss, project.target = "ROM") <=>
        /\ \A k \in DOMAIN ss : ~Bad(ss[k].flags)
        /\ \E k \in DOMAIN ss : E = {k}
        /\ \A k \in E : Exe(ss[k].flags)
  BY Zenon DEF Silk!FlagsAccepted
<1>3. FlagsOf(fs) <=>
        /\ \A x \in SectionIds(fs) : /\ ~Bad(Sec(fs, x).flags)
                                     /\ Ent(Sec(fs, x).flags) => Exe(Sec(fs, x).flags)
        /\ \E x \in SectionIds(fs) : \A y \in SectionIds(fs) : Ent(Sec(fs, y).flags) <=> y = x
  BY Zenon DEF FlagsOf, IsEntry
<1>4. \A k : k \in E <=> k \in DOMAIN ss /\ Ent(ss[k].flags)
  BY DEF Silk!EntryPoints
<1>. HIDE DEF E, Bad, Ent, Exe
<1>5. (\A k \in DOMAIN ss : ~Bad(ss[k].flags)) <=> \A x \in SectionIds(fs) : ~Bad(Sec(fs, x).flags)
  BY <1>1
<1>6. (\A k \in E : Exe(ss[k].flags))
      <=> \A x \in SectionIds(fs) : Ent(Sec(fs, x).flags) => Exe(Sec(fs, x).flags)
  BY <1>1, <1>4
<1>7. ASSUME NEW k \in DOMAIN ss, E = {k}
      PROVE  \E x \in SectionIds(fs) : k = Index(fs, x) /\ \A y \in SectionIds(fs) : Ent(Sec(fs, y).flags) <=> y = x
  <2>1. PICK x \in SectionIds(fs) : k = Index(fs, x)
    BY <1>1
  <2>2. ASSUME NEW y \in SectionIds(fs) PROVE Ent(Sec(fs, y).flags) <=> y = x
    <3>1. Ent(Sec(fs, y).flags) <=> Index(fs, y) \in E
      BY <1>1, <1>4
    <3>2. Index(fs, y) \in E <=> Index(fs, y) = Index(fs, x)
      BY <1>7, <2>1
    <3>. QED
      BY <1>1, <3>1, <3>2
  <2>. QED
    BY <2>1, <2>2
<1>8. ASSUME NEW x \in SectionIds(fs), \A y \in SectionIds(fs) : Ent(Sec(fs, y).flags) <=> y = x
      PROVE  Index(fs, x) \in DOMAIN ss /\ E = {Index(fs, x)}
  <2>1. ASSUME NEW k PROVE k \in E <=> k = Index(fs, x)
    <3>1. ASSUME k \in E PROVE k = Index(fs, x)
      <4>1. PICK y \in SectionIds(fs) : k = Index(fs, y)
        BY <1>1, <1>4, <3>1
      <4>2. Ent(Sec(fs, y).flags)
        BY <1>1, <1>4, <3>1, <4>1
      <4>. QED
        BY <1>8, <4>1, <4>2
    <3>2. Index(fs, x) \in E
      BY <1>1, <1>4, <1>8
    <3>. QED
      BY <3>1, <3>2
  <2>. QED
    BY <1>1, <2>1
<1>9. (\E k \in DOMAIN ss : E = {k})
      <=> \E x \in SectionIds(fs) : \A y \in SectionIds(fs) : Ent(Sec(fs, y).flags) <=> y = x
  <2>1. ASSUME NEW k \in DOMAIN ss, E = {k}
        PROVE  \E x \in SectionIds(fs) : \A y \in SectionIds(fs) : Ent(Sec(fs, y).flags) <=> y = x
    BY <1>7, <2>1
  <2>2. ASSUME NEW x \in SectionIds(fs), \A y \in SectionIds(fs) : Ent(Sec(fs, y).flags) <=> y = x
        PROVE  \E k \in DOMAIN ss : E = {k}
    BY <1>8, <2>2
  <2>. QED
    BY <2>1, <2>2
<1>10. Silk!FlagsAccepted(ss, project.target = "ROM") <=> FlagsOf(fs)
  BY <1>2, <1>3, <1>5, <1>6, <1>9
<1>11. ASSUME FlagsOf(fs)
       PROVE  entry \in DOMAIN ss /\ \A x \in SectionIds(fs) : IsEntry(fs, x) => Index(fs, x) = entry
  <2>1. PICK k \in DOMAIN ss : E = {k}
    BY <1>3, <1>9, <1>11
  <2>2. entry = k
    BY <2>1
  <2>3. \A x \in SectionIds(fs) : IsEntry(fs, x) => Index(fs, x) \in E
    BY <1>1, <1>4 DEF IsEntry, Ent
  <2>. QED
    BY <2>1, <2>2, <2>3
<1>. QED
  BY <1>10, <1>11 DEF E

(* The places of references in a table are named by symbol and place. *)
LEMMA SlotFacts ==
    ASSUME NEW t
    PROVE  /\ \A p \in Slots(t) : /\ p[1] \in DOMAIN t /\ p[2] \in DOMAIN t[p[1]].refs
                                  /\ p = <<p[1], p[2]>>
           /\ \A k \in DOMAIN t : \A i \in DOMAIN t[k].refs : <<k, i>> \in Slots(t)
BY DEF Slots

(* A slot of the table is a reference of one of the symbols in it. *)
LEMMA SlotSource ==
    ASSUME NEW fs, NEW M, NEW t, TableOf(fs, M, t), NEW p \in Slots(t)
    PROVE  \E u \in M : \E r \in DOMAIN Sym(fs, u).refs : t[p[1]].refs[p[2]] = RefOf(fs, u, r)
<1>1. p[1] \in DOMAIN t /\ p[2] \in DOMAIN t[p[1]].refs
  BY SlotFacts
<1>2. FromSymbols(fs, M, t, p[1])
  BY <1>1 DEF TableOf
<1>. QED
  BY <1>1, <1>2, Zenon DEF FromSymbols

(* The sections with the entry section first, before any reference is *)
(* written *)
LEMMA StartMemory ==
    ASSUME NEW fs, NEW n, Parsing(fs, n), \A k \in 1..n : InOrder(fs[k]), Apart(fs),
           NEW ss, Layout(ss), SectionsOf(fs, n, ss), NEW entry \in DOMAIN ss,
           NEW t, TableOf(fs, SymbolIds(fs), t),
           \A p \in Slots(t) : t[p[1]].refs[p[2]] \in Int /\ Inside(ss, t[p[1]].refs[p[2]])
    PROVE  LET all == Silk!MoveToStart(ss, entry)
               To(a) == Silk!Relocate(a, ss[entry].start, ss[entry].length)
               Ref(p) == t[p[1]].refs[p[2]]
           IN  /\ \A p, q \in Slots(t) : p # q => To(Ref(p)) - To(Ref(q)) \notin 0..3
               /\ \A p \in Slots(t) : \A i \in 1..4 : ByteAt(all, To(Ref(p)) + i - 1, 0)
               /\ \A x \in SectionIds(fs) : \A i \in 1..Sec(fs, x).length :
                    ByteAt(all, To(ByteOf(fs, x, i)), Sec(fs, x).data[i])
<1>. DEFINE all == Silk!MoveToStart(ss, entry)
            cutoff == ss[entry].start
            offset == ss[entry].length
            To(a) == Silk!Relocate(a, cutoff, offset)
            Ref(p) == t[p[1]].refs[p[2]]
<1>1. cutoff \in Nat /\ offset \in Nat
  BY DEF Layout
<1>2. /\ \A a \in Nat : To(a) \in Nat
      /\ \A a, b \in Nat : To(a) = To(b) => a = b
  <2>. HIDE DEF cutoff, offset
  <2>. QED
    BY <1>1, RelocateFacts
<1>3. \A p \in Slots(t) : Ref(p) \in Nat /\ \A i \in 0..3 : To(Ref(p) + i) = To(Ref(p)) + i
  BY StraightFacts
<1>4. \A a \in Int : \A b : ByteAt(ss, a, b) => ByteAt(all, To(a), b)
  <2>1. Solid(ss)
    BY SectionFacts
  <2>. QED
    BY <2>1, MoveBytes
<1>5. \A u \in SymbolIds(fs) : InOrder(fs[u[1]])
  BY IdFacts DEF Parsing
<1>. HIDE DEF all, To, cutoff, offset
<1>6. ASSUME NEW p \in Slots(t), NEW q \in Slots(t), p # q
      PROVE  To(Ref(p)) - To(Ref(q)) \notin 0..3
  <2>1a. PICK u \in SymbolIds(fs) : \E r \in DOMAIN Sym(fs, u).refs : Ref(p) = RefOf(fs, u, r)
    BY SlotSource
  <2>1. PICK r \in DOMAIN Sym(fs, u).refs : Ref(p) = RefOf(fs, u, r)
    BY <2>1a
  <2>2a. PICK v \in SymbolIds(fs) : \E s \in DOMAIN Sym(fs, v).refs : Ref(q) = RefOf(fs, v, s)
    BY SlotSource
  <2>2. PICK s \in DOMAIN Sym(fs, v).refs : Ref(q) = RefOf(fs, v, s)
    BY <2>2a
  <2>3. Ref(p) # Ref(q)
    <3>1. Once(t)
      BY DEF TableOf
    <3>2. /\ p[1] \in DOMAIN t /\ p[2] \in DOMAIN t[p[1]].refs /\ p = <<p[1], p[2]>>
          /\ q[1] \in DOMAIN t /\ q[2] \in DOMAIN t[q[1]].refs /\ q = <<q[1], q[2]>>
      BY SlotFacts
    <3>3. p[1] # q[1] \/ p[2] # q[2]
      BY <1>6, <3>2
    <3>. QED
      BY <3>1, <3>2, <3>3 DEF Once
  <2>4. u # v \/ r # s
    BY <2>1, <2>2, <2>3
  <2>5. Ref(p) - Ref(q) \notin 0..3
    <3>1. RefOf(fs, u, r) - RefOf(fs, v, s) \notin 0..3
      BY <1>5, <2>4, RefsApart
    <3>. QED
      BY <2>1, <2>2, <3>1
  <2>. DEFINE a == Ref(p)
              b == Ref(q)
  <2>6. /\ a \in Nat /\ b \in Nat /\ To(a) \in Nat /\ To(b) \in Nat
        /\ \A i \in 0..3 : To(b + i) = To(b) + i
    BY <1>2, <1>3
  <2>. HIDE DEF a, b
  <2>7. ASSUME NEW i \in 0..3, To(a) = To(b) + i PROVE FALSE
    <3>1. To(a) = To(b + i) /\ b + i \in Nat
      BY <2>6, <2>7
    <3>2. a = b + i
      BY <1>2, <2>6, <3>1
    <3>3. a - b \in 0..3
      BY <2>6, <3>2
    <3>. QED
      BY <2>5, <3>3 DEF a, b
  <2>8. To(a) - To(b) \notin 0..3
    <3>1. ASSUME To(a) - To(b) \in 0..3 PROVE FALSE
      <4>1. To(a) = To(b) + (To(a) - To(b))
        BY <2>6
      <4>. QED
        BY <2>7, <3>1, <4>1
    <3>. QED
      BY <3>1
  <2>. QED
    BY <2>8 DEF a, b
<1>7. ASSUME NEW p \in Slots(t), NEW i \in 1..4 PROVE ByteAt(all, To(Ref(p)) + i - 1, 0)
  <2>1a. PICK u \in SymbolIds(fs) : \E r \in DOMAIN Sym(fs, u).refs : Ref(p) = RefOf(fs, u, r)
    BY SlotSource
  <2>1. PICK r \in DOMAIN Sym(fs, u).refs : Ref(p) = RefOf(fs, u, r)
    BY <2>1a
  <2>2. i - 1 \in 0..3
    OBVIOUS
  <2>3. ByteAt(ss, RefOf(fs, u, r) + (i - 1), 0)
    BY <1>5, <2>2, SectionBytes
  <2>. DEFINE a == Ref(p)
  <2>4. a \in Nat /\ To(a + (i - 1)) = To(a) + (i - 1) /\ To(a) \in Nat
    BY <1>2, <1>3, <2>2
  <2>5. ByteAt(ss, a + (i - 1), 0)
    BY <2>1, <2>3
  <2>. HIDE DEF a
  <2>6. ByteAt(all, To(a + (i - 1)), 0)
    BY <1>4, <2>2, <2>4, <2>5
  <2>7. To(a + (i - 1)) = To(a) + i - 1
    BY <2>4
  <2>8. ByteAt(all, To(a) + i - 1, 0)
    BY <2>6, <2>7
  <2>. QED
    BY <2>8 DEF a
<1>8. ASSUME NEW x \in SectionIds(fs), NEW i \in 1..Sec(fs, x).length
      PROVE  ByteAt(all, To(ByteOf(fs, x, i)), Sec(fs, x).data[i])
  BY <1>4, SectionBytes
<1>. QED
  BY <1>6, <1>7, <1>8 DEF all, To, cutoff, offset

(* The entry section moves to the start, or the flags are not accepted. *)
LEMMA StartImageImage ==
    ASSUME LinkInv, ImageInv, StartImage
    PROVE  ImageInv'
<1>. DEFINE n == Len(order)
            entry == CHOOSE k \in Silk!EntryPoints(sections) : TRUE
<1>1. /\ UNCHANGED <<project, todo, order, table>> /\ pc = "combine" /\ DOMAIN pending = {}
      /\ todo = <<>> /\ result.outcome = "none"
      /\ IF Silk!FlagsAccepted(sections, project.target = "ROM")
           THEN /\ move'.cutoff = sections[entry].start /\ move'.offset = sections[entry].length
                /\ sections' = Silk!MoveToStart(sections, entry)
                /\ pending' = table /\ pc' = "resolve" /\ UNCHANGED result
           ELSE Stop("error") /\ UNCHANGED <<move, sections, pending>>
  BY DEF StartImage, ImageInv
<1>2. PICK fs : fs = Parsed
  OBVIOUS
<1>3. /\ order \in Seq(Linkable) /\ Reading(fs) /\ Layout(sections)
      /\ \A j \in 1..Read : "ok" \in Silk!ParseOutcomes(order[j].file, fs[j])
  BY <1>1, <1>2 DEF ImageInv, LinkInv
<1>4. /\ n \in Nat /\ Parsing(fs, n) /\ Len(fs) = n /\ DOMAIN fs = 1..n
      /\ \A j \in 1..n : "ok" \in Silk!ParseOutcomes(order[j].file, fs[j]) => InOrder(fs[j])
  <2>1. fs = [j \in DOMAIN order |-> Silk!ParseFile(order[j].file)]
    BY <1>2 DEF Parsed
  <2>. QED
    BY <1>3, <2>1, ParsedFacts DEF Parsing
<1>. HIDE DEF n, entry
<1>5. Read = n
  <2>1. Read \in 0..n /\ todo = SubSeq(order, Read + 1, n)
    BY <1>3 DEF Reading, n
  <2>2. Len(todo) = n - Read
    BY <1>3, <2>1, TodoFacts DEF n
  <2>3. Len(todo) = 0
    BY <1>1
  <2>. QED
    BY <1>4, <2>1, <2>2, <2>3
<1>6. \A j \in 1..n : InOrder(fs[j])
  BY <1>3, <1>4, <1>5
<1>7. Merged(fs) = SymbolIds(fs)
  <2>1. \A u \in SymbolIds(fs) : u[1] <= n
    BY <1>4, IdFacts
  <2>. QED
    BY <1>1, <1>5, <2>1 DEF Merged
<1>8. TableOf(fs, SymbolIds(fs), table) /\ SectionsOf(fs, n, sections)
  BY <1>3, <1>5, <1>7 DEF Reading
<1>9. /\ Silk!FlagsAccepted(sections, project.target = "ROM") <=> FlagsOf(fs)
      /\ FlagsOf(fs) => /\ entry \in DOMAIN sections
                        /\ \A x \in SectionIds(fs) : IsEntry(fs, x) => Index(fs, x) = entry
  BY <1>3, <1>4, <1>8, FlagFacts DEF entry
<1>10. CASE ~FlagsOf(fs)
  <2>1. pc' = "done" /\ result' = [outcome |-> "error", image |-> <<>>] /\ UNCHANGED move
    BY <1>1, <1>9, <1>10 DEF Stop
  <2>2. ~CanBeLinked(Parsed)
    BY <1>2, <1>10 DEF CanBeLinked
  <2>. QED
    BY <1>1, <2>1, <2>2, StopKeeps
<1>11. CASE FlagsOf(fs)
  <2>1. /\ move'.cutoff = sections[entry].start /\ move'.offset = sections[entry].length
        /\ sections' = Silk!MoveToStart(sections, entry)
        /\ pending' = table /\ pc' = "resolve" /\ UNCHANGED result
    BY <1>1, <1>9, <1>11
  <2>2. entry \in DOMAIN sections
    BY <1>9, <1>11
  <2>. DEFINE To(a) == Silk!Relocate(a, sections[entry].start, sections[entry].length)
              Ref(p) == table[p[1]].refs[p[2]]
  <2>3. \A a : Final(a)' = To(a)
    BY <2>1 DEF Final
  <2>4. /\ sections[entry].start \in Nat /\ sections[entry].length \in Nat
    BY <1>3, <2>2 DEF Layout
  <2>5. \A p \in Slots(table) : Ref(p) \in Int /\ Inside(sections, Ref(p))
    <3>. SUFFICES ASSUME NEW p \in Slots(table) PROVE Ref(p) \in Int /\ Inside(sections, Ref(p))
      OBVIOUS
    <3>1. p[1] \in DOMAIN table /\ p[2] \in DOMAIN table[p[1]].refs
      BY SlotFacts
    <3>. DEFINE e == table[p[1]]
    <3>2. e \in Range(table) \cup Range(pending)
      BY <3>1 DEF Range
    <3>3. Placed(e)
      BY <1>1, <3>2 DEF LinkInv
    <3>4. e \in Symbol /\ Inside(sections, Now(e.refs[p[2]]))
      BY <3>1, <3>3 DEF Placed
    <3>5. Now(e.refs[p[2]]) = e.refs[p[2]]
      BY <1>1 DEF Now
    <3>6. e.refs \in Seq(Int)
      BY <3>4 DEF Symbol
    <3>7. e.refs[p[2]] \in Int
      BY <3>1, <3>6
    <3>. QED
      BY <3>4, <3>5, <3>7
  <2>6. Solid(sections) /\ Solid(sections')
    <3>1. Solid(sections)
      BY <1>3, <1>4, <1>8, SectionFacts
    <3>. QED
      BY <1>3, <2>1, <2>2, <3>1, MoveBytes
  <2>7. Silk!SectionsEnd(sections') = FileEnds(fs)[Len(fs)]
    BY <1>3, <1>4, <1>8, <2>1, <2>2, MoveFacts DEF SectionsOf
  <2>8. \A p \in Slots(table) : \A i \in 0..3 : To(Ref(p) + i) = To(Ref(p)) + i
    BY <1>3, <2>2, <2>5, StraightFacts
  <2>9. Apart(fs) => Memory(fs)'
    <3>. SUFFICES ASSUME Apart(fs) PROVE Memory(fs)'
      OBVIOUS
    <3>1. /\ \A p, q \in Slots(table) : p # q => To(Ref(p)) - To(Ref(q)) \notin 0..3
          /\ \A p \in Slots(table) : \A i \in 1..4 : ByteAt(sections', To(Ref(p)) + i - 1, 0)
          /\ \A x \in SectionIds(fs) : \A i \in 1..Sec(fs, x).length :
               ByteAt(sections', To(ByteOf(fs, x, i)), Sec(fs, x).data[i])
      BY <1>3, <1>4, <1>6, <1>8, <2>1, <2>2, <2>5, StartMemory
    <3>. HIDE DEF To
    <3>2. \A p \in Slots(table) : Slot(table, p)' = To(Ref(p))
      BY <1>1, <2>3 DEF Slot
    <3>3. \A p \in Slots(table) : p[1] \in DOMAIN pending'
      BY <2>1, SlotFacts
    <3>4. Slots(table)' = Slots(table)
      BY <1>1
    <3>5. \A p, q \in Slots(table) : p # q => Slot(table, p)' - Slot(table, q)' \notin 0..3
      BY <3>1, <3>2
    <3>6. \A p \in Slots(table) : \A i \in 1..4 :
            ByteAt(sections', Slot(table, p)' + i - 1,
                   IF p[1] \in DOMAIN pending' THEN 0
                     ELSE Silk!Address(move'.base + (Final(table[p[1]].value))')[i])
      BY <3>1, <3>2, <3>3
    <3>7. \A x \in SectionIds(fs) : \A i \in 1..Sec(fs, x).length :
            ByteAt(sections', Final(ByteOf(fs, x, i))', Sec(fs, x).data[i])
      BY <2>3, <3>1
    <3>. QED
      BY <1>1, <3>4, <3>5, <3>6, <3>7 DEF Memory
  <2>10. \A p \in Slots(table) : \A i \in 0..3 :
           Final(table[p[1]].refs[p[2]] + i)' = Slot(table, p)' + i
    <3>. HIDE DEF To
    <3>. QED
      BY <1>1, <2>3, <2>8 DEF Slot
  <2>11. Resolving(fs)'
    BY <1>1, <1>8, <2>1, <2>6, <2>7, <2>9, <2>10 DEF Resolving
  <2>12. EntryFirst(fs)'
    <3>. SUFFICES ASSUME NEW x \in SectionIds(fs), IsEntry(fs, x), Sec(fs, x).length > 0
                  PROVE  To(ByteOf(fs, x, 1)) = 0
      BY <2>3 DEF EntryFirst
    <3>1. Index(fs, x) = entry
      BY <1>9, <1>11
    <3>2. sections[Index(fs, x)].length = Sec(fs, x).length
      BY <1>3, <1>4, <1>8, SectionFacts
    <3>3. ByteOf(fs, x, 1) = sections[Index(fs, x)].start
      BY <1>3, <1>4, <1>8, SectionBytes
    <3>4. sections[entry].length > 0 /\ ByteOf(fs, x, 1) = sections[entry].start
      BY <3>1, <3>2, <3>3
    <3>. QED
      BY <2>4, <3>4, RelocateFacts
  <2>13. FlagsOf(fs)'
    BY <1>1, <1>11 DEF FlagsOf
  <2>14. Parsed' = fs
    BY <1>1, <1>2, SameFiles
  <2>15. Read' = Read
    BY <1>1 DEF Read
  <2>. QED
    BY <1>1, <1>3, <2>1, <2>11, <2>12, <2>13, <2>14, <2>15 DEF ImageInv
<1>. QED
  BY <1>10, <1>11

(* What is known of the symbol that is next to be written *)
Current(fs, name, e) ==
    /\ Apart(fs) => Memory(fs)
    /\ name \in DOMAIN pending /\ name \in DOMAIN table /\ e = table[name]
    /\ e \in Symbol /\ e.value # Silk!None
    /\ \A i \in DOMAIN e.refs : Inside(sections, Final(e.refs[i]))
    /\ \A p \in Slots(table) : table[p[1]].refs[p[2]] \in Int

(* The references of one symbol are written: its slots hold its address, *)
(* the other bytes stay. *)
LEMMA WriteMemory ==
    ASSUME NEW fs, NEW n, Parsing(fs, n), LinkInv, pc = "resolve", Solid(sections), Apart(fs),
           NEW name, NEW e, Current(fs, name, e),
           NEW r, r = Silk!ResolveReferences(sections, e, move)
    PROVE  /\ r.outcome = "ok"
           /\ \A p \in Slots(table) : \A i \in 1..4 :
                ByteAt(r.sections, Slot(table, p) + i - 1,
                       IF p[1] \in DOMAIN pending \ {name} THEN 0
                         ELSE Silk!Address(move.base + Final(table[p[1]].value))[i])
           /\ \A x \in SectionIds(fs) : \A i \in 1..Sec(fs, x).length :
                \/ \E p \in Slots(table) : Final(ByteOf(fs, x, i)) - Slot(table, p) \in 0..3
                \/ ByteAt(r.sections, Final(ByteOf(fs, x, i)), Sec(fs, x).data[i])
<1>. DEFINE To(a) == Silk!Relocate(a, move.cutoff, move.offset)
            bytes == Silk!Address(move.base + To(e.value))
<1>1. /\ Layout(sections) /\ move.cutoff \in Nat /\ move.offset \in Nat /\ move.base \in Int
  BY DEF LinkInv
<1>2. /\ Memory(fs) /\ name \in DOMAIN pending /\ name \in DOMAIN table /\ e = table[name]
      /\ e \in Symbol /\ \A i \in DOMAIN e.refs : Inside(sections, Final(e.refs[i]))
      /\ \A p \in Slots(table) : table[p[1]].refs[p[2]] \in Int
  BY DEF Current
<1>3. /\ \A p, q \in Slots(table) : p # q => Slot(table, p) - Slot(table, q) \notin 0..3
      /\ \A p \in Slots(table) : \A i \in 1..4 :
           ByteAt(sections, Slot(table, p) + i - 1,
                  IF p[1] \in DOMAIN pending THEN 0
                    ELSE Silk!Address(move.base + Final(table[p[1]].value))[i])
      /\ \A x \in SectionIds(fs) : \A i \in 1..Sec(fs, x).length :
           \/ \E p \in Slots(table) : Final(ByteOf(fs, x, i)) - Slot(table, p) \in 0..3
           \/ ByteAt(sections, Final(ByteOf(fs, x, i)), Sec(fs, x).data[i])
  BY <1>2 DEF Memory
<1>4. \A a : Final(a) = To(a)
  BY DEF Final
<1>5. \A p \in Slots(table) : Slot(table, p) \in Int
  BY <1>1, <1>2, RelocateFacts DEF Slot, Final
<1>. HIDE DEF To
<1>6. \A i \in DOMAIN e.refs : /\ <<name, i>> \in Slots(table)
                               /\ Slot(table, <<name, i>>) = To(e.refs[i])
  BY <1>2, <1>4, SlotFacts DEF Slot
<1>7. \A i \in DOMAIN e.refs : Inside(sections, To(e.refs[i]))
  BY <1>2, <1>4
<1>8. \A i \in DOMAIN e.refs : \A j \in 1..4 : ByteAt(sections, To(e.refs[i]) + j - 1, 0)
  <2>. SUFFICES ASSUME NEW i \in DOMAIN e.refs, NEW j \in 1..4
                PROVE  ByteAt(sections, To(e.refs[i]) + j - 1, 0)
    OBVIOUS
  <2>. DEFINE p == <<name, i>>
  <2>1. p \in Slots(table) /\ p[1] \in DOMAIN pending /\ Slot(table, p) = To(e.refs[i])
    BY <1>2, <1>6
  <2>. HIDE DEF p
  <2>. QED
    BY <1>3, <2>1
<1>9. \A i, j \in DOMAIN e.refs : i # j => To(e.refs[i]) - To(e.refs[j]) \notin 0..3
  <2>. SUFFICES ASSUME NEW i \in DOMAIN e.refs, NEW j \in DOMAIN e.refs, i # j
                PROVE  To(e.refs[i]) - To(e.refs[j]) \notin 0..3
    OBVIOUS
  <2>1. <<name, i>> # <<name, j>>
    OBVIOUS
  <2>2. Slot(table, <<name, i>>) - Slot(table, <<name, j>>) \notin 0..3
    BY <1>3, <1>6, <2>1
  <2>. QED
    BY <1>6, <2>2
<1>10. /\ r.outcome = "ok"
       /\ \A i \in DOMAIN e.refs : \A j \in 1..4 : ByteAt(r.sections, To(e.refs[i]) + j - 1, bytes[j])
       /\ \A c \in Int : \A b : ByteAt(sections, c, b) /\ Clear(e, move, c) => ByteAt(r.sections, c, b)
  BY <1>1, <1>2, <1>7, <1>8, <1>9, ResolveFacts DEF To
<1>11. ASSUME NEW p \in Slots(table), NEW i \in 1..4
      PROVE  ByteAt(r.sections, Slot(table, p) + i - 1,
                    IF p[1] \in DOMAIN pending \ {name} THEN 0
                      ELSE Silk!Address(move.base + Final(table[p[1]].value))[i])
  <2>1. p[1] \in DOMAIN table /\ p[2] \in DOMAIN table[p[1]].refs /\ p = <<p[1], p[2]>>
    BY SlotFacts
  <2>2. CASE p[1] = name
    <3>1. p[2] \in DOMAIN e.refs /\ Slot(table, p) = To(e.refs[p[2]])
      BY <1>2, <1>6, <2>1, <2>2
    <3>2. ByteAt(r.sections, Slot(table, p) + i - 1, bytes[i])
      BY <1>10, <3>1
    <3>3. bytes = Silk!Address(move.base + Final(table[p[1]].value))
      BY <1>2, <1>4, <2>2
    <3>4. p[1] \notin DOMAIN pending \ {name}
      BY <2>2
    <3>. HIDE DEF bytes
    <3>. QED
      BY <3>2, <3>3, <3>4
  <2>3. CASE p[1] # name
    <3>. DEFINE c == Slot(table, p) + i - 1
                b == IF p[1] \in DOMAIN pending THEN 0
                     ELSE Silk!Address(move.base + Final(table[p[1]].value))[i]
    <3>1. ByteAt(sections, c, b)
      BY <1>3
    <3>2. ASSUME NEW j \in DOMAIN e.refs PROVE c - To(e.refs[j]) \notin 0..3
      <4>. DEFINE q == <<name, j>>
                  y == Slot(table, p)
                  z == Slot(table, q)
      <4>1. q \in Slots(table) /\ z = To(e.refs[j])
        BY <1>6
      <4>2. p # q
        BY <2>1, <2>3
      <4>3. y - z \notin 0..3 /\ z - y \notin 0..3
        <5>. HIDE DEF q
        <5>. QED
          BY <1>3, <4>1, <4>2
      <4>4. y \in Int /\ z \in Int
        <5>. HIDE DEF q
        <5>. QED
          BY <1>5, <4>1
      <4>. HIDE DEF y, z, q
      <4>5. y + i - 1 - z \notin 0..3
        BY <4>3, <4>4
      <4>6. c = y + i - 1
        BY DEF y
      <4>. HIDE DEF c
      <4>. QED
        BY <4>1, <4>4, <4>5, <4>6
    <3>3. c \in Int
      BY <1>5
    <3>7. Clear(e, move, c)
      BY <3>2 DEF Clear, To
    <3>4. ByteAt(r.sections, c, b)
      <4>. HIDE DEF c, b
      <4>. QED
        BY <1>10, <3>1, <3>3, <3>7
    <3>5. p[1] \in DOMAIN pending \ {name} <=> p[1] \in DOMAIN pending
      BY <2>3
    <3>6. b = IF p[1] \in DOMAIN pending \ {name} THEN 0
              ELSE Silk!Address(move.base + Final(table[p[1]].value))[i]
      BY <3>5
    <3>. HIDE DEF b
    <3>. QED
      BY <3>4, <3>6
  <2>. QED
    BY <2>2, <2>3
<1>12. ASSUME NEW x \in SectionIds(fs), NEW i \in 1..Sec(fs, x).length,
             ~ \E p \in Slots(table) : Final(ByteOf(fs, x, i)) - Slot(table, p) \in 0..3
      PROVE  ByteAt(r.sections, Final(ByteOf(fs, x, i)), Sec(fs, x).data[i])
  <2>. DEFINE c == Final(ByteOf(fs, x, i))
  <2>1. ByteAt(sections, c, Sec(fs, x).data[i])
    BY <1>3, <1>12
  <2>2. Clear(e, move, c)
    BY <1>6, <1>12 DEF Clear, To
  <2>3. c \in Int
    <3>1. ByteOf(fs, x, i) \in Int
      BY ByteNumber
    <3>. QED
      BY <1>1, <3>1, RelocateFacts DEF Final
  <2>. HIDE DEF c
  <2>4. ByteAt(r.sections, c, Sec(fs, x).data[i])
    BY <1>10, <2>1, <2>2, <2>3
  <2>. QED
    BY <2>4 DEF c
<1>. QED
  BY <1>10, <1>11, <1>12

(* One symbol is written to its references, or it has no definition, or a *)
(* reference does not hold zeros. *)
LEMMA ResolveSymbolImage ==
    ASSUME LinkInv, ImageInv, ResolveSymbol
    PROVE  ImageInv'
<1>. DEFINE n == Len(order)
<1>1. UNCHANGED <<project, todo, order, table, move>> /\ pc = "resolve" /\ result.outcome = "none"
  BY DEF ResolveSymbol, ImageInv
<1>2. PICK fs : fs = Parsed
  OBVIOUS
<1>3. /\ order \in Seq(Linkable) /\ Resolving(fs) /\ FlagsOf(fs) /\ EntryFirst(fs)
      /\ \A j \in 1..Read : "ok" \in Silk!ParseOutcomes(order[j].file, fs[j])
  BY <1>1, <1>2 DEF ImageInv
<1>4. /\ n \in Nat /\ Parsing(fs, n) /\ DOMAIN order = 1..n
      /\ \A j \in 1..n : fs[j] = Silk!ParseFile(order[j].file)
  <2>1. fs = [j \in DOMAIN order |-> Silk!ParseFile(order[j].file)]
    BY <1>2 DEF Parsed
  <2>. QED
    BY <1>3, <2>1, ParsedFacts
<1>. HIDE DEF n
<1>5. PICK name \in DOMAIN pending :
        LET r == Silk!ResolveReferences(sections, pending[name], move)
        IN  IF pending[name].value = Silk!None
              THEN Stop("error") /\ UNCHANGED <<sections, pending>>
              ELSE /\ sections' = r.sections
                   /\ pending' = [k \in DOMAIN pending \ {name} |-> pending[k]]
                   /\ IF r.outcome = "ok" THEN UNCHANGED <<pc, result>> ELSE Stop(r.outcome)
  BY Zenon DEF ResolveSymbol
<1>. DEFINE e == pending[name]
            r == Silk!ResolveReferences(sections, e, move)
<1>6. /\ name \in DOMAIN table /\ e = table[name] /\ TableOf(fs, SymbolIds(fs), table)
      /\ Solid(sections)
  BY <1>3 DEF Resolving
<1>7. /\ Layout(sections) /\ move.cutoff \in Nat /\ move.offset \in Nat /\ move.base \in Int
      /\ \A x \in Range(table) \cup Range(pending) : Placed(x)
  BY <1>1 DEF LinkInv
<1>8. \A k \in DOMAIN table : /\ table[k] \in Symbol
                              /\ \A i \in DOMAIN table[k].refs : Inside(sections, Final(table[k].refs[i]))
  <2>. SUFFICES ASSUME NEW k \in DOMAIN table
                PROVE  /\ table[k] \in Symbol
                       /\ \A i \in DOMAIN table[k].refs : Inside(sections, Final(table[k].refs[i]))
    OBVIOUS
  <2>. DEFINE x == table[k]
  <2>1. x \in Range(table) \cup Range(pending)
    BY DEF Range
  <2>2. Placed(x)
    BY <1>7, <2>1
  <2>. HIDE DEF x
  <2>3. x \in Symbol /\ \A i \in DOMAIN x.refs : Inside(sections, Final(x.refs[i]))
    BY <1>1, <2>2 DEF Placed, Now, Final
  <2>. QED
    BY <2>3 DEF x
<1>9. CASE e.value = Silk!None
  <2>1. pc' = "done" /\ result' = [outcome |-> "error", image |-> <<>>]
    BY <1>5, <1>9 DEF Stop
  <2>2. FromSymbols(fs, SymbolIds(fs), table, name)
    BY <1>6 DEF TableOf
  <2>3. table[name].type = TYPE.E
    BY <1>6, <1>9, <2>2 DEF FromSymbols
  <2>4. TYPE.E # TYPE.I /\ TYPE.E # TYPE.P /\ TYPE.P # TYPE.I
    BY DEF TYPE, Silk!SYMBOL_TYPE
  <2>5. PICK u \in SymbolIds(fs) : Sym(fs, u).type = TYPE.E /\ Sym(fs, u).name = name
    BY <2>2, <2>3, <2>4 DEF FromSymbols
  <2>6. ASSUME NEW v \in SymbolIds(fs), Sym(fs, v).type = TYPE.P, Sym(fs, v).name = name PROVE FALSE
    <3>1. Entered(fs, v, table)
      BY <1>6 DEF TableOf
    <3>2. table[name].type = TYPE.P
      BY <2>4, <2>6, <3>1 DEF Entered
    <3>. QED
      BY <2>3, <2>4, <3>2
  <2>7. Meanings(fs, u) = {}
    BY <2>5, <2>6 DEF Meanings
  <2>8. ~CanBeLinked(fs)
    BY <2>7 DEF CanBeLinked
  <2>. QED
    BY <1>1, <1>2, <2>1, <2>8, StopKeeps
<1>10. CASE e.value # Silk!None
  <2>1. /\ sections' = r.sections
        /\ pending' = [k \in DOMAIN pending \ {name} |-> pending[k]]
        /\ IF r.outcome = "ok" THEN UNCHANGED <<pc, result>> ELSE Stop(r.outcome)
    BY <1>5, <1>10
  <2>2. e \in Symbol /\ \A i \in DOMAIN e.refs : Inside(sections, Final(e.refs[i]))
    BY <1>6, <1>8
  <2>3. \A p \in Slots(table) : table[p[1]].refs[p[2]] \in Int
    <3>. SUFFICES ASSUME NEW p \in Slots(table) PROVE table[p[1]].refs[p[2]] \in Int
      OBVIOUS
    <3>1. p[1] \in DOMAIN table /\ p[2] \in DOMAIN table[p[1]].refs
      BY SlotFacts
    <3>2. table[p[1]].refs \in Seq(Int)
      BY <1>8, <3>1 DEF Symbol
    <3>. QED
      BY <3>1, <3>2
  <2>. HIDE DEF e, r
  <2>4. Current(fs, name, e)
    BY <1>3, <1>6, <1>10, <2>2, <2>3 DEF Current, Resolving
  <2>5. /\ Apart(fs) => r.outcome = "ok"
        /\ Apart(fs) =>
             /\ \A p \in Slots(table) : \A i \in 1..4 :
                  ByteAt(r.sections, Slot(table, p) + i - 1,
                         IF p[1] \in DOMAIN pending \ {name} THEN 0
                           ELSE Silk!Address(move.base + Final(table[p[1]].value))[i])
             /\ \A x \in SectionIds(fs) : \A i \in 1..Sec(fs, x).length :
                  \/ \E p \in Slots(table) : Final(ByteOf(fs, x, i)) - Slot(table, p) \in 0..3
                  \/ ByteAt(r.sections, Final(ByteOf(fs, x, i)), Sec(fs, x).data[i])
    BY <1>1, <1>4, <1>6, <2>4, WriteMemory DEF r
  <2>6. r.outcome \in {"ok", "panic"} /\ Solid(r.sections)
    BY <1>6, <1>7, <2>2, ResolveFacts DEF r
  <2>7. Silk!SectionsEnd(r.sections) = Silk!SectionsEnd(sections)
    <3>. DEFINE last == Steps(sections, e, move)[Len(e.refs)]
    <3>1. r = [outcome |-> last.outcome, sections |-> With(sections, last.data)]
      BY ResolvedFacts DEF r
    <3>. HIDE DEF last
    <3>2. r.sections = With(sections, last.data)
      BY <3>1
    <3>. QED
      BY <1>7, <3>2, DataFacts
  <2>8. CASE r.outcome = "ok"
    <3>1. UNCHANGED <<pc, result>> /\ sections' = r.sections
      BY <2>1, <2>8
    <3>2. DOMAIN pending' = DOMAIN pending \ {name} /\ \A k \in DOMAIN pending' : pending'[k] = pending[k]
      BY <2>1
    <3>3. \A k \in DOMAIN pending' : k \in DOMAIN table /\ pending'[k] = table[k]
      BY <1>3, <3>2 DEF Resolving
    <3>4. \A k \in DOMAIN table \ DOMAIN pending' : table[k].value # Silk!None
      BY <1>3, <1>6, <1>10, <3>2 DEF Resolving, e
    <3>5. Apart(fs) => Memory(fs)'
      <4>. SUFFICES ASSUME Apart(fs) PROVE Memory(fs)'
        OBVIOUS
      <4>1. \A a : Final(a)' = Final(a)
        BY <1>1 DEF Final
      <4>2. Slots(table)' = Slots(table) /\ \A p : Slot(table, p)' = Slot(table, p)
        BY <1>1, <4>1 DEF Slot
      <4>3. \A p, q \in Slots(table) : p # q => Slot(table, p) - Slot(table, q) \notin 0..3
        BY <1>3 DEF Resolving, Memory
      <4>4. \A p \in Slots(table) : \A i \in 1..4 :
              ByteAt(sections', Slot(table, p) + i - 1,
                     IF p[1] \in DOMAIN pending' THEN 0
                       ELSE Silk!Address(move.base + Final(table[p[1]].value))[i])
        BY <2>5, <3>1, <3>2
      <4>5. \A x \in SectionIds(fs) : \A i \in 1..Sec(fs, x).length :
              \/ \E p \in Slots(table) : Final(ByteOf(fs, x, i)) - Slot(table, p) \in 0..3
              \/ ByteAt(sections', Final(ByteOf(fs, x, i)), Sec(fs, x).data[i])
        BY <2>5, <3>1
      <4>. QED
        BY <1>1, <4>1, <4>2, <4>3, <4>4, <4>5 DEF Memory
    <3>6. \A p \in Slots(table) : \A i \in 0..3 :
            Final(table[p[1]].refs[p[2]] + i)' = Slot(table, p)' + i
      BY <1>1, <1>3 DEF Resolving, Slot, Final
    <3>7. Resolving(fs)'
      BY <1>1, <1>3, <2>6, <2>7, <3>1, <3>3, <3>4, <3>5, <3>6 DEF Resolving
    <3>8. FlagsOf(fs)' /\ EntryFirst(fs)'
      BY <1>1, <1>3 DEF FlagsOf, EntryFirst, Final
    <3>9. Parsed' = fs /\ Read' = Read
      BY <1>1, <1>2, SameFiles DEF Read
    <3>. QED
      BY <1>1, <1>3, <3>1, <3>7, <3>8, <3>9 DEF ImageInv
  <2>9. CASE r.outcome = "panic"
    <3>1. pc' = "done" /\ result' = [outcome |-> "panic", image |-> <<>>]
      BY <2>1, <2>9 DEF Stop
    <3>2. PICK k \in DOMAIN fs : Overlaps(fs[k])
      BY <2>5, <2>9 DEF Apart
    <3>3. k \in DOMAIN order /\ fs[k] = Silk!ParseFile(order[k].file)
      BY <1>4 DEF Parsing
    <3>4. BadReference(order[k].file)
      BY <3>2, <3>3 DEF BadReference
    <3>. QED
      BY <1>1, <3>1, <3>3, <3>4, StopKeeps
  <2>. QED
    BY <2>6, <2>8, <2>9
<1>. QED
  BY <1>9, <1>10

(* Padding leaves the bytes of the sections where they are. *)
LEMMA PadFacts ==
    ASSUME NEW image \in Seq(Int), NEW m \in Int
    PROVE  \A i \in 1..Len(image) : Silk!Pad(image, m)[i] = image[i]
<1>. DEFINE zeros == [k \in 1..(m - Len(image)) |-> 0]
            size == IF m - Len(image) > 0 THEN m - Len(image) ELSE 0
<1>1. Len(image) \in Nat
  OBVIOUS
<1>2. size \in Nat /\ 1..(m - Len(image)) = 1..size
  BY <1>1
<1>. HIDE DEF size
<1>3. zeros \in Seq(Int)
  <2>1. zeros = [k \in 1..size |-> 0]
    BY <1>2
  <2>. HIDE DEF zeros
  <2>. QED
    BY <1>2, <2>1
<1>4. Silk!Pad(image, m) = image \o zeros
  BY DEF Silk!Pad
<1>. HIDE DEF zeros
<1>. QED
  BY <1>1, <1>3, <1>4

(* The image holds the bytes of the sections, unless they are none or too *)
(* many. *)
LEMMA TargetFacts ==
    ASSUME NEW rom \in BOOLEAN, NEW image \in Seq(Int)
    PROVE  LET r == IF rom THEN Silk!link_as_rom(image) ELSE Silk!link_as_disk(image)
           IN  /\ r.outcome \in {"image", "error"}
               /\ r.outcome = "image" <=> Len(image) > 0 /\ (rom => Len(image) <= ROM_SIZE)
               /\ r.outcome = "image" => \A i \in 1..Len(image) : r.image[i] = image[i]
<1>. DEFINE size == DISK_ALIGN * ((Len(image) + DISK_ALIGN - 1) \div DISK_ALIGN)
            Error == [outcome |-> "error", image |-> <<>>]
            Image(m) == [outcome |-> "image", image |-> Silk!Pad(image, m)]
            r == IF rom THEN Silk!link_as_rom(image) ELSE Silk!link_as_disk(image)
<1>1. Len(image) \in Nat /\ (image = <<>> <=> Len(image) = 0)
  OBVIOUS
<1>2. size \in Int /\ ROM_SIZE \in Int
  <2>1. DISK_ALIGN \in Int /\ DISK_ALIGN > 0 /\ ROM_SIZE \in Int
    BY SizesAssumption
  <2>2. (Len(image) + DISK_ALIGN - 1) \div DISK_ALIGN \in Int
    BY <1>1, <2>1
  <2>. QED
    BY <2>1, <2>2
<1>3. r = IF rom THEN IF image = <<>> \/ Len(image) > ROM_SIZE THEN Error ELSE Image(ROM_SIZE)
          ELSE IF image = <<>> THEN Error ELSE Image(size)
  BY DEF Silk!link_as_rom, Silk!link_as_disk
<1>4. \A m \in Int : Image(m).outcome = "image" /\ \A i \in 1..Len(image) : Image(m).image[i] = image[i]
  BY PadFacts
<1>5. Error.outcome = "error"
  OBVIOUS
<1>. HIDE DEF Error, Image, size, r
<1>6. CASE rom
  <2>1. r = IF Len(image) = 0 \/ Len(image) > ROM_SIZE THEN Error ELSE Image(ROM_SIZE)
    BY <1>1, <1>3, <1>6
  <2>2. (Len(image) > 0 /\ Len(image) <= ROM_SIZE) <=> ~(Len(image) = 0 \/ Len(image) > ROM_SIZE)
    BY <1>1, <1>2
  <2>. QED
    BY <1>2, <1>4, <1>5, <1>6, <2>1, <2>2 DEF r
<1>7. CASE ~rom
  <2>1. r = IF Len(image) = 0 THEN Error ELSE Image(size)
    BY <1>1, <1>3, <1>7
  <2>2. Len(image) > 0 <=> ~(Len(image) = 0)
    BY <1>1
  <2>. QED
    BY <1>2, <1>4, <1>5, <1>7, <2>1, <2>2 DEF r
<1>. QED
  BY <1>6, <1>7

(* Everything is resolved: what a symbol means is where it points. *)
LEMMA ResolvedMeanings ==
    ASSUME NEW fs, Resolving(fs), DOMAIN pending = {}, NEW u \in SymbolIds(fs)
    PROVE  /\ Meanings(fs, u) # {}
           /\ \A v \in Meanings(fs, u), r \in DOMAIN Sym(fs, u).refs :
                \E p \in Slots(table) : /\ table[p[1]].refs[p[2]] = RefOf(fs, u, r)
                                        /\ table[p[1]].value = ValueOf(fs, v)
<1>. DEFINE s == Sym(fs, u)
<1>1. TYPE.E # TYPE.I /\ TYPE.E # TYPE.P /\ TYPE.P # TYPE.I
  BY DEF TYPE, Silk!SYMBOL_TYPE
<1>2. /\ \A w \in SymbolIds(fs) : Entered(fs, w, table)
      /\ \A k \in DOMAIN table : FromSymbols(fs, SymbolIds(fs), table, k) /\ table[k].value # Silk!None
  BY DEF Resolving, TableOf
<1>3. PICK n \in DOMAIN table :
        /\ \A r \in DOMAIN s.refs : \E i \in DOMAIN table[n].refs : table[n].refs[i] = RefOf(fs, u, r)
        /\ IF s.type = TYPE.I THEN table[n].type = TYPE.I
           ELSE n = s.name /\ table[n].type \in {s.type, TYPE.P}
        /\ s.type # TYPE.E => table[n].value = ValueOf(fs, u)
  BY <1>2 DEF Entered
<1>4. table[n].type # TYPE.E
  BY <1>2 DEF FromSymbols
<1>5. s.type = TYPE.E => \E v \in SymbolIds(fs) : Sym(fs, v).type = TYPE.P /\ Sym(fs, v).name = s.name
  <2>. SUFFICES ASSUME s.type = TYPE.E
                PROVE  \E v \in SymbolIds(fs) : Sym(fs, v).type = TYPE.P /\ Sym(fs, v).name = s.name
    OBVIOUS
  <2>1. n = s.name /\ table[n].type = TYPE.P
    BY <1>1, <1>3, <1>4
  <2>2. FromSymbols(fs, SymbolIds(fs), table, n)
    BY <1>2
  <2>. QED
    BY <1>1, <2>1, <2>2 DEF FromSymbols
<1>6. Meanings(fs, u) # {}
  BY <1>5 DEF Meanings
<1>7. ASSUME NEW v \in Meanings(fs, u) PROVE table[n].value = ValueOf(fs, v)
  <2>1. CASE s.type # TYPE.E
    BY <1>3, <1>7, <2>1 DEF Meanings
  <2>2. CASE s.type = TYPE.E
    <3>1. v \in SymbolIds(fs) /\ Sym(fs, v).type = TYPE.P /\ Sym(fs, v).name = s.name
      BY <1>7, <2>2 DEF Meanings
    <3>2. PICK m \in DOMAIN table : m = Sym(fs, v).name /\ table[m].value = ValueOf(fs, v)
      BY <1>1, <1>2, <3>1 DEF Entered
    <3>. QED
      BY <1>1, <1>3, <2>2, <3>1, <3>2
  <2>. QED
    BY <2>1, <2>2
<1>8. ASSUME NEW r \in DOMAIN s.refs
      PROVE  \E p \in Slots(table) : table[p[1]].refs[p[2]] = RefOf(fs, u, r) /\ p[1] = n
  <2>1. PICK i \in DOMAIN table[n].refs : table[n].refs[i] = RefOf(fs, u, r)
    BY <1>3
  <2>2. <<n, i>> \in Slots(table)
    BY SlotFacts
  <2>. QED
    BY <2>1, <2>2
<1>. QED
  BY <1>6, <1>7, <1>8

(* The sections are written to the image. *)
LEMMA WriteImageImage ==
    ASSUME LinkInv, ImageInv, WriteImage
    PROVE  ImageInv'
<1>. DEFINE n == Len(order)
            bytes == Silk!Concatenate(sections)
            rom == project.target = "ROM"
            end == Silk!SectionsEnd(sections)
<1>1. /\ UNCHANGED <<project, order, sections, table, pending, move>>
      /\ pc = "resolve" /\ pc' = "done" /\ DOMAIN pending = {}
      /\ result' = IF rom THEN Silk!link_as_rom(bytes) ELSE Silk!link_as_disk(bytes)
  BY DEF WriteImage
<1>2. PICK fs : fs = Parsed
  OBVIOUS
<1>3. /\ order \in Seq(Linkable) /\ Resolving(fs) /\ FlagsOf(fs) /\ EntryFirst(fs)
      /\ \A j \in 1..Read : "ok" \in Silk!ParseOutcomes(order[j].file, fs[j])
  BY <1>1, <1>2 DEF ImageInv
<1>4. /\ n \in Nat /\ Parsing(fs, n) /\ Len(fs) = n /\ DOMAIN fs = 1..n
      /\ \A j \in 1..n : "ok" \in Silk!ParseOutcomes(order[j].file, fs[j]) => InOrder(fs[j])
  <2>1. fs = [j \in DOMAIN order |-> Silk!ParseFile(order[j].file)]
    BY <1>2 DEF Parsed
  <2>. QED
    BY <1>3, <2>1, ParsedFacts DEF Parsing
<1>5. Read = n
  <2>1. Len(todo) = 0
    BY <1>3 DEF Resolving
  <2>. QED
    BY <1>4, <2>1 DEF Read
<1>6. /\ Layout(sections) /\ Solid(sections) /\ end = FileEnds(fs)[Len(fs)]
      /\ move.cutoff \in Nat /\ move.offset \in Nat
  BY <1>1, <1>3 DEF LinkInv, Resolving
<1>. HIDE DEF n
<1>7. /\ bytes \in Seq(Int) /\ Len(bytes) = end
      /\ \A a \in Int : \A b : ByteAt(sections, a, b) => a \in 0..(end - 1) /\ bytes[a + 1] = b
  BY <1>6, ConcatenateFacts
<1>8. /\ result'.outcome \in {"image", "error"}
      /\ result'.outcome = "image" <=> end > 0 /\ (rom => end <= ROM_SIZE)
      /\ result'.outcome = "image" => \A i \in 1..end : result'.image[i] = bytes[i]
  <2>1. rom \in BOOLEAN
    OBVIOUS
  <2>. HIDE DEF rom, bytes
  <2>. QED
    BY <1>1, <1>7, <2>1, TargetFacts
<1>9. Parsed' = fs
  BY <1>1, <1>2, SameFiles
<1>10. LinkerPanicsExplained'
  BY <1>8 DEF LinkerPanicsExplained
<1>11. LinkedIffPossible'
  <2>1. /\ \A k \in DOMAIN fs : "ok" \in Silk!ParseOutcomes(order[k].file, fs[k])
        /\ \A u \in SymbolIds(fs) : Meanings(fs, u) # {}
        /\ DefinedOnce(fs, SymbolIds(fs))
    <3>1. \A u \in SymbolIds(fs) : Meanings(fs, u) # {}
      BY <1>1, <1>3, ResolvedMeanings
    <3>. QED
      BY <1>3, <1>4, <1>5, <3>1 DEF Resolving, TableOf
  <2>2. CanBeLinked(fs) <=> end > 0 /\ (rom => end <= ROM_SIZE)
    <3>. HIDE DEF end
    <3>. QED
      BY <1>3, <1>6, <2>1 DEF CanBeLinked, end
  <2>3. CanBeLinked(fs)' <=> CanBeLinked(fs)
    BY <1>1 DEF CanBeLinked, FlagsOf
  <2>. QED
    BY <1>8, <1>9, <2>2, <2>3, Zenon DEF LinkedIffPossible
<1>12. ASSUME result'.outcome = "image", NEW a \in Int, NEW b, ByteAt(sections, a, b)
       PROVE  result'.image[a + 1] = b
  <2>1. a \in 0..(end - 1) /\ bytes[a + 1] = b
    BY <1>7, <1>12
  <2>2. end \in Nat
    BY <1>6, EndFacts
  <2>. HIDE DEF end
  <2>3. a + 1 \in 1..end
    BY <2>1, <2>2
  <2>. QED
    BY <1>8, <1>12, <2>1, <2>3
<1>13. \A a \in Int : Final(a) \in Int
  BY <1>6, RelocateFacts DEF Final
<1>14. \A p \in Slots(table) : /\ \A i \in 0..3 : Final(table[p[1]].refs[p[2]] + i) = Slot(table, p) + i
                               /\ table[p[1]].refs[p[2]] \in Nat /\ Slot(table, p) \in Int
  <2>. SUFFICES ASSUME NEW p \in Slots(table)
                PROVE  table[p[1]].refs[p[2]] \in Nat /\ Slot(table, p) \in Int
    BY <1>3 DEF Resolving
  <2>1. TableOf(fs, SymbolIds(fs), table)
    BY <1>3 DEF Resolving
  <2>2. PICK u \in SymbolIds(fs) : \E r \in DOMAIN Sym(fs, u).refs : table[p[1]].refs[p[2]] = RefOf(fs, u, r)
    BY <2>1, SlotSource
  <2>3. InOrder(fs[u[1]])
    BY <1>3, <1>4, <1>5, IdFacts
  <2>4. \A r \in DOMAIN Sym(fs, u).refs : RefOf(fs, u, r) \in Nat
    BY <1>4, <2>3, PlaceFacts
  <2>. QED
    BY <1>13, <2>2, <2>4 DEF Slot
<1>15. ASSUME result'.outcome = "image", Apart(fs), NEW u \in SymbolIds(fs),
              NEW v \in Meanings(fs, u), NEW r \in DOMAIN Sym(fs, u).refs, NEW i \in 1..4
       PROVE  result'.image[Final(RefOf(fs, u, r)) + i]
                = Silk!Address(move.base + Final(ValueOf(fs, v)))[i]
  <2>1. PICK p \in Slots(table) : /\ table[p[1]].refs[p[2]] = RefOf(fs, u, r)
                                  /\ table[p[1]].value = ValueOf(fs, v)
    BY <1>1, <1>3, ResolvedMeanings
  <2>2. p[1] \notin DOMAIN pending
    BY <1>1
  <2>. DEFINE b == Silk!Address(move.base + Final(ValueOf(fs, v)))[i]
              a == Slot(table, p)
  <2>3. ByteAt(sections, a + i - 1, b)
    BY <1>3, <1>15, <2>1, <2>2 DEF Resolving, Memory
  <2>4. a = Final(RefOf(fs, u, r)) /\ a \in Int
    BY <1>14, <2>1 DEF Slot
  <2>. HIDE DEF a, b
  <2>5. a + i - 1 \in Int /\ (a + i - 1) + 1 = a + i
    BY <2>4
  <2>6. result'.image[(a + i - 1) + 1] = b
    BY <1>12, <1>15, <2>3, <2>5
  <2>. QED
    BY <2>4, <2>5, <2>6 DEF b
<1>16. ASSUME result'.outcome = "image", Apart(fs), NEW x \in SectionIds(fs),
              NEW i \in 1..Sec(fs, x).length
       PROVE  \/ InReference(fs, ByteOf(fs, x, i))
              \/ result'.image[Final(ByteOf(fs, x, i)) + 1] = Sec(fs, x).data[i]
  <2>. DEFINE a == ByteOf(fs, x, i)
  <2>1. a \in Nat /\ Final(a) \in Int
    BY <1>4, <1>13, ByteNumber
  <2>2. \/ \E p \in Slots(table) : Final(a) - Slot(table, p) \in 0..3
        \/ ByteAt(sections, Final(a), Sec(fs, x).data[i])
    BY <1>3, <1>16 DEF Resolving, Memory
  <2>. HIDE DEF a
  <2>3. CASE ByteAt(sections, Final(a), Sec(fs, x).data[i])
    BY <1>12, <1>16, <2>1, <2>3 DEF a
  <2>4. ASSUME NEW p \in Slots(table), Final(a) - Slot(table, p) \in 0..3
        PROVE  InReference(fs, a)
    <3>. DEFINE d == Final(a) - Slot(table, p)
                ref == table[p[1]].refs[p[2]]
    <3>1. Slot(table, p) \in Int /\ ref \in Nat /\ \A j \in 0..3 : Final(ref + j) = Slot(table, p) + j
      BY <1>14
    <3>2. d \in 0..3 /\ Slot(table, p) + d = Final(a)
      BY <2>1, <2>4, <3>1
    <3>. HIDE DEF d, ref
    <3>3. Final(ref + d) = Final(a) /\ ref + d \in Nat
      BY <3>1, <3>2
    <3>4. a = ref + d
      <4>1. \A b, c \in Nat : Final(b) = Final(c) => b = c
        BY <1>6, RelocateFacts DEF Final
      <4>. QED
        BY <2>1, <3>3, <4>1
    <3>5. a - ref \in 0..3
      BY <2>1, <3>1, <3>2, <3>4
    <3>6. PICK u \in SymbolIds(fs) : \E r \in DOMAIN Sym(fs, u).refs : ref = RefOf(fs, u, r)
      BY <1>3, SlotSource DEF Resolving, ref
    <3>. QED
      BY <3>5, <3>6 DEF InReference
  <2>. QED
    BY <2>2, <2>3, <2>4 DEF a
<1>17. LinkedAsWritten'
  <2>. SUFFICES ASSUME result'.outcome = "image", Apart(fs)
                PROVE  /\ \A u \in SymbolIds(fs) : \A v \in Meanings(fs, u), r \in DOMAIN Sym(fs, u).refs :
                            \A i \in 1..4 : result'.image[Final(RefOf(fs, u, r))' + i]
                                              = Silk!Address(move'.base + Final(ValueOf(fs, v))')[i]
                       /\ \A x \in SectionIds(fs) : \A i \in 1..Sec(fs, x).length :
                            \/ InReference(fs, ByteOf(fs, x, i))
                            \/ result'.image[Final(ByteOf(fs, x, i))' + 1] = Sec(fs, x).data[i]
                       /\ EntryFirst(fs)'
    BY <1>9 DEF LinkedAsWritten
  <2>1. EntryFirst(fs)' /\ \A a : Final(a)' = Final(a)
    BY <1>1, <1>3 DEF EntryFirst, Final
  <2>2. move'.base = move.base
    BY <1>1
  <2>. QED
    BY <1>15, <1>16, <2>1, <2>2
<1>. QED
  BY <1>1, <1>10, <1>11, <1>17 DEF ImageInv

(* Nothing changes what the image says without a step of the linker. *)
LEMMA StutterImage ==
    ASSUME ImageInv, UNCHANGED vars
    PROVE  ImageInv'
<1>1. /\ UNCHANGED <<project, pc, todo, order, sections, table, pending, move, result>>
      /\ Parsed' = Parsed /\ Read' = Read
  BY SameFiles DEF vars, Read
<1>2. \A fs : Reading(fs)' <=> Reading(fs)
  BY <1>1 DEF Reading, Merged
<1>3. \A a : Final(a)' = Final(a)
  BY <1>1 DEF Final
<1>4. \A fs : Resolving(fs)' <=> Resolving(fs)
  <2>1. Slots(table)' = Slots(table) /\ \A p : Slot(table, p)' = Slot(table, p)
    BY <1>1, <1>3 DEF Slot
  <2>2. \A fs : Memory(fs)' <=> Memory(fs)
    BY <1>1, <1>3, <2>1 DEF Memory
  <2>. QED
    BY <1>1, <1>3, <2>1, <2>2 DEF Resolving
<1>5. \A fs : (FlagsOf(fs)' <=> FlagsOf(fs)) /\ (EntryFirst(fs)' <=> EntryFirst(fs))
  BY <1>1, <1>3 DEF FlagsOf, EntryFirst
<1>6. LinkedAsWritten' <=> LinkedAsWritten
  BY <1>1, <1>3, <1>5 DEF LinkedAsWritten
<1>7. LinkedIffPossible' <=> LinkedIffPossible
  BY <1>1, <1>5 DEF LinkedIffPossible, CanBeLinked
<1>8. LinkerPanicsExplained' <=> LinkerPanicsExplained
  <2>1. TwoExternals' <=> TwoExternals
    BY <1>1, Zenon DEF TwoExternals
  <2>. QED
    BY <1>1, <2>1 DEF LinkerPanicsExplained
<1>. QED
  BY <1>1, <1>2, <1>4, <1>5, <1>6, <1>7, <1>8 DEF ImageInv

(* Every step of the linker keeps the invariant. *)
LEMMA ImageInvKept == LinkInv /\ LinkInv' /\ ImageInv /\ [Next]_vars => ImageInv'
<1>. SUFFICES ASSUME LinkInv, LinkInv', ImageInv, [Next]_vars PROVE ImageInv'
  OBVIOUS
<1>1. CASE Assemble
  BY <1>1, AssembleImage
<1>2. CASE StartLinking
  BY <1>2, StartLinkingImage
<1>3. CASE AddObjects
  BY <1>3, AddObjectsImage
<1>4. CASE MergeSymbol
  BY <1>4, MergeSymbolImage
<1>5. CASE StartImage
  BY <1>5, StartImageImage
<1>6. CASE ResolveSymbol
  BY <1>6, ResolveSymbolImage
<1>7. CASE WriteImage
  BY <1>7, WriteImageImage
<1>8. CASE UNCHANGED vars
  BY <1>8, StutterImage
<1>. QED
  BY <1>1, <1>2, <1>3, <1>4, <1>5, <1>6, <1>7, <1>8 DEF Next

(* The invariant says what it is for. *)
LEMMA ImageInvSuffices ==
    ImageInv => LinkedAsWritten /\ LinkedIffPossible /\ LinkerPanicsExplained
BY DEF ImageInv, LinkedAsWritten, LinkedIffPossible, LinkerPanicsExplained

(* The invariant holds in every state. *)
LEMMA ImageInvAlways == Spec => []ImageInv
<1>1. Init => LinkInv /\ ImageInv
  <2>. SUFFICES ASSUME Init PROVE LinkInv /\ ImageInv
    OBVIOUS
  <2>1. project.raw \in Seq(Linkable)
    BY ProjectsAssumption DEF Init
  <2>2. LinkInv
    BY <2>1 DEF Init, LinkInv
  <2>3. pc = "assemble" /\ order = <<>> /\ result.outcome = "none"
    BY DEF Init
  <2>. QED
    BY <2>2, <2>3 DEF ImageInv
<1>2. LinkInv /\ ObjectsAreBytes /\ [Next]_vars => LinkInv'
  BY LinkInvKept
<1>3. LinkInv /\ LinkInv' /\ ImageInv /\ [Next]_vars => ImageInv'
  BY ImageInvKept
<1>. QED
  BY <1>1, <1>2, <1>3, ObjectFilesAreBytes, PTL DEF Spec

(***************************************************************************)
(* In every image that silk writes, of whatever object files, every        *)
(* reference is the address of what its symbol means, every other byte of  *)
(* a section is that of the object file, and the entry section is first:   *)
(* in whatever order the HashMaps of add_objects and link_as_image are     *)
(* visited, however symbols are renamed, merged and relocated. The files   *)
(* are those in which no two references of one file overlap.               *)
(***************************************************************************)
THEOREM ImageIsAsWritten == Spec => []LinkedAsWritten
<1>1. ImageInv => LinkedAsWritten
  BY ImageInvSuffices
<1>. QED
  BY <1>1, ImageInvAlways, PTL

(***************************************************************************)
(* Silk writes an image exactly of the files that can be linked, and stops *)
(* with an error for all others, unless it panics: whether it links them   *)
(* depends on the files and not on the order in which add_objects and      *)
(* link_as_image take their symbols.                                       *)
(***************************************************************************)
THEOREM LinksWhatCanBeLinked == Spec => []LinkedIffPossible
<1>1. ImageInv => LinkedIffPossible
  BY ImageInvSuffices
<1>. QED
  BY <1>1, ImageInvAlways, PTL

(***************************************************************************)
(* Silk panics for two reasons only: two object files refer to a symbol    *)
(* before one defines it, or a file has a reference that leaves its        *)
(* section or overlaps another, which the checks of the parser let pass.   *)
(***************************************************************************)
THEOREM LinkerPanicsOnlySo == Spec => []LinkerPanicsExplained
<1>1. ImageInv => LinkerPanicsExplained
  BY ImageInvSuffices
<1>. QED
  BY <1>1, ImageInvAlways, PTL

-----------------------------------------------------------------------------
(***************************************************************************)
(* PanicsExplained.                                                        *)
(***************************************************************************)

(* The causes of a panic of salt *)
Cause(f) == TooLong(f) \/ TooLargeFile(f) \/ UnknownSizeof(f) \/ ForeignSpan(f)

(* The object file that salt writes of a source file *)
LEMMA RunGood ==
    ASSUME NEW f \in SourceFile, Extra(f) \in Seq(ConstNode), New(f.src, Extra(f)),
           Run(f.src, Extra(f), f.entry).outcome = "ok"
    PROVE  ~BadReference(Run(f.src, Extra(f), f.entry).simobj)
<1>. DEFINE src == f.src
            env == EnvOf(f)
            gen == Code(env, src.instrs)
            W == OperandsIn(f)
            run == ObjectFile(env, gen, f.entry)
<1>1. src \in SourceNode /\ src.instrs \in Seq(InstructionNode)
  BY DEF SourceFile, SourceNode
<1>2. Environments(env) /\ env = Env(src, Extra(f))
  <2>1. Environments(Env(src, Extra(f)))
    BY <1>1, EnvFacts
  <2>. QED
    BY <2>1 DEF EnvOf
<1>3. Run(src, Extra(f), f.entry) = run
  BY <1>2 DEF Run, Generate
<1>4. \A k \in 1..Len(src.instrs) : \A j \in DOMAIN src.instrs[k].operands :
         Resolve(env, src.instrs[k].operands[j]) \in W
  BY <1>1 DEF OperandsIn, OperandsOf, Range
<1>5. LabelsInside(env, gen) \/ gen.panic
  BY <1>1, <1>2, LabelFacts
<1>. HIDE DEF src, env, W
<1>6. gen \in Generator /\ Spaced(gen)
  BY <1>1, <1>2, <1>4, CodeFacts, CodeTame DEF Tame
<1>. HIDE DEF gen
<1>7. InOrderFor(env, gen, f.entry) /\ run.simobj = Simobj(env, gen, f.entry)
  BY <1>3, ObjectFacts DEF src
<1>8. ~BadReference(Simobj(env, gen, f.entry))
  BY <1>2, <1>5, <1>6, <1>7, OwnReferencesGood DEF InOrderFor
<1>. QED
  BY <1>3, <1>7, <1>8 DEF src

(* The rest of a list after its head *)
LEMMA RestFacts ==
    ASSUME NEW S, NEW s \in Seq(S), NEW k \in 0..Len(s), SubSeq(s, k + 1, Len(s)) # <<>>
    PROVE  /\ k + 1 \in 0..Len(s) /\ k + 1 \in DOMAIN s
           /\ Head(SubSeq(s, k + 1, Len(s))) = s[k + 1]
           /\ Tail(SubSeq(s, k + 1, Len(s))) = SubSeq(s, (k + 1) + 1, Len(s))
OBVIOUS

(* The invariant holds at first, *)
LEMMA PanicInvInit == Init => PanicInv
<1>. SUFFICES ASSUME Init PROVE PanicInv
  OBVIOUS
<1>. DEFINE inputs == Inputs(project.files)
            n == Len(inputs)
<1>1. /\ project.files \in Seq(SourceFile)
      /\ \A i, j \in DOMAIN project.files : project.files[i].id = project.files[j].id => i = j
  BY ProjectsAssumption DEF Init
<1>2. inputs \in Seq(SourceFile)
  BY <1>1, InputsFacts
<1>3. todo = inputs /\ consts = <<>>
  BY DEF Init
<1>4. Carried(inputs)[0] = <<>> /\ 0 \in 0..n
  <2>1. 0 \in 0..n
    BY <1>2
  <2>2. Carried(inputs)[0] = IF 0 = 0 THEN <<>> ELSE Carry(Carried(inputs)[0 - 1], inputs[0].src)
    BY <1>2, <2>1, CarriedFacts
  <2>. QED
    BY <2>1, <2>2
<1>5. SubSeq(inputs, 0 + 1, n) = inputs
  <2>. HIDE DEF inputs
  <2>. QED
    BY <1>2
<1>6. \E k \in 0..n : todo = SubSeq(inputs, k + 1, n) /\ consts = Carried(inputs)[k]
  BY <1>3, <1>4, <1>5
<1>7. /\ order = <<>> /\ sections = <<>> /\ pending = <<>> /\ objects = <<>>
      /\ pc = "assemble" /\ result.outcome = "none"
  BY DEF Init
<1>. HIDE DEF inputs
<1>8. \E list \in {inputs} : \E k \in 0..Len(list) :
         todo = SubSeq(list, k + 1, Len(list)) /\ consts = Carried(list)[k]
  BY <1>6
<1>. QED
  BY <1>1, <1>7, <1>8 DEF PanicInv, inputs

(* The causes in the source files do not change. *)
LEMMA SameCauses ==
    ASSUME project' = project, \E f \in Files : Cause(f)
    PROVE  (\E f \in Files : Cause(f))'
<1>1. PICK f \in Files : Cause(f)
  OBVIOUS
<1>2. f \in Files'
  BY DEF Files
<1>3. Extra(f)' = Extra(f)
  BY DEF Extra
<1>4. EnvOf(f)' = EnvOf(f)
  BY <1>3 DEF EnvOf
<1>5. \A k : OperandsOf(f, k)' = OperandsOf(f, k)
  BY <1>4 DEF OperandsOf
<1>6. UsedNames(f)' = UsedNames(f)
  BY <1>5 DEF UsedNames
<1>7. Cause(f)'
  <2>1. TooLong(f) => TooLong(f)'
    BY <1>6 DEF TooLong, Defined
  <2>2. TooLargeFile(f) => TooLargeFile(f)'
    BY <1>3, <1>4 DEF TooLargeFile
  <2>3. UnknownSizeof(f) => UnknownSizeof(f)'
    BY <1>4, <1>5 DEF UnknownSizeof
  <2>4. ForeignSpan(f) => ForeignSpan(f)'
    BY <1>3 DEF ForeignSpan
  <2>. QED
    BY <1>1, <2>1, <2>2, <2>3, <2>4 DEF Cause
<1>. QED
  BY <1>2, <1>7

(* A file of the loop sees the constants of those before it, *)
LEMMA NextFile ==
    ASSUME PanicInv, pc = "assemble", todo # <<>>
    PROVE  /\ Head(todo) \in Files /\ Head(todo) \in SourceFile
           /\ consts = Extra(Head(todo)) /\ consts \in Seq(ConstNode)
           /\ \E inputs \in {Inputs(project.files)} : \E k \in 0..Len(inputs) :
                /\ Tail(todo) = SubSeq(inputs, k + 1, Len(inputs))
                /\ Carry(consts, Head(todo).src) = Carried(inputs)[k]
<1>. DEFINE inputs == Inputs(project.files)
            n == Len(inputs)
<1>1. project.files \in Seq(SourceFile) /\ DifferentIds(project.files)
  BY DEF PanicInv, DifferentIds
<1>2. PICK k \in 0..n : todo = SubSeq(inputs, k + 1, n) /\ consts = Carried(inputs)[k]
  BY DEF PanicInv
<1>3. inputs \in Seq(SourceFile) /\ DifferentIds(inputs) /\ Range(inputs) \subseteq Files
  BY <1>1, InputsFacts, InputsDiffer DEF Files
<1>4. \A j \in DOMAIN inputs : Extra(inputs[j]) = Carried(inputs)[j - 1]
  BY <1>3, ExtraFacts
<1>5. \A j \in 0..n :
        /\ Carried(inputs)[j] \in Seq(ConstNode)
        /\ Carried(inputs)[j] = IF j = 0 THEN <<>> ELSE Carry(Carried(inputs)[j - 1], inputs[j].src)
  BY <1>3, CarriedFacts
<1>6. inputs = Inputs(project.files)
  OBVIOUS
<1>. HIDE DEF inputs
<1>7. /\ k + 1 \in 0..n /\ k + 1 \in DOMAIN inputs /\ Head(todo) = inputs[k + 1]
      /\ Tail(todo) = SubSeq(inputs, (k + 1) + 1, n)
  BY <1>2, <1>3, RestFacts
<1>8. (k + 1) - 1 = k /\ k + 1 # 0 /\ n \in Nat
  BY <1>2, <1>3
<1>9. inputs[k + 1] \in Range(inputs) /\ inputs[k + 1] \in SourceFile
  BY <1>3, <1>7 DEF Range
<1>10. consts = Extra(inputs[k + 1]) /\ consts \in Seq(ConstNode)
  BY <1>2, <1>4, <1>5, <1>7, <1>8
<1>11. Carry(consts, inputs[k + 1].src) = Carried(inputs)[k + 1]
  BY <1>2, <1>5, <1>7, <1>8
<1>. QED
  BY <1>3, <1>6, <1>7, <1>9, <1>10, <1>11

(* so that it is assembled as its project says, *)
LEMMA AssemblePanic == PanicInv /\ objects \in Seq(Linkable) /\ Assemble => PanicInv'
<1>. SUFFICES ASSUME PanicInv, objects \in Seq(Linkable), Assemble PROVE PanicInv'
  OBVIOUS
<1>. DEFINE f == Head(todo)
            run == Run(f.src, consts, f.entry)
            o == [id |-> f.id, file |-> run.simobj]
            Caused == \E g \in Files : Cause(g)
            InLoop == \E inputs \in {Inputs(project.files)} : \E k \in 0..Len(inputs) :
                         todo = SubSeq(inputs, k + 1, Len(inputs)) /\ consts = Carried(inputs)[k]
            NoneBad == \A k \in DOMAIN objects : ~BadReference(objects[k].file)
<1>1. /\ pc = "assemble" /\ todo # <<>> /\ order = <<>> /\ sections = <<>> /\ pending = <<>>
      /\ result.outcome = "none" /\ NoneBad
      /\ project.files \in Seq(SourceFile)
      /\ \A i, j \in DOMAIN project.files : project.files[i].id = project.files[j].id => i = j
  BY DEF Assemble, PanicInv
<1>2. UNCHANGED <<project, order, sections, table, pending, move>>
  BY DEF Assemble
<1>3. /\ f \in Files /\ f \in SourceFile /\ consts = Extra(f) /\ consts \in Seq(ConstNode)
      /\ \E inputs \in {Inputs(project.files)} : \E k \in 0..Len(inputs) :
           /\ Tail(todo) = SubSeq(inputs, k + 1, Len(inputs))
           /\ Carry(consts, f.src) = Carried(inputs)[k]
  BY <1>1, NextFile
<1>. DEFINE Goes == /\ pc' = pc => InLoop' /\ result'.outcome = "none"
                    /\ pc' # pc => pc' = "done"
                    /\ result'.outcome = "panic" => Caused
                    /\ NoneBad'
<1>4. Goes => PanicInv'
  <2>. SUFFICES ASSUME Goes PROVE PanicInv'
    OBVIOUS
  <2>1. Caused => Caused'
    BY <1>2, SameCauses
  <2>2. /\ order' = <<>> /\ sections' = <<>> /\ pending' = <<>> /\ project' = project
    BY <1>1, <1>2
  <2>3. \A k \in DOMAIN order' : order'[k] \in Range(objects') \cup Range(project'.raw)
    BY <2>2
  <2>4. pc' = "assemble" \/ pc' = "done"
    BY <1>1
  <2>5. result'.outcome = "panic" => Caused'
    BY <2>1
  <2>6. pc' = "assemble" => InLoop' /\ result'.outcome = "none"
    BY <1>1
  <2>7. Caused' => (\E g \in Files : TooLong(g) \/ TooLargeFile(g) \/ UnknownSizeof(g) \/ ForeignSpan(g))'
    BY DEF Cause
  <2>8. NoneBad'
    OBVIOUS
  <2>. HIDE DEF InLoop, Caused, NoneBad
  <2>. QED
    BY <1>1, <2>2, <2>3, <2>4, <2>5, <2>6, <2>7, <2>8 DEF PanicInv, InLoop, NoneBad
<1>5. CASE /\ New(f.src, consts)
           /\ consts' = add_public_consts(f.src)
           /\ IF run.outcome = "panic" THEN Stop("panic") ELSE UNCHANGED <<pc, result>>
           /\ objects' = IF run.outcome = "ok" THEN Append(objects, o) ELSE objects
           /\ todo' = Tail(todo)
  <2>1. InLoop'
    <3>1. consts' = Carry(consts, f.src)
      BY <1>5 DEF add_public_consts, Carry
    <3>. QED
      BY <1>2, <1>3, <1>5, <3>1
  <2>2. run.outcome = "panic" => Caused
    <3>. SUFFICES ASSUME run.outcome = "panic" PROVE Caused
      OBVIOUS
    <3>1. TooLong(f) \/ TooLargeFile(f) \/ UnknownSizeof(f)
      BY <1>3, <1>5, CauseOfPanic
    <3>. QED
      BY <1>3, <3>1 DEF Cause
  <2>3. NoneBad'
    <3>1. run.outcome = "ok" => ~BadReference(run.simobj)
      BY <1>3, <1>5, RunGood
    <3>2. CASE run.outcome = "ok"
      <4>1. objects' = Append(objects, o) /\ ~BadReference(o.file)
        BY <1>5, <3>1, <3>2
      <4>. HIDE DEF o
      <4>2. \A k \in DOMAIN objects' :
               (k \in DOMAIN objects /\ objects'[k] = objects[k]) \/ objects'[k] = o
        BY <4>1
      <4>. QED
        BY <1>1, <4>1, <4>2
    <3>3. CASE run.outcome # "ok"
      BY <1>1, <1>5, <3>3
    <3>. QED
      BY <3>2, <3>3
  <2>4. CASE run.outcome = "panic"
    <3>1. pc' = "done" /\ Caused
      BY <1>5, <2>2, <2>4 DEF Stop
    <3>. QED
      BY <1>1, <1>4, <2>3, <3>1
  <2>5. CASE run.outcome # "panic"
    <3>1. pc' = pc /\ result' = result
      BY <1>5, <2>5
    <3>2. result'.outcome = "none"
      BY <1>1, <3>1
    <3>. HIDE DEF InLoop, NoneBad
    <3>. QED
      BY <1>4, <2>1, <2>3, <3>1, <3>2
  <2>. QED
    BY <2>4, <2>5
<1>6. CASE ~New(f.src, consts) /\ todo' = Tail(todo) /\ UNCHANGED <<pc, consts, objects, result>>
  <2>1. InLoop'
    <3>1. consts' = Carry(consts, f.src)
      BY <1>6 DEF Carry
    <3>. QED
      BY <1>2, <1>3, <1>6, <3>1
  <2>2. NoneBad'
    BY <1>1, <1>6
  <2>3. result'.outcome = "none" /\ pc' = pc
    BY <1>1, <1>6
  <2>. HIDE DEF InLoop, NoneBad
  <2>. QED
    BY <1>4, <2>1, <2>2, <2>3
<1>7. CASE ForeignReport(f.src) /\ Stop("panic") /\ UNCHANGED <<todo, consts, objects>>
  <2>1. Caused
    <3>1. ForeignSpan(f)
      BY <1>3, <1>7 DEF ForeignReport, ForeignSpan
    <3>. QED
      BY <1>3, <3>1 DEF Cause
  <2>2. pc' = "done" /\ NoneBad'
    BY <1>1, <1>7 DEF Stop
  <2>. QED
    BY <1>1, <1>4, <2>1, <2>2
<1>. QED
  BY <1>5, <1>6, <1>7 DEF Assemble

(* and the files of the project are those that are linked. *)
LEMMA StartLinkingPanic ==
    PanicInv /\ LinkInv /\ ObjectsAreBytes /\ StartLinking => PanicInv'
<1>. SUFFICES ASSUME PanicInv, LinkInv, ObjectsAreBytes, StartLinking PROVE PanicInv'
  OBVIOUS
<1>. DEFINE files == objects \o project.raw
            NoneBad == \A k \in DOMAIN objects : ~BadReference(objects[k].file)
<1>1. /\ pc = "assemble" /\ order = <<>> /\ sections = <<>> /\ pending = <<>> /\ todo = <<>>
      /\ result.outcome = "none" /\ NoneBad
      /\ project.files \in Seq(SourceFile)
      /\ \A i, j \in DOMAIN project.files : project.files[i].id = project.files[j].id => i = j
  BY DEF StartLinking, PanicInv
<1>2. UNCHANGED <<project, objects, sections, pending>>
  BY DEF StartLinking
<1>3. CASE Stop("error") /\ UNCHANGED <<todo, order>>
  <2>1. pc' = "done" /\ result'.outcome # "panic" /\ order' = <<>>
    BY <1>1, <1>3 DEF Stop
  <2>. QED
    BY <1>1, <1>2, <2>1 DEF PanicInv
<1>4. CASE /\ \E p \in Bijection(DOMAIN files, DOMAIN files) :
                order' = [k \in DOMAIN files |-> files[p[k]]]
           /\ todo' = order' /\ pc' = "combine" /\ UNCHANGED result
  <2>1. PICK p \in Bijection(DOMAIN files, DOMAIN files) :
           order' = [k \in DOMAIN files |-> files[p[k]]]
    BY <1>4
  <2>2. \A k \in DOMAIN files : p[k] \in DOMAIN files
    BY DEF Bijection, Injection, Surjection
  <2>3. \A k \in DOMAIN order' : order'[k] \in Range(files)
    BY <2>1, <2>2 DEF Range
  <2>4. Range(files) \subseteq Range(objects) \cup Range(project.raw)
    <3>1. objects \in Seq(Linkable) /\ project.raw \in Seq(Linkable)
      BY DEF ObjectsAreBytes, LinkInv
    <3>. DEFINE a == objects
                b == project.raw
    <3>. HIDE DEF a, b
    <3>2. Range(a \o b) \subseteq Range(a) \cup Range(b)
      BY <3>1 DEF a, b, Range
    <3>. QED
      BY <3>2 DEF a, b
  <2>5. \A k \in DOMAIN order' : order'[k] \in Range(objects') \cup Range(project'.raw)
    BY <1>2, <2>3, <2>4
  <2>6. pc' = "combine" /\ result'.outcome = "none" /\ todo' = order' /\ sections' = <<>>
        /\ pending' = <<>> /\ project' = project /\ NoneBad'
    BY <1>1, <1>2, <1>4
  <2>. QED
    BY <1>1, <2>5, <2>6 DEF PanicInv
<1>. QED
  BY <1>3, <1>4 DEF StartLinking

(* The linker keeps the files, and takes a step of its own only when there *)
(* are some.                                                               *)
LEMMA LinkerPanic ==
    PanicInv /\ (AddObjects \/ MergeSymbol \/ StartImage \/ ResolveSymbol \/ WriteImage) => PanicInv'
<1>. SUFFICES ASSUME PanicInv,
                     AddObjects \/ MergeSymbol \/ StartImage \/ ResolveSymbol \/ WriteImage
              PROVE  PanicInv'
  OBVIOUS
<1>. DEFINE Kept == UNCHANGED <<project, objects, order>>
            Ended == pc' # "done" => result'.outcome = "none"
<1>0. DOMAIN <<>> = {}
  OBVIOUS
<1>1. ASSUME Kept, order # <<>>, pc' \in {"combine", "resolve", "done"}, Ended PROVE PanicInv'
  <2>1. order' = order /\ project' = project /\ objects' = objects
    BY <1>1
  <2>. QED
    BY <1>1, <2>1 DEF PanicInv
<1>2. CASE AddObjects
  <2>1. Kept /\ pc = "combine" /\ todo # <<>>
    BY <1>2 DEF AddObjects
  <2>2. order # <<>> /\ result.outcome = "none"
    BY <2>1 DEF PanicInv
  <2>3. \/ UNCHANGED <<pc, result>>
        \/ pc' = "done"
    BY <1>2 DEF AddObjects, Stop
  <2>. QED
    BY <1>1, <2>1, <2>2, <2>3
<1>3. CASE MergeSymbol
  <2>1. Kept /\ pc = "combine" /\ DOMAIN pending # {}
    BY <1>3 DEF MergeSymbol
  <2>2. order # <<>> /\ result.outcome = "none"
    BY <1>0, <2>1 DEF PanicInv
  <2>3. \/ UNCHANGED <<pc, result>>
        \/ pc' = "done"
    BY <1>3 DEF MergeSymbol, Stop
  <2>. QED
    BY <1>1, <2>1, <2>2, <2>3
<1>4. CASE StartImage
  <2>1. Kept /\ pc = "combine" /\ result.outcome = "none"
    BY <1>4 DEF StartImage, PanicInv
  <2>2. CASE Silk!FlagsAccepted(sections, project.target = "ROM")
    <3>1. sections # <<>>
      BY <1>0, <2>2 DEF Silk!FlagsAccepted
    <3>2. order # <<>>
      BY <2>1, <3>1 DEF PanicInv
    <3>3. pc' = "resolve" /\ result' = result
      BY <1>4, <2>2 DEF StartImage
    <3>. QED
      BY <1>1, <2>1, <3>2, <3>3
  <2>3. CASE ~Silk!FlagsAccepted(sections, project.target = "ROM")
    <3>1. pc' = "done" /\ result'.outcome # "panic"
      BY <1>4, <2>3 DEF StartImage, Stop
    <3>2. order' = order /\ project' = project /\ objects' = objects
      BY <2>1
    <3>. QED
      BY <3>1, <3>2 DEF PanicInv
  <2>. QED
    BY <2>2, <2>3
<1>5. CASE ResolveSymbol
  <2>1. Kept /\ pc = "resolve"
    BY <1>5 DEF ResolveSymbol
  <2>2. order # <<>> /\ result.outcome = "none"
    BY <2>1 DEF PanicInv
  <2>3. \/ UNCHANGED <<pc, result>>
        \/ pc' = "done"
    BY <1>5 DEF ResolveSymbol, Stop
  <2>. QED
    BY <1>1, <2>1, <2>2, <2>3
<1>6. CASE WriteImage
  <2>1. Kept /\ pc = "resolve" /\ pc' = "done"
    BY <1>6 DEF WriteImage
  <2>2. order # <<>>
    BY <2>1 DEF PanicInv
  <2>. QED
    BY <1>1, <2>1, <2>2
<1>. QED
  BY <1>2, <1>3, <1>4, <1>5, <1>6

(* Every step keeps the invariant, *)
LEMMA PanicInvKept ==
    PanicInv /\ LinkInv /\ ObjectsAreBytes /\ [Next]_vars => PanicInv'
<1>. SUFFICES ASSUME PanicInv, LinkInv, ObjectsAreBytes, [Next]_vars PROVE PanicInv'
  OBVIOUS
<1>1. CASE UNCHANGED vars
  <2>1. /\ project' = project /\ pc' = pc /\ todo' = todo /\ consts' = consts /\ objects' = objects
        /\ order' = order /\ sections' = sections /\ pending' = pending /\ result' = result
    BY <1>1 DEF vars
  <2>2. (\E f \in Files : Cause(f)) => (\E f \in Files : Cause(f))'
    BY <2>1, SameCauses
  <2>3. result.outcome = "panic" /\ order = <<>> =>
          (\E f \in Files : TooLong(f) \/ TooLargeFile(f) \/ UnknownSizeof(f) \/ ForeignSpan(f))'
    BY <2>2 DEF PanicInv, Cause
  <2>. QED
    BY <2>1, <2>3 DEF PanicInv
<1>2. CASE Assemble
  BY <1>2, AssemblePanic DEF ObjectsAreBytes
<1>3. CASE StartLinking
  BY <1>3, StartLinkingPanic
<1>. QED
  BY <1>1, <1>2, <1>3, LinkerPanic DEF Next

(* and explains the panics that the linker's own invariant leaves. *)
LEMMA PanicInvSuffices ==
    PanicInv /\ LinkerPanicsExplained => PanicsExplained
<1>. SUFFICES ASSUME PanicInv, LinkerPanicsExplained, result.outcome = "panic", order # <<>>,
                     ~TwoExternals
              PROVE  \E k \in DOMAIN project.raw : BadReference(project.raw[k].file)
  BY DEF PanicInv, PanicsExplained
<1>1. PICK k \in DOMAIN order : BadReference(order[k].file)
  BY DEF LinkerPanicsExplained
<1>2. order[k] \in Range(objects) \cup Range(project.raw)
  BY DEF PanicInv
<1>3. order[k] \notin Range(objects)
  BY <1>1 DEF PanicInv, Range
<1>. QED
  BY <1>1, <1>2, <1>3 DEF Range

(* The tools panic only for one of the causes in PanicsExplained: in       *)
(* particular no object file that salt writes makes the linker panic       *)
(* because of a reference, whatever the sources.                           *)
THEOREM ToolsPanicOnlySo == Spec => []PanicsExplained
<1>1. Init => LinkInv
  <2>. SUFFICES ASSUME Init PROVE LinkInv
    OBVIOUS
  <2>1. project.raw \in Seq(Linkable)
    BY ProjectsAssumption DEF Init
  <2>. QED
    BY <2>1 DEF Init, LinkInv
<1>2. LinkInv /\ ObjectsAreBytes /\ [Next]_vars => LinkInv'
  BY LinkInvKept
<1>. QED
  BY <1>1, <1>2, PanicInvInit, PanicInvKept, PanicInvSuffices, LinkerPanicsOnlySo, ObjectFilesAreBytes, PTL DEF Spec
=============================================================================
