------------------------------ MODULE MCCycle ------------------------------
(***************************************************************************)
(* Cycle for TLC: bytes of one bit, so that a half has two bits and an     *)
(* address four.  The memory has, as the real one has, readable and        *)
(* writable memory at both ends, a hole, ROM, and a display that can only  *)
(* be written to.                                                          *)
(***************************************************************************)
EXTENDS Cycle

MCZones == [a \in Address |->
              CASE a \in 0..3 -> {"R", "W"}
                [] a \in {4, 11} -> {}
                [] a \in 5..10 -> {"R"}
                [] a \in 12..12 -> {"W"}
                [] a \in 13..15 -> {"R", "W"}]

All == {"R", "W", "X"}

(* User code may not write to the end of the memory nor read from its     *)
(* beginning.                                                              *)
MCPageTables == {[a \in Address |-> CASE a \in 13..15 -> {"R", "X"}
                                      [] a \in 0..1 -> {"W"}
                                      [] OTHER -> All]}

Bits(ones) == [a \in Address |-> IF a \in ones THEN 1 ELSE 0]

MCMemories == {Bits({0, 2, 5, 7, 14})}

MCOperands == {7, 10, 14}
MCLengths == {2, 3}
=============================================================================
