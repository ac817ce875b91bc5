------------------------------ MODULE RamEager ------------------------------
(***************************************************************************)
(* The RAM as one vector of bytes (ram_eager.rs): what the MMU relies on.  *)
(***************************************************************************)
EXTENDS Integers

CONSTANTS
    RAM_SIZE,
    Byte        \* the values of a byte, with 0

VARIABLES
    data,
    loaded      \* the byte the last load returned

vars == <<data, loaded>>

Index == 0..(RAM_SIZE - 1)

Init ==
    /\ data = [i \in Index |-> 0]
    /\ loaded = 0

Load(i) == loaded' = data[i] /\ UNCHANGED data

Store(i, value) == data' = [data EXCEPT ![i] = value] /\ UNCHANGED loaded

Next ==
    \E i \in Index :
      \/ Load(i)
      \/ \E value \in Byte : Store(i, value)

Spec == Init /\ [][Next]_vars
=============================================================================
