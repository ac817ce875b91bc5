------------------------------ MODULE MCPaging ------------------------------
(***************************************************************************)
(* Six bytes, two of them device registers, in three pages: one user       *)
(* instruction, or one of the kernel's, over a memory the kernel has       *)
(* filled, with page tables that swap two frames or map one twice.         *)
(***************************************************************************)
EXTENDS Paging, TLC

Bytes == 0..6
MCZones == (0 :> {"R", "W"} @@ 1 :> {"R"})

MCDirectories == {[t \in 0..1 |-> TRUE], [t \in 0..1 |-> FALSE]}

Ready(fr) ==
    [valid |-> TRUE, present |-> TRUE, legal |-> {"R", "W", "X"}, cow |-> FALSE, frame |-> fr]
Kinds(fr) ==
    {Ready(fr), [Ready(fr) EXCEPT !.legal = {"R"}], [Ready(fr) EXCEPT !.cow = TRUE],
     [Ready(fr) EXCEPT !.valid = FALSE, !.present = FALSE, !.cow = TRUE]}
MCTables ==
    {(0 :> Ready(0) @@ 1 :> e @@ 2 :> g) : e \in Kinds(2), g \in Kinds(1)}
    \cup {(0 :> Ready(0) @@ 1 :> e @@ 2 :> g) : e \in Kinds(1), g \in Kinds(1)}

I(op, mode, len, at, from, bytes) ==
    [op |-> op, mode |-> mode, len |-> len, a |-> at, b |-> from, v |-> bytes]
Fill == I("STORE", "kernel", 0, 2, 0, <<1, 2, 1, 3>>)
Instructions(mode, lens, places) ==
    {I("STORE", mode, 0, at, 0, v) : at \in Address, v \in {<<5>>, <<5, 6>>, <<5, 6, 5, 4>>}}
    \cup {I(op, mode, len, at, 0, <<>>) : op \in {"LOAD", "FETCH"}, len \in {1, 2, 4},
                                          at \in places}
    \cup {I("BLOCKSET", mode, len, at, 0, <<5>>) : len \in {0, 1, 3}, at \in places}
    \cup {I(op, mode, len, at, from, <<>>) : op \in {"BLOCKCOPY", "BLOCKCMP"},
            len \in lens, at \in places, from \in {0, 2, 3, 4}}
MCPrograms == {<<Fill, i>> : i \in Instructions("user", {2, 3}, 0..4)
                                     \cup Instructions("kernel", {3}, {0, 4})}
=============================================================================
