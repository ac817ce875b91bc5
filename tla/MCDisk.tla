------------------------------- MODULE MCDisk -------------------------------
(***************************************************************************)
(* Disk for TLC: a disk of one block and a file that is not a disk, so     *)
(* that the directory can be empty, hold a disk, hold junk, or hold both.  *)
(***************************************************************************)
EXTENDS Disk

CONSTANTS disk, junk

TwoFiles == {disk, junk}
Sizes == [f \in TwoFiles |-> IF f = disk THEN 1 ELSE 0]
=============================================================================
