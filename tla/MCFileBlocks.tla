---------------------------- MODULE MCFileBlocks ----------------------------
(* Two tasks and two files of three blocks, one direct, one behind an      *)
(* indirect and one behind a double indirect block, on a device of three   *)
(* blocks: it is full in the middle of the way to a block, and what one    *)
(* file gives back the other one takes.                                    *)
EXTENDS FileBlocks, TLC

TaskSymmetry == Permutations(Tasks)
=============================================================================
