------------------------------ MODULE MCInodes ------------------------------
(* Two tasks that both mount and unmount a device, and four places in the  *)
(* inode table: as many as they can fill.                                  *)
EXTENDS Inodes, TLC

(* Nothing tells the tasks apart. *)
TaskSymmetry == Permutations(Tasks)
=============================================================================
