----------------------------- MODULE MCHardDisk -----------------------------
(* The driver with four request slots, two of them open to writes, four    *)
(* positions (one outside its partition, one the last of it) and three     *)
(* errors before a request is given up.                                    *)
EXTENDS HardDisk
=============================================================================
