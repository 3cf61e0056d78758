------------------------------ MODULE MCFloppy ------------------------------
(* Two drives with two tracks; a motor needs three ticks to get up to      *)
(* speed, a newly selected drive the two of the code.                      *)
EXTENDS Floppy
=============================================================================
