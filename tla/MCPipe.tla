------------------------------- MODULE MCPipe -------------------------------
(* Constants for model checking Pipe. *)
EXTENDS Pipe, TLC

MCMessages == {<<1, 2>>}
Symmetry == Permutations(Tasks)
=============================================================================
