-------------------------------- MODULE MCTty --------------------------------
(* A reader and a writer on one line; queues of three characters.          *)
EXTENDS Tty
=============================================================================
