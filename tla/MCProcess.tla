------------------------------ MODULE MCProcess ------------------------------
(* Constants for model checking Process. *)
EXTENDS Process

MCMasks == {{SIGHUP, SIGKILL, SIGCHLD}}
MCSent == {SIGHUP, SIGKILL}
=============================================================================
