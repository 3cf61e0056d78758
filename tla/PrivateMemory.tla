---------------------------- MODULE PrivateMemory ----------------------------
(***************************************************************************)
(* What memory management promises processes: every process has an        *)
(* address space of its own.  fork() gives the child a copy, exec() gives  *)
(* a process the pages of its new program, and apart from that the page of *)
(* a process changes only when that process writes to it.                  *)
(***************************************************************************)
CONSTANTS Procs, Pages, Executables, Values,
          Fresh(_, _)     \* Fresh(e, v), the page v of the program e

VARIABLES live,   \* the processes that have an address space
          mem     \* mem[p][v], the contents of page v of process p

memVars == <<live, mem>>

PrivInit ==
  /\ live \in SUBSET Procs
  /\ mem \in [Procs -> [Pages -> Values]]

PrivFork(p, c) ==
  /\ p \in live /\ c \notin live
  /\ live' = live \cup {c}
  /\ mem' = [mem EXCEPT ![c] = mem[p]]

(* Page v of p may hold anything afterwards. *)
PrivWrite(p, v) ==
  /\ p \in live
  /\ UNCHANGED live
  /\ mem' = [mem EXCEPT ![p][v] = mem'[p][v]]

(* So may the page of the arguments, a. *)
PrivExec(p, e, a) ==
  /\ p \in live
  /\ UNCHANGED live
  /\ mem' = [mem EXCEPT ![p] = [v \in Pages |-> IF v = a THEN mem'[p][a] ELSE Fresh(e, v)]]

PrivExit(p) ==
  /\ p \in live
  /\ live' = live \ {p}
  /\ \A q \in live' : mem'[q] = mem[q]

PrivNext ==
  \E p \in Procs :
    \/ \E c \in Procs : PrivFork(p, c)
    \/ \E v \in Pages : PrivWrite(p, v)
    \/ \E e \in Executables, a \in Pages : PrivExec(p, e, a)
    \/ PrivExit(p)

PrivSpec == PrivInit /\ [][PrivNext]_memVars
=============================================================================
