------------------------------ MODULE MCMemory ------------------------------
(* Memory with an image page and a heap page in one page table, and a      *)
(* stack page in another.                                                  *)
EXTENDS Memory, TLC

CONSTANTS image, heap, stack

MCPages == {image, heap, stack}
MCTable == (image :> 1) @@ (heap :> 1) @@ (stack :> 2)
MCImagePages == {image}

(* Page frames are interchangeable, and the contents of a free frame or of *)
(* a frame that no entry maps do not matter: a state is seen as the set of *)
(* its frames in use, each with what refers to it.                         *)
UsersOf(f) ==
       {<<"task", p>> : p \in {p \in Procs : task[p] = f}}
  \cup {<<"table", q[1], q[2]>> : q \in {q \in Procs \X Tables : dir[q[1]][q[2]] = f}}
  \cup {<<"page", q[1], q[2]>> : q \in {q \in Procs \X Pages : pte[q[1]][q[2]].frame = f}}
  \cup {<<"load", p>> : p \in {p \in Procs : lframe[p] = f}}
  \cup {<<"args", p>> : p \in {p \in Procs : args[p] = f}}

Mapped(f) == \E p \in Procs : args[p] = f \/ \E v \in Pages : pte[p][v].frame = f

View ==
  << {<<UsersOf(f), mem_map[f], IF Mapped(f) THEN content[f] ELSE Zero>> :
        f \in {f \in Frames : mem_map[f] # 0 \/ UsersOf(f) # {}}},
     [p \in Procs |-> [v \in Pages |-> <<pte[p][v].frame = LowFrame, pte[p][v].w, pte[p][v].d>>]],
     content[LowFrame], zombie, exe, loading, copyto >>
=============================================================================
