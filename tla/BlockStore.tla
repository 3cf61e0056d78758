----------------------------- MODULE BlockStore -----------------------------
(***************************************************************************)
(* What the buffer cache promises its callers: one value per disk block,   *)
(* read and written as a whole.  A task asks for a block, and some time    *)
(* later it reads the value the block has then, or replaces it, or is told *)
(* that the block is unreadable.  Nothing else changes a block: neither    *)
(* the eviction of a buffer, nor sync, nor an interrupt.                   *)
(***************************************************************************)
CONSTANTS Tasks, Blocks, Values, NoValue

VARIABLES content,   \* content[k], the value of block k
          todo,      \* todo[t], the blocks task t has asked for: {} or {k}
          seen       \* seen[t], what t has read in this call

storeVars == <<content, todo, seen>>

StoreInit ==
  /\ content \in [Blocks -> Values]
  /\ todo = [t \in Tasks |-> {}]
  /\ seen = [t \in Tasks |-> NoValue]

Ask(t, k) ==
  /\ todo[t] = {}
  /\ todo' = [todo EXCEPT ![t] = {k}]
  /\ UNCHANGED <<content, seen>>

Read(t, k) ==
  /\ k \in todo[t]
  /\ todo' = [todo EXCEPT ![t] = {}]
  /\ seen' = [seen EXCEPT ![t] = content[k]]
  /\ UNCHANGED content

Write(t, k, v) ==
  /\ k \in todo[t]
  /\ todo' = [todo EXCEPT ![t] = {}]
  /\ content' = [content EXCEPT ![k] = v]
  /\ UNCHANGED seen

Unreadable(t) ==
  /\ todo[t] # {}
  /\ todo' = [todo EXCEPT ![t] = {}]
  /\ UNCHANGED <<content, seen>>

(* The call returns. *)
Return(t) ==
  /\ todo[t] = {}
  /\ seen' = [seen EXCEPT ![t] = NoValue]
  /\ UNCHANGED <<content, todo>>

StoreNext ==
  \E t \in Tasks :
    \/ \E k \in Blocks : Ask(t, k) \/ Read(t, k)
    \/ \E k \in Blocks, v \in Values : Write(t, k, v)
    \/ Unreadable(t) \/ Return(t)

StoreSpec == StoreInit /\ [][StoreNext]_storeVars
=============================================================================
