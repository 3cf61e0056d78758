--------------------------- MODULE MCBufferCache ---------------------------
(* BufferCache with two buffers for three blocks of one or two devices. *)
EXTENDS BufferCache

CONSTANTS t1, t2, t3, v1, v2

TwoTasks == {t1, t2}
ThreeTasks == {t1, t2, t3}
OneValue == {v1}
TwoValues == {v1, v2}
MCBlocks == {1, 2, 3}
MCDevice == [k \in MCBlocks |-> IF k = 3 THEN 2 ELSE 1]
MCQueues == Buffers \cup {buffer_wait, wait_for_request}

Symmetry == Permutations(Tasks) \cup Permutations(Values)
=============================================================================
