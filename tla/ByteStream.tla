----------------------------- MODULE ByteStream -----------------------------
(***************************************************************************)
(* What a pipe promises: one stream of bytes.  A writer appends parts of   *)
(* what it has to write, a reader takes parts from the front.              *)
(***************************************************************************)
EXTENDS Integers, Sequences

CONSTANTS Tasks, Messages

VARIABLES stream,
          got,     \* got[t]: what t's read has so far
          todo,    \* todo[t]: what t's write still has to deliver
          open     \* both ends are open; closing them is not the stream's

streamVars == <<stream, got, todo>>

StreamInit ==
  /\ stream = <<>>
  /\ got = [t \in Tasks |-> <<>>]
  /\ todo = [t \in Tasks |-> <<>>]

BeginWrite(t, m) ==
  /\ todo[t] = <<>> /\ got[t] = <<>>
  /\ todo' = [todo EXCEPT ![t] = m]
  /\ UNCHANGED <<stream, got>>

Put(t, n) ==
  /\ n <= Len(todo[t])
  /\ stream' = stream \o SubSeq(todo[t], 1, n)
  /\ todo' = [todo EXCEPT ![t] = SubSeq(@, n + 1, Len(@))]
  /\ UNCHANGED got

Get(t, n) ==
  /\ n <= Len(stream)
  /\ got' = [got EXCEPT ![t] = @ \o SubSeq(stream, 1, n)]
  /\ stream' = SubSeq(stream, n + 1, Len(stream))
  /\ UNCHANGED todo

(* The call returns: the reader has its bytes, the writer has delivered    *)
(* all of its own, or gives up because nobody can read them.               *)
End(t) ==
  /\ todo[t] = <<>> \/ ~open
  /\ got' = [got EXCEPT ![t] = <<>>]
  /\ todo' = [todo EXCEPT ![t] = <<>>]
  /\ UNCHANGED stream

(* The last descriptor is closed. *)
Discard ==
  /\ \A t \in Tasks : got[t] = <<>> /\ todo[t] = <<>>
  /\ stream' = <<>>
  /\ UNCHANGED <<got, todo>>

StreamNext ==
  \/ \E t \in Tasks :
       \/ \E m \in Messages : BeginWrite(t, m)
       \/ \E n \in 1 .. Len(todo[t]) : Put(t, n)
       \/ \E n \in 1 .. Len(stream) : Get(t, n)
       \/ End(t)
  \/ Discard

StreamSpec == StreamInit /\ [][StreamNext]_streamVars
=============================================================================
