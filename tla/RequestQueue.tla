---------------------------- MODULE RequestQueue ----------------------------
(***************************************************************************)
(* The request queue of a block device: the table request[] and the       *)
(* elevator of kernel/blk_drv/ll_rw_blk.c and blk.h.                       *)
(*                                                                         *)
(* rq is the list that starts at current_request, its head the request     *)
(* the device is working on.  A request names its slot of request[], its   *)
(* command and its position on the disk (device and sector as one number, *)
(* ordered like the pair).  Two queued requests never have the same        *)
(* position: the buffer cache holds a block in one buffer and a buffer is  *)
(* locked while it is queued (BufferCache checks both).                    *)
(***************************************************************************)
EXTENDS Naturals, Sequences, FiniteSetsExt, SequencesExt

CONSTANTS NR_REQUEST,   \* slots of request[], 32 in the code
          Sectors       \* positions on the disk

ASSUME RequestAssumption == NR_REQUEST \in Nat /\ Sectors \subseteq Nat

READ  == 0
WRITE == 1
Commands == {READ, WRITE}
Slots == 0 .. NR_REQUEST - 1

Requests == [slot : Slots, cmd : Commands, sector : Sectors]

VARIABLE rq

(* The elevator's order: reads first, then by position. *)
IN_ORDER(s1, s2) ==
  \/ s1.cmd < s2.cmd
  \/ s1.cmd = s2.cmd /\ s1.sector < s2.sector

(* The slots a command may use: the last third is only for reads. *)
SlotsFor(cmd) ==
  IF cmd = READ THEN Slots ELSE 0 .. (2 * NR_REQUEST) \div 3 - 1

FreeSlots(q, cmd) == SlotsFor(cmd) \ {r.slot : r \in ToSet(q)}

(* The search for an empty request starts at the top. *)
FindSlot(q, cmd) == Max(FreeSlots(q, cmd))

(* Mutant: a read is linked right behind the current request. *)
GapsReadsFirst(q, req) ==
  {i \in 1 .. Len(q) - 1 : req.cmd = READ}

(* The places behind which add_request() may link req. *)
Gaps(q, req) ==
  {i \in 1 .. Len(q) - 1 :
     /\ IN_ORDER(q[i], req) \/ ~IN_ORDER(q[i], q[i + 1])
     /\ IN_ORDER(req, q[i + 1])}

(* add_request(): behind the first such place, or else at the end. *)
AddRequest(q, req) == InsertAt(q, Min(Gaps(q, req) \cup {Len(q)}) + 1, req)

(* end_request(): CURRENT = CURRENT->next. *)
EndRequest(q) == Tail(q)

----------------------------------------------------------------------------
Queued(s) == \E i \in 1 .. Len(rq) : rq[i].sector = s

RequestTypeOK == rq \in Seq(Requests) /\ Len(rq) <= NR_REQUEST

RequestInit == rq = << >>

(* make_request() for a buffer that is not queued, with a slot free. *)
MakeRequest(cmd, s) ==
  /\ ~Queued(s)
  /\ FreeSlots(rq, cmd) # {}
  /\ rq' = AddRequest(rq, [slot |-> FindSlot(rq, cmd), cmd |-> cmd, sector |-> s])

(* The interrupt at the end of the current transfer. *)
Complete ==
  /\ rq # << >>
  /\ rq' = EndRequest(rq)

RequestNext ==
  \/ \E cmd \in Commands, s \in Sectors : MakeRequest(cmd, s)
  \/ Complete

(* Every transfer the device has started ends. *)
RequestSpec == RequestInit /\ [][RequestNext]_rq /\ WF_rq(Complete)

----------------------------------------------------------------------------
(* The positions where the list goes back in the elevator's order. *)
Descents == {i \in 1 .. Len(rq) - 1 : ~IN_ORDER(rq[i], rq[i + 1])}

(* The elevator's list is the rest of one sweep followed by at most one    *)
(* more: inserting never starts a third sweep.                             *)
TwoSweeps == \A i, j \in Descents : i = j

(* Writes cannot crowd out reads: no slot of request[] is used twice, and  *)
(* when a read finds none free, reads hold at least the last third.        *)
ReadsFindRoom ==
  /\ \A i, j \in 1 .. Len(rq) : rq[i].slot = rq[j].slot => i = j
  /\ FreeSlots(rq, READ) = {} =>
       Quantify(ToSet(rq), LAMBDA r : r.cmd = READ)
         >= NR_REQUEST - (2 * NR_REQUEST) \div 3

(* No request starves, however many others keep being added: the elevator  *)
(* lets a request be overtaken only by requests of the sweep in progress.  *)
NoStarvation == \A s \in Sectors : Queued(s) ~> ~Queued(s)

=============================================================================
