---------------------------- MODULE BlockIOProofs ----------------------------
(***************************************************************************)
(* Proofs about block I/O, from the list of requests up.                   *)
(*                                                                         *)
(* RequestQueue: what add_request() does to a list of requests, for any    *)
(* list.  The lemmas are about sequences of any kind of request: the       *)
(* buffer cache queues requests with other fields.                         *)
(*                                                                         *)
(* HardDisk: the driver that works the list off.                           *)
(*                                                                         *)
(* BufferCache: it never holds a block twice, and its counts, locks and    *)
(* requests are exact, for any number of tasks, buffers, blocks and        *)
(* request slots, whatever fails.  If no write fails and callers are       *)
(* careful, it implements BlockStore.                                      *)
(***************************************************************************)
EXTENDS BufferCache, HardDisk, OrderTheorems

(* r is q with e put in at position k. *)
InsertedAt(r, q, k, e) ==
  /\ Len(r) = Len(q) + 1
  /\ \A j \in 1 .. Len(q) + 1 :
       r[j] = IF j < k THEN q[j] ELSE IF j = k THEN e ELSE q[j - 1]

LEMMA Concat ==
  ASSUME NEW S, NEW a \in Seq(S), NEW z \in Seq(S)
  PROVE  /\ a \o z \in Seq(S) /\ Len(a \o z) = Len(a) + Len(z)
         /\ \A j \in 1 .. Len(a) + Len(z) :
              (a \o z)[j] = IF j <= Len(a) THEN a[j] ELSE z[j - Len(a)]
<1>1. a \o z \in Seq(S) /\ Len(a \o z) = Len(a) + Len(z)
  OBVIOUS
<1>2. ASSUME NEW j \in 1 .. Len(a) + Len(z)
      PROVE  (a \o z)[j] = IF j <= Len(a) THEN a[j] ELSE z[j - Len(a)]
  OBVIOUS
<1> QED
  BY <1>1, <1>2

LEMMA InsertAtInserts ==
  ASSUME NEW S, NEW q \in Seq(S), NEW e \in S, NEW k \in 1 .. Len(q) + 1
  PROVE  InsertAt(q, k, e) \in Seq(S) /\ InsertedAt(InsertAt(q, k, e), q, k, e)
<1> DEFINE a == SubSeq(q, 1, k - 1)
           z == SubSeq(q, k, Len(q))
<1>1. a \in Seq(S) /\ Len(a) = k - 1 /\ \A j \in 1 .. k - 1 : a[j] = q[j]
  OBVIOUS
<1>2. z \in Seq(S) /\ Len(z) = Len(q) - k + 1 /\ \A j \in 1 .. Len(z) : z[j] = q[k + j - 1]
  OBVIOUS
<1>3. InsertAt(q, k, e) = (a \o <<e>>) \o z
  BY DEF InsertAt
<1> HIDE DEF a, z
<1>4. /\ a \o <<e>> \in Seq(S) /\ Len(a \o <<e>>) = k
      /\ \A j \in 1 .. k : (a \o <<e>>)[j] = IF j < k THEN q[j] ELSE e
  BY <1>1
<1> DEFINE ae == a \o <<e>>
<1> HIDE DEF ae
<1>5. /\ ae \o z \in Seq(S) /\ Len(ae \o z) = Len(q) + 1
      /\ \A j \in 1 .. Len(q) + 1 : (ae \o z)[j] = IF j <= k THEN ae[j] ELSE z[j - k]
  <2>1. ae \in Seq(S) /\ Len(ae) = k
    BY <1>4 DEF ae
  <2>2. /\ ae \o z \in Seq(S) /\ Len(ae \o z) = Len(ae) + Len(z)
        /\ \A j \in 1 .. Len(ae) + Len(z) :
             (ae \o z)[j] = IF j <= Len(ae) THEN ae[j] ELSE z[j - Len(ae)]
    BY <1>2, <2>1, Concat
  <2>3. Len(ae) + Len(z) = Len(q) + 1
    BY <1>2, <2>1
  <2> QED
    BY <2>1, <2>2, <2>3
<1>6. ASSUME NEW j \in 1 .. Len(q) + 1
      PROVE  (ae \o z)[j] = IF j < k THEN q[j] ELSE IF j = k THEN e ELSE q[j - 1]
  <2>1. CASE j <= k
    BY <1>4, <1>5, <2>1 DEF ae
  <2>2. CASE j > k
    <3>1. j - k \in 1 .. Len(z) /\ k + (j - k) - 1 = j - 1
      BY <1>2, <2>2
    <3> QED
      BY <1>2, <1>5, <2>2, <3>1
  <2>3. j <= k \/ j > k
    OBVIOUS
  <2> QED
    BY <2>1, <2>2, <2>3
<1> QED
  BY <1>3, <1>5, <1>6 DEF InsertedAt, ae

(* The members of a list with one put in: the others keep their order. *)
OneMore(r, q, k, e) ==
  /\ k \in 1 .. Len(r) /\ r[k] = e
  /\ \A i \in 1 .. Len(q) : \E j \in 1 .. Len(r) : r[j] = q[i]
  /\ \A j \in 1 .. Len(r) : j # k => \E i \in 1 .. Len(q) : r[j] = q[i]
  /\ \A j, l \in 1 .. Len(r) : j < l /\ j # k /\ l # k =>
       \E i, m \in 1 .. Len(q) : i < m /\ r[j] = q[i] /\ r[l] = q[m]

LEMMA InsertedMembers ==
  ASSUME NEW S, NEW q \in Seq(S), NEW r, NEW e, NEW k \in 1 .. Len(q) + 1,
         InsertedAt(r, q, k, e)
  PROVE  OneMore(r, q, k, e)
<1>1. Len(q) \in Nat /\ Len(r) = Len(q) + 1 /\ k \in Nat /\ k \in 1 .. Len(r)
  BY DEF InsertedAt
<1>2. \A j \in 1 .. Len(r) :
        r[j] = IF j < k THEN q[j] ELSE IF j = k THEN e ELSE q[j - 1]
  BY DEF InsertedAt
<1>3. ASSUME NEW i \in 1 .. Len(q) PROVE \E j \in 1 .. Len(r) : r[j] = q[i]
  <2>1. CASE i < k
    BY <1>1, <1>2, <2>1
  <2>2. CASE i >= k
    <3>1. i + 1 \in 1 .. Len(r) /\ ~ (i + 1 < k) /\ i + 1 # k /\ (i + 1) - 1 = i
      BY <1>1, <2>2
    <3> QED
      BY <1>2, <3>1
  <2> QED
    BY <1>1, <2>1, <2>2
<1> DEFINE old(j) == IF j < k THEN j ELSE j - 1
<1>4. ASSUME NEW j \in 1 .. Len(r), j # k PROVE old(j) \in 1 .. Len(q) /\ r[j] = q[old(j)]
  BY <1>1, <1>2, <1>4
<1>5. ASSUME NEW j \in 1 .. Len(r), NEW l \in 1 .. Len(r), j < l, j # k, l # k
      PROVE  old(j) < old(l)
  BY <1>1, <1>5
<1>6. r[k] = e
  BY <1>1, <1>2
<1> HIDE DEF old
<1>7. ASSUME NEW j \in 1 .. Len(r), NEW l \in 1 .. Len(r), j < l, j # k, l # k
      PROVE  \E i, m \in 1 .. Len(q) : i < m /\ r[j] = q[i] /\ r[l] = q[m]
  BY <1>4, <1>5, <1>7
<1>8. ASSUME NEW j \in 1 .. Len(r), j # k PROVE \E i \in 1 .. Len(q) : r[j] = q[i]
  BY <1>4, <1>8
<1> QED
  BY <1>1, <1>3, <1>6, <1>7, <1>8 DEF OneMore

(* add_request() links the new request behind one of the list. *)
LEMMA AddRequestInserts ==
  ASSUME NEW S, NEW q \in Seq(S), NEW e \in S
  PROVE  /\ AddRequest(q, e) \in Seq(S)
         /\ \E k \in 1 .. Len(q) + 1 :
              /\ InsertedAt(AddRequest(q, e), q, k, e)
              /\ \/ k - 1 \in Gaps(q, e)
                 \/ k = Len(q) + 1 /\ Gaps(q, e) = {}
<1> DEFINE G == Gaps(q, e) \cup {Len(q)}
           k == Min(G) + 1
<1>1. Gaps(q, e) \subseteq 1 .. Len(q) - 1
  BY DEF Gaps
<1>2. G \in SUBSET Nat /\ G # {} /\ \A g \in G : g <= Len(q)
  BY <1>1
<1>a. Gaps(q, e) \subseteq G /\ G \subseteq Gaps(q, e) \cup {Len(q)} /\ Len(q) \in Nat
  OBVIOUS
<1>3. Min(G) \in G /\ \A g \in G : Min(G) <= g
  <2> HIDE DEF G
  <2> QED
    BY <1>2, MinSmallest
<1>4. /\ k \in 1 .. Len(q) + 1
      /\ \/ k - 1 \in Gaps(q, e)
         \/ k = Len(q) + 1 /\ Gaps(q, e) = {}
  <2> HIDE DEF G
  <2>1. Min(G) \in Nat /\ Min(G) <= Len(q)
    BY <1>2, <1>3
  <2>2. CASE Gaps(q, e) = {}
    BY <1>3, <1>a, <2>1, <2>2
  <2>3. CASE Gaps(q, e) # {}
    <3>1. PICK g \in Gaps(q, e) : TRUE
      BY <2>3
    <3>2. g < Len(q) /\ g \in Nat /\ Min(G) <= g
      BY <1>1, <1>3, <1>a, <3>1
    <3>3. Min(G) < Len(q)
      BY <1>a, <2>1, <3>2
    <3> QED
      BY <1>3, <1>a, <2>1, <3>3
  <2> QED
    BY <2>2, <2>3
<1>5. AddRequest(q, e) = InsertAt(q, k, e)
  BY DEF AddRequest
<1> HIDE DEF k
<1> QED
  BY <1>4, <1>5, InsertAtInserts

(* The empty slot that is found is one the command may use. *)
LEMMA FindSlotFree ==
  ASSUME NEW q, NEW cmd, FreeSlots(q, cmd) # {}
  PROVE  FindSlot(q, cmd) \in FreeSlots(q, cmd) /\ FindSlot(q, cmd) \in Slots
<1> DEFINE F == FreeSlots(q, cmd)
<1>1. NR_REQUEST \in Nat /\ (2 * NR_REQUEST) \div 3 <= NR_REQUEST
  BY RequestAssumption
<1>2. (2 * NR_REQUEST) \div 3 \in Int
  BY <1>1
<1>3. F \in SUBSET (0 .. NR_REQUEST - 1)
  BY <1>1, <1>2 DEF FreeSlots, SlotsFor, Slots
<1>4. F \in SUBSET Int /\ F # {}
  BY <1>3
<1>5. FindSlot(q, cmd) = Max(F)
  BY DEF FindSlot
<1> HIDE DEF F
<1>6. IsFiniteSet(F)
  <2>1. 0 \in Int /\ NR_REQUEST - 1 \in Int
    BY <1>1
  <2> QED
    BY <1>3, <2>1, IntervalFinite
<1>7. Max(F) \in F
  BY <1>4, <1>6, MaxLargest
<1>8. Max(F) \in 0 .. NR_REQUEST - 1
  BY <1>3, <1>7
<1> QED
  BY <1>5, <1>7, <1>8 DEF F, Slots

-----------------------------------------------------------------------------
(* The elevator. *)

(* IN_ORDER is a strict order that decides between different positions. *)
LEMMA Ordered ==
  /\ \A a, b \in Requests : a.sector # b.sector => IN_ORDER(a, b) \/ IN_ORDER(b, a)
  /\ \A a, b \in Requests : IN_ORDER(a, b) => ~IN_ORDER(b, a)
<1>1. \A a \in Requests : a.sector \in Nat /\ a.cmd \in Nat
  <2>1. \A a \in Requests : a.sector \in Sectors /\ a.cmd \in Commands
    BY DEF Requests
  <2>2. Sectors \subseteq Nat /\ Commands \subseteq Nat
    BY RequestAssumption DEF Commands, READ, WRITE
  <2> QED
    BY <2>1, <2>2
<1>2. ASSUME NEW a \in Requests, NEW b \in Requests
      PROVE  /\ a.sector # b.sector => IN_ORDER(a, b) \/ IN_ORDER(b, a)
             /\ IN_ORDER(a, b) => ~IN_ORDER(b, a)
  <2>1. a.sector \in Nat /\ a.cmd \in Nat /\ b.sector \in Nat /\ b.cmd \in Nat
    BY <1>1
  <2> QED
    BY <2>1 DEF IN_ORDER
<1> QED
  BY <1>2

Back(q) == {i \in 1 .. Len(q) - 1 : ~IN_ORDER(q[i], q[i + 1])}

(* Put into a gap, a request does not make the list go back once more. *)
LEMMA GapKeepsSweeps ==
  ASSUME NEW q \in Seq(Requests), NEW r, NEW e, NEW g \in Gaps(q, e),
         InsertedAt(r, q, g + 1, e), \A i, j \in Back(q) : i = j
  PROVE  \A i, j \in Back(r) : i = j
<1>1. /\ g \in 1 .. Len(q) - 1 /\ IN_ORDER(e, q[g + 1])
      /\ IN_ORDER(q[g], e) \/ ~IN_ORDER(q[g], q[g + 1])
  BY DEF Gaps
<1>2. Len(q) \in Nat /\ g \in Nat /\ Len(r) = Len(q) + 1
  BY <1>1 DEF InsertedAt
<1>3. \A j \in 1 .. Len(q) + 1 :
        r[j] = IF j < g + 1 THEN q[j] ELSE IF j = g + 1 THEN e ELSE q[j - 1]
  BY DEF InsertedAt
<1> DEFINE old(j) == IF j <= g THEN j ELSE j - 1
<1>4. ASSUME NEW j \in Back(r) PROVE j # g + 1 /\ old(j) \in Back(q)
  <2>1. j \in 1 .. Len(q) /\ ~IN_ORDER(r[j], r[j + 1]) /\ j + 1 \in 1 .. Len(q) + 1
    BY <1>2 DEF Back
  <2>2. CASE j < g
    <3>1. r[j] = q[j] /\ r[j + 1] = q[j + 1]
      BY <1>2, <1>3, <2>1, <2>2
    <3> QED
      BY <1>1, <1>2, <2>1, <2>2, <3>1 DEF Back
  <2>3. CASE j = g
    <3>1. r[j] = q[g] /\ r[j + 1] = e
      BY <1>2, <1>3, <2>1, <2>3
    <3> QED
      BY <1>1, <1>2, <2>1, <2>3, <3>1 DEF Back
  <2>4. CASE j = g + 1
    <3>1. r[j] = e /\ r[j + 1] = q[g + 1]
      BY <1>2, <1>3, <2>1, <2>4
    <3> QED
      BY <1>1, <2>1, <3>1
  <2>5. CASE j > g + 1
    <3>1. r[j] = q[j - 1] /\ r[j + 1] = q[j - 1 + 1]
      BY <1>2, <1>3, <2>1, <2>5
    <3> QED
      BY <1>1, <1>2, <2>1, <2>5, <3>1 DEF Back
  <2> QED
    BY <1>2, <2>1, <2>2, <2>3, <2>4, <2>5
<1> SUFFICES ASSUME NEW i \in Back(r), NEW j \in Back(r) PROVE i = j
  OBVIOUS
<1>5. old(i) = old(j) /\ i # g + 1 /\ j # g + 1
  BY <1>4
<1>6. i \in Int /\ j \in Int
  BY DEF Back
<1> QED
  BY <1>2, <1>5, <1>6

(* If it fits nowhere and goes back at the end, the list did not go back   *)
(* before: behind the place where it did, some request would have to be    *)
(* the first that comes after the new one, which is a gap.                 *)
LEMMA EndKeepsSweeps ==
  ASSUME NEW q \in Seq(Requests), NEW r, NEW e \in Requests, Gaps(q, e) = {},
         \A i \in 1 .. Len(q) : q[i].sector # e.sector,
         InsertedAt(r, q, Len(q) + 1, e), \A i, j \in Back(q) : i = j
  PROVE  \A i, j \in Back(r) : i = j
<1>1. Len(q) \in Nat /\ Len(r) = Len(q) + 1
  BY DEF InsertedAt
<1>2. (\A j \in 1 .. Len(q) : r[j] = q[j]) /\ r[Len(q) + 1] = e
  BY <1>1 DEF InsertedAt
<1>3. ASSUME NEW j \in Back(r), j # Len(q) PROVE j \in Back(q)
  <2>1. /\ j \in 1 .. Len(q) - 1 /\ j \in 1 .. Len(q) /\ j + 1 \in 1 .. Len(q)
        /\ ~IN_ORDER(r[j], r[j + 1])
    BY <1>1, <1>3 DEF Back
  <2> QED
    BY <1>2, <2>1 DEF Back
<1>4. ASSUME Len(q) \in Back(r) PROVE Back(q) = {}
  <2> SUFFICES ASSUME NEW d \in Back(q) PROVE FALSE
    OBVIOUS
  <2> DEFINE n == Len(q)
             S == {i \in d .. n - 1 : IN_ORDER(e, q[i + 1])}
  <2>1. n \in 1 .. n /\ ~IN_ORDER(q[n], e)
    BY <1>1, <1>2, <1>4 DEF Back
  <2>2. \A i \in 1 .. n : IN_ORDER(q[i], e) \/ IN_ORDER(e, q[i])
    BY Ordered
  <2>3. d \in 1 .. n - 1 /\ ~IN_ORDER(q[d], q[d + 1])
    BY DEF Back
  <2>4. n - 1 \in S /\ S \in SUBSET Nat
    <3>1. n - 1 + 1 = n /\ n - 1 \in d .. n - 1
      BY <1>1, <2>3
    <3> QED
      BY <2>1, <2>2, <2>3, <3>1
  <2>5. Min(S) \in S /\ \A y \in S : Min(S) <= y
    <3> HIDE DEF S
    <3> QED
      BY <2>4, MinSmallest
  <2>6. PICK m : m = Min(S)
    OBVIOUS
  <2>7. m \in d .. n - 1 /\ IN_ORDER(e, q[m + 1]) /\ m \in 1 .. n - 1
    BY <2>3, <2>5, <2>6
  <2>8. CASE m = d
    BY <2>3, <2>7, <2>8 DEF Gaps
  <2>9. CASE m # d
    <3>1. m - 1 \in d .. n - 1 /\ m - 1 + 1 = m /\ m \in 1 .. n /\ ~ (m <= m - 1)
      BY <1>1, <2>3, <2>7, <2>9
    <3>2. m - 1 \notin S
      BY <2>5, <2>6, <3>1
    <3>3. ~IN_ORDER(e, q[m])
      BY <3>1, <3>2
    <3>4. IN_ORDER(q[m], e)
      BY <2>2, <3>1, <3>3
    <3> QED
      BY <2>7, <3>4 DEF Gaps
  <2> QED
    BY <2>8, <2>9
<1> QED
  BY <1>3, <1>4

LEMMA AddKeepsSweeps ==
  ASSUME NEW q \in Seq(Requests), NEW e \in Requests,
         \A i \in 1 .. Len(q) : q[i].sector # e.sector,
         \A i, j \in Back(q) : i = j
  PROVE  \A i, j \in Back(AddRequest(q, e)) : i = j
<1>1. PICK k \in 1 .. Len(q) + 1 :
        /\ InsertedAt(AddRequest(q, e), q, k, e)
        /\ \/ k - 1 \in Gaps(q, e)
           \/ k = Len(q) + 1 /\ Gaps(q, e) = {}
  BY AddRequestInserts
<1>2. CASE k - 1 \in Gaps(q, e)
  <2>1. PICK g \in Gaps(q, e) : g = k - 1
    BY <1>2
  <2>2. InsertedAt(AddRequest(q, e), q, g + 1, e)
    BY <1>1, <2>1
  <2> QED
    BY <2>2, GapKeepsSweeps
<1>3. CASE k = Len(q) + 1 /\ Gaps(q, e) = {}
  BY <1>1, <1>3, EndKeepsSweeps
<1> QED
  BY <1>1, <1>2, <1>3

-----------------------------------------------------------------------------
(* The table request[]. *)

SlotsDistinct == \A i, j \in 1 .. Len(rq) : rq[i].slot = rq[j].slot => i = j

(* A write is never in the last third. *)
SlotsRight == \A i \in 1 .. Len(rq) : rq[i].slot \in SlotsFor(rq[i].cmd)

QueueIInv == rq \in Seq(Requests) /\ SlotsDistinct /\ SlotsRight /\ TwoSweeps

LEMMA IntervalCounted ==
  ASSUME NEW n \in Nat
  PROVE  /\ IsFiniteSet(0 .. n - 1) /\ Cardinality(0 .. n - 1) = n
         /\ Cardinality(1 .. n) = n
<1>1. n - 1 \in Int /\ 0 \in Int /\ 1 \in Int /\ n \in Int
  OBVIOUS
<1>2. /\ IsFiniteSet(0 .. n - 1)
      /\ Cardinality(0 .. n - 1) = IF 0 > n - 1 THEN 0 ELSE n - 1 - 0 + 1
  BY <1>1, FS_Interval
<1>3. Cardinality(1 .. n) = IF 1 > n THEN 0 ELSE n - 1 + 1
  BY <1>1, FS_Interval
<1> QED
  BY <1>2, <1>3

(* There are as many requests as slots in use, so no more than slots. *)
LEMMA LengthBounded == ASSUME QueueIInv PROVE Len(rq) <= NR_REQUEST
<1> DEFINE I == 1 .. Len(rq)
           f == [i \in I |-> rq[i].slot]
<1>0. Len(rq) \in Nat /\ NR_REQUEST \in Nat
  BY RequestAssumption DEF QueueIInv
<1>1. \A i \in I : rq[i] \in Requests
  BY DEF QueueIInv
<1>2. \A i \in I : rq[i].slot \in Slots
  BY <1>1 DEF Requests
<1>3. f \in Injection(I, Slots)
  BY <1>2 DEF Injection, IsInjective, QueueIInv, SlotsDistinct
<1>4. IsFiniteSet(Slots) /\ Cardinality(Slots) = NR_REQUEST
  BY <1>0, IntervalCounted DEF Slots
<1>5. Cardinality(I) = Len(rq)
  BY <1>0, IntervalCounted
<1> HIDE DEF I, f
<1>6. Cardinality(I) <= Cardinality(Slots)
  BY <1>3, <1>4, FS_Injection
<1> QED
  BY <1>4, <1>5, <1>6

(* When no slot is free, every slot of the last third has a request, which *)
(* can only be a read.                                                     *)
LEMMA RoomForReads ==
  ASSUME QueueIInv, FreeSlots(rq, READ) = {}
  PROVE  Quantify(ToSet(rq), LAMBDA r : r.cmd = READ) >= NR_REQUEST - (2 * NR_REQUEST) \div 3
<1> DEFINE W == (2 * NR_REQUEST) \div 3
           L == W .. NR_REQUEST - 1
           I == 1 .. Len(rq)
           R == {r \in ToSet(rq) : r.cmd = READ}
           f == [s \in L |-> CHOOSE r \in R : r.slot = s]
<1>0. NR_REQUEST \in Nat /\ W \in Nat /\ W <= NR_REQUEST /\ Len(rq) \in Nat
  BY RequestAssumption DEF QueueIInv
<1>1. ToSet(rq) = {rq[i] : i \in I}
  BY DEF ToSet, QueueIInv
<1>2. \A i \in I : rq[i] \in Requests /\ rq[i].slot \in SlotsFor(rq[i].cmd)
  BY DEF QueueIInv, SlotsRight
<1>3. ASSUME NEW s \in L PROVE \E r \in R : r.slot = s
  <2>1. s \in Slots
    BY <1>0 DEF Slots
  <2>2. PICK i \in I : rq[i].slot = s
    BY <1>1, <2>1 DEF FreeSlots, SlotsFor
  <2>3. rq[i].cmd = READ
    <3>1. s \notin 0 .. W - 1
      BY <1>0
    <3> QED
      BY <1>2, <2>2, <3>1 DEF SlotsFor
  <2> QED
    BY <1>1, <2>2, <2>3
<1>4. f \in Injection(L, R)
  <2>1. \A s \in L : f[s] \in R /\ f[s].slot = s
    BY <1>3
  <2> HIDE DEF R
  <2> QED
    BY <2>1 DEF Injection, IsInjective
<1>5. IsFiniteSet(R)
  <2> DEFINE T == {rq[i] : i \in I}
             g == [i \in I |-> rq[i]]
  <2>1. g \in Surjection(I, T)
    BY DEF Surjection
  <2>2. IsFiniteSet(I)
    BY <1>0, FS_Interval
  <2>3. R \subseteq T
    BY <1>1
  <2> HIDE DEF I, T, g, R
  <2>4. IsFiniteSet(T)
    BY <2>1, <2>2, FS_Surjection
  <2> QED
    BY <2>3, <2>4, FS_Subset
<1>6. Cardinality(L) = NR_REQUEST - W
  BY <1>0, FS_Interval
<1>7. Quantify(ToSet(rq), LAMBDA r : r.cmd = READ) = Cardinality(R)
  BY DEF Quantify
<1> HIDE DEF L, R, f
<1>8. Cardinality(L) <= Cardinality(R) /\ Cardinality(R) \in Nat
  BY <1>4, <1>5, FS_Injection, FS_CardinalityType
<1> HIDE DEF W
<1>9. NR_REQUEST - W \in Int
  BY <1>0
<1>10. Cardinality(R) >= NR_REQUEST - W
  BY <1>6, <1>8, <1>9
<1> QED
  BY <1>7, <1>10 DEF W

LEMMA QueueSound == ASSUME QueueIInv PROVE RequestTypeOK /\ TwoSweeps /\ ReadsFindRoom
BY LengthBounded, RoomForReads
   DEF QueueIInv, RequestTypeOK, ReadsFindRoom, SlotsDistinct

LEMMA SweepsBack == TwoSweeps <=> \A i, j \in Back(rq) : i = j
BY DEF TwoSweeps, Descents, Back

(* make_request() *)
LEMMA MakeKeeps ==
  ASSUME QueueIInv, NEW cmd \in Commands, NEW s \in Sectors, MakeRequest(cmd, s)
  PROVE  /\ QueueIInv'
         /\ \E req \in Requests, k \in 1 .. Len(rq) + 1 :
              /\ InsertedAt(rq', rq, k, req)
              /\ rq # << >> => k # 1
<1> DEFINE req == [slot |-> FindSlot(rq, cmd), cmd |-> cmd, sector |-> s]
<1>0. rq \in Seq(Requests)
  BY DEF QueueIInv
<1>1. FindSlot(rq, cmd) \in FreeSlots(rq, cmd) /\ FindSlot(rq, cmd) \in Slots
  BY FindSlotFree DEF MakeRequest
<1>2. /\ req \in Requests /\ req.sector = s /\ req.cmd = cmd
      /\ req.slot \in FreeSlots(rq, cmd)
  BY <1>1 DEF Requests
<1>3. rq' = AddRequest(rq, req) /\ ~Queued(s)
  BY DEF MakeRequest
<1> HIDE DEF req
<1>4. PICK k \in 1 .. Len(rq) + 1 :
        /\ InsertedAt(rq', rq, k, req)
        /\ \/ k - 1 \in Gaps(rq, req)
           \/ k = Len(rq) + 1 /\ Gaps(rq, req) = {}
  BY <1>0, <1>2, <1>3, AddRequestInserts
<1>5. rq' \in Seq(Requests)
  BY <1>0, <1>2, <1>3, AddRequestInserts
<1>6. OneMore(rq', rq, k, req)
  BY <1>0, <1>4, InsertedMembers
<1>7. \A i \in 1 .. Len(rq) : rq[i].slot # req.slot
  BY <1>0, <1>2 DEF FreeSlots, ToSet
<1>8. SlotsDistinct'
  <2>1. ASSUME NEW i \in 1 .. Len(rq'), NEW j \in 1 .. Len(rq'), i < j,
               rq'[i].slot = rq'[j].slot
        PROVE  FALSE
    <3>1. CASE i # k /\ j # k
      <4>1. PICK m, o \in 1 .. Len(rq) : m < o /\ rq'[i] = rq[m] /\ rq'[j] = rq[o]
        BY <1>6, <2>1, <3>1 DEF OneMore
      <4> QED
        BY <2>1, <4>1 DEF QueueIInv, SlotsDistinct
    <3>2. CASE i = k
      <4>1. PICK m \in 1 .. Len(rq) : rq'[j] = rq[m]
        BY <1>6, <2>1, <3>2 DEF OneMore
      <4> QED
        BY <1>6, <1>7, <2>1, <3>2, <4>1 DEF OneMore
    <3>3. CASE j = k
      <4>1. PICK m \in 1 .. Len(rq) : rq'[i] = rq[m]
        BY <1>6, <2>1, <3>3 DEF OneMore
      <4> QED
        BY <1>6, <1>7, <2>1, <3>3, <4>1 DEF OneMore
    <3> QED
      BY <3>1, <3>2, <3>3
  <2> SUFFICES ASSUME NEW i \in 1 .. Len(rq'), NEW j \in 1 .. Len(rq'), i # j,
                      rq'[i].slot = rq'[j].slot
               PROVE  FALSE
    BY DEF SlotsDistinct
  <2>2. i < j \/ j < i
    OBVIOUS
  <2> QED
    BY <2>1, <2>2
<1>9. SlotsRight'
  <2> SUFFICES ASSUME NEW i \in 1 .. Len(rq') PROVE rq'[i].slot \in SlotsFor(rq'[i].cmd)
    BY DEF SlotsRight
  <2>1. CASE i = k
    BY <1>2, <1>6, <2>1 DEF OneMore, FreeSlots
  <2>2. CASE i # k
    <3>1. PICK m \in 1 .. Len(rq) : rq'[i] = rq[m]
      BY <1>6, <2>2 DEF OneMore
    <3> QED
      BY <3>1 DEF QueueIInv, SlotsRight
  <2> QED
    BY <2>1, <2>2
<1>10. TwoSweeps'
  <2>1. \A i \in 1 .. Len(rq) : rq[i].sector # req.sector
    BY <1>2, <1>3 DEF Queued
  <2>2. \A i, j \in Back(rq) : i = j
    BY SweepsBack DEF QueueIInv
  <2>3. \A i, j \in Back(rq') : i = j
    BY <1>0, <1>2, <1>3, <2>1, <2>2, AddKeepsSweeps
  <2> QED
    BY <2>3 DEF TwoSweeps, Descents, Back
<1>11. rq # << >> => k # 1
  BY <1>0, <1>4 DEF Gaps
<1> QED
  BY <1>2, <1>4, <1>5, <1>8, <1>9, <1>10, <1>11 DEF QueueIInv

(* end_request() *)
LEMMA EndKeeps ==
  ASSUME QueueIInv, rq # << >>, rq' = EndRequest(rq)
  PROVE  QueueIInv' /\ Len(rq') = Len(rq) - 1
<1>1. /\ rq' \in Seq(Requests) /\ Len(rq') = Len(rq) - 1 /\ Len(rq) \in Nat
      /\ \A i \in 1 .. Len(rq') : rq'[i] = rq[i + 1] /\ i + 1 \in 1 .. Len(rq)
  BY DEF QueueIInv, EndRequest
<1>2. SlotsRight'
  BY <1>1 DEF QueueIInv, SlotsRight
<1>3. SlotsDistinct'
  <2> SUFFICES ASSUME NEW i \in 1 .. Len(rq'), NEW j \in 1 .. Len(rq'),
                      rq'[i].slot = rq'[j].slot
               PROVE  i = j
    BY DEF SlotsDistinct
  <2>1. i + 1 = j + 1
    BY <1>1 DEF QueueIInv, SlotsDistinct
  <2> QED
    BY <2>1
<1>4. TwoSweeps'
  <2>1. ASSUME NEW i \in Descents' PROVE i \in Int /\ i + 1 \in Descents
    <3>1. i \in 1 .. Len(rq') - 1 /\ ~IN_ORDER(rq'[i], rq'[i + 1])
      BY DEF Descents
    <3>2. i \in 1 .. Len(rq') /\ i + 1 \in 1 .. Len(rq')
      BY <1>1, <3>1
    <3>3. rq'[i] = rq[i + 1] /\ rq'[i + 1] = rq[i + 1 + 1]
      BY <1>1, <3>2
    <3>4. i + 1 \in 1 .. Len(rq) - 1
      BY <1>1, <3>1
    <3> QED
      BY <3>1, <3>3, <3>4 DEF Descents
  <2> SUFFICES ASSUME NEW i \in Descents', NEW j \in Descents' PROVE i = j
    BY DEF TwoSweeps
  <2>2. i + 1 = j + 1 /\ i \in Int /\ j \in Int
    BY <2>1 DEF QueueIInv, TwoSweeps
  <2> QED
    BY <2>2
<1> QED
  BY <1>1, <1>2, <1>3, <1>4 DEF QueueIInv

----------------------------------------------------------------------------
(* The hard disk driver, for any number of request slots, positions and    *)
(* permitted errors: its state stays consistent, a block reported as up to *)
(* date was moved as a whole, and the request queue under it behaves as    *)
(* RequestQueue says.                                                      *)

(* HdTypeOK without the bound on the length of the queue. *)
DriverTypeOK ==
  /\ cur \in [errors : 0 .. MAX_ERRORS - 1, sector : BlockSectors,
              buffer : BlockSectors, nr_sectors : 1 .. 2]
  /\ reset \in BOOLEAN /\ recalibrate \in BOOLEAN /\ uptodate \in BOOLEAN
  /\ do_hd \in {"none", "read_intr", "write_intr", "recal_intr"}
  /\ ctl \in [op : {"idle", "specify", "restore", "read", "write"},
              sector : BlockSectors, nr : 0 .. 2]
  /\ at \in {"idle", "repeat", "drq"}
  /\ moved \subseteq BlockSectors

(* The driver and the controller agree about the sector they are at, and   *)
(* the sectors before it have been moved.                                  *)
InStep ==
  /\ cur.buffer = cur.sector /\ cur.nr_sectors = 2 - cur.sector
  /\ cur.sector = 1 => 0 \in moved
  /\ ctl.op \in {"read", "write"} => ctl.sector = cur.sector /\ ctl.nr = cur.nr_sectors
  /\ at = "repeat" => ctl.op = "idle"
  /\ at = "drq" => ctl.op = "write" /\ rq # << >>

HdIInv == QueueIInv /\ DriverTypeOK /\ NeverIdle /\ InStep

CurSet == [errors : 0 .. MAX_ERRORS - 1, sector : BlockSectors,
           buffer : BlockSectors, nr_sectors : 1 .. 2]

LEMMA SameQueue == ASSUME QueueIInv, UNCHANGED rq PROVE QueueIInv'
BY DEF QueueIInv, SlotsDistinct, SlotsRight, TwoSweeps, Descents

LEMMA CurFacts ==
  ASSUME HdIInv
  PROVE  /\ cur \in CurSet /\ cur.errors \in 0 .. MAX_ERRORS - 1
         /\ \/ cur.sector = 0 /\ cur.buffer = 0 /\ cur.nr_sectors = 2
            \/ cur.sector = 1 /\ cur.buffer = 1 /\ cur.nr_sectors = 1
BY DEF HdIInv, DriverTypeOK, InStep, CurSet, BlockSectors

LEMMA FreshFacts ==
  /\ Fresh \in CurSet /\ Fresh.sector = 0 /\ Fresh.buffer = 0 /\ Fresh.nr_sectors = 2
BY HardDiskAssumption DEF Fresh, CurSet, BlockSectors

(* CURRENT after an error: one more error, or the next request. *)
LEMMA BadKeeps ==
  ASSUME HdIInv, rq # << >>, bad_rw_intr
  PROVE  /\ QueueIInv' /\ cur' \in CurSet /\ reset' \in BOOLEAN /\ uptodate' \in BOOLEAN
         /\ cur'.buffer = cur'.sector /\ cur'.nr_sectors = 2 - cur'.sector
         /\ cur'.sector = 1 => cur.sector = 1
         /\ Len(rq') < Len(rq) => ~uptodate'
<1>0. QueueIInv /\ reset \in BOOLEAN /\ uptodate \in BOOLEAN /\ MAX_ERRORS \in Nat \ {0}
  BY HardDiskAssumption DEF HdIInv, DriverTypeOK
<1>1. CASE cur.errors + 1 >= MAX_ERRORS
  <2>1. rq' = EndRequest(rq) /\ cur' = Fresh /\ uptodate' = FALSE /\ reset' \in {reset, TRUE}
    BY <1>1 DEF bad_rw_intr, end_request
  <2>2. QueueIInv'
    BY <1>0, <2>1, EndKeeps
  <2>3. reset' \in BOOLEAN /\ uptodate' \in BOOLEAN /\ ~uptodate'
    BY <1>0, <2>1
  <2>4. /\ cur' \in CurSet /\ cur'.buffer = cur'.sector /\ cur'.nr_sectors = 2 - cur'.sector
        /\ cur'.sector # 1
    BY <2>1, FreshFacts
  <2> QED
    BY <2>2, <2>3, <2>4
<1>2. CASE ~(cur.errors + 1 >= MAX_ERRORS)
  <2>1. /\ cur' = [cur EXCEPT !.errors = cur.errors + 1]
        /\ reset' = (reset \/ cur.errors + 1 > MAX_ERRORS \div 2)
        /\ UNCHANGED <<rq, uptodate>>
    BY <1>2 DEF bad_rw_intr
  <2>2. QueueIInv'
    BY <1>0, <2>1, SameQueue
  <2>3. cur.errors + 1 \in 0 .. MAX_ERRORS - 1
    BY <1>0, <1>2, CurFacts
  <2>4. /\ cur' \in CurSet /\ cur'.buffer = cur.buffer /\ cur'.sector = cur.sector
        /\ cur'.nr_sectors = cur.nr_sectors
    BY <2>1, <2>3, CurFacts DEF CurSet
  <2>5. Len(rq') = Len(rq) /\ Len(rq) \in Nat
    BY <1>0, <2>1 DEF QueueIInv
  <2> QED
    BY <1>0, <2>1, <2>2, <2>4, <2>5, CurFacts
<1> QED
  BY <1>1, <1>2

LEMMA IdleFacts ==
  /\ IdleController \in [op : {"idle", "specify", "restore", "read", "write"},
                         sector : BlockSectors, nr : 0 .. 2]
  /\ IdleController.op = "idle"
BY DEF IdleController, BlockSectors

(* After an error the driver starts again at the label repeat. *)
LEMMA ErrorKeeps ==
  ASSUME HdIInv, rq # << >>, bad_rw_intr, ctl' = IdleController, at' = "repeat",
         do_hd' \in {"none", do_hd}, UNCHANGED <<recalibrate, moved>>
  PROVE  HdIInv'
<1>1. /\ QueueIInv' /\ cur' \in CurSet /\ reset' \in BOOLEAN /\ uptodate' \in BOOLEAN
      /\ cur'.buffer = cur'.sector /\ cur'.nr_sectors = 2 - cur'.sector
      /\ cur'.sector = 1 => cur.sector = 1
  BY BadKeeps
<1>2. DriverTypeOK'
  BY <1>1, IdleFacts DEF HdIInv, DriverTypeOK, CurSet
<1>3. NeverIdle'
  BY IdleFacts DEF NeverIdle
<1>4. InStep'
  BY <1>1, IdleFacts DEF HdIInv, InStep
<1> QED
  BY <1>1, <1>2, <1>3, <1>4 DEF HdIInv

(* At an interrupt there is a request. *)
LEMMA InterruptFacts ==
  ASSUME HdIInv, NEW handler, Interrupted(handler)
  PROVE  /\ rq # << >> /\ at = "idle" /\ do_hd = handler
         /\ handler = "read_intr" => ctl.op = "read"
         /\ handler = "write_intr" => ctl.op = "write"
<1>1. /\ ctl.op \in {"idle", "specify", "restore", "read", "write"}
      /\ at = "idle" /\ ctl.op # "idle" /\ do_hd = handler
  BY DEF HdIInv, DriverTypeOK, Interrupted
<1> QED
  BY <1>1 DEF HdIInv, NeverIdle

LEMMA ErrorsKeep ==
  ASSUME HdIInv, ReadError \/ WriteError \/ NoDataRequest PROVE HdIInv'
<1>1. CASE ReadError
  BY <1>1, InterruptFacts, ErrorKeeps DEF ReadError
<1>2. CASE WriteError
  BY <1>2, InterruptFacts, ErrorKeeps DEF WriteError
<1>3. CASE NoDataRequest
  BY <1>3, ErrorKeeps DEF NoDataRequest, HdIInv, InStep
<1> QED
  BY <1>1, <1>2, <1>3

LEMMA RecalKeeps == ASSUME HdIInv, recal_intr PROVE HdIInv'
<1>1. /\ rq # << >> /\ Interrupted("recal_intr")
  BY InterruptFacts DEF recal_intr
<1>2. /\ do_hd' = "none" /\ ctl' = IdleController /\ at' = "repeat"
      /\ UNCHANGED <<recalibrate, moved>>
  BY DEF recal_intr
<1>3. CASE bad_rw_intr
  BY <1>1, <1>2, <1>3, ErrorKeeps
<1>4. CASE UNCHANGED <<rq, cur, reset, uptodate>>
  <2>1. QueueIInv'
    BY <1>4, SameQueue DEF HdIInv
  <2>2. DriverTypeOK' /\ NeverIdle' /\ InStep'
    BY <1>2, <1>4, IdleFacts DEF HdIInv, DriverTypeOK, NeverIdle, InStep
  <2> QED
    BY <2>1, <2>2 DEF HdIInv
<1> QED
  BY <1>3, <1>4 DEF recal_intr

-----------------------------------------------------------------------------
(* A sector moves: the driver and the controller advance together. *)
LEMMA SectorKeeps ==
  ASSUME HdIInv, NEW e \in 0 .. MAX_ERRORS - 1,
         \/ ctl.op = "read" /\ do_hd = "read_intr"
         \/ ctl.op = "write" /\ do_hd = "write_intr",
         at = "idle", rq # << >>,
         Transfer(ctl.sector),
         IF cur.nr_sectors > 1
         THEN /\ cur' = Advanced([cur EXCEPT !.errors = e])
              /\ ctl' = [ctl EXCEPT !.sector = @ + 1, !.nr = @ - 1]
              /\ UNCHANGED <<rq, uptodate, do_hd, at>>
         ELSE /\ end_request(TRUE)
              /\ do_hd' = "none" /\ ctl' = IdleController
              /\ at' = "repeat",
         UNCHANGED <<reset, recalibrate>>
  PROVE  /\ HdIInv'
         /\ Len(rq') < Len(rq) => moved' = BlockSectors
<1>0. QueueIInv /\ DriverTypeOK /\ NeverIdle /\ InStep
  BY DEF HdIInv
<1> USE <1>0
<1>1. ctl.sector = cur.sector /\ ctl.nr = cur.nr_sectors /\ ctl.op # "idle"
  BY DEF InStep
<1>2. moved' = moved \cup {cur.sector}
  BY <1>1 DEF Transfer, InStep
<1>3. CASE cur.sector = 0
  <2>0. cur.buffer = 0 /\ cur.nr_sectors = 2 /\ cur \in CurSet
    BY <1>3, CurFacts
  <2> DEFINE c == [cur EXCEPT !.errors = e]
  <2>1. c \in CurSet /\ c.sector = 0 /\ c.buffer = 0 /\ c.nr_sectors = 2 /\ c.errors = e
    BY <1>3, <2>0 DEF CurSet
  <2>2. cur' = [c EXCEPT !.sector = c.sector + 1, !.buffer = c.buffer + 1,
                         !.nr_sectors = c.nr_sectors - 1]
    BY <2>0 DEF Advanced
  <2> HIDE DEF c
  <2>3. cur' = [errors |-> e, sector |-> 1, buffer |-> 1, nr_sectors |-> 1]
    <3> DEFINE c1 == [c EXCEPT !.sector = c.sector + 1]
               c2 == [c1 EXCEPT !.buffer = c.buffer + 1]
               c3 == [c2 EXCEPT !.nr_sectors = c.nr_sectors - 1]
    <3>1. c = [errors |-> e, sector |-> 0, buffer |-> 0, nr_sectors |-> 2]
      BY <2>1 DEF CurSet
    <3>2. c1 = [errors |-> e, sector |-> 1, buffer |-> 0, nr_sectors |-> 2]
      BY <3>1
    <3>3. cur' = c3
      BY <2>2
    <3> HIDE DEF c1
    <3>4. c2 = [errors |-> e, sector |-> 1, buffer |-> 1, nr_sectors |-> 2]
      BY <3>1, <3>2
    <3> HIDE DEF c2
    <3>5. c3 = [errors |-> e, sector |-> 1, buffer |-> 1, nr_sectors |-> 1]
      BY <3>1, <3>4
    <3> HIDE DEF c3
    <3> QED
      BY <3>3, <3>5
  <2>4. /\ ctl' = [ctl EXCEPT !.sector = ctl.sector + 1, !.nr = ctl.nr - 1]
        /\ UNCHANGED <<rq, uptodate, do_hd, at, reset, recalibrate>>
    BY <2>0
  <2>5. ctl' = [op |-> ctl.op, sector |-> 1, nr |-> 1]
    <3> DEFINE c1 == [ctl EXCEPT !.sector = ctl.sector + 1]
               c2 == [c1 EXCEPT !.nr = ctl.nr - 1]
    <3>1. ctl = [op |-> ctl.op, sector |-> 0, nr |-> 2]
      BY <1>1, <1>3, <2>0 DEF DriverTypeOK
    <3>2. c1 = [op |-> ctl.op, sector |-> 1, nr |-> 2]
      BY <3>1
    <3>3. ctl' = c2
      BY <2>4
    <3> HIDE DEF c1
    <3>4. c2 = [op |-> ctl.op, sector |-> 1, nr |-> 1]
      BY <3>1, <3>2
    <3> HIDE DEF c2
    <3> QED
      BY <3>3, <3>4
  <2>6. QueueIInv'
    BY <2>4, SameQueue
  <2>7. DriverTypeOK'
    BY <1>2, <1>3, <2>3, <2>4, <2>5 DEF DriverTypeOK, BlockSectors
  <2>8. NeverIdle'
    BY <2>4, <2>5 DEF NeverIdle
  <2>9. InStep'
    BY <1>2, <1>3, <2>3, <2>4, <2>5 DEF InStep
  <2>10. Len(rq') = Len(rq) /\ Len(rq) \in Nat
    BY <2>4 DEF QueueIInv
  <2> QED
    BY <2>6, <2>7, <2>8, <2>9, <2>10 DEF HdIInv
<1>4. CASE cur.sector = 1
  <2>0. cur.buffer = 1 /\ cur.nr_sectors = 1
    BY <1>4, CurFacts
  <2>1. /\ rq' = EndRequest(rq) /\ cur' = Fresh /\ uptodate' = TRUE /\ do_hd' = "none"
        /\ ctl' = IdleController /\ at' = "repeat"
    BY <2>0 DEF end_request
  <2>2. moved' = BlockSectors
    BY <1>2, <1>4 DEF InStep, DriverTypeOK, BlockSectors
  <2>3. QueueIInv'
    BY <2>1, EndKeeps
  <2>4. DriverTypeOK'
    BY <2>1, <2>2, IdleFacts, FreshFacts DEF DriverTypeOK, CurSet
  <2>5. NeverIdle' /\ InStep'
    BY <2>1, IdleFacts, FreshFacts DEF NeverIdle, InStep
  <2> QED
    BY <2>2, <2>3, <2>4, <2>5 DEF HdIInv
<1> QED
  BY <1>3, <1>4, CurFacts

LEMMA SectorsKeep ==
  ASSUME HdIInv, ReadSector \/ WriteSector
  PROVE  HdIInv' /\ (Len(rq') < Len(rq) => moved' = BlockSectors)
<1>0. 0 \in 0 .. MAX_ERRORS - 1 /\ cur.errors \in 0 .. MAX_ERRORS - 1
  BY HardDiskAssumption, CurFacts
<1>1. CASE ReadSector
  <2>1. Interrupted("read_intr")
    BY <1>1 DEF ReadSector
  <2>2. rq # << >> /\ at = "idle" /\ do_hd = "read_intr" /\ ctl.op = "read"
    BY <2>1, InterruptFacts
  <2> QED
    BY <1>0, <1>1, <2>2, SectorKeeps DEF ReadSector
<1>2. CASE WriteSector
  <2>1. Interrupted("write_intr")
    BY <1>2 DEF WriteSector
  <2>2. rq # << >> /\ at = "idle" /\ do_hd = "write_intr" /\ ctl.op = "write"
    BY <2>1, InterruptFacts
  <2>3. cur = [cur EXCEPT !.errors = cur.errors]
    BY CurFacts DEF CurSet
  <2> QED
    BY <1>0, <1>2, <2>2, <2>3, SectorKeeps DEF WriteSector
<1> QED
  BY <1>1, <1>2

-----------------------------------------------------------------------------
(* do_hd_request() starts the next transfer, or a reset first. *)
LEMMA StartKeeps == ASSUME HdIInv, do_hd_request PROVE HdIInv'
<1>0. QueueIInv /\ DriverTypeOK /\ NeverIdle /\ InStep
  BY DEF HdIInv
<1> USE <1>0
<1>1. at = "repeat" /\ ctl.op = "idle"
  BY DEF do_hd_request, InStep
<1>2. CASE rq = << >>
  <2>1. at' = "idle" /\ UNCHANGED <<rq, cur, reset, recalibrate, do_hd, ctl, moved, uptodate>>
    BY <1>2 DEF do_hd_request
  <2>2. QueueIInv'
    BY <2>1, SameQueue
  <2>3. DriverTypeOK' /\ NeverIdle' /\ InStep'
    BY <1>1, <1>2, <2>1 DEF DriverTypeOK, NeverIdle, InStep
  <2> QED
    BY <2>2, <2>3 DEF HdIInv
<1>3. CASE rq # << >> /\ OutOfRange
  <2>1. /\ rq' = EndRequest(rq) /\ cur' = Fresh /\ uptodate' = FALSE
        /\ UNCHANGED <<reset, recalibrate, do_hd, ctl, at, moved>>
    BY <1>3 DEF do_hd_request, end_request
  <2>2. QueueIInv'
    BY <1>3, <2>1, EndKeeps
  <2>3. DriverTypeOK'
    BY <2>1, FreshFacts DEF DriverTypeOK, CurSet
  <2>4. NeverIdle' /\ InStep'
    BY <1>1, <2>1, FreshFacts DEF NeverIdle, InStep
  <2> QED
    BY <2>2, <2>3, <2>4 DEF HdIInv
<1>4. CASE rq # << >> /\ ~OutOfRange /\ (reset \/ recalibrate)
  <2>1. PICK o \in {"specify", "restore"} :
          /\ ctl' = [op |-> o, sector |-> cur.sector, nr |-> 0]
          /\ do_hd' = "recal_intr" /\ at' = "idle"
          /\ reset' \in BOOLEAN /\ recalibrate' \in BOOLEAN
          /\ UNCHANGED <<rq, cur, moved, uptodate>>
    <3>1. CASE reset
      BY <1>4, <3>1 DEF do_hd_request, hd_out
    <3>2. CASE ~reset
      <4>1. reset' = reset /\ reset \in BOOLEAN
        BY <1>4, <3>2 DEF do_hd_request, DriverTypeOK
      <4> QED
        BY <1>4, <3>2, <4>1 DEF do_hd_request, hd_out
    <3> QED
      BY <3>1, <3>2
  <2>2. QueueIInv'
    BY <2>1, SameQueue
  <2>3. DriverTypeOK'
    <3>1. cur.sector \in BlockSectors
      BY DEF DriverTypeOK
    <3>2. ctl' \in [op : {"idle", "specify", "restore", "read", "write"},
                    sector : BlockSectors, nr : 0 .. 2]
      BY <2>1, <3>1
    <3> QED
      BY <2>1, <3>2 DEF DriverTypeOK
  <2>4. NeverIdle' /\ InStep'
    BY <1>4, <2>1 DEF NeverIdle, InStep
  <2> QED
    BY <2>2, <2>3, <2>4 DEF HdIInv
<1>5. CASE rq # << >> /\ ~OutOfRange /\ ~reset /\ ~recalibrate
  <2> DEFINE w == Head(rq).cmd = WRITE
  <2>1. /\ moved' = IF cur.sector = 0 THEN {} ELSE moved
        /\ ctl' = [op |-> IF w THEN "write" ELSE "read",
                   sector |-> cur.sector, nr |-> cur.nr_sectors]
        /\ do_hd' = IF w THEN "write_intr" ELSE "read_intr"
        /\ at' = IF w THEN "drq" ELSE "idle"
        /\ UNCHANGED <<rq, cur, reset, recalibrate, uptodate>>
    BY <1>5 DEF do_hd_request, hd_out
  <2>2. QueueIInv'
    BY <2>1, SameQueue
  <2>3. cur.sector \in BlockSectors /\ cur.nr_sectors \in 0 .. 2
    BY DEF DriverTypeOK
  <2>4. DriverTypeOK'
    <3>1. ctl' \in [op : {"idle", "specify", "restore", "read", "write"},
                    sector : BlockSectors, nr : 0 .. 2]
      BY <2>1, <2>3
    <3> QED
      BY <2>1, <3>1 DEF DriverTypeOK
  <2>5. Head(rq).cmd \in {READ, WRITE}
    <3>1. Head(rq) \in Requests
      BY <1>5 DEF QueueIInv
    <3> QED
      BY <3>1 DEF Requests, Commands
  <2>6. ctl'.op = (IF w THEN "write" ELSE "read") /\ ctl'.sector = cur.sector
        /\ ctl'.nr = cur.nr_sectors
    BY <2>1
  <2>7. NeverIdle'
    BY <1>5, <2>1, <2>5, <2>6 DEF NeverIdle
  <2>8. InStep'
    BY <1>5, <2>1, <2>6 DEF InStep
  <2> QED
    BY <2>2, <2>4, <2>7, <2>8 DEF HdIInv
<1> QED
  BY <1>2, <1>3, <1>4, <1>5

LEMMA DataRequestedKeeps == ASSUME HdIInv, DataRequested PROVE HdIInv'
<1>1. at = "drq" /\ at' = "idle"
      /\ UNCHANGED <<rq, cur, reset, recalibrate, do_hd, ctl, moved, uptodate>>
  BY DEF DataRequested
<1>2. QueueIInv'
  BY <1>1, SameQueue DEF HdIInv
<1>3. DriverTypeOK' /\ NeverIdle' /\ InStep'
  BY <1>1 DEF HdIInv, DriverTypeOK, NeverIdle, InStep
<1> QED
  BY <1>2, <1>3 DEF HdIInv

(* A new request never becomes the current one while another is. *)
LEMMA NewKeeps ==
  ASSUME HdIInv, NEW cmd \in Commands, NEW s \in Sectors, NewRequest(cmd, s)
  PROVE  HdIInv' /\ Len(rq') > Len(rq)
<1>0. QueueIInv /\ DriverTypeOK /\ NeverIdle /\ InStep
  BY DEF HdIInv
<1> USE <1>0
<1>1. /\ at = "idle" /\ at' = IF rq = << >> THEN "repeat" ELSE at
      /\ MakeRequest(cmd, s)
      /\ UNCHANGED <<cur, reset, recalibrate, do_hd, ctl, moved, uptodate>>
  BY DEF NewRequest
<1>2. QueueIInv'
  BY <1>1, MakeKeeps
<1>3. PICK req \in Requests, k \in 1 .. Len(rq) + 1 :
        InsertedAt(rq', rq, k, req) /\ (rq # << >> => k # 1)
  BY <1>1, MakeKeeps
<1>4. rq \in Seq(Requests) /\ rq' \in Seq(Requests) /\ Len(rq') = Len(rq) + 1 /\ Len(rq) \in Nat
  BY <1>2, <1>3 DEF QueueIInv, InsertedAt
<1>5. rq' # << >>
  BY <1>4
<1>6. rq # << >> => Head(rq') = Head(rq)
  <2> SUFFICES ASSUME rq # << >> PROVE Head(rq') = Head(rq)
    OBVIOUS
  <2>1. rq'[1] = rq[1]
    BY <1>3, <1>4 DEF InsertedAt
  <2> QED
    BY <1>4, <1>5, <2>1
<1>7. DriverTypeOK'
  BY <1>1 DEF DriverTypeOK
<1>8. NeverIdle' /\ InStep'
  BY <1>1, <1>5, <1>6 DEF NeverIdle, InStep
<1> QED
  BY <1>2, <1>4, <1>7, <1>8 DEF HdIInv

-----------------------------------------------------------------------------
LEMMA HdInitOK == HdInit => HdIInv
<1> SUFFICES ASSUME HdInit PROVE HdIInv
  OBVIOUS
<1>1. rq = << >> /\ rq \in Seq(Requests) /\ Len(rq) = 0
  BY DEF HdInit, RequestInit
<1>2. QueueIInv
  BY <1>1 DEF QueueIInv, SlotsDistinct, SlotsRight, TwoSweeps, Descents
<1>3. DriverTypeOK
  BY FreshFacts, IdleFacts DEF HdInit, DriverTypeOK, CurSet
<1>4. NeverIdle /\ InStep
  BY <1>1, FreshFacts, IdleFacts DEF HdInit, NeverIdle, InStep
<1> QED
  BY <1>2, <1>3, <1>4 DEF HdIInv

(* Every step keeps the invariant, and a request that ends as up to date   *)
(* ends whole.                                                             *)
LEMMA HdStep ==
  ASSUME HdIInv, [HdNext]_hdVars
  PROVE  /\ HdIInv'
         /\ UNCHANGED hdVars \/ (Len(rq') < Len(rq) /\ uptodate' => moved' = BlockSectors)
<1>0. Len(rq) \in Nat
  BY DEF HdIInv, QueueIInv
<1>1. CASE ReadError \/ WriteError \/ NoDataRequest
  <2>1. rq # << >> /\ bad_rw_intr
    BY <1>1, InterruptFacts
       DEF ReadError, WriteError, NoDataRequest, HdIInv, InStep
  <2> QED
    BY <1>1, <2>1, BadKeeps, ErrorsKeep
<1>2. CASE recal_intr
  <2>1. HdIInv'
    BY <1>2, RecalKeeps
  <2>2. CASE bad_rw_intr
    <3>1. rq # << >>
      BY <1>2, InterruptFacts DEF recal_intr
    <3> QED
      BY <2>1, <2>2, <3>1, BadKeeps
  <2>3. CASE UNCHANGED rq
    BY <1>0, <2>1, <2>3
  <2> QED
    BY <1>2, <2>2, <2>3 DEF recal_intr
<1>3. CASE ReadSector \/ WriteSector
  BY <1>3, SectorsKeep
<1>4. CASE do_hd_request
  <2>1. HdIInv'
    BY <1>4, StartKeeps
  <2>2. UNCHANGED rq \/ uptodate' = FALSE
    BY <1>4 DEF do_hd_request, end_request
  <2> QED
    BY <1>0, <2>1, <2>2
<1>5. CASE DataRequested
  BY <1>0, <1>5, DataRequestedKeeps DEF DataRequested
<1>6. ASSUME NEW cmd \in Commands, NEW s \in Sectors, NewRequest(cmd, s)
      PROVE  HdIInv' /\ ~ (Len(rq') < Len(rq))
  <2>1. HdIInv' /\ Len(rq') > Len(rq)
    BY <1>6, NewKeeps
  <2>2. Len(rq') \in Nat
    BY <2>1 DEF HdIInv, QueueIInv
  <2> QED
    BY <1>0, <2>1, <2>2
<1>7. CASE UNCHANGED hdVars
  <2>1. UNCHANGED <<rq, cur, reset, recalibrate, do_hd, ctl, at, moved, uptodate>>
    BY <1>7 DEF hdVars
  <2>2. QueueIInv'
    BY <2>1, SameQueue DEF HdIInv
  <2>3. DriverTypeOK' /\ NeverIdle' /\ InStep'
    BY <2>1 DEF HdIInv, DriverTypeOK, NeverIdle, InStep
  <2> QED
    BY <1>7, <2>2, <2>3 DEF HdIInv
<1> QED
  BY <1>1, <1>2, <1>3, <1>4, <1>5, <1>6, <1>7 DEF HdNext, Driver

LEMMA HdSafe == ASSUME HdIInv PROVE HdInv
<1>1. RequestTypeOK /\ TwoSweeps /\ ReadsFindRoom
  BY QueueSound DEF HdIInv
<1>2. HdTypeOK
  BY <1>1 DEF HdIInv, DriverTypeOK, HdTypeOK
<1> QED
  BY <1>1, <1>2 DEF HdIInv, HdInv

(* The driver's state is consistent for ever: no interrupt without its     *)
(* handler, no queued request without a command in the controller, at most *)
(* two sweeps of the elevator, and a third of the table kept for reads.    *)
THEOREM DriverSound == HdSpec => []HdInv
<1>1. HdIInv /\ [HdNext]_hdVars => HdIInv'
  BY HdStep
<1>2. HdIInv => HdInv
  BY HdSafe
<1> QED
  BY <1>1, <1>2, HdInitOK, PTL DEF HdSpec

(* A request is reported as up to date only when both its sectors were     *)
(* moved to their own places, whatever errors and resets came between.     *)
THEOREM AlwaysWhole == HdSpec => EndsWhole
<1>1. HdIInv /\ [HdNext]_hdVars => HdIInv'
  BY HdStep
<1>2. HdIInv /\ [HdNext]_hdVars =>
        [Len(rq') < Len(rq) /\ uptodate' => moved' = BlockSectors]_hdVars
  BY HdStep
<1> QED
  BY <1>1, <1>2, HdInitOK, PTL DEF HdSpec, EndsWhole

(* The driver's steps are steps of the request queue: what RequestQueue    *)
(* promises without fairness, the driver keeps.                            *)
THEOREM DriverQueues == HdSpec => RequestInit /\ [][RequestNext]_rq
<1>1. HdIInv /\ [HdNext]_hdVars => HdIInv'
  BY HdStep
<1>2. HdIInv /\ [HdNext]_hdVars => [RequestNext]_rq
  <2> SUFFICES ASSUME HdIInv, [HdNext]_hdVars PROVE RequestNext \/ UNCHANGED rq
    OBVIOUS
  <2>1. bad_rw_intr /\ rq # << >> => Complete \/ UNCHANGED rq
    BY DEF bad_rw_intr, end_request, Complete
  <2>2. CASE ReadError \/ WriteError \/ NoDataRequest \/ recal_intr
    <3>1. rq # << >>
      BY <2>2, InterruptFacts
         DEF ReadError, WriteError, NoDataRequest, recal_intr, HdIInv, InStep
    <3>2. bad_rw_intr \/ UNCHANGED rq
      BY <2>2 DEF ReadError, WriteError, NoDataRequest, recal_intr
    <3> QED
      BY <2>1, <3>1, <3>2 DEF RequestNext
  <2>3. CASE ReadSector \/ WriteSector
    <3>1. rq # << >>
      BY <2>3, InterruptFacts DEF ReadSector, WriteSector
    <3> QED
      BY <2>3, <3>1 DEF ReadSector, WriteSector, end_request, Complete, RequestNext
  <2>4. CASE do_hd_request \/ DataRequested
    BY <2>4 DEF do_hd_request, DataRequested, end_request, Complete, RequestNext
  <2>5. ASSUME NEW cmd \in Commands, NEW s \in Sectors, NewRequest(cmd, s)
        PROVE  RequestNext
    BY <2>5 DEF NewRequest, RequestNext
  <2>6. CASE UNCHANGED hdVars
    BY <2>6 DEF hdVars
  <2> QED
    BY <2>2, <2>3, <2>4, <2>5, <2>6 DEF HdNext, Driver
<1>3. HdInit => RequestInit
  BY DEF HdInit
<1> QED
  BY <1>1, <1>2, <1>3, HdInitOK, PTL DEF HdSpec

-----------------------------------------------------------------------------
(* The buffer cache. *)

(* q is a buffer_head, with the fields of the code. *)
Header(q) ==
  q = [blk |-> q.blk, dirt |-> q.dirt, lock |-> q.lock, uptodate |-> q.uptodate,
       count |-> q.count, data |-> q.data]

(* buf is an array of buffer_heads. *)
Shape == buf = [b \in Buffers |-> buf[b]] /\ \A b \in Buffers : Header(buf[b])

UniqueInv == Shape /\ CacheUnique

(* No buffer changes the block it holds. *)
BlocksStay == \A b \in Buffers : buf'[b].blk = buf[b].blk

(* Initially no buffer holds a block (buffer_init() clears b_dev). *)
LEMMA InitUnique == CacheInit => UniqueInv
<1> SUFFICES ASSUME CacheInit PROVE UniqueInv
  OBVIOUS
<1>1. PICK v \in Values :
        buf = [b \in Buffers |-> [blk |-> NoBlock, dirt |-> FALSE, lock |-> FALSE,
                                  uptodate |-> FALSE, count |-> 0, data |-> v]]
  BY DEF CacheInit
<1> QED
  BY <1>1 DEF UniqueInv, Shape, Header, CacheUnique

(* A step that changes no block keeps the invariant. *)
LEMMA StayKeepsUnique ==
  ASSUME UniqueInv, BlocksStay, Shape' PROVE UniqueInv'
BY DEF UniqueInv, CacheUnique, BlocksStay

(* A step that leaves the buffers alone changes no block. *)
LEMMA UnchangedStays == ASSUME Shape, UNCHANGED buf PROVE Shape' /\ BlocksStay
BY DEF Shape, BlocksStay

(* One buffer gets other contents, but for its block. *)
LEMMA OneChanges ==
  ASSUME Shape, NEW b, NEW r, Header(r), r.blk = buf[b].blk,
         buf' = [buf EXCEPT ![b] = r]
  PROVE  Shape' /\ BlocksStay
BY DEF Shape, BlocksStay

(* A field other than blk is set. *)
LEMMA FieldKept ==
  ASSUME NEW q, Header(q), NEW x
  PROVE  /\ Header([q EXCEPT !.dirt = x]) /\ [q EXCEPT !.dirt = x].blk = q.blk
         /\ Header([q EXCEPT !.lock = x]) /\ [q EXCEPT !.lock = x].blk = q.blk
         /\ Header([q EXCEPT !.uptodate = x]) /\ [q EXCEPT !.uptodate = x].blk = q.blk
         /\ Header([q EXCEPT !.count = x]) /\ [q EXCEPT !.count = x].blk = q.blk
         /\ Header([q EXCEPT !.data = x]) /\ [q EXCEPT !.data = x].blk = q.blk
<1>1. Header([q EXCEPT !.dirt = x]) /\ [q EXCEPT !.dirt = x].blk = q.blk
  BY DEF Header
<1>2. Header([q EXCEPT !.lock = x]) /\ [q EXCEPT !.lock = x].blk = q.blk
  BY DEF Header
<1>3. Header([q EXCEPT !.uptodate = x]) /\ [q EXCEPT !.uptodate = x].blk = q.blk
  BY DEF Header
<1>4. Header([q EXCEPT !.count = x]) /\ [q EXCEPT !.count = x].blk = q.blk
  BY DEF Header
<1>5. Header([q EXCEPT !.data = x]) /\ [q EXCEPT !.data = x].blk = q.blk
  BY DEF Header
<1> QED
  BY <1>1, <1>2, <1>3, <1>4, <1>5

(* getblk() and brelse() change b_count only. *)
LEMMA CountStays ==
  ASSUME Shape, NEW b, NEW c,
         buf' = [buf EXCEPT ![b].count = c]
  PROVE  Shape' /\ BlocksStay
<1>1. CASE b \in Buffers
  <2> DEFINE r == [buf[b] EXCEPT !.count = c]
  <2>1. buf' = [buf EXCEPT ![b] = r]
    BY <1>1 DEF Shape
  <2>2. Header(buf[b])
    BY <1>1 DEF Shape
  <2>3. Header(r) /\ r.blk = buf[b].blk
    BY <2>2, FieldKept
  <2> HIDE DEF r
  <2> QED
    BY <2>1, <2>3, OneChanges
<1>2. CASE b \notin Buffers
  <2>1. buf' = buf
    BY <1>2 DEF Shape
  <2> QED
    BY <2>1, UnchangedStays
<1> QED
  BY <1>1, <1>2

(* lock_buffer() and unlock_buffer() change b_lock only. *)
LEMMA LockStays ==
  ASSUME Shape, NEW b, NEW x,
         buf' = [buf EXCEPT ![b].lock = x]
  PROVE  Shape' /\ BlocksStay
<1>1. CASE b \in Buffers
  <2> DEFINE r == [buf[b] EXCEPT !.lock = x]
  <2>1. buf' = [buf EXCEPT ![b] = r]
    BY <1>1 DEF Shape
  <2>2. Header(buf[b])
    BY <1>1 DEF Shape
  <2>3. Header(r) /\ r.blk = buf[b].blk
    BY <2>2, FieldKept
  <2> HIDE DEF r
  <2> QED
    BY <2>1, <2>3, OneChanges
<1>2. CASE b \notin Buffers
  <2>1. buf' = buf
    BY <1>2 DEF Shape
  <2> QED
    BY <2>1, UnchangedStays
<1> QED
  BY <1>1, <1>2

(* A hit in the hash table counts the user and may lock for the read. *)
LEMMA CountLockStays ==
  ASSUME Shape, NEW b, NEW c, NEW x,
         buf' = [buf EXCEPT ![b].count = c, ![b].lock = x]
  PROVE  Shape' /\ BlocksStay
<1>1. CASE b \in Buffers
  <2> DEFINE r1 == [buf[b] EXCEPT !.count = c]
             r == [r1 EXCEPT !.lock = x]
  <2>1. buf' = [buf EXCEPT ![b] = r]
    BY <1>1 DEF Shape
  <2>2. Header(buf[b])
    BY <1>1 DEF Shape
  <2>3. Header(r1) /\ r1.blk = buf[b].blk
    BY <2>2, FieldKept
  <2> HIDE DEF r1
  <2>4. Header(r) /\ r.blk = r1.blk
    BY <2>3, FieldKept
  <2> HIDE DEF r
  <2> QED
    BY <2>1, <2>3, <2>4, OneChanges
<1>2. CASE b \notin Buffers
  <2>1. buf' = buf
    BY <1>2 DEF Shape
  <2> QED
    BY <2>1, UnchangedStays
<1> QED
  BY <1>1, <1>2

(* make_request() and the writers change b_dirt only. *)
LEMMA DirtStays ==
  ASSUME Shape, NEW b, NEW x,
         buf' = [buf EXCEPT ![b].dirt = x]
  PROVE  Shape' /\ BlocksStay
<1>1. CASE b \in Buffers
  <2> DEFINE r == [buf[b] EXCEPT !.dirt = x]
  <2>1. buf' = [buf EXCEPT ![b] = r]
    BY <1>1 DEF Shape
  <2>2. Header(buf[b])
    BY <1>1 DEF Shape
  <2>3. Header(r) /\ r.blk = buf[b].blk
    BY <2>2, FieldKept
  <2> HIDE DEF r
  <2> QED
    BY <2>1, <2>3, OneChanges
<1>2. CASE b \notin Buffers
  <2>1. buf' = buf
    BY <1>2 DEF Shape
  <2> QED
    BY <2>1, UnchangedStays
<1> QED
  BY <1>1, <1>2

(* Copying into a buffer changes its data only. *)
LEMMA DataStays ==
  ASSUME Shape, NEW b, NEW d,
         buf' = [buf EXCEPT ![b].data = d]
  PROVE  Shape' /\ BlocksStay
<1>1. CASE b \in Buffers
  <2> DEFINE r == [buf[b] EXCEPT !.data = d]
  <2>1. buf' = [buf EXCEPT ![b] = r]
    BY <1>1 DEF Shape
  <2>2. Header(buf[b])
    BY <1>1 DEF Shape
  <2>3. Header(r) /\ r.blk = buf[b].blk
    BY <2>2, FieldKept
  <2> HIDE DEF r
  <2> QED
    BY <2>1, <2>3, OneChanges
<1>2. CASE b \notin Buffers
  <2>1. buf' = buf
    BY <1>2 DEF Shape
  <2> QED
    BY <2>1, UnchangedStays
<1> QED
  BY <1>1, <1>2

(* A writer copies its data and sets b_dirt. *)
LEMMA DataDirtStays ==
  ASSUME Shape, NEW b, NEW d, NEW x,
         buf' = [buf EXCEPT ![b].data = d, ![b].dirt = x]
  PROVE  Shape' /\ BlocksStay
<1>1. CASE b \in Buffers
  <2> DEFINE r1 == [buf[b] EXCEPT !.data = d]
             r == [r1 EXCEPT !.dirt = x]
  <2>1. buf' = [buf EXCEPT ![b] = r]
    BY <1>1 DEF Shape
  <2>2. Header(buf[b])
    BY <1>1 DEF Shape
  <2>3. Header(r1) /\ r1.blk = buf[b].blk
    BY <2>2, FieldKept
  <2> HIDE DEF r1
  <2>4. Header(r) /\ r.blk = r1.blk
    BY <2>3, FieldKept
  <2> HIDE DEF r
  <2> QED
    BY <2>1, <2>3, <2>4, OneChanges
<1>2. CASE b \notin Buffers
  <2>1. buf' = buf
    BY <1>2 DEF Shape
  <2> QED
    BY <2>1, UnchangedStays
<1> QED
  BY <1>1, <1>2

(* end_request() sets b_uptodate and b_lock when the data are in. *)
LEMMA TransferStays ==
  ASSUME Shape, NEW b, NEW x, NEW y, NEW d,
         buf' = [buf EXCEPT ![b].uptodate = x, ![b].lock = y, ![b].data = d]
  PROVE  Shape' /\ BlocksStay
<1>1. CASE b \in Buffers
  <2> DEFINE r1 == [buf[b] EXCEPT !.uptodate = x]
             r2 == [r1 EXCEPT !.lock = y]
             r == [r2 EXCEPT !.data = d]
  <2>1. buf' = [buf EXCEPT ![b] = r]
    BY <1>1 DEF Shape
  <2>2. Header(buf[b])
    BY <1>1 DEF Shape
  <2>3. Header(r1) /\ r1.blk = buf[b].blk
    BY <2>2, FieldKept
  <2> HIDE DEF r1
  <2>4. Header(r2) /\ r2.blk = r1.blk
    BY <2>3, FieldKept
  <2> HIDE DEF r2
  <2>5. Header(r) /\ r.blk = r2.blk
    BY <2>4, FieldKept
  <2> HIDE DEF r
  <2> QED
    BY <2>1, <2>3, <2>4, <2>5, OneChanges
<1>2. CASE b \notin Buffers
  <2>1. buf' = buf
    BY <1>2 DEF Shape
  <2> QED
    BY <2>1, UnchangedStays
<1> QED
  BY <1>1, <1>2

(* The steps of a task other than naming a buffer. *)
Quiet(t) ==
  \/ Resume(t) \/ HashHit(t) \/ HashWait(t) \/ HashMiss(t)
  \/ SyncLoop(t) \/ SyncWait(t) \/ GetRequest(t)
  \/ SleepTmp(t) \/ SleepLink(t) \/ SleepState(t)
  \/ ReadWait(t) \/ UseRead(t) \/ UseSlowWrite(t)
  \/ \E v \in Values : UseWrite(t, v) \/ CopyAfterFault(t, v)
  \/ Release(t)

(* Each of them changes one buffer in one of the ways above, or none. *)
LEMMA QuietStays ==
  ASSUME Shape, NEW t \in Tasks, Quiet(t) PROVE Shape' /\ BlocksStay
<1>1. CASE Resume(t) \/ HashMiss(t) \/ SleepTmp(t) \/ SleepLink(t) \/ SleepState(t)
           \/ ReadWait(t) \/ UseRead(t)
  <2>1. UNCHANGED buf
    BY <1>1 DEF Resume, HashMiss, SleepTmp, SleepLink, SleepState, ReadWait, UseRead,
                WaitOnBuffer
  <2> QED
    BY <2>1, UnchangedStays
<1>2. CASE HashHit(t)
  BY <1>2, CountStays, CountLockStays DEF HashHit, GotBuffer
<1>3. CASE HashWait(t)
  BY <1>3, UnchangedStays, CountStays, CountLockStays
     DEF HashWait, WaitOnBuffer, GotBuffer
<1>4. CASE SyncLoop(t)
  BY <1>4, UnchangedStays, LockStays DEF SyncLoop
<1>5. CASE SyncWait(t)
  BY <1>5, UnchangedStays, LockStays DEF SyncWait, WaitOnBuffer
<1>6. CASE GetRequest(t)
  BY <1>6, UnchangedStays, DirtStays DEF GetRequest, QueueRequest
<1>7. CASE UseSlowWrite(t)
  BY <1>7, DirtStays DEF UseSlowWrite
<1>8. CASE \E v \in Values : UseWrite(t, v) \/ CopyAfterFault(t, v)
  BY <1>8, DataStays, DataDirtStays DEF UseWrite, CopyAfterFault
<1>9. CASE Release(t)
  BY <1>9, UnchangedStays, CountStays DEF Release, WaitOnBuffer, ReleaseBuffer
<1> QED
  BY <1>1, <1>2, <1>3, <1>4, <1>5, <1>6, <1>7, <1>8, <1>9 DEF Quiet

(* getblk() gives a buffer to a block that no buffer holds. *)
LEMMA ClaimKeepsUnique ==
  ASSUME UniqueInv, NEW t \in Tasks, Claim(t) PROVE UniqueInv'
<1> DEFINE b == bh[t]
<1>1. CASE WaitOnBuffer(t, b, "claim") \/ ~Claimable(t, b)
  <2>1. CASE UNCHANGED buf
    BY <2>1, UnchangedStays, StayKeepsUnique DEF UniqueInv
  <2>2. CASE buf' # buf
    BY <2>2, <1>1 DEF Claim, WaitOnBuffer
  <2> QED
    BY <2>1, <2>2
<1>2. CASE ~WaitOnBuffer(t, b, "claim") /\ Claimable(t, b)
  <2> DEFINE r1 == [buf[b] EXCEPT !.blk = want[t]]
             r2 == [r1 EXCEPT !.count = 1]
             r3 == [r2 EXCEPT !.uptodate = FALSE]
             r4 == [r3 EXCEPT !.dirt = FALSE]
             fresh == [r4 EXCEPT !.lock = op[t] # "raw_write"]
  <2>1. buf' = [buf EXCEPT ![b] = fresh]
    BY <1>2 DEF Claim
  <2>2. \A c \in Buffers : buf[c].blk # want[t]
    BY <1>2 DEF Claimable, find_buffer
  <2>3. b \in Buffers => Header(buf[b])
    BY DEF UniqueInv, Shape
  <2>4. b \in Buffers => Header(fresh) /\ fresh.blk = want[t]
    <3> SUFFICES ASSUME b \in Buffers PROVE Header(fresh) /\ fresh.blk = want[t]
      OBVIOUS
    <3>1. Header(r1) /\ r1.blk = want[t]
      BY <2>3 DEF Header
    <3> HIDE DEF r1
    <3>2. Header(r2) /\ r2.blk = r1.blk
      BY <3>1, FieldKept
    <3> HIDE DEF r2
    <3>3. Header(r3) /\ r3.blk = r2.blk
      BY <3>2, FieldKept
    <3> HIDE DEF r3
    <3>4. Header(r4) /\ r4.blk = r3.blk
      BY <3>3, FieldKept
    <3> HIDE DEF r4
    <3>5. Header(fresh) /\ fresh.blk = r4.blk
      BY <3>4, FieldKept
    <3> QED
      BY <3>1, <3>2, <3>3, <3>4, <3>5
  <2> HIDE DEF fresh
  <2>5. \A c \in Buffers : buf'[c] = IF c = b THEN fresh ELSE buf[c]
    BY <2>1 DEF UniqueInv, Shape
  <2>6. Shape'
    BY <2>1, <2>4, <2>5 DEF UniqueInv, Shape
  <2> QED
    BY <2>2, <2>4, <2>5, <2>6 DEF UniqueInv, CacheUnique
<1> QED
  BY <1>1, <1>2

(* Every step keeps the invariant. *)
LEMMA NextUnique == UniqueInv /\ [CacheNext]_cacheVars => UniqueInv'
<1> SUFFICES ASSUME UniqueInv, [CacheNext]_cacheVars PROVE UniqueInv'
  OBVIOUS
<1>1. ASSUME NEW t \in Tasks, NEW o \in Workload, NEW k \in Blocks, StartBlock(t, o, k)
      PROVE  UniqueInv'
  BY <1>1, UnchangedStays, StayKeepsUnique DEF StartBlock, UniqueInv
<1>2. ASSUME NEW t \in Tasks, StartSync(t) PROVE UniqueInv'
  BY <1>2, UnchangedStays, StayKeepsUnique DEF StartSync, UniqueInv
<1>3. ASSUME NEW t \in Tasks, TaskStep(t) PROVE UniqueInv'
  <2>1. Claim(t) \/ Quiet(t)
    BY <1>3 DEF TaskStep, Quiet
  <2> QED
    BY <2>1, ClaimKeepsUnique, QuietStays, StayKeepsUnique DEF UniqueInv
<1>4. ASSUME NEW ok \in BOOLEAN, Interrupt(ok) PROVE UniqueInv'
  <2>1. Shape' /\ BlocksStay
    BY <1>4, TransferStays DEF Interrupt, UniqueInv
  <2> QED
    BY <2>1, StayKeepsUnique
<1>5. CASE UNCHANGED cacheVars
  BY <1>5, UnchangedStays, StayKeepsUnique DEF cacheVars, UniqueInv
<1> QED
  BY <1>1, <1>2, <1>3, <1>4, <1>5 DEF CacheNext

(* The buffer getblk() returns is "the only one of it's kind": no two      *)
(* buffers ever hold the same block.                                       *)
THEOREM AlwaysUnique == CacheSpec => []CacheUnique
<1>1. UniqueInv => CacheUnique
  BY DEF UniqueInv
<1> QED
  BY <1>1, InitUnique, NextUnique, PTL DEF CacheSpec

-----------------------------------------------------------------------------
(***************************************************************************)
(* The structure of the cache.  CacheInv counts; the inductive invariant   *)
(* says who owns a lock instead, and what the labels of a task imply.      *)
(***************************************************************************)
Waiting == {"hash_wait", "rd_wait", "use", "fault", "release"}
Making  == {"slot", "sleep_tmp", "sleep_link", "sleep_state"}
Labels  == {"idle", "hash", "claim", "sync", "sync_wait"} \cup Waiting \cup Making

QueueEntry == [slot : Slots, cmd : Commands, sector : Blocks, bh : Buffers]

StoreTypeOK ==
  /\ buf \in [Buffers -> BufferRecord]
  /\ disk \in [Blocks -> Values]
  /\ cpu \in Tasks \cup {NoTask}
  /\ rq \in Seq(QueueEntry)

FreeListOK ==
  /\ free_list \in [Buffers -> Buffers]
  /\ \A b \in Buffers : \E i \in Buffers : free_list[i] = b

TasksTypeOK ==
  /\ pc \in [Tasks -> Labels]
  /\ op \in [Tasks -> Operations \cup {"none"}]
  /\ want \in [Tasks -> Blocks \cup {NoBlock}]
  /\ bh \in [Tasks -> Buffers \cup {0}]
  /\ si \in [Tasks -> 0 .. 2 * NR_BUFFERS + 1]

(* What the label of a task says about its call. *)
CallOK(t) ==
  /\ pc[t] \in {"idle", "hash", "claim"} \cup Waiting => si[t] = 0 /\ op[t] # "sync"
  /\ pc[t] \in {"sync", "sync_wait"} => si[t] # 0
  /\ pc[t] \in {"sync_wait"} \cup Making => si[t] <= 2 * NR_BUFFERS
  /\ pc[t] = "idle" <=> op[t] = "none"
  /\ si[t] = 0 => op[t] # "sync"
  /\ op[t] \notin {"none", "sync"} => want[t] \in Blocks
  /\ pc[t] \notin {"idle", "hash"} /\ op[t] # "sync" => bh[t] \in Buffers

(* One owner per lock: a request of the queue or a task about to make one. *)
Requested(b) == \E i \in 1 .. Len(rq) : rq[i].bh = b
LockOwners ==
  /\ \A i, j \in 1 .. Len(rq) : rq[i].bh = rq[j].bh => i = j
  /\ \A t, u \in Tasks, b \in Buffers : InMakeRequest(t, b) /\ InMakeRequest(u, b) => t = u
  /\ \A t \in Tasks, b \in Buffers : InMakeRequest(t, b) => ~Requested(b)
  /\ \A b \in Buffers :
       buf[b].lock <=> Requested(b) \/ \E t \in Tasks : InMakeRequest(t, b)

(* A buffer that is used, locked or dirty holds a block. *)
InUseNamed ==
  \A b \in Buffers : buf[b].count # 0 \/ buf[b].lock \/ buf[b].dirt => buf[b].blk \in Blocks

CacheIInv ==
  /\ StoreTypeOK /\ FreeListOK /\ TasksTypeOK
  /\ \A t \in Tasks : CallOK(t)
  /\ CountExact /\ LockOwners /\ RequestsCurrent /\ InUseNamed

-----------------------------------------------------------------------------
Bit(p) == IF p THEN 1 ELSE 0

(* A step of t leaves the calls of the other tasks alone. *)
Others(t) ==
  \A u \in Tasks \ {t} :
    /\ pc'[u] = pc[u] /\ op'[u] = op[u] /\ want'[u] = want[u]
    /\ bh'[u] = bh[u] /\ si'[u] = si[u]

LEMMA OthersSame ==
  ASSUME NEW t \in Tasks, Others(t), NEW u \in Tasks \ {t}
  PROVE  /\ \A b : Holds(u, b)' <=> Holds(u, b)
         /\ \A b : InMakeRequest(u, b)' <=> InMakeRequest(u, b)
         /\ CallOK(u)' <=> CallOK(u)
BY DEF Others, Holds, InMakeRequest, RwBuffer, CallOK

(* b_count follows the step of one task, if it counts it. *)
LEMMA CountKeeps ==
  ASSUME CountExact, NEW t \in Tasks, Others(t), NEW b \in Buffers,
         buf'[b].count = buf[b].count + Bit(Holds(t, b)') - Bit(Holds(t, b))
  PROVE  buf'[b].count = Cardinality({u \in Tasks : Holds(u, b)'})
<1> DEFINE H == {u \in Tasks : Holds(u, b)}
           K == {u \in Tasks : Holds(u, b)'}
<1>1. H \in SUBSET Tasks /\ buf[b].count = Cardinality(H)
  BY DEF CountExact
<1>2. \A u \in Tasks \ {t} : u \in K <=> u \in H
  BY OthersSame
<1>a. (t \in H <=> Holds(t, b)) /\ (t \in K <=> Holds(t, b)') /\ K \in SUBSET Tasks
  OBVIOUS
<1>b. SUFFICES buf'[b].count = Cardinality(K)
  OBVIOUS
<1> HIDE DEF H, K
<1>c. IsFiniteSet(H) /\ Cardinality(H) \in Nat
  BY <1>1, FS_Subset, FS_CardinalityType, CacheAssumption
<1>3. CASE Holds(t, b) <=> Holds(t, b)'
  <2>1. K = H
    BY <1>1, <1>2, <1>a, <1>3
  <2> QED
    BY <1>1, <1>c, <1>3, <2>1 DEF Bit
<1>4. CASE ~Holds(t, b) /\ Holds(t, b)'
  <2>1. K = H \cup {t} /\ t \notin H
    BY <1>1, <1>2, <1>a, <1>4
  <2>2. Cardinality(H \cup {t}) = Cardinality(H) + 1
    BY <1>c, <2>1, FS_AddElement
  <2> QED
    BY <1>1, <1>c, <1>4, <2>1, <2>2 DEF Bit
<1>5. CASE Holds(t, b) /\ ~Holds(t, b)'
  <2>1. K = H \ {t} /\ t \in H
    BY <1>1, <1>2, <1>a, <1>5
  <2>2. Cardinality(H \ {t}) = Cardinality(H) - 1
    BY <1>c, <2>1, FS_RemoveElement
  <2> QED
    BY <1>1, <1>c, <1>5, <2>1, <2>2 DEF Bit
<1> QED
  BY <1>3, <1>4, <1>5

(* Whoever holds a buffer is counted. *)
LEMMA HolderCounted ==
  ASSUME CountExact, NEW t \in Tasks, NEW b \in Buffers, Holds(t, b)
  PROVE  buf[b].count \in Nat \ {0}
<1> DEFINE H == {u \in Tasks : Holds(u, b)}
<1>1. IsFiniteSet(H)
  BY FS_Subset, CacheAssumption
<1>2. Cardinality(H) \in Nat /\ (Cardinality(H) = 0 <=> H = {})
  BY <1>1, FS_CardinalityType, FS_EmptySet
<1> QED
  BY <1>2 DEF CountExact

(* A request of the queue names a buffer. *)
LEMMA EntryOK ==
  ASSUME StoreTypeOK, NEW i \in 1 .. Len(rq)
  PROVE  rq[i] \in QueueEntry /\ rq[i].bh \in Buffers
<1>1. rq[i] \in QueueEntry
  BY DEF StoreTypeOK
<1> QED
  BY <1>1 DEF QueueEntry

(* One buffer_head is edited: its block becomes k, its count n, its lock l *)
(* and its dirt flag d.                                                    *)
Edited(b, k, n, l, d) ==
  /\ buf' \in [Buffers -> BufferRecord]
  /\ \A c \in Buffers :
       /\ buf'[c].blk = IF c = b THEN k ELSE buf[c].blk
       /\ buf'[c].count = IF c = b THEN n ELSE buf[c].count
       /\ buf'[c].lock = IF c = b THEN l ELSE buf[c].lock
       /\ buf'[c].dirt = IF c = b THEN d ELSE buf[c].dirt

LEMMA EditedBy ==
  ASSUME StoreTypeOK, NEW b \in Buffers, NEW r \in BufferRecord,
         buf' = [buf EXCEPT ![b] = r]
  PROVE  Edited(b, r.blk, r.count, r.lock, r.dirt)
BY DEF StoreTypeOK, Edited

(* A buffer_head with one field set is a buffer_head. *)
LEMMA SetCount ==
  ASSUME NEW q \in BufferRecord, NEW x \in Nat, NEW r, r = [q EXCEPT !.count = x]
  PROVE  r \in BufferRecord /\ r.blk = q.blk /\ r.count = x /\ r.lock = q.lock /\ r.dirt = q.dirt
BY DEF BufferRecord

LEMMA SetLock ==
  ASSUME NEW q \in BufferRecord, NEW x \in BOOLEAN, NEW r, r = [q EXCEPT !.lock = x]
  PROVE  r \in BufferRecord /\ r.blk = q.blk /\ r.count = q.count /\ r.lock = x /\ r.dirt = q.dirt
BY DEF BufferRecord

LEMMA SetDirt ==
  ASSUME NEW q \in BufferRecord, NEW x \in BOOLEAN, NEW r, r = [q EXCEPT !.dirt = x]
  PROVE  r \in BufferRecord /\ r.blk = q.blk /\ r.count = q.count /\ r.lock = q.lock /\ r.dirt = x
BY DEF BufferRecord

LEMMA SetUptodate ==
  ASSUME NEW q \in BufferRecord, NEW x \in BOOLEAN, NEW r, r = [q EXCEPT !.uptodate = x]
  PROVE  r \in BufferRecord /\ r.blk = q.blk /\ r.count = q.count /\ r.lock = q.lock /\ r.dirt = q.dirt
BY DEF BufferRecord

LEMMA SetData ==
  ASSUME NEW q \in BufferRecord, NEW x \in Values, NEW r, r = [q EXCEPT !.data = x]
  PROVE  r \in BufferRecord /\ r.blk = q.blk /\ r.count = q.count /\ r.lock = q.lock /\ r.dirt = q.dirt
BY DEF BufferRecord

LEMMA SetBlk ==
  ASSUME NEW q \in BufferRecord, NEW x \in Blocks, NEW r, r = [q EXCEPT !.blk = x]
  PROVE  r \in BufferRecord /\ r.blk = x /\ r.count = q.count /\ r.lock = q.lock /\ r.dirt = q.dirt
BY DEF BufferRecord

(* So the edits of the code are edits of the fields that matter. *)
LEMMA EditCount ==
  ASSUME StoreTypeOK, NEW b \in Buffers, NEW n \in Nat,
         buf' = [buf EXCEPT ![b].count = n]
  PROVE  Edited(b, buf[b].blk, n, buf[b].lock, buf[b].dirt)
<1>1. buf[b] \in BufferRecord
  BY DEF StoreTypeOK
<1> DEFINE r == [buf[b] EXCEPT !.count = n]
<1>2. buf' = [buf EXCEPT ![b] = r]
  BY DEF StoreTypeOK
<1>3. r \in BufferRecord /\ r.blk = buf[b].blk /\ r.count = n /\ r.lock = buf[b].lock /\ r.dirt = buf[b].dirt
  BY <1>1, SetCount
<1> HIDE DEF r
<1> QED
  BY <1>2, <1>3, EditedBy

LEMMA EditLock ==
  ASSUME StoreTypeOK, NEW b \in Buffers, NEW l \in BOOLEAN,
         buf' = [buf EXCEPT ![b].lock = l]
  PROVE  Edited(b, buf[b].blk, buf[b].count, l, buf[b].dirt)
<1>1. buf[b] \in BufferRecord
  BY DEF StoreTypeOK
<1> DEFINE r == [buf[b] EXCEPT !.lock = l]
<1>2. buf' = [buf EXCEPT ![b] = r]
  BY DEF StoreTypeOK
<1>3. r \in BufferRecord /\ r.blk = buf[b].blk /\ r.count = buf[b].count /\ r.lock = l /\ r.dirt = buf[b].dirt
  BY <1>1, SetLock
<1> HIDE DEF r
<1> QED
  BY <1>2, <1>3, EditedBy

LEMMA EditDirt ==
  ASSUME StoreTypeOK, NEW b \in Buffers, NEW d \in BOOLEAN,
         buf' = [buf EXCEPT ![b].dirt = d]
  PROVE  Edited(b, buf[b].blk, buf[b].count, buf[b].lock, d)
<1>1. buf[b] \in BufferRecord
  BY DEF StoreTypeOK
<1> DEFINE r == [buf[b] EXCEPT !.dirt = d]
<1>2. buf' = [buf EXCEPT ![b] = r]
  BY DEF StoreTypeOK
<1>3. r \in BufferRecord /\ r.blk = buf[b].blk /\ r.count = buf[b].count /\ r.lock = buf[b].lock /\ r.dirt = d
  BY <1>1, SetDirt
<1> HIDE DEF r
<1> QED
  BY <1>2, <1>3, EditedBy

LEMMA EditData ==
  ASSUME StoreTypeOK, NEW b \in Buffers, NEW v \in Values,
         buf' = [buf EXCEPT ![b].data = v]
  PROVE  Edited(b, buf[b].blk, buf[b].count, buf[b].lock, buf[b].dirt)
<1>1. buf[b] \in BufferRecord
  BY DEF StoreTypeOK
<1> DEFINE r == [buf[b] EXCEPT !.data = v]
<1>2. buf' = [buf EXCEPT ![b] = r]
  BY DEF StoreTypeOK
<1>3. r \in BufferRecord /\ r.blk = buf[b].blk /\ r.count = buf[b].count /\ r.lock = buf[b].lock /\ r.dirt = buf[b].dirt
  BY <1>1, SetData
<1> HIDE DEF r
<1> QED
  BY <1>2, <1>3, EditedBy

LEMMA EditCountLock ==
  ASSUME StoreTypeOK, NEW b \in Buffers, NEW n \in Nat, NEW l \in BOOLEAN,
         buf' = [buf EXCEPT ![b].count = n, ![b].lock = l]
  PROVE  Edited(b, buf[b].blk, n, l, buf[b].dirt)
<1>1. buf[b] \in BufferRecord
  BY DEF StoreTypeOK
<1> DEFINE r1 == [buf[b] EXCEPT !.count = n]
           r == [r1 EXCEPT !.lock = l]
<1>2. buf' = [buf EXCEPT ![b] = r]
  BY DEF StoreTypeOK
<1>3. r1 \in BufferRecord /\ r1.blk = buf[b].blk /\ r1.count = n /\ r1.lock = buf[b].lock /\ r1.dirt = buf[b].dirt
  BY <1>1, SetCount
<1> HIDE DEF r1
<1>4. r \in BufferRecord /\ r.blk = r1.blk /\ r.count = r1.count /\ r.lock = l /\ r.dirt = r1.dirt
  BY <1>3, SetLock
<1> HIDE DEF r
<1> QED
  BY <1>2, <1>3, <1>4, EditedBy

LEMMA EditDataDirt ==
  ASSUME StoreTypeOK, NEW b \in Buffers, NEW v \in Values, NEW d \in BOOLEAN,
         buf' = [buf EXCEPT ![b].data = v, ![b].dirt = d]
  PROVE  Edited(b, buf[b].blk, buf[b].count, buf[b].lock, d)
<1>1. buf[b] \in BufferRecord
  BY DEF StoreTypeOK
<1> DEFINE r1 == [buf[b] EXCEPT !.data = v]
           r == [r1 EXCEPT !.dirt = d]
<1>2. buf' = [buf EXCEPT ![b] = r]
  BY DEF StoreTypeOK
<1>3. r1 \in BufferRecord /\ r1.blk = buf[b].blk /\ r1.count = buf[b].count /\ r1.lock = buf[b].lock /\ r1.dirt = buf[b].dirt
  BY <1>1, SetData
<1> HIDE DEF r1
<1>4. r \in BufferRecord /\ r.blk = r1.blk /\ r.count = r1.count /\ r.lock = r1.lock /\ r.dirt = d
  BY <1>3, SetDirt
<1> HIDE DEF r
<1> QED
  BY <1>2, <1>3, <1>4, EditedBy

LEMMA EditTransfer ==
  ASSUME StoreTypeOK, NEW b \in Buffers, NEW u \in BOOLEAN, NEW l \in BOOLEAN, NEW v \in Values,
         buf' = [buf EXCEPT ![b].uptodate = u, ![b].lock = l, ![b].data = v]
  PROVE  Edited(b, buf[b].blk, buf[b].count, l, buf[b].dirt)
<1>1. buf[b] \in BufferRecord
  BY DEF StoreTypeOK
<1> DEFINE r1 == [buf[b] EXCEPT !.uptodate = u]
           r2 == [r1 EXCEPT !.lock = l]
           r == [r2 EXCEPT !.data = v]
<1>2. buf' = [buf EXCEPT ![b] = r]
  BY DEF StoreTypeOK
<1>3. r1 \in BufferRecord /\ r1.blk = buf[b].blk /\ r1.count = buf[b].count /\ r1.lock = buf[b].lock /\ r1.dirt = buf[b].dirt
  BY <1>1, SetUptodate
<1> HIDE DEF r1
<1>4. r2 \in BufferRecord /\ r2.blk = r1.blk /\ r2.count = r1.count /\ r2.lock = l /\ r2.dirt = r1.dirt
  BY <1>3, SetLock
<1> HIDE DEF r2
<1>5. r \in BufferRecord /\ r.blk = r2.blk /\ r.count = r2.count /\ r.lock = r2.lock /\ r.dirt = r2.dirt
  BY <1>4, SetData
<1> HIDE DEF r
<1> QED
  BY <1>2, <1>3, <1>4, <1>5, EditedBy

(* t begins or ends to hold b, and its count becomes n accordingly. *)
Accounted(t, b, n) ==
  /\ n = buf[b].count + Bit(Holds(t, b)') - Bit(Holds(t, b))
  /\ \A c \in Buffers \ {b} : Holds(t, c)' <=> Holds(t, c)

SameOwner(t) == \A c \in Buffers : InMakeRequest(t, c)' <=> InMakeRequest(t, c)

(* The lock of b becomes l: it stays, or t takes it for a request. *)
LockTaken(t, b, l) ==
  \/ l = buf[b].lock /\ SameOwner(t)
  \/ /\ ~buf[b].lock /\ l
     /\ \A c \in Buffers : ~InMakeRequest(t, c) /\ (InMakeRequest(t, c)' <=> c = b)

SameHolder(t) == \A c \in Buffers : Holds(t, c)' <=> Holds(t, c)

(* A step of t that edits the buffer b and queues no request. *)
LEMMA EditKeeps ==
  ASSUME CacheIInv, NEW t \in Tasks, Others(t), TasksTypeOK', CallOK(t)',
         UNCHANGED rq, UNCHANGED disk, FreeListOK', cpu' \in Tasks \cup {NoTask},
         NEW b \in Buffers, NEW k, NEW n, NEW l \in BOOLEAN, NEW d,
         Edited(b, k, n, l, d), Accounted(t, b, n), LockTaken(t, b, l),
         k = buf[b].blk \/ ~buf[b].lock,
         n # 0 \/ l \/ d => k \in Blocks
  PROVE  CacheIInv'
<1> USE DEF CacheIInv, Accounted, LockTaken, SameOwner
<1>1. StoreTypeOK'
  BY DEF StoreTypeOK, Edited
<1>2. \A u \in Tasks : CallOK(u)'
  BY OthersSame
<1>3. CountExact'
  <2> SUFFICES ASSUME NEW c \in Buffers
               PROVE  buf'[c].count = Cardinality({u \in Tasks : Holds(u, c)'})
    BY DEF CountExact
  <2>1. buf[c].count \in Nat
    BY DEF StoreTypeOK, BufferRecord
  <2>2. buf'[c].count = buf[c].count + Bit(Holds(t, c)') - Bit(Holds(t, c))
    BY <2>1 DEF Edited, Bit
  <2> QED
    BY <2>2, CountKeeps
<1>4. LockOwners'
  <2>1. \A c : Requested(c)' <=> Requested(c)
    BY DEF Requested
  <2>2. \A u \in Tasks \ {t} : \A c : InMakeRequest(u, c)' <=> InMakeRequest(u, c)
    BY OthersSame
  <2>3. ASSUME l = buf[b].lock,
               \A c \in Buffers : InMakeRequest(t, c)' <=> InMakeRequest(t, c)
        PROVE  LockOwners'
    <3>1. \A u \in Tasks, c \in Buffers : InMakeRequest(u, c)' <=> InMakeRequest(u, c)
      BY <2>2, <2>3
    <3>2. \A c \in Buffers : buf'[c].lock = buf[c].lock
      BY <2>3 DEF Edited
    <3> QED
      BY <2>1, <3>1, <3>2 DEF LockOwners
  <2>4. ASSUME ~buf[b].lock, l,
               \A c \in Buffers : ~InMakeRequest(t, c) /\ (InMakeRequest(t, c)' <=> c = b)
        PROVE  LockOwners'
    <3>1. \A u \in Tasks : ~InMakeRequest(u, b)
      BY <2>4 DEF LockOwners
    <3>2. ~Requested(b)
      BY <2>4 DEF LockOwners
    <3>3. \A c \in Buffers : buf'[c].lock = IF c = b THEN l ELSE buf[c].lock
      BY DEF Edited
    <3>4. \A c \in Buffers, u \in Tasks :
            InMakeRequest(u, c)' <=> InMakeRequest(u, c) \/ (u = t /\ c = b)
      BY <2>2, <2>4
    <3> QED
      BY <2>1, <2>4, <3>1, <3>2, <3>3, <3>4 DEF LockOwners
  <2> QED
    BY <2>3, <2>4
<1>5. RequestsCurrent'
  <2> SUFFICES ASSUME NEW i \in 1 .. Len(rq) PROVE buf'[rq[i].bh].blk = rq[i].sector
    BY DEF RequestsCurrent
  <2>1. rq[i].bh \in Buffers /\ buf[rq[i].bh].lock
    BY EntryOK DEF LockOwners, Requested
  <2>2. buf[rq[i].bh].blk = rq[i].sector
    BY DEF RequestsCurrent
  <2> QED
    BY <2>1, <2>2 DEF Edited
<1>6. InUseNamed'
  BY DEF InUseNamed, Edited
<1> QED
  BY <1>1, <1>2, <1>3, <1>4, <1>5, <1>6

(* A step of t that changes no buffer and no request, nor what t holds. *)
LEMMA MoveKeeps ==
  ASSUME CacheIInv, NEW t \in Tasks, Others(t), TasksTypeOK', CallOK(t)',
         UNCHANGED <<buf, free_list, disk, rq>>, cpu' \in Tasks \cup {NoTask},
         SameHolder(t), SameOwner(t)
  PROVE  CacheIInv'
<1> USE DEF CacheIInv, SameHolder, SameOwner
<1>1. StoreTypeOK' /\ FreeListOK' /\ RequestsCurrent' /\ InUseNamed'
  BY DEF StoreTypeOK, FreeListOK, RequestsCurrent, InUseNamed
<1>2. \A u \in Tasks : CallOK(u)'
  BY OthersSame
<1>3. CountExact'
  <2> SUFFICES ASSUME NEW c \in Buffers
               PROVE  buf'[c].count = Cardinality({u \in Tasks : Holds(u, c)'})
    BY DEF CountExact
  <2>1. buf[c].count \in Nat
    BY DEF StoreTypeOK, BufferRecord
  <2>2. buf'[c].count = buf[c].count + Bit(Holds(t, c)') - Bit(Holds(t, c))
    BY <2>1 DEF Bit
  <2> QED
    BY <2>2, CountKeeps
<1>4. LockOwners'
  <2>1. \A u \in Tasks, c \in Buffers : InMakeRequest(u, c)' <=> InMakeRequest(u, c)
    BY OthersSame
  <2>2. \A c : Requested(c)' <=> Requested(c)
    BY DEF Requested
  <2> QED
    BY <2>1, <2>2 DEF LockOwners
<1> QED
  BY <1>1, <1>2, <1>3, <1>4

-----------------------------------------------------------------------------
(* The steps that change nothing but where a task is. *)

LEMMA ResumeKeeps ==
  ASSUME CacheIInv, NEW t \in Tasks, Resume(t) PROVE CacheIInv'
<1>0. TasksTypeOK /\ CallOK(t)
  BY DEF CacheIInv
<1> USE <1>0
<1>1. UNCHANGED <<buf, free_list, disk, rq, pc, op, want, bh, si>>
  BY DEF Resume, taskVars
<1>2. Others(t) /\ TasksTypeOK' /\ CallOK(t)'
  BY <1>1 DEF Others, TasksTypeOK, CallOK
<1>3. SameHolder(t) /\ SameOwner(t)
  BY <1>1 DEF SameHolder, SameOwner, Holds, InMakeRequest, RwBuffer
<1>4. cpu' \in Tasks \cup {NoTask}
  BY DEF Resume
<1> QED
  BY <1>1, <1>2, <1>3, <1>4, MoveKeeps

(* wait_on_buffer() sleeps where it will test again. *)
LEMMA WaitKeeps ==
  ASSUME CacheIInv, NEW t \in Tasks, NEW b, WaitOnBuffer(t, b, pc[t])
  PROVE  CacheIInv'
<1>0. TasksTypeOK /\ CallOK(t)
  BY DEF CacheIInv
<1> USE <1>0
<1>1. UNCHANGED <<buf, free_list, disk, rq, pc, op, want, bh, si>>
  BY DEF WaitOnBuffer, BlockAt, Goto, TasksTypeOK
<1>2. Others(t) /\ TasksTypeOK' /\ CallOK(t)'
  BY <1>1 DEF Others, TasksTypeOK, CallOK
<1>3. SameHolder(t) /\ SameOwner(t)
  BY <1>1 DEF SameHolder, SameOwner, Holds, InMakeRequest, RwBuffer
<1>4. cpu' \in Tasks \cup {NoTask}
  BY DEF WaitOnBuffer, BlockAt
<1> QED
  BY <1>1, <1>2, <1>3, <1>4, MoveKeeps

LEMMA StartBlockKeeps ==
  ASSUME CacheIInv, NEW t \in Tasks, NEW o, NEW k \in Blocks, StartBlock(t, o, k)
  PROVE  CacheIInv'
<1>0. TasksTypeOK /\ CallOK(t)
  BY DEF CacheIInv
<1> USE <1>0
<1>1. /\ pc' = [pc EXCEPT ![t] = "hash"] /\ op' = [op EXCEPT ![t] = o]
      /\ want' = [want EXCEPT ![t] = k]
      /\ UNCHANGED <<buf, free_list, disk, rq, bh, si>> /\ cpu' \in Tasks \cup {NoTask}
      /\ pc[t] = "idle" /\ o \in Operations \ {"sync"}
  BY CacheAssumption DEF StartBlock, Goto
<1>2. Others(t)
  BY <1>1 DEF Others, TasksTypeOK
<1>3. TasksTypeOK' /\ pc'[t] = "hash" /\ op'[t] = o /\ want'[t] = k /\ si'[t] = si[t]
  BY <1>1 DEF TasksTypeOK, Labels, Operations
<1>4. op[t] = "none" /\ si[t] = 0
  BY <1>1 DEF CallOK
<1>5. CallOK(t)'
  BY <1>1, <1>3, <1>4 DEF CallOK, Waiting, Making, Operations
<1>6. SameHolder(t) /\ SameOwner(t)
  BY <1>1, <1>3 DEF SameHolder, SameOwner, Holds, InMakeRequest
<1> QED
  BY <1>1, <1>2, <1>3, <1>5, <1>6, MoveKeeps

LEMMA StartSyncKeeps ==
  ASSUME CacheIInv, NEW t \in Tasks, StartSync(t) PROVE CacheIInv'
<1>0. TasksTypeOK /\ CallOK(t)
  BY DEF CacheIInv
<1> USE <1>0
<1>1. /\ pc' = [pc EXCEPT ![t] = "sync"] /\ op' = [op EXCEPT ![t] = "sync"]
      /\ si' = [si EXCEPT ![t] = 1]
      /\ UNCHANGED <<buf, free_list, disk, rq, bh, want>> /\ cpu' \in Tasks \cup {NoTask}
      /\ pc[t] = "idle"
  BY DEF StartSync, Goto
<1>2. Others(t)
  BY <1>1 DEF Others, TasksTypeOK
<1>3. TasksTypeOK' /\ pc'[t] = "sync" /\ op'[t] = "sync" /\ si'[t] = 1
  BY <1>1, CacheAssumption DEF TasksTypeOK, Labels, Operations
<1>4. CallOK(t)'
  BY <1>1, <1>3 DEF CallOK, Waiting, Making, Operations
<1>5. SameHolder(t) /\ SameOwner(t)
  BY <1>1, <1>3 DEF SameHolder, SameOwner, Holds, InMakeRequest
<1> QED
  BY <1>1, <1>2, <1>3, <1>4, <1>5, MoveKeeps

-----------------------------------------------------------------------------
(* getblk(). *)

(* The buffer getblk() returns is counted, and locked if it is to be read. *)
LEMMA GotKeeps ==
  ASSUME CacheIInv, NEW t \in Tasks, NEW b \in Buffers, NEW n,
         GotBuffer(t, b, n), ~buf[b].lock, buf[b].blk \in Blocks,
         bh' = [bh EXCEPT ![t] = b],
         UNCHANGED <<free_list, disk, cpu, rq, op, want, si>>,
         \/ pc[t] = "hash" /\ n = buf[b].count + 1
         \/ pc[t] = "hash_wait" /\ bh[t] = b /\ n = buf[b].count
  PROVE  CacheIInv'
<1>0. TasksTypeOK /\ CallOK(t) /\ FreeListOK /\ StoreTypeOK
  BY DEF CacheIInv
<1> USE <1>0
<1> DEFINE reads == ~(op[t] = "raw_write" \/ buf[b].uptodate)
           label == IF reads THEN "slot" ELSE "use"
<1>1. pc' = [pc EXCEPT ![t] = label]
  BY DEF GotBuffer, Goto
<1>2. buf[b] \in BufferRecord /\ n \in Nat
  BY DEF StoreTypeOK, BufferRecord
<1>3. Edited(b, buf[b].blk, n, reads, buf[b].dirt)
  <2>1. CASE reads
    BY <1>2, <2>1, EditCountLock DEF GotBuffer
  <2>2. CASE ~reads
    <3>1. reads = buf[b].lock
      BY <1>2, <2>2 DEF BufferRecord
    <3>2. buf' = [buf EXCEPT ![b].count = n]
      BY <2>2 DEF GotBuffer
    <3> HIDE DEF reads
    <3> QED
      BY <1>2, <3>1, <3>2, EditCount
  <2> QED
    BY <2>1, <2>2
<1>4. Others(t)
  BY <1>1 DEF Others, TasksTypeOK
<1>5. si[t] = 0 /\ op[t] \notin {"sync", "none"} /\ want[t] \in Blocks
  BY DEF CallOK, Waiting
<1>6. TasksTypeOK' /\ pc'[t] = label /\ bh'[t] = b
  BY <1>1 DEF TasksTypeOK, Labels, Waiting, Making
<1>7. CallOK(t)'
  BY <1>5, <1>6, CacheAssumption DEF CallOK, Waiting, Making, TasksTypeOK
<1>8. Accounted(t, b, n)
  BY <1>2, <1>5, <1>6 DEF Accounted, Holds, Bit, BufferRecord
<1>9. LockTaken(t, b, reads)
  BY <1>2, <1>5, <1>6 DEF LockTaken, SameOwner, InMakeRequest, RwBuffer, BufferRecord
<1>10. FreeListOK' /\ cpu' \in Tasks \cup {NoTask} /\ UNCHANGED rq /\ UNCHANGED disk
  BY DEF FreeListOK, StoreTypeOK
<1>11. reads \in BOOLEAN
  OBVIOUS
<1> HIDE DEF reads
<1> QED
  BY <1>3, <1>4, <1>6, <1>7, <1>8, <1>9, <1>10, <1>11, EditKeeps

LEMMA HashHitKeeps ==
  ASSUME CacheIInv, NEW t \in Tasks, HashHit(t) PROVE CacheIInv'
<1>0. TasksTypeOK /\ CallOK(t) /\ FreeListOK /\ StoreTypeOK
  BY DEF CacheIInv
<1> USE <1>0
<1>1. PICK b \in find_buffer(want[t]) :
        /\ bh' = [bh EXCEPT ![t] = b]
        /\ IF buf[b].lock
             THEN /\ buf' = [buf EXCEPT ![b].count = @ + 1]
                  /\ BlockAt(t, b, "hash_wait")
             ELSE /\ GotBuffer(t, b, buf[b].count + 1)
                  /\ UNCHANGED <<cpu, waitVars>>
  BY DEF HashHit
<1>2. pc[t] = "hash" /\ UNCHANGED <<free_list, disk, rq, op, want, si>>
  BY DEF HashHit, At
<1>3. si[t] = 0 /\ op[t] \notin {"sync", "none"} /\ want[t] \in Blocks
  BY <1>2 DEF CallOK
<1>4. b \in Buffers /\ buf[b].blk \in Blocks
  BY <1>3 DEF find_buffer
<1>5. CASE ~buf[b].lock
  BY <1>1, <1>2, <1>4, <1>5, GotKeeps
<1>6. CASE buf[b].lock
  <2> DEFINE n == buf[b].count + 1
  <2>1. pc' = [pc EXCEPT ![t] = "hash_wait"]
    BY <1>1, <1>6 DEF BlockAt, Goto
  <2>2. buf[b] \in BufferRecord /\ buf[b].count \in Nat
    BY <1>4 DEF StoreTypeOK, BufferRecord
  <2>3. Edited(b, buf[b].blk, n, buf[b].lock, buf[b].dirt)
    <3>1. n \in Nat /\ buf' = [buf EXCEPT ![b].count = n]
      BY <1>1, <1>6, <2>2
    <3> HIDE DEF n
    <3> QED
      BY <1>4, <3>1, EditCount
  <2>4. Others(t)
    BY <1>1, <1>2, <2>1 DEF Others, TasksTypeOK
  <2>5. TasksTypeOK' /\ pc'[t] = "hash_wait" /\ bh'[t] = b
    BY <1>1, <1>2, <1>4, <2>1 DEF TasksTypeOK, Labels, Waiting, Making
  <2>6. CallOK(t)'
    BY <1>2, <1>3, <1>4, <2>5, CacheAssumption DEF CallOK, Waiting, Making, TasksTypeOK
  <2>7. Accounted(t, b, n)
    BY <1>2, <2>2, <2>5 DEF Accounted, Holds, Bit
  <2>8. LockTaken(t, b, buf[b].lock)
    BY <1>2, <2>5 DEF LockTaken, SameOwner, InMakeRequest
  <2>9. FreeListOK' /\ cpu' \in Tasks \cup {NoTask} /\ UNCHANGED rq /\ UNCHANGED disk
    BY <1>1, <1>2, <1>6 DEF FreeListOK, StoreTypeOK, BlockAt
  <2>10. buf[b].lock \in BOOLEAN
    BY <2>2 DEF BufferRecord
  <2> HIDE DEF n
  <2> QED
    BY <1>4, <2>3, <2>4, <2>5, <2>6, <2>7, <2>8, <2>9, <2>10, EditKeeps
<1> QED
  BY <1>5, <1>6

LEMMA HashWaitKeeps ==
  ASSUME CacheIInv, NEW t \in Tasks, HashWait(t) PROVE CacheIInv'
<1>0. TasksTypeOK /\ CallOK(t) /\ FreeListOK /\ StoreTypeOK /\ CountExact /\ InUseNamed
  BY DEF CacheIInv
<1> USE <1>0
<1> DEFINE b == bh[t]
<1>1. pc[t] = "hash_wait"
  BY DEF HashWait, At
<1>2. /\ si[t] = 0 /\ op[t] \notin {"sync", "none"} /\ want[t] \in Blocks
      /\ b \in Buffers /\ Holds(t, b)
  BY <1>1 DEF CallOK, Waiting, Holds
<1>3. buf[b] \in BufferRecord /\ buf[b].count \in Nat \ {0}
  BY <1>2, HolderCounted DEF StoreTypeOK
<1>4. CASE WaitOnBuffer(t, b, "hash_wait")
  BY <1>1, <1>4, WaitKeeps
<1>5. CASE ~buf[b].lock /\ ~WaitOnBuffer(t, b, "hash_wait")
  <2>1. /\ IF buf[b].blk = want[t]
             THEN GotBuffer(t, b, buf[b].count)
             ELSE Goto(t, "hash") /\ buf' = [buf EXCEPT ![b].count = @ - 1]
        /\ UNCHANGED <<free_list, disk, cpu, rq, op, want, bh, si>>
    BY <1>5 DEF HashWait
  <2>2. CASE buf[b].blk = want[t]
    <3>1. bh' = [bh EXCEPT ![t] = b]
      BY <2>1 DEF TasksTypeOK
    <3> HIDE DEF b
    <3> QED
      BY <1>1, <1>2, <1>5, <2>1, <2>2, <3>1, GotKeeps DEF b
  <2>3. CASE buf[b].blk # want[t]
    <3> DEFINE n == buf[b].count - 1
    <3>1. pc' = [pc EXCEPT ![t] = "hash"]
      BY <2>1, <2>3 DEF Goto
    <3>2. n \in Nat /\ buf[b].blk \in Blocks
      BY <1>2, <1>3 DEF InUseNamed
    <3>3. Edited(b, buf[b].blk, n, buf[b].lock, buf[b].dirt)
      BY <1>2, <1>3, <2>1, <2>3, <3>2, EditCount
    <3>4. Others(t)
      BY <2>1, <3>1 DEF Others, TasksTypeOK
    <3>5. TasksTypeOK' /\ pc'[t] = "hash" /\ bh'[t] = b
      BY <2>1, <3>1 DEF TasksTypeOK, Labels
    <3>6. CallOK(t)'
      BY <1>2, <2>1, <3>5 DEF CallOK, Waiting, Making, TasksTypeOK
    <3>7. Accounted(t, b, n)
      BY <1>2, <1>3, <3>5, <2>1 DEF Accounted, Holds, Bit
    <3>8. LockTaken(t, b, buf[b].lock)
      BY <1>1, <3>5 DEF LockTaken, SameOwner, InMakeRequest
    <3>9. FreeListOK' /\ cpu' \in Tasks \cup {NoTask} /\ UNCHANGED rq /\ UNCHANGED disk
      BY <2>1 DEF FreeListOK, StoreTypeOK
    <3>10. buf[b].lock \in BOOLEAN
      BY <1>3 DEF BufferRecord
    <3> HIDE DEF n, b
    <3> QED
      BY <1>2, <3>2, <3>3, <3>4, <3>5, <3>6, <3>7, <3>8, <3>9, <3>10, EditKeeps
  <2> QED
    BY <2>2, <2>3
<1> QED
  BY <1>4, <1>5 DEF HashWait

(* The buffer getblk() settles on is one of the ring. *)
LEMMA CandidateOK ==
  ASSUME StoreTypeOK, FreeListOK, Candidate # 0 PROVE Candidate \in Buffers
<1> DEFINE unused == {i \in Buffers : buf[free_list[i]].count = 0}
           best == {i \in unused : \A j \in unused :
                      BADNESS(free_list[i]) <= BADNESS(free_list[j])}
           B == {BADNESS(free_list[i]) : i \in unused}
<1>1. unused # {} /\ Candidate = free_list[Min(best)]
  BY DEF Candidate
<1>2. B # {} /\ B \in SUBSET Nat
  BY <1>1 DEF BADNESS
<1>3. PICK m \in B : \A y \in B : m <= y
  <2> HIDE DEF B
  <2> QED
    BY <1>2, SmallestExists
<1>4. best # {} /\ best \in SUBSET Nat /\ best \subseteq Buffers
  BY <1>3, CacheAssumption DEF Buffers
<1>5. Min(best) \in best
  <2> HIDE DEF best
  <2> QED
    BY <1>4, MinSmallest
<1> QED
  BY <1>1, <1>4, <1>5 DEF FreeListOK

LEMMA HashMissKeeps ==
  ASSUME CacheIInv, NEW t \in Tasks, HashMiss(t) PROVE CacheIInv'
<1>0. TasksTypeOK /\ CallOK(t) /\ FreeListOK /\ StoreTypeOK
  BY DEF CacheIInv
<1> USE <1>0
<1>1. PICK label \in {"hash", "claim"}, b \in Buffers \cup {0} :
        /\ pc[t] = "hash" /\ pc' = [pc EXCEPT ![t] = label]
        /\ bh' = [bh EXCEPT ![t] = b] /\ (label = "claim" => b \in Buffers)
        /\ UNCHANGED <<buf, free_list, disk, rq, op, want, si>>
        /\ cpu' \in Tasks \cup {NoTask}
  <2>1. /\ pc[t] = "hash" /\ UNCHANGED <<buf, free_list, disk, rq, op, want, si>>
        /\ bh[t] \in Buffers \cup {0} /\ bh = [bh EXCEPT ![t] = bh[t]]
    BY DEF HashMiss, At, TasksTypeOK
  <2>2. CASE Candidate = 0
    BY <2>1, <2>2 DEF HashMiss, BlockAt, Goto
  <2>3. CASE Candidate # 0
    BY <2>1, <2>3, CandidateOK DEF HashMiss, Goto, At
  <2> QED
    BY <2>2, <2>3
<1>2. Others(t)
  BY <1>1 DEF Others, TasksTypeOK
<1>3. TasksTypeOK' /\ pc'[t] = label /\ bh'[t] = b
  BY <1>1 DEF TasksTypeOK, Labels
<1>4. CallOK(t)'
  BY <1>1, <1>3 DEF CallOK, Waiting, Making
<1>5. SameHolder(t) /\ SameOwner(t)
  BY <1>1, <1>3 DEF SameHolder, SameOwner, Holds, InMakeRequest
<1> QED
  BY <1>1, <1>2, <1>3, <1>4, <1>5, MoveKeeps

(* Moving a buffer to the end of the ring keeps every buffer in it. *)
LEMMA MoveToEndKeeps ==
  ASSUME FreeListOK, NEW b \in Buffers, free_list' = MoveToEnd(b) PROVE FreeListOK'
<1>1. PICK p \in Buffers :
        /\ free_list[p] = b
        /\ MoveToEnd(b) = [i \in Buffers |-> IF i = NR_BUFFERS THEN b
                             ELSE free_list[IF i < p THEN i ELSE i + 1]]
  BY DEF FreeListOK, MoveToEnd
<1>2. /\ free_list' = [i \in Buffers |-> free_list'[i]]
      /\ \A i \in Buffers : free_list'[i] = IF i = NR_BUFFERS THEN b
                             ELSE free_list[IF i < p THEN i ELSE i + 1]
  BY <1>1
<1> USE CacheAssumption DEF Buffers
<1>3. ASSUME NEW i \in Buffers PROVE free_list'[i] \in Buffers
  <2>1. i = NR_BUFFERS \/ i + 1 \in Buffers
    OBVIOUS
  <2> QED
    BY <1>2, <2>1 DEF FreeListOK
<1>4. ASSUME NEW c \in Buffers PROVE \E i \in Buffers : free_list'[i] = c
  <2>1. PICK j \in Buffers : free_list[j] = c
    BY DEF FreeListOK
  <2>2. CASE j = p
    BY <1>1, <1>2, <2>1, <2>2
  <2>3. CASE j < p
    BY <1>2, <2>1, <2>3
  <2>4. CASE j > p
    <3>1. j - 1 \in Buffers /\ j - 1 # NR_BUFFERS /\ ~ (j - 1 < p) /\ j - 1 + 1 = j
      BY <2>4
    <3> QED
      BY <1>2, <2>1, <3>1
  <2> QED
    BY <2>2, <2>3, <2>4
<1> QED
  BY <1>2, <1>3, <1>4 DEF FreeListOK

LEMMA ClaimKeeps ==
  ASSUME CacheIInv, NEW t \in Tasks, Claim(t) PROVE CacheIInv'
<1>0. TasksTypeOK /\ CallOK(t) /\ FreeListOK /\ StoreTypeOK
  BY DEF CacheIInv
<1> USE <1>0
<1> DEFINE b == bh[t]
<1>1. pc[t] = "claim"
  BY DEF Claim, At
<1>2. /\ si[t] = 0 /\ op[t] \notin {"sync", "none"} /\ want[t] \in Blocks
      /\ b \in Buffers
  BY <1>1 DEF CallOK
<1>3. buf[b] \in BufferRecord
  BY <1>2 DEF StoreTypeOK
<1>4. CASE WaitOnBuffer(t, b, "claim")
  BY <1>1, <1>4, WaitKeeps
<1>5. CASE ~WaitOnBuffer(t, b, "claim") /\ Claimable(t, b)
  <2> DEFINE reads == op[t] # "raw_write"
             label == IF reads THEN "slot" ELSE "use"
             r1 == [buf[b] EXCEPT !.blk = want[t]]
             r2 == [r1 EXCEPT !.count = 1]
             r3 == [r2 EXCEPT !.uptodate = FALSE]
             r4 == [r3 EXCEPT !.dirt = FALSE]
             r == [r4 EXCEPT !.lock = reads]
  <2>1. /\ ~buf[b].lock /\ buf[b].count = 0 /\ buf' = [buf EXCEPT ![b] = r]
        /\ free_list' = MoveToEnd(b) /\ pc' = [pc EXCEPT ![t] = label]
        /\ UNCHANGED <<disk, cpu, rq, op, want, bh, si>>
    BY <1>5 DEF Claim, Claimable, Goto
  <2>2. Edited(b, want[t], 1, reads, FALSE)
    <3>1. r1 \in BufferRecord /\ r1.blk = want[t]
      BY <1>2, <1>3, SetBlk
    <3> HIDE DEF r1
    <3>2. r2 \in BufferRecord /\ r2.blk = r1.blk /\ r2.count = 1
      BY <3>1, SetCount
    <3> HIDE DEF r2
    <3>3. r3 \in BufferRecord /\ r3.blk = r2.blk /\ r3.count = r2.count
      BY <3>2, SetUptodate
    <3> HIDE DEF r3
    <3>4. r4 \in BufferRecord /\ r4.blk = r3.blk /\ r4.count = r3.count /\ r4.dirt = FALSE
      BY <3>3, SetDirt
    <3> HIDE DEF r4
    <3>a. reads \in BOOLEAN
      OBVIOUS
    <3> HIDE DEF reads
    <3>5. /\ r \in BufferRecord /\ r.blk = r4.blk /\ r.count = r4.count
          /\ r.dirt = r4.dirt /\ r.lock = reads
      BY <3>4, <3>a, SetLock
    <3> HIDE DEF r
    <3> QED
      BY <1>2, <2>1, <3>1, <3>2, <3>3, <3>4, <3>5, EditedBy
  <2>3. Others(t)
    BY <2>1 DEF Others, TasksTypeOK
  <2>4. TasksTypeOK' /\ pc'[t] = label
    BY <2>1 DEF TasksTypeOK, Labels, Waiting, Making
  <2>5. CallOK(t)'
    BY <1>2, <2>1, <2>4, CacheAssumption DEF CallOK, Waiting, Making, TasksTypeOK
  <2>6. Accounted(t, b, 1)
    BY <1>1, <1>2, <2>1, <2>4 DEF Accounted, Holds, Bit
  <2>7. LockTaken(t, b, reads)
    BY <1>1, <1>2, <1>3, <2>1, <2>4
       DEF LockTaken, SameOwner, InMakeRequest, RwBuffer, BufferRecord
  <2>8. FreeListOK' /\ cpu' \in Tasks \cup {NoTask} /\ UNCHANGED rq /\ UNCHANGED disk
    BY <1>2, <2>1, MoveToEndKeeps DEF StoreTypeOK
  <2>9. reads \in BOOLEAN
    OBVIOUS
  <2> HIDE DEF reads, b
  <2> QED
    BY <1>2, <2>1, <2>2, <2>3, <2>4, <2>5, <2>6, <2>7, <2>8, <2>9, EditKeeps
<1>6. CASE ~WaitOnBuffer(t, b, "claim") /\ ~Claimable(t, b)
  <2>1. PICK label \in {"sync", "hash"}, i \in 0 .. 1 :
          /\ pc' = [pc EXCEPT ![t] = label] /\ si' = [si EXCEPT ![t] = i]
          /\ (label = "sync" <=> i = 1)
          /\ UNCHANGED <<buf, free_list, disk, rq, op, want, bh>>
          /\ cpu' \in Tasks \cup {NoTask}
    <3>1. si = [si EXCEPT ![t] = 0]
      BY <1>2 DEF TasksTypeOK
    <3>2. CASE buf[b].count = 0 /\ buf[b].dirt
      BY <1>6, <3>2 DEF Claim, Goto, At
    <3>3. CASE ~(buf[b].count = 0 /\ buf[b].dirt)
      BY <1>6, <3>1, <3>3 DEF Claim, Goto, At
    <3> QED
      BY <3>2, <3>3
  <2>2. Others(t)
    BY <2>1 DEF Others, TasksTypeOK
  <2>3. TasksTypeOK' /\ pc'[t] = label /\ si'[t] = i
    BY <2>1, CacheAssumption DEF TasksTypeOK, Labels
  <2>4. CallOK(t)'
    BY <1>2, <2>1, <2>3 DEF CallOK, Waiting, Making
  <2>5. SameHolder(t) /\ SameOwner(t)
    BY <1>1, <2>1, <2>3 DEF SameHolder, SameOwner, Holds, InMakeRequest
  <2> QED
    BY <2>1, <2>2, <2>3, <2>4, <2>5, MoveKeeps
<1> QED
  BY <1>4, <1>5, <1>6

-----------------------------------------------------------------------------
(* The steps inside make_request(), and those of a caller with a buffer. *)

(* A task goes on without taking or giving up anything. *)
LEMMA LabelKeeps ==
  ASSUME CacheIInv, NEW t \in Tasks, NEW label,
         \/ pc[t] \in Making /\ label \in Making
         \/ pc[t] \in Waiting /\ label \in Waiting,
         pc' = [pc EXCEPT ![t] = label],
         UNCHANGED <<buf, free_list, disk, rq, op, want, bh, si>>,
         cpu' \in Tasks \cup {NoTask}
  PROVE  CacheIInv'
<1>0. TasksTypeOK /\ CallOK(t)
  BY DEF CacheIInv
<1> USE <1>0
<1>1. Others(t)
  BY DEF Others, TasksTypeOK
<1>2. TasksTypeOK' /\ pc'[t] = label
  BY DEF TasksTypeOK, Labels
<1>3. CallOK(t)'
  BY <1>2 DEF CallOK, Waiting, Making
<1>4. SameHolder(t) /\ SameOwner(t)
  BY <1>2 DEF SameHolder, SameOwner, Holds, InMakeRequest, RwBuffer, Waiting, Making
<1> QED
  BY <1>1, <1>2, <1>3, <1>4, MoveKeeps

LEMMA SleepKeeps ==
  ASSUME CacheIInv, NEW t \in Tasks, SleepTmp(t) \/ SleepLink(t) \/ SleepState(t)
  PROVE  CacheIInv'
<1>1. cpu \in Tasks \cup {NoTask}
  BY DEF CacheIInv, StoreTypeOK
<1>2. PICK label \in Making :
        /\ pc[t] \in Making /\ pc' = [pc EXCEPT ![t] = label]
        /\ UNCHANGED <<buf, free_list, disk, rq, op, want, bh, si>>
        /\ cpu' \in Tasks \cup {NoTask}
  BY <1>1 DEF SleepTmp, SleepLink, SleepState, At, Goto, Making
<1> QED
  BY <1>2, LabelKeeps

LEMMA ReadWaitKeeps ==
  ASSUME CacheIInv, NEW t \in Tasks, ReadWait(t) PROVE CacheIInv'
<1>1. cpu \in Tasks \cup {NoTask}
  BY DEF CacheIInv, StoreTypeOK
<1>2. pc[t] = "rd_wait"
  BY DEF ReadWait, At
<1>3. CASE WaitOnBuffer(t, bh[t], "rd_wait")
  BY <1>2, <1>3, WaitKeeps
<1>4. CASE ~WaitOnBuffer(t, bh[t], "rd_wait")
  <2>1. PICK label \in Waiting :
          /\ pc[t] \in Waiting /\ pc' = [pc EXCEPT ![t] = label]
          /\ UNCHANGED <<buf, free_list, disk, rq, op, want, bh, si>>
          /\ cpu' \in Tasks \cup {NoTask}
    BY <1>1, <1>2, <1>4 DEF ReadWait, Goto, Waiting
  <2> QED
    BY <2>1, LabelKeeps
<1> QED
  BY <1>3, <1>4

LEMMA UseReadKeeps ==
  ASSUME CacheIInv, NEW t \in Tasks, UseRead(t) PROVE CacheIInv'
<1>1. cpu \in Tasks \cup {NoTask}
  BY DEF CacheIInv, StoreTypeOK
<1>2. PICK label \in Waiting :
        /\ pc[t] \in Waiting /\ pc' = [pc EXCEPT ![t] = label]
        /\ UNCHANGED <<buf, free_list, disk, rq, op, want, bh, si>>
        /\ cpu' \in Tasks \cup {NoTask}
  BY <1>1 DEF UseRead, At, Goto, Waiting
<1> QED
  BY <1>2, LabelKeeps

(* A caller holds the buffer it writes to, so that it is counted. *)
LEMMA HeldFacts ==
  ASSUME CacheIInv, NEW t \in Tasks, pc[t] \in Waiting
  PROVE  /\ bh[t] \in Buffers /\ Holds(t, bh[t]) /\ si[t] = 0
         /\ buf[bh[t]] \in BufferRecord /\ buf[bh[t]].count \in Nat \ {0}
         /\ buf[bh[t]].blk \in Blocks
<1>0. TasksTypeOK /\ CallOK(t) /\ StoreTypeOK /\ CountExact /\ InUseNamed
  BY DEF CacheIInv
<1>1. bh[t] \in Buffers /\ Holds(t, bh[t]) /\ si[t] = 0
  BY <1>0 DEF CallOK, Waiting, Holds
<1>2. buf[bh[t]].count \in Nat \ {0}
  BY <1>0, <1>1, HolderCounted
<1> QED
  BY <1>0, <1>1, <1>2 DEF StoreTypeOK, InUseNamed

(* The caller writes into its buffer, or marks it dirty. *)
LEMMA WriteKeeps ==
  ASSUME CacheIInv, NEW t \in Tasks, NEW label \in Waiting, pc[t] \in Waiting,
         pc' = [pc EXCEPT ![t] = label], NEW d,
         Edited(bh[t], buf[bh[t]].blk, buf[bh[t]].count, buf[bh[t]].lock, d),
         UNCHANGED <<free_list, disk, rq, op, want, bh, si>>,
         cpu' \in Tasks \cup {NoTask}
  PROVE  CacheIInv'
<1>0. TasksTypeOK /\ CallOK(t) /\ FreeListOK
  BY DEF CacheIInv
<1> USE <1>0
<1> DEFINE b == bh[t]
<1>1. Others(t)
  BY DEF Others, TasksTypeOK
<1>2. TasksTypeOK' /\ pc'[t] = label
  BY DEF TasksTypeOK, Labels
<1>3. CallOK(t)'
  BY <1>2 DEF CallOK, Waiting, Making
<1>4. SameHolder(t) /\ SameOwner(t)
  BY <1>2 DEF SameHolder, SameOwner, Holds, InMakeRequest, RwBuffer, Waiting, Making
<1>5. /\ b \in Buffers /\ buf[b] \in BufferRecord /\ buf[b].count \in Nat
      /\ buf[b].blk \in Blocks /\ buf[b].lock \in BOOLEAN
  BY HeldFacts DEF BufferRecord
<1>6. Accounted(t, b, buf[b].count) /\ LockTaken(t, b, buf[b].lock)
  BY <1>4, <1>5 DEF Accounted, LockTaken, SameHolder, Bit
<1>7. FreeListOK' /\ UNCHANGED disk /\ UNCHANGED rq
  BY DEF FreeListOK
<1>8. Edited(b, buf[b].blk, buf[b].count, buf[b].lock, d)
  OBVIOUS
<1> HIDE DEF b
<1> QED
  BY <1>1, <1>2, <1>3, <1>5, <1>6, <1>7, <1>8, EditKeeps

LEMMA UseWriteKeeps ==
  ASSUME CacheIInv, NEW t \in Tasks, NEW v \in Values,
         UseWrite(t, v) \/ CopyAfterFault(t, v) \/ UseSlowWrite(t)
  PROVE  CacheIInv'
<1> DEFINE b == bh[t]
<1>0. StoreTypeOK /\ cpu \in Tasks \cup {NoTask}
  BY DEF CacheIInv, StoreTypeOK
<1>1. PICK label \in Waiting :
        /\ pc[t] \in Waiting /\ pc' = [pc EXCEPT ![t] = label]
        /\ UNCHANGED <<free_list, disk, rq, op, want, bh, si>>
        /\ cpu' \in Tasks \cup {NoTask}
        /\ \/ buf' = [buf EXCEPT ![b].data = v, ![b].dirt = TRUE]
           \/ buf' = [buf EXCEPT ![b].data = v]
           \/ buf' = [buf EXCEPT ![b].dirt = TRUE]
  BY <1>0 DEF UseWrite, CopyAfterFault, UseSlowWrite, At, Goto, Waiting
<1>2. b \in Buffers
  BY <1>1, HeldFacts
<1>3. PICK d \in BOOLEAN : Edited(b, buf[b].blk, buf[b].count, buf[b].lock, d)
  <2>1. buf[b].dirt \in BOOLEAN
    BY <1>0, <1>2 DEF StoreTypeOK, BufferRecord
  <2> HIDE DEF b
  <2> QED
    BY <1>0, <1>1, <1>2, <2>1, EditDataDirt, EditData, EditDirt
<1> QED
  BY <1>1, <1>3, WriteKeeps

LEMMA ReleaseKeeps ==
  ASSUME CacheIInv, NEW t \in Tasks, Release(t) PROVE CacheIInv'
<1>0. TasksTypeOK /\ CallOK(t) /\ FreeListOK /\ StoreTypeOK
  BY DEF CacheIInv
<1> USE <1>0
<1> DEFINE b == bh[t]
<1>1. pc[t] = "release"
  BY DEF Release, At
<1>2. /\ b \in Buffers /\ Holds(t, b) /\ buf[b] \in BufferRecord
      /\ buf[b].count \in Nat \ {0} /\ buf[b].blk \in Blocks /\ si[t] = 0
  BY <1>1, HeldFacts DEF Waiting
<1>3. CASE WaitOnBuffer(t, b, "release")
  BY <1>1, <1>3, WaitKeeps
<1>4. CASE ~WaitOnBuffer(t, b, "release")
  <2> DEFINE n == buf[b].count - 1
  <2>1. /\ buf' = [buf EXCEPT ![b].count = n] /\ n \in Nat
        /\ pc' = [pc EXCEPT ![t] = "idle"] /\ op' = [op EXCEPT ![t] = "none"]
        /\ want' = [want EXCEPT ![t] = NoBlock] /\ bh' = [bh EXCEPT ![t] = 0]
        /\ si' = [si EXCEPT ![t] = 0]
        /\ UNCHANGED <<free_list, disk, rq>> /\ cpu' = NoTask
    BY <1>2, <1>4 DEF Release, ReleaseBuffer, Done
  <2>2. Others(t)
    BY <2>1 DEF Others, TasksTypeOK
  <2>3. TasksTypeOK' /\ pc'[t] = "idle" /\ op'[t] = "none" /\ si'[t] = 0
    BY <2>1, CacheAssumption DEF TasksTypeOK, Labels
  <2>4. CallOK(t)'
    BY <2>3 DEF CallOK, Waiting, Making
  <2>5. ~Holds(t, b)' /\ \A c \in Buffers \ {b} : ~Holds(t, c)' /\ ~Holds(t, c)
    BY <2>3 DEF Holds
  <2>6. Accounted(t, b, n)
    BY <1>2, <2>5 DEF Accounted, Bit
  <2>7. LockTaken(t, b, buf[b].lock)
    BY <1>1, <2>3 DEF LockTaken, SameOwner, InMakeRequest
  <2>8. FreeListOK' /\ UNCHANGED disk /\ UNCHANGED rq /\ cpu' \in Tasks \cup {NoTask}
    BY <2>1 DEF FreeListOK
  <2>9. buf[b].lock \in BOOLEAN
    BY <1>2 DEF BufferRecord
  <2> HIDE DEF n, b
  <2>10. Edited(b, buf[b].blk, n, buf[b].lock, buf[b].dirt)
    BY <1>2, <2>1, EditCount
  <2> QED
    BY <1>2, <2>1, <2>2, <2>3, <2>4, <2>6, <2>7, <2>8, <2>9, <2>10, EditKeeps
<1> QED
  BY <1>3, <1>4

-----------------------------------------------------------------------------
(* The loops of sys_sync() and sync_dev(). *)

LEMMA BufferAtOK ==
  ASSUME NEW i \in Nat \ {0} PROVE BufferAt(i) \in Buffers
<1>1. i - 1 \in Nat /\ NR_BUFFERS \in Nat \ {0}
  BY CacheAssumption
<1>2. (i - 1) % NR_BUFFERS \in 0 .. NR_BUFFERS - 1
  BY <1>1
<1> QED
  BY <1>1, <1>2 DEF BufferAt, Buffers

(* The loop locks the dirty buffer b for its write. *)
LEMMA SyncLockKeeps ==
  ASSUME CacheIInv, NEW t \in Tasks, pc[t] \in {"sync", "sync_wait"},
         NEW i \in 1 .. 2 * NR_BUFFERS, NEW b, b = BufferAt(i),
         ~buf[b].lock, buf[b].dirt, buf' = [buf EXCEPT ![b].lock = TRUE],
         pc' = [pc EXCEPT ![t] = "slot"], si' = [si EXCEPT ![t] = i],
         UNCHANGED <<free_list, disk, rq, cpu, op, want, bh>>
  PROVE  CacheIInv'
<1>0. TasksTypeOK /\ CallOK(t) /\ FreeListOK /\ StoreTypeOK /\ InUseNamed
  BY DEF CacheIInv
<1> USE <1>0
<1>1. i \in Nat \ {0} /\ NR_BUFFERS \in Nat \ {0}
  BY CacheAssumption
<1>2. b \in Buffers /\ buf[b] \in BufferRecord /\ buf[b].count \in Nat /\ buf[b].blk \in Blocks
  BY <1>1, BufferAtOK DEF StoreTypeOK, BufferRecord, InUseNamed
<1>3. Edited(b, buf[b].blk, buf[b].count, TRUE, buf[b].dirt)
  BY <1>2, EditLock
<1>4. Others(t)
  BY DEF Others, TasksTypeOK
<1>5. TasksTypeOK' /\ pc'[t] = "slot" /\ si'[t] = i
  BY <1>1 DEF TasksTypeOK, Labels, Making
<1>6. CallOK(t)'
  BY <1>1, <1>5 DEF CallOK, Waiting, Making
<1>7. Accounted(t, b, buf[b].count)
  BY <1>1, <1>2, <1>5 DEF Accounted, Holds, Bit
<1>8. RwBuffer(t)' = b
  BY <1>1, <1>5 DEF RwBuffer, BufferAt
<1>9. LockTaken(t, b, TRUE)
  BY <1>5, <1>8 DEF LockTaken, InMakeRequest
<1>10. FreeListOK' /\ UNCHANGED disk /\ UNCHANGED rq /\ cpu' \in Tasks \cup {NoTask}
  BY DEF FreeListOK, StoreTypeOK
<1> QED
  BY <1>2, <1>3, <1>4, <1>5, <1>6, <1>7, <1>9, <1>10, EditKeeps

(* The loop goes on, sleeps or ends. *)
LEMMA SyncMoveKeeps ==
  ASSUME CacheIInv, NEW t \in Tasks, pc[t] \in {"sync", "sync_wait"},
         NEW label \in {"sync", "sync_wait", "claim"}, NEW i \in 0 .. 2 * NR_BUFFERS + 1,
         label = "claim" <=> i = 0, label = "claim" => op[t] # "sync",
         label = "sync_wait" => i <= 2 * NR_BUFFERS,
         pc' = [pc EXCEPT ![t] = label], si' = [si EXCEPT ![t] = i],
         UNCHANGED <<buf, free_list, disk, rq, op, want, bh>>,
         cpu' \in Tasks \cup {NoTask}
  PROVE  CacheIInv'
<1>0. TasksTypeOK /\ CallOK(t)
  BY DEF CacheIInv
<1> USE <1>0
<1>1. Others(t)
  BY DEF Others, TasksTypeOK
<1>2. TasksTypeOK' /\ pc'[t] = label /\ si'[t] = i
  BY CacheAssumption DEF TasksTypeOK, Labels
<1>3. CallOK(t)'
  BY <1>2 DEF CallOK, Waiting, Making
<1>4. SameHolder(t) /\ SameOwner(t)
  BY <1>2 DEF SameHolder, SameOwner, Holds, InMakeRequest
<1> QED
  BY <1>1, <1>2, <1>3, <1>4, MoveKeeps

LEMMA SyncLoopKeeps ==
  ASSUME CacheIInv, NEW t \in Tasks, SyncLoop(t) PROVE CacheIInv'
<1>0. TasksTypeOK /\ CallOK(t) /\ FreeListOK /\ StoreTypeOK
  BY DEF CacheIInv
<1> USE <1>0
<1>1. pc[t] = "sync" /\ UNCHANGED <<free_list, disk, rq>> /\ cpu \in Tasks \cup {NoTask}
  BY DEF SyncLoop, At, StoreTypeOK
<1>2. si[t] \in Nat \ {0} /\ NR_BUFFERS \in Nat \ {0}
  BY <1>1, CacheAssumption DEF CallOK, TasksTypeOK
<1>3. CASE SyncStops(t) = {} /\ op[t] = "sync"
  <2>1. /\ pc' = [pc EXCEPT ![t] = "idle"] /\ op' = [op EXCEPT ![t] = "none"]
        /\ want' = [want EXCEPT ![t] = NoBlock] /\ bh' = [bh EXCEPT ![t] = 0]
        /\ si' = [si EXCEPT ![t] = 0] /\ UNCHANGED buf /\ cpu' = NoTask
    BY <1>3 DEF SyncLoop, Done
  <2>2. Others(t)
    BY <2>1 DEF Others, TasksTypeOK
  <2>3. TasksTypeOK' /\ pc'[t] = "idle" /\ op'[t] = "none" /\ si'[t] = 0
    BY <2>1, CacheAssumption DEF TasksTypeOK, Labels
  <2>4. CallOK(t)'
    BY <2>3 DEF CallOK, Waiting, Making
  <2>5. SameHolder(t) /\ SameOwner(t)
    BY <1>1, <2>3 DEF SameHolder, SameOwner, Holds, InMakeRequest
  <2> QED
    BY <1>1, <2>1, <2>2, <2>3, <2>4, <2>5, MoveKeeps
<1>4. CASE SyncStops(t) = {} /\ op[t] # "sync"
  <2>1. /\ pc' = [pc EXCEPT ![t] = "claim"] /\ si' = [si EXCEPT ![t] = 0]
        /\ UNCHANGED <<buf, cpu, op, want, bh>>
    BY <1>4 DEF SyncLoop, Goto
  <2>2. 0 \in 0 .. 2 * NR_BUFFERS + 1
    BY <1>2
  <2> QED
    BY <1>1, <1>4, <2>1, <2>2, SyncMoveKeeps
<1>5. CASE SyncStops(t) # {}
  <2> DEFINE i == Min(SyncStops(t))
             b == BufferAt(i)
  <2>1. SyncStops(t) \in SUBSET Nat
    BY <1>2 DEF SyncStops, SyncEnd
  <2>2. i \in SyncStops(t)
    BY <1>5, <2>1, MinSmallest
  <2>3. /\ i \in 1 .. 2 * NR_BUFFERS
        /\ buf[b].lock \/ buf[b].dirt
    BY <1>2, <2>2 DEF SyncStops, SyncEnd
  <2>4. /\ si' = [si EXCEPT ![t] = i] /\ UNCHANGED <<op, want, bh>>
        /\ IF buf[b].lock
             THEN BlockAt(t, b, "sync_wait") /\ UNCHANGED buf
             ELSE /\ buf' = [buf EXCEPT ![b].lock = TRUE]
                  /\ Goto(t, "slot")
                  /\ UNCHANGED <<cpu, waitVars>>
    BY <1>5 DEF SyncLoop
  <2> HIDE DEF i
  <2>5. CASE buf[b].lock
    <3>1. /\ pc' = [pc EXCEPT ![t] = "sync_wait"] /\ UNCHANGED buf
          /\ cpu' \in Tasks \cup {NoTask}
      BY <2>4, <2>5 DEF BlockAt, Goto
    <3>2. i \in 0 .. 2 * NR_BUFFERS + 1 /\ i # 0 /\ i <= 2 * NR_BUFFERS
      BY <1>2, <2>3
    <3> HIDE DEF b
    <3> QED
      BY <1>1, <2>4, <3>1, <3>2, SyncMoveKeeps
  <2>6. CASE ~buf[b].lock
    <3>1. /\ buf' = [buf EXCEPT ![b].lock = TRUE] /\ pc' = [pc EXCEPT ![t] = "slot"]
          /\ UNCHANGED cpu
      BY <2>4, <2>6 DEF Goto
    <3>2. b = BufferAt(i)
      OBVIOUS
    <3> HIDE DEF b
    <3> QED
      BY <1>1, <2>3, <2>4, <2>6, <3>1, <3>2, SyncLockKeeps
  <2> QED
    BY <2>5, <2>6
<1> QED
  BY <1>3, <1>4, <1>5

LEMMA SyncWaitKeeps ==
  ASSUME CacheIInv, NEW t \in Tasks, SyncWait(t) PROVE CacheIInv'
<1>0. TasksTypeOK /\ CallOK(t) /\ StoreTypeOK
  BY DEF CacheIInv
<1> USE <1>0
<1> DEFINE b == BufferAt(si[t])
<1>1. pc[t] = "sync_wait" /\ cpu \in Tasks \cup {NoTask}
  BY DEF SyncWait, At, StoreTypeOK
<1>2. si[t] \in 1 .. 2 * NR_BUFFERS /\ NR_BUFFERS \in Nat \ {0}
  BY <1>1, CacheAssumption DEF CallOK, TasksTypeOK
<1>3. CASE WaitOnBuffer(t, b, "sync_wait")
  BY <1>1, <1>3, WaitKeeps
<1>4. CASE ~WaitOnBuffer(t, b, "sync_wait") /\ OfDevice(t, b) /\ buf[b].dirt
  <2>1. /\ ~buf[b].lock /\ buf' = [buf EXCEPT ![b].lock = TRUE]
        /\ pc' = [pc EXCEPT ![t] = "slot"]
        /\ UNCHANGED <<free_list, disk, rq, cpu, op, want, bh>>
        /\ si' = [si EXCEPT ![t] = si[t]]
    BY <1>4 DEF SyncWait, Goto, TasksTypeOK
  <2>2. b = BufferAt(si[t])
    OBVIOUS
  <2> HIDE DEF b
  <2> QED
    BY <1>1, <1>2, <1>4, <2>1, <2>2, SyncLockKeeps
<1>5. CASE ~WaitOnBuffer(t, b, "sync_wait") /\ ~(OfDevice(t, b) /\ buf[b].dirt)
  <2> DEFINE i == si[t] + 1
  <2>1. /\ pc' = [pc EXCEPT ![t] = "sync"] /\ si' = [si EXCEPT ![t] = i]
        /\ UNCHANGED <<buf, free_list, disk, rq, cpu, op, want, bh>>
    BY <1>5 DEF SyncWait, Goto
  <2>2. i \in 0 .. 2 * NR_BUFFERS + 1 /\ i # 0
    BY <1>2
  <2> HIDE DEF i
  <2> QED
    BY <1>1, <2>1, <2>2, SyncMoveKeeps
<1> QED
  BY <1>3, <1>4, <1>5

-----------------------------------------------------------------------------
(* make_request() and end_request(). *)

(* The buffer a task makes a request for is locked for it. *)
LEMMA OwnedFacts ==
  ASSUME CacheIInv, NEW t \in Tasks, pc[t] \in Making
  PROVE  /\ RwBuffer(t) \in Buffers /\ buf[RwBuffer(t)] \in BufferRecord
         /\ buf[RwBuffer(t)].lock /\ buf[RwBuffer(t)].blk \in Blocks
         /\ InMakeRequest(t, RwBuffer(t)) /\ ~Requested(RwBuffer(t))
<1>0. TasksTypeOK /\ CallOK(t) /\ StoreTypeOK /\ LockOwners /\ InUseNamed
  BY DEF CacheIInv
<1>1. CASE si[t] # 0
  <2>1. si[t] \in Nat \ {0}
    BY <1>0, <1>1, CacheAssumption DEF TasksTypeOK
  <2> QED
    BY <1>0, <1>1, <2>1, BufferAtOK
       DEF RwBuffer, InMakeRequest, Making, LockOwners, InUseNamed, StoreTypeOK
<1>2. CASE si[t] = 0
  <2>1. bh[t] \in Buffers
    BY <1>0, <1>2 DEF CallOK, Making
  <2> QED
    BY <1>0, <1>2, <2>1
       DEF RwBuffer, InMakeRequest, Making, LockOwners, InUseNamed, StoreTypeOK
<1> QED
  BY <1>1, <1>2

(* The request takes over the lock from the task that made it. *)
LEMMA QueueKeeps ==
  ASSUME CacheIInv, NEW t \in Tasks, pc[t] = "slot", FreeSlots(rq, Cmd(t)) # {},
         QueueRequest(t), RwReturn(t),
         UNCHANGED <<free_list, disk, cpu, op, want, bh>>
  PROVE  CacheIInv'
<1>0. /\ TasksTypeOK /\ CallOK(t) /\ StoreTypeOK /\ FreeListOK
      /\ CountExact /\ LockOwners /\ RequestsCurrent /\ InUseNamed
  BY DEF CacheIInv
<1> USE <1>0
<1> DEFINE b == RwBuffer(t)
           req == [slot |-> FindSlot(rq, Cmd(t)), cmd |-> Cmd(t),
                   sector |-> buf[b].blk, bh |-> b]
<1>1. /\ b \in Buffers /\ buf[b] \in BufferRecord /\ buf[b].lock
      /\ buf[b].blk \in Blocks /\ InMakeRequest(t, b) /\ ~Requested(b)
  BY OwnedFacts DEF Making
<1>2. req \in QueueEntry /\ req.bh = b /\ req.sector = buf[b].blk
  <2>1. FindSlot(rq, Cmd(t)) \in Slots
    BY FindSlotFree
  <2>2. Cmd(t) \in Commands
    BY DEF Cmd, Commands
  <2> QED
    BY <1>1, <2>1, <2>2 DEF QueueEntry
<1>3. rq' = AddRequest(rq, req) /\ buf' = [buf EXCEPT ![b].dirt = FALSE]
  BY DEF QueueRequest
<1> HIDE DEF req
<1>4. rq \in Seq(QueueEntry)
  BY DEF StoreTypeOK
<1>5. rq' \in Seq(QueueEntry)
  BY <1>2, <1>3, <1>4, AddRequestInserts
<1>6. PICK k \in 1 .. Len(rq) + 1 : InsertedAt(rq', rq, k, req)
  BY <1>2, <1>3, <1>4, AddRequestInserts
<1>7. OneMore(rq', rq, k, req)
  BY <1>4, <1>6, InsertedMembers
<1>8. Edited(b, buf[b].blk, buf[b].count, buf[b].lock, FALSE)
  <2> HIDE DEF b
  <2> QED
    BY <1>1, <1>3, EditDirt
<1>9. PICK label \in {"sync", "rd_wait"}, i \in 0 .. 2 * NR_BUFFERS + 1 :
        /\ pc' = [pc EXCEPT ![t] = label] /\ si' = [si EXCEPT ![t] = i]
        /\ si[t] # 0 <=> label = "sync"
        /\ si[t] # 0 <=> i # 0
  <2>1. si[t] \in 0 .. 2 * NR_BUFFERS /\ NR_BUFFERS \in Nat
    BY CacheAssumption DEF CallOK, Making, TasksTypeOK
  <2>2. CASE si[t] # 0
    <3>1. /\ pc' = [pc EXCEPT ![t] = "sync"] /\ si' = [si EXCEPT ![t] = si[t] + 1]
          /\ si[t] + 1 \in 0 .. 2 * NR_BUFFERS + 1 /\ si[t] + 1 # 0
      BY <2>1, <2>2 DEF RwReturn, Goto
    <3> QED
      BY <2>2, <3>1
  <2>3. CASE si[t] = 0
    <3>1. /\ pc' = [pc EXCEPT ![t] = "rd_wait"] /\ si' = [si EXCEPT ![t] = 0]
          /\ 0 \in 0 .. 2 * NR_BUFFERS + 1
      BY <2>1, <2>3 DEF RwReturn, Goto, TasksTypeOK
    <3> QED
      BY <2>3, <3>1
  <2> QED
    BY <2>2, <2>3
<1>10. Others(t)
  BY <1>9 DEF Others, TasksTypeOK
<1>11. TasksTypeOK' /\ pc'[t] = label /\ si'[t] = i
  BY <1>9 DEF TasksTypeOK, Labels, Waiting
<1>12. \A u \in Tasks : CallOK(u)'
  <2>1. CallOK(t)'
    BY <1>9, <1>11 DEF CallOK, Waiting, Making
  <2> QED
    BY <1>10, <2>1, OthersSame DEF CacheIInv
<1>13. CountExact'
  <2>1. SameHolder(t)
    BY <1>9, <1>11 DEF SameHolder, Holds
  <2> SUFFICES ASSUME NEW c \in Buffers
               PROVE  buf'[c].count = Cardinality({u \in Tasks : Holds(u, c)'})
    BY DEF CountExact
  <2>2. buf[c].count \in Nat
    BY DEF StoreTypeOK, BufferRecord
  <2>3. buf'[c].count = buf[c].count + Bit(Holds(t, c)') - Bit(Holds(t, c))
    <3>1. buf'[c].count = buf[c].count
      BY <1>8 DEF Edited
    <3> QED
      BY <2>1, <2>2, <3>1 DEF SameHolder, Bit
  <2> QED
    BY <1>10, <2>3, CountKeeps
<1>14. StoreTypeOK' /\ FreeListOK' /\ InUseNamed'
  BY <1>5, <1>8 DEF StoreTypeOK, FreeListOK, InUseNamed, Edited
<1>15. \A c : Requested(c)' <=> (Requested(c) \/ c = b)
  <2>1. ASSUME NEW c, Requested(c)' PROVE Requested(c) \/ c = b
    <3>1. PICK j \in 1 .. Len(rq') : rq'[j].bh = c
      BY <2>1 DEF Requested
    <3>2. CASE j = k
      BY <1>2, <1>7, <3>1, <3>2 DEF OneMore
    <3>3. CASE j # k
      <4>1. PICK m \in 1 .. Len(rq) : rq'[j] = rq[m]
        BY <1>7, <3>3 DEF OneMore
      <4> QED
        BY <3>1, <4>1 DEF Requested
    <3> QED
      BY <3>2, <3>3
  <2>2. ASSUME NEW c, Requested(c) PROVE Requested(c)'
    <3>1. PICK m \in 1 .. Len(rq) : rq[m].bh = c
      BY <2>2 DEF Requested
    <3>2. PICK j \in 1 .. Len(rq') : rq'[j] = rq[m]
      BY <1>7 DEF OneMore
    <3> QED
      BY <3>1, <3>2 DEF Requested
  <2>3. ASSUME NEW c, c = b PROVE Requested(c)'
    <3>1. k \in 1 .. Len(rq') /\ rq'[k].bh = c
      BY <1>2, <1>7, <2>3 DEF OneMore
    <3> QED
      BY <3>1 DEF Requested
  <2> QED
    BY <2>1, <2>2, <2>3
<1>16. RequestsCurrent'
  <2> SUFFICES ASSUME NEW j \in 1 .. Len(rq') PROVE buf'[rq'[j].bh].blk = rq'[j].sector
    BY DEF RequestsCurrent
  <2>1. CASE j = k
    BY <1>1, <1>2, <1>7, <1>8, <2>1 DEF Edited, OneMore
  <2>2. CASE j # k
    <3>1. PICK m \in 1 .. Len(rq) : rq'[j] = rq[m]
      BY <1>7, <2>2 DEF OneMore
    <3>2. rq[m].bh \in Buffers /\ buf[rq[m].bh].blk = rq[m].sector
      BY EntryOK DEF RequestsCurrent
    <3> QED
      BY <1>8, <3>1, <3>2 DEF Edited
  <2> QED
    BY <2>1, <2>2
<1>17. \A j, l \in 1 .. Len(rq') : rq'[j].bh = rq'[l].bh => j = l
  <2>1. ASSUME NEW j \in 1 .. Len(rq'), NEW l \in 1 .. Len(rq'), j < l,
               rq'[j].bh = rq'[l].bh
        PROVE  FALSE
    <3>1. CASE j # k /\ l # k
      <4>1. PICK o, m \in 1 .. Len(rq) : o < m /\ rq'[j] = rq[o] /\ rq'[l] = rq[m]
        BY <1>7, <2>1, <3>1 DEF OneMore
      <4> QED
        BY <2>1, <4>1 DEF LockOwners
    <3>2. CASE j = k
      <4>1. PICK m \in 1 .. Len(rq) : rq'[l] = rq[m]
        BY <1>7, <2>1, <3>2 DEF OneMore
      <4> QED
        BY <1>1, <1>2, <1>7, <2>1, <3>2, <4>1 DEF Requested, OneMore
    <3>3. CASE l = k
      <4>1. PICK m \in 1 .. Len(rq) : rq'[j] = rq[m]
        BY <1>7, <2>1, <3>3 DEF OneMore
      <4> QED
        BY <1>1, <1>2, <1>7, <2>1, <3>3, <4>1 DEF Requested, OneMore
    <3> QED
      BY <3>1, <3>2, <3>3
  <2> SUFFICES ASSUME NEW j \in 1 .. Len(rq'), NEW l \in 1 .. Len(rq'),
                      rq'[j].bh = rq'[l].bh, j # l
               PROVE  FALSE
    OBVIOUS
  <2>2. j < l \/ l < j
    OBVIOUS
  <2> QED
    BY <2>1, <2>2
<1>18. LockOwners'
  <2>1. \A c \in Buffers : ~InMakeRequest(t, c)'
    BY <1>11 DEF InMakeRequest
  <2>2. \A u \in Tasks \ {t} : \A c : InMakeRequest(u, c)' <=> InMakeRequest(u, c)
    BY <1>10, OthersSame
  <2>3. \A c \in Buffers : InMakeRequest(t, c) => c = b
    BY DEF InMakeRequest
  <2>4. \A c \in Buffers : buf'[c].lock = buf[c].lock
    BY <1>8 DEF Edited
  <2>5. \A u \in Tasks \ {t} : ~InMakeRequest(u, b)
    BY <1>1 DEF LockOwners
  <2> HIDE DEF b
  <2> QED
    BY <1>1, <1>15, <1>17, <2>1, <2>2, <2>3, <2>4, <2>5 DEF LockOwners
<1> QED
  BY <1>11, <1>12, <1>13, <1>14, <1>16, <1>18 DEF CacheIInv

LEMMA GetRequestKeeps ==
  ASSUME CacheIInv, NEW t \in Tasks, GetRequest(t) PROVE CacheIInv'
<1>1. /\ pc[t] = "slot" /\ UNCHANGED <<free_list, disk, cpu, op, want, bh>>
      /\ cpu \in Tasks \cup {NoTask}
  BY DEF GetRequest, At, CacheIInv, StoreTypeOK
<1>2. CASE FreeSlots(rq, Cmd(t)) # {}
  BY <1>1, <1>2, QueueKeeps DEF GetRequest
<1>3. CASE FreeSlots(rq, Cmd(t)) = {}
  <2>1. PICK label \in Making :
          /\ pc[t] \in Making /\ pc' = [pc EXCEPT ![t] = label]
          /\ UNCHANGED <<buf, free_list, disk, rq, op, want, bh, si>>
          /\ cpu' \in Tasks \cup {NoTask}
    BY <1>1, <1>3 DEF GetRequest, Goto, Making
  <2> QED
    BY <2>1, LabelKeeps
<1> QED
  BY <1>2, <1>3

(* The end of a transfer: the request gives up the lock, and a block that  *)
(* was read has a value of the disk.                                       *)
LEMMA InterruptKeeps ==
  ASSUME CacheIInv, NEW ok \in BOOLEAN, Interrupt(ok) PROVE CacheIInv'
<1>0. /\ TasksTypeOK /\ (\A t \in Tasks : CallOK(t)) /\ StoreTypeOK /\ FreeListOK
      /\ CountExact /\ LockOwners /\ RequestsCurrent /\ InUseNamed
  BY DEF CacheIInv
<1> USE <1>0
<1>1. PICK b : b = rq[1].bh
  OBVIOUS
<1> DEFINE reads == Head(rq).cmd = READ
           v == IF reads /\ ok THEN disk[buf[b].blk] ELSE buf[b].data
<1>2. /\ rq \in Seq(QueueEntry) /\ rq # << >> /\ 1 \in 1 .. Len(rq) /\ Head(rq).bh = b
      /\ rq' = Tail(rq)
  BY <1>1 DEF Interrupt, StoreTypeOK, EndRequest
<1>3. /\ b \in Buffers /\ buf[b] \in BufferRecord /\ buf[b].blk \in Blocks
      /\ Requested(b) /\ buf[b].lock
  <2>1. b \in Buffers /\ Requested(b)
    BY <1>1, <1>2, EntryOK DEF Requested
  <2> QED
    BY <2>1 DEF StoreTypeOK, LockOwners, InUseNamed
<1>4. /\ buf' = [buf EXCEPT ![b].uptodate = ok, ![b].lock = FALSE, ![b].data = v]
      /\ disk' = IF ~reads /\ ok THEN [disk EXCEPT ![buf[b].blk] = buf[b].data] ELSE disk
      /\ UNCHANGED <<free_list, cpu, pc, op, want, bh, si>>
  BY <1>2 DEF Interrupt, taskVars
<1>5. v \in Values /\ disk' \in [Blocks -> Values]
  BY <1>3, <1>4 DEF StoreTypeOK, BufferRecord
<1> HIDE DEF v
<1>6. Edited(b, buf[b].blk, buf[b].count, FALSE, buf[b].dirt)
  BY <1>3, <1>4, <1>5, EditTransfer
<1>7. /\ rq' \in Seq(QueueEntry) /\ Len(rq') = Len(rq) - 1
      /\ \A i \in 1 .. Len(rq') : rq'[i] = rq[i + 1] /\ i + 1 \in 1 .. Len(rq)
  BY <1>2
<1>8. /\ \A t \in Tasks, c \in Buffers : InMakeRequest(t, c)' <=> InMakeRequest(t, c)
      /\ \A t \in Tasks, c \in Buffers : Holds(t, c)' <=> Holds(t, c)
      /\ TasksTypeOK' /\ \A t \in Tasks : CallOK(t)'
  BY <1>4 DEF InMakeRequest, RwBuffer, Holds, TasksTypeOK, CallOK
<1>9. CountExact'
  <2> SUFFICES ASSUME NEW c \in Buffers
               PROVE  buf'[c].count = Cardinality({u \in Tasks : Holds(u, c)'})
    BY DEF CountExact
  <2>1. buf'[c].count = buf[c].count
    BY <1>6 DEF Edited
  <2>2. {u \in Tasks : Holds(u, c)'} = {u \in Tasks : Holds(u, c)}
    BY <1>8
  <2> QED
    BY <2>1, <2>2 DEF CountExact
<1>10. StoreTypeOK' /\ FreeListOK' /\ InUseNamed'
  BY <1>3, <1>4, <1>5, <1>6, <1>7 DEF StoreTypeOK, FreeListOK, InUseNamed, Edited
<1>11. RequestsCurrent'
  <2> SUFFICES ASSUME NEW i \in 1 .. Len(rq') PROVE buf'[rq'[i].bh].blk = rq'[i].sector
    BY DEF RequestsCurrent
  <2>1. rq'[i] = rq[i + 1] /\ i + 1 \in 1 .. Len(rq)
    BY <1>7
  <2>2. rq[i + 1].bh \in Buffers /\ buf[rq[i + 1].bh].blk = rq[i + 1].sector
    BY <2>1, EntryOK DEF RequestsCurrent
  <2> QED
    BY <1>6, <2>1, <2>2 DEF Edited
<1>12. \A c \in Buffers : Requested(c)' <=> (Requested(c) /\ c # b)
  <2>1. ASSUME NEW c \in Buffers, Requested(c)' PROVE Requested(c) /\ c # b
    <3>1. PICK i \in 1 .. Len(rq') : rq'[i].bh = c
      BY <2>1 DEF Requested
    <3>2. rq[i + 1].bh = c /\ i + 1 \in 1 .. Len(rq) /\ i + 1 # 1
      BY <1>7, <3>1
    <3> QED
      BY <1>1, <1>2, <3>2 DEF Requested, LockOwners
  <2>2. ASSUME NEW c \in Buffers, Requested(c), c # b PROVE Requested(c)'
    <3>1. PICK i \in 1 .. Len(rq) : rq[i].bh = c
      BY <2>2 DEF Requested
    <3>2. i # 1
      BY <1>1, <2>2, <3>1
    <3>3. i - 1 \in 1 .. Len(rq') /\ rq'[i - 1] = rq[i]
      BY <1>2, <1>7, <3>2
    <3> QED
      BY <3>1, <3>3 DEF Requested
  <2> QED
    BY <2>1, <2>2
<1>13. LockOwners'
  <2>1. \A i, j \in 1 .. Len(rq') : rq'[i].bh = rq'[j].bh => i = j
    <3> SUFFICES ASSUME NEW i \in 1 .. Len(rq'), NEW j \in 1 .. Len(rq'),
                        rq'[i].bh = rq'[j].bh
                 PROVE  i = j
      OBVIOUS
    <3>1. i + 1 = j + 1
      BY <1>7 DEF LockOwners
    <3> QED
      BY <3>1
  <2>2. \A t \in Tasks : ~InMakeRequest(t, b)
    BY <1>3 DEF LockOwners
  <2>3. \A c \in Buffers : buf'[c].lock = IF c = b THEN FALSE ELSE buf[c].lock
    BY <1>6 DEF Edited
  <2> QED
    <3>1. \A t, u \in Tasks, c \in Buffers :
            InMakeRequest(t, c)' /\ InMakeRequest(u, c)' => t = u
      BY <1>8 DEF LockOwners
    <3>2. \A t \in Tasks, c \in Buffers : InMakeRequest(t, c)' => ~Requested(c)'
      BY <1>8, <1>12 DEF LockOwners
    <3>3. ASSUME NEW c \in Buffers
          PROVE  buf'[c].lock <=> (Requested(c)' \/ \E t \in Tasks : InMakeRequest(t, c)')
      <4>1. (\E t \in Tasks : InMakeRequest(t, c)') <=> (\E t \in Tasks : InMakeRequest(t, c))
        BY <1>8
      <4>2. buf[c].lock <=> (Requested(c) \/ \E t \in Tasks : InMakeRequest(t, c))
        BY DEF LockOwners
      <4> QED
        BY <1>12, <2>2, <2>3, <4>1, <4>2
    <3> QED
      BY <2>1, <3>1, <3>2, <3>3 DEF LockOwners
<1> QED
  BY <1>8, <1>9, <1>10, <1>11, <1>13 DEF CacheIInv

-----------------------------------------------------------------------------
LEMMA CacheInitOK == CacheInit => CacheIInv
<1> SUFFICES ASSUME CacheInit PROVE CacheIInv
  OBVIOUS
<1>0. PICK v \in Values, w \in Values :
        /\ disk = [k \in Blocks |-> w]
        /\ buf = [b \in Buffers |-> [blk |-> NoBlock, dirt |-> FALSE, lock |-> FALSE,
                                     uptodate |-> FALSE, count |-> 0, data |-> v]]
  BY DEF CacheInit
<1>1. StoreTypeOK
  BY <1>0 DEF CacheInit, StoreTypeOK, BufferRecord
<1>2. FreeListOK
  BY DEF CacheInit, FreeListOK
<1>3. TasksTypeOK
  BY CacheAssumption DEF CacheInit, TasksTypeOK, Labels
<1>4. \A t \in Tasks : CallOK(t)
  BY DEF CacheInit, CallOK, Waiting, Making
<1>5. CountExact
  <2> SUFFICES ASSUME NEW b \in Buffers
               PROVE  buf[b].count = Cardinality({t \in Tasks : Holds(t, b)})
    BY DEF CountExact
  <2>1. {t \in Tasks : Holds(t, b)} = {}
    BY DEF CacheInit, Holds
  <2> QED
    BY <1>0, <2>1, FS_EmptySet
<1>6. LockOwners
  <2>1. \A t \in Tasks, b \in Buffers : ~InMakeRequest(t, b)
    BY DEF CacheInit, InMakeRequest
  <2>2. Len(rq) = 0
    BY DEF CacheInit
  <2>3. \A b : ~Requested(b)
    BY <2>2 DEF Requested
  <2>4. \A b \in Buffers : ~buf[b].lock
    BY <1>0
  <2> QED
    BY <2>1, <2>2, <2>3, <2>4 DEF LockOwners
<1>7. RequestsCurrent /\ InUseNamed
  BY <1>0 DEF CacheInit, RequestsCurrent, InUseNamed
<1> QED
  BY <1>1, <1>2, <1>3, <1>4, <1>5, <1>6, <1>7 DEF CacheIInv

LEMMA TaskStepKeeps ==
  ASSUME CacheIInv, NEW t \in Tasks, TaskStep(t) PROVE CacheIInv'
<1>1. \E v \in Values : TRUE
  BY CacheAssumption DEF CacheIInv, StoreTypeOK, BufferRecord, Buffers
<1>2. PICK v \in Values :
        \/ Resume(t) \/ HashHit(t) \/ HashWait(t) \/ HashMiss(t) \/ Claim(t)
        \/ SyncLoop(t) \/ SyncWait(t) \/ GetRequest(t)
        \/ SleepTmp(t) \/ SleepLink(t) \/ SleepState(t)
        \/ ReadWait(t) \/ UseRead(t) \/ Release(t)
        \/ UseWrite(t, v) \/ CopyAfterFault(t, v) \/ UseSlowWrite(t)
  BY <1>1 DEF TaskStep
<1>3. CASE Resume(t)
  BY <1>3, ResumeKeeps
<1>4. CASE HashHit(t)
  BY <1>4, HashHitKeeps
<1>5. CASE HashWait(t)
  BY <1>5, HashWaitKeeps
<1>6. CASE HashMiss(t)
  BY <1>6, HashMissKeeps
<1>7. CASE Claim(t)
  BY <1>7, ClaimKeeps
<1>8. CASE SyncLoop(t)
  BY <1>8, SyncLoopKeeps
<1>9. CASE SyncWait(t)
  BY <1>9, SyncWaitKeeps
<1>10. CASE GetRequest(t)
  BY <1>10, GetRequestKeeps
<1>11. CASE SleepTmp(t) \/ SleepLink(t) \/ SleepState(t)
  BY <1>11, SleepKeeps
<1>12. CASE ReadWait(t)
  BY <1>12, ReadWaitKeeps
<1>13. CASE UseRead(t)
  BY <1>13, UseReadKeeps
<1>14. CASE Release(t)
  BY <1>14, ReleaseKeeps
<1>15. CASE UseWrite(t, v) \/ CopyAfterFault(t, v) \/ UseSlowWrite(t)
  BY <1>15, UseWriteKeeps
<1> QED
  BY <1>2, <1>3, <1>4, <1>5, <1>6, <1>7, <1>8, <1>9, <1>10, <1>11, <1>12, <1>13,
     <1>14, <1>15

(* Every step of a task and every interrupt keep the invariant. *)
LEMMA CacheNextKeeps == CacheIInv /\ [CacheNext]_cacheVars => CacheIInv'
<1> SUFFICES ASSUME CacheIInv, [CacheNext]_cacheVars PROVE CacheIInv'
  OBVIOUS
<1>1. ASSUME NEW t \in Tasks, NEW o \in Workload, NEW k \in Blocks, StartBlock(t, o, k)
      PROVE  CacheIInv'
  BY <1>1, StartBlockKeeps
<1>2. ASSUME NEW t \in Tasks, StartSync(t) PROVE CacheIInv'
  BY <1>2, StartSyncKeeps
<1>3. ASSUME NEW t \in Tasks, TaskStep(t) PROVE CacheIInv'
  BY <1>3, TaskStepKeeps
<1>4. ASSUME NEW ok \in BOOLEAN, Interrupt(ok) PROVE CacheIInv'
  BY <1>4, InterruptKeeps
<1>5. CASE UNCHANGED cacheVars
  <2>1. UNCHANGED <<buf, free_list, disk, cpu, rq, pc, op, want, bh, si>>
    BY <1>5 DEF cacheVars, taskVars
  <2>2. StoreTypeOK' /\ FreeListOK' /\ TasksTypeOK' /\ RequestsCurrent' /\ InUseNamed'
    BY <2>1 DEF CacheIInv, StoreTypeOK, FreeListOK, TasksTypeOK, RequestsCurrent, InUseNamed
  <2>3. /\ \A t \in Tasks : CallOK(t)' <=> CallOK(t)
        /\ \A t \in Tasks, b \in Buffers : Holds(t, b)' <=> Holds(t, b)
        /\ \A t \in Tasks, b \in Buffers : InMakeRequest(t, b)' <=> InMakeRequest(t, b)
        /\ \A b : Requested(b)' <=> Requested(b)
    BY <2>1 DEF CallOK, Holds, InMakeRequest, RwBuffer, Requested
  <2>4. CountExact'
    BY <2>1, <2>3 DEF CacheIInv, CountExact
  <2>5. LockOwners'
    BY <2>1, <2>3 DEF CacheIInv, LockOwners
  <2> QED
    BY <2>2, <2>3, <2>4, <2>5 DEF CacheIInv
<1> QED
  BY <1>1, <1>2, <1>3, <1>4, <1>5 DEF CacheNext

(* Owners counted: a lock has one owner, a free buffer none. *)
LEMMA OwnersCounted == ASSUME CacheIInv PROVE LockOwned
<1>0. StoreTypeOK /\ LockOwners
  BY DEF CacheIInv
<1> SUFFICES ASSUME NEW b \in Buffers
             PROVE  Cardinality({i \in 1 .. Len(rq) : rq[i].bh = b})
                      + Cardinality({t \in Tasks : InMakeRequest(t, b)})
                    = IF buf[b].lock THEN 1 ELSE 0
  BY DEF LockOwned
<1> DEFINE R == {i \in 1 .. Len(rq) : rq[i].bh = b}
           M == {t \in Tasks : InMakeRequest(t, b)}
<1>1. /\ \A i, j \in R : i = j
      /\ \A t, u \in M : t = u
      /\ R # {} => M = {}
      /\ buf[b].lock <=> (R # {} \/ M # {})
  BY <1>0 DEF LockOwners, Requested
<1> HIDE DEF R, M
<1>2. ASSUME NEW S, \A x, y \in S : x = y PROVE Cardinality(S) = IF S = {} THEN 0 ELSE 1
  <2>1. CASE S = {}
    BY <2>1, FS_EmptySet
  <2>2. CASE S # {}
    <3>1. PICK x \in S : TRUE
      BY <2>2
    <3>2. S = {x}
      BY <1>2, <3>1
    <3> QED
      BY <2>2, <3>2, FS_Singleton
  <2> QED
    BY <2>1, <2>2
<1>4. Cardinality(R) = IF R = {} THEN 0 ELSE 1
  BY <1>1, <1>2
<1>5. Cardinality(M) = IF M = {} THEN 0 ELSE 1
  BY <1>1, <1>2
<1> QED
  BY <1>1, <1>4, <1>5 DEF R, M

LEMMA CacheIInvImplies == ASSUME CacheIInv PROVE CacheInv
<1>0. StoreTypeOK /\ FreeListOK /\ TasksTypeOK /\ CountExact /\ RequestsCurrent
  BY DEF CacheIInv
<1>1. Range(free_list) = Buffers
  BY <1>0 DEF FreeListOK, Range
<1>2. \A i \in 1 .. Len(rq) : rq[i].bh \in Buffers
  BY <1>0, EntryOK
<1>3. CacheTypeOK
  BY <1>0, <1>1, <1>2 DEF CacheTypeOK, StoreTypeOK, FreeListOK, TasksTypeOK
<1> QED
  BY <1>0, <1>3, OwnersCounted DEF CacheInv

(* b_count is the number of the calls that hold a buffer, b_lock the sign  *)
(* of exactly one owner, and a queued request means the block its buffer   *)
(* holds: for any number of tasks, buffers, blocks and request slots, and  *)
(* whatever transfers fail.                                                *)
THEOREM CacheSound == CacheSpec => []CacheInv
<1>1. CacheIInv => CacheInv
  BY CacheIInvImplies
<1> QED
  BY <1>1, CacheInitOK, CacheNextKeeps, PTL DEF CacheSpec

(* A buffer changes its block only in getblk(), when nobody holds it. *)
LEMMA StepKeepsHeld ==
  ASSUME CacheIInv, [CacheNext]_cacheVars, NEW t \in Tasks, NEW b \in Buffers, Holds(t, b)
  PROVE  buf'[b].blk = buf[b].blk
<1>0. StoreTypeOK /\ CountExact
  BY DEF CacheIInv
<1>1. buf[b].count \in Nat \ {0}
  BY <1>0, HolderCounted
<1>2. Shape
  BY <1>0 DEF StoreTypeOK, Shape, Header, BufferRecord
<1>3. CASE UNCHANGED buf
  BY <1>3
<1>4. ASSUME NEW u \in Tasks, Quiet(u) PROVE buf'[b].blk = buf[b].blk
  BY <1>2, <1>4, QuietStays DEF BlocksStay
<1>5. ASSUME NEW u \in Tasks, Claim(u) PROVE buf'[b].blk = buf[b].blk
  <2>1. CASE UNCHANGED buf
    BY <2>1
  <2>2. CASE buf' # buf
    <3>1. PICK r : buf' = [buf EXCEPT ![bh[u]] = r] /\ Claimable(u, bh[u])
      BY <1>5, <2>2 DEF Claim, WaitOnBuffer
    <3>2. bh[u] # b
      BY <1>1, <3>1 DEF Claimable
    <3> QED
      BY <1>0, <3>1, <3>2 DEF StoreTypeOK
  <2> QED
    BY <2>1, <2>2
<1>6. ASSUME NEW ok \in BOOLEAN, Interrupt(ok) PROVE buf'[b].blk = buf[b].blk
  BY <1>2, <1>6, TransferStays DEF Interrupt, BlocksStay
<1>7. ASSUME NEW u \in Tasks, TaskStep(u) PROVE buf'[b].blk = buf[b].blk
  <2>1. Claim(u) \/ Quiet(u)
    BY <1>7 DEF TaskStep, Quiet
  <2> QED
    BY <1>4, <1>5, <2>1
<1> QED
  BY <1>3, <1>6, <1>7 DEF CacheNext, StartBlock, StartSync, cacheVars

(* Whoever holds a buffer keeps the block it asked for, however long it    *)
(* sleeps with it.                                                         *)
THEOREM HeldKept == CacheSpec => HeldStaysPut
<1>1. CacheIInv /\ [CacheNext]_cacheVars =>
        [\A t \in Tasks, b \in Buffers : Holds(t, b) /\ buf[b].blk = want[t] =>
           buf'[b].blk = buf[b].blk]_cacheVars
  BY StepKeepsHeld
<1> QED
  BY <1>1, CacheInitOK, CacheNextKeeps, PTL DEF CacheSpec, HeldStaysPut

-----------------------------------------------------------------------------
(***************************************************************************)
(* The values in the cache.  The cache implements BlockStore if no caller  *)
(* marks a buffer dirty before it has filled it, none overwrites a whole   *)
(* block without reading it, and no write fails: with any of these a value *)
(* is lost or a wrong one seen.  Reads may fail.                           *)
(***************************************************************************)
Careful == Workload \subseteq {"read", "write", "sync"} /\ Failing \subseteq {READ}

Writing(b) == \E i \in 1 .. Len(rq) : rq[i].bh = b /\ rq[i].cmd = WRITE
Reading(b) == \E i \in 1 .. Len(rq) : rq[i].bh = b /\ rq[i].cmd = READ

(* A buffer that is up to date and not to be written agrees with the disk. *)
DataOK(b) ==
  /\ buf[b].dirt => buf[b].uptodate
  /\ buf[b].uptodate => buf[b].blk \in Blocks
  /\ buf[b].uptodate /\ ~buf[b].dirt /\ ~Writing(b) => buf[b].data = disk[buf[b].blk]
  /\ Reading(b) => ~buf[b].uptodate
  /\ Writing(b) => buf[b].uptodate

(* What is read is not up to date, what is written is, and the buffer a    *)
(* caller uses is that of its block, up to date, and in nobody else's use. *)
CallData(t) ==
  /\ op[t] \in {"none", "read", "write", "sync"} /\ pc[t] # "fault"
  /\ op[t] \in {"none", "sync"} => want[t] = NoBlock
  /\ pc[t] \in Making => (buf[RwBuffer(t)].uptodate <=> si[t] # 0)
  /\ pc[t] \in {"rd_wait", "use"} \/ (pc[t] \in Making /\ si[t] = 0)
       => buf[bh[t]].blk = want[t]
  /\ pc[t] = "use" => buf[bh[t]].uptodate /\ ~buf[bh[t]].lock /\ cpu = t

CoherentInv ==
  /\ CacheIInv /\ CacheUnique
  /\ \A b \in Buffers : DataOK(b)
  /\ \A t \in Tasks : CallData(t)

(* So the value of a block is in the buffer that holds it up to date, and  *)
(* on the disk if there is none.                                           *)
ContentKnown ==
  \A k \in Blocks :
    /\ \A b \in Buffers : buf[b].blk = k /\ buf[b].uptodate => BlockContent(k) = buf[b].data
    /\ (\A b \in Buffers : buf[b].blk = k => ~buf[b].uptodate) => BlockContent(k) = disk[k]

LEMMA ContentIs == CoherentInv => ContentKnown
<1> SUFFICES ASSUME CoherentInv, NEW k \in Blocks
             PROVE  /\ \A b \in Buffers : buf[b].blk = k /\ buf[b].uptodate
                                            => BlockContent(k) = buf[b].data
                    /\ (\A b \in Buffers : buf[b].blk = k => ~buf[b].uptodate)
                         => BlockContent(k) = disk[k]
  BY Zenon DEF ContentKnown
<1>1. \A b \in Buffers : CachedValue(b) <=> buf[b].uptodate
  BY DEF CachedValue, CoherentInv, DataOK, Writing
<1>2. \A b, c \in Buffers : buf[b].blk = k /\ buf[c].blk = k => b = c
  BY CacheAssumption DEF CoherentInv, CacheUnique
<1>3. ASSUME NEW b \in Buffers, buf[b].blk = k, buf[b].uptodate
      PROVE  BlockContent(k) = buf[b].data
  <2>1. \A c \in Buffers : buf[c].blk = k /\ CachedValue(c) <=> c = b
    BY <1>1, <1>2, <1>3
  <2>2. (CHOOSE c \in Buffers : buf[c].blk = k /\ CachedValue(c)) = b
    BY <2>1
  <2> QED
    BY <2>1, <2>2 DEF BlockContent
<1>4. ASSUME \A b \in Buffers : buf[b].blk = k => ~buf[b].uptodate
      PROVE  BlockContent(k) = disk[k]
  BY <1>1, <1>4 DEF BlockContent
<1> QED
  BY <1>3, <1>4

(* A step that changes no value, no block and no sign of them. *)
SameData ==
  \A b \in Buffers :
    /\ buf'[b].blk = buf[b].blk /\ buf'[b].data = buf[b].data
    /\ buf'[b].uptodate = buf[b].uptodate /\ buf'[b].dirt = buf[b].dirt

SameContent == \A k \in Blocks : BlockContent(k)' = BlockContent(k)

LEMMA SameDataKeepsContent ==
  ASSUME CoherentInv, CoherentInv', UNCHANGED disk,
         \A b \in Buffers : /\ buf'[b].blk = buf[b].blk /\ buf'[b].data = buf[b].data
                           /\ buf'[b].uptodate = buf[b].uptodate
  PROVE  SameContent
<1>1. ContentKnown
  BY ContentIs
<1>2. ContentKnown'
  BY ContentIs, PTL
<1> SUFFICES ASSUME NEW k \in Blocks PROVE BlockContent(k)' = BlockContent(k)
  BY DEF SameContent
<1>3. CASE \E b \in Buffers : buf[b].blk = k /\ buf[b].uptodate
  <2>1. PICK b \in Buffers : buf[b].blk = k /\ buf[b].uptodate
    BY <1>3
  <2>2. buf'[b].blk = k /\ buf'[b].uptodate /\ buf'[b].data = buf[b].data
    BY <2>1
  <2> QED
    BY <1>1, <1>2, <2>1, <2>2 DEF ContentKnown
<1>4. CASE \A b \in Buffers : buf[b].blk = k => ~buf[b].uptodate
  <2>1. \A b \in Buffers : buf'[b].blk = k => ~buf'[b].uptodate
    BY <1>4
  <2> QED
    BY <1>1, <1>2, <1>4, <2>1 DEF ContentKnown
<1> QED
  BY <1>3, <1>4

LEMMA EditSameData ==
  ASSUME StoreTypeOK, NEW b \in Buffers, NEW n \in Nat, NEW l \in BOOLEAN,
         \/ buf' = [buf EXCEPT ![b].count = n]
         \/ buf' = [buf EXCEPT ![b].lock = l]
         \/ buf' = [buf EXCEPT ![b].count = n, ![b].lock = l]
  PROVE  SameData
<1>1. buf[b] \in BufferRecord /\ \A c \in Buffers \ {b} : buf'[c] = buf[c]
  BY DEF StoreTypeOK
<1>2. \/ buf'[b] = [buf[b] EXCEPT !.count = n]
      \/ buf'[b] = [buf[b] EXCEPT !.lock = l]
      \/ buf'[b] = [buf[b] EXCEPT !.count = n, !.lock = l]
  BY DEF StoreTypeOK
<1>3. /\ buf'[b].blk = buf[b].blk /\ buf'[b].data = buf[b].data
      /\ buf'[b].uptodate = buf[b].uptodate /\ buf'[b].dirt = buf[b].dirt
  BY <1>1, <1>2 DEF BufferRecord
<1> QED
  BY <1>1, <1>3 DEF SameData

LEMMA UnchangedSameData == ASSUME UNCHANGED buf PROVE SameData
BY DEF SameData

-----------------------------------------------------------------------------
(* What t has asked for, in the state of BlockStore. *)
TodoOf(t) == IF pc[t] = "release" THEN {} ELSE {want[t]} \ {NoBlock}

(* A step of t that changes no value and no request. *)
LEMMA QuietCoherent ==
  ASSUME CoherentInv, CacheIInv', CacheUnique', NEW t \in Tasks, Others(t),
         UNCHANGED <<rq, disk>>, SameData, cpu \in {t, NoTask}, CallData(t)'
  PROVE  CoherentInv' /\ SameContent
<1>0. TasksTypeOK /\ StoreTypeOK /\ (\A u \in Tasks : CallOK(u))
  BY DEF CoherentInv, CacheIInv
<1>1. \A b \in Buffers : DataOK(b)'
  <2>1. \A b : (Writing(b)' <=> Writing(b)) /\ (Reading(b)' <=> Reading(b))
    BY DEF Writing, Reading
  <2> QED
    BY <2>1 DEF CoherentInv, DataOK, SameData
<1>2. ASSUME NEW u \in Tasks, u # t PROVE CallData(u)'
  <2>0. CallData(u) /\ CallOK(u)
    BY <1>0 DEF CoherentInv
  <2>1. /\ pc'[u] = pc[u] /\ op'[u] = op[u] /\ want'[u] = want[u] /\ bh'[u] = bh[u]
        /\ si'[u] = si[u]
    BY <1>2 DEF Others
  <2>2. RwBuffer(u)' = RwBuffer(u)
    BY <2>1 DEF RwBuffer
  <2>3. pc[u] # "use"
    BY <2>0, <1>2, WaitAssumption DEF CallData
  <2>4. pc[u] \in Making => RwBuffer(u) \in Buffers
    BY OwnedFacts DEF CoherentInv
  <2>5. pc[u] = "rd_wait" \/ (pc[u] \in Making /\ si[u] = 0) => bh[u] \in Buffers
    BY <2>0 DEF CallOK, Waiting, Making
  <2>6. pc[u] \in Making => (buf'[RwBuffer(u)].uptodate <=> si[u] # 0)
    BY <2>0, <2>4 DEF CallData, SameData
  <2>7. pc[u] = "rd_wait" \/ (pc[u] \in Making /\ si[u] = 0) => buf'[bh[u]].blk = want[u]
    BY <2>0, <2>5 DEF CallData, SameData
  <2> QED
    BY <2>0, <2>1, <2>2, <2>3, <2>6, <2>7 DEF CallData, Making
<1>3. CoherentInv'
  BY <1>1, <1>2 DEF CoherentInv
<1> QED
  BY <1>3, SameDataKeepsContent DEF SameData

(* And that BlockStore does not see. *)
LEMMA Stutter ==
  ASSUME NEW t \in Tasks, Others(t), SameContent, UNCHANGED seen, TodoOf(t)' = TodoOf(t)
  PROVE  UNCHANGED Store!storeVars
<1>1. \A u \in Tasks : TodoOf(u)' = TodoOf(u)
  BY DEF TodoOf, Others
<1>2. [k \in Blocks |-> BlockContent(k)]' = [k \in Blocks |-> BlockContent(k)]
  BY DEF SameContent
<1>3. [u \in Tasks |-> TodoOf(u)]' = [u \in Tasks |-> TodoOf(u)]
  BY <1>1
<1> QED
  BY <1>2, <1>3, Zenon DEF Store!storeVars, TodoOf

(* What every step does: it keeps the invariant, and is a step of          *)
(* BlockStore or none.                                                     *)
Covered == CoherentInv' /\ [Store!StoreNext]_(Store!storeVars)

LEMMA StutterCovered ==
  ASSUME CoherentInv, CacheIInv', CacheUnique', NEW t \in Tasks, Others(t),
         UNCHANGED <<rq, disk, seen>>, SameData, cpu \in {t, NoTask}, CallData(t)',
         TodoOf(t)' = TodoOf(t)
  PROVE  Covered
<1>1. CoherentInv' /\ SameContent
  BY QuietCoherent
<1>2. UNCHANGED Store!storeVars
  BY <1>1, Stutter
<1> QED
  BY <1>1, <1>2, Zenon DEF Covered

(* The task goes to another label, and changes nothing else. *)
LEMMA MoveCovered ==
  ASSUME CoherentInv, CacheIInv', CacheUnique', NEW t \in Tasks, NEW label, NEW i,
         pc' = [pc EXCEPT ![t] = label], si' = [si EXCEPT ![t] = i],
         UNCHANGED <<buf, disk, rq, op, want, bh, seen>>, cpu \in {t, NoTask},
         \/ label \in {"hash", "hash_wait", "claim", "sync", "sync_wait"} /\ pc[t] # "release"
         \/ label = pc[t] /\ label \in {"rd_wait", "release"}
         \/ label \in Making /\ pc[t] \in Making /\ i = si[t]
  PROVE  Covered
<1>0. TasksTypeOK /\ CallOK(t) /\ CallData(t)
  BY DEF CoherentInv, CacheIInv
<1>1. pc'[t] = label /\ si'[t] = i /\ Others(t)
  BY <1>0 DEF TasksTypeOK, Others
<1>2. TodoOf(t)' = TodoOf(t)
  BY <1>1 DEF TodoOf, Making
<1>3. CallData(t)'
  <2>1. CASE label \in {"hash", "hash_wait", "claim", "sync", "sync_wait"}
    BY <1>0, <1>1, <2>1 DEF CallData, Making
  <2>2. CASE label = pc[t] /\ label \in {"rd_wait", "release"}
    BY <1>0, <1>1, <2>2 DEF CallData, Making
  <2>3. CASE label \in Making /\ pc[t] \in Making /\ i = si[t]
    <3>1. RwBuffer(t)' = RwBuffer(t)
      BY <1>1, <2>3 DEF RwBuffer
    <3> QED
      BY <1>0, <1>1, <2>3, <3>1 DEF CallData, Making
  <2> QED
    BY <2>1, <2>2, <2>3
<1> QED
  BY <1>1, <1>2, <1>3, UnchangedSameData, StutterCovered

LEMMA ResumeCovered ==
  ASSUME CoherentInv, CacheIInv', CacheUnique', NEW t \in Tasks, Resume(t) PROVE Covered
<1>0. CallData(t)
  BY DEF CoherentInv
<1>1. /\ cpu = NoTask /\ UNCHANGED <<buf, disk, rq, pc, op, want, bh, si, seen>>
  BY DEF Resume, taskVars
<1>2. Others(t) /\ TodoOf(t)' = TodoOf(t)
  BY <1>1 DEF Others, TodoOf
<1>3. RwBuffer(t)' = RwBuffer(t) /\ pc[t] # "use"
  BY <1>0, <1>1, WaitAssumption DEF RwBuffer, CallData
<1>4. CallData(t)'
  BY <1>0, <1>1, <1>3 DEF CallData
<1> QED
  BY <1>1, <1>2, <1>4, UnchangedSameData, StutterCovered

LEMMA WaitCovered ==
  ASSUME CoherentInv, CacheIInv', CacheUnique', NEW t \in Tasks, NEW b, NEW label,
         cpu = t, pc[t] = label, WaitOnBuffer(t, b, label),
         label \in {"hash_wait", "claim", "sync_wait", "rd_wait", "release"}
  PROVE  Covered
<1>0. TasksTypeOK
  BY DEF CoherentInv, CacheIInv
<1>1. /\ pc' = [pc EXCEPT ![t] = label] /\ si' = [si EXCEPT ![t] = si[t]]
      /\ UNCHANGED <<buf, disk, rq, op, want, bh, seen>>
  BY <1>0 DEF WaitOnBuffer, BlockAt, Goto, TasksTypeOK
<1> QED
  BY <1>1, MoveCovered

(* getblk() returns: what is not up to date is going to be read. *)
LEMMA GotCovered ==
  ASSUME CoherentInv, CacheIInv', CacheUnique', NEW t \in Tasks, NEW b \in Buffers,
         NEW n \in Nat, GotBuffer(t, b, n), ~buf[b].lock, buf[b].blk = want[t],
         bh' = [bh EXCEPT ![t] = b], pc[t] \in {"hash", "hash_wait"}, cpu = t,
         UNCHANGED <<disk, cpu, rq, op, want, si, seen>>
  PROVE  Covered
<1>0. TasksTypeOK /\ StoreTypeOK /\ CallOK(t) /\ CallData(t)
  BY DEF CoherentInv, CacheIInv
<1>1. si[t] = 0 /\ op[t] \in {"read", "write"} /\ buf[b] \in BufferRecord
  BY <1>0 DEF CallOK, Waiting, CallData, StoreTypeOK
<1>2. PICK label \in {"use", "slot"} :
        /\ pc' = [pc EXCEPT ![t] = label]
        /\ label = "use" <=> buf[b].uptodate
        /\ buf' = IF label = "use" THEN [buf EXCEPT ![b].count = n]
                  ELSE [buf EXCEPT ![b].count = n, ![b].lock = TRUE]
  BY <1>1 DEF GotBuffer, Goto
<1>3. SameData
  BY <1>0, <1>2, EditSameData
<1>4. label = "use" => ~buf'[b].lock
  <2> SUFFICES ASSUME label = "use" PROVE ~buf'[b].lock
    OBVIOUS
  <2>1. buf'[b] = [buf[b] EXCEPT !.count = n]
    BY <1>0, <1>2 DEF StoreTypeOK
  <2> QED
    BY <1>1, <2>1 DEF BufferRecord
<1>5. pc'[t] = label /\ bh'[t] = b /\ si'[t] = 0 /\ Others(t)
  BY <1>0, <1>1, <1>2 DEF TasksTypeOK, Others
<1>6. TodoOf(t)' = TodoOf(t)
  BY <1>5 DEF TodoOf
<1>7. label = "slot" => RwBuffer(t)' = b
  BY <1>5 DEF RwBuffer
<1>8. buf'[b].blk = want[t] /\ (label = "use" <=> buf'[b].uptodate)
  BY <1>2, <1>3 DEF SameData
<1>9. CallData(t)'
  BY <1>1, <1>4, <1>5, <1>7, <1>8 DEF CallData, Making
<1> QED
  BY <1>3, <1>5, <1>6, <1>9, StutterCovered

LEMMA HashCovered ==
  ASSUME CoherentInv, CacheIInv', CacheUnique', NEW t \in Tasks,
         HashHit(t) \/ HashWait(t) \/ HashMiss(t)
  PROVE  Covered
<1>0. /\ TasksTypeOK /\ StoreTypeOK /\ CountExact /\ CallOK(t) /\ CallData(t)
      /\ CacheIInv
  BY DEF CoherentInv, CacheIInv
<1>1. bh = [bh EXCEPT ![t] = bh[t]]
  BY <1>0 DEF TasksTypeOK
<1>2. CASE HashHit(t)
  <2>1. /\ pc[t] = "hash" /\ cpu = t
        /\ UNCHANGED <<disk, rq, op, want, si, seen>>
    BY <1>2 DEF HashHit, At
  <2>2. PICK b \in find_buffer(want[t]) :
          /\ bh' = [bh EXCEPT ![t] = b]
          /\ IF buf[b].lock
               THEN /\ buf' = [buf EXCEPT ![b].count = @ + 1]
                    /\ BlockAt(t, b, "hash_wait")
               ELSE /\ GotBuffer(t, b, buf[b].count + 1)
                    /\ UNCHANGED <<cpu, waitVars>>
    BY <1>2 DEF HashHit
  <2>3. b \in Buffers /\ buf[b].blk = want[t] /\ buf[b].count + 1 \in Nat
    BY <1>0 DEF find_buffer, StoreTypeOK, BufferRecord
  <2>4. CASE ~buf[b].lock
    BY <2>1, <2>2, <2>3, <2>4, GotCovered
  <2>5. CASE buf[b].lock
    <3>1. pc' = [pc EXCEPT ![t] = "hash_wait"] /\ buf' = [buf EXCEPT ![b].count = buf[b].count + 1]
      BY <2>2, <2>5 DEF BlockAt, Goto
    <3>2. SameData
      BY <1>0, <2>3, <3>1, EditSameData
    <3>3. Others(t) /\ pc'[t] = "hash_wait"
      BY <1>0, <2>1, <2>2, <3>1 DEF Others, TasksTypeOK
    <3>4. TodoOf(t)' = TodoOf(t)
      BY <2>1, <3>3 DEF TodoOf
    <3>5. CallData(t)'
      BY <1>0, <2>1, <3>3 DEF CallData, Making
    <3> QED
      BY <2>1, <3>2, <3>3, <3>4, <3>5, StutterCovered
  <2> QED
    BY <2>4, <2>5
<1>3. CASE HashWait(t)
  <2> DEFINE b == bh[t]
  <2>1. pc[t] = "hash_wait" /\ cpu = t
    BY <1>3 DEF HashWait, At
  <2>2. b \in Buffers /\ buf[b].count \in Nat \ {0}
    BY <1>0, <2>1, HeldFacts DEF Waiting
  <2>3. CASE WaitOnBuffer(t, b, "hash_wait")
    BY <2>1, <2>3, WaitCovered
  <2>4. CASE ~WaitOnBuffer(t, b, "hash_wait")
    <3>1. /\ ~buf[b].lock
          /\ IF buf[b].blk = want[t]
               THEN GotBuffer(t, b, buf[b].count)
               ELSE Goto(t, "hash") /\ buf' = [buf EXCEPT ![b].count = @ - 1]
          /\ UNCHANGED <<disk, cpu, rq, op, want, bh, si, seen>>
      BY <1>3, <2>4 DEF HashWait
    <3>2. CASE buf[b].blk = want[t]
      <4>1. bh' = [bh EXCEPT ![t] = b]
        BY <1>1, <3>1
      <4> HIDE DEF b
      <4> QED
        BY <2>1, <2>2, <3>1, <3>2, <4>1, GotCovered
    <3>3. CASE buf[b].blk # want[t]
      <4> DEFINE n == buf[b].count - 1
      <4>1. n \in Nat
        BY <2>2
      <4>2. pc' = [pc EXCEPT ![t] = "hash"] /\ buf' = [buf EXCEPT ![b].count = n]
        BY <3>1, <3>3 DEF Goto
      <4> HIDE DEF n
      <4>3. SameData
        BY <1>0, <2>2, <4>1, <4>2, EditSameData
      <4>4. Others(t) /\ pc'[t] = "hash"
        BY <1>0, <3>1, <4>2 DEF Others, TasksTypeOK
      <4>5. TodoOf(t)' = TodoOf(t)
        BY <2>1, <3>1, <4>4 DEF TodoOf
      <4>6. CallData(t)'
        BY <1>0, <3>1, <4>4 DEF CallData, Making
      <4> QED
        BY <2>1, <3>1, <4>3, <4>4, <4>5, <4>6, StutterCovered
    <3> QED
      BY <3>2, <3>3
  <2> QED
    BY <2>3, <2>4
<1>4. CASE HashMiss(t)
  <2>1. PICK label \in {"hash", "claim"} :
          /\ pc[t] = "hash" /\ cpu = t /\ pc' = [pc EXCEPT ![t] = label]
          /\ UNCHANGED <<buf, disk, rq, op, want, si, seen>>
    BY <1>4 DEF HashMiss, At, BlockAt, Goto
  <2>2. PICK c : bh' = [bh EXCEPT ![t] = c]
    BY <1>1, <1>4 DEF HashMiss
  <2>3. Others(t) /\ pc'[t] = label
    BY <1>0, <2>1, <2>2 DEF Others, TasksTypeOK
  <2>4. TodoOf(t)' = TodoOf(t)
    BY <2>1, <2>3 DEF TodoOf
  <2>5. CallData(t)'
    BY <1>0, <2>1, <2>3 DEF CallData, Making
  <2> QED
    BY <2>1, <2>3, <2>4, <2>5, UnchangedSameData, StutterCovered
<1> QED
  BY <1>2, <1>3, <1>4

(* The buffer getblk() takes over held nothing that the disk does not.     *)
LEMMA ClaimCovered ==
  ASSUME CoherentInv, CacheIInv', CacheUnique', NEW t \in Tasks, Claim(t)
  PROVE  Covered
<1>0. /\ TasksTypeOK /\ StoreTypeOK /\ LockOwners /\ CallOK(t) /\ CallData(t)
      /\ \A u \in Tasks : CallOK(u)
  BY DEF CoherentInv, CacheIInv
<1> DEFINE b == bh[t]
<1>1. /\ pc[t] = "claim" /\ cpu = t /\ si[t] = 0 /\ b \in Buffers
      /\ op[t] \in {"read", "write"} /\ want[t] \in Blocks
  BY <1>0 DEF Claim, At, CallOK, CallData
<1>2. CASE WaitOnBuffer(t, b, "claim")
  BY <1>1, <1>2, WaitCovered
<1>3. CASE ~WaitOnBuffer(t, b, "claim") /\ ~Claimable(t, b)
  <2>1. PICK label \in {"sync", "hash"}, i \in 0 .. 1 :
          /\ pc' = [pc EXCEPT ![t] = label] /\ si' = [si EXCEPT ![t] = i]
          /\ UNCHANGED <<buf, disk, rq, op, want, bh, seen>>
    <3>1. si = [si EXCEPT ![t] = 0]
      BY <1>0, <1>1 DEF TasksTypeOK
    <3> QED
      BY <1>3, <3>1 DEF Claim, Goto
  <2> QED
    BY <1>1, <2>1, MoveCovered
<1>4. CASE ~WaitOnBuffer(t, b, "claim") /\ Claimable(t, b)
  <2> DEFINE fresh == [buf[b] EXCEPT !.blk = want[t], !.count = 1, !.uptodate = FALSE,
                                     !.dirt = FALSE, !.lock = op[t] # "raw_write"]
  <2>1. /\ ~buf[b].lock /\ ~buf[b].dirt /\ buf[b].count = 0
        /\ \A c \in Buffers : buf[c].blk # want[t]
        /\ buf' = [buf EXCEPT ![b] = fresh] /\ pc' = [pc EXCEPT ![t] = "slot"]
        /\ UNCHANGED <<disk, cpu, rq, op, want, bh, si, seen>>
    BY <1>1, <1>4 DEF Claim, Claimable, Goto, find_buffer
  <2>2. buf[b] \in BufferRecord
    BY <1>0, <1>1 DEF StoreTypeOK
  <2>3. fresh.blk = want[t] /\ fresh.uptodate = FALSE /\ fresh.dirt = FALSE
    BY <2>2 DEF BufferRecord
  <2>4. \A c \in Buffers : buf'[c] = IF c = b THEN fresh ELSE buf[c]
    BY <1>0, <1>1, <2>1 DEF StoreTypeOK
  <2> HIDE DEF fresh
  <2>5. /\ pc'[t] = "slot" /\ Others(t) /\ RwBuffer(t)' = b /\ TodoOf(t)' = TodoOf(t)
    BY <1>0, <1>1, <2>1 DEF TasksTypeOK, Others, RwBuffer, TodoOf
  <2>6. ~Writing(b) /\ ~Reading(b) /\ \A u \in Tasks : ~InMakeRequest(u, b)
    BY <1>0, <1>1, <2>1 DEF LockOwners, Requested, Writing, Reading
  <2>7. \A c \in Buffers : DataOK(c)'
    <3>1. \A c : (Writing(c)' <=> Writing(c)) /\ (Reading(c)' <=> Reading(c))
      BY <2>1 DEF Writing, Reading
    <3> SUFFICES ASSUME NEW c \in Buffers PROVE DataOK(c)'
      OBVIOUS
    <3>2. CASE c = b
      BY <2>3, <2>4, <2>6, <3>1, <3>2 DEF DataOK
    <3>3. CASE c # b
      <4>1. buf'[c] = buf[c] /\ DataOK(c)
        BY <2>4, <3>3 DEF CoherentInv
      <4> QED
        BY <2>1, <3>1, <4>1 DEF DataOK
    <3> QED
      BY <3>2, <3>3
  <2>8. CallData(t)'
    BY <1>0, <1>1, <2>1, <2>3, <2>4, <2>5 DEF CallData, Making
  <2>9. ASSUME NEW u \in Tasks, u # t PROVE CallData(u)'
    <3>0. CallData(u) /\ CallOK(u)
      BY <1>0 DEF CoherentInv
    <3>1. /\ pc'[u] = pc[u] /\ op'[u] = op[u] /\ want'[u] = want[u] /\ bh'[u] = bh[u]
          /\ si'[u] = si[u] /\ pc[u] # "use"
      BY <1>1, <2>5, <2>9, <3>0 DEF Others, CallData
    <3>2. RwBuffer(u)' = RwBuffer(u)
      BY <3>1 DEF RwBuffer
    <3>3. pc[u] \in Making => RwBuffer(u) \in Buffers /\ RwBuffer(u) # b
      BY <2>6, OwnedFacts DEF CoherentInv
    <3>4. pc[u] = "rd_wait" => bh[u] \in Buffers /\ bh[u] # b
      BY <2>1, HeldFacts DEF CoherentInv, Waiting
    <3>5. pc[u] \in Making /\ si[u] = 0 => bh[u] = RwBuffer(u)
      BY DEF RwBuffer
    <3>6. pc[u] \in Making => buf'[RwBuffer(u)] = buf[RwBuffer(u)]
      BY <2>4, <3>3
    <3>7. pc[u] = "rd_wait" \/ (pc[u] \in Making /\ si[u] = 0) => buf'[bh[u]] = buf[bh[u]]
      BY <2>4, <3>3, <3>4, <3>5
    <3> QED
      BY <3>0, <3>1, <3>2, <3>6, <3>7 DEF CallData, Making
  <2>10. CoherentInv'
    BY <2>7, <2>8, <2>9 DEF CoherentInv
  <2>11. SameContent
    <3> SUFFICES ASSUME NEW k \in Blocks PROVE BlockContent(k)' = BlockContent(k)
      BY DEF SameContent
    <3>1. ContentKnown
      BY ContentIs
    <3>2. ContentKnown'
      BY <2>10, ContentIs, PTL
    <3>3. CASE \E c \in Buffers \ {b} : buf[c].blk = k /\ buf[c].uptodate
      BY <2>4, <3>1, <3>2, <3>3 DEF ContentKnown
    <3>4. CASE \A c \in Buffers \ {b} : buf[c].blk = k => ~buf[c].uptodate
      <4>1. BlockContent(k)' = disk[k]
        BY <2>1, <2>3, <2>4, <3>2, <3>4 DEF ContentKnown
      <4>2. BlockContent(k) = disk[k]
        <5>1. CASE buf[b].blk = k /\ buf[b].uptodate
          <6>1. DataOK(b)
            BY <1>1 DEF CoherentInv
          <6> QED
            BY <1>1, <2>1, <2>6, <3>1, <5>1, <6>1 DEF DataOK, ContentKnown
        <5>2. CASE ~(buf[b].blk = k /\ buf[b].uptodate)
          BY <3>1, <3>4, <5>2 DEF ContentKnown
        <5> QED
          BY <5>1, <5>2
      <4> QED
        BY <4>1, <4>2
    <3> QED
      BY <3>3, <3>4
  <2>12. UNCHANGED Store!storeVars
    BY <2>1, <2>5, <2>11, Stutter
  <2> QED
    BY <2>10, <2>12, Zenon DEF Covered
<1> QED
  BY <1>2, <1>3, <1>4

LEMMA SyncCovered ==
  ASSUME CoherentInv, CacheIInv', CacheUnique', NEW t \in Tasks,
         pc[t] \in {"sync", "sync_wait"}, cpu = t, NEW i \in 1 .. 2 * NR_BUFFERS,
         NEW b, b = BufferAt(i), ~buf[b].lock, buf[b].dirt,
         buf' = [buf EXCEPT ![b].lock = TRUE], pc' = [pc EXCEPT ![t] = "slot"],
         si' = [si EXCEPT ![t] = i], UNCHANGED <<disk, rq, op, want, bh, seen>>
  PROVE  Covered
<1>0. TasksTypeOK /\ StoreTypeOK /\ CallData(t)
  BY DEF CoherentInv, CacheIInv
<1>1. i \in Nat \ {0} /\ NR_BUFFERS \in Nat \ {0}
  BY CacheAssumption
<1>2. b \in Buffers /\ buf[b].uptodate
  BY <1>1, BufferAtOK DEF CoherentInv, DataOK
<1>3. SameData
  <2>1. 0 \in Nat
    OBVIOUS
  <2> QED
    BY <1>0, <1>2, <2>1, EditSameData
<1>4. pc'[t] = "slot" /\ si'[t] = i /\ Others(t)
  BY <1>0 DEF TasksTypeOK, Others
<1>5. RwBuffer(t)' = b /\ TodoOf(t)' = TodoOf(t)
  BY <1>1, <1>4 DEF RwBuffer, BufferAt, TodoOf
<1>6. CallData(t)'
  BY <1>0, <1>1, <1>2, <1>3, <1>4, <1>5 DEF CallData, Making, SameData
<1> QED
  BY <1>3, <1>4, <1>5, <1>6, StutterCovered

(* A task that returns, or is told that its block is unreadable. *)
LEMMA TodoBecomes ==
  ASSUME NEW t \in Tasks, Others(t), NEW S, TodoOf(t)' = S
  PROVE  [u \in Tasks |-> TodoOf(u)]' = [[u \in Tasks |-> TodoOf(u)] EXCEPT ![t] = S]
<1>1. \A u \in Tasks \ {t} : TodoOf(u)' = TodoOf(u)
  BY DEF TodoOf, Others
<1> QED
  BY <1>1

LEMMA DoneCovered ==
  ASSUME CoherentInv, CacheIInv', CacheUnique', NEW t \in Tasks, Done(t), SameData,
         UNCHANGED <<disk, rq>>, cpu = t, TodoOf(t) = {}
  PROVE  Covered
<1>0. TasksTypeOK
  BY DEF CoherentInv, CacheIInv
<1>1. /\ pc' = [pc EXCEPT ![t] = "idle"] /\ op' = [op EXCEPT ![t] = "none"]
      /\ want' = [want EXCEPT ![t] = NoBlock] /\ bh' = [bh EXCEPT ![t] = 0]
      /\ si' = [si EXCEPT ![t] = 0] /\ seen' = [seen EXCEPT ![t] = NoValue]
  BY DEF Done
<1>2. /\ pc'[t] = "idle" /\ op'[t] = "none" /\ want'[t] = NoBlock /\ Others(t)
  BY <1>0, <1>1, CacheAssumption DEF TasksTypeOK, Others
<1>3. CallData(t)' /\ TodoOf(t)' = TodoOf(t)
  BY <1>2 DEF CallData, Making, TodoOf
<1>4. CoherentInv' /\ SameContent
  BY <1>2, <1>3, QuietCoherent
<1>5. [k \in Blocks |-> BlockContent(k)]' = [k \in Blocks |-> BlockContent(k)]
  BY <1>4 DEF SameContent
<1>6. \A u \in Tasks : TodoOf(u)' = TodoOf(u)
  BY <1>2, <1>3 DEF TodoOf, Others
<1>7. [u \in Tasks |-> TodoOf(u)]' = [u \in Tasks |-> TodoOf(u)]
  BY <1>6
<1>8. [u \in Tasks |-> TodoOf(u)][t] = {}
  OBVIOUS
<1>9. Store!Return(t)
  BY <1>1, <1>5, <1>7, <1>8, Zenon DEF Store!Return, TodoOf
<1> QED
  BY <1>4, <1>9, Zenon DEF Covered, Store!StoreNext

LEMMA SyncLoopCovered ==
  ASSUME CoherentInv, CacheIInv', CacheUnique', NEW t \in Tasks, SyncLoop(t)
  PROVE  Covered
<1>0. TasksTypeOK /\ StoreTypeOK /\ CallOK(t) /\ CallData(t)
  BY DEF CoherentInv, CacheIInv
<1>1. pc[t] = "sync" /\ cpu = t /\ UNCHANGED <<disk, rq>>
  BY DEF SyncLoop, At
<1>2. si[t] \in Nat \ {0} /\ NR_BUFFERS \in Nat \ {0}
  BY <1>0, <1>1, CacheAssumption DEF CallOK, TasksTypeOK
<1>3. CASE SyncStops(t) = {} /\ op[t] = "sync"
  <2>1. Done(t) /\ UNCHANGED buf
    BY <1>3 DEF SyncLoop
  <2>2. TodoOf(t) = {}
    BY <1>0, <1>3 DEF CallData, TodoOf
  <2> QED
    BY <1>1, <2>1, <2>2, UnchangedSameData, DoneCovered
<1>4. CASE SyncStops(t) = {} /\ op[t] # "sync"
  <2>1. /\ pc' = [pc EXCEPT ![t] = "claim"] /\ si' = [si EXCEPT ![t] = 0]
        /\ UNCHANGED <<buf, op, want, bh, seen>>
    BY <1>4 DEF SyncLoop, Goto
  <2> QED
    BY <1>1, <2>1, MoveCovered
<1>5. CASE SyncStops(t) # {}
  <2> DEFINE i == Min(SyncStops(t))
             b == BufferAt(i)
  <2>1. SyncStops(t) \in SUBSET Nat
    BY <1>2 DEF SyncStops, SyncEnd
  <2>2. i \in SyncStops(t)
    BY <1>5, <2>1, MinSmallest
  <2>3. i \in 1 .. 2 * NR_BUFFERS /\ (buf[b].lock \/ buf[b].dirt)
    BY <1>2, <2>2 DEF SyncStops, SyncEnd
  <2>4. /\ si' = [si EXCEPT ![t] = i] /\ UNCHANGED <<op, want, bh, seen>>
        /\ IF buf[b].lock
             THEN BlockAt(t, b, "sync_wait") /\ UNCHANGED buf
             ELSE /\ buf' = [buf EXCEPT ![b].lock = TRUE]
                  /\ Goto(t, "slot")
                  /\ UNCHANGED <<cpu, waitVars>>
    BY <1>5 DEF SyncLoop
  <2> HIDE DEF i
  <2>5. CASE buf[b].lock
    <3>1. pc' = [pc EXCEPT ![t] = "sync_wait"] /\ UNCHANGED buf
      BY <2>4, <2>5 DEF BlockAt, Goto
    <3> HIDE DEF b
    <3> QED
      BY <1>1, <2>4, <3>1, MoveCovered
  <2>6. CASE ~buf[b].lock
    <3>1. buf' = [buf EXCEPT ![b].lock = TRUE] /\ pc' = [pc EXCEPT ![t] = "slot"]
      BY <2>4, <2>6 DEF Goto
    <3>2. b = BufferAt(i)
      OBVIOUS
    <3> HIDE DEF b
    <3> QED
      BY <1>1, <2>3, <2>4, <2>6, <3>1, <3>2, SyncCovered
  <2> QED
    BY <2>5, <2>6
<1> QED
  BY <1>3, <1>4, <1>5

LEMMA SyncWaitCovered ==
  ASSUME CoherentInv, CacheIInv', CacheUnique', NEW t \in Tasks, SyncWait(t)
  PROVE  Covered
<1>0. TasksTypeOK /\ StoreTypeOK /\ CallOK(t)
  BY DEF CoherentInv, CacheIInv
<1> DEFINE b == BufferAt(si[t])
<1>1. pc[t] = "sync_wait" /\ cpu = t
  BY DEF SyncWait, At
<1>2. si[t] \in 1 .. 2 * NR_BUFFERS /\ NR_BUFFERS \in Nat \ {0}
  BY <1>0, <1>1, CacheAssumption DEF CallOK, TasksTypeOK
<1>3. CASE WaitOnBuffer(t, b, "sync_wait")
  BY <1>1, <1>3, WaitCovered
<1>4. CASE ~WaitOnBuffer(t, b, "sync_wait") /\ OfDevice(t, b) /\ buf[b].dirt
  <2>1. /\ ~buf[b].lock /\ buf' = [buf EXCEPT ![b].lock = TRUE]
        /\ pc' = [pc EXCEPT ![t] = "slot"] /\ si' = [si EXCEPT ![t] = si[t]]
        /\ UNCHANGED <<disk, rq, op, want, bh, seen>>
    BY <1>0, <1>4 DEF SyncWait, Goto, TasksTypeOK
  <2>2. b = BufferAt(si[t])
    OBVIOUS
  <2> HIDE DEF b
  <2> QED
    BY <1>1, <1>2, <1>4, <2>1, <2>2, SyncCovered
<1>5. CASE ~WaitOnBuffer(t, b, "sync_wait") /\ ~(OfDevice(t, b) /\ buf[b].dirt)
  <2>1. /\ pc' = [pc EXCEPT ![t] = "sync"] /\ si' = [si EXCEPT ![t] = si[t] + 1]
        /\ UNCHANGED <<buf, disk, rq, op, want, bh, seen>>
    BY <1>5 DEF SyncWait, Goto
  <2> QED
    BY <1>1, <2>1, MoveCovered
<1> QED
  BY <1>3, <1>4, <1>5

LEMMA SleepCovered ==
  ASSUME CoherentInv, CacheIInv', CacheUnique', NEW t \in Tasks,
         SleepTmp(t) \/ SleepLink(t) \/ SleepState(t)
  PROVE  Covered
<1>0. TasksTypeOK
  BY DEF CoherentInv, CacheIInv
<1>1. PICK label \in Making :
        /\ pc[t] \in Making /\ pc' = [pc EXCEPT ![t] = label] /\ cpu = t
        /\ si' = [si EXCEPT ![t] = si[t]]
        /\ UNCHANGED <<buf, disk, rq, op, want, bh, seen>>
  BY <1>0 DEF SleepTmp, SleepLink, SleepState, At, Goto, Making, TasksTypeOK
<1> QED
  BY <1>1, MoveCovered

(* A request is queued: to write what is up to date, to read what is not.  *)
LEMMA QueueCovered ==
  ASSUME CoherentInv, CacheIInv', CacheUnique', NEW t \in Tasks, pc[t] = "slot",
         cpu = t, FreeSlots(rq, Cmd(t)) # {}, QueueRequest(t), RwReturn(t),
         UNCHANGED <<free_list, disk, cpu, op, want, bh, seen>>
  PROVE  Covered
<1>0. TasksTypeOK /\ StoreTypeOK /\ CallOK(t) /\ CallData(t) /\ CacheIInv
  BY DEF CoherentInv, CacheIInv
<1> DEFINE b == RwBuffer(t)
           req == [slot |-> FindSlot(rq, Cmd(t)), cmd |-> Cmd(t),
                   sector |-> buf[b].blk, bh |-> b]
<1>1. /\ b \in Buffers /\ buf[b] \in BufferRecord /\ buf[b].lock
      /\ buf[b].blk \in Blocks /\ InMakeRequest(t, b) /\ ~Requested(b)
  BY <1>0, OwnedFacts DEF Making
<1>2. req \in QueueEntry /\ req.bh = b /\ req.cmd = Cmd(t)
  <2>1. FindSlot(rq, Cmd(t)) \in Slots
    BY FindSlotFree
  <2>2. Cmd(t) \in Commands
    BY DEF Cmd, Commands
  <2> QED
    BY <1>1, <2>1, <2>2 DEF QueueEntry
<1>3. rq' = AddRequest(rq, req) /\ buf' = [buf EXCEPT ![b].dirt = FALSE]
  BY DEF QueueRequest
<1>a. (buf[b].uptodate <=> si[t] # 0) /\ (si[t] = 0 => bh[t] = b)
  BY <1>0 DEF CallData, Making, RwBuffer
<1>b. (Cmd(t) = WRITE <=> si[t] # 0) /\ (Cmd(t) = READ <=> si[t] = 0)
  BY DEF Cmd, READ, WRITE
<1> HIDE DEF req, b
<1>4. rq \in Seq(QueueEntry)
  BY <1>0 DEF StoreTypeOK
<1>6. PICK k \in 1 .. Len(rq) + 1 : InsertedAt(rq', rq, k, req)
  BY <1>2, <1>3, <1>4, AddRequestInserts
<1>7. OneMore(rq', rq, k, req)
  BY <1>4, <1>6, InsertedMembers
<1>8. \A c, m : (\E j \in 1 .. Len(rq') : rq'[j].bh = c /\ rq'[j].cmd = m)
              <=> (\E j \in 1 .. Len(rq) : rq[j].bh = c /\ rq[j].cmd = m)
                  \/ (c = b /\ m = Cmd(t))
  <2> SUFFICES ASSUME NEW c, NEW m
               PROVE  (\E j \in 1 .. Len(rq') : rq'[j].bh = c /\ rq'[j].cmd = m)
                      <=> (\E j \in 1 .. Len(rq) : rq[j].bh = c /\ rq[j].cmd = m)
                          \/ (c = b /\ m = Cmd(t))
    OBVIOUS
  <2>1. ASSUME NEW j \in 1 .. Len(rq'), rq'[j].bh = c /\ rq'[j].cmd = m
        PROVE  \/ \E l \in 1 .. Len(rq) : rq[l].bh = c /\ rq[l].cmd = m
               \/ c = b /\ m = Cmd(t)
    <3>1. CASE j = k
      BY <1>2, <1>7, <2>1, <3>1 DEF OneMore
    <3>2. CASE j # k
      <4>1. PICK l \in 1 .. Len(rq) : rq'[j] = rq[l]
        BY <1>7, <3>2 DEF OneMore
      <4> QED
        BY <2>1, <4>1
    <3> QED
      BY <3>1, <3>2
  <2>2. ASSUME NEW l \in 1 .. Len(rq), rq[l].bh = c /\ rq[l].cmd = m
        PROVE  \E j \in 1 .. Len(rq') : rq'[j].bh = c /\ rq'[j].cmd = m
    <3>1. PICK j \in 1 .. Len(rq') : rq'[j] = rq[l]
      BY <1>7 DEF OneMore
    <3> QED
      BY <2>2, <3>1
  <2>3. ASSUME c = b /\ m = Cmd(t)
        PROVE  \E j \in 1 .. Len(rq') : rq'[j].bh = c /\ rq'[j].cmd = m
    <3>1. k \in 1 .. Len(rq') /\ rq'[k].bh = c /\ rq'[k].cmd = m
      BY <1>2, <1>7, <2>3 DEF OneMore
    <3> QED
      BY <3>1
  <2> QED
    BY <2>1, <2>2, <2>3
<1>9. \A c \in Buffers : /\ Writing(c)' <=> (Writing(c) \/ (c = b /\ si[t] # 0))
                         /\ Reading(c)' <=> (Reading(c) \/ (c = b /\ si[t] = 0))
  <2>1. \A c : Writing(c)' <=> (Writing(c) \/ (c = b /\ WRITE = Cmd(t)))
    BY <1>8, Zenon DEF Writing
  <2>2. \A c : Reading(c)' <=> (Reading(c) \/ (c = b /\ READ = Cmd(t)))
    BY <1>8, Zenon DEF Reading
  <2> QED
    BY <1>b, <2>1, <2>2, Zenon
<1>10. /\ \A c \in Buffers \ {b} : buf'[c] = buf[c]
       /\ buf'[b].blk = buf[b].blk /\ buf'[b].data = buf[b].data
       /\ buf'[b].uptodate = buf[b].uptodate /\ buf'[b].dirt = FALSE
  <2>1. \A c \in Buffers : buf'[c] = IF c = b THEN [buf[b] EXCEPT !.dirt = FALSE] ELSE buf[c]
    BY <1>0, <1>1, <1>3 DEF StoreTypeOK
  <2> QED
    BY <1>1, <2>1 DEF BufferRecord
<1>11. \A c \in Buffers : DataOK(c)'
  <2> SUFFICES ASSUME NEW c \in Buffers PROVE DataOK(c)'
    OBVIOUS
  <2>1. DataOK(c)
    BY DEF CoherentInv
  <2>2. CASE c # b
    <3>1. (Writing(c)' <=> Writing(c)) /\ (Reading(c)' <=> Reading(c))
      BY <1>9, <2>2
    <3>2. buf'[c] = buf[c]
      BY <1>10, <2>2
    <3> QED
      BY <2>1, <3>1, <3>2 DEF DataOK
  <2>3. CASE c = b
    <3>1. ~Writing(c) /\ ~Reading(c)
      BY <1>1, <2>3 DEF Requested, Writing, Reading
    <3>2. (Writing(c)' <=> si[t] # 0) /\ (Reading(c)' <=> si[t] = 0)
      BY <1>9, <2>3, <3>1
    <3>3. /\ buf'[c].blk \in Blocks /\ (buf'[c].uptodate <=> si[t] # 0)
          /\ ~buf'[c].dirt
      BY <1>1, <1>a, <1>10, <2>3
    <3> QED
      BY <3>2, <3>3 DEF DataOK
  <2> QED
    BY <2>2, <2>3
<1>12. PICK label \in {"sync", "rd_wait"}, i \in {0, si[t] + 1} :
         /\ pc' = [pc EXCEPT ![t] = label] /\ si' = [si EXCEPT ![t] = i]
         /\ label = "rd_wait" => si[t] = 0
  <2>1. si = [si EXCEPT ![t] = si[t]]
    BY <1>0 DEF TasksTypeOK
  <2>2. CASE si[t] # 0
    BY <2>2 DEF RwReturn, Goto
  <2>3. CASE si[t] = 0
    BY <2>1, <2>3 DEF RwReturn, Goto
  <2> QED
    BY <2>2, <2>3
<1>13. pc'[t] = label /\ Others(t)
  BY <1>0, <1>12 DEF TasksTypeOK, Others
<1>14. TodoOf(t)' = TodoOf(t)
  BY <1>13 DEF TodoOf
<1>15. \A c \in Buffers : /\ buf'[c].blk = buf[c].blk /\ buf'[c].data = buf[c].data
                          /\ buf'[c].uptodate = buf[c].uptodate
  BY <1>10
<1>16. CallData(t)'
  BY <1>0, <1>1, <1>a, <1>12, <1>13, <1>15 DEF CallData, Making
<1>17. ASSUME NEW u \in Tasks, u # t PROVE CallData(u)'
  <2>0. CallData(u) /\ CallOK(u)
    BY DEF CoherentInv, CacheIInv
  <2>1. /\ pc'[u] = pc[u] /\ op'[u] = op[u] /\ want'[u] = want[u] /\ bh'[u] = bh[u]
        /\ si'[u] = si[u] /\ pc[u] # "use"
    BY <1>13, <1>17, <2>0 DEF Others, CallData
  <2>2. RwBuffer(u)' = RwBuffer(u)
    BY <2>1 DEF RwBuffer
  <2>4. pc[u] \in Making => RwBuffer(u) \in Buffers
    BY <1>0, OwnedFacts
  <2>5. pc[u] = "rd_wait" \/ (pc[u] \in Making /\ si[u] = 0) => bh[u] \in Buffers
    BY <2>0 DEF CallOK, Waiting, Making
  <2>6. pc[u] \in Making => (buf'[RwBuffer(u)].uptodate <=> si[u] # 0)
    BY <2>0, <2>4, <1>15 DEF CallData
  <2>7. pc[u] = "rd_wait" \/ (pc[u] \in Making /\ si[u] = 0) => buf'[bh[u]].blk = want[u]
    BY <2>0, <2>5, <1>15 DEF CallData
  <2> QED
    BY <2>0, <2>1, <2>2, <2>6, <2>7 DEF CallData, Making
<1>18. CoherentInv'
  BY <1>11, <1>16, <1>17 DEF CoherentInv
<1>19. SameContent
  BY <1>15, <1>18, SameDataKeepsContent
<1>20. UNCHANGED Store!storeVars
  BY <1>13, <1>14, <1>19, Stutter
<1> QED
  BY <1>18, <1>20, Zenon DEF Covered

LEMMA GetRequestCovered ==
  ASSUME CoherentInv, CacheIInv', CacheUnique', NEW t \in Tasks, GetRequest(t)
  PROVE  Covered
<1>0. TasksTypeOK
  BY DEF CoherentInv, CacheIInv
<1>1. pc[t] = "slot" /\ cpu = t /\ UNCHANGED <<free_list, disk, cpu, op, want, bh, seen>>
  BY DEF GetRequest, At
<1>2. CASE FreeSlots(rq, Cmd(t)) # {}
  BY <1>1, <1>2, QueueCovered DEF GetRequest
<1>3. CASE FreeSlots(rq, Cmd(t)) = {}
  <2>1. /\ pc' = [pc EXCEPT ![t] = "sleep_tmp"] /\ si' = [si EXCEPT ![t] = si[t]]
        /\ UNCHANGED <<buf, rq>>
    BY <1>0, <1>3 DEF GetRequest, Goto, TasksTypeOK
  <2> QED
    BY <1>1, <2>1, MoveCovered DEF Making
<1> QED
  BY <1>2, <1>3

(* Starting a call asks for a block, or for none. *)
LEMMA StartCovered ==
  ASSUME Careful, CoherentInv, CacheIInv', CacheUnique', NEW t \in Tasks,
         \/ \E o \in Workload, k \in Blocks : StartBlock(t, o, k)
         \/ StartSync(t)
  PROVE  Covered
<1>0. TasksTypeOK /\ CallOK(t) /\ CallData(t)
  BY DEF CoherentInv, CacheIInv
<1>1. CASE StartSync(t)
  <2>1. /\ cpu = NoTask /\ pc[t] = "idle" /\ pc' = [pc EXCEPT ![t] = "sync"]
        /\ op' = [op EXCEPT ![t] = "sync"] /\ si' = [si EXCEPT ![t] = 1]
        /\ UNCHANGED <<buf, disk, rq, want, bh, seen>>
    BY <1>1 DEF StartSync, Goto
  <2>2. pc'[t] = "sync" /\ op'[t] = "sync" /\ Others(t) /\ want[t] = NoBlock
    BY <1>0, <2>1 DEF TasksTypeOK, Others, CallOK, CallData
  <2>3. CallData(t)' /\ TodoOf(t)' = TodoOf(t)
    BY <2>1, <2>2 DEF CallData, Making, TodoOf
  <2> QED
    BY <2>1, <2>2, <2>3, UnchangedSameData, StutterCovered
<1>2. ASSUME NEW o \in Workload, NEW k \in Blocks, StartBlock(t, o, k) PROVE Covered
  <2>1. /\ cpu = NoTask /\ pc[t] = "idle" /\ pc' = [pc EXCEPT ![t] = "hash"]
        /\ op' = [op EXCEPT ![t] = o] /\ want' = [want EXCEPT ![t] = k]
        /\ UNCHANGED <<buf, disk, rq, bh, si, seen>> /\ o # "sync"
    BY <1>2 DEF StartBlock, Goto
  <2>2. /\ pc'[t] = "hash" /\ op'[t] = o /\ want'[t] = k /\ Others(t)
        /\ want[t] = NoBlock /\ o \in {"read", "write"}
    BY <1>0, <2>1 DEF TasksTypeOK, Others, CallOK, CallData, Careful
  <2>3. CallData(t)' /\ TodoOf(t)' = {k} /\ TodoOf(t) = {}
    BY <2>1, <2>2, CacheAssumption DEF CallData, Making, TodoOf
  <2>4. CoherentInv' /\ SameContent
    BY <2>1, <2>2, <2>3, UnchangedSameData, QuietCoherent
  <2>5. [j \in Blocks |-> BlockContent(j)]' = [j \in Blocks |-> BlockContent(j)]
    BY <2>4 DEF SameContent
  <2>6. [u \in Tasks |-> TodoOf(u)]' = [[u \in Tasks |-> TodoOf(u)] EXCEPT ![t] = {k}]
    BY <2>2, <2>3, TodoBecomes
  <2>7. [u \in Tasks |-> TodoOf(u)][t] = {}
    BY <2>3
  <2>8. Store!Ask(t, k)
    BY <2>1, <2>5, <2>6, <2>7, Zenon DEF Store!Ask, TodoOf
  <2> QED
    BY <2>4, <2>8, Zenon DEF Covered, Store!StoreNext
<1> QED
  BY <1>1, <1>2

(* bread() waits, and finds the block unreadable or goes on. *)
LEMMA ReadWaitCovered ==
  ASSUME CoherentInv, CacheIInv', CacheUnique', NEW t \in Tasks, ReadWait(t)
  PROVE  Covered
<1>0. TasksTypeOK /\ CallOK(t) /\ CallData(t) /\ CacheIInv
  BY DEF CoherentInv, CacheIInv
<1>1. pc[t] = "rd_wait" /\ cpu = t
  BY DEF ReadWait, At
<1>2. CASE WaitOnBuffer(t, bh[t], "rd_wait")
  BY <1>1, <1>2, WaitCovered
<1>3. CASE ~WaitOnBuffer(t, bh[t], "rd_wait")
  <2>1. /\ ~buf[bh[t]].lock /\ UNCHANGED <<buf, disk, cpu, rq, op, want, bh, si, seen>>
        /\ pc' = [pc EXCEPT ![t] = IF buf[bh[t]].uptodate THEN "use" ELSE "release"]
    BY <1>3 DEF ReadWait, Goto
  <2>2. Others(t)
    BY <2>1 DEF Others, TasksTypeOK
  <2>3. CASE buf[bh[t]].uptodate
    <3>1. pc'[t] = "use"
      BY <1>0, <2>1, <2>3 DEF TasksTypeOK
    <3>2. CallData(t)' /\ TodoOf(t)' = TodoOf(t)
      BY <1>0, <1>1, <2>1, <2>3, <3>1 DEF CallData, Making, TodoOf
    <3> QED
      BY <1>1, <2>1, <2>2, <3>2, UnchangedSameData, StutterCovered
  <2>4. CASE ~buf[bh[t]].uptodate
    <3>1. pc'[t] = "release"
      BY <1>0, <2>1, <2>4 DEF TasksTypeOK
    <3>2. CallData(t)' /\ TodoOf(t)' = {}
      BY <1>0, <1>1, <2>1, <3>1 DEF CallData, Making, TodoOf
    <3>3. want[t] \in Blocks
      BY <1>0, <1>1 DEF CallOK, CallData, Waiting
    <3>4. TodoOf(t) = {want[t]}
      BY <1>1, <3>3, CacheAssumption DEF TodoOf
    <3>5. CoherentInv' /\ SameContent
      BY <1>1, <2>1, <2>2, <3>2, UnchangedSameData, QuietCoherent
    <3>6. [j \in Blocks |-> BlockContent(j)]' = [j \in Blocks |-> BlockContent(j)]
      BY <3>5 DEF SameContent
    <3>7. [u \in Tasks |-> TodoOf(u)]' = [[u \in Tasks |-> TodoOf(u)] EXCEPT ![t] = {}]
      BY <2>2, <3>2, TodoBecomes
    <3>8. [u \in Tasks |-> TodoOf(u)][t] # {}
      BY <3>4
    <3>9. Store!Unreadable(t)
      BY <2>1, <3>6, <3>7, <3>8, Zenon DEF Store!Unreadable, TodoOf
    <3> QED
      BY <3>5, <3>9, Zenon DEF Covered, Store!StoreNext
  <2> QED
    BY <2>3, <2>4
<1> QED
  BY <1>2, <1>3

LEMMA ReleaseCovered ==
  ASSUME CoherentInv, CacheIInv', CacheUnique', NEW t \in Tasks, Release(t)
  PROVE  Covered
<1>0. StoreTypeOK /\ CacheIInv
  BY DEF CoherentInv, CacheIInv
<1>1. pc[t] = "release" /\ cpu = t
  BY DEF Release, At
<1>2. CASE WaitOnBuffer(t, bh[t], "release")
  BY <1>1, <1>2, WaitCovered
<1>3. CASE ~WaitOnBuffer(t, bh[t], "release")
  <2> DEFINE b == bh[t]
             n == buf[b].count - 1
  <2>1. /\ buf' = [buf EXCEPT ![b].count = n] /\ Done(t) /\ UNCHANGED <<disk, rq>>
    BY <1>3 DEF Release, ReleaseBuffer
  <2>2. b \in Buffers /\ n \in Nat
    BY <1>0, <1>1, HeldFacts DEF Waiting
  <2>3. TodoOf(t) = {}
    BY <1>1 DEF TodoOf
  <2> HIDE DEF n, b
  <2>4. SameData
    BY <1>0, <2>1, <2>2, EditSameData
  <2> QED
    BY <1>1, <2>1, <2>3, <2>4, DoneCovered
<1> QED
  BY <1>2, <1>3

-----------------------------------------------------------------------------
(* What a caller does with its buffer. *)
LEMMA UseFacts ==
  ASSUME CoherentInv, NEW t \in Tasks, pc[t] = "use"
  PROVE  /\ bh[t] \in Buffers /\ buf[bh[t]] \in BufferRecord /\ want[t] \in Blocks
         /\ buf[bh[t]].blk = want[t] /\ buf[bh[t]].uptodate /\ ~buf[bh[t]].lock
         /\ BlockContent(want[t]) = buf[bh[t]].data /\ TodoOf(t) = {want[t]}
<1>0. CallOK(t) /\ CallData(t) /\ CacheIInv
  BY DEF CoherentInv, CacheIInv
<1>1. /\ bh[t] \in Buffers /\ buf[bh[t]] \in BufferRecord
      /\ buf[bh[t]].blk = want[t] /\ buf[bh[t]].uptodate /\ ~buf[bh[t]].lock
  BY <1>0, HeldFacts DEF Waiting, CallData
<1>2. want[t] \in Blocks
  BY <1>0, <1>1, HeldFacts DEF Waiting
<1>3. BlockContent(want[t]) = buf[bh[t]].data
  BY <1>1, <1>2, ContentIs DEF ContentKnown
<1>4. TodoOf(t) = {want[t]}
  BY <1>2, CacheAssumption DEF TodoOf
<1> QED
  BY <1>1, <1>2, <1>3, <1>4

LEMMA UseReadCovered ==
  ASSUME CoherentInv, CacheIInv', CacheUnique', NEW t \in Tasks, UseRead(t)
  PROVE  Covered
<1>0. TasksTypeOK /\ CallData(t)
  BY DEF CoherentInv, CacheIInv
<1>1. /\ pc[t] = "use" /\ cpu = t /\ pc' = [pc EXCEPT ![t] = "release"]
      /\ seen' = [seen EXCEPT ![t] = buf[bh[t]].data]
      /\ UNCHANGED <<buf, disk, cpu, rq, op, want, bh, si>>
  BY DEF UseRead, At, Goto
<1>2. Others(t) /\ pc'[t] = "release"
  BY <1>0, <1>1 DEF Others, TasksTypeOK
<1>3. CallData(t)' /\ TodoOf(t)' = {}
  BY <1>0, <1>1, <1>2 DEF CallData, Making, TodoOf
<1>4. CoherentInv' /\ SameContent
  BY <1>1, <1>2, <1>3, UnchangedSameData, QuietCoherent
<1>5. [j \in Blocks |-> BlockContent(j)]' = [j \in Blocks |-> BlockContent(j)]
  BY <1>4 DEF SameContent
<1>6. [u \in Tasks |-> TodoOf(u)]' = [[u \in Tasks |-> TodoOf(u)] EXCEPT ![t] = {}]
  BY <1>2, <1>3, TodoBecomes
<1>7. PICK k \in Blocks : k = want[t] /\ BlockContent(k) = buf[bh[t]].data
  BY <1>1, UseFacts
<1>8. /\ k \in [u \in Tasks |-> TodoOf(u)][t]
      /\ seen' = [seen EXCEPT ![t] = [j \in Blocks |-> BlockContent(j)][k]]
  BY <1>1, <1>7, UseFacts
<1>9. Store!Read(t, k)
  BY <1>5, <1>6, <1>8, Zenon DEF Store!Read, TodoOf
<1> QED
  BY <1>4, <1>9, Zenon DEF Covered, Store!StoreNext

LEMMA UseWriteCovered ==
  ASSUME CoherentInv, CacheIInv', CacheUnique', NEW t \in Tasks, NEW v \in Values,
         UseWrite(t, v)
  PROVE  Covered
<1>0. /\ TasksTypeOK /\ StoreTypeOK /\ LockOwners /\ CallData(t) /\ CacheIInv
      /\ \A u \in Tasks : CallOK(u)
  BY DEF CoherentInv, CacheIInv
<1>1. /\ pc[t] = "use" /\ cpu = t /\ pc' = [pc EXCEPT ![t] = "release"]
      /\ buf' = [buf EXCEPT ![bh[t]].data = v, ![bh[t]].dirt = TRUE]
      /\ UNCHANGED <<disk, cpu, rq, op, want, bh, si, seen>>
  BY DEF UseWrite, At, Goto
<1>2. PICK b \in Buffers, k \in Blocks : b = bh[t] /\ k = want[t]
  BY <1>1, UseFacts
<1>3. /\ buf[b] \in BufferRecord /\ buf[b].blk = k /\ buf[b].uptodate /\ ~buf[b].lock
      /\ TodoOf(t) = {k}
  BY <1>1, <1>2, UseFacts
<1>4. /\ \A c \in Buffers \ {b} : buf'[c] = buf[c]
      /\ buf'[b].blk = k /\ buf'[b].uptodate /\ buf'[b].dirt /\ buf'[b].data = v
      /\ ~buf'[b].lock
  <2>1. \A c \in Buffers :
          buf'[c] = IF c = b THEN [buf[b] EXCEPT !.data = v, !.dirt = TRUE] ELSE buf[c]
    BY <1>0, <1>1, <1>2 DEF StoreTypeOK
  <2> QED
    BY <1>3, <2>1 DEF BufferRecord
<1>5. Others(t) /\ pc'[t] = "release"
  BY <1>0, <1>1 DEF Others, TasksTypeOK
<1>6. CallData(t)' /\ TodoOf(t)' = {}
  BY <1>0, <1>1, <1>5 DEF CallData, Making, TodoOf
<1>7. ASSUME NEW u \in Tasks, u # t PROVE CallData(u)'
  <2>0. CallData(u) /\ CallOK(u)
    BY <1>0 DEF CoherentInv
  <2>1. /\ pc'[u] = pc[u] /\ op'[u] = op[u] /\ want'[u] = want[u] /\ bh'[u] = bh[u]
        /\ si'[u] = si[u] /\ pc[u] # "use"
    BY <1>1, <1>5, <1>7, <2>0 DEF Others, CallData
  <2>2. RwBuffer(u)' = RwBuffer(u)
    BY <2>1 DEF RwBuffer
  <2>3. \A c \in Buffers : buf'[c].blk = buf[c].blk /\ buf'[c].uptodate = buf[c].uptodate
    <3>1. buf[b].uptodate = TRUE /\ buf'[b].uptodate = TRUE
      <4>1. buf'[b].uptodate \in BOOLEAN /\ buf[b].uptodate \in BOOLEAN
        BY <1>2, <1>3 DEF CacheIInv, StoreTypeOK, BufferRecord
      <4> QED
        BY <1>3, <1>4, <4>1
    <3> QED
      BY <1>3, <1>4, <3>1
  <2>4. pc[u] \in Making => RwBuffer(u) \in Buffers
    BY <1>0, OwnedFacts
  <2>5. pc[u] = "rd_wait" \/ (pc[u] \in Making /\ si[u] = 0) => bh[u] \in Buffers
    BY <2>0 DEF CallOK, Waiting, Making
  <2>6. pc[u] \in Making => (buf'[RwBuffer(u)].uptodate <=> si[u] # 0)
    BY <2>0, <2>3, <2>4 DEF CallData
  <2>7. pc[u] = "rd_wait" \/ (pc[u] \in Making /\ si[u] = 0) => buf'[bh[u]].blk = want[u]
    BY <2>0, <2>3, <2>5 DEF CallData
  <2> QED
    BY <2>0, <2>1, <2>2, <2>6, <2>7 DEF CallData, Making
<1>8. \A c \in Buffers : DataOK(c)'
  <2>1. \A c : (Writing(c)' <=> Writing(c)) /\ (Reading(c)' <=> Reading(c))
    BY <1>1 DEF Writing, Reading
  <2> SUFFICES ASSUME NEW c \in Buffers PROVE DataOK(c)'
    OBVIOUS
  <2>2. CASE c # b
    <3>1. buf'[c] = buf[c] /\ DataOK(c)
      BY <1>4, <2>2 DEF CoherentInv
    <3> QED
      BY <1>1, <2>1, <3>1 DEF DataOK
  <2>3. CASE c = b
    <3>1. ~Reading(c)'
      BY <1>0, <1>3, <2>1, <2>3 DEF Reading, LockOwners, Requested
    <3> QED
      BY <1>4, <2>3, <3>1 DEF DataOK
  <2> QED
    BY <2>2, <2>3
<1>9. CoherentInv'
  BY <1>6, <1>7, <1>8 DEF CoherentInv
<1>10. ASSUME NEW j \in Blocks
       PROVE  BlockContent(j)' = IF j = k THEN v ELSE BlockContent(j)
  <2>1. ContentKnown
    BY ContentIs
  <2>2. ContentKnown'
    BY <1>9, ContentIs, PTL
  <2>3. CASE j = k
    BY <1>4, <2>2, <2>3 DEF ContentKnown
  <2>4. CASE j # k /\ \E c \in Buffers : buf[c].blk = j /\ buf[c].uptodate
    <3>1. PICK c \in Buffers : buf[c].blk = j /\ buf[c].uptodate
      BY <2>4
    <3>2. buf'[c] = buf[c]
      BY <1>3, <1>4, <2>4, <3>1
    <3> QED
      BY <2>1, <2>2, <2>4, <3>1, <3>2 DEF ContentKnown
  <2>5. CASE j # k /\ \A c \in Buffers : buf[c].blk = j => ~buf[c].uptodate
    <3>1. \A c \in Buffers : buf'[c].blk = j => ~buf'[c].uptodate
      BY <1>4, <2>5
    <3> QED
      BY <1>1, <2>1, <2>2, <2>5, <3>1 DEF ContentKnown
  <2> QED
    BY <2>3, <2>4, <2>5
<1>11. [j \in Blocks |-> BlockContent(j)]'
         = [[j \in Blocks |-> BlockContent(j)] EXCEPT ![k] = v]
  BY <1>10
<1>12. [u \in Tasks |-> TodoOf(u)]' = [[u \in Tasks |-> TodoOf(u)] EXCEPT ![t] = {}]
  BY <1>5, <1>6, TodoBecomes
<1>13. k \in [u \in Tasks |-> TodoOf(u)][t]
  BY <1>3
<1>14. Store!Write(t, k, v)
  BY <1>1, <1>11, <1>12, <1>13, Zenon DEF Store!Write, TodoOf
<1> QED
  BY <1>9, <1>14, Zenon DEF Covered, Store!StoreNext

(* The disk interrupt moves a value between a buffer and the disk, and     *)
(* makes none.                                                             *)
LEMMA InterruptCovered ==
  ASSUME Careful, CoherentInv, CacheIInv', CacheUnique', NEW ok \in BOOLEAN, Interrupt(ok)
  PROVE  Covered
<1>0. /\ TasksTypeOK /\ StoreTypeOK /\ LockOwners /\ InUseNamed /\ CacheIInv
      /\ \A u \in Tasks : CallOK(u)
  BY DEF CoherentInv, CacheIInv
<1>1. rq # << >> /\ rq \in Seq(QueueEntry) /\ rq' = Tail(rq) /\ 1 \in 1 .. Len(rq) /\ Head(rq) = rq[1]
  BY <1>0 DEF Interrupt, EndRequest, StoreTypeOK
<1>2. PICK b \in Buffers : b = rq[1].bh
  BY <1>0, <1>1, EntryOK
<1>3. PICK k \in Blocks : k = buf[b].blk
  BY <1>0, <1>1, <1>2 DEF InUseNamed, LockOwners, Requested
<1>4. PICK m \in {READ, WRITE} : m = rq[1].cmd
  BY <1>0, <1>1, EntryOK DEF QueueEntry, Commands
<1>5. /\ buf[b] \in BufferRecord /\ buf[b].lock /\ DataOK(b)
      /\ m = READ => Reading(b)
      /\ m = WRITE => Writing(b) /\ ok
  BY <1>0, <1>1, <1>2, <1>4
     DEF CoherentInv, StoreTypeOK, LockOwners, Requested, Reading, Writing, Interrupt,
         Careful, READ, WRITE
<1>6. /\ disk' = IF m # READ /\ ok THEN [disk EXCEPT ![k] = buf[b].data] ELSE disk
      /\ buf' = [buf EXCEPT ![b].uptodate = ok, ![b].lock = FALSE,
                            ![b].data = IF m = READ /\ ok THEN disk[k] ELSE buf[b].data]
      /\ UNCHANGED <<cpu, pc, op, want, bh, si, seen>>
  BY <1>1, <1>2, <1>3, <1>4 DEF Interrupt, taskVars
<1>7. /\ \A c \in Buffers \ {b} : buf'[c] = buf[c]
      /\ buf'[b].blk = k /\ buf'[b].uptodate = ok /\ buf'[b].dirt = buf[b].dirt
      /\ buf'[b].data = IF m = READ /\ ok THEN disk[k] ELSE buf[b].data
  <2> DEFINE w == IF m = READ /\ ok THEN disk[k] ELSE buf[b].data
  <2>1. buf' = [buf EXCEPT ![b].uptodate = ok, ![b].lock = FALSE, ![b].data = w]
    BY <1>6
  <2> HIDE DEF w
  <2>2. \A c \in Buffers :
          buf'[c] = IF c = b THEN [buf[b] EXCEPT !.uptodate = ok, !.lock = FALSE, !.data = w]
                    ELSE buf[c]
    BY <1>0, <2>1 DEF StoreTypeOK
  <2>3. /\ \A c \in Buffers \ {b} : buf'[c] = buf[c]
        /\ buf'[b].blk = k /\ buf'[b].uptodate = ok /\ buf'[b].dirt = buf[b].dirt
        /\ buf'[b].data = w
    BY <1>3, <1>5, <2>2 DEF BufferRecord
  <2> QED
    BY <2>3 DEF w
<1>8. \A c \in Buffers \ {b} : buf[c].blk # k
  BY <1>3, CacheAssumption DEF CoherentInv, CacheUnique
<1>9. ASSUME NEW c \in Buffers
      PROVE  /\ Writing(c)' => Writing(c) /\ c # b
             /\ Reading(c)' => Reading(c) /\ c # b
             /\ c # b /\ Writing(c) => Writing(c)'
  <2>1. /\ Len(rq') = Len(rq) - 1
        /\ \A i \in 1 .. Len(rq') : rq'[i] = rq[i + 1] /\ i + 1 \in 1 .. Len(rq) /\ i + 1 # 1
    BY <1>1
  <2>2. \A i \in 1 .. Len(rq') : rq'[i].bh # b
    BY <1>0, <1>1, <1>2, <2>1 DEF LockOwners
  <2>3. Writing(c)' => Writing(c) /\ c # b
    BY <2>1, <2>2 DEF Writing
  <2>4. Reading(c)' => Reading(c) /\ c # b
    BY <2>1, <2>2 DEF Reading
  <2>5. ASSUME c # b, Writing(c) PROVE Writing(c)'
    <3>1. PICK i \in 1 .. Len(rq) : rq[i].bh = c /\ rq[i].cmd = WRITE
      BY <2>5 DEF Writing
    <3>2. i # 1
      BY <1>2, <2>5, <3>1
    <3>3. i - 1 \in 1 .. Len(rq') /\ rq'[i - 1] = rq[i]
      BY <1>1, <2>1, <3>2
    <3> QED
      BY <3>1, <3>3 DEF Writing
  <2> QED
    BY <2>3, <2>4, <2>5
<1>10. \A c \in Buffers : DataOK(c)'
  <2> SUFFICES ASSUME NEW c \in Buffers PROVE DataOK(c)'
    OBVIOUS
  <2>1. DataOK(c)
    BY DEF CoherentInv
  <2>2. CASE c # b
    <3>1. buf'[c] = buf[c] /\ buf[c].blk # k
      BY <1>7, <1>8, <2>2
    <3>2. buf[c].blk \in Blocks => disk'[buf[c].blk] = disk[buf[c].blk]
      BY <1>0, <1>6, <3>1 DEF StoreTypeOK
    <3> QED
      BY <1>9, <2>1, <2>2, <3>1, <3>2 DEF DataOK
  <2>3. CASE c = b
    <3>1. ~Writing(c)' /\ ~Reading(c)'
      BY <1>9, <2>3
    <3>2. buf'[c].uptodate => buf'[c].data = disk'[k]
      BY <1>0, <1>4, <1>6, <1>7, <2>3 DEF StoreTypeOK
    <3>3. buf'[c].dirt => buf'[c].uptodate
      BY <1>4, <1>5, <1>7, <2>3 DEF DataOK
    <3>4. buf'[c].blk = k
      BY <1>7, <2>3
    <3> QED
      BY <3>1, <3>2, <3>3, <3>4 DEF DataOK
  <2> QED
    BY <2>2, <2>3
<1>11. ASSUME NEW u \in Tasks PROVE CallData(u)'
  <2>0. CallData(u) /\ CallOK(u)
    BY <1>0 DEF CoherentInv
  <2>1. RwBuffer(u)' = RwBuffer(u)
    BY <1>6 DEF RwBuffer
  <2>2. pc[u] \in Making => RwBuffer(u) \in Buffers /\ RwBuffer(u) # b
    BY <1>0, <1>1, <1>2, OwnedFacts DEF Requested
  <2>3. pc[u] \in {"rd_wait", "use"} \/ (pc[u] \in Making /\ si[u] = 0) => bh[u] \in Buffers
    BY <2>0 DEF CallOK, Waiting, Making
  <2>4. pc[u] = "use" => bh[u] # b
    BY <1>5, <2>0 DEF CallData
  <2>5. pc[u] \in Making => (buf'[RwBuffer(u)].uptodate <=> si[u] # 0)
    <3> SUFFICES ASSUME pc[u] \in Making PROVE buf'[RwBuffer(u)].uptodate <=> si[u] # 0
      OBVIOUS
    <3>1. buf'[RwBuffer(u)] = buf[RwBuffer(u)]
      BY <1>7, <2>2
    <3> QED
      BY <2>0, <3>1 DEF CallData
  <2>6. pc[u] \in {"rd_wait", "use"} \/ (pc[u] \in Making /\ si[u] = 0)
          => buf'[bh[u]].blk = want[u]
    BY <1>3, <1>7, <2>0, <2>3 DEF CallData
  <2>7. pc[u] = "use" => buf'[bh[u]] = buf[bh[u]]
    BY <1>7, <2>3, <2>4
  <2> QED
    BY <1>6, <2>0, <2>1, <2>5, <2>6, <2>7 DEF CallData, Making
<1>12. CoherentInv'
  BY <1>10, <1>11 DEF CoherentInv
<1>13. SameContent
  <2> SUFFICES ASSUME NEW j \in Blocks PROVE BlockContent(j)' = BlockContent(j)
    BY DEF SameContent
  <2>1. ContentKnown
    BY ContentIs
  <2>2. ContentKnown'
    BY <1>12, ContentIs, PTL
  <2>3. CASE j = k
    <3>1. CASE m = READ
      <4>1. ~buf[b].uptodate
        BY <1>5, <3>1 DEF DataOK
      <4>2. BlockContent(j) = disk[k]
        BY <1>8, <2>1, <2>3, <4>1 DEF ContentKnown
      <4>3. disk' = disk
        BY <1>6, <3>1
      <4>4. CASE ok
        BY <1>7, <2>2, <2>3, <3>1, <4>2, <4>4 DEF ContentKnown
      <4>5. CASE ~ok
        <5>1. \A c \in Buffers : buf'[c].blk = j => ~buf'[c].uptodate
          BY <1>7, <1>8, <2>3, <4>5
        <5> QED
          BY <2>2, <2>3, <4>2, <4>3, <5>1 DEF ContentKnown
      <4> QED
        BY <4>4, <4>5
    <3>2. CASE m = WRITE
      <4>1. buf[b].uptodate /\ ok /\ m # READ
        BY <1>5, <3>2 DEF DataOK, READ, WRITE
      <4> QED
        BY <1>3, <1>7, <2>1, <2>2, <2>3, <4>1 DEF ContentKnown
    <3> QED
      BY <1>4, <3>1, <3>2
  <2>4. CASE j # k
    <3>1. disk'[j] = disk[j]
      BY <1>0, <1>6, <2>4 DEF StoreTypeOK
    <3>2. \A c \in Buffers : /\ buf'[c].blk = j <=> buf[c].blk = j
                             /\ buf[c].blk = j => buf'[c] = buf[c]
      BY <1>3, <1>7, <2>4
    <3>3. CASE \E c \in Buffers : buf[c].blk = j /\ buf[c].uptodate
      BY <2>1, <2>2, <3>2, <3>3 DEF ContentKnown
    <3>4. CASE \A c \in Buffers : buf[c].blk = j => ~buf[c].uptodate
      BY <2>1, <2>2, <3>1, <3>2, <3>4 DEF ContentKnown
    <3> QED
      BY <3>3, <3>4
  <2> QED
    BY <2>3, <2>4
<1>14. \A u \in Tasks : TodoOf(u)' = TodoOf(u)
  BY <1>6 DEF TodoOf
<1>15. [j \in Blocks |-> BlockContent(j)]' = [j \in Blocks |-> BlockContent(j)]
  BY <1>13 DEF SameContent
<1>16. [u \in Tasks |-> TodoOf(u)]' = [u \in Tasks |-> TodoOf(u)]
  BY <1>14
<1>17. UNCHANGED Store!storeVars
  BY <1>6, <1>15, <1>16, Zenon DEF Store!storeVars, TodoOf
<1> QED
  BY <1>12, <1>17, Zenon DEF Covered

-----------------------------------------------------------------------------
LEMMA CoherentInit == CacheInit => CoherentInv /\ Store!StoreInit
<1> SUFFICES ASSUME CacheInit PROVE CoherentInv /\ Store!StoreInit
  OBVIOUS
<1>1. CacheIInv /\ CacheUnique
  BY CacheInitOK, InitUnique DEF UniqueInv
<1>2. \A b \in Buffers : ~buf[b].uptodate /\ ~buf[b].dirt
  BY DEF CacheInit
<1>3. \A b \in Buffers : DataOK(b)
  BY <1>2 DEF CacheInit, DataOK, Writing, Reading
<1>4. \A t \in Tasks : CallData(t) /\ TodoOf(t) = {}
  BY DEF CacheInit, CallData, Making, TodoOf
<1>5. CoherentInv
  BY <1>1, <1>3, <1>4 DEF CoherentInv
<1>6. \A k \in Blocks : BlockContent(k) = disk[k]
  BY <1>2, <1>5, ContentIs DEF ContentKnown
<1>7. [k \in Blocks |-> BlockContent(k)] \in [Blocks -> Values]
  BY <1>1, <1>6 DEF CacheIInv, StoreTypeOK
<1>8. [t \in Tasks |-> TodoOf(t)] = [t \in Tasks |-> {}]
  BY <1>4
<1>9. Store!StoreInit
  BY <1>7, <1>8, Zenon DEF CacheInit, Store!StoreInit, TodoOf
<1> QED
  BY <1>5, <1>9

LEMMA StepCovered ==
  ASSUME Careful, CoherentInv, CacheIInv', CacheUnique', NEW t \in Tasks, TaskStep(t)
  PROVE  Covered
<1>1. CallData(t)
  BY DEF CoherentInv
<1>2. ~UseSlowWrite(t) /\ \A v \in Values : ~CopyAfterFault(t, v)
  BY <1>1 DEF CallData, UseSlowWrite, CopyAfterFault
<1>3. \/ Resume(t) \/ HashHit(t) \/ HashWait(t) \/ HashMiss(t) \/ Claim(t)
      \/ SyncLoop(t) \/ SyncWait(t) \/ GetRequest(t)
      \/ SleepTmp(t) \/ SleepLink(t) \/ SleepState(t)
      \/ ReadWait(t) \/ UseRead(t) \/ Release(t)
      \/ \E v \in Values : UseWrite(t, v)
  BY <1>2, Zenon DEF TaskStep
<1>4. CASE Resume(t)
  BY <1>4, ResumeCovered
<1>5. CASE HashHit(t) \/ HashWait(t) \/ HashMiss(t)
  BY <1>5, HashCovered
<1>6. CASE Claim(t)
  BY <1>6, ClaimCovered
<1>7. CASE SyncLoop(t)
  BY <1>7, SyncLoopCovered
<1>8. CASE SyncWait(t)
  BY <1>8, SyncWaitCovered
<1>9. CASE GetRequest(t)
  BY <1>9, GetRequestCovered
<1>10. CASE SleepTmp(t) \/ SleepLink(t) \/ SleepState(t)
  BY <1>10, SleepCovered
<1>11. CASE ReadWait(t)
  BY <1>11, ReadWaitCovered
<1>12. CASE UseRead(t)
  BY <1>12, UseReadCovered
<1>13. CASE Release(t)
  BY <1>13, ReleaseCovered
<1>14. CASE \E v \in Values : UseWrite(t, v)
  BY <1>14, UseWriteCovered
<1> QED
  BY <1>3, <1>4, <1>5, <1>6, <1>7, <1>8, <1>9, <1>10, <1>11, <1>12, <1>13, <1>14

LEMMA CacheNextCovered ==
  Careful /\ CoherentInv /\ [CacheNext]_cacheVars => Covered
<1> SUFFICES ASSUME Careful, CoherentInv, [CacheNext]_cacheVars PROVE Covered
  OBVIOUS
<1>1. UniqueInv
  BY DEF CoherentInv, CacheIInv, StoreTypeOK, UniqueInv, Shape, Header, BufferRecord
<1>2. CacheIInv' /\ CacheUnique'
  BY <1>1, CacheNextKeeps, NextUnique DEF CoherentInv, UniqueInv
<1>3. ASSUME NEW t \in Tasks,
             (\E o \in Workload, k \in Blocks : StartBlock(t, o, k)) \/ StartSync(t)
      PROVE  Covered
  BY <1>2, <1>3, StartCovered
<1>4. ASSUME NEW t \in Tasks, TaskStep(t) PROVE Covered
  BY <1>2, <1>4, StepCovered
<1>5. ASSUME NEW ok \in BOOLEAN, Interrupt(ok) PROVE Covered
  BY <1>2, <1>5, InterruptCovered
<1>6. CASE UNCHANGED cacheVars
  <2>1. UNCHANGED <<buf, disk, cpu, rq, pc, op, want, bh, si, seen>>
    BY <1>6 DEF cacheVars, taskVars
  <2>2. \A b \in Buffers : DataOK(b)' <=> DataOK(b)
    BY <2>1 DEF DataOK, Writing, Reading
  <2>3. \A t \in Tasks : (CallData(t)' <=> CallData(t)) /\ TodoOf(t)' = TodoOf(t)
    BY <2>1 DEF CallData, RwBuffer, TodoOf
  <2>4. CoherentInv'
    BY <1>2, <2>2, <2>3 DEF CoherentInv
  <2>5. SameContent
    BY <2>1, <2>4, SameDataKeepsContent
  <2>6. [k \in Blocks |-> BlockContent(k)]' = [k \in Blocks |-> BlockContent(k)]
    BY <2>5 DEF SameContent
  <2>7. [t \in Tasks |-> TodoOf(t)]' = [t \in Tasks |-> TodoOf(t)]
    BY <2>3
  <2>8. UNCHANGED Store!storeVars
    BY <2>1, <2>6, <2>7, Zenon DEF Store!storeVars, TodoOf
  <2> QED
    BY <2>4, <2>8, Zenon DEF Covered
<1> QED
  BY <1>3, <1>4, <1>5, <1>6 DEF CacheNext

(* The cache of fs/buffer.c implements BlockStore, for any number of       *)
(* tasks, buffers, blocks and request slots: whoever reads a block sees    *)
(* the value written last, through eviction, sync and failed reads.  The   *)
(* hypothesis excludes what is known to break it: callers that overwrite a *)
(* block without reading it or that sleep while they fill a dirty buffer,  *)
(* and failed writes.                                                      *)
THEOREM CacheIsStore ==
  ASSUME Careful
  PROVE  CacheSpec => ImplementsStore
<1>1. CoherentInv /\ [CacheNext]_cacheVars
        => CoherentInv' /\ [Store!StoreNext]_(Store!storeVars)
  BY CacheNextCovered, Zenon DEF Covered
<1> QED
  BY <1>1, CoherentInit, PTL DEF CacheSpec, ImplementsStore, Store!StoreSpec
=============================================================================
