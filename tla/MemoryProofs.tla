---------------------------- MODULE MemoryProofs ----------------------------
(***************************************************************************)
(* Proofs about Memory: the reference counts of page frames are exact on   *)
(* every path, a page a process may write to is its own, execve() past its *)
(* point of no return finds room, and processes have private memory but    *)
(* for writes of the kernel through a protected entry.                     *)
(*                                                                         *)
(* Every step changes what one process refers to, so a frame's references  *)
(* are counted as those of one process (Own) and the others (Elsewhere).   *)
(***************************************************************************)
EXTENDS Memory, OrderTheorems

(* One reference if x is the frame f, none otherwise. *)
One(x, f) == IF x = f THEN 1 ELSE 0

(* What p refers to f by. *)
Own(p, f) ==
  One(task[p], f) + TablesOf(p, f) + EntriesOf(p, f) + One(lframe[p], f) + One(args[p], f)

(* p holds f in a way that must be the only one: as its task_struct, as a  *)
(* page table, as the frame a page is read into, as an argument page, or   *)
(* as a page it can write to.                                              *)
Holds(p, f) ==
  \/ task[p] = f \/ lframe[p] = f \/ args[p] = f
  \/ \E k \in Tables : dir[p][k] = f
  \/ \E v \in Pages : pte[p][v].w /\ pte[p][v].frame = f

SingleUse == \A p \in Procs, f \in Frames : Holds(p, f) => mem_map[f] <= 1

(* An entry is in a page table, and only a counted frame is writable. *)
EntriesBacked(p) ==
  \A v \in Pages : /\ pte[p][v].w => pte[p][v].frame \in Frames
                   /\ Present(p, v) => dir[p][Table[v]] # NoFrame

(* Nothing but its task_struct is left of p. *)
Bare(p) ==
  /\ \A k \in Tables : dir[p][k] = NoFrame
  /\ \A v \in Pages : pte[p][v].frame = NoFrame
  /\ loading[p] = NoPage /\ lframe[p] = NoFrame /\ args[p] = NoFrame
  /\ exe[p] = NoExecutable

(* A process has a page table until it exits, and nothing afterwards. *)
SpaceHeld(p) ==
  /\ p \in zombie => task[p] # NoFrame
  /\ Alive(p) => \E k \in Tables : dir[p][k] # NoFrame
  /\ ~Alive(p) => Bare(p)

(* What a process that sleeps in the kernel relies on when it wakes up. *)
CallsHeld(p) ==
  /\ loading[p] = NoPage <=> lframe[p] = NoFrame
  /\ loading[p] # NoPage =>
       ~Present(p, loading[p]) /\ args[p] = NoFrame /\ exe[p] # NoExecutable
  /\ args[p] # NoFrame => exe[p] # NoExecutable

ProcOK(p) == EntriesBacked(p) /\ SpaceHeld(p) /\ CallsHeld(p)

(* The inductive invariant. *)
IInv == TypeOK /\ MemMapExact /\ SingleUse /\ \A p \in Procs : ProcOK(p)

----------------------------------------------------------------------------
(* The tables of the system are finite. *)
LEMMA Finite ==
  IsFiniteSet(Pages) /\ IsFiniteSet(Tables) /\ IsFiniteSet(Procs) /\ IsFiniteSet(Frames)
<1>1. IsFiniteSet(Pages)
  BY MemoryAssumption
<1>2. IsFiniteSet(Tables)
  <2> DEFINE g == [v \in Pages |-> Table[v]]
  <2>1. g \in Surjection(Pages, Tables)
    BY DEF Surjection, Tables
  <2> HIDE DEF g
  <2> QED
    BY <1>1, <2>1, FS_Surjection
<1>3. IsFiniteSet(Procs) /\ IsFiniteSet(Frames)
  <2>1. NR_TASKS - 1 \in Int /\ NR_FRAMES \in Int
    BY MemoryAssumption
  <2>2. IsFiniteSet(1 .. NR_TASKS - 1) /\ IsFiniteSet(1 .. NR_FRAMES)
    BY <2>1, FS_Interval
  <2> QED
    BY <2>2 DEF Procs, Frames
<1> QED
  BY <1>1, <1>2, <1>3

(* What the processes but p refer to f by. *)
Elsewhere(p, f) ==
    Cardinality({q \in Procs \ {p} : task[q] = f})
  + Cardinality({d \in (Procs \ {p}) \X Tables : dir[d[1]][d[2]] = f})
  + Cardinality({e \in (Procs \ {p}) \X Pages : pte[e[1]][e[2]].frame = f})
  + Cardinality({q \in Procs \ {p} : lframe[q] = f})
  + Cardinality({q \in Procs \ {p} : args[q] = f})

(* A column of the process table counts with and without p. *)
LEMMA ColumnSplit ==
  ASSUME NEW T \in SUBSET Procs, NEW S, NEW p \in Procs, S = T \ {p}
  PROVE  /\ Cardinality(T) = Cardinality(S) + (IF p \in T THEN 1 ELSE 0)
         /\ Cardinality(S) \in Nat
<1>1. IsFiniteSet(T) /\ T \ {p} = S \ {p} /\ p \notin S
  BY Finite, FS_Subset
<1> QED
  BY <1>1, SetUpdate

(* The references to f are those of p and those of the other processes. *)
OwnAndElsewhere ==
  \A p \in Procs, f \in Frames :
    /\ References(f) = Elsewhere(p, f) + Own(p, f)
    /\ Elsewhere(p, f) \in Nat /\ Own(p, f) \in Nat
    /\ TablesOf(p, f) \in Nat /\ EntriesOf(p, f) \in Nat

LEMMA OwnSplit == OwnAndElsewhere
<1> SUFFICES ASSUME NEW p \in Procs, NEW f \in Frames
             PROVE  /\ References(f) = Elsewhere(p, f) + Own(p, f)
                    /\ Elsewhere(p, f) \in Nat /\ Own(p, f) \in Nat
                    /\ TablesOf(p, f) \in Nat /\ EntriesOf(p, f) \in Nat
  BY DEF OwnAndElsewhere
<1> DEFINE C(g) == {q \in Procs : g[q] = f}
           D(g) == {q \in Procs \ {p} : g[q] = f}
           Splits(g) == /\ Cardinality(C(g)) = Cardinality(D(g)) + One(g[p], f)
                        /\ Cardinality(D(g)) \in Nat
           T == {d \in Procs \X Tables : dir[d[1]][d[2]] = f}
           T1 == {d \in (Procs \ {p}) \X Tables : dir[d[1]][d[2]] = f}
           T2 == {k \in Tables : dir[p][k] = f}
           E == {e \in Procs \X Pages : pte[e[1]][e[2]].frame = f}
           E1 == {e \in (Procs \ {p}) \X Pages : pte[e[1]][e[2]].frame = f}
           E2 == {v \in Pages : pte[p][v].frame = f}
<1>1. ASSUME NEW g PROVE Splits(g)
  <2>1. C(g) \in SUBSET Procs /\ D(g) = C(g) \ {p} /\ (p \in C(g) <=> g[p] = f)
    OBVIOUS
  <2> HIDE DEF C, D
  <2> QED
    BY <2>1, ColumnSplit DEF One
<1>2. /\ Cardinality(T) = Cardinality(T1) + Cardinality(T2)
      /\ Cardinality(T1) \in Nat /\ Cardinality(T2) \in Nat
  <2>1. T \in SUBSET (Procs \X Tables)
    OBVIOUS
  <2>2. T1 = Without(T, p)
    BY DEF Without
  <2>3. T2 = With(T, p, Tables)
    BY DEF With
  <2>4. IsFiniteSet(Tables)
    BY Finite
  <2> HIDE DEF T, T1, T2
  <2> QED
    BY ONLY <2>1, <2>2, <2>3, <2>4, Finite, PairSplit, p \in Procs
<1>3. /\ Cardinality(E) = Cardinality(E1) + Cardinality(E2)
      /\ Cardinality(E1) \in Nat /\ Cardinality(E2) \in Nat
  <2>1. E \in SUBSET (Procs \X Pages)
    OBVIOUS
  <2>2. E1 = Without(E, p)
    BY DEF Without
  <2>3. E2 = With(E, p, Pages)
    BY DEF With
  <2>4. IsFiniteSet(Pages)
    BY Finite
  <2> HIDE DEF E, E1, E2
  <2> QED
    BY ONLY <2>1, <2>2, <2>3, <2>4, Finite, PairSplit, p \in Procs
<1>4. References(f) = Cardinality(C(task)) + Cardinality(T) + Cardinality(E)
                        + Cardinality(C(lframe)) + Cardinality(C(args))
  BY DEF References
<1>5. Elsewhere(p, f) = Cardinality(D(task)) + Cardinality(T1) + Cardinality(E1)
                        + Cardinality(D(lframe)) + Cardinality(D(args))
  BY DEF Elsewhere
<1>6. /\ Own(p, f) = One(task[p], f) + Cardinality(T2) + Cardinality(E2)
                     + One(lframe[p], f) + One(args[p], f)
      /\ TablesOf(p, f) = Cardinality(T2) /\ EntriesOf(p, f) = Cardinality(E2)
  BY DEF Own, TablesOf, EntriesOf
<1>7. \A x : One(x, f) \in Nat
  BY DEF One
<1>8. Splits(task) /\ Splits(lframe) /\ Splits(args)
  <2> HIDE DEF Splits
  <2> QED
    BY <1>1
<1> HIDE DEF C, D, T, T1, T2, E, E1, E2
<1> QED
  BY <1>8, <1>2, <1>3, <1>4, <1>5, <1>6, <1>7

(* p changes what it refers to; q, another process, does not. *)
SameFrames(q) ==
  /\ task'[q] = task[q] /\ lframe'[q] = lframe[q] /\ args'[q] = args[q]
  /\ \A k \in Tables : dir'[q][k] = dir[q][k]
  /\ \A v \in Pages : pte'[q][v].frame = pte[q][v].frame

(* The counts stay exact when mem_map follows what p refers to. *)
LEMMA CountsFollow ==
  ASSUME NEW p \in Procs, MemMapExact,
         \A q \in Procs \ {p} : SameFrames(q),
         \A f \in Frames : /\ mem_map[f] \in Nat /\ mem_map'[f] \in Nat
                           /\ mem_map'[f] + Own(p, f) = mem_map[f] + Own(p, f)'
  PROVE  MemMapExact'
<1> SUFFICES ASSUME NEW f \in Frames
             PROVE  mem_map'[f] = References(f)'
  BY DEF MemMapExact
<1>1. Elsewhere(p, f)' = Elsewhere(p, f)
  <2> DEFINE T1 == {d \in (Procs \ {p}) \X Tables : dir[d[1]][d[2]] = f}
             E1 == {e \in (Procs \ {p}) \X Pages : pte[e[1]][e[2]].frame = f}
             T3 == {d \in (Procs \ {p}) \X Tables : dir'[d[1]][d[2]] = f}
             E3 == {e \in (Procs \ {p}) \X Pages : pte'[e[1]][e[2]].frame = f}
  <2>1. T3 = T1
    BY DEF SameFrames
  <2>2. E3 = E1
    BY DEF SameFrames
  <2>3. /\ {q \in Procs \ {p} : task'[q] = f} = {q \in Procs \ {p} : task[q] = f}
        /\ {q \in Procs \ {p} : lframe'[q] = f} = {q \in Procs \ {p} : lframe[q] = f}
        /\ {q \in Procs \ {p} : args'[q] = f} = {q \in Procs \ {p} : args[q] = f}
    BY DEF SameFrames
  <2> QED
    BY <2>1, <2>2, <2>3 DEF Elsewhere
<1>2. OwnAndElsewhere /\ OwnAndElsewhere'
  BY OwnSplit, PTL
<1>3. /\ References(f) = Elsewhere(p, f) + Own(p, f)
      /\ References(f)' = Elsewhere(p, f)' + Own(p, f)'
      /\ Elsewhere(p, f) \in Nat /\ Own(p, f) \in Nat /\ Own(p, f)' \in Nat
  BY <1>2 DEF OwnAndElsewhere
<1>4. mem_map[f] = References(f)
  BY DEF MemMapExact
<1> QED
  BY <1>1, <1>3, <1>4

----------------------------------------------------------------------------
(* p refers to the frame f in some way. *)
Refers(p, f) ==
  \/ task[p] = f \/ lframe[p] = f \/ args[p] = f
  \/ \E k \in Tables : dir[p][k] = f
  \/ \E v \in Pages : pte[p][v].frame = f

(* How often p refers to f, by way of each of its tables. *)
LEMMA OwnCounts ==
  ASSUME NEW p \in Procs, NEW f \in Frames
  PROVE  /\ TablesOf(p, f) \in Nat /\ EntriesOf(p, f) \in Nat /\ Own(p, f) \in Nat
         /\ TablesOf(p, f) = 0 <=> \A k \in Tables : dir[p][k] # f
         /\ EntriesOf(p, f) = 0 <=> \A v \in Pages : pte[p][v].frame # f
         /\ Own(p, f) = 0 <=> ~Refers(p, f)
         /\ TablesOf(p, f) <= 1 =>
              \A j, k \in Tables : dir[p][j] = f /\ dir[p][k] = f => j = k
         /\ EntriesOf(p, f) <= 1 =>
              \A u, v \in Pages : pte[p][u].frame = f /\ pte[p][v].frame = f => u = v
<1> DEFINE T == {k \in Tables : dir[p][k] = f}
           E == {v \in Pages : pte[p][v].frame = f}
<1>1. /\ TablesOf(p, f) = Cardinality(T) /\ EntriesOf(p, f) = Cardinality(E)
      /\ IsFiniteSet(T) /\ IsFiniteSet(E)
  <2>1. IsFiniteSet(T) /\ IsFiniteSet(E)
    <3>1. T \subseteq Tables /\ E \subseteq Pages
      OBVIOUS
    <3> HIDE DEF T, E
    <3> QED
      BY <3>1, Finite, FS_Subset
  <2> QED
    BY <2>1 DEF TablesOf, EntriesOf
<1>2. /\ Cardinality(T) \in Nat /\ Cardinality(E) \in Nat
      /\ Cardinality(T) = 0 <=> T = {}
      /\ Cardinality(E) = 0 <=> E = {}
  <2> HIDE DEF T, E
  <2> QED
    BY <1>1, FS_CardinalityType, FS_EmptySet
<1>3. ASSUME NEW S, IsFiniteSet(S), Cardinality(S) <= 1, NEW a \in S, NEW b \in S, a # b
      PROVE  FALSE
  <2>1. Cardinality({a, b}) <= Cardinality(S)
    BY <1>3, FS_Subset
  <2>2. Cardinality({a, b}) = 2
    <3>1. IsFiniteSet({a}) /\ Cardinality({a}) = 1
      BY FS_Singleton
    <3>2. {a, b} = {a} \cup {b} /\ b \notin {a}
      BY <1>3
    <3>3. Cardinality({a} \cup {b}) = Cardinality({a}) + 1
      BY <3>1, <3>2, FS_AddElement, Zenon
    <3> QED
      BY <3>1, <3>2, <3>3
  <2> QED
    BY <1>3, <2>1, <2>2, FS_CardinalityType
<1>4. /\ T = {} <=> \A k \in Tables : dir[p][k] # f
      /\ E = {} <=> \A v \in Pages : pte[p][v].frame # f
  OBVIOUS
<1>5. /\ Cardinality(T) <= 1 => \A j, k \in T : j = k
      /\ Cardinality(E) <= 1 => \A u, v \in E : u = v
  <2> HIDE DEF T, E
  <2> QED
    BY <1>1, <1>3
<1>6. /\ (\A j, k \in T : j = k) => \A j, k \in Tables : dir[p][j] = f /\ dir[p][k] = f => j = k
      /\ (\A u, v \in E : u = v) => \A u, v \in Pages : pte[p][u].frame = f /\ pte[p][v].frame = f => u = v
  OBVIOUS
<1>7. Own(p, f) \in Nat /\ (Own(p, f) = 0 <=> ~Refers(p, f))
  <2> HIDE DEF T, E
  <2>1. /\ One(task[p], f) \in Nat /\ One(lframe[p], f) \in Nat /\ One(args[p], f) \in Nat
        /\ One(task[p], f) = 0 <=> task[p] # f
        /\ One(lframe[p], f) = 0 <=> lframe[p] # f
        /\ One(args[p], f) = 0 <=> args[p] # f
    BY DEF One
  <2>2. /\ Own(p, f) \in Nat
        /\ Own(p, f) = 0 <=> /\ One(task[p], f) = 0 /\ One(lframe[p], f) = 0
                             /\ One(args[p], f) = 0
                             /\ TablesOf(p, f) = 0 /\ EntriesOf(p, f) = 0
    <3>1. TablesOf(p, f) \in Nat /\ EntriesOf(p, f) \in Nat
      BY <1>1, <1>2
    <3>2. PICK a \in Nat, b \in Nat, c \in Nat, d \in Nat, e \in Nat :
            /\ a = One(task[p], f) /\ b = TablesOf(p, f) /\ c = EntriesOf(p, f)
            /\ d = One(lframe[p], f) /\ e = One(args[p], f)
      BY <3>1, <2>1
    <3>3. Own(p, f) = a + b + c + d + e
      BY <3>2 DEF Own
    <3>4. /\ a + b + c + d + e \in Nat
          /\ a + b + c + d + e = 0 <=> a = 0 /\ d = 0 /\ e = 0 /\ b = 0 /\ c = 0
      OBVIOUS
    <3> QED
      BY ONLY <3>2, <3>3, <3>4
  <2> QED
    BY <1>1, <1>2, <1>4, <2>1, <2>2 DEF Refers
<1> HIDE DEF T, E
<1> QED
  BY <1>1, <1>2, <1>4, <1>5, <1>6, <1>7

(* When p has all the references to f there are, nobody else has one. *)
LEMMA NobodyElse ==
  ASSUME NEW p \in Procs, NEW f \in Frames, Elsewhere(p, f) = 0, NEW q \in Procs \ {p}
  PROVE  ~Refers(q, f)
<1> DEFINE D(g) == {r \in Procs \ {p} : g[r] = f}
           T1 == {d \in (Procs \ {p}) \X Tables : dir[d[1]][d[2]] = f}
           E1 == {e \in (Procs \ {p}) \X Pages : pte[e[1]][e[2]].frame = f}
<1>1. IsFiniteSet(T1) /\ IsFiniteSet(E1) /\ \A g : IsFiniteSet(D(g))
  <2>1. T1 \subseteq Procs \X Tables /\ E1 \subseteq Procs \X Pages /\ \A g : D(g) \subseteq Procs
    OBVIOUS
  <2>2. IsFiniteSet(Procs \X Tables) /\ IsFiniteSet(Procs \X Pages)
    BY Finite, FS_Product
  <2> HIDE DEF T1, E1, D
  <2> QED
    BY <2>1, <2>2, Finite, FS_Subset
<1>2. Elsewhere(p, f) = Cardinality(D(task)) + Cardinality(T1) + Cardinality(E1)
                        + Cardinality(D(lframe)) + Cardinality(D(args))
  BY DEF Elsewhere
<1>3. D(task) = {} /\ D(lframe) = {} /\ D(args) = {} /\ T1 = {} /\ E1 = {}
  <2> HIDE DEF D, T1, E1
  <2>1. \A g : Cardinality(D(g)) \in Nat /\ (Cardinality(D(g)) = 0 <=> D(g) = {})
    BY <1>1, FS_CardinalityType, FS_EmptySet
  <2>2. /\ Cardinality(T1) \in Nat /\ (Cardinality(T1) = 0 <=> T1 = {})
        /\ Cardinality(E1) \in Nat /\ (Cardinality(E1) = 0 <=> E1 = {})
    BY <1>1, FS_CardinalityType, FS_EmptySet
  <2> QED
    BY <1>2, <2>1, <2>2
<1>4. ASSUME NEW k \in Tables, dir[q][k] = f PROVE FALSE
  <2>1. <<q, k>> \in T1
    BY <1>4
  <2> QED
    BY <2>1, <1>3
<1>5. ASSUME NEW v \in Pages, pte[q][v].frame = f PROVE FALSE
  <2>1. <<q, v>> \in E1
    BY <1>5
  <2> QED
    BY <2>1, <1>3
<1>6. task[q] # f /\ lframe[q] # f /\ args[q] # f
  BY <1>3
<1> QED
  BY <1>4, <1>5, <1>6 DEF Refers

(* A frame has at least the references of one process; a frame with one    *)
(* reference has one owner; nobody refers to a free frame.                 *)
LEMMA Owners ==
  ASSUME TypeOK, MemMapExact, NEW f \in Frames, NEW p \in Procs
  PROVE  /\ mem_map[f] \in Nat /\ Own(p, f) \in Nat /\ Own(p, f) <= mem_map[f]
         /\ Refers(p, f) /\ mem_map[f] <= 1 =>
              /\ mem_map[f] = 1 /\ Own(p, f) = 1
              /\ \A q \in Procs \ {p} : ~Refers(q, f)
         /\ mem_map[f] = 0 => ~Refers(p, f) /\ Own(p, f) = 0
<1>1. /\ References(f) = Elsewhere(p, f) + Own(p, f)
      /\ Elsewhere(p, f) \in Nat /\ Own(p, f) \in Nat
  BY OwnSplit DEF OwnAndElsewhere
<1>2. mem_map[f] = References(f) /\ mem_map[f] \in Nat
  BY DEF MemMapExact, TypeOK
<1>3. Own(p, f) = 0 <=> ~Refers(p, f)
  BY OwnCounts
<1>4. Elsewhere(p, f) = 0 => \A q \in Procs \ {p} : ~Refers(q, f)
  BY NobodyElse
<1> QED
  BY <1>1, <1>2, <1>3, <1>4

(* get_free_page() returns a frame whose count is 0. *)
LEMMA FreeFrameFree ==
  ASSUME NEW m \in [Frames -> Nat], FreeFrames(m) # {}
  PROVE  FreeFrame(m) \in Frames /\ m[FreeFrame(m)] = 0
<1>1. FreeFrames(m) \subseteq Frames /\ FreeFrames(m) \subseteq Int
  BY DEF FreeFrames, Frames
<1>2. IsFiniteSet(FreeFrames(m))
  BY <1>1, Finite, FS_Subset
<1>3. FreeFrame(m) \in FreeFrames(m)
  BY <1>1, <1>2, MaxLargest DEF FreeFrame
<1> QED
  BY <1>3 DEF FreeFrames

(* When p refers to f once, it is in one way only. *)
LEMMA OneWay ==
  ASSUME NEW p \in Procs, NEW f \in Frames, Own(p, f) = 1
  PROVE  /\ (\E k \in Tables : dir[p][k] = f) =>
              /\ task[p] # f /\ lframe[p] # f /\ args[p] # f
              /\ EntriesOf(p, f) = 0 /\ TablesOf(p, f) = 1
         /\ (\E v \in Pages : pte[p][v].frame = f) =>
              /\ task[p] # f /\ lframe[p] # f /\ args[p] # f
              /\ EntriesOf(p, f) = 1 /\ TablesOf(p, f) = 0
         /\ task[p] = f \/ lframe[p] = f \/ args[p] = f =>
              EntriesOf(p, f) = 0 /\ TablesOf(p, f) = 0
<1>1. /\ TablesOf(p, f) \in Nat /\ EntriesOf(p, f) \in Nat
      /\ TablesOf(p, f) = 0 <=> \A k \in Tables : dir[p][k] # f
      /\ EntriesOf(p, f) = 0 <=> \A v \in Pages : pte[p][v].frame # f
  BY OwnCounts
<1>2. PICK a \in Nat, b \in Nat, c \in Nat, d \in Nat, e \in Nat :
        /\ a = One(task[p], f) /\ b = TablesOf(p, f) /\ c = EntriesOf(p, f)
        /\ d = One(lframe[p], f) /\ e = One(args[p], f)
  BY <1>1 DEF One
<1>3. a + b + c + d + e = 1
  BY <1>2 DEF Own
<1>4. /\ a = 1 <=> task[p] = f
      /\ d = 1 <=> lframe[p] = f
      /\ e = 1 <=> args[p] = f
  BY <1>2 DEF One
<1>5. /\ b # 0 => a = 0 /\ c = 0 /\ d = 0 /\ e = 0 /\ b = 1
      /\ c # 0 => a = 0 /\ b = 0 /\ d = 0 /\ e = 0 /\ c = 1
      /\ (a = 1 \/ d = 1 \/ e = 1) => b = 0 /\ c = 0
  BY <1>3
<1>6. /\ b = 0 <=> \A k \in Tables : dir[p][k] # f
      /\ c = 0 <=> \A v \in Pages : pte[p][v].frame # f
  BY <1>1, <1>2
<1>7. /\ (\E k \in Tables : dir[p][k] = f) =>
              /\ task[p] # f /\ lframe[p] # f /\ args[p] # f /\ c = 0 /\ b = 1
      /\ (\E v \in Pages : pte[p][v].frame = f) =>
              /\ task[p] # f /\ lframe[p] # f /\ args[p] # f /\ c = 1 /\ b = 0
      /\ task[p] = f \/ lframe[p] = f \/ args[p] = f => b = 0 /\ c = 0
  BY ONLY <1>4, <1>5, <1>6
<1> QED
  BY <1>7, <1>2

(* free_page_tables() gives back what the tables and entries of p refer to, *)
(* and leaves the rest.                                                     *)
LEMMA FreeTables ==
  ASSUME TypeOK, MemMapExact, NEW p \in Procs
  PROVE  /\ free_page_tables(p) \in [Frames -> Nat]
         /\ \A f \in Frames :
              /\ free_page_tables(p)[f] + TablesOf(p, f) + EntriesOf(p, f) = mem_map[f]
              /\ One(task[p], f) + One(lframe[p], f) + One(args[p], f)
                   <= free_page_tables(p)[f]
<1> SUFFICES ASSUME NEW f \in Frames
             PROVE  /\ free_page_tables(p)[f] \in Nat
                    /\ free_page_tables(p)[f] + TablesOf(p, f) + EntriesOf(p, f) = mem_map[f]
                    /\ One(task[p], f) + One(lframe[p], f) + One(args[p], f)
                         <= free_page_tables(p)[f]
  BY DEF free_page_tables
<1>1. TablesOf(p, f) \in Nat /\ EntriesOf(p, f) \in Nat
  BY OwnCounts
<1>2. Own(p, f) <= mem_map[f] /\ mem_map[f] \in Nat
  BY Owners
<1>3. PICK a \in Nat, b \in Nat, c \in Nat, d \in Nat, e \in Nat :
        /\ a = One(task[p], f) /\ b = TablesOf(p, f) /\ c = EntriesOf(p, f)
        /\ d = One(lframe[p], f) /\ e = One(args[p], f)
  BY <1>1 DEF One
<1>4. a + b + c + d + e <= mem_map[f]
  BY <1>2, <1>3 DEF Own
<1>5. free_page_tables(p)[f] = mem_map[f] - c - b
  BY <1>3 DEF free_page_tables
<1>6. /\ mem_map[f] - c - b \in Nat
      /\ (mem_map[f] - c - b) + b + c = mem_map[f]
      /\ a + d + e <= mem_map[f] - c - b
  BY ONLY <1>2, <1>4, a \in Nat, b \in Nat, c \in Nat, d \in Nat, e \in Nat
<1> QED
  BY <1>3, <1>5, <1>6

(* The invariant implies that page tables and task_structs are never       *)
(* mapped, nor shared.                                                     *)
LEMMA InvKernelFramesApart ==
  ASSUME IInv
  PROVE  KernelFramesApart
<1> USE DEF IInv
<1> SUFFICES ASSUME NEW p \in Procs, NEW q \in Procs, NEW k \in Tables, dir[p][k] # NoFrame
             PROVE  /\ \A v \in Pages : pte[q][v].frame # dir[p][k]
                    /\ task[q] # dir[p][k]
                    /\ \A j \in Tables : dir[q][j] = dir[p][k] => q = p /\ j = k
  BY DEF KernelFramesApart
<1>1. PICK f \in Frames : f = dir[p][k]
  BY DEF TypeOK
<1>2. mem_map[f] <= 1 /\ Refers(p, f)
  BY <1>1 DEF SingleUse, Holds, Refers
<1>3. Own(p, f) = 1 /\ \A r \in Procs \ {p} : ~Refers(r, f)
  BY <1>2, Owners
<1>4. CASE q # p
  <2>1. ~Refers(q, f)
    BY <1>3, <1>4
  <2> QED
    BY <2>1, <1>1 DEF Refers
<1>5. CASE q = p
  <2>1. task[p] # f /\ EntriesOf(p, f) = 0 /\ TablesOf(p, f) = 1
    BY <1>1, <1>3, OneWay
  <2>2. /\ \A v \in Pages : pte[p][v].frame # f
        /\ \A j \in Tables : dir[p][j] = f => j = k
    BY <2>1, <1>1, OwnCounts
  <2> QED
    BY <2>1, <2>2, <1>1, <1>5
<1> QED
  BY <1>4, <1>5

(* It implies that a page that can be written to has one owner. *)
LEMMA InvWritableAlone ==
  ASSUME IInv
  PROVE  WritableAlone
<1> USE DEF IInv
<1> SUFFICES ASSUME NEW p \in Procs, NEW q \in Procs, NEW v \in Pages, NEW u \in Pages,
                    pte[p][v].w, pte[q][u].frame = pte[p][v].frame
             PROVE  p = q /\ v = u
  BY DEF WritableAlone
<1>1. PICK f \in Frames : f = pte[p][v].frame
  BY DEF IInv, ProcOK, EntriesBacked
<1>2. mem_map[f] <= 1 /\ Refers(p, f)
  BY <1>1 DEF SingleUse, Holds, Refers
<1>3. Own(p, f) = 1 /\ \A r \in Procs \ {p} : ~Refers(r, f)
  BY <1>2, Owners
<1>4. p = q
  BY <1>1, <1>3 DEF Refers
<1>5. EntriesOf(p, f) = 1
  BY <1>1, <1>3, OneWay
<1> QED
  BY <1>1, <1>4, <1>5, OwnCounts

(* It implies that execve() finds a free frame after its point of no       *)
(* return: the page table of the process.                                  *)
LEMMA RoomAfterFree ==
  ASSUME IInv, NEW p \in Procs, Alive(p)
  PROVE  FreeFrames(free_page_tables(p)) # {}
<1> USE DEF IInv
<1>1. PICK k \in Tables : dir[p][k] # NoFrame
  BY DEF IInv, ProcOK, SpaceHeld
<1>2. PICK f \in Frames : f = dir[p][k]
  BY <1>1 DEF TypeOK
<1>3. mem_map[f] <= 1 /\ Refers(p, f)
  BY <1>2 DEF SingleUse, Holds, Refers
<1>4. Own(p, f) = 1 /\ mem_map[f] = 1
  BY <1>3, Owners
<1>5. EntriesOf(p, f) = 0 /\ TablesOf(p, f) = 1
  BY <1>2, <1>4, OneWay
<1>6. free_page_tables(p)[f] = 0
  BY <1>4, <1>5 DEF free_page_tables
<1> QED
  BY <1>6 DEF FreeFrames

LEMMA InvExecHasRoom ==
  ASSUME IInv
  PROVE  ExecHasRoom
<1> SUFFICES ASSUME NEW p \in Procs, args[p] # NoFrame
             PROVE  FreeFrames(free_page_tables(p)) # {}
  BY DEF ExecHasRoom
<1>1. Alive(p)
  BY DEF IInv, ProcOK, SpaceHeld, Bare
<1> QED
  BY <1>1, RoomAfterFree

----------------------------------------------------------------------------
(* A step that is not q's leaves what q refers to alone, and may only      *)
(* write-protect its pages.                                                *)
Untouched(q) ==
  /\ SameFrames(q)
  /\ q \in zombie' <=> q \in zombie
  /\ exe'[q] = exe[q] /\ loading'[q] = loading[q]
  /\ \A v \in Pages : pte'[q][v].w => pte[q][v].w

LEMMA UntouchedOK ==
  ASSUME NEW q \in Procs, Untouched(q), TypeOK
  PROVE  /\ ProcOK(q) => ProcOK(q)'
         /\ \A f \in Frames : Holds(q, f)' => Holds(q, f)
<1> USE DEF Untouched, SameFrames
<1>1. EntriesBacked(q) => EntriesBacked(q)'
  BY DEF EntriesBacked, Present, Tables
<1>2. SpaceHeld(q) => SpaceHeld(q)'
  BY DEF SpaceHeld, Alive, Bare
<1>3. CallsHeld(q) => CallsHeld(q)'
  BY DEF CallsHeld, Present, TypeOK
<1>4. \A f \in Frames : Holds(q, f)' => Holds(q, f)
  BY DEF Holds
<1> QED
  BY <1>1, <1>2, <1>3, <1>4 DEF ProcOK

(* A step of p keeps the invariant when mem_map follows what p refers to,  *)
(* frames that are held are not counted again, and p is fine afterwards.   *)
LEMMA StepInv ==
  ASSUME IInv, NEW p \in Procs, TypeOK', ProcOK(p)',
         \A q \in Procs \ {p} : Untouched(q),
         \A f \in Frames : mem_map'[f] + Own(p, f) = mem_map[f] + Own(p, f)',
         \A q \in Procs, f \in Frames : Holds(q, f)' => mem_map'[f] <= 1
  PROVE  IInv'
<1>1. MemMapExact'
  <2>1. \A q \in Procs \ {p} : SameFrames(q)
    BY DEF Untouched
  <2>2. \A f \in Frames : mem_map[f] \in Nat /\ mem_map'[f] \in Nat
    BY DEF IInv, TypeOK
  <2> QED
    BY <2>1, <2>2, CountsFollow DEF IInv
<1>2. SingleUse'
  BY DEF SingleUse
<1>3. ASSUME NEW q \in Procs PROVE ProcOK(q)'
  BY UntouchedOK DEF IInv
<1> QED
  BY <1>1, <1>2, <1>3 DEF IInv

(* Frames that are held are not counted again when every count falls, or   *)
(* goes from 0 to 1.                                                       *)
LEMMA HeldOnce ==
  ASSUME IInv, NEW p \in Procs, TypeOK',
         \A q \in Procs \ {p} : Untouched(q),
         \A f \in Frames : mem_map'[f] <= 1 \/ mem_map'[f] <= mem_map[f],
         \A f \in Frames : Holds(p, f)' => Holds(p, f) \/ mem_map'[f] <= 1
  PROVE  \A q \in Procs, f \in Frames : Holds(q, f)' => mem_map'[f] <= 1
<1> SUFFICES ASSUME NEW q \in Procs, NEW f \in Frames, Holds(q, f)'
             PROVE  mem_map'[f] <= 1
  OBVIOUS
<1>1. mem_map[f] \in Nat /\ mem_map'[f] \in Nat
  BY DEF IInv, TypeOK
<1>2. Holds(q, f) \/ mem_map'[f] <= 1
  BY UntouchedOK DEF IInv
<1>3. Holds(q, f) => mem_map[f] <= 1
  BY DEF IInv, SingleUse
<1> QED
  BY <1>1, <1>2, <1>3

----------------------------------------------------------------------------
(* Process 1 starts with a task_struct, a page table and uncounted pages. *)
LEMMA InitInv == Init => IInv
<1> SUFFICES ASSUME Init
             PROVE  IInv
  OBVIOUS
<1> DEFINE t1 == Table[CHOOSE v \in ImagePages : TRUE]
<1>1. t1 \in Tables
  <2>1. (CHOOSE v \in ImagePages : TRUE) \in Pages
    BY MemoryAssumption
  <2> QED
    BY <2>1 DEF Tables
<1> HIDE DEF t1
<1>2. /\ 1 \in Frames /\ 2 \in Frames /\ 1 \in Procs
      /\ LowFrame \notin Frames /\ NoFrame \notin Frames /\ NoFrame # LowFrame
  BY MemoryAssumption DEF Frames, Procs
<1>3. /\ mem_map = [f \in Frames |-> IF f \in {1, 2} THEN 1 ELSE 0]
      /\ content = [f \in Frames \cup {LowFrame} |-> IF f = LowFrame THEN Kernel ELSE Zero]
      /\ task = [q \in Procs |-> IF q = 1 THEN 1 ELSE NoFrame]
      /\ zombie = {}
      /\ dir = [q \in Procs |-> [k \in Tables |-> IF q = 1 /\ k = t1 THEN 2 ELSE NoFrame]]
      /\ pte = [q \in Procs |-> [v \in Pages |->
                  IF q = 1 /\ Table[v] = t1 THEN [Absent EXCEPT !.frame = LowFrame]
                                            ELSE Absent]]
      /\ exe = [q \in Procs |-> NoExecutable]
      /\ loading = [q \in Procs |-> NoPage]
      /\ lframe = [q \in Procs |-> NoFrame]
      /\ copyto = [q \in Procs |-> NoPage]
      /\ args = [q \in Procs |-> NoFrame]
  BY DEF Init, t1
<1>4. [Absent EXCEPT !.frame = LowFrame] = [frame |-> LowFrame, w |-> FALSE, d |-> FALSE]
  BY DEF Absent
<1>5. ASSUME NEW q \in Procs, NEW v \in Pages
      PROVE  /\ pte[q][v] \in Entries /\ ~pte[q][v].w
             /\ pte[q][v].frame = IF q = 1 /\ Table[v] = t1 THEN LowFrame ELSE NoFrame
  BY <1>3, <1>4 DEF Absent, Entries
<1>6. TypeOK
  <2>1. /\ pte = [q \in Procs |-> pte[q]]
        /\ \A q \in Procs : pte[q] = [v \in Pages |-> pte[q][v]]
    BY <1>3
  <2>2. pte \in [Procs -> [Pages -> Entries]]
    BY <1>5, <2>1
  <2>3. mem_map \in [Frames -> Nat] /\ content \in [Frames \cup {LowFrame} -> Values]
    BY <1>3 DEF Values
  <2>4. dir \in [Procs -> [Tables -> Frames \cup {NoFrame}]]
    BY <1>2, <1>3
  <2> QED
    BY <1>2, <1>3, <2>2, <2>3, <2>4 DEF TypeOK
<1>7. ASSUME NEW q \in Procs, NEW k \in Tables
      PROVE  dir[q][k] = IF q = 1 /\ k = t1 THEN 2 ELSE NoFrame
  BY <1>3
<1>8. ASSUME NEW q \in Procs PROVE ProcOK(q)
  <2>1. EntriesBacked(q)
    BY <1>1, <1>2, <1>5, <1>7 DEF EntriesBacked, Present
  <2>2. SpaceHeld(q)
    BY <1>1, <1>2, <1>3, <1>5, <1>7 DEF SpaceHeld, Alive, Bare
  <2>3. CallsHeld(q)
    BY <1>2, <1>3 DEF CallsHeld
  <2> QED
    BY <2>1, <2>2, <2>3 DEF ProcOK
<1>9. SingleUse
  BY <1>3 DEF SingleUse
<1>10. MemMapExact
  <2> SUFFICES ASSUME NEW f \in Frames PROVE mem_map[f] = References(f)
    BY DEF MemMapExact
  <2>1. Elsewhere(1, f) = 0
    <3> DEFINE D(g) == {q \in Procs \ {1} : g[q] = f}
               T1 == {d \in (Procs \ {1}) \X Tables : dir[d[1]][d[2]] = f}
               E1 == {e \in (Procs \ {1}) \X Pages : pte[e[1]][e[2]].frame = f}
    <3>1. D(task) = {} /\ D(lframe) = {} /\ D(args) = {}
      BY <1>2, <1>3
    <3>2. T1 = {} /\ E1 = {}
      BY <1>2, <1>5, <1>7
    <3>4. Elsewhere(1, f) = Cardinality(D(task)) + Cardinality(T1) + Cardinality(E1)
                            + Cardinality(D(lframe)) + Cardinality(D(args))
      BY DEF Elsewhere
    <3>3. Cardinality({}) = 0
      BY FS_EmptySet
    <3> HIDE DEF D, T1, E1
    <3> QED
      BY <3>1, <3>2, <3>3, <3>4
  <2>2. EntriesOf(1, f) = 0
    BY <1>2, <1>5, OwnCounts
  <2>3. TablesOf(1, f) = IF f = 2 THEN 1 ELSE 0
    <3>1. CASE f = 2
      <4>1. {k \in Tables : dir[1][k] = f} = {t1}
        BY <1>1, <1>2, <1>7, <3>1
      <4>2. Cardinality({t1}) = 1
        BY FS_Singleton
      <4> QED
        BY <3>1, <4>1, <4>2 DEF TablesOf
    <3>2. CASE f # 2
      BY <1>2, <1>7, <3>2, OwnCounts
    <3> QED
      BY <3>1, <3>2
  <2>4. task[1] = 1 /\ lframe[1] # f /\ args[1] # f
    BY <1>2, <1>3
  <2>5. Own(1, f) = IF f \in {1, 2} THEN 1 ELSE 0
    BY <2>2, <2>3, <2>4 DEF Own, One
  <2>6. References(f) = Elsewhere(1, f) + Own(1, f)
    BY <1>2, OwnSplit DEF OwnAndElsewhere
  <2> QED
    BY <1>3, <2>1, <2>5, <2>6
<1> QED
  BY <1>6, <1>8, <1>9, <1>10 DEF IInv

----------------------------------------------------------------------------
(* One entry of p changes. *)
LEMMA EntryChange ==
  ASSUME NEW p \in Procs, NEW v \in Pages, NEW f \in Frames,
         \A u \in Pages \ {v} : pte'[p][u].frame = pte[p][u].frame
  PROVE  /\ EntriesOf(p, f)' + One(pte[p][v].frame, f)
              = EntriesOf(p, f) + One(pte'[p][v].frame, f)
         /\ EntriesOf(p, f) \in Nat /\ EntriesOf(p, f)' \in Nat
<1> DEFINE S == {u \in Pages : pte[p][u].frame = f}
           T == {u \in Pages : pte'[p][u].frame = f}
<1>1. S \ {v} = T \ {v}
  OBVIOUS
<1>2. (v \in S <=> pte[p][v].frame = f) /\ (v \in T <=> pte'[p][v].frame = f)
  OBVIOUS
<1>3. S \subseteq Pages
  OBVIOUS
<1>4. EntriesOf(p, f) = Cardinality(S) /\ EntriesOf(p, f)' = Cardinality(T)
  BY DEF EntriesOf
<1> HIDE DEF S, T
<1>5. IsFiniteSet(S)
  BY <1>3, Finite, FS_Subset
<1>6. /\ Cardinality(S) \in Nat /\ Cardinality(T) \in Nat
      /\ Cardinality(T) + (IF v \in S THEN 1 ELSE 0)
           = Cardinality(S) + (IF v \in T THEN 1 ELSE 0)
  BY <1>1, <1>5, SetUpdate
<1> QED
  BY <1>2, <1>4, <1>6 DEF One

(* One page table of p changes. *)
LEMMA TableChange ==
  ASSUME NEW p \in Procs, NEW k \in Tables, NEW f \in Frames,
         \A j \in Tables \ {k} : dir'[p][j] = dir[p][j]
  PROVE  /\ TablesOf(p, f)' + One(dir[p][k], f) = TablesOf(p, f) + One(dir'[p][k], f)
         /\ TablesOf(p, f) \in Nat /\ TablesOf(p, f)' \in Nat
<1> DEFINE S == {j \in Tables : dir[p][j] = f}
           T == {j \in Tables : dir'[p][j] = f}
<1>1. S \ {k} = T \ {k}
  OBVIOUS
<1>2. (k \in S <=> dir[p][k] = f) /\ (k \in T <=> dir'[p][k] = f)
  OBVIOUS
<1>3. S \subseteq Tables
  OBVIOUS
<1>4. TablesOf(p, f) = Cardinality(S) /\ TablesOf(p, f)' = Cardinality(T)
  BY DEF TablesOf
<1> HIDE DEF S, T
<1>5. IsFiniteSet(S)
  BY <1>3, Finite, FS_Subset
<1>6. /\ Cardinality(S) \in Nat /\ Cardinality(T) \in Nat
      /\ Cardinality(T) + (IF k \in S THEN 1 ELSE 0)
           = Cardinality(S) + (IF k \in T THEN 1 ELSE 0)
  BY <1>1, <1>5, SetUpdate
<1> QED
  BY <1>2, <1>4, <1>6 DEF One

(* No entry, or no table, of p changes its frame. *)
LEMMA NoChange ==
  ASSUME NEW p \in Procs, NEW f \in Frames
  PROVE  /\ TablesOf(p, f) \in Nat /\ EntriesOf(p, f) \in Nat
         /\ (\A v \in Pages : pte'[p][v].frame = pte[p][v].frame) =>
              EntriesOf(p, f)' = EntriesOf(p, f)
         /\ (\A k \in Tables : dir'[p][k] = dir[p][k]) => TablesOf(p, f)' = TablesOf(p, f)
<1>1. ASSUME \A v \in Pages : pte'[p][v].frame = pte[p][v].frame
      PROVE  EntriesOf(p, f)' = EntriesOf(p, f)
  <2>1. {v \in Pages : pte'[p][v].frame = f} = {v \in Pages : pte[p][v].frame = f}
    BY <1>1
  <2> QED
    BY <2>1 DEF EntriesOf
<1>2. ASSUME \A k \in Tables : dir'[p][k] = dir[p][k]
      PROVE  TablesOf(p, f)' = TablesOf(p, f)
  <2>1. {k \in Tables : dir'[p][k] = f} = {k \in Tables : dir[p][k] = f}
    BY <1>2
  <2> QED
    BY <2>1 DEF TablesOf
<1> QED
  BY <1>1, <1>2, OwnCounts

(* Whether two sums of references differ by the same as the counts. *)
LEMMA OwnSum ==
  ASSUME NEW p \in Procs, NEW f \in Frames
  PROVE  /\ Own(p, f) = One(task[p], f) + TablesOf(p, f) + EntriesOf(p, f)
                        + One(lframe[p], f) + One(args[p], f)
         /\ Own(p, f)' = One(task'[p], f) + TablesOf(p, f)' + EntriesOf(p, f)'
                         + One(lframe'[p], f) + One(args'[p], f)
         /\ \A x : One(x, f) \in Nat /\ One(x, f) <= 1 /\ (x # f => One(x, f) = 0)
         /\ One(f, f) = 1
BY DEF Own, One

(* do_exit() gives back everything but the task_struct. *)
LEMMA ExitInv ==
  ASSUME IInv, NEW p \in Procs, Alive(p), args[p] = NoFrame,
         NEW m \in [Frames -> Nat], do_exit(p, m),
         \A f \in Frames :
           m[f] + TablesOf(p, f) + EntriesOf(p, f) + One(lframe[p], f) = mem_map[f]
  PROVE  IInv'
<1>1. /\ mem_map' = m
      /\ dir' = [dir EXCEPT ![p] = [k \in Tables |-> NoFrame]]
      /\ pte' = [pte EXCEPT ![p] = [v \in Pages |-> Absent]]
      /\ zombie' = zombie \cup {p}
      /\ exe' = [exe EXCEPT ![p] = NoExecutable]
      /\ loading' = [loading EXCEPT ![p] = NoPage]
      /\ lframe' = [lframe EXCEPT ![p] = NoFrame]
      /\ copyto' = [copyto EXCEPT ![p] = NoPage]
      /\ content' = content /\ task' = task /\ args' = args
  BY DEF do_exit
<1>2. /\ mem_map \in [Frames -> Nat] /\ zombie \subseteq Procs
      /\ content \in [Frames \cup {LowFrame} -> Values]
      /\ task \in [Procs -> Frames \cup {NoFrame}]
      /\ dir \in [Procs -> [Tables -> Frames \cup {NoFrame}]]
      /\ pte \in [Procs -> [Pages -> Entries]]
      /\ exe \in [Procs -> Executables \cup {NoExecutable}]
      /\ loading \in [Procs -> Pages \cup {NoPage}]
      /\ lframe \in [Procs -> Frames \cup {NoFrame}]
      /\ copyto \in [Procs -> Pages \cup {NoPage}]
      /\ args \in [Procs -> Frames \cup {NoFrame}]
  BY DEF IInv, TypeOK
<1>3. Absent \in Entries /\ Absent.frame = NoFrame /\ ~Absent.w
  BY DEF Absent, Entries
<1>4. TypeOK'
  <2>1. pte' \in [Procs -> [Pages -> Entries]]
    BY ONLY <1>1, <1>2, <1>3
  <2>2. dir' \in [Procs -> [Tables -> Frames \cup {NoFrame}]]
    BY ONLY <1>1, <1>2
  <2>3. /\ exe' \in [Procs -> Executables \cup {NoExecutable}]
        /\ loading' \in [Procs -> Pages \cup {NoPage}]
        /\ lframe' \in [Procs -> Frames \cup {NoFrame}]
        /\ copyto' \in [Procs -> Pages \cup {NoPage}]
    BY ONLY <1>1, <1>2
  <2> QED
    BY <1>1, <1>2, <2>1, <2>2, <2>3 DEF TypeOK
<1>5. /\ \A k \in Tables : dir'[p][k] = NoFrame
      /\ \A v \in Pages : pte'[p][v].frame = NoFrame /\ ~pte'[p][v].w
      /\ exe'[p] = NoExecutable /\ loading'[p] = NoPage /\ lframe'[p] = NoFrame
      /\ task'[p] = task[p] /\ args'[p] = NoFrame
  BY ONLY <1>1, <1>2, <1>3, args[p] = NoFrame, p \in Procs
<1>6. NoFrame \notin Frames
  BY MemoryAssumption
<1>7. \A q \in Procs \ {p} : Untouched(q)
  BY ONLY <1>1, <1>2 DEF Untouched, SameFrames
<1>8. \A f \in Frames : mem_map'[f] + Own(p, f) = mem_map[f] + Own(p, f)'
  <2> SUFFICES ASSUME NEW f \in Frames
               PROVE  mem_map'[f] + Own(p, f) = mem_map[f] + Own(p, f)'
    OBVIOUS
  <2>1. /\ TablesOf(p, f) \in Nat /\ EntriesOf(p, f) \in Nat
    BY OwnCounts
  <2>2. TablesOf(p, f)' = 0 /\ EntriesOf(p, f)' = 0
    <3>1. {k \in Tables : dir'[p][k] = f} = {} /\ {v \in Pages : pte'[p][v].frame = f} = {}
      BY <1>5, <1>6
    <3>2. Cardinality({}) = 0
      BY FS_EmptySet
    <3> QED
      BY <3>1, <3>2 DEF TablesOf, EntriesOf
  <2>3. m[f] \in Nat /\ mem_map[f] \in Nat /\ mem_map'[f] = m[f]
    BY <1>1, <1>2
  <2>4. /\ One(args[p], f) = 0 /\ One(args'[p], f) = 0 /\ One(lframe'[p], f) = 0
        /\ One(task'[p], f) = One(task[p], f)
        /\ One(task[p], f) \in Nat /\ One(lframe[p], f) \in Nat
    BY <1>5, <1>6 DEF One
  <2> QED
    BY <2>1, <2>2, <2>3, <2>4, OwnSum
<1>9. \A q \in Procs, f \in Frames : Holds(q, f)' => mem_map'[f] <= 1
  <2>1. \A f \in Frames : mem_map'[f] <= mem_map[f]
    <3> SUFFICES ASSUME NEW f \in Frames PROVE m[f] <= mem_map[f]
      BY <1>1
    <3>1. /\ TablesOf(p, f) \in Nat /\ EntriesOf(p, f) \in Nat /\ One(lframe[p], f) \in Nat
      BY OwnCounts DEF One
    <3> QED
      BY <3>1, <1>2
  <2>2. \A f \in Frames : Holds(p, f)' => Holds(p, f)
    BY <1>5, <1>6 DEF Holds
  <2> QED
    BY <2>1, <2>2, <1>4, <1>7, HeldOnce
<1>10. ProcOK(p)'
  <2>1. p \in zombie' /\ task[p] # NoFrame
    BY <1>1 DEF Alive
  <2>2. EntriesBacked(p)'
    BY <1>5 DEF EntriesBacked, Present
  <2>3. SpaceHeld(p)'
    BY <1>5, <2>1 DEF SpaceHeld, Alive, Bare
  <2>4. CallsHeld(p)'
    BY <1>5 DEF CallsHeld
  <2> QED
    BY <2>2, <2>3, <2>4 DEF ProcOK
<1> QED
  BY <1>4, <1>7, <1>8, <1>9, <1>10, StepInv

(* A process outside execve() that holds no frame of do_no_page() exits. *)
LEMMA ExitPlain ==
  ASSUME IInv, NEW p \in Procs, Executing(p), do_exit(p, free_page_tables(p))
  PROVE  IInv'
<1>1. Alive(p) /\ args[p] = NoFrame /\ lframe[p] = NoFrame
  BY DEF Executing, IInv, ProcOK, CallsHeld
<1>2. free_page_tables(p) \in [Frames -> Nat]
  BY FreeTables DEF IInv
<1>3. ASSUME NEW f \in Frames
      PROVE  free_page_tables(p)[f] + TablesOf(p, f) + EntriesOf(p, f) + One(lframe[p], f)
               = mem_map[f]
  <2>1. One(lframe[p], f) = 0
    BY <1>1, MemoryAssumption DEF One
  <2>2. free_page_tables(p)[f] + TablesOf(p, f) + EntriesOf(p, f) = mem_map[f]
    BY FreeTables DEF IInv
  <2>3. free_page_tables(p)[f] \in Nat /\ TablesOf(p, f) \in Nat /\ EntriesOf(p, f) \in Nat
    BY <1>2, OwnCounts
  <2> QED
    BY <2>1, <2>2, <2>3
<1> QED
  BY <1>1, <1>2, <1>3, ExitInv

----------------------------------------------------------------------------
(* A step that changes no frame of anybody, nor allows a write. *)
LEMMA QuietInv ==
  ASSUME IInv, TypeOK', \A q \in Procs : Untouched(q), mem_map' = mem_map
  PROVE  IInv'
<1>1. PICK p \in Procs : TRUE
  BY MemoryAssumption DEF Procs
<1>2. \A f \in Frames : mem_map'[f] + Own(p, f) = mem_map[f] + Own(p, f)'
  <2> SUFFICES ASSUME NEW f \in Frames PROVE Own(p, f)' = Own(p, f)
    OBVIOUS
  <2>1. TablesOf(p, f)' = TablesOf(p, f) /\ EntriesOf(p, f)' = EntriesOf(p, f)
    BY NoChange DEF Untouched, SameFrames
  <2> QED
    BY <2>1, <1>1 DEF Own, Untouched, SameFrames
<1>3. \A q \in Procs, f \in Frames : Holds(q, f)' => mem_map'[f] <= 1
  BY UntouchedOK DEF IInv, SingleUse
<1>4. ProcOK(p)'
  BY <1>1, UntouchedOK DEF IInv
<1> QED
  BY <1>1, <1>2, <1>3, <1>4, StepInv

(* The entry with its dirty bit, or its write bit, changed. *)
LEMMA BitTypes ==
  ASSUME NEW e \in Entries
  PROVE  /\ [e EXCEPT !.d = TRUE] \in Entries
         /\ [e EXCEPT !.d = TRUE].frame = e.frame /\ [e EXCEPT !.d = TRUE].w = e.w
         /\ [e EXCEPT !.w = TRUE] \in Entries /\ [e EXCEPT !.w = TRUE].frame = e.frame
         /\ [e EXCEPT !.w = FALSE] \in Entries /\ [e EXCEPT !.w = FALSE].frame = e.frame
         /\ ~[e EXCEPT !.w = FALSE].w
BY DEF Entries

(* A write to a page of p: only contents and the dirty bit change. *)
LEMMA WriteInv ==
  ASSUME IInv, NEW p \in Procs, NEW v \in Pages, NEW x \in Written, Present(p, v),
         content' = [content EXCEPT ![pte[p][v].frame] = x],
         pte' = [pte EXCEPT ![p][v].d = TRUE],
         copyto' \in [Procs -> Pages \cup {NoPage}],
         UNCHANGED <<mem_map, dir, procVars, loading, lframe, args>>
  PROVE  IInv'
<1> DEFINE e == [pte[p][v] EXCEPT !.d = TRUE]
<1>1. TypeOK /\ pte[p][v] \in Entries /\ pte[p][v].frame \in Frames \cup {LowFrame}
  BY DEF IInv, TypeOK, Entries, Present
<1>2. e \in Entries /\ e.frame = pte[p][v].frame /\ e.w = pte[p][v].w
  BY <1>1, BitTypes
<1>3. pte' = [pte EXCEPT ![p][v] = e]
  OBVIOUS
<1> HIDE DEF e
<1>4. /\ pte' \in [Procs -> [Pages -> Entries]]
      /\ \A q \in Procs, u \in Pages : pte'[q][u].frame = pte[q][u].frame
      /\ pte'[p][v] = e
      /\ \A q \in Procs, u \in Pages : q # p \/ u # v => pte'[q][u] = pte[q][u]
  BY ONLY <1>1, <1>2, <1>3, p \in Procs, v \in Pages DEF TypeOK
<1>5. content' \in [Frames \cup {LowFrame} -> Values]
  BY <1>1 DEF TypeOK, Values
<1>6. TypeOK'
  BY <1>1, <1>4, <1>5 DEF TypeOK, procVars
<1>7. \A q \in Procs, u \in Pages : pte'[q][u].w => pte[q][u].w
  BY <1>2, <1>4
<1>8. \A q \in Procs : Untouched(q)
  BY <1>4, <1>7 DEF Untouched, SameFrames, procVars
<1> QED
  BY <1>6, <1>8, QuietInv

LEMMA UserWriteInv ==
  ASSUME IInv, NEW p \in Procs, NEW v \in Pages, NEW x \in Written, UserWrite(p, v, x)
  PROVE  IInv'
<1>1. copyto' \in [Procs -> Pages \cup {NoPage}]
  BY DEF UserWrite, callVars, IInv, TypeOK
<1> QED
  BY <1>1, WriteInv DEF UserWrite, callVars

LEMMA CopyToUserInv ==
  ASSUME IInv, NEW p \in Procs, NEW v \in Pages, NEW x \in Written, CopyToUser(p, v, x)
  PROVE  IInv'
<1>1. copyto' \in [Procs -> Pages \cup {NoPage}]
  BY DEF CopyToUser, IInv, TypeOK
<1> QED
  BY <1>1, WriteInv DEF CopyToUser

(* A step that changes only which page a system call will write to. *)
LEMMA CopytoInv ==
  ASSUME IInv, copyto' \in [Procs -> Pages \cup {NoPage}],
         UNCHANGED <<mem_map, content, dir, pte, procVars, loading, lframe, args>>
  PROVE  IInv'
<1>1. TypeOK'
  BY DEF IInv, TypeOK, procVars
<1>2. \A q \in Procs : Untouched(q)
  BY DEF Untouched, SameFrames, procVars
<1> QED
  BY <1>1, <1>2, QuietInv

(* copy_page_tables() without memory only write-protects. *)
LEMMA ForkFailsInv ==
  ASSUME IInv, NEW p \in Procs, NEW c \in Procs, ForkFails(p, c)
  PROVE  IInv'
<1>1. PICK ks : pte' = [pte EXCEPT ![p] = Protected(p, ks)]
  BY DEF ForkFails
<1>2. TypeOK /\ UNCHANGED <<mem_map, content, dir, procVars, callVars>>
  BY DEF IInv, ForkFails
<1>3. ASSUME NEW v \in Pages
      PROVE  /\ Protected(p, ks)[v] \in Entries
             /\ Protected(p, ks)[v].frame = pte[p][v].frame
             /\ Protected(p, ks)[v].w => pte[p][v].w
  <2>1. pte[p][v] \in Entries
    BY <1>2 DEF TypeOK
  <2>2. Protected(p, ks)[v] \in {pte[p][v], [pte[p][v] EXCEPT !.w = FALSE]}
    BY DEF Protected
  <2> QED
    BY <2>1, <2>2, BitTypes
<1>4. Protected(p, ks) \in [Pages -> Entries]
  BY <1>3 DEF Protected
<1>5. /\ pte' \in [Procs -> [Pages -> Entries]]
      /\ pte'[p] = Protected(p, ks)
      /\ \A q \in Procs \ {p} : pte'[q] = pte[q]
  BY <1>1, <1>2, <1>4 DEF TypeOK
<1>6. TypeOK'
  BY <1>2, <1>5 DEF TypeOK, procVars, callVars
<1>7. \A q \in Procs : Untouched(q)
  <2>1. \A q \in Procs, v \in Pages :
          pte'[q][v].frame = pte[q][v].frame /\ (pte'[q][v].w => pte[q][v].w)
    BY <1>3, <1>5
  <2> QED
    BY <1>2, <2>1 DEF Untouched, SameFrames, procVars, callVars
<1> QED
  BY <1>2, <1>6, <1>7, QuietInv

(* release() gives back the task_struct of a zombie. *)
LEMMA ReleaseInv ==
  ASSUME IInv, NEW p \in Procs, Release(p)
  PROVE  IInv'
<1>1. /\ mem_map' = [mem_map EXCEPT ![task[p]] = @ - 1]
      /\ task' = [task EXCEPT ![p] = NoFrame]
      /\ zombie' = zombie \ {p} /\ p \in zombie
      /\ content' = content /\ dir' = dir /\ pte' = pte /\ exe' = exe
      /\ loading' = loading /\ lframe' = lframe /\ copyto' = copyto /\ args' = args
  BY DEF Release, callVars
<1>2. TypeOK
  BY DEF IInv
<1>3. Bare(p) /\ task[p] # NoFrame
  BY <1>1 DEF IInv, ProcOK, SpaceHeld, Alive
<1>4. PICK s \in Frames : s = task[p]
  BY <1>2, <1>3 DEF TypeOK
<1>5. mem_map \in [Frames -> Nat] /\ mem_map[s] = 1
  <2>1. Holds(p, s) /\ Refers(p, s)
    BY <1>4 DEF Holds, Refers
  <2>2. mem_map[s] <= 1
    BY <2>1 DEF IInv, SingleUse
  <2> QED
    BY <2>1, <2>2, <1>2, Owners DEF IInv, TypeOK
<1>6. /\ mem_map' \in [Frames -> Nat]
      /\ \A f \in Frames : mem_map'[f] = IF f = s THEN 0 ELSE mem_map[f]
  BY <1>1, <1>4, <1>5
<1>7. TypeOK'
  BY <1>1, <1>2, <1>6 DEF TypeOK
<1>8. /\ task'[p] = NoFrame /\ p \notin zombie'
      /\ \A q \in Procs \ {p} : Untouched(q)
  BY <1>1, <1>2 DEF TypeOK, Untouched, SameFrames
<1>9. NoFrame \notin Frames
  BY MemoryAssumption
<1>10. \A f \in Frames : mem_map'[f] + Own(p, f) = mem_map[f] + Own(p, f)'
  <2> SUFFICES ASSUME NEW f \in Frames
               PROVE  mem_map'[f] + Own(p, f) = mem_map[f] + Own(p, f)'
    OBVIOUS
  <2>1. /\ TablesOf(p, f) \in Nat /\ EntriesOf(p, f) \in Nat
        /\ TablesOf(p, f)' = TablesOf(p, f) /\ EntriesOf(p, f)' = EntriesOf(p, f)
    BY <1>1, NoChange
  <2>2. /\ One(task[p], f) = (IF f = s THEN 1 ELSE 0) /\ One(task'[p], f) = 0
        /\ One(lframe'[p], f) = One(lframe[p], f) /\ One(args'[p], f) = One(args[p], f)
        /\ One(lframe[p], f) \in Nat /\ One(args[p], f) \in Nat
    BY <1>1, <1>4, <1>8, <1>9 DEF One
  <2>3. mem_map[f] \in Nat /\ (f = s => mem_map[f] = 1)
    BY <1>5
  <2> QED
    BY <1>6, <2>1, <2>2, <2>3, OwnSum
<1>11. \A q \in Procs, f \in Frames : Holds(q, f)' => mem_map'[f] <= 1
  <2>1. \A f \in Frames : mem_map'[f] <= mem_map[f]
    BY <1>5, <1>6
  <2>2. \A f \in Frames : Holds(p, f)' => Holds(p, f)
    BY <1>1, <1>8, <1>9 DEF Holds
  <2> QED
    BY <2>1, <2>2, <1>7, <1>8, HeldOnce
<1>12. ProcOK(p)'
  <2>1. Bare(p)'
    BY <1>1, <1>3 DEF Bare
  <2>2. EntriesBacked(p)'
    BY <1>1 DEF EntriesBacked, Present, IInv, ProcOK
  <2>3. SpaceHeld(p)'
    BY <1>8, <2>1 DEF SpaceHeld, Alive
  <2>4. CallsHeld(p)'
    BY <2>1 DEF CallsHeld, Bare
  <2> QED
    BY <2>2, <2>3, <2>4 DEF ProcOK
<1> QED
  BY <1>7, <1>8, <1>10, <1>11, <1>12, StepInv

----------------------------------------------------------------------------
(* The entry of p for page v becomes e, in a page table that may be new;   *)
(* p has finished what it did in do_no_page().                             *)
EntryStep(p, v, e) ==
  /\ pte'[p][v] = e
  /\ \A u \in Pages \ {v} : pte'[p][u] = pte[p][u]
  /\ \A j \in Tables \ {Table[v]} : dir'[p][j] = dir[p][j]
  /\ dir'[p][Table[v]] # NoFrame
  /\ task'[p] = task[p] /\ (p \in zombie' <=> p \in zombie) /\ exe'[p] = exe[p]
  /\ args'[p] = args[p] /\ loading'[p] = NoPage /\ lframe'[p] = NoFrame
  /\ \A q \in Procs \ {p} : Untouched(q)

LEMMA EntryStepInv ==
  ASSUME IInv, TypeOK', NEW p \in Procs, NEW v \in Pages, NEW e \in Entries,
         Alive(p), EntryStep(p, v, e), e.frame # NoFrame, e.w => e.frame \in Frames,
         \A f \in Frames :
           mem_map'[f] + One(pte[p][v].frame, f) + One(dir[p][Table[v]], f) + One(lframe[p], f)
             = mem_map[f] + One(e.frame, f) + One(dir'[p][Table[v]], f),
         \A q \in Procs, f \in Frames : Holds(q, f)' => mem_map'[f] <= 1
  PROVE  IInv'
<1>1. Table[v] \in Tables
  BY DEF Tables
<1>2. \A f \in Frames : mem_map'[f] + Own(p, f) = mem_map[f] + Own(p, f)'
  <2> SUFFICES ASSUME NEW f \in Frames
               PROVE  mem_map'[f] + Own(p, f) = mem_map[f] + Own(p, f)'
    OBVIOUS
  <2>1. /\ EntriesOf(p, f)' + One(pte[p][v].frame, f) = EntriesOf(p, f) + One(e.frame, f)
        /\ EntriesOf(p, f) \in Nat /\ EntriesOf(p, f)' \in Nat
    BY EntryChange DEF EntryStep
  <2>2. /\ TablesOf(p, f)' + One(dir[p][Table[v]], f) = TablesOf(p, f) + One(dir'[p][Table[v]], f)
        /\ TablesOf(p, f) \in Nat /\ TablesOf(p, f)' \in Nat
    BY <1>1, TableChange DEF EntryStep
  <2>3. /\ One(task'[p], f) = One(task[p], f) /\ One(args'[p], f) = One(args[p], f)
        /\ One(lframe'[p], f) = 0
    BY MemoryAssumption DEF EntryStep, One
  <2>4. mem_map[f] \in Nat /\ mem_map'[f] \in Nat
    BY DEF IInv, TypeOK
  <2>5. \A x : One(x, f) \in Nat
    BY DEF One
  <2>6. mem_map'[f] + One(pte[p][v].frame, f) + One(dir[p][Table[v]], f) + One(lframe[p], f)
             = mem_map[f] + One(e.frame, f) + One(dir'[p][Table[v]], f)
    OBVIOUS
  <2>7. PICK a \in Nat, b \in Nat, c \in Nat, d \in Nat, x \in Nat, y \in Nat, z \in Nat :
          /\ a = One(task[p], f) /\ b = One(args[p], f) /\ c = One(lframe[p], f)
          /\ d = One(pte[p][v].frame, f) /\ x = One(dir[p][Table[v]], f)
          /\ y = One(e.frame, f) /\ z = One(dir'[p][Table[v]], f)
    BY <2>5
  <2>8. /\ EntriesOf(p, f)' + d = EntriesOf(p, f) + y
        /\ TablesOf(p, f)' + x = TablesOf(p, f) + z
        /\ mem_map'[f] + d + x + c = mem_map[f] + y + z
        /\ Own(p, f) = a + TablesOf(p, f) + EntriesOf(p, f) + c + b
        /\ Own(p, f)' = a + TablesOf(p, f)' + EntriesOf(p, f)' + 0 + b
    BY <2>1, <2>2, <2>3, <2>6, <2>7, OwnSum
  <2> QED
    BY ONLY <2>1, <2>2, <2>4, <2>8, a \in Nat, b \in Nat, c \in Nat, d \in Nat,
            x \in Nat, y \in Nat, z \in Nat
<1>3. ProcOK(p)'
  <2>1. EntriesBacked(p)'
    BY DEF EntryStep, EntriesBacked, Present, IInv, ProcOK, Tables
  <2>2. SpaceHeld(p)'
    BY <1>1 DEF EntryStep, SpaceHeld, Alive
  <2>3. CallsHeld(p)'
    BY DEF EntryStep, CallsHeld, IInv, ProcOK
  <2> QED
    BY <2>1, <2>2, <2>3 DEF ProcOK
<1>4. \A q \in Procs \ {p} : Untouched(q)
  BY DEF EntryStep
<1> QED
  BY <1>2, <1>3, <1>4, StepInv

(* What p holds after such a step. *)
LEMMA EntryStepHolds ==
  ASSUME NEW p \in Procs, NEW v \in Pages, NEW e, EntryStep(p, v, e), NEW f \in Frames,
         Holds(p, f)'
  PROVE  Holds(p, f) \/ (e.w /\ e.frame = f) \/ dir'[p][Table[v]] = f
<1>1. NoFrame \notin Frames
  BY MemoryAssumption
<1> QED
  BY <1>1 DEF EntryStep, Holds

(* When a count goes up, it is from 0 to 1. *)
LEMMA EntryStepHeld ==
  ASSUME IInv, TypeOK', NEW p \in Procs, NEW v \in Pages, NEW e, EntryStep(p, v, e),
         \A f \in Frames : mem_map'[f] <= 1 \/ mem_map'[f] <= mem_map[f],
         e.w => mem_map'[e.frame] <= 1,
         dir'[p][Table[v]] = dir[p][Table[v]] \/ mem_map'[dir'[p][Table[v]]] <= 1
  PROVE  \A q \in Procs, f \in Frames : Holds(q, f)' => mem_map'[f] <= 1
<1>1. ASSUME NEW f \in Frames, Holds(p, f)' PROVE Holds(p, f) \/ mem_map'[f] <= 1
  <2>1. Table[v] \in Tables
    BY DEF Tables
  <2>2. dir[p][Table[v]] = f => Holds(p, f)
    BY <2>1 DEF Holds
  <2> QED
    BY <1>1, <2>2, EntryStepHolds
<1>2. \A q \in Procs \ {p} : Untouched(q)
  BY DEF EntryStep
<1> QED
  BY <1>1, <1>2, HeldOnce

(* un_wp_page() of the last reference. *)
LEMMA UnprotectLastInv ==
  ASSUME IInv, NEW p \in Procs, NEW v \in Pages, Executing(p), Present(p, v),
         UnprotectLast(p, v), copyto' \in [Procs -> Pages \cup {NoPage}],
         UNCHANGED <<dir, procVars, loading, lframe, args>>
  PROVE  IInv'
<1> DEFINE e == [pte[p][v] EXCEPT !.w = TRUE]
<1>1. TypeOK /\ pte[p][v] \in Entries
  BY DEF IInv, TypeOK
<1>2. e \in Entries /\ e.frame = pte[p][v].frame
  BY <1>1, BitTypes
<1>3. pte' = [pte EXCEPT ![p][v] = e] /\ mem_map' = mem_map /\ content' = content
  BY DEF UnprotectLast
<1>4. e.frame \in Frames /\ mem_map[e.frame] = 1
  BY <1>2 DEF UnprotectLast, Exclusive
<1> HIDE DEF e
<1>5. /\ pte' \in [Procs -> [Pages -> Entries]]
      /\ pte'[p][v] = e
      /\ \A q \in Procs, u \in Pages : q # p \/ u # v => pte'[q][u] = pte[q][u]
  BY ONLY <1>1, <1>2, <1>3, p \in Procs, v \in Pages DEF TypeOK
<1>6. TypeOK'
  BY <1>1, <1>3, <1>5 DEF TypeOK, procVars
<1>7. /\ loading[p] = NoPage /\ lframe[p] = NoFrame /\ Alive(p) /\ NoFrame \notin Frames
      /\ dir[p][Table[v]] # NoFrame
  BY MemoryAssumption DEF Executing, IInv, ProcOK, CallsHeld, EntriesBacked
<1>8. EntryStep(p, v, e)
  BY <1>5, <1>7 DEF EntryStep, Untouched, SameFrames, procVars
<1>9. \A q \in Procs, f \in Frames : Holds(q, f)' => mem_map'[f] <= 1
  <2>1. \A f \in Frames : mem_map'[f] <= mem_map[f] /\ mem_map'[f] \in Nat
    BY <1>1, <1>3 DEF TypeOK
  <2> QED
    BY <1>3, <1>4, <1>6, <1>8, <2>1, EntryStepHeld
<1>10. ASSUME NEW f \in Frames
       PROVE  mem_map'[f] + One(pte[p][v].frame, f) + One(dir[p][Table[v]], f) + One(lframe[p], f)
                = mem_map[f] + One(e.frame, f) + One(dir'[p][Table[v]], f)
  <2>1. One(lframe[p], f) = 0 /\ mem_map[f] \in Nat /\ \A x : One(x, f) \in Nat
    BY <1>1, <1>7 DEF One, TypeOK
  <2> QED
    BY <1>2, <1>3, <2>1
<1>11. e.frame # NoFrame
  BY <1>4, <1>7
<1> QED
  BY <1>2, <1>4, <1>6, <1>7, <1>8, <1>9, <1>10, <1>11, EntryStepInv

(* un_wp_page() of a shared page: the entry gets a copy. *)
LEMMA UnprotectCopyInv ==
  ASSUME IInv, NEW p \in Procs, NEW v \in Pages, Executing(p), Present(p, v),
         UnprotectCopy(p, v), copyto' \in [Procs -> Pages \cup {NoPage}],
         UNCHANGED <<dir, procVars, loading, lframe, args>>
  PROVE  IInv'
<1> DEFINE old == pte[p][v].frame
           new == FreeFrame(mem_map)
           e == [frame |-> new, w |-> TRUE, d |-> FALSE]
<1>1. /\ ~Exclusive(old)
      /\ FreeFrames(mem_map) # {}
      /\ mem_map' = Take(Unshare(old), new)
      /\ content' = [content EXCEPT ![new] = content[old]]
      /\ pte' = [pte EXCEPT ![p][v] = e]
  BY DEF UnprotectCopy
<1>2. /\ TypeOK /\ pte[p][v] \in Entries /\ old \in Frames \cup {LowFrame}
      /\ mem_map \in [Frames -> Nat]
  BY DEF IInv, TypeOK, Entries, Present
<1>3. new \in Frames /\ mem_map[new] = 0
  BY <1>1, <1>2, FreeFrameFree
<1>4. e \in Entries /\ e.frame = new /\ e.w
  BY <1>3 DEF Entries
<1> HIDE DEF old, new, e
<1>5. old \in Frames => mem_map[old] >= 1 /\ old # new
  <2> SUFFICES ASSUME old \in Frames PROVE mem_map[old] >= 1
    BY <1>3
  <2>1. Refers(p, old)
    BY DEF Refers, old
  <2>2. mem_map[old] \in Nat /\ mem_map[old] # 0
    BY <1>2, <2>1, Owners DEF IInv
  <2> QED
    BY <2>2
<1>6. /\ mem_map' \in [Frames -> Nat]
      /\ \A f \in Frames : mem_map'[f] = IF f = new THEN 1
                                         ELSE IF f = old THEN mem_map[f] - 1 ELSE mem_map[f]
  BY <1>1, <1>2, <1>3, <1>5 DEF Take, Unshare
<1>7. /\ pte' \in [Procs -> [Pages -> Entries]]
      /\ pte'[p][v] = e
      /\ \A q \in Procs, u \in Pages : q # p \/ u # v => pte'[q][u] = pte[q][u]
  BY ONLY <1>1, <1>2, <1>4, p \in Procs, v \in Pages DEF TypeOK
<1>8. content' \in [Frames \cup {LowFrame} -> Values]
  BY <1>1, <1>2, <1>3 DEF TypeOK
<1>9. TypeOK'
  BY <1>2, <1>6, <1>7, <1>8 DEF TypeOK, procVars
<1>10. /\ loading[p] = NoPage /\ lframe[p] = NoFrame /\ Alive(p) /\ NoFrame \notin Frames
       /\ dir[p][Table[v]] # NoFrame
  BY MemoryAssumption DEF Executing, IInv, ProcOK, CallsHeld, EntriesBacked
<1>11. EntryStep(p, v, e)
  BY <1>7, <1>10 DEF EntryStep, Untouched, SameFrames, procVars
<1>12. \A q \in Procs, f \in Frames : Holds(q, f)' => mem_map'[f] <= 1
  <2>1. \A f \in Frames : mem_map'[f] <= 1 \/ mem_map'[f] <= mem_map[f]
    BY <1>2, <1>6
  <2>2. mem_map'[e.frame] <= 1
    BY <1>3, <1>4, <1>6
  <2>3. dir'[p][Table[v]] = dir[p][Table[v]]
    OBVIOUS
  <2> QED
    BY <1>9, <1>11, <2>1, <2>2, <2>3, EntryStepHeld
<1>13. ASSUME NEW f \in Frames
       PROVE  mem_map'[f] + One(pte[p][v].frame, f) + One(dir[p][Table[v]], f) + One(lframe[p], f)
                = mem_map[f] + One(e.frame, f) + One(dir'[p][Table[v]], f)
  <2>1. /\ One(lframe[p], f) = 0 /\ mem_map[f] \in Nat /\ \A x : One(x, f) \in Nat
        /\ One(dir'[p][Table[v]], f) = One(dir[p][Table[v]], f)
    BY <1>2, <1>10 DEF One
  <2>2. mem_map'[f] + One(old, f) = mem_map[f] + One(new, f)
    BY <1>2, <1>3, <1>5, <1>6 DEF One
  <2>3. mem_map'[f] \in Nat
    BY <1>6
  <2>4. One(pte[p][v].frame, f) = One(old, f)
    BY DEF old
  <2> QED
    BY <1>4, <2>1, <2>2, <2>3, <2>4
<1>14. e.frame # NoFrame /\ e.frame \in Frames
  BY <1>3, <1>4, <1>10
<1> QED
  BY <1>4, <1>9, <1>10, <1>11, <1>12, <1>13, <1>14, EntryStepInv

LEMMA WpPageInv ==
  ASSUME IInv, NEW p \in Procs, NEW v \in Pages, do_wp_page(p, v)
  PROVE  IInv'
<1>1. InUser(p) /\ Present(p, v) /\ Executing(p)
  BY DEF do_wp_page, InUser
<1>2. CASE UnprotectOom(p, v)
  BY <1>1, <1>2, ExitPlain DEF UnprotectOom
<1>3. CASE UnprotectLast(p, v) /\ UNCHANGED <<dir, procVars, callVars>>
  <2>1. copyto' \in [Procs -> Pages \cup {NoPage}]
    BY <1>3 DEF callVars, IInv, TypeOK
  <2> QED
    BY <1>1, <1>3, <2>1, UnprotectLastInv DEF callVars
<1>4. CASE UnprotectCopy(p, v) /\ UNCHANGED <<dir, procVars, callVars>>
  <2>1. copyto' \in [Procs -> Pages \cup {NoPage}]
    BY <1>4 DEF callVars, IInv, TypeOK
  <2> QED
    BY <1>1, <1>4, <2>1, UnprotectCopyInv DEF callVars
<1> QED
  BY <1>2, <1>3, <1>4 DEF do_wp_page

LEMMA VerifyAreaInv ==
  ASSUME IInv, NEW p \in Procs, NEW v \in Pages, VerifyArea(p, v)
  PROVE  IInv'
<1>1. InUser(p) /\ Executing(p)
  BY DEF VerifyArea, InUser
<1>2. ASSUME copyto' = [copyto EXCEPT ![p] = v]
      PROVE  copyto' \in [Procs -> Pages \cup {NoPage}]
  BY <1>2 DEF IInv, TypeOK
<1>3. CASE /\ Present(p, v) /\ ~pte[p][v].w
           /\ UnprotectLast(p, v)
           /\ copyto' = [copyto EXCEPT ![p] = v]
           /\ UNCHANGED <<dir, procVars, loading, lframe, args>>
  BY <1>1, <1>2, <1>3, UnprotectLastInv
<1>4. CASE /\ Present(p, v) /\ ~pte[p][v].w
           /\ UnprotectCopy(p, v)
           /\ copyto' = [copyto EXCEPT ![p] = v]
           /\ UNCHANGED <<dir, procVars, loading, lframe, args>>
  BY <1>1, <1>2, <1>4, UnprotectCopyInv
<1>5. CASE UnprotectOom(p, v)
  BY <1>1, <1>5, ExitPlain DEF UnprotectOom
<1>6. CASE /\ copyto' = [copyto EXCEPT ![p] = v]
           /\ UNCHANGED <<mem_map, content, dir, pte, procVars, loading, lframe, args>>
  BY <1>2, <1>6, CopytoInv
<1> QED
  BY <1>3, <1>4, <1>5, <1>6 DEF VerifyArea

LEMMA ReturnUnwrittenInv ==
  ASSUME IInv, NEW p \in Procs, ReturnUnwritten(p)
  PROVE  IInv'
<1>1. copyto' \in [Procs -> Pages \cup {NoPage}]
  BY DEF ReturnUnwritten, IInv, TypeOK
<1> QED
  BY <1>1, CopytoInv DEF ReturnUnwritten

----------------------------------------------------------------------------
(* put_page(): the page table, if there was none, comes from a free frame. *)
LEMMA TableForPage ==
  ASSUME TypeOK, NEW p \in Procs, NEW v \in Pages, NEW e \in Entries,
         NEW m \in [Frames -> Nat], CanMap(m, p, v), MapEntry(m, p, v, e)
  PROVE  /\ mem_map' \in [Frames -> Nat]
         /\ dir' \in [Procs -> [Tables -> Frames \cup {NoFrame}]]
         /\ pte' \in [Procs -> [Pages -> Entries]]
         /\ pte'[p][v] = e
         /\ \A q \in Procs, u \in Pages : q # p \/ u # v => pte'[q][u] = pte[q][u]
         /\ \A q \in Procs, j \in Tables : q # p \/ j # Table[v] => dir'[q][j] = dir[q][j]
         /\ dir'[p][Table[v]] # NoFrame
         /\ \A f \in Frames :
              /\ mem_map'[f] + One(dir[p][Table[v]], f) = m[f] + One(dir'[p][Table[v]], f)
              /\ mem_map'[f] = m[f] \/ (mem_map'[f] = 1 /\ m[f] = 0)
         /\ \/ dir'[p][Table[v]] = dir[p][Table[v]]
            \/ m[dir'[p][Table[v]]] = 0 /\ mem_map'[dir'[p][Table[v]]] = 1
<1> DEFINE k == Table[v]
           t == FreeFrame(m)
<1>1. /\ k \in Tables
      /\ dir \in [Procs -> [Tables -> Frames \cup {NoFrame}]]
      /\ pte \in [Procs -> [Pages -> Entries]]
  BY DEF TypeOK, Tables
<1>2. /\ pte' \in [Procs -> [Pages -> Entries]]
      /\ pte'[p][v] = e
      /\ \A q \in Procs, u \in Pages : q # p \/ u # v => pte'[q][u] = pte[q][u]
  <2>1. pte' = [pte EXCEPT ![p][v] = e]
    BY DEF MapEntry
  <2> QED
    BY ONLY <1>1, <2>1, p \in Procs, v \in Pages, e \in Entries
<1>3. CASE dir[p][k] # NoFrame
  <2>1. mem_map' = m /\ dir' = dir
    BY <1>3 DEF MapEntry
  <2>2. \A f \in Frames : m[f] \in Nat /\ One(dir[p][k], f) \in Nat
    BY DEF One
  <2> QED
    BY <1>1, <1>2, <1>3, <2>1, <2>2
<1>4. CASE dir[p][k] = NoFrame
  <2>1. /\ mem_map' = [m EXCEPT ![t] = 1] /\ dir' = [dir EXCEPT ![p][k] = t]
        /\ FreeFrames(m) # {}
    BY <1>4 DEF MapEntry, CanMap, Take
  <2>2. t \in Frames /\ m[t] = 0
    BY <2>1, FreeFrameFree
  <2>3. NoFrame \notin Frames
    BY MemoryAssumption
  <2> HIDE DEF t, k
  <2>4. /\ dir' \in [Procs -> [Tables -> Frames \cup {NoFrame}]]
        /\ dir'[p][k] = t
        /\ \A q \in Procs, j \in Tables : q # p \/ j # k => dir'[q][j] = dir[q][j]
    BY ONLY <1>1, <2>1, <2>2, p \in Procs
  <2>5. /\ mem_map' \in [Frames -> Nat]
        /\ \A f \in Frames : mem_map'[f] = IF f = t THEN 1 ELSE m[f]
    BY ONLY <2>1, <2>2, m \in [Frames -> Nat]
  <2>6. ASSUME NEW f \in Frames
        PROVE  /\ mem_map'[f] + One(dir[p][k], f) = m[f] + One(dir'[p][k], f)
               /\ mem_map'[f] = m[f] \/ (mem_map'[f] = 1 /\ m[f] = 0)
    <3>1. One(dir[p][k], f) = 0 /\ One(dir'[p][k], f) = IF f = t THEN 1 ELSE 0
      BY <1>4, <2>3, <2>4 DEF One
    <3>2. m[f] \in Nat
      OBVIOUS
    <3> QED
      BY <2>2, <2>5, <3>1, <3>2
  <2> QED
    BY <1>2, <2>2, <2>3, <2>4, <2>5, <2>6 DEF k
<1> QED
  BY <1>3, <1>4

(* get_empty_page(): a zeroed frame is mapped, or oom(). *)
LEMMA EmptyPageInv ==
  ASSUME IInv, NEW p \in Procs, NEW v \in Pages, EmptyPage(p, v)
  PROVE  IInv'
<1> DEFINE f0 == FreeFrame(mem_map)
           m == Take(mem_map, f0)
           e == Writable(f0)
<1>1. Executing(p) /\ ~Present(p, v)
  BY DEF EmptyPage, Touches
<1>2. CASE do_exit(p, free_page_tables(p))
  BY <1>1, <1>2, ExitPlain
<1>3. CASE /\ FreeFrames(mem_map) # {} /\ CanMap(m, p, v)
           /\ MapEntry(m, p, v, e)
           /\ content' = [content EXCEPT ![f0] = Zero]
           /\ UNCHANGED <<procVars, callVars>>
  <2>1. TypeOK /\ mem_map \in [Frames -> Nat]
    BY DEF IInv, TypeOK
  <2>2. f0 \in Frames /\ mem_map[f0] = 0
    BY <1>3, <2>1, FreeFrameFree
  <2>3. e \in Entries /\ e.frame = f0 /\ e.w
    BY <2>2 DEF Writable, Entries
  <2>4. m \in [Frames -> Nat] /\ \A f \in Frames : m[f] = IF f = f0 THEN 1 ELSE mem_map[f]
    BY <2>1, <2>2 DEF Take
  <2>5. /\ loading[p] = NoPage /\ lframe[p] = NoFrame /\ Alive(p) /\ NoFrame \notin Frames
        /\ pte[p][v].frame = NoFrame
    BY <1>1, MemoryAssumption DEF Executing, IInv, ProcOK, CallsHeld, Present
  <2> HIDE DEF f0, m, e
  <2>6. /\ mem_map' \in [Frames -> Nat]
        /\ dir' \in [Procs -> [Tables -> Frames \cup {NoFrame}]]
        /\ pte' \in [Procs -> [Pages -> Entries]]
        /\ pte'[p][v] = e
        /\ \A q \in Procs, u \in Pages : q # p \/ u # v => pte'[q][u] = pte[q][u]
        /\ \A q \in Procs, j \in Tables : q # p \/ j # Table[v] => dir'[q][j] = dir[q][j]
        /\ dir'[p][Table[v]] # NoFrame
        /\ \A f \in Frames :
             /\ mem_map'[f] + One(dir[p][Table[v]], f) = m[f] + One(dir'[p][Table[v]], f)
             /\ mem_map'[f] = m[f] \/ (mem_map'[f] = 1 /\ m[f] = 0)
        /\ \/ dir'[p][Table[v]] = dir[p][Table[v]]
           \/ m[dir'[p][Table[v]]] = 0 /\ mem_map'[dir'[p][Table[v]]] = 1
    BY <1>3, <2>1, <2>3, <2>4, TableForPage
  <2>7. content' \in [Frames \cup {LowFrame} -> Values]
    BY <1>3, <2>1, <2>2 DEF TypeOK, Values
  <2>8. TypeOK'
    BY <1>3, <2>1, <2>6, <2>7 DEF TypeOK, procVars, callVars
  <2>9. EntryStep(p, v, e)
    BY <1>3, <2>5, <2>6 DEF EntryStep, Untouched, SameFrames, procVars, callVars
  <2>10. \A q \in Procs, f \in Frames : Holds(q, f)' => mem_map'[f] <= 1
    <3>1. \A f \in Frames : mem_map'[f] <= 1 \/ mem_map'[f] <= mem_map[f]
      BY <2>1, <2>4, <2>6
    <3>2. mem_map'[e.frame] <= 1
      BY <2>2, <2>3, <2>4, <2>6
    <3>3. dir'[p][Table[v]] = dir[p][Table[v]] \/ mem_map'[dir'[p][Table[v]]] <= 1
      BY <2>6
    <3> QED
      BY <2>8, <2>9, <3>1, <3>2, <3>3, EntryStepHeld
  <2>11. ASSUME NEW f \in Frames
         PROVE  mem_map'[f] + One(pte[p][v].frame, f) + One(dir[p][Table[v]], f) + One(lframe[p], f)
                  = mem_map[f] + One(e.frame, f) + One(dir'[p][Table[v]], f)
    <3>1. /\ One(lframe[p], f) = 0 /\ One(pte[p][v].frame, f) = 0
          /\ \A x : One(x, f) \in Nat
          /\ One(e.frame, f) = IF f = f0 THEN 1 ELSE 0
      BY <2>3, <2>5 DEF One
    <3>2. mem_map[f] \in Nat /\ mem_map'[f] \in Nat /\ m[f] = mem_map[f] + One(e.frame, f)
      BY <2>1, <2>2, <2>4, <2>6, <3>1
    <3> QED
      BY <2>6, <3>1, <3>2
  <2>12. e.frame # NoFrame /\ e.frame \in Frames
    BY <2>2, <2>3, <2>5
  <2> QED
    BY <2>3, <2>5, <2>8, <2>9, <2>10, <2>11, <2>12, EntryStepInv
<1> QED
  BY <1>2, <1>3 DEF EmptyPage

(* do_no_page() after it has read the page. *)
LEMMA FinishLoadInv ==
  ASSUME IInv, NEW p \in Procs, FinishLoad(p)
  PROVE  IInv'
<1>1. PICK v \in Pages : v = loading[p]
  BY DEF FinishLoad, IInv, TypeOK
<1>2. PICK f0 \in Frames : f0 = lframe[p]
  BY <1>1, MemoryAssumption DEF IInv, TypeOK, ProcOK, CallsHeld
<1>3. /\ ~Present(p, v) /\ args[p] = NoFrame /\ exe[p] \in Executables /\ Alive(p)
      /\ NoFrame \notin Frames /\ v # NoPage
  BY <1>1, MemoryAssumption DEF IInv, TypeOK, ProcOK, CallsHeld, SpaceHeld, Bare
<1>4. TypeOK /\ mem_map \in [Frames -> Nat]
  BY DEF IInv, TypeOK
<1>5. mem_map[f0] = 1
  <2>1. Holds(p, f0) /\ Refers(p, f0)
    BY <1>2 DEF Holds, Refers
  <2>2. mem_map[f0] <= 1
    BY <2>1 DEF IInv, SingleUse
  <2> QED
    BY <1>4, <2>1, <2>2, Owners DEF IInv
<1>6. CASE do_exit(p, GiveBack(free_page_tables(p), f0))
  <2> DEFINE m == GiveBack(free_page_tables(p), f0)
  <2>1. /\ free_page_tables(p) \in [Frames -> Nat]
        /\ \A f \in Frames :
              /\ free_page_tables(p)[f] + TablesOf(p, f) + EntriesOf(p, f) = mem_map[f]
              /\ One(task[p], f) + One(lframe[p], f) + One(args[p], f)
                   <= free_page_tables(p)[f]
    BY FreeTables DEF IInv
  <2>2. free_page_tables(p)[f0] >= 1
    <3>1. One(lframe[p], f0) = 1 /\ One(task[p], f0) \in Nat /\ One(args[p], f0) \in Nat
      BY <1>2 DEF One
    <3>2. One(task[p], f0) + One(lframe[p], f0) + One(args[p], f0) <= free_page_tables(p)[f0]
      BY <2>1
    <3>3. free_page_tables(p)[f0] \in Nat
      BY <2>1
    <3> QED
      BY <3>1, <3>2, <3>3
  <2>3. /\ m \in [Frames -> Nat]
        /\ \A f \in Frames : m[f] = IF f = f0 THEN free_page_tables(p)[f] - 1
                                              ELSE free_page_tables(p)[f]
    BY <2>1, <2>2 DEF GiveBack
  <2> HIDE DEF m
  <2>4. ASSUME NEW f \in Frames
        PROVE  m[f] + TablesOf(p, f) + EntriesOf(p, f) + One(lframe[p], f) = mem_map[f]
    <3>1. One(lframe[p], f) = IF f = f0 THEN 1 ELSE 0
      BY <1>2 DEF One
    <3>2. /\ free_page_tables(p)[f] \in Nat /\ TablesOf(p, f) \in Nat
          /\ EntriesOf(p, f) \in Nat
      BY <2>1, OwnCounts
    <3> QED
      BY <2>1, <2>3, <3>1, <3>2
  <2> QED
    BY <1>3, <1>6, <2>3, <2>4, ExitInv DEF m
<1>7. CASE /\ CanMap(mem_map, p, v)
           /\ MapEntry(mem_map, p, v, Writable(f0))
           /\ content' = [content EXCEPT ![f0] = exe[p]]
           /\ loading' = [loading EXCEPT ![p] = NoPage]
           /\ lframe' = [lframe EXCEPT ![p] = NoFrame]
           /\ UNCHANGED <<procVars, copyto, args>>
  <2> DEFINE e == Writable(f0)
             m == mem_map
  <2>3. e \in Entries /\ e.frame = f0 /\ e.w
    BY DEF Writable, Entries
  <2>5. pte[p][v].frame = NoFrame
    BY <1>3 DEF Present
  <2> HIDE DEF e
  <2>6. /\ mem_map' \in [Frames -> Nat]
        /\ dir' \in [Procs -> [Tables -> Frames \cup {NoFrame}]]
        /\ pte' \in [Procs -> [Pages -> Entries]]
        /\ pte'[p][v] = e
        /\ \A q \in Procs, u \in Pages : q # p \/ u # v => pte'[q][u] = pte[q][u]
        /\ \A q \in Procs, j \in Tables : q # p \/ j # Table[v] => dir'[q][j] = dir[q][j]
        /\ dir'[p][Table[v]] # NoFrame
        /\ \A f \in Frames :
             /\ mem_map'[f] + One(dir[p][Table[v]], f) = m[f] + One(dir'[p][Table[v]], f)
             /\ mem_map'[f] = m[f] \/ (mem_map'[f] = 1 /\ m[f] = 0)
        /\ \/ dir'[p][Table[v]] = dir[p][Table[v]]
           \/ m[dir'[p][Table[v]]] = 0 /\ mem_map'[dir'[p][Table[v]]] = 1
    BY <1>4, <1>7, <2>3, TableForPage DEF e
  <2>7. content' \in [Frames \cup {LowFrame} -> Values]
    BY <1>3, <1>4, <1>7 DEF TypeOK, Values
  <2>8. TypeOK'
    BY <1>4, <1>7, <2>6, <2>7 DEF TypeOK, procVars
  <2>9. EntryStep(p, v, e)
    BY <1>4, <1>7, <2>5, <2>6 DEF EntryStep, Untouched, SameFrames, procVars, TypeOK
  <2>10. \A q \in Procs, f \in Frames : Holds(q, f)' => mem_map'[f] <= 1
    <3>1. \A f \in Frames : mem_map'[f] <= 1 \/ mem_map'[f] <= mem_map[f]
      BY <1>4, <2>6
    <3>2. mem_map'[e.frame] <= 1
      BY <1>5, <2>3, <2>6
    <3>3. dir'[p][Table[v]] = dir[p][Table[v]] \/ mem_map'[dir'[p][Table[v]]] <= 1
      BY <2>6
    <3> QED
      BY <2>8, <2>9, <3>1, <3>2, <3>3, EntryStepHeld
  <2>11. ASSUME NEW f \in Frames
         PROVE  mem_map'[f] + One(pte[p][v].frame, f) + One(dir[p][Table[v]], f) + One(lframe[p], f)
                  = mem_map[f] + One(e.frame, f) + One(dir'[p][Table[v]], f)
    <3>1. /\ One(lframe[p], f) = One(e.frame, f) /\ One(pte[p][v].frame, f) = 0
          /\ \A x : One(x, f) \in Nat
      BY <1>2, <1>3, <2>3, <2>5 DEF One
    <3>2. mem_map[f] \in Nat /\ mem_map'[f] \in Nat
      BY <1>4, <2>6
    <3> QED
      BY <2>6, <3>1, <3>2
  <2>12. e.frame # NoFrame /\ e.frame \in Frames
    BY <1>3, <2>3
  <2> QED
    BY <1>3, <2>3, <2>8, <2>9, <2>10, <2>11, <2>12, EntryStepInv
<1> QED
  BY <1>1, <1>2, <1>6, <1>7 DEF FinishLoad

----------------------------------------------------------------------------
(* p takes a free frame t to read a page into, or for its arguments. *)
LEMMA TakeInv ==
  ASSUME IInv, TypeOK', NEW p \in Procs, NEW t \in Frames, mem_map[t] = 0,
         mem_map' = [mem_map EXCEPT ![t] = 1],
         dir' = dir, pte' = pte, task' = task,
         lframe[p] = NoFrame, args[p] = NoFrame,
         \/ lframe'[p] = t /\ args'[p] = NoFrame
         \/ lframe'[p] = NoFrame /\ args'[p] = t,
         \A q \in Procs \ {p} : Untouched(q),
         ProcOK(p)'
  PROVE  IInv'
<1>1. /\ mem_map \in [Frames -> Nat] /\ NoFrame \notin Frames
      /\ \A f \in Frames : mem_map'[f] = IF f = t THEN 1 ELSE mem_map[f]
  BY MemoryAssumption DEF IInv, TypeOK
<1>2. \A f \in Frames : mem_map'[f] + Own(p, f) = mem_map[f] + Own(p, f)'
  <2> SUFFICES ASSUME NEW f \in Frames
               PROVE  mem_map'[f] + Own(p, f) = mem_map[f] + Own(p, f)'
    OBVIOUS
  <2>1. /\ TablesOf(p, f) \in Nat /\ EntriesOf(p, f) \in Nat
        /\ TablesOf(p, f)' = TablesOf(p, f) /\ EntriesOf(p, f)' = EntriesOf(p, f)
    BY NoChange
  <2>2. /\ One(task'[p], f) = One(task[p], f) /\ One(task[p], f) \in Nat
        /\ One(lframe[p], f) = 0 /\ One(args[p], f) = 0
        /\ One(lframe'[p], f) + One(args'[p], f) = IF f = t THEN 1 ELSE 0
        /\ One(lframe'[p], f) \in Nat /\ One(args'[p], f) \in Nat
    BY <1>1 DEF One
  <2>3. mem_map[f] \in Nat /\ (f = t => mem_map[f] = 0)
    BY <1>1
  <2> QED
    BY <1>1, <2>1, <2>2, <2>3, OwnSum
<1>3. \A q \in Procs, f \in Frames : Holds(q, f)' => mem_map'[f] <= 1
  <2>1. \A f \in Frames : mem_map'[f] <= 1 \/ mem_map'[f] <= mem_map[f]
    BY <1>1
  <2>2. \A f \in Frames : Holds(p, f)' => Holds(p, f) \/ mem_map'[f] <= 1
    BY <1>1 DEF Holds
  <2> QED
    BY <2>1, <2>2, HeldOnce
<1> QED
  BY <1>2, <1>3, StepInv

(* do_no_page() takes a frame and reads the page from the file. *)
LEMMA StartLoadInv ==
  ASSUME IInv, NEW p \in Procs, NEW v \in Pages, StartLoad(p, v)
  PROVE  IInv'
<1>1. Executing(p) /\ ~Present(p, v) /\ exe[p] # NoExecutable
  BY DEF StartLoad, Wanted, Touches
<1>2. CASE do_exit(p, free_page_tables(p))
  BY <1>1, <1>2, ExitPlain
<1>3. CASE /\ FreeFrames(mem_map) # {}
           /\ mem_map' = Take(mem_map, FreeFrame(mem_map))
           /\ loading' = [loading EXCEPT ![p] = v]
           /\ lframe' = [lframe EXCEPT ![p] = FreeFrame(mem_map)]
           /\ UNCHANGED <<content, dir, pte, procVars, copyto, args>>
  <2>1. TypeOK /\ mem_map \in [Frames -> Nat]
    BY DEF IInv, TypeOK
  <2>2. PICK t \in Frames : t = FreeFrame(mem_map) /\ mem_map[t] = 0
    BY <1>3, <2>1, FreeFrameFree
  <2>3. mem_map' = [mem_map EXCEPT ![t] = 1] /\ lframe' = [lframe EXCEPT ![p] = t]
    BY <1>3, <2>2 DEF Take
  <2>4. TypeOK'
    BY <1>3, <2>1, <2>2, <2>3 DEF TypeOK, procVars
  <2>5. /\ lframe[p] = NoFrame /\ args[p] = NoFrame /\ Alive(p)
        /\ lframe'[p] = t /\ args'[p] = NoFrame /\ loading'[p] = v
    BY <1>1, <1>3, <2>1, <2>3 DEF Executing, IInv, ProcOK, CallsHeld, TypeOK
  <2>6. \A q \in Procs \ {p} : Untouched(q)
    BY <1>3, <2>1, <2>3 DEF Untouched, SameFrames, procVars, TypeOK
  <2>7. ProcOK(p)'
    <3>1. ProcOK(p) /\ NoFrame \notin Frames /\ NoPage \notin Pages
      BY MemoryAssumption DEF IInv
    <3>2. EntriesBacked(p)'
      BY <1>3, <3>1 DEF ProcOK, EntriesBacked, Present
    <3>3. SpaceHeld(p)'
      BY <1>3, <2>5, <3>1 DEF ProcOK, SpaceHeld, Alive, procVars
    <3>4. CallsHeld(p)'
      BY <1>1, <1>3, <2>5, <3>1 DEF CallsHeld, Present, procVars
    <3> QED
      BY <3>2, <3>3, <3>4 DEF ProcOK
  <2> QED
    BY <1>3, <2>2, <2>3, <2>4, <2>5, <2>6, <2>7, TakeInv DEF procVars
<1> QED
  BY <1>2, <1>3 DEF StartLoad

(* do_execve() up to its point of no return. *)
LEMMA ExecInv ==
  ASSUME IInv, NEW p \in Procs, NEW e \in Executables, NEW x \in Written, Exec(p, e, x)
  PROVE  IInv'
<1> DEFINE t == FreeFrame(mem_map)
<1>1. /\ Executing(p) /\ FreeFrames(mem_map) # {}
      /\ mem_map' = Take(mem_map, t)
      /\ content' = [content EXCEPT ![t] = x]
      /\ exe' = [exe EXCEPT ![p] = e]
      /\ args' = [args EXCEPT ![p] = t]
      /\ UNCHANGED <<dir, pte, task, zombie, loading, lframe, copyto>>
  BY DEF Exec, InUser
<1>2. TypeOK /\ mem_map \in [Frames -> Nat]
  BY DEF IInv, TypeOK
<1>3. t \in Frames /\ mem_map[t] = 0
  BY <1>1, <1>2, FreeFrameFree
<1> HIDE DEF t
<1>4. mem_map' = [mem_map EXCEPT ![t] = 1]
  BY <1>1 DEF Take
<1>5. TypeOK'
  BY <1>1, <1>2, <1>3, <1>4 DEF TypeOK, Values
<1>6. /\ lframe[p] = NoFrame /\ args[p] = NoFrame /\ Alive(p) /\ loading[p] = NoPage
      /\ lframe'[p] = NoFrame /\ args'[p] = t /\ exe'[p] = e /\ e # NoExecutable
  BY <1>1, <1>2, MemoryAssumption DEF Executing, IInv, ProcOK, CallsHeld, TypeOK
<1>7. \A q \in Procs \ {p} : Untouched(q)
  BY <1>1, <1>2 DEF Untouched, SameFrames, TypeOK
<1>8. ProcOK(p)'
  <2>1. ProcOK(p)
    BY DEF IInv
  <2>2. EntriesBacked(p)'
    BY <1>1, <2>1 DEF ProcOK, EntriesBacked, Present
  <2>3. SpaceHeld(p)'
    BY <1>1, <1>6, <2>1 DEF ProcOK, SpaceHeld, Alive
  <2>4. CallsHeld(p)'
    BY <1>1, <1>6 DEF CallsHeld
  <2> QED
    BY <2>2, <2>3, <2>4 DEF ProcOK
<1> QED
  BY <1>1, <1>3, <1>4, <1>5, <1>6, <1>7, <1>8, TakeInv

(* Of the processes share_page() can share with, it takes one. *)
LEMMA SharableMax ==
  ASSUME NEW p \in Procs, NEW v \in Pages, Sharable(p, v) # {}
  PROVE  Max(Sharable(p, v)) \in Sharable(p, v)
<1>1. Sharable(p, v) \subseteq Procs /\ Procs \subseteq Int
  BY DEF Sharable, Procs
<1>2. IsFiniteSet(Sharable(p, v)) /\ Sharable(p, v) \in SUBSET Int
  BY <1>1, Finite, FS_Subset
<1> QED
  BY <1>2, MaxLargest

(* share_page(): the page of q is mapped by p too, and protected. *)
LEMMA SharePageInv ==
  ASSUME IInv, NEW p \in Procs, NEW v \in Pages, SharePage(p, v)
  PROVE  IInv'
<1>1. Executing(p) /\ ~Present(p, v) /\ Sharable(p, v) # {}
  BY DEF SharePage, Wanted, Touches
<1>2. CASE do_exit(p, free_page_tables(p))
  BY <1>1, <1>2, ExitPlain
<1>3. PICK q \in Procs \ {p} : q = Max(Sharable(p, v)) /\ pte[q][v].frame \in Frames
  BY <1>1, SharableMax DEF Sharable
<1> DEFINE e == [pte[q][v] EXCEPT !.w = FALSE]
           f0 == pte[q][v].frame
           m == [mem_map EXCEPT ![f0] = @ + 1]
           k == Table[v]
           t == FreeFrame(mem_map)
<1>4. CASE /\ CanMap(mem_map, p, v)
           /\ pte' = [pte EXCEPT ![p][v] = e, ![q][v] = e]
           /\ IF dir[p][k] # NoFrame
                THEN mem_map' = [mem_map EXCEPT ![e.frame] = @ + 1] /\ UNCHANGED dir
                ELSE /\ mem_map' = [mem_map EXCEPT ![e.frame] = @ + 1, ![t] = 1]
                     /\ dir' = [dir EXCEPT ![p][k] = t]
           /\ UNCHANGED <<content, procVars, callVars>>
  <2>1. /\ TypeOK /\ mem_map \in [Frames -> Nat] /\ pte[q][v] \in Entries /\ k \in Tables
        /\ dir \in [Procs -> [Tables -> Frames \cup {NoFrame}]]
        /\ pte \in [Procs -> [Pages -> Entries]]
    BY DEF IInv, TypeOK, Tables
  <2>2. e \in Entries /\ e.frame = f0 /\ ~e.w /\ f0 \in Frames
    BY <1>3, <2>1, BitTypes
  <2>3. mem_map[f0] # 0 /\ Refers(q, f0)
    <3>1. Refers(q, f0)
      BY DEF Refers
    <3> QED
      BY <2>1, <2>2, <3>1, Owners DEF IInv
  <2>4. /\ loading[p] = NoPage /\ lframe[p] = NoFrame /\ Alive(p) /\ NoFrame \notin Frames
        /\ pte[p][v].frame = NoFrame
    BY <1>1, MemoryAssumption DEF Executing, IInv, ProcOK, CallsHeld, Present
  <2> HIDE DEF e
  <2>5. /\ pte' \in [Procs -> [Pages -> Entries]]
        /\ pte'[p][v] = e /\ pte'[q][v] = e
        /\ \A r \in Procs, u \in Pages : u # v \/ (r # p /\ r # q) => pte'[r][u] = pte[r][u]
    BY ONLY <1>4, <2>1, <2>2, p \in Procs, q \in Procs \ {p}, v \in Pages
  <2>6. PICK y : /\ dir' \in [Procs -> [Tables -> Frames \cup {NoFrame}]]
                 /\ mem_map' \in [Frames -> Nat]
                 /\ dir'[p][k] = y /\ y # NoFrame
                 /\ \A r \in Procs, j \in Tables : r # p \/ j # k => dir'[r][j] = dir[r][j]
                 /\ \A f \in Frames : mem_map'[f] + One(dir[p][k], f)
                                        = mem_map[f] + One(f0, f) + One(y, f)
                 /\ \A f \in Frames \ {f0} :
                      mem_map'[f] = mem_map[f] \/ (f = y /\ mem_map'[f] = 1)
                 /\ y = dir[p][k] \/ (y \in Frames /\ mem_map[y] = 0)
    <3>1. CASE dir[p][k] # NoFrame
      <4>1. mem_map' = [mem_map EXCEPT ![f0] = @ + 1] /\ dir' = dir
        BY <1>4, <2>2, <3>1
      <4>2. /\ mem_map' \in [Frames -> Nat]
            /\ \A f \in Frames : mem_map'[f] = mem_map[f] + One(f0, f)
        BY <2>1, <2>2, <4>1 DEF One
      <4>3. \A f \in Frames : One(f0, f) \in Nat /\ One(dir[p][k], f) \in Nat /\ mem_map[f] \in Nat
        BY <2>1 DEF One
      <4>4. \A f \in Frames \ {f0} : mem_map'[f] = mem_map[f]
        BY <2>1, <2>2, <4>1
      <4> WITNESS dir[p][k]
      <4> QED
        BY <2>1, <3>1, <4>1, <4>2, <4>3, <4>4
    <3>2. CASE dir[p][k] = NoFrame
      <4>1. /\ mem_map' = [mem_map EXCEPT ![f0] = @ + 1, ![t] = 1]
            /\ dir' = [dir EXCEPT ![p][k] = t]
            /\ FreeFrames(mem_map) # {}
        BY <1>4, <2>2, <3>2 DEF CanMap
      <4>2. t \in Frames /\ mem_map[t] = 0 /\ t # f0
        BY <2>1, <2>3, <4>1, FreeFrameFree
      <4> HIDE DEF t, f0, k
      <4>3. /\ mem_map' \in [Frames -> Nat]
            /\ \A f \in Frames : mem_map'[f] = IF f = t THEN 1 ELSE
                                               IF f = f0 THEN mem_map[f] + 1 ELSE mem_map[f]
        BY ONLY <2>1, <2>2, <4>1, <4>2
      <4>4. /\ dir' \in [Procs -> [Tables -> Frames \cup {NoFrame}]]
            /\ dir'[p][k] = t
            /\ \A r \in Procs, j \in Tables : r # p \/ j # k => dir'[r][j] = dir[r][j]
        BY ONLY <2>1, <4>1, <4>2, p \in Procs
      <4>5. ASSUME NEW f \in Frames
            PROVE  mem_map'[f] + One(dir[p][k], f) = mem_map[f] + One(f0, f) + One(t, f)
        <5>1. /\ One(dir[p][k], f) = 0 /\ One(f0, f) = (IF f = f0 THEN 1 ELSE 0)
              /\ One(t, f) = (IF f = t THEN 1 ELSE 0)
          BY <2>4, <3>2 DEF One
        <5>2. mem_map[f] \in Nat
          BY <2>1
        <5> QED
          BY <4>2, <4>3, <5>1, <5>2
      <4> WITNESS t
      <4> QED
        BY <2>4, <4>2, <4>3, <4>4, <4>5
    <3> QED
      BY <3>1, <3>2
  <2>7. TypeOK'
    BY <1>4, <2>1, <2>5, <2>6 DEF TypeOK, procVars, callVars
  <2> HIDE DEF f0, k
  <2>8. pte[q][v].frame = f0
    BY DEF f0
  <2>9. EntryStep(p, v, e)
    <3>1. ASSUME NEW r \in Procs \ {p} PROVE Untouched(r)
      <4>1. \A u \in Pages : pte'[r][u].frame = pte[r][u].frame /\ (pte'[r][u].w => pte[r][u].w)
        BY <2>2, <2>5, <2>8
      <4>2. \A j \in Tables : dir'[r][j] = dir[r][j]
        BY <2>6
      <4> QED
        BY <1>4, <4>1, <4>2 DEF Untouched, SameFrames, procVars, callVars
    <3>2. UNCHANGED <<task, zombie, exe, args, loading, lframe>>
      BY <1>4 DEF procVars, callVars
    <3>3. \A j \in Tables \ {Table[v]} : dir'[p][j] = dir[p][j]
      BY <2>6 DEF k
    <3>4. dir'[p][Table[v]] # NoFrame
      BY <2>6 DEF k
    <3>5. pte'[p][v] = e /\ \A u \in Pages \ {v} : pte'[p][u] = pte[p][u]
      BY <2>5
    <3> QED
      BY ONLY <2>4, <3>1, <3>2, <3>3, <3>4, <3>5 DEF EntryStep
  <2>10. ASSUME NEW r \in Procs, NEW f \in Frames, Holds(r, f)'
         PROVE  mem_map'[f] <= 1
    <3>1. Holds(r, f) => mem_map[f] <= 1
      BY DEF IInv, SingleUse
    <3>2. Holds(r, f) \/ (r = p /\ dir'[p][k] = f)
      <4>1. CASE r = p
        BY <2>2, <2>9, <2>10, <4>1, EntryStepHolds DEF k
      <4>2. CASE r # p
        <5>1. Untouched(r)
          BY <2>9, <4>2 DEF EntryStep
        <5> QED
          BY <2>1, <2>10, <5>1, UntouchedOK
      <4> QED
        BY <4>1, <4>2
    <3>3. Holds(r, f) \/ (f = dir'[p][k] /\ mem_map[f] = 0)
      <4>1. dir[p][k] = f => Holds(p, f)
        BY <2>1 DEF Holds
      <4> QED
        BY <2>6, <3>2, <4>1
    <3>4. CASE f # f0
      BY <2>6, <3>1, <3>3, <3>4
    <3>5. CASE f = f0
      <4>1. Holds(r, f0)
        BY <2>3, <3>3, <3>5
      <4>2. Refers(r, f0)
        BY <4>1 DEF Holds, Refers
      <4>3. Own(r, f0) = 1 /\ \A x \in Procs \ {r} : ~Refers(x, f0)
        BY <2>1, <2>2, <3>1, <3>5, <4>1, <4>2, Owners DEF IInv
      <4>4. q = r
        BY <2>3, <4>3
      <4>5. /\ task[q] # f0 /\ lframe[q] # f0 /\ args[q] # f0
            /\ EntriesOf(q, f0) = 1 /\ TablesOf(q, f0) = 0
        BY <2>2, <2>8, <4>3, <4>4, OneWay
      <4>6. /\ \A j \in Tables : dir[q][j] # f0
            /\ \A u \in Pages : pte[q][u].frame = f0 => u = v
        BY <2>2, <2>8, <4>5, OwnCounts
      <4>7. /\ task'[q] # f0 /\ lframe'[q] # f0 /\ args'[q] # f0
            /\ \A j \in Tables : dir'[q][j] # f0
            /\ \A u \in Pages : ~(pte'[q][u].w /\ pte'[q][u].frame = f0)
        BY <1>4, <2>2, <2>5, <2>6, <4>5, <4>6 DEF procVars, callVars
      <4> QED
        BY <2>10, <3>5, <4>4, <4>7 DEF Holds
    <3> QED
      BY <3>4, <3>5
  <2>11. ASSUME NEW f \in Frames
         PROVE  mem_map'[f] + One(pte[p][v].frame, f) + One(dir[p][Table[v]], f) + One(lframe[p], f)
                  = mem_map[f] + One(e.frame, f) + One(dir'[p][Table[v]], f)
    <3>1. /\ One(lframe[p], f) = 0 /\ One(pte[p][v].frame, f) = 0
          /\ \A x : One(x, f) \in Nat
      BY <2>4 DEF One
    <3>2. mem_map[f] \in Nat /\ mem_map'[f] \in Nat
      BY <2>1, <2>6
    <3>3. mem_map'[f] + One(dir[p][k], f) = mem_map[f] + One(f0, f) + One(dir'[p][k], f)
      BY <2>6
    <3> QED
      BY <2>2, <3>1, <3>2, <3>3 DEF k
  <2>12. e.frame # NoFrame /\ e.frame \in Frames
    BY <2>2, <2>4
  <2> QED
    BY <2>2, <2>4, <2>7, <2>9, <2>10, <2>11, <2>12, EntryStepInv
<1> QED
  BY <1>2, <1>3, <1>4 DEF SharePage

(* The end of do_execve(): the page table of the arguments takes a frame   *)
(* that the old address space has left.                                    *)
LEMMA ExecFinishInv ==
  ASSUME IInv, NEW p \in Procs, ExecFinish(p)
  PROVE  IInv'
<1> DEFINE a == args[p]
           m == free_page_tables(p)
           t == FreeFrame(m)
           k == Table[ArgPage]
<1>1. /\ TypeOK /\ MemMapExact /\ mem_map \in [Frames -> Nat]
      /\ NoFrame \notin Frames /\ ArgPage \in Pages
  BY MemoryAssumption DEF IInv, TypeOK
<1>2. /\ a \in Frames /\ Alive(p) /\ loading[p] = NoPage /\ lframe[p] = NoFrame
      /\ exe[p] # NoExecutable
  BY DEF ExecFinish, IInv, TypeOK, ProcOK, SpaceHeld, Bare, CallsHeld
<1>3. FreeFrames(m) # {}
  BY <1>2, RoomAfterFree
<1>4. /\ m \in [Frames -> Nat]
      /\ \A f \in Frames : /\ m[f] + TablesOf(p, f) + EntriesOf(p, f) = mem_map[f]
                           /\ One(task[p], f) + One(lframe[p], f) + One(args[p], f) <= m[f]
  BY <1>1, FreeTables
<1>5. t \in Frames /\ m[t] = 0
  BY <1>3, <1>4, FreeFrameFree
<1>6. /\ mem_map' = [m EXCEPT ![t] = 1]
      /\ dir' = [dir EXCEPT ![p] = [[j \in Tables |-> NoFrame] EXCEPT ![k] = t]]
      /\ pte' = [pte EXCEPT ![p] = [v \in Pages |->
                   IF v = ArgPage /\ FreeFrames(m) # {} THEN Writable(a) ELSE Absent]]
      /\ args' = [args EXCEPT ![p] = NoFrame]
      /\ UNCHANGED <<content, task, zombie, exe, loading, lframe, copyto>>
  BY <1>3 DEF ExecFinish, NewImage, Take, procVars
<1>7. a # t
  <2>1. One(args[p], a) = 1 /\ One(task[p], a) \in Nat /\ One(lframe[p], a) \in Nat
    BY DEF One
  <2>2. One(task[p], a) + One(lframe[p], a) + One(args[p], a) <= m[a] /\ m[a] \in Nat
    BY <1>2, <1>4
  <2>3. m[a] # 0
    BY <2>1, <2>2
  <2> QED
    BY <1>5, <2>3
<1>8. args[p] = a /\ k \in Tables
  BY <1>1 DEF Tables
<1> HIDE DEF a, m, t, k
<1>9. /\ Absent \in Entries /\ Absent.frame = NoFrame /\ ~Absent.w
      /\ Writable(a) \in Entries /\ Writable(a).frame = a
  BY <1>2 DEF Absent, Writable, Entries
<1>10. /\ dir' \in [Procs -> [Tables -> Frames \cup {NoFrame}]]
       /\ \A j \in Tables : dir'[p][j] = IF j = k THEN t ELSE NoFrame
       /\ \A q \in Procs \ {p} : dir'[q] = dir[q]
  BY <1>1, <1>5, <1>6, <1>8 DEF TypeOK
<1>11. /\ pte' \in [Procs -> [Pages -> Entries]]
       /\ \A v \in Pages : pte'[p][v] = IF v = ArgPage THEN Writable(a) ELSE Absent
       /\ \A q \in Procs \ {p} : pte'[q] = pte[q]
  BY <1>1, <1>3, <1>6, <1>9 DEF TypeOK
<1>12. /\ mem_map' \in [Frames -> Nat]
       /\ \A f \in Frames : mem_map'[f] = IF f = t THEN 1 ELSE m[f]
  BY <1>4, <1>5, <1>6
<1>13. args' \in [Procs -> Frames \cup {NoFrame}] /\ args'[p] = NoFrame
       /\ \A q \in Procs \ {p} : args'[q] = args[q]
  BY <1>1, <1>6 DEF TypeOK
<1>14. TypeOK'
  BY <1>1, <1>6, <1>10, <1>11, <1>12, <1>13 DEF TypeOK
<1>15. \A q \in Procs \ {p} : Untouched(q)
  BY <1>6, <1>10, <1>11, <1>13 DEF Untouched, SameFrames
<1>16. \A f \in Frames : mem_map'[f] + Own(p, f) = mem_map[f] + Own(p, f)'
  <2> SUFFICES ASSUME NEW f \in Frames
               PROVE  mem_map'[f] + Own(p, f) = mem_map[f] + Own(p, f)'
    OBVIOUS
  <2>1. Cardinality({}) = 0 /\ Cardinality({k}) = 1 /\ Cardinality({ArgPage}) = 1
    BY FS_EmptySet, FS_Singleton
  <2>2. TablesOf(p, f)' = One(t, f)
    <3>1. {j \in Tables : dir'[p][j] = f} = IF t = f THEN {k} ELSE {}
      BY <1>1, <1>8, <1>10
    <3> QED
      BY <2>1, <3>1 DEF TablesOf, One
  <2>3. EntriesOf(p, f)' = One(a, f)
    <3>1. {v \in Pages : pte'[p][v].frame = f} = IF a = f THEN {ArgPage} ELSE {}
      BY <1>1, <1>9, <1>11
    <3> QED
      BY <2>1, <3>1 DEF EntriesOf, One
  <2>4. /\ TablesOf(p, f) \in Nat /\ EntriesOf(p, f) \in Nat /\ m[f] \in Nat
        /\ m[f] + TablesOf(p, f) + EntriesOf(p, f) = mem_map[f]
        /\ mem_map'[f] = m[f] + One(t, f)
    BY <1>4, <1>5, <1>12, OwnCounts DEF One
  <2>5. /\ One(task'[p], f) = One(task[p], f)
        /\ One(lframe[p], f) = 0 /\ One(lframe'[p], f) = 0
        /\ One(args[p], f) = One(a, f) /\ One(args'[p], f) = 0
        /\ One(task[p], f) \in Nat /\ One(a, f) \in Nat /\ One(t, f) \in Nat
    BY <1>1, <1>2, <1>6, <1>8, <1>13 DEF One
  <2> QED
    BY <2>2, <2>3, <2>4, <2>5, OwnSum
<1>17. \A q \in Procs, f \in Frames : Holds(q, f)' => mem_map'[f] <= 1
  <2>1. \A f \in Frames : mem_map'[f] <= 1 \/ mem_map'[f] <= mem_map[f]
    <3> SUFFICES ASSUME NEW f \in Frames, f # t PROVE mem_map'[f] <= mem_map[f]
      BY <1>12
    <3>1. TablesOf(p, f) \in Nat /\ EntriesOf(p, f) \in Nat /\ m[f] \in Nat
      BY <1>4, OwnCounts
    <3> QED
      BY <1>4, <1>12, <3>1
  <2>2. ASSUME NEW f \in Frames, Holds(p, f)' PROVE Holds(p, f) \/ mem_map'[f] <= 1
    <3>1. f = t => mem_map'[f] <= 1
      BY <1>5, <1>12
    <3>2. f = a => Holds(p, f)
      BY <1>8 DEF Holds
    <3>3. task[p] = f => Holds(p, f)
      BY DEF Holds
    <3>4. task[p] = f \/ f = t \/ f = a
      BY <1>1, <1>2, <1>6, <1>9, <1>10, <1>11, <1>13, <2>2 DEF Holds
    <3> QED
      BY <3>1, <3>2, <3>3, <3>4
  <2> QED
    BY <1>14, <1>15, <2>1, <2>2, HeldOnce
<1>18. ProcOK(p)'
  <2>1. EntriesBacked(p)'
    BY <1>1, <1>2, <1>5, <1>8, <1>9, <1>10, <1>11 DEF EntriesBacked, Present, k
  <2>2. SpaceHeld(p)'
    BY <1>1, <1>2, <1>5, <1>6, <1>8, <1>10 DEF SpaceHeld, Alive
  <2>3. CallsHeld(p)'
    BY <1>2, <1>6, <1>13 DEF CallsHeld
  <2> QED
    BY <2>1, <2>2, <2>3 DEF ProcOK
<1> QED
  BY <1>14, <1>15, <1>16, <1>17, <1>18, StepInv

----------------------------------------------------------------------------
(* A set of numbers has an element with any number of larger ones: get the *)
(* largest first, and then the largest of those below.                     *)
LEMMA NthExists ==
  ASSUME NEW S \in SUBSET Nat, IsFiniteSet(S), NEW n \in Nat, n < Cardinality(S)
  PROVE  \E f \in S : Cardinality({g \in S : g > f}) = n
<1> DEFINE Above(f) == {g \in S : g > f}
           Bad == {i \in Nat : i < Cardinality(S) /\ ~\E f \in S : Cardinality(Above(f)) = i}
<1>1. Cardinality(S) \in Nat /\ \A f : IsFiniteSet(Above(f)) /\ Cardinality(Above(f)) \in Nat
  <2>1. \A f : Above(f) \subseteq S
    OBVIOUS
  <2> HIDE DEF Above
  <2> QED
    BY <2>1, FS_Subset, FS_CardinalityType
<1>4. \A g \in S : g \in Nat
  OBVIOUS
<1>5. ASSUME NEW f \in S, \A g \in S : g <= f PROVE Above(f) = {}
  <2>1. \A g \in S : ~(g > f)
    BY <1>4, <1>5
  <2> QED
    BY <2>1
<1>6. ASSUME NEW f \in S
      PROVE  /\ f \notin Above(f) /\ S = (Above(f) \cup {f}) \cup {g \in S : g < f}
             /\ (Above(f) \cup {f}) \cap {g \in S : g < f} = {}
  <2>1. \A g \in S : (g > f) \/ g = f \/ g < f
    BY <1>4
  <2>2. \A g \in S : ~(g > f /\ g < f) /\ ~(f < f) /\ ~(f > f)
    BY <1>4
  <2> QED
    BY <2>1, <2>2
<1>7. ASSUME NEW f \in S, NEW h \in S, h < f, \A g \in S : g < f => g <= h
      PROVE  Above(h) = Above(f) \cup {f}
  <2>1. \A g \in S : g > h <=> g > f \/ g = f
    BY <1>4, <1>7
  <2> QED
    BY <2>1
<1>2. ASSUME Bad # {} PROVE FALSE
  <2>1. PICK i \in Bad : \A j \in Bad : i <= j
    <3>1. Bad \in SUBSET Nat
      OBVIOUS
    <3> HIDE DEF Bad
    <3> QED
      BY <1>2, <3>1, SmallestExists
  <2>2. i \in Nat /\ i < Cardinality(S) /\ \A f \in S : Cardinality(Above(f)) # i
    BY <2>1
  <2>3. CASE i = 0
    <3>1. S # {}
      BY <1>1, <2>2, FS_EmptySet
    <3>2. PICK f \in S : \A g \in S : g <= f
      BY <3>1, LargestExists
    <3>3. Above(f) = {}
      BY <1>5, <3>2
    <3>4. Cardinality({}) = 0
      BY FS_EmptySet
    <3> QED
      BY <2>2, <2>3, <3>2, <3>3, <3>4
  <2>4. CASE i # 0
    <3>1. i - 1 \in Nat /\ i - 1 < Cardinality(S) /\ i - 1 \notin Bad
      BY <1>1, <2>1, <2>2, <2>4
    <3>2. PICK f \in S : Cardinality(Above(f)) = i - 1
      BY <3>1
    <3> DEFINE A == Above(f)
               B == {g \in S : g < f}
               C == A \cup {f}
    <3>3. f \notin A /\ S = C \cup B /\ C \cap B = {} /\ B \subseteq S
      BY <1>6
    <3>4. IsFiniteSet(A) /\ Cardinality(A) = i - 1
      BY <1>1, <3>2
    <3> HIDE DEF A, B
    <3>5. IsFiniteSet(C) /\ Cardinality(C) = i
      <4>1. IsFiniteSet(A \cup {f}) /\ Cardinality(A \cup {f}) = Cardinality(A) + 1
        BY <3>3, <3>4, FS_AddElement
      <4> QED
        BY <2>2, <3>4, <4>1
    <3> HIDE DEF C
    <3>6. B # {}
      <4> SUFFICES ASSUME B = {} PROVE FALSE
        OBVIOUS
      <4>1. S = C
        BY <3>3
      <4> QED
        BY <2>2, <3>5, <4>1
    <3>7. IsFiniteSet(B) /\ B \in SUBSET Int
      BY <3>3, FS_Subset
    <3>8. PICK h \in B : \A g \in B : g <= h
      BY <3>6, <3>7, LargestExists
    <3>9. Above(h) = C
      BY <1>7, <3>8 DEF A, B, C
    <3>10. h \in S
      BY <3>3, <3>8
    <3> QED
      BY <2>2, <3>5, <3>9, <3>10
  <2> QED
    BY <2>3, <2>4
<1>3. n \notin Bad
  BY <1>2
<1> QED
  BY <1>3

(* The (n+1)-th call of get_free_page() gets a free frame with n free      *)
(* frames above it.                                                        *)
LEMMA NthFreeIs ==
  ASSUME NEW m \in [Frames -> Nat], NEW n \in Nat, n < Cardinality(FreeFrames(m))
  PROVE  /\ NthFree(m, n) \in Frames /\ m[NthFree(m, n)] = 0
         /\ Cardinality({g \in FreeFrames(m) : g > NthFree(m, n)}) = n
<1>1. FreeFrames(m) \in SUBSET Nat /\ FreeFrames(m) \subseteq Frames
  BY DEF FreeFrames, Frames
<1>2. IsFiniteSet(FreeFrames(m))
  BY <1>1, Finite, FS_Subset
<1>3. \E f \in FreeFrames(m) : Cardinality({g \in FreeFrames(m) : g > f}) = n
  BY <1>1, <1>2, NthExists
<1>4. /\ NthFree(m, n) \in FreeFrames(m)
      /\ Cardinality({g \in FreeFrames(m) : g > NthFree(m, n)}) = n
  BY <1>3 DEF NthFree
<1> QED
  BY <1>4 DEF FreeFrames

(* The tables that are copied are numbered in order. *)
LEMMA RanksDiffer ==
  ASSUME NEW ks \in SUBSET Tables, NEW k \in ks
  PROVE  LET rank(i) == Cardinality({j \in ks : j <= i}) IN
         /\ rank(k) \in Nat /\ rank(k) >= 1 /\ rank(k) <= Cardinality(ks)
         /\ \A i \in ks : rank(i) = rank(k) => i = k
<1> DEFINE Upto(i) == {j \in ks : j <= i}
<1>1. ks \subseteq Nat /\ IsFiniteSet(ks)
  BY MemoryAssumption, Finite, FS_Subset
<1>2. ASSUME NEW i \in ks
      PROVE  /\ IsFiniteSet(Upto(i)) /\ Cardinality(Upto(i)) \in Nat
             /\ Cardinality(Upto(i)) >= 1 /\ Cardinality(Upto(i)) <= Cardinality(ks)
  <2>1. Upto(i) \subseteq ks /\ Upto(i) # {}
    BY <1>1
  <2> HIDE DEF Upto
  <2>2. IsFiniteSet(Upto(i)) /\ Cardinality(Upto(i)) <= Cardinality(ks)
    BY <1>1, <2>1, FS_Subset
  <2>3. Cardinality(Upto(i)) \in Nat /\ Cardinality(Upto(i)) # 0
    BY <2>1, <2>2, FS_CardinalityType, FS_EmptySet
  <2> QED
    BY <2>2, <2>3
<1>3. ASSUME NEW i \in ks, NEW j \in ks, i < j
      PROVE  Cardinality(Upto(i)) # Cardinality(Upto(j))
  <2>3. \A l \in ks : l \in Nat
    BY <1>1
  <2>1. Upto(i) \subseteq Upto(j) /\ j \in Upto(j) /\ j \notin Upto(i)
    BY <1>3, <2>3
  <2>2. IsFiniteSet(Upto(j))
    BY <1>2
  <2> HIDE DEF Upto
  <2> QED
    BY <2>1, <2>2, FS_Subset
<1>4. \A i \in ks : Cardinality(Upto(i)) = Cardinality(Upto(k)) => i = k
  <2> SUFFICES ASSUME NEW i \in ks, Cardinality(Upto(i)) = Cardinality(Upto(k)), i # k
               PROVE  FALSE
    OBVIOUS
  <2>1. i < k \/ k < i
    BY <1>1
  <2> HIDE DEF Upto
  <2> QED
    BY <1>3, <2>1
<1> QED
  BY <1>2, <1>4

(* The frames copy_process() gets: one for the task_struct, and one for    *)
(* each page table; all of them free, and all different.                   *)
LEMMA ForkFrames ==
  ASSUME NEW m \in [Frames -> Nat], NEW ks \in SUBSET Tables,
         Cardinality(FreeFrames(m)) >= 1 + Cardinality(ks)
  PROVE  LET new == [k \in ks |-> NthFree(m, Cardinality({j \in ks : j <= k})) ]
             s == FreeFrame(m)
         IN  /\ s \in Frames /\ m[s] = 0 /\ s \notin Range(new)
             /\ \A k \in ks : new[k] \in Frames /\ m[new[k]] = 0
             /\ \A i, k \in ks : new[i] = new[k] => i = k
<1> DEFINE rank(k) == Cardinality({j \in ks : j <= k})
           nth(k) == NthFree(m, rank(k))
           s == FreeFrame(m)
           Above(f) == {g \in FreeFrames(m) : g > f}
<1>1. /\ Cardinality(ks) \in Nat /\ Cardinality(FreeFrames(m)) \in Nat
      /\ FreeFrames(m) \subseteq Frames /\ IsFiniteSet(FreeFrames(m))
  <2>1. FreeFrames(m) \subseteq Frames
    BY DEF FreeFrames
  <2>2. IsFiniteSet(ks) /\ IsFiniteSet(FreeFrames(m))
    BY <2>1, Finite, FS_Subset
  <2> QED
    BY <2>1, <2>2, FS_CardinalityType
<1>2. ASSUME NEW k \in ks
      PROVE  /\ rank(k) \in Nat /\ rank(k) >= 1 /\ rank(k) < Cardinality(FreeFrames(m))
             /\ \A i \in ks : rank(i) = rank(k) => i = k
  <2>1. /\ rank(k) \in Nat /\ rank(k) >= 1 /\ rank(k) <= Cardinality(ks)
        /\ \A i \in ks : rank(i) = rank(k) => i = k
    BY RanksDiffer
  <2> HIDE DEF rank
  <2> QED
    BY <1>1, <2>1
<1>3. ASSUME NEW k \in ks
      PROVE  /\ nth(k) \in Frames /\ m[nth(k)] = 0 /\ Cardinality(Above(nth(k))) = rank(k)
  <2>1. rank(k) \in Nat /\ rank(k) < Cardinality(FreeFrames(m))
    BY <1>2
  <2> HIDE DEF rank
  <2> QED
    BY <2>1, NthFreeIs
<1>4. FreeFrames(m) # {} /\ s \in Frames /\ m[s] = 0 /\ Above(s) = {}
  <2>1. FreeFrames(m) # {}
    BY <1>1, FS_EmptySet
  <2>2. s \in Frames /\ m[s] = 0
    BY <2>1, FreeFrameFree
  <2>3. FreeFrames(m) \in SUBSET Int /\ Frames \subseteq Int
    BY <1>1 DEF Frames
  <2>4. \A g \in FreeFrames(m) : g <= s
    BY <1>1, <2>1, <2>3, MaxLargest DEF FreeFrame
  <2>5. \A g \in FreeFrames(m) : ~(g > s)
    <3>1. s \in Int /\ \A g \in FreeFrames(m) : g \in Int
      BY <2>2, <2>3
    <3> HIDE DEF s
    <3> QED
      BY ONLY <3>1, <2>4
  <2> QED
    BY <2>1, <2>2, <2>5
<1>5. Cardinality({}) = 0
  BY FS_EmptySet
<1> HIDE DEF rank, Above, s
<1>6. \A k \in ks : nth(k) # s
  BY <1>2, <1>3, <1>4, <1>5
<1>7. \A i, k \in ks : nth(i) = nth(k) => i = k
  BY <1>2, <1>3
<1> HIDE DEF nth
<1> DEFINE new == [k \in ks |-> nth(k)]
<1>8. /\ s \in Frames /\ m[s] = 0 /\ s \notin Range(new)
      /\ \A k \in ks : new[k] \in Frames /\ m[new[k]] = 0
      /\ \A i, k \in ks : new[i] = new[k] => i = k
  BY <1>3, <1>4, <1>6, <1>7 DEF Range
<1> QED
  BY <1>8 DEF nth, rank, s

(* copy_process(): the child gets a task_struct, page tables and           *)
(* write-protected references to its father's pages.                       *)
LEMMA ForkInv ==
  ASSUME IInv, NEW p \in Procs, NEW c \in Procs, Fork(p, c)
  PROVE  IInv'
<1> DEFINE s == FreeFrame(mem_map)
           ks == TablesToCopy(p)
           new == [k \in ks |-> NthFree(mem_map, Cardinality({j \in ks : j <= k}))]
<1>1. /\ InUser(p) /\ task[c] = NoFrame
      /\ Cardinality(FreeFrames(mem_map)) >= 1 + Cardinality(ks)
      /\ mem_map' = CountShared([f \in Frames |->
                       IF f = s \/ f \in Range(new) THEN 1 ELSE mem_map[f]], p)
      /\ dir' = [dir EXCEPT ![c] = [k \in Tables |-> IF k \in ks THEN new[k] ELSE NoFrame]]
      /\ pte' = [pte EXCEPT
           ![c] = [v \in Pages |-> [pte[p][v] EXCEPT !.w = FALSE]],
           ![p] = Protected(p, ks)]
      /\ task' = [task EXCEPT ![c] = s]
      /\ exe' = [exe EXCEPT ![c] = exe[p]]
      /\ UNCHANGED <<content, zombie, callVars>>
  BY DEF Fork
<1>2. /\ TypeOK /\ MemMapExact /\ mem_map \in [Frames -> Nat] /\ NoFrame \notin Frames
      /\ task \in [Procs -> Frames \cup {NoFrame}]
      /\ dir \in [Procs -> [Tables -> Frames \cup {NoFrame}]]
      /\ pte \in [Procs -> [Pages -> Entries]]
      /\ exe \in [Procs -> Executables \cup {NoExecutable}]
  BY MemoryAssumption DEF IInv, TypeOK
<1>3. c # p /\ Alive(p) /\ c \notin zombie /\ Bare(c)
  BY <1>1 DEF InUser, Executing, Alive, IInv, ProcOK, SpaceHeld
<1>4. ks \in SUBSET Tables /\ \A k \in Tables : k \in ks <=> dir[p][k] # NoFrame
  BY DEF TablesToCopy
<1>5. /\ s \in Frames /\ mem_map[s] = 0 /\ s \notin Range(new)
      /\ \A k \in ks : new[k] \in Frames /\ mem_map[new[k]] = 0
      /\ \A i, k \in ks : new[i] = new[k] => i = k
  <2> HIDE DEF ks
  <2> QED
    BY <1>1, <1>2, <1>4, ForkFrames
<1>6. DOMAIN new = ks /\ Range(new) = {new[k] : k \in ks}
  BY DEF Range
<1> HIDE DEF s, ks, new
<1>7. ASSUME NEW f \in Frames
      PROVE  mem_map'[f] = (IF f = s \/ f \in Range(new) THEN 1 ELSE mem_map[f]) + EntriesOf(p, f)
  BY <1>1 DEF CountShared
<1>8. mem_map' \in [Frames -> Nat]
  <2>1. \A f \in Frames : EntriesOf(p, f) \in Nat /\ mem_map[f] \in Nat
    BY <1>2, OwnCounts
  <2>2. mem_map' = [f \in Frames |-> mem_map'[f]]
    BY <1>1 DEF CountShared
  <2>3. \A f \in Frames : mem_map'[f] \in Nat
    BY <1>7, <2>1
  <2> QED
    BY <2>2, <2>3
<1>9. ASSUME NEW v \in Pages
      PROVE  /\ [pte[p][v] EXCEPT !.w = FALSE] \in Entries
             /\ [pte[p][v] EXCEPT !.w = FALSE].frame = pte[p][v].frame
             /\ ~[pte[p][v] EXCEPT !.w = FALSE].w
             /\ Protected(p, ks)[v] \in Entries
             /\ Protected(p, ks)[v].frame = pte[p][v].frame
             /\ Protected(p, ks)[v].w =>
                  pte[p][v].w /\ ~(Table[v] \in ks /\ pte[p][v].frame \in Frames)
  <2>1. pte[p][v] \in Entries
    BY <1>2
  <2>2. Protected(p, ks)[v] = IF Table[v] \in ks /\ pte[p][v].frame \in Frames
                                THEN [pte[p][v] EXCEPT !.w = FALSE] ELSE pte[p][v]
    BY DEF Protected
  <2>3. /\ [pte[p][v] EXCEPT !.w = FALSE] \in Entries
        /\ [pte[p][v] EXCEPT !.w = FALSE].frame = pte[p][v].frame
        /\ ~[pte[p][v] EXCEPT !.w = FALSE].w
    BY <2>1, BitTypes
  <2> QED
    BY <2>1, <2>2, <2>3
<1> DEFINE cp == [v \in Pages |-> [pte[p][v] EXCEPT !.w = FALSE]]
<1>10. /\ cp \in [Pages -> Entries]
       /\ \A v \in Pages : cp[v].frame = pte[p][v].frame /\ ~cp[v].w
       /\ Protected(p, ks) \in [Pages -> Entries]
  BY <1>9 DEF Protected
<1>11. pte' = [pte EXCEPT ![c] = cp, ![p] = Protected(p, ks)]
  BY <1>1
<1> HIDE DEF cp
<1>12. /\ pte' \in [Procs -> [Pages -> Entries]]
       /\ pte'[c] = cp /\ pte'[p] = Protected(p, ks)
       /\ \A q \in Procs : q # c /\ q # p => pte'[q] = pte[q]
  BY ONLY <1>2, <1>3, <1>10, <1>11, p \in Procs, c \in Procs
<1>13. /\ dir' \in [Procs -> [Tables -> Frames \cup {NoFrame}]]
       /\ \A k \in Tables : dir'[c][k] = IF k \in ks THEN new[k] ELSE NoFrame
       /\ \A q \in Procs : q # c => dir'[q] = dir[q]
  BY <1>1, <1>2, <1>4, <1>5
<1>14. /\ task' \in [Procs -> Frames \cup {NoFrame}] /\ task'[c] = s
       /\ exe' \in [Procs -> Executables \cup {NoExecutable}] /\ exe'[c] = exe[p]
       /\ \A q \in Procs : q # c => task'[q] = task[q] /\ exe'[q] = exe[q]
  BY <1>1, <1>2, <1>5
<1>15. UNCHANGED <<content, zombie, loading, lframe, copyto, args>>
  BY <1>1 DEF callVars
<1>16. TypeOK'
  BY <1>2, <1>8, <1>12, <1>13, <1>14, <1>15 DEF TypeOK
<1>17. \A q \in Procs \ {c} : Untouched(q)
  <2> SUFFICES ASSUME NEW q \in Procs, q # c PROVE Untouched(q)
    OBVIOUS
  <2>1. \A v \in Pages : pte'[q][v].frame = pte[q][v].frame /\ (pte'[q][v].w => pte[q][v].w)
    BY <1>9, <1>12
  <2> QED
    BY <1>13, <1>14, <1>15, <2>1 DEF Untouched, SameFrames
<1>18. \A f \in Frames : mem_map'[f] + Own(c, f) = mem_map[f] + Own(c, f)'
  <2> SUFFICES ASSUME NEW f \in Frames
               PROVE  mem_map'[f] + Own(c, f) = mem_map[f] + Own(c, f)'
    OBVIOUS
  <2>1. Own(c, f) = 0
    <3>1. ~Refers(c, f)
      BY <1>1, <1>2, <1>3 DEF Refers, Bare
    <3> QED
      BY <3>1, OwnCounts
  <2>2. EntriesOf(c, f)' = EntriesOf(p, f)
    <3>1. {v \in Pages : pte'[c][v].frame = f} = {v \in Pages : pte[p][v].frame = f}
      BY <1>10, <1>12
    <3> QED
      BY <3>1 DEF EntriesOf
  <2>3. TablesOf(c, f)' = IF f \in Range(new) THEN 1 ELSE 0
    <3>1. CASE f \in Range(new)
      <4>1. PICK k \in ks : new[k] = f
        BY <1>6, <3>1
      <4>2. \A j \in Tables : dir'[c][j] = f <=> j = k
        <5>1. \A j \in Tables \ ks : dir'[c][j] = NoFrame
          BY <1>13
        <5>2. \A j \in ks : j \in Tables /\ dir'[c][j] = new[j]
          BY <1>4, <1>13
        <5> QED
          BY ONLY <1>2, <1>5, <4>1, <5>1, <5>2, f \in Frames
      <4>4. {j \in Tables : dir'[c][j] = f} = {k}
        BY <1>4, <4>1, <4>2
      <4>3. Cardinality({k}) = 1
        BY FS_Singleton
      <4> QED
        BY <3>1, <4>3, <4>4 DEF TablesOf
    <3>2. CASE f \notin Range(new)
      <4>1. {j \in Tables : dir'[c][j] = f} = {}
        BY <1>2, <1>6, <1>13, <3>2
      <4>2. Cardinality({}) = 0
        BY FS_EmptySet
      <4> QED
        BY <3>2, <4>1, <4>2 DEF TablesOf
    <3> QED
      BY <3>1, <3>2
  <2>4. /\ One(task'[c], f) = (IF f = s THEN 1 ELSE 0)
        /\ One(lframe'[c], f) = 0 /\ One(args'[c], f) = 0
    BY <1>2, <1>3, <1>14, <1>15 DEF One, Bare
  <2>5. /\ mem_map[f] \in Nat /\ EntriesOf(p, f) \in Nat
        /\ f = s \/ f \in Range(new) => mem_map[f] = 0
    BY <1>2, <1>5, <1>6, OwnCounts
  <2>6. f = s => f \notin Range(new)
    BY <1>5
  <2>7. Own(c, f)' = (IF f = s THEN 1 ELSE 0) + (IF f \in Range(new) THEN 1 ELSE 0)
                      + EntriesOf(p, f) + 0 + 0
    BY <2>2, <2>3, <2>4, OwnSum
  <2> QED
    BY <1>7, <2>1, <2>5, <2>6, <2>7
<1>19. ASSUME NEW q \in Procs, NEW f \in Frames, Holds(q, f)'
       PROVE  mem_map'[f] <= 1
  <2>1. EntriesOf(p, f) \in Nat /\ mem_map[f] \in Nat
    BY <1>2, OwnCounts
  <2>2. CASE q = c
    <3>1. f = s \/ f \in Range(new)
      BY <1>2, <1>3, <1>6, <1>10, <1>12, <1>13, <1>14, <1>15, <1>19, <2>2 DEF Holds, Bare
    <3>2. mem_map[f] = 0
      BY <1>5, <1>6, <3>1
    <3>3. ~Refers(p, f)
      BY <1>2, <3>2, Owners
    <3>4. EntriesOf(p, f) = 0
      BY <3>3, OwnCounts DEF Refers
    <3> QED
      BY <1>7, <3>1, <3>4
  <2>3. CASE q # c
    <3>1. Holds(q, f)
      BY <1>2, <1>17, <1>19, <2>3, UntouchedOK
    <3>2. Refers(q, f) /\ mem_map[f] <= 1
      BY <3>1 DEF Holds, Refers, IInv, SingleUse
    <3>3. mem_map[f] = 1 /\ Own(q, f) = 1 /\ \A r \in Procs \ {q} : ~Refers(r, f)
      BY <1>2, <3>2, Owners
    <3>4. f # s /\ f \notin Range(new)
      BY <1>5, <1>6, <3>3
    <3>5. EntriesOf(p, f) = 0
      <4> SUFFICES ASSUME EntriesOf(p, f) # 0 PROVE FALSE
        OBVIOUS
      <4>1. PICK v \in Pages : pte[p][v].frame = f
        BY OwnCounts
      <4>2. q = p
        BY <3>3, <4>1 DEF Refers
      <4>3. /\ task[p] # f /\ lframe[p] # f /\ args[p] # f /\ TablesOf(p, f) = 0
        BY <3>3, <4>1, <4>2, OneWay
      <4>4. \A k \in Tables : dir[p][k] # f
        BY <4>3, OwnCounts
      <4>5. PICK u \in Pages : pte'[p][u].w /\ pte'[p][u].frame = f
        BY <1>13, <1>14, <1>15, <1>19, <2>3, <4>2, <4>3, <4>4 DEF Holds
      <4>6. pte[p][u].frame = f /\ Table[u] \notin ks
        BY <1>9, <1>12, <4>5
      <4>7. Table[u] \in Tables /\ dir[p][Table[u]] # NoFrame
        BY <1>2, <4>6 DEF IInv, ProcOK, EntriesBacked, Present, Tables
      <4> QED
        BY <1>4, <4>6, <4>7
    <3> QED
      BY <1>7, <3>3, <3>4, <3>5
  <2> QED
    BY <2>2, <2>3
<1>20. ProcOK(c)'
  <2>1. EntriesBacked(c)'
    <3>1. ASSUME NEW v \in Pages, pte[p][v].frame # NoFrame PROVE dir'[c][Table[v]] # NoFrame
      <4>1. Table[v] \in Tables /\ dir[p][Table[v]] # NoFrame
        BY <3>1 DEF IInv, ProcOK, EntriesBacked, Present, Tables
      <4> QED
        BY <1>2, <1>4, <1>5, <1>13, <4>1
    <3> QED
      BY <1>10, <1>12, <3>1 DEF EntriesBacked, Present
  <2>2. SpaceHeld(c)'
    <3>1. PICK k \in Tables : dir[p][k] # NoFrame
      BY <1>3 DEF IInv, ProcOK, SpaceHeld
    <3>2. dir'[c][k] # NoFrame
      <4>1. k \in ks
        BY <1>4, <3>1
      <4>2. dir'[c][k] = new[k] /\ new[k] \in Frames
        BY <1>5, <1>13, <4>1
      <4> QED
        BY <1>2, <4>2
    <3>3. Alive(c)'
      BY <1>2, <1>3, <1>5, <1>14, <1>15 DEF Alive
    <3> QED
      BY <1>3, <1>15, <3>2, <3>3 DEF SpaceHeld
  <2>3. CallsHeld(c)'
    BY <1>3, <1>15 DEF CallsHeld, Bare
  <2> QED
    BY <2>1, <2>2, <2>3 DEF ProcOK
<1> QED
  BY <1>16, <1>17, <1>18, <1>19, <1>20, StepInv

----------------------------------------------------------------------------
(* Every step keeps the invariant. *)
LEMMA NextInv == IInv /\ [Next]_vars => IInv'
<1> SUFFICES ASSUME IInv, [Next]_vars PROVE IInv'
  OBVIOUS
<1>1. CASE UNCHANGED vars
  <2>1. copyto' \in [Procs -> Pages \cup {NoPage}]
    BY <1>1 DEF vars, callVars, IInv, TypeOK
  <2> QED
    BY <1>1, <2>1, CopytoInv DEF vars, callVars
<1>2. CASE Next
  <2>1. PICK p \in Procs : ProcStep(p)
    BY <1>2 DEF Next
  <2>2. CASE Exit(p)
    BY <2>2, ExitPlain DEF Exit, InUser
  <2>3. CASE Release(p)
    BY <2>3, ReleaseInv
  <2>4. CASE \E c \in Procs : Fork(p, c) \/ ForkFails(p, c)
    BY <2>4, ForkInv, ForkFailsInv
  <2>5. CASE \E v \in Pages : do_wp_page(p, v) \/ VerifyArea(p, v)
    BY <2>5, WpPageInv, VerifyAreaInv
  <2>6. CASE \E v \in Pages : EmptyPage(p, v) \/ SharePage(p, v) \/ StartLoad(p, v)
    BY <2>6, EmptyPageInv, SharePageInv, StartLoadInv
  <2>7. CASE \E v \in Pages, x \in Written : UserWrite(p, v, x) \/ CopyToUser(p, v, x)
    BY <2>7, UserWriteInv, CopyToUserInv
  <2>8. CASE FinishLoad(p)
    BY <2>8, FinishLoadInv
  <2>9. CASE ReturnUnwritten(p)
    BY <2>9, ReturnUnwrittenInv
  <2>10. CASE \E e \in Executables, x \in Written : Exec(p, e, x)
    BY <2>10, ExecInv
  <2>11. CASE ExecFinish(p)
    BY <2>11, ExecFinishInv
  <2> QED
    BY <2>1, <2>2, <2>3, <2>4, <2>5, <2>6, <2>7, <2>8, <2>9, <2>10, <2>11 DEF ProcStep
<1> QED
  BY <1>1, <1>2

(* The inductive invariant holds in every state. *)
LEMMA InvHolds == Spec => []IInv
BY InitInv, NextInv, PTL DEF Spec

(* mem_map is exact, a page that can be written to has one owner, page     *)
(* tables are nobody's pages and execve() finds room past its point of no  *)
(* return: for any number of processes, frames and pages, in any order of  *)
(* fork(), faults, sharing, execve() and exit(), and on every path out of  *)
(* memory.                                                                 *)
THEOREM MemoryCorrect == Spec => []MemoryInv
<1>1. IInv => MemoryInv
  BY InvWritableAlone, InvKernelFramesApart, InvExecHasRoom DEF MemoryInv, IInv
<1> QED
  BY InvHolds, <1>1, PTL

----------------------------------------------------------------------------
(* What process p sees of page v. *)
View(p, v) ==
  IF args[p] = NoFrame THEN PageValue(p, v)
  ELSE IF v = ArgPage THEN content[args[p]] ELSE FreshPage(exe[p], v)

(* The memories of PrivateMemory, and the processes that have one. *)
Views == [p \in Procs |-> [v \in Pages |-> View(p, v)]]
Living == {p \in Procs : Alive(p)}

(* p sees the same after the step; the same processes are alive. *)
Keeps(p) == \A v \in Pages : View(p, v)' = View(p, v)
SameLiving == \A p \in Procs : Alive(p)' <=> Alive(p)

(* What a step has to do to the views, to be each step of PrivateMemory. *)
LEMMA PrivSame ==
  ASSUME SameLiving, \A p \in Procs : Keeps(p)
  PROVE  UNCHANGED Priv!memVars
<1>1. Living' = Living
  BY DEF SameLiving, Living
<1>2. Views' = Views
  BY DEF Keeps, Views
<1> QED
  BY <1>1, <1>2 DEF Priv!memVars, Views, Living, View

(* Only page v of p may change. *)
LEMMA PrivWrites ==
  ASSUME SameLiving, NEW p \in Procs, NEW v \in Pages, Alive(p),
         \A q \in Procs \ {p} : Keeps(q),
         \A u \in Pages \ {v} : View(p, u)' = View(p, u)
  PROVE  Priv!PrivWrite(p, v)
<1>1. Living' = Living /\ p \in Living
  BY DEF SameLiving, Living
<1>2. Views' = [Views EXCEPT ![p][v] = Views'[p][v]]
  BY DEF Keeps, Views
<1> QED
  BY <1>1, <1>2 DEF Priv!PrivWrite, Views, Living, View

(* The child sees what its father sees. *)
LEMMA PrivForks ==
  ASSUME NEW p \in Procs, NEW c \in Procs, Alive(p), ~Alive(c), Alive(c)',
         \A q \in Procs \ {c} : (Alive(q)' <=> Alive(q)) /\ Keeps(q),
         \A v \in Pages : View(c, v)' = View(p, v)
  PROVE  Priv!PrivFork(p, c)
<1>1. Living' = Living \cup {c} /\ p \in Living /\ c \notin Living
  BY DEF Living
<1>2. Views' = [Views EXCEPT ![c] = Views[p]]
  BY DEF Keeps, Views
<1> QED
  BY <1>1, <1>2 DEF Priv!PrivFork, Views, Living, View

(* Those who live on see what they saw. *)
LEMMA PrivExits ==
  ASSUME NEW p \in Procs, Alive(p), ~Alive(p)',
         \A q \in Procs \ {p} : (Alive(q)' <=> Alive(q)) /\ Keeps(q)
  PROVE  Priv!PrivExit(p)
<1>1. Living' = Living \ {p} /\ p \in Living
  BY DEF Living
<1>2. \A q \in Living' : Views'[q] = Views[q]
  BY <1>1 DEF Keeps, Views, Living
<1> QED
  BY <1>1, <1>2 DEF Priv!PrivExit, Views, Living, View

(* Every page is new, or the one of the arguments. *)
LEMMA PrivExecs ==
  ASSUME SameLiving, NEW p \in Procs, NEW e \in Executables, Alive(p),
         \A q \in Procs \ {p} : Keeps(q),
         \A v \in Pages \ {ArgPage} : View(p, v)' = FreshPage(e, v)
  PROVE  Priv!PrivExec(p, e, ArgPage)
<1>1. Living' = Living /\ p \in Living
  BY DEF SameLiving, Living
<1>2. Views' = [Views EXCEPT ![p] =
         [v \in Pages |-> IF v = ArgPage THEN Views'[p][ArgPage] ELSE FreshPage(e, v)]]
  BY MemoryAssumption DEF Keeps, Views
<1> QED
  BY <1>1, <1>2 DEF Priv!PrivExec, Views, Living, View

(* At the start nobody is in execve(), and every page is in place. *)
LEMMA InitView == ASSUME Init PROVE Priv!PrivInit
<1>1. TypeOK
  BY InitInv DEF IInv
<1>2. args = [p \in Procs |-> NoFrame]
  BY DEF Init
<1>3. ASSUME NEW p \in Procs, NEW v \in Pages PROVE View(p, v) \in Values
  <2>1. View(p, v) = PageValue(p, v)
    BY <1>2 DEF View
  <2>2. pte[p][v] \in Entries /\ exe[p] \in Executables \cup {NoExecutable}
    BY <1>1 DEF TypeOK
  <2>3. Present(p, v) => content[pte[p][v].frame] \in Values
    BY <1>1, <2>2 DEF TypeOK, Present, Entries
  <2> QED
    BY <2>1, <2>2, <2>3 DEF PageValue, Values
<1>4. Views \in [Procs -> [Pages -> Values]]
  BY <1>3 DEF Views
<1> QED
  BY <1>4 DEF Priv!PrivInit, Views, View

(* What a process sees depends on its entries, its executable, and the     *)
(* contents of the frames it maps.                                         *)
LEMMA KeepsView ==
  ASSUME NEW q \in Procs, exe'[q] = exe[q], args'[q] = args[q],
         \A v \in Pages : pte'[q][v].frame = pte[q][v].frame,
         args[q] # NoFrame => content'[args[q]] = content[args[q]],
         \A v \in Pages : Present(q, v) => content'[pte[q][v].frame] = content[pte[q][v].frame]
  PROVE  Keeps(q)
BY DEF Keeps, View, PageValue, FreshPage, Present

(* Nobody sees a frame that get_free_page() can hand out. *)
LEMMA FreeUnseen ==
  ASSUME IInv, NEW f \in Frames, mem_map[f] = 0, NEW q \in Procs
  PROVE  args[q] # f /\ \A v \in Pages : pte[q][v].frame # f
BY Owners DEF IInv, Refers

(* Nor a frame that a page is being read into. *)
LEMMA LoadUnseen ==
  ASSUME IInv, NEW p \in Procs, lframe[p] \in Frames, NEW q \in Procs
  PROVE  args[q] # lframe[p] /\ \A v \in Pages : pte[q][v].frame # lframe[p]
<1> DEFINE f == lframe[p]
<1>1. mem_map[f] <= 1 /\ Refers(p, f)
  BY DEF IInv, SingleUse, Holds, Refers
<1>2. Own(p, f) = 1 /\ \A r \in Procs \ {p} : ~Refers(r, f)
  BY <1>1, Owners DEF IInv
<1>3. CASE q = p
  <2>1. EntriesOf(p, f) = 0 /\ args[p] # f
    <3>1. loading[p] # NoPage /\ args[p] = NoFrame
      BY MemoryAssumption DEF IInv, ProcOK, CallsHeld
    <3> QED
      BY <1>2, <3>1, OneWay, MemoryAssumption
  <2>2. \A v \in Pages : pte[p][v].frame # f
    BY <2>1, OwnCounts
  <2> QED
    BY <1>3, <2>1, <2>2
<1>4. CASE q # p
  BY <1>2, <1>4 DEF Refers
<1> QED
  BY <1>3, <1>4

(* Writing to a frame nobody sees changes nothing for anybody. *)
LEMMA UnseenWrite ==
  ASSUME NEW q \in Procs, NEW f \in Frames, NEW x, exe'[q] = exe[q], args'[q] = args[q],
         \A v \in Pages : pte'[q][v].frame = pte[q][v].frame,
         TypeOK, content' = [content EXCEPT ![f] = x],
         args[q] # f /\ \A v \in Pages : pte[q][v].frame # f
  PROVE  Keeps(q)
<1>1. \A g \in Frames \cup {LowFrame} : g # f => content'[g] = content[g]
  BY DEF TypeOK
<1>2. args[q] # NoFrame => content'[args[q]] = content[args[q]]
  BY <1>1 DEF TypeOK
<1>3. ASSUME NEW v \in Pages, Present(q, v)
      PROVE  content'[pte[q][v].frame] = content[pte[q][v].frame]
  <2>1. pte[q][v].frame \in Frames \cup {LowFrame}
    BY <1>3 DEF Present, TypeOK, Entries
  <2> QED
    BY <1>1, <2>1
<1> QED
  BY <1>2, <1>3, KeepsView

(* do_exit() takes the address space of one process. *)
LEMMA ExitView ==
  ASSUME TypeOK, NEW p \in Procs, NEW m, Alive(p), do_exit(p, m)
  PROVE  Priv!PrivExit(p)
<1>1. /\ zombie' = zombie \cup {p} /\ UNCHANGED <<content, task, args>>
      /\ pte' = [pte EXCEPT ![p] = [v \in Pages |-> Absent]]
      /\ exe' = [exe EXCEPT ![p] = NoExecutable]
  BY DEF do_exit
<1>2. ~Alive(p)'
  BY <1>1 DEF Alive
<1>3. ASSUME NEW q \in Procs, q # p PROVE (Alive(q)' <=> Alive(q)) /\ Keeps(q)
  <2>1. Alive(q)' <=> Alive(q)
    BY <1>1, <1>3 DEF Alive
  <2>2. exe'[q] = exe[q] /\ pte'[q] = pte[q]
    BY <1>1, <1>3 DEF TypeOK
  <2>3. Keeps(q)
    BY <1>1, <2>2, KeepsView
  <2> QED
    BY <2>1, <2>3
<1> QED
  BY <1>2, <1>3, PrivExits

(* The frames of the entries, the contents and who lives are the same. *)
LEMMA QuietView ==
  ASSUME UNCHANGED <<content, args, exe, task, zombie>>,
         \A q \in Procs, v \in Pages : pte'[q][v].frame = pte[q][v].frame
  PROVE  UNCHANGED Priv!memVars
<1>1. SameLiving
  BY DEF SameLiving, Alive
<1>2. \A q \in Procs : Keeps(q)
  BY KeepsView
<1> QED
  BY <1>1, <1>2, PrivSame

(* release() is of a process that has no memory any more. *)
LEMMA ReleaseView ==
  ASSUME IInv, NEW p \in Procs, Release(p)
  PROVE  UNCHANGED Priv!memVars
<1>1. /\ p \in zombie /\ zombie' = zombie \ {p} /\ task' = [task EXCEPT ![p] = NoFrame]
      /\ UNCHANGED <<content, pte, exe, args>>
  BY DEF Release, callVars
<1>2. SameLiving
  BY <1>1 DEF SameLiving, Alive, IInv, TypeOK
<1>3. \A q \in Procs : Keeps(q)
  BY <1>1, KeepsView
<1> QED
  BY <1>2, <1>3, PrivSame

(* copy_process(): the child sees what its father sees. *)
LEMMA ForkView ==
  ASSUME IInv, NEW p \in Procs, NEW c \in Procs, Fork(p, c)
  PROVE  Priv!PrivFork(p, c)
<1> DEFINE s == FreeFrame(mem_map)
<1>1. /\ InUser(p) /\ task[c] = NoFrame
      /\ Cardinality(FreeFrames(mem_map)) >= 1 + Cardinality(TablesToCopy(p))
      /\ pte' = [pte EXCEPT
           ![c] = [v \in Pages |-> [pte[p][v] EXCEPT !.w = FALSE]],
           ![p] = Protected(p, TablesToCopy(p))]
      /\ task' = [task EXCEPT ![c] = s]
      /\ exe' = [exe EXCEPT ![c] = exe[p]]
      /\ UNCHANGED <<content, zombie, args>>
  BY DEF Fork, callVars
<1>2. s \in Frames
  <2>1. mem_map \in [Frames -> Nat] /\ TablesToCopy(p) \in SUBSET Tables
    BY DEF IInv, TypeOK, TablesToCopy
  <2> QED
    BY <1>1, <2>1, ForkFrames
<1> HIDE DEF s
<1>3. /\ c # p /\ Alive(p) /\ args[p] = NoFrame /\ c \notin zombie /\ args[c] = NoFrame
      /\ ~Alive(c)
  BY <1>1 DEF InUser, Executing, Alive, IInv, ProcOK, SpaceHeld, Bare
<1>4. /\ task'[c] = s /\ exe'[c] = exe[p]
      /\ \A q \in Procs \ {c} : task'[q] = task[q] /\ exe'[q] = exe[q]
  BY <1>1 DEF IInv, TypeOK
<1>5. Alive(c)' /\ \A q \in Procs \ {c} : Alive(q)' <=> Alive(q)
  BY <1>1, <1>2, <1>3, <1>4, MemoryAssumption DEF Alive
<1>6. pte \in [Procs -> [Pages -> Entries]]
  BY DEF IInv, TypeOK
<1>7. /\ \A v \in Pages : pte'[c][v] = [pte[p][v] EXCEPT !.w = FALSE]
      /\ pte'[p] = Protected(p, TablesToCopy(p))
      /\ \A q \in Procs : q # c /\ q # p => pte'[q] = pte[q]
  <2> DEFINE cp == [v \in Pages |-> [pte[p][v] EXCEPT !.w = FALSE]]
             pp == Protected(p, TablesToCopy(p))
  <2>1. pte' = [pte EXCEPT ![c] = cp, ![p] = pp] /\ c # p
    BY <1>1, <1>3
  <2> HIDE DEF cp, pp
  <2>2. pte'[c] = cp /\ pte'[p] = pp /\ \A q \in Procs : q # c /\ q # p => pte'[q] = pte[q]
    BY ONLY <1>6, <2>1, p \in Procs, c \in Procs
  <2> QED
    BY <2>2 DEF cp, pp
<1>8. /\ \A v \in Pages : pte'[c][v].frame = pte[p][v].frame
      /\ \A v \in Pages : pte'[p][v].frame = pte[p][v].frame
  <2>1. \A v \in Pages : [pte[p][v] EXCEPT !.w = FALSE].frame = pte[p][v].frame
    BY <1>6, BitTypes
  <2> QED
    BY <1>7, <2>1 DEF Protected
<1>9. \A q \in Procs \ {c} : Keeps(q)
  BY <1>1, <1>4, <1>7, <1>8, KeepsView
<1>10. \A v \in Pages : View(c, v)' = View(p, v)
  <2>1. content' = content /\ args' = args
    BY <1>1
  <2>2. exe'[c] = exe[p] /\ args[c] = NoFrame /\ args[p] = NoFrame
    BY <1>3, <1>4
  <2> SUFFICES ASSUME NEW v \in Pages PROVE View(c, v)' = View(p, v)
    OBVIOUS
  <2>3. pte'[c][v].frame = pte[p][v].frame
    BY <1>8
  <2> QED
    BY ONLY <2>1, <2>2, <2>3 DEF View, PageValue, Present
<1> QED
  BY <1>3, <1>5, <1>9, <1>10, PrivForks

(* copy_process() fails: the father's pages stay where they are. *)
LEMMA ForkFailsView ==
  ASSUME IInv, NEW p \in Procs, NEW c \in Procs, ForkFails(p, c)
  PROVE  UNCHANGED Priv!memVars
<1>1. PICK ks : pte' = [pte EXCEPT ![p] = Protected(p, ks)]
  BY DEF ForkFails
<1>2. UNCHANGED <<content, args, exe, task, zombie>>
  BY DEF ForkFails, procVars, callVars
<1>3. pte \in [Procs -> [Pages -> Entries]]
  BY DEF IInv, TypeOK
<1>4. ASSUME NEW q \in Procs, NEW v \in Pages PROVE pte'[q][v].frame = pte[q][v].frame
  <2>1. [pte[p][v] EXCEPT !.w = FALSE].frame = pte[p][v].frame
    BY <1>3, BitTypes
  <2> QED
    BY <1>1, <1>3, <2>1 DEF Protected
<1> QED
  BY <1>2, <1>4, QuietView

(* un_wp_page(): p sees the same in the page it may now write to. *)
LEMMA UnprotectView ==
  ASSUME IInv, NEW p \in Procs, NEW v \in Pages, Present(p, v), args[p] = NoFrame,
         UnprotectLast(p, v) \/ UnprotectCopy(p, v),
         UNCHANGED <<args, exe, task, zombie>>
  PROVE  UNCHANGED Priv!memVars
<1>1. pte \in [Procs -> [Pages -> Entries]] /\ mem_map \in [Frames -> Nat] /\ TypeOK
  BY DEF IInv, TypeOK
<1>2. CASE UnprotectLast(p, v)
  <2>1. [pte[p][v] EXCEPT !.w = TRUE].frame = pte[p][v].frame
    BY <1>1, BitTypes
  <2>2. \A q \in Procs, u \in Pages : pte'[q][u].frame = pte[q][u].frame
    BY <1>1, <1>2, <2>1 DEF UnprotectLast
  <2>3. UNCHANGED content
    BY <1>2 DEF UnprotectLast
  <2> QED
    BY <2>2, <2>3, QuietView
<1>3. CASE UnprotectCopy(p, v)
  <2> DEFINE old == pte[p][v].frame
             new == FreeFrame(mem_map)
  <2>1. /\ FreeFrames(mem_map) # {}
        /\ content' = [content EXCEPT ![new] = content[old]]
        /\ pte' = [pte EXCEPT ![p][v] = [frame |-> new, w |-> TRUE, d |-> FALSE]]
    BY <1>3 DEF UnprotectCopy
  <2>2. new \in Frames /\ mem_map[new] = 0
    BY <1>1, <2>1, FreeFrameFree
  <2>3. old \in Frames \cup {LowFrame}
    BY <1>1 DEF Present, Entries
  <2> HIDE DEF new, old
  <2>4. \A q \in Procs : args[q] # new /\ \A u \in Pages : pte[q][u].frame # new
    BY <2>2, FreeUnseen
  <2>5. \A q \in Procs \ {p} : Keeps(q)
    <3>1. \A q \in Procs \ {p} : pte'[q] = pte[q]
      BY <1>1, <2>1
    <3> QED
      BY <1>1, <2>1, <2>2, <2>4, <3>1, UnseenWrite
  <2>6. Keeps(p)
    <3>1. \A g \in Frames \cup {LowFrame} : g # new => content'[g] = content[g]
      BY <1>1, <2>1 DEF TypeOK
    <3>2. content'[new] = content[old]
      BY <1>1, <2>1, <2>2 DEF TypeOK
    <3>3. pte'[p][v].frame = new
      BY <1>1, <2>1
    <3>4. \A u \in Pages \ {v} : pte'[p][u] = pte[p][u]
      BY <1>1, <2>1
    <3>5. View(p, v)' = View(p, v)
      BY <2>2, <3>2, <3>3, MemoryAssumption DEF View, PageValue, Present, old
    <3>6. ASSUME NEW u \in Pages, u # v PROVE View(p, u)' = View(p, u)
      <4>1. Present(p, u) => content'[pte[p][u].frame] = content[pte[p][u].frame]
        BY <1>1, <2>4, <3>1 DEF Present, Entries
      <4> QED
        BY <3>4, <3>6, <4>1 DEF View, PageValue, Present
    <3> QED
      BY <3>5, <3>6 DEF Keeps
  <2>7. SameLiving
    BY DEF SameLiving, Alive
  <2> QED
    BY <2>5, <2>6, <2>7, PrivSame
<1> QED
  BY <1>2, <1>3

(* do_wp_page(): a page becomes writable, or p runs out of memory. *)
LEMMA WpPageView ==
  ASSUME IInv, NEW p \in Procs, NEW v \in Pages, do_wp_page(p, v)
  PROVE  Priv!PrivExit(p) \/ UNCHANGED Priv!memVars
<1>1. Alive(p) /\ args[p] = NoFrame /\ Present(p, v)
  BY DEF do_wp_page, InUser, Executing
<1>2. CASE UnprotectLast(p, v) \/ UnprotectCopy(p, v)
  <2>1. UNCHANGED <<args, exe, task, zombie>> \/ UnprotectOom(p, v)
    BY DEF do_wp_page, procVars, callVars
  <2>2. ~UnprotectOom(p, v)
    BY <1>2 DEF UnprotectOom, UnprotectLast, UnprotectCopy
  <2> QED
    BY <1>1, <1>2, <2>1, <2>2, UnprotectView
<1>3. CASE UnprotectOom(p, v)
  BY <1>1, <1>3, ExitView DEF UnprotectOom, IInv
<1> QED
  BY <1>2, <1>3 DEF do_wp_page

(* verify_area(): the same, before a system call writes. *)
LEMMA VerifyAreaView ==
  ASSUME IInv, NEW p \in Procs, NEW v \in Pages, VerifyArea(p, v)
  PROVE  Priv!PrivExit(p) \/ UNCHANGED Priv!memVars
<1>1. Alive(p) /\ args[p] = NoFrame
  BY DEF VerifyArea, InUser, Executing
<1>2. CASE Present(p, v) /\ (UnprotectLast(p, v) \/ UnprotectCopy(p, v))
           /\ UNCHANGED <<args, procVars>>
  BY <1>1, <1>2, UnprotectView DEF procVars
<1>3. CASE UnprotectOom(p, v)
  BY <1>1, <1>3, ExitView DEF UnprotectOom, IInv
<1>4. CASE UNCHANGED <<content, pte, procVars, args>>
  BY <1>4, QuietView DEF procVars
<1> QED
  BY <1>2, <1>3, <1>4 DEF VerifyArea

(* A call that returns without writing. *)
LEMMA ReturnView ==
  ASSUME NEW p \in Procs, ReturnUnwritten(p)
  PROVE  UNCHANGED Priv!memVars
BY QuietView DEF ReturnUnwritten, procVars

(* A frame p may write to is seen by nobody else, and at one page only. *)
LEMMA WriterAlone ==
  ASSUME IInv, NEW p \in Procs, NEW v \in Pages, pte[p][v].w
  PROVE  /\ pte[p][v].frame \in Frames
         /\ \A q \in Procs : args[q] # pte[p][v].frame
         /\ \A q \in Procs, u \in Pages :
              pte[q][u].frame = pte[p][v].frame => q = p /\ u = v
<1> DEFINE f == pte[p][v].frame
<1>1. f \in Frames
  BY DEF IInv, ProcOK, EntriesBacked
<1>2. mem_map[f] <= 1 /\ Refers(p, f)
  BY <1>1 DEF IInv, SingleUse, Holds, Refers
<1>3. Own(p, f) = 1 /\ \A r \in Procs \ {p} : ~Refers(r, f)
  BY <1>1, <1>2, Owners DEF IInv
<1>4. args[p] # f
  BY <1>1, <1>3, OneWay
<1>5. \A q \in Procs : args[q] # f
  BY <1>3, <1>4 DEF Refers
<1>6. WritableAlone
  BY InvWritableAlone
<1> QED
  BY <1>1, <1>5, <1>6 DEF WritableAlone

(* A write through a writable entry is seen by the writer only. *)
LEMMA WriteView ==
  ASSUME IInv, NEW p \in Procs, NEW v \in Pages, NEW x, Alive(p), args[p] = NoFrame,
         pte[p][v].w,
         content' = [content EXCEPT ![pte[p][v].frame] = x],
         pte' = [pte EXCEPT ![p][v].d = TRUE],
         UNCHANGED <<args, exe, task, zombie>>
  PROVE  Priv!PrivWrite(p, v)
<1> DEFINE f == pte[p][v].frame
<1>1. /\ f \in Frames /\ \A q \in Procs : args[q] # f
      /\ \A q \in Procs, u \in Pages : pte[q][u].frame = f => q = p /\ u = v
  BY WriterAlone
<1>2. pte \in [Procs -> [Pages -> Entries]] /\ TypeOK
  BY DEF IInv, TypeOK
<1>3. \A q \in Procs, u \in Pages : pte'[q][u].frame = pte[q][u].frame
  <2>1. [pte[p][v] EXCEPT !.d = TRUE].frame = pte[p][v].frame
    BY <1>2, BitTypes
  <2> QED
    BY <1>2, <2>1
<1>4. content' = [content EXCEPT ![f] = x]
  OBVIOUS
<1> HIDE DEF f
<1>5. ASSUME NEW q \in Procs \ {p} PROVE Keeps(q)
  <2>1. /\ args[q] # f /\ \A u \in Pages : pte[q][u].frame # f
        /\ exe'[q] = exe[q] /\ args'[q] = args[q]
        /\ \A u \in Pages : pte'[q][u].frame = pte[q][u].frame
    BY <1>1, <1>3
  <2> QED
    BY ONLY <1>1, <1>2, <1>4, <2>1, q \in Procs, UnseenWrite
<1>6. ASSUME NEW u \in Pages \ {v} PROVE View(p, u)' = View(p, u)
  <2>1. Present(p, u) => pte[p][u].frame \in Frames \cup {LowFrame} /\ pte[p][u].frame # f
    BY <1>1, <1>2 DEF Present, Entries
  <2>2. Present(p, u) => content'[pte[p][u].frame] = content[pte[p][u].frame]
    BY <1>2, <1>4, <2>1 DEF TypeOK
  <2> QED
    BY <1>3, <2>2 DEF View, PageValue, Present
<1>7. SameLiving
  BY DEF SameLiving, Alive
<1> QED
  BY <1>5, <1>6, <1>7, PrivWrites

(* A write in user mode. *)
LEMMA UserWriteView ==
  ASSUME IInv, NEW p \in Procs, NEW v \in Pages, NEW x \in Written, UserWrite(p, v, x)
  PROVE  Priv!PrivWrite(p, v)
BY WriteView DEF UserWrite, InUser, Executing, procVars, callVars

(* A write of the kernel through an entry that allows it. *)
LEMMA CopyToUserView ==
  ASSUME IInv, NEW p \in Procs, NEW v \in Pages, NEW x \in Written, CopyToUser(p, v, x),
         pte[p][v].w
  PROVE  Priv!PrivWrite(p, v)
<1>1. /\ content' = [content EXCEPT ![pte[p][v].frame] = x]
      /\ pte' = [pte EXCEPT ![p][v].d = TRUE] /\ UNCHANGED <<args, exe, task, zombie>>
  BY DEF CopyToUser, procVars
<1>2. Executing(p)
  BY Zenon DEF CopyToUser, InUser
<1> QED
  BY <1>1, <1>2, WriteView DEF Executing

(* Only fork(), exit() and release() change who lives. *)
LEMMA SameAlive == ASSUME UNCHANGED <<task, zombie>> PROVE SameLiving
BY DEF SameLiving, Alive

(* A page is entered for p in a frame nobody sees. *)
LEMMA MapView ==
  ASSUME IInv, NEW p \in Procs, NEW v \in Pages, NEW f \in Frames, NEW x, NEW m,
         Alive(p), args[p] = NoFrame,
         \A q \in Procs : args[q] # f /\ \A u \in Pages : pte[q][u].frame # f,
         MapEntry(m, p, v, Writable(f)), content' = [content EXCEPT ![f] = x],
         UNCHANGED <<args, exe, task, zombie>>
  PROVE  Priv!PrivWrite(p, v)
<1>1. pte \in [Procs -> [Pages -> Entries]] /\ TypeOK
  BY DEF IInv, TypeOK
<1>2. pte' = [pte EXCEPT ![p][v] = Writable(f)]
  BY DEF MapEntry
<1>3. /\ \A q \in Procs \ {p} : pte'[q] = pte[q]
      /\ \A u \in Pages \ {v} : pte'[p][u] = pte[p][u]
  BY <1>1, <1>2
<1>4. ASSUME NEW q \in Procs \ {p} PROVE Keeps(q)
  BY <1>1, <1>3, UnseenWrite
<1>5. ASSUME NEW u \in Pages \ {v} PROVE View(p, u)' = View(p, u)
  <2>1. Present(p, u) => pte[p][u].frame \in Frames \cup {LowFrame} /\ pte[p][u].frame # f
    BY <1>1 DEF Present, Entries
  <2>2. Present(p, u) => content'[pte[p][u].frame] = content[pte[p][u].frame]
    BY <1>1, <2>1 DEF TypeOK
  <2> QED
    BY <1>3, <2>2 DEF View, PageValue, Present
<1> QED
  BY <1>4, <1>5, SameAlive, PrivWrites

(* A page that is not part of the executable. *)
LEMMA EmptyPageView ==
  ASSUME IInv, NEW p \in Procs, NEW v \in Pages, EmptyPage(p, v)
  PROVE  Priv!PrivWrite(p, v) \/ Priv!PrivExit(p)
<1> DEFINE f == FreeFrame(mem_map)
<1>1. Alive(p) /\ args[p] = NoFrame
  BY DEF EmptyPage, Touches, Executing
<1>2. CASE do_exit(p, free_page_tables(p))
  BY <1>1, <1>2, ExitView DEF IInv
<1>3. CASE /\ FreeFrames(mem_map) # {}
           /\ MapEntry(Take(mem_map, f), p, v, Writable(f))
           /\ content' = [content EXCEPT ![f] = Zero]
           /\ UNCHANGED <<args, exe, task, zombie>>
  <2>1. f \in Frames /\ mem_map[f] = 0
    BY <1>3, FreeFrameFree DEF IInv, TypeOK
  <2>2. \A q \in Procs : args[q] # f /\ \A u \in Pages : pte[q][u].frame # f
    BY <2>1, FreeUnseen
  <2>3. PICK m : MapEntry(m, p, v, Writable(f))
    BY <1>3
  <2> HIDE DEF f
  <2> QED
    BY <1>1, <1>3, <2>1, <2>2, <2>3, MapView
<1> QED
  BY <1>2, <1>3 DEF EmptyPage, procVars, callVars

(* The page that was read is entered, or there is no memory for its table. *)
LEMMA FinishLoadView ==
  ASSUME IInv, NEW p \in Procs, FinishLoad(p)
  PROVE  (\E v \in Pages : Priv!PrivWrite(p, v)) \/ Priv!PrivExit(p)
<1> DEFINE v == loading[p]
           f == lframe[p]
<1>1. v # NoPage /\ v \in Pages
  BY DEF FinishLoad, IInv, TypeOK
<1>2. Alive(p) /\ args[p] = NoFrame /\ f \in Frames
  BY <1>1 DEF IInv, ProcOK, SpaceHeld, Bare, CallsHeld, TypeOK
<1>3. CASE ~CanMap(mem_map, p, v)
  BY <1>2, <1>3, ExitView DEF FinishLoad, IInv
<1>4. CASE CanMap(mem_map, p, v)
  <2>1. /\ MapEntry(mem_map, p, v, Writable(f)) /\ content' = [content EXCEPT ![f] = exe[p]]
        /\ UNCHANGED <<args, exe, task, zombie>>
    BY <1>4 DEF FinishLoad, procVars
  <2>2. \A q \in Procs : args[q] # f /\ \A u \in Pages : pte[q][u].frame # f
    BY <1>2, LoadUnseen
  <2> HIDE DEF v, f
  <2> QED
    BY <1>1, <1>2, <2>1, <2>2, MapView
<1> QED
  BY <1>3, <1>4

(* The page another process has in place of the one in the file. *)
LEMMA SharePageView ==
  ASSUME IInv, NEW p \in Procs, NEW v \in Pages, SharePage(p, v)
  PROVE  Priv!PrivWrite(p, v) \/ Priv!PrivExit(p)
<1> DEFINE q == Max(Sharable(p, v))
           entry == [pte[q][v] EXCEPT !.w = FALSE]
<1>1. Alive(p) /\ args[p] = NoFrame /\ Sharable(p, v) # {}
  BY DEF SharePage, Wanted, Touches, Executing
<1>2. CASE do_exit(p, free_page_tables(p))
  BY <1>1, <1>2, ExitView DEF IInv
<1>3. CASE /\ pte' = [pte EXCEPT ![p][v] = entry, ![q][v] = entry]
           /\ UNCHANGED <<content, args, exe, task, zombie>>
  <2>1. pte \in [Procs -> [Pages -> Entries]]
    BY DEF IInv, TypeOK
  <2>2. q \in Procs /\ q # p
    BY <1>1, SharableMax DEF Sharable
  <2> HIDE DEF q
  <2>3. entry.frame = pte[q][v].frame
    BY <2>1, <2>2, BitTypes
  <2>4. pte' = [pte EXCEPT ![p][v] = entry, ![q][v] = entry]
    BY <1>3
  <2> HIDE DEF entry
  <2>5. /\ pte'[q][v] = entry /\ \A u \in Pages \ {v} : pte'[q][u] = pte[q][u]
        /\ \A u \in Pages \ {v} : pte'[p][u] = pte[p][u]
        /\ \A r \in Procs : r # p /\ r # q => pte'[r] = pte[r]
    BY ONLY <2>1, <2>2, <2>4, p \in Procs, v \in Pages
  <2>6. \A r \in Procs \ {p}, u \in Pages : pte'[r][u].frame = pte[r][u].frame
    BY <2>3, <2>5
  <2>7. \A r \in Procs \ {p} : Keeps(r)
    BY <1>3, <2>6, KeepsView
  <2>8. ASSUME NEW u \in Pages \ {v} PROVE View(p, u)' = View(p, u)
    <3>1. pte'[p][u] = pte[p][u] /\ UNCHANGED <<content, args, exe>>
      BY <1>3, <2>5
    <3> QED
      BY ONLY <3>1 DEF View, PageValue, Present, FreshPage
  <2> QED
    BY <1>1, <1>3, <2>7, <2>8, SameAlive, PrivWrites
<1> QED
  BY <1>2, <1>3 DEF SharePage, procVars, callVars

(* A frame is taken for the page to be read into: nobody sees it. *)
LEMMA StartLoadView ==
  ASSUME IInv, NEW p \in Procs, NEW v \in Pages, StartLoad(p, v)
  PROVE  Priv!PrivExit(p) \/ UNCHANGED Priv!memVars
<1>1. Alive(p)
  BY DEF StartLoad, Wanted, Touches, Executing
<1>2. CASE do_exit(p, free_page_tables(p))
  BY <1>1, <1>2, ExitView DEF IInv
<1>3. CASE UNCHANGED <<content, pte, procVars, args>>
  BY <1>3, QuietView DEF procVars
<1> QED
  BY <1>2, <1>3 DEF StartLoad

(* The point of no return of execve(): from here on p is its new program,  *)
(* with the arguments in the page that was taken for them.                 *)
LEMMA ExecView ==
  ASSUME IInv, NEW p \in Procs, NEW e \in Executables, NEW x \in Written, Exec(p, e, x)
  PROVE  Priv!PrivExec(p, e, ArgPage)
<1> DEFINE a == FreeFrame(mem_map)
<1>1. /\ Alive(p) /\ FreeFrames(mem_map) # {} /\ content' = [content EXCEPT ![a] = x]
      /\ exe' = [exe EXCEPT ![p] = e] /\ args' = [args EXCEPT ![p] = a]
      /\ UNCHANGED <<pte, task, zombie>>
  BY DEF Exec, InUser, Executing
<1>2. TypeOK
  BY DEF IInv
<1>3. a \in Frames /\ mem_map[a] = 0
  BY <1>1, <1>2, FreeFrameFree DEF TypeOK
<1> HIDE DEF a
<1>4. \A q \in Procs : args[q] # a /\ \A u \in Pages : pte[q][u].frame # a
  BY <1>3, FreeUnseen
<1>5. ASSUME NEW q \in Procs \ {p} PROVE Keeps(q)
  <2>1. exe'[q] = exe[q] /\ args'[q] = args[q]
    BY <1>1, <1>2 DEF TypeOK
  <2> QED
    BY <1>1, <1>2, <1>3, <1>4, <2>1, UnseenWrite
<1>6. exe'[p] = e /\ args'[p] = a /\ a # NoFrame
  BY <1>1, <1>2, <1>3, MemoryAssumption DEF TypeOK
<1>7. \A v \in Pages \ {ArgPage} : View(p, v)' = FreshPage(e, v)
  BY <1>6 DEF View, FreshPage
<1> QED
  BY <1>1, <1>5, <1>7, SameAlive, PrivExecs

(* The rest of execve() makes true what p sees already: put_page() found   *)
(* room for the table of the argument page.                                *)
LEMMA ExecFinishView ==
  ASSUME IInv, NEW p \in Procs, ExecFinish(p)
  PROVE  UNCHANGED Priv!memVars
<1> DEFINE a == args[p]
<1>1. /\ a # NoFrame /\ NewImage(p, a) /\ args' = [args EXCEPT ![p] = NoFrame]
      /\ UNCHANGED <<content, exe, task, zombie>>
  BY DEF ExecFinish, procVars
<1>2. TypeOK /\ exe[p] # NoExecutable /\ FreeFrames(free_page_tables(p)) # {}
  BY <1>1, InvExecHasRoom DEF IInv, ProcOK, CallsHeld, ExecHasRoom
<1>3. pte' = [pte EXCEPT ![p] = [v \in Pages |->
                 IF v = ArgPage THEN Writable(a) ELSE Absent]]
  BY <1>1, <1>2 DEF NewImage
<1>4. /\ \A q \in Procs \ {p} : pte'[q] = pte[q] /\ args'[q] = args[q]
      /\ args'[p] = NoFrame
      /\ \A v \in Pages : pte'[p][v] = IF v = ArgPage THEN Writable(a) ELSE Absent
  BY <1>1, <1>2, <1>3 DEF TypeOK
<1>5. \A q \in Procs \ {p} : Keeps(q)
  BY <1>1, <1>4, KeepsView
<1>6. ASSUME NEW v \in Pages PROVE View(p, v)' = View(p, v)
  <2>1. CASE v = ArgPage
    BY <1>1, <1>4, <2>1 DEF View, PageValue, Present, Writable
  <2>2. CASE v # ArgPage
    BY <1>1, <1>2, <1>4, <2>2 DEF View, PageValue, Present, Absent, FreshPage
  <2> QED
    BY <2>1, <2>2
<1> QED
  BY <1>1, <1>5, <1>6, SameAlive, PrivSame DEF Keeps

----------------------------------------------------------------------------
(* Every step is a step of private memories, or a write of the kernel      *)
(* through a protected entry, or changes nothing that a process sees.      *)
LEMMA NextView ==
  ASSUME IInv, [Next]_vars
  PROVE  [\/ Priv!PrivNext
          \/ \E p \in Procs, v \in Pages, x \in Written :
               ~pte[p][v].w /\ CopyToUser(p, v, x)]_(Priv!memVars)
<1> USE DEF Priv!PrivNext
<1>1. CASE UNCHANGED vars
  BY <1>1, QuietView DEF vars, procVars, callVars
<1>2. CASE Next
  <2>1. PICK p \in Procs : ProcStep(p)
    BY <1>2 DEF Next
  <2>2. CASE Exit(p)
    <3>1. Priv!PrivExit(p)
      BY <2>2, ExitView DEF Exit, InUser, Executing, IInv
    <3> QED
      BY <3>1
  <2>3. CASE Release(p)
    BY <2>3, ReleaseView
  <2>4. ASSUME NEW c \in Procs, Fork(p, c) PROVE Priv!PrivNext
    <3>1. Priv!PrivFork(p, c)
      BY <2>4, ForkView
    <3> QED
      BY <3>1
  <2>5. ASSUME NEW c \in Procs, ForkFails(p, c) PROVE UNCHANGED Priv!memVars
    BY <2>5, ForkFailsView
  <2>6. ASSUME NEW v \in Pages, do_wp_page(p, v) \/ VerifyArea(p, v) \/ StartLoad(p, v)
        PROVE  Priv!PrivNext \/ UNCHANGED Priv!memVars
    <3>1. Priv!PrivExit(p) \/ UNCHANGED Priv!memVars
      BY <2>6, WpPageView, VerifyAreaView, StartLoadView
    <3> QED
      BY <3>1
  <2>7. ASSUME NEW v \in Pages, EmptyPage(p, v) \/ SharePage(p, v) PROVE Priv!PrivNext
    <3>1. Priv!PrivWrite(p, v) \/ Priv!PrivExit(p)
      BY <2>7, EmptyPageView, SharePageView
    <3> QED
      BY <3>1
  <2>8. ASSUME NEW v \in Pages, NEW x \in Written, UserWrite(p, v, x) PROVE Priv!PrivNext
    <3>1. Priv!PrivWrite(p, v)
      BY <2>8, UserWriteView
    <3> QED
      BY <3>1
  <2>9. ASSUME NEW v \in Pages, NEW x \in Written, CopyToUser(p, v, x), pte[p][v].w
        PROVE  Priv!PrivNext
    <3>1. Priv!PrivWrite(p, v)
      BY <2>9, CopyToUserView
    <3> QED
      BY <3>1
  <2>10. CASE FinishLoad(p)
    <3>1. (\E v \in Pages : Priv!PrivWrite(p, v)) \/ Priv!PrivExit(p)
      BY <2>10, FinishLoadView
    <3> QED
      BY <3>1
  <2>11. CASE ReturnUnwritten(p)
    BY <2>11, ReturnView
  <2>12. ASSUME NEW e \in Executables, NEW x \in Written, Exec(p, e, x) PROVE Priv!PrivNext
    <3>1. Priv!PrivExec(p, e, ArgPage) /\ ArgPage \in Pages
      BY <2>12, ExecView, MemoryAssumption
    <3> QED
      BY <3>1
  <2>13. CASE ExecFinish(p)
    BY <2>13, ExecFinishView
  <2> HIDE DEF Priv!PrivNext
  <2> QED
    BY <2>1, <2>2, <2>3, <2>4, <2>5, <2>6, <2>7, <2>8, <2>9, <2>10, <2>11, <2>12, <2>13
       DEF ProcStep
<1> QED
  BY <1>1, <1>2

(* Every process has a memory of its own: fork() copies it, execve()       *)
(* replaces it, and otherwise only the process itself changes it, but for  *)
(* what the kernel writes through an entry that is protected.              *)
THEOREM MemoryIsPrivate == Spec => UserIsolation
<1>1. Init => Priv!PrivInit
  BY InitView
<1>2. IInv /\ [Next]_vars =>
        [\/ Priv!PrivNext
         \/ \E p \in Procs, v \in Pages, x \in Written :
              ~pte[p][v].w /\ CopyToUser(p, v, x)]_(Priv!memVars)
  BY NextView
<1> QED
  BY <1>1, <1>2, InvHolds, PTL DEF Spec, UserIsolation
=============================================================================
