---------------------------- MODULE ProcessProofs ----------------------------
(***************************************************************************)
(* Process life cycle: the types, unique pids, living fathers and heard    *)
(* deaths, for every size of task[], every largest pid and whatever        *)
(* programs send, block and handle.                                        *)
(*                                                                         *)
(* The actions edit task[] in several places before they end, so the       *)
(* invariant is stated for a table T and each edit has a lemma.            *)
(***************************************************************************)
EXTENDS Process, OrderTheorems

Typed(T) == T \in [Slots -> Task \cup {NoTask}]

(* No two live processes have one pid. *)
Unique(T) == \A i, j \in Live(T) : T[i].pid = T[j].pid => i = j

(* Every father is there and has not begun to exit. *)
Fathers(T) ==
  \A i \in Live(T) \ {0} :
    \E j \in Live(T) : T[j].pid = T[i].father /\ T[j].at \notin {"exit", "gone"}

(* The idle task is in no call; init only ever has SIGCHLD pending and is  *)
(* in nobody's session, so it never exits.                                 *)
Roots(T) ==
  /\ T[0] # NoTask /\ T[0].pid = 0 /\ T[0].state = "RUNNING" /\ T[0].at = "user"
  /\ T[1] # NoTask /\ T[1].pid = 1 /\ T[1].state # "ZOMBIE"
  /\ T[1].at \notin {"exit", "gone"}
  /\ T[1].session = 0 /\ ~T[1].leader /\ T[1].signal \subseteq {SIGCHLD}

(* A session leader is the leader of its own session, not of init's. *)
Leaders(T) == \A i \in Live(T) \ {0} : T[i].leader => T[i].session = T[i].pid

(* A zombie has left the kernel for good. *)
Gone(T) == \A i \in Live(T) : T[i].state = "ZOMBIE" => T[i].at = "gone"

(* i sleeps in waitpid() for any child or for one. *)
Waits(T, i) ==
  /\ T[i].at = "waitpid" /\ T[i].state = "INTERRUPTIBLE"
  /\ T[i].want = -1 \/ T[i].want > 0

(* j is a zombie that waitpid(want) of i would collect. *)
Collectable(T, i, want, j) ==
  /\ j \in Live(T) \ {0, i}
  /\ T[j].state = "ZOMBIE" /\ T[j].father = T[i].pid
  /\ want = -1 \/ T[j].pid = want

Heard(T) ==
  \A i, j \in Live(T) :
    Waits(T, i) /\ Collectable(T, i, T[i].want, j) => SIGCHLD \in T[i].signal

TableInv(T) ==
  Typed(T) /\ Unique(T) /\ Fathers(T) /\ Roots(T) /\ Leaders(T) /\ Gone(T) /\ Heard(T)

CurrentRuns(T, c) == c \in Slots /\ T[c] # NoTask /\ T[c].state = "RUNNING"

CountersOK ==
  /\ last_pid \in Pids
  /\ signals \in 0 .. MaxSignals /\ changes \in 0 .. MaxChanges

ProcIInv == TableInv(task) /\ CurrentRuns(task, current) /\ CountersOK

(* What is in a slot in use. *)
LEMMA LiveTask ==
  ASSUME NEW T, Typed(T), NEW i \in Live(T) PROVE i \in Slots /\ T[i] \in Task
BY DEF Typed, Live

LEMMA SlotsInt == Slots \subseteq Nat /\ 0 \in Slots /\ 1 \in Slots
BY ProcessAssumption DEF Slots

(* The inductive invariant is at least as strong as the three invariants   *)
(* the runs check.                                                         *)
LEMMA IInvStronger == ProcIInv => ProcInv /\ FatherLives /\ DeathHeard
<1> SUFFICES ASSUME ProcIInv PROVE ProcInv /\ FatherLives /\ DeathHeard
  OBVIOUS
<1> USE DEF ProcIInv, TableInv
<1>1. ProcTypeOK
  BY DEF ProcTypeOK, Typed, CurrentRuns, CountersOK, Roots, Zombie
<1>2. PidsUnique
  BY DEF PidsUnique, Unique
<1>3. FatherLives
  BY DEF FatherLives, Fathers
<1>4. DeathHeard
  <2> SUFFICES ASSUME NEW i \in Live(task), NEW j \in Slots,
                      task[i].at = "waitpid" /\ task[i].state = "INTERRUPTIBLE",
                      task[i].want = -1 \/ task[i].want > 0,
                      j \in Awaited(task, i, task[i].want), Zombie(j)
               PROVE  SIGCHLD \in task[i].signal
    BY DEF DeathHeard
  <2>1. j \in Live(task) \ {0, i} /\ task[j].father = task[i].pid
    BY DEF Awaited
  <2>2. task[i].want \in Int
    BY LiveTask, ProcessAssumption DEF Task
  <2>3. task[i].want = -1 \/ task[j].pid = task[i].want
    BY <2>2 DEF Awaited
  <2> QED
    BY <2>1, <2>3 DEF Heard, Waits, Collectable, Zombie
<1> QED
  BY <1>1, <1>2, <1>3, <1>4 DEF ProcInv

-----------------------------------------------------------------------------
(* An edit that leaves every process its identity, and may only wake       *)
(* sleepers and add signals (schedule() and send_sig()), keeps the         *)
(* invariant.                                                              *)
Nudged(p, q) ==
  /\ q \in Task
  /\ q.pid = p.pid /\ q.father = p.father /\ q.session = p.session
  /\ q.leader = p.leader /\ q.at = p.at /\ q.want = p.want
  /\ \/ q.state = p.state
     \/ p.state = "INTERRUPTIBLE" /\ q.state = "RUNNING"
  /\ p.signal \subseteq q.signal

LEMMA NudgeKeeps ==
  ASSUME NEW T, TableInv(T), NEW U,
         U = [i \in Slots |-> U[i]],
         \A i \in Slots \ Live(T) : U[i] = NoTask,
         \A i \in Live(T) : Nudged(T[i], U[i]),
         U[1].signal \subseteq {SIGCHLD}
  PROVE  TableInv(U)
<1>1. Live(U) = Live(T)
  BY NoTaskAssumption DEF Live, Nudged
<1>2. Typed(U)
  BY <1>1 DEF Typed, Live, Nudged
<1>9. \A i \in Live(T) :
        /\ U[i].pid = T[i].pid /\ U[i].father = T[i].father /\ U[i].at = T[i].at
        /\ U[i].session = T[i].session /\ U[i].leader = T[i].leader
  BY DEF Nudged
<1>3. Unique(U)
  BY <1>1, <1>9 DEF TableInv, Unique
<1>4. Fathers(U)
  <2> SUFFICES ASSUME NEW i \in Live(T) \ {0}
               PROVE  \E j \in Live(T) :
                        U[j].pid = U[i].father /\ U[j].at \notin {"exit", "gone"}
    BY <1>1 DEF Fathers
  <2>1. PICK j \in Live(T) : T[j].pid = T[i].father /\ T[j].at \notin {"exit", "gone"}
    BY DEF TableInv, Fathers
  <2> QED
    BY <1>9, <2>1
<1>5. Roots(U)
  <2>1. 0 \in Live(T) /\ 1 \in Live(T)
    BY SlotsInt DEF TableInv, Roots, Live
  <2>2. Nudged(T[0], U[0]) /\ Nudged(T[1], U[1])
    BY <2>1
  <2> QED
    BY <1>1, <2>1, <2>2 DEF TableInv, Roots, Nudged, Live
<1>6. Leaders(U)
  BY <1>1, <1>9 DEF TableInv, Leaders
<1>7. Gone(U)
  BY <1>1 DEF TableInv, Gone, Nudged
<1>8. Heard(U)
  <2> SUFFICES ASSUME NEW i \in Live(T), NEW j \in Live(T),
                      Waits(U, i), Collectable(U, i, U[i].want, j)
               PROVE  SIGCHLD \in U[i].signal
    BY <1>1 DEF Heard
  <2>1. Nudged(T[i], U[i]) /\ Nudged(T[j], U[j])
    OBVIOUS
  <2>2. Waits(T, i)
    BY <2>1 DEF Waits, Nudged
  <2>3. Collectable(T, i, T[i].want, j)
    BY <2>1 DEF Collectable, Nudged
  <2> QED
    BY <2>1, <2>2, <2>3 DEF TableInv, Heard, Nudged
<1> QED
  BY <1>2, <1>3, <1>4, <1>5, <1>6, <1>7, <1>8 DEF TableInv

(* The loop of schedule() over the signals. *)
LEMMA WokenKeeps == ASSUME NEW T, TableInv(T) PROVE TableInv(Woken(T))
<1> DEFINE U == Woken(T)
<1>1. U = [i \in Slots |-> U[i]]
  BY DEF Woken
<1>2. \A i \in Slots \ Live(T) : U[i] = NoTask
  BY DEF Woken, Live
<1>3. \A i \in Live(T) : Nudged(T[i], U[i])
  <2> TAKE i \in Live(T)
  <2>1. T[i] \in Task /\ i \in Slots
    BY LiveTask DEF TableInv
  <2>2. \/ U[i] = T[i]
        \/ T[i].state = "INTERRUPTIBLE" /\ U[i] = [T[i] EXCEPT !.state = "RUNNING"]
    BY <2>1 DEF Woken
  <2> HIDE DEF U
  <2> QED
    BY <2>1, <2>2 DEF Nudged, Task
<1>4. U[1].signal \subseteq {SIGCHLD}
  <2>1. 1 \in Live(T)
    BY SlotsInt DEF TableInv, Roots, Live
  <2>2. T[1] \in Task /\ T[1].signal \subseteq {SIGCHLD}
    BY <2>1, LiveTask DEF TableInv, Roots
  <2>3. U[1] = T[1] \/ U[1] = [T[1] EXCEPT !.state = "RUNNING"]
    BY SlotsInt DEF Woken
  <2> HIDE DEF U
  <2> QED
    BY <2>2, <2>3 DEF Task
<1>5. TableInv(U)
  <2> HIDE DEF U
  <2> QED
    BY <1>1, <1>2, <1>3, <1>4, NudgeKeeps
<1> QED
  BY <1>5

(* send_sig(): to init only SIGCHLD. *)
LEMMA SendKeeps ==
  ASSUME NEW T, TableInv(T), NEW S, NEW sig \in Signals, 1 \in S => sig = SIGCHLD
  PROVE  TableInv(SendTo(T, S, sig))
<1> DEFINE U == SendTo(T, S, sig)
<1>1. U = [i \in Slots |-> U[i]]
  BY DEF SendTo
<1>2. \A i \in Slots \ Live(T) : U[i] = NoTask
  BY DEF SendTo, Live
<1>3. \A i \in Live(T) : Nudged(T[i], U[i])
  <2> TAKE i \in Live(T)
  <2>1. T[i] \in Task /\ i \in Slots
    BY LiveTask DEF TableInv
  <2>2. U[i] = T[i] \/ U[i] = [T[i] EXCEPT !.signal = @ \cup {sig}]
    BY <2>1 DEF SendTo
  <2> HIDE DEF U
  <2> QED
    BY <2>1, <2>2 DEF Nudged, Task
<1>4. U[1].signal \subseteq {SIGCHLD}
  <2>1. 1 \in Live(T)
    BY SlotsInt DEF TableInv, Roots, Live
  <2>2. T[1] \in Task /\ T[1].signal \subseteq {SIGCHLD}
    BY <2>1, LiveTask DEF TableInv, Roots
  <2>3. \/ U[1] = T[1]
        \/ sig = SIGCHLD /\ U[1] = [T[1] EXCEPT !.signal = @ \cup {sig}]
    BY SlotsInt DEF SendTo
  <2> HIDE DEF U
  <2> QED
    BY <2>2, <2>3 DEF Task
<1>5. TableInv(U)
  <2> HIDE DEF U
  <2> QED
    BY <1>1, <1>2, <1>3, <1>4, NudgeKeeps
<1> QED
  BY <1>5

(* The entry of one process is edited, which stays the same process.  It   *)
(* begins to exit only when it has no children left, becomes a zombie only *)
(* with SIGCHLD sent to its father, and falls asleep in waitpid() only     *)
(* with nobody to collect.                                                 *)
OwnEdit(T, i, r) ==
  /\ r \in Task
  /\ r.pid = T[i].pid /\ r.father = T[i].father
  /\ \/ r.at \notin {"exit", "gone"}
     \/ i # 1 /\ T[i].at \in {"exit", "gone"}
     \/ i # 1 /\ \A k \in Live(T) \ {0} : T[k].father # T[i].pid
  /\ r.state = "ZOMBIE" =>
       /\ r.at = "gone" /\ i # 1
       /\ \A f \in Live(T) : T[f].pid = T[i].father => SIGCHLD \in T[f].signal
  /\ r.leader => r.session = r.pid
  /\ i = 1 => r.session = 0 /\ ~r.leader /\ r.signal \subseteq {SIGCHLD}
  /\ r.at = "waitpid" /\ r.state = "INTERRUPTIBLE" /\ (r.want = -1 \/ r.want > 0) =>
       \A j \in Live(T) : ~Collectable(T, i, r.want, j)

LEMMA OwnEditKeeps ==
  ASSUME NEW T, TableInv(T), NEW i \in Live(T) \ {0}, NEW r, OwnEdit(T, i, r)
  PROVE  TableInv([T EXCEPT ![i] = r])
<1> DEFINE U == [T EXCEPT ![i] = r]
<1>0. Typed(T) /\ i \in Slots
  BY DEF TableInv, Live
<1>1. /\ U = [k \in Slots |-> U[k]]
      /\ \A k \in Slots : U[k] = IF k = i THEN r ELSE T[k]
  BY <1>0 DEF Typed
<1>2. U \in [Slots -> Task \cup {NoTask}]
  BY <1>0 DEF Typed, OwnEdit
<1> HIDE DEF U
<1>3. Live(U) = Live(T)
  BY <1>0, <1>1, NoTaskAssumption DEF Live, OwnEdit
<1>4. \A k \in Live(T) : U[k].pid = T[k].pid /\ U[k].father = T[k].father
  BY <1>1 DEF OwnEdit, Live
<1>5. Unique(U)
  BY <1>3, <1>4 DEF TableInv, Unique
<1>6. Fathers(U)
  <2> SUFFICES ASSUME NEW k \in Live(T) \ {0}
               PROVE  \E j \in Live(T) :
                        U[j].pid = U[k].father /\ U[j].at \notin {"exit", "gone"}
    BY <1>3 DEF Fathers
  <2>1. PICK j \in Live(T) : T[j].pid = T[k].father /\ T[j].at \notin {"exit", "gone"}
    BY DEF TableInv, Fathers
  <2>2. CASE j # i
    BY <1>1, <1>4, <2>1, <2>2 DEF Live
  <2>3. CASE j = i
    <3>1. r.at \notin {"exit", "gone"}
      BY <2>1, <2>3 DEF OwnEdit
    <3> QED
      BY <1>0, <1>1, <1>4, <2>1, <2>3, <3>1
  <2> QED
    BY <2>2, <2>3
<1>7. Roots(U)
  <2>1. U[0] = T[0]
    BY <1>1, SlotsInt
  <2>2. 1 \in Live(T) /\ 1 \in Slots
    BY SlotsInt DEF TableInv, Roots, Live
  <2>3. CASE i # 1
    BY <1>1, <2>1, <2>2, <2>3 DEF TableInv, Roots
  <2>4. CASE i = 1
    <3>1. U[1] = r
      BY <1>1, <2>2, <2>4
    <3> QED
      BY <1>4, <2>1, <2>2, <2>4, <3>1, NoTaskAssumption DEF TableInv, Roots, OwnEdit
  <2> QED
    BY <2>3, <2>4
<1>8. Leaders(U)
  BY <1>1, <1>3 DEF TableInv, Leaders, OwnEdit, Live
<1>9. Gone(U)
  BY <1>1, <1>3 DEF TableInv, Gone, OwnEdit, Live
<1>10. Heard(U)
  <2> SUFFICES ASSUME NEW k \in Live(T), NEW j \in Live(T),
                      Waits(U, k), Collectable(U, k, U[k].want, j)
               PROVE  SIGCHLD \in U[k].signal
    BY <1>3 DEF Heard
  <2>1. T[j].father = T[k].pid /\ j # k /\ k \in Slots /\ j \in Slots
    BY <1>3, <1>4 DEF Collectable, Live
  <2>2. CASE k = i
    <3>1. U[j] = T[j] /\ U[k] = r
      BY <1>1, <2>1, <2>2
    <3>2. Collectable(T, i, r.want, j)
      BY <1>3, <1>4, <2>2, <3>1 DEF Collectable
    <3> QED
      BY <2>2, <3>1, <3>2 DEF Waits, OwnEdit
  <2>3. CASE k # i /\ j = i
    <3>1. U[k] = T[k] /\ U[j] = r
      BY <1>1, <2>1, <2>3
    <3> QED
      BY <2>1, <2>3, <3>1 DEF OwnEdit, Collectable
  <2>4. CASE k # i /\ j # i
    <3>1. U[k] = T[k] /\ U[j] = T[j]
      BY <1>1, <2>1, <2>4
    <3>2. Collectable(T, k, T[k].want, j) /\ Waits(T, k)
      BY <1>3, <3>1 DEF Collectable, Waits
    <3> QED
      BY <3>1, <3>2 DEF TableInv, Heard
  <2> QED
    BY <2>2, <2>3, <2>4
<1>11. TableInv(U)
  BY <1>2, <1>5, <1>6, <1>7, <1>8, <1>9, <1>10 DEF TableInv, Typed
<1> QED
  BY <1>11 DEF U

(* A zombie is taken out of task[] by its father: nobody else refers to it. *)
LEMMA ReleaseKeeps ==
  ASSUME NEW T, TableInv(T), NEW z \in Live(T) \ {0, 1},
         T[z].at \in {"exit", "gone"}
  PROVE  TableInv([T EXCEPT ![z] = NoTask])
<1> DEFINE U == [T EXCEPT ![z] = NoTask]
<1>0. Typed(T) /\ z \in Slots
  BY DEF TableInv, Live
<1>1. \A k \in Slots : U[k] = IF k = z THEN NoTask ELSE T[k]
  BY <1>0 DEF Typed
<1>2. Typed(U)
  BY <1>0 DEF Typed
<1> HIDE DEF U
<1>3. Live(U) = Live(T) \ {z}
  BY <1>0, <1>1 DEF Live
<1>4. \A k \in Live(U) : U[k] = T[k] /\ k \in Live(T)
  BY <1>1, <1>3 DEF Live
<1>5. Unique(U)
  BY <1>4 DEF TableInv, Unique
<1>6. Fathers(U)
  <2> SUFFICES ASSUME NEW k \in Live(U) \ {0}
               PROVE  \E j \in Live(U) :
                        U[j].pid = U[k].father /\ U[j].at \notin {"exit", "gone"}
    BY DEF Fathers
  <2>1. PICK j \in Live(T) : T[j].pid = T[k].father /\ T[j].at \notin {"exit", "gone"}
    BY <1>4 DEF TableInv, Fathers
  <2>2. j \in Live(U)
    BY <1>3, <2>1
  <2> QED
    BY <1>4, <2>1, <2>2
<1>7. Roots(U)
  BY <1>1, SlotsInt DEF TableInv, Roots
<1>8. Leaders(U)
  BY <1>4 DEF TableInv, Leaders
<1>9. Gone(U)
  BY <1>4 DEF TableInv, Gone
<1>10. Heard(U)
  <2> SUFFICES ASSUME NEW k \in Live(U), NEW j \in Live(U),
                      Waits(U, k), Collectable(U, k, U[k].want, j)
               PROVE  SIGCHLD \in U[k].signal
    BY DEF Heard
  <2>1. Collectable(T, k, T[k].want, j) /\ Waits(T, k)
    BY <1>4 DEF Collectable, Waits
  <2> QED
    BY <1>4, <2>1 DEF TableInv, Heard
<1>11. TableInv(U)
  BY <1>2, <1>5, <1>6, <1>7, <1>8, <1>9, <1>10 DEF TableInv
<1> QED
  BY <1>11 DEF U

(* copy_process() enters a child of i with a pid of its own. *)
LEMMA ForkKeeps ==
  ASSUME NEW T, TableInv(T), NEW i \in Live(T), T[i].at \notin {"exit", "gone"},
         NEW s \in Slots \ {0}, T[s] = NoTask, NEW c \in Task,
         c.father = T[i].pid, \A k \in Live(T) : T[k].pid # c.pid,
         ~c.leader, c.state = "RUNNING"
  PROVE  TableInv([T EXCEPT ![s] = c])
<1> DEFINE U == [T EXCEPT ![s] = c]
<1>0. Typed(T)
  BY DEF TableInv
<1>1. \A k \in Slots : U[k] = IF k = s THEN c ELSE T[k]
  BY <1>0 DEF Typed
<1>2. Typed(U)
  BY <1>0 DEF Typed
<1> HIDE DEF U
<1>3. Live(U) = Live(T) \cup {s} /\ s \notin Live(T)
  BY <1>1, NoTaskAssumption DEF Live
<1>4. U[s] = c /\ \A k \in Live(T) : U[k] = T[k]
  BY <1>1, <1>3 DEF Live
<1>5. Unique(U)
  BY <1>3, <1>4 DEF TableInv, Unique
<1>6. Fathers(U)
  <2> SUFFICES ASSUME NEW k \in Live(U) \ {0}
               PROVE  \E j \in Live(U) :
                        U[j].pid = U[k].father /\ U[j].at \notin {"exit", "gone"}
    BY DEF Fathers
  <2>1. \E j \in Live(T) : T[j].pid = U[k].father /\ T[j].at \notin {"exit", "gone"}
    BY <1>3, <1>4 DEF TableInv, Fathers
  <2> QED
    BY <1>3, <1>4, <2>1
<1>7. Roots(U)
  <2>1. s # 1
    BY DEF TableInv, Roots
  <2> QED
    BY <1>1, <2>1, SlotsInt DEF TableInv, Roots
<1>8. Leaders(U)
  BY <1>3, <1>4 DEF TableInv, Leaders
<1>9. Gone(U)
  BY <1>3, <1>4 DEF TableInv, Gone
<1>10. Heard(U)
  <2> SUFFICES ASSUME NEW k \in Live(U), NEW j \in Live(U),
                      Waits(U, k), Collectable(U, k, U[k].want, j)
               PROVE  SIGCHLD \in U[k].signal
    BY DEF Heard
  <2>1. k \in Live(T) /\ j \in Live(T)
    BY <1>3, <1>4 DEF Waits, Collectable
  <2>2. Collectable(T, k, T[k].want, j) /\ Waits(T, k)
    BY <1>4, <2>1 DEF Collectable, Waits
  <2> QED
    BY <1>4, <2>1, <2>2 DEF TableInv, Heard
<1>11. TableInv(U)
  BY <1>2, <1>5, <1>6, <1>7, <1>8, <1>9, <1>10 DEF TableInv
<1> QED
  BY <1>11 DEF U

(* do_exit() hands the children of i to init, and tells it of the dead     *)
(* ones among them.                                                        *)
LEMMA ReparentKeeps ==
  ASSUME NEW T, TableInv(T), NEW i \in Live(T) \ {0, 1}
  PROVE  LET U == Reparent(T, i) IN
         /\ TableInv(U) /\ i \in Live(U)
         /\ \A k \in Live(U) \ {0} : U[k].father # U[i].pid
         /\ U[i].state = T[i].state
<1> DEFINE O == Orphans(T, i)
           A == [j \in Slots |-> IF j \in O THEN [T[j] EXCEPT !.father = 1] ELSE T[j]]
           U == Reparent(T, i)
<1>0. Typed(T) /\ O \subseteq Live(T) /\ 1 \in Live(T) /\ 0 \in Live(T)
  BY SlotsInt DEF TableInv, Orphans, Roots, Live
<1>1. \A k \in Live(T) : T[k] \in Task /\ k \in Slots
  BY <1>0, LiveTask
<1>2. 1 \in Pids
  BY ProcessAssumption DEF Pids
<1>3. Live(A) = Live(T)
  <2>1. \A k \in Live(T) : A[k] \in Task
    BY <1>1, <1>2 DEF Task
  <2>2. \A k \in Slots \ Live(T) : A[k] = NoTask
    BY <1>0 DEF Live
  <2> QED
    BY <2>1, <2>2, NoTaskAssumption DEF Live
<1>4. U = IF \E j \in O : T[j].state = "ZOMBIE" THEN SendTo(A, {1}, SIGCHLD) ELSE A
  BY DEF Reparent
<1>5. \A k \in Slots \ Live(T) : U[k] = NoTask
  BY <1>0, <1>3, <1>4 DEF SendTo, Live
<1>6. \A k \in Live(T) : A[k] = T[k] \/ A[k] = [T[k] EXCEPT !.father = 1]
  BY <1>1
<1>7. \A k \in Live(T) :
        \/ U[k] = A[k]
        \/ k = 1 /\ U[k] = [A[k] EXCEPT !.signal = @ \cup {SIGCHLD}]
  BY <1>1, <1>4 DEF SendTo
<1>8. U = [k \in Slots |-> U[k]]
  BY <1>4 DEF SendTo
<1>9. \A k \in Live(T) : A[k].father = (IF k \in O THEN 1 ELSE T[k].father)
  BY <1>1 DEF Task
<1>10. \A j \in O : T[j].state = "ZOMBIE" => SIGCHLD \in U[1].signal
  <2>1. A[1] \in Task
    BY <1>0, <1>1, <1>2, <1>6 DEF Task
  <2> HIDE DEF A
  <2>2. ASSUME NEW j \in O, T[j].state = "ZOMBIE"
        PROVE  U[1] = [A[1] EXCEPT !.signal = @ \cup {SIGCHLD}]
    BY <1>0, <1>1, <1>3, <1>4, <2>2 DEF SendTo
  <2> HIDE DEF U, O
  <2> QED
    BY <2>1, <2>2 DEF Task
<1> HIDE DEF A
<1>11. ASSUME NEW k \in Live(T)
       PROVE  /\ U[k] \in Task
              /\ U[k].pid = T[k].pid /\ U[k].at = T[k].at /\ U[k].state = T[k].state
              /\ U[k].session = T[k].session /\ U[k].leader = T[k].leader
              /\ U[k].want = T[k].want
              /\ T[k].signal \subseteq U[k].signal
              /\ U[k].signal \subseteq T[k].signal \cup {SIGCHLD}
              /\ U[k].father = (IF k \in O THEN 1 ELSE T[k].father)
  <2>1. T[k] \in Task
    BY <1>1
  <2>2. /\ A[k] \in Task
        /\ A[k].pid = T[k].pid /\ A[k].at = T[k].at /\ A[k].state = T[k].state
        /\ A[k].session = T[k].session /\ A[k].leader = T[k].leader
        /\ A[k].want = T[k].want /\ A[k].signal = T[k].signal
    BY <1>2, <1>6, <2>1 DEF Task
  <2>3. A[k].father = (IF k \in O THEN 1 ELSE T[k].father)
    BY <1>9
  <2> HIDE DEF U, O
  <2>4. CASE U[k] = A[k]
    BY <2>2, <2>3, <2>4
  <2>5. CASE U[k] = [A[k] EXCEPT !.signal = @ \cup {SIGCHLD}]
    <3>1. SIGCHLD \in Signals
      BY DEF Signals
    <3> QED
      BY <2>2, <2>3, <2>5, <3>1 DEF Task
  <2> QED
    BY <1>7, <2>4, <2>5
<1> HIDE DEF U
<1>12. Live(U) = Live(T)
  BY <1>5, <1>11, NoTaskAssumption DEF Live
<1>13. Typed(U)
  BY <1>5, <1>8, <1>11 DEF Typed, Live
<1>14. Unique(U)
  BY <1>11, <1>12 DEF TableInv, Unique
<1>15. T[1].pid = 1 /\ T[1].at \notin {"exit", "gone"} /\ T[i].pid # 1
  BY <1>0 DEF TableInv, Roots, Unique
<1>16. \A k \in Live(T) : U[k].father # T[i].pid
  BY <1>11, <1>15 DEF Orphans
<1>17. Fathers(U)
  <2> SUFFICES ASSUME NEW k \in Live(T) \ {0}
               PROVE  \E j \in Live(T) :
                        U[j].pid = U[k].father /\ U[j].at \notin {"exit", "gone"}
    BY <1>12 DEF Fathers
  <2>1. CASE k \in O
    BY <1>0, <1>11, <1>15, <2>1
  <2>2. CASE k \notin O
    <3>1. PICK j \in Live(T) : T[j].pid = T[k].father /\ T[j].at \notin {"exit", "gone"}
      BY DEF TableInv, Fathers
    <3> QED
      BY <1>11, <2>2, <3>1
  <2> QED
    BY <2>1, <2>2
<1>18. Roots(U)
  <2>1. U[0] \in Task /\ U[1] \in Task
    BY <1>0, <1>11
  <2> QED
    BY <1>0, <1>11, <2>1, NoTaskAssumption DEF TableInv, Roots
<1>19. Leaders(U)
  BY <1>11, <1>12 DEF TableInv, Leaders
<1>20. Gone(U)
  BY <1>11, <1>12 DEF TableInv, Gone
<1>21. Heard(U)
  <2> SUFFICES ASSUME NEW k \in Live(T), NEW j \in Live(T),
                      Waits(U, k), Collectable(U, k, U[k].want, j)
               PROVE  SIGCHLD \in U[k].signal
    BY <1>12 DEF Heard
  <2>1. Waits(T, k)
    BY <1>11 DEF Waits
  <2>2. CASE j \in O
    <3>1. U[k].pid = 1 /\ U[j].state = "ZOMBIE"
      BY <1>11, <2>2 DEF Collectable
    <3>2. k = 1
      BY <1>0, <1>11, <1>15, <3>1 DEF TableInv, Unique
    <3> QED
      BY <1>10, <1>11, <2>2, <3>1, <3>2
  <2>3. CASE j \notin O
    <3>1. Collectable(T, k, T[k].want, j)
      BY <1>11, <1>12, <2>3 DEF Collectable
    <3> QED
      BY <1>11, <2>1, <3>1 DEF TableInv, Heard
  <2> QED
    BY <2>2, <2>3
<1>22. TableInv(U)
  BY <1>13, <1>14, <1>17, <1>18, <1>19, <1>20, <1>21 DEF TableInv
<1>23. i \in Live(U) /\ U[i].state = T[i].state
       /\ \A k \in Live(U) \ {0} : U[k].father # U[i].pid
  BY <1>11, <1>12, <1>16
<1> QED
  BY <1>22, <1>23 DEF U

-----------------------------------------------------------------------------
(* The outcome of an action: the table is right and the cpu is with a task *)
(* that can run.                                                           *)
Ends == TableInv(task)' /\ CurrentRuns(task, current)'

LEMMA ScheduleEnds == ASSUME NEW T, TableInv(T), schedule(T) PROVE Ends
<1>1. TableInv(Woken(T)) /\ task' = Woken(T)
  BY WokenKeeps DEF schedule
<1>2. TableInv(task')
  BY <1>1
<1>3. CASE current' = 0
  BY <1>2, <1>3, SlotsInt DEF TableInv, Roots, CurrentRuns, Ends
<1>4. CASE current' \in Runnable(task')
  BY <1>2, <1>4 DEF Runnable, Live, CurrentRuns, Ends
<1> QED
  BY <1>1, <1>3, <1>4 DEF schedule

LEMMA ContinueEnds ==
  ASSUME NEW T, TableInv(T), CurrentRuns(T, current), Continue(T) PROVE Ends
BY DEF Continue, Ends

(* The entry of i is edited and i goes on, or the table is rescheduled. *)
LEMMA EditEnds ==
  ASSUME NEW T, TableInv(T), NEW i \in Live(T) \ {0}, NEW r, OwnEdit(T, i, r),
         NEW U, U = [T EXCEPT ![i] = r],
         schedule(U) \/ (Continue(U) /\ CurrentRuns(U, current))
  PROVE  Ends
<1>1. TableInv(U)
  BY OwnEditKeeps
<1> QED
  BY <1>1, ScheduleEnds, ContinueEnds

(* The facts about the calling task. *)
LEMMA CallerFacts ==
  ASSUME TableInv(task), CurrentRuns(task, current), NEW i, current = i, i # 0
  PROVE  i \in Live(task) \ {0} /\ task[i] \in Task /\ task[i].state = "RUNNING"
BY LiveTask DEF CurrentRuns, Live, TableInv

(* What a process keeps in every edit of its own entry. *)
LEMMA Standing ==
  ASSUME NEW T, TableInv(T), NEW i \in Live(T) \ {0}
  PROVE  /\ T[i] \in Task /\ i \in Slots
         /\ T[i].leader => T[i].session = T[i].pid
         /\ i = 1 => T[i].session = 0 /\ ~T[i].leader /\ T[i].signal \subseteq {SIGCHLD}
                   /\ T[i].at \notin {"exit", "gone"}
BY LiveTask DEF TableInv, Leaders, Roots

(* The end of a call. *)
LEMMA ReturnsKeeps ==
  ASSUME NEW T, TableInv(T), NEW i \in Live(T) \ {0}, T[i].state = "RUNNING"
  PROVE  /\ TableInv(Returns(T, i))
         /\ Returns(T, i) = [T EXCEPT ![i] = [T[i] EXCEPT !.at = "ret"]]
         /\ [T[i] EXCEPT !.at = "ret"].state = "RUNNING"
         /\ CurrentRuns(Returns(T, i), i)
<1> DEFINE r == [T[i] EXCEPT !.at = "ret"]
<1>1. T[i] \in Task /\ Typed(T) /\ i \in Slots
  BY Standing DEF TableInv
<1>2. Returns(T, i) = [T EXCEPT ![i] = r]
  BY <1>1 DEF Returns, Typed
<1>3. /\ r \in Task /\ r.pid = T[i].pid /\ r.father = T[i].father /\ r.at = "ret"
      /\ r.state = "RUNNING" /\ r.leader = T[i].leader /\ r.session = T[i].session
      /\ r.signal = T[i].signal
  BY <1>1 DEF Task
<1>4. Returns(T, i)[i] = r
  BY <1>1, <1>2 DEF Typed
<1> HIDE DEF r
<1>5. OwnEdit(T, i, r)
  BY <1>3, Standing DEF OwnEdit
<1>6. CurrentRuns(Returns(T, i), i)
  BY <1>1, <1>3, <1>4, NoTaskAssumption DEF CurrentRuns
<1>7. TableInv([T EXCEPT ![i] = r])
  BY <1>5, OwnEditKeeps
<1>8. TableInv(Returns(T, i))
  BY <1>2, <1>7
<1> QED
  BY <1>2, <1>3, <1>6, <1>8 DEF r

LEMMA ReturnsEnds ==
  ASSUME NEW T, TableInv(T), NEW i \in Live(T) \ {0}, T[i].state = "RUNNING",
         current = i, Continue(Returns(T, i))
  PROVE  Ends
<1> DEFINE R == Returns(T, i)
<1>1. TableInv(R) /\ CurrentRuns(R, i) /\ Continue(R)
  BY ReturnsKeeps
<1> HIDE DEF R
<1>2. CurrentRuns(R, current)
  BY <1>1
<1> QED
  BY <1>1, <1>2, ContinueEnds

(* waitpid() collects a zombie, sleeps if there is none yet, or returns. *)
LEMMA CollectEnds ==
  ASSUME NEW T, TableInv(T), NEW i \in Live(T) \ {0}, T[i].state = "RUNNING",
         current = i, NEW pid \in -MaxPid .. MaxPid, NEW nohang,
         Collect(T, i, pid, nohang)
  PROVE  Ends
<1> DEFINE children == Awaited(T, i, pid)
           zombies == {j \in children : T[j].state = "ZOMBIE"}
<1>0. T[i] \in Task /\ Typed(T) /\ i \in Slots
  BY Standing DEF TableInv
<1>1. CASE zombies # {}
  <2> DEFINE z == Max(zombies)
             R == Returns(T, i)
  <2>1. zombies \in SUBSET (0 .. NR_TASKS - 1) /\ NR_TASKS - 1 \in Int /\ 0 \in Int
    BY ProcessAssumption DEF Awaited, Live, Slots
  <2>2. z \in zombies
    <3> HIDE DEF zombies
    <3>1. IsFiniteSet(zombies)
      BY <2>1, IntervalFinite
    <3>2. zombies \in SUBSET Int
      BY <2>1
    <3> QED
      BY <1>1, <3>1, <3>2, MaxLargest
  <2>4. z \in Live(T) \ {0, i} /\ T[z].state = "ZOMBIE"
    BY <2>2 DEF Awaited
  <2>5. z # 1 /\ T[z].at = "gone"
    BY <2>4 DEF TableInv, Roots, Gone
  <2>6. TableInv(R) /\ R = [T EXCEPT ![i] = [T[i] EXCEPT !.at = "ret"]]
    BY ReturnsKeeps
  <2>7. schedule([R EXCEPT ![z] = NoTask])
    BY <1>1 DEF Collect
  <2>8. R[z] = T[z] /\ z \in Slots
    BY <1>0, <2>4, <2>6 DEF Typed, Live
  <2> HIDE DEF z, R
  <2>9. z \in Live(R) \ {0, 1}
    BY <2>4, <2>5, <2>8 DEF Live
  <2>10. TableInv([R EXCEPT ![z] = NoTask])
    BY <2>5, <2>6, <2>8, <2>9, ReleaseKeeps
  <2> QED
    BY <2>7, <2>10, ScheduleEnds
<1>2. CASE zombies = {} /\ children # {} /\ ~nohang
  <2> DEFINE r == [T[i] EXCEPT !.state = "INTERRUPTIBLE", !.at = "waitpid", !.want = pid]
             U == [T EXCEPT ![i].state = "INTERRUPTIBLE", ![i].at = "waitpid",
                            ![i].want = pid]
  <2>1. U = [T EXCEPT ![i] = r]
    BY <1>0 DEF Typed
  <2>2. schedule(U)
    BY <1>2 DEF Collect
  <2>3. /\ r \in Task /\ r.pid = T[i].pid /\ r.father = T[i].father /\ r.at = "waitpid"
        /\ r.state = "INTERRUPTIBLE" /\ r.leader = T[i].leader
        /\ r.session = T[i].session /\ r.signal = T[i].signal /\ r.want = pid
    BY <1>0 DEF Task
  <2>4. pid = -1 \/ pid > 0 => \A j \in Live(T) : ~Collectable(T, i, pid, j)
    BY <1>2 DEF Awaited, Collectable
  <2> HIDE DEF r, U
  <2>5. OwnEdit(T, i, r)
    BY <2>3, <2>4, Standing DEF OwnEdit
  <2> QED
    BY <2>1, <2>2, <2>5, EditEnds
<1>3. CASE zombies = {} /\ ~(children # {} /\ ~nohang)
  BY <1>3, ReturnsEnds DEF Collect
<1> QED
  BY <1>1, <1>2, <1>3

(* do_exit() up to the point where it may sleep, for any task but init. *)
LEMMA DoExitEnds ==
  ASSUME NEW T, TableInv(T), NEW i \in Live(T) \ {0, 1}, T[i].state = "RUNNING",
         current = i, do_exit(T, i)
  PROVE  Ends
<1> DEFINE A == Reparent(T, i)
           stays == [A[i] EXCEPT !.at = "exit"]
           sleeps == [A[i] EXCEPT !.at = "exit", !.state = "UNINTERRUPTIBLE"]
<1>1. /\ TableInv(A) /\ i \in Live(A) \ {0, 1}
      /\ \A k \in Live(A) \ {0} : A[k].father # A[i].pid
      /\ A[i].state = "RUNNING"
  BY ReparentKeeps
<1>2. \/ Continue([A EXCEPT ![i].at = "exit"])
      \/ schedule([A EXCEPT ![i].at = "exit", ![i].state = "UNINTERRUPTIBLE"])
  BY DEF do_exit
<1> HIDE DEF A
<1>3. A[i] \in Task /\ Typed(A) /\ i \in Slots /\ i \in Live(A) \ {0}
  BY <1>1, Standing DEF TableInv
<1>4. A[i].leader => A[i].session = A[i].pid
  BY <1>1, <1>3, Standing
<1>5. CASE Continue([A EXCEPT ![i].at = "exit"])
  <2>1. [A EXCEPT ![i].at = "exit"] = [A EXCEPT ![i] = stays]
    BY <1>3 DEF Typed
  <2>2. OwnEdit(A, i, stays)
    BY <1>1, <1>3, <1>4 DEF OwnEdit, Task
  <2>3. CurrentRuns([A EXCEPT ![i] = stays], current)
    BY <1>1, <1>3, NoTaskAssumption DEF CurrentRuns, Typed, Task
  <2> HIDE DEF stays
  <2> QED
    BY <1>1, <1>3, <1>5, <2>1, <2>2, <2>3, EditEnds
<1>6. CASE schedule([A EXCEPT ![i].at = "exit", ![i].state = "UNINTERRUPTIBLE"])
  <2>1. [A EXCEPT ![i].at = "exit", ![i].state = "UNINTERRUPTIBLE"] = [A EXCEPT ![i] = sleeps]
    BY <1>3 DEF Typed
  <2>2. OwnEdit(A, i, sleeps)
    BY <1>1, <1>3, <1>4 DEF OwnEdit, Task
  <2> HIDE DEF sleeps
  <2> QED
    BY <1>1, <1>3, <1>6, <2>1, <2>2, EditEnds
<1> QED
  BY <1>2, <1>5, <1>6

(* The end of do_exit(): the session is hung up, the father is told.       *)
(* Nobody has i as a father any more, so its entry may stay a zombie.      *)
LEMMA ExitFinishEnds ==
  ASSUME TableInv(task), CurrentRuns(task, current), NEW i, ExitFinish(i)
  PROVE  Ends
<1> DEFINE K == kill_session(task, i)
           r == [K[i] EXCEPT !.state = "ZOMBIE", !.at = "gone"]
           V == [K EXCEPT ![i].state = "ZOMBIE", ![i].at = "gone"]
<1>1. /\ i \in Live(task) \ {0} /\ task[i].at = "exit" /\ task[i].state = "RUNNING"
      /\ i # 1 /\ schedule(tell_father(V, i))
  BY CallerFacts, Standing DEF ExitFinish, InKernel
<1>2. task[i].leader => 1 \notin {j \in Live(task) \ {0} : task[j].session = task[i].session}
  <2>1. task[i].leader => task[i].session = task[i].pid
    BY <1>1, Standing
  <2>2. task[i].pid # 0
    BY <1>1, SlotsInt DEF TableInv, Roots, Unique, Live
  <2> QED
    BY <2>1, <2>2 DEF TableInv, Roots
<1>3. TableInv(K)
  <2>1. CASE task[i].leader
    <3>1. SIGHUP \in Signals
      BY DEF Signals
    <3> DEFINE S == {j \in Live(task) \ {0} : task[j].session = task[i].session}
    <3>2. K = SendTo(task, S, SIGHUP)
      BY <2>1 DEF kill_session
    <3>3. 1 \notin S
      BY <1>2, <2>1
    <3> HIDE DEF S, K
    <3> QED
      BY <3>1, <3>2, <3>3, SendKeeps
  <2>2. CASE ~task[i].leader
    BY <2>2 DEF kill_session
  <2> QED
    BY <2>1, <2>2
<1>4. i \in Live(K) \ {0} /\ K[i].at = "exit"
  <2>1. task[i] \in Task /\ i \in Slots
    BY <1>1, CallerFacts, LiveTask DEF TableInv
  <2>2. K[i] = task[i] \/ K[i] = [task[i] EXCEPT !.signal = @ \cup {SIGHUP}]
    BY <2>1 DEF kill_session, SendTo
  <2> HIDE DEF K
  <2>3. K[i] \in Task /\ K[i].at = "exit"
    BY <1>1, <2>1, <2>2 DEF Task, Signals
  <2> QED
    BY <1>1, <2>1, <2>3, NoTaskAssumption DEF Live
<1> HIDE DEF K
<1>5. K[i] \in Task /\ Typed(K) /\ i \in Slots /\ (K[i].leader => K[i].session = K[i].pid)
  BY <1>3, <1>4, Standing DEF TableInv
<1>6. V = [K EXCEPT ![i] = r]
  BY <1>5 DEF Typed
<1>7. \A k \in Slots : V[k] = IF k = i THEN r ELSE K[k]
  BY <1>5, <1>6 DEF Typed
<1>8. /\ r \in Task /\ r.pid = K[i].pid /\ r.father = K[i].father /\ r.at = "gone"
      /\ r.state = "ZOMBIE" /\ r.leader = K[i].leader /\ r.session = K[i].session
      /\ r.signal = K[i].signal
  BY <1>5 DEF Task
<1>9. V = [k \in Slots |-> V[k]]
  BY <1>5 DEF Typed
<1> HIDE DEF r, V
<1> DEFINE fathers == {j \in Live(V) : V[j].pid = V[i].father}
<1>10. CASE V[i].father # 0 /\ fathers # {}
  <2> DEFINE f == Min(fathers)
  <2>1. fathers \in SUBSET Nat
    BY SlotsInt DEF Live
  <2>2. f \in fathers
    <3> HIDE DEF fathers
    <3> QED
      BY <1>10, <2>1, MinSmallest
  <2>3. tell_father(V, i) = SendTo(V, {f}, SIGCHLD)
    BY <1>10 DEF tell_father
  <2> HIDE DEF f
  <2>4. Live(V) = Live(K)
    BY <1>4, <1>7, <1>8, NoTaskAssumption DEF Live
  <2>5. f \in Live(K) /\ K[f].pid = K[i].father /\ f \in Slots
    BY <1>5, <1>7, <1>8, <2>2, <2>4 DEF Live
  <2>6. \A k \in Live(K) : K[k].pid = K[i].father => k = f
    BY <1>3, <2>5 DEF TableInv, Unique
  <2>7. f # i
    <3>1. PICK j \in Live(K) : K[j].pid = K[i].father /\ K[j].at \notin {"exit", "gone"}
      BY <1>3, <1>4 DEF TableInv, Fathers
    <3> QED
      BY <1>4, <2>6, <3>1
  <2> DEFINE W == SendTo(K, {f}, SIGCHLD)
  <2>8. SIGCHLD \in Signals
    BY DEF Signals
  <2>9. TableInv(W)
    BY <1>3, <2>8, SendKeeps
  <2>10. SendTo(V, {f}, SIGCHLD) = [W EXCEPT ![i] = r]
    BY <1>5, <1>7, <2>4, <2>5, <2>7 DEF SendTo
  <2>11. W[i] = K[i] /\ W[f] = [K[f] EXCEPT !.signal = @ \cup {SIGCHLD}]
         /\ \A k \in Slots : k # f => W[k] = K[k]
    BY <1>5, <2>5, <2>7 DEF SendTo
  <2>12. K[f] \in Task
    BY <1>3, <2>5, LiveTask DEF TableInv
  <2> HIDE DEF W
  <2>13. W[f].pid = K[f].pid /\ SIGCHLD \in W[f].signal /\ W[f] \in Task
    BY <2>8, <2>11, <2>12 DEF Task
  <2>14. Live(W) = Live(K)
    BY <2>5, <2>11, <2>13, NoTaskAssumption DEF Live
  <2>15. OwnEdit(W, i, r)
    <3>1. \A k \in Live(W) : W[k].pid = W[i].father => SIGCHLD \in W[k].signal
      BY <2>6, <2>11, <2>13, <2>14 DEF Live
    <3> QED
      BY <1>1, <1>4, <1>5, <1>8, <2>11, <3>1 DEF OwnEdit
  <2>16. i \in Live(W) \ {0}
    BY <1>4, <2>14
  <2>17. schedule([W EXCEPT ![i] = r])
    BY <1>1, <2>3, <2>10
  <2> QED
    BY <2>9, <2>15, <2>16, <2>17, EditEnds
<1>11. CASE ~(V[i].father # 0 /\ fathers # {})
  <2>1. tell_father(V, i) = [V EXCEPT ![i] = NoTask]
    BY <1>11 DEF tell_father
  <2>2. [V EXCEPT ![i] = NoTask] = [K EXCEPT ![i] = NoTask]
    BY <1>5, <1>6 DEF Typed
  <2>3. TableInv([K EXCEPT ![i] = NoTask])
    BY <1>1, <1>3, <1>4, ReleaseKeeps
  <2> QED
    BY <1>1, <2>1, <2>2, <2>3, ScheduleEnds
<1> QED
  BY <1>10, <1>11

-----------------------------------------------------------------------------
(* Arithmetic of "(last_pid + k - 1) % MaxPid". *)
LEMMA ModWraps ==
  ASSUME NEW M \in Nat \ {0}, NEW a \in 0 .. M - 1
  PROVE  a % M = a /\ (a + M) % M = a
<1>1. a % M = a
  OBVIOUS
<1>2. (a + M) % M = a
  OBVIOUS
<1> QED
  BY <1>1, <1>2

(* Counting on from any last_pid, every pid comes up once before the       *)
(* count is back where it started.                                         *)
LEMMA EveryPidComesUp ==
  ASSUME NEW l \in Pids, NEW p \in 1 .. MaxPid
  PROVE  \E n \in 1 .. MaxPid : PidAfter(l, n) = p
<1>1. MaxPid \in Nat \ {0} /\ p - 1 \in 0 .. MaxPid - 1 /\ l \in 0 .. MaxPid
  BY ProcessAssumption DEF Pids
<1>2. CASE p > l
  <2>1. p - l \in 1 .. MaxPid /\ l + (p - l) - 1 = p - 1
    BY <1>1, <1>2
  <2>2. PidAfter(l, p - l) = p
    BY <1>1, <2>1, ModWraps DEF PidAfter
  <2> QED
    BY <2>1, <2>2
<1>3. CASE p <= l
  <2>1. p - l + MaxPid \in 1 .. MaxPid /\ l + (p - l + MaxPid) - 1 = (p - 1) + MaxPid
    BY <1>1, <1>3
  <2>2. PidAfter(l, p - l + MaxPid) = p
    BY <1>1, <2>1, ModWraps DEF PidAfter
  <2> QED
    BY <2>1, <2>2
<1> QED
  BY <1>1, <1>2, <1>3

(* There are more pids than slots, and task[0] has none of them: one is    *)
(* always free, zombies counted as users.                                  *)
LEMMA FreePidExists ==
  ASSUME TableInv(task)
  PROVE  \E p \in 1 .. MaxPid : \A k \in Live(task) : task[k].pid # p
<1> SUFFICES ASSUME \A p \in 1 .. MaxPid : \E k \in Live(task) : task[k].pid = p
             PROVE  FALSE
  OBVIOUS
<1> DEFINE user == [p \in 1 .. MaxPid |-> CHOOSE k \in Live(task) : task[k].pid = p]
           S == 1 .. MaxPid
           D == 1 .. NR_TASKS - 1
<1>1. \A p \in S : user[p] \in Live(task) /\ task[user[p]].pid = p
  OBVIOUS
<1>2. \A p \in S : user[p] \in D
  <2> TAKE p \in S
  <2>1. user[p] \in Slots /\ task[user[p]].pid = p
    BY <1>1 DEF Live
  <2>2. user[p] # 0
    BY <2>1 DEF TableInv, Roots
  <2> HIDE DEF user
  <2> QED
    BY <2>1, <2>2, ProcessAssumption DEF Slots
<1>3. user \in [S -> D]
  BY <1>2
<1>4. IsFiniteSet(S) /\ Cardinality(S) = MaxPid
  BY FS_Interval, ProcessAssumption
<1>5. IsFiniteSet(D) /\ Cardinality(D) = NR_TASKS - 1
  BY FS_Interval, ProcessAssumption
<1> HIDE DEF user, S, D
<1>6. Cardinality(D) < Cardinality(S)
  BY <1>4, <1>5, ProcessAssumption
<1>7. PICK x, y \in S : x # y /\ user[x] = user[y]
  BY <1>3, <1>4, <1>5, <1>6, FS_PigeonHole
<1> QED
  BY <1>1, <1>7

(* find_empty_process() finds a pid nobody has. *)
LEMMA FindPidFresh ==
  ASSUME TableInv(task), last_pid \in Pids
  PROVE  find_pid \in Pids /\ \A k \in Live(task) : task[k].pid # find_pid
<1> DEFINE used == {task[k].pid : k \in Live(task)}
           N == {n \in 1 .. MaxPid : PidAfter(last_pid, n) \notin used}
<1>1. N # {}
  <2>1. PICK p \in 1 .. MaxPid : \A k \in Live(task) : task[k].pid # p
    BY FreePidExists
  <2>2. PICK n \in 1 .. MaxPid : PidAfter(last_pid, n) = p
    BY EveryPidComesUp
  <2> QED
    BY <2>1, <2>2
<1>2. Min(N) \in N
  <2>1. N \in SUBSET Nat
    BY ProcessAssumption
  <2> HIDE DEF N
  <2> QED
    BY <1>1, <2>1, MinSmallest
<1>3. find_pid = PidAfter(last_pid, Min(N))
  BY DEF find_pid
<1>4. \A n \in 1 .. MaxPid : PidAfter(last_pid, n) \in Pids
  BY ProcessAssumption DEF PidAfter, Pids
<1>5. Min(N) \in 1 .. MaxPid /\ PidAfter(last_pid, Min(N)) \notin used
  BY <1>2
<1> QED
  BY <1>3, <1>4, <1>5

-----------------------------------------------------------------------------
LEMMA KillEnds ==
  ASSUME ProcIInv, NEW i, NEW pid, NEW sig \in Sent, sys_kill(i, pid, sig)
  PROVE  Ends
<1>1. i \in Live(task) \ {0} /\ task[i] \in Task /\ task[i].state = "RUNNING" /\ current = i
  BY CallerFacts DEF ProcIInv, sys_kill, InUser
<1>2. PICK S : 1 \notin S /\ Continue(Returns(SendTo(task, S, sig), i))
  BY DEF sys_kill
<1> DEFINE T == SendTo(task, S, sig)
<1>3. sig \in Signals
  BY ProcessAssumption
<1>4. TableInv(T)
  BY <1>2, <1>3, SendKeeps DEF ProcIInv
<1>5. T[i] = task[i] \/ T[i] = [task[i] EXCEPT !.signal = @ \cup {sig}]
  BY <1>1 DEF SendTo, Live
<1>6. Continue(Returns(T, i))
  BY <1>2
<1> HIDE DEF T
<1>7. T[i].state = "RUNNING" /\ T[i] \in Task /\ i \in Slots
  BY <1>1, <1>3, <1>5 DEF Task, Live
<1>8. i \in Live(T) \ {0}
  BY <1>1, <1>7, NoTaskAssumption DEF Live
<1> QED
  BY <1>1, <1>4, <1>6, <1>7, <1>8, ReturnsEnds

LEMMA ForkEnds ==
  ASSUME ProcIInv, NEW i, NEW memory, sys_fork(i, memory)
  PROVE  Ends /\ last_pid' \in Pids
<1>1. /\ i \in Live(task) \ {0} /\ task[i] \in Task /\ task[i].state = "RUNNING"
      /\ current = i /\ task[i].at = "user" /\ TableInv(task)
  BY CallerFacts DEF ProcIInv, sys_fork, InUser
<1>2. find_pid \in Pids /\ \A k \in Live(task) : task[k].pid # find_pid
  BY FindPidFresh DEF ProcIInv, CountersOK
<1>3. CASE FreeSlots # {} /\ memory
  <2> DEFINE s == Min(FreeSlots)
             c == copy_process(i)
             T == [task EXCEPT ![s] = c]
  <2>1. s \in FreeSlots
    <3>1. FreeSlots \in SUBSET Nat
      BY SlotsInt DEF FreeSlots
    <3> QED
      BY <1>3, <3>1, MinSmallest
  <2>2. s \in Slots \ {0} /\ task[s] = NoTask
    BY <2>1 DEF FreeSlots
  <2>3. /\ c \in Task /\ c.father = task[i].pid /\ c.pid = find_pid /\ ~c.leader
        /\ c.state = "RUNNING"
    <3> HIDE DEF find_pid
    <3> QED
      BY <1>1, <1>2 DEF copy_process, Task
  <2>4. Continue(Returns(T, i))
    BY <1>3 DEF sys_fork
  <2> HIDE DEF c, s
  <2>5. TableInv(T)
    BY <1>1, <1>2, <2>2, <2>3, ForkKeeps
  <2>6. T[i] = task[i] /\ i \in Slots
    BY <1>1, <2>2 DEF Live, TableInv, Typed
  <2> HIDE DEF T
  <2>7. i \in Live(T) \ {0} /\ T[i].state = "RUNNING"
    BY <1>1, <2>6 DEF Live
  <2> QED
    BY <1>1, <1>2, <2>4, <2>5, <2>7, ReturnsEnds DEF sys_fork
<1>4. CASE ~(FreeSlots # {} /\ memory)
  BY <1>1, <1>2, <1>4, ReturnsEnds DEF sys_fork
<1> QED
  BY <1>3, <1>4

LEMMA WaitpidEnds ==
  ASSUME ProcIInv, NEW i, NEW pid \in -MaxPid .. MaxPid, NEW nohang,
         sys_waitpid(i, pid, nohang)
  PROVE  Ends
<1>1. /\ i \in Live(task) \ {0} /\ task[i].state = "RUNNING"
      /\ current = i /\ TableInv(task)
  BY CallerFacts DEF ProcIInv, sys_waitpid, InUser
<1> QED
  BY <1>1, CollectEnds DEF sys_waitpid

(* The father wakes in waitpid() and looks again: only then does it drop   *)
(* the SIGCHLD.                                                            *)
LEMMA WaitpidAgainEnds ==
  ASSUME ProcIInv, NEW i, WaitpidAgain(i) PROVE Ends
<1>1. /\ i \in Live(task) \ {0} /\ task[i] \in Task /\ task[i].state = "RUNNING"
      /\ current = i /\ TableInv(task) /\ i \in Slots
  BY CallerFacts, Standing DEF ProcIInv, WaitpidAgain, InKernel
<1> DEFINE r == [task[i] EXCEPT !.signal = @ \ {SIGCHLD}, !.want = 0]
           T == [task EXCEPT ![i].signal = @ \ {SIGCHLD}, ![i].want = 0]
<1>2. T = [task EXCEPT ![i] = r] /\ T[i] = r
  BY <1>1 DEF TableInv, Typed
<1>3. \/ Collect(T, i, task[i].want, FALSE)
      \/ Continue(Returns(T, i))
  BY DEF WaitpidAgain
<1>4. /\ r \in Task /\ r.pid = task[i].pid /\ r.father = task[i].father
      /\ r.at = task[i].at /\ r.state = "RUNNING" /\ r.leader = task[i].leader
      /\ r.session = task[i].session /\ r.signal \subseteq task[i].signal
  <2>1. 0 \in -MaxPid .. MaxPid
    BY ProcessAssumption
  <2> QED
    BY <1>1, <2>1 DEF Task
<1>5. task[i].at = "waitpid" /\ task[i].want \in -MaxPid .. MaxPid
  BY <1>1 DEF WaitpidAgain, InKernel, Task
<1> HIDE DEF r, T
<1>6. OwnEdit(task, i, r)
  BY <1>1, <1>4, <1>5, Standing DEF OwnEdit
<1>7. TableInv([task EXCEPT ![i] = r])
  BY <1>1, <1>6, OwnEditKeeps
<1>8. TableInv(T) /\ i \in Live(T) \ {0} /\ T[i].state = "RUNNING"
  BY <1>1, <1>2, <1>4, <1>7, NoTaskAssumption DEF Live
<1>9. CASE Collect(T, i, task[i].want, FALSE)
  BY <1>1, <1>5, <1>8, <1>9, CollectEnds
<1>10. CASE Continue(Returns(T, i))
  BY <1>1, <1>8, <1>10, ReturnsEnds
<1> QED
  BY <1>3, <1>9, <1>10

LEMMA PauseEnds == ASSUME ProcIInv, NEW i, sys_pause(i) PROVE Ends
<1>1. /\ i \in Live(task) \ {0} /\ task[i] \in Task
      /\ TableInv(task) /\ i \in Slots
  BY CallerFacts, Standing DEF ProcIInv, sys_pause, InUser
<1> DEFINE r == [task[i] EXCEPT !.state = "INTERRUPTIBLE", !.at = "ret"]
           T == [task EXCEPT ![i].state = "INTERRUPTIBLE", ![i].at = "ret"]
<1>2. T = [task EXCEPT ![i] = r]
  BY <1>1 DEF TableInv, Typed
<1>3. OwnEdit(task, i, r)
  BY <1>1, Standing DEF OwnEdit, Task
<1>4. schedule(T)
  BY DEF sys_pause
<1> HIDE DEF r, T
<1> QED
  BY <1>1, <1>2, <1>3, <1>4, EditEnds

LEMMA RescheduleEnds == ASSUME ProcIInv, NEW i, reschedule(i) PROVE Ends
<1>1. /\ i \in Live(task) \ {0} /\ task[i] \in Task /\ task[i].state = "RUNNING"
      /\ TableInv(task) /\ i \in Slots
  BY CallerFacts, Standing DEF ProcIInv, reschedule, InUser, InKernel
<1> DEFINE r == [task[i] EXCEPT !.at = "signals"]
           T == [task EXCEPT ![i].at = "signals"]
<1>2. T = [task EXCEPT ![i] = r]
  BY <1>1 DEF TableInv, Typed
<1>3. OwnEdit(task, i, r)
  BY <1>1, Standing DEF OwnEdit, Task
<1>4. schedule(T)
  BY DEF reschedule
<1> HIDE DEF r, T
<1> QED
  BY <1>1, <1>2, <1>3, <1>4, EditEnds

LEMMA WakeUpEnds == ASSUME ProcIInv, NEW i \in Slots, WakeUp(i) PROVE Ends
<1>1. /\ i \in Live(task) \ {0} /\ task[i] \in Task /\ TableInv(task)
      /\ task[i].state = "UNINTERRUPTIBLE" /\ CurrentRuns(task, current)
  BY LiveTask DEF ProcIInv, WakeUp, Live, TableInv, Roots
<1> DEFINE r == [task[i] EXCEPT !.state = "RUNNING"]
           T == [task EXCEPT ![i].state = "RUNNING"]
<1>2. T = [task EXCEPT ![i] = r]
  BY <1>1 DEF TableInv, Typed
<1>3. OwnEdit(task, i, r)
  BY <1>1, Standing DEF OwnEdit, Task
<1>4. Continue(T)
  BY DEF WakeUp, Continue
<1>5. CurrentRuns(T, current)
  <2>1. current # i
    BY <1>1 DEF CurrentRuns
  <2>2. T[current] = task[current]
    BY <1>1, <2>1 DEF CurrentRuns, TableInv, Typed
  <2> QED
    BY <1>1, <2>2 DEF CurrentRuns
<1> HIDE DEF r, T
<1> QED
  BY <1>1, <1>2, <1>3, <1>4, <1>5, EditEnds

(* The calls that change the mask, the handler or the group of a process   *)
(* j, which is i or a child of i, and return.                              *)
LEMMA FieldEnds ==
  ASSUME ProcIInv, NEW i, current = i, i # 0, NEW j \in Live(task) \ {0},
         NEW r, Nudged(Returns(task, i)[j], r),
         r.signal = Returns(task, i)[j].signal, r.state = Returns(task, i)[j].state,
         Continue([Returns(task, i) EXCEPT ![j] = r])
  PROVE  Ends
<1>1. /\ i \in Live(task) \ {0} /\ task[i] \in Task /\ task[i].state = "RUNNING"
      /\ TableInv(task) /\ i \in Slots /\ j \in Slots
  BY CallerFacts, Standing DEF ProcIInv
<1> DEFINE R == Returns(task, i)
           a == [task[i] EXCEPT !.at = "ret"]
           U == [R EXCEPT ![j] = r]
<1>2. TableInv(R) /\ R = [task EXCEPT ![i] = a] /\ a.state = "RUNNING" /\ CurrentRuns(R, i)
  BY <1>1, ReturnsKeeps
<1>3. Nudged(R[j], r) /\ r.signal = R[j].signal /\ r.state = R[j].state /\ Continue(U)
  OBVIOUS
<1>4. \A k \in Slots : R[k] = IF k = i THEN a ELSE task[k]
  BY <1>1, <1>2 DEF TableInv, Typed
<1>5. a \in Task
  BY <1>1 DEF Task
<1> HIDE DEF R, a
<1>6. j \in Live(R)
  BY <1>1, <1>4, <1>5, NoTaskAssumption DEF Live
<1>7. \A k \in Slots : U[k] = IF k = j THEN r ELSE R[k]
  BY <1>2 DEF TableInv, Typed
<1>8. U = [k \in Slots |-> U[k]]
  BY <1>2 DEF TableInv, Typed
<1> HIDE DEF U
<1>9. \A k \in Live(R) : Nudged(R[k], U[k])
  <2> TAKE k \in Live(R)
  <2>1. R[k] \in Task /\ k \in Slots
    BY <1>2, LiveTask DEF TableInv
  <2>2. Nudged(R[k], R[k])
    BY <2>1 DEF Nudged
  <2> QED
    BY <1>3, <1>7, <2>1, <2>2
<1>10. U[1].signal \subseteq {SIGCHLD}
  BY <1>2, <1>3, <1>7, SlotsInt DEF TableInv, Roots
<1>11. \A k \in Slots \ Live(R) : U[k] = NoTask
  BY <1>6, <1>7 DEF Live
<1>12. TableInv(U)
  BY <1>2, <1>8, <1>9, <1>10, <1>11, NudgeKeeps
<1>13. CurrentRuns(U, current)
  BY <1>1, <1>2, <1>3, <1>7, NoTaskAssumption DEF CurrentRuns, Nudged
<1> QED
  BY <1>3, <1>12, <1>13, ContinueEnds

LEMMA ChangesEnd ==
  ASSUME ProcIInv, NEW i \in Slots \ {0, 1},
         \/ \E mask \in Masks : sys_ssetmask(i, mask)
         \/ \E handler \in Handlers : sys_signal(i, handler)
         \/ \E j \in Live(task) : sys_setpgid(i, j, task[j].pid)
  PROVE  Ends
<1> DEFINE R == Returns(task, i)
<1>1. /\ i \in Live(task) \ {0} /\ task[i] \in Task /\ task[i].state = "RUNNING"
      /\ current = i /\ TableInv(task)
  BY CallerFacts DEF ProcIInv, sys_ssetmask, sys_signal, sys_setpgid, Changes, InUser
<1>2. TableInv(R)
  BY <1>1, ReturnsKeeps
<1>3. \A k \in Live(task) : R[k] \in Task /\ k \in Slots
  <2>1. R = [task EXCEPT ![i] = [task[i] EXCEPT !.at = "ret"]]
    BY <1>1, ReturnsKeeps
  <2>2. [task[i] EXCEPT !.at = "ret"] \in Task
    BY <1>1 DEF Task
  <2> HIDE DEF R
  <2> QED
    BY <1>1, <2>1, <2>2, LiveTask DEF TableInv, Typed
<1>4. ASSUME NEW mask \in Masks, sys_ssetmask(i, mask) PROVE Ends
  <2> DEFINE r == [R[i] EXCEPT !.blocked = mask \ {SIGKILL}]
  <2>1. [R EXCEPT ![i].blocked = mask \ {SIGKILL}] = [R EXCEPT ![i] = r]
    BY <1>1, <1>2, <1>3 DEF TableInv, Typed
  <2>2. mask \ {SIGKILL} \in SUBSET _BLOCKABLE
    BY ProcessAssumption DEF _BLOCKABLE
  <2>3. Nudged(R[i], r) /\ r.signal = R[i].signal /\ r.state = R[i].state
    <3> HIDE DEF R
    <3> QED
      BY <1>1, <1>3, <2>2 DEF Nudged, Task
  <2>4. Continue([R EXCEPT ![i] = r])
    BY <1>4, <2>1 DEF sys_ssetmask
  <2> HIDE DEF r
  <2> QED
    BY <1>1, <2>3, <2>4, FieldEnds
<1>5. ASSUME NEW handler \in Handlers, sys_signal(i, handler) PROVE Ends
  <2> DEFINE r == [R[i] EXCEPT !.handler = handler]
  <2>1. [R EXCEPT ![i].handler = handler] = [R EXCEPT ![i] = r]
    BY <1>1, <1>2, <1>3 DEF TableInv, Typed
  <2>2. handler \in {"SIG_DFL", "SIG_IGN", "function"}
    BY ProcessAssumption
  <2>3. Nudged(R[i], r) /\ r.signal = R[i].signal /\ r.state = R[i].state
    <3> HIDE DEF R
    <3> QED
      BY <1>1, <1>3, <2>2 DEF Nudged, Task
  <2>4. Continue([R EXCEPT ![i] = r])
    BY <1>5, <2>1 DEF sys_signal
  <2> HIDE DEF r
  <2> QED
    BY <1>1, <2>3, <2>4, FieldEnds
<1>6. ASSUME NEW j \in Live(task), sys_setpgid(i, j, task[j].pid) PROVE Ends
  <2>1. CASE Continue([R EXCEPT ![j].pgrp = task[j].pid])
    <3> DEFINE r == [R[j] EXCEPT !.pgrp = task[j].pid]
    <3>1. [R EXCEPT ![j].pgrp = task[j].pid] = [R EXCEPT ![j] = r]
      BY <1>2, <1>3 DEF TableInv, Typed
    <3>2. task[j].pid \in Pids
      BY <1>1, LiveTask DEF TableInv, Task
    <3>3. Nudged(R[j], r) /\ r.signal = R[j].signal /\ r.state = R[j].state
      <4> HIDE DEF R
      <4> QED
        BY <1>3, <3>2 DEF Nudged, Task
    <3>4. Continue([R EXCEPT ![j] = r])
      BY <2>1, <3>1
    <3>5. j # 0
      BY <1>6 DEF sys_setpgid, Awaited
    <3> HIDE DEF r
    <3> QED
      BY <1>1, <3>3, <3>4, <3>5, FieldEnds
  <2>2. CASE Continue(R)
    BY <1>1, <2>2, ReturnsEnds
  <2> QED
    BY <1>6, <2>1, <2>2 DEF sys_setpgid
<1> QED
  BY <1>4, <1>5, <1>6

LEMMA SetsidEnds ==
  ASSUME ProcIInv, NEW i \in Slots \ {0, 1}, sys_setsid(i) PROVE Ends
<1>1. /\ i \in Live(task) \ {0} /\ task[i] \in Task /\ task[i].state = "RUNNING"
      /\ current = i /\ TableInv(task)
  BY CallerFacts DEF ProcIInv, sys_setsid, Changes, InUser
<1> DEFINE p == task[i].pid
           r == [task[i] EXCEPT !.at = "ret", !.leader = TRUE, !.session = p, !.pgrp = p]
           U == [task EXCEPT ![i] = r]
<1>2. Continue(U)
  <2>1. U = [Returns(task, i) EXCEPT ![i].leader = TRUE, ![i].session = p, ![i].pgrp = p]
    BY <1>1 DEF Returns, TableInv, Typed
  <2> QED
    BY <2>1 DEF sys_setsid
<1>3. /\ r \in Task /\ r.pid = p /\ r.father = task[i].father /\ r.at = "ret"
      /\ r.state = "RUNNING" /\ r.session = r.pid
  BY <1>1 DEF Task
<1>4. U[i] = r
  BY <1>1 DEF TableInv, Typed
<1> HIDE DEF r
<1>5. OwnEdit(task, i, r)
  BY <1>3 DEF OwnEdit
<1>6. CurrentRuns(U, current)
  BY <1>1, <1>3, <1>4, NoTaskAssumption DEF CurrentRuns
<1> QED
  BY <1>1, <1>2, <1>5, <1>6, EditEnds

(* ret_from_sys_call: a pending signal ends the task, or is dropped or     *)
(* handled.  Init never has one that ends it.                              *)
LEMMA RetEnds == ASSUME ProcIInv, NEW i, ret_from_sys_call(i) PROVE Ends
<1>1. /\ i \in Live(task) \ {0} /\ task[i] \in Task /\ task[i].state = "RUNNING"
      /\ current = i /\ TableInv(task) /\ i \in Slots
  BY CallerFacts, Standing DEF ProcIInv, ret_from_sys_call, InKernel
<1> DEFINE pending == task[i].signal \ task[i].blocked
           m == Min(pending)
<1>2. CASE pending = {}
  <2> DEFINE r == [task[i] EXCEPT !.at = "user"]
             U == [task EXCEPT ![i] = r]
  <2>1. Continue(U)
    <3>1. U = [task EXCEPT ![i].at = "user"]
      BY <1>1 DEF TableInv, Typed
    <3> QED
      BY <1>2, <3>1 DEF ret_from_sys_call
  <2>2. OwnEdit(task, i, r)
    BY <1>1, Standing DEF OwnEdit, Task
  <2>3. CurrentRuns(U, current)
    BY <1>1, NoTaskAssumption DEF CurrentRuns, TableInv, Typed, Task
  <2> HIDE DEF r
  <2> QED
    BY <1>1, <2>1, <2>2, <2>3, EditEnds
<1>3. CASE pending # {}
  <2> DEFINE r == [task[i] EXCEPT !.signal = @ \ {m}]
             T == [task EXCEPT ![i].signal = @ \ {m}]
  <2>1. m \in pending
    <3>1. pending \in SUBSET Nat
      BY <1>1 DEF Task, Signals, SIGHUP, SIGKILL, SIGCHLD
    <3> HIDE DEF pending
    <3> QED
      BY <1>3, <3>1, MinSmallest
  <2>2. do_signal(T, i, m)
    BY <1>3 DEF ret_from_sys_call
  <2>3. i = 1 => m = SIGCHLD
    BY <1>1, <2>1, Standing
  <2> HIDE DEF m
  <2>4. T = [task EXCEPT ![i] = r] /\ T[i] = r
    BY <1>1 DEF TableInv, Typed
  <2>5. /\ r \in Task /\ r.pid = task[i].pid /\ r.father = task[i].father
        /\ r.at = task[i].at /\ r.state = "RUNNING" /\ r.leader = task[i].leader
        /\ r.session = task[i].session /\ r.signal \subseteq task[i].signal
    BY <1>1 DEF Task
  <2>6. task[i].at \in {"ret", "signals"}
    BY DEF ret_from_sys_call, InKernel
  <2> HIDE DEF r, T
  <2>7. OwnEdit(task, i, r)
    BY <1>1, <2>5, <2>6, Standing DEF OwnEdit
  <2>8. TableInv([task EXCEPT ![i] = r])
    BY <1>1, <2>7, OwnEditKeeps
  <2>9. TableInv(T) /\ i \in Live(T) \ {0} /\ T[i].state = "RUNNING"
    BY <1>1, <2>4, <2>5, <2>8, NoTaskAssumption DEF Live
  <2>10. CASE m # SIGCHLD /\ do_exit(T, i)
    BY <1>1, <2>3, <2>9, <2>10, DoExitEnds
  <2>11. CASE \E h \in {"SIG_DFL", T[i].handler} :
                Continue([T EXCEPT ![i].at = "user", ![i].handler = h])
    <3>1. PICK h \in {"SIG_DFL", T[i].handler} :
            Continue([T EXCEPT ![i].at = "user", ![i].handler = h])
      BY <2>11
    <3> DEFINE s == [T[i] EXCEPT !.at = "user", !.handler = h]
               U == [T EXCEPT ![i] = s]
    <3>2. Typed(T) /\ T[i] \in Task
      BY <2>4, <2>5, <2>9 DEF TableInv
    <3>3. Continue(U)
      <4>1. U = [T EXCEPT ![i].at = "user", ![i].handler = h]
        BY <1>1, <3>2 DEF Typed
      <4> QED
        BY <3>1, <4>1
    <3>4. /\ s \in Task /\ s.pid = T[i].pid /\ s.father = T[i].father
          /\ s.at = "user" /\ s.state = "RUNNING" /\ s.leader = T[i].leader
          /\ s.session = T[i].session /\ s.signal = T[i].signal
      BY <2>9, <3>1, <3>2 DEF Task
    <3>5. U[i] = s
      BY <1>1, <3>2 DEF Typed
    <3> HIDE DEF s
    <3>6. OwnEdit(T, i, s)
      BY <2>9, <3>4, Standing DEF OwnEdit
    <3>7. CurrentRuns(U, current)
      BY <1>1, <3>4, <3>5, NoTaskAssumption DEF CurrentRuns
    <3> QED
      BY <2>9, <3>3, <3>6, <3>7, EditEnds
  <2>12. \/ m # SIGCHLD /\ do_exit(T, i)
         \/ \E h \in {"SIG_DFL", T[i].handler} :
              Continue([T EXCEPT ![i].at = "user", ![i].handler = h])
    <3> DEFINE handler == IF m = SIGHUP THEN T[i].handler ELSE "SIG_DFL"
               h == IF handler = "function" /\ m = SIGHUP THEN "SIG_DFL" ELSE T[i].handler
    <3>1. CASE handler = "SIG_DFL" /\ m # SIGCHLD
      BY <2>2, <3>1 DEF do_signal
    <3>2. CASE ~(handler = "SIG_DFL" /\ m # SIGCHLD)
      <4>1. T[i] \in Task /\ Typed(T)
        BY <2>4, <2>5, <2>9 DEF TableInv
      <4>2. Continue([T EXCEPT ![i].at = "user",
                               ![i].handler = IF handler = "function" /\ m = SIGHUP
                                              THEN "SIG_DFL" ELSE @])
        BY <2>2, <3>2 DEF do_signal
      <4>3. [T EXCEPT ![i].at = "user",
                      ![i].handler = IF handler = "function" /\ m = SIGHUP
                                     THEN "SIG_DFL" ELSE @]
            = [T EXCEPT ![i].at = "user", ![i].handler = h]
        BY <1>1, <4>1 DEF Typed, Task
      <4>4. h \in {"SIG_DFL", T[i].handler}
        OBVIOUS
      <4> HIDE DEF h
      <4> QED
        BY <4>2, <4>3, <4>4
    <3> QED
      BY <3>1, <3>2
  <2> QED
    BY <2>10, <2>11, <2>12
<1> QED
  BY <1>2, <1>3

(* Pids, groups and -1 are in the range of an argument. *)
LEMMA NamedRange == ASSUME ProcIInv, NEW pid \in Named PROVE pid \in -MaxPid .. MaxPid
<1>1. \A j \in Live(task) : task[j].pid \in Pids /\ task[j].pgrp \in Pids
  BY LiveTask DEF ProcIInv, TableInv, Task
<1> QED
  BY <1>1, ProcessAssumption DEF Named, Pids

LEMMA InitProcIInv == ProcInit => ProcIInv
<1> SUFFICES ASSUME ProcInit PROVE ProcIInv
  OBVIOUS
<1>1. 0 \in Pids /\ 1 \in Pids /\ 0 \in -MaxPid .. MaxPid
  BY ProcessAssumption DEF Pids
<1>2. Boot(0) \in Task /\ Boot(1) \in Task
  BY <1>1 DEF Boot, Task
<1>3. \A i \in Slots : task[i] = IF i \in {0, 1} THEN Boot(i) ELSE NoTask
  BY SlotsInt DEF ProcInit
<1>4. task[0] = Boot(0) /\ task[1] = Boot(1) /\ Live(task) = {0, 1}
  BY <1>2, <1>3, SlotsInt, NoTaskAssumption DEF Live
<1>5. Typed(task)
  BY <1>2, <1>3 DEF ProcInit, Typed
<1>6. Unique(task)
  BY <1>4 DEF Unique, Boot
<1>7. Fathers(task)
  BY <1>4 DEF Fathers, Boot
<1>8. Roots(task)
  <2>1. task[0] # NoTask /\ task[1] # NoTask
    BY <1>2, <1>4, NoTaskAssumption
  <2>2. task[0].pid = 0 /\ task[0].state = "RUNNING" /\ task[0].at = "user"
    BY <1>4 DEF Boot
  <2>3. /\ task[1].pid = 1 /\ task[1].state # "ZOMBIE" /\ task[1].at \notin {"exit", "gone"}
        /\ task[1].session = 0 /\ task[1].signal = {}
    BY <1>4 DEF Boot
  <2>4. ~task[1].leader
    BY <1>4 DEF Boot
  <2> QED
    BY <2>1, <2>2, <2>3, <2>4 DEF Roots
<1>9. Leaders(task) /\ Gone(task)
  BY <1>4 DEF Leaders, Gone, Boot
<1>10. Heard(task)
  BY <1>4 DEF Heard, Waits, Boot
<1>11. CurrentRuns(task, current)
  BY <1>2, <1>4, SlotsInt, NoTaskAssumption DEF ProcInit, CurrentRuns, Boot
<1>12. CountersOK
  BY <1>1, ProcessAssumption DEF ProcInit, CountersOK
<1> QED
  BY <1>5, <1>6, <1>7, <1>8, <1>9, <1>10, <1>11, <1>12 DEF ProcIInv, TableInv

(* Every step keeps the invariant: the calls, the kernel's own steps, the  *)
(* wakeups and the idle task.                                              *)
LEMMA NextProcIInv == ProcIInv /\ [ProcNext]_procVars => ProcIInv'
<1> SUFFICES ASSUME ProcIInv, [ProcNext]_procVars PROVE ProcIInv'
  OBVIOUS
<1>0. CountersOK
  BY DEF ProcIInv
<1>1. ASSUME Ends, UNCHANGED last_pid \/ last_pid' \in Pids,
             UNCHANGED signals \/ (signals < MaxSignals /\ signals' = signals + 1),
             UNCHANGED changes \/ (changes < MaxChanges /\ changes' = changes + 1)
      PROVE  ProcIInv'
  BY <1>0, <1>1, ProcessAssumption DEF ProcIInv, Ends, CountersOK
<1>2. ASSUME NEW i \in Slots \ {0, 1}, Call(i) PROVE ProcIInv'
  <2>1. CASE sys_exit(i)
    <3>1. /\ i \in Live(task) \ {0, 1} /\ task[i].state = "RUNNING" /\ current = i
          /\ do_exit(task, i)
      BY <2>1, CallerFacts DEF ProcIInv, sys_exit, InUser
    <3> QED
      BY <1>1, <2>1, <3>1, DoExitEnds DEF sys_exit, ProcIInv
  <2>2. CASE sys_pause(i)
    BY <1>1, <2>2, PauseEnds DEF sys_pause
  <2>3. CASE sys_setsid(i)
    BY <1>1, <2>3, SetsidEnds DEF sys_setsid, Changes
  <2>4. ASSUME NEW memory, sys_fork(i, memory) PROVE ProcIInv'
    BY <1>1, <2>4, ForkEnds DEF sys_fork
  <2>5. ASSUME NEW pid \in Named, NEW nohang, sys_waitpid(i, pid, nohang) PROVE ProcIInv'
    BY <1>1, <2>5, WaitpidEnds, NamedRange DEF sys_waitpid
  <2>6. ASSUME NEW pid, NEW sig \in Sent, sys_kill(i, pid, sig) PROVE ProcIInv'
    BY <1>1, <2>6, KillEnds DEF sys_kill
  <2>7. ASSUME NEW mask \in Masks, sys_ssetmask(i, mask) PROVE ProcIInv'
    BY <1>1, <2>7, ChangesEnd DEF sys_ssetmask, Changes
  <2>8. ASSUME NEW handler \in Handlers, sys_signal(i, handler) PROVE ProcIInv'
    BY <1>1, <2>8, ChangesEnd DEF sys_signal, Changes
  <2>9. ASSUME NEW j \in Live(task), sys_setpgid(i, j, task[j].pid) PROVE ProcIInv'
    BY <1>1, <2>9, ChangesEnd DEF sys_setpgid, Changes
  <2> QED
    BY <1>2, <2>1, <2>2, <2>3, <2>4, <2>5, <2>6, <2>7, <2>8, <2>9 DEF Call
<1>3. ASSUME NEW i \in Slots, Kernel(i) PROVE ProcIInv'
  <2>1. CASE WaitpidAgain(i)
    BY <1>1, <2>1, WaitpidAgainEnds DEF WaitpidAgain
  <2>2. CASE ExitFinish(i)
    BY <1>1, <2>2, ExitFinishEnds DEF ExitFinish, ProcIInv
  <2>3. CASE ret_from_sys_call(i)
    BY <1>1, <2>3, RetEnds DEF ret_from_sys_call
  <2> QED
    BY <1>3, <2>1, <2>2, <2>3 DEF Kernel
<1>4. ASSUME NEW i \in Slots, reschedule(i) PROVE ProcIInv'
  BY <1>1, <1>4, RescheduleEnds DEF reschedule
<1>5. ASSUME NEW i \in Slots, WakeUp(i) PROVE ProcIInv'
  BY <1>1, <1>5, WakeUpEnds DEF WakeUp
<1>6. CASE InitCall
  <2>1. ASSUME NEW memory, sys_fork(1, memory) PROVE ProcIInv'
    BY <1>1, <2>1, ForkEnds DEF sys_fork
  <2>2. ASSUME sys_waitpid(1, -1, FALSE) PROVE ProcIInv'
    <3>1. -1 \in -MaxPid .. MaxPid
      BY ProcessAssumption
    <3> QED
      BY <1>1, <2>2, <3>1, WaitpidEnds DEF sys_waitpid
  <2> QED
    BY <1>6, <2>1, <2>2 DEF InitCall
<1>7. CASE Idle
  BY <1>1, <1>7, ScheduleEnds DEF Idle, ProcIInv
<1>8. CASE UNCHANGED procVars
  <2>1. task' = task /\ current' = current /\ last_pid' = last_pid
        /\ signals' = signals /\ changes' = changes
    BY <1>8 DEF procVars
  <2>2. TableInv(task') /\ CurrentRuns(task', current')
    BY <2>1 DEF ProcIInv
  <2> QED
    BY <1>1, <2>1, <2>2 DEF Ends
<1> QED
  BY <1>2, <1>3, <1>4, <1>5, <1>6, <1>7, <1>8 DEF ProcNext

LEMMA ProcIInvAlways == ProcSpec => []ProcIInv
BY InitProcIInv, NextProcIInv, PTL DEF ProcSpec

(* The task table keeps its types, the cpu is always with a runnable task, *)
(* idle and init stay in their slots, and no pid is ever given out while   *)
(* a process or a zombie has it, however often last_pid wraps around.      *)
THEOREM ProcessesSound == ProcSpec => []ProcInv
<1>1. ProcIInv => ProcInv
  BY IInvStronger
<1> QED
  BY <1>1, ProcIInvAlways, PTL

(* Every process always has a living father that has not begun to exit:    *)
(* tell_father() never finds "BAD BAD - no father found".                  *)
THEOREM NeverFatherless == ProcSpec => []FatherLives
<1>1. ProcIInv => FatherLives
  BY IInvStronger
<1> QED
  BY <1>1, ProcIInvAlways, PTL

(* No death is missed: a father asleep in waitpid() with a zombie to       *)
(* collect has SIGCHLD pending, also when init adopted the zombie.         *)
THEOREM DeathAlwaysHeard == ProcSpec => []DeathHeard
<1>1. ProcIInv => DeathHeard
  BY IInvStronger
<1> QED
  BY <1>1, ProcIInvAlways, PTL
=============================================================================
