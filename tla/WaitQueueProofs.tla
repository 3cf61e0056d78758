--------------------------- MODULE WaitQueueProofs ---------------------------
(***************************************************************************)
(* The wait queues, and two components whose tasks sleep in them.          *)
(*                                                                         *)
(* Alone, under the scheduler and under pipes: no sleeper is lost and no   *)
(* pointer to a sleeper is stale, for every set of tasks, queues,          *)
(* priorities and alarms.                                                  *)
(*                                                                         *)
(* Pipes: the counts that tell a reader or a writer whether the other end  *)
(* is there are exact, and what goes through the ring is a stream of       *)
(* bytes, for every number of tasks, files, descriptors, every message and *)
(* every size of the page.                                                 *)
(***************************************************************************)
EXTENDS Scheduler, Pipe, OrderTheorems, SequenceTheorems

(* Nobody sleeps at the start. *)
LEMMA InitWaitIInv == WaitInit => WaitIInv
BY WaitAssumption
   DEF WaitInit, WaitIInv, WaitTypeOK, SleepersQueued, NoOrphan,
       NoStalePointer, OnePointer, Asleep

(* Going to sleep: the new head takes over the pointer to the old one.     *)
(* The sleeper need not be "running" (a task that a pause() left           *)
(* interruptible may call sleep_on() too), only outside any other sleep.   *)
LEMMA SleepKeepsIInv ==
  ASSUME WaitIInv, NEW t \in Tasks, NEW p \in Queues, on[t] = NoQueue, sleep_on(t, p)
  PROVE  WaitIInv'
<1> USE WaitAssumption DEF WaitIInv, sleep_on, Asleep
<1>0. ~Asleep(t)
  BY DEF SleepersQueued
<1>1. WaitTypeOK'
  BY DEF WaitTypeOK
<1>2. t # tmp[t] /\ \A q \in Queues : wait[q] # t
  BY <1>0 DEF NoStalePointer, WaitTypeOK
<1>3. \A s \in Tasks : tmp[s] # t
  BY <1>0 DEF NoStalePointer, WaitTypeOK
<1>4. SleepersQueued'
  BY DEF SleepersQueued, WaitTypeOK
<1>5. NoOrphan'
  <2> SUFFICES ASSUME NEW x \in Tasks, Asleep(x)'
               PROVE  \/ wait'[on'[x]] = x
                      \/ \E s \in Tasks : on'[s] = on'[x] /\ tmp'[s] = x
    BY DEF NoOrphan
  <2>1. CASE x = t
    BY <2>1 DEF WaitTypeOK
  <2>2. CASE x # t /\ wait[on[x]] = x
    BY <2>2 DEF WaitTypeOK
  <2>3. CASE x # t /\ wait[on[x]] # x
    <3>1. PICK s \in Tasks : on[s] = on[x] /\ tmp[s] = x
      BY <2>3 DEF NoOrphan, WaitTypeOK
    <3>2. s # t
      BY <3>1 DEF NoStalePointer
    <3> QED
      BY <2>3, <3>1, <3>2 DEF WaitTypeOK
  <2> QED
    BY <2>1, <2>2, <2>3
<1>6. NoStalePointer'
  BY <1>2, <1>3 DEF NoStalePointer, WaitTypeOK
<1>7. OnePointer'
  BY <1>2, <1>3 DEF OnePointer, NoStalePointer, WaitTypeOK
<1> QED
  BY <1>1, <1>4, <1>5, <1>6, <1>7

(* Returning: the frame of t disappears with the one pointer to tmp[t]. *)
LEMMA ReturnKeepsIInv ==
  ASSUME WaitIInv, NEW t \in Tasks, sleep_return(t)
  PROVE  WaitIInv'
<1> USE WaitAssumption DEF WaitIInv, sleep_return, Awaken, Running, Asleep
<1>1. WaitTypeOK'
  BY DEF WaitTypeOK
<1>2. SleepersQueued'
  BY DEF SleepersQueued, WaitTypeOK
<1>3. \A x \in Tasks : Asleep(x)' => Asleep(x) /\ x # tmp[t] /\ x # t
  BY DEF WaitTypeOK
<1>4. NoOrphan'
  BY <1>3 DEF NoOrphan, WaitTypeOK
<1>5. NoStalePointer'
  BY DEF NoStalePointer, OnePointer, WaitTypeOK
<1>6. OnePointer'
  BY DEF OnePointer, WaitTypeOK
<1> QED
  BY <1>1, <1>2, <1>4, <1>5, <1>6

(* Waking: each head loses the one pointer to it as it starts to run. *)
LEMMA WakeKeepsIInv ==
  ASSUME WaitIInv, NEW ps \in SUBSET Queues, wake_up(ps)
  PROVE  WaitIInv'
<1> USE WaitAssumption DEF WaitIInv, wake_up, Awaken, Running, Asleep
<1>1. WaitTypeOK'
  BY DEF WaitTypeOK
<1>2. SleepersQueued'
  BY DEF SleepersQueued, WaitTypeOK
<1>3. \A x \in Tasks : Asleep(x)' => Asleep(x) /\ \A p \in ps : x # wait[p]
  BY DEF WaitTypeOK
<1>4. NoOrphan'
  BY <1>3 DEF NoOrphan, SleepersQueued, WaitTypeOK
<1>5. NoStalePointer'
  BY DEF NoStalePointer, OnePointer, WaitTypeOK
<1>6. OnePointer'
  BY DEF OnePointer, WaitTypeOK
<1> QED
  BY <1>1, <1>2, <1>4, <1>5, <1>6

(* The conjunction of WaitTypeOK, NoOrphan, NoStalePointer and their       *)
(* strengthening is an invariant of the wait queues.                       *)
THEOREM WaitInvariant == WaitSpec => []WaitIInv
<1>1. WaitIInv /\ [WaitNext]_waitVars => WaitIInv'
  <2> SUFFICES ASSUME WaitIInv, [WaitNext]_waitVars
               PROVE  WaitIInv'
    OBVIOUS
  <2>1. CASE \E t \in Tasks, p \in Queues : Sleep(t, p)
    BY <2>1, SleepKeepsIInv DEF Sleep
  <2>2. CASE \E t \in Tasks : sleep_return(t)
    BY <2>2, ReturnKeepsIInv
  <2>3. CASE \E ps \in SUBSET Queues : wake_up(ps)
    BY <2>3, WakeKeepsIInv
  <2>4. CASE UNCHANGED waitVars
    BY <2>4
       DEF waitVars, WaitIInv, WaitTypeOK, SleepersQueued, NoOrphan,
           NoStalePointer, OnePointer, Asleep
  <2> QED
    BY <2>1, <2>2, <2>3, <2>4 DEF WaitNext
<1> QED
  BY <1>1, InitWaitIInv, PTL DEF WaitSpec

(* Whatever the callers of sleep_on() and wake_up() do, every sleeping     *)
(* task can still be reached by a pointer.                                 *)
THEOREM NeverOrphaned == WaitSpec => []NoOrphan
<1>1. WaitIInv => NoOrphan
  BY DEF WaitIInv
<1> QED
  BY <1>1, WaitInvariant, PTL

(* No head and no saved tmp ever points to a task that is not asleep in    *)
(* that queue.                                                             *)
THEOREM NeverStale == WaitSpec => []NoStalePointer
<1>1. WaitIInv => NoStalePointer
  BY DEF WaitIInv
<1> QED
  BY <1>1, WaitInvariant, PTL

----------------------------------------------------------------------------
(* Nothing the wait queues depend on: who is asleep, and the pointers. *)
QueuesKept ==
  /\ state' \in [Tasks -> {"running", "interruptible", "uninterruptible"}]
  /\ \A t \in Tasks : Asleep(t)' = Asleep(t)
  /\ UNCHANGED <<wait, on, tmp>>

(* The invariant of the queues depends on nothing else. *)
LEMMA KeptKeepsIInv == ASSUME WaitIInv, QueuesKept PROVE WaitIInv'
<1> USE DEF WaitIInv, QueuesKept
<1>1. WaitTypeOK'
  BY DEF WaitTypeOK
<1>2. SleepersQueued'
  BY DEF SleepersQueued
<1>3. NoOrphan'
  BY DEF NoOrphan
<1>4. NoStalePointer'
  <2>1. \A p \in Queues : wait[p] # NoTask => wait[p] \in Tasks
    BY DEF WaitTypeOK
  <2>2. \A s \in Tasks : tmp[s] # NoTask => tmp[s] \in Tasks
    BY DEF WaitTypeOK
  <2> QED
    BY <2>1, <2>2 DEF NoStalePointer, Asleep
<1>5. OnePointer'
  BY DEF OnePointer
<1> QED
  BY <1>1, <1>2, <1>3, <1>4, <1>5

(* schedule() makes only interruptible tasks runnable: a task that sleeps  *)
(* in a queue is left to the task that points to it.                       *)
LEMMA ScheduleKeeps ==
  ASSUME WaitTypeOK, NEW c, NEW a, schedule(c, a), UNCHANGED <<wait, on, tmp>>
  PROVE  QueuesKept
BY DEF WaitTypeOK, schedule, Awake, QueuesKept, Asleep, Running

(* A step that changes no state of a task. *)
LEMMA SameStateKeeps ==
  ASSUME WaitTypeOK, UNCHANGED state, UNCHANGED <<wait, on, tmp>>
  PROVE  QueuesKept
BY DEF WaitTypeOK, QueuesKept, Asleep

(* The end of a system call reschedules when the slice is used up. *)
LEMMA EndCallKeeps ==
  ASSUME WaitTypeOK, NEW i, NEW a, EndCall(i, a)
  PROVE  QueuesKept
BY ScheduleKeeps, SameStateKeeps DEF EndCall

(* Every step of the scheduler keeps the invariant of the wait queues. *)
LEMMA SchedKeepsIInv == WaitIInv /\ [SchedNext]_schedVars => WaitIInv'
<1> SUFFICES ASSUME WaitIInv, [SchedNext]_schedVars PROVE WaitIInv'
  OBVIOUS
<1>0. WaitTypeOK
  BY DEF WaitIInv
<1>1. CASE do_timer
  <2>1. QueuesKept
    BY <1>0, <1>1, ScheduleKeeps, SameStateKeeps DEF do_timer
  <2> QED
    BY <2>1, KeptKeepsIInv
<1>2. CASE Idle
  BY <1>0, <1>2, ScheduleKeeps, KeptKeepsIInv DEF Idle
<1>3. ASSUME NEW p \in Queues, WakeUp(p) PROVE WaitIInv'
  BY <1>3, WakeKeepsIInv DEF WakeUp
<1>4. ASSUME NEW i \in Tasks, EnterKernel(i) \/ TakeSignal(i) PROVE WaitIInv'
  BY <1>0, <1>4, SameStateKeeps, KeptKeepsIInv DEF EnterKernel, TakeSignal, waitVars
<1>5. ASSUME NEW i \in Tasks, LeaveKernel(i) PROVE WaitIInv'
  BY <1>0, <1>5, EndCallKeeps, KeptKeepsIInv DEF LeaveKernel
<1>6. ASSUME NEW i \in Tasks, sys_pause(i) PROVE WaitIInv'
  <2>1. ~Asleep(i)
    BY <1>6 DEF sys_pause, WaitIInv, SleepersQueued
  <2>2. QueuesKept
    BY <1>0, <1>6, <2>1 DEF sys_pause, QueuesKept, WaitTypeOK, Asleep
  <2> QED
    BY <2>2, KeptKeepsIInv
<1>7. ASSUME NEW i \in Tasks, GiveUpCpu(i) PROVE WaitIInv'
  BY <1>0, <1>7, ScheduleKeeps, KeptKeepsIInv DEF GiveUpCpu
<1>8. ASSUME NEW i \in Tasks, SleepReturn(i) PROVE WaitIInv'
  BY <1>8, ReturnKeepsIInv DEF SleepReturn
<1>9. ASSUME NEW i \in Tasks, NEW p \in Queues, SleepOn(i, p) PROVE WaitIInv'
  BY <1>9, SleepKeepsIInv DEF SleepOn
<1>10. ASSUME NEW i \in Tasks, NEW seconds \in Seconds, sys_alarm(i, seconds)
       PROVE  WaitIInv'
  BY <1>0, <1>10, EndCallKeeps, KeptKeepsIInv DEF sys_alarm
<1>11. ASSUME NEW i \in Tasks, NEW new \in Priorities \cup {0}, sys_nice(i, new)
       PROVE  WaitIInv'
  BY <1>0, <1>11, EndCallKeeps, KeptKeepsIInv DEF sys_nice
<1>12. CASE UNCHANGED schedVars
  BY <1>0, <1>12, SameStateKeeps, KeptKeepsIInv DEF schedVars, waitVars
<1> QED
  BY <1>1, <1>2, <1>3, <1>4, <1>5, <1>6, <1>7, <1>8, <1>9, <1>10, <1>11, <1>12
     DEF SchedNext

(* The scheduler runs the wait queues as WaitQueue describes them: types,  *)
(* reachable sleepers and exact pointers are invariants.                   *)
THEOREM SchedWaitInvariant == SchedSpec => []WaitIInv
<1>1. SchedInit => WaitIInv
  BY InitWaitIInv DEF SchedInit
<1> QED
  BY <1>1, SchedKeepsIInv, PTL DEF SchedSpec

(* However tasks are rescheduled between sleep_on() and the wakeup, no     *)
(* sleeper becomes unreachable.                                            *)
THEOREM SchedNoOrphan == SchedSpec => []NoOrphan
<1>1. WaitIInv => NoOrphan
  BY DEF WaitIInv
<1> QED
  BY <1>1, SchedWaitInvariant, PTL

(* "tmp->state=0" never wakes a task that has moved on, however schedule() *)
(* orders the sleepers that were woken.                                    *)
THEOREM SchedNoStalePointer == SchedSpec => []NoStalePointer
<1>1. WaitIInv => NoStalePointer
  BY DEF WaitIInv
<1> QED
  BY <1>1, SchedWaitInvariant, PTL

----------------------------------------------------------------------------
(* The sum of the counts g[a], written as the number of pairs <<a, k>>     *)
(* with k <= g[a].                                                         *)
Total(A, g) == Cardinality({d \in A \X (1 .. NR_OPEN) : d[2] <= g[d[1]]})

(* A total is one count and the rest. *)
LEMMA TotalSplit ==
  ASSUME NEW A, IsFiniteSet(A), NEW a \in A, NEW g \in [A -> 0 .. NR_OPEN]
  PROVE  LET rest == {d \in (A \ {a}) \X (1 .. NR_OPEN) : d[2] <= g[d[1]]} IN
         /\ Total(A, g) = Cardinality(rest) + g[a]
         /\ Cardinality(rest) \in Nat
<1> DEFINE N == 1 .. NR_OPEN
           X == {d \in A \X N : d[2] <= g[d[1]]}
           rest == {d \in (A \ {a}) \X N : d[2] <= g[d[1]]}
<1>1. NR_OPEN \in Nat
  BY PipeAssumption
<1>2. IsFiniteSet(N)
  BY <1>1, FS_Interval
<1>3. X \in SUBSET (A \X N)
  OBVIOUS
<1>4. Without(X, a) = rest
  BY DEF Without
<1>5. With(X, a, N) = 1 .. g[a]
  <2>1. g[a] \in 0 .. NR_OPEN
    OBVIOUS
  <2>2. With(X, a, N) = {k \in N : k <= g[a]}
    BY DEF With
  <2>3. {k \in 1 .. NR_OPEN : k <= g[a]} = 1 .. g[a]
    BY <1>1, <2>1
  <2> QED
    BY <2>2, <2>3
<1>6. Cardinality(1 .. g[a]) = g[a]
  <2>1. g[a] \in Nat
    OBVIOUS
  <2> QED
    BY <2>1, FS_Interval
<1> HIDE DEF X, rest, N
<1>7. /\ Cardinality(X) = Cardinality(Without(X, a)) + Cardinality(With(X, a, N))
      /\ Cardinality(Without(X, a)) \in Nat
  BY ONLY <1>2, <1>3, PairSplit, IsFiniteSet(A), a \in A
<1>8. Total(A, g) = Cardinality(X)
  BY DEF Total, X, N
<1> QED
  BY <1>4, <1>5, <1>6, <1>7, <1>8 DEF rest, N

(* When one count changes, the total follows. *)
LEMMA TotalChange ==
  ASSUME NEW A, IsFiniteSet(A), NEW a \in A,
         NEW g \in [A -> 0 .. NR_OPEN], NEW h \in [A -> 0 .. NR_OPEN],
         \A b \in A \ {a} : h[b] = g[b]
  PROVE  /\ Total(A, g) \in Nat /\ g[a] <= Total(A, g)
         /\ Total(A, h) \in Nat
         /\ Total(A, h) = Total(A, g) - g[a] + h[a]
<1> DEFINE rg == {d \in (A \ {a}) \X (1 .. NR_OPEN) : d[2] <= g[d[1]]}
           rh == {d \in (A \ {a}) \X (1 .. NR_OPEN) : d[2] <= h[d[1]]}
<1>1. rg = rh
  OBVIOUS
<1>2. /\ Total(A, g) = Cardinality(rg) + g[a] /\ Cardinality(rg) \in Nat
      /\ Total(A, h) = Cardinality(rh) + h[a]
  BY TotalSplit
<1>3. g[a] \in Nat /\ h[a] \in Nat
  OBVIOUS
<1> HIDE DEF rg, rh
<1> QED
  BY ONLY <1>1, <1>2, <1>3

(* Totals are sums: a total is zero when every count is. *)
LEMMA TotalZero ==
  ASSUME NEW A, NEW g \in [A -> 0 .. NR_OPEN], \A a \in A : g[a] = 0
  PROVE  Total(A, g) = 0
<1>1. {d \in A \X (1 .. NR_OPEN) : d[2] <= g[d[1]]} = {}
  BY PipeAssumption
<1> QED
  BY <1>1, FS_EmptySet DEF Total

----------------------------------------------------------------------------
(* How many descriptors each task has for f. *)
UsersOf(f) == [t \in Tasks |-> filp[t][f]]

(* What the ring, the buffers and the copies are made of. *)
DataOK ==
  /\ page \in [0 .. PAGE_SIZE - 1 -> Nat]
  /\ buf \in [Tasks -> Seq(Nat)] /\ count \in [Tasks -> Nat]
  /\ copy \in [Tasks -> Nat \X Nat]

(* A copy that met a page fault is of a piece of the page, and of what the *)
(* writer has.                                                             *)
CopiesOK ==
  \A t \in Tasks :
    /\ pc[t] \in {"rcopy", "wcopy"} =>
         copy[t][2] >= 1 /\ copy[t][1] + copy[t][2] <= PAGE_SIZE
    /\ pc[t] = "wcopy" => copy[t][2] <= Len(buf[t])

(* A task in a call has the pipe open, one that is gone has nothing open,  *)
(* and nobody has more descriptors than there are.                         *)
HoldersOK ==
  \A t \in Tasks :
    /\ pc[t] # "user" => Held(t) # {}
    /\ t \notin live => \A f \in Files : filp[t][f] = 0
    /\ Total(Files, filp[t]) <= NR_OPEN

CountsOK ==
  /\ \A f \in Files : f_count[f] = Total(Tasks, UsersOf(f))
  /\ i_count = Cardinality({f \in Files : f_count[f] > 0})

(* The inductive invariant. *)
PipeIInv == PipeTypeOK /\ DataOK /\ CopiesOK /\ HoldersOK /\ CountsOK

----------------------------------------------------------------------------
LEMMA PipeFinite ==
  /\ IsFiniteSet(Tasks) /\ IsFiniteSet(Files)
  /\ NR_OPEN \in Nat /\ PAGE_SIZE \in Nat /\ PAGE_SIZE > 1
  /\ i_wait \in Queues
<1>1. NR_FILE \in Nat
  BY PipeAssumption
<1>2. IsFiniteSet(Files)
  BY <1>1, FS_Interval DEF Files
<1>3. i_wait \in Queues
  BY PipeAssumption DEF i_wait
<1> QED
  BY <1>2, <1>3, PipeAssumption

(* CountsOK is PipeCounts. *)
LEMMA CountsAre ==
  CountsOK <=> PipeCounts
<1>1. ASSUME NEW f \in Files
      PROVE  Total(Tasks, UsersOf(f)) =
               Cardinality({d \in Tasks \X (1 .. NR_OPEN) : d[2] <= filp[d[1]][f]})
  <2>1. {d \in Tasks \X (1 .. NR_OPEN) : d[2] <= UsersOf(f)[d[1]]} =
        {d \in Tasks \X (1 .. NR_OPEN) : d[2] <= filp[d[1]][f]}
    BY DEF UsersOf
  <2> QED
    BY <2>1 DEF Total
<1> QED
  BY <1>1 DEF CountsOK, PipeCounts

(* The files that are open. *)
OpenFiles == {f \in Files : f_count[f] > 0}

(* f_count is at least the descriptors of each task; i_count is 0 when     *)
(* nobody has one.                                                         *)
LEMMA FileCounts ==
  ASSUME PipeIInv, NEW t \in Tasks, NEW f \in Files
  PROVE  /\ filp[t][f] \in Nat /\ f_count[f] \in Nat /\ filp[t][f] <= f_count[f]
         /\ i_count = 0 => f_count[f] = 0
<1>1. filp \in [Tasks -> [Files -> 0 .. NR_OPEN]] /\ f_count \in [Files -> Nat]
  BY DEF PipeIInv, PipeTypeOK
<1>2. UsersOf(f) \in [Tasks -> 0 .. NR_OPEN] /\ UsersOf(f)[t] = filp[t][f]
  BY <1>1 DEF UsersOf
<1>3. f_count[f] = Total(Tasks, UsersOf(f)) /\ i_count = Cardinality(OpenFiles)
  BY DEF PipeIInv, CountsOK, OpenFiles
<1>4. UsersOf(f)[t] <= Total(Tasks, UsersOf(f))
  BY <1>2, PipeFinite, TotalChange
<1>5. i_count = 0 => f_count[f] = 0
  <2>1. IsFiniteSet(OpenFiles)
    BY PipeFinite, FS_Subset DEF OpenFiles
  <2>2. Cardinality(OpenFiles) = 0 => OpenFiles = {}
    BY <2>1, FS_EmptySet
  <2>3. f_count[f] # 0 => f \in OpenFiles
    BY <1>1 DEF OpenFiles
  <2> QED
    BY <1>3, <2>2, <2>3
<1>6. filp[t][f] \in Nat /\ f_count[f] \in Nat
  BY <1>1
<1> QED
  BY <1>2, <1>3, <1>4, <1>5, <1>6

(* A task in a call keeps the pipe open. *)
LEMMA CallerOpen ==
  ASSUME PipeIInv, NEW t \in Tasks, pc[t] # "user"
  PROVE  i_count # 0
<1>1. PICK f \in Files : filp[t][f] > 0
  BY DEF PipeIInv, HoldersOK, Held
<1> QED
  BY <1>1, FileCounts

(* The descriptors of one task change: the counts of the files follow. *)
LEMMA RowChange ==
  ASSUME PipeIInv, NEW t \in Tasks, NEW new \in [Files -> 0 .. NR_OPEN],
         filp' = [filp EXCEPT ![t] = new], NEW f \in Files
  PROVE  /\ UsersOf(f)' \in [Tasks -> 0 .. NR_OPEN]
         /\ Total(Tasks, UsersOf(f)') = f_count[f] - filp[t][f] + new[f]
         /\ Total(Tasks, UsersOf(f)') \in Nat
<1>1. filp \in [Tasks -> [Files -> 0 .. NR_OPEN]]
  BY DEF PipeIInv, PipeTypeOK
<1>2. UsersOf(f) \in [Tasks -> 0 .. NR_OPEN] /\ UsersOf(f)[t] = filp[t][f]
  BY <1>1 DEF UsersOf
<1>3. /\ UsersOf(f)' \in [Tasks -> 0 .. NR_OPEN] /\ UsersOf(f)'[t] = new[f]
      /\ \A s \in Tasks \ {t} : UsersOf(f)'[s] = UsersOf(f)[s]
  BY <1>1 DEF UsersOf
<1>4. f_count[f] = Total(Tasks, UsersOf(f))
  BY DEF PipeIInv, CountsOK
<1> DEFINE g == UsersOf(f)
           h == UsersOf(f)'
<1>5. /\ g \in [Tasks -> 0 .. NR_OPEN] /\ h \in [Tasks -> 0 .. NR_OPEN]
      /\ \A s \in Tasks \ {t} : h[s] = g[s]
  BY <1>2, <1>3
<1>6. Total(Tasks, h) \in Nat /\ Total(Tasks, h) = Total(Tasks, g) - g[t] + h[t]
  <2> HIDE DEF g, h
  <2> QED
    BY <1>5, PipeFinite, TotalChange
<1> QED
  BY <1>2, <1>3, <1>4, <1>6

(* wake_up(), sleep_on() and the return from it keep the types. *)
LEMMA WakeTypes ==
  ASSUME WaitTypeOK, NEW ps \in SUBSET Queues, wake_up(ps)
  PROVE  WaitTypeOK'
BY DEF WaitTypeOK, wake_up, Awaken

LEMMA WakeAndSleepTypes ==
  ASSUME WaitTypeOK, NEW t \in Tasks, WakeAndSleep(t)
  PROVE  WaitTypeOK'
BY PipeFinite DEF WaitTypeOK, WakeAndSleep, Awaken

LEMMA ReturnTypes ==
  ASSUME WaitTypeOK, NEW t \in Tasks, sleep_return(t)
  PROVE  WaitTypeOK'
BY DEF WaitTypeOK, sleep_return, Awaken

LEMMA SameWaitTypes == ASSUME WaitTypeOK, UNCHANGED waitVars PROVE WaitTypeOK'
BY DEF WaitTypeOK, waitVars

(* sys_close(), dup(), fork() and exit() by way of Refer(): files are      *)
(* closed, never opened.                                                   *)
LEMMA ReferInv ==
  ASSUME PipeIInv, NEW t \in Tasks, NEW new \in [Files -> 0 .. NR_OPEN],
         pc[t] = "user", Total(Files, new) <= NR_OPEN,
         \A f \in Files : new[f] > 0 => f_count[f] > 0,
         Refer(t, new),
         live' \subseteq Tasks, \A s \in Tasks \ {t} : s \in live => s \in live',
         t \notin live' => \A f \in Files : new[f] = 0
  PROVE  PipeIInv'
<1> DEFINE left == [f \in Files |-> f_count[f] - filp[t][f] + new[f]]
           closed == {f \in Files : f_count[f] > 0 /\ left[f] = 0}
<1>1. /\ filp' = [filp EXCEPT ![t] = new] /\ f_count' = left
      /\ i_count' = i_count - Cardinality(closed)
      /\ page' = IF i_count' = 0 THEN Blank ELSE page
      /\ UNCHANGED <<f_mode, head, tail, pc, buf, count, copy, cpu>>
  BY DEF Refer, iput_pipe, callVars
<1>2. wake_up({i_wait}) \/ UNCHANGED waitVars
  BY DEF Refer, iput_pipe
<1>3. /\ filp \in [Tasks -> [Files -> 0 .. NR_OPEN]] /\ f_count \in [Files -> Nat]
      /\ i_count \in 0 .. 2 /\ WaitTypeOK
  BY DEF PipeIInv, PipeTypeOK
<1>4. /\ filp' \in [Tasks -> [Files -> 0 .. NR_OPEN]] /\ filp'[t] = new
      /\ \A s \in Tasks \ {t} : filp'[s] = filp[s]
  BY <1>1, <1>3
<1>5. ASSUME NEW f \in Files
      PROVE  left[f] \in Nat /\ Total(Tasks, UsersOf(f)') = left[f]
  <2>1. left[f] = f_count[f] - filp[t][f] + new[f]
    OBVIOUS
  <2> HIDE DEF left
  <2>2. /\ Total(Tasks, UsersOf(f)') = f_count[f] - filp[t][f] + new[f]
        /\ Total(Tasks, UsersOf(f)') \in Nat
    BY <1>1, RowChange
  <2> QED
    BY <2>1, <2>2
<1>6. f_count' \in [Files -> Nat]
  BY <1>1, <1>5
<1>7. ASSUME NEW f \in Files PROVE left[f] > 0 => f_count[f] > 0
  <2>1. /\ filp[t][f] \in Nat /\ f_count[f] \in Nat /\ filp[t][f] <= f_count[f]
        /\ new[f] \in Nat /\ left[f] = f_count[f] - filp[t][f] + new[f]
    BY FileCounts
  <2>2. new[f] > 0 => f_count[f] > 0
    OBVIOUS
  <2> HIDE DEF left
  <2> QED
    BY <2>1, <2>2
<1>8. {f \in Files : left[f] > 0} = OpenFiles \ closed /\ closed \subseteq OpenFiles
  <2>1. \A f \in Files : left[f] \in Nat
    BY <1>5
  <2> HIDE DEF left
  <2> QED
    BY <1>7, <2>1 DEF OpenFiles
<1> HIDE DEF closed, left
<1>9. CountsOK'
  <2>1. IsFiniteSet(OpenFiles) /\ Cardinality(OpenFiles) \in Nat /\ IsFiniteSet(closed)
    BY <1>8, PipeFinite, FS_Subset, FS_CardinalityType DEF OpenFiles
  <2>2. Cardinality(OpenFiles \ closed) = Cardinality(OpenFiles) - Cardinality(closed)
    <3>1. OpenFiles \cap closed = closed
      BY <1>8
    <3> QED
      BY <2>1, <3>1, FS_Difference
  <2>3. i_count = Cardinality(OpenFiles)
    BY DEF PipeIInv, CountsOK, OpenFiles
  <2>4. i_count' = Cardinality({f \in Files : left[f] > 0})
    BY <1>1, <1>8, <2>2, <2>3
  <2> QED
    BY <1>1, <1>5, <2>4 DEF CountsOK
<1>10. i_count' \in 0 .. 2
  <2>1. Cardinality(closed) \in Nat
    BY <1>8, PipeFinite, FS_Subset, FS_CardinalityType DEF OpenFiles
  <2>2. i_count' \in Nat
    <3>1. i_count' = Cardinality({f \in Files : f_count'[f] > 0})
      BY <1>9 DEF CountsOK
    <3>2. IsFiniteSet({f \in Files : f_count'[f] > 0})
      BY PipeFinite, FS_Subset
    <3> QED
      BY <3>1, <3>2, FS_CardinalityType
  <2> QED
    BY <1>1, <1>3, <2>1, <2>2
<1>11. WaitTypeOK'
  BY <1>2, <1>3, PipeFinite, WakeTypes, SameWaitTypes
<1>12. PipeTypeOK'
  BY <1>1, <1>4, <1>6, <1>10, <1>11 DEF PipeIInv, PipeTypeOK
<1>13. DataOK' /\ CopiesOK'
  <2>1. Blank \in [0 .. PAGE_SIZE - 1 -> Nat]
    BY DEF Blank
  <2> QED
    BY <1>1, <2>1 DEF PipeIInv, DataOK, CopiesOK
<1>14. HoldersOK'
  <2> SUFFICES ASSUME NEW s \in Tasks
               PROVE  /\ pc'[s] # "user" => Held(s)' # {}
                      /\ s \notin live' => \A f \in Files : filp'[s][f] = 0
                      /\ Total(Files, filp'[s]) <= NR_OPEN
    BY DEF HoldersOK
  <2>1. CASE s = t
    BY <1>1, <1>4, <2>1
  <2>2. CASE s # t
    BY <1>1, <1>4, <2>2 DEF PipeIInv, HoldersOK, Held
  <2> QED
    BY <2>1, <2>2
<1> QED
  BY <1>9, <1>12, <1>13, <1>14 DEF PipeIInv

(* What one descriptor less, or one more, makes of those of a task. *)
LEMMA OneLess ==
  ASSUME PipeIInv, NEW t \in Tasks, NEW f \in Held(t)
  PROVE  LET new == [filp[t] EXCEPT ![f] = @ - 1] IN
         /\ new \in [Files -> 0 .. NR_OPEN]
         /\ Total(Files, new) = Total(Files, filp[t]) - 1
         /\ \A g \in Files : new[g] <= filp[t][g]
<1>1. filp[t] \in [Files -> 0 .. NR_OPEN] /\ f \in Files /\ filp[t][f] \in 1 .. NR_OPEN
  BY DEF PipeIInv, PipeTypeOK, Held
<1> DEFINE old == filp[t]
           new == [old EXCEPT ![f] = @ - 1]
<1>2. /\ old \in [Files -> 0 .. NR_OPEN] /\ f \in Files /\ old[f] \in 1 .. NR_OPEN
  BY <1>1
<1> HIDE DEF old
<1>3. /\ new \in [Files -> 0 .. NR_OPEN] /\ new[f] = old[f] - 1
      /\ \A g \in Files \ {f} : new[g] = old[g]
  BY <1>2, PipeFinite
<1>4. \A g \in Files : new[g] <= old[g]
  BY <1>2, <1>3, PipeFinite
<1> HIDE DEF new
<1>5. /\ Total(Files, new) = Total(Files, old) - old[f] + new[f] /\ Total(Files, old) \in Nat
  BY <1>2, <1>3, PipeFinite, TotalChange
<1>6. Total(Files, new) = Total(Files, old) - 1
  BY <1>2, <1>3, <1>5
<1> QED
  BY <1>3, <1>4, <1>6 DEF new, old

LEMMA OneMore ==
  ASSUME NEW old \in [Files -> 0 .. NR_OPEN], NEW f \in Files, Total(Files, old) < NR_OPEN
  PROVE  LET new == [old EXCEPT ![f] = @ + 1] IN
         /\ new \in [Files -> 0 .. NR_OPEN]
         /\ Total(Files, new) = Total(Files, old) + 1
<1> DEFINE new == [old EXCEPT ![f] = @ + 1]
<1>1. Total(Files, old) \in Nat /\ old[f] <= Total(Files, old) /\ old[f] \in Nat
  BY PipeFinite, TotalChange
<1>2. old[f] + 1 \in 0 .. NR_OPEN
  BY <1>1, PipeFinite
<1>3. /\ new \in [Files -> 0 .. NR_OPEN] /\ new[f] = old[f] + 1
      /\ \A g \in Files \ {f} : new[g] = old[g]
  BY <1>2
<1> HIDE DEF new
<1>4. Total(Files, new) = Total(Files, old) - old[f] + new[f]
  BY <1>3, PipeFinite, TotalChange
<1>5. Total(Files, new) = Total(Files, old) + 1
  BY <1>1, <1>3, <1>4
<1> QED
  BY <1>3, <1>5 DEF new

(* What a task has open is open. *)
LEMMA HeldOpen ==
  ASSUME PipeIInv, NEW t \in Tasks
  PROVE  /\ filp[t] \in [Files -> 0 .. NR_OPEN] /\ Total(Files, filp[t]) <= NR_OPEN
         /\ Total(Files, filp[t]) = Open(t) /\ Total(Files, filp[t]) \in Nat
         /\ \A f \in Files : filp[t][f] > 0 => f_count[f] > 0
         /\ Held(t) \subseteq Files /\ \A f \in Held(t) : filp[t][f] \in Nat /\ filp[t][f] > 0
<1>1. filp[t] \in [Files -> 0 .. NR_OPEN] /\ Total(Files, filp[t]) <= NR_OPEN
  BY DEF PipeIInv, PipeTypeOK, HoldersOK
<1>2. Total(Files, filp[t]) = Open(t)
  BY DEF Total, Open
<1>3. Total(Files, filp[t]) \in Nat
  <2>1. IsFiniteSet(1 .. NR_OPEN)
    BY PipeFinite, FS_Interval
  <2>2. IsFiniteSet(Files \X (1 .. NR_OPEN))
    BY <2>1, PipeFinite, FS_Product
  <2>3. IsFiniteSet({d \in Files \X (1 .. NR_OPEN) : d[2] <= filp[t][d[1]]})
    BY <2>2, FS_Subset
  <2> QED
    BY <2>3, FS_CardinalityType DEF Total
<1>4. ASSUME NEW f \in Files PROVE filp[t][f] > 0 => f_count[f] > 0
  BY FileCounts
<1>5. Held(t) \subseteq Files /\ \A f \in Held(t) : filp[t][f] \in Nat /\ filp[t][f] > 0
  BY <1>1 DEF Held
<1> QED
  BY <1>1, <1>2, <1>3, <1>4, <1>5

LEMMA CloseInv ==
  ASSUME PipeIInv, NEW t \in Tasks, NEW f \in Files, sys_close(t, f)
  PROVE  PipeIInv'
<1> DEFINE new == [filp[t] EXCEPT ![f] = @ - 1]
<1>1. /\ t \in live /\ pc[t] = "user" /\ f \in Held(t) /\ Refer(t, new) /\ live' = live
      /\ live \subseteq Tasks
  BY DEF sys_close, User, PipeIInv, PipeTypeOK
<1>2. /\ new \in [Files -> 0 .. NR_OPEN] /\ Total(Files, new) = Total(Files, filp[t]) - 1
      /\ \A g \in Files : new[g] <= filp[t][g]
  BY <1>1, OneLess
<1> HIDE DEF new
<1>3. Total(Files, new) <= NR_OPEN
  BY <1>2, HeldOpen, PipeFinite
<1>4. \A g \in Files : new[g] > 0 => f_count[g] > 0
  <2>1. \A g \in Files : filp[t][g] \in Nat /\ new[g] \in Nat
    BY <1>2, HeldOpen
  <2> QED
    BY <1>2, <2>1, HeldOpen
<1> QED
  BY <1>1, <1>2, <1>3, <1>4, ReferInv

LEMMA DupInv ==
  ASSUME PipeIInv, NEW t \in Tasks, NEW f \in Files, dupfd(t, f)
  PROVE  PipeIInv'
<1> DEFINE new == [filp[t] EXCEPT ![f] = @ + 1]
<1>1. /\ t \in live /\ pc[t] = "user" /\ f \in Held(t) /\ Refer(t, new) /\ live' = live
      /\ live \subseteq Tasks /\ Open(t) < NR_OPEN
  BY DEF dupfd, User, PipeIInv, PipeTypeOK
<1>2. /\ new \in [Files -> 0 .. NR_OPEN] /\ Total(Files, new) = Total(Files, filp[t]) + 1
  BY <1>1, HeldOpen, OneMore
<1>3. \A g \in Files : new[g] > 0 => f_count[g] > 0
  BY <1>1, HeldOpen
<1> HIDE DEF new
<1>4. Total(Files, new) <= NR_OPEN
  BY <1>1, <1>2, HeldOpen, PipeFinite
<1> QED
  BY <1>1, <1>2, <1>3, <1>4, ReferInv

LEMMA Dup2Inv ==
  ASSUME PipeIInv, NEW t \in Tasks, NEW f \in Files, NEW g \in Files, sys_dup2(t, f, g)
  PROVE  PipeIInv'
<1>1. /\ t \in live /\ pc[t] = "user" /\ f \in Held(t) /\ g \in Held(t) /\ live' = live
      /\ live \subseteq Tasks
  BY DEF sys_dup2, User, PipeIInv, PipeTypeOK
<1>2. CASE f = g /\ filp[t][f] = 1
  <2> DEFINE new == [filp[t] EXCEPT ![g] = 0]
  <2>1. Refer(t, new)
    BY <1>2 DEF sys_dup2
  <2>2. new = [filp[t] EXCEPT ![f] = @ - 1]
    BY <1>2
  <2>3. /\ new \in [Files -> 0 .. NR_OPEN] /\ Total(Files, new) = Total(Files, filp[t]) - 1
        /\ \A h \in Files : new[h] <= filp[t][h]
    BY <1>1, <2>2, OneLess
  <2> HIDE DEF new
  <2>4. Total(Files, new) <= NR_OPEN
    BY <2>3, HeldOpen, PipeFinite
  <2>5. \A h \in Files : new[h] > 0 => f_count[h] > 0
    <3>1. \A h \in Files : filp[t][h] \in Nat /\ new[h] \in Nat
      BY <2>3, HeldOpen
    <3> QED
      BY <2>3, <3>1, HeldOpen
  <2> QED
    BY <1>1, <2>1, <2>3, <2>4, <2>5, ReferInv
<1>3. CASE f = g /\ filp[t][f] # 1
  <2>1. Refer(t, filp[t])
    BY <1>3 DEF sys_dup2
  <2> QED
    BY <1>1, <2>1, HeldOpen, ReferInv
<1>4. CASE f # g
  <2> DEFINE mid == [filp[t] EXCEPT ![g] = @ - 1]
             new == [mid EXCEPT ![f] = @ + 1]
  <2>1. filp[t] \in [Files -> 0 .. NR_OPEN]
    BY HeldOpen
  <2>2. [filp[t] EXCEPT ![g] = @ - 1, ![f] = @ + 1] = new
    BY <1>4, <2>1
  <2>3. Refer(t, new)
    BY <1>4, <2>2 DEF sys_dup2
  <2>4. /\ mid \in [Files -> 0 .. NR_OPEN] /\ Total(Files, mid) = Total(Files, filp[t]) - 1
        /\ \A h \in Files : mid[h] <= filp[t][h]
    BY <1>1, OneLess
  <2>5. Total(Files, mid) < NR_OPEN
    <3> HIDE DEF mid, new
    <3> QED
      BY <2>4, HeldOpen, PipeFinite
  <2>6. \A h \in Files : new[h] > 0 => f_count[h] > 0
    <3>1. f_count[f] > 0
      BY <1>1, HeldOpen
    <3>2. \A h \in Files : h # f => new[h] = mid[h]
      <4> HIDE DEF mid
      <4> QED
        BY <2>4
    <3>3. \A h \in Files : filp[t][h] \in Nat /\ mid[h] \in Nat
      BY <2>1, <2>4
    <3> HIDE DEF mid, new
    <3> QED
      BY <2>4, <3>1, <3>2, <3>3, HeldOpen
  <2> HIDE DEF mid
  <2>7. new \in [Files -> 0 .. NR_OPEN] /\ Total(Files, new) = Total(Files, mid) + 1
    BY <2>4, <2>5, OneMore
  <2> HIDE DEF new
  <2>8. Total(Files, new) <= NR_OPEN
    BY <2>4, <2>7, HeldOpen, PipeFinite
  <2> QED
    BY <1>1, <2>3, <2>6, <2>7, <2>8, ReferInv
<1> QED
  BY <1>2, <1>3, <1>4

(* The child's slot was empty. *)
LEMMA ForkPipeInv ==
  ASSUME PipeIInv, NEW t \in Tasks, Fork(t)
  PROVE  PipeIInv'
<1> DEFINE u == CHOOSE v \in Tasks : v \notin live
<1>1. /\ live # Tasks /\ live' = live \cup {u} /\ Refer(u, filp[t]) /\ live \subseteq Tasks
  BY DEF Fork, PipeIInv, PipeTypeOK
<1>2. u \in Tasks /\ u \notin live
  BY <1>1
<1> HIDE DEF u
<1>3. pc[u] = "user"
  BY <1>2 DEF PipeIInv, HoldersOK, Held
<1> QED
  BY <1>1, <1>2, <1>3, HeldOpen, ReferInv

LEMMA ExitPipeInv ==
  ASSUME PipeIInv, NEW t \in Tasks, Exit(t)
  PROVE  PipeIInv'
<1> DEFINE new == [f \in Files |-> 0]
<1>1. /\ pc[t] = "user" /\ live' = live \ {t} /\ Refer(t, new) /\ live \subseteq Tasks
  BY DEF Exit, User, PipeIInv, PipeTypeOK
<1>2. new \in [Files -> 0 .. NR_OPEN] /\ \A f \in Files : new[f] = 0
  BY PipeFinite
<1> HIDE DEF new
<1>3. Total(Files, new) <= NR_OPEN
  BY <1>2, TotalZero, PipeFinite
<1> QED
  BY <1>1, <1>2, <1>3, ReferInv

(* sys_pipe(): two files that were closed are open. *)
LEMMA PipeCallInv ==
  ASSUME PipeIInv, NEW t \in Tasks, sys_pipe(t)
  PROVE  PipeIInv'
<1> DEFINE r == Min(FreeFiles)
           w == Min(FreeFiles \ {r})
<1>1. /\ pc[t] = "user" /\ t \in live /\ Cardinality(FreeFiles) > 1 /\ Open(t) + 2 <= NR_OPEN
      /\ i_count = 0 /\ i_count' = 2
      /\ filp' = [filp EXCEPT ![t][r] = 1, ![t][w] = 1]
      /\ f_count' = [f_count EXCEPT ![r] = 1, ![w] = 1]
      /\ f_mode' = [f_mode EXCEPT ![r] = 1, ![w] = 2]
      /\ head' = 0 /\ tail' = 0 /\ page' = Blank
      /\ UNCHANGED <<live, pc, buf, count, copy, cpu>> /\ UNCHANGED waitVars
  BY DEF sys_pipe, User, callVars
<1>2. r \in Files /\ w \in Files /\ r # w
  <2>1. FreeFiles \subseteq Files /\ Files \subseteq Nat
    BY DEF FreeFiles, Files
  <2>2. IsFiniteSet(FreeFiles) /\ FreeFiles # {}
    BY <1>1, <2>1, PipeFinite, FS_Subset, FS_EmptySet
  <2>3. r \in FreeFiles
    BY <2>1, <2>2, MinSmallest
  <2> HIDE DEF r
  <2>4. FreeFiles # {r}
    <3>1. Cardinality({r}) = 1
      BY FS_Singleton
    <3> QED
      BY <1>1, <3>1
  <2>5. FreeFiles \ {r} # {} /\ FreeFiles \ {r} \subseteq Nat
    BY <2>1, <2>3, <2>4
  <2>6. w \in FreeFiles \ {r}
    BY <2>5, MinSmallest
  <2> QED
    BY <2>1, <2>3, <2>6
<1> HIDE DEF r, w
<1>3. \A f \in Files : f_count[f] = 0 /\ \A s \in Tasks : filp[s][f] = 0
  BY <1>1, FileCounts
<1>4. /\ filp \in [Tasks -> [Files -> 0 .. NR_OPEN]] /\ f_count \in [Files -> Nat]
      /\ f_mode \in [Files -> {1, 2}]
  BY DEF PipeIInv, PipeTypeOK
<1>5. 1 \in 0 .. NR_OPEN /\ 2 <= NR_OPEN
  <2>1. Open(t) \in Nat
    BY HeldOpen
  <2> QED
    BY <1>1, <2>1, PipeFinite
<1> DEFINE mid == [filp[t] EXCEPT ![r] = @ + 1]
           new == [mid EXCEPT ![w] = @ + 1]
<1>6. /\ mid \in [Files -> 0 .. NR_OPEN] /\ Total(Files, mid) = Total(Files, filp[t]) + 1
  <2>1. Total(Files, filp[t]) < NR_OPEN
    BY <1>1, HeldOpen, PipeFinite
  <2> QED
    BY <1>2, <2>1, HeldOpen, OneMore
<1>7. mid[w] = 0 /\ mid[r] = 1 /\ \A f \in Files : f # r => mid[f] = 0
  <2>1. filp[t] \in [Files -> 0 .. NR_OPEN] /\ \A f \in Files : filp[t][f] = 0
    BY <1>3, <1>4
  <2> QED
    BY <1>2, <2>1
<1>8. /\ new \in [Files -> 0 .. NR_OPEN] /\ Total(Files, new) = Total(Files, mid) + 1
  <2> HIDE DEF mid
  <2>1. Total(Files, mid) < NR_OPEN
    BY <1>1, <1>6, HeldOpen, PipeFinite
  <2> QED
    BY <1>2, <1>6, <2>1, OneMore
<1>9. new[r] = 1 /\ new[w] = 1 /\ \A f \in Files : f # r /\ f # w => new[f] = 0
  <2> HIDE DEF mid
  <2> QED
    BY <1>2, <1>6, <1>7
<1> HIDE DEF mid, new
<1>10. filp' = [filp EXCEPT ![t] = new]
  <2>1. \A f \in Files : new[f] = (IF f = r \/ f = w THEN 1 ELSE filp[t][f])
    BY <1>3, <1>9
  <2>2. [filp[t] EXCEPT ![r] = 1, ![w] = 1] = new
    BY <1>2, <1>4, <1>8, <2>1
  <2>3. filp' = [filp EXCEPT ![t] = [filp[t] EXCEPT ![r] = 1, ![w] = 1]]
    BY <1>1, <1>4
  <2> QED
    BY <2>2, <2>3
<1>11. /\ filp' \in [Tasks -> [Files -> 0 .. NR_OPEN]] /\ filp'[t] = new
       /\ \A s \in Tasks \ {t} : filp'[s] = filp[s]
  BY <1>4, <1>8, <1>10
<1>12. /\ f_count' \in [Files -> Nat] /\ \A f \in Files : f_count'[f] = new[f]
       /\ f_mode' \in [Files -> {1, 2}]
  BY <1>1, <1>2, <1>3, <1>4, <1>9
<1>13. CountsOK'
  <2>1. ASSUME NEW f \in Files PROVE f_count'[f] = Total(Tasks, UsersOf(f)')
    <3>1. Total(Tasks, UsersOf(f)') = f_count[f] - filp[t][f] + new[f]
      BY <1>8, <1>10, RowChange
    <3>2. f_count[f] = 0 /\ filp[t][f] = 0 /\ new[f] \in Nat /\ f_count'[f] = new[f]
      BY <1>3, <1>8, <1>12
    <3> QED
      BY <3>1, <3>2
  <2>2. {f \in Files : f_count'[f] > 0} = {r, w}
    BY <1>2, <1>9, <1>12
  <2>3. Cardinality({r, w}) = 2
    <3>1. IsFiniteSet({r}) /\ Cardinality({r}) = 1 /\ w \notin {r}
      BY <1>2, FS_Singleton
    <3>2. {r} \cup {w} = {r, w}
      OBVIOUS
    <3> QED
      BY <3>1, <3>2, FS_AddElement
  <2> QED
    BY <1>1, <2>1, <2>2, <2>3 DEF CountsOK
<1>14. PipeTypeOK'
  <2>1. WaitTypeOK'
    BY <1>1, SameWaitTypes DEF PipeIInv, PipeTypeOK
  <2>2. /\ live' \subseteq Tasks /\ cpu' \in Tasks \cup {NoTask}
        /\ pc' \in [Tasks -> {"user", "read", "write", "rcopy", "wcopy"}]
    BY <1>1 DEF PipeIInv, PipeTypeOK
  <2>3. i_count' \in 0 .. 2 /\ head' \in 0 .. PAGE_SIZE - 1 /\ tail' \in 0 .. PAGE_SIZE - 1
    BY <1>1, PipeFinite
  <2> QED
    BY ONLY <1>11, <1>12, <2>1, <2>2, <2>3 DEF PipeTypeOK
<1>15. DataOK' /\ CopiesOK'
  <2>1. Blank \in [0 .. PAGE_SIZE - 1 -> Nat]
    BY DEF Blank
  <2> QED
    BY <1>1, <2>1 DEF PipeIInv, DataOK, CopiesOK
<1>16. HoldersOK'
  <2> SUFFICES ASSUME NEW s \in Tasks
               PROVE  /\ pc'[s] # "user" => Held(s)' # {}
                      /\ s \notin live' => \A f \in Files : filp'[s][f] = 0
                      /\ Total(Files, filp'[s]) <= NR_OPEN
    BY DEF HoldersOK
  <2>1. CASE s = t
    <3>1. Total(Files, new) <= NR_OPEN
      BY <1>1, <1>6, <1>8, HeldOpen, PipeFinite
    <3> QED
      BY <1>1, <1>11, <2>1, <3>1
  <2>2. CASE s # t
    BY <1>1, <1>11, <2>2 DEF PipeIInv, HoldersOK, Held
  <2> QED
    BY <2>1, <2>2
<1> QED
  BY <1>13, <1>14, <1>15, <1>16 DEF PipeIInv

(* A step in a call: nothing of the files changes. *)
FilesKept == UNCHANGED <<live, filp, f_count, f_mode, i_count>>

(* Such a step of t keeps the invariant if it keeps what concerns t. *)
LEMMA CallStepInv ==
  ASSUME PipeIInv, NEW t \in Tasks, FilesKept,
         WaitTypeOK', DataOK',
         head' \in 0 .. PAGE_SIZE - 1, tail' \in 0 .. PAGE_SIZE - 1,
         cpu' \in Tasks \cup {NoTask},
         pc' \in [Tasks -> {"user", "read", "write", "rcopy", "wcopy"}],
         \A s \in Tasks \ {t} : pc'[s] = pc[s] /\ buf'[s] = buf[s] /\ copy'[s] = copy[s],
         pc'[t] # "user" => Held(t) # {},
         pc'[t] \in {"rcopy", "wcopy"} =>
           copy'[t][2] >= 1 /\ copy'[t][1] + copy'[t][2] <= PAGE_SIZE,
         pc'[t] = "wcopy" => copy'[t][2] <= Len(buf'[t])
  PROVE  PipeIInv'
<1>1. PipeTypeOK'
  BY DEF PipeIInv, PipeTypeOK, FilesKept
<1>2. CopiesOK'
  <2> SUFFICES ASSUME NEW s \in Tasks
               PROVE  /\ pc'[s] \in {"rcopy", "wcopy"} =>
                           copy'[s][2] >= 1 /\ copy'[s][1] + copy'[s][2] <= PAGE_SIZE
                      /\ pc'[s] = "wcopy" => copy'[s][2] <= Len(buf'[s])
    BY DEF CopiesOK
  <2>1. CASE s = t
    BY <2>1
  <2>2. CASE s # t
    BY <2>2 DEF PipeIInv, CopiesOK
  <2> QED
    BY <2>1, <2>2
<1>3. HoldersOK'
  <2>1. \A s \in Tasks : Held(s)' = Held(s)
    BY DEF Held, FilesKept
  <2> QED
    BY <2>1 DEF PipeIInv, HoldersOK, FilesKept
<1>4. CountsOK'
  BY DEF PipeIInv, CountsOK, UsersOf, FilesKept
<1> QED
  BY <1>1, <1>2, <1>3, <1>4 DEF PipeIInv

LEMMA ReadCallInv ==
  ASSUME PipeIInv, NEW t \in Tasks, NEW f \in Files, NEW n \in Counts, sys_read(t, f, n)
  PROVE  PipeIInv'
<1>1. /\ f \in Held(t) /\ FilesKept /\ pc' = [pc EXCEPT ![t] = "read"]
      /\ buf' = [buf EXCEPT ![t] = <<>>] /\ count' = [count EXCEPT ![t] = n] /\ cpu' = t
      /\ UNCHANGED <<head, tail, page, copy>> /\ UNCHANGED waitVars
  BY DEF sys_read, fileVars, ringVars, FilesKept
<1>2. /\ pc \in [Tasks -> {"user", "read", "write", "rcopy", "wcopy"}] /\ DataOK
      /\ head \in 0 .. PAGE_SIZE - 1 /\ tail \in 0 .. PAGE_SIZE - 1 /\ WaitTypeOK
  BY DEF PipeIInv, PipeTypeOK
<1>3. n \in Nat /\ <<>> \in Seq(Nat)
  BY PipeAssumption
<1>4. DataOK'
  BY <1>1, <1>2, <1>3 DEF DataOK
<1>5. /\ pc' \in [Tasks -> {"user", "read", "write", "rcopy", "wcopy"}] /\ pc'[t] = "read"
      /\ \A s \in Tasks \ {t} : pc'[s] = pc[s] /\ buf'[s] = buf[s] /\ copy'[s] = copy[s]
  BY <1>1, <1>2 DEF DataOK
<1>6. WaitTypeOK'
  BY <1>1, <1>2, SameWaitTypes
<1> QED
  BY <1>1, <1>2, <1>4, <1>5, <1>6, CallStepInv

LEMMA WriteCallInv ==
  ASSUME PipeIInv, NEW t \in Tasks, NEW f \in Files, NEW m \in Messages, sys_write(t, f, m)
  PROVE  PipeIInv'
<1>1. /\ f \in Held(t) /\ FilesKept /\ pc' = [pc EXCEPT ![t] = "write"]
      /\ buf' = [buf EXCEPT ![t] = m] /\ cpu' = t
      /\ UNCHANGED <<head, tail, page, copy, count>> /\ UNCHANGED waitVars
  BY DEF sys_write, fileVars, ringVars, FilesKept
<1>2. /\ pc \in [Tasks -> {"user", "read", "write", "rcopy", "wcopy"}] /\ DataOK
      /\ head \in 0 .. PAGE_SIZE - 1 /\ tail \in 0 .. PAGE_SIZE - 1 /\ WaitTypeOK
  BY DEF PipeIInv, PipeTypeOK
<1>3. m \in Seq(Nat)
  BY PipeAssumption
<1>4. DataOK'
  BY <1>1, <1>2, <1>3 DEF DataOK
<1>5. /\ pc' \in [Tasks -> {"user", "read", "write", "rcopy", "wcopy"}] /\ pc'[t] = "write"
      /\ \A s \in Tasks \ {t} : pc'[s] = pc[s] /\ buf'[s] = buf[s] /\ copy'[s] = copy[s]
  BY <1>1, <1>2 DEF DataOK
<1>6. WaitTypeOK'
  BY <1>1, <1>2, SameWaitTypes
<1> QED
  BY <1>1, <1>2, <1>4, <1>5, <1>6, CallStepInv

(* The call returns. *)
LEMMA EndInv ==
  ASSUME PipeIInv, NEW t \in Tasks, FilesKept, EndPipeCall(t), UNCHANGED <<head, tail, page>>
  PROVE  PipeIInv'
<1>1. /\ pc' = [pc EXCEPT ![t] = "user"] /\ buf' = [buf EXCEPT ![t] = <<>>]
      /\ count' = [count EXCEPT ![t] = 0] /\ cpu' = NoTask /\ copy' = copy
      /\ wake_up({i_wait})
  BY DEF EndPipeCall
<1>2. /\ pc \in [Tasks -> {"user", "read", "write", "rcopy", "wcopy"}] /\ DataOK
      /\ head \in 0 .. PAGE_SIZE - 1 /\ tail \in 0 .. PAGE_SIZE - 1 /\ WaitTypeOK
  BY DEF PipeIInv, PipeTypeOK
<1>3. <<>> \in Seq(Nat)
  OBVIOUS
<1>4. DataOK'
  BY <1>1, <1>2, <1>3 DEF DataOK
<1>5. /\ pc' \in [Tasks -> {"user", "read", "write", "rcopy", "wcopy"}] /\ pc'[t] = "user"
      /\ \A s \in Tasks \ {t} : pc'[s] = pc[s] /\ buf'[s] = buf[s] /\ copy'[s] = copy[s]
  BY <1>1, <1>2 DEF DataOK
<1>6. WaitTypeOK'
  BY <1>1, <1>2, PipeFinite, WakeTypes
<1> QED
  BY <1>1, <1>2, <1>4, <1>5, <1>6, CallStepInv

(* The call goes to sleep, or comes back. *)
LEMMA SleepInv ==
  ASSUME PipeIInv, NEW t \in Tasks, FilesKept, WaitTypeOK',
         cpu' \in Tasks \cup {NoTask}, UNCHANGED <<head, tail, page, pc, buf, count, copy>>
  PROVE  PipeIInv'
<1>1. /\ pc \in [Tasks -> {"user", "read", "write", "rcopy", "wcopy"}] /\ DataOK
      /\ head \in 0 .. PAGE_SIZE - 1 /\ tail \in 0 .. PAGE_SIZE - 1
      /\ (pc[t] # "user" => Held(t) # {})
      /\ (pc[t] \in {"rcopy", "wcopy"} =>
            copy[t][2] >= 1 /\ copy[t][1] + copy[t][2] <= PAGE_SIZE)
      /\ (pc[t] = "wcopy" => copy[t][2] <= Len(buf[t]))
  BY DEF PipeIInv, PipeTypeOK, HoldersOK, CopiesOK
<1>2. DataOK'
  BY <1>1 DEF DataOK
<1> QED
  BY <1>1, <1>2, CallStepInv

LEMMA ResumeInv ==
  ASSUME PipeIInv, NEW t \in Tasks, Resume(t)
  PROVE  PipeIInv'
<1>1. /\ FilesKept /\ cpu' = t /\ UNCHANGED <<head, tail, page, pc, buf, count, copy>>
      /\ sleep_return(t)
  BY DEF Resume, fileVars, ringVars, callVars, FilesKept
<1>2. WaitTypeOK'
  BY <1>1, ReturnTypes DEF PipeIInv, PipeTypeOK
<1> QED
  BY <1>1, <1>2, SleepInv

----------------------------------------------------------------------------
(* The ring.  Its indices wrap once at most.                               *)
LEMMA ModSmall ==
  ASSUME NEW P \in Nat, NEW x \in 0 .. P - 1
  PROVE  x % P = x
OBVIOUS

LEMMA ModOver ==
  ASSUME NEW P \in Nat, NEW x \in P .. 2 * P - 1
  PROVE  x % P = x - P
OBVIOUS

LEMMA ModUnder ==
  ASSUME NEW P \in Nat, NEW x \in -P .. -1
  PROVE  x % P = x + P
OBVIOUS

(* What is in the ring goes from tail to head, past the end if need be. *)
LEMMA RingSize ==
  ASSUME NEW P \in Nat, NEW h \in 0 .. P - 1, NEW u \in 0 .. P - 1
  PROVE  (h - u) % P = IF u <= h THEN h - u ELSE h - u + P
<1>1. CASE u <= h
  BY <1>1, ModSmall
<1>2. CASE u > h
  BY <1>2, ModUnder
<1> QED
  BY <1>1, <1>2

(* head or tail moves on by n. *)
LEMMA RingMove ==
  ASSUME NEW P \in Nat, NEW u \in 0 .. P - 1, NEW n \in 0 .. P - u
  PROVE  (u + n) % P = IF u + n = P THEN 0 ELSE u + n
<1>1. CASE u + n = P
  BY <1>1, ModOver
<1>2. CASE u + n # P
  BY <1>2, ModSmall
<1> QED
  BY <1>1, <1>2

(* The k-th byte after tail. *)
LEMMA RingPlace ==
  ASSUME NEW P \in Nat, NEW u \in 0 .. P - 1, NEW k \in 1 .. P - 1
  PROVE  (u + k - 1) % P = IF u + k - 1 < P THEN u + k - 1 ELSE u + k - 1 - P
<1>1. CASE u + k - 1 < P
  BY <1>1, ModSmall
<1>2. CASE u + k - 1 >= P
  BY <1>2, ModOver
<1> QED
  BY <1>1, <1>2

(* The size of the next piece of a copy. *)
LEMMA ChunkSize ==
  ASSUME NEW a \in Nat, NEW b \in Nat, NEW c \in Nat
  PROVE  /\ Min({a, b, c}) \in Nat /\ Min({a, b, c}) \in {a, b, c}
         /\ Min({a, b, c}) <= a /\ Min({a, b, c}) <= b /\ Min({a, b, c}) <= c
<1>1. {a, b, c} \in SUBSET Nat /\ {a, b, c} # {}
  OBVIOUS
<1>2. Min({a, b, c}) \in {a, b, c} /\ \A y \in {a, b, c} : Min({a, b, c}) <= y
  BY <1>1, MinSmallest
<1> QED
  BY <1>2

(* The pieces of sequences. *)
LEMMA Pieces ==
  ASSUME NEW s \in Seq(Nat), NEW n \in 0 .. Len(s)
  PROVE  /\ SubSeq(s, 1, n) \in Seq(Nat) /\ Len(SubSeq(s, 1, n)) = n
         /\ \A k \in 1 .. n : SubSeq(s, 1, n)[k] = s[k]
         /\ SubSeq(s, n + 1, Len(s)) \in Seq(Nat) /\ Len(SubSeq(s, n + 1, Len(s))) = Len(s) - n
         /\ \A k \in 1 .. Len(s) - n : SubSeq(s, n + 1, Len(s))[k] = s[n + k]
<1>1. Len(s) \in Nat /\ n \in Nat /\ n <= Len(s)
  OBVIOUS
<1>2. /\ SubSeq(s, 1, n) \in Seq(Nat) /\ Len(SubSeq(s, 1, n)) = n
      /\ \A k \in 1 .. n : SubSeq(s, 1, n)[k] = s[k]
  OBVIOUS
<1>3. SubSeq(s, n + 1, Len(s)) \in Seq(Nat)
  OBVIOUS
<1>4. Len(SubSeq(s, n + 1, Len(s))) = Len(s) - n
  BY <1>1
<1>5. \A k \in 1 .. Len(s) - n : SubSeq(s, n + 1, Len(s))[k] = s[n + k]
  BY <1>1
<1> QED
  BY <1>2, <1>3, <1>4, <1>5

(* A function on 1 .. n is a sequence of length n. *)
LEMMA SequenceOf ==
  ASSUME NEW n \in Nat, NEW s \in [1 .. n -> Nat]
  PROVE  s \in Seq(Nat) /\ Len(s) = n
<1>1. s \in Seq(Nat)
  BY SeqDef
<1>2. Len(s) \in Nat /\ DOMAIN s = 1 .. Len(s) /\ DOMAIN s = 1 .. n
  BY <1>1, LenProperties
<1>3. 1 .. n = 1 .. Len(s)
  BY <1>2
<1>4. n = Len(s)
  BY ONLY <1>2, <1>3, n \in Nat
<1> QED
  BY <1>1, <1>4

LEMMA RingTypes ==
  ASSUME page \in [0 .. PAGE_SIZE - 1 -> Nat], NEW from \in Nat, NEW n \in Nat,
         from + n <= PAGE_SIZE
  PROVE  /\ Ring(from, n) \in Seq(Nat) /\ Len(Ring(from, n)) = n
         /\ \A k \in 1 .. n : Ring(from, n)[k] = page[from + k - 1]
<1>1. \A k \in 1 .. n : from + k - 1 \in 0 .. PAGE_SIZE - 1
  BY PipeFinite
<1>2. Ring(from, n) \in [1 .. n -> Nat]
  BY <1>1 DEF Ring
<1>3. \A k \in 1 .. n : Ring(from, n)[k] = page[from + k - 1]
  BY DEF Ring
<1> QED
  BY <1>2, <1>3, SequenceOf

LEMMA PutTypes ==
  ASSUME page \in [0 .. PAGE_SIZE - 1 -> Nat], NEW from \in Nat, NEW m \in Seq(Nat)
  PROVE  Put(from, m) \in [0 .. PAGE_SIZE - 1 -> Nat]
<1>1. ASSUME NEW k \in 0 .. PAGE_SIZE - 1, k >= from, k < from + Len(m)
      PROVE  m[k - from + 1] \in Nat
  <2>1. k - from + 1 \in 1 .. Len(m)
    BY <1>1, PipeFinite
  <2> QED
    BY <2>1
<1> QED
  BY <1>1 DEF Put

(* read_pipe(), one pass of the loop. *)
LEMMA ReadInv ==
  ASSUME PipeIInv, NEW t \in Tasks, read_pipe(t)
  PROVE  PipeIInv'
<1>1. /\ pc[t] = "read" /\ FilesKept /\ head' = head
  BY DEF read_pipe, fileVars, FilesKept
<1>2. /\ pc \in [Tasks -> {"user", "read", "write", "rcopy", "wcopy"}] /\ DataOK
      /\ head \in 0 .. PAGE_SIZE - 1 /\ tail \in 0 .. PAGE_SIZE - 1 /\ WaitTypeOK
      /\ cpu \in Tasks \cup {NoTask}
  BY DEF PipeIInv, PipeTypeOK
<1>3. Held(t) # {}
  BY <1>1 DEF PipeIInv, HoldersOK
<1>4. CASE EndPipeCall(t) /\ UNCHANGED <<tail, page>>
  BY <1>1, <1>4, EndInv
<1>5. CASE WakeAndSleep(t) /\ UNCHANGED <<tail, page>>
  <2>1. WaitTypeOK' /\ cpu' = NoTask /\ UNCHANGED <<pc, buf, count, copy>>
    BY <1>2, <1>5, WakeAndSleepTypes DEF WakeAndSleep, callVars
  <2> QED
    BY <1>1, <1>5, <2>1, SleepInv
<1>6. CASE ~(count[t] = 0 \/ (PIPE_SIZE = 0 /\ i_count # 2)) /\ PIPE_SIZE # 0
  <2> DEFINE chars == Min({PAGE_SIZE - tail, count[t], PIPE_SIZE})
  <2>1. /\ count' = [count EXCEPT ![t] = @ - chars]
        /\ tail' = (tail + chars) % PAGE_SIZE
        /\ \/ /\ buf' = [buf EXCEPT ![t] = @ \o Ring(tail, chars)]
              /\ UNCHANGED <<page, pc, copy, cpu>>
           \/ Fault(t, "rcopy", tail, chars)
        /\ UNCHANGED waitVars
    BY <1>6 DEF read_pipe
  <2>2. /\ PAGE_SIZE - tail \in Nat /\ PAGE_SIZE - tail > 0 /\ count[t] \in Nat /\ count[t] > 0
        /\ PIPE_SIZE \in Nat /\ PIPE_SIZE > 0 /\ tail \in Nat
    BY <1>2, <1>6, PipeFinite DEF DataOK, PIPE_SIZE
  <2>3. /\ chars \in Nat /\ chars >= 1 /\ chars <= PAGE_SIZE - tail /\ chars <= count[t]
    <3>1. chars \in Nat /\ chars \in {PAGE_SIZE - tail, count[t], PIPE_SIZE}
          /\ chars <= PAGE_SIZE - tail /\ chars <= count[t]
      BY <2>2, ChunkSize
    <3> HIDE DEF chars
    <3> QED
      BY <2>2, <3>1
  <2> HIDE DEF chars
  <2>4. tail' \in 0 .. PAGE_SIZE - 1 /\ tail + chars <= PAGE_SIZE
    BY <1>2, <2>1, <2>2, <2>3, PipeFinite, RingMove
  <2>5. count' \in [Tasks -> Nat]
    <3>1. count[t] - chars \in Nat /\ count \in [Tasks -> Nat]
      BY <1>2, <2>2, <2>3 DEF DataOK
    <3> QED
      BY <2>1, <3>1
  <2>6. WaitTypeOK'
    BY <1>2, <2>1, SameWaitTypes
  <2>7. CASE buf' = [buf EXCEPT ![t] = @ \o Ring(tail, chars)] /\ UNCHANGED <<page, pc, copy, cpu>>
    <3>1. Ring(tail, chars) \in Seq(Nat) /\ buf[t] \in Seq(Nat) /\ buf \in [Tasks -> Seq(Nat)]
      BY <1>2, <2>2, <2>3, <2>4, RingTypes DEF DataOK
    <3>2. buf[t] \o Ring(tail, chars) \in Seq(Nat)
      BY <3>1
    <3>3. buf' \in [Tasks -> Seq(Nat)] /\ \A s \in Tasks \ {t} : buf'[s] = buf[s]
      BY <2>7, <3>1, <3>2
    <3>4. DataOK'
      BY <1>2, <2>5, <2>7, <3>3 DEF DataOK
    <3> QED
      BY <1>1, <1>2, <1>3, <2>4, <2>6, <2>7, <3>3, <3>4, CallStepInv
  <2>8. CASE Fault(t, "rcopy", tail, chars)
    <3>1. /\ pc' = [pc EXCEPT ![t] = "rcopy"] /\ copy' = [copy EXCEPT ![t] = <<tail, chars>>]
          /\ cpu' = NoTask /\ UNCHANGED <<page, buf>>
      BY <2>8 DEF Fault
    <3>2. copy \in [Tasks -> Nat \X Nat] /\ <<tail, chars>> \in Nat \X Nat
      BY <1>2, <2>2, <2>3 DEF DataOK
    <3>3. /\ copy' \in [Tasks -> Nat \X Nat] /\ copy'[t][1] = tail /\ copy'[t][2] = chars
          /\ \A s \in Tasks \ {t} : copy'[s] = copy[s]
      BY <3>1, <3>2
    <3>4. /\ pc' \in [Tasks -> {"user", "read", "write", "rcopy", "wcopy"}] /\ pc'[t] = "rcopy"
          /\ \A s \in Tasks \ {t} : pc'[s] = pc[s]
      BY <1>2, <3>1
    <3>5. DataOK'
      BY <1>2, <2>5, <3>1, <3>3 DEF DataOK
    <3> QED
      BY <1>1, <1>2, <1>3, <2>3, <2>4, <2>6, <3>1, <3>3, <3>4, <3>5, CallStepInv
  <2> QED
    BY <2>1, <2>7, <2>8
<1> QED
  BY <1>4, <1>5, <1>6 DEF read_pipe

(* What is in the ring, and what still fits. *)
LEMMA RoomSize ==
  ASSUME PipeIInv
  PROVE  /\ PIPE_SIZE \in 0 .. PAGE_SIZE - 1 /\ Room \in 0 .. PAGE_SIZE - 1
         /\ Room + PIPE_SIZE = PAGE_SIZE - 1
<1>1. head \in 0 .. PAGE_SIZE - 1 /\ tail \in 0 .. PAGE_SIZE - 1
  BY DEF PipeIInv, PipeTypeOK
<1>2. PIPE_SIZE \in 0 .. PAGE_SIZE - 1
  BY <1>1, PipeFinite DEF PIPE_SIZE
<1> QED
  BY <1>2, PipeFinite DEF Room

(* write_pipe(), one pass of the loop. *)
LEMMA WriteInv ==
  ASSUME PipeIInv, NEW t \in Tasks, write_pipe(t)
  PROVE  PipeIInv'
<1>1. /\ pc[t] = "write" /\ FilesKept /\ tail' = tail
  BY DEF write_pipe, fileVars, FilesKept
<1>2. /\ pc \in [Tasks -> {"user", "read", "write", "rcopy", "wcopy"}] /\ DataOK
      /\ head \in 0 .. PAGE_SIZE - 1 /\ tail \in 0 .. PAGE_SIZE - 1 /\ WaitTypeOK
      /\ cpu \in Tasks \cup {NoTask}
  BY DEF PipeIInv, PipeTypeOK
<1>3. Held(t) # {}
  BY <1>1 DEF PipeIInv, HoldersOK
<1>4. CASE EndPipeCall(t) /\ UNCHANGED <<head, page>>
  BY <1>1, <1>4, EndInv
<1>5. CASE WakeAndSleep(t) /\ UNCHANGED <<head, page>>
  <2>1. WaitTypeOK' /\ cpu' = NoTask /\ UNCHANGED <<pc, buf, count, copy>>
    BY <1>2, <1>5, WakeAndSleepTypes DEF WakeAndSleep, callVars
  <2> QED
    BY <1>1, <1>5, <2>1, SleepInv
<1>6. CASE ~(buf[t] = <<>> \/ (Room = 0 /\ i_count # 2)) /\ Room # 0
  <2> DEFINE chars == Min({PAGE_SIZE - head, Len(buf[t]), Room})
             piece == SubSeq(buf[t], 1, chars)
             more == SubSeq(buf[t], chars + 1, Len(buf[t]))
  <2>1. /\ head' = (head + chars) % PAGE_SIZE
        /\ \/ /\ page' = Put(head, piece)
              /\ buf' = [buf EXCEPT ![t] = more]
              /\ UNCHANGED <<pc, copy, cpu>>
           \/ Fault(t, "wcopy", head, chars)
        /\ UNCHANGED <<count>> /\ UNCHANGED waitVars
    BY <1>6 DEF write_pipe
  <2>2. /\ buf[t] \in Seq(Nat) /\ Len(buf[t]) \in Nat /\ Len(buf[t]) > 0
    BY <1>2, <1>6 DEF DataOK
  <2>3. /\ PAGE_SIZE - head \in Nat /\ PAGE_SIZE - head > 0 /\ head \in Nat
        /\ Room \in Nat /\ Room > 0
    BY <1>2, <1>6, RoomSize, PipeFinite
  <2>4. /\ chars \in Nat /\ chars >= 1 /\ chars <= PAGE_SIZE - head /\ chars <= Len(buf[t])
    <3>1. chars \in Nat /\ chars \in {PAGE_SIZE - head, Len(buf[t]), Room}
          /\ chars <= PAGE_SIZE - head /\ chars <= Len(buf[t])
      BY <2>2, <2>3, ChunkSize
    <3> HIDE DEF chars
    <3> QED
      BY <2>2, <2>3, <3>1
  <2> HIDE DEF chars
  <2>5. head' \in 0 .. PAGE_SIZE - 1 /\ head + chars <= PAGE_SIZE
    BY <1>2, <2>1, <2>3, <2>4, PipeFinite, RingMove
  <2>6. WaitTypeOK'
    BY <1>2, <2>1, SameWaitTypes
  <2>7. piece \in Seq(Nat) /\ more \in Seq(Nat)
    BY <2>2, <2>4, Pieces
  <2> HIDE DEF piece, more
  <2>8. CASE page' = Put(head, piece) /\ buf' = [buf EXCEPT ![t] = more] /\ UNCHANGED <<pc, copy, cpu>>
    <3>1. page' \in [0 .. PAGE_SIZE - 1 -> Nat]
      BY <1>2, <2>3, <2>7, <2>8, PutTypes DEF DataOK
    <3>2. buf' \in [Tasks -> Seq(Nat)] /\ \A s \in Tasks \ {t} : buf'[s] = buf[s]
      BY <1>2, <2>7, <2>8 DEF DataOK
    <3>3. DataOK'
      BY <1>2, <2>1, <2>8, <3>1, <3>2 DEF DataOK
    <3> QED
      BY <1>1, <1>2, <1>3, <2>5, <2>6, <2>8, <3>2, <3>3, CallStepInv
  <2>9. CASE Fault(t, "wcopy", head, chars)
    <3>1. /\ pc' = [pc EXCEPT ![t] = "wcopy"] /\ copy' = [copy EXCEPT ![t] = <<head, chars>>]
          /\ cpu' = NoTask /\ UNCHANGED <<page, buf>>
      BY <2>9 DEF Fault
    <3>2. copy \in [Tasks -> Nat \X Nat] /\ <<head, chars>> \in Nat \X Nat
      BY <1>2, <2>3, <2>4 DEF DataOK
    <3>3. /\ copy' \in [Tasks -> Nat \X Nat] /\ copy'[t][1] = head /\ copy'[t][2] = chars
          /\ \A s \in Tasks \ {t} : copy'[s] = copy[s]
      BY <3>1, <3>2
    <3>4. /\ pc' \in [Tasks -> {"user", "read", "write", "rcopy", "wcopy"}] /\ pc'[t] = "wcopy"
          /\ \A s \in Tasks \ {t} : pc'[s] = pc[s]
      BY <1>2, <3>1
    <3>5. DataOK'
      BY <1>2, <2>1, <3>1, <3>3 DEF DataOK
    <3> QED
      BY <1>1, <1>2, <1>3, <2>4, <2>5, <2>6, <3>1, <3>3, <3>4, <3>5, CallStepInv
  <2> QED
    BY <2>1, <2>8, <2>9
<1> QED
  BY <1>4, <1>5, <1>6 DEF write_pipe

(* The copy goes on after its page fault. *)
LEMMA CopyInv ==
  ASSUME PipeIInv, NEW t \in Tasks, CopyAfterFault(t)
  PROVE  PipeIInv'
<1> DEFINE from == copy[t][1]
           n == copy[t][2]
<1>1. /\ FilesKept /\ cpu' = t /\ UNCHANGED <<head, tail, count>> /\ UNCHANGED waitVars
      /\ copy' = [copy EXCEPT ![t] = <<0, 0>>]
  BY DEF CopyAfterFault, fileVars, FilesKept
<1>2. /\ pc \in [Tasks -> {"user", "read", "write", "rcopy", "wcopy"}] /\ DataOK
      /\ head \in 0 .. PAGE_SIZE - 1 /\ tail \in 0 .. PAGE_SIZE - 1 /\ WaitTypeOK
  BY DEF PipeIInv, PipeTypeOK
<1>3. /\ copy' \in [Tasks -> Nat \X Nat] /\ \A s \in Tasks \ {t} : copy'[s] = copy[s]
      /\ from \in Nat /\ n \in Nat /\ buf[t] \in Seq(Nat)
  BY <1>1, <1>2 DEF DataOK
<1>4. WaitTypeOK'
  BY <1>1, <1>2, SameWaitTypes
<1>5. CASE pc[t] = "rcopy"
  <2>1. /\ pc' = [pc EXCEPT ![t] = "read"] /\ page' = page
        /\ buf' = [buf EXCEPT ![t] = @ \o Ring(from, n)]
    BY <1>5 DEF CopyAfterFault
  <2>2. n >= 1 /\ from + n <= PAGE_SIZE /\ Held(t) # {}
    BY <1>5 DEF PipeIInv, CopiesOK, HoldersOK
  <2> HIDE DEF from, n
  <2>3. Ring(from, n) \in Seq(Nat)
    BY <1>2, <1>3, <2>2, RingTypes DEF DataOK
  <2>4. buf[t] \o Ring(from, n) \in Seq(Nat)
    BY <1>3, <2>3
  <2>5. buf' \in [Tasks -> Seq(Nat)] /\ \A s \in Tasks \ {t} : buf'[s] = buf[s]
    BY <1>2, <2>1, <2>4 DEF DataOK
  <2>6. DataOK'
    BY <1>1, <1>2, <1>3, <2>1, <2>5 DEF DataOK
  <2>7. /\ pc' \in [Tasks -> {"user", "read", "write", "rcopy", "wcopy"}] /\ pc'[t] = "read"
        /\ \A s \in Tasks \ {t} : pc'[s] = pc[s]
    BY <1>2, <2>1
  <2> QED
    BY <1>1, <1>2, <1>3, <1>4, <2>2, <2>5, <2>6, <2>7, CallStepInv
<1>6. CASE pc[t] = "wcopy"
  <2> DEFINE piece == SubSeq(buf[t], 1, n)
             more == SubSeq(buf[t], n + 1, Len(buf[t]))
  <2>1. /\ pc' = [pc EXCEPT ![t] = "write"] /\ page' = Put(from, piece)
        /\ buf' = [buf EXCEPT ![t] = more]
    BY <1>6 DEF CopyAfterFault
  <2>2. n <= Len(buf[t]) /\ Held(t) # {}
    BY <1>6 DEF PipeIInv, CopiesOK, HoldersOK
  <2> HIDE DEF from, n
  <2>3. piece \in Seq(Nat) /\ more \in Seq(Nat)
    BY <1>3, <2>2, Pieces
  <2> HIDE DEF piece, more
  <2>4. page' \in [0 .. PAGE_SIZE - 1 -> Nat]
    BY <1>2, <1>3, <2>1, <2>3, PutTypes DEF DataOK
  <2>5. buf' \in [Tasks -> Seq(Nat)] /\ \A s \in Tasks \ {t} : buf'[s] = buf[s]
    BY <1>2, <2>1, <2>3 DEF DataOK
  <2>6. DataOK'
    BY <1>1, <1>2, <1>3, <2>4, <2>5 DEF DataOK
  <2>7. /\ pc' \in [Tasks -> {"user", "read", "write", "rcopy", "wcopy"}] /\ pc'[t] = "write"
        /\ \A s \in Tasks \ {t} : pc'[s] = pc[s]
    BY <1>2, <2>1
  <2> QED
    BY <1>1, <1>2, <1>3, <1>4, <2>2, <2>5, <2>6, <2>7, CallStepInv
<1> QED
  BY <1>5, <1>6 DEF CopyAfterFault

(* At first nothing is open. *)
LEMMA InitPipeInv == PipeInit => PipeIInv
<1> SUFFICES ASSUME PipeInit PROVE PipeIInv
  OBVIOUS
<1> USE DEF PipeInit
<1>1. WaitTypeOK
  BY DEF WaitInit, WaitTypeOK
<1>2. live \subseteq Tasks
  BY PipeAssumption
<1>3. filp \in [Tasks -> [Files -> 0 .. NR_OPEN]] /\ \A t \in Tasks, f \in Files : filp[t][f] = 0
  BY PipeFinite
<1>4. /\ head \in 0 .. PAGE_SIZE - 1 /\ tail \in 0 .. PAGE_SIZE - 1 /\ i_count \in 0 .. 2
      /\ f_count \in [Files -> Nat] /\ f_mode \in [Files -> {1, 2}] /\ cpu \in Tasks \cup {NoTask}
      /\ pc \in [Tasks -> {"user", "read", "write", "rcopy", "wcopy"}]
  BY PipeFinite
<1>5. PipeTypeOK
  BY <1>1, <1>2, <1>3, <1>4 DEF PipeTypeOK
<1>6. DataOK
  BY DEF DataOK, Blank
<1>7. CopiesOK
  BY DEF CopiesOK
<1>8. HoldersOK
  <2>1. \A t \in Tasks : Total(Files, filp[t]) = 0
    BY <1>3, TotalZero
  <2>2. \A t \in Tasks : pc[t] = "user"
    OBVIOUS
  <2>3. 0 <= NR_OPEN
    BY PipeFinite
  <2> QED
    BY ONLY <1>3, <2>1, <2>2, <2>3 DEF HoldersOK
<1>9. CountsOK
  <2>1. ASSUME NEW f \in Files PROVE f_count[f] = Total(Tasks, UsersOf(f))
    <3>1. UsersOf(f) \in [Tasks -> 0 .. NR_OPEN] /\ \A t \in Tasks : UsersOf(f)[t] = 0
      BY <1>3 DEF UsersOf
    <3>2. Total(Tasks, UsersOf(f)) = 0
      BY <3>1, TotalZero
    <3> QED
      BY <3>2
  <2>2. {f \in Files : f_count[f] > 0} = {} /\ i_count = 0
    OBVIOUS
  <2> QED
    BY <2>1, <2>2, FS_EmptySet DEF CountsOK
<1> QED
  BY <1>5, <1>6, <1>7, <1>8, <1>9 DEF PipeIInv

(* Every step keeps the invariant. *)
LEMMA NextPipeInv == PipeIInv /\ [PipeNext]_pipeVars => PipeIInv'
<1> SUFFICES ASSUME PipeIInv, [PipeNext]_pipeVars PROVE PipeIInv'
  OBVIOUS
<1>1. CASE UNCHANGED pipeVars
  <2>1. PICK t \in Tasks : TRUE
    BY PipeAssumption
  <2>2. /\ FilesKept /\ UNCHANGED <<head, tail, page, pc, buf, count, copy, cpu>>
        /\ UNCHANGED waitVars
    BY <1>1 DEF pipeVars, fileVars, ringVars, callVars, FilesKept
  <2>3. WaitTypeOK' /\ cpu' \in Tasks \cup {NoTask}
    BY <2>2, SameWaitTypes DEF PipeIInv, PipeTypeOK
  <2> QED
    BY <2>1, <2>2, <2>3, SleepInv
<1>2. CASE PipeNext
  <2>1. PICK t \in Tasks : Call(t) \/ Work(t)
    BY <1>2 DEF PipeNext
  <2>2. CASE Call(t)
    <3>1. CASE sys_pipe(t) \/ Exit(t) \/ Fork(t)
      BY <3>1, PipeCallInv, ExitPipeInv, ForkPipeInv
    <3>2. ASSUME NEW f \in Files, sys_close(t, f) \/ dupfd(t, f) PROVE PipeIInv'
      BY <3>2, CloseInv, DupInv
    <3>3. ASSUME NEW f \in Files, NEW g \in Files, sys_dup2(t, f, g) PROVE PipeIInv'
      BY <3>3, Dup2Inv
    <3>4. ASSUME NEW f \in Files, NEW n \in Counts, sys_read(t, f, n) PROVE PipeIInv'
      BY <3>4, ReadCallInv
    <3>5. ASSUME NEW f \in Files, NEW m \in Messages, sys_write(t, f, m) PROVE PipeIInv'
      BY <3>5, WriteCallInv
    <3> QED
      BY <2>2, <3>1, <3>2, <3>3, <3>4, <3>5 DEF Call
  <2>3. CASE Work(t)
    BY <2>3, ReadInv, WriteInv, CopyInv, ResumeInv DEF Work
  <2> QED
    BY <2>1, <2>2, <2>3
<1> QED
  BY <1>1, <1>2

(* The inductive invariant holds in every state. *)
LEMMA PipeInvHolds == PipeSpec => []PipeIInv
BY InitPipeInv, NextPipeInv, PTL DEF PipeSpec

(* f_count is the number of descriptors for a file and i_count the number  *)
(* of open files, whatever is duplicated, inherited and closed, for any    *)
(* number of processes, files and descriptors; head and tail stay in the   *)
(* page.                                                                   *)
THEOREM PipeCorrect == PipeSpec => []PipeInv
<1>1. PipeIInv => PipeInv
  BY CountsAre DEF PipeIInv, PipeInv
<1> QED
  BY PipeInvHolds, <1>1, PTL

----------------------------------------------------------------------------
(* The bytes of the ring as a function of the page: m of them, from tl on. *)
Bytes(pg, tl, m) == [k \in 1 .. m |-> pg[(tl + k - 1) % PAGE_SIZE]]

(* The place of the k-th of them: past the end of the page it goes on at   *)
(* the beginning.                                                          *)
Place(tl, k) == IF tl + k - 1 < PAGE_SIZE THEN tl + k - 1 ELSE tl + k - 1 - PAGE_SIZE

Pagefuls == [0 .. PAGE_SIZE - 1 -> Nat]

LEMMA BytesAre ==
  ASSUME NEW pg \in Pagefuls, NEW tl \in 0 .. PAGE_SIZE - 1, NEW m \in 0 .. PAGE_SIZE - 1
  PROVE  /\ Bytes(pg, tl, m) \in Seq(Nat) /\ Len(Bytes(pg, tl, m)) = m
         /\ \A k \in 1 .. m : /\ Place(tl, k) \in 0 .. PAGE_SIZE - 1
                              /\ Bytes(pg, tl, m)[k] = pg[Place(tl, k)]
<1>1. ASSUME NEW k \in 1 .. m
      PROVE  (tl + k - 1) % PAGE_SIZE = Place(tl, k) /\ Place(tl, k) \in 0 .. PAGE_SIZE - 1
  <2>1. k \in 1 .. PAGE_SIZE - 1
    BY PipeFinite
  <2>2. (tl + k - 1) % PAGE_SIZE = Place(tl, k)
    BY <2>1, PipeFinite, RingPlace DEF Place
  <2>3. Place(tl, k) \in 0 .. PAGE_SIZE - 1
    BY <2>1, PipeFinite DEF Place
  <2> QED
    BY <2>2, <2>3
<1>2. \A k \in 1 .. m : Bytes(pg, tl, m)[k] = pg[Place(tl, k)]
  BY <1>1 DEF Bytes
<1>3. Bytes(pg, tl, m) \in [1 .. m -> Nat]
  BY <1>1 DEF Bytes, Pagefuls
<1>4. m \in Nat
  BY PipeFinite
<1> QED
  BY <1>1, <1>2, <1>3, <1>4, SequenceOf

(* Two sequences with the same elements are the same. *)
LEMMA SameBytes ==
  ASSUME NEW r \in Seq(Nat), NEW s \in Seq(Nat), Len(r) = Len(s),
         \A k \in 1 .. Len(r) : r[k] = s[k]
  PROVE  r = s
BY SeqEqual

(* The elements of two sequences put together. *)
LEMMA Joined ==
  ASSUME NEW s \in Seq(Nat), NEW r \in Seq(Nat)
  PROVE  /\ s \o r \in Seq(Nat) /\ Len(s \o r) = Len(s) + Len(r)
         /\ \A k \in 1 .. Len(s) : (s \o r)[k] = s[k]
         /\ \A k \in 1 .. Len(r) : (s \o r)[Len(s) + k] = r[k]
BY ConcatProperties

(* A reader takes n bytes from the front; the rest stays, in its order. *)
LEMMA BytesTaken ==
  ASSUME NEW pg \in Pagefuls, NEW tl \in 0 .. PAGE_SIZE - 1, NEW m \in 0 .. PAGE_SIZE - 1,
         NEW n \in 0 .. m, tl + n <= PAGE_SIZE,
         NEW piece \in Seq(Nat), Len(piece) = n, \A k \in 1 .. n : piece[k] = pg[tl + k - 1]
  PROVE  /\ piece = SubSeq(Bytes(pg, tl, m), 1, n)
         /\ Bytes(pg, (tl + n) % PAGE_SIZE, m - n) = SubSeq(Bytes(pg, tl, m), n + 1, m)
<1> DEFINE s == Bytes(pg, tl, m)
           u == (tl + n) % PAGE_SIZE
           r == Bytes(pg, u, m - n)
<1>1. /\ s \in Seq(Nat) /\ Len(s) = m /\ \A k \in 1 .. m : s[k] = pg[Place(tl, k)]
  BY BytesAre
<1>2. u \in 0 .. PAGE_SIZE - 1 /\ u = IF tl + n = PAGE_SIZE THEN 0 ELSE tl + n
  <2>1. n \in 0 .. PAGE_SIZE - tl
    BY PipeFinite
  <2>2. u = IF tl + n = PAGE_SIZE THEN 0 ELSE tl + n
    BY <2>1, PipeFinite, RingMove
  <2> HIDE DEF u
  <2> QED
    BY <2>2, PipeFinite
<1> HIDE DEF u
<1>3. /\ r \in Seq(Nat) /\ Len(r) = m - n /\ \A k \in 1 .. m - n : r[k] = pg[Place(u, k)]
  <2> DEFINE q == m - n
  <2>1. q \in 0 .. PAGE_SIZE - 1
    BY PipeFinite
  <2> HIDE DEF q
  <2>2. /\ Bytes(pg, u, q) \in Seq(Nat) /\ Len(Bytes(pg, u, q)) = q
        /\ \A k \in 1 .. q : Bytes(pg, u, q)[k] = pg[Place(u, k)]
    <3>1. u \in 0 .. PAGE_SIZE - 1
      BY <1>2
    <3> QED
      BY ONLY <2>1, <3>1, pg \in Pagefuls, BytesAre
  <2> QED
    BY <2>2 DEF q
<1> HIDE DEF s, r
<1>4. /\ SubSeq(s, 1, n) \in Seq(Nat) /\ Len(SubSeq(s, 1, n)) = n
      /\ \A k \in 1 .. n : SubSeq(s, 1, n)[k] = s[k]
      /\ SubSeq(s, n + 1, m) \in Seq(Nat) /\ Len(SubSeq(s, n + 1, m)) = m - n
      /\ \A k \in 1 .. m - n : SubSeq(s, n + 1, m)[k] = s[n + k]
  BY <1>1, Pieces
<1>5. piece = SubSeq(s, 1, n)
  <2>1. \A k \in 1 .. n : Place(tl, k) = tl + k - 1
    BY PipeFinite DEF Place
  <2>2. \A k \in 1 .. n : piece[k] = SubSeq(s, 1, n)[k]
    BY <1>1, <1>4, <2>1
  <2> QED
    BY <1>4, <2>2, SameBytes
<1>6. r = SubSeq(s, n + 1, m)
  <2>1. \A k \in 1 .. m - n : n + k \in 1 .. m /\ Place(u, k) = Place(tl, n + k)
    BY <1>2, PipeFinite DEF Place
  <2>2. ASSUME NEW k \in 1 .. m - n PROVE r[k] = SubSeq(s, n + 1, m)[k]
    <3>1. n + k \in 1 .. m /\ Place(u, k) = Place(tl, n + k)
      BY <2>1
    <3>2. r[k] = pg[Place(u, k)]
      BY <1>3
    <3>3. SubSeq(s, n + 1, m)[k] = s[n + k]
      BY <1>4
    <3>4. s[n + k] = pg[Place(tl, n + k)]
      BY <1>1, <3>1
    <3> QED
      BY ONLY <3>1, <3>2, <3>3, <3>4
  <2> QED
    BY <1>3, <1>4, <2>2, SameBytes
<1> QED
  BY <1>5, <1>6 DEF s, r, u

(* new is pg with a piece written at hd. *)
Written(new, pg, hd, piece) ==
  \A k \in 0 .. PAGE_SIZE - 1 :
    new[k] = IF k >= hd /\ k < hd + Len(piece) THEN piece[k - hd + 1] ELSE pg[k]

(* A writer appends a piece at the head, where nothing unread is. *)
LEMMA BytesPut ==
  ASSUME NEW pg \in Pagefuls, NEW tl \in 0 .. PAGE_SIZE - 1, NEW m \in 0 .. PAGE_SIZE - 1,
         NEW hd \in 0 .. PAGE_SIZE - 1,
         hd = Place(tl, m + 1),
         NEW piece \in Seq(Nat), m + Len(piece) <= PAGE_SIZE - 1, hd + Len(piece) <= PAGE_SIZE,
         NEW new \in Pagefuls,
         Written(new, pg, hd, piece)
  PROVE  Bytes(new, tl, m + Len(piece)) = Bytes(pg, tl, m) \o piece
<1> DEFINE n == Len(piece)
           s == Bytes(pg, tl, m)
           r == Bytes(new, tl, m + n)
<1>1. n \in Nat /\ m + n \in 0 .. PAGE_SIZE - 1 /\ m + n <= PAGE_SIZE - 1 /\ hd + n <= PAGE_SIZE
  BY PipeFinite
<1>2. /\ s \in Seq(Nat) /\ Len(s) = m
      /\ \A k \in 1 .. m : Place(tl, k) \in 0 .. PAGE_SIZE - 1 /\ s[k] = pg[Place(tl, k)]
  BY BytesAre
<1>3. /\ r \in Seq(Nat) /\ Len(r) = m + n
      /\ \A k \in 1 .. m + n : Place(tl, k) \in 0 .. PAGE_SIZE - 1 /\ r[k] = new[Place(tl, k)]
  <2> HIDE DEF n
  <2> QED
    BY <1>1, BytesAre
<1> HIDE DEF s, r
<1>4. /\ s \o piece \in Seq(Nat) /\ Len(s \o piece) = m + n
      /\ \A k \in 1 .. m : (s \o piece)[k] = s[k]
      /\ \A k \in 1 .. n : (s \o piece)[m + k] = piece[k]
  BY <1>2, Joined
<1>5. ASSUME NEW k \in 1 .. m PROVE r[k] = (s \o piece)[k]
  <2> HIDE DEF n
  <2>1. Place(tl, k) \in 0 .. PAGE_SIZE - 1 /\ s[k] = pg[Place(tl, k)]
    BY <1>2
  <2>2. k \in 1 .. m + n
    BY <1>1, PipeFinite
  <2>3. ~(Place(tl, k) >= hd /\ Place(tl, k) < hd + n)
    BY <1>1, PipeFinite DEF Place
  <2>4. new[Place(tl, k)] = pg[Place(tl, k)]
    BY <2>1, <2>3 DEF n, Written
  <2> QED
    BY <1>3, <1>4, <2>1, <2>2, <2>4
<1>6. ASSUME NEW k \in 1 .. n PROVE r[m + k] = (s \o piece)[m + k]
  <2> HIDE DEF n
  <2>1. m + k \in 1 .. m + n
    BY <1>1, PipeFinite
  <2>2. Place(tl, m + k) \in 0 .. PAGE_SIZE - 1 /\ r[m + k] = new[Place(tl, m + k)]
    BY <1>3, <2>1
  <2>3. Place(tl, m + k) = hd + k - 1
    BY <1>1, PipeFinite DEF Place
  <2>4. hd + k - 1 >= hd /\ hd + k - 1 < hd + n /\ (hd + k - 1) - hd + 1 = k
    BY <1>1, PipeFinite
  <2>5. new[hd + k - 1] = piece[(hd + k - 1) - hd + 1]
    BY <2>2, <2>3, <2>4 DEF n, Written
  <2> QED
    BY <1>4, <2>2, <2>3, <2>4, <2>5
<1> HIDE DEF n
<1>7. ASSUME NEW k \in 1 .. m + n PROVE r[k] = (s \o piece)[k]
  <2>1. CASE k <= m
    <3>1. k \in 1 .. m
      BY <1>1, <2>1, PipeFinite
    <3> QED
      BY <1>5, <3>1
  <2>2. CASE k > m
    <3>1. k - m \in 1 .. n /\ m + (k - m) = k
      BY <1>1, <2>2, PipeFinite
    <3>2. r[m + (k - m)] = (s \o piece)[m + (k - m)]
      BY <1>6, <3>1
    <3> QED
      BY <3>1, <3>2
  <2>3. k <= m \/ k > m
    BY ONLY PipeFinite, <1>1, m \in 0 .. PAGE_SIZE - 1, k \in 1 .. m + n
  <2> QED
    BY <2>1, <2>2, <2>3
<1>8. r = s \o piece
  BY <1>3, <1>4, <1>7, SameBytes
<1> QED
  BY <1>8 DEF r, s, n

----------------------------------------------------------------------------
(* The ring of a state. *)
LEMMA RingBytes ==
  PipeIInv => /\ InRing = Bytes(page, tail, PIPE_SIZE)
              /\ page \in Pagefuls /\ tail \in 0 .. PAGE_SIZE - 1 /\ head \in 0 .. PAGE_SIZE - 1
              /\ PIPE_SIZE \in 0 .. PAGE_SIZE - 1
              /\ PIPE_SIZE = IF tail <= head THEN head - tail ELSE head - tail + PAGE_SIZE
<1> SUFFICES ASSUME PipeIInv
             PROVE  /\ InRing = Bytes(page, tail, PIPE_SIZE)
                    /\ page \in Pagefuls /\ tail \in 0 .. PAGE_SIZE - 1
                    /\ head \in 0 .. PAGE_SIZE - 1 /\ PIPE_SIZE \in 0 .. PAGE_SIZE - 1
                    /\ PIPE_SIZE = IF tail <= head THEN head - tail ELSE head - tail + PAGE_SIZE
  OBVIOUS
<1>1. page \in Pagefuls /\ head \in 0 .. PAGE_SIZE - 1 /\ tail \in 0 .. PAGE_SIZE - 1
  BY DEF PipeIInv, PipeTypeOK, DataOK, Pagefuls
<1>2. PIPE_SIZE \in 0 .. PAGE_SIZE - 1
  BY RoomSize
<1>3. PIPE_SIZE = IF tail <= head THEN head - tail ELSE head - tail + PAGE_SIZE
  BY <1>1, PipeFinite, RingSize DEF PIPE_SIZE
<1>4. InRing = Bytes(page, tail, PIPE_SIZE)
  BY DEF InRing, Bytes
<1> QED
  BY <1>1, <1>2, <1>3, <1>4

(* The same of the next state. *)
LEMMA NextRingBytes ==
  PipeIInv' => /\ InRing' = Bytes(page', tail', PIPE_SIZE')
               /\ page' \in Pagefuls /\ tail' \in 0 .. PAGE_SIZE - 1
               /\ PIPE_SIZE' \in 0 .. PAGE_SIZE - 1
               /\ PIPE_SIZE' = IF tail' <= head' THEN head' - tail' ELSE head' - tail' + PAGE_SIZE
<1>1. PipeIInv' => (/\ InRing = Bytes(page, tail, PIPE_SIZE)
                    /\ page \in Pagefuls /\ tail \in 0 .. PAGE_SIZE - 1
                    /\ head \in 0 .. PAGE_SIZE - 1 /\ PIPE_SIZE \in 0 .. PAGE_SIZE - 1
                    /\ PIPE_SIZE = IF tail <= head THEN head - tail
                                   ELSE head - tail + PAGE_SIZE)'
  BY RingBytes, PTL
<1> QED
  BY <1>1

(* A reader takes n bytes of the ring. *)
LEMMA RingGet ==
  ASSUME PipeIInv, PipeIInv', NEW n \in Nat, n <= PAGE_SIZE - tail, n <= PIPE_SIZE,
         tail' = (tail + n) % PAGE_SIZE, UNCHANGED <<head, page>>
  PROVE  /\ n <= Len(InRing) /\ Ring(tail, n) = SubSeq(InRing, 1, n)
         /\ InRing' = SubSeq(InRing, n + 1, Len(InRing))
<1> DEFINE m == PIPE_SIZE
<1>1. /\ InRing = Bytes(page, tail, m)
      /\ page \in Pagefuls /\ tail \in 0 .. PAGE_SIZE - 1 /\ head \in 0 .. PAGE_SIZE - 1
      /\ m \in 0 .. PAGE_SIZE - 1
      /\ m = IF tail <= head THEN head - tail ELSE head - tail + PAGE_SIZE
  BY RingBytes
<1>2. /\ InRing' = Bytes(page, tail', PIPE_SIZE') /\ tail' \in 0 .. PAGE_SIZE - 1
      /\ PIPE_SIZE' = IF tail' <= head THEN head - tail' ELSE head - tail' + PAGE_SIZE
  BY NextRingBytes
<1>3. n \in 0 .. m /\ tail \in Nat /\ tail + n <= PAGE_SIZE
  BY <1>1, PipeFinite
<1> HIDE DEF m
<1>4. PIPE_SIZE' = m - n
  <2>1. tail' = IF tail + n = PAGE_SIZE THEN 0 ELSE tail + n
    <3>1. n \in 0 .. PAGE_SIZE - tail
      BY <1>1, <1>3, PipeFinite
    <3> QED
      BY <1>1, <3>1, PipeFinite, RingMove
  <2> QED
    BY ONLY <1>1, <1>2, <1>3, <2>1, PipeFinite
<1>5. /\ Ring(tail, n) \in Seq(Nat) /\ Len(Ring(tail, n)) = n
      /\ \A k \in 1 .. n : Ring(tail, n)[k] = page[tail + k - 1]
  BY <1>1, <1>3, RingTypes DEF Pagefuls
<1>6. /\ Ring(tail, n) = SubSeq(Bytes(page, tail, m), 1, n)
      /\ Bytes(page, (tail + n) % PAGE_SIZE, m - n) = SubSeq(Bytes(page, tail, m), n + 1, m)
  <2> DEFINE piece == Ring(tail, n)
  <2>1. piece \in Seq(Nat)
    BY <1>5
  <2>2. Len(piece) = n
    BY <1>5
  <2>3. \A k \in 1 .. n : piece[k] = page[tail + k - 1]
    BY <1>5
  <2>4. page \in Pagefuls
    BY <1>1
  <2>5. tail \in 0 .. PAGE_SIZE - 1
    BY <1>1
  <2>6. m \in 0 .. PAGE_SIZE - 1
    BY <1>1
  <2>7. n \in 0 .. m
    BY <1>3
  <2>8. tail + n <= PAGE_SIZE
    BY <1>3
  <2> HIDE DEF piece
  <2>9. /\ piece = SubSeq(Bytes(page, tail, m), 1, n)
        /\ Bytes(page, (tail + n) % PAGE_SIZE, m - n) = SubSeq(Bytes(page, tail, m), n + 1, m)
    BY ONLY <2>1, <2>2, <2>3, <2>4, <2>5, <2>6, <2>7, <2>8, BytesTaken, Zenon
  <2> QED
    BY <2>9 DEF piece
<1>7. Len(InRing) = m
  <2>1. page \in Pagefuls
    BY <1>1
  <2>2. tail \in 0 .. PAGE_SIZE - 1
    BY <1>1
  <2>3. m \in 0 .. PAGE_SIZE - 1
    BY <1>1
  <2>4. Len(Bytes(page, tail, m)) = m
    BY ONLY <2>1, <2>2, <2>3, BytesAre, Zenon
  <2> QED
    BY <1>1, <2>4
<1>8. n <= m
  BY <1>1, <1>3, PipeFinite
<1>9. InRing' = SubSeq(InRing, n + 1, m)
  <2>1. InRing' = Bytes(page, (tail + n) % PAGE_SIZE, m - n)
    BY <1>2, <1>4
  <2> QED
    BY ONLY <1>1, <1>6, <2>1
<1>10. Ring(tail, n) = SubSeq(InRing, 1, n)
  BY ONLY <1>1, <1>6
<1> QED
  BY ONLY <1>7, <1>8, <1>9, <1>10

(* A writer puts a piece into the ring. *)
LEMMA RingPut ==
  ASSUME PipeIInv, PipeIInv', NEW piece \in Seq(Nat),
         Len(piece) <= PAGE_SIZE - head, Len(piece) <= Room,
         head' = (head + Len(piece)) % PAGE_SIZE, page' = Put(head, piece), tail' = tail
  PROVE  InRing' = InRing \o piece
<1> DEFINE m == PIPE_SIZE
           n == Len(piece)
<1>1. /\ InRing = Bytes(page, tail, m)
      /\ page \in Pagefuls /\ tail \in 0 .. PAGE_SIZE - 1 /\ head \in 0 .. PAGE_SIZE - 1
      /\ m \in 0 .. PAGE_SIZE - 1
      /\ m = IF tail <= head THEN head - tail ELSE head - tail + PAGE_SIZE
  BY RingBytes
<1>2. /\ InRing' = Bytes(page', tail, PIPE_SIZE') /\ page' \in Pagefuls
      /\ PIPE_SIZE' = IF tail <= head' THEN head' - tail ELSE head' - tail + PAGE_SIZE
  BY NextRingBytes
<1>3. n \in Nat /\ head + n <= PAGE_SIZE /\ m + n <= PAGE_SIZE - 1
  <2>1. n \in Nat /\ n <= PAGE_SIZE - head /\ n <= Room /\ Room + m = PAGE_SIZE - 1
        /\ Room \in 0 .. PAGE_SIZE - 1
    BY RoomSize
  <2> HIDE DEF n, m
  <2> QED
    BY ONLY <1>1, <2>1, PipeFinite
<1>4. head' = IF head + n = PAGE_SIZE THEN 0 ELSE head + n
  <2>1. head' = (head + n) % PAGE_SIZE
    OBVIOUS
  <2> HIDE DEF n, m
  <2>2. n \in 0 .. PAGE_SIZE - head
    BY <1>1, <1>3, PipeFinite
  <2> QED
    BY <1>1, <2>1, <2>2, PipeFinite, RingMove
<1>5. Written(page', page, head, piece)
  BY DEF Put, Written
<1> HIDE DEF m
<1>6. m + n = PIPE_SIZE'
  <2> HIDE DEF n
  <2> QED
    BY ONLY <1>1, <1>2, <1>3, <1>4, PipeFinite
<1>7. head = Place(tail, m + 1)
  BY ONLY <1>1, PipeFinite DEF Place
<1>8. Bytes(page', tail, m + Len(piece)) = Bytes(page, tail, m) \o piece
  <2>1. page \in Pagefuls
    BY <1>1
  <2>2. tail \in 0 .. PAGE_SIZE - 1
    BY <1>1
  <2>3. m \in 0 .. PAGE_SIZE - 1
    BY <1>1
  <2>4. head \in 0 .. PAGE_SIZE - 1
    BY <1>1
  <2>5. page' \in Pagefuls
    BY <1>2
  <2>6. head + Len(piece) <= PAGE_SIZE
    BY <1>3
  <2>7. m + Len(piece) <= PAGE_SIZE - 1
    BY <1>3
  <2> QED
    BY ONLY <1>5, <1>7, <2>1, <2>2, <2>3, <2>4, <2>5, <2>6, <2>7, BytesPut,
            piece \in Seq(Nat)
<1> QED
  BY <1>1, <1>2, <1>6, <1>8

----------------------------------------------------------------------------
(* The refinement of ByteStream.  The abstract state of a pipe:            *)
StreamOf == IF i_count = 0 THEN <<>> ELSE InRing
GotOf    == [t \in Tasks |-> IF pc[t] \in {"read", "rcopy"} THEN buf[t] ELSE <<>>]
TodoOf   == [t \in Tasks |-> IF pc[t] \in {"write", "wcopy"} THEN buf[t] ELSE <<>>]

(* What a step of the pipe does to it. *)
StreamStep == [Stream!StreamNext \/ copy' # copy]_(Stream!streamVars)

LEMMA StreamStutters ==
  ASSUME StreamOf' = StreamOf, GotOf' = GotOf, TodoOf' = TodoOf
  PROVE  StreamStep
BY DEF StreamStep, Stream!streamVars, StreamOf, GotOf, TodoOf

LEMMA StreamBegins ==
  ASSUME NEW t \in Tasks, NEW m \in Messages, StreamOf' = StreamOf, GotOf' = GotOf,
         TodoOf[t] = <<>>, GotOf[t] = <<>>, TodoOf' = [TodoOf EXCEPT ![t] = m]
  PROVE  StreamStep
<1>1. Stream!BeginWrite(t, m)
  BY DEF Stream!BeginWrite, StreamOf, GotOf, TodoOf
<1> QED
  BY <1>1 DEF StreamStep, Stream!StreamNext

LEMMA StreamPuts ==
  ASSUME NEW t \in Tasks, NEW n \in 1 .. Len(TodoOf[t]), n <= Len(TodoOf[t]),
         StreamOf' = StreamOf \o SubSeq(TodoOf[t], 1, n), GotOf' = GotOf,
         TodoOf' = [TodoOf EXCEPT ![t] = SubSeq(TodoOf[t], n + 1, Len(TodoOf[t]))]
  PROVE  StreamStep
<1>1. TodoOf' = [TodoOf EXCEPT ![t] = SubSeq(@, n + 1, Len(@))]
  OBVIOUS
<1>2. Stream!Put(t, n)
  BY <1>1 DEF Stream!Put, StreamOf, GotOf, TodoOf
<1>3. \E k \in 1 .. Len(TodoOf[t]) : Stream!Put(t, k)
  BY <1>2
<1> QED
  BY <1>3 DEF StreamStep, Stream!StreamNext, TodoOf

LEMMA StreamGets ==
  ASSUME NEW t \in Tasks, NEW n \in 1 .. Len(StreamOf), n <= Len(StreamOf),
         GotOf' = [GotOf EXCEPT ![t] = @ \o SubSeq(StreamOf, 1, n)],
         StreamOf' = SubSeq(StreamOf, n + 1, Len(StreamOf)), TodoOf' = TodoOf
  PROVE  StreamStep
<1>1. Stream!Get(t, n)
  BY DEF Stream!Get, StreamOf, GotOf, TodoOf
<1>2. \E k \in 1 .. Len(StreamOf) : Stream!Get(t, k)
  BY <1>1
<1> QED
  BY <1>2 DEF StreamStep, Stream!StreamNext, StreamOf

LEMMA StreamEnds ==
  ASSUME NEW t \in Tasks, TodoOf[t] = <<>> \/ i_count # 2, StreamOf' = StreamOf,
         GotOf' = [GotOf EXCEPT ![t] = <<>>], TodoOf' = [TodoOf EXCEPT ![t] = <<>>]
  PROVE  StreamStep
<1>1. Stream!End(t)
  BY DEF Stream!End, StreamOf, GotOf, TodoOf
<1> QED
  BY <1>1 DEF StreamStep, Stream!StreamNext

LEMMA StreamDiscards ==
  ASSUME \A t \in Tasks : GotOf[t] = <<>> /\ TodoOf[t] = <<>>,
         StreamOf' = <<>>, GotOf' = GotOf, TodoOf' = TodoOf
  PROVE  StreamStep
<1>1. Stream!Discard
  BY DEF Stream!Discard, StreamOf, GotOf, TodoOf
<1> QED
  BY <1>1 DEF StreamStep, Stream!StreamNext

LEMMA CopyStep == ASSUME copy' # copy PROVE StreamStep
BY DEF StreamStep

----------------------------------------------------------------------------
(* Outside a fault nothing is noted of a copy. *)
CopyIdle == \A t \in Tasks : pc[t] \notin {"rcopy", "wcopy"} => copy[t][2] = 0

LEMMA ReferIdle ==
  ASSUME CopyIdle, NEW t, NEW new, Refer(t, new)
  PROVE  CopyIdle'
BY DEF CopyIdle, Refer, callVars

LEMMA WorkIdle ==
  ASSUME PipeIInv, CopyIdle, NEW t \in Tasks, Work(t)
  PROVE  CopyIdle'
<1>1. /\ pc \in [Tasks -> {"user", "read", "write", "rcopy", "wcopy"}]
      /\ copy \in [Tasks -> Nat \X Nat]
  BY DEF PipeIInv, PipeTypeOK, DataOK
<1>2. CASE EndPipeCall(t) /\ pc[t] \in {"read", "write"}
  BY <1>1, <1>2 DEF CopyIdle, EndPipeCall
<1>3. CASE UNCHANGED <<pc, copy>>
  BY <1>3 DEF CopyIdle
<1>4. ASSUME NEW where \in {"rcopy", "wcopy"}, NEW from, NEW n, Fault(t, where, from, n)
      PROVE  CopyIdle'
  BY <1>1, <1>4 DEF CopyIdle, Fault
<1>5. CASE CopyAfterFault(t)
  <2>1. copy' = [copy EXCEPT ![t] = <<0, 0>>] /\ \A s \in Tasks \ {t} : pc'[s] = pc[s]
    BY <1>1, <1>5 DEF CopyAfterFault
  <2> QED
    BY <1>1, <2>1 DEF CopyIdle
<1>6. CASE read_pipe(t)
  BY <1>2, <1>3, <1>4, <1>6 DEF read_pipe, WakeAndSleep, callVars
<1>7. CASE write_pipe(t)
  BY <1>2, <1>3, <1>4, <1>7 DEF write_pipe, WakeAndSleep, callVars
<1>8. CASE Resume(t)
  BY <1>3, <1>8 DEF Resume, callVars
<1> QED
  BY <1>5, <1>6, <1>7, <1>8 DEF Work

LEMMA CallIdle ==
  ASSUME PipeIInv, CopyIdle, NEW t \in Tasks, Call(t)
  PROVE  CopyIdle'
<1>1. /\ pc \in [Tasks -> {"user", "read", "write", "rcopy", "wcopy"}]
      /\ copy \in [Tasks -> Nat \X Nat]
  BY DEF PipeIInv, PipeTypeOK, DataOK
<1>2. CASE UNCHANGED <<pc, copy>>
  BY <1>2 DEF CopyIdle
<1>3. CASE sys_pipe(t) \/ Exit(t) \/ Fork(t)
  BY <1>2, <1>3, ReferIdle DEF sys_pipe, Exit, Fork, callVars
<1>4. ASSUME NEW f \in Files, NEW g \in Files, sys_close(t, f) \/ dupfd(t, f) \/ sys_dup2(t, f, g)
      PROVE  CopyIdle'
  BY <1>4, ReferIdle DEF sys_close, dupfd, sys_dup2
<1>5. ASSUME NEW f \in Files, NEW n \in Counts, sys_read(t, f, n)
      PROVE  CopyIdle'
  BY <1>1, <1>5 DEF sys_read, User, CopyIdle
<1>6. ASSUME NEW f \in Files, NEW m \in Messages, sys_write(t, f, m)
      PROVE  CopyIdle'
  BY <1>1, <1>6 DEF sys_write, User, CopyIdle
<1> QED
  BY <1>3, <1>4, <1>5, <1>6 DEF Call

(* So copy changes where a copy meets a fault, and where it goes on. *)
LEMMA FaultCopies ==
  ASSUME PipeIInv, CopyIdle, NEW t \in Tasks, pc[t] \in {"read", "write"},
         NEW where, NEW from, NEW n \in Nat, n >= 1, Fault(t, where, from, n)
  PROVE  copy' # copy
<1>1. copy \in [Tasks -> Nat \X Nat] /\ copy[t][2] = 0
  BY DEF PipeIInv, DataOK, CopyIdle
<1>2. copy'[t] = <<from, n>>
  BY <1>1 DEF Fault
<1> QED
  BY <1>1, <1>2

LEMMA CopyCopies ==
  ASSUME PipeIInv, NEW t \in Tasks, CopyAfterFault(t)
  PROVE  copy' # copy
<1>1. copy \in [Tasks -> Nat \X Nat] /\ copy[t][2] >= 1
  BY DEF PipeIInv, DataOK, CopiesOK, CopyAfterFault
<1>2. copy'[t] = <<0, 0>>
  BY <1>1 DEF CopyAfterFault
<1> QED
  BY <1>1, <1>2

----------------------------------------------------------------------------
(* The abstract state follows the concrete one. *)
LEMMA SameStream ==
  ASSUME UNCHANGED <<i_count, head, tail, page>>
  PROVE  StreamOf' = StreamOf
BY DEF StreamOf, InRing, PIPE_SIZE

LEMMA SameCalls ==
  ASSUME UNCHANGED <<pc, buf>>
  PROVE  GotOf' = GotOf /\ TodoOf' = TodoOf
BY DEF GotOf, TodoOf

(* Without a pipe nobody is in a call. *)
NoCallers == i_count = 0 => \A t \in Tasks : pc[t] = "user"

LEMMA CallersOpen == PipeIInv => NoCallers
BY CallerOpen DEF NoCallers

(* The descriptors change: the last one takes the bytes with it, and       *)
(* nobody is in a call then.                                               *)
LEMMA ReferMaps ==
  ASSUME PipeIInv, PipeIInv', NEW t \in Tasks, NEW new, Refer(t, new)
  PROVE  StreamStep
<1>1. GotOf' = GotOf /\ TodoOf' = TodoOf
  BY SameCalls DEF Refer, callVars
<1>2. CASE i_count' = 0
  <2>1. NoCallers'
    BY CallersOpen, PTL
  <2>2. \A s \in Tasks : pc'[s] = "user"
    BY <1>2, <2>1 DEF NoCallers
  <2>3. \A s \in Tasks : pc[s] = "user"
    BY <2>2 DEF Refer, callVars
  <2>4. \A s \in Tasks : GotOf[s] = <<>> /\ TodoOf[s] = <<>>
    BY <2>3 DEF GotOf, TodoOf
  <2>5. StreamOf' = <<>>
    BY <1>2 DEF StreamOf
  <2> QED
    BY <1>1, <2>4, <2>5, StreamDiscards
<1>3. CASE i_count' # 0
  <2> DEFINE left == [f \in Files |-> f_count[f] - filp[t][f] + new[f]]
             closed == {f \in Files : f_count[f] > 0 /\ left[f] = 0}
  <2>1. /\ i_count' = i_count - Cardinality(closed)
        /\ page' = IF i_count' = 0 THEN Blank ELSE page
        /\ UNCHANGED <<head, tail>>
    BY DEF Refer, iput_pipe
  <2>2. IsFiniteSet(closed)
    <3>1. closed \subseteq Files
      OBVIOUS
    <3> QED
      BY <3>1, PipeFinite, FS_Subset
  <2>3. Cardinality(closed) \in Nat
    BY <2>2, FS_CardinalityType
  <2>4. i_count \in 0 .. 2 /\ i_count' \in 0 .. 2
    BY DEF PipeIInv, PipeTypeOK
  <2> HIDE DEF closed
  <2>5. i_count # 0
    BY <1>3, <2>1, <2>3, <2>4
  <2>6. InRing' = InRing
    BY <1>3, <2>1 DEF InRing, PIPE_SIZE
  <2> QED
    BY <1>1, <1>3, <2>5, <2>6, StreamStutters DEF StreamOf
<1> QED
  BY <1>2, <1>3

(* pipe(): an empty ring. *)
LEMMA PipeMaps ==
  ASSUME PipeIInv, PipeIInv', NEW t \in Tasks, sys_pipe(t)
  PROVE  StreamStep
<1>1. /\ i_count = 0 /\ head' = 0 /\ tail' = 0 /\ UNCHANGED <<pc, buf>>
  BY DEF sys_pipe, callVars
<1>2. InRing' = Bytes(page', tail', PIPE_SIZE') /\ page' \in Pagefuls
      /\ tail' \in 0 .. PAGE_SIZE - 1 /\ PIPE_SIZE' \in 0 .. PAGE_SIZE - 1
      /\ PIPE_SIZE' = IF tail' <= head' THEN head' - tail' ELSE head' - tail' + PAGE_SIZE
  BY NextRingBytes
<1>3. PIPE_SIZE' = 0
  BY <1>1, <1>2
<1>4. InRing' = <<>>
  <2>1. Bytes(page', 0, 0) = <<>>
    BY DEF Bytes
  <2> QED
    BY <1>1, <1>2, <1>3, <2>1
<1>5. StreamOf' = <<>> /\ StreamOf = <<>>
  BY <1>1, <1>4 DEF StreamOf
<1> QED
  BY <1>1, <1>5, SameCalls, StreamStutters

(* A read begins: nothing is got yet. *)
LEMMA ReadCallMaps ==
  ASSUME PipeIInv, NEW t \in Tasks, NEW f \in Files, NEW n \in Counts, sys_read(t, f, n)
  PROVE  StreamStep
<1>1. /\ pc[t] = "user" /\ pc' = [pc EXCEPT ![t] = "read"] /\ buf' = [buf EXCEPT ![t] = <<>>]
      /\ UNCHANGED <<i_count, head, tail, page>>
  BY DEF sys_read, User, ringVars
<1>2. /\ pc \in [Tasks -> {"user", "read", "write", "rcopy", "wcopy"}]
      /\ buf \in [Tasks -> Seq(Nat)]
  BY DEF PipeIInv, PipeTypeOK, DataOK
<1>3. GotOf' = GotOf /\ TodoOf' = TodoOf
  BY <1>1, <1>2 DEF GotOf, TodoOf
<1> QED
  BY <1>1, <1>3, SameStream, StreamStutters

(* A write begins with its whole message. *)
LEMMA WriteCallMaps ==
  ASSUME PipeIInv, NEW t \in Tasks, NEW f \in Files, NEW m \in Messages, sys_write(t, f, m)
  PROVE  StreamStep
<1>1. /\ pc[t] = "user" /\ pc' = [pc EXCEPT ![t] = "write"] /\ buf' = [buf EXCEPT ![t] = m]
      /\ UNCHANGED <<i_count, head, tail, page>>
  BY DEF sys_write, User, ringVars
<1>2. /\ pc \in [Tasks -> {"user", "read", "write", "rcopy", "wcopy"}]
      /\ buf \in [Tasks -> Seq(Nat)]
  BY DEF PipeIInv, PipeTypeOK, DataOK
<1>3. GotOf' = GotOf /\ TodoOf[t] = <<>> /\ GotOf[t] = <<>>
  BY <1>1, <1>2 DEF GotOf, TodoOf
<1>4. TodoOf' = [TodoOf EXCEPT ![t] = m]
  BY <1>1, <1>2 DEF TodoOf
<1> QED
  BY <1>1, <1>3, <1>4, SameStream, StreamBegins

(* A call ends. *)
LEMMA EndMaps ==
  ASSUME PipeIInv, NEW t \in Tasks, EndPipeCall(t), UNCHANGED <<i_count, head, tail, page>>,
         pc[t] = "write" => buf[t] = <<>> \/ i_count # 2, pc[t] \in {"read", "write"}
  PROVE  StreamStep
<1>1. /\ pc' = [pc EXCEPT ![t] = "user"] /\ buf' = [buf EXCEPT ![t] = <<>>]
  BY DEF EndPipeCall
<1>2. /\ pc \in [Tasks -> {"user", "read", "write", "rcopy", "wcopy"}]
      /\ buf \in [Tasks -> Seq(Nat)]
  BY DEF PipeIInv, PipeTypeOK, DataOK
<1>3. GotOf' = [GotOf EXCEPT ![t] = <<>>]
  BY <1>1, <1>2 DEF GotOf
<1>4. TodoOf' = [TodoOf EXCEPT ![t] = <<>>]
  BY <1>1, <1>2 DEF TodoOf
<1>5. TodoOf[t] = <<>> \/ i_count # 2
  BY DEF TodoOf
<1> QED
  BY <1>3, <1>4, <1>5, SameStream, StreamEnds

(* read_pipe() gets what is at the front of the stream. *)
LEMMA ReadMaps ==
  ASSUME PipeIInv, PipeIInv', CopyIdle, NEW t \in Tasks, read_pipe(t)
  PROVE  StreamStep
<1>1. /\ pc[t] = "read" /\ UNCHANGED <<i_count, head>>
  BY DEF read_pipe
<1>2. /\ pc \in [Tasks -> {"user", "read", "write", "rcopy", "wcopy"}]
      /\ buf \in [Tasks -> Seq(Nat)] /\ count \in [Tasks -> Nat]
      /\ head \in 0 .. PAGE_SIZE - 1 /\ tail \in 0 .. PAGE_SIZE - 1
  BY DEF PipeIInv, PipeTypeOK, DataOK
<1>3. CASE EndPipeCall(t) /\ UNCHANGED <<tail, page>>
  BY <1>1, <1>3, EndMaps
<1>4. CASE WakeAndSleep(t) /\ UNCHANGED <<tail, page>>
  BY <1>1, <1>4, SameStream, SameCalls, StreamStutters DEF WakeAndSleep, callVars
<1>5. CASE ~(count[t] = 0 \/ (PIPE_SIZE = 0 /\ i_count # 2)) /\ PIPE_SIZE # 0
  <2> DEFINE chars == Min({PAGE_SIZE - tail, count[t], PIPE_SIZE})
  <2>1. /\ tail' = (tail + chars) % PAGE_SIZE
        /\ \/ /\ buf' = [buf EXCEPT ![t] = @ \o Ring(tail, chars)]
              /\ UNCHANGED <<page, pc, copy, cpu>>
           \/ Fault(t, "rcopy", tail, chars)
    BY <1>5 DEF read_pipe
  <2>2. /\ PAGE_SIZE - tail \in Nat /\ PAGE_SIZE - tail > 0 /\ count[t] \in Nat /\ count[t] > 0
        /\ PIPE_SIZE \in Nat /\ PIPE_SIZE > 0
    BY <1>2, <1>5, PipeFinite DEF PIPE_SIZE
  <2>3. chars \in Nat /\ chars >= 1 /\ chars <= PAGE_SIZE - tail /\ chars <= PIPE_SIZE
    <3>1. chars \in Nat /\ chars \in {PAGE_SIZE - tail, count[t], PIPE_SIZE}
          /\ chars <= PAGE_SIZE - tail /\ chars <= PIPE_SIZE
      BY <2>2, ChunkSize
    <3> HIDE DEF chars
    <3> QED
      BY <2>2, <3>1
  <2> HIDE DEF chars
  <2>4. CASE Fault(t, "rcopy", tail, chars)
    BY <1>1, <2>3, <2>4, FaultCopies, CopyStep
  <2>5. CASE buf' = [buf EXCEPT ![t] = @ \o Ring(tail, chars)] /\ UNCHANGED <<page, pc, copy, cpu>>
    <3>1. /\ chars <= Len(InRing) /\ Ring(tail, chars) = SubSeq(InRing, 1, chars)
          /\ InRing' = SubSeq(InRing, chars + 1, Len(InRing))
      BY <1>1, <2>1, <2>3, <2>5, RingGet
    <3>2. i_count # 0
      BY <1>1, CallerOpen
    <3>3. StreamOf = InRing /\ StreamOf' = InRing'
      BY <1>1, <3>2 DEF StreamOf
    <3>4. GotOf' = [GotOf EXCEPT ![t] = @ \o SubSeq(StreamOf, 1, chars)]
      BY <1>1, <1>2, <2>5, <3>1, <3>3 DEF GotOf
    <3>5. TodoOf' = TodoOf
      BY <1>1, <1>2, <2>5 DEF TodoOf
    <3>6. chars <= Len(StreamOf) /\ StreamOf' = SubSeq(StreamOf, chars + 1, Len(StreamOf))
      BY <3>1, <3>3
    <3>7. chars \in 1 .. Len(StreamOf)
      <4>1. Len(InRing) \in Nat
        <5>1. InRing \in Seq(Nat)
          BY RingBytes, BytesAre
        <5> QED
          BY <5>1
      <4> QED
        BY <2>3, <3>1, <3>3, <4>1
    <3> QED
      BY <3>4, <3>5, <3>6, <3>7, StreamGets
  <2> QED
    BY <2>1, <2>4, <2>5
<1> QED
  BY <1>3, <1>4, <1>5 DEF read_pipe

(* write_pipe() puts what is at the front of its message. *)
LEMMA WriteMaps ==
  ASSUME PipeIInv, PipeIInv', CopyIdle, NEW t \in Tasks, write_pipe(t)
  PROVE  StreamStep
<1>1. /\ pc[t] = "write" /\ UNCHANGED <<i_count, tail>>
  BY DEF write_pipe
<1>2. /\ pc \in [Tasks -> {"user", "read", "write", "rcopy", "wcopy"}]
      /\ buf \in [Tasks -> Seq(Nat)]
      /\ head \in 0 .. PAGE_SIZE - 1 /\ tail \in 0 .. PAGE_SIZE - 1
  BY DEF PipeIInv, PipeTypeOK, DataOK
<1>3. CASE EndPipeCall(t) /\ UNCHANGED <<head, page>> /\ (buf[t] = <<>> \/ i_count # 2)
  BY <1>1, <1>3, EndMaps
<1>4. CASE WakeAndSleep(t) /\ UNCHANGED <<head, page>>
  BY <1>1, <1>4, SameStream, SameCalls, StreamStutters DEF WakeAndSleep, callVars
<1>5. CASE ~(buf[t] = <<>> \/ (Room = 0 /\ i_count # 2)) /\ Room # 0
  <2> DEFINE chars == Min({PAGE_SIZE - head, Len(buf[t]), Room})
             piece == SubSeq(buf[t], 1, chars)
             more == SubSeq(buf[t], chars + 1, Len(buf[t]))
  <2>1. /\ head' = (head + chars) % PAGE_SIZE
        /\ \/ /\ page' = Put(head, piece)
              /\ buf' = [buf EXCEPT ![t] = more]
              /\ UNCHANGED <<pc, copy, cpu>>
           \/ Fault(t, "wcopy", head, chars)
    BY <1>5 DEF write_pipe
  <2>2. /\ buf[t] \in Seq(Nat) /\ Len(buf[t]) \in Nat /\ Len(buf[t]) > 0
    BY <1>2, <1>5
  <2>3. /\ PAGE_SIZE - head \in Nat /\ PAGE_SIZE - head > 0 /\ Room \in Nat /\ Room > 0
    BY <1>2, <1>5, RoomSize, PipeFinite
  <2>4. /\ chars \in Nat /\ chars >= 1 /\ chars <= PAGE_SIZE - head /\ chars <= Len(buf[t])
        /\ chars <= Room
    <3>1. chars \in Nat /\ chars \in {PAGE_SIZE - head, Len(buf[t]), Room}
          /\ chars <= PAGE_SIZE - head /\ chars <= Len(buf[t]) /\ chars <= Room
      BY <2>2, <2>3, ChunkSize
    <3> HIDE DEF chars
    <3> QED
      BY <2>2, <2>3, <3>1
  <2> HIDE DEF chars
  <2>5. CASE Fault(t, "wcopy", head, chars)
    BY <1>1, <2>4, <2>5, FaultCopies, CopyStep
  <2>6. CASE /\ page' = Put(head, piece) /\ buf' = [buf EXCEPT ![t] = more]
             /\ UNCHANGED <<pc, copy, cpu>>
    <3>1. piece \in Seq(Nat) /\ Len(piece) = chars
      BY <2>2, <2>4, Pieces
    <3>2. InRing' = InRing \o piece
      <4> HIDE DEF piece, more
      <4> QED
        BY <1>1, <2>1, <2>4, <2>6, <3>1, RingPut
    <3>3. i_count # 0
      BY <1>1, CallerOpen
    <3>4. StreamOf = InRing /\ StreamOf' = InRing'
      BY <1>1, <3>3 DEF StreamOf
    <3>5. TodoOf[t] = buf[t]
      BY <1>1 DEF TodoOf
    <3>6. TodoOf' = [TodoOf EXCEPT ![t] = more]
      <4> HIDE DEF piece, more
      <4> QED
        BY <1>1, <1>2, <2>6 DEF TodoOf
    <3>7. GotOf' = GotOf
      <4> HIDE DEF piece, more
      <4> QED
        BY <1>1, <1>2, <2>6 DEF GotOf
    <3>8. chars \in 1 .. Len(TodoOf[t]) /\ chars <= Len(TodoOf[t])
      BY <2>2, <2>4, <3>5
    <3>9. StreamOf' = StreamOf \o SubSeq(TodoOf[t], 1, chars)
      BY <3>2, <3>4, <3>5
    <3>10. TodoOf' = [TodoOf EXCEPT ![t] = SubSeq(TodoOf[t], chars + 1, Len(TodoOf[t]))]
      BY <3>5, <3>6
    <3> QED
      BY ONLY <3>7, <3>8, <3>9, <3>10, StreamPuts, t \in Tasks
  <2> QED
    BY <2>1, <2>5, <2>6
<1> QED
  BY <1>3, <1>4, <1>5 DEF write_pipe

LEMMA CallMaps ==
  ASSUME PipeIInv, PipeIInv', NEW t \in Tasks, Call(t)
  PROVE  StreamStep
<1>1. CASE sys_pipe(t)
  BY <1>1, PipeMaps
<1>2. CASE Exit(t)
  BY <1>2, ReferMaps DEF Exit
<1>3. CASE Fork(t)
  <2> DEFINE u == CHOOSE v \in Tasks : v \notin live
  <2>1. u \in Tasks
    <3>1. \E v \in Tasks : v \notin live
      BY <1>3 DEF Fork, PipeIInv, PipeTypeOK
    <3> QED
      BY <3>1
  <2>2. Refer(u, filp[t])
    BY <1>3 DEF Fork
  <2> HIDE DEF u
  <2> QED
    BY <2>1, <2>2, ReferMaps
<1>4. ASSUME NEW f \in Files, NEW g \in Files, sys_close(t, f) \/ dupfd(t, f) \/ sys_dup2(t, f, g)
      PROVE  StreamStep
  BY <1>4, ReferMaps DEF sys_close, dupfd, sys_dup2
<1>5. ASSUME NEW f \in Files, NEW n \in Counts, sys_read(t, f, n)
      PROVE  StreamStep
  BY <1>5, ReadCallMaps
<1>6. ASSUME NEW f \in Files, NEW m \in Messages, sys_write(t, f, m)
      PROVE  StreamStep
  BY <1>6, WriteCallMaps
<1> QED
  BY <1>1, <1>2, <1>3, <1>4, <1>5, <1>6 DEF Call

LEMMA WorkMaps ==
  ASSUME PipeIInv, PipeIInv', CopyIdle, NEW t \in Tasks, Work(t)
  PROVE  StreamStep
<1>1. CASE CopyAfterFault(t)
  BY <1>1, CopyCopies, CopyStep
<1>2. CASE Resume(t)
  BY <1>2, SameStream, SameCalls, StreamStutters DEF Resume, ringVars, callVars
<1> QED
  BY <1>1, <1>2, ReadMaps, WriteMaps DEF Work

(* What is read is what was written, in order, nothing lost and nothing    *)
(* twice, for any number of readers and writers, any messages and any size *)
(* of the page, across the wrap of the ring, closes and sleeps; the copies *)
(* that meet a page fault are excepted.                                    *)
THEOREM PipeIsStream == PipeSpec => ImplementsStream
<1>1. PipeInit => Stream!StreamInit
  BY DEF PipeInit, Stream!StreamInit
<1>2. PipeInit => CopyIdle
  BY DEF PipeInit, CopyIdle
<1>3. PipeIInv /\ CopyIdle /\ [PipeNext]_pipeVars => CopyIdle'
  <2> SUFFICES ASSUME PipeIInv, CopyIdle, [PipeNext]_pipeVars PROVE CopyIdle'
    OBVIOUS
  <2>1. CASE UNCHANGED pipeVars
    BY <2>1 DEF pipeVars, callVars, CopyIdle
  <2>2. ASSUME NEW t \in Tasks, Call(t) \/ Work(t) PROVE CopyIdle'
    BY <2>2, CallIdle, WorkIdle
  <2> QED
    BY <2>1, <2>2 DEF PipeNext
<1>4. PipeIInv /\ PipeIInv' /\ CopyIdle /\ [PipeNext]_pipeVars
        => [Stream!StreamNext \/ copy' # copy]_(Stream!streamVars)
  <2> SUFFICES ASSUME PipeIInv, PipeIInv', CopyIdle, [PipeNext]_pipeVars PROVE StreamStep
    BY DEF StreamStep
  <2>1. CASE UNCHANGED pipeVars
    BY <2>1, SameStream, SameCalls, StreamStutters DEF pipeVars, callVars, ringVars
  <2>2. ASSUME NEW t \in Tasks, Call(t) \/ Work(t) PROVE StreamStep
    BY <2>2, CallMaps, WorkMaps
  <2> QED
    BY <2>1, <2>2 DEF PipeNext
<1> QED
  BY <1>1, <1>2, <1>3, <1>4, PipeInvHolds, PTL DEF PipeSpec, ImplementsStream

----------------------------------------------------------------------------
(* The queue of a pipe.  wake_up() and then sleep_on() of it in one step:  *)
(* the sleepers of before are woken, the task alone is in the queue.       *)
LEMMA WakeAndSleepKeepsIInv ==
  ASSUME WaitIInv, NEW t \in Tasks, on[t] = NoQueue, WakeAndSleep(t)
  PROVE  WaitIInv'
<1> USE WaitAssumption DEF WaitIInv, Asleep
<1> DEFINE p == i_wait
           x == wait[p]
<1>1. /\ tmp' = [tmp EXCEPT ![t] = NoTask] /\ wait' = [wait EXCEPT ![p] = t]
      /\ on' = [on EXCEPT ![t] = p] /\ p \in Queues
      /\ state' = [[s \in Tasks |-> IF s \in {x} THEN "running" ELSE state[s]]
                     EXCEPT ![t] = "uninterruptible"]
  BY PipeFinite DEF WakeAndSleep, Awaken
<1>2. ~Asleep(t)
  BY DEF SleepersQueued
<1>3. /\ \A q \in Queues : wait[q] # t
      /\ \A s \in Tasks : tmp[s] # t
  BY <1>2 DEF NoStalePointer, WaitTypeOK
<1>4. /\ \A q \in Queues \ {p} : wait[q] # NoTask => wait[q] # x
      /\ \A s \in Tasks : tmp[s] # NoTask => tmp[s] # x
  BY <1>1 DEF NoStalePointer, OnePointer, WaitTypeOK
<1> HIDE DEF p, x
<1>5. WaitTypeOK'
  BY <1>1 DEF WaitTypeOK
<1>6. \A s \in Tasks : s # t => (Asleep(s)' <=> Asleep(s) /\ s # x) /\ on'[s] = on[s]
                                /\ tmp'[s] = tmp[s]
  BY <1>1 DEF WaitTypeOK
<1>7. Asleep(t)' /\ on'[t] = p /\ tmp'[t] = NoTask /\ wait'[p] = t
      /\ \A q \in Queues \ {p} : wait'[q] = wait[q]
  BY <1>1 DEF WaitTypeOK
<1>8. SleepersQueued'
  BY <1>1, <1>6, <1>7 DEF SleepersQueued
<1>9. NoOrphan'
  <2> SUFFICES ASSUME NEW y \in Tasks, Asleep(y)'
               PROVE  \/ wait'[on'[y]] = y
                      \/ \E s \in Tasks : on'[s] = on'[y] /\ tmp'[s] = y
    BY DEF NoOrphan
  <2>1. CASE y = t
    BY <1>7, <2>1
  <2>2. CASE y # t
    <3>1. Asleep(y) /\ y # x /\ on'[y] = on[y] /\ on[y] \in Queues
      BY <1>6, <2>2 DEF SleepersQueued, WaitTypeOK
    <3>2. CASE wait[on[y]] = y
      BY <1>7, <3>1, <3>2 DEF x
    <3>3. CASE wait[on[y]] # y
      <4>1. PICK s \in Tasks : on[s] = on[y] /\ tmp[s] = y
        BY <3>1, <3>3 DEF NoOrphan
      <4>2. s # t
        BY <3>1, <4>1
      <4> QED
        BY <1>6, <3>1, <4>1, <4>2
    <3> QED
      BY <3>2, <3>3
  <2> QED
    BY <2>1, <2>2
<1>10. NoStalePointer'
  <2>1. ASSUME NEW q \in Queues, wait'[q] # NoTask
        PROVE  state'[wait'[q]] = "uninterruptible" /\ on'[wait'[q]] = q
    <3>1. CASE q = p
      BY <1>7, <3>1
    <3>2. CASE q # p
      <4>1. wait'[q] = wait[q] /\ wait[q] # x /\ wait[q] # t /\ wait[q] \in Tasks
        BY <1>3, <1>4, <1>7, <2>1, <3>2 DEF WaitTypeOK
      <4>2. Asleep(wait[q]) /\ on[wait[q]] = q
        BY <2>1, <4>1 DEF NoStalePointer
      <4> QED
        BY <1>1, <1>6, <4>1, <4>2 DEF WaitTypeOK
    <3> QED
      BY <3>1, <3>2
  <2>2. ASSUME NEW s \in Tasks, tmp'[s] # NoTask
        PROVE  on'[s] # NoQueue /\ state'[tmp'[s]] = "uninterruptible" /\ on'[tmp'[s]] = on'[s]
    <3>1. s # t /\ tmp'[s] = tmp[s] /\ on'[s] = on[s]
      BY <1>6, <1>7, <2>2
    <3>2. tmp[s] \in Tasks /\ tmp[s] # t /\ tmp[s] # x
      BY <1>3, <1>4, <2>2, <3>1 DEF WaitTypeOK
    <3>3. on[s] # NoQueue /\ Asleep(tmp[s]) /\ on[tmp[s]] = on[s]
      BY <2>2, <3>1 DEF NoStalePointer
    <3> QED
      BY <1>1, <1>6, <3>1, <3>2, <3>3 DEF WaitTypeOK
  <2> QED
    BY <2>1, <2>2 DEF NoStalePointer
<1>11. OnePointer'
  <2>1. ASSUME NEW q \in Queues, NEW s \in Tasks, wait'[q] # NoTask
        PROVE  tmp'[s] # wait'[q]
    BY <1>3, <1>6, <1>7, <2>1 DEF OnePointer
  <2>2. ASSUME NEW r \in Tasks, NEW s \in Tasks, tmp'[r] # NoTask, tmp'[r] = tmp'[s]
        PROVE  r = s
    BY <1>6, <1>7, <2>2 DEF OnePointer
  <2> QED
    BY <2>1, <2>2 DEF OnePointer
<1> QED
  BY <1>5, <1>8, <1>9, <1>10, <1>11

LEMMA SameWaitKeepsIInv == ASSUME WaitIInv, UNCHANGED waitVars PROVE WaitIInv'
BY DEF waitVars, WaitIInv, WaitTypeOK, SleepersQueued, NoOrphan, NoStalePointer, OnePointer, Asleep

LEMMA ReferKeepsIInv == ASSUME WaitIInv, NEW t, NEW new, Refer(t, new) PROVE WaitIInv'
BY SameWaitKeepsIInv, WakeKeepsIInv, PipeFinite DEF Refer, iput_pipe

(* Readers and writers of a pipe use its queue as WaitQueue describes it.  *)
LEMMA PipeKeepsIInv == WaitIInv /\ [PipeNext]_pipeVars => WaitIInv'
<1> SUFFICES ASSUME WaitIInv, [PipeNext]_pipeVars PROVE WaitIInv'
  OBVIOUS
<1>1. CASE UNCHANGED pipeVars
  BY <1>1, SameWaitKeepsIInv DEF pipeVars
<1>2. ASSUME NEW t \in Tasks, Call(t) PROVE WaitIInv'
  <2>1. ASSUME NEW f, NEW g, NEW n,
               sys_read(t, f, n) \/ sys_write(t, f, n) \/ sys_pipe(t)
        PROVE  WaitIInv'
    BY <2>1, SameWaitKeepsIInv DEF sys_read, sys_write, sys_pipe
  <2>2. ASSUME NEW f, NEW g,
               \/ sys_close(t, f) \/ dupfd(t, f) \/ sys_dup2(t, f, g)
               \/ Exit(t) \/ Fork(t)
        PROVE  WaitIInv'
    BY <2>2, ReferKeepsIInv DEF sys_close, dupfd, sys_dup2, Exit, Fork
  <2> QED
    BY <1>2, <2>1, <2>2 DEF Call
<1>3. ASSUME NEW t \in Tasks, Work(t) PROVE WaitIInv'
  <2>1. CASE EndPipeCall(t)
    BY <2>1, WakeKeepsIInv, PipeFinite DEF EndPipeCall
  <2>2. CASE WakeAndSleep(t) /\ on[t] = NoQueue
    BY <2>2, WakeAndSleepKeepsIInv
  <2>3. CASE UNCHANGED waitVars
    BY <2>3, SameWaitKeepsIInv
  <2>4. CASE Resume(t)
    BY <2>4, ReturnKeepsIInv DEF Resume
  <2> QED
    BY <1>3, <2>1, <2>2, <2>3, <2>4 DEF Work, read_pipe, write_pipe, CopyAfterFault
<1> QED
  BY <1>1, <1>2, <1>3 DEF PipeNext

(* Every reader or writer that sleeps in a pipe can be reached from the    *)
(* one word i_wait, and nothing there points to a task that has moved on.  *)
THEOREM PipeWaits == PipeSpec => [](NoOrphan /\ NoStalePointer)
<1>1. PipeInit => WaitIInv
  BY InitWaitIInv DEF PipeInit
<1>2. WaitIInv => NoOrphan /\ NoStalePointer
  BY DEF WaitIInv
<1> QED
  BY <1>1, <1>2, PipeKeepsIInv, PTL DEF PipeSpec
=============================================================================
