------------------------------- MODULE Process -------------------------------
(***************************************************************************)
(* The life of a process: fork, exit, waitpid, signals, process groups and *)
(* sessions (kernel/fork.c, exit.c, signal.c, sys.c, the return path of    *)
(* kernel/system_call.s).                                                  *)
(*                                                                         *)
(* One task is in the kernel at a time and keeps the cpu until it calls    *)
(* schedule(); `at' says where a task stands.  Which runnable task         *)
(* schedule() takes is left open here (module Scheduler decides it), and   *)
(* so is which signals the user ids of sender and receiver let through.    *)
(* Programs leave init alone: nobody sends it a signal that kills it.      *)
(***************************************************************************)
EXTENDS Integers, FiniteSets, FiniteSetsExt

CONSTANTS NR_TASKS,   \* slots of task[]
          MaxPid,     \* the largest pid: ++last_pid overflows after it
          Sent,       \* signals programs send
          Handlers,   \* what programs pass to signal()
          Masks,      \* masks programs pass to ssetmask()
          Changers,   \* pids of the programs that change masks, handlers and groups
          MaxSignals, \* bound: calls of kill()
          MaxChanges, \* bound: calls that change masks, handlers and groups
          NoTask      \* an empty slot

SIGHUP  == 1
SIGKILL == 9
SIGCHLD == 17
Signals == {SIGHUP, SIGKILL, SIGCHLD}
_BLOCKABLE == Signals \ {SIGKILL}

ASSUME ProcessAssumption ==
  /\ NR_TASKS \in Nat /\ NR_TASKS > 1
  /\ MaxPid \in Nat /\ MaxPid >= NR_TASKS
  /\ Sent \subseteq Signals
  /\ Handlers \subseteq {"SIG_IGN", "function"}
  /\ Masks \subseteq SUBSET Signals
  /\ MaxSignals \in Nat /\ MaxChanges \in Nat

Slots == 0 .. NR_TASKS - 1
Pids  == 0 .. MaxPid

VARIABLES task,      \* task[]: the task_structs
          current,   \* the slot of the running task
          last_pid,
          signals,   \* calls of kill() so far
          changes    \* calls that changed masks, handlers or groups so far

procVars == <<task, current, last_pid, signals, changes>>

Live(T)   == {i \in Slots : T[i] # NoTask}
Zombie(i) == task[i] # NoTask /\ task[i].state = "ZOMBIE"

(***************************************************************************)
(* schedule(): tasks that sleep interruptibly and have a signal are woken, *)
(* then a runnable task runs, or the idle task 0.                          *)
(***************************************************************************)
Signalled(t) == t.signal \ (_BLOCKABLE \cap t.blocked) # {}

Woken(T) ==
  [i \in Slots |->
     IF i \in Live(T) \ {0} /\ T[i].state = "INTERRUPTIBLE" /\ Signalled(T[i])
     THEN [T[i] EXCEPT !.state = "RUNNING"] ELSE T[i]]

Runnable(T) == {i \in Live(T) \ {0} : T[i].state = "RUNNING"}

schedule(T) ==
  /\ task' = Woken(T)
  /\ current' \in IF Runnable(Woken(T)) = {} THEN {0} ELSE Runnable(Woken(T))

(* The call ends without schedule(). *)
Continue(T) == task' = T /\ UNCHANGED current

(* The task that calls is in user mode and not the idle task. *)
InUser(i)   == current = i /\ i # 0 /\ task[i].at = "user"
InKernel(i, where) == current = i /\ i # 0 /\ task[i].at = where
Returns(T, i) == [T EXCEPT ![i].at = "ret"]

(***************************************************************************)
(* send_sig() to each slot of a set.                                       *)
(***************************************************************************)
SendTo(T, S, sig) ==
  [i \in Slots |-> IF i \in S \cap Live(T) THEN [T[i] EXCEPT !.signal = @ \cup {sig}]
                   ELSE T[i]]

(* sys_kill(): the slots the argument names. *)
KillTargets(i, pid) ==
  {j \in Live(task) \ {0} :
     \/ pid = 0 /\ task[j].pgrp = task[i].pid
     \/ pid > 0 /\ task[j].pid = pid
     \/ pid = -1
     \/ pid < -1 /\ task[j].pgrp = -pid}

sys_kill(i, pid, sig) ==
  /\ InUser(i)
  /\ signals < MaxSignals
  /\ signals' = signals + 1
  /\ \E S \in SUBSET KillTargets(i, pid) :
       /\ pid = 0 => S = KillTargets(i, pid)
       /\ 1 \notin S
       /\ Continue(Returns(SendTo(task, S, sig), i))
  /\ UNCHANGED <<last_pid, changes>>

(***************************************************************************)
(* fork(): find_empty_process() and copy_process().                        *)
(***************************************************************************)
PidAfter(p, k) == ((p + k - 1) % MaxPid) + 1

(* Mutant: the next pid, in use or not. *)
find_pid_next == PidAfter(last_pid, 1)

find_pid ==
  LET used == {task[i].pid : i \in Live(task)}
      k == Min({n \in 1 .. MaxPid : PidAfter(last_pid, n) \notin used})
  IN PidAfter(last_pid, k)

FreeSlots == {i \in Slots \ {0} : task[i] = NoTask}

copy_process(i) ==
  [task[i] EXCEPT !.pid = find_pid, !.father = task[i].pid, !.signal = {},
                  !.leader = FALSE, !.state = "RUNNING", !.at = "user"]

(* Memory may run out in get_free_page() or in copy_mem(). *)
sys_fork(i, memory) ==
  /\ InUser(i)
  /\ last_pid' = find_pid
  /\ IF FreeSlots # {} /\ memory
     THEN Continue(Returns([task EXCEPT ![Min(FreeSlots)] = copy_process(i)], i))
     ELSE Continue(Returns(task, i))
  /\ UNCHANGED <<signals, changes>>

(***************************************************************************)
(* do_exit(), in two parts: closing the files and inodes may sleep.        *)
(***************************************************************************)
Orphans(T, i) == {j \in Live(T) : T[j].father = T[i].pid}

(* Mutant: init adopts only the children that are still alive. *)
Reparent_living(T, i) ==
  [j \in Slots |-> IF j \in Orphans(T, i) /\ T[j].state # "ZOMBIE"
                   THEN [T[j] EXCEPT !.father = 1] ELSE T[j]]

(* Mutant: init is not told of the zombies it adopts. *)
Reparent_silently(T, i) ==
  [j \in Slots |-> IF j \in Orphans(T, i) THEN [T[j] EXCEPT !.father = 1] ELSE T[j]]

Reparent(T, i) ==
  LET adopted == [j \in Slots |-> IF j \in Orphans(T, i) THEN [T[j] EXCEPT !.father = 1]
                                  ELSE T[j]]
  IN IF \E j \in Orphans(T, i) : T[j].state = "ZOMBIE"
     THEN SendTo(adopted, {1}, SIGCHLD) ELSE adopted

do_exit(T, i) ==
  \/ Continue([Reparent(T, i) EXCEPT ![i].at = "exit"])
  \/ schedule([Reparent(T, i) EXCEPT ![i].at = "exit", ![i].state = "UNINTERRUPTIBLE"])

kill_session(T, i) ==
  IF T[i].leader THEN SendTo(T, {j \in Live(T) \ {0} : T[j].session = T[i].session}, SIGHUP)
  ELSE T

tell_father(T, i) ==
  LET fathers == {j \in Live(T) : T[j].pid = T[i].father}
  IN IF T[i].father # 0 /\ fathers # {} THEN SendTo(T, {Min(fathers)}, SIGCHLD)
     ELSE [T EXCEPT ![i] = NoTask]

sys_exit(i) ==
  /\ InUser(i)
  /\ do_exit(task, i)
  /\ UNCHANGED <<last_pid, signals, changes>>

ExitFinish(i) ==
  /\ InKernel(i, "exit")
  /\ schedule(tell_father([kill_session(task, i) EXCEPT ![i].state = "ZOMBIE",
                                                        ![i].at = "gone"], i))
  /\ UNCHANGED <<last_pid, signals, changes>>

(***************************************************************************)
(* sys_waitpid(): the loop over the children, entered again after a sleep. *)
(***************************************************************************)
Awaited(T, i, pid) ==
  {j \in Live(T) \ {0, i} :
     /\ T[j].father = T[i].pid
     /\ \/ pid > 0 /\ T[j].pid = pid
        \/ pid = 0 /\ T[j].pgrp = T[i].pgrp
        \/ pid = -1
        \/ pid < -1 /\ T[j].pgrp = -pid}

Collect(T, i, pid, nohang) ==
  LET children == Awaited(T, i, pid)
      zombies == {j \in children : T[j].state = "ZOMBIE"}
  IN IF zombies # {} THEN schedule([Returns(T, i) EXCEPT ![Max(zombies)] = NoTask])
     ELSE IF children # {} /\ ~nohang
     THEN schedule([T EXCEPT ![i].state = "INTERRUPTIBLE", ![i].at = "waitpid",
                             ![i].want = pid])
     ELSE Continue(Returns(T, i))

sys_waitpid(i, pid, nohang) ==
  /\ InUser(i)
  /\ Collect(task, i, pid, nohang)
  /\ UNCHANGED <<last_pid, signals, changes>>

WaitpidAgain(i) ==
  /\ InKernel(i, "waitpid")
  /\ LET T == [task EXCEPT ![i].signal = @ \ {SIGCHLD}, ![i].want = 0]
     IN IF T[i].signal = {} THEN Collect(T, i, task[i].want, FALSE)
        ELSE Continue(Returns(T, i))
  /\ UNCHANGED <<last_pid, signals, changes>>

(***************************************************************************)
(* The other calls.                                                        *)
(***************************************************************************)
sys_pause(i) ==
  /\ InUser(i)
  /\ schedule([task EXCEPT ![i].state = "INTERRUPTIBLE", ![i].at = "ret"])
  /\ UNCHANGED <<last_pid, signals, changes>>

(* What do_exit() waits for has happened. *)
WakeUp(i) ==
  /\ task[i] # NoTask /\ task[i].state = "UNINTERRUPTIBLE"
  /\ task' = [task EXCEPT ![i].state = "RUNNING"]
  /\ UNCHANGED <<current, last_pid, signals, changes>>

Changes(i) ==
  /\ InUser(i)
  /\ task[i].pid \in Changers
  /\ changes < MaxChanges
  /\ changes' = changes + 1
  /\ UNCHANGED <<last_pid, signals>>

sys_ssetmask(i, mask) ==
  /\ Changes(i)
  /\ Continue([Returns(task, i) EXCEPT ![i].blocked = mask \ {SIGKILL}])

(* sys_signal(): the handler is for one signal, without a mask.            *)
sys_signal(i, handler) ==
  /\ Changes(i)
  /\ Continue([Returns(task, i) EXCEPT ![i].handler = handler])

(* For a leader the refusal and the call have the same effect.             *)
sys_setsid(i) ==
  /\ Changes(i)
  /\ Continue([Returns(task, i) EXCEPT ![i].leader = TRUE, ![i].session = task[i].pid,
                                       ![i].pgrp = task[i].pid])

(* A shell puts itself or a child into a group of its own. *)
sys_setpgid(i, j, pgid) ==
  /\ Changes(i)
  /\ j = i \/ j \in Awaited(task, i, -1)
  /\ IF ~task[j].leader /\ task[j].session = task[i].session
     THEN Continue([Returns(task, i) EXCEPT ![j].pgrp = pgid])
     ELSE Continue(Returns(task, i))

(***************************************************************************)
(* ret_from_sys_call: one signal is delivered, the lowest.                 *)
(***************************************************************************)
do_signal(T, i, sig) ==
  LET handler == IF sig = SIGHUP THEN T[i].handler ELSE "SIG_DFL"
  IN IF handler = "SIG_DFL" /\ sig # SIGCHLD THEN do_exit(T, i)
     ELSE Continue([T EXCEPT ![i].at = "user",
                             ![i].handler = IF handler = "function" /\ sig = SIGHUP
                                            THEN "SIG_DFL" ELSE @])

ret_from_sys_call(i) ==
  /\ InKernel(i, "ret") \/ InKernel(i, "signals")
  /\ LET pending == task[i].signal \ task[i].blocked
     IN IF pending = {} THEN Continue([task EXCEPT ![i].at = "user"])
        ELSE do_signal([task EXCEPT ![i].signal = @ \ {Min(pending)}], i, Min(pending))
  /\ UNCHANGED <<last_pid, signals, changes>>

(* The time slice is used up: in user mode, or at the end of a call.       *)
(* When the task is back it goes on to its signals.                        *)
reschedule(i) ==
  /\ InUser(i) \/ InKernel(i, "ret")
  /\ schedule([task EXCEPT ![i].at = "signals"])
  /\ UNCHANGED <<last_pid, signals, changes>>

(* The idle task calls pause() for ever. *)
Idle ==
  /\ current = 0
  /\ schedule(task)
  /\ UNCHANGED <<last_pid, signals, changes>>

(***************************************************************************)
(* The specification.  main() has forked init.                             *)
(***************************************************************************)
Boot(pid) ==
  [pid |-> pid, father |-> 0, pgrp |-> 0, session |-> 0, leader |-> FALSE,
   state |-> "RUNNING", signal |-> {}, blocked |-> {}, handler |-> "SIG_DFL",
   at |-> "user", want |-> 0]

ProcInit ==
  /\ task = [i \in Slots |-> IF i < 2 THEN Boot(i) ELSE NoTask]
  /\ current = 1
  /\ last_pid = 1
  /\ signals = 0
  /\ changes = 0

(* Pids, groups and the special values 0 and -1 as arguments. *)
Named == {-1} \cup {task[j].pid : j \in Live(task)} \cup {-task[j].pgrp : j \in Live(task)}

(* init() forks and waits for any child. *)
InitCall ==
  /\ current = 1
  /\ \E memory \in BOOLEAN : sys_fork(1, memory) \/ sys_waitpid(1, -1, FALSE)

(* Other programs make all calls. *)
Call(i) ==
  /\ current = i
  /\ \/ sys_exit(i) \/ sys_pause(i) \/ sys_setsid(i)
     \/ \E memory \in BOOLEAN : sys_fork(i, memory)
     \/ \E pid \in Named, nohang \in BOOLEAN : sys_waitpid(i, pid, nohang)
     \/ \E pid \in Named, sig \in Sent : sys_kill(i, pid, sig)
     \/ \E mask \in Masks : sys_ssetmask(i, mask)
     \/ \E handler \in Handlers : sys_signal(i, handler)
     \/ \E j \in Live(task) : sys_setpgid(i, j, task[j].pid)

(* What a task inside the kernel does next. *)
Kernel(i) == WaitpidAgain(i) \/ ExitFinish(i) \/ ret_from_sys_call(i)

ProcNext ==
  \/ \E i \in Slots \ {0, 1} : Call(i)
  \/ \E i \in Slots : Kernel(i) \/ reschedule(i) \/ WakeUp(i)
  \/ InitCall \/ Idle

ProcSpec == ProcInit /\ [][ProcNext]_procVars
-----------------------------------------------------------------------------
(***************************************************************************)
(* Properties.                                                             *)
(***************************************************************************)
Task ==
  [pid : Pids, father : Pids, pgrp : Pids, session : Pids, leader : BOOLEAN,
   state : {"RUNNING", "INTERRUPTIBLE", "UNINTERRUPTIBLE", "ZOMBIE"},
   signal : SUBSET Signals, blocked : SUBSET _BLOCKABLE,
   handler : {"SIG_DFL", "SIG_IGN", "function"},
   at : {"user", "ret", "signals", "waitpid", "exit", "gone"}, want : -MaxPid .. MaxPid]

(* A NULL pointer is no task_struct. *)
ASSUME NoTaskAssumption == NoTask \notin Task

(* The types; the task that has the cpu can run; the idle task and init    *)
(* stay in their slots.                                                    *)
ProcTypeOK ==
  /\ task \in [Slots -> Task \cup {NoTask}]
  /\ current \in Slots
  /\ task[current] # NoTask /\ task[current].state = "RUNNING"
  /\ \A i \in {0, 1} : task[i] # NoTask /\ task[i].pid = i /\ ~Zombie(i)
  /\ last_pid \in Pids
  /\ signals \in 0 .. MaxSignals /\ changes \in 0 .. MaxChanges

(* However often last_pid wraps around, no two processes have one pid,     *)
(* and no pid is given out while a zombie has it (find_empty_process()).   *)
PidsUnique ==
  \A i, j \in Live(task) : task[i].pid = task[j].pid => i = j

(* Every process has a father that can still collect it: children are      *)
(* handed to init when the father dies, so tell_father() never has to      *)
(* release the process itself ("BAD BAD - no father found").               *)
FatherLives ==
  \A i \in Live(task) \ {0} :
    \E j \in Live(task) :
      task[j].pid = task[i].father /\ task[j].at \notin {"exit", "gone"}

(* No death is missed: when a father sleeps in waitpid() and a child it    *)
(* waits for (by pid, or any) is a zombie, SIGCHLD is pending, so that the *)
(* next schedule() wakes it, unless it has blocked the signal.             *)
DeathHeard ==
  \A i \in Live(task), j \in Slots :
    /\ task[i].at = "waitpid" /\ task[i].state = "INTERRUPTIBLE"
    /\ task[i].want = -1 \/ task[i].want > 0
    /\ j \in Awaited(task, i, task[i].want) /\ Zombie(j)
    => SIGCHLD \in task[i].signal

(* The types, and pids that name one process each.                         *)
ProcInv == ProcTypeOK /\ PidsUnique
=============================================================================
