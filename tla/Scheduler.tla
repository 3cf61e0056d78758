------------------------------ MODULE Scheduler ------------------------------
(***************************************************************************)
(* schedule() and the time slices (kernel/sched.c), with alarms, pause and *)
(* nice, and the wait queues under them: tasks sleep and are woken by the  *)
(* operators of WaitQueue, and it is schedule() that decides when a woken  *)
(* sleeper comes to wake the one behind it.                                *)
(*                                                                         *)
(* The kernel is not preemptible: a tick in kernel mode only counts down,  *)
(* and a call that comes back with its slice used up reschedules           *)
(* (kernel/system_call.s).  Time is kept relative to jiffies: alarm[i] is  *)
(* the number of ticks left, -1 when the time has passed.                  *)
(***************************************************************************)
EXTENDS WaitQueue, Integers, FiniteSets, FiniteSetsExt

CONSTANTS Priorities,   \* priorities nice() gives
          Seconds,      \* arguments of alarm(); HZ is one tick here
          NoAlarm

ASSUME SchedulerAssumption ==
  /\ Tasks \subseteq Nat \ {0}      \* the slots of task[] in use
  /\ Priorities \subseteq Nat \ {0} /\ Priorities # {}
  /\ Seconds \subseteq Nat
  /\ NoAlarm \notin Int

Slots == Tasks \cup {0}        \* task 0 is the idle task

VARIABLES counter, priority, alarm,
          signal,     \* SIGALRM is pending
          mode,       \* user, kernel, or sleep: about to call schedule()
          current

schedVars == <<counter, priority, alarm, signal, mode, current, waitVars>>

(***************************************************************************)
(* schedule(): alarms and signals first, then the runnable task with the   *)
(* largest counter, the last slot among equals; when all slices are used   *)
(* up every task, sleeping or not, gets a new one.                         *)
(***************************************************************************)
Expired(a, i) == a[i] # NoAlarm /\ a[i] < 0

(* Mutant: a signal wakes only who does not sleep. *)
Awake_running(a) == {i \in Tasks : Running(i)}

Awake(a) ==
  {i \in Tasks : \/ Running(i)
                 \/ state[i] = "interruptible" /\ (signal[i] \/ Expired(a, i))}

(* Mutant: the last runnable slot, whatever its counter. *)
Largest_last(c, S) == Max(S)

Largest(c, S) == LET m == Max({c[i] : i \in S}) IN Max({i \in S : c[i] = m})

NewSlices(c) == [i \in Slots |-> IF i = 0 THEN c[i] ELSE (c[i] \div 2) + priority[i]]

schedule(c, a) ==
  LET awake == Awake(a)
      slices == IF awake # {} /\ \A i \in awake : c[i] = 0 THEN NewSlices(c) ELSE c
  IN /\ signal' = [i \in Tasks |-> signal[i] \/ Expired(a, i)]
     /\ alarm' = [i \in Tasks |-> IF Expired(a, i) THEN NoAlarm ELSE a[i]]
     /\ state' = [i \in Tasks |-> IF i \in awake THEN "running" ELSE state[i]]
     /\ counter' = slices
     /\ current' = IF awake = {} THEN 0 ELSE Largest(slices, awake)

(***************************************************************************)
(* The timer interrupt and do_timer(): it takes the cpu away in user mode  *)
(* only.                                                                   *)
(***************************************************************************)
Elapse(a) == [i \in Tasks |-> IF a[i] = NoAlarm \/ a[i] < 0 THEN a[i] ELSE a[i] - 1]

do_timer ==
  LET left == [counter EXCEPT ![current] = IF @ > 1 THEN @ - 1 ELSE 0]
  IN /\ IF left[current] = 0 /\ mode[current] = "user"
        THEN schedule(left, Elapse(alarm))
        ELSE /\ counter' = left
             /\ alarm' = Elapse(alarm)
             /\ UNCHANGED <<state, signal, current>>
     /\ UNCHANGED <<priority, mode, wait, on, tmp>>

(***************************************************************************)
(* System calls.  The end of a call looks at the time slice.               *)
(***************************************************************************)
InMode(i, m) == current = i /\ i \in Tasks /\ mode[i] = m

EndCall(i, a) ==
  /\ mode' = [mode EXCEPT ![i] = "user"]
  /\ IF counter[i] = 0 THEN schedule(counter, a)
     ELSE alarm' = a /\ UNCHANGED <<state, counter, signal, current>>
  /\ UNCHANGED <<wait, on, tmp>>

EnterKernel(i) ==
  /\ InMode(i, "user")
  /\ mode' = [mode EXCEPT ![i] = "kernel"]
  /\ UNCHANGED <<counter, priority, alarm, signal, current, waitVars>>

LeaveKernel(i) ==
  /\ InMode(i, "kernel") /\ on[i] = NoQueue
  /\ EndCall(i, alarm)
  /\ UNCHANGED priority

(* sys_pause() and sleep_on(): an interrupt may come before schedule().    *)
sys_pause(i) ==
  /\ InMode(i, "kernel") /\ on[i] = NoQueue
  /\ state' = [state EXCEPT ![i] = "interruptible"]
  /\ mode' = [mode EXCEPT ![i] = "sleep"]
  /\ UNCHANGED <<counter, priority, alarm, signal, current, wait, on, tmp>>

SleepOn(i, p) ==
  /\ InMode(i, "kernel") /\ on[i] = NoQueue
  /\ sleep_on(i, p)
  /\ mode' = [mode EXCEPT ![i] = "sleep"]
  /\ UNCHANGED <<counter, priority, alarm, signal, current>>

GiveUpCpu(i) ==
  /\ InMode(i, "sleep")
  /\ mode' = [mode EXCEPT ![i] = "kernel"]
  /\ schedule(counter, alarm)
  /\ UNCHANGED <<priority, wait, on, tmp>>

SleepReturn(i) ==
  /\ InMode(i, "kernel")
  /\ sleep_return(i)
  /\ UNCHANGED <<counter, priority, alarm, signal, mode, current>>

(* A device answers. *)
WakeUp(p) ==
  /\ wait[p] # NoTask
  /\ wake_up({p})
  /\ UNCHANGED <<counter, priority, alarm, signal, mode, current>>

sys_alarm(i, seconds) ==
  /\ InMode(i, "user")
  /\ EndCall(i, [alarm EXCEPT ![i] = IF seconds > 0 THEN seconds ELSE NoAlarm])
  /\ UNCHANGED priority

(* sys_nice(): an increment that would make the priority zero or less is   *)
(* ignored.                                                                *)
sys_nice(i, new) ==
  /\ InMode(i, "user")
  /\ priority' = [priority EXCEPT ![i] = IF new > 0 THEN new ELSE @]
  /\ EndCall(i, alarm)

(* ret_from_sys_call: the handler of SIGALRM runs. *)
TakeSignal(i) ==
  /\ InMode(i, "user") /\ signal[i]
  /\ signal' = [signal EXCEPT ![i] = FALSE]
  /\ UNCHANGED <<counter, priority, alarm, mode, current, waitVars>>

(* Task 0 calls pause() for ever; its state is never used. *)
Idle ==
  /\ current = 0
  /\ schedule(counter, alarm)
  /\ UNCHANGED <<priority, mode, wait, on, tmp>>

SchedInit ==
  /\ WaitInit
  /\ priority \in {[i \in Tasks |-> p] : p \in Priorities}
  /\ counter = [i \in Slots |-> IF i = 0 THEN 0 ELSE priority[i]]
  /\ alarm = [i \in Tasks |-> NoAlarm]
  /\ signal = [i \in Tasks |-> FALSE]
  /\ mode = [i \in Slots |-> "user"]
  /\ current = 0

SchedNext ==
  \/ do_timer \/ Idle
  \/ \E p \in Queues : WakeUp(p)
  \/ \E i \in Tasks :
       \/ EnterKernel(i) \/ LeaveKernel(i) \/ TakeSignal(i)
       \/ sys_pause(i) \/ GiveUpCpu(i) \/ SleepReturn(i)
       \/ \E p \in Queues : SleepOn(i, p)
       \/ \E seconds \in Seconds : sys_alarm(i, seconds)
       \/ \E new \in Priorities \cup {0} : sys_nice(i, new)

(* The clock ticks, and a call comes to its end or sleeps. *)
SchedFairness ==
  /\ WF_schedVars(do_timer)
  /\ WF_schedVars(\E i \in Tasks : LeaveKernel(i) \/ GiveUpCpu(i) \/ SleepReturn(i))

SchedSpec == SchedInit /\ [][SchedNext]_schedVars
SchedFairSpec == SchedSpec /\ SchedFairness

-----------------------------------------------------------------------------
(* "This is GOOD CODE!": no runnable task is passed over for ever, however *)
(* others sleep, wake and change their priorities.                         *)
EveryoneRuns ==
  \A i \in Tasks : Running(i) ~> (current = i \/ ~Running(i))

(* pause() after alarm() ends, whatever the other tasks do.                *)
AlarmWakes ==
  \A i \in Tasks : (state[i] = "interruptible" /\ alarm[i] # NoAlarm) ~> Running(i)
=============================================================================
