----------------------------- MODULE WaitQueue -----------------------------
(***************************************************************************)
(* The kernel's wait queues: sleep_on() and wake_up() of kernel/sched.c.   *)
(*                                                                         *)
(* A queue is one word, a pointer to the task that went to sleep last.     *)
(* The rest of the queue is nowhere but on the kernel stacks of the        *)
(* sleepers: sleep_on() keeps the previous head in a local variable tmp    *)
(* and wakes that task itself when it runs again.                          *)
(*                                                                         *)
(*   state[t]  task_struct.state: 0 (running) or TASK_UNINTERRUPTIBLE, or  *)
(*             TASK_INTERRUPTIBLE for a task that waits outside any queue  *)
(*   wait[p]   the word *p of the queue p                                  *)
(*   on[t]     the queue of t's active call of sleep_on(), or NoQueue      *)
(*   tmp[t]    the local variable of that call                             *)
(*                                                                         *)
(* Here sleep_on() runs up to its schedule() in one step: the callers mask *)
(* interrupts (cli) or wait for something only another task can do, and a  *)
(* task in the kernel is not preempted.  The one caller for which neither  *)
(* holds, make_request(), is modelled in BufferCache.  The operators are   *)
(* used by every module whose tasks sleep.                                 *)
(***************************************************************************)
CONSTANTS Tasks,     \* every task but task[0], which may not sleep
          NoTask,    \* the NULL pointer
          Queues,    \* the wait queues
          NoQueue

ASSUME WaitAssumption ==
  /\ NoTask \notin Tasks
  /\ NoQueue \notin Queues

VARIABLES state, wait, on, tmp

waitVars == <<state, wait, on, tmp>>

Running(t) == state[t] = "running"
Asleep(t)  == state[t] = "uninterruptible"

WaitTypeOK ==
  /\ state \in [Tasks -> {"running", "interruptible", "uninterruptible"}]
  /\ wait \in [Queues -> Tasks \cup {NoTask}]
  /\ on \in [Tasks -> Queues \cup {NoQueue}]
  /\ tmp \in [Tasks -> Tasks \cup {NoTask}]

WaitInit ==
  /\ state = [t \in Tasks |-> "running"]
  /\ wait = [p \in Queues |-> NoTask]
  /\ on = [t \in Tasks |-> NoQueue]
  /\ tmp = [t \in Tasks |-> NoTask]

----------------------------------------------------------------------------
(* state with "x->state = 0" done for the tasks x of xs (NULL is skipped). *)
Awaken(xs) == [t \in Tasks |-> IF t \in xs THEN "running" ELSE state[t]]

(* Mutant: the previous head is not saved. *)
sleep_on_forgets(t, p) ==
  /\ tmp' = [tmp EXCEPT ![t] = NoTask]
  /\ wait' = [wait EXCEPT ![p] = t]
  /\ on' = [on EXCEPT ![t] = p]
  /\ state' = [state EXCEPT ![t] = "uninterruptible"]

(* The current task t runs sleep_on(p) up to the call of schedule(). *)
sleep_on(t, p) ==
  /\ tmp' = [tmp EXCEPT ![t] = wait[p]]
  /\ wait' = [wait EXCEPT ![p] = t]
  /\ on' = [on EXCEPT ![t] = p]
  /\ state' = [state EXCEPT ![t] = "uninterruptible"]

(* Mutant: the sleeper returns without waking the one it queued behind. *)
sleep_return_alone(t) ==
  /\ on[t] # NoQueue
  /\ Running(t)
  /\ on' = [on EXCEPT ![t] = NoQueue]
  /\ tmp' = [tmp EXCEPT ![t] = NoTask]
  /\ UNCHANGED <<state, wait>>

(* schedule() switches back to t, which wakes tmp and returns. *)
sleep_return(t) ==
  /\ on[t] # NoQueue
  /\ Running(t)
  /\ state' = Awaken({tmp[t]})
  /\ on' = [on EXCEPT ![t] = NoQueue]
  /\ tmp' = [tmp EXCEPT ![t] = NoTask]
  /\ UNCHANGED wait

(* Mutant: the head is woken but stays in the queue. *)
wake_up_keeps_head(ps) ==
  /\ state' = Awaken({wait[p] : p \in ps})
  /\ UNCHANGED <<wait, on, tmp>>

(* wake_up(p) for every queue p of ps, without a schedule() in between. *)
wake_up(ps) ==
  /\ state' = Awaken({wait[p] : p \in ps})
  /\ wait' = [p \in Queues |-> IF p \in ps THEN NoTask ELSE wait[p]]
  /\ UNCHANGED <<on, tmp>>

Sleep(t, p) ==
  /\ Running(t) /\ on[t] = NoQueue
  /\ sleep_on(t, p)

WaitNext ==
  \/ \E t \in Tasks, p \in Queues : Sleep(t, p)
  \/ \E t \in Tasks : sleep_return(t)
  \/ \E ps \in SUBSET Queues : wake_up(ps)

WaitSpec == WaitInit /\ [][WaitNext]_waitVars

----------------------------------------------------------------------------
(* No sleeper is lost: somebody still holds a pointer to every sleeping    *)
(* task, the queue's head or the stack frame of another sleeper of the     *)
(* same queue.  This is what makes one word per queue enough.              *)
NoOrphan ==
  \A t \in Tasks : Asleep(t) =>
    \/ wait[on[t]] = t
    \/ \E s \in Tasks : on[s] = on[t] /\ tmp[s] = t

(* No pointer is stale: whatever a head or a saved tmp points to is still  *)
(* asleep in that very queue, so "tmp->state=0" never wakes a task that    *)
(* has moved on (to another queue, or to TASK_ZOMBIE).                     *)
NoStalePointer ==
  /\ \A p \in Queues : wait[p] # NoTask => Asleep(wait[p]) /\ on[wait[p]] = p
  /\ \A s \in Tasks : tmp[s] # NoTask =>
        on[s] # NoQueue /\ Asleep(tmp[s]) /\ on[tmp[s]] = on[s]

(* Every sleeper is referred to once. *)
OnePointer ==
  /\ \A p \in Queues, s \in Tasks : wait[p] # NoTask => tmp[s] # wait[p]
  /\ \A r, s \in Tasks : tmp[r] # NoTask /\ tmp[r] = tmp[s] => r = s

(* Whoever sleeps is inside sleep_on(). *)
SleepersQueued == \A t \in Tasks : Asleep(t) => on[t] # NoQueue

(* The inductive invariant of the proofs. *)
WaitIInv ==
  WaitTypeOK /\ SleepersQueued /\ NoOrphan /\ NoStalePointer /\ OnePointer

(* One wake_up() is enough for all: a task that sleeps in a queue whose    *)
(* head has been taken is woken by the chain of returning sleepers, even   *)
(* if others queue up meanwhile.                                           *)
WakeReachesAll ==
  \A t \in Tasks, p \in Queues :
    (Asleep(t) /\ on[t] = p /\ wait[p] = NoTask) ~> Running(t)
=============================================================================
