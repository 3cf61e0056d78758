-------------------------------- MODULE Pipe --------------------------------
(***************************************************************************)
(* Pipes and the descriptors that refer to them: fs/pipe.c, the parts of   *)
(* fs/open.c, fcntl.c and read_write.c, of fork() and of iput() that       *)
(* concern a pipe.  One pipe inode exists at a time.                       *)
(*                                                                         *)
(* A task in the kernel keeps the cpu until it sleeps: in sleep_on(), or   *)
(* in a page fault in the middle of a copy.  Readers and writers sleep in  *)
(* the same queue, the inode's i_wait, with the operators of WaitQueue.    *)
(***************************************************************************)
EXTENDS WaitQueue, Integers, Sequences, FiniteSets, FiniteSetsExt

CONSTANTS PAGE_SIZE,  \* bytes of the ring, a power of two
          NR_FILE,    \* slots of file_table
          NR_OPEN,    \* descriptors of a process
          Messages,   \* what programs write: sequences of bytes
          Counts,     \* how much programs read
          Faulting    \* tasks whose buffer may not be in memory

ASSUME PipeAssumption ==
  /\ IsFiniteSet(Tasks) /\ Tasks # {} /\ Queues # {}
  /\ PAGE_SIZE \in Nat /\ PAGE_SIZE > 1
  /\ NR_FILE \in Nat /\ NR_OPEN \in Nat
  /\ Counts \subseteq Nat \ {0}
  /\ \A m \in Messages : m \in Seq(Nat) /\ m # <<>>
  /\ Faulting \subseteq Tasks

Files  == 1 .. NR_FILE
i_wait == CHOOSE p \in Queues : TRUE

VARIABLES live,       \* the processes
          filp,       \* filp[t][f]: how many descriptors of t refer to file f
          f_count, f_mode,
          i_count,    \* of the pipe inode; 0: there is no pipe
          head, tail, page,
          pc,         \* where the task is: user, read, write, rcopy, wcopy
          buf,        \* read: the bytes got so far; write: the bytes to write
          count,      \* bytes still wanted by the read
          copy,       \* <<place, chars>> of a copy that met a page fault
          cpu

fileVars == <<live, filp, f_count, f_mode>>
ringVars == <<head, tail, page>>
callVars == <<pc, buf, count, copy>>
pipeVars == <<fileVars, i_count, ringVars, callVars, cpu, waitVars>>

PIPE_SIZE == (head - tail) % PAGE_SIZE

(* t is in user mode and enters the kernel. *)
User(t) == cpu = NoTask /\ t \in live /\ pc[t] = "user"

(***************************************************************************)
(* Descriptors.                                                            *)
(***************************************************************************)
FreeFiles == {f \in Files : f_count[f] = 0}
(* The descriptors of t: <<f, k>> is the k-th one that refers to f. *)
Open(t)   == Cardinality({d \in Files \X (1 .. NR_OPEN) : d[2] <= filp[t][d[1]]})
Held(t)   == {f \in Files : filp[t][f] > 0}

(* get_free_page() clears the page. *)
Blank == [k \in 0 .. PAGE_SIZE - 1 |-> 0]

(* sys_pipe().  What fails gives back what it took: nothing changes.       *)
sys_pipe(t) ==
  /\ User(t)
  /\ Cardinality(FreeFiles) > 1 /\ Open(t) + 2 <= NR_OPEN
  /\ i_count = 0
  /\ LET r == Min(FreeFiles)
         w == Min(FreeFiles \ {r})
     IN /\ filp' = [filp EXCEPT ![t][r] = 1, ![t][w] = 1]
        /\ f_count' = [f_count EXCEPT ![r] = 1, ![w] = 1]
        /\ f_mode' = [f_mode EXCEPT ![r] = 1, ![w] = 2]
  /\ i_count' = 2
  /\ head' = 0 /\ tail' = 0 /\ page' = Blank
  /\ UNCHANGED <<live, callVars, cpu, waitVars>>

(* iput() of the pipe inode, for each file whose last descriptor goes; the *)
(* last one frees the page.                                                *)
iput_pipe(n) ==
  /\ i_count' = i_count - n
  /\ page' = IF i_count' = 0 THEN Blank ELSE page
  /\ IF n > 0 THEN wake_up({i_wait}) ELSE UNCHANGED waitVars

(* The descriptors of t become those of new, and the counts follow:       *)
(* sys_close() of what is given up, f_count++ of what is added.            *)
Refer(t, new) ==
  LET left == [f \in Files |-> f_count[f] - filp[t][f] + new[f]]
  IN /\ filp' = [filp EXCEPT ![t] = new]
     /\ f_count' = left
     /\ iput_pipe(Cardinality({f \in Files : f_count[f] > 0 /\ left[f] = 0}))
     /\ UNCHANGED <<f_mode, head, tail, callVars, cpu>>

sys_close(t, f) ==
  /\ User(t) /\ f \in Held(t)
  /\ Refer(t, [filp[t] EXCEPT ![f] = @ - 1])
  /\ UNCHANGED live

(* Mutant: the new descriptor is not counted in f_count. *)
dupfd_uncounted(t, f) ==
  /\ User(t) /\ f \in Held(t) /\ Open(t) < NR_OPEN
  /\ filp' = [filp EXCEPT ![t][f] = @ + 1]
  /\ UNCHANGED <<live, f_count, f_mode, i_count, ringVars, callVars, cpu, waitVars>>

dupfd(t, f) ==
  /\ User(t) /\ f \in Held(t) /\ Open(t) < NR_OPEN
  /\ Refer(t, [filp[t] EXCEPT ![f] = @ + 1])
  /\ UNCHANGED live

(* sys_dup2() of a descriptor of f onto one of g: that is closed first, so *)
(* that the same descriptor twice is only closed.                          *)
sys_dup2(t, f, g) ==
  /\ User(t) /\ f \in Held(t) /\ g \in Held(t)
  /\ IF f = g /\ filp[t][f] = 1 THEN Refer(t, [filp[t] EXCEPT ![g] = 0])
     ELSE IF f = g THEN Refer(t, filp[t])
     ELSE Refer(t, [filp[t] EXCEPT ![g] = @ - 1, ![f] = @ + 1])
  /\ UNCHANGED live

(* copy_process(): the child gets a free slot and shares the files. *)
Fork(t) ==
  LET u == CHOOSE v \in Tasks : v \notin live
  IN /\ User(t)
     /\ live # Tasks
     /\ live' = live \cup {u}
     /\ Refer(u, filp[t])

(* do_exit() closes every descriptor. *)
Exit(t) ==
  /\ User(t)
  /\ live' = live \ {t}
  /\ Refer(t, [f \in Files |-> 0])

(***************************************************************************)
(* read_pipe() and write_pipe(), one pass of the outer loop at a time.     *)
(***************************************************************************)
sys_read(t, f, n) ==
  /\ User(t)
  /\ f \in Held(t) /\ f_mode[f] = 1
  /\ pc' = [pc EXCEPT ![t] = "read"]
  /\ buf' = [buf EXCEPT ![t] = <<>>]
  /\ count' = [count EXCEPT ![t] = n]
  /\ cpu' = t
  /\ UNCHANGED <<fileVars, i_count, ringVars, copy, waitVars>>

sys_write(t, f, m) ==
  /\ User(t)
  /\ f \in Held(t) /\ f_mode[f] = 2
  /\ pc' = [pc EXCEPT ![t] = "write"]
  /\ buf' = [buf EXCEPT ![t] = m]
  /\ cpu' = t
  /\ UNCHANGED <<fileVars, i_count, ringVars, count, copy, waitVars>>

(* The call ends: wake_up() and back to user mode. *)
EndPipeCall(t) ==
  /\ pc' = [pc EXCEPT ![t] = "user"]
  /\ buf' = [buf EXCEPT ![t] = <<>>]
  /\ count' = [count EXCEPT ![t] = 0]
  /\ cpu' = NoTask
  /\ wake_up({i_wait})
  /\ UNCHANGED copy

(* Mutant: the task sleeps without waking the other end. *)
WakeAndSleep_silent(t) ==
  /\ sleep_on(t, i_wait)
  /\ cpu' = NoTask
  /\ UNCHANGED callVars

(* wake_up() and then sleep_on() of the same queue: the task is the only   *)
(* one in it.                                                              *)
WakeAndSleep(t) ==
  /\ tmp' = [tmp EXCEPT ![t] = NoTask]
  /\ wait' = [wait EXCEPT ![i_wait] = t]
  /\ on' = [on EXCEPT ![t] = i_wait]
  /\ state' = [Awaken({wait[i_wait]}) EXCEPT ![t] = "uninterruptible"]
  /\ cpu' = NoTask
  /\ UNCHANGED callVars

(* Mutant: the whole page may be filled. *)
Room_whole == PAGE_SIZE - PIPE_SIZE

(* One byte stays free: a full ring would look like an empty one. *)
Room == PAGE_SIZE - 1 - PIPE_SIZE

Ring(from, n) == [k \in 1 .. n |-> page[from + k - 1]]

Put(from, m) ==
  [k \in 0 .. PAGE_SIZE - 1 |-> IF k >= from /\ k < from + Len(m) THEN m[k - from + 1]
                                ELSE page[k]]

(* The copy of a chunk meets a page fault; the task sleeps elsewhere. *)
Fault(t, where, from, n) ==
  /\ t \in Faulting
  /\ pc' = [pc EXCEPT ![t] = where]
  /\ copy' = [copy EXCEPT ![t] = <<from, n>>]
  /\ cpu' = NoTask
  /\ UNCHANGED <<page, buf>>

read_pipe(t) ==
  /\ cpu = t /\ pc[t] = "read" /\ on[t] = NoQueue
  /\ IF count[t] = 0 \/ (PIPE_SIZE = 0 /\ i_count # 2)
     THEN EndPipeCall(t) /\ UNCHANGED <<tail, page>>
     ELSE IF PIPE_SIZE = 0
     THEN WakeAndSleep(t) /\ UNCHANGED <<tail, page>>
     ELSE LET chars == Min({PAGE_SIZE - tail, count[t], PIPE_SIZE})
          IN /\ count' = [count EXCEPT ![t] = @ - chars]
             /\ tail' = (tail + chars) % PAGE_SIZE
             /\ \/ /\ buf' = [buf EXCEPT ![t] = @ \o Ring(tail, chars)]
                   /\ UNCHANGED <<page, pc, copy, cpu>>
                \/ Fault(t, "rcopy", tail, chars)
             /\ UNCHANGED waitVars
  /\ UNCHANGED <<fileVars, i_count, head>>

write_pipe(t) ==
  /\ cpu = t /\ pc[t] = "write" /\ on[t] = NoQueue
  /\ IF buf[t] = <<>> \/ (Room = 0 /\ i_count # 2)
     THEN EndPipeCall(t) /\ UNCHANGED <<head, page>>
     ELSE IF Room = 0
     THEN WakeAndSleep(t) /\ UNCHANGED <<head, page>>
     ELSE LET chars == Min({PAGE_SIZE - head, Len(buf[t]), Room})
          IN /\ head' = (head + chars) % PAGE_SIZE
             /\ \/ /\ page' = Put(head, SubSeq(buf[t], 1, chars))
                   /\ buf' = [buf EXCEPT ![t] = SubSeq(@, chars + 1, Len(@))]
                   /\ UNCHANGED <<pc, copy, cpu>>
                \/ Fault(t, "wcopy", head, chars)
             /\ UNCHANGED <<count, waitVars>>
  /\ UNCHANGED <<fileVars, i_count, tail>>

(* The page is there: the copy goes on, with the bytes that are in the     *)
(* ring now, or into the ring as it is now.                                *)
CopyAfterFault(t) ==
  LET from == copy[t][1]
      n == copy[t][2]
  IN /\ cpu = NoTask
     /\ \/ /\ pc[t] = "rcopy"
           /\ pc' = [pc EXCEPT ![t] = "read"]
           /\ buf' = [buf EXCEPT ![t] = @ \o Ring(from, n)]
           /\ UNCHANGED page
        \/ /\ pc[t] = "wcopy"
           /\ pc' = [pc EXCEPT ![t] = "write"]
           /\ page' = Put(from, SubSeq(buf[t], 1, n))
           /\ buf' = [buf EXCEPT ![t] = SubSeq(@, n + 1, Len(@))]
     /\ copy' = [copy EXCEPT ![t] = <<0, 0>>]
     /\ cpu' = t
     /\ UNCHANGED <<fileVars, i_count, head, tail, count, waitVars>>

(* schedule() comes back to a task in sleep_on(). *)
Resume(t) ==
  /\ cpu = NoTask
  /\ sleep_return(t)
  /\ cpu' = t
  /\ UNCHANGED <<fileVars, i_count, ringVars, callVars>>

(***************************************************************************)
(* The specification: one process and no pipe at first.                    *)
(***************************************************************************)
PipeInit ==
  /\ WaitInit
  /\ live = {CHOOSE t \in Tasks : TRUE}
  /\ filp = [t \in Tasks |-> [f \in Files |-> 0]]
  /\ f_count = [f \in Files |-> 0] /\ f_mode = [f \in Files |-> 1]
  /\ i_count = 0
  /\ head = 0 /\ tail = 0 /\ page = Blank
  /\ pc = [t \in Tasks |-> "user"]
  /\ buf = [t \in Tasks |-> <<>>]
  /\ count = [t \in Tasks |-> 0]
  /\ copy = [t \in Tasks |-> <<0, 0>>]
  /\ cpu = NoTask

Call(t) ==
  \/ sys_pipe(t)
  \/ Exit(t)
  \/ Fork(t)
  \/ \E f \in Files :
       \/ sys_close(t, f) \/ dupfd(t, f)
       \/ \E g \in Files : sys_dup2(t, f, g)
       \/ \E n \in Counts : sys_read(t, f, n)
       \/ \E m \in Messages : sys_write(t, f, m)

Work(t) == read_pipe(t) \/ write_pipe(t) \/ CopyAfterFault(t) \/ Resume(t)

PipeNext == \E t \in Tasks : Call(t) \/ Work(t)

PipeSpec == PipeInit /\ [][PipeNext]_pipeVars

(* A task in the kernel goes on when schedule() comes to it. *)
PipeFairSpec == PipeSpec /\ \A t \in Tasks : SF_pipeVars(Work(t))

-----------------------------------------------------------------------------
(***************************************************************************)
(* Properties.                                                             *)
(***************************************************************************)
PipeTypeOK ==
  /\ WaitTypeOK
  /\ live \subseteq Tasks
  /\ filp \in [Tasks -> [Files -> 0 .. NR_OPEN]]
  /\ f_count \in [Files -> Nat] /\ f_mode \in [Files -> {1, 2}]
  /\ i_count \in 0 .. 2
  /\ head \in 0 .. PAGE_SIZE - 1 /\ tail \in 0 .. PAGE_SIZE - 1
  /\ pc \in [Tasks -> {"user", "read", "write", "rcopy", "wcopy"}]
  /\ cpu \in Tasks \cup {NoTask}

(* f_count is the number of descriptors of all processes that refer to the *)
(* file, and i_count, which is all that read_pipe() and write_pipe() have  *)
(* to tell whether the other end is still there, counts the open files,    *)
(* whatever was duplicated, inherited and closed.                          *)
PipeCounts ==
  /\ \A f \in Files :
       f_count[f] = Cardinality({d \in Tasks \X (1 .. NR_OPEN) : d[2] <= filp[d[1]][f]})
  /\ i_count = Cardinality({f \in Files : f_count[f] > 0})

(* The bytes between tail and head. *)
InRing == [k \in 1 .. PIPE_SIZE |-> page[(tail + k - 1) % PAGE_SIZE]]

Stream == INSTANCE ByteStream WITH
  stream <- IF i_count = 0 THEN <<>> ELSE InRing,
  got <- [t \in Tasks |-> IF pc[t] \in {"read", "rcopy"} THEN buf[t] ELSE <<>>],
  todo <- [t \in Tasks |-> IF pc[t] \in {"write", "wcopy"} THEN buf[t] ELSE <<>>],
  open <- i_count = 2

(* What is read is what was written, in order, nothing lost, nothing       *)
(* twice, across the wrap of the ring and any mix of sleeps.  The steps of *)
(* a copy that meets a page fault are excepted: head and tail are moved    *)
(* before the copy, so others see the bytes too early or overwrite them.   *)
ImplementsStream ==
  Stream!StreamInit /\ [][Stream!StreamNext \/ copy' # copy]_(Stream!streamVars)

(* Readers and writers share one queue, and nobody is forgotten in it: a   *)
(* reader with something to read and a writer with room get up, and when   *)
(* the other end is closed both do, and return.                            *)
PipeMoves ==
  \A t \in Tasks :
    (/\ Asleep(t)
     /\ \/ pc[t] = "read" /\ PIPE_SIZE > 0
        \/ pc[t] = "write" /\ PIPE_SIZE < PAGE_SIZE - 1
        \/ i_count # 2)
      ~> Running(t)

(* The types, and the counts of fs/open.c and fs/pipe.c.                   *)
PipeInv == PipeTypeOK /\ PipeCounts
=============================================================================
