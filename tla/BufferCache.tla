----------------------------- MODULE BufferCache -----------------------------
(***************************************************************************)
(* The buffer cache (fs/buffer.c) on top of the request queue and the      *)
(* interrupt side of a block device (kernel/blk_drv/ll_rw_blk.c, blk.h).   *)
(*                                                                         *)
(* Tasks run one at a time: cpu is the task that is inside the kernel, or  *)
(* NoTask.  A task keeps the cpu until it sleeps or its system call ends;  *)
(* interrupts happen between any two of its steps unless the code masks    *)
(* them, in which case the whole masked section is one step.               *)
(*                                                                         *)
(* A buffer b is its buffer_head: blk (b_dev and b_blocknr, NoBlock for a  *)
(* fresh one), dirt, lock, uptodate, count and data.  hash_table is the    *)
(* search for blk; free_list is the ring starting at free_list.            *)
(*                                                                         *)
(* A task's call stack is in pc (the innermost function's next step),      *)
(* op and want (the caller's operation and block), bh (the bh of getblk    *)
(* and bread) and si, sdev (index and device of the loop of sys_sync or    *)
(* sync_dev; si = 0 outside).                                              *)
(***************************************************************************)
EXTENDS WaitQueue, RequestQueue

CONSTANTS NR_BUFFERS,
          Blocks,              \* blocks of one block device (b_dev, b_blocknr)
          Device,              \* Device[k], the minor device of block k
          NoBlock, NoDevice,
          Values, NoValue,     \* what a block can contain
          Workload,            \* the operations tasks perform
          Failing,             \* the commands the device may fail
          buffer_wait, wait_for_request   \* the two global queues

Buffers == 1 .. NR_BUFFERS

Operations == {"read", "write", "raw_write", "slow_write", "sync"}

ASSUME CacheAssumption ==
  /\ NR_BUFFERS \in Nat \ {0}
  /\ IsFiniteSet(Tasks)
  /\ Blocks = Sectors
  /\ NoBlock \notin Blocks
  /\ NoDevice \notin {Device[k] : k \in Blocks}
  /\ Queues = Buffers \cup {buffer_wait, wait_for_request}
  /\ Workload \subseteq Operations
  /\ Failing \subseteq Commands

VARIABLES buf, free_list, disk, cpu, pc, op, want, bh, si, sdev, seen

taskVars == <<pc, op, want, bh, si, sdev, seen>>
cacheVars == <<buf, free_list, disk, cpu, rq, taskVars, waitVars>>

Dev(k) == IF k = NoBlock THEN NoDevice ELSE Device[k]

BufferRecord ==
  [blk : Blocks \cup {NoBlock}, dirt : BOOLEAN, lock : BOOLEAN,
   uptodate : BOOLEAN, count : Nat, data : Values]

CacheTypeOK ==
  /\ buf \in [Buffers -> BufferRecord]
  /\ free_list \in [Buffers -> Buffers] /\ Range(free_list) = Buffers
  /\ disk \in [Blocks -> Values]
  /\ cpu \in Tasks \cup {NoTask}
  /\ \A i \in 1 .. Len(rq) : rq[i].bh \in Buffers
  /\ bh \in [Tasks -> Buffers \cup {0}]
  /\ si \in [Tasks -> 0 .. 2 * NR_BUFFERS + 1]

(* buffer_init() and blk_dev_init(), and tasks outside the kernel. *)
CacheInit ==
  /\ WaitInit
  /\ rq = << >>
  /\ \E v \in Values : disk = [k \in Blocks |-> v]
  /\ \E v \in Values :
       buf = [b \in Buffers |-> [blk |-> NoBlock, dirt |-> FALSE, lock |-> FALSE,
                                 uptodate |-> FALSE, count |-> 0, data |-> v]]
  /\ free_list = [b \in Buffers |-> b]
  /\ cpu = NoTask
  /\ pc = [t \in Tasks |-> "idle"]
  /\ op = [t \in Tasks |-> "none"]
  /\ want = [t \in Tasks |-> NoBlock]
  /\ bh = [t \in Tasks |-> 0]
  /\ si = [t \in Tasks |-> 0]
  /\ sdev = [t \in Tasks |-> NoDevice]
  /\ seen = [t \in Tasks |-> NoValue]

----------------------------------------------------------------------------
(* Steps of the task that has the cpu. *)
At(t, label) == cpu = t /\ pc[t] = label
Goto(t, label) == pc' = [pc EXCEPT ![t] = label]

(* sleep_on() called where only a task, or an interrupt that is masked,    *)
(* can wake the sleeper: the task resumes at label.                        *)
BlockAt(t, p, label) ==
  /\ sleep_on(t, p)
  /\ cpu' = NoTask
  /\ Goto(t, label)

(* schedule() picks t, which was woken; it returns from sleep_on(). *)
Resume(t) ==
  /\ cpu = NoTask
  /\ sleep_return(t)
  /\ cpu' = t
  /\ UNCHANGED <<buf, free_list, disk, rq, taskVars>>

(* wait_on_buffer(b) finds b locked: sleep and test again at label. *)
WaitOnBuffer(t, b, label) ==
  /\ buf[b].lock
  /\ BlockAt(t, b, label)
  /\ UNCHANGED <<buf, free_list, disk, rq, op, want, bh, si, sdev, seen>>

(* The system call is over. *)
Done(t) ==
  /\ cpu' = NoTask
  /\ pc' = [pc EXCEPT ![t] = "idle"]
  /\ op' = [op EXCEPT ![t] = "none"]
  /\ want' = [want EXCEPT ![t] = NoBlock]
  /\ bh' = [bh EXCEPT ![t] = 0]
  /\ si' = [si EXCEPT ![t] = 0]
  /\ seen' = [seen EXCEPT ![t] = NoValue]

----------------------------------------------------------------------------
(* A task asks for a block: bread() or, for a raw write, getblk(). *)
StartBlock(t, o, k) ==
  /\ cpu = NoTask /\ pc[t] = "idle"
  /\ o \in Workload \ {"sync"}
  /\ cpu' = t
  /\ Goto(t, "hash")
  /\ op' = [op EXCEPT ![t] = o]
  /\ want' = [want EXCEPT ![t] = k]
  /\ UNCHANGED <<buf, free_list, disk, rq, bh, si, sdev, seen, waitVars>>

(* sys_sync(); the inodes are written into buffers by ordinary writes. *)
StartSync(t) ==
  /\ cpu = NoTask /\ pc[t] = "idle"
  /\ "sync" \in Workload
  /\ cpu' = t
  /\ Goto(t, "sync")
  /\ op' = [op EXCEPT ![t] = "sync"]
  /\ si' = [si EXCEPT ![t] = 1]
  /\ UNCHANGED <<buf, free_list, disk, rq, want, bh, sdev, seen, waitVars>>

find_buffer(k) == {b \in Buffers : buf[b].blk = k}

BADNESS(b) == (IF buf[b].dirt THEN 2 ELSE 0) + (IF buf[b].lock THEN 1 ELSE 0)

(* The buffers getblk() may take over: the first of the least badness. *)
Candidate ==
  LET unused == {i \in Buffers : buf[free_list[i]].count = 0}
      best == {i \in unused : \A j \in unused :
                 BADNESS(free_list[i]) <= BADNESS(free_list[j])}
  IN  IF unused = {} THEN 0 ELSE free_list[Min(best)]

(* Mutant: bread() trusts every buffer getblk() returns. *)
GotBuffer_trusting(t, b, c) ==
  /\ Goto(t, "use")
  /\ buf' = [buf EXCEPT ![b].count = c]

(* getblk() returns the unlocked buffer b, with the reference count c:     *)
(* the caller uses it if it is up to date or is about to be overwritten as *)
(* a whole; otherwise bread() calls ll_rw_block(), which locks it.  No     *)
(* task runs in between, so lock_buffer() does not sleep and the second    *)
(* test of b_uptodate in make_request() agrees with the first.             *)
GotBuffer(t, b, c) ==
  IF op[t] = "raw_write" \/ buf[b].uptodate
    THEN Goto(t, "use") /\ buf' = [buf EXCEPT ![b].count = c]
    ELSE Goto(t, "slot") /\ buf' = [buf EXCEPT ![b].count = c, ![b].lock = TRUE]

(* get_hash_table(): the block is in the cache; take a reference, wait. *)
HashHit(t) ==
  /\ At(t, "hash")
  /\ \E b \in find_buffer(want[t]) :
       /\ bh' = [bh EXCEPT ![t] = b]
       /\ IF buf[b].lock
            THEN /\ buf' = [buf EXCEPT ![b].count = @ + 1]
                 /\ BlockAt(t, b, "hash_wait")
            ELSE /\ GotBuffer(t, b, buf[b].count + 1)
                 /\ UNCHANGED <<cpu, waitVars>>
  /\ UNCHANGED <<free_list, disk, rq, op, want, si, sdev, seen>>

(* get_hash_table() after wait_on_buffer(): is it still the block? *)
HashWait(t) ==
  LET b == bh[t] IN
  /\ At(t, "hash_wait")
  /\ \/ WaitOnBuffer(t, b, "hash_wait")
     \/ /\ ~buf[b].lock
        /\ IF buf[b].blk = want[t]
             THEN GotBuffer(t, b, buf[b].count)
             ELSE Goto(t, "hash") /\ buf' = [buf EXCEPT ![b].count = @ - 1]
        /\ UNCHANGED <<free_list, disk, cpu, rq, op, want, bh, si, sdev, seen, waitVars>>

(* getblk() with the block not in the cache: choose a buffer, or sleep     *)
(* until brelse() frees one and start again.                               *)
HashMiss(t) ==
  /\ At(t, "hash")
  /\ find_buffer(want[t]) = {}
  /\ IF Candidate = 0
       THEN BlockAt(t, buffer_wait, "hash") /\ UNCHANGED bh
       ELSE /\ bh' = [bh EXCEPT ![t] = Candidate]
            /\ Goto(t, "claim")
            /\ UNCHANGED <<cpu, waitVars>>
  /\ UNCHANGED <<buf, free_list, disk, rq, op, want, si, sdev, seen>>

(* remove_from_queues() and insert_into_queues(): b moves to the end. *)
MoveToEnd(b) ==
  LET p == CHOOSE i \in Buffers : free_list[i] = b
  IN  [i \in Buffers |-> IF i = NR_BUFFERS THEN b
                         ELSE free_list[IF i < p THEN i ELSE i + 1]]

(* Mutant: the cache is not searched again after sleeping. *)
Claimable_no_search(t, b) == buf[b].count = 0 /\ ~buf[b].dirt

(* Mutant: a buffer that came into use while we slept is taken. *)
Claimable_in_use(t, b) == ~buf[b].dirt /\ find_buffer(want[t]) = {}

(* The tests of getblk() after the last sleep. *)
Claimable(t, b) ==
  buf[b].count = 0 /\ ~buf[b].dirt /\ find_buffer(want[t]) = {}

(* getblk() after it chose bh[t]: wait for it, and start again if another  *)
(* task got hold of it or of the block; write it back if it is dirty;      *)
(* otherwise give it to the wanted block.                                  *)
Claim(t) ==
  LET b == bh[t] IN
  /\ At(t, "claim")
  /\ \/ WaitOnBuffer(t, b, "claim")
     \/ /\ ~buf[b].lock
        /\ UNCHANGED <<disk, cpu, rq, op, want, bh, seen, waitVars>>
        /\ \/ /\ Claimable(t, b)
              /\ LET fresh == [buf[b] EXCEPT !.blk = want[t], !.count = 1,
                                             !.uptodate = FALSE, !.dirt = FALSE,
                                             !.lock = op[t] # "raw_write"]
                 IN  buf' = [buf EXCEPT ![b] = fresh]
              /\ free_list' = MoveToEnd(b)
              /\ Goto(t, IF op[t] = "raw_write" THEN "use" ELSE "slot")
              /\ UNCHANGED <<si, sdev>>
           \/ /\ ~Claimable(t, b)
              /\ IF buf[b].count = 0 /\ buf[b].dirt
                   THEN /\ Goto(t, "sync")
                        /\ si' = [si EXCEPT ![t] = 1]
                        /\ sdev' = [sdev EXCEPT ![t] = Dev(buf[b].blk)]
                   ELSE Goto(t, "hash") /\ UNCHANGED <<si, sdev>>
              /\ UNCHANGED <<buf, free_list>>

----------------------------------------------------------------------------
(* The loops of sys_sync() (one pass over all buffers) and of sync_dev()   *)
(* (two passes over those of one device).  si is the number of the pass    *)
(* times NR_BUFFERS plus the buffer.                                       *)
BufferAt(i) == 1 + ((i - 1) % NR_BUFFERS)
SyncEnd(t) == IF op[t] = "sync" THEN NR_BUFFERS ELSE 2 * NR_BUFFERS
OfDevice(t, b) == op[t] = "sync" \/ Dev(buf[b].blk) = sdev[t]

(* Where the loop has something to do: buffers to wait for or to write.    *)
SyncStops(t) ==
  {i \in si[t] .. SyncEnd(t) :
     LET b == BufferAt(i) IN OfDevice(t, b) /\ (buf[b].lock \/ buf[b].dirt)}

(* The loop runs up to the next locked buffer, and sleeps, or to the next  *)
(* dirty one, and locks it in make_request(); or it ends.                  *)
SyncLoop(t) ==
  /\ At(t, "sync")
  /\ IF SyncStops(t) = {}
       THEN /\ sdev' = [sdev EXCEPT ![t] = NoDevice]
            /\ IF op[t] = "sync"
                 THEN Done(t)
                 ELSE /\ Goto(t, "claim")
                      /\ si' = [si EXCEPT ![t] = 0]
                      /\ UNCHANGED <<cpu, op, want, bh, seen>>
            /\ UNCHANGED <<buf, waitVars>>
       ELSE /\ si' = [si EXCEPT ![t] = Min(SyncStops(t))]
            /\ LET b == BufferAt(Min(SyncStops(t)))
               IN  IF buf[b].lock
                     THEN BlockAt(t, b, "sync_wait") /\ UNCHANGED buf
                     ELSE /\ buf' = [buf EXCEPT ![b].lock = TRUE]
                          /\ Goto(t, "slot")
                          /\ UNCHANGED <<cpu, waitVars>>
            /\ UNCHANGED <<op, want, bh, sdev, seen>>
  /\ UNCHANGED <<free_list, disk, rq>>

(* After wait_on_buffer() in the loop: the buffer may have been reused. *)
SyncWait(t) ==
  LET b == BufferAt(si[t]) IN
  /\ At(t, "sync_wait")
  /\ \/ WaitOnBuffer(t, b, "sync_wait")
     \/ /\ ~buf[b].lock
        /\ IF OfDevice(t, b) /\ buf[b].dirt
             THEN /\ Goto(t, "slot")
                  /\ buf' = [buf EXCEPT ![b].lock = TRUE]
                  /\ UNCHANGED si
             ELSE /\ Goto(t, "sync")
                  /\ si' = [si EXCEPT ![t] = @ + 1]
                  /\ UNCHANGED buf
        /\ UNCHANGED <<free_list, disk, cpu, rq, op, want, bh, sdev, seen, waitVars>>

----------------------------------------------------------------------------
(* make_request() with the buffer locked: a WRITE from the sync loops, a   *)
(* READ from bread().                                                      *)
Cmd(t) == IF si[t] # 0 THEN WRITE ELSE READ
RwBuffer(t) == IF si[t] # 0 THEN BufferAt(si[t]) ELSE bh[t]

(* ll_rw_block() returns: the loop goes on, or bread() waits. *)
RwReturn(t) ==
  IF si[t] # 0
    THEN Goto(t, "sync") /\ si' = [si EXCEPT ![t] = @ + 1]
    ELSE Goto(t, "rd_wait") /\ UNCHANGED si

(* Mutant: the buffer is unlocked when the request is queued. *)
QueueRequest_unlocks(t) ==
  LET b == RwBuffer(t) IN
  /\ rq' = AddRequest(rq, [slot |-> FindSlot(rq, Cmd(t)), cmd |-> Cmd(t),
                           sector |-> buf[b].blk, bh |-> b])
  /\ buf' = [buf EXCEPT ![b].dirt = FALSE, ![b].lock = FALSE]

(* The request is filled in and add_request() called: from now on the      *)
(* buffer counts as clean.                                                 *)
QueueRequest(t) ==
  LET b == RwBuffer(t) IN
  /\ rq' = AddRequest(rq, [slot |-> FindSlot(rq, Cmd(t)), cmd |-> Cmd(t),
                           sector |-> buf[b].blk, bh |-> b])
  /\ buf' = [buf EXCEPT ![b].dirt = FALSE]

(* make_request() finds an empty request, or calls sleep_on(). *)
GetRequest(t) ==
  /\ At(t, "slot")
  /\ IF FreeSlots(rq, Cmd(t)) # {}
       THEN QueueRequest(t) /\ RwReturn(t)
       ELSE Goto(t, "sleep_tmp") /\ UNCHANGED <<buf, rq, si>>
  /\ UNCHANGED <<free_list, disk, cpu, op, want, bh, sdev, seen, waitVars>>

(* sleep_on(&wait_for_request) in the three steps between which the disk   *)
(* interrupt can come, as it is not masked here: tmp=*p; *p=current;       *)
(* current->state=TASK_UNINTERRUPTIBLE and schedule().                     *)
SleepTmp(t) ==
  /\ At(t, "sleep_tmp")
  /\ tmp' = [tmp EXCEPT ![t] = wait[wait_for_request]]
  /\ Goto(t, "sleep_link")
  /\ UNCHANGED <<buf, free_list, disk, cpu, rq, op, want, bh, si, sdev, seen, state, wait, on>>

SleepLink(t) ==
  /\ At(t, "sleep_link")
  /\ wait' = [wait EXCEPT ![wait_for_request] = t]
  /\ on' = [on EXCEPT ![t] = wait_for_request]
  /\ Goto(t, "sleep_state")
  /\ UNCHANGED <<buf, free_list, disk, cpu, rq, op, want, bh, si, sdev, seen, state, tmp>>

SleepState(t) ==
  /\ At(t, "sleep_state")
  /\ state' = [state EXCEPT ![t] = "uninterruptible"]
  /\ cpu' = NoTask
  /\ Goto(t, "slot")
  /\ UNCHANGED <<buf, free_list, disk, rq, op, want, bh, si, sdev, seen, wait, on, tmp>>

----------------------------------------------------------------------------
(* bread() after ll_rw_block(): an unreadable block is released. *)
ReadWait(t) ==
  /\ At(t, "rd_wait")
  /\ \/ WaitOnBuffer(t, bh[t], "rd_wait")
     \/ /\ ~buf[bh[t]].lock
        /\ Goto(t, IF buf[bh[t]].uptodate THEN "use" ELSE "release")
        /\ UNCHANGED <<buf, free_list, disk, cpu, rq, op, want, bh, si, sdev, seen, waitVars>>

(* The caller copies the data out. *)
UseRead(t) ==
  /\ At(t, "use") /\ op[t] = "read"
  /\ seen' = [seen EXCEPT ![t] = buf[bh[t]].data]
  /\ Goto(t, "release")
  /\ UNCHANGED <<buf, free_list, disk, cpu, rq, op, want, bh, si, sdev, waitVars>>

(* The caller copies data in and sets b_dirt, without sleeping: file_write *)
(* after bread(), or block_write of a whole block after getblk().          *)
UseWrite(t, v) ==
  /\ At(t, "use") /\ op[t] \in {"write", "raw_write"}
  /\ buf' = [buf EXCEPT ![bh[t]].data = v, ![bh[t]].dirt = TRUE]
  /\ Goto(t, "release")
  /\ UNCHANGED <<free_list, disk, cpu, rq, op, want, bh, si, sdev, seen, waitVars>>

(* file_write() sets b_dirt and then copies from user space: when the user *)
(* page is not there, get_fs_byte() faults and the page is read in, which  *)
(* gives up the cpu with the buffer held.                                  *)
UseSlowWrite(t) ==
  /\ At(t, "use") /\ op[t] = "slow_write"
  /\ buf' = [buf EXCEPT ![bh[t]].dirt = TRUE]
  /\ cpu' = NoTask
  /\ Goto(t, "fault")
  /\ UNCHANGED <<free_list, disk, rq, op, want, bh, si, sdev, seen, waitVars>>

CopyAfterFault(t, v) ==
  /\ cpu = NoTask /\ pc[t] = "fault"
  /\ cpu' = t
  /\ buf' = [buf EXCEPT ![bh[t]].data = v]
  /\ Goto(t, "release")
  /\ UNCHANGED <<free_list, disk, rq, op, want, bh, si, sdev, seen, waitVars>>

(* Mutant: tasks waiting for a free buffer are not woken. *)
ReleaseSilently(t) ==
  /\ ~buf[bh[t]].lock
  /\ buf' = [buf EXCEPT ![bh[t]].count = @ - 1]
  /\ UNCHANGED waitVars

(* Mutant: the head of the queue is woken but stays in the queue. *)
ReleaseKeepsHead(t) ==
  /\ ~buf[bh[t]].lock
  /\ buf' = [buf EXCEPT ![bh[t]].count = @ - 1]
  /\ state' = Awaken({wait[buffer_wait]})
  /\ UNCHANGED <<wait, on, tmp>>

(* brelse() once the buffer is unlocked. *)
ReleaseBuffer(t) ==
  /\ ~buf[bh[t]].lock
  /\ buf' = [buf EXCEPT ![bh[t]].count = @ - 1]
  /\ wake_up({buffer_wait})

Release(t) ==
  /\ At(t, "release")
  /\ \/ WaitOnBuffer(t, bh[t], "release")
     \/ /\ ReleaseBuffer(t)
        /\ Done(t)
        /\ UNCHANGED <<free_list, disk, rq, sdev>>

----------------------------------------------------------------------------
(* The interrupt that ends the current transfer: the data has moved, and   *)
(* end_request() unlocks the buffer, wakes its waiters and a task waiting  *)
(* for a request slot, and starts the next request.                        *)
Interrupt(ok) ==
  /\ rq # << >>
  /\ ok \/ Head(rq).cmd \in Failing
  /\ LET b == Head(rq).bh
         reads == Head(rq).cmd = READ
     IN  /\ buf' = [buf EXCEPT ![b].uptodate = ok, ![b].lock = FALSE,
                               ![b].data = IF reads /\ ok THEN disk[buf[b].blk] ELSE @]
         /\ disk' = IF ~reads /\ ok THEN [disk EXCEPT ![buf[b].blk] = buf[b].data]
                                    ELSE disk
         /\ wake_up({b, wait_for_request})
  /\ rq' = EndRequest(rq)
  /\ UNCHANGED <<free_list, cpu, taskVars>>

TaskStep(t) ==
  \/ Resume(t)
  \/ HashHit(t) \/ HashWait(t) \/ HashMiss(t) \/ Claim(t)
  \/ SyncLoop(t) \/ SyncWait(t)
  \/ GetRequest(t)
  \/ SleepTmp(t) \/ SleepLink(t) \/ SleepState(t)
  \/ ReadWait(t) \/ UseRead(t) \/ UseSlowWrite(t)
  \/ \E v \in Values : UseWrite(t, v) \/ CopyAfterFault(t, v)
  \/ Release(t)

CacheNext ==
  \/ \E t \in Tasks, o \in Workload, k \in Blocks : StartBlock(t, o, k)
  \/ \E t \in Tasks : StartSync(t)
  \/ \E t \in Tasks : TaskStep(t)
  \/ \E ok \in BOOLEAN : Interrupt(ok)

CacheSpec == CacheInit /\ [][CacheNext]_cacheVars

(* The scheduler gives every runnable task the cpu again and again, a task *)
(* that has it goes on, and the device ends the transfer it works on.      *)
CacheFairSpec ==
  /\ CacheSpec
  /\ \A t \in Tasks : SF_cacheVars(TaskStep(t))
  /\ WF_cacheVars(\E ok \in BOOLEAN : Interrupt(ok))

----------------------------------------------------------------------------
(* A block is never in two buffers ("the only one of it's kind"), although *)
(* getblk() sleeps between searching the cache and claiming a buffer.      *)
CacheUnique ==
  \A b, c \in Buffers : buf[b].blk = buf[c].blk /\ buf[b].blk # NoBlock => b = c

Holds(t, b) ==
  /\ bh[t] = b
  /\ \/ pc[t] \in {"hash_wait", "rd_wait", "use", "fault", "release"}
     \/ pc[t] \in {"slot", "sleep_tmp", "sleep_link", "sleep_state"} /\ si[t] = 0

(* The reference count is the number of calls that hold the buffer: brelse *)
(* never meets a zero ("Trying to free free buffer") and nothing leaks.    *)
CountExact ==
  \A b \in Buffers : buf[b].count = Cardinality({t \in Tasks : Holds(t, b)})

InMakeRequest(t, b) ==
  /\ pc[t] \in {"slot", "sleep_tmp", "sleep_link", "sleep_state"}
  /\ RwBuffer(t) = b

(* A buffer is locked exactly while one request, or one task about to      *)
(* queue one, owns it: INIT_REQUEST never panics with "block not locked"   *)
(* and end_request() never unlocks another one's buffer.                   *)
LockOwned ==
  \A b \in Buffers :
    Cardinality({i \in 1 .. Len(rq) : rq[i].bh = b})
      + Cardinality({t \in Tasks : InMakeRequest(t, b)})
    = IF buf[b].lock THEN 1 ELSE 0

(* A queued request still means the block its buffer holds. *)
RequestsCurrent == \A i \in 1 .. Len(rq) : buf[rq[i].bh].blk = rq[i].sector

(* A task that holds a buffer never loses it to another block. *)
HeldStaysPut ==
  [][\A t \in Tasks, b \in Buffers : Holds(t, b) /\ buf[b].blk = want[t] =>
       buf'[b].blk = buf[b].blk]_cacheVars

(* The value of a block: what the cache holds of it, else the disk's.      *)
CachedValue(b) ==
  \/ buf[b].uptodate \/ buf[b].dirt
  \/ \E i \in 1 .. Len(rq) : rq[i].bh = b /\ rq[i].cmd = WRITE

BlockContent(k) ==
  IF \E b \in Buffers : buf[b].blk = k /\ CachedValue(b)
    THEN buf[CHOOSE b \in Buffers : buf[b].blk = k /\ CachedValue(b)].data
    ELSE disk[k]

Store == INSTANCE BlockStore WITH
  content <- [k \in Blocks |-> BlockContent(k)],
  todo <- [t \in Tasks |-> IF pc[t] = "release" THEN {} ELSE {want[t]} \ {NoBlock}]

(* The cache implements BlockStore: reads return the last write, whatever  *)
(* is evicted, synced, in flight or interrupted meanwhile.                 *)
ImplementsStore == Store!StoreSpec

(* Every sleep of the cache follows the discipline of WaitQueue, so that   *)
(* its theorems (no orphan, no stale pointer) hold of the cache.           *)
ImplementsWaitQueue == WaitSpec

(* If tasks stop making new calls, every call in progress ends: getblk()   *)
(* does not retry for ever, no wakeup is missed and nobody waits in a      *)
(* circle.  (A task that keeps writing and syncing one block can keep      *)
(* another one waiting for it, so the premise is needed.)                  *)
CallsEnd ==
  <>[][\A t \in Tasks : pc[t] = "idle" => pc'[t] = "idle"]_cacheVars
    => <>[](\A t \in Tasks : pc[t] = "idle")

(* The structure of the cache: the types, b_count as the number of users,  *)
(* b_lock as the sign of one owner, and requests that mean what their      *)
(* buffers hold, through every sleep and every error.                      *)
CacheInv == CacheTypeOK /\ CountExact /\ LockOwned /\ RequestsCurrent
=============================================================================
