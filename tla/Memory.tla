------------------------------- MODULE Memory -------------------------------
(***************************************************************************)
(* Memory management (mm/memory.c, with its callers in kernel/fork.c,      *)
(* kernel/exit.c and fs/exec.c): page frames with reference counts, page   *)
(* tables that are page frames themselves, copy-on-write after fork(),     *)
(* demand loading, and sharing of clean pages between processes that run   *)
(* the same executable.                                                    *)
(*                                                                         *)
(*   mem_map[f]   the reference count of page frame f (above LOW_MEM)      *)
(*   content[f]   what the frame contains                                  *)
(*   task[p]      the frame of p's task_struct, NoFrame for an empty slot  *)
(*   zombie       the processes that have done do_exit()                   *)
(*   dir[p][k]    the frame of p's k-th page table, or NoFrame             *)
(*   pte[p][v]    the entry of p for page v: frame (NoFrame when not       *)
(*                present), w (writable), d (dirty)                        *)
(*   exe[p]       current->executable                                      *)
(*                                                                         *)
(* LowFrame stands for the frames below LOW_MEM: the kernel's pages, which *)
(* the first processes map but which are not counted.                      *)
(*                                                                         *)
(* A process is in the kernel across a sleep in three places: loading[p]   *)
(* is the page do_no_page() is reading into the frame lframe[p]; copyto[p] *)
(* is the user page a system call is going to write to; args[p] is the     *)
(* argument page of an execve() past its point of no return.               *)
(***************************************************************************)
EXTENDS Naturals, FiniteSets, Functions, FiniteSetsExt

CONSTANTS NR_TASKS,       \* task slots 1 .. NR_TASKS - 1; slot 0 never exits
          NR_FRAMES,      \* page frames above LOW_MEM
          Pages,          \* the pages of an address space
          Table,          \* Table[v], the page table that maps page v
          ImagePages,     \* the pages below end_data: loaded from the executable
          ArgPage,        \* the page of the arguments, at the top
          Executables, NoExecutable,
          Written,        \* the values processes write
          Zero, Kernel,   \* an empty page, a page of the kernel
          LowFrame, NoFrame, NoPage,
          KernelWrites,   \* which system calls write to user space:
                          \*   "verified"   after verify_area() and a sleep
                          \*   "unverified" without verify_area() (whoami)
                          \* "exec_sleep": sys_close() in execve() sleeps
          Callers         \* the processes that make these system calls

Procs == 1 .. NR_TASKS - 1
Frames == 1 .. NR_FRAMES
Tables == {Table[v] : v \in Pages}
Values == Written \cup Executables \cup {Zero, Kernel}

ASSUME MemoryAssumption ==
  /\ NR_TASKS \in Nat /\ NR_TASKS > 1
  /\ NR_FRAMES \in Nat /\ NR_FRAMES > 1
  /\ IsFiniteSet(Pages) /\ Tables \subseteq Nat
  /\ ImagePages \subseteq Pages /\ ImagePages # {}
  /\ ArgPage \in Pages \ ImagePages
  /\ NoExecutable \notin Executables
  /\ LowFrame \notin Frames /\ NoFrame \notin Frames \cup {LowFrame}
  /\ NoPage \notin Pages

VARIABLES mem_map, content, task, zombie, dir, pte, exe,
          loading, lframe, copyto, args

procVars == <<task, zombie, exe>>
callVars == <<loading, lframe, copyto, args>>
vars == <<mem_map, content, dir, pte, procVars, callVars>>

Absent == [frame |-> NoFrame, w |-> FALSE, d |-> FALSE]
Entries == [frame : Frames \cup {LowFrame, NoFrame}, w : BOOLEAN, d : BOOLEAN]

Present(p, v) == pte[p][v].frame # NoFrame

TypeOK ==
  /\ mem_map \in [Frames -> Nat]
  /\ content \in [Frames \cup {LowFrame} -> Values]
  /\ task \in [Procs -> Frames \cup {NoFrame}]
  /\ zombie \subseteq Procs
  /\ dir \in [Procs -> [Tables -> Frames \cup {NoFrame}]]
  /\ pte \in [Procs -> [Pages -> Entries]]
  /\ exe \in [Procs -> Executables \cup {NoExecutable}]
  /\ loading \in [Procs -> Pages \cup {NoPage}]
  /\ lframe \in [Procs -> Frames \cup {NoFrame}]
  /\ copyto \in [Procs -> Pages \cup {NoPage}]
  /\ args \in [Procs -> Frames \cup {NoFrame}]

(* mem_init(), and process 1 after the first fork(): it maps pages of the  *)
(* kernel read-only through a page table of its own.                       *)
Init ==
  LET t1 == Table[CHOOSE v \in ImagePages : TRUE] IN
  /\ mem_map = [f \in Frames |-> IF f \in {1, 2} THEN 1 ELSE 0]
  /\ content = [f \in Frames \cup {LowFrame} |-> IF f = LowFrame THEN Kernel ELSE Zero]
  /\ task = [p \in Procs |-> IF p = 1 THEN 1 ELSE NoFrame]
  /\ zombie = {}
  /\ dir = [p \in Procs |-> [k \in Tables |-> IF p = 1 /\ k = t1 THEN 2 ELSE NoFrame]]
  /\ pte = [p \in Procs |-> [v \in Pages |->
              IF p = 1 /\ Table[v] = t1 THEN [Absent EXCEPT !.frame = LowFrame]
                                        ELSE Absent]]
  /\ exe = [p \in Procs |-> NoExecutable]
  /\ loading = [p \in Procs |-> NoPage]
  /\ lframe = [p \in Procs |-> NoFrame]
  /\ copyto = [p \in Procs |-> NoPage]
  /\ args = [p \in Procs |-> NoFrame]

----------------------------------------------------------------------------
(* get_free_page(): some frame whose count is 0 in the map m. *)
FreeFrames(m) == {f \in Frames : m[f] = 0}
FreeFrame(m) == Max(FreeFrames(m))

(* The frame the (n+1)-th of several calls gets: the search starts at the  *)
(* top.                                                                    *)
NthFree(m, n) ==
  CHOOSE f \in FreeFrames(m) : Cardinality({g \in FreeFrames(m) : g > f}) = n

Take(m, f) == [m EXCEPT ![f] = 1]

(* How many of p's entries, and of its page tables, are the frame f. *)
EntriesOf(p, f) == Cardinality({v \in Pages : pte[p][v].frame = f})
TablesOf(p, f) == Cardinality({k \in Tables : dir[p][k] = f})

(* mem_map after free_page_tables() of the whole address space of p. *)
free_page_tables(p) ==
  [f \in Frames |-> mem_map[f] - EntriesOf(p, f) - TablesOf(p, f)]

Alive(p) == task[p] # NoFrame /\ p \notin zombie

(* p is at an instruction of its own: in user mode, or in a system call    *)
(* that is writing to page v.                                              *)
Executing(p) == Alive(p) /\ loading[p] = NoPage /\ args[p] = NoFrame
InUser(p) == Executing(p) /\ copyto[p] = NoPage
Touches(p, v) == Executing(p) /\ copyto[p] \in {NoPage, v}

(* do_exit(), by exit(), a signal or oom(): the address space goes, the    *)
(* task_struct stays until release().  m is the map without the frames the *)
(* interrupted operation held.                                             *)
do_exit(p, m) ==
  /\ mem_map' = m
  /\ dir' = [dir EXCEPT ![p] = [k \in Tables |-> NoFrame]]
  /\ pte' = [pte EXCEPT ![p] = [v \in Pages |-> Absent]]
  /\ zombie' = zombie \cup {p}
  /\ exe' = [exe EXCEPT ![p] = NoExecutable]
  /\ loading' = [loading EXCEPT ![p] = NoPage]
  /\ lframe' = [lframe EXCEPT ![p] = NoFrame]
  /\ copyto' = [copyto EXCEPT ![p] = NoPage]
  /\ UNCHANGED <<content, task, args>>

Exit(p) == InUser(p) /\ do_exit(p, free_page_tables(p))

(* release(): the father collects the zombie. *)
Release(p) ==
  /\ p \in zombie
  /\ mem_map' = [mem_map EXCEPT ![task[p]] = @ - 1]
  /\ task' = [task EXCEPT ![p] = NoFrame]
  /\ zombie' = zombie \ {p}
  /\ UNCHANGED <<content, dir, pte, exe, callVars>>

----------------------------------------------------------------------------
(* The page tables of p that copy_page_tables() has to copy. *)
TablesToCopy(p) == {k \in Tables : dir[p][k] # NoFrame}

(* p's entries after those of the tables ks were copied: write-protected,  *)
(* but for pages of the kernel.                                            *)
Protected(p, ks) ==
  [v \in Pages |-> IF Table[v] \in ks /\ pte[p][v].frame \in Frames
                     THEN [pte[p][v] EXCEPT !.w = FALSE] ELSE pte[p][v]]

(* mem_map[this_page]++ for every counted page that is copied. *)
CountShared(m, p) == [f \in Frames |-> m[f] + EntriesOf(p, f)]

(* copy_process(): a task_struct and a page table for each one copied. *)
Fork(p, c) ==
  LET s == FreeFrame(mem_map)
      ks == TablesToCopy(p)
      new == [k \in ks |-> NthFree(mem_map, Cardinality({j \in ks : j <= k}))]
  IN
  /\ InUser(p) /\ task[c] = NoFrame
  /\ Cardinality(FreeFrames(mem_map)) >= 1 + Cardinality(ks)
  /\ mem_map' = CountShared([f \in Frames |->
                   IF f = s \/ f \in Range(new) THEN 1 ELSE mem_map[f]], p)
  /\ dir' = [dir EXCEPT ![c] = [k \in Tables |-> IF k \in ks THEN new[k] ELSE NoFrame]]
  /\ pte' = [pte EXCEPT
       ![c] = [v \in Pages |-> [pte[p][v] EXCEPT !.w = FALSE]],
       ![p] = Protected(p, ks)]
  /\ task' = [task EXCEPT ![c] = s]
  /\ exe' = [exe EXCEPT ![c] = exe[p]]
  /\ UNCHANGED <<content, zombie, callVars>>

(* copy_process() runs out of memory: what was taken is freed again, but   *)
(* the entries of p copied so far stay write-protected.                    *)
ForkFails(p, c) ==
  LET n == Cardinality(FreeFrames(mem_map))
      ks == TablesToCopy(p)
  IN
  /\ InUser(p) /\ task[c] = NoFrame
  /\ n < 1 + Cardinality(ks)
  /\ pte' = [pte EXCEPT ![p] =
       Protected(p, {k \in ks : Cardinality({j \in ks : j <= k}) < n})]
  /\ UNCHANGED <<mem_map, content, dir, procVars, callVars>>

----------------------------------------------------------------------------
(* The old frame of un_wp_page() loses a reference, if it is counted. *)
Unshare(f) == IF f \in Frames THEN [mem_map EXCEPT ![f] = @ - 1] ELSE mem_map

(* Mutant: the page is taken over while others still map it. *)
Exclusive_two(f) == f \in Frames /\ mem_map[f] <= 2

Exclusive(f) == f \in Frames /\ mem_map[f] = 1

(* un_wp_page() for a page with one reference: just allow writing. *)
UnprotectLast(p, v) ==
  /\ Exclusive(pte[p][v].frame)
  /\ pte' = [pte EXCEPT ![p][v].w = TRUE]
  /\ UNCHANGED <<mem_map, content>>

(* un_wp_page() for a shared page: the entry gets a copy, clean and        *)
(* writable.                                                               *)
UnprotectCopy(p, v) ==
  LET old == pte[p][v].frame
      new == FreeFrame(mem_map)
  IN
  /\ ~Exclusive(old)
  /\ FreeFrames(mem_map) # {}
  /\ mem_map' = Take(Unshare(old), new)
  /\ content' = [content EXCEPT ![new] = content[old]]
  /\ pte' = [pte EXCEPT ![p][v] = [frame |-> new, w |-> TRUE, d |-> FALSE]]

(* un_wp_page() without memory: oom(). *)
UnprotectOom(p, v) ==
  /\ ~Exclusive(pte[p][v].frame)
  /\ FreeFrames(mem_map) = {}
  /\ do_exit(p, free_page_tables(p))

(* do_wp_page(): p writes to a present, protected page. *)
do_wp_page(p, v) ==
  /\ InUser(p) /\ Present(p, v) /\ ~pte[p][v].w
  /\ \/ (UnprotectLast(p, v) \/ UnprotectCopy(p, v)) /\ UNCHANGED <<dir, procVars, callVars>>
     \/ UnprotectOom(p, v)

(* A write of the process itself. *)
UserWrite(p, v, x) ==
  /\ InUser(p) /\ Present(p, v) /\ pte[p][v].w
  /\ content' = [content EXCEPT ![pte[p][v].frame] = x]
  /\ pte' = [pte EXCEPT ![p][v].d = TRUE]
  /\ UNCHANGED <<mem_map, dir, procVars, callVars>>

----------------------------------------------------------------------------
(* put_page() of frame f, already taken in the map m, at page v of p: a    *)
(* page table is allocated if there is none.                               *)
CanMap(m, p, v) == dir[p][Table[v]] # NoFrame \/ FreeFrames(m) # {}

MapEntry(m, p, v, entry) ==
  /\ pte' = [pte EXCEPT ![p][v] = entry]
  /\ IF dir[p][Table[v]] # NoFrame
       THEN mem_map' = m /\ UNCHANGED dir
       ELSE /\ mem_map' = Take(m, FreeFrame(m))
            /\ dir' = [dir EXCEPT ![p][Table[v]] = FreeFrame(m)]

Writable(f) == [frame |-> f, w |-> TRUE, d |-> FALSE]

(* do_no_page() for a page that is not part of the executable, by          *)
(* get_empty_page(): a zeroed frame, or oom() with it given back.          *)
EmptyPage(p, v) ==
  LET f == FreeFrame(mem_map)
      ok == FreeFrames(mem_map) # {} /\ CanMap(Take(mem_map, f), p, v)
  IN
  /\ Touches(p, v) /\ ~Present(p, v)
  /\ exe[p] = NoExecutable \/ v \notin ImagePages
  /\ \/ /\ ok
        /\ MapEntry(Take(mem_map, f), p, v, Writable(f))
        /\ content' = [content EXCEPT ![f] = Zero]
        /\ UNCHANGED <<procVars, callVars>>
     \/ ~ok /\ do_exit(p, free_page_tables(p))

Wanted(p, v) ==
  Touches(p, v) /\ ~Present(p, v) /\ exe[p] # NoExecutable /\ v \in ImagePages

(* The processes share_page() can share page v with: they run the same     *)
(* executable, and the page is present and clean.                          *)
Sharable(p, v) ==
  {q \in Procs \ {p} : /\ exe[q] = exe[p]
                       /\ pte[q][v].frame \in Frames
                       /\ ~pte[q][v].d}

(* do_no_page() with share_page(): the last such process's page is mapped  *)
(* by both, write-protected; try_to_share() may run out of memory.         *)
SharePage(p, v) ==
  /\ Wanted(p, v) /\ Sharable(p, v) # {}
  /\ LET q == Max(Sharable(p, v))
         entry == [pte[q][v] EXCEPT !.w = FALSE]
         f == entry.frame
     IN
     \/ /\ dir[p][Table[v]] = NoFrame /\ FreeFrames(mem_map) = {}
        /\ do_exit(p, free_page_tables(p))
     \/ /\ CanMap(mem_map, p, v)
        /\ pte' = [pte EXCEPT ![p][v] = entry, ![q][v] = entry]
        /\ IF dir[p][Table[v]] # NoFrame
             THEN mem_map' = [mem_map EXCEPT ![f] = @ + 1] /\ UNCHANGED dir
             ELSE /\ mem_map' = [mem_map EXCEPT ![f] = @ + 1, ![FreeFrame(mem_map)] = 1]
                  /\ dir' = [dir EXCEPT ![p][Table[v]] = FreeFrame(mem_map)]
        /\ UNCHANGED <<content, procVars, callVars>>

(* do_no_page() reads the page from the file: it takes a frame and sleeps  *)
(* in bread_page().                                                        *)
StartLoad(p, v) ==
  /\ Wanted(p, v) /\ Sharable(p, v) = {}
  /\ IF FreeFrames(mem_map) = {}
       THEN do_exit(p, free_page_tables(p))
       ELSE /\ mem_map' = Take(mem_map, FreeFrame(mem_map))
            /\ loading' = [loading EXCEPT ![p] = v]
            /\ lframe' = [lframe EXCEPT ![p] = FreeFrame(mem_map)]
            /\ UNCHANGED <<content, dir, pte, procVars, copyto, args>>

(* Mutant: the frame is not given back when there is no page table. *)
GiveBack_not(m, f) == m

GiveBack(m, f) == [m EXCEPT ![f] = @ - 1]

(* do_no_page() after bread_page(): put_page(), or give the frame back. *)
FinishLoad(p) ==
  LET v == loading[p]
      f == lframe[p]
  IN
  /\ v # NoPage
  /\ \/ /\ CanMap(mem_map, p, v)
        /\ MapEntry(mem_map, p, v, Writable(f))
        /\ content' = [content EXCEPT ![f] = exe[p]]
        /\ loading' = [loading EXCEPT ![p] = NoPage]
        /\ lframe' = [lframe EXCEPT ![p] = NoFrame]
        /\ UNCHANGED <<procVars, copyto, args>>
     \/ /\ ~CanMap(mem_map, p, v)
        /\ do_exit(p, GiveBack(free_page_tables(p), f))

----------------------------------------------------------------------------
(* A system call of p will write to page v.  verify_area() unshares the    *)
(* page if it is present (and may run out of memory); the call then sleeps *)
(* (sys_read() for the disk, sys_waitpid() in release()).                  *)
VerifyArea(p, v) ==
  /\ "verified" \in KernelWrites /\ p \in Callers
  /\ InUser(p)
  /\ IF Present(p, v) /\ ~pte[p][v].w
       THEN \/ /\ UnprotectLast(p, v) \/ UnprotectCopy(p, v)
               /\ copyto' = [copyto EXCEPT ![p] = v]
               /\ UNCHANGED <<dir, procVars, loading, lframe, args>>
            \/ UnprotectOom(p, v)
       ELSE /\ copyto' = [copyto EXCEPT ![p] = v]
            /\ UNCHANGED <<mem_map, content, dir, pte, procVars, loading, lframe, args>>

(* The kernel writes to a present page of p: the processor does not look   *)
(* at the write permission in supervisor mode.  Only programs call         *)
(* whoami(), never the kernel's own init().                                *)
CopyToUser(p, v, x) ==
  /\ \/ Executing(p) /\ copyto[p] = v
     \/ /\ InUser(p) /\ exe[p] # NoExecutable
        /\ "unverified" \in KernelWrites /\ p \in Callers
  /\ Present(p, v)
  /\ content' = [content EXCEPT ![pte[p][v].frame] = x]
  /\ pte' = [pte EXCEPT ![p][v].d = TRUE]
  /\ copyto' = [copyto EXCEPT ![p] = NoPage]
  /\ UNCHANGED <<mem_map, dir, procVars, loading, lframe, args>>

(* The call fails, or is at the end of the file: nothing is written. *)
ReturnUnwritten(p) ==
  /\ Executing(p) /\ copyto[p] # NoPage
  /\ copyto' = [copyto EXCEPT ![p] = NoPage]
  /\ UNCHANGED <<mem_map, content, dir, pte, procVars, loading, lframe, args>>

----------------------------------------------------------------------------
(* The end of do_execve(), with a the argument page: the address space is  *)
(* freed and the argument page put at the top.                             *)
NewImage(p, a) ==
  LET m == free_page_tables(p)
      k == Table[ArgPage]
      bare == [j \in Tables |-> NoFrame]
      t == FreeFrame(m)
  IN
  /\ mem_map' = IF FreeFrames(m) # {} THEN Take(m, t) ELSE m
  /\ dir' = [dir EXCEPT ![p] = IF FreeFrames(m) # {} THEN [bare EXCEPT ![k] = t] ELSE bare]
  /\ pte' = [pte EXCEPT ![p] = [v \in Pages |->
               IF v = ArgPage /\ FreeFrames(m) # {} THEN Writable(a) ELSE Absent]]

(* do_execve(): the arguments are copied to a fresh page; then comes the   *)
(* point of no return, where the new executable is set; sys_close() of the *)
(* close-on-exec files may sleep before the old address space is freed.    *)
Exec(p, e, x) ==
  LET a == FreeFrame(mem_map) IN
  /\ InUser(p)
  /\ FreeFrames(mem_map) # {}
  /\ mem_map' = Take(mem_map, a)
  /\ content' = [content EXCEPT ![a] = x]
  /\ exe' = [exe EXCEPT ![p] = e]
  /\ args' = [args EXCEPT ![p] = a]
  /\ UNCHANGED <<dir, pte, task, zombie, loading, lframe, copyto>>

ExecFinish(p) ==
  /\ args[p] # NoFrame
  /\ NewImage(p, args[p])
  /\ args' = [args EXCEPT ![p] = NoFrame]
  /\ UNCHANGED <<content, procVars, loading, lframe, copyto>>

(* While an execve() that does not sleep runs, nobody else does. *)
Sleeping(p) == args[p] = NoFrame \/ ("exec_sleep" \in KernelWrites /\ p \in Callers)
MayRun(p) == \A q \in Procs \ {p} : Sleeping(q)

ProcStep(p) ==
  /\ MayRun(p)
  /\ \/ Exit(p)
     \/ Release(p)
     \/ \E c \in Procs : Fork(p, c) \/ ForkFails(p, c)
     \/ \E v \in Pages : do_wp_page(p, v) \/ VerifyArea(p, v)
     \/ \E v \in Pages : EmptyPage(p, v) \/ SharePage(p, v) \/ StartLoad(p, v)
     \/ \E v \in Pages, x \in Written : UserWrite(p, v, x) \/ CopyToUser(p, v, x)
     \/ FinishLoad(p)
     \/ ReturnUnwritten(p)
     \/ \E e \in Executables, x \in Written : Exec(p, e, x)
     \/ ExecFinish(p)

Next == \E p \in Procs : ProcStep(p)

Spec == Init /\ [][Next]_vars

----------------------------------------------------------------------------
(* Everything that refers to the frame f. *)
References(f) ==
    Cardinality({p \in Procs : task[p] = f})
  + Cardinality({d \in Procs \X Tables : dir[d[1]][d[2]] = f})
  + Cardinality({e \in Procs \X Pages : pte[e[1]][e[2]].frame = f})
  + Cardinality({p \in Procs : lframe[p] = f})
  + Cardinality({p \in Procs : args[p] = f})

(* mem_map is the exact number of references to every frame, through every *)
(* path out of memory: no leak, no "trying to free free page", and no      *)
(* frame that is in use is ever handed out by get_free_page().             *)
MemMapExact == \A f \in Frames : mem_map[f] = References(f)

(* A page the processor lets a process write to belongs to it alone. *)
WritableAlone ==
  \A p, q \in Procs, v, u \in Pages :
    pte[p][v].w /\ pte[q][u].frame = pte[p][v].frame => p = q /\ v = u

(* A page table is never mapped as a page, nor is a task_struct, and no    *)
(* two directory entries share a table.                                    *)
KernelFramesApart ==
  \A p, q \in Procs, k \in Tables : dir[p][k] # NoFrame =>
    /\ \A v \in Pages : pte[q][v].frame # dir[p][k]
    /\ task[q] # dir[p][k]
    /\ \A j \in Tables : dir[q][j] = dir[p][k] => q = p /\ j = k

(* Past "the point of no return" execve() cannot fail: freeing the old     *)
(* page tables leaves room for the one the arguments need, so put_page()'s *)
(* unchecked result is never 0.                                            *)
ExecHasRoom ==
  \A p \in Procs : args[p] # NoFrame => FreeFrames(free_page_tables(p)) # {}

(* What p finds when it reads page v. *)
PageValue(p, v) ==
  IF Present(p, v) THEN content[pte[p][v].frame]
  ELSE IF exe[p] # NoExecutable /\ v \in ImagePages THEN exe[p] ELSE Zero

FreshPage(e, v) == IF v \in ImagePages THEN e ELSE Zero

Priv == INSTANCE PrivateMemory WITH
  live <- {p \in Procs : Alive(p)},
  mem <- [p \in Procs |-> [v \in Pages |->
            IF args[p] = NoFrame THEN PageValue(p, v)
            ELSE IF v = ArgPage THEN content[args[p]] ELSE FreshPage(exe[p], v)]],
  Fresh <- FreshPage

(* The same, but for the writes of the kernel through an entry that is     *)
(* write-protected.                                                        *)
UserIsolation ==
  /\ Priv!PrivInit
  /\ [][\/ Priv!PrivNext
        \/ \E p \in Procs, v \in Pages, x \in Written :
             ~pte[p][v].w /\ CopyToUser(p, v, x)]_(Priv!memVars)

(* The state of memory between two steps of the processes: the types,      *)
(* exact counts, a single owner of what can be written to, page tables of  *)
(* their own, and room for an execve() past its point of no return.        *)
MemoryInv ==
  TypeOK /\ MemMapExact /\ WritableAlone /\ KernelFramesApart /\ ExecHasRoom
=============================================================================
