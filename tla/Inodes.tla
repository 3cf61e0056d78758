------------------------------- MODULE Inodes -------------------------------
(***************************************************************************)
(* The inode table of fs/inode.c with the inode bitmap of fs/bitmap.c and  *)
(* the mounted devices of fs/super.c.                                      *)
(*                                                                         *)
(* table is inode_table[]; of the contents of an inode only i_nlinks is    *)
(* kept.  disk holds the inodes on the devices, imap the numbers whose bit *)
(* is set, sb the super blocks (by device; s_dev = 0 is "not present").    *)
(* links is a history variable: the link count as it was last set.         *)
(*                                                                         *)
(* A task is in a call (loc), runs it up to the next place where the code  *)
(* can sleep, and holds references to inodes (refs) between calls.  A task *)
(* that waits for a lock tries again until it is free, as the loops around *)
(* sleep_on() do.  Reading and writing an inode is one sleep: bread().     *)
(*                                                                         *)
(* get_empty_inode() also looks for inodes that are dirty or locked though *)
(* nobody uses them, and writes them; FreeIsClean shows there are none, so *)
(* it never sleeps.  The table is taken never to be full.                  *)
(*                                                                         *)
(* Four meetings of two calls break the table, because the code tests a    *)
(* condition, sleeps and does not test it again; Races says which of them  *)
(* the behaviours include: sync_inodes() writing an inode that iput() is   *)
(* deleting, sys_umount() and the last unlink() while iget() waits for an  *)
(* inode that it has found but not yet counted, and a second sys_umount()  *)
(* of a device while the first one sleeps in iput() of its s_imount.       *)
(***************************************************************************)
EXTENDS Naturals, FiniteSets, FiniteSetsExt

CONSTANTS Tasks,          \* processes
          Admins,         \* the ones that mount and unmount
          NR_INODE,       \* slots of inode_table[]
          Devs,           \* devices, the root device is 1
          NumInodes,      \* s_ninodes of every device
          MaxLinks,       \* bound on i_nlinks
          MaxHeld,        \* bound on the references of a task
          Races           \* meetings of two calls that the code does not guard

ASSUME InodesAssumption ==
  /\ IsFiniteSet(Tasks) /\ Admins \subseteq Tasks
  /\ {NR_INODE, NumInodes} \subseteq Nat \ {0} /\ {MaxLinks, MaxHeld} \subseteq Nat
  /\ IsFiniteSet(Devs) /\ Devs \subseteq Nat \ {0} /\ 1 \in Devs
  /\ Races \subseteq {"sync_delete", "umount_lookup", "unlink_lookup", "umounts"}

VARIABLES table, disk, imap, sb, links, loc, refs

inodeVars == <<table, disk, imap, sb, links, loc, refs>>

Slots == 1 .. NR_INODE
Nums == 1 .. NumInodes
NoSlot == 0
ROOT_DEV == 1
ROOT_INO == 1
MountPoint == 2       \* the inode of a directory other than the root
RootUses == 3         \* "logically used 4 times": s_isup, pwd and root too

Zeroed == [dev |-> 0, num |-> 0, count |-> 0, nlinks |-> 0,
           dirt |-> FALSE, lock |-> FALSE, mount |-> FALSE]
Idle == [pc |-> "idle", dev |-> 0, num |-> 0, x |-> NoSlot, e |-> NoSlot,
         back |-> "idle"]

(* After mount_root(): the root inode is in the table. *)
InodesInit ==
  /\ table = [x \in Slots |->
       IF x = 1
       THEN [Zeroed EXCEPT !.dev = ROOT_DEV, !.num = ROOT_INO,
                           !.count = 1 + RootUses, !.nlinks = 1]
       ELSE Zeroed]
  /\ disk = [d \in Devs |-> [n \in Nums |-> 1]]
  /\ imap = [d \in Devs |-> Nums]
  /\ sb = [d \in Devs |-> [present |-> d = ROOT_DEV, lock |-> FALSE,
                           imount |-> IF d = ROOT_DEV THEN 1 ELSE NoSlot]]
  /\ links = disk
  /\ loc = [t \in Tasks |-> Idle]
  /\ refs = [t \in Tasks |-> [x \in Slots |-> 0]]

Held(t) == SumFunction(refs[t])
Goto(t, l) == loc' = [loc EXCEPT ![t] = l]
Return(t) == Goto(t, Idle)

Matches(tab, d, n) == {x \in Slots : tab[x].dev = d /\ tab[x].num = n}

----------------------------------------------------------------------------
(* get_empty_inode(): the slot is cleared and taken. *)
get_empty_inode(e) == [table EXCEPT ![e] = [Zeroed EXCEPT !.count = 1]]
Empties == {x \in Slots : table[x].count = 0}

(* iget() goes from an inode that is mounted on to the root of the device  *)
(* that is mounted there.  The i_count++ and iput() of it cancel out.      *)
Resolve(tab, d, n) ==
  IF \E x \in Matches(tab, d, n) : tab[x].mount /\ ~tab[x].lock
  THEN LET x == CHOOSE x \in Matches(tab, d, n) : tab[x].mount
       IN  <<CHOOSE m \in Devs : sb[m].imount = x, ROOT_INO>>
  ELSE <<d, n>>

(* Mutant: the inode is taken although another one came while waiting. *)
IgetSearch_blind(t, tab, dev, nr, e) ==
  LET d == Resolve(tab, dev, nr)[1]
      n == Resolve(tab, dev, nr)[2]
      call == [Idle EXCEPT !.dev = d, !.num = n, !.e = e]
  IN  /\ table' = [tab EXCEPT ![e].dev = d, ![e].num = n, ![e].lock = TRUE]
      /\ Goto(t, [call EXCEPT !.pc = "read"])
      /\ UNCHANGED refs

(* The search of iget(), with the empty inode e in hand: an inode found is *)
(* waited for and looked at again; if there is none e becomes it.          *)
IgetSearch(t, tab, dev, nr, e) ==
  LET d == Resolve(tab, dev, nr)[1]
      n == Resolve(tab, dev, nr)[2]
      call == [Idle EXCEPT !.dev = d, !.num = n, !.e = e]
  IN  \/ /\ Matches(tab, d, n) = {}
         /\ table' = [tab EXCEPT ![e].dev = d, ![e].num = n, ![e].lock = TRUE]
         /\ Goto(t, [call EXCEPT !.pc = "read"])
         /\ UNCHANGED refs
      \/ \E x \in Matches(tab, d, n) :
           /\ tab[x].lock
           /\ table' = tab
           /\ Goto(t, [call EXCEPT !.pc = "find", !.x = x])
           /\ UNCHANGED refs
      \/ \E x \in Matches(tab, d, n) :
           /\ ~tab[x].lock
           /\ table' = [tab EXCEPT ![x].count = @ + 1, ![e].count = @ - 1]
           /\ refs' = [refs EXCEPT ![t][x] = @ + 1]
           /\ Return(t)

(* A task names inodes of a device from a directory of it that it holds. *)
Reaches(t, d) ==
  d = ROOT_DEV \/ \E x \in Slots : refs[t][x] > 0 /\ table[x].dev = d

(* iget(dev, nr) for a number found in a directory. *)
iget(t, d, n) ==
  /\ loc[t].pc = "idle" /\ Held(t) < MaxHeld
  /\ Reaches(t, d)
  /\ n \in imap[d] /\ links[d][n] > 0
  /\ \E e \in Empties : IgetSearch(t, get_empty_inode(e), d, n, e)
  /\ UNCHANGED <<disk, imap, sb, links>>

(* The wait of iget() is over: search again. *)
IgetAgain(t) ==
  /\ loc[t].pc = "find" /\ ~table[loc[t].x].lock
  /\ IgetSearch(t, table, loc[t].dev, loc[t].num, loc[t].e)
  /\ UNCHANGED <<disk, imap, sb, links>>

(* The end of read_inode(). *)
read_inode(t) ==
  LET e == loc[t].e
  IN  /\ loc[t].pc = "read"
      /\ table' = [table EXCEPT ![e].lock = FALSE,
                                ![e].nlinks = disk[table[e].dev][table[e].num]]
      /\ refs' = [refs EXCEPT ![t][e] = @ + 1]
      /\ Return(t)
      /\ UNCHANGED <<disk, imap, sb, links>>

(* new_inode(): no sleep between the bitmap and the entry of the table. *)
new_inode(t, d) ==
  /\ loc[t].pc = "idle" /\ Held(t) < MaxHeld
  /\ Reaches(t, d)
  /\ Nums \ imap[d] # {}
  /\ \E e \in Empties :
       LET n == Min(Nums \ imap[d])
       IN  /\ table' = [table EXCEPT ![e] =
                          [Zeroed EXCEPT !.dev = d, !.num = n, !.count = 1,
                                         !.nlinks = 1, !.dirt = TRUE]]
           /\ imap' = [imap EXCEPT ![d] = @ \cup {n}]
           /\ links' = [links EXCEPT ![d][n] = 1]
           /\ refs' = [refs EXCEPT ![t][e] = @ + 1]
  /\ UNCHANGED <<disk, sb, loc>>

(* A task sleeps in iget() on an inode it has found. *)
Awaited(d, n) ==
  \E t \in Tasks : loc[t].pc = "find" /\ loc[t].dev = d /\ loc[t].num = n

(* A task changes an inode it holds: link(), unlink(). *)
SetLinks(t, x, v) ==
  LET d == table[x].dev
      n == table[x].num
  IN  /\ loc[t].pc = "idle" /\ refs[t][x] > 0 /\ table[x].nlinks > 0
      /\ n > MountPoint /\ v # table[x].nlinks
      /\ v = 0 => "unlink_lookup" \in Races \/ ~Awaited(d, n)
      /\ table' = [table EXCEPT ![x].nlinks = v, ![x].dirt = TRUE]
      /\ links' = [links EXCEPT ![d][n] = v]
      /\ UNCHANGED <<disk, imap, sb, loc, refs>>

----------------------------------------------------------------------------
(* iput(): the caller gives up a reference. *)
StartIput(t, x) ==
  /\ loc[t].pc = "idle" /\ refs[t][x] > 0
  /\ refs' = [refs EXCEPT ![t][x] = @ - 1]
  /\ Goto(t, [Idle EXCEPT !.pc = "iput", !.x = x])
  /\ UNCHANGED <<table, disk, imap, sb, links>>

(* Where iput() returns to: sys_umount() goes on with put_super(), which   *)
(* sleeps with the super block locked.                                     *)
IputReturn(t) ==
  IF loc[t].back = "umount"
  THEN /\ sb' = [sb EXCEPT ![loc[t].dev] =
                   [present |-> FALSE, lock |-> TRUE, imount |-> NoSlot]]
       /\ Goto(t, [loc[t] EXCEPT !.pc = "put"])
  ELSE Return(t) /\ UNCHANGED sb

(* write_inode() ends; iput() then waits for the lock and does it again. *)
AfterWrite(t) ==
  /\ table' = [table EXCEPT ![loc[t].x].lock = FALSE, ![loc[t].x].dirt = FALSE]
  /\ Goto(t, IF loc[t].back = "sync" THEN [loc[t] EXCEPT !.pc = "sync", !.x = @ + 1]
                                     ELSE [loc[t] EXCEPT !.pc = "iput"])

(* Mutant: an inode in use elsewhere is truncated and freed too. *)
LastUse_links(x) == table[x].count = 1 \/ table[x].nlinks = 0

LastUse(x) == table[x].count = 1

(* Mutant: the last user does not write the inode. *)
MustWrite_never(x) == FALSE

MustWrite(x) == table[x].dirt

(* iput() from its wait, or from repeat, to the next sleep. *)
iput(t) ==
  LET x == loc[t].x
  IN  /\ loc[t].pc = "iput" /\ ~table[x].lock
      /\ \/ /\ ~LastUse(x) \/ (table[x].nlinks > 0 /\ ~MustWrite(x))
            /\ table' = [table EXCEPT ![x].count = @ - 1]
            /\ IputReturn(t)
         \/ /\ LastUse(x) /\ table[x].nlinks = 0
            /\ Goto(t, [loc[t] EXCEPT !.pc = "truncate"])
            /\ UNCHANGED <<table, sb>>
         \/ /\ LastUse(x) /\ table[x].nlinks > 0 /\ MustWrite(x)
            /\ table' = [table EXCEPT ![x].lock = TRUE]
            /\ Goto(t, [loc[t] EXCEPT !.pc = "write", !.num = table[x].num])
            /\ UNCHANGED sb
      /\ UNCHANGED <<disk, imap, links, refs>>

(* The end of truncate() and free_inode(). *)
free_inode(t) ==
  LET x == loc[t].x
  IN  /\ loc[t].pc = "truncate"
      /\ imap' = [imap EXCEPT ![table[x].dev] = @ \ {table[x].num}]
      /\ table' = [table EXCEPT ![x] = Zeroed]
      /\ Return(t)
      /\ UNCHANGED <<disk, sb, links, refs>>

(* The end of write_inode(): the buffer of the inode's block is filled.    *)
(* An inode that free_inode() has cleared meanwhile has i_num 0 and goes   *)
(* to the last place of the block.                                         *)
write_inode(t) ==
  LET x == loc[t].x
      n == IF table[x].num # 0 THEN table[x].num ELSE NumInodes
  IN  /\ loc[t].pc = "write"
      /\ disk' = [disk EXCEPT ![IF table[x].dev # 0 THEN table[x].dev ELSE ROOT_DEV][n] =
                                table[x].nlinks]
      /\ AfterWrite(t)
      /\ UNCHANGED <<imap, sb, links, refs>>

(* sync_inodes(): every slot in turn. *)
StartSync(t) ==
  /\ loc[t].pc = "idle"
  /\ Goto(t, [Idle EXCEPT !.pc = "sync", !.x = 1])
  /\ UNCHANGED <<table, disk, imap, sb, links, refs>>

BeingDeleted(x) == \E t \in Tasks : loc[t].pc = "truncate" /\ loc[t].x = x

SyncReady(x) == ~table[x].lock

sync_inodes(t) ==
  LET x == loc[t].x
  IN  /\ loc[t].pc = "sync"
      /\ \/ /\ x > NR_INODE
            /\ Return(t)
            /\ UNCHANGED table
         \/ /\ x \in Slots /\ SyncReady(x) /\ ~table[x].dirt
            /\ Goto(t, [loc[t] EXCEPT !.x = @ + 1])
            /\ UNCHANGED table
         \/ /\ x \in Slots /\ SyncReady(x) /\ table[x].dirt
            /\ "sync_delete" \in Races \/ ~BeingDeleted(x)
            /\ table' = [table EXCEPT ![x].lock = TRUE]
            /\ Goto(t, [loc[t] EXCEPT !.pc = "write", !.num = table[x].num, !.back = "sync"])
      /\ UNCHANGED <<disk, imap, sb, links, refs>>

----------------------------------------------------------------------------
(* sys_mount() of d on the directory x, which namei() has just returned:   *)
(* refused if x is in use; read_super() locks the new super block.         *)
sys_mount(t, d, x) ==
  /\ t \in Admins /\ loc[t].pc = "idle" /\ d # ROOT_DEV
  /\ refs[t][x] > 0 /\ table[x].dev = ROOT_DEV /\ table[x].num = MountPoint
  /\ refs' = [refs EXCEPT ![t][x] = @ - 1]
  /\ IF table[x].count # 1 \/ sb[d].imount # NoSlot
     THEN /\ Goto(t, [Idle EXCEPT !.pc = "iput", !.x = x])
          /\ UNCHANGED sb
     ELSE /\ ~sb[d].present /\ ~sb[d].lock
          /\ sb' = [sb EXCEPT ![d].present = TRUE, ![d].lock = TRUE]
          /\ Goto(t, [Idle EXCEPT !.pc = "super", !.dev = d, !.x = x])
  /\ UNCHANGED <<table, disk, imap, links>>

(* read_super() ends, and sys_mount() with it. *)
SuperRead(t) ==
  /\ loc[t].pc = "super"
  /\ ~table[loc[t].x].mount
  /\ sb' = [sb EXCEPT ![loc[t].dev] = [present |-> TRUE, lock |-> FALSE,
                                       imount |-> loc[t].x]]
  /\ table' = [table EXCEPT ![loc[t].x].mount = TRUE, ![loc[t].x].dirt = TRUE]
  /\ Return(t)
  /\ UNCHANGED <<disk, imap, links, refs>>

(* The super block or a bitmap cannot be read. *)
SuperFails(t) ==
  /\ loc[t].pc = "super"
  /\ sb' = [sb EXCEPT ![loc[t].dev] = [present |-> FALSE, lock |-> FALSE,
                                       imount |-> NoSlot]]
  /\ Goto(t, [Idle EXCEPT !.pc = "iput", !.x = loc[t].x])
  /\ UNCHANGED <<table, disk, imap, links, refs>>

(* Mutant: sys_umount() does not look for inodes in use. *)
Busy_never(d) == FALSE

Busy(d) == \E x \in Slots : table[x].dev = d /\ table[x].count > 0

(* A task is in the iput() of sys_umount(): s_imount is still set. *)
Unmounting(t, d) ==
  loc[t].pc \in {"iput", "write"} /\ loc[t].back = "umount" /\ loc[t].dev = d

(* sys_umount(), up to its iput() of the mount point. *)
sys_umount(t, d) ==
  /\ t \in Admins /\ loc[t].pc = "idle" /\ d # ROOT_DEV
  /\ sb[d].imount # NoSlot /\ ~Busy(d)
  /\ "umount_lookup" \in Races \/ \A n \in Nums : ~Awaited(d, n)
  /\ "umounts" \in Races \/ \A u \in Tasks : ~Unmounting(u, d)
  /\ table' = [table EXCEPT ![sb[d].imount].mount = FALSE]
  /\ Goto(t, [Idle EXCEPT !.pc = "iput", !.dev = d, !.x = sb[d].imount,
                          !.back = "umount"])
  /\ UNCHANGED <<disk, imap, sb, links, refs>>

(* put_super() has released its buffers. *)
put_super(t) ==
  /\ loc[t].pc = "put"
  /\ sb' = [sb EXCEPT ![loc[t].dev].lock = FALSE]
  /\ Return(t)
  /\ UNCHANGED <<table, disk, imap, links, refs>>

----------------------------------------------------------------------------
(* What a task in a call does next. *)
Step(t) ==
  \/ IgetAgain(t) \/ read_inode(t) \/ iput(t) \/ free_inode(t)
  \/ write_inode(t) \/ sync_inodes(t)
  \/ SuperRead(t) \/ SuperFails(t) \/ put_super(t)

CallOf(t) ==
  \/ \E d \in Devs : new_inode(t, d) \/ sys_umount(t, d)
  \/ \E d \in Devs, n \in Nums : iget(t, d, n)
  \/ \E x \in Slots : StartIput(t, x)
  \/ \E x \in Slots, v \in 0 .. MaxLinks : SetLinks(t, x, v)
  \/ \E d \in Devs, x \in Slots : sys_mount(t, d, x)
  \/ StartSync(t)

InodesNext == \E t \in Tasks : Step(t) \/ CallOf(t)

InodesSpec == InodesInit /\ [][InodesNext]_inodeVars

----------------------------------------------------------------------------
(* References held inside calls. *)
InCall(l, x) ==
  \/ l.pc \in {"find", "read"} /\ l.e = x
  \/ l.pc \in {"iput", "truncate", "super", "write"} /\ l.back = "idle" /\ l.x = x

(* The references of the tasks, numbered: 0 is the one inside a call. *)
Uses(x) ==
  {u \in UNION {{t} \X (0 .. refs[t][x]) : t \in Tasks} : u[2] = 0 => InCall(loc[u[1]], x)}

Mounts(x) == {d \in Devs : sb[d].imount = x}

(* Every reference is counted once, through all sleeps of iget() and       *)
(* iput(): i_count is the number of holders, of calls in progress and of   *)
(* super blocks mounted on the inode.  iput() never meets a free inode and *)
(* free_inode() never one in use.                                          *)
RefsExact ==
  \A x \in Slots :
    /\ table[x].count = Cardinality(Uses(x)) + Cardinality(Mounts(x))
                         + (IF x = 1 THEN RootUses ELSE 0)
    /\ BeingDeleted(x) => table[x].count = 1 /\ table[x].nlinks = 0

(* An inode of a device is in the table at most once, although iget() may  *)
(* sleep between finding it and taking it.                                 *)
InodeUnique ==
  \A x, y \in Slots :
    table[x].dev = table[y].dev /\ table[x].num = table[y].num /\ table[x].dev # 0
      => x = y

(* An inode nobody uses is clean and unlocked: get_empty_inode() takes it  *)
(* without a sleep, and throws no change away.                             *)
FreeIsClean ==
  \A x \in Slots : table[x].count = 0 => ~table[x].dirt /\ ~table[x].lock

(* The copy in the table, and the disk once the copy is clean or gone,     *)
(* hold the link count as it was last set.                                 *)
InodeCoherent ==
  \A d \in Devs : \A n \in imap[d] :
    LET read == {loc[t].e : t \in {u \in Tasks : loc[u].pc = "read"}}
        here == Matches(table, d, n) \ read
    IN  /\ here = {} => disk[d][n] = links[d][n]
        /\ \A x \in here :
             /\ table[x].nlinks = links[d][n]
             /\ table[x].dirt \/ disk[d][n] = links[d][n]

(* A device in use stays mounted: whoever holds one of its inodes, or is   *)
(* reading or writing it, finds its super block, so that read_inode() and  *)
(* write_inode() do not panic.                                             *)
DeviceStays ==
  \A x \in Slots : table[x].count > 0 /\ table[x].dev # 0 => sb[table[x].dev].present

(* The inode table: one copy of an inode, and free ones that can be taken. *)
InodesInv == InodeUnique /\ FreeIsClean
=============================================================================
