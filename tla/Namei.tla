-------------------------------- MODULE Namei --------------------------------
(***************************************************************************)
(* Directories and path names: fs/namei.c and the calls of fs/open.c that  *)
(* look names up.                                                          *)
(*                                                                         *)
(* fs is the file system as the calls see it: its inodes (i_nlinks and     *)
(* i_count; "none" is an inode whose i_mode is not set yet), the entries   *)
(* of its directories, the blocks they have, and how many blocks are free. *)
(* An entry whose inode is 0 is free.  pwd and opened are the references   *)
(* processes keep between calls.                                           *)
(*                                                                         *)
(* A call runs in steps from one place where it can sleep to the next; the *)
(* sleeps of bread(), iget() and new_inode() lie between them.  loc holds  *)
(* what a call has in its variables: dir, inode and de, the slot of an     *)
(* entry found before a sleep and used after it.  iput() is one step here; *)
(* its own sleeps are in Inodes, mount points are too.                     *)
(*                                                                         *)
(* The tasks are the superuser, so permission() refuses deleted inodes     *)
(* only.  A path is absolute if it begins with "/"; it ends in a name.     *)
(***************************************************************************)
EXTENDS Naturals, Sequences, FiniteSets, FiniteSetsExt, SequencesExt

CONSTANTS Tasks,      \* processes
          NInodes,    \* s_ninodes
          PerBlock,   \* DIR_ENTRIES_PER_BLOCK
          PathsOf,    \* the paths each task uses
          StartFs,    \* the file system at the start
          StartPwd    \* the working directory of each task

ASSUME NameiAssumption ==
  NInodes \in Nat /\ PerBlock \in Nat \ {0} /\ StartPwd \in [Tasks -> 1 .. NInodes]

VARIABLES fs, pwd, opened, panic, loc

nameiVars == <<fs, pwd, opened, panic, loc>>

ROOT_INO == 1
Inodes == 1 .. NInodes
FreeInode == [kind |-> "free", links |-> 0, count |-> 0]
NoInode == 0

Resting == [op |-> "none", pc |-> "idle", path |-> << >>, dir |-> NoInode,
            inode |-> NoInode, de |-> 0, more |-> << >>]

NameiInit ==
  /\ fs = StartFs
  /\ pwd = StartPwd
  /\ opened = [t \in Tasks |-> NoInode]
  /\ panic = FALSE
  /\ loc = [t \in Tasks |-> Resting]

Goto(t, l) == loc' = [loc EXCEPT ![t] = l]
Return(t) == Goto(t, Resting)

----------------------------------------------------------------------------
(* Operators on the file system F.                                         *)

(* iget() of an inode: one more reference. *)
Take(F, n) == [F EXCEPT !.ino[n].count = @ + 1]

(* iput(): the last reference to an inode without links frees it.          *)
(* truncate() gives back the blocks of a directory.                        *)
Put(F, n) ==
  IF F.ino[n].count > 1 \/ F.ino[n].links > 0
  THEN [F EXCEPT !.ino[n].count = @ - 1]
  ELSE [F EXCEPT !.ino[n] = FreeInode, !.dir[n] = << >>, !.blk[n] = 0,
                 !.nfree = @ + F.blk[n]]

(* permission(): "not even root can read/write a deleted file". *)
permission(F, n) == F.ino[n].links > 0

(* Mutant: the search stops before the last entry. *)
find_entry_short(F, d, name) ==
  LET S == {i \in DOMAIN F.dir[d] : /\ i < Len(F.dir[d]) /\ F.dir[d][i].ino # NoInode
                                    /\ F.dir[d][i].name = name}
  IN  IF S = {} THEN 0 ELSE Min(S)

(* find_entry(): the first entry with the name; '..' in the root is '.'.   *)
(* 0 if there is none.                                                     *)
find_entry(F, d, name) ==
  LET wanted == IF d = ROOT_INO /\ name = ".." THEN "." ELSE name
      S == {i \in DOMAIN F.dir[d] : F.dir[d][i].ino # NoInode /\ F.dir[d][i].name = wanted}
  IN  IF S = {} THEN 0 ELSE Min(S)

FreeSlots(F, d) == {i \in DOMAIN F.dir[d] : F.dir[d][i].ino = NoInode}
NeedsBlock(F, d) == FreeSlots(F, d) = {} /\ Len(F.dir[d]) = F.blk[d] * PerBlock
HasRoom(F, d) == ~NeedsBlock(F, d) \/ F.nfree > 0

(* add_entry() and the de->inode = ... after it: the first free slot, or   *)
(* one more, with a new block if the last one is full.                     *)
add_entry(F, d, name, n) ==
  LET e == [name |-> name, ino |-> n]
  IN  IF FreeSlots(F, d) # {} THEN [F EXCEPT !.dir[d][Min(FreeSlots(F, d))] = e]
      ELSE IF NeedsBlock(F, d)
           THEN [F EXCEPT !.dir[d] = Append(@, e), !.blk[d] = @ + 1, !.nfree = @ - 1]
           ELSE [F EXCEPT !.dir[d] = Append(@, e)]

FreeNumbers(F) == {n \in Inodes : F.ino[n].kind = "free"}

(* new_inode(): i_nlinks is 1 from the start, i_mode is set later. *)
new_inode(F) ==
  [F EXCEPT !.ino[Min(FreeNumbers(F))] = [kind |-> "none", links |-> 1, count |-> 1]]

(* empty_dir(): nothing but '.' and '..'. *)
empty_dir(F, n) == \A i \in 3 .. Len(F.dir[n]) : F.dir[n][i].ino = NoInode

----------------------------------------------------------------------------
(* The calls with one path.  "stat" stands for all that look a name up and *)
(* put the inode back: sys_stat, sys_utime, sys_access, sys_chmod and      *)
(* sys_chown.                                                              *)
Calls == {"stat", "open", "creat", "excl", "mknod", "mkdir", "rmdir", "unlink", "chdir"}

(* get_dir() has a reference to directory d and the rest of the path to    *)
(* walk.  Whatever is no directory, or deleted, ends the call.             *)
Arrive(t, l, F, d, path) ==
  LET G == Take(F, d)
  IN  IF F.ino[d].kind = "dir" /\ permission(F, d)
      THEN /\ fs' = G
           /\ Goto(t, [l EXCEPT !.pc = IF Len(path) = 1 THEN "name" ELSE "walk",
                                !.dir = d, !.path = path, !.de = 0])
      ELSE /\ fs' = IF l.inode = NoInode THEN Put(G, d) ELSE Put(Put(G, d), l.inode)
           /\ Return(t)

BeginWalk(t, l, F, path) ==
  IF Head(path) = "/" THEN Arrive(t, l, F, ROOT_INO, Tail(path))
                      ELSE Arrive(t, l, F, pwd[t], path)

StartCall(t, op, path) ==
  /\ ~panic /\ loc[t].pc = "idle"
  /\ op \in {"open", "creat", "excl"} => opened[t] = NoInode
  /\ BeginWalk(t, [Resting EXCEPT !.op = op], fs, path)
  /\ UNCHANGED <<pwd, opened, panic>>

(* sys_link(): namei(oldname) first. *)
StartLink(t, old, new) ==
  /\ ~panic /\ loc[t].pc = "idle"
  /\ BeginWalk(t, [Resting EXCEPT !.op = "link", !.more = new], fs, old)
  /\ UNCHANGED <<pwd, opened, panic>>

(* Mutant: an error path of sys_link() forgets oldinode. *)
Fail_forgets(t, F) ==
  /\ fs' = IF loc[t].dir = NoInode THEN F ELSE Put(F, loc[t].dir)
  /\ Return(t)

(* The call fails: the inodes it holds are put back. *)
Fail(t, F) ==
  LET G == IF loc[t].inode = NoInode THEN F ELSE Put(F, loc[t].inode)
  IN  /\ fs' = IF loc[t].dir = NoInode THEN G ELSE Put(G, loc[t].dir)
      /\ Return(t)

(* get_dir(): the next component of the path is looked up. *)
WalkComponent(t) ==
  LET l == loc[t]
      i == find_entry(fs, l.dir, Head(l.path))
  IN  /\ ~panic /\ l.pc = "walk"
      /\ IF i = 0
         THEN Fail(t, fs)
         ELSE /\ fs' = Put(fs, l.dir)
              /\ Goto(t, [l EXCEPT !.pc = "iget", !.de = fs.dir[l.dir][i].ino,
                                   !.dir = NoInode, !.path = Tail(@)])
      /\ UNCHANGED <<pwd, opened, panic>>

(* iget() of the next directory. *)
WalkOn(t) ==
  /\ ~panic /\ loc[t].pc = "iget"
  /\ Arrive(t, loc[t], fs, loc[t].de, loc[t].path)
  /\ UNCHANGED <<pwd, opened, panic>>

Found(t) == find_entry(fs, loc[t].dir, Last(loc[t].path))

----------------------------------------------------------------------------
(* namei(), and open_namei() of a name that is there: the number is read,  *)
(* the directory put back, and the inode got.                              *)
Lookup(t) ==
  LET l == loc[t]
      n == fs.dir[l.dir][Found(t)].ino
  IN  /\ ~panic /\ l.pc = "name"
      /\ l.op \in {"stat", "chdir", "open", "creat"} \/ (l.op = "link" /\ l.more # << >>)
      /\ IF Found(t) = 0
         THEN l.op # "creat" /\ Fail(t, fs)
         ELSE /\ fs' = Put(fs, l.dir)
              /\ Goto(t, [l EXCEPT !.pc = "got", !.dir = NoInode, !.de = n])
      /\ UNCHANGED <<pwd, opened, panic>>

(* Mutant: sys_link() takes any inode. *)
Linkable_any(F, n) == TRUE

(* sys_link() refuses directories. *)
Linkable(F, n) == F.ino[n].kind # "dir"

(* iget() returns at the end of namei().  Here sys_stat() ends. *)
StatReturn(t) ==
  LET n == loc[t].de
  IN  /\ ~panic /\ loc[t].pc = "got" /\ loc[t].op = "stat"
      /\ fs' = Put(Take(fs, n), n)
      /\ Return(t)
      /\ UNCHANGED <<pwd, opened, panic>>

sys_chdir(t) ==
  LET n == loc[t].de
      F == Take(fs, n)
  IN  /\ ~panic /\ loc[t].pc = "got" /\ loc[t].op = "chdir"
      /\ IF fs.ino[n].kind = "dir"
         THEN fs' = Put(F, pwd[t]) /\ pwd' = [pwd EXCEPT ![t] = n]
         ELSE fs' = Put(F, n) /\ UNCHANGED pwd
      /\ Return(t)
      /\ UNCHANGED <<opened, panic>>

(* open_namei() has the inode.  A directory is not opened for writing. *)
open_namei(t) ==
  LET l == loc[t]
      n == l.de
      F == Take(fs, n)
  IN  /\ ~panic /\ l.pc = "got" /\ l.op \in {"open", "creat"}
      /\ IF permission(fs, n) /\ (l.op = "creat" => fs.ino[n].kind # "dir")
         THEN fs' = F /\ opened' = [opened EXCEPT ![t] = n]
         ELSE fs' = Put(F, n) /\ UNCHANGED opened
      /\ Return(t)
      /\ UNCHANGED <<pwd, panic>>

(* sys_link() has oldinode and looks up the new name's directory. *)
LinkOld(t) ==
  LET l == loc[t]
      n == l.de
      F == Take(fs, n)
  IN  /\ ~panic /\ l.pc = "got" /\ l.op = "link"
      /\ IF Linkable(fs, n)
         THEN BeginWalk(t, [l EXCEPT !.inode = n, !.more = << >>], F, l.more)
         ELSE fs' = Put(F, n) /\ Return(t)
      /\ UNCHANGED <<pwd, opened, panic>>

(* sys_close() of the last descriptor. *)
sys_close(t) ==
  /\ ~panic /\ loc[t].pc = "idle" /\ opened[t] # NoInode
  /\ fs' = Put(fs, opened[t])
  /\ opened' = [opened EXCEPT ![t] = NoInode]
  /\ UNCHANGED <<pwd, panic, loc>>

----------------------------------------------------------------------------
(* open_namei() asks for permission after the search, mknod and mkdir      *)
(* before it, when they arrive at the directory.                           *)
MayCreate(F, l) == l.op \in {"creat", "excl"} => permission(F, l.dir)

(* The name must not exist: O_CREAT of a new name, O_EXCL, mknod, mkdir,   *)
(* the new name of link.  new_inode() may find no number.                  *)
Create(t) ==
  LET l == loc[t]
      n == Min(FreeNumbers(fs))
  IN  /\ ~panic /\ l.pc = "name"
      /\ \/ /\ l.op \in {"excl", "mknod", "mkdir"} \/ (l.op = "link" /\ l.more = << >>)
            /\ Found(t) # 0
            /\ Fail(t, fs)
         \/ /\ l.op \in {"creat", "excl", "mknod", "mkdir"}
            /\ Found(t) = 0
            /\ FreeNumbers(fs) = {} \/ ~MayCreate(fs, l)
            /\ Fail(t, fs)
         \/ /\ l.op \in {"creat", "excl", "mknod", "mkdir"}
            /\ Found(t) = 0
            /\ FreeNumbers(fs) # {} /\ MayCreate(fs, l)
            /\ fs' = [new_inode(fs) EXCEPT
                        !.ino[n].kind = IF l.op = "mkdir" THEN "none" ELSE "file"]
            /\ Goto(t, [l EXCEPT !.pc = IF l.op = "mkdir" THEN "block" ELSE "add",
                                 !.inode = n])
         \/ /\ l.op = "link" /\ l.more = << >> /\ Found(t) = 0
            /\ Goto(t, [l EXCEPT !.pc = "add"])
            /\ UNCHANGED fs
      /\ UNCHANGED <<pwd, opened, panic>>

(* sys_mkdir() gets a block and fills in '.' and '..'; only now is it a    *)
(* directory.                                                              *)
MkdirBlock(t) ==
  LET l == loc[t]
      n == l.inode
  IN  /\ ~panic /\ l.pc = "block" /\ fs.nfree > 0
      /\ fs' = [fs EXCEPT !.nfree = @ - 1, !.blk[n] = 1,
                  !.ino[n].kind = "dir", !.ino[n].links = 2,
                  !.dir[n] = <<[name |-> ".", ino |-> n], [name |-> "..", ino |-> l.dir]>>]
      /\ Goto(t, [l EXCEPT !.pc = "add"])
      /\ UNCHANGED <<pwd, opened, panic>>

(* It gets none, or cannot read it: i_nlinks-- and the inode goes. *)
MkdirNoBlock(t) ==
  /\ ~panic /\ loc[t].pc = "block"
  /\ Fail(t, [fs EXCEPT !.ino[loc[t].inode].links = @ - 1])
  /\ UNCHANGED <<pwd, opened, panic>>

ParentLinks(l) == IF l.op = "mkdir" THEN 1 ELSE 0

(* add_entry() finds room: the entry is there.  sys_link() puts the        *)
(* directory back, which may sleep, before it counts the link.             *)
AddEntry(t) ==
  LET l == loc[t]
      d == l.dir
      n == l.inode
      F == add_entry(fs, d, Last(l.path), n)
      G == Put([F EXCEPT !.ino[d].links = @ + ParentLinks(l)], d)
  IN  /\ ~panic /\ l.pc = "add" /\ HasRoom(fs, d)
      /\ \/ /\ l.op = "link"
            /\ fs' = G
            /\ Goto(t, [l EXCEPT !.pc = "count", !.dir = NoInode])
            /\ UNCHANGED opened
         \/ /\ l.op \in {"mknod", "mkdir"}
            /\ fs' = Put(G, n)
            /\ Return(t)
            /\ UNCHANGED opened
         \/ /\ l.op \in {"creat", "excl"}
            /\ fs' = G
            /\ opened' = [opened EXCEPT ![t] = n]
            /\ Return(t)
      /\ UNCHANGED <<pwd, panic>>

(* The new inode loses the link it was made with. *)
Unlinked(op, F, n) == IF op = "link" THEN F ELSE [F EXCEPT !.ino[n].links = 0]

(* add_entry() finds no room.  sys_mkdir() frees the new directory's block *)
(* and then iput() does it again: free_block() panics.                     *)
NoEntry(t) ==
  LET l == loc[t]
  IN  /\ ~panic /\ l.pc = "add" /\ ~HasRoom(fs, l.dir)
      /\ Fail(t, Unlinked(l.op, fs, l.inode))
      /\ panic' = (l.op = "mkdir")
      /\ UNCHANGED <<pwd, opened>>

(* The end of sys_link(). *)
LinkCount(t) ==
  LET n == loc[t].inode
  IN  /\ ~panic /\ loc[t].pc = "count"
      /\ fs' = Put([fs EXCEPT !.ino[n].links = @ + 1], n)
      /\ Return(t)
      /\ UNCHANGED <<pwd, opened, panic>>

----------------------------------------------------------------------------
(* sys_unlink() and sys_rmdir(): the entry is found, then iget() sleeps    *)
(* with its buffer held.                                                   *)
RemoveFind(t) ==
  LET l == loc[t]
  IN  /\ ~panic /\ l.pc = "name" /\ l.op \in {"unlink", "rmdir"}
      /\ IF Found(t) = 0
         THEN Fail(t, fs)
         ELSE /\ Goto(t, [l EXCEPT !.pc = "remove", !.de = Found(t),
                                   !.inode = fs.dir[l.dir][Found(t)].ino])
              /\ fs' = fs
      /\ UNCHANGED <<pwd, opened, panic>>

(* sys_rmdir() takes a directory that nobody uses, not '.'. *)
Removable(F, l) ==
  F.ino[l.inode].kind = "dir" /\ l.inode # l.dir /\ F.ino[l.inode].count = 1

(* iget() returns.  sys_unlink() takes the entry away; sys_rmdir() checks  *)
(* the directory and reads it.                                             *)
RemoveEntry(t) ==
  LET l == loc[t]
      n == l.inode
      F == Take(fs, n)
      G == [F EXCEPT !.dir[l.dir][l.de].ino = NoInode,
                     !.ino[n].links = IF @ = 0 THEN 0 ELSE @ - 1]
  IN  /\ ~panic /\ l.pc = "remove"
      /\ \/ /\ l.op = "unlink" /\ fs.ino[n].kind # "dir"
            /\ fs' = Put(Put(G, n), l.dir)
            /\ Return(t)
         \/ /\ \/ l.op = "unlink" /\ fs.ino[n].kind = "dir"
               \/ l.op = "rmdir" /\ ~Removable(F, l)
            /\ fs' = Put(Put(F, n), l.dir)
            /\ Return(t)
         \/ /\ l.op = "rmdir" /\ Removable(F, l)
            /\ fs' = F
            /\ Goto(t, [l EXCEPT !.pc = "empty"])
      /\ UNCHANGED <<pwd, opened, panic>>

(* empty_dir() has read the directory. *)
RemoveDir(t) ==
  LET l == loc[t]
      n == l.inode
      G == [fs EXCEPT !.dir[l.dir][l.de].ino = NoInode, !.ino[n].links = 0,
                      !.ino[l.dir].links = @ - 1]
  IN  /\ ~panic /\ l.pc = "empty"
      /\ IF empty_dir(fs, n)
         THEN fs' = Put(Put(G, l.dir), n) /\ Return(t)
         ELSE Fail(t, fs)
      /\ UNCHANGED <<pwd, opened, panic>>

----------------------------------------------------------------------------
Step(t) ==
  \/ WalkComponent(t) \/ WalkOn(t) \/ Lookup(t) \/ Create(t)
  \/ StatReturn(t) \/ sys_chdir(t) \/ open_namei(t) \/ LinkOld(t)
  \/ MkdirBlock(t) \/ MkdirNoBlock(t) \/ AddEntry(t) \/ NoEntry(t) \/ LinkCount(t)
  \/ RemoveFind(t) \/ RemoveEntry(t) \/ RemoveDir(t)

NameiNext ==
  \E t \in Tasks :
    \/ Step(t) \/ sys_close(t)
    \/ \E op \in Calls, p \in PathsOf[t] : StartCall(t, op, p)
    \/ \E old \in PathsOf[t], new \in PathsOf[t] : StartLink(t, old, new)

NameiSpec == NameiInit /\ [][NameiNext]_nameiVars

----------------------------------------------------------------------------
Dirs == {n \in Inodes : fs.ino[n].kind = "dir"}
Entries == UNION {{<<d, i>> : i \in DOMAIN fs.dir[d]} : d \in Dirs}
Target(e) == fs.dir[e[1]][e[2]].ino

(* References to inode n: working directories, open files, calls. *)
Users(n) ==
  Cardinality({t \in Tasks : pwd[t] = n}) + Cardinality({t \in Tasks : opened[t] = n})
  + Cardinality({t \in Tasks : loc[t].dir = n})
  + Cardinality({t \in Tasks : loc[t].inode = n /\ loc[t].pc # "remove"})

(* Whatever way a call ends, it gives back every inode it took, and none   *)
(* twice: i_count is the number of users at every moment.                  *)
UsersExact ==
  ~panic => \A n \in Inodes :
    fs.ino[n].count = Users(n) + (IF n = ROOT_INO THEN 1 ELSE 0)

(* i_nlinks is the number of directory entries, '.' and '..' included.     *)
(* Three calls are in between: a creation whose entry is not there yet, a  *)
(* link whose entry is there and not counted.                              *)
LinksExact ==
  ~panic => \A n \in Inodes :
    fs.ino[n].links + Cardinality({t \in Tasks : loc[t].pc = "count" /\ loc[t].inode = n})
      = Cardinality({e \in Entries : Target(e) = n})
        + Cardinality({t \in Tasks : loc[t].inode = n /\ loc[t].op # "link"
                                     /\ loc[t].pc \in {"block", "add"}})
        - Cardinality({t \in Tasks : loc[t].dir = n /\ loc[t].op = "mkdir"
                                     /\ loc[t].pc = "add"})

(* No entry leads to an inode that is free, and no name is there twice. *)
NamesSound ==
  ~panic => \A d \in Dirs : \A i \in DOMAIN fs.dir[d] :
    fs.dir[d][i].ino # NoInode =>
      /\ fs.ino[fs.dir[d][i].ino].kind # "free"
      /\ \A j \in DOMAIN fs.dir[d] :
           fs.dir[d][j].ino # NoInode /\ fs.dir[d][j].name = fs.dir[d][i].name => i = j

(* The directories are a tree: each one that is linked has one entry in    *)
(* one other directory, the one its '..' leads to.                         *)
DirTree ==
  ~panic => \A n \in Dirs \ {ROOT_INO} :
    (\A t \in Tasks : loc[t].inode = n => loc[t].pc # "add") /\ fs.ino[n].links > 0 =>
      \E d \in Dirs \ {n} :
        /\ {e \in Entries : Target(e) = n /\ e[2] > 2} = {e \in Entries : Target(e) = n /\ e[1] = d /\ e[2] > 2}
        /\ \E i \in 3 .. Len(fs.dir[d]) : fs.dir[d][i].ino = n
        /\ fs.dir[n][2].ino = d

(* Both counts of an inode are exact, whatever way calls end.              *)
CountsExact == UsersExact /\ LinksExact
=============================================================================
