----------------------------- MODULE FileBlocks -----------------------------
(***************************************************************************)
(* The blocks of files: the zone bitmap of fs/bitmap.c, the block map of   *)
(* fs/inode.c (_bmap() with direct, indirect and double indirect blocks),  *)
(* fs/truncate.c, and file_read() and file_write() on top of them.         *)
(*                                                                         *)
(* zmap is the set of blocks whose bit is set, zone the pointers in the    *)
(* inodes, mem the words of every block: pointers or data, the code does   *)
(* not tell them apart either.  Block 0 means none.  written and lost are  *)
(* history variables: the blocks of a file that hold data, and the blocks  *)
(* that truncate() could not find because of an I/O error.                 *)
(*                                                                         *)
(* A task works on one block of one file; a step runs to the next place    *)
(* where the code can sleep (bread(), getblk() and get_hash_table() all    *)
(* can).  A cell is a place for a pointer: [b |-> 0, i |-> n] is           *)
(* i_zone[n] of the file, otherwise word i of block b.                     *)
(***************************************************************************)
EXTENDS Naturals, Sequences, FiniteSetsExt, SequencesExt

CONSTANTS Tasks,     \* processes
          Files,     \* inodes, as numbers
          NBlocks,   \* s_nzones: data blocks of the device
          NDirect,   \* direct pointers of an inode, 7 in the code
          NWords,    \* pointers in a block, 512 in the code
          Indexes,   \* blocks of a file that are read and written
          IOErrors,  \* may bread() fail?
          Races      \* meetings of two calls that the code does not guard

ASSUME FileBlocksAssumption ==
  /\ {NBlocks, NDirect, NWords} \subseteq Nat /\ NWords > 0
  /\ Files \subseteq Nat
  /\ Indexes \subseteq 0 .. NDirect + NWords + NWords * NWords - 1
  /\ IOErrors \in BOOLEAN
  /\ Races \subseteq {"create", "truncate"}

VARIABLES zmap, zone, mem, size, written, lost, loc

blockVars == <<zmap, zone, mem, size, written, lost, loc>>

Blocks == 1 .. NBlocks
Words == 0 .. NWords - 1
Zones == 0 .. NDirect + 1
None == 0
Cleared == [w \in Words |-> 0]

(* A free block holds what its last owner left; 1 stands for any of it. *)
Garbage == [w \in Words |-> 1]

(* What block k of file f is filled with. *)
Stamp(f, k) == 100 * f + 10 + k

Resting == [pc |-> "idle", op |-> "none", f |-> 0, k |-> 0, path |-> << >>,
            cell |-> [b |-> 0, i |-> 0], blk |-> None, todo |-> << >>]

BlocksInit ==
  /\ zmap = {}
  /\ zone = [f \in Files |-> [z \in Zones |-> None]]
  /\ mem = [b \in Blocks |-> Garbage]
  /\ size = [f \in Files |-> 0]
  /\ written = [f \in Files |-> {}]
  /\ lost = {}
  /\ loc = [t \in Tasks |-> Resting]

(* The indices by which _bmap() reaches block k: first into i_zone[], then *)
(* into the indirect blocks.                                               *)
Path(k) ==
  IF k < NDirect THEN <<k>>
  ELSE IF k - NDirect < NWords THEN <<NDirect, k - NDirect>>
  ELSE LET m == k - NDirect - NWords
       IN  <<NDirect + 1, m \div NWords, m % NWords>>

Fetch(f, c) == IF c.b = 0 THEN zone[f][c.i] ELSE mem[c.b][c.i]

Goto(t, l) == loc' = [loc EXCEPT ![t] = l]
Return(t) == Goto(t, Resting)

----------------------------------------------------------------------------
(* A call on file f may begin beside the calls in progress. *)
Using(f, op) == \E t \in Tasks : loc[t].f = f /\ loc[t].pc # "idle" /\ loc[t].op = op

Admitted(f, op) ==
  CASE op = "read"     -> "truncate" \in Races \/ ~Using(f, "truncate")
    [] op = "write"    -> /\ "truncate" \in Races \/ ~Using(f, "truncate")
                          /\ "create" \in Races \/ ~Using(f, "write")
    [] op = "truncate" -> "truncate" \in Races
                            \/ ~(Using(f, "read") \/ Using(f, "write") \/ Using(f, "truncate"))

(* file_read() inside the file, or file_write(): _bmap() starts in i_zone. *)
StartAccess(t, op, f, k) ==
  /\ loc[t].pc = "idle" /\ op \in {"read", "write"} /\ Admitted(f, op)
  /\ op = "read" => k < size[f]
  /\ Goto(t, [Resting EXCEPT !.pc = "map", !.op = op, !.f = f, !.k = k,
                !.path = Tail(Path(k)), !.cell = [b |-> 0, i |-> Head(Path(k))]])
  /\ UNCHANGED <<zmap, zone, mem, size, written, lost>>

(* file_write() with O_APPEND begins at i_size. *)
StartAppend(t, f) ==
  /\ size[f] \in Indexes
  /\ StartAccess(t, "write", f, size[f])

(* The pointer b was found in the cell: go on in block b, or be done. *)
Follow(t, b) ==
  IF loc[t].path = << >>
  THEN Goto(t, [loc[t] EXCEPT !.pc = "data", !.blk = b])
  ELSE Goto(t, [loc[t] EXCEPT !.pc = "map", !.blk = None, !.path = Tail(@),
                  !.cell = [b |-> b, i |-> Head(loc[t].path)]])

(* _bmap() looks at a cell that is not empty. *)
MapFollow(t) ==
  /\ loc[t].pc = "map"
  /\ Fetch(loc[t].f, loc[t].cell) # None
  /\ Follow(t, Fetch(loc[t].f, loc[t].cell))
  /\ UNCHANGED <<zmap, zone, mem, size, written, lost>>

(* bmap() meets a hole: file_read() gives zeros. *)
MapHole(t) ==
  /\ loc[t].pc = "map" /\ loc[t].op = "read"
  /\ Fetch(loc[t].f, loc[t].cell) = None
  /\ Return(t)
  /\ UNCHANGED <<zmap, zone, mem, size, written, lost>>

(* Mutant: the bit is set only when the block is entered. *)
Marked_late(b) == zmap

Marked(b) == zmap \cup {b}

(* new_block(): the first zero bit is set, then getblk() sleeps. *)
new_block(t) ==
  /\ loc[t].pc = "map" /\ loc[t].op = "write"
  /\ Fetch(loc[t].f, loc[t].cell) = None
  /\ Blocks \ zmap # {}
  /\ LET b == Min(Blocks \ zmap)
     IN  /\ zmap' = Marked(b)
         /\ Goto(t, [loc[t] EXCEPT !.pc = "new", !.blk = b])
  /\ UNCHANGED <<zone, mem, size, written, lost>>

(* new_block() finds no zero bit; what was entered above it stays. *)
DiskFull(t) ==
  /\ loc[t].pc = "map" /\ loc[t].op = "write"
  /\ Fetch(loc[t].f, loc[t].cell) = None
  /\ Blocks \ zmap = {}
  /\ Return(t)
  /\ UNCHANGED <<zmap, zone, mem, size, written, lost>>

(* Mutant: the new block keeps what it held. *)
ClearBlock_not(b) == mem

ClearBlock(b) == [mem EXCEPT ![b] = Cleared]

(* new_block() returns: the block is clear and is entered in the cell. *)
Entered(t) ==
  LET b == loc[t].blk
      c == loc[t].cell
  IN  /\ loc[t].pc = "new"
      /\ IF c.b = 0
         THEN /\ zone' = [zone EXCEPT ![loc[t].f][c.i] = b]
              /\ mem' = ClearBlock(b)
         ELSE /\ mem' = [ClearBlock(b) EXCEPT ![c.b][c.i] = b]
              /\ UNCHANGED zone
      /\ Follow(t, b)
      /\ UNCHANGED <<zmap, size, written, lost>>

(* bread() fails, of an indirect block or of the data block. *)
ReadFails(t) ==
  /\ IOErrors
  /\ loc[t].pc = "data" \/ (loc[t].pc = "map" /\ loc[t].cell.b # 0)
  /\ Return(t)
  /\ UNCHANGED <<zmap, zone, mem, size, written, lost>>

(* file_write() fills the block; file_read() has its data. *)
Transfer(t) ==
  LET f == loc[t].f
      k == loc[t].k
  IN  /\ loc[t].pc = "data"
      /\ IF loc[t].op = "write"
         THEN /\ mem' = [mem EXCEPT ![loc[t].blk][0] = Stamp(f, k)]
              /\ size' = [size EXCEPT ![f] = Max({@, k + 1})]
              /\ written' = [written EXCEPT ![f] = @ \cup {k}]
         ELSE UNCHANGED <<mem, size, written>>
      /\ Return(t)
      /\ UNCHANGED <<zmap, zone, lost>>

----------------------------------------------------------------------------
(* Work of truncate(): a cell and how many indirect blocks hang below it,  *)
(* or (depth 0 and word NWords) a block that is left to free itself.       *)
Item(b, i, depth) == [b |-> b, i |-> i, depth |-> depth]

(* truncate(), by open() with O_TRUNC or by the iput() that deletes.       *)
StartTruncate(t, f) ==
  /\ loc[t].pc = "idle" /\ Admitted(f, "truncate")
  /\ Goto(t, [Resting EXCEPT !.pc = "free", !.op = "truncate", !.f = f,
                !.todo = [z \in 1 .. NDirect + 2 |->
                            Item(0, z - 1, IF z <= NDirect THEN 0 ELSE z - NDirect)]])
  /\ UNCHANGED <<zmap, zone, mem, size, written, lost>>

(* The blocks an indirect block of this depth leads to. *)
Under(b, depth) ==
  LET next == {mem[b][w] : w \in Words} \ {None}
  IN  IF depth = 1 THEN next
      ELSE next \cup ((UNION {{mem[c][w] : w \in Words} : c \in next}) \ {None})

(* Mutant: of a double indirect block only the pointers are freed. *)
Below_shallow(b, depth) ==
  [w \in 1 .. NWords |-> Item(b, w - 1, 0)] \o <<Item(b, NWords, 0)>>

(* free_ind() and free_dind(): all a block points to, then the block. *)
Below(b, depth) ==
  [w \in 1 .. NWords |-> Item(b, w - 1, depth - 1)] \o <<Item(b, NWords, 0)>>

(* free_block(): clears the bit and forgets the buffer. *)
free_block(b) ==
  /\ zmap' = zmap \ {b}
  /\ mem' = [mem EXCEPT ![b] = Garbage]

(* The block an item is about. *)
Pointer(f, h) == IF h.i = NWords /\ h.b # 0 THEN h.b ELSE Fetch(f, h)

(* The items of truncate() that are not empty cells. *)
Pending(t) ==
  {i \in 1 .. Len(loc[t].todo) : Pointer(loc[t].f, loc[t].todo[i]) # None}

(* One free_block() of truncate(), or one bread() of an indirect block,    *)
(* whose failure leaves all that is below it marked for ever.              *)
TruncateNext(t) ==
  /\ loc[t].pc = "free" /\ Pending(t) # {}
  /\ LET n == Min(Pending(t))
         f == loc[t].f
         h == loc[t].todo[n]
         p == Pointer(f, h)
         rest == SubSeq(loc[t].todo, n + 1, Len(loc[t].todo))
     IN  \/ /\ h.depth = 0
            /\ free_block(p)
            /\ zone' = IF h.b = 0 THEN [zone EXCEPT ![f][h.i] = None] ELSE zone
            /\ Goto(t, [loc[t] EXCEPT !.todo = rest])
            /\ UNCHANGED lost
         \/ /\ h.depth > 0
            /\ Goto(t, [loc[t] EXCEPT !.todo = Below(p, h.depth) \o rest])
            /\ UNCHANGED <<zmap, zone, mem, lost>>
         \/ /\ IOErrors /\ h.depth > 0
            /\ Goto(t, [loc[t] EXCEPT !.todo = <<Item(p, NWords, 0)>> \o rest])
            /\ lost' = lost \cup Under(p, h.depth)
            /\ UNCHANGED <<zmap, zone, mem>>
  /\ UNCHANGED <<size, written>>

(* The end of truncate(): only now are i_zone[7] and [8] cleared. *)
TruncateEnd(t) ==
  /\ loc[t].pc = "free" /\ Pending(t) = {}
  /\ zone' = [zone EXCEPT ![loc[t].f][NDirect] = None, ![loc[t].f][NDirect + 1] = None]
  /\ size' = [size EXCEPT ![loc[t].f] = 0]
  /\ written' = [written EXCEPT ![loc[t].f] = {}]
  /\ Return(t)
  /\ UNCHANGED <<zmap, mem, lost>>

Step(t) ==
  \/ MapFollow(t) \/ MapHole(t) \/ new_block(t) \/ DiskFull(t) \/ Entered(t)
  \/ ReadFails(t) \/ Transfer(t) \/ TruncateNext(t) \/ TruncateEnd(t)

BlocksNext ==
  \E t \in Tasks :
    \/ Step(t)
    \/ \E op \in {"read", "write"}, f \in Files, k \in Indexes : StartAccess(t, op, f, k)
    \/ \E f \in Files : StartAppend(t, f) \/ StartTruncate(t, f)

BlocksSpec == BlocksInit /\ [][BlocksNext]_blockVars

----------------------------------------------------------------------------
(* File f is being taken apart. *)
Truncating(f) == \E t \in Tasks : loc[t].op = "truncate" /\ loc[t].f = f

(* The blocks on the way to block k of f, from i_zone[] down. *)
Route(f, k) ==
  LET p == Path(k)
      b1 == zone[f][p[1]]
      b2 == IF Len(p) < 2 \/ b1 = None THEN None ELSE mem[b1][p[2]]
      b3 == IF Len(p) < 3 \/ b2 = None THEN None ELSE mem[b2][p[3]]
  IN  SubSeq(<<b1, b2, b3>>, 1, Len(p))

Owned(f) == (UNION {ToSet(Route(f, k)) : k \in Indexes}) \ {None}

(* The zone bitmap is exact: the blocks marked are those of the files and  *)
(* the one every new_block() in progress has taken; only an I/O error in   *)
(* truncate() loses blocks.  A full disk in the middle of _bmap() does     *)
(* not, and none is marked free while a file points to it.                 *)
ZmapExact ==
  (\A f \in Files : ~Truncating(f)) =>
    zmap = (UNION {Owned(f) : f \in Files})
           \cup {loc[t].blk : t \in {u \in Tasks : loc[u].pc = "new"}}
           \cup lost

(* No block belongs to two files or to two places of one file, also while  *)
(* tasks sleep with a new block in hand.                                   *)
OwnedOnce ==
  /\ \A f, g \in Files :
       f # g /\ ~Truncating(f) /\ ~Truncating(g) => Owned(f) \cap Owned(g) = {}
  /\ \A f \in Files : ~Truncating(f) =>
       \A j, k \in Indexes : j # k =>
         Last(Route(f, j)) # Last(Route(f, k)) \/ Last(Route(f, j)) = None

(* A block of a file holds what was last written to it, and zeros if it    *)
(* never was: nothing is left of the block's former owner.                 *)
ContentsKept ==
  \A f \in Files : ~Truncating(f) =>
    \A k \in Indexes :
      LET b == Last(Route(f, k))
      IN  IF k \in written[f] THEN b # None /\ mem[b][0] = Stamp(f, k)
                              ELSE b = None \/ mem[b][0] = 0

(* A block number that file_read() or file_write() has in hand while it    *)
(* sleeps in bread() is still the block of that place of that file.        *)
InHandCurrent ==
  \A t \in Tasks : loc[t].pc = "data" => Last(Route(loc[t].f, loc[t].k)) = loc[t].blk

(* Blocks have one owner, and a block in hand is the file's still.         *)
BlocksInv == OwnedOnce /\ InHandCurrent
=============================================================================
