---------------------------- MODULE FileBlocksProofs ----------------------------
(***************************************************************************)
(* Proofs about FileBlocks: the zone bitmap is exact, a block has one      *)
(* owner, and a block that was written is read again, for any number of    *)
(* tasks, files and blocks and any geometry of the indirect blocks, unless *)
(* two calls meet in one file as Races describes.                          *)
(*                                                                         *)
(* Under is defined by what is under what, three levels deep.  The proofs  *)
(* use instead that the cells through which a file has its blocks form a   *)
(* tree: those in the inode, or in the list of what truncate() has still   *)
(* to free, then the words of the indirect blocks they point to.  Every    *)
(* step changes one cell, or takes a leaf or a block of cells away.        *)
(***************************************************************************)
EXTENDS FileBlocks, OrderTheorems

(* A cell: word i of block b, of the inode if b is 0, and the levels of    *)
(* indirect blocks below it.                                               *)
Items == [b : Nat, i : Nat, depth : {0, 1, 2}]

(* The local variables of a call.                                         *)
LocTyped(l) ==
  /\ DOMAIN l = {"pc", "op", "f", "k", "path", "cell", "blk", "todo"}
  /\ l.cell \in [b : Nat, i : Nat] /\ l.path \in Seq(Nat) /\ l.todo \in Seq(Items)
  /\ \/ l = Resting
     \/ l.pc \in {"map", "new", "data"} /\ l.op \in {"read", "write"}
        /\ l.f \in Files /\ l.k \in Indexes /\ l.blk \in Nat
     \/ l.pc = "free" /\ l.op = "truncate" /\ l.f \in Files

BlocksTypeOK ==
  /\ zmap \in SUBSET Blocks /\ lost \in SUBSET zmap
  /\ zone \in [Files -> [Zones -> Nat]]
  /\ mem \in [Blocks -> [Words -> Nat]]
  /\ size \in [Files -> Nat] /\ written \in [Files -> SUBSET Indexes]
  /\ DOMAIN loc = Tasks /\ \A t \in Tasks : LocTyped(loc[t])

(* One writer per file, nobody beside a truncate().                        *)
Alone ==
  \A t, u \in Tasks : t # u /\ loc[t].pc # "idle" /\ loc[u].pc # "idle" /\ loc[t].f = loc[u].f =>
    /\ loc[t].op # "truncate"
    /\ loc[t].op = "read" \/ loc[u].op = "read"

(* The cell of the inode for zone z; the entry of truncate()'s list by     *)
(* which it frees an indirect block after its words.                       *)
RootItem(z) == Item(0, z, IF z < NDirect THEN 0 ELSE z + 1 - NDirect)
Self(b) == Item(b, NWords, 0)

(* Where the tree of f starts: the zones of the inode, or what truncate()  *)
(* has still to do.                                                        *)
Roots(f, h) ==
  \/ ~Truncating(f) /\ \E z \in Zones : h = RootItem(z)
  \/ \E t \in Tasks : loc[t].op = "truncate" /\ loc[t].f = f
       /\ \E n \in 1 .. Len(loc[t].todo) : h = loc[t].todo[n]

(* A cell is in the inode, in a block, or a block to be freed itself.      *)
CellOK(h) == \/ h.b = 0 /\ h.i \in Zones
             \/ h.b \in Blocks /\ h.i \in Words
             \/ h.b \in Blocks /\ h = Self(h.b)

(* g points to the indirect block that h is a word of.                     *)
Parent(f, g, h) == g.depth = h.depth + 1 /\ Pointer(f, g) = h.b /\ h.b # None /\ h.i \in Words

(* S are exactly the cells of f: closed downwards, each with a way to it.  *)
Tree(f, S) ==
  /\ S \subseteq Items
  /\ \A h \in S : CellOK(h) /\ Pointer(f, h) \in Blocks \cup {None}
  /\ \A h : Roots(f, h) => h \in S
  /\ \A h \in S : h.depth > 0 /\ Pointer(f, h) # None =>
       \A w \in Words : Item(Pointer(f, h), w, h.depth - 1) \in S
  /\ \A h \in S : Roots(f, h) \/ \E g \in S : Parent(f, g, h)

(* L[f] are the cells of file f.  No two cells point to one block.         *)
Apart(L) ==
  \A f, g \in Files : \A h \in L[f], j \in L[g] :
    Pointer(f, h) = Pointer(g, j) /\ Pointer(f, h) # None => f = g /\ h = j

(* A call has b from new_block() and has not entered it anywhere yet.      *)
NewBlock(b) == \E t \in Tasks : loc[t].pc = "new" /\ loc[t].blk = b

(* The bitmap: a block in use is in a cell, new, or lost, and only one.    *)
MapOK(L) ==
  /\ \A f \in Files : \A h \in L[f] : Pointer(f, h) # None =>
       Pointer(f, h) \in zmap \ lost /\ ~NewBlock(Pointer(f, h))
  /\ \A b \in zmap : b \in lost \/ NewBlock(b) \/ \E f \in Files : \E h \in L[f] : Pointer(f, h) = b
  /\ \A t \in Tasks : loc[t].pc = "new" =>
       /\ loc[t].blk \in zmap \ lost
       /\ \A u \in Tasks : loc[u].pc = "new" /\ loc[u].blk = loc[t].blk => u = t

(* The list of truncate(): an indirect block comes once, after its words.  *)
TodoOK(s) ==
  /\ \A m, n \in 1 .. Len(s) : s[m] = s[n] => m = n
  /\ \A n \in 1 .. Len(s) : s[n].b # 0 => \E m \in 1 .. Len(s) : s[m] = Self(s[n].b)
  /\ \A m, n \in 1 .. Len(s) : m < n /\ s[m].b # 0 /\ s[m] = Self(s[m].b) => s[n].b # s[m].b

(* The cells on the way to block k of f.                                   *)
Cell1(k) == Item(0, Path(k)[1], Len(Path(k)) - 1)
Cell2(f, k) == Item(Pointer(f, Cell1(k)), Path(k)[2], Len(Path(k)) - 2)
Cell3(f, k) == Item(Pointer(f, Cell2(f, k)), Path(k)[3], 0)

(* h is the nth cell on the way to block k.                                *)
Reaches(f, k, n, h) ==
  \/ n = 1 /\ h = Cell1(k)
  \/ n = 2 /\ Len(Path(k)) >= 2 /\ Pointer(f, Cell1(k)) # None /\ h = Cell2(f, k)
  \/ n = 3 /\ Len(Path(k)) = 3 /\ Pointer(f, Cell1(k)) # None
     /\ Pointer(f, Cell2(f, k)) # None /\ h = Cell3(f, k)

(* h is on the way to some block of the file.                              *)
OnRoute(f, h) == \E k \in Indexes, n \in 1 .. 3 : Reaches(f, k, n, h)

(* What a call that maps a block has in hand.                              *)
Ahead(k, n, s) == Len(s) = Len(Path(k)) - n /\ \A i \in 1 .. Len(s) : s[i] = Path(k)[n + i]

(* What a call relies on after a sleep in bread(): the cell in hand is on  *)
(* the way to its block, and what truncate() is done with is cleared.      *)
CallOK(t) ==
  LET l == loc[t]
  IN  /\ l.pc \in {"map", "new"} =>
           \E n \in 1 .. 3 :
             /\ Reaches(l.f, l.k, n, Item(l.cell.b, l.cell.i, Len(l.path)))
             /\ Ahead(l.k, n, l.path)
      /\ l.pc = "new" => Fetch(l.f, l.cell) = None /\ l.op = "write"
      /\ l.pc = "data" =>
           l.blk # None /\ \E h : Reaches(l.f, l.k, Len(Path(l.k)), h) /\ Pointer(l.f, h) = l.blk
      /\ l.pc = "free" =>
           /\ TodoOK(l.todo)
           /\ \A z \in Zones : z < NDirect =>
                zone[l.f][z] = None \/ \E n \in 1 .. Len(l.todo) : l.todo[n] = RootItem(z)

(* A block that was written holds what was written, others are zero.       *)
Contents(f) ==
  \A k \in Indexes :
    /\ \A h : Reaches(f, k, Len(Path(k)), h) =>
         IF k \in written[f] THEN Pointer(f, h) # None /\ mem[Pointer(f, h)][0] = Stamp(f, k)
         ELSE Pointer(f, h) = None \/ mem[Pointer(f, h)][0] = 0
    /\ k \in written[f] => \E h : Reaches(f, k, Len(Path(k)), h)

(* The inductive invariant, for the cells L of the files.                  *)
Sound(L) ==
  /\ \A f \in Files : Tree(f, L[f])
  /\ Apart(L) /\ MapOK(L)
  /\ \A f \in Files : ~Truncating(f) => Contents(f) /\ \A h \in L[f] : Pointer(f, h) # None => OnRoute(f, h)
  /\ \A t \in Tasks : CallOK(t)

FilesIInv == BlocksTypeOK /\ Alone /\ \E L : Sound(L)

----------------------------------------------------------------------------
(* The way to a block.                                                     *)

LEMMA Numbers ==
  /\ NBlocks \in Nat /\ NDirect \in Nat /\ NWords \in Nat /\ NWords > 0
  /\ Blocks \subseteq Nat /\ None \notin Blocks /\ Words \subseteq Nat /\ 0 \in Words
  /\ Zones \subseteq Nat /\ NWords \notin Words /\ Indexes \subseteq Nat /\ Files \subseteq Nat
  BY FileBlocksAssumption DEF Blocks, Words, Zones, None

LEMMA Quotient ==
  ASSUME NEW m \in Nat, NEW n \in Nat, n > 0
  PROVE  m \div n \in Nat /\ m % n \in 0 .. n - 1 /\ m = n * (m \div n) + (m % n)
  OBVIOUS

LEMMA Products == ASSUME NEW q \in Nat, NEW n \in Nat, q >= n PROVE n * q >= n * n
  OBVIOUS

LEMMA DivWords ==
  ASSUME NEW m \in Nat, m < NWords * NWords
  PROVE  /\ m \div NWords \in Words /\ m % NWords \in Words
         /\ m = NWords * (m \div NWords) + (m % NWords)
<1> DEFINE q == m \div NWords
           r == m % NWords
           a == NWords * NWords
           b == NWords * q
<1>1. q \in Nat /\ r \in 0 .. NWords - 1 /\ m = b + r
  BY Numbers, Quotient
<1>2. a \in Nat
  BY Numbers
<1>3. b \in Nat
  <2> HIDE DEF q
  <2> QED
    BY Numbers, <1>1
<1>4. q >= NWords => b >= a
  <2> HIDE DEF q
  <2> QED
    BY Numbers, <1>1, Products
<1>5. m < a
  OBVIOUS
<1> HIDE DEF q, r, a, b
<1>6. q < NWords
  BY Numbers, <1>1, <1>2, <1>3, <1>4, <1>5
<1>7. q \in Words /\ r \in Words
  BY Numbers, <1>1, <1>6 DEF Words
<1> QED
  BY <1>1, <1>7 DEF q, r, b

(* The three forms of a path.                                              *)
LEMMA PathIs ==
  ASSUME NEW k \in Indexes
  PROVE  \/ k < NDirect /\ Path(k) = <<k>> /\ k \in Zones
         \/ /\ k >= NDirect /\ k - NDirect < NWords /\ k - NDirect \in Words
            /\ Path(k) = <<NDirect, k - NDirect>>
         \/ /\ k >= NDirect /\ k - NDirect >= NWords
            /\ LET m == k - NDirect - NWords
               IN  /\ m \in Nat /\ m < NWords * NWords
                   /\ Path(k) = <<NDirect + 1, m \div NWords, m % NWords>>
<1>1. k \in Nat /\ k < NDirect + NWords + NWords * NWords /\ NDirect \in Nat /\ NWords \in Nat
  <2>1. NWords * NWords \in Nat /\ k \in 0 .. NDirect + NWords + NWords * NWords - 1
    BY Numbers, FileBlocksAssumption
  <2> QED
    BY Numbers, <2>1
<1>2. CASE k < NDirect
  BY <1>1, <1>2 DEF Path, Zones
<1>3. CASE ~(k < NDirect) /\ k - NDirect < NWords
  BY <1>1, <1>3 DEF Path, Words
<1>4. CASE ~(k < NDirect) /\ ~(k - NDirect < NWords)
  <2> DEFINE m == k - NDirect - NWords
             nn == NWords * NWords
  <2>1. nn \in Nat /\ k < NDirect + NWords + nn
    BY Numbers, <1>1
  <2> HIDE DEF nn
  <2>2. m \in Nat /\ m < nn
    BY <1>1, <1>4, <2>1
  <2> QED
    BY <1>1, <1>4, <2>2 DEF Path, nn
<1> QED
  BY <1>2, <1>3, <1>4

LEMMA PathForm ==
  ASSUME NEW k \in Indexes
  PROVE  \E p1 \in Zones, p2, p3 \in Words :
           \/ Path(k) = <<p1>> /\ p1 < NDirect
           \/ Path(k) = <<p1, p2>> /\ p1 = NDirect
           \/ Path(k) = <<p1, p2, p3>> /\ p1 = NDirect + 1
<1>1. NDirect \in Zones /\ NDirect + 1 \in Zones /\ 0 \in Words
  BY Numbers DEF Zones
<1>2. CASE k < NDirect /\ Path(k) = <<k>> /\ k \in Zones
  BY <1>1, <1>2
<1>3. CASE k - NDirect \in Words /\ Path(k) = <<NDirect, k - NDirect>>
  BY <1>1, <1>3
<1>4. ASSUME NEW m \in Nat, m < NWords * NWords,
             Path(k) = <<NDirect + 1, m \div NWords, m % NWords>>
      PROVE  \E p1 \in Zones, p2, p3 \in Words : Path(k) = <<p1, p2, p3>> /\ p1 = NDirect + 1
  BY <1>1, <1>4, DivWords
<1> QED
  BY <1>2, <1>3, <1>4, PathIs

(* Different blocks have different ways.                                   *)
LEMMA PathsDiffer ==
  ASSUME NEW j \in Indexes, NEW k \in Indexes, Path(j) = Path(k)
  PROVE  j = k
<1> DEFINE First(i) == i < NDirect /\ Path(i) = <<i>>
           Second(i) == i >= NDirect /\ Path(i) = <<NDirect, i - NDirect>>
           Third(i) == LET m == i - NDirect - NWords
                       IN  /\ m \in Nat /\ m < NWords * NWords
                           /\ Path(i) = <<NDirect + 1, m \div NWords, m % NWords>>
<1>1. \A i \in Indexes : First(i) \/ Second(i) \/ Third(i)
  BY PathIs
<1>2. j \in Nat /\ k \in Nat /\ NDirect \in Nat /\ NWords \in Nat
  BY Numbers
<1>3. CASE First(j)
  <2>1. Len(Path(j)) = 1 /\ Path(j)[1] = j
    BY <1>3
  <2>2. First(k)
    BY <1>1, <2>1
  <2> QED
    BY <2>1, <2>2
<1>4. CASE Second(j)
  <2>1. Len(Path(j)) = 2 /\ Path(j)[2] = j - NDirect
    BY <1>4
  <2>2. Second(k)
    <3>1. ~First(k)
      BY <2>1
    <3>2. ~Third(k)
      BY <2>1
    <3> HIDE DEF First, Second, Third
    <3> QED
      BY <1>1, <3>1, <3>2
  <2>3. Path(k)[2] = k - NDirect
    BY <2>2
  <2> QED
    BY <1>2, <2>1, <2>3
<1>5. CASE Third(j)
  <2> DEFINE m == j - NDirect - NWords
             n == k - NDirect - NWords
  <2>1. /\ Len(Path(j)) = 3 /\ Path(j)[2] = m \div NWords /\ Path(j)[3] = m % NWords
        /\ m \in Nat /\ m < NWords * NWords
    BY <1>5
  <2>2. Third(k)
    BY <1>1, <2>1
  <2>3. /\ Path(k)[2] = n \div NWords /\ Path(k)[3] = n % NWords
        /\ n \in Nat /\ n < NWords * NWords
    BY <2>2
  <2> HIDE DEF m, n
  <2>4. m = NWords * (m \div NWords) + (m % NWords)
    BY <2>1, DivWords
  <2>5. n = NWords * (n \div NWords) + (n % NWords)
    BY <2>3, DivWords
  <2>6. m = n
    <3>1. m \div NWords = n \div NWords /\ m % NWords = n % NWords
      BY <2>1, <2>3
    <3> QED
      BY <2>4, <2>5, <3>1, Zenon
  <2> QED
    BY <1>2, <2>6 DEF m, n
<1> QED
  BY <1>1, <1>3, <1>4, <1>5

----------------------------------------------------------------------------
(* Cells of a tree.                                                        *)

LEMMA ItemIs ==
  ASSUME NEW h \in Items
  PROVE  /\ h.b \in Nat /\ h.i \in Nat /\ h.depth \in {0, 1, 2}
         /\ h = Item(h.b, h.i, h.depth)
  BY DEF Items, Item

LEMMA ItemFields ==
  ASSUME NEW b, NEW i, NEW d
  PROVE  Item(b, i, d).b = b /\ Item(b, i, d).i = i /\ Item(b, i, d).depth = d
  BY DEF Item

LEMMA ItemTyped ==
  ASSUME NEW b \in Nat, NEW i \in Nat, NEW d \in {0, 1, 2}
  PROVE  Item(b, i, d) \in Items
  BY DEF Item, Items

LEMMA SelfIs ==
  ASSUME NEW b \in Blocks
  PROVE  /\ Self(b) \in Items /\ Self(b).b = b /\ Self(b).i = NWords /\ Self(b).depth = 0
         /\ \A f : Pointer(f, Self(b)) = b
  BY Numbers DEF Self, Item, Items, Pointer, None

(* The first cell on the way to a block is one of the inode's.             *)
LEMMA Cell1Is ==
  ASSUME NEW k \in Indexes
  PROVE  /\ Path(k)[1] \in Zones /\ Cell1(k) = RootItem(Path(k)[1]) /\ Cell1(k) \in Items
         /\ Cell1(k).b = 0 /\ Cell1(k).i = Path(k)[1] /\ Cell1(k).depth = Len(Path(k)) - 1
         /\ Len(Path(k)) \in 1 .. 3
         /\ Len(Path(k)) >= 2 => Path(k)[2] \in Words
         /\ Len(Path(k)) = 3 => Path(k)[3] \in Words
<1>1. PICK p1 \in Zones, p2 \in Words, p3 \in Words :
        \/ Path(k) = <<p1>> /\ p1 < NDirect
        \/ Path(k) = <<p1, p2>> /\ p1 = NDirect
        \/ Path(k) = <<p1, p2, p3>> /\ p1 = NDirect + 1
  BY PathForm
<1>2. p1 \in Nat
  BY Numbers
<1> DEFINE n == Len(Path(k))
           d == n - 1
<1>3. /\ Path(k)[1] = p1 /\ n \in 1 .. 3
      /\ n >= 2 => Path(k)[2] = p2
      /\ n = 3 => Path(k)[3] = p3
      /\ \/ n = 1 /\ p1 < NDirect
         \/ n = 2 /\ p1 = NDirect
         \/ n = 3 /\ p1 = NDirect + 1
  BY <1>1
<1> HIDE DEF n
<1>4. d = (IF p1 < NDirect THEN 0 ELSE p1 + 1 - NDirect) /\ d \in {0, 1, 2}
  BY Numbers, <1>2, <1>3
<1>5. Cell1(k) = Item(0, p1, d)
  BY <1>3 DEF Cell1, n
<1> HIDE DEF d
<1>6. Cell1(k) = RootItem(p1)
  BY <1>4, <1>5 DEF RootItem
<1>7. Cell1(k) \in Items /\ Cell1(k).b = 0 /\ Cell1(k).i = p1 /\ Cell1(k).depth = d
  BY <1>2, <1>4, <1>5, ItemFields, ItemTyped
<1> QED
  BY <1>3, <1>6, <1>7 DEF n, d

LEMMA RootsThere ==
  ASSUME NEW f, NEW S, Tree(f, S), ~Truncating(f), NEW z \in Zones
  PROVE  RootItem(z) \in S
  BY DEF Tree, Roots

(* A cell on the way to a block is in the tree, at its depth.              *)
LEMMA ReachesIn ==
  ASSUME NEW f, NEW S, Tree(f, S), ~Truncating(f),
         NEW k \in Indexes, NEW n, NEW h, Reaches(f, k, n, h)
  PROVE  /\ h \in S /\ n \in 1 .. Len(Path(k))
         /\ h.i = Path(k)[n] /\ h.depth = Len(Path(k)) - n
         /\ h.b = 0 <=> n = 1
<1>1. Cell1(k) \in S
  BY Cell1Is, RootsThere
<1>2. CASE n = 1 /\ h = Cell1(k)
  BY <1>1, <1>2, Cell1Is
<1>3. ASSUME Len(Path(k)) >= 2, Pointer(f, Cell1(k)) # None
      PROVE  Cell2(f, k) \in S /\ Cell2(f, k).b # 0 /\ Cell2(f, k).i = Path(k)[2]
             /\ Cell2(f, k).depth = Len(Path(k)) - 2
  <2> DEFINE g == Cell1(k)
  <2>1. /\ g.depth = Len(Path(k)) - 1 /\ Len(Path(k)) \in 1 .. 3 /\ Path(k)[2] \in Words
    BY <1>3, Cell1Is
  <2>2. g \in S
    BY <1>1
  <2>3. g.depth > 0 /\ g.depth - 1 = Len(Path(k)) - 2
    BY <1>3, <2>1
  <2> HIDE DEF g
  <2>4. Item(Pointer(f, g), Path(k)[2], g.depth - 1) \in S
    BY <1>3, <2>1, <2>2, <2>3 DEF Tree, g
  <2> QED
    BY <1>3, <2>3, <2>4, ItemFields DEF Cell2, None, g
<1>4. CASE n = 2 /\ Len(Path(k)) >= 2 /\ Pointer(f, Cell1(k)) # None /\ h = Cell2(f, k)
  BY <1>3, <1>4, Cell1Is
<1>5. CASE n = 3 /\ Len(Path(k)) = 3 /\ Pointer(f, Cell1(k)) # None
           /\ Pointer(f, Cell2(f, k)) # None /\ h = Cell3(f, k)
  <2> DEFINE g == Cell2(f, k)
  <2>1. g \in S /\ g.depth = Len(Path(k)) - 2
    BY <1>3, <1>5
  <2>2. Path(k)[3] \in Words
    BY <1>5, Cell1Is
  <2> HIDE DEF g
  <2>3. g.depth = 1
    BY <1>5, <2>1
  <2>4. Item(Pointer(f, g), Path(k)[3], g.depth - 1) \in S
    BY <1>5, <2>1, <2>2, <2>3 DEF Tree, g
  <2>5. h = Item(Pointer(f, g), Path(k)[3], 0)
    BY <1>5 DEF Cell3, g
  <2> QED
    BY <1>5, <2>3, <2>4, <2>5, ItemFields DEF None, g
<1> QED
  BY <1>2, <1>4, <1>5 DEF Reaches

LEMMA ReachesOnce ==
  ASSUME NEW f, NEW k, NEW n, NEW g, NEW h, Reaches(f, k, n, g), Reaches(f, k, n, h)
  PROVE  g = h
  BY DEF Reaches

LEMMA ReachesFirst ==
  ASSUME NEW f, NEW k \in Indexes
  PROVE  Reaches(f, k, 1, Cell1(k))
  BY DEF Reaches

(* One cell leads to the next.                                             *)
LEMMA ReachesNext ==
  ASSUME NEW f, NEW k \in Indexes, NEW n, NEW h, Reaches(f, k, n, h),
         n < Len(Path(k)), Pointer(f, h) # None
  PROVE  Reaches(f, k, n + 1, Item(Pointer(f, h), Path(k)[n + 1], Len(Path(k)) - (n + 1)))
<1>1. Len(Path(k)) \in 1 .. 3
  BY Cell1Is
<1>2. CASE n = 1 /\ h = Cell1(k)
  BY <1>1, <1>2 DEF Reaches, Cell2
<1>3. CASE n = 2 /\ Len(Path(k)) >= 2 /\ Pointer(f, Cell1(k)) # None /\ h = Cell2(f, k)
  <2>1. Len(Path(k)) = 3
    <3> DEFINE len == Len(Path(k))
    <3>1. len \in 1 .. 3 /\ 2 < len
      BY <1>1, <1>3
    <3> HIDE DEF len
    <3>2. len = 3
      BY <3>1
    <3> QED
      BY <3>2 DEF len
  <2> QED
    BY <1>3, <2>1 DEF Reaches, Cell3
<1>4. CASE n = 3
  BY <1>1, <1>4
<1> QED
  BY <1>2, <1>3, <1>4 DEF Reaches

LEMMA ReachesBefore ==
  ASSUME NEW f, NEW k \in Indexes, NEW n, NEW h, Reaches(f, k, n, h), n # 1
  PROVE  \E g : Reaches(f, k, n - 1, g) /\ Pointer(f, g) # None /\ h.b = Pointer(f, g)
<1>1. CASE n = 2 /\ Len(Path(k)) >= 2 /\ Pointer(f, Cell1(k)) # None /\ h = Cell2(f, k)
  <2>1. Reaches(f, k, 1, Cell1(k)) /\ h.b = Pointer(f, Cell1(k))
    BY <1>1, ItemFields DEF Reaches, Cell2
  <2> QED
    BY <1>1, <2>1
<1>2. CASE n = 3 /\ Len(Path(k)) = 3 /\ Pointer(f, Cell1(k)) # None
           /\ Pointer(f, Cell2(f, k)) # None /\ h = Cell3(f, k)
  <2>1. Reaches(f, k, 2, Cell2(f, k)) /\ h.b = Pointer(f, Cell2(f, k))
    BY <1>2, ItemFields DEF Reaches, Cell3
  <2> QED
    BY <1>2, <2>1
<1> QED
  BY <1>1, <1>2 DEF Reaches

----------------------------------------------------------------------------
(* What a step leaves as it was.                                           *)

LEMMA OpIs ==
  ASSUME BlocksTypeOK, NEW t \in Tasks
  PROVE  /\ loc[t].op = "truncate" <=> loc[t].pc = "free"
         /\ loc[t].op \in {"none", "read", "write", "truncate"}
         /\ loc[t].op = "none" <=> loc[t].pc = "idle"
         /\ loc[t].pc = "idle" => loc[t] = Resting
         /\ loc[t].pc # "idle" => loc[t].f \in Files
         /\ loc[t].pc \in {"map", "new", "data"} =>
              /\ loc[t].op \in {"read", "write"} /\ loc[t].k \in Indexes /\ loc[t].blk \in Nat
  BY DEF BlocksTypeOK, LocTyped, Resting

LEMMA PointerKept ==
  ASSUME NEW f, NEW h, h.b = 0 => zone'[f][h.i] = zone[f][h.i],
         h.b # 0 => mem'[h.b][h.i] = mem[h.b][h.i]
  PROVE  Pointer(f, h)' = Pointer(f, h)
  BY DEF Pointer, Fetch

LEMMA TreeKept ==
  ASSUME NEW f, NEW S, Tree(f, S), \A h \in S : Pointer(f, h)' = Pointer(f, h),
         \A h : Roots(f, h)' <=> Roots(f, h)
  PROVE  Tree(f, S)'
<1>1. \A h \in S : CellOK(h)' /\ Pointer(f, h)' \in Blocks \cup {None}
  BY DEF Tree, CellOK
<1>2. \A h : Roots(f, h)' => h \in S
  BY DEF Tree
<1>3. \A h \in S : h.depth > 0 /\ Pointer(f, h)' # None =>
        \A w \in Words : Item(Pointer(f, h)', w, h.depth - 1) \in S
  BY DEF Tree
<1>4. \A h \in S : Roots(f, h)' \/ \E g \in S : Parent(f, g, h)'
  BY DEF Tree, Parent
<1>5. S \subseteq Items
  BY DEF Tree
<1> QED
  BY <1>1, <1>2, <1>3, <1>4, <1>5 DEF Tree

(* A step of a task that does not truncate f before or after it.           *)
LEMMA RootsKept ==
  ASSUME NEW t \in Tasks, NEW l, DOMAIN loc = Tasks, loc' = [loc EXCEPT ![t] = l], NEW f,
         ~(loc[t].op = "truncate" /\ loc[t].f = f), ~(l.op = "truncate" /\ l.f = f)
  PROVE  /\ Truncating(f)' <=> Truncating(f)
         /\ \A h : Roots(f, h)' <=> Roots(f, h)
<1>1. loc'[t] = l /\ \A u \in Tasks : u # t => loc'[u] = loc[u]
  OBVIOUS
<1>2. Truncating(f)' <=> Truncating(f)
  BY <1>1 DEF Truncating
<1>3. ASSUME NEW h PROVE Roots(f, h)' <=> Roots(f, h)
  <2>1. \A u \in Tasks : (loc'[u].op = "truncate" /\ loc'[u].f = f) => loc'[u] = loc[u]
    BY <1>1
  <2>2. \A u \in Tasks : (loc[u].op = "truncate" /\ loc[u].f = f) => loc'[u] = loc[u]
    BY <1>1
  <2> QED
    BY <1>2, <2>1, <2>2 DEF Roots
<1> QED
  BY <1>2, <1>3

LEMMA ReachesKept ==
  ASSUME NEW f, NEW S, Tree(f, S), ~Truncating(f),
         \A h \in S : Pointer(f, h) # None => Pointer(f, h)' = Pointer(f, h),
         NEW k \in Indexes, NEW n, NEW h, Reaches(f, k, n, h)
  PROVE  Reaches(f, k, n, h)'
<1>1. Cell1(k)' = Cell1(k) /\ Cell1(k) \in S
  <2>1. Cell1(k)' = Cell1(k)
    BY DEF Cell1, Path, Item
  <2>2. Cell1(k) \in S
    BY ReachesFirst, ReachesIn
  <2> QED
    BY <2>1, <2>2
<1>2. Pointer(f, Cell1(k)) # None => Pointer(f, Cell1(k))' = Pointer(f, Cell1(k))
  BY <1>1
<1>3. CASE n = 1
  BY <1>1, <1>3 DEF Reaches
<1>4. CASE n = 2
  <2>1. Len(Path(k)) >= 2 /\ Pointer(f, Cell1(k)) # None /\ h = Cell2(f, k)
    BY <1>4 DEF Reaches
  <2>2. Cell2(f, k)' = Cell2(f, k)
    BY <1>1, <1>2, <2>1 DEF Cell2
  <2> QED
    BY <1>1, <1>2, <1>4, <2>1, <2>2 DEF Reaches
<1>5. CASE n = 3
  <2>1. /\ Len(Path(k)) = 3 /\ Pointer(f, Cell1(k)) # None
        /\ Pointer(f, Cell2(f, k)) # None /\ h = Cell3(f, k)
    BY <1>5 DEF Reaches
  <2>2. Cell2(f, k)' = Cell2(f, k)
    BY <1>1, <1>2, <2>1 DEF Cell2
  <2>3. Reaches(f, k, 2, Cell2(f, k))
    BY <2>1 DEF Reaches
  <2>4. Cell2(f, k) \in S
    BY <2>3, ReachesIn
  <2>5. Pointer(f, Cell2(f, k))' = Pointer(f, Cell2(f, k))
    BY <2>1, <2>2, <2>4
  <2>6. Cell3(f, k)' = Cell3(f, k)
    BY <2>2, <2>5 DEF Cell3
  <2> QED
    BY <1>1, <1>2, <1>5, <2>1, <2>2, <2>5, <2>6 DEF Reaches
<1> QED
  BY <1>3, <1>4, <1>5 DEF Reaches

LEMMA ReachesSame ==
  ASSUME NEW f, NEW S, Tree(f, S), ~Truncating(f),
         \A h \in S : Pointer(f, h)' = Pointer(f, h),
         NEW k \in Indexes, NEW n, NEW h
  PROVE  Reaches(f, k, n, h)' <=> Reaches(f, k, n, h)
<1>1. Cell1(k)' = Cell1(k) /\ Cell1(k) \in S
  <2>1. Cell1(k)' = Cell1(k)
    BY DEF Cell1, Path, Item
  <2>2. Cell1(k) \in S
    BY ReachesFirst, ReachesIn
  <2> QED
    BY <2>1, <2>2
<1>2. Pointer(f, Cell1(k))' = Pointer(f, Cell1(k))
  BY <1>1
<1>3. Cell2(f, k)' = Cell2(f, k)
  BY <1>1, <1>2 DEF Cell2
<1>4. Len(Path(k)) >= 2 /\ Pointer(f, Cell1(k)) # None =>
        Pointer(f, Cell2(f, k))' = Pointer(f, Cell2(f, k))
  <2> SUFFICES ASSUME Len(Path(k)) >= 2, Pointer(f, Cell1(k)) # None
               PROVE  Pointer(f, Cell2(f, k))' = Pointer(f, Cell2(f, k))
    OBVIOUS
  <2>1. Reaches(f, k, 2, Cell2(f, k))
    BY DEF Reaches
  <2>2. Cell2(f, k) \in S
    BY <2>1, ReachesIn
  <2> QED
    BY <1>3, <2>2
<1>5. Len(Path(k)) = 3 => Len(Path(k)) >= 2
  OBVIOUS
<1>6. Len(Path(k)) = 3 /\ Pointer(f, Cell1(k)) # None => Cell3(f, k)' = Cell3(f, k)
  BY <1>3, <1>4, <1>5 DEF Cell3
<1> QED
  BY <1>1, <1>2, <1>3, <1>4, <1>5, <1>6 DEF Reaches

(* A block with cells of f is one of f's.                                  *)
LEMMA Held ==
  ASSUME BlocksTypeOK, NEW f, NEW S, Tree(f, S), \A t \in Tasks : CallOK(t),
         NEW h \in S, h.b # 0
  PROVE  \E g \in S : /\ Pointer(f, g) = h.b
                      /\ Parent(f, g, h) \/ (Truncating(f) /\ g = Self(h.b))
<1>1. CASE \E g \in S : Parent(f, g, h)
  BY <1>1 DEF Parent
<1>2. CASE Roots(f, h)
  <2>1. ASSUME NEW z \in Zones, h = RootItem(z) PROVE FALSE
    BY <2>1, ItemFields DEF RootItem
  <2>2. PICK t \in Tasks : loc[t].op = "truncate" /\ loc[t].f = f
                           /\ \E n \in 1 .. Len(loc[t].todo) : h = loc[t].todo[n]
    BY <1>2, <2>1 DEF Roots
  <2>3. TodoOK(loc[t].todo)
    BY <2>2, OpIs DEF CallOK
  <2>4. PICK m \in 1 .. Len(loc[t].todo) : loc[t].todo[m] = Self(h.b)
    BY <2>2, <2>3 DEF TodoOK
  <2>5. Roots(f, Self(h.b)) /\ Truncating(f)
    BY <2>2, <2>4 DEF Roots, Truncating
  <2>6. Self(h.b) \in S /\ h.b \in Blocks
    BY <2>5, Numbers DEF Tree, CellOK
  <2>7. Pointer(f, Self(h.b)) = h.b
    BY <2>6, SelfIs
  <2> QED
    BY <2>5, <2>6, <2>7
<1> QED
  BY <1>1, <1>2 DEF Tree

LEMMA FileKept ==
  ASSUME NEW g \in Files, NEW S, Tree(g, S), \A h \in S : Pointer(g, h)' = Pointer(g, h),
         Truncating(g)' <=> Truncating(g), \A h : Roots(g, h)' <=> Roots(g, h)
  PROVE  /\ Tree(g, S)'
         /\ ~Truncating(g) =>
              /\ \A k \in Indexes : \A n, h : Reaches(g, k, n, h)' <=> Reaches(g, k, n, h)
              /\ \A h : OnRoute(g, h)' <=> OnRoute(g, h)
<1>1. Tree(g, S)'
  BY TreeKept
<1>2. ASSUME ~Truncating(g), NEW k \in Indexes, NEW n, NEW h
      PROVE  Reaches(g, k, n, h)' <=> Reaches(g, k, n, h)
  BY <1>2, ReachesSame
<1>3. ASSUME ~Truncating(g), NEW h PROVE OnRoute(g, h)' <=> OnRoute(g, h)
  BY <1>2, <1>3 DEF OnRoute
<1> QED
  BY <1>1, <1>2, <1>3

LEMMA ContentsSame ==
  ASSUME NEW g \in Files, NEW S, Tree(g, S), ~Truncating(g), Contents(g),
         \A h \in S : Pointer(g, h)' = Pointer(g, h), written'[g] = written[g],
         \A k \in Indexes : \A h : Reaches(g, k, Len(Path(k)), h)' <=> Reaches(g, k, Len(Path(k)), h),
         \A h \in S : h.depth = 0 /\ Pointer(g, h) # None =>
           mem'[Pointer(g, h)][0] = mem[Pointer(g, h)][0]
  PROVE  Contents(g)'
<1> SUFFICES ASSUME NEW k \in Indexes
             PROVE  /\ \A h : Reaches(g, k, Len(Path(k)), h)' =>
                         IF k \in written'[g]
                         THEN Pointer(g, h)' # None /\ mem'[Pointer(g, h)'][0] = Stamp(g, k)
                         ELSE Pointer(g, h)' = None \/ mem'[Pointer(g, h)'][0] = 0
                    /\ k \in written'[g] => \E h : Reaches(g, k, Len(Path(k)), h)'
  BY DEF Contents, Path, Stamp
<1>1. \A h : Reaches(g, k, Len(Path(k)), h) =>
        /\ h \in S /\ h.depth = 0
        /\ IF k \in written[g] THEN Pointer(g, h) # None /\ mem[Pointer(g, h)][0] = Stamp(g, k)
           ELSE Pointer(g, h) = None \/ mem[Pointer(g, h)][0] = 0
  <2> SUFFICES ASSUME NEW h, Reaches(g, k, Len(Path(k)), h)
               PROVE  /\ h \in S /\ h.depth = 0
                      /\ IF k \in written[g] THEN Pointer(g, h) # None /\ mem[Pointer(g, h)][0] = Stamp(g, k)
                         ELSE Pointer(g, h) = None \/ mem[Pointer(g, h)][0] = 0
    OBVIOUS
  <2> DEFINE n == Len(Path(k))
  <2>1. n \in 1 .. 3
    BY Cell1Is
  <2>2. h \in S /\ h.depth = n - n
    BY ReachesIn
  <2> HIDE DEF n
  <2>3. h.depth = 0
    BY <2>1, <2>2
  <2> QED
    BY <2>2, <2>3 DEF Contents
<1> QED
  BY <1>1 DEF Contents

(* The tasks at work in a file are not beside a truncate().                *)
LEMMA NotBeside ==
  ASSUME BlocksTypeOK, Alone, NEW t \in Tasks, loc[t].pc \in {"map", "new", "data"}
  PROVE  ~Truncating(loc[t].f) /\ loc[t].f \in Files /\ loc[t].k \in Indexes
<1> SUFFICES ASSUME NEW u \in Tasks, loc[u].op = "truncate", loc[u].f = loc[t].f
             PROVE  FALSE
  BY OpIs DEF Truncating
<1>1. loc[u].pc # "idle" /\ u # t
  BY OpIs
<1> QED
  BY <1>1 DEF Alone

LEMMA FetchIs ==
  ASSUME NEW f, NEW S, Tree(f, S), ~Truncating(f), NEW k \in Indexes, NEW n, NEW c, NEW d,
         Reaches(f, k, n, Item(c.b, c.i, d))
  PROVE  Pointer(f, Item(c.b, c.i, d)) = Fetch(f, c)
<1> DEFINE h == Item(c.b, c.i, d)
<1>1. h.b = c.b /\ h.i = c.i
  BY ItemFields
<1>2. h \in S /\ n \in 1 .. Len(Path(k)) /\ h.i = Path(k)[n] /\ (h.b = 0 <=> n = 1)
  BY ReachesIn
<1> HIDE DEF h
<1>3. h.b # 0 => h.i # NWords
  <2> SUFFICES ASSUME h.b # 0 PROVE h.i # NWords
    OBVIOUS
  <2>1. Len(Path(k)) \in 1 .. 3
    BY Cell1Is
  <2>2. n = 2 \/ n = 3
    BY <1>2, <2>1
  <2>3. h.i \in Words
    <3> DEFINE len == Len(Path(k))
    <3>1. len \in 1 .. 3 /\ n \in 1 .. len
      BY <1>2, <2>1
    <3> HIDE DEF len
    <3>2. (n = 2 => len >= 2) /\ (n = 3 => len = 3)
      BY <3>1
    <3> QED
      BY <1>2, <2>2, <3>2, Cell1Is DEF len
  <2> QED
    BY <2>3, Numbers
<1>4. Pointer(f, h) = Fetch(f, h)
  BY <1>3 DEF Pointer
<1>5. Fetch(f, h) = Fetch(f, c)
  BY <1>1 DEF Fetch
<1> QED
  BY <1>4, <1>5 DEF h

(* A call that the step is not about goes on as before.                    *)
LEMMA CallKept ==
  ASSUME BlocksTypeOK, Alone, NEW u \in Tasks, CallOK(u), loc'[u] = loc[u],
         NEW S, loc[u].pc \in {"map", "new", "data"} =>
           /\ Tree(loc[u].f, S)
           /\ \A f : f = loc[u].f => \A h \in S : Pointer(f, h) # None => Pointer(f, h)' = Pointer(f, h),
         loc[u].pc = "new" => \A f : f = loc[u].f => Fetch(f, loc[u].cell)' = None,
         loc[u].pc = "free" => zone'[loc[u].f] = zone[loc[u].f]
  PROVE  CallOK(u)'
<1> DEFINE l == loc[u]
<1>1. ASSUME l.pc \in {"map", "new", "data"}, NEW n, NEW h, Reaches(l.f, l.k, n, h)
      PROVE  /\ h \in S
             /\ \A f, k : f = l.f /\ k = l.k => Reaches(f, k, n, h)'
  <2>1. ~Truncating(l.f) /\ l.k \in Indexes /\ Tree(l.f, S)
    BY <1>1, NotBeside
  <2>2. h \in S
    BY <1>1, <2>1, ReachesIn
  <2>3. ASSUME NEW f, NEW k, f = l.f, k = l.k PROVE Reaches(f, k, n, h)'
    BY <1>1, <2>1, <2>3, ReachesKept
  <2> QED
    BY <2>2, <2>3
<1> QED
  BY <1>1, SMTT(30) DEF CallOK, Ahead, Path, Item

LEMMA SoundIs ==
  ASSUME NEW M, \A f \in Files : Tree(f, M[f])', Apart(M)', MapOK(M)',
         \A f \in Files : ~Truncating(f)' =>
           Contents(f)' /\ \A h \in M[f] : Pointer(f, h)' # None => OnRoute(f, h)',
         \A t \in Tasks : CallOK(t)'
  PROVE  Sound(M)'
  BY DEF Sound

(* A step that changes only what one task, not in truncate(), has in hand. *)
LEMMA ReachesQuiet ==
  ASSUME zone' = zone, mem' = mem
  PROVE  /\ \A f, h : Pointer(f, h)' = Pointer(f, h)
         /\ \A f, k, n, h : Reaches(f, k, n, h)' <=> Reaches(f, k, n, h)
<1>1. \A f, h : Pointer(f, h)' = Pointer(f, h)
  BY DEF Pointer, Fetch
<1>2. \A k : Cell1(k)' = Cell1(k)
  BY DEF Cell1, Item, Path
<1>3. \A f, k : Cell2(f, k)' = Cell2(f, k)
  BY <1>1, <1>2 DEF Cell2
<1>4. \A f, k : Cell3(f, k)' = Cell3(f, k)
  BY <1>1, <1>3 DEF Cell3
<1> QED
  BY <1>1, <1>2, <1>3, <1>4 DEF Reaches

(* What a call has in hand when it goes on, or has come to the block. *)
LEMMA CallMaps ==
  ASSUME NEW t \in Tasks, NEW l, loc'[t] = l, l.pc \in {"map", "new"}, NEW n \in 1 .. 3,
         NEW h, h = Item(l.cell.b, l.cell.i, Len(l.path)),
         \A f, k : f = l.f /\ k = l.k => Reaches(f, k, n, h)',
         Ahead(l.k, n, l.path),
         l.pc = "new" => l.op = "write" /\ \A f : f = l.f => Fetch(f, l.cell)' = None
  PROVE  CallOK(t)'
<1>1. \A f, k : f = l.f /\ k = l.k => Reaches(f, k, n, h)' /\ Ahead(k, n, l.path)'
  BY DEF Ahead, Path
<1> QED
  BY <1>1 DEF CallOK, Item

LEMMA CallHas ==
  ASSUME NEW t \in Tasks, NEW l, loc'[t] = l, l.pc = "data", l.blk # None, NEW h,
         \A f, k : f = l.f /\ k = l.k => Reaches(f, k, Len(Path(k)), h)' /\ Pointer(f, h)' = l.blk
  PROVE  CallOK(t)'
  BY DEF CallOK, Path

DirectHeld(f, q) ==
  \A z \in Zones : z < NDirect => zone[f][z] = None \/ \E m \in 1 .. Len(q) : q[m] = RootItem(z)

LEMMA CallFrees ==
  ASSUME NEW t \in Tasks, NEW l, loc'[t] = l, l.pc = "free", NEW q, q = l.todo, TodoOK(q),
         NEW f, f = l.f, DirectHeld(f, q)'
  PROVE  CallOK(t)'
<1>1. TodoOK(q)'
  BY DEF TodoOK, Self, Item
<1> QED
  BY <1>1 DEF CallOK, DirectHeld

(* A call goes on as before when the blocks do not change. *)
LEMMA CallQuiet ==
  ASSUME BlocksTypeOK, NEW u \in Tasks, CallOK(u), loc'[u] = loc[u], zone' = zone, mem' = mem
  PROVE  CallOK(u)'
<1>1. PICK l : l = loc[u]
  OBVIOUS
<1>2. /\ \A f, h : Pointer(f, h)' = Pointer(f, h)
      /\ \A f, k, n, h : Reaches(f, k, n, h)' <=> Reaches(f, k, n, h)
  BY ReachesQuiet
<1>3. loc'[u] = l
  BY <1>1
<1>4. CASE l.pc \in {"map", "new"}
  <2>1. PICK n \in 1 .. 3 : /\ Reaches(l.f, l.k, n, Item(l.cell.b, l.cell.i, Len(l.path)))
                            /\ Ahead(l.k, n, l.path)
    BY <1>1, <1>4 DEF CallOK
  <2>2. PICK h : h = Item(l.cell.b, l.cell.i, Len(l.path))
    OBVIOUS
  <2>3. \A f, k : f = l.f /\ k = l.k => Reaches(f, k, n, h)'
    BY <1>2, <2>1, <2>2
  <2>4. l.pc = "new" => l.op = "write" /\ Fetch(l.f, l.cell) = None
    BY <1>1 DEF CallOK
  <2>5. l.pc = "new" => l.op = "write" /\ \A f : f = l.f => Fetch(f, l.cell)' = None
    BY <2>4 DEF Fetch
  <2> QED
    BY <1>3, <1>4, <2>1, <2>2, <2>3, <2>5, CallMaps
<1>5. CASE l.pc = "data"
  <2>1. l.blk # None /\ \E h : Reaches(l.f, l.k, Len(Path(l.k)), h) /\ Pointer(l.f, h) = l.blk
    BY <1>1, <1>5 DEF CallOK
  <2>2. PICK h : Reaches(l.f, l.k, Len(Path(l.k)), h) /\ Pointer(l.f, h) = l.blk
    BY <2>1
  <2>3. \A f, k : f = l.f /\ k = l.k => Reaches(f, k, Len(Path(k)), h)' /\ Pointer(f, h)' = l.blk
    BY <1>2, <2>2 DEF Path
  <2> QED
    BY <1>3, <1>5, <2>1, <2>3, CallHas
<1>6. CASE l.pc = "free"
  <2>1. PICK q : q = l.todo
    OBVIOUS
  <2>2. PICK f : f = l.f
    OBVIOUS
  <2>3. TodoOK(q) /\ DirectHeld(f, q)
    BY <1>1, <1>6, <2>1, <2>2 DEF CallOK, DirectHeld
  <2>4. DirectHeld(f, q)'
    BY <2>3 DEF DirectHeld, RootItem, Item
  <2> QED
    BY <1>3, <1>6, <2>1, <2>2, <2>3, <2>4, CallFrees
<1>7. CASE l.pc = "idle"
  BY <1>3, <1>7 DEF CallOK
<1>8. l.pc \in {"idle", "map", "new", "data", "free"}
  BY <1>1 DEF BlocksTypeOK, LocTyped, Resting
<1> QED
  BY <1>4, <1>5, <1>6, <1>7, <1>8

LEMMA QuietSound ==
  ASSUME BlocksTypeOK, Alone, NEW L, Sound(L), NEW t \in Tasks, NEW l,
         loc' = [loc EXCEPT ![t] = l], UNCHANGED <<zone, mem, written>>,
         loc[t].op # "truncate", l.op # "truncate", MapOK(L)', CallOK(t)'
  PROVE  Sound(L)'
<1>1. /\ \A f, h : Pointer(f, h)' = Pointer(f, h)
      /\ \A f, k, n, h : Reaches(f, k, n, h)' <=> Reaches(f, k, n, h)
  BY ReachesQuiet
<1>2. DOMAIN loc = Tasks
  BY DEF BlocksTypeOK
<1>3. \A f : (Truncating(f)' <=> Truncating(f)) /\ \A h : Roots(f, h)' <=> Roots(f, h)
  BY <1>2, RootsKept
<1>4. ASSUME NEW f \in Files PROVE Tree(f, L[f])'
  BY <1>1, <1>3, TreeKept DEF Sound
<1>5. Apart(L)'
  BY <1>1 DEF Sound, Apart
<1>6. ASSUME NEW f \in Files, ~Truncating(f)'
      PROVE  Contents(f)' /\ \A h \in L[f] : Pointer(f, h)' # None => OnRoute(f, h)'
  <2>1. Contents(f) /\ \A h \in L[f] : Pointer(f, h) # None => OnRoute(f, h)
    BY <1>3, <1>6 DEF Sound
  <2>2. Contents(f)'
    BY <1>1, <2>1 DEF Contents, Path, Stamp
  <2>3. \A h : OnRoute(f, h) => OnRoute(f, h)'
    BY <1>1 DEF OnRoute
  <2> QED
    BY <1>1, <2>1, <2>2, <2>3
<1>7. ASSUME NEW u \in Tasks, u # t PROVE CallOK(u)'
  <2>1. CallOK(u) /\ loc'[u] = loc[u]
    BY <1>2, <1>7 DEF Sound
  <2> QED
    BY <2>1, CallQuiet
<1>8. \A u \in Tasks : CallOK(u)'
  BY <1>7
<1> QED
  BY <1>4, <1>5, <1>6, <1>8, SoundIs

LEMMA QuietMap ==
  ASSUME BlocksTypeOK, NEW L, MapOK(L), NEW t \in Tasks, NEW l,
         loc' = [loc EXCEPT ![t] = l], UNCHANGED <<zmap, zone, mem, lost>>,
         loc[t].pc # "new", l.pc # "new"
  PROVE  MapOK(L)'
<1>1. \A f, h : Pointer(f, h)' = Pointer(f, h)
  BY ReachesQuiet
<1>2. DOMAIN loc = Tasks
  BY DEF BlocksTypeOK
<1>3. \A u \in Tasks : loc'[u].pc = "new" => loc'[u] = loc[u] /\ u # t
  BY <1>2
<1>4. \A u \in Tasks : loc[u].pc = "new" => loc'[u] = loc[u]
  BY <1>2
<1>5. \A b : NewBlock(b)' <=> NewBlock(b)
  BY <1>3, <1>4 DEF NewBlock
<1> QED
  BY <1>1, <1>3, <1>4, <1>5 DEF MapOK

(* One writer per file, and nobody beside a truncate(). *)
LEMMA AloneKept ==
  ASSUME BlocksTypeOK, Alone, NEW t \in Tasks, NEW l, loc' = [loc EXCEPT ![t] = l],
         l.pc = "idle" \/ (loc[t].pc # "idle" /\ l.f = loc[t].f /\ l.op = loc[t].op)
  PROVE  Alone'
<1>1. loc'[t] = l /\ \A u \in Tasks : u # t => loc'[u] = loc[u]
  BY DEF BlocksTypeOK
<1> QED
  BY <1>1 DEF Alone

LEMMA AloneStart ==
  ASSUME BlocksTypeOK, Alone, Races = {}, NEW t \in Tasks, NEW l, loc' = [loc EXCEPT ![t] = l],
         l.op \in {"read", "write", "truncate"}, Admitted(l.f, l.op), loc[t].pc = "idle"
  PROVE  Alone'
<1>1. loc'[t] = l /\ \A u \in Tasks : u # t => loc'[u] = loc[u]
  BY DEF BlocksTypeOK
<1>2. ASSUME NEW u \in Tasks, u # t, loc[u].pc # "idle", loc[u].f = l.f
      PROVE  /\ loc[u].op # "truncate" /\ l.op # "truncate"
             /\ loc[u].op = "read" \/ l.op = "read"
  <2>1. loc[u].op \in {"read", "write", "truncate"} /\ Using(l.f, loc[u].op)
    BY <1>2, OpIs DEF Using
  <2>2. CASE l.op = "read"
    BY <2>1, <2>2 DEF Admitted
  <2>3. CASE l.op = "write"
    BY <2>1, <2>3 DEF Admitted
  <2>4. CASE l.op = "truncate"
    BY <2>1, <2>4 DEF Admitted
  <2> QED
    BY <2>2, <2>3, <2>4
<1> QED
  BY <1>1, <1>2 DEF Alone

----------------------------------------------------------------------------
(* The steps that change only what a task has in hand. *)

LEMMA LocKept ==
  ASSUME BlocksTypeOK, NEW t \in Tasks, NEW l, LocTyped(l), loc' = [loc EXCEPT ![t] = l]
  PROVE  DOMAIN loc' = Tasks /\ \A u \in Tasks : LocTyped(loc'[u])
  BY DEF BlocksTypeOK

LEMMA RestingTyped ==
  /\ LocTyped(Resting) /\ Resting.pc = "idle" /\ Resting.op = "none" /\ Resting.todo = << >>
<1>1. << >> \in Seq(Nat) /\ << >> \in Seq(Items)
  OBVIOUS
<1> QED
  BY <1>1 DEF LocTyped, Resting, None

LEMMA QuietStep ==
  ASSUME BlocksTypeOK, Alone, NEW L, Sound(L), NEW t \in Tasks, NEW l, LocTyped(l),
         loc' = [loc EXCEPT ![t] = l], UNCHANGED <<zmap, zone, mem, size, written, lost>>,
         loc[t].op # "truncate", l.op # "truncate", loc[t].pc # "new", l.pc # "new", CallOK(t)'
  PROVE  BlocksTypeOK' /\ Sound(L)'
<1>1. BlocksTypeOK'
  BY LocKept DEF BlocksTypeOK
<1>2. MapOK(L)'
  BY QuietMap DEF Sound
<1> QED
  BY <1>1, <1>2, QuietSound

LEMMA ReturnStep ==
  ASSUME BlocksTypeOK, Alone, NEW L, Sound(L), NEW t \in Tasks, Return(t),
         UNCHANGED <<zmap, zone, mem, size, written, lost>>,
         loc[t].pc \in {"map", "data"}
  PROVE  BlocksTypeOK' /\ Alone' /\ Sound(L)'
<1>1. loc' = [loc EXCEPT ![t] = Resting]
  BY DEF Return, Goto
<1>2. loc'[t] = Resting
  BY <1>1 DEF BlocksTypeOK
<1>3. CallOK(t)'
  BY <1>2, RestingTyped DEF CallOK
<1>4. loc[t].op # "truncate"
  BY OpIs
<1>5. Alone'
  BY <1>1, RestingTyped, AloneKept
<1> QED
  BY <1>1, <1>3, <1>4, <1>5, RestingTyped, QuietStep

LEMMA PathTyped ==
  ASSUME NEW k \in Indexes
  PROVE  /\ Path(k) \in Seq(Nat) /\ Path(k) # << >> /\ Head(Path(k)) = Path(k)[1]
         /\ Tail(Path(k)) \in Seq(Nat) /\ Len(Tail(Path(k))) = Len(Path(k)) - 1
         /\ \A i \in 1 .. Len(Tail(Path(k))) : Tail(Path(k))[i] = Path(k)[1 + i]
<1>1. PICK p1 \in Zones, p2 \in Words, p3 \in Words :
        \/ Path(k) = <<p1>> \/ Path(k) = <<p1, p2>> \/ Path(k) = <<p1, p2, p3>>
  BY PathForm
<1>2. p1 \in Nat /\ p2 \in Nat /\ p3 \in Nat
  BY Numbers
<1>3. Path(k) \in Seq(Nat) /\ Path(k) # << >>
  <2>1. <<p1>> \in Seq(Nat) /\ <<p1, p2>> \in Seq(Nat) /\ <<p1, p2, p3>> \in Seq(Nat)
    BY <1>2
  <2>2. <<p1>> # << >> /\ <<p1, p2>> # << >> /\ <<p1, p2, p3>> # << >>
    OBVIOUS
  <2> QED
    BY <1>1, <2>1, <2>2, Zenon
<1> DEFINE s == Path(k)
<1> HIDE DEF s
<1>4. s \in Seq(Nat) /\ s # << >>
  BY <1>3 DEF s
<1>5. /\ Head(s) = s[1] /\ Tail(s) \in Seq(Nat) /\ Len(Tail(s)) = Len(s) - 1
      /\ \A i \in 1 .. Len(Tail(s)) : Tail(s)[i] = s[1 + i]
  BY <1>4
<1> QED
  BY <1>4, <1>5 DEF s

LEMMA StartAccessKeeps ==
  ASSUME BlocksTypeOK, Alone, Races = {}, NEW L, Sound(L), NEW t \in Tasks,
         NEW op, NEW f \in Files, NEW k \in Indexes, StartAccess(t, op, f, k)
  PROVE  BlocksTypeOK' /\ Alone' /\ Sound(L)'
<1>0. PICK l : l = [Resting EXCEPT !.pc = "map", !.op = op, !.f = f, !.k = k,
                    !.path = Tail(Path(k)), !.cell = [b |-> 0, i |-> Head(Path(k))]]
  OBVIOUS
<1>1. /\ loc' = [loc EXCEPT ![t] = l] /\ loc[t].pc = "idle" /\ op \in {"read", "write"}
      /\ Admitted(f, op) /\ UNCHANGED <<zmap, zone, mem, size, written, lost>>
  BY <1>0 DEF StartAccess, Goto
<1>2. /\ l.pc = "map" /\ l.op = op /\ l.f = f /\ l.k = k /\ l.path = Tail(Path(k))
      /\ l.cell = [b |-> 0, i |-> Path(k)[1]] /\ l.blk = None /\ l.todo = << >>
      /\ DOMAIN l = {"pc", "op", "f", "k", "path", "cell", "blk", "todo"}
  BY <1>0, PathTyped DEF Resting
<1>3. Path(k)[1] \in Nat
  BY Cell1Is, Numbers
<1>4. LocTyped(l)
  <2>1. l.cell \in [b : Nat, i : Nat]
    BY <1>2, <1>3
  <2>2. l.todo \in Seq(Items) /\ l.path \in Seq(Nat) /\ l.blk \in Nat
    BY <1>2, PathTyped DEF None
  <2> QED
    BY <1>1, <1>2, <2>1, <2>2 DEF LocTyped
<1>5. loc'[t] = l
  BY <1>1 DEF BlocksTypeOK
<1>6. CallOK(t)'
  <2>1. Item(l.cell.b, l.cell.i, Len(l.path)) = Cell1(k)
    BY <1>2, PathTyped DEF Cell1
  <2>2. Reaches(f, k, 1, Cell1(k)) /\ Ahead(k, 1, l.path)
    BY <1>2, PathTyped, ReachesFirst DEF Ahead
  <2>3. PICK h : h = Cell1(k)
    OBVIOUS
  <2>4. \A g, j : g = l.f /\ j = l.k => Reaches(g, j, 1, h)'
    BY <1>1, <1>2, <2>2, <2>3, ReachesQuiet
  <2>5. l.pc \in {"map", "new"} /\ 1 \in 1 .. 3 /\ h = Item(l.cell.b, l.cell.i, Len(l.path))
        /\ Ahead(l.k, 1, l.path)
    BY <1>2, <2>1, <2>2, <2>3
  <2>6. l.pc = "new" => l.op = "write" /\ \A g : g = l.f => Fetch(g, l.cell)' = None
    BY <1>2
  <2> QED
    BY <1>5, <2>4, <2>5, <2>6, CallMaps
<1>7. Alone'
  BY <1>1, <1>2, AloneStart
<1>8. loc[t].op # "truncate" /\ loc[t].pc # "new" /\ l.op # "truncate" /\ l.pc # "new"
  BY <1>1, <1>2, OpIs
<1> QED
  BY <1>1, <1>4, <1>6, <1>7, <1>8, QuietStep

(* The same of every cell, to be read in the next state too. *)
NextCells ==
  \A f : \A k \in Indexes : \A n, h :
    Reaches(f, k, n, h) /\ n < Len(Path(k)) /\ Pointer(f, h) # None =>
      Reaches(f, k, n + 1, Item(Pointer(f, h), Path(k)[n + 1], Len(Path(k)) - (n + 1)))

LEMMA NextCellsHold == NextCells
  BY ReachesNext DEF NextCells

(* The pointer b was in the cell h, the n-th on the way, or is now. *)
LEMMA FollowGoes ==
  ASSUME BlocksTypeOK, NEW t \in Tasks, loc[t].pc \in {"map", "new"}, NEW b \in Nat, b # None,
         Follow(t, b), NEW n \in 1 .. 3, NEW h, Ahead(loc[t].k, n, loc[t].path),
         \A f, k : f = loc[t].f /\ k = loc[t].k => Reaches(f, k, n, h)' /\ Pointer(f, h)' = b
  PROVE  \E l : /\ loc' = [loc EXCEPT ![t] = l] /\ LocTyped(l) /\ l.pc \in {"map", "data"}
                /\ l.op = loc[t].op /\ l.f = loc[t].f /\ l.op # "truncate" /\ CallOK(t)'
<1>0. PICK o : o = loc[t]
  OBVIOUS
<1>1. /\ LocTyped(o) /\ DOMAIN loc = Tasks /\ o.k \in Indexes /\ o.f \in Files
      /\ o.op \in {"read", "write"} /\ o.path \in Seq(Nat)
      /\ DOMAIN o = {"pc", "op", "f", "k", "path", "cell", "blk", "todo"}
      /\ o.todo \in Seq(Items) /\ o.cell \in [b : Nat, i : Nat]
  BY <1>0, OpIs DEF BlocksTypeOK, LocTyped
<1> DEFINE len == Len(Path(o.k))
<1>2. len \in 1 .. 3
  BY <1>1, Cell1Is
<1>3. Len(o.path) = len - n /\ \A i \in 1 .. Len(o.path) : o.path[i] = Path(o.k)[n + i]
  BY <1>0 DEF Ahead
<1>4. \A f, k : f = o.f /\ k = o.k => Reaches(f, k, n, h)' /\ Pointer(f, h)' = b
  BY <1>0
<1>5. CASE o.path = << >>
  <2>1. PICK l : l = [o EXCEPT !.pc = "data", !.blk = b]
    OBVIOUS
  <2>2. /\ l.pc = "data" /\ l.blk = b /\ l.op = o.op /\ l.f = o.f /\ l.k = o.k
        /\ l.path = o.path /\ l.cell = o.cell /\ l.todo = o.todo
        /\ DOMAIN l = {"pc", "op", "f", "k", "path", "cell", "blk", "todo"}
    BY <1>1, <2>1
  <2>3. loc' = [loc EXCEPT ![t] = l] /\ loc'[t] = l
    BY <1>0, <1>1, <1>5, <2>1 DEF Follow, Goto
  <2>4. LocTyped(l)
    BY <1>1, <2>2 DEF LocTyped
  <2>5. n = len
    <3> HIDE DEF len
    <3> QED
      BY <1>2, <1>3, <1>5
  <2>6. \A f, k : f = l.f /\ k = l.k => Reaches(f, k, Len(Path(k)), h)' /\ Pointer(f, h)' = l.blk
    BY <1>4, <2>2, <2>5
  <2>7. CallOK(t)'
    BY <2>2, <2>3, <2>6, CallHas
  <2> QED
    BY <1>0, <1>1, <2>2, <2>3, <2>4, <2>7
<1>6. CASE o.path # << >>
  <2>1. PICK l : l = [o EXCEPT !.pc = "map", !.blk = None, !.path = Tail(@),
                        !.cell = [b |-> b, i |-> Head(o.path)]]
    OBVIOUS
  <2>2. /\ l.pc = "map" /\ l.blk = None /\ l.op = o.op /\ l.f = o.f /\ l.k = o.k
        /\ l.path = Tail(o.path) /\ l.cell = [b |-> b, i |-> Head(o.path)] /\ l.todo = o.todo
        /\ DOMAIN l = {"pc", "op", "f", "k", "path", "cell", "blk", "todo"}
    BY <1>1, <2>1
  <2>3. loc' = [loc EXCEPT ![t] = l] /\ loc'[t] = l
    BY <1>0, <1>1, <1>6, <2>1 DEF Follow, Goto
  <2> DEFINE s == o.path
             m == Len(s)
  <2>4. /\ m \in Nat /\ m > 0 /\ Head(s) = s[1] /\ s[1] \in Nat /\ Tail(s) \in Seq(Nat)
        /\ Len(Tail(s)) = m - 1 /\ \A i \in 1 .. Len(Tail(s)) : Tail(s)[i] = s[1 + i]
    BY <1>1, <1>6
  <2>5. LocTyped(l)
    <3>1. l.cell \in [b : Nat, i : Nat]
      BY <2>2, <2>4
    <3> QED
      BY <1>1, <2>2, <2>4, <3>1 DEF LocTyped, None
  <2>6. /\ n < len /\ n + 1 \in 1 .. 3 /\ m - 1 = len - (n + 1) /\ s[1] = Path(o.k)[n + 1]
        /\ \A i \in 1 .. m - 1 : s[1 + i] = Path(o.k)[n + 1 + i]
    <3> HIDE DEF len, m, s
    <3>1. m = len - n /\ \A i \in 1 .. m : s[i] = Path(o.k)[n + i]
      BY <1>3 DEF m, s
    <3>2. n < len /\ n + 1 \in 1 .. 3 /\ m - 1 = len - (n + 1)
      BY <1>2, <2>4, <3>1
    <3>3. \A i \in 1 .. m - 1 : 1 + i \in 1 .. m /\ n + (1 + i) = n + 1 + i
      BY <2>4, SMTT(30)
    <3>4. 1 \in 1 .. m
      BY <2>4
    <3> QED
      BY <3>1, <3>2, <3>3, <3>4
  <2>7. PICK g : g = Item(b, Path(o.k)[n + 1], len - (n + 1))
    OBVIOUS
  <2>8. \A f, k : f = l.f /\ k = l.k => Reaches(f, k, n + 1, g)'
    <3>1. ASSUME NEW f, NEW k, f = l.f, k = l.k PROVE Reaches(f, k, n + 1, g)'
      <4>1. k \in Indexes /\ k = o.k /\ Reaches(f, k, n, h)' /\ Pointer(f, h)' = b
        BY <1>1, <1>4, <2>2, <3>1
      <4>2. NextCells'
        BY NextCellsHold, PTL
      <4>3. Reaches(f, k, n + 1, Item(Pointer(f, h), Path(k)[n + 1], Len(Path(k)) - (n + 1)))'
        BY <2>6, <4>1, <4>2 DEF None, Path, NextCells
      <4>4. Item(Pointer(f, h), Path(k)[n + 1], Len(Path(k)) - (n + 1))' = g
        BY <2>7, <4>1 DEF Item, Path
      <4> QED
        BY <4>3, <4>4
    <3> QED
      BY <3>1
  <2>9. Ahead(l.k, n + 1, l.path) /\ g = Item(l.cell.b, l.cell.i, Len(l.path))
    BY <2>2, <2>4, <2>6, <2>7, SMTT(30) DEF Ahead
  <2>10. l.pc = "new" => l.op = "write" /\ \A f : f = l.f => Fetch(f, l.cell)' = None
    BY <2>2
  <2>11. CallOK(t)'
    BY <2>2, <2>3, <2>6, <2>8, <2>9, <2>10, CallMaps
  <2> QED
    BY <1>0, <1>1, <2>2, <2>3, <2>5, <2>11
<1> QED
  BY <1>5, <1>6

LEMMA MapFollowKeeps ==
  ASSUME BlocksTypeOK, Alone, NEW L, Sound(L), NEW t \in Tasks, MapFollow(t)
  PROVE  BlocksTypeOK' /\ Alone' /\ Sound(L)'
<1>0. PICK o : o = loc[t]
  OBVIOUS
<1>1. /\ o.pc = "map" /\ Fetch(o.f, o.cell) # None /\ Follow(t, Fetch(o.f, o.cell))
      /\ UNCHANGED <<zmap, zone, mem, size, written, lost>>
  BY <1>0 DEF MapFollow
<1>2. ~Truncating(o.f) /\ o.f \in Files /\ o.k \in Indexes /\ o.op # "truncate"
  BY <1>0, <1>1, NotBeside, OpIs
<1>3. PICK n \in 1 .. 3 : /\ Reaches(o.f, o.k, n, Item(o.cell.b, o.cell.i, Len(o.path)))
                          /\ Ahead(o.k, n, o.path)
  BY <1>0, <1>1 DEF Sound, CallOK
<1>4. PICK h : h = Item(o.cell.b, o.cell.i, Len(o.path))
  OBVIOUS
<1>5. PICK b : b = Fetch(o.f, o.cell)
  OBVIOUS
<1>6. Tree(o.f, L[o.f])
  BY <1>2 DEF Sound
<1>7. Reaches(o.f, o.k, n, h) /\ Pointer(o.f, h) = b /\ h \in L[o.f]
  <2>1. Reaches(o.f, o.k, n, h)
    BY <1>3, <1>4
  <2>2. h \in L[o.f]
    BY <1>2, <1>6, <2>1, ReachesIn
  <2>3. Pointer(o.f, Item(o.cell.b, o.cell.i, Len(o.path))) = Fetch(o.f, o.cell)
    BY <1>2, <1>3, <1>6, FetchIs
  <2> QED
    BY <1>4, <1>5, <2>1, <2>2, <2>3
<1>8. b \in Nat /\ b # None
  BY <1>1, <1>5, <1>6, <1>7, Numbers DEF Tree
<1>9. \A f, k : f = o.f /\ k = o.k => Reaches(f, k, n, h)' /\ Pointer(f, h)' = b
  BY <1>1, <1>7, ReachesQuiet
<1>10. PICK l : /\ loc' = [loc EXCEPT ![t] = l] /\ LocTyped(l) /\ l.pc \in {"map", "data"}
                /\ l.op = o.op /\ l.f = o.f /\ l.op # "truncate" /\ CallOK(t)'
  <2>1. loc[t].pc \in {"map", "new"} /\ Follow(t, b) /\ Ahead(loc[t].k, n, loc[t].path)
    BY <1>0, <1>1, <1>3, <1>5
  <2>2. \A f, k : f = loc[t].f /\ k = loc[t].k => Reaches(f, k, n, h)' /\ Pointer(f, h)' = b
    BY <1>0, <1>9
  <2> QED
    BY <1>0, <1>8, <2>1, <2>2, FollowGoes
<1>11. Alone'
  BY <1>0, <1>1, <1>10, AloneKept
<1> QED
  BY <1>0, <1>1, <1>2, <1>10, <1>11, QuietStep

LEMMA MapHoleKeeps ==
  ASSUME BlocksTypeOK, Alone, NEW L, Sound(L), NEW t \in Tasks,
         MapHole(t) \/ DiskFull(t) \/ ReadFails(t)
  PROVE  BlocksTypeOK' /\ Alone' /\ Sound(L)'
  BY ReturnStep DEF MapHole, DiskFull, ReadFails

LEMMA StartAppendKeeps ==
  ASSUME BlocksTypeOK, Alone, Races = {}, NEW L, Sound(L), NEW t \in Tasks,
         NEW f \in Files, StartAppend(t, f)
  PROVE  BlocksTypeOK' /\ Alone' /\ Sound(L)'
  BY StartAccessKeeps DEF StartAppend

----------------------------------------------------------------------------
(* The steps that take and enter a new block. *)

LEMMA new_blockKeeps ==
  ASSUME BlocksTypeOK, Alone, NEW L, Sound(L), NEW t \in Tasks, new_block(t)
  PROVE  BlocksTypeOK' /\ Alone' /\ Sound(L)'
<1>0. PICK o : o = loc[t]
  OBVIOUS
<1>1. PICK b : b = Min(Blocks \ zmap)
  OBVIOUS
<1>2. PICK l : l = [o EXCEPT !.pc = "new", !.blk = b]
  OBVIOUS
<1>3. /\ o.pc = "map" /\ o.op = "write" /\ Fetch(o.f, o.cell) = None /\ Blocks \ zmap # {}
      /\ zmap' = zmap \cup {b} /\ loc' = [loc EXCEPT ![t] = l]
      /\ UNCHANGED <<zone, mem, size, written, lost>>
  BY <1>0, <1>1, <1>2 DEF new_block, Marked, Goto
<1>4. b \in Blocks /\ b \notin zmap /\ b \in Nat
  <2>1. Blocks \ zmap \in SUBSET Nat
    BY Numbers
  <2> QED
    BY <1>1, <1>3, <2>1, MinSmallest
<1>5. /\ LocTyped(o) /\ DOMAIN loc = Tasks /\ o.k \in Indexes /\ o.f \in Files
      /\ DOMAIN o = {"pc", "op", "f", "k", "path", "cell", "blk", "todo"}
  BY <1>0, <1>3, OpIs DEF BlocksTypeOK, LocTyped
<1>6. /\ l.pc = "new" /\ l.blk = b /\ l.op = "write" /\ l.f = o.f /\ l.k = o.k
      /\ l.path = o.path /\ l.cell = o.cell /\ l.todo = o.todo
      /\ DOMAIN l = {"pc", "op", "f", "k", "path", "cell", "blk", "todo"}
  BY <1>2, <1>3, <1>5
<1>7. LocTyped(l)
  BY <1>4, <1>5, <1>6 DEF LocTyped
<1>8. loc'[t] = l /\ \A u \in Tasks : u # t => loc'[u] = loc[u]
  BY <1>3, <1>5
<1>9. BlocksTypeOK'
  BY <1>3, <1>4, <1>7, LocKept DEF BlocksTypeOK
<1>10. Alone'
  BY <1>0, <1>3, <1>6, AloneKept
<1>11. CallOK(t)'
  <2>1. PICK n \in 1 .. 3 : /\ Reaches(o.f, o.k, n, Item(o.cell.b, o.cell.i, Len(o.path)))
                            /\ Ahead(o.k, n, o.path)
    BY <1>0, <1>3 DEF Sound, CallOK
  <2>2. PICK h : h = Item(l.cell.b, l.cell.i, Len(l.path))
    OBVIOUS
  <2>3. \A f, k : f = l.f /\ k = l.k => Reaches(f, k, n, h)'
    BY <1>3, <1>6, <2>1, <2>2, ReachesQuiet
  <2>4. l.pc = "new" => l.op = "write" /\ \A f : f = l.f => Fetch(f, l.cell)' = None
    BY <1>3, <1>6 DEF Fetch
  <2>5. Ahead(l.k, n, l.path) /\ l.pc \in {"map", "new"}
    BY <1>6, <2>1
  <2> QED
    BY <1>8, <2>2, <2>3, <2>4, <2>5, CallMaps
<1>12. MapOK(L)'
  <2>1. \A f, h : Pointer(f, h)' = Pointer(f, h)
    BY <1>3, ReachesQuiet
  <2>2. MapOK(L) /\ lost \subseteq zmap
    BY DEF Sound, BlocksTypeOK
  <2>3. \A c : NewBlock(c)' <=> NewBlock(c) \/ c = b
    <3>1. NewBlock(b)'
      BY <1>6, <1>8 DEF NewBlock
    <3>2. ASSUME NEW c, NewBlock(c) PROVE NewBlock(c)'
      BY <1>0, <1>3, <1>8, <3>2 DEF NewBlock
    <3>3. ASSUME NEW c, NewBlock(c)', c # b PROVE NewBlock(c)
      <4>1. PICK u \in Tasks : loc'[u].pc = "new" /\ loc'[u].blk = c
        BY <3>3 DEF NewBlock
      <4>2. u # t
        BY <1>6, <1>8, <3>3, <4>1
      <4> QED
        BY <1>8, <4>1, <4>2 DEF NewBlock
    <3> QED
      BY <3>1, <3>2, <3>3
  <2>4. \A f \in Files : \A h \in L[f] : Pointer(f, h)' # None =>
          Pointer(f, h)' \in zmap' \ lost' /\ ~NewBlock(Pointer(f, h))'
    <3> SUFFICES ASSUME NEW f \in Files, NEW h \in L[f], Pointer(f, h)' # None
                 PROVE  Pointer(f, h)' \in zmap' \ lost' /\ ~NewBlock(Pointer(f, h))'
      OBVIOUS
    <3>1. Pointer(f, h) \in zmap \ lost /\ ~NewBlock(Pointer(f, h))
      BY <2>1, <2>2 DEF MapOK
    <3>2. PICK p : p = Pointer(f, h) /\ p = Pointer(f, h)'
      BY <2>1
    <3>3. ~NewBlock(p)'
      BY <1>4, <2>3, <3>1, <3>2
    <3> QED
      BY <1>3, <3>1, <3>2, <3>3 DEF NewBlock
  <2>5. \A c \in zmap' : c \in lost' \/ NewBlock(c)' \/ \E f \in Files : \E h \in L[f] : Pointer(f, h)' = c
    BY <1>3, <2>1, <2>2, <2>3 DEF MapOK
  <2>6. \A u \in Tasks : loc'[u].pc = "new" =>
          /\ loc'[u].blk \in zmap' \ lost'
          /\ \A v \in Tasks : loc'[v].pc = "new" /\ loc'[v].blk = loc'[u].blk => v = u
    BY <1>3, <1>4, <1>6, <1>8, <2>2 DEF MapOK
  <2> QED
    BY <2>4, <2>5, <2>6 DEF MapOK
<1> QED
  BY <1>0, <1>3, <1>6, <1>9, <1>10, <1>11, <1>12, QuietSound

(* Two cells of one place are one, and two ways to one cell are one way. *)
LEMMA RootIs ==
  ASSUME NEW f, NEW S, Tree(f, S), ~Truncating(f), NEW h \in S, h.b = 0
  PROVE  h.i \in Zones /\ h = RootItem(h.i)
<1>1. ~(\E g \in S : Parent(f, g, h))
  BY DEF Parent, None
<1>2. Roots(f, h)
  BY <1>1 DEF Tree
<1>3. PICK z \in Zones : h = RootItem(z)
  BY <1>2 DEF Roots, Truncating
<1> QED
  BY <1>3, ItemFields DEF RootItem

LEMMA CellOnce ==
  ASSUME BlocksTypeOK, NEW L, Sound(L), NEW f \in Files, NEW h \in L[f], ~Truncating(f),
         NEW g \in Files, NEW j \in L[g], j.b = h.b, j.i = h.i, h.b = 0 => g = f
  PROVE  g = f /\ j = h
<1>1. Tree(f, L[f]) /\ Tree(g, L[g]) /\ Apart(L) /\ \A t \in Tasks : CallOK(t)
  BY DEF Sound
<1>2. CASE h.b = 0
  BY <1>1, <1>2, RootIs
<1>3. CASE h.b # 0
  <2>1. PICK h1 \in L[f] : Pointer(f, h1) = h.b /\ Parent(f, h1, h)
    BY <1>1, <1>3, Held
  <2>2. PICK j1 \in L[g] : /\ Pointer(g, j1) = j.b
                           /\ Parent(g, j1, j) \/ (Truncating(g) /\ j1 = Self(j.b))
    BY <1>1, <1>3, Held
  <2>3. g = f /\ j1 = h1
    BY <1>1, <1>3, <2>1, <2>2 DEF Apart, None
  <2>4. h1.depth = h.depth + 1 /\ h1.depth = j.depth + 1
    BY <2>1, <2>2, <2>3 DEF Parent
  <2>5. h \in Items /\ j \in Items
    BY <1>1 DEF Tree
  <2>6. h.depth \in Nat /\ j.depth \in Nat
    BY <2>5, ItemIs
  <2>7. h.depth = j.depth
    BY <2>4, <2>6
  <2> QED
    BY <2>3, <2>5, <2>7, ItemIs
<1> QED
  BY <1>2, <1>3

LEMMA ReachesAt ==
  ASSUME NEW f, NEW k, NEW h
  PROVE  /\ Reaches(f, k, 1, h) => h = Cell1(k)
         /\ Reaches(f, k, 2, h) => /\ Len(Path(k)) >= 2 /\ Pointer(f, Cell1(k)) # None
                                   /\ h = Cell2(f, k) /\ h.b = Pointer(f, Cell1(k))
                                   /\ h.i = Path(k)[2]
         /\ Reaches(f, k, 3, h) =>
              /\ Len(Path(k)) = 3 /\ Pointer(f, Cell1(k)) # None /\ Pointer(f, Cell2(f, k)) # None
              /\ h = Cell3(f, k) /\ h.b = Pointer(f, Cell2(f, k)) /\ h.i = Path(k)[3]
              /\ Reaches(f, k, 2, Cell2(f, k))
<1>1. Reaches(f, k, 1, h) => h = Cell1(k)
  BY DEF Reaches
<1>2. Reaches(f, k, 2, h) => Len(Path(k)) >= 2 /\ Pointer(f, Cell1(k)) # None /\ h = Cell2(f, k)
  BY DEF Reaches
<1>3. Reaches(f, k, 3, h) =>
        /\ Len(Path(k)) = 3 /\ Pointer(f, Cell1(k)) # None /\ Pointer(f, Cell2(f, k)) # None
        /\ h = Cell3(f, k)
  BY DEF Reaches
<1>4. Len(Path(k)) = 3 /\ Pointer(f, Cell1(k)) # None => Reaches(f, k, 2, Cell2(f, k))
  BY DEF Reaches
<1>5. Cell2(f, k).b = Pointer(f, Cell1(k)) /\ Cell2(f, k).i = Path(k)[2]
  BY ItemFields DEF Cell2
<1>6. Cell3(f, k).b = Pointer(f, Cell2(f, k)) /\ Cell3(f, k).i = Path(k)[3]
  BY ItemFields DEF Cell3
<1> QED
  BY <1>1, <1>2, <1>3, <1>4, <1>5, <1>6

LEMMA RouteSame1 ==
  ASSUME NEW j \in Indexes, NEW k \in Indexes, Cell1(j) = Cell1(k)
  PROVE  Path(j)[1] = Path(k)[1] /\ Len(Path(j)) = Len(Path(k))
<1> DEFINE m == Len(Path(j))
           n == Len(Path(k))
<1>1. Path(j)[1] = Path(k)[1] /\ m - 1 = n - 1 /\ m \in 1 .. 3 /\ n \in 1 .. 3
  BY Cell1Is
<1> HIDE DEF m, n
<1>2. m = n
  BY <1>1
<1> QED
  BY <1>1, <1>2 DEF m, n

LEMMA RouteSame2 ==
  ASSUME NEW L, Apart(L), NEW f \in Files, Tree(f, L[f]), ~Truncating(f),
         NEW j \in Indexes, NEW k \in Indexes, NEW h, Reaches(f, j, 2, h), Reaches(f, k, 2, h)
  PROVE  Path(j)[1] = Path(k)[1] /\ Len(Path(j)) = Len(Path(k)) /\ Path(j)[2] = Path(k)[2]
<1>1. /\ Pointer(f, Cell1(j)) # None /\ h = Cell2(f, j)
      /\ Pointer(f, Cell1(k)) # None /\ h = Cell2(f, k)
  BY ReachesAt
<1>2. Cell1(j) \in L[f] /\ Cell1(k) \in L[f]
  BY Cell1Is, RootsThere
<1>3. h.b = Pointer(f, Cell1(j)) /\ h.b = Pointer(f, Cell1(k)) /\ h.i = Path(j)[2] /\ h.i = Path(k)[2]
  BY <1>1, ItemFields DEF Cell2
<1>4. Cell1(j) = Cell1(k)
  BY <1>1, <1>2, <1>3 DEF Apart
<1> QED
  BY <1>3, <1>4, RouteSame1

LEMMA RouteSame3 ==
  ASSUME NEW L, Apart(L), NEW f \in Files, Tree(f, L[f]), ~Truncating(f),
         NEW j \in Indexes, NEW k \in Indexes, NEW h, Reaches(f, j, 3, h), Reaches(f, k, 3, h)
  PROVE  /\ Path(j)[1] = Path(k)[1] /\ Path(j)[2] = Path(k)[2] /\ Path(j)[3] = Path(k)[3]
         /\ Len(Path(j)) = 3 /\ Len(Path(k)) = 3
<1>1. /\ Len(Path(j)) = 3 /\ Pointer(f, Cell2(f, j)) # None /\ h = Cell3(f, j)
      /\ Len(Path(k)) = 3 /\ Pointer(f, Cell2(f, k)) # None /\ h = Cell3(f, k)
      /\ Reaches(f, j, 2, Cell2(f, j)) /\ Reaches(f, k, 2, Cell2(f, k))
  BY ReachesAt
<1>2. Cell2(f, j) \in L[f] /\ Cell2(f, k) \in L[f]
  BY <1>1, ReachesIn
<1>3. /\ h.b = Pointer(f, Cell2(f, j)) /\ h.b = Pointer(f, Cell2(f, k))
      /\ h.i = Path(j)[3] /\ h.i = Path(k)[3]
  BY <1>1, ItemFields DEF Cell3
<1>4. Cell2(f, j) = Cell2(f, k)
  BY <1>1, <1>2, <1>3 DEF Apart
<1> QED
  BY <1>1, <1>3, <1>4, RouteSame2

(* The cell at the end of the way to a block is the end of no other way. *)
LEMMA RouteOnce ==
  ASSUME NEW L, Apart(L), NEW f \in Files, Tree(f, L[f]), ~Truncating(f),
         NEW j \in Indexes, NEW k \in Indexes, NEW h,
         Reaches(f, j, Len(Path(j)), h), Reaches(f, k, Len(Path(k)), h)
  PROVE  j = k
<1> DEFINE m == Len(Path(j))
           n == Len(Path(k))
<1>1. m \in 1 .. 3 /\ n \in 1 .. 3
  BY Cell1Is
<1>2. Path(j) \in Seq(Nat) /\ Path(k) \in Seq(Nat)
  BY PathTyped
<1>3. (h.b = 0 <=> m = 1) /\ (h.b = 0 <=> n = 1)
  <2> DEFINE S == L[f]
  <2>1. Reaches(f, j, m, h) /\ Reaches(f, k, n, h) /\ Tree(f, S) /\ ~Truncating(f)
    OBVIOUS
  <2> HIDE DEF m, n, S
  <2>2. h.b = 0 <=> m = 1
    BY <2>1, ReachesIn
  <2>3. h.b = 0 <=> n = 1
    BY <2>1, ReachesIn
  <2> QED
    BY <2>2, <2>3
<1>4. m = n /\ \A i \in 1 .. m : Path(j)[i] = Path(k)[i]
  <2>1. CASE m = 1
    <3>1. n = 1 /\ h = Cell1(j) /\ h = Cell1(k)
      BY <1>3, <2>1, ReachesAt
    <3>2. Path(j)[1] = Path(k)[1]
      BY <3>1, RouteSame1
    <3> HIDE DEF m, n
    <3> QED
      BY <2>1, <3>1, <3>2
  <2>2. CASE m = 2
    <3>1. n = 2 \/ n = 3
      <4> HIDE DEF m, n
      <4> QED
        BY <1>1, <1>3, <2>2
    <3>2. n = 2
      <4>1. CASE n = 3
        <5>1. Reaches(f, j, 2, h) /\ Reaches(f, k, 3, h)
          BY <2>2, <4>1
        <5>2. /\ h = Cell2(f, j) /\ Pointer(f, Cell1(j)) # None /\ Reaches(f, k, 2, Cell2(f, k))
              /\ h = Cell3(f, k) /\ Pointer(f, Cell2(f, k)) # None
          BY <5>1, ReachesAt
        <5>3. h.b = Pointer(f, Cell1(j)) /\ h.b = Pointer(f, Cell2(f, k))
          BY <5>2, ItemFields DEF Cell2, Cell3
        <5>4. Cell1(j) \in L[f] /\ Cell2(f, k) \in L[f]
          <6>1. Cell1(j) \in L[f]
            BY Cell1Is, RootsThere
          <6>2. Cell2(f, k) \in L[f]
            BY <5>2, ReachesIn
          <6> QED
            BY <6>1, <6>2
        <5>5. Cell1(j) = Cell2(f, k)
          BY <5>2, <5>3, <5>4 DEF Apart
        <5>6. Cell1(j).b = 0 /\ Cell2(f, k).b # 0
          BY <5>2, ReachesIn, Cell1Is
        <5> QED
          BY <5>5, <5>6
      <4> QED
        BY <3>1, <4>1
    <3>3. Path(j)[1] = Path(k)[1] /\ Path(j)[2] = Path(k)[2]
      BY <2>2, <3>2, RouteSame2
    <3> HIDE DEF m, n
    <3> QED
      BY <2>2, <3>2, <3>3
  <2>3. CASE m = 3
    <3>1. n = 2 \/ n = 3
      <4> HIDE DEF m, n
      <4> QED
        BY <1>1, <1>3, <2>3
    <3>2. n = 3
      <4>1. CASE n = 2
        <5>1. Reaches(f, j, 3, h) /\ Reaches(f, k, 2, h)
          BY <2>3, <4>1
        <5>2. /\ h = Cell2(f, k) /\ Pointer(f, Cell1(k)) # None /\ Reaches(f, j, 2, Cell2(f, j))
              /\ h = Cell3(f, j) /\ Pointer(f, Cell2(f, j)) # None
          BY <5>1, ReachesAt
        <5>3. h.b = Pointer(f, Cell1(k)) /\ h.b = Pointer(f, Cell2(f, j))
          BY <5>2, ItemFields DEF Cell2, Cell3
        <5>4. Cell1(k) \in L[f] /\ Cell2(f, j) \in L[f]
          BY <5>2, ReachesIn, Cell1Is, RootsThere, SMTT(30)
        <5>5. Cell1(k) = Cell2(f, j)
          BY <5>2, <5>3, <5>4 DEF Apart
        <5>6. Cell1(k).b = 0 /\ Cell2(f, j).b # 0
          BY <5>2, ReachesIn, Cell1Is
        <5> QED
          BY <5>5, <5>6
      <4> QED
        BY <3>1, <4>1
    <3>3. Path(j)[1] = Path(k)[1] /\ Path(j)[2] = Path(k)[2] /\ Path(j)[3] = Path(k)[3]
      BY <2>3, <3>2, RouteSame3
    <3> HIDE DEF m, n
    <3> QED
      BY <2>3, <3>2, <3>3
  <2> QED
    <3> HIDE DEF m, n
    <3> QED
      BY <1>1, <2>1, <2>2, <2>3
<1>5. Path(j) = Path(k)
  BY <1>2, <1>4, SMTT(30)
<1> QED
  BY <1>5, PathsDiffer

LEMMA ReachesPlace ==
  ASSUME NEW f, NEW S, Tree(f, S), ~Truncating(f), NEW k \in Indexes, NEW n, NEW h,
         Reaches(f, k, n, h)
  PROVE  /\ h.b = 0 => h.i \in Zones
         /\ h.b # 0 => h.i \in Words
         /\ Pointer(f, h) = Fetch(f, h)
<1>1. h.b # 0 => h.i \in Words
  <2>1. CASE n = 1
    BY <2>1, ReachesAt, Cell1Is
  <2>2. CASE n = 2
    BY <2>2, ReachesAt, Cell1Is
  <2>3. CASE n = 3
    BY <2>3, ReachesAt, Cell1Is
  <2> QED
    BY <2>1, <2>2, <2>3 DEF Reaches
<1>2. h.b = 0 => h.i \in Zones
  BY ReachesIn, RootIs
<1> QED
  BY <1>1, <1>2, Numbers DEF Pointer

(* The cell h of f gets the block b, whose own cells are empty: what was   *)
(* not reached before lies in b.                                           *)
LEMMA ReachesBack ==
  ASSUME NEW f, NEW S, Tree(f, S), ~Truncating(f), NEW h, NEW b,
         \A g \in S : g # h => Pointer(f, g)' = Pointer(f, g),
         Pointer(f, h) = None, Pointer(f, h)' = b,
         \A w \in Words : \A d : \A g : g = Item(b, w, d) => Pointer(f, g)' = None,
         NEW k \in Indexes, NEW n, NEW j, Reaches(f, k, n, j)'
  PROVE  Reaches(f, k, n, j) \/ (j.b = b /\ j.i \in Words)
<1>1. PICK c1 : c1 = Cell1(k)
  OBVIOUS
<1>2. Cell1(k)' = c1 /\ c1 \in S /\ Path(k)' = Path(k)
  <2>1. Cell1(k)' = c1 /\ Path(k)' = Path(k)
    BY <1>1 DEF Cell1, Path, Item
  <2>2. c1 \in S
    BY <1>1, ReachesFirst, ReachesIn
  <2> QED
    BY <2>1, <2>2
<1>3. PICK p1 : p1 = Pointer(f, c1)'
  OBVIOUS
<1>4. PICK c2 : c2 = Item(p1, Path(k)[2], Len(Path(k)) - 2)
  OBVIOUS
<1>5. Pointer(f, Cell1(k))' = p1 /\ Cell2(f, k)' = c2
  BY <1>2, <1>3, <1>4 DEF Cell2, Item
<1>6. CASE n = 1
  BY <1>1, <1>2, <1>6 DEF Reaches
<1>7. ASSUME Len(Path(k)) >= 2
      PROVE  /\ c1 = h => c2.b = b /\ c2.i \in Words /\ c2 = Item(b, Path(k)[2], Len(Path(k)) - 2)
             /\ c1 # h /\ p1 # None => Reaches(f, k, 2, c2)
  <2>1. c1 = h => p1 = b
    BY <1>3
  <2>2. c1 # h => p1 = Pointer(f, Cell1(k))
    BY <1>1, <1>2, <1>3
  <2>3. c1 # h => c2 = Cell2(f, k)
    BY <1>4, <2>2 DEF Cell2
  <2>4. c2.b = p1 /\ c2.i = Path(k)[2] /\ Path(k)[2] \in Words
    BY <1>4, <1>7, ItemFields, Cell1Is
  <2> QED
    BY <1>4, <1>7, <2>1, <2>2, <2>3, <2>4 DEF Reaches
<1>8. CASE n = 2
  <2>1. Len(Path(k)) >= 2 /\ p1 # None /\ j = c2
    BY <1>2, <1>5, <1>8 DEF Reaches
  <2> QED
    BY <1>7, <1>8, <2>1
<1>9. CASE n = 3
  <2>1. PICK p2 : p2 = Pointer(f, c2)'
    OBVIOUS
  <2>2. Pointer(f, Cell2(f, k))' = p2
    BY <1>5, <2>1
  <2>3. Len(Path(k)) = 3 /\ p1 # None /\ p2 # None /\ j = Item(p2, Path(k)[3], 0)
    BY <1>2, <1>5, <1>9, <2>2 DEF Reaches, Cell3, Item
  <2>4. Len(Path(k)) >= 2
    BY <2>3
  <2>5. Path(k)[3] \in Words /\ Path(k)[2] \in Words /\ j.b = p2 /\ j.i = Path(k)[3]
    BY <2>3, <2>4, Cell1Is, ItemFields
  <2>6. c1 # h
    BY <1>7, <2>1, <2>3, <2>4, <2>5
  <2>7. Reaches(f, k, 2, c2) /\ c2 \in S
    BY <1>7, <2>3, <2>4, <2>6, ReachesIn
  <2>8. c2 = Cell2(f, k) /\ Pointer(f, Cell1(k)) # None
    BY <2>7, ReachesAt
  <2>9. CASE c2 = h
    BY <2>1, <2>5, <2>9
  <2>10. CASE c2 # h
    <3>1. p2 = Pointer(f, Cell2(f, k))
      BY <2>1, <2>7, <2>8, <2>10
    <3>2. j = Cell3(f, k)
      BY <2>3, <3>1 DEF Cell3
    <3> QED
      BY <1>9, <2>3, <2>8, <3>1, <3>2 DEF Reaches
  <2> QED
    BY <2>9, <2>10
<1> QED
  BY <1>6, <1>8, <1>9 DEF Reaches

(* What Entered() changes: of all cells only h, and the words of b. *)
EnteredAt(L, t, f, h, b) ==
  /\ f \in Files /\ h \in L[f] /\ b \in Blocks /\ b \in zmap \ lost
  /\ f = loc[t].f /\ b = loc[t].blk /\ ~Truncating(f)
  /\ Pointer(f, h) = None /\ Pointer(f, h)' = b
  /\ \A g \in Files : \A j \in L[g] : j.b # b /\ Pointer(g, j) # b
  /\ \A g \in Files : \A j \in L[g] : g # f \/ j # h => Pointer(g, j)' = Pointer(g, j)
  /\ \A g, d : \A w \in Words : \A j : j = Item(b, w, d) => Pointer(g, j)' = None
  /\ mem'[b][0] = 0
  /\ \A g \in Files : \A j \in L[g] : j.depth = 0 /\ Pointer(g, j) # None =>
       mem'[Pointer(g, j)][0] = mem[Pointer(g, j)][0]

LEMMA NewIsApart ==
  ASSUME BlocksTypeOK, NEW L, Sound(L), NEW t \in Tasks, loc[t].pc = "new"
  PROVE  /\ loc[t].blk \in Blocks /\ loc[t].blk \in zmap \ lost
         /\ \A g \in Files : \A j \in L[g] : j.b # loc[t].blk /\ Pointer(g, j) # loc[t].blk
<1>1. loc[t].blk \in zmap \ lost /\ zmap \subseteq Blocks
  BY DEF Sound, MapOK, BlocksTypeOK
<1>2. NewBlock(loc[t].blk)
  BY DEF NewBlock
<1>3. ASSUME NEW g \in Files, NEW j \in L[g] PROVE Pointer(g, j) # loc[t].blk
  BY <1>1, <1>2, Numbers DEF Sound, MapOK, None
<1>4. ASSUME NEW g \in Files, NEW j \in L[g] PROVE j.b # loc[t].blk
  <2>1. loc[t].blk # 0
    BY <1>1, Numbers DEF None
  <2>2. ASSUME j.b = loc[t].blk PROVE FALSE
    <3>1. PICK i \in L[g] : Pointer(g, i) = j.b
      BY <2>1, <2>2, Held DEF Sound
    <3> QED
      BY <1>3, <2>2, <3>1
  <2> QED
    BY <2>2
<1> QED
  BY <1>1, <1>3, <1>4

LEMMA EnteredPlace ==
  ASSUME BlocksTypeOK, Alone, NEW L, Sound(L), NEW t \in Tasks, Entered(t)
  PROVE  \E f \in Files : \E h \in L[f] : \E n \in 1 .. 3 : \E k \in Indexes :
           /\ f = loc[t].f /\ k = loc[t].k /\ ~Truncating(f) /\ loc[t].op = "write"
           /\ Reaches(f, k, n, h) /\ Ahead(k, n, loc[t].path)
           /\ h = Item(loc[t].cell.b, loc[t].cell.i, Len(loc[t].path))
           /\ h.b = loc[t].cell.b /\ h.i = loc[t].cell.i /\ h.depth = Len(loc[t].path)
           /\ Pointer(f, h) = None
<1>0. PICK o : o = loc[t]
  OBVIOUS
<1>1. o.pc = "new"
  BY <1>0 DEF Entered
<1>2. ~Truncating(o.f) /\ o.f \in Files /\ o.k \in Indexes /\ Tree(o.f, L[o.f])
  BY <1>0, <1>1, NotBeside DEF Sound
<1>3. o.op = "write" /\ Fetch(o.f, o.cell) = None
  BY <1>0, <1>1 DEF Sound, CallOK
<1>4. PICK n \in 1 .. 3 : /\ Reaches(o.f, o.k, n, Item(o.cell.b, o.cell.i, Len(o.path)))
                          /\ Ahead(o.k, n, o.path)
  BY <1>0, <1>1 DEF Sound, CallOK
<1>5. PICK h : h = Item(o.cell.b, o.cell.i, Len(o.path))
  OBVIOUS
<1>6. Reaches(o.f, o.k, n, h)
  BY <1>4, <1>5
<1>7. h \in L[o.f]
  BY <1>2, <1>6, ReachesIn
<1>8. Pointer(o.f, Item(o.cell.b, o.cell.i, Len(o.path))) = Fetch(o.f, o.cell)
  BY <1>2, <1>4, FetchIs
<1>9. h.b = o.cell.b /\ h.i = o.cell.i /\ h.depth = Len(o.path)
  BY <1>5, ItemFields
<1> QED
  BY <1>0, <1>2, <1>3, <1>4, <1>5, <1>6, <1>7, <1>8, <1>9

LEMMA EnteredChanges ==
  ASSUME BlocksTypeOK, Alone, NEW L, Sound(L), NEW t \in Tasks, Entered(t),
         NEW f \in Files, NEW h \in L[f], NEW n \in 1 .. 3, NEW k \in Indexes,
         f = loc[t].f, ~Truncating(f), Reaches(f, k, n, h), Pointer(f, h) = None,
         h.b = loc[t].cell.b, h.i = loc[t].cell.i
  PROVE  EnteredAt(L, t, f, h, loc[t].blk)
<1>0. PICK b : b = loc[t].blk
  OBVIOUS
<1>1. /\ b \in Blocks /\ b \in zmap \ lost /\ loc[t].pc = "new"
      /\ \A g \in Files : \A j \in L[g] : j.b # b /\ Pointer(g, j) # b
  BY <1>0, NewIsApart DEF Entered
<1>2. /\ zone \in [Files -> [Zones -> Nat]] /\ mem \in [Blocks -> [Words -> Nat]]
      /\ b # None /\ 0 \in Words
  BY <1>1, Numbers DEF BlocksTypeOK
<1>3. Tree(f, L[f])
  BY DEF Sound
<1>4. /\ h.b = 0 => h.i \in Zones
      /\ h.b # 0 => h.i \in Words /\ h.b \in Blocks
      /\ Pointer(f, h) = Fetch(f, h) /\ h.b # b
  <2>1. CellOK(h)
    BY <1>3 DEF Tree
  <2> QED
    BY <1>1, <1>3, <2>1, ReachesPlace DEF CellOK
<1>5. /\ h.b = 0 => zone' = [zone EXCEPT ![f][h.i] = b] /\ mem' = [mem EXCEPT ![b] = Cleared]
      /\ h.b # 0 => /\ mem' = [[mem EXCEPT ![b] = Cleared] EXCEPT ![h.b][h.i] = b]
                    /\ zone' = zone
  BY <1>0 DEF Entered, ClearBlock
<1>6. mem'[b] = Cleared
  BY <1>1, <1>2, <1>4, <1>5
<1>7. \A w \in Words : mem'[b][w] = 0
  BY <1>6 DEF Cleared
<1>8. Pointer(f, h)' = b
  <2>1. CASE h.b = 0
    BY <1>2, <1>4, <1>5, <2>1 DEF Pointer, Fetch
  <2>2. CASE h.b # 0
    <3>1. mem'[h.b][h.i] = b
      BY <1>1, <1>2, <1>4, <1>5, <2>2
    <3> QED
      BY <1>4, <2>2, <3>1, Numbers DEF Pointer, Fetch
  <2> QED
    BY <2>1, <2>2
<1>9. ASSUME NEW g \in Files, NEW j \in L[g], g # f \/ j # h
      PROVE  Pointer(g, j)' = Pointer(g, j)
  <2>1. j.b # b /\ ~(j.b = h.b /\ j.i = h.i /\ (h.b = 0 => g = f))
    BY <1>1, <1>9, CellOnce
  <2>2. CellOK(j) /\ Tree(g, L[g])
    BY DEF Sound, Tree
  <2>3. CASE j.b = 0
    <3>1. j.i \in Zones
      BY <2>2, <2>3, Numbers DEF CellOK, None
    <3>2. zone'[g][j.i] = zone[g][j.i]
      BY <1>2, <1>4, <1>5, <2>1, <2>3, <3>1
    <3> QED
      BY <2>3, <3>2, PointerKept
  <2>4. CASE j.b \in Blocks /\ j.i \in Words
    <3>1. mem'[j.b][j.i] = mem[j.b][j.i]
      BY <1>1, <1>2, <1>4, <1>5, <2>1, <2>4
    <3> QED
      BY <2>4, <3>1, PointerKept, Numbers DEF None
  <2>5. CASE j.b \in Blocks /\ j = Self(j.b)
    <3>1. j.i = NWords /\ j.b # 0
      BY <2>5, SelfIs, Numbers DEF None
    <3> QED
      BY <3>1 DEF Pointer
  <2> QED
    BY <2>2, <2>3, <2>4, <2>5 DEF CellOK
<1>10. ASSUME NEW g, NEW d, NEW w \in Words, NEW j, j = Item(b, w, d)
       PROVE  Pointer(g, j)' = None
  <2>1. j.b = b /\ j.i = w /\ j.i # NWords /\ j.b # 0
    BY <1>2, <1>10, ItemFields, Numbers DEF None
  <2> QED
    BY <1>7, <2>1 DEF Pointer, Fetch, None
<1>11. ASSUME NEW g \in Files, NEW j \in L[g], j.depth = 0, Pointer(g, j) # None
       PROVE  mem'[Pointer(g, j)][0] = mem[Pointer(g, j)][0]
  <2>0. PICK x : x = Pointer(g, j)
    OBVIOUS
  <2>1. x \in Blocks /\ x # b
    BY <1>1, <1>11, <2>0 DEF Sound, Tree
  <2>2. CASE h.b = 0
    BY <1>5, <2>0, <2>1, <2>2, <1>2
  <2>3. CASE h.b # 0
    <3>1. PICK h1 \in L[f] : Pointer(f, h1) = h.b /\ Parent(f, h1, h)
      BY <1>3, <2>3, Held DEF Sound
    <3>2. h \in Items
      BY <1>3 DEF Tree
    <3>3. h1.depth # 0
      BY <3>1, <3>2, ItemIs DEF Parent
    <3>4. x # h.b
      BY <1>11, <2>0, <3>1, <3>3 DEF Sound, Apart
    <3>5. mem'[x] = mem[x]
      BY <1>2, <1>4, <1>5, <2>1, <2>3, <3>4
    <3> QED
      BY <2>0, <3>5
  <2> QED
    BY <2>2, <2>3
<1> QED
  BY <1>0, <1>1, <1>2, <1>7, <1>8, <1>9, <1>10, <1>11 DEF EnteredAt

Kids(b, d) == IF d = 0 THEN {} ELSE {Item(b, w, d - 1) : w \in Words}

(* M are the cells when h has got the block b.                             *)
Grown(L, M, f, h, b) == \A g \in Files : M[g] = IF g = f THEN L[f] \cup Kids(b, h.depth) ELSE L[g]

LEMMA KidIs ==
  ASSUME NEW b \in Blocks, NEW d \in {0, 1, 2}, NEW j \in Kids(b, d)
  PROVE  \E w \in Words : /\ j = Item(b, w, d - 1) /\ j.b = b /\ j.i = w /\ d = j.depth + 1
                          /\ j \in Items /\ CellOK(j) /\ d # 0
<1>1. PICK w \in Words : j = Item(b, w, d - 1) /\ d # 0
  BY DEF Kids
<1>2. j.b = b /\ j.i = w /\ j.depth = d - 1 /\ d = j.depth + 1 /\ d - 1 \in {0, 1, 2}
  BY <1>1, ItemFields
<1>3. b \in Nat /\ w \in Nat
  BY Numbers
<1> QED
  BY <1>1, <1>2, <1>3, ItemTyped DEF CellOK

LEMMA EnteredTree ==
  ASSUME BlocksTypeOK, NEW L, Sound(L), NEW t, NEW f, NEW h, NEW b, EnteredAt(L, t, f, h, b),
         NEW M, Grown(L, M, f, h, b), NEW g \in Files,
         Truncating(g)' <=> Truncating(g), \A j : Roots(g, j)' <=> Roots(g, j)
  PROVE  Tree(g, M[g])'
<1>1. f \in Files /\ Tree(g, L[g])
  BY DEF Sound, EnteredAt
<1>2. CASE g # f
  <2>1. \A j \in L[g] : Pointer(g, j)' = Pointer(g, j)
    BY <1>2 DEF EnteredAt
  <2>2. Tree(g, L[g])'
    BY <1>1, <2>1, TreeKept
  <2> QED
    BY <1>2, <2>2 DEF Grown
<1>3. CASE g = f
  <2> DEFINE K == Kids(b, h.depth)
             S == L[f]
             R == S \cup K
  <2>1. M[f] = R /\ h \in S /\ b \in Blocks /\ Tree(f, S)
    BY <1>1, <1>3 DEF Grown, EnteredAt
  <2>2. h \in Items /\ h.depth \in {0, 1, 2}
    BY <2>1, ItemIs DEF Tree
  <2>3. \A j \in K : \E w \in Words :
          /\ j = Item(b, w, h.depth - 1) /\ j.b = b /\ j.i = w /\ h.depth = j.depth + 1
          /\ j \in Items /\ CellOK(j) /\ h.depth # 0
    BY <2>1, <2>2, KidIs
  <2>4. \A j \in K : Pointer(f, j)' = None
    BY <2>3 DEF EnteredAt
  <2>5. \A j \in S : j # h => Pointer(f, j)' = Pointer(f, j)
    BY <1>3 DEF EnteredAt
  <2>6. Pointer(f, h)' = b /\ Pointer(f, h) = None /\ b # None
    BY <2>1, Numbers DEF EnteredAt
  <2>7. h.depth # 0 => \A w \in Words : Item(b, w, h.depth - 1) \in K
    BY DEF Kids
  <2>8. \A j \in S : CellOK(j) /\ Pointer(f, j) \in Blocks \cup {None}
    BY <2>1 DEF Tree
  <2> HIDE DEF K, S
  <2>9. R \subseteq Items
    BY <2>1, <2>3 DEF Tree
  <2>10. \A j \in R : CellOK(j)' /\ Pointer(f, j)' \in Blocks \cup {None}
    BY <2>1, <2>3, <2>4, <2>5, <2>6, <2>8 DEF CellOK
  <2>11. \A j : Roots(f, j)' => j \in R
    BY <1>3, <2>1 DEF Tree
  <2>12. ASSUME NEW j \in R, j.depth > 0, Pointer(f, j)' # None, NEW w \in Words
         PROVE  Item(Pointer(f, j)', w, j.depth - 1) \in R
    <3>1. CASE j = h
      <4>1. h.depth # 0
        BY <2>12, <3>1
      <4> QED
        BY <2>6, <2>7, <3>1, <4>1
    <3>2. CASE j # h
      <4>1. j \in S /\ Pointer(f, j)' = Pointer(f, j)
        BY <2>4, <2>5, <2>12, <3>2
      <4> QED
        BY <2>1, <2>12, <4>1 DEF Tree
    <3> QED
      BY <3>1, <3>2
  <2>13. ASSUME NEW j \in R PROVE Roots(f, j)' \/ \E i \in R : Parent(f, i, j)'
    <3>1. CASE j \in S
      <4>1. CASE Roots(f, j)
        BY <1>3, <4>1
      <4>2. CASE \E i \in S : Parent(f, i, j)
        <5>1. PICK i \in S : Parent(f, i, j)
          BY <4>2
        <5>2. i # h
          BY <2>6, <5>1 DEF Parent
        <5>3. Parent(f, i, j)'
          BY <2>5, <5>1, <5>2 DEF Parent
        <5> QED
          BY <5>3
      <4> QED
        BY <2>1, <3>1, <4>1, <4>2 DEF Tree
    <3>2. CASE j \in K
      <4>1. j.b = b /\ j.i \in Words /\ h.depth = j.depth + 1
        BY <2>3, <3>2
      <4>2. Parent(f, h, j)'
        BY <2>6, <4>1 DEF Parent
      <4> QED
        BY <2>1, <4>2
    <3> QED
      BY <3>1, <3>2
  <2>14. ASSUME NEW j \in R, j.depth > 0, Pointer(f, j)' # None
         PROVE  (\A w \in Words : Item(Pointer(f, j), w, j.depth - 1) \in R)'
    BY <2>12, <2>14 DEF Item, Words
  <2>15. PICK Q : Q = R
    OBVIOUS
  <2>16. Tree(f, Q)'
    BY <2>9, <2>10, <2>11, <2>12, <2>13, <2>15 DEF Tree, Item
  <2> QED
    BY <1>3, <2>1, <2>15, <2>16
<1> QED
  BY <1>2, <1>3

LEMMA EnteredCells ==
  ASSUME BlocksTypeOK, NEW L, Sound(L), NEW t, NEW f, NEW h, NEW b, EnteredAt(L, t, f, h, b),
         NEW M, Grown(L, M, f, h, b), NEW g \in Files, NEW j \in M[g]
  PROVE  \/ g = f /\ j = h /\ Pointer(g, j)' = b
         \/ /\ j \in L[g] /\ (g # f \/ j # h)
            /\ Pointer(g, j)' = Pointer(g, j) /\ Pointer(g, j) # b
         \/ g = f /\ Pointer(g, j)' = None /\ j.b = b /\ j \notin L[g]
<1>1. CASE j \in L[g]
  BY <1>1 DEF EnteredAt
<1>2. CASE j \notin L[g]
  <2>1. g = f /\ j \in Kids(b, h.depth)
    BY <1>2 DEF Grown
  <2>2. h \in Items /\ h.depth \in {0, 1, 2} /\ b \in Blocks
    BY ItemIs DEF EnteredAt, Sound, Tree
  <2>3. PICK w \in Words : j = Item(b, w, h.depth - 1) /\ j.b = b
    BY <2>1, <2>2, KidIs
  <2>4. Pointer(g, j)' = None
    BY <2>3 DEF EnteredAt
  <2> QED
    BY <1>2, <2>1, <2>3, <2>4
<1> QED
  BY <1>1, <1>2

LEMMA EnteredApart ==
  ASSUME BlocksTypeOK, NEW L, Sound(L), NEW t, NEW f, NEW h, NEW b, EnteredAt(L, t, f, h, b),
         NEW M, Grown(L, M, f, h, b)
  PROVE  Apart(M)'
<1> SUFFICES ASSUME NEW f1 \in Files, NEW g1 \in Files, NEW i \in M[f1], NEW j \in M[g1],
                    Pointer(f1, i)' = Pointer(g1, j)', Pointer(f1, i)' # None
             PROVE  f1 = g1 /\ i = j
  BY DEF Apart
<1>1. \/ f1 = f /\ i = h /\ Pointer(f1, i)' = b
      \/ i \in L[f1] /\ Pointer(f1, i)' = Pointer(f1, i) /\ Pointer(f1, i) # b
  BY EnteredCells
<1>2. \/ g1 = f /\ j = h /\ Pointer(g1, j)' = b
      \/ j \in L[g1] /\ Pointer(g1, j)' = Pointer(g1, j) /\ Pointer(g1, j) # b
  BY EnteredCells
<1> QED
  BY <1>1, <1>2 DEF Sound, Apart

LEMMA EnteredMap ==
  ASSUME BlocksTypeOK, NEW L, Sound(L), NEW t \in Tasks, NEW f, NEW h, NEW b,
         EnteredAt(L, t, f, h, b), NEW M, Grown(L, M, f, h, b),
         loc[t].pc = "new", zmap' = zmap, lost' = lost,
         loc'[t].pc # "new", \A u \in Tasks : u # t => loc'[u] = loc[u]
  PROVE  MapOK(M)'
<1>1. MapOK(L) /\ b = loc[t].blk /\ b \in zmap \ lost /\ h \in M[f] /\ f \in Files
  BY DEF Sound, EnteredAt, Grown
<1>2. \A c : NewBlock(c)' <=> NewBlock(c) /\ c # b
  <2>1. ASSUME NEW c, NewBlock(c)' PROVE NewBlock(c) /\ c # b
    <3>1. PICK u \in Tasks : loc'[u].pc = "new" /\ loc'[u].blk = c
      BY <2>1 DEF NewBlock
    <3>2. u # t /\ loc[u].pc = "new" /\ loc[u].blk = c
      BY <3>1
    <3> QED
      BY <1>1, <3>2 DEF MapOK, NewBlock
  <2>2. ASSUME NEW c, NewBlock(c), c # b PROVE NewBlock(c)'
    <3>1. PICK u \in Tasks : loc[u].pc = "new" /\ loc[u].blk = c
      BY <2>2 DEF NewBlock
    <3> QED
      BY <1>1, <2>2, <3>1 DEF NewBlock
  <2> QED
    BY <2>1, <2>2
<1>3. ASSUME NEW g \in Files, NEW j \in M[g], NEW x, x = Pointer(g, j)', x # None
      PROVE  x \in zmap \ lost /\ ~NewBlock(x)'
  <2>1. x = b \/ (j \in L[g] /\ x = Pointer(g, j))
    BY <1>3, EnteredCells
  <2> QED
    BY <1>1, <1>2, <1>3, <2>1 DEF MapOK
<1>4. \A g \in Files : \A j \in M[g] : Pointer(g, j)' # None =>
        Pointer(g, j)' \in zmap' \ lost' /\ ~NewBlock(Pointer(g, j))'
  BY <1>3 DEF NewBlock
<1>5. ASSUME NEW c \in zmap
      PROVE  c \in lost \/ NewBlock(c)' \/ \E g \in Files : \E j \in M[g] : Pointer(g, j)' = c
  <2>1. CASE c = b
    BY <1>1, <2>1 DEF EnteredAt
  <2>2. ASSUME c # b, NEW g \in Files, NEW j \in L[g], Pointer(g, j) = c
        PROVE  j \in M[g] /\ Pointer(g, j)' = c
    <3>1. j \in M[g]
      BY DEF Grown
    <3>2. g # f \/ j # h
      BY <1>5, <2>2, Numbers DEF EnteredAt, BlocksTypeOK
    <3> QED
      BY <2>2, <3>1, <3>2 DEF EnteredAt
  <2> QED
    BY <1>1, <1>2, <2>1, <2>2 DEF MapOK
<1>6. \A u \in Tasks : loc'[u].pc = "new" =>
        /\ loc'[u].blk \in zmap' \ lost'
        /\ \A v \in Tasks : loc'[v].pc = "new" /\ loc'[v].blk = loc'[u].blk => v = u
  BY <1>1 DEF MapOK
<1> QED
  BY <1>4, <1>5, <1>6 DEF MapOK

LEMMA EnteredContents ==
  ASSUME BlocksTypeOK, NEW L, Sound(L), NEW t, NEW f, NEW h, NEW b, EnteredAt(L, t, f, h, b),
         written' = written, NEW g \in Files, ~Truncating(g), Truncating(g)' <=> Truncating(g),
         \A j : Roots(g, j)' <=> Roots(g, j)
  PROVE  Contents(g)'
<1>1. Tree(g, L[g]) /\ Contents(g) /\ f \in Files
  BY DEF Sound, EnteredAt
<1>2. CASE g # f
  <2>1. \A j \in L[g] : Pointer(g, j)' = Pointer(g, j)
    BY <1>2 DEF EnteredAt
  <2>2. \A k \in Indexes : \A n, j : Reaches(g, k, n, j)' <=> Reaches(g, k, n, j)
    BY <1>1, <2>1, FileKept
  <2>3. \A j \in L[g] : j.depth = 0 /\ Pointer(g, j) # None =>
          mem'[Pointer(g, j)][0] = mem[Pointer(g, j)][0]
    BY DEF EnteredAt
  <2> QED
    BY <1>1, <2>1, <2>2, <2>3, ContentsSame
<1>3. CASE g = f
  <2>1. /\ Pointer(f, h) = None /\ Pointer(f, h)' = b /\ b # None /\ mem'[b][0] = 0
        /\ \A j \in L[f] : j.b # b
        /\ \A j \in L[f] : j # h => Pointer(f, j)' = Pointer(f, j)
        /\ \A d : \A w \in Words : \A j : j = Item(b, w, d) => Pointer(f, j)' = None
    BY <1>1, Numbers DEF EnteredAt
  <2>2. ASSUME NEW k \in Indexes, NEW j, Reaches(f, k, Len(Path(k)), j)
        PROVE  Reaches(f, k, Len(Path(k)), j)' /\ j \in L[f] /\ j.depth = 0
    <3> DEFINE len == Len(Path(k))
    <3>1. len \in 1 .. 3
      BY Cell1Is
    <3>2. \A i \in L[f] : Pointer(f, i) # None => Pointer(f, i)' = Pointer(f, i)
      BY <2>1
    <3>3. Reaches(f, k, Len(Path(k)), j)'
      <4>1. \A n : Reaches(f, k, n, j) => Reaches(f, k, n, j)'
        BY <1>1, <1>3, <3>2, ReachesKept
      <4> QED
        BY <2>2, <4>1 DEF Path
    <3>4. j \in L[f] /\ j.depth = len - len
      BY <1>1, <1>3, <2>2, ReachesIn
    <3> HIDE DEF len
    <3> QED
      BY <3>1, <3>3, <3>4
  <2>3. ASSUME NEW k \in Indexes, NEW j, Reaches(f, k, Len(Path(k)), j)'
        PROVE  /\ k \in written[f] => Pointer(f, j)' # None /\ mem'[Pointer(f, j)'][0] = Stamp(f, k)
               /\ k \notin written[f] => Pointer(f, j)' = None \/ mem'[Pointer(f, j)'][0] = 0
    <3>1. ASSUME NEW n, Reaches(f, k, n, j)'
          PROVE  Reaches(f, k, n, j) \/ (j.b = b /\ j.i \in Words)
      BY <1>1, <1>3, <2>1, <3>1, ReachesBack
    <3>2. Reaches(f, k, Len(Path(k)), j) \/ (j.b = b /\ j.i \in Words)
      BY <2>3, <3>1 DEF Path
    <3>3. CASE Reaches(f, k, Len(Path(k)), j)
      <4>1. j \in L[f] /\ j.depth = 0
        BY <2>2, <3>3
      <4>2. CASE j = h
        <5>1. k \notin written[f]
          BY <1>1, <1>3, <2>1, <3>3, <4>2 DEF Contents
        <5> QED
          BY <2>1, <4>2, <5>1
      <4>3. CASE j # h
        <5>1. Pointer(f, j)' = Pointer(f, j)
          BY <2>1, <4>1, <4>3
        <5>2. Pointer(f, j) # None => mem'[Pointer(f, j)][0] = mem[Pointer(f, j)][0]
          BY <1>1, <4>1 DEF EnteredAt
        <5> QED
          BY <1>1, <1>3, <3>3, <5>1, <5>2 DEF Contents
      <4> QED
        BY <4>2, <4>3
    <3>4. CASE j.b = b /\ j.i \in Words
      <4>1. Pointer(f, j)' = None
        <5>1. j.b # 0 /\ j.i # NWords /\ Item(b, j.i, 0).b = b /\ Item(b, j.i, 0).i = j.i
          BY <2>1, <3>4, Numbers, ItemFields DEF None
        <5>2. PICK i : i = Item(b, j.i, 0)
          OBVIOUS
        <5>3. Pointer(f, i)' = None
          BY <2>1, <3>4, <5>2
        <5> QED
          BY <3>4, <5>1, <5>2, <5>3 DEF Pointer, Fetch
      <4>2. k \notin written[f]
        <5>1. ASSUME k \in written[f] PROVE FALSE
          <6>1. PICK i : Reaches(f, k, Len(Path(k)), i)
            BY <1>1, <1>3, <5>1 DEF Contents
          <6>2. Reaches(f, k, Len(Path(k)), i)' /\ i \in L[f]
            BY <2>2, <6>1
          <6>3. ASSUME NEW n, Reaches(f, k, n, i)', Reaches(f, k, n, j)' PROVE i = j
            BY <6>3 DEF Reaches
          <6>4. i = j
            BY <2>3, <6>2, <6>3 DEF Path
          <6> QED
            BY <2>1, <3>4, <6>2, <6>4
        <5> QED
          BY <5>1
      <4> QED
        BY <4>1, <4>2
    <3> QED
      BY <3>2, <3>3, <3>4
  <2>4. ASSUME NEW k \in Indexes, k \in written[f] PROVE \E j : Reaches(f, k, Len(Path(k)), j)'
    <3>1. PICK i : Reaches(f, k, Len(Path(k)), i)
      BY <1>1, <1>3, <2>4 DEF Contents
    <3> QED
      BY <2>2, <3>1
  <2> QED
    BY <1>3, <2>3, <2>4 DEF Contents, Path, Stamp
<1> QED
  BY <1>2, <1>3

LEMMA EnteredTypes ==
  ASSUME BlocksTypeOK, Alone, NEW L, Sound(L), NEW t \in Tasks, Entered(t)
  PROVE  zone' \in [Files -> [Zones -> Nat]] /\ mem' \in [Blocks -> [Words -> Nat]]
<1>0. PICK b : b = loc[t].blk
  OBVIOUS
<1>1. /\ zone \in [Files -> [Zones -> Nat]] /\ mem \in [Blocks -> [Words -> Nat]]
      /\ loc[t].pc = "new" /\ b \in Blocks /\ b \in Nat
  BY <1>0, NewIsApart, Numbers DEF BlocksTypeOK, Entered
<1>2. Cleared \in [Words -> Nat]
  BY DEF Cleared
<1>3. PICK m : m = ClearBlock(b)
  OBVIOUS
<1>4. m \in [Blocks -> [Words -> Nat]]
  BY <1>1, <1>2, <1>3 DEF ClearBlock
<1>5. PICK c : c = loc[t].cell
  OBVIOUS
<1>6. \/ c.b = 0 /\ zone' = [zone EXCEPT ![loc[t].f][c.i] = b] /\ mem' = m
      \/ mem' = [m EXCEPT ![c.b][c.i] = b] /\ zone' = zone
  BY <1>0, <1>3, <1>5 DEF Entered
<1>7. CASE zone' = [zone EXCEPT ![loc[t].f][c.i] = b] /\ mem' = m
  BY <1>1, <1>4, <1>7
<1>8. CASE mem' = [m EXCEPT ![c.b][c.i] = b] /\ zone' = zone
  BY <1>1, <1>4, <1>8
<1> QED
  BY <1>6, <1>7, <1>8

(* A cell that was filled still is, and with the same block. *)
LEMMA EnteredFilled ==
  ASSUME NEW L, NEW t, NEW f, NEW h, NEW b, EnteredAt(L, t, f, h, b), NEW g \in Files
  PROVE  \A j \in L[g] : Pointer(g, j) # None => Pointer(g, j)' = Pointer(g, j)
<1> SUFFICES ASSUME NEW j \in L[g], Pointer(g, j) # None PROVE Pointer(g, j)' = Pointer(g, j)
  OBVIOUS
<1>1. g # f \/ j # h
  BY DEF EnteredAt
<1> QED
  BY <1>1 DEF EnteredAt

LEMMA EnteredOther ==
  ASSUME BlocksTypeOK, Alone, NEW L, Sound(L), NEW t \in Tasks, loc[t].op = "write",
         loc[t].pc = "new", NEW f, NEW h, NEW b, EnteredAt(L, t, f, h, b),
         NEW u \in Tasks, u # t, loc'[u] = loc[u],
         loc[u].pc = "free" => zone'[loc[u].f] = zone[loc[u].f]
  PROVE  CallOK(u)'
<1>0. PICK o : o = loc[u]
  OBVIOUS
<1>1. CallOK(u) /\ f = loc[t].f
  BY DEF Sound, EnteredAt
<1>2. o.pc \in {"map", "new", "data"} => /\ Tree(o.f, L[o.f]) /\ o.f \in Files /\ o.k \in Indexes
                                         /\ ~Truncating(o.f)
  BY <1>0, NotBeside DEF Sound
<1>3. o.pc \in {"map", "new", "data"} =>
        \A g : g = o.f => \A j \in L[o.f] : Pointer(g, j) # None => Pointer(g, j)' = Pointer(g, j)
  BY <1>2, EnteredFilled
<1>4. ASSUME o.pc = "new", NEW g, g = o.f PROVE Fetch(g, o.cell)' = None
  <2>1. PICK n \in 1 .. 3 : Reaches(o.f, o.k, n, Item(o.cell.b, o.cell.i, Len(o.path)))
    BY <1>0, <1>1, <1>4 DEF CallOK
  <2>2. PICK j : j = Item(o.cell.b, o.cell.i, Len(o.path))
    OBVIOUS
  <2>3. Fetch(o.f, o.cell) = None /\ o.op = "write"
    BY <1>0, <1>1, <1>4 DEF CallOK
  <2>4. o.f # f
    BY <1>0, <1>1, <1>4, <2>3 DEF Alone
  <2>5. Reaches(g, o.k, n, j) /\ Tree(g, L[g]) /\ ~Truncating(g) /\ g \in Files /\ o.k \in Indexes
    BY <1>2, <1>4, <2>1, <2>2
  <2>6. j \in L[g] /\ Pointer(g, j) = Fetch(g, j) /\ (j.b # 0 => j.i \in Words)
    BY <2>5, ReachesIn, ReachesPlace
  <2>7. j.b = o.cell.b /\ j.i = o.cell.i
    BY <2>2, ItemFields
  <2>8. Pointer(g, j)' = Pointer(g, j)
    BY <1>4, <2>4, <2>5, <2>6 DEF EnteredAt
  <2>9. Pointer(g, j) = None
    BY <1>4, <2>3, <2>6, <2>7 DEF Fetch
  <2> QED
    BY <2>6, <2>7, <2>8, <2>9, Numbers DEF Pointer, Fetch
<1>5. PICK S : S = L[o.f]
  OBVIOUS
<1>6. loc[u].pc \in {"map", "new", "data"} =>
        /\ Tree(loc[u].f, S)
        /\ \A g : g = loc[u].f => \A j \in S : Pointer(g, j) # None => Pointer(g, j)' = Pointer(g, j)
  BY <1>0, <1>2, <1>3, <1>5
<1>7. loc[u].pc = "new" => \A g : g = loc[u].f => Fetch(g, loc[u].cell)' = None
  BY <1>0, <1>4
<1> QED
  BY <1>1, <1>6, <1>7, CallKept

LEMMA EnteredKeeps ==
  ASSUME BlocksTypeOK, Alone, NEW L, Sound(L), NEW t \in Tasks, Entered(t)
  PROVE  BlocksTypeOK' /\ Alone' /\ \E M : Sound(M)'
<1>0. PICK f \in Files : \E h \in L[f] : \E n \in 1 .. 3 : \E k \in Indexes :
        /\ f = loc[t].f /\ k = loc[t].k /\ ~Truncating(f) /\ loc[t].op = "write"
        /\ Reaches(f, k, n, h) /\ Ahead(k, n, loc[t].path)
        /\ h.b = loc[t].cell.b /\ h.i = loc[t].cell.i /\ Pointer(f, h) = None
  BY EnteredPlace
<1>1. PICK h \in L[f], n \in 1 .. 3, k \in Indexes :
        /\ f = loc[t].f /\ k = loc[t].k /\ ~Truncating(f) /\ loc[t].op = "write"
        /\ Reaches(f, k, n, h) /\ Ahead(k, n, loc[t].path)
        /\ h.b = loc[t].cell.b /\ h.i = loc[t].cell.i /\ Pointer(f, h) = None
  BY <1>0
<1>2. PICK b : b = loc[t].blk
  OBVIOUS
<1>3. EnteredAt(L, t, f, h, b)
  BY <1>1, <1>2, EnteredChanges
<1>4. loc[t].pc = "new" /\ Follow(t, b) /\ UNCHANGED <<zmap, size, written, lost>>
  BY <1>2 DEF Entered
<1>5. b \in Blocks /\ b \in Nat /\ b # None /\ Tree(f, L[f])
  BY <1>3, Numbers DEF EnteredAt, Sound
<1>6. Reaches(f, k, n, h)' /\ Pointer(f, h)' = b
  <2>1. \A j \in L[f] : Pointer(f, j) # None => Pointer(f, j)' = Pointer(f, j)
    BY <1>3, EnteredFilled
  <2>2. Reaches(f, k, n, h)'
    BY <1>1, <1>5, <2>1, ReachesKept
  <2> QED
    BY <1>3, <2>2 DEF EnteredAt
<1>7. PICK l : /\ loc' = [loc EXCEPT ![t] = l] /\ LocTyped(l) /\ l.pc \in {"map", "data"}
               /\ l.op = loc[t].op /\ l.f = loc[t].f /\ l.op # "truncate" /\ CallOK(t)'
  <2>1. \A g, i : g = loc[t].f /\ i = loc[t].k => Reaches(g, i, n, h)' /\ Pointer(g, h)' = b
    BY <1>1, <1>6
  <2>2. loc[t].pc \in {"map", "new"} /\ Ahead(loc[t].k, n, loc[t].path)
    BY <1>1, <1>4
  <2> QED
    BY <1>4, <1>5, <2>1, <2>2, FollowGoes
<1>8. /\ DOMAIN loc = Tasks /\ loc'[t] = l /\ \A u \in Tasks : u # t => loc'[u] = loc[u]
      /\ loc[t].op # "truncate"
  BY <1>1, <1>7 DEF BlocksTypeOK
<1>9. \A g : (Truncating(g)' <=> Truncating(g)) /\ \A j : Roots(g, j)' <=> Roots(g, j)
  BY <1>7, <1>8, RootsKept
<1>10. PICK M : M = [g \in Files |-> IF g = f THEN L[f] \cup Kids(b, h.depth) ELSE L[g]]
  OBVIOUS
<1>11. Grown(L, M, f, h, b)
  BY <1>10 DEF Grown
<1>12. ASSUME NEW g \in Files PROVE Tree(g, M[g])'
  BY <1>3, <1>9, <1>11, EnteredTree
<1>13. Apart(M)'
  BY <1>3, <1>11, EnteredApart
<1>14. MapOK(M)'
  <2>1. loc'[t].pc # "new"
    BY <1>7, <1>8
  <2> QED
    BY <1>3, <1>4, <1>8, <1>11, <2>1, EnteredMap
<1>15. ASSUME NEW g \in Files, ~Truncating(g)'
       PROVE  Contents(g)' /\ \A j \in M[g] : Pointer(g, j)' # None => OnRoute(g, j)'
  <2>1. ~Truncating(g) /\ Tree(g, L[g]) /\ \A j \in L[g] : Pointer(g, j) # None => OnRoute(g, j)
    BY <1>9, <1>15 DEF Sound
  <2>2. Contents(g)'
    BY <1>3, <1>4, <1>9, <2>1, EnteredContents
  <2>3. ASSUME NEW j \in M[g], Pointer(g, j)' # None PROVE OnRoute(g, j)'
    <3>1. CASE g = f /\ j = h
      BY <1>6, <3>1 DEF OnRoute
    <3>2. CASE j \in L[g] /\ Pointer(g, j)' = Pointer(g, j)
      <4>1. PICK i \in Indexes, m \in 1 .. 3 : Reaches(g, i, m, j)
        BY <2>1, <2>3, <3>2 DEF OnRoute
      <4>2. \A e \in L[g] : Pointer(g, e) # None => Pointer(g, e)' = Pointer(g, e)
        BY <1>3, EnteredFilled
      <4>3. Reaches(g, i, m, j)'
        BY <2>1, <4>1, <4>2, ReachesKept
      <4> QED
        BY <4>3 DEF OnRoute
    <3> QED
      BY <1>3, <1>11, <2>3, <3>1, <3>2, EnteredCells
  <2> QED
    BY <2>2, <2>3
<1>16. ASSUME NEW u \in Tasks PROVE CallOK(u)'
  <2>1. CASE u = t
    BY <1>7, <2>1
  <2>2. CASE u # t
    <3>1. loc'[u] = loc[u]
      BY <1>8, <2>2
    <3>2. loc[u].pc = "free" => zone'[loc[u].f] = zone[loc[u].f]
      <4>1. ASSUME loc[u].pc = "free" PROVE loc[u].f # f
        BY <1>1, <1>4, <2>2, <4>1, OpIs DEF Alone
      <4>2. zone \in [Files -> [Zones -> Nat]]
        BY DEF BlocksTypeOK
      <4>3. zone' = zone \/ zone' = [zone EXCEPT ![f][loc[t].cell.i] = b]
        BY <1>1, <1>2 DEF Entered
      <4>4. loc[u].pc = "free" => loc[u].f \in Files
        BY OpIs
      <4> QED
        BY <4>1, <4>2, <4>3, <4>4
    <3> QED
      BY <1>1, <1>3, <1>4, <2>2, <3>1, <3>2, EnteredOther
  <2> QED
    BY <2>1, <2>2
<1>17. BlocksTypeOK'
  <2>1. DOMAIN loc' = Tasks /\ \A u \in Tasks : LocTyped(loc'[u])
    BY <1>7, LocKept
  <2> QED
    BY <1>4, <2>1, EnteredTypes DEF BlocksTypeOK
<1>18. Alone'
  BY <1>4, <1>7, AloneKept
<1>19. Sound(M)'
  BY <1>12, <1>13, <1>14, <1>15, <1>16, SoundIs
<1> QED
  BY <1>17, <1>18, <1>19

----------------------------------------------------------------------------
(* The data of a block goes to it or comes from it. *)

LEMMA LargerOfTwo ==
  ASSUME NEW a \in Nat, NEW b \in Nat
  PROVE  Max({a, b}) \in Nat
<1>1. \E x \in {a, b} : \A y \in {a, b} : x >= y
  OBVIOUS
<1>2. Max({a, b}) \in {a, b}
  BY <1>1 DEF Max
<1> QED
  BY <1>2

(* A write touches no cell: nothing of any file lies in a data block. *)
LEMMA DataApart ==
  ASSUME BlocksTypeOK, NEW L, Sound(L), NEW f \in Files, ~Truncating(f), NEW h \in L[f],
         h.depth = 0, Pointer(f, h) # None
  PROVE  \A g \in Files : \A j \in L[g] : j.b # Pointer(f, h)
<1> SUFFICES ASSUME NEW g \in Files, NEW j \in L[g], j.b = Pointer(f, h) PROVE FALSE
  OBVIOUS
<1>1. PICK i \in L[g] : /\ Pointer(g, i) = j.b
                        /\ Parent(g, i, j) \/ (Truncating(g) /\ i = Self(j.b))
  BY Held DEF Sound, None
<1>2. g = f /\ i = h
  BY <1>1 DEF Sound, Apart
<1>3. Parent(f, h, j)
  BY <1>1, <1>2
<1>4. j \in Items
  BY DEF Sound, Tree
<1> QED
  BY <1>3, <1>4, ItemIs DEF Parent

(* The cell for which a task has taken a block stays empty. *)
LEMMA NewStill ==
  ASSUME BlocksTypeOK, Alone, NEW L, Sound(L), NEW u \in Tasks, loc[u].pc = "new", loc'[u] = loc[u],
         NEW g, g = loc[u].f, \A j \in L[g] : Pointer(g, j)' = Pointer(g, j)
  PROVE  Fetch(g, loc[u].cell)' = None
<1>1. PICK c : c = loc[u].cell
  OBVIOUS
<1>2. PICK j : j = Item(c.b, c.i, Len(loc[u].path))
  OBVIOUS
<1>3. PICK i : i = loc[u].k
  OBVIOUS
<1>4. CallOK(u)
  BY DEF Sound
<1>5. PICK n \in 1 .. 3 : Reaches(g, i, n, j)
  BY <1>1, <1>2, <1>3, <1>4 DEF CallOK
<1>6. Fetch(g, c) = None /\ j.b = c.b /\ j.i = c.i
  BY <1>1, <1>2, <1>4, ItemFields DEF CallOK
<1>7. g \in Files /\ i \in Indexes /\ ~Truncating(g) /\ Tree(g, L[g])
  BY <1>3, NotBeside DEF Sound
<1>8. j \in L[g] /\ Pointer(g, j) = Fetch(g, j) /\ (j.b # 0 => j.i \in Words)
  BY <1>5, <1>7, ReachesIn, ReachesPlace
<1>9. Pointer(g, j)' = None
  BY <1>6, <1>8 DEF Fetch
<1>10. Fetch(g, c)' = None
  BY <1>6, <1>8, <1>9, Numbers DEF Pointer, Fetch
<1> QED
  BY <1>1, <1>10 DEF Fetch

LEMMA WriteKeeps ==
  ASSUME BlocksTypeOK, Alone, NEW L, Sound(L), NEW t \in Tasks, Transfer(t), loc[t].op = "write"
  PROVE  BlocksTypeOK' /\ Alone' /\ Sound(L)'
<1>0. PICK o : o = loc[t]
  OBVIOUS
<1>1. o.pc = "data" /\ o.op = "write" /\ Resting.op # "truncate" /\ Resting.pc # "new"
  BY <1>0, RestingTyped DEF Transfer
<1>2. PICK f : f = o.f
  OBVIOUS
<1>3. PICK k : k = o.k
  OBVIOUS
<1>4. f \in Files /\ k \in Indexes /\ ~Truncating(f) /\ Tree(f, L[f])
  BY <1>0, <1>1, <1>2, <1>3, NotBeside DEF Sound
<1>5. PICK h : Reaches(f, k, Len(Path(k)), h) /\ Pointer(f, h) = o.blk /\ o.blk # None
  BY <1>0, <1>1, <1>2, <1>3 DEF Sound, CallOK
<1>6. PICK b : b = o.blk
  OBVIOUS
<1>7. h \in L[f] /\ h.depth = 0 /\ b \in Blocks
  <2> DEFINE len == Len(Path(k))
  <2>1. len \in 1 .. 3
    BY <1>4, Cell1Is
  <2>2. h \in L[f] /\ h.depth = len - len
    BY <1>4, <1>5, ReachesIn
  <2> HIDE DEF len
  <2>3. h.depth = 0
    BY <2>1, <2>2
  <2> QED
    BY <1>4, <1>5, <1>6, <2>2, <2>3 DEF Tree
<1>8. /\ mem' = [mem EXCEPT ![b][0] = Stamp(f, k)] /\ size' = [size EXCEPT ![f] = Max({@, k + 1})]
      /\ written' = [written EXCEPT ![f] = @ \cup {k}] /\ loc' = [loc EXCEPT ![t] = Resting]
      /\ UNCHANGED <<zmap, zone, lost>>
  BY <1>0, <1>2, <1>3, <1>6 DEF Transfer, Return, Goto
<1>9. /\ DOMAIN loc = Tasks /\ loc'[t] = Resting /\ \A u \in Tasks : u # t => loc'[u] = loc[u]
      /\ mem \in [Blocks -> [Words -> Nat]] /\ written \in [Files -> SUBSET Indexes]
      /\ size \in [Files -> Nat] /\ 0 \in Words /\ k \in Nat /\ f \in Nat
  BY <1>4, <1>8, Numbers DEF BlocksTypeOK
<1>10. /\ mem'[b][0] = Stamp(f, k) /\ Stamp(f, k) \in Nat
       /\ \A c \in Blocks : c # b => mem'[c] = mem[c]
  BY <1>7, <1>8, <1>9 DEF Stamp
<1>11. BlocksTypeOK'
  <2>1. mem' \in [Blocks -> [Words -> Nat]]
    BY <1>8, <1>9, <1>10
  <2>2. k + 1 \in Nat /\ size[f] \in Nat
    BY <1>4, <1>9
  <2>3. PICK m : m = Max({size[f], k + 1})
    OBVIOUS
  <2>4. m \in Nat
    BY <2>2, <2>3, LargerOfTwo
  <2>5. size' = [size EXCEPT ![f] = m]
    BY <1>8, <2>3
  <2>6. size' \in [Files -> Nat]
    BY <1>9, <2>4, <2>5
  <2>7. written' \in [Files -> SUBSET Indexes]
    BY <1>4, <1>8, <1>9
  <2> QED
    BY <1>8, <2>1, <2>6, <2>7, LocKept, RestingTyped DEF BlocksTypeOK
<1>12. ASSUME NEW g \in Files, NEW j \in L[g] PROVE Pointer(g, j)' = Pointer(g, j)
  <2>1. j.b # b /\ CellOK(j)
    BY <1>4, <1>5, <1>6, <1>7, DataApart DEF Sound, Tree
  <2>2. j.b # 0 => mem'[j.b] = mem[j.b]
    BY <1>10, <2>1 DEF CellOK
  <2> QED
    BY <1>8, <2>2, PointerKept
<1>13. \A g : (Truncating(g)' <=> Truncating(g)) /\ \A j : Roots(g, j)' <=> Roots(g, j)
  BY <1>0, <1>1, <1>8, <1>9, RootsKept
<1>14. ASSUME NEW g \in Files
       PROVE  /\ Tree(g, L[g])'
              /\ ~Truncating(g) =>
                   /\ \A i \in Indexes : \A n, j : Reaches(g, i, n, j)' <=> Reaches(g, i, n, j)
                   /\ \A j : OnRoute(g, j)' <=> OnRoute(g, j)
  BY <1>12, <1>13, FileKept DEF Sound
<1>15. Apart(L)'
  BY <1>12 DEF Sound, Apart
<1>16. MapOK(L)'
  <2>1. \A u \in Tasks : loc'[u].pc = "new" => loc'[u] = loc[u] /\ u # t
    BY <1>1, <1>9
  <2>2. \A u \in Tasks : loc[u].pc = "new" => loc'[u] = loc[u]
    BY <1>0, <1>1, <1>9
  <2>3. \A c : NewBlock(c)' <=> NewBlock(c)
    BY <2>1, <2>2 DEF NewBlock
  <2>4. \A g \in Files : \A j \in L[g] : Pointer(g, j)' # None =>
          Pointer(g, j)' \in zmap' \ lost' /\ ~NewBlock(Pointer(g, j))'
    BY <1>8, <1>12, <2>3 DEF Sound, MapOK
  <2>5. \A c \in zmap' : c \in lost' \/ NewBlock(c)' \/ \E g \in Files : \E j \in L[g] : Pointer(g, j)' = c
    BY <1>8, <1>12, <2>3 DEF Sound, MapOK
  <2> QED
    BY <1>8, <2>1, <2>4, <2>5 DEF Sound, MapOK
<1>17. ASSUME NEW g \in Files, ~Truncating(g) PROVE Contents(g)'
  <2>1. Contents(g) /\ Tree(g, L[g])
    BY <1>17 DEF Sound
  <2>2. ASSUME NEW i \in Indexes, NEW j, Reaches(g, i, Len(Path(i)), j)
        PROVE  /\ i \in written'[g] => Pointer(g, j) # None /\ mem'[Pointer(g, j)][0] = Stamp(g, i)
               /\ i \notin written'[g] => Pointer(g, j) = None \/ mem'[Pointer(g, j)][0] = 0
    <3>1. j \in L[g] /\ Pointer(g, j) \in Blocks \cup {None}
      BY <1>17, <2>1, <2>2, ReachesIn DEF Tree
    <3>2. CASE g = f /\ i = k
      <4>1. j = h
        BY <1>5, <2>2, <3>2, ReachesOnce
      <4>2. k \in written'[f]
        BY <1>4, <1>8, <1>9
      <4> QED
        BY <1>5, <1>6, <1>10, <3>2, <4>1, <4>2
    <3>3. CASE ~(g = f /\ i = k)
      <4>1. i \in written'[g] <=> i \in written[g]
        BY <1>4, <1>8, <1>9, <3>3
      <4>2. Pointer(g, j) # b
        <5>1. ASSUME Pointer(g, j) = b PROVE FALSE
          <6>1. g = f /\ j = h
            BY <1>4, <1>5, <1>6, <1>7, <3>1, <5>1 DEF Sound, Apart
          <6>2. i = k
            BY <1>4, <1>5, <2>2, <6>1, RouteOnce DEF Sound
          <6> QED
            BY <3>3, <6>1, <6>2
        <5> QED
          BY <5>1
      <4>3. Pointer(g, j) # None => mem'[Pointer(g, j)] = mem[Pointer(g, j)]
        BY <1>10, <3>1, <4>2
      <4> QED
        BY <2>1, <2>2, <4>1, <4>3 DEF Contents
    <3> QED
      BY <3>2, <3>3
  <2>3. ASSUME NEW i \in Indexes, i \in written'[g] PROVE \E j : Reaches(g, i, Len(Path(i)), j)
    <3>1. CASE g = f /\ i = k
      BY <1>5, <3>1
    <3>2. CASE ~(g = f /\ i = k)
      <4>1. i \in written[g]
        BY <1>4, <1>8, <1>9, <2>3, <3>2
      <4> QED
        BY <2>1, <4>1 DEF Contents
    <3> QED
      BY <3>1, <3>2
  <2>4. \A i \in Indexes : \A j : Reaches(g, i, Len(Path(i)), j)' <=> Reaches(g, i, Len(Path(i)), j)
    BY <1>14, <1>17 DEF Path
  <2>5. ASSUME NEW i \in Indexes, NEW j, Reaches(g, i, Len(Path(i)), j)
        PROVE  Pointer(g, j)' = Pointer(g, j)
    BY <1>12, <1>17, <2>1, <2>5, ReachesIn
  <2> QED
    BY <2>2, <2>3, <2>4, <2>5 DEF Contents, Path, Stamp
<1>18. ASSUME NEW g \in Files, ~Truncating(g)'
       PROVE  Contents(g)' /\ \A j \in L[g] : Pointer(g, j)' # None => OnRoute(g, j)'
  <2>1. ~Truncating(g)
    BY <1>13, <1>18
  <2>2. \A j \in L[g] : Pointer(g, j) # None => OnRoute(g, j)
    BY <2>1 DEF Sound
  <2> QED
    BY <1>12, <1>14, <1>17, <2>1, <2>2
<1>19. ASSUME NEW u \in Tasks PROVE CallOK(u)'
  <2>1. CASE u = t
    BY <1>9, <2>1, RestingTyped DEF CallOK
  <2>2. CASE u # t
    <3>1. CallOK(u) /\ loc'[u] = loc[u]
      BY <1>9, <2>2 DEF Sound
    <3>2. PICK S : S = L[loc[u].f]
      OBVIOUS
    <3>3. loc[u].pc \in {"map", "new", "data"} =>
            /\ Tree(loc[u].f, S) /\ loc[u].f \in Files /\ loc[u].k \in Indexes /\ ~Truncating(loc[u].f)
            /\ \A g : g = loc[u].f => \A j \in S : Pointer(g, j) # None => Pointer(g, j)' = Pointer(g, j)
      BY <1>12, <3>2, NotBeside DEF Sound
    <3>4. ASSUME loc[u].pc = "new", NEW g, g = loc[u].f PROVE Fetch(g, loc[u].cell)' = None
      <4>1. g \in Files /\ \A j \in L[g] : Pointer(g, j)' = Pointer(g, j)
        BY <1>12, <3>3, <3>4
      <4> QED
        BY <3>1, <3>4, <4>1, NewStill
    <3>5. loc[u].pc = "new" => \A g : g = loc[u].f => Fetch(g, loc[u].cell)' = None
      BY <3>4
    <3>6. loc[u].pc = "free" => zone'[loc[u].f] = zone[loc[u].f]
      BY <1>8
    <3>7. loc[u].pc \in {"map", "new", "data"} =>
            /\ Tree(loc[u].f, S)
            /\ \A g : g = loc[u].f => \A j \in S : Pointer(g, j) # None => Pointer(g, j)' = Pointer(g, j)
      BY <3>3
    <3> QED
      BY <3>1, <3>5, <3>6, <3>7, CallKept
  <2> QED
    BY <2>1, <2>2
<1>20. Alone'
  BY <1>8, RestingTyped, AloneKept
<1>21. Sound(L)'
  BY <1>14, <1>15, <1>16, <1>18, <1>19, SoundIs
<1> QED
  BY <1>11, <1>20, <1>21

LEMMA TransferKeeps ==
  ASSUME BlocksTypeOK, Alone, NEW L, Sound(L), NEW t \in Tasks, Transfer(t)
  PROVE  BlocksTypeOK' /\ Alone' /\ Sound(L)'
<1>1. CASE loc[t].op = "write"
  BY <1>1, WriteKeeps
<1>2. CASE loc[t].op # "write"
  BY <1>2, ReturnStep DEF Transfer
<1> QED
  BY <1>1, <1>2

----------------------------------------------------------------------------
(* truncate(). *)

LEMMA FirstTodo ==
  ASSUME NEW s, s = [z \in 1 .. NDirect + 2 |-> Item(0, z - 1, IF z <= NDirect THEN 0 ELSE z - NDirect)]
  PROVE  /\ s \in Seq(Items) /\ Len(s) = NDirect + 2 /\ TodoOK(s)
         /\ \A n \in 1 .. Len(s) : n - 1 \in Zones /\ s[n] = RootItem(n - 1)
         /\ \A z \in Zones : z + 1 \in 1 .. Len(s) /\ s[z + 1] = RootItem(z)
<1>1. NDirect \in Nat
  BY Numbers
<1>2. ASSUME NEW n \in 1 .. NDirect + 2
      PROVE  n - 1 \in Zones /\ s[n] = RootItem(n - 1) /\ s[n] \in Items
  <2>1. n - 1 \in Zones /\ n - 1 \in Nat /\ (n <= NDirect <=> n - 1 < NDirect)
        /\ n - 1 + 1 - NDirect = n - NDirect
    BY <1>1 DEF Zones
  <2> DEFINE d == IF n <= NDirect THEN 0 ELSE n - NDirect
  <2>2. d \in {0, 1, 2}
    BY <1>1
  <2>3. s[n] = Item(0, n - 1, d)
    OBVIOUS
  <2>4. d = IF n - 1 < NDirect THEN 0 ELSE n - 1 + 1 - NDirect
    BY <2>1
  <2> HIDE DEF d
  <2> QED
    BY <2>1, <2>2, <2>3, <2>4, ItemTyped DEF RootItem
<1>3. s \in Seq(Items) /\ Len(s) = NDirect + 2
  <2>1. s \in [1 .. NDirect + 2 -> Items]
    BY <1>2
  <2>2. NDirect + 2 \in Nat
    BY <1>1
  <2> HIDE DEF Items
  <2> QED
    BY <2>1, <2>2
<1>5. ASSUME NEW n \in 1 .. Len(s)
      PROVE  /\ n \in Int /\ s[n].b = 0 /\ s[n].i = n - 1
             /\ n - 1 \in Zones /\ s[n] = RootItem(n - 1)
  <2>1. n \in 1 .. NDirect + 2 /\ n \in Int
    BY <1>1, <1>3
  <2>2. n - 1 \in Zones /\ s[n] = RootItem(n - 1)
    BY <1>2, <2>1
  <2> QED
    BY <2>1, <2>2, ItemFields DEF RootItem
<1>6. ASSUME NEW m \in 1 .. Len(s), NEW n \in 1 .. Len(s), s[m] = s[n] PROVE m = n
  <2>1. m - 1 = n - 1 /\ m \in Int /\ n \in Int
    BY <1>5, <1>6
  <2> QED
    BY <2>1
<1>7. TodoOK(s)
  BY <1>5, <1>6 DEF TodoOK
<1>8. ASSUME NEW z \in Zones PROVE z + 1 \in 1 .. Len(s) /\ s[z + 1] = RootItem(z)
  <2>1. PICK n : n = z + 1
    OBVIOUS
  <2>2. n \in 1 .. NDirect + 2 /\ n - 1 = z
    BY <1>1, <2>1 DEF Zones
  <2>3. s[n] = RootItem(z)
    BY <1>2, <2>2
  <2>4. n \in 1 .. Len(s)
    BY <1>3, <2>2
  <2> QED
    BY <2>1, <2>3, <2>4
<1>9. \A n \in 1 .. Len(s) : n - 1 \in Zones /\ s[n] = RootItem(n - 1)
  BY <1>5
<1> QED
  BY <1>3, <1>7, <1>8, <1>9

LEMMA OneTruncates ==
  ASSUME BlocksTypeOK, Alone, NEW t \in Tasks, loc[t].pc = "free", NEW f, f = loc[t].f
  PROVE  /\ Truncating(f) /\ f \in Files /\ loc[t].op = "truncate"
         /\ \A u \in Tasks : loc[u].pc # "idle" /\ loc[u].f = f => u = t
         /\ \A h : Roots(f, h) <=> \E n \in 1 .. Len(loc[t].todo) : h = loc[t].todo[n]
<1>1. Truncating(f) /\ f \in Files /\ loc[t].op = "truncate" /\ loc[t].pc # "idle"
  BY OpIs DEF Truncating
<1>2. \A u \in Tasks : loc[u].pc # "idle" /\ loc[u].f = f => u = t
  BY <1>1 DEF Alone
<1>3. \A u \in Tasks : loc[u].op = "truncate" /\ loc[u].f = f => u = t
  BY <1>2, OpIs
<1>4. \A h : Roots(f, h) <=> \E n \in 1 .. Len(loc[t].todo) : h = loc[t].todo[n]
  BY <1>1, <1>3 DEF Roots
<1> QED
  BY <1>1, <1>2, <1>4

LEMMA StartTruncateKeeps ==
  ASSUME BlocksTypeOK, Alone, Races = {}, NEW L, Sound(L), NEW t \in Tasks,
         NEW f \in Files, StartTruncate(t, f)
  PROVE  BlocksTypeOK' /\ Alone' /\ Sound(L)'
<1>1. PICK s : s = [z \in 1 .. NDirect + 2 |-> Item(0, z - 1, IF z <= NDirect THEN 0 ELSE z - NDirect)]
  OBVIOUS
<1>2. PICK l : l = [Resting EXCEPT !.pc = "free", !.op = "truncate", !.f = f, !.todo = s]
  OBVIOUS
<1>3. /\ loc' = [loc EXCEPT ![t] = l] /\ loc[t].pc = "idle" /\ Admitted(f, "truncate")
      /\ UNCHANGED <<zmap, zone, mem, size, written, lost>>
  BY <1>1, <1>2 DEF StartTruncate, Goto
<1>4. /\ l.pc = "free" /\ l.op = "truncate" /\ l.f = f /\ l.todo = s
      /\ l.path = Resting.path /\ l.cell = Resting.cell
      /\ DOMAIN l = {"pc", "op", "f", "k", "path", "cell", "blk", "todo"}
  BY <1>2 DEF Resting
<1>5. LocTyped(l)
  BY <1>1, <1>4, FirstTodo, RestingTyped DEF LocTyped
<1>6. DOMAIN loc = Tasks /\ loc'[t] = l /\ \A u \in Tasks : u # t => loc'[u] = loc[u]
  BY <1>3 DEF BlocksTypeOK
<1>7. BlocksTypeOK'
  BY <1>3, <1>5, LocKept DEF BlocksTypeOK
<1>8. Alone'
  <2>1. l.op \in {"read", "write", "truncate"} /\ Admitted(l.f, l.op)
    BY <1>3, <1>4
  <2> QED
    BY <1>3, <2>1, AloneStart
<1>9. /\ \A g, h : Pointer(g, h)' = Pointer(g, h)
      /\ \A g, k, n, h : Reaches(g, k, n, h)' <=> Reaches(g, k, n, h)
  BY <1>3, ReachesQuiet
<1>10. loc[t].op = "none" /\ ~Using(f, "truncate")
  BY <1>3, OpIs DEF Admitted
<1>11. ~Truncating(f) /\ Truncating(f)'
  <2>1. ~Truncating(f)
    BY <1>10, OpIs DEF Truncating, Using
  <2> QED
    BY <1>4, <1>6, <2>1 DEF Truncating
<1>12. ASSUME NEW g, g # f
       PROVE  (Truncating(g)' <=> Truncating(g)) /\ \A h : Roots(g, h)' <=> Roots(g, h)
  BY <1>3, <1>4, <1>6, <1>10, <1>12, RootsKept
<1>13. \A h : Roots(f, h)' <=> Roots(f, h)
  <2>1. \A h : Roots(f, h) <=> \E z \in Zones : h = RootItem(z)
    BY <1>11 DEF Roots, Truncating
  <2>2. \A u \in Tasks : loc'[u].op = "truncate" /\ loc'[u].f = f => u = t
    BY <1>6, <1>11 DEF Truncating
  <2>3. \A h : Roots(f, h)' <=> \E n \in 1 .. Len(s) : h = s[n]
    BY <1>4, <1>6, <1>11, <2>2 DEF Roots
  <2>4. \A h : (\E z \in Zones : h = RootItem(z)) <=> \E n \in 1 .. Len(s) : h = s[n]
    BY <1>1, FirstTodo
  <2> QED
    BY <2>1, <2>3, <2>4
<1>14. ASSUME NEW g \in Files PROVE Tree(g, L[g])'
  BY <1>9, <1>12, <1>13, TreeKept DEF Sound
<1>15. Apart(L)'
  BY <1>9 DEF Sound, Apart
<1>16. MapOK(L)'
  <2>1. loc[t].pc # "new" /\ l.pc # "new"
    BY <1>3, <1>4
  <2> QED
    BY <1>3, <2>1, QuietMap DEF Sound
<1>17. ASSUME NEW g \in Files, ~Truncating(g)'
       PROVE  Contents(g)' /\ \A h \in L[g] : Pointer(g, h)' # None => OnRoute(g, h)'
  <2>1. ~Truncating(g)
    BY <1>11, <1>12, <1>17
  <2>2. Contents(g) /\ \A h \in L[g] : Pointer(g, h) # None => OnRoute(g, h)
    BY <2>1 DEF Sound
  <2>3. Contents(g)'
    BY <1>3, <1>9, <2>2 DEF Contents, Path, Stamp
  <2>4. \A h : OnRoute(g, h) => OnRoute(g, h)'
    BY <1>9 DEF OnRoute
  <2> QED
    BY <1>9, <2>2, <2>3, <2>4
<1>18. ASSUME NEW u \in Tasks PROVE CallOK(u)'
  <2>1. CASE u = t
    <3>1. TodoOK(s) /\ \A z \in Zones : z + 1 \in 1 .. Len(s) /\ s[z + 1] = RootItem(z)
      BY <1>1, FirstTodo
    <3> QED
      BY <1>4, <1>6, <2>1, <3>1 DEF CallOK, TodoOK, Self, Item, RootItem
  <2>2. CASE u # t
    <3>1. CallOK(u) /\ loc'[u] = loc[u]
      BY <1>6, <2>2 DEF Sound
    <3> QED
      BY <1>3, <3>1, CallQuiet
  <2> QED
    BY <2>1, <2>2
<1>19. Sound(L)'
  BY <1>14, <1>15, <1>16, <1>17, <1>18, SoundIs
<1> QED
  BY <1>7, <1>8, <1>19

(* What truncate() has still to do: the list without its first n items,    *)
(* and with the items of a block in front.                                 *)
LEMMA RestIs ==
  ASSUME NEW s \in Seq(Items), NEW n \in 1 .. Len(s), NEW r, r = SubSeq(s, n + 1, Len(s))
  PROVE  /\ r \in Seq(Items) /\ Len(r) = Len(s) - n
         /\ \A i \in 1 .. Len(r) : n + i \in 1 .. Len(s) /\ n + i > n /\ r[i] = s[n + i]
         /\ \A m \in 1 .. Len(s) : m > n => m - n \in 1 .. Len(r) /\ r[m - n] = s[m]
  BY SMTT(30)

(* The list r has the items of s after the n-th. *)
RestOf(s, n, r) ==
  \A j : (\E i \in 1 .. Len(r) : j = r[i]) <=> \E m \in 1 .. Len(s) : m > n /\ j = s[m]

LEMMA RestHas ==
  ASSUME NEW s \in Seq(Items), NEW n \in 1 .. Len(s), NEW r, r = SubSeq(s, n + 1, Len(s))
  PROVE  RestOf(s, n, r)
<1>1. /\ \A i \in 1 .. Len(r) : n + i \in 1 .. Len(s) /\ n + i > n /\ r[i] = s[n + i]
      /\ \A m \in 1 .. Len(s) : m > n => m - n \in 1 .. Len(r) /\ r[m - n] = s[m]
  BY RestIs
<1>2. ASSUME NEW i \in 1 .. Len(r) PROVE \E m \in 1 .. Len(s) : m > n /\ r[i] = s[m]
  BY <1>1
<1>3. ASSUME NEW m \in 1 .. Len(s), m > n PROVE \E i \in 1 .. Len(r) : s[m] = r[i]
  BY <1>1, <1>3
<1>4. ASSUME NEW j, NEW i \in 1 .. Len(r), j = r[i] PROVE \E m \in 1 .. Len(s) : m > n /\ j = s[m]
  BY <1>2, <1>4
<1>5. ASSUME NEW j, NEW m \in 1 .. Len(s), m > n, j = s[m] PROVE \E i \in 1 .. Len(r) : j = r[i]
  BY <1>3, <1>5
<1> QED
  BY <1>4, <1>5 DEF RestOf

LEMMA CatIs ==
  ASSUME NEW a \in Seq(Items), NEW b \in Seq(Items), NEW c, c = a \o b
  PROVE  /\ c \in Seq(Items) /\ Len(c) = Len(a) + Len(b)
         /\ \A i \in 1 .. Len(a) : i \in 1 .. Len(c) /\ c[i] = a[i]
         /\ \A i \in 1 .. Len(b) : Len(a) + i \in 1 .. Len(c) /\ c[Len(a) + i] = b[i]
         /\ \A i \in 1 .. Len(c) : \/ i \in 1 .. Len(a) /\ c[i] = a[i]
                                   \/ i > Len(a) /\ i - Len(a) \in 1 .. Len(b) /\ c[i] = b[i - Len(a)]
  BY SMTT(30)

LEMMA TodoRest ==
  ASSUME NEW s \in Seq(Items), TodoOK(s), NEW n \in 1 .. Len(s), NEW r, r = SubSeq(s, n + 1, Len(s))
  PROVE  TodoOK(r)
<1>1. /\ r \in Seq(Items) /\ Len(r) = Len(s) - n /\ Len(r) \in Int /\ Len(s) \in Int /\ n \in Int
      /\ \A i \in 1 .. Len(r) : n + i \in 1 .. Len(s) /\ n + i > n /\ r[i] = s[n + i]
      /\ \A m \in 1 .. Len(s) : m > n => m - n \in 1 .. Len(r) /\ r[m - n] = s[m]
  BY RestIs
<1>2. ASSUME NEW i \in 1 .. Len(r), NEW j \in 1 .. Len(r), r[i] = r[j] PROVE i = j
  <2>1. PICK x : x = n + i
    OBVIOUS
  <2>2. PICK y : y = n + j
    OBVIOUS
  <2>3. x \in 1 .. Len(s) /\ y \in 1 .. Len(s) /\ s[x] = s[y]
    BY <1>1, <1>2, <2>1, <2>2
  <2>4. x = y
    BY <2>3 DEF TodoOK
  <2> QED
    BY <1>1, <2>1, <2>2, <2>4
<1>3. ASSUME NEW i \in 1 .. Len(r), r[i].b # 0 PROVE \E j \in 1 .. Len(r) : r[j] = Self(r[i].b)
  <2>1. PICK e : e = n + i
    OBVIOUS
  <2>2. e \in 1 .. Len(s) /\ e > n /\ r[i] = s[e]
    BY <1>1, <2>1
  <2>3. PICK m \in 1 .. Len(s) : s[m] = Self(s[e].b)
    BY <1>3, <2>2 DEF TodoOK
  <2>4. s[m].b = s[e].b
    BY <2>3, ItemFields DEF Self
  <2>5. ~(m < e)
    BY <1>3, <2>2, <2>3, <2>4 DEF TodoOK
  <2>6. m > n
    BY <1>1, <2>2, <2>5
  <2>7. PICK j : j = m - n
    OBVIOUS
  <2>8. j \in 1 .. Len(r) /\ r[j] = s[m]
    BY <1>1, <2>6, <2>7
  <2>9. r[j] = Self(r[i].b)
    BY <2>2, <2>3, <2>8
  <2> QED
    BY <2>8, <2>9
<1>4. ASSUME NEW i \in 1 .. Len(r), NEW j \in 1 .. Len(r), i < j, r[i].b # 0, r[i] = Self(r[i].b)
      PROVE  r[j].b # r[i].b
  <2>1. n + i < n + j
    BY <1>1, <1>4
  <2> QED
    BY <1>1, <1>4, <2>1 DEF TodoOK
<1> QED
  BY <1>2, <1>3, <1>4 DEF TodoOK

LEMMA TodoCat ==
  ASSUME NEW a \in Seq(Items), NEW r \in Seq(Items), TodoOK(a), TodoOK(r), NEW p,
         \A i \in 1 .. Len(a) : a[i].b = p, \A i \in 1 .. Len(r) : r[i].b # p,
         NEW c, c = a \o r
  PROVE  TodoOK(c)
<1> PICK la : la = Len(a)
  OBVIOUS
<1>1. /\ la \in Int /\ Len(r) \in Int
      /\ \A i \in 1 .. la : i \in 1 .. Len(c) /\ c[i] = a[i]
      /\ \A i \in 1 .. Len(r) : la + i \in 1 .. Len(c) /\ c[la + i] = r[i]
      /\ \A i \in 1 .. Len(c) : \/ i \in 1 .. la /\ c[i] = a[i] /\ c[i].b = p
                                \/ i > la /\ i - la \in 1 .. Len(r) /\ c[i] = r[i - la] /\ c[i].b # p
  BY CatIs
<1>2. ASSUME NEW i \in 1 .. Len(c), NEW j \in 1 .. Len(c), c[i] = c[j] PROVE i = j
  <2>1. CASE c[i].b = p
    BY <1>1, <1>2, <2>1 DEF TodoOK
  <2>2. CASE c[i].b # p
    <3>1. /\ i - la \in 1 .. Len(r) /\ c[i] = r[i - la]
          /\ j - la \in 1 .. Len(r) /\ c[j] = r[j - la]
      BY <1>1, <1>2, <2>2
    <3>2. i - la = j - la
      BY <1>2, <3>1 DEF TodoOK
    <3> QED
      BY <1>1, <3>2
  <2> QED
    BY <2>1, <2>2
<1>3. ASSUME NEW i \in 1 .. Len(c), c[i].b # 0 PROVE \E j \in 1 .. Len(c) : c[j] = Self(c[i].b)
  <2>1. CASE i \in 1 .. la /\ c[i] = a[i]
    BY <1>1, <1>3, <2>1 DEF TodoOK
  <2>2. CASE i > la /\ i - la \in 1 .. Len(r) /\ c[i] = r[i - la]
    <3>1. PICK j \in 1 .. Len(r) : r[j] = Self(c[i].b)
      BY <1>3, <2>2 DEF TodoOK
    <3>2. PICK y : y = la + j
      OBVIOUS
    <3>3. y \in 1 .. Len(c) /\ c[y] = r[j]
      BY <1>1, <3>2
    <3> QED
      BY <3>1, <3>3
  <2> QED
    BY <1>1, <2>1, <2>2
<1>4. ASSUME NEW i \in 1 .. Len(c), NEW j \in 1 .. Len(c), i < j, c[i].b # 0, c[i] = Self(c[i].b)
      PROVE  c[j].b # c[i].b
  <2>1. CASE c[i].b = p /\ c[j].b = p
    BY <1>1, <1>4, <2>1 DEF TodoOK
  <2>2. CASE c[i].b # p /\ c[j].b # p
    <3>1. PICK x : x = i - la
      OBVIOUS
    <3>2. PICK y : y = j - la
      OBVIOUS
    <3>3. x \in 1 .. Len(r) /\ c[i] = r[x] /\ y \in 1 .. Len(r) /\ c[j] = r[y]
      BY <1>1, <2>2, <3>1, <3>2
    <3>4. i \in Int /\ j \in Int
      OBVIOUS
    <3>5. x < y
      BY <1>1, <1>4, <3>1, <3>2, <3>4
    <3> QED
      BY <1>4, <3>3, <3>5 DEF TodoOK
  <2> QED
    BY <1>4, <2>1, <2>2
<1> QED
  BY <1>2, <1>3, <1>4 DEF TodoOK

(* The items of block p, with its words one level down, or itself alone.   *)
ItemsOf(a, p) == a \in Seq(Items) /\ TodoOK(a) /\ \A i \in 1 .. Len(a) : a[i].b = p

HoldsBelow(a, p, d) ==
  \A j : (\E i \in 1 .. Len(a) : j = a[i]) <=> j = Self(p) \/ \E w \in Words : j = Item(p, w, d - 1)

HoldsSelf(a, p) == \A j : (\E i \in 1 .. Len(a) : j = a[i]) <=> j = Self(p)

LEMMA BelowIs ==
  ASSUME NEW p \in Blocks, NEW d \in {1, 2}, NEW s, s = Below(p, d)
  PROVE  ItemsOf(s, p) /\ HoldsBelow(s, p, d)
<1> DEFINE a == [w \in 1 .. NWords |-> Item(p, w - 1, d - 1)]
           r == <<Self(p)>>
<1>1. s = a \o r
  BY DEF Below, Self
<1>2. p \in Nat /\ NWords \in Nat /\ d - 1 \in {0, 1, 2}
  BY Numbers
<1>3. \A w \in 1 .. NWords : w - 1 \in Words /\ a[w] = Item(p, w - 1, d - 1) /\ a[w] \in Items
                             /\ a[w].b = p /\ a[w].i = w - 1 /\ a[w].i # NWords
  <2> SUFFICES ASSUME NEW w \in 1 .. NWords
               PROVE  w - 1 \in Words /\ a[w] = Item(p, w - 1, d - 1) /\ a[w] \in Items
                      /\ a[w].b = p /\ a[w].i = w - 1 /\ a[w].i # NWords
    OBVIOUS
  <2>1. w - 1 \in Words /\ w - 1 \in Nat /\ w - 1 # NWords
    BY <1>2 DEF Words
  <2>2. a[w] = Item(p, w - 1, d - 1)
    OBVIOUS
  <2> QED
    BY <1>2, <2>1, <2>2, ItemFields, ItemTyped
<1>4. a \in Seq(Items) /\ Len(a) = NWords
  <2>1. a \in [1 .. NWords -> Items]
    BY <1>3
  <2> HIDE DEF a
  <2>2. a \in Seq(Items)
    BY <1>2, <2>1
  <2> QED
    BY <1>2, <2>1, <2>2
<1>5. r \in Seq(Items) /\ Len(r) = 1 /\ r[1] = Self(p) /\ Self(p).b = p /\ Self(p).i = NWords
  BY SelfIs
<1> HIDE DEF a, r
<1>6. /\ s \in Seq(Items) /\ Len(s) = NWords + 1 /\ s[NWords + 1] = Self(p)
      /\ \A i \in 1 .. NWords : s[i] = a[i]
  <2>1. 1 \in 1 .. Len(r) /\ NWords + 1 = Len(a) + 1
    BY <1>4, <1>5
  <2>2. /\ s \in Seq(Items) /\ Len(s) = Len(a) + Len(r)
        /\ \A i \in 1 .. Len(a) : s[i] = a[i]
        /\ \A i \in 1 .. Len(r) : s[Len(a) + i] = r[i]
    <3>1. a \in Seq(Items) /\ r \in Seq(Items) /\ s = a \o r
      BY <1>1, <1>4, <1>5
    <3> QED
      BY <3>1, CatIs
  <2>3. s[Len(a) + 1] = r[1]
    BY <2>1, <2>2
  <2> QED
    BY <1>4, <1>5, <2>1, <2>2, <2>3
<1>7. \A i \in 1 .. Len(s) : \/ i \in 1 .. NWords /\ s[i] = Item(p, i - 1, d - 1) /\ i - 1 \in Words
                                /\ s[i].b = p /\ s[i].i = i - 1 /\ s[i].i # NWords /\ i \in Int
                             \/ i = NWords + 1 /\ s[i] = Self(p) /\ s[i].b = p /\ s[i].i = NWords
  <2> SUFFICES ASSUME NEW i \in 1 .. NWords + 1
               PROVE  \/ i \in 1 .. NWords /\ s[i] = Item(p, i - 1, d - 1) /\ i - 1 \in Words
                         /\ s[i].b = p /\ s[i].i = i - 1 /\ s[i].i # NWords /\ i \in Int
                      \/ i = NWords + 1 /\ s[i] = Self(p) /\ s[i].b = p /\ s[i].i = NWords
    BY <1>6
  <2>1. (i \in 1 .. NWords \/ i = NWords + 1) /\ i \in Int
    BY <1>2
  <2> QED
    BY <1>3, <1>5, <1>6, <2>1
<1>8. ASSUME NEW i \in 1 .. Len(s), NEW j \in 1 .. Len(s), s[i] = s[j] PROVE i = j
  <2>1. CASE i \in 1 .. NWords /\ s[i].i = i - 1 /\ s[i].i # NWords /\ i \in Int
    <3>1. j \in Int /\ j - 1 = i - 1
      BY <1>7, <1>8, <2>1
    <3> QED
      BY <2>1, <3>1
  <2>2. CASE i = NWords + 1 /\ s[i].i = NWords
    BY <1>7, <1>8, <2>2
  <2> QED
    BY <1>7, <2>1, <2>2
<1>9. NWords + 1 \in 1 .. Len(s)
  BY <1>2, <1>6
<1>10. ASSUME NEW i \in 1 .. Len(s), NEW j \in 1 .. Len(s), i < j, s[i] = Self(s[i].b) PROVE FALSE
  <2>1. s[i].i = NWords
    BY <1>5, <1>7, <1>10
  <2>2. i = NWords + 1
    BY <1>7, <2>1
  <2> QED
    BY <1>2, <1>6, <1>10, <2>2
<1>11. TodoOK(s)
  BY <1>6, <1>7, <1>8, <1>9, <1>10 DEF TodoOK
<1>12. ASSUME NEW w \in Words PROVE \E i \in 1 .. Len(s) : Item(p, w, d - 1) = s[i]
  <2>1. PICK i : i = w + 1
    OBVIOUS
  <2>2. i \in 1 .. NWords /\ i - 1 = w /\ i \in 1 .. Len(s)
    BY <1>2, <1>6, <2>1 DEF Words
  <2>3. s[i] = Item(p, w, d - 1)
    BY <1>3, <1>6, <2>2
  <2> QED
    BY <2>2, <2>3
<1>13. \A j : (\E i \in 1 .. Len(s) : j = s[i])
                <=> j = Self(p) \/ \E w \in Words : j = Item(p, w, d - 1)
  BY <1>6, <1>7, <1>9, <1>12
<1> QED
  BY <1>6, <1>7, <1>11, <1>13 DEF ItemsOf, HoldsBelow

LEMMA OneSelf ==
  ASSUME NEW p \in Blocks, NEW s, s = <<Item(p, NWords, 0)>>
  PROVE  ItemsOf(s, p) /\ HoldsSelf(s, p)
<1>1. /\ s \in Seq(Items) /\ Len(s) = 1 /\ s[1] = Self(p) /\ Self(p).b = p
      /\ \A i \in 1 .. Len(s) : i = 1
  BY SelfIs DEF Self
<1> QED
  BY <1>1 DEF TodoOK, ItemsOf, HoldsSelf

(* The cell h with its block p is the next that truncate() comes to.       *)
AtItem(L, f, s, n, h, p) ==
  /\ f \in Files /\ s \in Seq(Items) /\ n \in 1 .. Len(s) /\ TodoOK(s)
  /\ h = s[n] /\ h \in L[f] /\ h \in Items
  /\ p = Pointer(f, h) /\ p \in Blocks /\ p # None /\ p \in zmap \ lost /\ ~NewBlock(p)
  /\ Tree(f, L[f]) /\ \A m \in 1 .. Len(s) : s[m] \in L[f]
  /\ \A j : Roots(f, j) <=> \E m \in 1 .. Len(s) : j = s[m]
  /\ \A m \in 1 .. Len(s) : m < n => Pointer(f, s[m]) = None
  /\ \A g \in Files : \A j \in L[g] : Pointer(g, j) = p => g = f /\ j = h
  /\ \A g \in L[f] : g.depth > 0 /\ Pointer(f, g) # None =>
       \A m \in 1 .. Len(s) : s[m].b # Pointer(f, g)

LEMMA NextItem ==
  ASSUME BlocksTypeOK, Alone, NEW L, Sound(L), NEW t \in Tasks, loc[t].pc = "free",
         Pending(t) # {}, NEW f, f = loc[t].f, NEW s, s = loc[t].todo,
         NEW n, n = Min(Pending(t)), NEW h, h = s[n], NEW p, p = Pointer(f, h)
  PROVE  AtItem(L, f, s, n, h, p)
<1>1. f \in Files /\ Truncating(f) /\ \A j : Roots(f, j) <=> \E m \in 1 .. Len(s) : j = s[m]
  BY OneTruncates
<1>2. s \in Seq(Items) /\ TodoOK(s) /\ Tree(f, L[f])
  BY <1>1 DEF BlocksTypeOK, LocTyped, Sound, CallOK
<1>3. \A m \in 1 .. Len(s) : s[m] \in L[f]
  BY <1>1, <1>2 DEF Tree
<1>4. /\ n \in 1 .. Len(s) /\ p # None
      /\ \A m \in 1 .. Len(s) : m < n => Pointer(f, s[m]) = None
  <2>1. Pending(t) \in SUBSET Nat
    BY DEF Pending
  <2>2. Min(Pending(t)) \in Pending(t) /\ \A y \in Pending(t) : Min(Pending(t)) <= y
    BY <2>1, MinSmallest
  <2>3. n \in 1 .. Len(s) /\ p # None /\ \A m \in 1 .. Len(s) : Pointer(f, s[m]) # None => n <= m
    BY <2>2 DEF Pending
  <2> QED
    BY <2>3
<1>5. h \in L[f] /\ h \in Items /\ p \in Blocks
  BY <1>2, <1>3, <1>4 DEF Tree
<1>6. p \in zmap \ lost /\ ~NewBlock(p)
  BY <1>1, <1>4, <1>5 DEF Sound, MapOK
<1>7. \A g \in Files : \A j \in L[g] : Pointer(g, j) = p => g = f /\ j = h
  BY <1>1, <1>4, <1>5 DEF Sound, Apart
<1>8. ASSUME NEW g \in L[f], g.depth > 0, Pointer(f, g) # None, NEW m \in 1 .. Len(s),
             s[m].b = Pointer(f, g)
      PROVE  FALSE
  <2>1. Pointer(f, g) \in Blocks
    BY <1>2, <1>8 DEF Tree
  <2>2. PICK e \in 1 .. Len(s) : s[e] = Self(s[m].b)
    BY <1>2, <1>8 DEF TodoOK, None
  <2>3. s[e] \in L[f] /\ Pointer(f, s[e]) = Pointer(f, g) /\ s[e].depth = 0
    BY <1>3, <1>8, <2>1, <2>2, SelfIs
  <2>4. s[e] = g
    BY <1>1, <1>8, <2>3 DEF Sound, Apart
  <2> QED
    BY <1>8, <2>3, <2>4
<1> QED
  BY <1>1, <1>2, <1>3, <1>4, <1>5, <1>6, <1>7, <1>8 DEF AtItem

Done(s, n) == {s[m] : m \in 1 .. n}

(* A cell below another one is none of the items. *)
LEMMA KidNotDone ==
  ASSUME NEW L, NEW f, NEW s, NEW n, NEW h, NEW p, AtItem(L, f, s, n, h, p),
         NEW g \in L[f], g.depth > 0, Pointer(f, g) # None, NEW j, j.b = Pointer(f, g)
  PROVE  j \notin Done(s, n) /\ ~Roots(f, j)
<1>1. n \in 1 .. Len(s) /\ Len(s) \in Int
  BY DEF AtItem
<1>2. \A m \in 1 .. n : m \in 1 .. Len(s)
  BY <1>1
<1>3. \A m \in 1 .. Len(s) : s[m] # j
  BY DEF AtItem
<1> QED
  BY <1>2, <1>3 DEF Done, AtItem

(* An item that is done has no cell below it, but h may. *)
LEMMA DoneIs ==
  ASSUME NEW L, NEW f, NEW s, NEW n, NEW h, NEW p, AtItem(L, f, s, n, h, p)
  PROVE  /\ h \in Done(s, n)
         /\ \A g \in Done(s, n) : g = h \/ Pointer(f, g) = None
         /\ \A m \in 1 .. Len(s) : m > n => s[m] \notin Done(s, n)
         /\ \A m \in 1 .. Len(s) : s[m] \in Done(s, n) \/ m > n
<1>1. n \in 1 .. Len(s) /\ Len(s) \in Int /\ n \in Int
  BY DEF AtItem
<1>2. \A m \in 1 .. n : m \in 1 .. Len(s) /\ (m = n \/ m < n)
  BY <1>1
<1>3. \A m \in 1 .. Len(s) : m \in 1 .. n \/ m > n
  BY <1>1
<1>4. n \in 1 .. n
  BY <1>1
<1>5. \A m, e \in 1 .. Len(s) : s[m] = s[e] => m = e
  BY DEF AtItem, TodoOK
<1>6. ASSUME NEW m \in 1 .. Len(s), m > n PROVE s[m] \notin Done(s, n)
  <2>1. \A e \in 1 .. n : e # m
    BY <1>1, <1>6
  <2> QED
    BY <1>2, <1>5, <2>1 DEF Done
<1>7. \A g \in Done(s, n) : g = h \/ Pointer(f, g) = None
  BY <1>2 DEF Done, AtItem
<1> QED
  BY <1>3, <1>4, <1>6, <1>7 DEF Done, AtItem

(* Nothing changes in the other files. *)
OthersKept(L, f) ==
  \A g \in Files : g # f =>
    /\ zone'[g] = zone[g] /\ written'[g] = written[g]
    /\ \A j \in L[g] : /\ Pointer(g, j)' = Pointer(g, j)
                       /\ Pointer(g, j) # None => mem'[Pointer(g, j)][0] = mem[Pointer(g, j)][0]

(* The calls and the files but f go on as before. *)
OthersSound(L, t, f) ==
  /\ \A u \in Tasks : u # t => CallOK(u)' /\ loc'[u] = loc[u]
  /\ \A g \in Files : g # f =>
       /\ Tree(g, L[g])'
       /\ ~Truncating(g)' =>
            Contents(g)' /\ \A j \in L[g] : Pointer(g, j)' # None => OnRoute(g, j)'

(* A step of truncate() is of no concern to the other files. *)
LEMMA OtherFiles ==
  ASSUME BlocksTypeOK, Alone, NEW L, Sound(L), NEW t \in Tasks, loc[t].pc = "free",
         NEW f, f = loc[t].f, NEW l, Goto(t, l),
         l = Resting \/ (l.pc = "free" /\ l.op = "truncate" /\ l.f = f),
         OthersKept(L, f)
  PROVE  Alone' /\ OthersSound(L, t, f)
<1>0. \A g \in Files : g # f =>
        /\ zone'[g] = zone[g] /\ written'[g] = written[g]
        /\ \A j \in L[g] : /\ Pointer(g, j)' = Pointer(g, j)
                           /\ Pointer(g, j) # None => mem'[Pointer(g, j)][0] = mem[Pointer(g, j)][0]
  BY DEF OthersKept
<1>1. /\ f \in Files /\ Truncating(f) /\ \A u \in Tasks : loc[u].pc # "idle" /\ loc[u].f = f => u = t
      /\ loc[t].op = "truncate"
  BY OneTruncates
<1>2. DOMAIN loc = Tasks /\ loc'[t] = l /\ \A u \in Tasks : u # t => loc'[u] = loc[u]
  BY DEF BlocksTypeOK, Goto
<1>3. Alone'
  BY <1>1, AloneKept, RestingTyped DEF Goto
<1>4. ASSUME NEW u \in Tasks, u # t PROVE CallOK(u)'
  <2>1. PICK g : g = loc[u].f
    OBVIOUS
  <2>2. loc[u].pc # "idle" => g # f /\ g \in Files
    BY <1>1, <1>4, <2>1, OpIs
  <2>3. PICK S : S = L[g]
    OBVIOUS
  <2>4. loc[u].pc \in {"map", "new", "data"} =>
          /\ Tree(loc[u].f, S)
          /\ \A e : e = loc[u].f => \A j \in S : Pointer(e, j) # None => Pointer(e, j)' = Pointer(e, j)
    BY <1>0, <2>1, <2>2, <2>3 DEF Sound
  <2>5. loc[u].pc = "new" => \A e : e = loc[u].f => Fetch(e, loc[u].cell)' = None
    <3>1. ASSUME loc[u].pc = "new", NEW e, e = loc[u].f PROVE Fetch(e, loc[u].cell)' = None
      <4>1. \A j \in L[e] : Pointer(e, j)' = Pointer(e, j)
        BY <1>0, <2>1, <2>2, <3>1
      <4>2. loc'[u] = loc[u]
        BY <1>2, <1>4
      <4> QED
        BY <3>1, <4>1, <4>2, NewStill
    <3> QED
      BY <3>1
  <2>6. loc[u].pc = "free" => zone'[loc[u].f] = zone[loc[u].f]
    BY <1>0, <2>1, <2>2
  <2>7. CallOK(u) /\ loc'[u] = loc[u]
    BY <1>2, <1>4 DEF Sound
  <2> QED
    BY <2>4, <2>5, <2>6, <2>7, CallKept
<1>5. ASSUME NEW g \in Files, g # f
      PROVE  /\ Tree(g, L[g])'
             /\ ~Truncating(g)' =>
                  Contents(g)' /\ \A j \in L[g] : Pointer(g, j)' # None => OnRoute(g, j)'
  <2>1. ~(l.op = "truncate" /\ l.f = g)
    BY <1>5, RestingTyped
  <2>2. (Truncating(g)' <=> Truncating(g)) /\ \A j : Roots(g, j)' <=> Roots(g, j)
    BY <1>1, <1>2, <1>5, <2>1, RootsKept DEF Goto
  <2>3. \A j \in L[g] : Pointer(g, j)' = Pointer(g, j)
    BY <1>0, <1>5
  <2>4. /\ Tree(g, L[g])'
        /\ ~Truncating(g) =>
             /\ \A i \in Indexes : \A n, j : Reaches(g, i, n, j)' <=> Reaches(g, i, n, j)
             /\ \A j : OnRoute(g, j)' <=> OnRoute(g, j)
    BY <2>2, <2>3, FileKept DEF Sound
  <2>5. ASSUME ~Truncating(g)
        PROVE  Contents(g)' /\ \A j \in L[g] : Pointer(g, j)' # None => OnRoute(g, j)'
    <3>1. /\ Contents(g) /\ Tree(g, L[g])
          /\ \A j \in L[g] : Pointer(g, j) # None => OnRoute(g, j)
      BY <2>5 DEF Sound
    <3>2. written'[g] = written[g]
      BY <1>0, <1>5
    <3>3. \A j \in L[g] : j.depth = 0 /\ Pointer(g, j) # None =>
            mem'[Pointer(g, j)][0] = mem[Pointer(g, j)][0]
      BY <1>0, <1>5
    <3>4. \A k \in Indexes : \A j : Reaches(g, k, Len(Path(k)), j)' <=> Reaches(g, k, Len(Path(k)), j)
      BY <2>4, <2>5 DEF Path
    <3>5. Contents(g)'
      BY <2>3, <2>5, <3>1, <3>2, <3>3, <3>4, ContentsSame
    <3> QED
      BY <2>3, <2>4, <2>5, <3>1, <3>5
  <2> QED
    BY <2>2, <2>4, <2>5
<1> QED
  BY <1>2, <1>3, <1>4, <1>5 DEF OthersSound

(* The list q holds the roots of file f, which is being taken apart. *)
RootsAre(f, q) == Truncating(f) /\ \A j : Roots(f, j) <=> \E m \in 1 .. Len(q) : j = q[m]

LEMMA RootsNext ==
  ASSUME BlocksTypeOK, Alone, NEW t \in Tasks, loc[t].pc = "free", NEW f, f = loc[t].f,
         NEW l, Goto(t, l), l.op = "truncate", l.f = f, NEW q, q = l.todo
  PROVE  RootsAre(f, q)'
<1>1. DOMAIN loc = Tasks /\ loc'[t] = l /\ \A u \in Tasks : u # t => loc'[u] = loc[u]
  BY DEF BlocksTypeOK, Goto
<1>2. \A u \in Tasks : loc'[u].op = "truncate" /\ loc'[u].f = f => u = t
  <2>1. ASSUME NEW u \in Tasks, loc'[u].op = "truncate", loc'[u].f = f, u # t PROVE FALSE
    <3>1. loc[u].op = "truncate" /\ loc[u].f = f
      BY <1>1, <2>1
    <3> QED
      BY <2>1, <3>1, OneTruncates, OpIs
  <2> QED
    BY <2>1
<1>3. Truncating(f)'
  BY <1>1 DEF Truncating
<1> QED
  BY <1>1, <1>2, <1>3 DEF Roots, RootsAre

LEMMA FreedCells ==
  ASSUME BlocksTypeOK, NEW L, Sound(L), NEW f, NEW s, NEW n, NEW h, NEW p,
         AtItem(L, f, s, n, h, p), h.depth = 0, NEW g \in Files, NEW j \in L[g], j.b = p
  PROVE  g = f /\ j \in Done(s, n)
<1>1. PICK i \in L[g] : /\ Pointer(g, i) = j.b
                        /\ Parent(g, i, j) \/ (Truncating(g) /\ i = Self(j.b))
  BY Held DEF Sound, AtItem, None
<1>2. g = f /\ i = h
  BY <1>1 DEF AtItem
<1>3. j \in Items /\ ~Parent(f, h, j)
  BY ItemIs DEF Sound, Tree, Parent
<1>4. h = Self(p)
  BY <1>1, <1>2, <1>3
<1>5. Roots(f, j)
  <2>1. ASSUME NEW e \in L[f], Parent(f, e, j) PROVE FALSE
    <3>1. e = h
      BY <2>1 DEF Parent, AtItem
    <3> QED
      BY <1>3, <2>1, <3>1
  <2> QED
    BY <1>2, <2>1 DEF Sound, Tree
<1>6. PICK m \in 1 .. Len(s) : j = s[m]
  BY <1>5 DEF AtItem
<1>7. ~(m > n)
  <2>1. s[n] = Self(s[n].b) /\ s[n].b = p /\ p # 0 /\ n \in 1 .. Len(s)
    BY <1>4, ItemFields DEF AtItem, None, Self
  <2>2. ASSUME n < m PROVE FALSE
    BY <1>6, <2>1, <2>2 DEF AtItem, TodoOK
  <2>3. m \in Int /\ n \in Int
    BY <2>1
  <2> QED
    BY <2>2, <2>3
<1> QED
  BY <1>2, <1>6, <1>7, DoneIs

LEMMA FreedPointers ==
  ASSUME BlocksTypeOK, NEW L, Sound(L), NEW f, NEW s, NEW n, NEW h, NEW p,
         AtItem(L, f, s, n, h, p), h.depth = 0, free_block(p),
         zone' = (IF h.b = 0 THEN [zone EXCEPT ![f][h.i] = None] ELSE zone),
         NEW g \in Files, NEW j \in L[g], ~(g = f /\ j \in Done(s, n))
  PROVE  Pointer(g, j)' = Pointer(g, j)
<1>1. j.b # p
  BY FreedCells
<1>2. CellOK(j)
  BY DEF Sound, Tree
<1>3. mem' = [mem EXCEPT ![p] = Garbage] /\ zone \in [Files -> [Zones -> Nat]]
      /\ mem \in [Blocks -> [Words -> Nat]]
  BY DEF free_block, BlocksTypeOK
<1>4. j.b # 0 => mem'[j.b] = mem[j.b]
  BY <1>1, <1>2, <1>3 DEF CellOK
<1>5. j.b = 0 => zone'[g][j.i] = zone[g][j.i]
  <2>1. CASE h.b = 0 /\ g = f /\ j.i = h.i /\ j.b = 0
    <3>1. Pointer(f, j) = Pointer(f, h)
      BY <2>1 DEF Pointer, Fetch
    <3>2. j = h
      BY <2>1, <3>1 DEF AtItem
    <3> QED
      BY <2>1, <3>2, DoneIs
  <2>2. CASE ~(h.b = 0 /\ g = f /\ j.i = h.i)
    BY <1>3, <2>2
  <2> QED
    BY <2>1, <2>2
<1> QED
  BY <1>4, <1>5, PointerKept

(* The cells that are left when an item without blocks below it is done. *)
Left(L, M, f, s, n) == \A g \in Files : M[g] = IF g = f THEN L[f] \ Done(s, n) ELSE L[g]

LEMMA FreedTree ==
  ASSUME NEW L, NEW f, NEW s, NEW n, NEW h, NEW p, AtItem(L, f, s, n, h, p), h.depth = 0,
         NEW S, S = L[f] \ Done(s, n), \A j \in S : Pointer(f, j)' = Pointer(f, j),
         \A j : Roots(f, j)' <=> \E m \in 1 .. Len(s) : m > n /\ j = s[m]
  PROVE  Tree(f, S)'
<1>0. /\ \A g \in Done(s, n) : g = h \/ Pointer(f, g) = None
      /\ \A m \in 1 .. Len(s) : m > n => s[m] \notin Done(s, n)
      /\ \A m \in 1 .. Len(s) : s[m] \in Done(s, n) \/ m > n
  BY DoneIs
<1>1. Tree(f, L[f]) /\ S \subseteq Items
  BY DEF AtItem, Tree
<1>2. \A j \in S : CellOK(j)' /\ Pointer(f, j)' \in Blocks \cup {None}
  BY <1>1 DEF Tree, CellOK
<1>3. \A j : Roots(f, j)' => j \in S
  BY <1>0 DEF AtItem
<1>4. ASSUME NEW g \in S, g.depth > 0, Pointer(f, g)' # None, NEW w \in Words
      PROVE  Item(Pointer(f, g)', w, g.depth - 1) \in S
  <2>1. g \in L[f] /\ Pointer(f, g)' = Pointer(f, g) /\ Pointer(f, g) # None
    BY <1>4
  <2>2. Item(Pointer(f, g), w, g.depth - 1) \in L[f]
    BY <1>1, <1>4, <2>1 DEF Tree
  <2>3. Item(Pointer(f, g), w, g.depth - 1) \notin Done(s, n)
    BY <1>4, <2>1, KidNotDone, ItemFields
  <2> QED
    BY <2>1, <2>2, <2>3
<1>5. ASSUME NEW j \in S PROVE Roots(f, j)' \/ \E g \in S : Parent(f, g, j)'
  <2>1. CASE Roots(f, j)
    BY <1>0, <1>5, <2>1 DEF AtItem
  <2>2. CASE \E g \in L[f] : Parent(f, g, j)
    <3>1. PICK g \in L[f] : Parent(f, g, j)
      BY <2>2
    <3>2. g # h
      <4>1. j \in Items
        BY <1>1
      <4> QED
        BY <3>1, <4>1, ItemIs DEF Parent
    <3>3. g \notin Done(s, n)
      BY <3>1, <3>2, DoneIs DEF Parent
    <3>4. Parent(f, g, j)'
      BY <3>1, <3>3 DEF Parent
    <3> QED
      BY <3>3, <3>4
  <2> QED
    BY <1>1, <2>1, <2>2 DEF Tree
<1> QED
  BY <1>1, <1>2, <1>3, <1>4, <1>5 DEF Tree, Item

LEMMA FreedMap ==
  ASSUME BlocksTypeOK, NEW L, Sound(L), NEW f, NEW s, NEW n, NEW h, NEW p,
         AtItem(L, f, s, n, h, p), NEW M, Left(L, M, f, s, n),
         \A g \in Files : \A j \in M[g] : Pointer(g, j)' = Pointer(g, j),
         zmap' = zmap \ {p}, lost' = lost,
         \A u \in Tasks : loc'[u].pc = "new" <=> loc[u].pc = "new",
         \A u \in Tasks : loc[u].pc = "new" => loc'[u] = loc[u]
  PROVE  Apart(M)' /\ MapOK(M)'
<1>1. Apart(L) /\ MapOK(L) /\ \A g \in Files : M[g] \subseteq L[g]
  BY DEF Sound, Left
<1>2. Apart(M)'
  BY <1>1 DEF Apart
<1>3. \A c : NewBlock(c)' <=> NewBlock(c)
  BY DEF NewBlock
<1>4. h \notin M[f] /\ h \in L[f] /\ f \in Files /\ p \notin lost /\ ~NewBlock(p) /\ Pointer(f, h) = p
  <2>1. h \in Done(s, n)
    BY DoneIs
  <2> QED
    BY <2>1 DEF Left, AtItem
<1>5. ASSUME NEW g \in Files, NEW j \in M[g], Pointer(g, j)' # None
      PROVE  Pointer(g, j)' \in zmap' \ lost' /\ ~NewBlock(Pointer(g, j))'
  <2>1. Pointer(g, j) \in zmap \ lost /\ ~NewBlock(Pointer(g, j))
    BY <1>1, <1>5 DEF MapOK
  <2>2. Pointer(g, j) # p
    BY <1>1, <1>4, <1>5 DEF AtItem
  <2>3. ~NewBlock(Pointer(g, j))'
    BY <1>3, <1>5, <2>1
  <2> QED
    BY <1>5, <2>1, <2>2, <2>3
<1>6. ASSUME NEW c \in zmap', c \notin lost', ~NewBlock(c)'
      PROVE  \E g \in Files : \E j \in M[g] : Pointer(g, j)' = c
  <2>1. c \in zmap /\ c # p /\ c \notin lost /\ ~NewBlock(c) /\ c # None
    BY <1>3, <1>6, Numbers DEF BlocksTypeOK
  <2>2. PICK g \in Files : \E j \in L[g] : Pointer(g, j) = c
    BY <1>1, <2>1 DEF MapOK
  <2>3. PICK j \in L[g] : Pointer(g, j) = c
    BY <2>2
  <2>4. j \in M[g]
    BY <1>4, <2>1, <2>3, DoneIs DEF Left
  <2> QED
    BY <2>3, <2>4
<1>7. \A u \in Tasks : loc'[u].pc = "new" =>
        /\ loc'[u].blk \in zmap' \ lost'
        /\ \A v \in Tasks : loc'[v].pc = "new" /\ loc'[v].blk = loc'[u].blk => v = u
  <2>1. \A u \in Tasks : loc[u].pc = "new" => loc[u].blk # p
    BY <1>4 DEF NewBlock
  <2> QED
    BY <1>1, <2>1 DEF MapOK
<1>8. MapOK(M)'
  BY <1>5, <1>6, <1>7 DEF MapOK
<1> QED
  BY <1>2, <1>8

(* The direct pointers that are gone from the list are empty. *)
DirectLeft(f, s, n, h) ==
  \A z \in Zones : z < NDirect =>
    \/ zone[f][z] = None
    \/ h.depth = 0 /\ h.b = 0 /\ h.i = z
    \/ \E m \in 1 .. Len(s) : m > n /\ RootItem(z) = s[m]

LEMMA DirectDone ==
  ASSUME BlocksTypeOK, Alone, NEW L, Sound(L), NEW t \in Tasks, loc[t].pc = "free",
         NEW f, f = loc[t].f, NEW s, s = loc[t].todo, NEW n, NEW h, NEW p,
         AtItem(L, f, s, n, h, p)
  PROVE  DirectLeft(f, s, n, h)
<1> SUFFICES ASSUME NEW z \in Zones, z < NDirect, \A m \in 1 .. Len(s) : m > n => s[m] # RootItem(z)
             PROVE  zone[f][z] = None \/ (h.depth = 0 /\ h.b = 0 /\ h.i = z)
  BY DEF DirectLeft
<1>1. zone[f][z] = None \/ \E m \in 1 .. Len(s) : s[m] = RootItem(z)
  BY DEF Sound, CallOK
<1>2. RootItem(z).b = 0 /\ RootItem(z).i = z /\ RootItem(z).depth = 0
  BY ItemFields DEF RootItem
<1>3. Pointer(f, RootItem(z)) = zone[f][z]
  BY <1>2 DEF Pointer, Fetch
<1>4. ASSUME NEW m \in 1 .. Len(s), s[m] = RootItem(z) PROVE h = RootItem(z) \/ zone[f][z] = None
  <2>1. s[m] \in Done(s, n)
    BY <1>4, DoneIs
  <2>2. s[m] = h \/ Pointer(f, s[m]) = None
    BY <2>1, DoneIs
  <2> QED
    BY <1>3, <1>4, <2>2
<1> QED
  BY <1>1, <1>2, <1>4

(* The task goes on with the list q. *)
GoesOn(t, q) == q \in Seq(Items) /\ TodoOK(q) /\ Goto(t, [loc[t] EXCEPT !.todo = q])

LEMMA GoesOnTo ==
  ASSUME BlocksTypeOK, Alone, NEW t \in Tasks, loc[t].pc = "free", NEW f, f = loc[t].f,
         NEW q, GoesOn(t, q)
  PROVE  /\ \E l : /\ LocTyped(l) /\ l.pc = "free" /\ l.op = "truncate" /\ l.f = f /\ l.todo = q
                  /\ Goto(t, l) /\ loc'[t] = l /\ loc' = [loc EXCEPT ![t] = l]
         /\ \A u \in Tasks : u # t => loc'[u] = loc[u]
         /\ RootsAre(f, q)'
<1>0. PICK o : o = loc[t]
  OBVIOUS
<1>1. PICK l : l = [o EXCEPT !.todo = q]
  OBVIOUS
<1>2. /\ LocTyped(o) /\ DOMAIN loc = Tasks /\ o.pc = "free" /\ o.op = "truncate" /\ o.f = f /\ f \in Files
      /\ DOMAIN o = {"pc", "op", "f", "k", "path", "cell", "blk", "todo"}
  BY <1>0, OpIs DEF BlocksTypeOK, LocTyped
<1>3. loc' = [loc EXCEPT ![t] = l] /\ loc'[t] = l /\ \A u \in Tasks : u # t => loc'[u] = loc[u]
  BY <1>0, <1>1, <1>2 DEF Goto, GoesOn
<1>4. /\ l.pc = "free" /\ l.op = "truncate" /\ l.f = f /\ l.todo = q
      /\ l.path = o.path /\ l.cell = o.cell
      /\ DOMAIN l = {"pc", "op", "f", "k", "path", "cell", "blk", "todo"}
  BY <1>1, <1>2
<1>5. LocTyped(l)
  BY <1>2, <1>4 DEF LocTyped, GoesOn
<1>6. Goto(t, l)
  BY <1>3 DEF Goto
<1>7. RootsAre(f, q)'
  BY <1>4, <1>6, RootsNext
<1> QED
  BY <1>3, <1>4, <1>5, <1>6, <1>7

SameElse(L, M, f) == \A g \in Files : g # f => M[g] = L[g]

LEMMA TodoKeeps ==
  ASSUME BlocksTypeOK, Alone, NEW L, Sound(L), NEW t \in Tasks, loc[t].pc = "free",
         NEW f, f = loc[t].f, NEW q, GoesOn(t, q), UNCHANGED <<size, written>>,
         zmap' \in SUBSET Blocks, lost' \in SUBSET zmap',
         zone' \in [Files -> [Zones -> Nat]], mem' \in [Blocks -> [Words -> Nat]],
         OthersKept(L, f), NEW M, SameElse(L, M, f),
         Tree(f, M[f])', Apart(M)', MapOK(M)', DirectHeld(f, q)'
  PROVE  BlocksTypeOK' /\ Alone' /\ Sound(M)'
<1>1. PICK l : /\ LocTyped(l) /\ l.pc = "free" /\ l.op = "truncate" /\ l.f = f /\ l.todo = q
               /\ Goto(t, l) /\ loc'[t] = l /\ loc' = [loc EXCEPT ![t] = l]
  BY GoesOnTo
<1>2. Truncating(f)'
  <2>1. RootsAre(f, q)'
    BY GoesOnTo
  <2> QED
    BY <2>1 DEF RootsAre
<1>3. Alone' /\ OthersSound(L, t, f)
  <2>1. l = Resting \/ (l.pc = "free" /\ l.op = "truncate" /\ l.f = f)
    BY <1>1
  <2>2. Goto(t, l)
    BY <1>1
  <2> QED
    BY <2>1, <2>2, OtherFiles
<1>4. CallOK(t)'
  BY <1>1, CallFrees DEF GoesOn
<1>5. BlocksTypeOK'
  <2>1. DOMAIN loc' = Tasks /\ \A u \in Tasks : LocTyped(loc'[u])
    BY <1>1, LocKept
  <2> QED
    BY <2>1 DEF BlocksTypeOK
<1>6. ASSUME NEW g \in Files PROVE Tree(g, M[g])'
  <2>1. CASE g = f
    BY <2>1
  <2>2. CASE g # f
    <3>1. M[g] = L[g]
      BY <2>2 DEF SameElse
    <3> QED
      BY <1>3, <2>2, <3>1 DEF OthersSound
  <2> QED
    BY <2>1, <2>2
<1>7. ASSUME NEW g \in Files, ~Truncating(g)'
      PROVE  Contents(g)' /\ \A j \in M[g] : Pointer(g, j)' # None => OnRoute(g, j)'
  <2>1. g # f /\ M[g] = L[g]
    BY <1>2, <1>7 DEF SameElse
  <2> QED
    BY <1>3, <1>7, <2>1 DEF OthersSound
<1>8. \A u \in Tasks : CallOK(u)'
  BY <1>3, <1>4 DEF OthersSound
<1>9. Sound(M)'
  BY <1>6, <1>7, <1>8, SoundIs
<1> QED
  BY <1>3, <1>5, <1>9

(* truncate() frees a block that is found through h, or the block h is in. *)
Frees(t, f, s, n, h, p) ==
  /\ h.depth = 0 /\ free_block(p)
  /\ zone' = IF h.b = 0 THEN [zone EXCEPT ![f][h.i] = None] ELSE zone
  /\ Goto(t, [loc[t] EXCEPT !.todo = SubSeq(s, n + 1, Len(s))])
  /\ UNCHANGED <<size, written, lost>>

LEMMA FreeKeeps ==
  ASSUME BlocksTypeOK, Alone, NEW L, Sound(L), NEW t \in Tasks, loc[t].pc = "free",
         NEW f, f = loc[t].f, NEW s, s = loc[t].todo, NEW n, NEW h, NEW p,
         AtItem(L, f, s, n, h, p), Frees(t, f, s, n, h, p)
  PROVE  BlocksTypeOK' /\ Alone' /\ \E M : Sound(M)'
<1>1. PICK q : q = SubSeq(s, n + 1, Len(s))
  OBVIOUS
<1>2. f \in Files /\ s \in Seq(Items) /\ n \in 1 .. Len(s) /\ TodoOK(s) /\ p \in Blocks /\ p \in zmap \ lost
  BY DEF AtItem
<1>3. q \in Seq(Items) /\ TodoOK(q)
  BY <1>1, <1>2, RestIs, TodoRest
<1>4. GoesOn(t, q)
  BY <1>1, <1>3 DEF GoesOn, Frees
<1>5. RestOf(s, n, q)
  BY <1>1, <1>2, RestHas
<1>6. \A g \in Files : \A j \in L[g] : ~(g = f /\ j \in Done(s, n)) => Pointer(g, j)' = Pointer(g, j)
  BY FreedPointers DEF Frees
<1>7. PICK M : M = [g \in Files |-> IF g = f THEN L[f] \ Done(s, n) ELSE L[g]]
  OBVIOUS
<1>8. Left(L, M, f, s, n)
  BY <1>7 DEF Left
<1>9. \A g \in Files : \A j \in M[g] : Pointer(g, j)' = Pointer(g, j)
  BY <1>6, <1>8 DEF Left
<1>10. RootsAre(f, q)' /\ \A u \in Tasks : u # t => loc'[u] = loc[u]
  BY <1>4, GoesOnTo
<1>11. Tree(f, M[f])'
  <2>1. PICK S : S = L[f] \ Done(s, n)
    OBVIOUS
  <2>2. M[f] = S
    BY <1>2, <1>8, <2>1 DEF Left
  <2>3. \A j \in S : Pointer(f, j)' = Pointer(f, j)
    BY <1>2, <1>9, <2>2
  <2>4. \A j : Roots(f, j)' <=> \E m \in 1 .. Len(s) : m > n /\ j = s[m]
    <3> SUFFICES ASSUME NEW j PROVE Roots(f, j)' <=> \E m \in 1 .. Len(s) : m > n /\ j = s[m]
      OBVIOUS
    <3>1. Roots(f, j)' <=> \E m \in 1 .. Len(q) : j = q[m]
      BY <1>10 DEF RootsAre
    <3>2. (\E m \in 1 .. Len(q) : j = q[m]) <=> \E m \in 1 .. Len(s) : m > n /\ j = s[m]
      BY <1>5 DEF RestOf
    <3> QED
      BY <3>1, <3>2
  <2>5. Tree(f, S)'
    BY <2>1, <2>3, <2>4, FreedTree DEF Frees
  <2> QED
    BY <2>2, <2>5
<1>12. Apart(M)' /\ MapOK(M)'
  <2>1. zmap' = zmap \ {p}
    BY DEF free_block, Frees
  <2>2. loc'[t].pc = "free"
    BY <1>4, GoesOnTo
  <2>3. \A u \in Tasks : loc'[u].pc = "new" <=> loc[u].pc = "new"
    BY <1>10, <2>2
  <2>4. \A u \in Tasks : loc[u].pc = "new" => loc'[u] = loc[u]
    BY <1>10
  <2> QED
    BY <1>8, <1>9, <2>1, <2>3, <2>4, FreedMap DEF Frees
<1>13. OthersKept(L, f)
  <2> SUFFICES ASSUME NEW g \in Files, g # f
               PROVE  /\ zone'[g] = zone[g] /\ written'[g] = written[g]
                      /\ \A j \in L[g] :
                           /\ Pointer(g, j)' = Pointer(g, j)
                           /\ Pointer(g, j) # None => mem'[Pointer(g, j)][0] = mem[Pointer(g, j)][0]
    BY DEF OthersKept
  <2>1. zone'[g] = zone[g] /\ written'[g] = written[g]
    BY <1>2 DEF BlocksTypeOK, Frees
  <2>2. ASSUME NEW j \in L[g], Pointer(g, j) # None PROVE mem'[Pointer(g, j)] = mem[Pointer(g, j)]
    <3>1. Pointer(g, j) # p /\ Pointer(g, j) \in Blocks
      BY <2>2 DEF AtItem, Sound, Tree
    <3> QED
      BY <3>1 DEF free_block, BlocksTypeOK, Frees
  <2> QED
    BY <1>6, <2>1, <2>2
<1>14. DirectHeld(f, q)'
  <2> SUFFICES ASSUME NEW z \in Zones, z < NDirect
               PROVE  zone'[f][z] = None \/ \E m \in 1 .. Len(q) : q[m] = RootItem(z)
    BY DEF DirectHeld, RootItem, Item
  <2>1. DirectLeft(f, s, n, h)
    BY DirectDone
  <2>2. \/ zone[f][z] = None \/ (h.b = 0 /\ h.i = z)
        \/ \E m \in 1 .. Len(s) : m > n /\ RootItem(z) = s[m]
    BY <2>1 DEF DirectLeft
  <2>3. zone \in [Files -> [Zones -> Nat]]
    BY DEF BlocksTypeOK
  <2>4. zone[f][z] = None \/ (h.b = 0 /\ h.i = z) => zone'[f][z] = None
    BY <1>2, <2>3 DEF Frees
  <2> QED
    BY <1>5, <2>2, <2>4 DEF RestOf
<1>15. /\ zone' \in [Files -> [Zones -> Nat]] /\ mem' \in [Blocks -> [Words -> Nat]]
       /\ zmap' \in SUBSET Blocks /\ lost' \in SUBSET zmap'
  <2>1. zone' \in [Files -> [Zones -> Nat]]
    BY <1>2 DEF BlocksTypeOK, None, Frees
  <2>2. mem' \in [Blocks -> [Words -> Nat]]
    BY DEF BlocksTypeOK, free_block, Garbage, Frees
  <2>3. zmap' \in SUBSET Blocks /\ lost' \in SUBSET zmap'
    BY <1>2 DEF BlocksTypeOK, free_block, Frees
  <2> QED
    BY <2>1, <2>2, <2>3
<1>16. UNCHANGED <<size, written>> /\ SameElse(L, M, f)
  BY <1>7 DEF Frees, SameElse
<1> QED
  BY <1>4, <1>11, <1>12, <1>13, <1>14, <1>15, <1>16, TodoKeeps

(* An indirect block p is read, or cannot be read: the block alone takes   *)
(* the place of the cell h that led to it, and the cells D are lost.       *)
Split(L, M, f, s, n, p, D) ==
  \A g \in Files : M[g] = IF g = f THEN (L[f] \ (Done(s, n) \cup D)) \cup {Self(p)} ELSE L[g]

PointersOf(f, D) == {Pointer(f, j) : j \in D} \ {None}

LEMMA SplitCells ==
  ASSUME NEW L, NEW f, NEW s, NEW n, NEW h, NEW p, AtItem(L, f, s, n, h, p), NEW D, NEW M,
         Split(L, M, f, s, n, p, D), NEW g \in Files, NEW j \in M[g], zone' = zone, mem' = mem
  PROVE  /\ Pointer(g, j)' = Pointer(g, j)
         /\ \/ g = f /\ j = Self(p) /\ Pointer(g, j) = p
            \/ j \in L[g] /\ Pointer(g, j) # p /\ (g = f => j \notin Done(s, n) /\ j \notin D)
<1>1. Pointer(g, j)' = Pointer(g, j)
  BY ReachesQuiet
<1>2. p \in Blocks /\ h \in Done(s, n)
  <2>1. h \in Done(s, n)
    BY DoneIs
  <2> QED
    BY <2>1 DEF AtItem
<1>3. CASE g = f /\ j = Self(p)
  BY <1>1, <1>2, <1>3, SelfIs
<1>4. CASE j \in L[g] /\ (g = f => j \notin Done(s, n) /\ j \notin D)
  BY <1>1, <1>2, <1>4 DEF AtItem
<1> QED
  BY <1>3, <1>4 DEF Split

LEMMA SplitApart ==
  ASSUME NEW L, Apart(L), NEW f, NEW s, NEW n, NEW h, NEW p, AtItem(L, f, s, n, h, p), NEW D,
         NEW M, Split(L, M, f, s, n, p, D), zone' = zone, mem' = mem
  PROVE  Apart(M)'
<1> SUFFICES ASSUME NEW f1 \in Files, NEW g1 \in Files, NEW i \in M[f1], NEW j \in M[g1],
                    Pointer(f1, i)' = Pointer(g1, j)', Pointer(f1, i)' # None
             PROVE  f1 = g1 /\ i = j
  BY DEF Apart
<1>1. /\ Pointer(f1, i)' = Pointer(f1, i)
      /\ \/ f1 = f /\ i = Self(p) /\ Pointer(f1, i) = p
         \/ i \in L[f1] /\ Pointer(f1, i) # p
  BY SplitCells
<1>2. /\ Pointer(g1, j)' = Pointer(g1, j)
      /\ \/ g1 = f /\ j = Self(p) /\ Pointer(g1, j) = p
         \/ j \in L[g1] /\ Pointer(g1, j) # p
  BY SplitCells
<1> QED
  BY <1>1, <1>2 DEF Apart

LEMMA SplitMap ==
  ASSUME BlocksTypeOK, NEW L, Sound(L), NEW f, NEW s, NEW n, NEW h, NEW p,
         AtItem(L, f, s, n, h, p), NEW D, D \subseteq L[f], h \notin D,
         NEW M, Split(L, M, f, s, n, p, D), zone' = zone, mem' = mem, zmap' = zmap,
         lost' = lost \cup PointersOf(f, D),
         \A u \in Tasks : loc'[u].pc = "new" <=> loc[u].pc = "new",
         \A u \in Tasks : loc[u].pc = "new" => loc'[u] = loc[u]
  PROVE  MapOK(M)' /\ lost' \subseteq zmap
<1>1. Apart(L) /\ MapOK(L) /\ f \in Files /\ h \in L[f] /\ Pointer(f, h) = p /\ p \in zmap \ lost
      /\ ~NewBlock(p)
  BY DEF Sound, AtItem
<1>2. \A c : NewBlock(c)' <=> NewBlock(c)
  BY DEF NewBlock
<1>3. \A c \in PointersOf(f, D) : c \in zmap \ lost /\ ~NewBlock(c) /\ c # p
  <2> SUFFICES ASSUME NEW j \in D, Pointer(f, j) # None
               PROVE  Pointer(f, j) \in zmap \ lost /\ ~NewBlock(Pointer(f, j)) /\ Pointer(f, j) # p
    BY DEF PointersOf
  <2>1. j \in L[f] /\ j # h
    OBVIOUS
  <2> QED
    BY <1>1, <2>1 DEF MapOK, AtItem
<1>4. ASSUME NEW g \in Files, NEW j \in M[g], Pointer(g, j)' # None
      PROVE  Pointer(g, j)' \in zmap' \ lost' /\ ~NewBlock(Pointer(g, j))'
  <2>1. /\ Pointer(g, j)' = Pointer(g, j)
        /\ \/ g = f /\ j = Self(p) /\ Pointer(g, j) = p
           \/ j \in L[g] /\ Pointer(g, j) # p /\ (g = f => j \notin Done(s, n) /\ j \notin D)
    BY <1>4, SplitCells
  <2>2. CASE Pointer(g, j) = p
    <3>1. ~NewBlock(Pointer(g, j))'
      BY <1>1, <1>2, <2>1, <2>2
    <3> QED
      BY <1>1, <1>3, <2>1, <2>2, <3>1
  <2>3. CASE j \in L[g] /\ (g = f => j \notin D)
    <3>1. Pointer(g, j) \in zmap \ lost /\ ~NewBlock(Pointer(g, j))
      BY <1>1, <1>4, <2>1, <2>3 DEF MapOK
    <3>2. Pointer(g, j) \notin PointersOf(f, D)
      <4> SUFFICES ASSUME NEW i \in D, Pointer(f, i) = Pointer(g, j) PROVE FALSE
        BY DEF PointersOf
      <4>1. i \in L[f] /\ Pointer(f, i) # None
        BY <1>4, <2>1
      <4>2. g = f /\ i = j
        BY <1>1, <2>3, <4>1 DEF Apart
      <4> QED
        BY <2>3, <4>2
    <3>3. ~NewBlock(Pointer(g, j))'
      BY <1>2, <2>1, <3>1
    <3> QED
      BY <2>1, <3>1, <3>2, <3>3
  <2> QED
    BY <2>1, <2>2, <2>3
<1>5. ASSUME NEW c \in zmap', c \notin lost', ~NewBlock(c)'
      PROVE  \E g \in Files : \E j \in M[g] : Pointer(g, j)' = c
  <2>1. c \in zmap /\ c \notin lost /\ ~NewBlock(c) /\ c # None /\ c \notin PointersOf(f, D)
    BY <1>2, <1>5, Numbers DEF BlocksTypeOK
  <2>2. PICK g \in Files : \E j \in L[g] : Pointer(g, j) = c
    BY <1>1, <2>1 DEF MapOK
  <2>3. PICK j \in L[g] : Pointer(g, j) = c
    BY <2>2
  <2>4. CASE c = p
    <3>1. Self(p) \in M[f]
      BY <1>1 DEF Split
    <3>2. Pointer(f, Self(p)) = p
      BY SelfIs DEF AtItem
    <3>3. Pointer(f, Self(p))' = p
      BY <1>1, <3>1, <3>2, SplitCells
    <3> QED
      BY <1>1, <2>4, <3>1, <3>3
  <2>5. CASE c # p
    <3>1. j \in M[g]
      <4>1. g = f => j \notin D
        BY <2>1, <2>3 DEF PointersOf
      <4>2. g = f => j \notin Done(s, n)
        BY <1>1, <2>1, <2>3, <2>5, DoneIs
      <4> QED
        BY <4>1, <4>2 DEF Split
    <3>2. Pointer(g, j)' = c
      BY <2>3, <3>1, SplitCells
    <3> QED
      BY <3>1, <3>2
  <2> QED
    BY <2>4, <2>5
<1>6. ASSUME NEW u \in Tasks, loc'[u].pc = "new"
      PROVE  /\ loc'[u].blk \in zmap' \ lost'
             /\ \A v \in Tasks : loc'[v].pc = "new" /\ loc'[v].blk = loc'[u].blk => v = u
  <2>1. NewBlock(loc[u].blk)
    BY <1>6 DEF NewBlock
  <2>2. loc[u].blk \notin PointersOf(f, D)
    BY <1>3, <2>1
  <2> QED
    BY <1>1, <1>6, <2>2 DEF MapOK
<1>7. MapOK(M)'
  BY <1>4, <1>5, <1>6 DEF MapOK
<1>8. lost' \subseteq zmap
  BY <1>3 DEF BlocksTypeOK
<1> QED
  BY <1>7, <1>8

(* The call goes on with a, the items of block p, before the rest.         *)
Goes(t, s, n, a, q) ==
  /\ a \in Seq(Items) /\ q = a \o SubSeq(s, n + 1, Len(s)) /\ GoesOn(t, q)

RootsSplit(f, s, n, a) ==
  /\ Truncating(f)
  /\ \A j : Roots(f, j) <=> \/ \E m \in 1 .. Len(a) : j = a[m]
                            \/ \E m \in 1 .. Len(s) : m > n /\ j = s[m]

LEMMA SplitRoots ==
  ASSUME BlocksTypeOK, Alone, NEW t \in Tasks, loc[t].pc = "free", NEW f, f = loc[t].f,
         NEW s \in Seq(Items), NEW n \in 1 .. Len(s), NEW a, NEW q, Goes(t, s, n, a, q)
  PROVE  RootsSplit(f, s, n, a)'
<1>1. PICK r : r = SubSeq(s, n + 1, Len(s))
  OBVIOUS
<1>2. r \in Seq(Items) /\ a \in Seq(Items) /\ q = a \o r /\ GoesOn(t, q)
  BY <1>1, RestIs DEF Goes
<1>3. RestOf(s, n, r)
  BY <1>1, RestHas
<1>4. RootsAre(f, q)'
  BY <1>2, GoesOnTo
<1>5. /\ \A i \in 1 .. Len(a) : i \in 1 .. Len(q) /\ q[i] = a[i]
      /\ \A i \in 1 .. Len(r) : Len(a) + i \in 1 .. Len(q) /\ q[Len(a) + i] = r[i]
      /\ \A i \in 1 .. Len(q) : \/ i \in 1 .. Len(a) /\ q[i] = a[i]
                                \/ i > Len(a) /\ i - Len(a) \in 1 .. Len(r) /\ q[i] = r[i - Len(a)]
  BY <1>2, CatIs
<1>6. ASSUME NEW j
      PROVE  Roots(f, j)' <=> \/ \E m \in 1 .. Len(a) : j = a[m]
                              \/ \E m \in 1 .. Len(s) : m > n /\ j = s[m]
  <2>1. Roots(f, j)' <=> \E m \in 1 .. Len(q) : j = q[m]
    BY <1>4 DEF RootsAre
  <2>2. (\E m \in 1 .. Len(q) : j = q[m])
          <=> (\E m \in 1 .. Len(a) : j = a[m]) \/ (\E m \in 1 .. Len(r) : j = r[m])
    BY <1>5
  <2>3. (\E m \in 1 .. Len(r) : j = r[m]) <=> \E m \in 1 .. Len(s) : m > n /\ j = s[m]
    BY <1>3 DEF RestOf
  <2> QED
    BY <2>1, <2>2, <2>3
<1> QED
  BY <1>4, <1>6 DEF RootsAre, RootsSplit

(* The list is well formed again. *)
LEMMA SplitTodo ==
  ASSUME NEW L, NEW f, NEW s, NEW n, NEW h, NEW p, AtItem(L, f, s, n, h, p), h.depth > 0,
         NEW a, ItemsOf(a, p), NEW q, q = a \o SubSeq(s, n + 1, Len(s))
  PROVE  q \in Seq(Items) /\ TodoOK(q)
<1>0. a \in Seq(Items) /\ TodoOK(a) /\ \A i \in 1 .. Len(a) : a[i].b = p
  BY DEF ItemsOf
<1>1. PICK r : r = SubSeq(s, n + 1, Len(s))
  OBVIOUS
<1>2. s \in Seq(Items) /\ n \in 1 .. Len(s) /\ TodoOK(s) /\ \A m \in 1 .. Len(s) : s[m].b # p
  BY DEF AtItem
<1>3. /\ r \in Seq(Items)
      /\ \A i \in 1 .. Len(r) : n + i \in 1 .. Len(s) /\ n + i > n /\ r[i] = s[n + i]
  BY <1>1, <1>2, RestIs
<1>4. TodoOK(r)
  BY <1>1, <1>2, TodoRest
<1>5. \A i \in 1 .. Len(r) : r[i].b # p
  BY <1>2, <1>3
<1>6. q = a \o r
  BY <1>1
<1>7. q \in Seq(Items)
  BY <1>0, <1>3, <1>6, CatIs
<1>8. TodoOK(q)
  BY <1>0, <1>3, <1>4, <1>5, <1>6, TodoCat
<1> QED
  BY <1>7, <1>8

(* What is known when the tree of f is right again. *)
LEMMA SplitKeeps ==
  ASSUME BlocksTypeOK, Alone, NEW L, Sound(L), NEW t \in Tasks, loc[t].pc = "free",
         NEW f, f = loc[t].f, NEW s, s = loc[t].todo, NEW n, NEW h, NEW p,
         AtItem(L, f, s, n, h, p), h.depth > 0,
         NEW a, NEW q, Goes(t, s, n, a, q),
         NEW D, D \subseteq L[f], h \notin D, NEW M, Split(L, M, f, s, n, p, D),
         UNCHANGED <<zmap, zone, mem, size, written>>, lost' = lost \cup PointersOf(f, D),
         Tree(f, M[f])'
  PROVE  BlocksTypeOK' /\ Alone' /\ \E K : Sound(K)'
<1>1. GoesOn(t, q) /\ a \in Seq(Items) /\ q = a \o SubSeq(s, n + 1, Len(s))
  BY DEF Goes
<1>2. loc'[t].pc = "free" /\ \A u \in Tasks : u # t => loc'[u] = loc[u]
  BY <1>1, GoesOnTo
<1>3. /\ \A u \in Tasks : loc'[u].pc = "new" <=> loc[u].pc = "new"
      /\ \A u \in Tasks : loc[u].pc = "new" => loc'[u] = loc[u]
  BY <1>2
<1>4. MapOK(M)' /\ lost' \subseteq zmap
  BY <1>3, SplitMap
<1>5. Apart(M)'
  BY SplitApart DEF Sound
<1>6. OthersKept(L, f)
  BY ReachesQuiet DEF OthersKept
<1>7. SameElse(L, M, f)
  BY DEF SameElse, Split
<1>8. DirectHeld(f, q)'
  <2>1. DirectLeft(f, s, n, h)
    BY DirectDone
  <2>2. s \in Seq(Items) /\ n \in 1 .. Len(s)
    BY DEF AtItem
  <2>3. \A j : Roots(f, j)' <=> \/ \E m \in 1 .. Len(a) : j = a[m]
                                \/ \E m \in 1 .. Len(s) : m > n /\ j = s[m]
    <3>1. RootsSplit(f, s, n, a)'
      BY <2>2, SplitRoots
    <3> QED
      BY <3>1 DEF RootsSplit
  <2>4. RootsAre(f, q)'
    BY <1>1, GoesOnTo
  <2> SUFFICES ASSUME NEW z \in Zones, z < NDirect
               PROVE  zone'[f][z] = None \/ \E m \in 1 .. Len(q) : q[m] = RootItem(z)
    BY DEF DirectHeld, RootItem, Item
  <2>5. zone[f][z] = None \/ \E m \in 1 .. Len(s) : m > n /\ RootItem(z) = s[m]
    BY <2>1 DEF DirectLeft
  <2>6. (\E m \in 1 .. Len(s) : m > n /\ RootItem(z) = s[m]) => Roots(f, RootItem(z))'
    BY <2>3
  <2>7. Roots(f, RootItem(z))' => \E m \in 1 .. Len(q) : RootItem(z) = q[m]
    BY <2>4 DEF RootsAre
  <2> QED
    BY <2>5, <2>6, <2>7
<1>9. /\ zone' \in [Files -> [Zones -> Nat]] /\ mem' \in [Blocks -> [Words -> Nat]]
      /\ zmap' \in SUBSET Blocks /\ lost' \in SUBSET zmap'
  BY <1>4 DEF BlocksTypeOK
<1> QED
  BY <1>1, <1>4, <1>5, <1>6, <1>7, <1>8, <1>9, TodoKeeps

(* free_ind() and free_dind() read the block: its words are items now. *)
LEMMA BelowTree ==
  ASSUME NEW L, NEW f, NEW s, NEW n, NEW h, NEW p, AtItem(L, f, s, n, h, p), h.depth > 0,
         zone' = zone, mem' = mem, NEW a, RootsSplit(f, s, n, a)',
         HoldsBelow(a, p, h.depth), NEW S, S = (L[f] \ Done(s, n)) \cup {Self(p)}
  PROVE  Tree(f, S)'
<1>0. /\ h \in Done(s, n) /\ \A g \in Done(s, n) : g = h \/ Pointer(f, g) = None
      /\ \A m \in 1 .. Len(s) : m > n => s[m] \notin Done(s, n)
      /\ \A m \in 1 .. Len(s) : s[m] \in Done(s, n) \/ m > n
  BY DoneIs
<1>1. /\ Tree(f, L[f]) /\ h \in L[f] /\ h \in Items /\ p = Pointer(f, h) /\ p \in Blocks /\ p # None
      /\ \A m \in 1 .. Len(s) : s[m] \in L[f]
      /\ \A j : Roots(f, j) <=> \E m \in 1 .. Len(s) : j = s[m]
  BY DEF AtItem
<1>2. Self(p) \in Items /\ Self(p).b = p /\ Self(p).depth = 0 /\ Pointer(f, Self(p)) = p
  BY <1>1, SelfIs
<1>3. \A j : Pointer(f, j)' = Pointer(f, j)
  BY ReachesQuiet
<1>4. \A j : Roots(f, j)' <=> \/ j = Self(p) \/ \E w \in Words : j = Item(p, w, h.depth - 1)
                              \/ \E m \in 1 .. Len(s) : m > n /\ j = s[m]
  <2> SUFFICES ASSUME NEW j
               PROVE  Roots(f, j)' <=> \/ j = Self(p) \/ \E w \in Words : j = Item(p, w, h.depth - 1)
                                       \/ \E m \in 1 .. Len(s) : m > n /\ j = s[m]
    OBVIOUS
  <2>1. (\E i \in 1 .. Len(a) : j = a[i])
          <=> j = Self(p) \/ \E w \in Words : j = Item(p, w, h.depth - 1)
    BY DEF HoldsBelow
  <2>2. Roots(f, j)' <=> \/ \E m \in 1 .. Len(a) : j = a[m]
                         \/ \E m \in 1 .. Len(s) : m > n /\ j = s[m]
    BY DEF RootsSplit
  <2> QED
    BY <2>1, <2>2
<1>5. S \subseteq Items
  BY <1>1, <1>2 DEF Tree
<1>6. \A j \in S : CellOK(j)' /\ Pointer(f, j)' \in Blocks \cup {None}
  <2>1. CellOK(Self(p))
    BY <1>1, <1>2 DEF CellOK
  <2>2. \A j \in S : CellOK(j) /\ Pointer(f, j) \in Blocks \cup {None}
    BY <1>1, <1>2, <2>1 DEF Tree
  <2> QED
    BY <1>3, <2>2 DEF CellOK, Self, Item
<1>7. ASSUME NEW g \in L[f], g.depth > 0, Pointer(f, g) # None, NEW w \in Words
      PROVE  Item(Pointer(f, g), w, g.depth - 1) \in S
  <2>1. Item(Pointer(f, g), w, g.depth - 1) \in L[f]
    BY <1>1, <1>7 DEF Tree
  <2>2. Item(Pointer(f, g), w, g.depth - 1).b = Pointer(f, g)
    BY ItemFields
  <2>3. Item(Pointer(f, g), w, g.depth - 1) \notin Done(s, n)
    BY <1>7, <2>2, KidNotDone
  <2> QED
    BY <2>1, <2>3
<1>8. ASSUME NEW j, Roots(f, j)' PROVE j \in S
  <2>1. \A w \in Words : Item(p, w, h.depth - 1) \in S
    BY <1>1, <1>7
  <2>2. \A m \in 1 .. Len(s) : m > n => s[m] \in S
    BY <1>0, <1>1
  <2> QED
    BY <1>4, <1>8, <2>1, <2>2
<1>9. ASSUME NEW g \in S, g.depth > 0, Pointer(f, g)' # None, NEW w \in Words
      PROVE  Item(Pointer(f, g)', w, g.depth - 1) \in S
  BY <1>2, <1>3, <1>7, <1>9
<1>10. ASSUME NEW j \in S PROVE Roots(f, j)' \/ \E g \in S : Parent(f, g, j)'
  <2>1. CASE j = Self(p)
    BY <1>4, <2>1
  <2>2. CASE j \in L[f] /\ j \notin Done(s, n) /\ Roots(f, j)
    BY <1>0, <1>1, <1>4, <2>2
  <2>3. CASE j \in L[f] /\ j \notin Done(s, n) /\ \E g \in L[f] : Parent(f, g, j)
    <3>1. PICK g \in L[f] : Parent(f, g, j)
      BY <2>3
    <3>2. CASE g = h
      <4>1. j \in Items /\ h.depth = j.depth + 1 /\ j.b = p /\ j.i \in Words
        BY <1>1, <2>3, <3>1, <3>2 DEF Tree, Parent
      <4>2. h.depth - 1 = j.depth
        BY <4>1, ItemIs
      <4>3. j = Item(p, j.i, h.depth - 1)
        BY <4>1, <4>2, ItemIs
      <4> QED
        BY <1>4, <4>1, <4>3
    <3>3. CASE g # h
      <4>1. g \notin Done(s, n)
        BY <1>0, <3>1, <3>3 DEF Parent
      <4>2. Parent(f, g, j)'
        BY <1>3, <3>1 DEF Parent
      <4> QED
        BY <4>1, <4>2
    <3> QED
      BY <3>2, <3>3
  <2> QED
    BY <1>1, <1>10, <2>1, <2>2, <2>3 DEF Tree
<1> QED
  BY <1>5, <1>6, <1>8, <1>9, <1>10 DEF Tree, Item

LEMMA BelowKeeps ==
  ASSUME BlocksTypeOK, Alone, NEW L, Sound(L), NEW t \in Tasks, loc[t].pc = "free",
         NEW f, f = loc[t].f, NEW s, s = loc[t].todo, NEW n, NEW h, NEW p,
         AtItem(L, f, s, n, h, p), h.depth > 0,
         Goto(t, [loc[t] EXCEPT !.todo = Below(p, h.depth) \o SubSeq(s, n + 1, Len(s))]),
         UNCHANGED <<zmap, zone, mem, size, written, lost>>
  PROVE  BlocksTypeOK' /\ Alone' /\ \E M : Sound(M)'
<1>1. PICK a : a = Below(p, h.depth)
  OBVIOUS
<1>2. PICK q : q = a \o SubSeq(s, n + 1, Len(s))
  OBVIOUS
<1>3. p \in Blocks /\ h.depth \in {1, 2} /\ s \in Seq(Items) /\ n \in 1 .. Len(s)
  <2>1. h \in Items /\ p \in Blocks /\ s \in Seq(Items) /\ n \in 1 .. Len(s)
    BY DEF AtItem
  <2> QED
    BY <2>1 DEF Items
<1>4. ItemsOf(a, p) /\ HoldsBelow(a, p, h.depth)
  BY <1>1, <1>3, BelowIs
<1>5. q \in Seq(Items) /\ TodoOK(q)
  BY <1>2, <1>4, SplitTodo
<1>6. Goes(t, s, n, a, q)
  BY <1>1, <1>2, <1>4, <1>5 DEF Goes, GoesOn, ItemsOf
<1>7. RootsSplit(f, s, n, a)'
  BY <1>3, <1>6, SplitRoots
<1>8. PICK D : D = {}
  OBVIOUS
<1>9. PICK M : M = [g \in Files |-> IF g = f THEN (L[f] \ (Done(s, n) \cup D)) \cup {Self(p)} ELSE L[g]]
  OBVIOUS
<1>10. Split(L, M, f, s, n, p, D)
  BY <1>9 DEF Split
<1>11. Tree(f, M[f])'
  <2>1. PICK S : S = (L[f] \ Done(s, n)) \cup {Self(p)}
    OBVIOUS
  <2>2. M[f] = S
    BY <1>8, <1>10, <2>1 DEF Split, AtItem
  <2>3. Tree(f, S)'
    BY <1>4, <1>7, <2>1, BelowTree
  <2> QED
    BY <2>2, <2>3
<1>12. D \subseteq L[f] /\ h \notin D /\ lost' = lost \cup PointersOf(f, D)
  BY <1>8 DEF PointersOf
<1> QED
  BY <1>4, <1>6, <1>10, <1>11, <1>12, SplitKeeps

(* The cells below block p, which cannot be read. *)
Severed(L, f, p) == {j \in L[f] : j.b = p \/ \E g \in L[f] : g.b = p /\ Parent(f, g, j)}

LEMMA WordPointer ==
  ASSUME NEW f, NEW j, j.b # 0, j.i \in Words
  PROVE  Pointer(f, j) = mem[j.b][j.i]
  BY Numbers DEF Pointer, Fetch

LEMMA SeveredKids ==
  ASSUME BlocksTypeOK, NEW L, Sound(L), NEW f, NEW s, NEW n, NEW h, NEW p,
         AtItem(L, f, s, n, h, p), h.depth > 0, NEW j \in L[f], j.b = p
  PROVE  Parent(f, h, j)
<1>1. Tree(f, L[f]) /\ \A u \in Tasks : CallOK(u)
  BY DEF AtItem, Sound
<1>2. f \in Files /\ p # 0 /\ p \in Blocks /\ \A g \in L[f] : Pointer(f, g) = p => g = h
  BY DEF AtItem, None
<1>3. PICK g \in L[f] : /\ Pointer(f, g) = j.b
                        /\ Parent(f, g, j) \/ (Truncating(f) /\ g = Self(j.b))
  BY <1>1, <1>2, Held
<1>4. g = h
  BY <1>2, <1>3
<1>5. h # Self(p)
  BY <1>2, SelfIs
<1> QED
  BY <1>3, <1>4, <1>5

LEMMA SeveredIs ==
  ASSUME BlocksTypeOK, NEW L, Sound(L), NEW f, NEW s, NEW n, NEW h, NEW p,
         AtItem(L, f, s, n, h, p), h.depth > 0
  PROVE  /\ h \notin Severed(L, f, p)
         /\ \A j \in Severed(L, f, p) : j \notin Done(s, n) /\ ~Roots(f, j)
<1>1. h \in L[f] /\ h.depth \in Int /\ Pointer(f, h) = p /\ p # None /\ L[f] \subseteq Items
  BY ItemIs DEF AtItem, Tree
<1>2. \A j \in L[f] : j.depth \in Int
  BY <1>1, ItemIs
<1>3. h \notin Severed(L, f, p)
  <2>1. h.b # p
    BY <1>1, SeveredKids DEF Parent
  <2>2. ASSUME NEW g \in L[f], g.b = p, Parent(f, g, h) PROVE FALSE
    <3>1. h.depth = g.depth + 1 /\ g.depth = h.depth + 1
      BY <2>2, SeveredKids DEF Parent
    <3> QED
      BY <1>1, <3>1
  <2> QED
    BY <2>1, <2>2 DEF Severed
<1>4. ASSUME NEW j \in Severed(L, f, p) PROVE j \notin Done(s, n) /\ ~Roots(f, j)
  <2>1. CASE j.b = p
    BY <1>1, <2>1, KidNotDone
  <2>2. CASE \E g \in L[f] : g.b = p /\ Parent(f, g, j)
    <3>1. PICK g \in L[f] : g.b = p /\ Parent(f, g, j)
      BY <2>2
    <3>2. j \in L[f] /\ j.depth \in {0, 1, 2}
      BY <1>1, ItemIs DEF Severed
    <3>3. g.depth > 0 /\ Pointer(f, g) # None /\ j.b = Pointer(f, g)
      BY <3>1, <3>2 DEF Parent
    <3> QED
      BY <3>3, KidNotDone
  <2> QED
    BY <2>1, <2>2 DEF Severed
<1> QED
  BY <1>3, <1>4

(* These are the blocks that truncate() could not find. *)
LEMMA SeveredPointers ==
  ASSUME BlocksTypeOK, NEW L, Sound(L), NEW f, NEW s, NEW n, NEW h, NEW p,
         AtItem(L, f, s, n, h, p), h.depth > 0
  PROVE  PointersOf(f, Severed(L, f, p)) = Under(p, h.depth)
<1> DEFINE next == {mem[p][w] : w \in Words} \ {None}
           reach == UNION {{mem[c][w] : w \in Words} : c \in next}
           far == reach \ {None}
<1>a. \A x \in reach : \E c \in next : \E w \in Words : x = mem[c][w]
  <2> HIDE DEF next
  <2> QED
    OBVIOUS
<1>b. \A c \in next : \A w \in Words : mem[c][w] \in reach
  <2> HIDE DEF next
  <2> QED
    OBVIOUS
<1>c. Under(p, h.depth) = IF h.depth = 1 THEN next ELSE next \cup far
  BY DEF Under
<1> HIDE DEF reach
<1>1. /\ h \in L[f] /\ Pointer(f, h) = p /\ p # None /\ p # 0 /\ L[f] \subseteq Items
      /\ h.depth \in {1, 2} /\ Tree(f, L[f])
  <2>1. h \in Items /\ L[f] \subseteq Items
    BY DEF AtItem, Tree
  <2>2. h.depth \in {1, 2}
    BY <2>1 DEF Items
  <2> QED
    BY <2>1, <2>2 DEF AtItem, None
<1>2. \A w \in Words : Item(p, w, h.depth - 1) \in L[f] /\ Pointer(f, Item(p, w, h.depth - 1)) = mem[p][w]
  <2> SUFFICES ASSUME NEW w \in Words
               PROVE  Item(p, w, h.depth - 1) \in L[f] /\ Pointer(f, Item(p, w, h.depth - 1)) = mem[p][w]
    OBVIOUS
  <2>1. Item(p, w, h.depth - 1) \in L[f]
    BY <1>1 DEF Tree
  <2> QED
    BY <1>1, <2>1, ItemFields, WordPointer
<1>3. ASSUME NEW x \in next PROVE x \in PointersOf(f, Severed(L, f, p))
  <2>1. PICK w \in Words : x = mem[p][w]
    OBVIOUS
  <2>2. PICK j : j = Item(p, w, h.depth - 1)
    OBVIOUS
  <2>3. j \in L[f] /\ j.b = p /\ Pointer(f, j) = x
    BY <1>2, <2>1, <2>2, ItemFields
  <2> QED
    BY <2>3 DEF PointersOf, Severed
<1>4. ASSUME NEW x \in far, h.depth = 2 PROVE x \in PointersOf(f, Severed(L, f, p))
  <2>1. PICK c \in next : \E w \in Words : x = mem[c][w]
    BY <1>4, <1>a
  <2>2. PICK v \in Words : c = mem[p][v]
    OBVIOUS
  <2>3. PICK w \in Words : x = mem[c][w]
    BY <2>1
  <2>4. PICK g : g = Item(p, v, 1)
    OBVIOUS
  <2>5. PICK j : j = Item(c, w, 0)
    OBVIOUS
  <2>6. c # None /\ c # 0 /\ x # None
    <3>1. c # None
      OBVIOUS
    <3>2. x # None
      BY <1>4
    <3> QED
      BY <3>1, <3>2 DEF None
  <2>7. g \in L[f] /\ g.b = p /\ g.depth = 1 /\ Pointer(f, g) = c
    BY <1>2, <1>4, <2>2, <2>4, ItemFields
  <2>8. j \in L[f]
    <3>1. \A y \in Words : Item(Pointer(f, g), y, g.depth - 1) \in L[f]
      BY <1>1, <2>6, <2>7 DEF Tree
    <3> QED
      BY <2>5, <2>7, <3>1
  <2>9. j.b = c /\ j.i = w /\ j.depth = 0
    BY <2>5, ItemFields
  <2>10. Pointer(f, j) = x
    BY <2>3, <2>6, <2>9, WordPointer
  <2>11. Parent(f, g, j)
    BY <2>6, <2>7, <2>9 DEF Parent
  <2> QED
    BY <2>6, <2>7, <2>8, <2>10, <2>11 DEF PointersOf, Severed
<1>5. ASSUME NEW j \in Severed(L, f, p), Pointer(f, j) # None
      PROVE  Pointer(f, j) \in next \/ (h.depth = 2 /\ Pointer(f, j) \in far)
  <2>1. j \in L[f] /\ j.depth \in {0, 1, 2}
    BY <1>1, ItemIs DEF Severed
  <2>2. CASE j.b = p
    <3>1. j.i \in Words
      BY <2>1, <2>2, SeveredKids DEF Parent
    <3>2. Pointer(f, j) = mem[p][j.i]
      BY <1>1, <2>2, <3>1, WordPointer
    <3> QED
      BY <1>5, <3>1, <3>2
  <2>3. CASE \E g \in L[f] : g.b = p /\ Parent(f, g, j)
    <3>1. PICK g \in L[f] : g.b = p /\ Parent(f, g, j)
      BY <2>3
    <3>2. Parent(f, h, g)
      BY <3>1, SeveredKids
    <3>3. g.i \in Words /\ h.depth = g.depth + 1 /\ g.depth = j.depth + 1 /\ j.i \in Words
          /\ Pointer(f, g) = j.b /\ j.b # None /\ j.b # 0
      BY <3>1, <3>2 DEF Parent, None
    <3>4. Pointer(f, g) = mem[p][g.i]
      BY <1>1, <3>1, <3>3, WordPointer
    <3>5. Pointer(f, j) = mem[j.b][j.i]
      BY <3>3, WordPointer
    <3>6. j.b \in next
      BY <3>3, <3>4
    <3>7. Pointer(f, j) \in far
      <4>1. Pointer(f, j) \in reach
        BY <1>b, <3>3, <3>5, <3>6
      <4> QED
        BY <1>5, <4>1
    <3>8. h.depth = 2
      BY <1>1, <2>1, <3>3
    <3> QED
      BY <3>7, <3>8
  <2> QED
    BY <2>2, <2>3 DEF Severed
<1> HIDE DEF next, far
<1>7. \A x \in PointersOf(f, Severed(L, f, p)) : x \in next \/ (h.depth = 2 /\ x \in far)
  BY <1>5 DEF PointersOf
<1>8. (h.depth = 1 \/ h.depth = 2) /\ 1 # 2
  BY <1>1
<1> QED
  BY <1>3, <1>4, <1>c, <1>7, <1>8

(* free_ind() or free_dind() cannot read the block, and frees it alone. *)
LEMMA LostTree ==
  ASSUME BlocksTypeOK, NEW L, Sound(L), NEW f, NEW s, NEW n, NEW h, NEW p,
         AtItem(L, f, s, n, h, p), h.depth > 0,
         zone' = zone, mem' = mem, NEW a, RootsSplit(f, s, n, a)', HoldsSelf(a, p),
         NEW D, D = Severed(L, f, p), NEW S, S = (L[f] \ (Done(s, n) \cup D)) \cup {Self(p)}
  PROVE  Tree(f, S)'
<1>0. /\ h \in Done(s, n) /\ \A g \in Done(s, n) : g = h \/ Pointer(f, g) = None
      /\ \A m \in 1 .. Len(s) : m > n => s[m] \notin Done(s, n)
      /\ \A m \in 1 .. Len(s) : s[m] \in Done(s, n) \/ m > n
  BY DoneIs
<1>1. /\ Tree(f, L[f]) /\ h \in L[f] /\ h \in Items /\ p = Pointer(f, h) /\ p \in Blocks /\ p # None
      /\ \A m \in 1 .. Len(s) : s[m] \in L[f]
      /\ \A j : Roots(f, j) <=> \E m \in 1 .. Len(s) : j = s[m]
  BY DEF AtItem
<1>2. Self(p) \in Items /\ Self(p).b = p /\ Self(p).depth = 0 /\ Pointer(f, Self(p)) = p
  BY <1>1, SelfIs
<1>3. \A j : Pointer(f, j)' = Pointer(f, j)
  BY ReachesQuiet
<1>4. \A j : Roots(f, j)' <=> j = Self(p) \/ \E m \in 1 .. Len(s) : m > n /\ j = s[m]
  <2> SUFFICES ASSUME NEW j
               PROVE  Roots(f, j)' <=> j = Self(p) \/ \E m \in 1 .. Len(s) : m > n /\ j = s[m]
    OBVIOUS
  <2>1. (\E i \in 1 .. Len(a) : j = a[i]) <=> j = Self(p)
    BY DEF HoldsSelf
  <2>2. Roots(f, j)' <=> \/ \E m \in 1 .. Len(a) : j = a[m]
                         \/ \E m \in 1 .. Len(s) : m > n /\ j = s[m]
    BY DEF RootsSplit
  <2> QED
    BY <2>1, <2>2
<1>5. \A j \in D : j \notin Done(s, n) /\ ~Roots(f, j)
  BY SeveredIs
<1>6. S \subseteq Items /\ L[f] \subseteq Items
  BY <1>1, <1>2 DEF Tree
<1>7. \A j \in S : CellOK(j)' /\ Pointer(f, j)' \in Blocks \cup {None}
  <2>1. CellOK(Self(p))
    BY <1>1, <1>2 DEF CellOK
  <2>2. \A j \in S : CellOK(j) /\ Pointer(f, j) \in Blocks \cup {None}
    BY <1>1, <1>2, <2>1 DEF Tree
  <2> QED
    BY <1>3, <2>2 DEF CellOK, Self, Item
<1>8. ASSUME NEW j, Roots(f, j)' PROVE j \in S
  <2>1. ASSUME NEW m \in 1 .. Len(s), m > n PROVE s[m] \in S
    <3>1. Roots(f, s[m]) /\ s[m] \in L[f] /\ s[m] \notin Done(s, n)
      BY <1>0, <1>1, <2>1
    <3> QED
      BY <1>5, <3>1
  <2> QED
    BY <1>4, <1>8, <2>1
<1>9. ASSUME NEW g \in L[f], g \notin D, g \notin Done(s, n), NEW j \in D, Parent(f, g, j) PROVE FALSE
  <2>1. CASE j.b = p
    <3>1. g = h
      BY <1>1, <1>9, <2>1 DEF Parent, AtItem
    <3> QED
      BY <1>0, <1>9, <3>1
  <2>2. CASE \E e \in L[f] : e.b = p /\ Parent(f, e, j)
    <3>1. PICK e \in L[f] : e.b = p /\ Parent(f, e, j)
      BY <2>2
    <3>2. f \in Files /\ Apart(L) /\ Pointer(f, e) = Pointer(f, g) /\ Pointer(f, e) # None
      BY <1>9, <3>1 DEF Parent, AtItem, Sound
    <3>3. e = g
      BY <3>2 DEF Apart
    <3> QED
      BY <1>9, <3>1, <3>3 DEF Severed
  <2> QED
    BY <2>1, <2>2 DEF Severed
<1>10. ASSUME NEW g \in S, g.depth > 0, Pointer(f, g)' # None, NEW w \in Words
       PROVE  Item(Pointer(f, g)', w, g.depth - 1) \in S
  <2>1. g \in L[f] /\ g \notin D /\ g \notin Done(s, n) /\ Pointer(f, g) # None
    BY <1>2, <1>3, <1>10
  <2>2. PICK j : j = Item(Pointer(f, g), w, g.depth - 1)
    OBVIOUS
  <2>3. j \in L[f] /\ j.b = Pointer(f, g) /\ j.i = w /\ j.depth = g.depth - 1
    BY <1>1, <1>10, <2>1, <2>2, ItemFields DEF Tree
  <2>4. j \notin Done(s, n)
    BY <1>10, <2>1, <2>3, KidNotDone
  <2>5. g.depth = j.depth + 1
    BY <1>6, <2>1, <2>3, ItemIs
  <2>6. Parent(f, g, j)
    BY <2>1, <2>3, <2>5 DEF Parent
  <2>7. j \notin D
    BY <1>9, <2>1, <2>6
  <2> QED
    BY <1>3, <2>2, <2>3, <2>4, <2>7
<1>11. ASSUME NEW j \in S PROVE Roots(f, j)' \/ \E g \in S : Parent(f, g, j)'
  <2>1. CASE j = Self(p)
    BY <1>4, <2>1
  <2>2. CASE j \in L[f] /\ j \notin Done(s, n) /\ Roots(f, j)
    BY <1>0, <1>1, <1>4, <2>2
  <2>3. CASE j \in L[f] /\ j \notin D /\ \E g \in L[f] : Parent(f, g, j)
    <3>1. PICK g \in L[f] : Parent(f, g, j)
      BY <2>3
    <3>2. j.b # p
      BY <2>3 DEF Severed
    <3>3. g # h
      BY <1>1, <3>1, <3>2 DEF Parent
    <3>4. g \notin Done(s, n)
      BY <1>0, <3>1, <3>3 DEF Parent
    <3>5. g \notin D
      <4>1. CASE g.b = p
        BY <2>3, <3>1, <4>1 DEF Severed
      <4>2. CASE \E e \in L[f] : e.b = p /\ Parent(f, e, g)
        <5>1. PICK e \in L[f] : e.b = p /\ Parent(f, e, g)
          BY <4>2
        <5>2. Parent(f, h, e)
          BY <5>1, SeveredKids
        <5>3. h.depth = e.depth + 1 /\ e.depth = g.depth + 1 /\ g.depth = j.depth + 1
          BY <3>1, <5>1, <5>2 DEF Parent
        <5>4. j.depth \in {0, 1, 2} /\ h.depth \in {0, 1, 2}
          BY <1>1, <1>6, <2>3, ItemIs
        <5> QED
          BY <5>3, <5>4
      <4> QED
        BY <4>1, <4>2 DEF Severed
    <3>6. Parent(f, g, j)'
      BY <1>3, <3>1 DEF Parent
    <3> QED
      BY <3>4, <3>5, <3>6
  <2> QED
    BY <1>1, <1>11, <2>1, <2>2, <2>3 DEF Tree
<1> QED
  BY <1>6, <1>7, <1>8, <1>10, <1>11 DEF Tree, Item

LEMMA LostKeeps ==
  ASSUME BlocksTypeOK, Alone, NEW L, Sound(L), NEW t \in Tasks, loc[t].pc = "free",
         NEW f, f = loc[t].f, NEW s, s = loc[t].todo, NEW n, NEW h, NEW p,
         AtItem(L, f, s, n, h, p), h.depth > 0,
         Goto(t, [loc[t] EXCEPT !.todo = <<Item(p, NWords, 0)>> \o SubSeq(s, n + 1, Len(s))]),
         lost' = lost \cup Under(p, h.depth), UNCHANGED <<zmap, zone, mem, size, written>>
  PROVE  BlocksTypeOK' /\ Alone' /\ \E M : Sound(M)'
<1>1. PICK a : a = <<Item(p, NWords, 0)>>
  OBVIOUS
<1>2. PICK q : q = a \o SubSeq(s, n + 1, Len(s))
  OBVIOUS
<1>3. p \in Blocks /\ s \in Seq(Items) /\ n \in 1 .. Len(s)
  BY DEF AtItem
<1>4. ItemsOf(a, p) /\ HoldsSelf(a, p)
  BY <1>1, <1>3, OneSelf
<1>5. q \in Seq(Items) /\ TodoOK(q)
  BY <1>2, <1>4, SplitTodo
<1>6. Goes(t, s, n, a, q)
  BY <1>1, <1>2, <1>4, <1>5 DEF Goes, GoesOn, ItemsOf
<1>7. RootsSplit(f, s, n, a)'
  BY <1>3, <1>6, SplitRoots
<1>8. PICK D : D = Severed(L, f, p)
  OBVIOUS
<1>9. PICK M : M = [g \in Files |-> IF g = f THEN (L[f] \ (Done(s, n) \cup D)) \cup {Self(p)} ELSE L[g]]
  OBVIOUS
<1>10. Split(L, M, f, s, n, p, D)
  BY <1>9 DEF Split
<1>11. Tree(f, M[f])'
  <2>1. PICK S : S = (L[f] \ (Done(s, n) \cup D)) \cup {Self(p)}
    OBVIOUS
  <2>2. M[f] = S
    BY <1>10, <2>1 DEF Split, AtItem
  <2>3. Tree(f, S)'
    BY <1>4, <1>7, <1>8, <2>1, LostTree
  <2> QED
    BY <2>2, <2>3
<1>12. D \subseteq L[f] /\ h \notin D /\ lost' = lost \cup PointersOf(f, D)
  <2>1. D \subseteq L[f]
    BY <1>8 DEF Severed
  <2>2. h \notin D
    BY <1>8, SeveredIs
  <2>3. PointersOf(f, D) = Under(p, h.depth)
    BY <1>8, SeveredPointers
  <2> QED
    BY <2>1, <2>2, <2>3
<1> QED
  BY <1>4, <1>6, <1>10, <1>11, <1>12, SplitKeeps

LEMMA TruncateNextKeeps ==
  ASSUME BlocksTypeOK, Alone, NEW L, Sound(L), NEW t \in Tasks, TruncateNext(t)
  PROVE  BlocksTypeOK' /\ Alone' /\ \E M : Sound(M)'
<1>1. PICK f : f = loc[t].f
  OBVIOUS
<1>2. PICK s : s = loc[t].todo
  OBVIOUS
<1>3. PICK n : n = Min(Pending(t))
  OBVIOUS
<1>4. PICK h : h = s[n]
  OBVIOUS
<1>5. PICK p : p = Pointer(f, h)
  OBVIOUS
<1>6. loc[t].pc = "free" /\ Pending(t) # {} /\ UNCHANGED <<size, written>>
  BY DEF TruncateNext
<1>7. AtItem(L, f, s, n, h, p)
  BY <1>1, <1>2, <1>3, <1>4, <1>5, <1>6, NextItem
<1>8. \/ Frees(t, f, s, n, h, p)
      \/ /\ h.depth > 0
         /\ Goto(t, [loc[t] EXCEPT !.todo = Below(p, h.depth) \o SubSeq(s, n + 1, Len(s))])
         /\ UNCHANGED <<zmap, zone, mem, lost>>
      \/ /\ h.depth > 0
         /\ Goto(t, [loc[t] EXCEPT !.todo = <<Item(p, NWords, 0)>> \o SubSeq(s, n + 1, Len(s))])
         /\ lost' = lost \cup Under(p, h.depth)
         /\ UNCHANGED <<zmap, zone, mem>>
  BY <1>1, <1>2, <1>3, <1>4, <1>5 DEF TruncateNext, Frees
<1>9. CASE Frees(t, f, s, n, h, p)
  BY <1>1, <1>2, <1>6, <1>7, <1>9, FreeKeeps
<1>10. CASE /\ h.depth > 0
            /\ Goto(t, [loc[t] EXCEPT !.todo = Below(p, h.depth) \o SubSeq(s, n + 1, Len(s))])
            /\ UNCHANGED <<zmap, zone, mem, lost>>
  BY <1>1, <1>2, <1>6, <1>7, <1>10, BelowKeeps
<1>11. CASE /\ h.depth > 0
            /\ Goto(t, [loc[t] EXCEPT !.todo = <<Item(p, NWords, 0)>> \o SubSeq(s, n + 1, Len(s))])
            /\ lost' = lost \cup Under(p, h.depth)
            /\ UNCHANGED <<zmap, zone, mem>>
  BY <1>1, <1>2, <1>6, <1>7, <1>11, LostKeeps
<1> QED
  BY <1>8, <1>9, <1>10, <1>11

----------------------------------------------------------------------------
(* The end of truncate(): every item is empty, so the file has no block. *)

LEMMA NothingLeft ==
  ASSUME BlocksTypeOK, Alone, NEW L, Sound(L), NEW t \in Tasks, loc[t].pc = "free",
         Pending(t) = {}, NEW f, f = loc[t].f
  PROVE  /\ \A j \in L[f] : Pointer(f, j) = None
         /\ \A z \in Zones : z < NDirect => zone[f][z] = None
<1>1. PICK s : s = loc[t].todo
  OBVIOUS
<1>2. f \in Files /\ \A j : Roots(f, j) <=> \E m \in 1 .. Len(s) : j = s[m]
  <2>1. f \in Files /\ RootsAre(f, s)
    BY <1>1, OneTruncates DEF RootsAre
  <2> QED
    BY <2>1 DEF RootsAre
<1>3. \A m \in 1 .. Len(s) : Pointer(f, s[m]) = None
  BY <1>1 DEF Pending
<1>4. \A j : Roots(f, j) => Pointer(f, j) = None
  BY <1>2, <1>3
<1>5. Tree(f, L[f]) /\ L[f] \subseteq Items
  BY <1>2 DEF Sound, Tree
<1>6. ASSUME NEW j \in L[f], Pointer(f, j) # None
      PROVE  \E g \in L[f] : g.depth = j.depth + 1 /\ Pointer(f, g) # None
  <2>1. PICK g \in L[f] : Parent(f, g, j)
    BY <1>4, <1>5, <1>6 DEF Tree
  <2> QED
    BY <2>1 DEF Parent
<1>7. \A j \in L[f] : Pointer(f, j) = None
  <2> SUFFICES ASSUME NEW j \in L[f], Pointer(f, j) # None PROVE FALSE
    OBVIOUS
  <2>1. PICK g \in L[f] : g.depth = j.depth + 1 /\ Pointer(f, g) # None
    BY <1>6
  <2>2. PICK e \in L[f] : e.depth = g.depth + 1 /\ Pointer(f, e) # None
    BY <1>6, <2>1
  <2>3. PICK i \in L[f] : i.depth = e.depth + 1 /\ Pointer(f, i) # None
    BY <1>6, <2>2
  <2>4. j.depth \in {0, 1, 2} /\ i.depth \in {0, 1, 2}
    BY <1>5, ItemIs
  <2> QED
    BY <2>1, <2>2, <2>3, <2>4
<1>8. ASSUME NEW z \in Zones, z < NDirect PROVE zone[f][z] = None
  <2>1. zone[f][z] = None \/ \E m \in 1 .. Len(s) : s[m] = RootItem(z)
    BY <1>1, <1>8 DEF Sound, CallOK
  <2>2. RootItem(z).b = 0 /\ RootItem(z).i = z
    BY ItemFields DEF RootItem
  <2>3. Pointer(f, RootItem(z)) = zone[f][z]
    BY <2>2 DEF Pointer, Fetch
  <2> QED
    BY <1>3, <2>1, <2>3
<1> QED
  BY <1>7, <1>8

(* A file without a block. *)
LEMMA EmptyFile ==
  ASSUME NEW f, NEW S, S = {RootItem(z) : z \in Zones}, ~Truncating(f),
         \A z \in Zones : zone[f][z] = None, written[f] = {}
  PROVE  Tree(f, S) /\ Contents(f) /\ \A j \in S : Pointer(f, j) = None
<1>1. \A z \in Zones : /\ RootItem(z) \in Items /\ RootItem(z).b = 0 /\ RootItem(z).i = z
                       /\ Pointer(f, RootItem(z)) = None
  <2> SUFFICES ASSUME NEW z \in Zones
               PROVE  /\ RootItem(z) \in Items /\ RootItem(z).b = 0 /\ RootItem(z).i = z
                      /\ Pointer(f, RootItem(z)) = None
    OBVIOUS
  <2>1. RootItem(z).b = 0 /\ RootItem(z).i = z
    BY ItemFields DEF RootItem
  <2>2. Pointer(f, RootItem(z)) = zone[f][z]
    BY <2>1 DEF Pointer, Fetch
  <2>3. z \in 0 .. NDirect + 1 /\ NDirect \in Nat
    BY Numbers DEF Zones
  <2>4. z + 1 - NDirect \in {1, 2} \/ z < NDirect
    BY <2>3
  <2>5. RootItem(z) \in Items
    BY <2>3, <2>4, ItemTyped DEF RootItem
  <2> QED
    BY <2>1, <2>2, <2>5
<1>2. \A j \in S : CellOK(j) /\ Pointer(f, j) = None /\ j \in Items
  BY <1>1 DEF CellOK
<1>3. \A j : Roots(f, j) <=> j \in S
  BY DEF Roots, Truncating
<1>4. Tree(f, S)
  BY <1>2, <1>3 DEF Tree
<1>5. ASSUME NEW k \in Indexes, NEW j, Reaches(f, k, Len(Path(k)), j) PROVE Pointer(f, j) = None
  BY <1>2, <1>4, <1>5, ReachesIn
<1>6. Contents(f)
  BY <1>5 DEF Contents
<1> QED
  BY <1>2, <1>4, <1>6

EmptyFiles ==
  \A f, S :
    /\ S = {RootItem(z) : z \in Zones} /\ ~Truncating(f)
    /\ (\A z \in Zones : zone[f][z] = None) /\ written[f] = {}
    => Tree(f, S) /\ Contents(f) /\ \A j \in S : Pointer(f, j) = None

LEMMA EmptyFilesAre == EmptyFiles
  BY EmptyFile DEF EmptyFiles

LEMMA TruncateEndKeeps ==
  ASSUME BlocksTypeOK, Alone, NEW L, Sound(L), NEW t \in Tasks, TruncateEnd(t)
  PROVE  BlocksTypeOK' /\ Alone' /\ \E M : Sound(M)'
<1>1. PICK f : f = loc[t].f
  OBVIOUS
<1>2. /\ loc[t].pc = "free" /\ Pending(t) = {} /\ Goto(t, Resting) /\ UNCHANGED <<zmap, mem, lost>>
      /\ zone' = [zone EXCEPT ![f][NDirect] = None, ![f][NDirect + 1] = None]
      /\ size' = [size EXCEPT ![f] = 0] /\ written' = [written EXCEPT ![f] = {}]
  BY <1>1 DEF TruncateEnd, Return
<1>3. /\ f \in Files /\ loc[t].op = "truncate"
      /\ \A u \in Tasks : loc[u].pc # "idle" /\ loc[u].f = f => u = t
  BY <1>1, <1>2, OneTruncates
<1>4. /\ loc' = [loc EXCEPT ![t] = Resting] /\ DOMAIN loc = Tasks
      /\ loc'[t] = Resting /\ \A u \in Tasks : u # t => loc'[u] = loc[u]
  BY <1>2 DEF Goto, BlocksTypeOK
<1>5. /\ \A j \in L[f] : Pointer(f, j) = None
      /\ \A z \in Zones : z < NDirect => zone[f][z] = None
  BY <1>1, <1>2, NothingLeft
<1>6. ~Truncating(f)'
  <2> SUFFICES ASSUME NEW u \in Tasks, loc'[u].op = "truncate", loc'[u].f = f PROVE FALSE
    BY DEF Truncating
  <2>1. u # t
    BY <1>4, RestingTyped
  <2>2. loc[u].pc # "idle" /\ loc[u].f = f
    BY <1>4, <2>1, OpIs
  <2> QED
    BY <1>3, <2>1, <2>2
<1>7. zone \in [Files -> [Zones -> Nat]] /\ written \in [Files -> SUBSET Indexes]
  BY DEF BlocksTypeOK
<1>8. /\ \A z \in Zones : zone'[f][z] = None
      /\ \A g \in Files : g # f => zone'[g] = zone[g] /\ written'[g] = written[g]
      /\ written'[f] = {}
  <2>1. \A z \in Zones : z < NDirect \/ z = NDirect \/ z = NDirect + 1
    BY Numbers DEF Zones
  <2>2. ASSUME NEW z \in Zones PROVE zone'[f][z] = None
    <3>1. zone'[f] = [zone[f] EXCEPT ![NDirect] = None, ![NDirect + 1] = None]
      BY <1>2, <1>3, <1>7
    <3>2. zone[f] \in [Zones -> Nat]
      BY <1>3, <1>7
    <3> QED
      BY <1>5, <2>1, <3>1, <3>2
  <2>3. \A g \in Files : g # f => zone'[g] = zone[g] /\ written'[g] = written[g]
    BY <1>2, <1>7
  <2>4. written'[f] = {}
    BY <1>2, <1>3, <1>7
  <2> QED
    BY <2>2, <2>3, <2>4
<1>9. PICK S : S = {RootItem(z) : z \in Zones}
  OBVIOUS
<1>10. Tree(f, S)' /\ Contents(f)' /\ \A j \in S : Pointer(f, j)' = None
  <2>1. EmptyFiles'
    BY EmptyFilesAre, PTL
  <2>2. S = {RootItem(z) : z \in Zones}'
    BY <1>9 DEF RootItem, Item, Zones
  <2> QED
    BY <1>6, <1>8, <2>1, <2>2 DEF EmptyFiles
<1>11. PICK M : M = [g \in Files |-> IF g = f THEN S ELSE L[g]]
  OBVIOUS
<1>12. M[f] = S /\ \A g \in Files : g # f => M[g] = L[g]
  BY <1>3, <1>11
<1>13. \A g \in Files : g # f => \A j \in L[g] : Pointer(g, j)' = Pointer(g, j)
  <2> SUFFICES ASSUME NEW g \in Files, g # f, NEW j \in L[g] PROVE Pointer(g, j)' = Pointer(g, j)
    OBVIOUS
  <2> QED
    BY <1>2, <1>8, PointerKept
<1>14. OthersKept(L, f)
  BY <1>2, <1>8, <1>13 DEF OthersKept
<1>15. Alone' /\ OthersSound(L, t, f)
  BY <1>1, <1>2, <1>14, OtherFiles
<1>16. ASSUME NEW g \in Files, NEW j \in M[g], Pointer(g, j)' # None
       PROVE  g # f /\ j \in L[g] /\ Pointer(g, j)' = Pointer(g, j)
  BY <1>10, <1>12, <1>13, <1>16
<1>17. Apart(M)'
  <2> SUFFICES ASSUME NEW f1 \in Files, NEW g1 \in Files, NEW i \in M[f1], NEW j \in M[g1],
                      Pointer(f1, i)' = Pointer(g1, j)', Pointer(f1, i)' # None
               PROVE  f1 = g1 /\ i = j
    BY DEF Apart
  <2>1. i \in L[f1] /\ Pointer(f1, i)' = Pointer(f1, i)
    BY <1>16
  <2>2. j \in L[g1] /\ Pointer(g1, j)' = Pointer(g1, j)
    BY <1>16
  <2>3. Apart(L)
    BY DEF Sound
  <2>4. Pointer(f1, i) = Pointer(g1, j) /\ Pointer(f1, i) # None
    BY <2>1, <2>2
  <2> QED
    BY <2>1, <2>2, <2>3, <2>4 DEF Apart
<1>18. MapOK(M)'
  <2>1. loc[t].pc # "new" /\ loc'[t].pc # "new"
    BY <1>2, <1>4, RestingTyped
  <2>2. /\ \A c : NewBlock(c)' <=> NewBlock(c)
        /\ \A u \in Tasks : loc'[u].pc = "new" => loc[u].pc = "new" /\ loc'[u] = loc[u]
    BY <1>4, <2>1 DEF NewBlock
  <2>3. MapOK(L) /\ zmap' = zmap /\ lost' = lost
    BY <1>2 DEF Sound
  <2>4. ASSUME NEW g \in Files, NEW j \in M[g], Pointer(g, j)' # None
        PROVE  Pointer(g, j)' \in zmap' \ lost' /\ ~NewBlock(Pointer(g, j))'
    <3>1. j \in L[g] /\ Pointer(g, j)' = Pointer(g, j)
      BY <1>16, <2>4
    <3>2. Pointer(g, j) \in zmap \ lost /\ ~NewBlock(Pointer(g, j))
      BY <2>3, <2>4, <3>1 DEF MapOK
    <3>3. ~NewBlock(Pointer(g, j))'
      BY <2>2, <3>1, <3>2
    <3> QED
      BY <2>3, <3>1, <3>2, <3>3
  <2>5. ASSUME NEW c \in zmap', c \notin lost', ~NewBlock(c)'
        PROVE  \E g \in Files : \E j \in M[g] : Pointer(g, j)' = c
    <3>1. c \in zmap /\ c \notin lost /\ ~NewBlock(c) /\ c # None
      BY <2>2, <2>3, <2>5, Numbers DEF BlocksTypeOK
    <3>2. PICK g \in Files : \E j \in L[g] : Pointer(g, j) = c
      BY <2>3, <3>1 DEF MapOK
    <3>3. PICK j \in L[g] : Pointer(g, j) = c
      BY <3>2
    <3>4. g # f
      BY <1>5, <3>1, <3>3
    <3> QED
      BY <1>12, <1>13, <3>3, <3>4
  <2>6. \A u \in Tasks : loc'[u].pc = "new" =>
          /\ loc'[u].blk \in zmap' \ lost'
          /\ \A v \in Tasks : loc'[v].pc = "new" /\ loc'[v].blk = loc'[u].blk => v = u
    BY <2>2, <2>3 DEF MapOK
  <2> QED
    BY <2>4, <2>5, <2>6 DEF MapOK
<1>19. \A u \in Tasks : CallOK(u)'
  <2>1. CallOK(t)'
    BY <1>4, RestingTyped DEF CallOK
  <2> QED
    BY <1>15, <2>1 DEF OthersSound
<1>20. ASSUME NEW g \in Files PROVE Tree(g, M[g])'
  <2>1. CASE g = f
    BY <1>10, <1>12, <2>1
  <2>2. CASE g # f
    <3>1. M[g] = L[g]
      BY <1>12, <2>2
    <3> QED
      BY <1>15, <2>2, <3>1 DEF OthersSound
  <2> QED
    BY <2>1, <2>2
<1>21. ASSUME NEW g \in Files, ~Truncating(g)'
       PROVE  Contents(g)' /\ \A j \in M[g] : Pointer(g, j)' # None => OnRoute(g, j)'
  <2>1. CASE g = f
    BY <1>10, <1>12, <2>1
  <2>2. CASE g # f
    <3>1. M[g] = L[g]
      BY <1>12, <2>2
    <3> QED
      BY <1>15, <1>21, <2>2, <3>1 DEF OthersSound
  <2> QED
    BY <2>1, <2>2
<1>22. Sound(M)'
  BY <1>17, <1>18, <1>19, <1>20, <1>21, SoundIs
<1>23. BlocksTypeOK'
  <2>1. zone' \in [Files -> [Zones -> Nat]]
    <3>1. \A g \in Files : zone[g] \in [Zones -> Nat] /\ None \in Nat
      BY <1>7 DEF None
    <3> QED
      BY <1>2, <1>3, <1>7, <3>1
  <2>2. size' \in [Files -> Nat] /\ written' \in [Files -> SUBSET Indexes]
    BY <1>2, <1>3 DEF BlocksTypeOK
  <2>3. DOMAIN loc' = Tasks /\ \A u \in Tasks : LocTyped(loc'[u])
    BY <1>4, RestingTyped, LocKept
  <2> QED
    BY <1>2, <2>1, <2>2, <2>3 DEF BlocksTypeOK
<1> QED
  BY <1>15, <1>22, <1>23

----------------------------------------------------------------------------
(* The invariant holds from the start and at every step. *)

LEMMA BlocksInitSound ==
  ASSUME BlocksInit
  PROVE  FilesIInv
<1>1. PICK S : S = {RootItem(z) : z \in Zones}
  OBVIOUS
<1>2. PICK L : L = [f \in Files |-> S]
  OBVIOUS
<1>3. \A t \in Tasks : loc[t] = Resting
  BY DEF BlocksInit
<1>4. BlocksTypeOK
  <2>1. Cleared \in [Words -> Nat] /\ Garbage \in [Words -> Nat] /\ None \in Nat
    BY DEF Cleared, Garbage, None
  <2> QED
    BY <1>3, <2>1, RestingTyped DEF BlocksInit, BlocksTypeOK
<1>5. Alone
  BY <1>3, RestingTyped DEF Alone
<1>6. \A f \in Files : Tree(f, S) /\ Contents(f) /\ \A j \in S : Pointer(f, j) = None
  <2> SUFFICES ASSUME NEW f \in Files
               PROVE  Tree(f, S) /\ Contents(f) /\ \A j \in S : Pointer(f, j) = None
    OBVIOUS
  <2>1. ~Truncating(f)
    BY <1>3, RestingTyped DEF Truncating
  <2>2. written[f] = {} /\ \A z \in Zones : zone[f][z] = None
    BY DEF BlocksInit
  <2> QED
    BY <1>1, <2>1, <2>2, EmptyFile
<1>7. \A f \in Files : L[f] = S
  BY <1>2
<1>8. Apart(L)
  BY <1>6, <1>7 DEF Apart
<1>9. MapOK(L)
  BY <1>3, <1>6, <1>7, RestingTyped DEF MapOK, BlocksInit
<1>10. \A t \in Tasks : CallOK(t)
  BY <1>3, RestingTyped DEF CallOK
<1>11. Sound(L)
  BY <1>6, <1>7, <1>8, <1>9, <1>10 DEF Sound
<1> QED
  BY <1>4, <1>5, <1>11 DEF FilesIInv

LEMMA BlocksStay ==
  ASSUME FilesIInv, UNCHANGED blockVars
  PROVE  FilesIInv'
<1>1. PICK L : Sound(L)
  BY DEF FilesIInv
<1>2. zmap' = zmap /\ zone' = zone /\ mem' = mem /\ size' = size /\ written' = written
      /\ lost' = lost /\ loc' = loc
  BY DEF blockVars
<1>3. BlocksTypeOK' /\ Alone'
  <2>1. BlocksTypeOK'
    BY <1>2 DEF FilesIInv, BlocksTypeOK, LocTyped
  <2>2. Alone'
    BY <1>2 DEF FilesIInv, Alone
  <2> QED
    BY <2>1, <2>2
<1>4. /\ \A g, h : Pointer(g, h)' = Pointer(g, h)
      /\ \A g, k, n, h : Reaches(g, k, n, h)' <=> Reaches(g, k, n, h)
  BY <1>2, ReachesQuiet
<1>5. \A g : (Truncating(g)' <=> Truncating(g)) /\ \A h : Roots(g, h)' <=> Roots(g, h)
  BY <1>2 DEF Truncating, Roots
<1>6. ASSUME NEW g \in Files PROVE Tree(g, L[g])'
  BY <1>1, <1>4, <1>5, TreeKept DEF Sound
<1>7. Apart(L)'
  BY <1>1, <1>4 DEF Sound, Apart
<1>8. MapOK(L)'
  BY <1>1, <1>2, <1>4 DEF Sound, MapOK, NewBlock
<1>9. ASSUME NEW g \in Files, ~Truncating(g)'
      PROVE  Contents(g)' /\ \A h \in L[g] : Pointer(g, h)' # None => OnRoute(g, h)'
  <2>1. Contents(g) /\ \A h \in L[g] : Pointer(g, h) # None => OnRoute(g, h)
    BY <1>1, <1>5, <1>9 DEF Sound
  <2>2. Contents(g)'
    BY <1>2, <1>4, <2>1 DEF Contents, Path, Stamp
  <2>3. \A h : OnRoute(g, h) => OnRoute(g, h)'
    BY <1>4 DEF OnRoute
  <2> QED
    BY <1>4, <2>1, <2>2, <2>3
<1>10. ASSUME NEW u \in Tasks PROVE CallOK(u)'
  <2>1. CallOK(u)
    BY <1>1 DEF Sound
  <2>2. BlocksTypeOK
    BY DEF FilesIInv
  <2> QED
    BY <1>2, <2>1, <2>2, CallQuiet
<1>11. Sound(L)'
  BY <1>6, <1>7, <1>8, <1>9, <1>10, SoundIs
<1> QED
  BY <1>3, <1>11 DEF FilesIInv

LEMMA BlocksStep ==
  ASSUME FilesIInv, Races = {}, BlocksNext
  PROVE  FilesIInv'
<1>1. BlocksTypeOK /\ Alone
  BY DEF FilesIInv
<1>2. PICK L : Sound(L)
  BY DEF FilesIInv
<1>3. PICK t \in Tasks :
        \/ Step(t)
        \/ \E op \in {"read", "write"}, f \in Files, k \in Indexes : StartAccess(t, op, f, k)
        \/ \E f \in Files : StartAppend(t, f) \/ StartTruncate(t, f)
  BY DEF BlocksNext
<1>4. CASE MapFollow(t)
  BY <1>1, <1>2, <1>4, MapFollowKeeps DEF FilesIInv
<1>5. CASE MapHole(t) \/ DiskFull(t) \/ ReadFails(t)
  BY <1>1, <1>2, <1>5, MapHoleKeeps DEF FilesIInv
<1>6. CASE new_block(t)
  BY <1>1, <1>2, <1>6, new_blockKeeps DEF FilesIInv
<1>7. CASE Entered(t)
  BY <1>1, <1>2, <1>7, EnteredKeeps DEF FilesIInv
<1>8. CASE Transfer(t)
  BY <1>1, <1>2, <1>8, TransferKeeps DEF FilesIInv
<1>9. CASE TruncateNext(t)
  BY <1>1, <1>2, <1>9, TruncateNextKeeps DEF FilesIInv
<1>10. CASE TruncateEnd(t)
  BY <1>1, <1>2, <1>10, TruncateEndKeeps DEF FilesIInv
<1>11. CASE \E op \in {"read", "write"}, f \in Files, k \in Indexes : StartAccess(t, op, f, k)
  BY <1>1, <1>2, <1>11, StartAccessKeeps DEF FilesIInv
<1>12. CASE \E f \in Files : StartAppend(t, f)
  BY <1>1, <1>2, <1>12, StartAppendKeeps DEF FilesIInv
<1>13. CASE \E f \in Files : StartTruncate(t, f)
  BY <1>1, <1>2, <1>13, StartTruncateKeeps DEF FilesIInv
<1> QED
  BY <1>3, <1>4, <1>5, <1>6, <1>7, <1>8, <1>9, <1>10, <1>11, <1>12, <1>13 DEF Step

(* The bookkeeping of blocks stays sound when no two calls meet on a file  *)
(* in a way that the code does not guard.                                  *)
THEOREM BlocksSound ==
  ASSUME Races = {}
  PROVE  BlocksSpec => []FilesIInv
<1>1. BlocksInit => FilesIInv
  BY BlocksInitSound
<1>2. FilesIInv /\ [BlocksNext]_blockVars => FilesIInv'
  BY BlocksStep, BlocksStay
<1> QED
  BY <1>1, <1>2, PTL DEF BlocksSpec

----------------------------------------------------------------------------
(* What the invariant says of the blocks on the way. *)

LEMMA RouteAt ==
  ASSUME NEW f, NEW k \in Indexes
  PROVE  /\ Len(Route(f, k)) = Len(Path(k)) /\ Len(Path(k)) \in 1 .. 3
         /\ DOMAIN Route(f, k) = 1 .. Len(Path(k))
         /\ Route(f, k)[1] = Pointer(f, Cell1(k))
         /\ Len(Path(k)) >= 2 =>
              Route(f, k)[2] = IF Pointer(f, Cell1(k)) = None THEN None ELSE Pointer(f, Cell2(f, k))
         /\ Len(Path(k)) = 3 =>
              Route(f, k)[3] = IF Pointer(f, Cell1(k)) = None \/ Pointer(f, Cell2(f, k)) = None
                               THEN None ELSE Pointer(f, Cell3(f, k))
<1> DEFINE p == Path(k)
           m == Len(Path(k))
           b1 == zone[f][p[1]]
           b2 == IF m < 2 \/ b1 = None THEN None ELSE mem[b1][p[2]]
           b3 == IF m < 3 \/ b2 = None THEN None ELSE mem[b2][p[3]]
<1>1. /\ m \in 1 .. 3 /\ Cell1(k).b = 0 /\ Cell1(k).i = p[1]
      /\ m >= 2 => p[2] \in Words
      /\ m = 3 => p[3] \in Words
  BY Cell1Is
<1>2. Pointer(f, Cell1(k)) = b1
  BY <1>1 DEF Pointer, Fetch
<1>3. m >= 2 /\ b1 # None => Pointer(f, Cell2(f, k)) = mem[b1][p[2]]
  <2>1. Cell2(f, k).b = b1 /\ Cell2(f, k).i = p[2]
    BY <1>2, ItemFields DEF Cell2
  <2> QED
    BY <1>1, <2>1, WordPointer DEF None
<1>4. m = 3 /\ b1 # None /\ b2 # None => Pointer(f, Cell3(f, k)) = mem[b2][p[3]]
  <2>1. Cell3(f, k).b = Pointer(f, Cell2(f, k)) /\ Cell3(f, k).i = p[3]
    BY ItemFields DEF Cell3
  <2>2. m = 3 /\ b1 # None => Pointer(f, Cell2(f, k)) = b2
    BY <1>3
  <2> QED
    BY <1>1, <2>1, <2>2, WordPointer DEF None
<1>5. Route(f, k) = SubSeq(<<b1, b2, b3>>, 1, m)
  BY DEF Route
<1> HIDE DEF b1, b2, b3, m
<1>6. /\ Len(Route(f, k)) = m /\ DOMAIN Route(f, k) = 1 .. m
      /\ Route(f, k)[1] = b1 /\ (m >= 2 => Route(f, k)[2] = b2) /\ (m = 3 => Route(f, k)[3] = b3)
  <2>1. m = 1 \/ m = 2 \/ m = 3
    BY <1>1
  <2> QED
    BY <1>5, <2>1
<1>7. m >= 2 => b2 = IF b1 = None THEN None ELSE mem[b1][p[2]]
  BY <1>1 DEF b2
<1>8. m = 3 => b3 = IF b2 = None THEN None ELSE mem[b2][p[3]]
  BY <1>1 DEF b3
<1>9. m = 3 => m >= 2
  BY <1>1
<1> QED
  BY <1>1, <1>2, <1>3, <1>4, <1>6, <1>7, <1>8, <1>9 DEF m

LEMMA RouteIs ==
  ASSUME NEW f, NEW k \in Indexes, NEW n \in 1 .. Len(Path(k)), NEW b, b # None
  PROVE  Route(f, k)[n] = b <=> \E h : Reaches(f, k, n, h) /\ Pointer(f, h) = b
<1>1. /\ Len(Path(k)) \in 1 .. 3
      /\ Route(f, k)[1] = Pointer(f, Cell1(k))
      /\ Len(Path(k)) >= 2 =>
           Route(f, k)[2] = IF Pointer(f, Cell1(k)) = None THEN None ELSE Pointer(f, Cell2(f, k))
      /\ Len(Path(k)) = 3 =>
           Route(f, k)[3] = IF Pointer(f, Cell1(k)) = None \/ Pointer(f, Cell2(f, k)) = None
                            THEN None ELSE Pointer(f, Cell3(f, k))
  BY RouteAt
<1>2. n = 1 \/ (n = 2 /\ Len(Path(k)) >= 2) \/ (n = 3 /\ Len(Path(k)) = 3)
  <2>1. PICK m : m = Len(Path(k))
    OBVIOUS
  <2>2. m \in 1 .. 3 /\ n \in 1 .. m
    BY <1>1, <2>1
  <2>3. n = 1 \/ (n = 2 /\ m >= 2) \/ (n = 3 /\ m = 3)
    BY <2>2
  <2> QED
    BY <2>1, <2>3
<1>3. CASE n = 1
  BY <1>1, <1>3 DEF Reaches
<1>4. CASE n = 2 /\ Len(Path(k)) >= 2
  BY <1>1, <1>4 DEF Reaches
<1>5. CASE n = 3 /\ Len(Path(k)) = 3
  BY <1>1, <1>5 DEF Reaches
<1> QED
  BY <1>2, <1>3, <1>4, <1>5

LEMMA LastIs ==
  ASSUME NEW f, NEW k \in Indexes, NEW b, b # None
  PROVE  Last(Route(f, k)) = b <=> \E h : Reaches(f, k, Len(Path(k)), h) /\ Pointer(f, h) = b
<1>1. Len(Route(f, k)) = Len(Path(k)) /\ Len(Path(k)) \in 1 .. 3
  BY RouteAt
<1>2. Len(Path(k)) \in 1 .. Len(Path(k))
  BY <1>1
<1>3. Last(Route(f, k)) = Route(f, k)[Len(Path(k))]
  BY <1>1 DEF Last
<1> QED
  BY <1>2, <1>3, RouteIs

(* The blocks of a file are the pointers in its cells. *)
LEMMA OwnedIs ==
  ASSUME NEW f, NEW S, Tree(f, S), ~Truncating(f),
         \A h \in S : Pointer(f, h) # None => OnRoute(f, h)
  PROVE  Owned(f) = PointersOf(f, S)
<1>1. ASSUME NEW k \in Indexes, NEW n \in DOMAIN Route(f, k), Route(f, k)[n] # None
      PROVE  Route(f, k)[n] \in PointersOf(f, S)
  <2>1. n \in 1 .. Len(Path(k))
    BY <1>1, RouteAt
  <2>2. PICK h : Reaches(f, k, n, h) /\ Pointer(f, h) = Route(f, k)[n]
    BY <1>1, <2>1, RouteIs
  <2>3. h \in S
    BY <2>2, ReachesIn
  <2> QED
    BY <1>1, <2>2, <2>3 DEF PointersOf
<1>2. ASSUME NEW h \in S, Pointer(f, h) # None PROVE Pointer(f, h) \in Owned(f)
  <2>1. PICK k \in Indexes, n \in 1 .. 3 : Reaches(f, k, n, h)
    BY <1>2 DEF OnRoute
  <2>2. n \in 1 .. Len(Path(k))
    BY <2>1, ReachesIn
  <2>3. Route(f, k)[n] = Pointer(f, h) /\ n \in DOMAIN Route(f, k)
    BY <1>2, <2>1, <2>2, RouteIs, RouteAt
  <2>4. Pointer(f, h) \in ToSet(Route(f, k))
    BY <2>3 DEF ToSet
  <2> QED
    BY <1>2, <2>4 DEF Owned
<1>3. ASSUME NEW b \in Owned(f) PROVE b \in PointersOf(f, S)
  <2>1. PICK k \in Indexes : b \in ToSet(Route(f, k))
    BY <1>3 DEF Owned
  <2>2. PICK n \in DOMAIN Route(f, k) : b = Route(f, k)[n]
    BY <2>1 DEF ToSet
  <2>3. b # None
    BY <1>3 DEF Owned
  <2> QED
    BY <1>1, <2>2, <2>3
<1> QED
  BY <1>2, <1>3 DEF PointersOf

LEMMA SoundOwned ==
  ASSUME NEW L, Sound(L), NEW f \in Files, ~Truncating(f)
  PROVE  Owned(f) = PointersOf(f, L[f])
<1>1. Tree(f, L[f]) /\ \A h \in L[f] : Pointer(f, h) # None => OnRoute(f, h)
  BY DEF Sound
<1> QED
  BY <1>1, OwnedIs

LEMMA SoundOnce ==
  ASSUME FilesIInv
  PROVE  BlocksInv
<1>1. PICK L : Sound(L)
  BY DEF FilesIInv
<1>2. Apart(L)
  BY <1>1 DEF Sound
<1>3. ASSUME NEW f \in Files, NEW g \in Files, f # g, ~Truncating(f), ~Truncating(g)
      PROVE  Owned(f) \cap Owned(g) = {}
  <2>1. Owned(f) = PointersOf(f, L[f]) /\ Owned(g) = PointersOf(g, L[g])
    BY <1>1, <1>3, SoundOwned
  <2> SUFFICES ASSUME NEW h \in L[f], NEW j \in L[g], Pointer(f, h) = Pointer(g, j), Pointer(f, h) # None
               PROVE  FALSE
    BY <2>1 DEF PointersOf
  <2> QED
    BY <1>2, <1>3 DEF Apart
<1>4. ASSUME NEW f \in Files, ~Truncating(f), NEW j \in Indexes, NEW k \in Indexes, j # k
      PROVE  Last(Route(f, j)) # Last(Route(f, k)) \/ Last(Route(f, j)) = None
  <2> SUFFICES ASSUME NEW b, b # None, Last(Route(f, j)) = b, Last(Route(f, k)) = b PROVE FALSE
    OBVIOUS
  <2>1. PICK h : Reaches(f, j, Len(Path(j)), h) /\ Pointer(f, h) = b
    BY LastIs
  <2>2. PICK i : Reaches(f, k, Len(Path(k)), i) /\ Pointer(f, i) = b
    BY LastIs
  <2>3. Tree(f, L[f])
    BY <1>1 DEF Sound
  <2>4. h \in L[f] /\ i \in L[f]
    BY <1>4, <2>1, <2>2, <2>3, ReachesIn
  <2>5. h = i
    BY <1>2, <2>1, <2>2, <2>4 DEF Apart
  <2>6. j = k
    BY <1>2, <1>4, <2>1, <2>2, <2>3, <2>5, RouteOnce
  <2> QED
    BY <1>4, <2>6
<1>5. ASSUME NEW t \in Tasks, loc[t].pc = "data"
      PROVE  Last(Route(loc[t].f, loc[t].k)) = loc[t].blk
  <2>1. loc[t].k \in Indexes
    BY <1>5, OpIs DEF FilesIInv
  <2>2. loc[t].blk # None /\ \E h : Reaches(loc[t].f, loc[t].k, Len(Path(loc[t].k)), h)
                                    /\ Pointer(loc[t].f, h) = loc[t].blk
    BY <1>1, <1>5 DEF Sound, CallOK
  <2> QED
    BY <2>1, <2>2, LastIs
<1> QED
  BY <1>3, <1>4, <1>5 DEF BlocksInv, OwnedOnce, InHandCurrent

LEMMA SoundZmap ==
  ASSUME FilesIInv
  PROVE  ZmapExact
<1>1. PICK L : Sound(L)
  BY DEF FilesIInv
<1> SUFFICES ASSUME \A f \in Files : ~Truncating(f)
             PROVE  zmap = (UNION {Owned(f) : f \in Files})
                           \cup {loc[t].blk : t \in {u \in Tasks : loc[u].pc = "new"}}
                           \cup lost
  BY DEF ZmapExact
<1>2. MapOK(L) /\ lost \subseteq zmap /\ \A b \in zmap : b # None
  BY <1>1, Numbers DEF Sound, FilesIInv, BlocksTypeOK
<1>3. \A f \in Files : Owned(f) = PointersOf(f, L[f])
  BY <1>1, SoundOwned
<1>4. \A b : (\E f \in Files : b \in Owned(f)) => b \in zmap
  BY <1>2, <1>3 DEF MapOK, PointersOf
<1>5. \A b : b \in {loc[t].blk : t \in {u \in Tasks : loc[u].pc = "new"}} <=> NewBlock(b)
  BY DEF NewBlock
<1>6. \A b : NewBlock(b) => b \in zmap
  BY <1>2 DEF MapOK, NewBlock
<1>7. \A b \in zmap : b \in lost \/ NewBlock(b) \/ \E f \in Files : b \in Owned(f)
  BY <1>2, <1>3 DEF MapOK, PointersOf
<1>8. \A b : b \in UNION {Owned(f) : f \in Files} <=> \E f \in Files : b \in Owned(f)
  OBVIOUS
<1> QED
  BY <1>2, <1>4, <1>5, <1>6, <1>7, <1>8

LEMMA SoundContents ==
  ASSUME FilesIInv
  PROVE  ContentsKept
<1>1. PICK L : Sound(L)
  BY DEF FilesIInv
<1> SUFFICES ASSUME NEW f \in Files, ~Truncating(f), NEW k \in Indexes
             PROVE  IF k \in written[f]
                    THEN Last(Route(f, k)) # None /\ mem[Last(Route(f, k))][0] = Stamp(f, k)
                    ELSE Last(Route(f, k)) = None \/ mem[Last(Route(f, k))][0] = 0
  BY DEF ContentsKept
<1>2. /\ \A h : Reaches(f, k, Len(Path(k)), h) =>
           IF k \in written[f] THEN Pointer(f, h) # None /\ mem[Pointer(f, h)][0] = Stamp(f, k)
           ELSE Pointer(f, h) = None \/ mem[Pointer(f, h)][0] = 0
      /\ k \in written[f] => \E h : Reaches(f, k, Len(Path(k)), h)
  BY <1>1 DEF Sound, Contents
<1>3. CASE k \in written[f]
  <2>1. PICK h : Reaches(f, k, Len(Path(k)), h)
    BY <1>2, <1>3
  <2>2. Pointer(f, h) # None /\ mem[Pointer(f, h)][0] = Stamp(f, k)
    BY <1>2, <1>3, <2>1
  <2>3. Last(Route(f, k)) = Pointer(f, h)
    BY <2>1, <2>2, LastIs
  <2> QED
    BY <1>3, <2>2, <2>3
<1>4. CASE k \notin written[f]
  <2> SUFFICES ASSUME Last(Route(f, k)) # None PROVE mem[Last(Route(f, k))][0] = 0
    BY <1>4
  <2>1. PICK h : Reaches(f, k, Len(Path(k)), h) /\ Pointer(f, h) = Last(Route(f, k))
    BY LastIs
  <2> QED
    BY <1>2, <1>4, <2>1
<1> QED
  BY <1>3, <1>4

(* No block belongs to two files or to two places of one file, and a block *)
(* that file_read() or file_write() has in hand while it sleeps in bread() *)
(* is still the file's, for any number of tasks, files and blocks, with    *)
(* I/O errors and a full disk, when no two calls meet unguarded.           *)
THEOREM BlocksOwnedOnce ==
  ASSUME Races = {}
  PROVE  BlocksSpec => []BlocksInv
  BY BlocksSound, SoundOnce, PTL

(* The zone bitmap is exact: marked are the blocks of the files, those     *)
(* that a new_block() has in hand, and those an I/O error has lost.        *)
THEOREM ZmapIsExact ==
  ASSUME Races = {}
  PROVE  BlocksSpec => []ZmapExact
  BY BlocksSound, SoundZmap, PTL

(* A block of a file holds what was written to it last, or zeros: never    *)
(* what its former owner left in it.                                       *)
THEOREM ContentsStay ==
  ASSUME Races = {}
  PROVE  BlocksSpec => []ContentsKept
  BY BlocksSound, SoundContents, PTL

=============================================================================
