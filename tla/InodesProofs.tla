---------------------------- MODULE InodesProofs ----------------------------
(***************************************************************************)
(* Proofs about the inode table: one copy of an inode, exact reference     *)
(* counts, no lost update of an inode, and no inode in use of a device     *)
(* that is not mounted, for any number of processes, inodes and devices,   *)
(* in all behaviours without the four meetings of Races.                   *)
(***************************************************************************)
EXTENDS Inodes, OrderTheorems

Inode == [dev : Devs \cup {0}, num : Nat, count : Nat, nlinks : Nat,
          dirt : BOOLEAN, lock : BOOLEAN, mount : BOOLEAN]

Points == {"idle", "find", "read", "iput", "truncate", "write", "sync", "super", "put"}
Backs == {"idle", "sync", "umount"}

Place == [pc : Points, dev : Devs \cup {0}, num : Nat, x : Nat, e : Nat, back : Backs]

Super == [present : BOOLEAN, lock : BOOLEAN, imount : Nat]

StateTypeOK ==
  /\ table \in [Slots -> Inode]
  /\ disk \in [Devs -> [Nums -> Nat]]
  /\ imap \in [Devs -> SUBSET Nums]
  /\ sb \in [Devs -> Super]
  /\ links \in [Devs -> [Nums -> Nat]]
  /\ loc \in [Tasks -> Place]
  /\ refs \in [Tasks -> [Slots -> Nat]]

(* i_count is exact. *)
Exact(x) ==
  /\ IsFiniteSet(Uses(x)) /\ IsFiniteSet(Mounts(x))
  /\ table[x].count = Cardinality(Uses(x)) + Cardinality(Mounts(x))
                       + (IF x = 1 THEN RootUses ELSE 0)

Counted == \A x \in Slots : Exact(x)

(* The root directory and the mount point of a device are never deleted. *)
LowKept ==
  \A d \in Devs, n \in Nums : n <= MountPoint => n \in imap[d] /\ links[d][n] > 0

(* An inode in the table is one that exists, and is there once. *)
Named ==
  /\ \A x \in Slots : table[x].dev # 0 => table[x].num \in imap[table[x].dev]
  /\ \A x \in Slots : table[x].dirt => table[x].dev # 0
  /\ \A x \in Slots, t \in Tasks : refs[t][x] > 0 => table[x].dev # 0
  /\ InodeUnique

Reading(x) == \E t \in Tasks : loc[t].pc = "read" /\ loc[t].e = x

(* The link counts of the copies, and of the inodes without one. *)
CopyGood ==
  \A x \in Slots : table[x].dev # 0 /\ ~Reading(x) =>
    LET d == table[x].dev
        n == table[x].num
    IN  table[x].nlinks = links[d][n] /\ (table[x].dirt \/ disk[d][n] = links[d][n])

DiskGood ==
  \A d \in Devs : \A n \in imap[d] :
    (\A x \in Slots : table[x].dev = d /\ table[x].num = n => Reading(x))
      => disk[d][n] = links[d][n]

(* Where a task is, and what it can rely on there. *)
InIget(t) ==
  /\ loc[t].pc = "find" =>
       /\ loc[t].x \in Slots /\ loc[t].e \in Slots
       /\ loc[t].dev \in Devs /\ loc[t].num \in imap[loc[t].dev]
       /\ links[loc[t].dev][loc[t].num] > 0
       /\ sb[loc[t].dev].present
       /\ table[loc[t].e] = [Zeroed EXCEPT !.count = 1]
  /\ loc[t].pc = "read" =>
       /\ loc[t].e \in Slots
       /\ table[loc[t].e].dev # 0 /\ table[loc[t].e].count = 1
       /\ table[loc[t].e].lock /\ ~table[loc[t].e].dirt

InIput(t) ==
  /\ loc[t].pc \in {"iput", "truncate", "write"} =>
       loc[t].x \in Slots /\ table[loc[t].x].dev # 0
  /\ loc[t].pc = "iput" => loc[t].back # "sync"
  /\ loc[t].pc = "write" => table[loc[t].x].lock
  /\ loc[t].pc = "truncate" =>
       /\ loc[t].back = "idle" /\ table[loc[t].x].count = 1
       /\ table[loc[t].x].nlinks = 0 /\ ~table[loc[t].x].lock
  /\ loc[t].pc = "sync" => loc[t].back # "umount"

(* Nobody uses an inode of the device or waits for one. *)
Quiet(d) ==
  /\ \A x \in Slots : table[x].dev = d => table[x].count = 0
  /\ \A n \in Nums : ~Awaited(d, n)

InMount(t) ==
  /\ loc[t].pc = "super" =>
       /\ loc[t].back = "idle" /\ loc[t].x \in Slots
       /\ table[loc[t].x].dev # 0 /\ table[loc[t].x].num <= MountPoint
       /\ loc[t].dev \in Devs \ {ROOT_DEV}
       /\ sb[loc[t].dev].present /\ sb[loc[t].dev].imount = NoSlot
       /\ Mounts(loc[t].x) = {} /\ Quiet(loc[t].dev)
  /\ loc[t].pc = "put" => loc[t].dev \in Devs
  /\ loc[t].pc \in {"iput", "write"} /\ loc[t].back = "umount" =>
       /\ loc[t].dev \in Devs \ {ROOT_DEV}
       /\ sb[loc[t].dev].imount = loc[t].x
       /\ ~table[loc[t].x].mount /\ Quiet(loc[t].dev)

(* The one that has an inode locked. *)
LockedBy(t, x) ==
  \/ loc[t].pc = "read" /\ loc[t].e = x
  \/ loc[t].pc = "write" /\ loc[t].x = x

(* Two tasks never lock an inode, read a super block or unmount a device   *)
(* at once.                                                                *)
Apart ==
  \A t, u \in Tasks : t # u =>
    /\ \A x \in Slots : ~(LockedBy(t, x) /\ LockedBy(u, x))
    /\ loc[t].pc = "super" /\ loc[u].pc = "super"
         => loc[t].dev # loc[u].dev /\ loc[t].x # loc[u].x
    /\ \A d \in Devs : ~(Unmounting(t, d) /\ Unmounting(u, d))

(* Mounted devices: the root is mounted, each device at a place of its own *)
(* which is a directory in use; an inode that is marked mounted on is one. *)
MountsOK ==
  /\ sb[ROOT_DEV].present /\ sb[ROOT_DEV].imount = 1
  /\ \A d \in Devs : sb[d].imount # NoSlot =>
       /\ sb[d].imount \in Slots /\ sb[d].present
       /\ table[sb[d].imount].dev # 0 /\ table[sb[d].imount].num <= MountPoint
  /\ \A d, c \in Devs : sb[d].imount = sb[c].imount /\ sb[d].imount # NoSlot => d = c
  /\ \A x \in Slots : table[x].mount =>
       \E d \in Devs : sb[d].imount = x /\ \A t \in Tasks : ~Unmounting(t, d)

InodesIInv ==
  /\ StateTypeOK /\ Counted /\ LowKept /\ Named /\ FreeIsClean
  /\ CopyGood /\ DiskGood /\ DeviceStays
  /\ \A t \in Tasks : InIget(t) /\ InIput(t) /\ InMount(t)
  /\ Apart /\ MountsOK

----------------------------------------------------------------------------
(* Counting references.  A step is one of a task t: the others keep their  *)
(* places and their references.                                            *)
Alone(t) == \A u \in Tasks : u # t => loc'[u] = loc[u] /\ refs'[u] = refs[u]

(* Who is in Uses(x), with the references rf and the places lc. *)
UsesOf(rf, lc, x) ==
  {u \in UNION {{t} \X (0 .. rf[t][x]) : t \in Tasks} : u[2] = 0 => InCall(lc[u[1]], x)}

LEMMA UsesMember ==
  ASSUME NEW x \in Slots, NEW lc, NEW rf \in [Tasks -> [Slots -> Nat]]
  PROVE  /\ \A u \in UsesOf(rf, lc, x) : \E t \in Tasks, i \in Nat : u = <<t, i>>
         /\ \A t \in Tasks, i \in Nat :
              <<t, i>> \in UsesOf(rf, lc, x) <=> i <= rf[t][x] /\ (i = 0 => InCall(lc[t], x))
<1>1. \A u : u \in UsesOf(rf, lc, x) <=>
        \E t \in Tasks : u \in {t} \X (0 .. rf[t][x]) /\ (u[2] = 0 => InCall(lc[u[1]], x))
  BY Zenon DEF UsesOf
<1>2. ASSUME NEW u \in UsesOf(rf, lc, x)
      PROVE  \E t \in Tasks, i \in Nat : u = <<t, i>>
  <2>1. PICK t \in Tasks : u \in {t} \X (0 .. rf[t][x])
    BY <1>1, <1>2
  <2>2. PICK i \in 0 .. rf[t][x] : u = <<t, i>>
    BY <2>1
  <2>3. rf[t][x] \in Nat
    OBVIOUS
  <2> QED
    BY <2>2, <2>3
<1>3. ASSUME NEW t \in Tasks, NEW i \in Nat
      PROVE  <<t, i>> \in UsesOf(rf, lc, x) <=> i <= rf[t][x] /\ (i = 0 => InCall(lc[t], x))
  <2>1. rf[t][x] \in Nat
    OBVIOUS
  <2>2. \A s \in Tasks : <<t, i>> \in {s} \X (0 .. rf[s][x]) <=> s = t /\ i <= rf[t][x]
    BY <2>1
  <2>3. <<t, i>>[1] = t /\ <<t, i>>[2] = i
    OBVIOUS
  <2> QED
    BY <1>1, <2>2, <2>3, Zenon
<1> QED
  BY <1>2, <1>3

(* What a step of t makes of Uses(x). *)
LEMMA UsesStep ==
  ASSUME NEW t \in Tasks, NEW x \in Slots, Alone(t),
         refs \in [Tasks -> [Slots -> Nat]], refs' \in [Tasks -> [Slots -> Nat]],
         NEW S, \A u \in S : \E s \in Tasks, i \in Nat : u = <<s, i>>,
         \A s \in Tasks, i \in Nat : s # t => (<<s, i>> \in S <=> <<s, i>> \in Uses(x)),
         \A i \in Nat : <<t, i>> \in S <=> i <= refs'[t][x] /\ (i = 0 => InCall(loc'[t], x))
  PROVE  Uses(x)' = S
<1>1. Uses(x) = UsesOf(refs, loc, x) /\ Uses(x)' = UsesOf(refs', loc', x)
  BY Zenon DEF Uses, UsesOf
<1>2. \A u \in UsesOf(refs', loc', x) : \E s \in Tasks, i \in Nat : u = <<s, i>>
  BY ONLY refs' \in [Tasks -> [Slots -> Nat]], x \in Slots, UsesMember, SMT
<1>3. /\ \A s \in Tasks, i \in Nat :
           <<s, i>> \in UsesOf(refs, loc, x) <=> i <= refs[s][x] /\ (i = 0 => InCall(loc[s], x))
      /\ \A s \in Tasks, i \in Nat :
           <<s, i>> \in UsesOf(refs', loc', x) <=> i <= refs'[s][x] /\ (i = 0 => InCall(loc'[s], x))
  BY UsesMember, Zenon
<1>4. \A s \in Tasks, i \in Nat : <<s, i>> \in Uses(x)' <=> <<s, i>> \in S
  <2>1. ASSUME NEW s \in Tasks, NEW i \in Nat PROVE <<s, i>> \in Uses(x)' <=> <<s, i>> \in S
    <3>1. CASE s = t
      BY <1>1, <1>3, <3>1, Zenon
    <3>2. CASE s # t
      <4>1. refs'[s] = refs[s] /\ loc'[s] = loc[s]
        BY <3>2 DEF Alone
      <4>2. <<s, i>> \in UsesOf(refs', loc', x) <=> <<s, i>> \in UsesOf(refs, loc, x)
        BY <1>3, <4>1
      <4> QED
        BY <1>1, <3>2, <4>2, Zenon
    <3> QED
      BY <3>1, <3>2
  <2> QED
    BY <2>1
<1>5. \A u : u \in Uses(x)' <=> u \in S
  <2>1. \A u \in Uses(x)' : \E s \in Tasks, i \in Nat : u = <<s, i>>
    BY <1>1, <1>2
  <2> QED
    BY <2>1, <1>4
<1> QED
  BY <1>5, Zenon

(* The number of references that t has, as a step changes it. *)
LEMMA UsesCount ==
  ASSUME NEW t \in Tasks, NEW x \in Slots, Alone(t),
         refs \in [Tasks -> [Slots -> Nat]], refs' \in [Tasks -> [Slots -> Nat]],
         IsFiniteSet(Uses(x))
  PROVE  LET r == refs[t][x]
             c == InCall(loc[t], x)
             S == Uses(x)
         IN  /\ refs'[t][x] = r /\ (InCall(loc'[t], x) <=> c) => Uses(x)' = S
             /\ refs'[t][x] = r /\ ~InCall(loc'[t], x) /\ c =>
                  IsFiniteSet(Uses(x)') /\ Cardinality(Uses(x)') = Cardinality(S) - 1
             /\ refs'[t][x] = r /\ InCall(loc'[t], x) /\ ~c =>
                  IsFiniteSet(Uses(x)') /\ Cardinality(Uses(x)') = Cardinality(S) + 1
             /\ refs'[t][x] = r + 1 /\ ~InCall(loc'[t], x) /\ ~c =>
                  IsFiniteSet(Uses(x)') /\ Cardinality(Uses(x)') = Cardinality(S) + 1
             /\ refs'[t][x] = r + 1 /\ ~InCall(loc'[t], x) /\ c =>
                  IsFiniteSet(Uses(x)') /\ Cardinality(Uses(x)') = Cardinality(S)
             /\ refs'[t][x] = r - 1 /\ InCall(loc'[t], x) /\ ~c =>
                  IsFiniteSet(Uses(x)') /\ Cardinality(Uses(x)') = Cardinality(S)
<1> DEFINE r == refs[t][x]
           c == InCall(loc[t], x)
           S == Uses(x)
<1>0. r \in Nat /\ refs'[t][x] \in Nat
  OBVIOUS
<1>1. \A u \in S : \E s \in Tasks, i \in Nat : u = <<s, i>>
  <2>1. S = UsesOf(refs, loc, x)
    BY Zenon DEF Uses, UsesOf
  <2>2. \A u \in UsesOf(refs, loc, x) : \E s \in Tasks, i \in Nat : u = <<s, i>>
    BY ONLY refs \in [Tasks -> [Slots -> Nat]], x \in Slots, UsesMember, SMT
  <2> QED
    BY <2>1, <2>2
<1>2. \A i \in Nat : <<t, i>> \in S <=> i <= r /\ (i = 0 => c)
  <2>1. S = UsesOf(refs, loc, x)
    BY Zenon DEF Uses, UsesOf
  <2>2. \A i \in Nat : <<t, i>> \in UsesOf(refs, loc, x) <=> i <= r /\ (i = 0 => c)
    BY UsesMember, Zenon
  <2> QED
    BY <2>1, <2>2
<1> DEFINE R(T) == \A u \in T : \E s \in Tasks, i \in Nat : u = <<s, i>>
           K(T) == \A s \in Tasks, i \in Nat : s # t => (<<s, i>> \in T <=> <<s, i>> \in S)
           M(T) == \A i \in Nat : <<t, i>> \in T
                     <=> i <= refs'[t][x] /\ (i = 0 => InCall(loc'[t], x))
<1>3. ASSUME NEW T, R(T), K(T), M(T) PROVE Uses(x)' = T
  BY <1>3, UsesStep
<1> HIDE DEF r, c, S
<1>4. ASSUME refs'[t][x] = r, InCall(loc'[t], x) <=> c PROVE Uses(x)' = S
  BY <1>0, <1>1, <1>2, <1>3, <1>4
<1>5. Cardinality(S) \in Nat /\ IsFiniteSet(S)
  BY FS_CardinalityType DEF S
<1>6. ASSUME NEW u
      PROVE /\ IsFiniteSet(S \ {u})
            /\ u \in S => Cardinality(S \ {u}) = Cardinality(S) - 1
            /\ u \notin S => Cardinality(S \ {u}) = Cardinality(S)
  BY <1>5, FS_RemoveElement
<1>7. ASSUME NEW T, IsFiniteSet(T), NEW u
      PROVE /\ IsFiniteSet(T \cup {u})
            /\ u \notin T => Cardinality(T \cup {u}) = Cardinality(T) + 1
  BY <1>7, FS_AddElement
<1>8. ASSUME refs'[t][x] = r, ~InCall(loc'[t], x), c
      PROVE IsFiniteSet(Uses(x)') /\ Cardinality(Uses(x)') = Cardinality(S) - 1
  <2> DEFINE T == S \ {<<t, 0>>}
  <2>1. R(T) /\ K(T)
    BY <1>1
  <2>2. M(T)
    BY <1>0, <1>2, <1>8
  <2>3. <<t, 0>> \in S
    BY <1>0, <1>2, <1>8
  <2> QED
    BY <1>3, <1>6, <2>1, <2>2, <2>3
<1>9. ASSUME refs'[t][x] = r, InCall(loc'[t], x), ~c
      PROVE IsFiniteSet(Uses(x)') /\ Cardinality(Uses(x)') = Cardinality(S) + 1
  <2> DEFINE T == S \cup {<<t, 0>>}
  <2>1. R(T) /\ K(T)
    BY <1>1
  <2>2. M(T)
    BY <1>0, <1>2, <1>9
  <2>3. <<t, 0>> \notin S
    BY <1>0, <1>2, <1>9
  <2>4. Uses(x)' = T
    BY <1>3, <2>1, <2>2
  <2> QED
    BY <1>5, <1>7, <2>3, <2>4
<1>10. ASSUME refs'[t][x] = r + 1, ~InCall(loc'[t], x), ~c
       PROVE IsFiniteSet(Uses(x)') /\ Cardinality(Uses(x)') = Cardinality(S) + 1
  <2> DEFINE T == S \cup {<<t, r + 1>>}
  <2>0. r + 1 \in Nat
    BY <1>0
  <2>1. R(T) /\ K(T)
    BY <1>1, <2>0
  <2>2. M(T)
    BY <1>0, <1>2, <1>10
  <2>3. <<t, r + 1>> \notin S
    BY <1>0, <1>2
  <2>4. Uses(x)' = T
    BY <1>3, <2>1, <2>2
  <2> QED
    BY <1>5, <1>7, <2>3, <2>4
<1>11. ASSUME refs'[t][x] = r + 1, ~InCall(loc'[t], x), c
       PROVE IsFiniteSet(Uses(x)') /\ Cardinality(Uses(x)') = Cardinality(S)
  <2> DEFINE T0 == S \ {<<t, 0>>}
             T == T0 \cup {<<t, r + 1>>}
  <2>0. r + 1 \in Nat
    BY <1>0
  <2>1. R(T) /\ K(T)
    BY <1>1, <2>0
  <2>2. M(T)
    BY <1>0, <1>2, <1>11
  <2>3. <<t, r + 1>> \notin T0 /\ <<t, 0>> \in S
    BY <1>0, <1>2, <1>11
  <2>4. Uses(x)' = T
    BY <1>3, <2>1, <2>2
  <2>5. IsFiniteSet(T0) /\ Cardinality(T0) = Cardinality(S) - 1
    BY <1>6, <2>3
  <2> HIDE DEF T0
  <2>6. IsFiniteSet(T) /\ Cardinality(T) = Cardinality(T0) + 1
    BY <1>7, <2>3, <2>5
  <2> QED
    BY <1>5, <2>4, <2>5, <2>6
<1>12. ASSUME refs'[t][x] = r - 1, InCall(loc'[t], x), ~c
       PROVE IsFiniteSet(Uses(x)') /\ Cardinality(Uses(x)') = Cardinality(S)
  <2> DEFINE T0 == S \ {<<t, r>>}
             T == T0 \cup {<<t, 0>>}
  <2>0. r > 0
    BY <1>0, <1>12
  <2>1. R(T) /\ K(T)
    BY <1>1
  <2>2. M(T)
    BY <1>0, <1>2, <1>12, <2>0
  <2>3. <<t, 0>> \notin T0 /\ <<t, r>> \in S
    BY <1>0, <1>2, <1>12, <2>0
  <2>4. Uses(x)' = T
    BY <1>3, <2>1, <2>2
  <2>5. IsFiniteSet(T0) /\ Cardinality(T0) = Cardinality(S) - 1
    BY <1>6, <2>3
  <2> HIDE DEF T0
  <2>6. IsFiniteSet(T) /\ Cardinality(T) = Cardinality(T0) + 1
    BY <1>7, <2>3, <2>5
  <2> QED
    BY <1>5, <2>4, <2>5, <2>6
<1> QED
  BY <1>4, <1>8, <1>9, <1>10, <1>11, <1>12 DEF r, c, S

(* t has a reference to x; two references are counted twice. *)
User(t, x) == refs[t][x] > 0 \/ InCall(loc[t], x)

LEMMA UsersCount ==
  ASSUME NEW x \in Slots, refs \in [Tasks -> [Slots -> Nat]], Exact(x)
  PROVE  /\ table[x].count \in Nat
         /\ \A t \in Tasks : User(t, x) => table[x].count > 0
         /\ \A t, u \in Tasks : User(t, x) /\ User(u, x) /\ t # u => table[x].count > 1
         /\ \A t \in Tasks : refs[t][x] > 0 /\ InCall(loc[t], x) => table[x].count > 1
         /\ \A t \in Tasks, d \in Devs :
              User(t, x) /\ sb[d].imount = x => table[x].count > 1
         /\ \A d \in Devs : sb[d].imount = x => table[x].count > 0
         /\ x = 1 => table[x].count >= RootUses
<1> DEFINE S == Uses(x)
           M == Mounts(x)
           two(t) == IF InCall(loc[t], x) THEN <<t, 0>> ELSE <<t, 1>>
<1>1. \A t \in Tasks, i \in Nat : <<t, i>> \in S <=> i <= refs[t][x] /\ (i = 0 => InCall(loc[t], x))
  <2>1. S = UsesOf(refs, loc, x)
    BY Zenon DEF Uses, UsesOf
  <2>2. \A t \in Tasks, i \in Nat :
          <<t, i>> \in UsesOf(refs, loc, x) <=> i <= refs[t][x] /\ (i = 0 => InCall(loc[t], x))
    BY UsesMember, Zenon
  <2> QED
    BY <2>1, <2>2
<1>2. \A d \in Devs : sb[d].imount = x => d \in M
  BY DEF Mounts
<1>3. IsFiniteSet(S) /\ IsFiniteSet(M)
      /\ table[x].count = Cardinality(S) + Cardinality(M) + (IF x = 1 THEN RootUses ELSE 0)
  BY DEF Exact
<1> HIDE DEF S, M
<1>4. Cardinality(S) \in Nat /\ Cardinality(M) \in Nat
  BY <1>3, FS_CardinalityType
<1>5. /\ \A u \in S : Cardinality(S) > 0
      /\ \A d \in M : Cardinality(M) > 0
  BY <1>3, <1>4, FS_EmptySet
<1>6. ASSUME NEW u \in S, NEW v \in S, u # v PROVE Cardinality(S) > 1
  <2>1. IsFiniteSet(S \ {u}) /\ Cardinality(S \ {u}) = Cardinality(S) - 1
    BY <1>3, FS_RemoveElement
  <2>2. Cardinality(S \ {u}) # 0 /\ Cardinality(S \ {u}) \in Nat
    BY <1>6, <2>1, FS_EmptySet, FS_CardinalityType
  <2> QED
    BY <1>4, <2>1, <2>2
<1>7. ASSUME NEW t \in Tasks, User(t, x) PROVE two(t) \in S
  BY <1>1, <1>7 DEF User
<1>8. \A t, u \in Tasks : t # u => two(t) # two(u)
  OBVIOUS
<1>9. ASSUME NEW t \in Tasks, refs[t][x] > 0, InCall(loc[t], x)
      PROVE <<t, 0>> \in S /\ <<t, 1>> \in S /\ <<t, 0>> # <<t, 1>>
  BY <1>1, <1>9
<1> HIDE DEF two
<1>10. RootUses \in Nat
  BY DEF RootUses
<1>11. table[x].count \in Nat /\ table[x].count >= Cardinality(S) + Cardinality(M)
  BY <1>3, <1>4, <1>10
<1> QED
  <2>1. \A t \in Tasks : User(t, x) => Cardinality(S) > 0
    BY <1>5, <1>7
  <2>2. \A t, u \in Tasks : User(t, x) /\ User(u, x) /\ t # u => Cardinality(S) > 1
    BY <1>6, <1>7, <1>8
  <2>3. \A t \in Tasks : refs[t][x] > 0 /\ InCall(loc[t], x) => Cardinality(S) > 1
    BY <1>6, <1>9
  <2>4. \A d \in Devs : sb[d].imount = x => Cardinality(M) > 0
    BY <1>2, <1>5
  <2>5. x = 1 => table[x].count >= RootUses
    BY <1>3, <1>4, <1>10
  <2> QED
    BY <1>4, <1>11, <2>1, <2>2, <2>3, <2>4, <2>5

(* What the step does to the references of t to x, it does to i_count. *)
Balanced(t, x) ==
  LET r == refs[t][x]
      c == InCall(loc[t], x)
      n == table[x].count
  IN  \/ refs'[t][x] = r /\ (InCall(loc'[t], x) <=> c) /\ table'[x].count = n
      \/ refs'[t][x] = r /\ ~InCall(loc'[t], x) /\ c /\ table'[x].count = n - 1
      \/ refs'[t][x] = r /\ InCall(loc'[t], x) /\ ~c /\ table'[x].count = n + 1
      \/ refs'[t][x] = r + 1 /\ ~InCall(loc'[t], x) /\ ~c /\ table'[x].count = n + 1
      \/ refs'[t][x] = r + 1 /\ ~InCall(loc'[t], x) /\ c /\ table'[x].count = n
      \/ refs'[t][x] = r - 1 /\ InCall(loc'[t], x) /\ ~c /\ table'[x].count = n

LEMMA ExactStep ==
  ASSUME NEW t \in Tasks, NEW x \in Slots, Alone(t),
         refs \in [Tasks -> [Slots -> Nat]], refs' \in [Tasks -> [Slots -> Nat]],
         Exact(x), Balanced(t, x), Mounts(x)' = Mounts(x)
  PROVE  Exact(x)'
<1> DEFINE r == refs[t][x]
           c == InCall(loc[t], x)
           k == Cardinality(Uses(x))
           m == Cardinality(Mounts(x)) + (IF x = 1 THEN RootUses ELSE 0)
<1>0. (IF x = 1 THEN RootUses ELSE 0) \in Nat
  BY DEF RootUses
<1>1. IsFiniteSet(Uses(x)) /\ IsFiniteSet(Mounts(x)) /\ table[x].count = k + m
      /\ k \in Nat /\ m \in Nat
  <2>1. k \in Nat /\ Cardinality(Mounts(x)) \in Nat
    BY FS_CardinalityType DEF Exact
  <2> QED
    BY <1>0, <2>1 DEF Exact
<1>2. ASSUME IsFiniteSet(Uses(x)'), table'[x].count = Cardinality(Uses(x)') + m,
             Cardinality(Uses(x)') \in Nat
      PROVE Exact(x)'
  <2>1. Cardinality(Mounts(x)) \in Nat
    BY FS_CardinalityType DEF Exact
  <2>2. (IF x = 1 THEN RootUses ELSE 0)' = (IF x = 1 THEN RootUses ELSE 0)
    BY DEF RootUses
  <2>3. IsFiniteSet(Mounts(x)')
    BY DEF Exact
  <2> QED
    BY <1>0, <1>2, <2>1, <2>2, <2>3 DEF Exact
<1> HIDE DEF m
<1>3. /\ refs'[t][x] = r /\ (InCall(loc'[t], x) <=> c) => Uses(x)' = Uses(x)
      /\ refs'[t][x] = r /\ ~InCall(loc'[t], x) /\ c =>
           IsFiniteSet(Uses(x)') /\ Cardinality(Uses(x)') = k - 1
      /\ refs'[t][x] = r /\ InCall(loc'[t], x) /\ ~c =>
           IsFiniteSet(Uses(x)') /\ Cardinality(Uses(x)') = k + 1
      /\ refs'[t][x] = r + 1 /\ ~InCall(loc'[t], x) /\ ~c =>
           IsFiniteSet(Uses(x)') /\ Cardinality(Uses(x)') = k + 1
      /\ refs'[t][x] = r + 1 /\ ~InCall(loc'[t], x) /\ c =>
           IsFiniteSet(Uses(x)') /\ Cardinality(Uses(x)') = k
      /\ refs'[t][x] = r - 1 /\ InCall(loc'[t], x) /\ ~c =>
           IsFiniteSet(Uses(x)') /\ Cardinality(Uses(x)') = k
  BY <1>1, UsesCount
<1>4. \/ Uses(x)' = Uses(x) /\ table'[x].count = table[x].count
      \/ IsFiniteSet(Uses(x)')
         /\ (\/ Cardinality(Uses(x)') = k - 1 /\ table'[x].count = table[x].count - 1
             \/ Cardinality(Uses(x)') = k + 1 /\ table'[x].count = table[x].count + 1
             \/ Cardinality(Uses(x)') = k /\ table'[x].count = table[x].count)
  BY <1>3 DEF Balanced
<1>5. CASE Uses(x)' = Uses(x) /\ table'[x].count = table[x].count
  BY <1>1, <1>2, <1>5
<1>6. ASSUME IsFiniteSet(Uses(x)'),
             \/ Cardinality(Uses(x)') = k - 1 /\ table'[x].count = table[x].count - 1
             \/ Cardinality(Uses(x)') = k + 1 /\ table'[x].count = table[x].count + 1
             \/ Cardinality(Uses(x)') = k /\ table'[x].count = table[x].count
      PROVE  Exact(x)'
  <2>1. Cardinality(Uses(x)') \in Nat
    BY <1>6, FS_CardinalityType
  <2>2. table'[x].count = Cardinality(Uses(x)') + m
    BY <1>1, <1>6, <2>1
  <2> QED
    BY <1>2, <1>6, <2>1, <2>2
<1> QED
  BY <1>4, <1>5, <1>6

----------------------------------------------------------------------------
(* The steps.  In a first kind the task only goes on in its call, or       *)
(* starts one: the table, the disk and the super blocks stay as they are.  *)
Calm(l) ==
  l.pc \in {"idle", "sync", "iput", "truncate"} /\ (l.pc = "iput" => l.back # "umount")

LEMMA PlaceKeeps ==
  ASSUME InodesIInv, NEW t \in Tasks, Alone(t),
         UNCHANGED <<table, disk, imap, sb, links>>,
         loc' \in [Tasks -> Place], refs' \in [Tasks -> [Slots -> Nat]],
         Calm(loc[t]), Calm(loc'[t]), InIput(t)',
         \A x \in Slots : Balanced(t, x),
         \A x \in Slots : refs'[t][x] > 0 => refs[t][x] > 0
  PROVE  InodesIInv'
<1>1. StateTypeOK'
  BY DEF InodesIInv, StateTypeOK
<1>2. Counted'
  <2>1. ASSUME NEW x \in Slots PROVE Exact(x)'
    <3>1. Mounts(x)' = Mounts(x)
      BY DEF Mounts
    <3>2. Exact(x) /\ refs \in [Tasks -> [Slots -> Nat]]
      BY DEF InodesIInv, Counted, StateTypeOK
    <3> QED
      BY <3>1, <3>2, ExactStep
  <2> QED
    BY <2>1 DEF Counted
<1>3. LowKept' /\ FreeIsClean' /\ DeviceStays'
  BY DEF InodesIInv, LowKept, FreeIsClean, DeviceStays
<1>4. Named'
  BY DEF InodesIInv, Named, Alone, InodeUnique
<1>5. \A x \in Slots : Reading(x)' <=> Reading(x)
  BY DEF Reading, Alone, Calm
<1>6. CopyGood' /\ DiskGood'
  BY <1>5 DEF InodesIInv, CopyGood, DiskGood
<1>7. \A d \in Devs, n \in Nums : Awaited(d, n)' <=> Awaited(d, n)
  BY DEF Awaited, Alone, Calm
<1>a. \A d \in Devs : Quiet(d) => Quiet(d)'
  BY <1>7 DEF Quiet
<1>8. \A u \in Tasks, d \in Devs : Unmounting(u, d)' <=> Unmounting(u, d)
  BY DEF Unmounting, Alone, Calm
<1>9. \A x \in Slots : Mounts(x)' = Mounts(x)
  BY DEF Mounts
<1>10. ASSUME NEW u \in Tasks PROVE InIget(u)' /\ InIput(u)' /\ InMount(u)'
  <2>1. CASE u = t
    BY <2>1 DEF InIget, InMount, Calm
  <2>2. CASE u # t
    <3>1. loc'[u] = loc[u]
      BY <2>2 DEF Alone
    <3>2. InIget(u) /\ InIput(u) /\ InMount(u) /\ loc[u] \in Place
      BY DEF InodesIInv, StateTypeOK
    <3>3. InIget(u)'
      BY <3>1, <3>2 DEF InIget
    <3>4. InIput(u)'
      BY <3>1, <3>2 DEF InIput
    <3>5. InMount(u)'
      BY <1>a, <1>9, <3>1, <3>2 DEF InMount
    <3> QED
      BY <3>3, <3>4, <3>5
  <2> QED
    BY <2>1, <2>2
<1>11. Apart'
  <2>1. \A u \in Tasks, x \in Slots : LockedBy(u, x)' <=> LockedBy(u, x)
    BY DEF LockedBy, Alone, Calm
  <2>2. \A u \in Tasks : loc'[u].pc = "super" => u # t /\ loc'[u] = loc[u]
    BY DEF Alone, Calm
  <2> QED
    BY <1>8, <2>1, <2>2 DEF InodesIInv, Apart
<1>12. MountsOK'
  BY <1>8 DEF InodesIInv, MountsOK
<1> QED
  BY <1>1, <1>2, <1>3, <1>4, <1>6, <1>10, <1>11, <1>12 DEF InodesIInv

(* What the invariant says of one slot. *)
LEMMA SlotFacts ==
  ASSUME InodesIInv, NEW x \in Slots
  PROVE  /\ table[x] \in Inode
         /\ \A t \in Tasks : refs[t][x] \in Nat
         /\ \A t \in Tasks : User(t, x) => table[x].count > 0
         /\ \A t, u \in Tasks : User(t, x) /\ User(u, x) /\ t # u => table[x].count > 1
         /\ \A t \in Tasks : refs[t][x] > 0 /\ InCall(loc[t], x) => table[x].count > 1
         /\ \A t \in Tasks, d \in Devs :
              User(t, x) /\ sb[d].imount = x => table[x].count > 1
         /\ \A d \in Devs : sb[d].imount = x => table[x].count > 0
         /\ x = 1 => table[x].count >= RootUses
<1>1. refs \in [Tasks -> [Slots -> Nat]] /\ Exact(x) /\ table \in [Slots -> Inode]
  BY DEF InodesIInv, StateTypeOK, Counted
<1> QED
  BY <1>1, UsersCount

(* The one that reads an inode is the only one that has it. *)
LEMMA ReaderAlone ==
  ASSUME InodesIInv, NEW x \in Slots, NEW u \in Tasks, loc[u].pc = "read", loc[u].e = x
  PROVE  /\ \A t \in Tasks : t # u => ~User(t, x)
         /\ \A t \in Tasks : refs[t][x] = 0
         /\ \A d \in Devs : sb[d].imount # x
         /\ table[x].dev # 0 /\ table[x].count = 1 /\ table[x].lock /\ ~table[x].dirt
<1>1. InCall(loc[u], x) /\ User(u, x)
  BY DEF InCall, User
<1>2. table[x].dev # 0 /\ table[x].count = 1 /\ table[x].lock /\ ~table[x].dirt
  BY DEF InodesIInv, InIget
<1>3. \A t \in Tasks : refs[t][x] \in Nat
  BY SlotFacts
<1>4. \A t \in Tasks : t # u => ~User(t, x)
  BY <1>1, <1>2, SlotFacts
<1>5. ~(refs[u][x] > 0)
  BY <1>1, <1>2, SlotFacts
<1>6. \A d \in Devs : sb[d].imount # x
  BY <1>1, <1>2, SlotFacts
<1> QED
  BY <1>2, <1>3, <1>4, <1>5, <1>6 DEF User

(* An inode that is mounted on has links. *)
LEMMA MountedLinks ==
  ASSUME InodesIInv, NEW d \in Devs, NEW x \in Slots, sb[d].imount = x
  PROVE  table[x].nlinks > 0 /\ table[x].dev # 0 /\ table[x].num <= MountPoint
<1>1. ~Reading(x)
  BY ReaderAlone DEF Reading
<1>2. x # NoSlot
  BY DEF Slots, NoSlot
<1>3. table[x].dev # 0 /\ table[x].num <= MountPoint
  BY <1>2 DEF InodesIInv, MountsOK
<1>4. table[x].dev \in Devs /\ table[x].num \in imap[table[x].dev]
      /\ imap[table[x].dev] \in SUBSET Nums
  <2>1. table[x].dev \in Devs
    BY <1>3, SlotFacts DEF Inode
  <2> QED
    BY <1>3, <2>1 DEF InodesIInv, Named, StateTypeOK
<1>5. links[table[x].dev][table[x].num] > 0
  BY <1>3, <1>4 DEF InodesIInv, LowKept
<1>6. table[x].nlinks = links[table[x].dev][table[x].num]
  BY <1>1, <1>3 DEF InodesIInv, CopyGood
<1> QED
  BY <1>3, <1>5, <1>6

(* The records of the places. *)
LEMMA IdlePlace ==
  /\ Idle \in Place
  /\ Idle.pc = "idle" /\ Idle.back = "idle" /\ Idle.x = 0 /\ Idle.e = 0
BY DEF Idle, Place, Points, Backs, NoSlot

(* m differs from l in pc, x and back only as said. *)
Edited(m, l, p, x, b) ==
  m \in Place /\ m.pc = p /\ m.dev = l.dev /\ m.x = x /\ m.e = l.e /\ m.back = b

LEMMA EditPc ==
  ASSUME NEW l \in Place, NEW p \in Points
  PROVE  Edited([l EXCEPT !.pc = p], l, p, l.x, l.back)
BY DEF Place, Edited

LEMMA EditX ==
  ASSUME NEW l \in Place, NEW y \in Nat
  PROVE  Edited([l EXCEPT !.x = y], l, l.pc, y, l.back)
BY DEF Place, Edited

LEMMA EditPcX ==
  ASSUME NEW l \in Place, NEW p \in Points, NEW y \in Nat
  PROVE  Edited([l EXCEPT !.pc = p, !.x = y], l, p, y, l.back)
<1> DEFINE m1 == [l EXCEPT !.pc = p]
           m2 == [m1 EXCEPT !.x = y]
<1>1. Edited(m1, l, p, l.x, l.back)
  BY EditPc
<1>2. m2 = [l EXCEPT !.pc = p, !.x = y]
  OBVIOUS
<1> HIDE DEF m1
<1>3. Edited(m2, l, p, y, l.back)
  BY <1>1, EditX DEF Edited
<1> HIDE DEF m2
<1> QED
  BY <1>2, <1>3

LEMMA EditPcNum ==
  ASSUME NEW l \in Place, NEW p \in Points, NEW n \in Nat
  PROVE  Edited([l EXCEPT !.pc = p, !.num = n], l, p, l.x, l.back)
<1> DEFINE m1 == [l EXCEPT !.pc = p]
           m2 == [m1 EXCEPT !.num = n]
<1>1. Edited(m1, l, p, l.x, l.back)
  BY EditPc
<1>2. m2 = [l EXCEPT !.pc = p, !.num = n]
  OBVIOUS
<1> HIDE DEF m1
<1>3. Edited(m2, l, p, l.x, l.back)
  BY <1>1 DEF Edited, Place
<1> HIDE DEF m2
<1> QED
  BY <1>2, <1>3

LEMMA EditPcNumBack ==
  ASSUME NEW l \in Place, NEW p \in Points, NEW n \in Nat, NEW b \in Backs
  PROVE  Edited([l EXCEPT !.pc = p, !.num = n, !.back = b], l, p, l.x, b)
<1> DEFINE m1 == [l EXCEPT !.pc = p, !.num = n]
           m2 == [m1 EXCEPT !.back = b]
<1>1. Edited(m1, l, p, l.x, l.back)
  BY EditPcNum
<1>2. m2 = [l EXCEPT !.pc = p, !.num = n, !.back = b]
  OBVIOUS
<1> HIDE DEF m1
<1>3. Edited(m2, l, p, l.x, b)
  BY <1>1 DEF Edited, Place
<1> HIDE DEF m2
<1> QED
  BY <1>2, <1>3

(* The record of a call, field by field. *)
Call(p, d, n, x, e, b) == [pc |-> p, dev |-> d, num |-> n, x |-> x, e |-> e, back |-> b]

LEMMA CallPc ==
  ASSUME NEW p, NEW d, NEW n, NEW x, NEW e, NEW b, NEW v
  PROVE  [Call(p, d, n, x, e, b) EXCEPT !.pc = v] = Call(v, d, n, x, e, b)
BY DEF Call

LEMMA CallDev ==
  ASSUME NEW p, NEW d, NEW n, NEW x, NEW e, NEW b, NEW v
  PROVE  [Call(p, d, n, x, e, b) EXCEPT !.dev = v] = Call(p, v, n, x, e, b)
BY DEF Call

LEMMA CallNum ==
  ASSUME NEW p, NEW d, NEW n, NEW x, NEW e, NEW b, NEW v
  PROVE  [Call(p, d, n, x, e, b) EXCEPT !.num = v] = Call(p, d, v, x, e, b)
BY DEF Call

LEMMA CallX ==
  ASSUME NEW p, NEW d, NEW n, NEW x, NEW e, NEW b, NEW v
  PROVE  [Call(p, d, n, x, e, b) EXCEPT !.x = v] = Call(p, d, n, v, e, b)
BY DEF Call

LEMMA CallE ==
  ASSUME NEW p, NEW d, NEW n, NEW x, NEW e, NEW b, NEW v
  PROVE  [Call(p, d, n, x, e, b) EXCEPT !.e = v] = Call(p, d, n, x, v, b)
BY DEF Call

LEMMA CallBack ==
  ASSUME NEW p, NEW d, NEW n, NEW x, NEW e, NEW b, NEW v
  PROVE  [Call(p, d, n, x, e, b) EXCEPT !.back = v] = Call(p, d, n, x, e, v)
BY DEF Call

LEMMA IdleCall == Idle = Call("idle", 0, 0, 0, 0, "idle")
BY DEF Call, Idle, NoSlot

LEMMA UmountPlace ==
  ASSUME NEW d, NEW x
  PROVE  [Idle EXCEPT !.pc = "iput", !.dev = d, !.x = x, !.back = "umount"]
           = Call("iput", d, 0, x, 0, "umount")
<1>1. [Call("idle", 0, 0, 0, 0, "idle") EXCEPT !.pc = "iput"] = Call("iput", 0, 0, 0, 0, "idle")
  BY CallPc
<1>2. [Idle EXCEPT !.pc = "iput"] = Call("iput", 0, 0, 0, 0, "idle")
  BY <1>1, IdleCall
<1>3. [Call("iput", 0, 0, 0, 0, "idle") EXCEPT !.dev = d] = Call("iput", d, 0, 0, 0, "idle")
  BY CallDev
<1>4. [Idle EXCEPT !.pc = "iput", !.dev = d] = Call("iput", d, 0, 0, 0, "idle")
  BY <1>3, <1>2
<1>5. [Call("iput", d, 0, 0, 0, "idle") EXCEPT !.x = x] = Call("iput", d, 0, x, 0, "idle")
  BY CallX
<1>6. [Idle EXCEPT !.pc = "iput", !.dev = d, !.x = x] = Call("iput", d, 0, x, 0, "idle")
  BY <1>5, <1>4
<1>7. [Call("iput", d, 0, x, 0, "idle") EXCEPT !.back = "umount"] = Call("iput", d, 0, x, 0, "umount")
  BY CallBack
<1> QED
  BY <1>7, <1>6

LEMMA IgetCall ==
  ASSUME NEW d, NEW n, NEW e
  PROVE  [Idle EXCEPT !.dev = d, !.num = n, !.e = e]
           = Call("idle", d, n, 0, e, "idle")
<1>1. [Call("idle", 0, 0, 0, 0, "idle") EXCEPT !.dev = d] = Call("idle", d, 0, 0, 0, "idle")
  BY CallDev
<1>2. [Idle EXCEPT !.dev = d] = Call("idle", d, 0, 0, 0, "idle")
  BY <1>1, IdleCall
<1>3. [Call("idle", d, 0, 0, 0, "idle") EXCEPT !.num = n] = Call("idle", d, n, 0, 0, "idle")
  BY CallNum
<1>4. [Idle EXCEPT !.dev = d, !.num = n] = Call("idle", d, n, 0, 0, "idle")
  BY <1>3, <1>2
<1>5. [Call("idle", d, n, 0, 0, "idle") EXCEPT !.e = e] = Call("idle", d, n, 0, e, "idle")
  BY CallE
<1> QED
  BY <1>5, <1>4

LEMMA IputPlace ==
  ASSUME NEW x \in Nat
  PROVE  LET l == [Idle EXCEPT !.pc = "iput", !.x = x]
         IN  l \in Place /\ l.pc = "iput" /\ l.x = x /\ l.back = "idle"
<1>1. "iput" \in Points
  BY DEF Points
<1>2. Edited([Idle EXCEPT !.pc = "iput", !.x = x], Idle, "iput", x, Idle.back)
  BY <1>1, IdlePlace, EditPcX
<1> QED
  BY <1>2, IdlePlace DEF Edited

LEMMA StartIputKeeps ==
  ASSUME InodesIInv, NEW t \in Tasks, NEW x \in Slots, StartIput(t, x)
  PROVE  InodesIInv'
<1>1. /\ loc[t].pc = "idle" /\ refs[t][x] > 0
      /\ refs' = [refs EXCEPT ![t][x] = @ - 1]
      /\ loc' = [loc EXCEPT ![t] = [Idle EXCEPT !.pc = "iput", !.x = x]]
      /\ UNCHANGED <<table, disk, imap, sb, links>>
  BY DEF StartIput, Goto
<1>2. refs \in [Tasks -> [Slots -> Nat]] /\ loc \in [Tasks -> Place] /\ table \in [Slots -> Inode]
  BY DEF InodesIInv, StateTypeOK
<1>3. /\ loc'[t].pc = "iput" /\ loc'[t].x = x /\ loc'[t].back = "idle"
      /\ loc'[t] \in Place
  <2>1. loc'[t] = [Idle EXCEPT !.pc = "iput", !.x = x] /\ x \in Nat
    BY <1>1, <1>2 DEF Slots
  <2> QED
    BY <2>1, IputPlace
<1>4. loc' \in [Tasks -> Place]
  BY <1>1, <1>2, <1>3
<1>5. refs' \in [Tasks -> [Slots -> Nat]] /\ refs'[t][x] = refs[t][x] - 1
      /\ \A y \in Slots : y # x => refs'[t][y] = refs[t][y]
  BY <1>1, <1>2
<1>6. Alone(t)
  BY <1>1, <1>2 DEF Alone
<1>7. Calm(loc'[t]) /\ loc[t] \in Place
  BY <1>2, <1>3 DEF Calm
<1>8. table[x].dev # 0
  BY <1>1 DEF InodesIInv, Named
<1>9. InIput(t)'
  BY <1>1, <1>3, <1>8 DEF InIput
<1>10. \A y \in Slots : Balanced(t, y)
  BY <1>1, <1>3, <1>5 DEF Balanced, InCall
<1>11. Calm(loc[t])
  BY <1>1 DEF Calm
<1> QED
  BY <1>1, <1>2, <1>4, <1>5, <1>6, <1>7, <1>9, <1>10, <1>11, PlaceKeeps

LEMMA StartSyncKeeps ==
  ASSUME InodesIInv, NEW t \in Tasks, StartSync(t)
  PROVE  InodesIInv'
<1>1. /\ loc[t].pc = "idle"
      /\ loc' = [loc EXCEPT ![t] = [Idle EXCEPT !.pc = "sync", !.x = 1]]
      /\ UNCHANGED <<table, disk, imap, sb, links, refs>>
  BY DEF StartSync, Goto
<1>2. refs \in [Tasks -> [Slots -> Nat]] /\ loc \in [Tasks -> Place]
  BY DEF InodesIInv, StateTypeOK
<1>3. loc'[t] \in Place /\ loc'[t].pc = "sync" /\ loc'[t].back = "idle"
  <2>1. loc'[t] = [Idle EXCEPT !.pc = "sync", !.x = 1]
    BY <1>1, <1>2
  <2>2. "sync" \in Points
    BY DEF Points
  <2>3. Edited([Idle EXCEPT !.pc = "sync", !.x = 1], Idle, "sync", 1, Idle.back)
    BY <2>2, IdlePlace, EditPcX
  <2> QED
    BY <2>1, <2>3, IdlePlace DEF Edited
<1>4. loc' \in [Tasks -> Place] /\ Alone(t)
  BY <1>1, <1>2, <1>3 DEF Alone
<1>5. Calm(loc[t]) /\ Calm(loc'[t]) /\ InIput(t)'
  BY <1>1, <1>3 DEF Calm, InIput
<1>6. \A y \in Slots : Balanced(t, y)
  BY <1>1, <1>3 DEF Balanced, InCall
<1> QED
  BY <1>1, <1>2, <1>4, <1>5, <1>6, PlaceKeeps

(* sync_inodes() passes a clean inode, or ends. *)
LEMMA SyncPassKeeps ==
  ASSUME InodesIInv, NEW t \in Tasks, loc[t].pc = "sync",
         \/ loc' = [loc EXCEPT ![t] = Idle]
         \/ loc' = [loc EXCEPT ![t] = [loc[t] EXCEPT !.x = @ + 1]],
         UNCHANGED <<table, disk, imap, sb, links, refs>>
  PROVE  InodesIInv'
<1>2. refs \in [Tasks -> [Slots -> Nat]] /\ loc \in [Tasks -> Place]
  BY DEF InodesIInv, StateTypeOK
<1>3. loc'[t] \in Place /\ loc'[t].pc \in {"sync", "idle"} /\ loc'[t].back # "umount"
  <2>1. loc[t].back # "umount"
    BY DEF InodesIInv, InIput
  <2>2. loc[t] \in Place /\ loc[t].x + 1 \in Nat
    BY <1>2 DEF Place
  <2>3. loc'[t] = Idle \/ loc'[t] = [loc[t] EXCEPT !.x = loc[t].x + 1]
    BY <1>2
  <2>5. CASE loc'[t] = Idle
    BY <2>5, IdlePlace
  <2>6. CASE loc'[t] = [loc[t] EXCEPT !.x = loc[t].x + 1]
    BY <2>1, <2>2, <2>6, EditX DEF Edited
  <2> QED
    BY <2>3, <2>5, <2>6
<1>4. loc' \in [Tasks -> Place] /\ Alone(t)
  BY <1>2, <1>3 DEF Alone
<1>5. Calm(loc[t]) /\ Calm(loc'[t]) /\ InIput(t)'
  BY <1>3 DEF Calm, InIput
<1>6. \A y \in Slots : Balanced(t, y)
  BY <1>3 DEF Balanced, InCall
<1> QED
  BY <1>2, <1>4, <1>5, <1>6, PlaceKeeps

(* iput() begins to delete an inode without links. *)
LEMMA TruncateKeeps ==
  ASSUME InodesIInv, NEW t \in Tasks, loc[t].pc = "iput", ~table[loc[t].x].lock,
         LastUse(loc[t].x), table[loc[t].x].nlinks = 0,
         loc' = [loc EXCEPT ![t] = [loc[t] EXCEPT !.pc = "truncate"]],
         UNCHANGED <<table, disk, imap, sb, links, refs>>
  PROVE  InodesIInv'
<1> DEFINE x == loc[t].x
<1>1. refs \in [Tasks -> [Slots -> Nat]] /\ loc \in [Tasks -> Place]
  BY DEF InodesIInv, StateTypeOK
<1>2. x \in Slots /\ loc[t].back # "sync" /\ table[x].dev # 0
  BY DEF InodesIInv, InIput
<1>3. loc[t].back # "umount"
  <2>1. loc[t].back = "umount" => loc[t].dev \in Devs /\ sb[loc[t].dev].imount = x
    BY DEF InodesIInv, InMount
  <2>2. table[x].nlinks = 0
    OBVIOUS
  <2> QED
    BY <1>2, <2>1, <2>2, MountedLinks
<1>4. loc[t].back = "idle"
  BY <1>1, <1>2, <1>3 DEF Place, Backs
<1>5. loc'[t] \in Place /\ loc'[t].pc = "truncate" /\ loc'[t].back = "idle" /\ loc'[t].x = x
  <2>1. loc'[t] = [loc[t] EXCEPT !.pc = "truncate"] /\ loc[t] \in Place
    BY <1>1
  <2>2. "truncate" \in Points
    BY DEF Points
  <2>3. Edited([loc[t] EXCEPT !.pc = "truncate"], loc[t], "truncate", loc[t].x, loc[t].back)
    BY <2>1, <2>2, EditPc
  <2> QED
    BY <1>4, <2>1, <2>3 DEF Edited
<1>6. loc' \in [Tasks -> Place] /\ Alone(t)
  BY <1>1, <1>5 DEF Alone
<1>7. Calm(loc[t]) /\ Calm(loc'[t])
  BY <1>4, <1>5 DEF Calm
<1>8. InIput(t)'
  BY <1>2, <1>5 DEF InIput, LastUse
<1>9. \A y \in Slots : Balanced(t, y)
  BY <1>4, <1>5 DEF Balanced, InCall
<1> QED
  BY <1>1, <1>6, <1>7, <1>8, <1>9, PlaceKeeps

----------------------------------------------------------------------------
(* In a second kind of steps the task changes one inode of the table,      *)
(* which stays the same inode.                                             *)
OnlySlot(x) ==
  /\ \A y \in Slots : y # x => table'[y] = table[y]
  /\ table'[x].dev = table[x].dev /\ table'[x].num = table[x].num

(* Neither a search nor a mount begins or ends. *)
Busying(t) ==
  /\ loc[t].pc \in {"idle", "iput", "write", "sync"}
  /\ loc'[t].pc \in {"idle", "iput", "write", "sync"}
  /\ \A d \in Devs : Unmounting(t, d)' <=> Unmounting(t, d)
  /\ InIput(t)' /\ InMount(t)'

(* What the others must find unchanged. *)
OthersUndisturbed(t, x) ==
  \A u \in Tasks : u # t =>
    /\ loc[u].pc \in {"find", "read"} => loc[u].e # x
    /\ loc[u].pc = "write" /\ loc[u].x = x => table'[x].lock
    /\ loc[u].pc = "truncate" => loc[u].x # x

LEMMA EntryKeeps ==
  ASSUME InodesIInv, StateTypeOK', NEW t \in Tasks, NEW x \in Slots, Alone(t),
         imap' = imap, sb' = sb, OnlySlot(x), Busying(t), OthersUndisturbed(t, x),
         \A y \in Slots : Balanced(t, y),
         \A y \in Slots : refs'[t][y] > 0 => refs[t][y] > 0,
         table[x].dev # 0, table'[x].count <= table[x].count,
         table'[x].mount => table[x].mount,
         table'[x].count = 0 => ~table'[x].dirt /\ ~table'[x].lock,
         \A y \in Slots : LockedBy(t, y)' /\ ~LockedBy(t, y) => y = x /\ ~table[x].lock,
         LowKept', CopyGood', DiskGood',
         \A u \in Tasks : loc[u].pc = "find" => links'[loc[u].dev][loc[u].num] > 0
  PROVE  InodesIInv'
<1>0. /\ refs \in [Tasks -> [Slots -> Nat]] /\ loc \in [Tasks -> Place] /\ table \in [Slots -> Inode]
      /\ refs' \in [Tasks -> [Slots -> Nat]] /\ loc' \in [Tasks -> Place] /\ table' \in [Slots -> Inode]
  BY DEF InodesIInv, StateTypeOK
<1>1. \A y \in Slots : /\ table'[y].dev = table[y].dev /\ table'[y].num = table[y].num
                       /\ table'[y].count <= table[y].count
                       /\ table[y].count \in Nat /\ table'[y].count \in Nat
  BY <1>0 DEF OnlySlot, Inode
<1>2. Counted'
  <2>1. ASSUME NEW y \in Slots PROVE Exact(y)'
    <3>1. Mounts(y)' = Mounts(y)
      BY DEF Mounts
    <3>2. Exact(y)
      BY DEF InodesIInv, Counted
    <3> QED
      BY <1>0, <3>1, <3>2, ExactStep
  <2> QED
    BY <2>1 DEF Counted
<1>3. FreeIsClean'
  BY DEF InodesIInv, FreeIsClean, OnlySlot
<1>4. DeviceStays'
  BY <1>1 DEF InodesIInv, DeviceStays
<1>5. Named'
  <2>1. \A y \in Slots : table'[y].dirt => table'[y].dev # 0
    BY DEF InodesIInv, Named, OnlySlot
  <2> QED
    BY <1>1, <2>1 DEF InodesIInv, Named, Alone, InodeUnique
<1>6. \A d \in Devs, n \in Nums : Awaited(d, n)' <=> Awaited(d, n)
  BY DEF Awaited, Alone, Busying
<1>a. \A d \in Devs : Quiet(d) => Quiet(d)'
  <2>1. \A y \in Slots : table[y].count = 0 => table'[y].count = 0
    BY <1>1
  <2> QED
    BY <1>1, <1>6, <2>1 DEF Quiet
<1>7. \A u \in Tasks, d \in Devs : Unmounting(u, d)' <=> Unmounting(u, d)
  BY DEF Unmounting, Alone, Busying
<1>8. \A y \in Slots : Mounts(y)' = Mounts(y)
  BY DEF Mounts
<1>9. \A y \in Slots : table'[y].mount => table[y].mount
  BY DEF OnlySlot
<1>10. ASSUME NEW u \in Tasks PROVE InIget(u)' /\ InIput(u)' /\ InMount(u)'
  <2>1. CASE u = t
    BY <2>1 DEF InIget, Busying
  <2>2. CASE u # t
    <3>1. loc'[u] = loc[u]
      BY <2>2 DEF Alone
    <3>2. InIget(u) /\ InIput(u) /\ InMount(u) /\ loc[u] \in Place
      BY <1>0 DEF InodesIInv
    <3>3. InIget(u)'
      BY <2>2, <3>1, <3>2 DEF InIget, OnlySlot, OthersUndisturbed
    <3>4. InIput(u)'
      BY <1>1, <2>2, <3>1, <3>2 DEF InIput, OnlySlot, OthersUndisturbed
    <3>5. InMount(u)'
      <4>1. loc[u].pc \in {"iput", "write"} => loc[u].x \in Slots
        BY <3>2 DEF InIput
      <4>3. loc[u].pc = "super" => table'[loc[u].x].dev # 0 /\ table'[loc[u].x].num <= MountPoint
        BY <1>1, <3>2 DEF InMount
      <4> QED
        BY <1>1, <1>a, <1>8, <1>9, <3>1, <3>2, <4>1, <4>3 DEF InMount
    <3> QED
      BY <3>3, <3>4, <3>5
  <2> QED
    BY <2>1, <2>2
<1>11. Apart'
  <2>1. \A u \in Tasks, y \in Slots : u # t => (LockedBy(u, y)' <=> LockedBy(u, y))
    BY DEF LockedBy, Alone
  <2>2. \A u \in Tasks : loc'[u].pc = "super" => u # t /\ loc'[u] = loc[u]
    BY DEF Alone, Busying
  <2>3. \A u \in Tasks, y \in Slots : LockedBy(u, y) => table[y].lock
    BY DEF InodesIInv, LockedBy, InIget, InIput
  <2>4. \A u \in Tasks, y \in Slots : u # t => ~(LockedBy(t, y)' /\ LockedBy(u, y)')
    BY <2>1, <2>3 DEF InodesIInv, Apart
  <2>5. \A u, v \in Tasks : u # v => \A y \in Slots : ~(LockedBy(u, y)' /\ LockedBy(v, y)')
    BY <2>1, <2>4 DEF InodesIInv, Apart
  <2> QED
    BY <1>7, <2>2, <2>5 DEF InodesIInv, Apart
<1>12. MountsOK'
  BY <1>1, <1>7, <1>9 DEF InodesIInv, MountsOK
<1> QED
  BY <1>2, <1>3, <1>4, <1>5, <1>10, <1>11, <1>12 DEF InodesIInv

(* The records of the table: T becomes U by a change of one field of x.    *)
Changed(U, T, x, f) ==
  /\ U \in [Slots -> Inode]
  /\ \A y \in Slots : y # x => U[y] = T[y]
  /\ f # "dev" => U[x].dev = T[x].dev
  /\ f # "num" => U[x].num = T[x].num
  /\ f # "count" => U[x].count = T[x].count
  /\ f # "nlinks" => U[x].nlinks = T[x].nlinks
  /\ f # "dirt" => U[x].dirt = T[x].dirt
  /\ f # "lock" => U[x].lock = T[x].lock
  /\ f # "mount" => U[x].mount = T[x].mount

LEMMA SetDev ==
  ASSUME NEW T \in [Slots -> Inode], NEW x \in Slots, NEW v \in Devs \cup {0}
  PROVE  /\ Changed([T EXCEPT ![x].dev = v], T, x, "dev")
         /\ [T EXCEPT ![x].dev = v][x].dev = v
<1> DEFINE r == [T[x] EXCEPT !.dev = v]
           U == [T EXCEPT ![x] = r]
<1>1. T[x] \in Inode
  OBVIOUS
<1>2. r \in Inode /\ r.dev = v /\ r.num = T[x].num /\ r.count = T[x].count
      /\ r.nlinks = T[x].nlinks /\ r.dirt = T[x].dirt /\ r.lock = T[x].lock /\ r.mount = T[x].mount
  BY <1>1 DEF Inode
<1> HIDE DEF r
<1>3. U \in [Slots -> Inode] /\ U[x] = r /\ \A y \in Slots : y # x => U[y] = T[y]
  BY <1>2
<1>4. U = [T EXCEPT ![x].dev = v]
  BY DEF r
<1> HIDE DEF U
<1> QED
  BY <1>2, <1>3, <1>4 DEF Changed

LEMMA SetNum ==
  ASSUME NEW T \in [Slots -> Inode], NEW x \in Slots, NEW v \in Nat
  PROVE  /\ Changed([T EXCEPT ![x].num = v], T, x, "num")
         /\ [T EXCEPT ![x].num = v][x].num = v
<1> DEFINE r == [T[x] EXCEPT !.num = v]
           U == [T EXCEPT ![x] = r]
<1>1. T[x] \in Inode
  OBVIOUS
<1>2. r \in Inode /\ r.num = v /\ r.dev = T[x].dev /\ r.count = T[x].count
      /\ r.nlinks = T[x].nlinks /\ r.dirt = T[x].dirt /\ r.lock = T[x].lock /\ r.mount = T[x].mount
  BY <1>1 DEF Inode
<1> HIDE DEF r
<1>3. U \in [Slots -> Inode] /\ U[x] = r /\ \A y \in Slots : y # x => U[y] = T[y]
  BY <1>2
<1>4. U = [T EXCEPT ![x].num = v]
  BY DEF r
<1> HIDE DEF U
<1> QED
  BY <1>2, <1>3, <1>4 DEF Changed

LEMMA SetCount ==
  ASSUME NEW T \in [Slots -> Inode], NEW x \in Slots, NEW v \in Nat
  PROVE  /\ Changed([T EXCEPT ![x].count = v], T, x, "count")
         /\ [T EXCEPT ![x].count = v][x].count = v
<1> DEFINE r == [T[x] EXCEPT !.count = v]
           U == [T EXCEPT ![x] = r]
<1>1. T[x] \in Inode
  OBVIOUS
<1>2. r \in Inode /\ r.count = v /\ r.dev = T[x].dev /\ r.num = T[x].num
      /\ r.nlinks = T[x].nlinks /\ r.dirt = T[x].dirt /\ r.lock = T[x].lock /\ r.mount = T[x].mount
  BY <1>1 DEF Inode
<1> HIDE DEF r
<1>3. U \in [Slots -> Inode] /\ U[x] = r /\ \A y \in Slots : y # x => U[y] = T[y]
  BY <1>2
<1>4. U = [T EXCEPT ![x].count = v]
  BY DEF r
<1> HIDE DEF U
<1> QED
  BY <1>2, <1>3, <1>4 DEF Changed

LEMMA SetNlinks ==
  ASSUME NEW T \in [Slots -> Inode], NEW x \in Slots, NEW v \in Nat
  PROVE  /\ Changed([T EXCEPT ![x].nlinks = v], T, x, "nlinks")
         /\ [T EXCEPT ![x].nlinks = v][x].nlinks = v
<1> DEFINE r == [T[x] EXCEPT !.nlinks = v]
           U == [T EXCEPT ![x] = r]
<1>1. T[x] \in Inode
  OBVIOUS
<1>2. r \in Inode /\ r.nlinks = v /\ r.dev = T[x].dev /\ r.num = T[x].num /\ r.count = T[x].count
      /\ r.dirt = T[x].dirt /\ r.lock = T[x].lock /\ r.mount = T[x].mount
  BY <1>1 DEF Inode
<1> HIDE DEF r
<1>3. U \in [Slots -> Inode] /\ U[x] = r /\ \A y \in Slots : y # x => U[y] = T[y]
  BY <1>2
<1>4. U = [T EXCEPT ![x].nlinks = v]
  BY DEF r
<1> HIDE DEF U
<1> QED
  BY <1>2, <1>3, <1>4 DEF Changed

LEMMA SetDirt ==
  ASSUME NEW T \in [Slots -> Inode], NEW x \in Slots, NEW v \in BOOLEAN
  PROVE  /\ Changed([T EXCEPT ![x].dirt = v], T, x, "dirt")
         /\ [T EXCEPT ![x].dirt = v][x].dirt = v
<1> DEFINE r == [T[x] EXCEPT !.dirt = v]
           U == [T EXCEPT ![x] = r]
<1>1. T[x] \in Inode
  OBVIOUS
<1>2. r \in Inode /\ r.dirt = v /\ r.dev = T[x].dev /\ r.num = T[x].num /\ r.count = T[x].count
      /\ r.nlinks = T[x].nlinks /\ r.lock = T[x].lock /\ r.mount = T[x].mount
  BY <1>1 DEF Inode
<1> HIDE DEF r
<1>3. U \in [Slots -> Inode] /\ U[x] = r /\ \A y \in Slots : y # x => U[y] = T[y]
  BY <1>2
<1>4. U = [T EXCEPT ![x].dirt = v]
  BY DEF r
<1> HIDE DEF U
<1> QED
  BY <1>2, <1>3, <1>4 DEF Changed

LEMMA SetLock ==
  ASSUME NEW T \in [Slots -> Inode], NEW x \in Slots, NEW v \in BOOLEAN
  PROVE  /\ Changed([T EXCEPT ![x].lock = v], T, x, "lock")
         /\ [T EXCEPT ![x].lock = v][x].lock = v
<1> DEFINE r == [T[x] EXCEPT !.lock = v]
           U == [T EXCEPT ![x] = r]
<1>1. T[x] \in Inode
  OBVIOUS
<1>2. r \in Inode /\ r.lock = v /\ r.dev = T[x].dev /\ r.num = T[x].num /\ r.count = T[x].count
      /\ r.nlinks = T[x].nlinks /\ r.dirt = T[x].dirt /\ r.mount = T[x].mount
  BY <1>1 DEF Inode
<1> HIDE DEF r
<1>3. U \in [Slots -> Inode] /\ U[x] = r /\ \A y \in Slots : y # x => U[y] = T[y]
  BY <1>2
<1>4. U = [T EXCEPT ![x].lock = v]
  BY DEF r
<1> HIDE DEF U
<1> QED
  BY <1>2, <1>3, <1>4 DEF Changed

LEMMA SetMount ==
  ASSUME NEW T \in [Slots -> Inode], NEW x \in Slots, NEW v \in BOOLEAN
  PROVE  /\ Changed([T EXCEPT ![x].mount = v], T, x, "mount")
         /\ [T EXCEPT ![x].mount = v][x].mount = v
<1> DEFINE r == [T[x] EXCEPT !.mount = v]
           U == [T EXCEPT ![x] = r]
<1>1. T[x] \in Inode
  OBVIOUS
<1>2. r \in Inode /\ r.mount = v /\ r.dev = T[x].dev /\ r.num = T[x].num /\ r.count = T[x].count
      /\ r.nlinks = T[x].nlinks /\ r.dirt = T[x].dirt /\ r.lock = T[x].lock
  BY <1>1 DEF Inode
<1> HIDE DEF r
<1>3. U \in [Slots -> Inode] /\ U[x] = r /\ \A y \in Slots : y # x => U[y] = T[y]
  BY <1>2
<1>4. U = [T EXCEPT ![x].mount = v]
  BY DEF r
<1> HIDE DEF U
<1> QED
  BY <1>2, <1>3, <1>4 DEF Changed

(* link() and unlink(). *)
LEMMA SetLinksKeeps ==
  ASSUME InodesIInv, Races = {}, NEW t \in Tasks, NEW x \in Slots, NEW v \in Nat, SetLinks(t, x, v)
  PROVE  InodesIInv'
<1> DEFINE d == table[x].dev
           n == table[x].num
           T == [table EXCEPT ![x].nlinks = v]
<1>1. /\ loc[t].pc = "idle" /\ refs[t][x] > 0 /\ table[x].nlinks > 0
      /\ n > MountPoint /\ (v = 0 => ~Awaited(d, n))
      /\ table' = [table EXCEPT ![x].nlinks = v, ![x].dirt = TRUE]
      /\ links' = [links EXCEPT ![d][n] = v]
      /\ UNCHANGED <<disk, imap, sb, loc, refs>>
  BY DEF SetLinks
<1>2. StateTypeOK
  BY DEF InodesIInv
<1>3. T \in [Slots -> Inode] /\ T[x].dev = d /\ T[x].num = n /\ T[x].nlinks = v
      /\ T[x].count = table[x].count /\ T[x].lock = table[x].lock /\ T[x].mount = table[x].mount
      /\ \A y \in Slots : y # x => T[y] = table[y]
  <2>1. table \in [Slots -> Inode]
    BY <1>2 DEF StateTypeOK
  <2>2. Changed(T, table, x, "nlinks") /\ T[x].nlinks = v
    BY <2>1, SetNlinks
  <2> QED
    BY <2>2 DEF Changed
<1>4. table' = [T EXCEPT ![x].dirt = TRUE]
  BY <1>1
<1> HIDE DEF T
<1>5. /\ table' \in [Slots -> Inode] /\ OnlySlot(x)
      /\ table'[x].count = table[x].count /\ table'[x].lock = table[x].lock
      /\ table'[x].mount = table[x].mount /\ table'[x].nlinks = v /\ table'[x].dirt = TRUE
  <2>1. Changed(table', T, x, "dirt") /\ table'[x].dirt = TRUE
    BY <1>3, <1>4, SetDirt
  <2> QED
    BY <1>3, <2>1 DEF Changed, OnlySlot
<1>6. d \in Devs /\ n \in imap[d] /\ imap[d] \subseteq Nums /\ n \in Nums
  <2>1. d # 0
    BY <1>1 DEF InodesIInv, Named
  <2>2. d \in Devs
    BY <1>2, <2>1 DEF StateTypeOK, Inode
  <2> QED
    BY <1>2, <2>1, <2>2 DEF InodesIInv, Named, StateTypeOK
<1>7. /\ links' \in [Devs -> [Nums -> Nat]] /\ links'[d][n] = v
      /\ \A c \in Devs, m \in Nums : c # d \/ m # n => links'[c][m] = links[c][m]
  BY <1>1, <1>2, <1>6 DEF StateTypeOK
<1>8. StateTypeOK'
  BY <1>1, <1>2, <1>5, <1>7 DEF StateTypeOK
<1>9. LowKept'
  <2> SUFFICES ASSUME NEW c \in Devs, NEW m \in Nums, m <= MountPoint
               PROVE  m \in imap[c] /\ links'[c][m] > 0
    BY <1>1 DEF LowKept
  <2>1. m # n
    BY <1>1 DEF Nums, MountPoint
  <2> QED
    BY <1>7, <2>1 DEF InodesIInv, LowKept
<1>10. User(t, x) /\ table[x].count > 0
  BY <1>1, SlotFacts DEF User
<1>11. \A u \in Tasks : loc[u].pc = "find" => links'[loc[u].dev][loc[u].num] > 0
  <2> SUFFICES ASSUME NEW u \in Tasks, loc[u].pc = "find"
               PROVE  links'[loc[u].dev][loc[u].num] > 0
    OBVIOUS
  <2>1. loc[u].dev \in Devs /\ loc[u].num \in imap[loc[u].dev] /\ links[loc[u].dev][loc[u].num] > 0
    BY DEF InodesIInv, InIget
  <2>2. loc[u].num \in Nums
    BY <1>2, <2>1 DEF StateTypeOK
  <2>3. CASE loc[u].dev = d /\ loc[u].num = n
    <3>1. Awaited(d, n)
      BY <2>3 DEF Awaited
    <3> QED
      BY <1>1, <1>7, <2>3, <3>1
  <2>4. CASE ~(loc[u].dev = d /\ loc[u].num = n)
    BY <1>7, <2>1, <2>2, <2>4
  <2> QED
    BY <2>3, <2>4
<1>12. Alone(t)
  BY <1>1 DEF Alone
<1>13. \A u \in Tasks : loc[u].pc \in {"find", "read"} => loc[u].e # x
  <2> SUFFICES ASSUME NEW u \in Tasks, loc[u].pc \in {"find", "read"}, loc[u].e = x
               PROVE  FALSE
    OBVIOUS
  <2>1. InCall(loc[u], x) /\ User(u, x)
    BY DEF InCall, User
  <2>2. table[x].count > 1
    BY <1>1, <1>10, <2>1, SlotFacts
  <2>3. table[x].count = 1
    BY DEF InodesIInv, InIget, Zeroed
  <2> QED
    BY <2>2, <2>3
<1>14. \A u \in Tasks : loc[u].pc = "truncate" => loc[u].x # x
  BY <1>1 DEF InodesIInv, InIput
<1>15. OthersUndisturbed(t, x)
  BY <1>5, <1>13, <1>14 DEF OthersUndisturbed, InodesIInv, InIput
<1>16. Busying(t)
  BY <1>1 DEF Busying, Unmounting, InIput, InMount
<1>17. \A y \in Slots : Balanced(t, y)
  BY <1>1, <1>5 DEF Balanced, OnlySlot
<1>18. \A y \in Slots : Reading(y)' <=> Reading(y)
  BY <1>1 DEF Reading
<1>19. CopyGood'
  <2> SUFFICES ASSUME NEW y \in Slots, table'[y].dev # 0, ~Reading(y)
               PROVE  /\ table'[y].nlinks = links'[table'[y].dev][table'[y].num]
                      /\ table'[y].dirt \/ disk[table'[y].dev][table'[y].num]
                                             = links'[table'[y].dev][table'[y].num]
    BY <1>1, <1>18 DEF CopyGood
  <2>1. CASE y = x
    BY <1>5, <1>7, <2>1 DEF OnlySlot
  <2>2. CASE y # x
    <3>1. table'[y] = table[y]
      BY <1>5, <2>2 DEF OnlySlot
    <3>2. table[y].dev \in Devs /\ table[y].num \in Nums
      <4>1. table[y].dev \in Devs
        BY <1>2, <3>1 DEF StateTypeOK, Inode
      <4> QED
        BY <1>2, <3>1, <4>1 DEF InodesIInv, Named, StateTypeOK
    <3>3. ~(table[y].dev = d /\ table[y].num = n)
      BY <1>6, <2>2, <3>1 DEF InodesIInv, Named, InodeUnique
    <3> QED
      BY <1>7, <3>1, <3>2, <3>3 DEF InodesIInv, CopyGood
  <2> QED
    BY <2>1, <2>2
<1>20. DiskGood'
  <2> SUFFICES ASSUME NEW c \in Devs, NEW m \in imap[c],
                      \A y \in Slots : table'[y].dev = c /\ table'[y].num = m => Reading(y)
               PROVE  disk[c][m] = links'[c][m]
    BY <1>1, <1>18 DEF DiskGood
  <2>1. ~Reading(x)
    BY <1>13 DEF Reading
  <2>2. ~(c = d /\ m = n)
    BY <1>5, <2>1 DEF OnlySlot
  <2>3. \A y \in Slots : table[y].dev = c /\ table[y].num = m => Reading(y)
    BY <1>5 DEF OnlySlot
  <2>4. m \in Nums
    BY <1>2 DEF StateTypeOK
  <2> QED
    BY <1>7, <2>2, <2>3, <2>4 DEF InodesIInv, DiskGood
<1>21. \A y \in Slots : LockedBy(t, y)' <=> LockedBy(t, y)
  BY <1>1 DEF LockedBy
<1>22. table[x].count <= table[x].count /\ ~(table'[x].count = 0)
  BY <1>2, <1>5, <1>10 DEF StateTypeOK, Inode
<1>23. table[x].dev # 0
  BY <1>1 DEF InodesIInv, Named
<1> QED
  BY <1>1, <1>5, <1>8, <1>9, <1>11, <1>12, <1>15, <1>16, <1>17, <1>19, <1>20, <1>21, <1>22,
     <1>23, EntryKeeps

(* The inode that iput() puts is nobody's to read, and nobody deletes it. *)
LEMMA IputAlone ==
  ASSUME InodesIInv, NEW t \in Tasks, loc[t].pc \in {"iput", "write"}, loc[t].back # "sync"
  PROVE  /\ loc[t].x \in Slots /\ table[loc[t].x].count > 0
         /\ \A u \in Tasks : u # t =>
              /\ loc[u].pc \in {"find", "read"} => loc[u].e # loc[t].x
              /\ loc[u].pc = "truncate" => loc[u].x # loc[t].x
<1> DEFINE x == loc[t].x
<1>1. x \in Slots /\ loc[t] \in Place
  BY DEF InodesIInv, InIput, StateTypeOK
<1>2. User(t, x) \/ \E d \in Devs : sb[d].imount = x
  <2>1. CASE loc[t].back = "idle"
    BY <2>1 DEF User, InCall
  <2>2. CASE loc[t].back = "umount"
    BY <2>2 DEF InodesIInv, InMount
  <2> QED
    BY <1>1, <2>1, <2>2 DEF Place, Backs
<1>3. table[x].count > 0
  BY <1>1, <1>2, SlotFacts
<1>4. ASSUME NEW u \in Tasks, u # t, User(u, x), table[x].count = 1
      PROVE  FALSE
  <2>1. table[x].count > 1
    BY <1>1, <1>2, <1>4, SlotFacts
  <2> QED
    BY <1>4, <2>1
<1>5. ASSUME NEW u \in Tasks, u # t, loc[u].pc \in {"find", "read"}, loc[u].e = x
      PROVE  FALSE
  <2>1. User(u, x)
    BY <1>5 DEF User, InCall
  <2>2. table[x].count = 1
    BY <1>5 DEF InodesIInv, InIget, Zeroed
  <2> QED
    BY <1>4, <1>5, <2>1, <2>2
<1>6. ASSUME NEW u \in Tasks, u # t, loc[u].pc = "truncate", loc[u].x = x
      PROVE  FALSE
  <2>1. loc[u].back = "idle" /\ table[x].count = 1
    BY <1>6 DEF InodesIInv, InIput
  <2>2. User(u, x)
    BY <1>6, <2>1 DEF User, InCall
  <2> QED
    BY <1>4, <1>6, <2>1, <2>2
<1> QED
  BY <1>1, <1>3, <1>5, <1>6

(* Link counts stay right when neither they nor the disk change. *)
LEMMA CopiesStay ==
  ASSUME InodesIInv, UNCHANGED <<disk, imap, links>>,
         \A y \in Slots : /\ table'[y].dev = table[y].dev /\ table'[y].num = table[y].num
                          /\ table'[y].nlinks = table[y].nlinks
                          /\ table[y].dirt => table'[y].dirt,
         \A y \in Slots : Reading(y)' <=> Reading(y)
  PROVE  LowKept' /\ CopyGood' /\ DiskGood'
<1>1. LowKept'
  BY DEF InodesIInv, LowKept
<1>2. CopyGood'
  BY DEF InodesIInv, CopyGood
<1>3. DiskGood'
  BY DEF InodesIInv, DiskGood
<1> QED
  BY <1>1, <1>2, <1>3

(* iput() gives up its reference; it is not the iput() of sys_umount(). *)
LEMMA IputDropKeeps ==
  ASSUME InodesIInv, NEW t \in Tasks, loc[t].pc = "iput", ~table[loc[t].x].lock,
         ~LastUse(loc[t].x) \/ ~table[loc[t].x].dirt, loc[t].back # "umount",
         table' = [table EXCEPT ![loc[t].x].count = @ - 1],
         loc' = [loc EXCEPT ![t] = Idle],
         UNCHANGED <<disk, imap, sb, links, refs>>
  PROVE  InodesIInv'
<1> DEFINE x == loc[t].x
<1>1. loc[t].back # "sync"
  BY DEF InodesIInv, InIput
<1>2. /\ x \in Slots /\ table[x].count > 0
      /\ \A u \in Tasks : u # t => /\ loc[u].pc \in {"find", "read"} => loc[u].e # x
                                   /\ loc[u].pc = "truncate" => loc[u].x # x
  BY <1>1, IputAlone
<1>3. StateTypeOK
  BY DEF InodesIInv
<1>4. table[x].count \in Nat /\ table[x].count - 1 \in Nat /\ table \in [Slots -> Inode]
  BY <1>2, <1>3 DEF StateTypeOK, Inode
<1>5. Changed(table', table, x, "count") /\ table'[x].count = table[x].count - 1
  BY <1>2, <1>4, SetCount
<1>6. loc \in [Tasks -> Place] /\ loc'[t] = Idle /\ loc' \in [Tasks -> Place] /\ Alone(t)
  BY <1>3, IdlePlace DEF StateTypeOK, Alone
<1>7. StateTypeOK'
  BY <1>3, <1>5, <1>6 DEF StateTypeOK, Changed
<1>8. OnlySlot(x)
  BY <1>5 DEF OnlySlot, Changed
<1>9. \A y \in Slots : /\ table'[y].dev = table[y].dev /\ table'[y].num = table[y].num
                       /\ table'[y].nlinks = table[y].nlinks
                       /\ table[y].dirt => table'[y].dirt
  BY <1>5 DEF Changed
<1>10. \A y \in Slots : Reading(y)' <=> Reading(y)
  BY <1>6, IdlePlace DEF Reading, Alone
<1>11. LowKept' /\ CopyGood' /\ DiskGood'
  BY <1>9, <1>10, CopiesStay
<1>12. Busying(t)
  BY <1>6, IdlePlace DEF Busying, Unmounting, InIput, InMount
<1>13. OthersUndisturbed(t, x)
  <2>1. \A u \in Tasks : u # t => ~(loc[u].pc = "write" /\ loc[u].x = x)
    BY DEF InodesIInv, InIput
  <2> QED
    BY <1>2, <2>1 DEF OthersUndisturbed
<1>14. InCall(loc[t], x) /\ \A y \in Slots : y # x => ~InCall(loc[t], y)
  BY <1>1, <1>3 DEF InCall, StateTypeOK, Place, Backs
<1>15. \A y \in Slots : ~InCall(loc'[t], y)
  BY <1>6, IdlePlace DEF InCall
<1>16. \A y \in Slots : Balanced(t, y)
  BY <1>2, <1>5, <1>14, <1>15 DEF Balanced, Changed
<1>17. \A y \in Slots : ~LockedBy(t, y)'
  BY <1>6, IdlePlace DEF LockedBy
<1>18. table'[x].count = 0 => ~table'[x].dirt /\ ~table'[x].lock
  <2>1. table'[x].count = 0 => table[x].count = 1
    BY <1>4, <1>5
  <2>2. ~table[x].lock /\ (table[x].count = 1 => ~table[x].dirt)
    BY DEF LastUse
  <2>3. table'[x].dirt = table[x].dirt /\ table'[x].lock = table[x].lock
    BY <1>5 DEF Changed
  <2> QED
    BY <2>1, <2>2, <2>3
<1>19. \A u \in Tasks : loc[u].pc = "find" => links'[loc[u].dev][loc[u].num] > 0
  BY DEF InodesIInv, InIget
<1>20. table'[x].count <= table[x].count /\ (table'[x].mount => table[x].mount)
  <2>1. table'[x].count <= table[x].count
    BY <1>4, <1>5
  <2> QED
    BY <1>5, <2>1 DEF Changed
<1>21. table[x].dev # 0
  BY DEF InodesIInv, InIput
<1> QED
  BY <1>2, <1>6, <1>7, <1>8, <1>11, <1>12, <1>13, <1>16, <1>17, <1>18, <1>19, <1>20, <1>21,
     EntryKeeps

(* iput() and sync_inodes() begin to write an inode: it is locked. *)
LEMMA LockKeeps ==
  ASSUME InodesIInv, NEW t \in Tasks, NEW x \in Slots, loc[t].x = x, ~table[x].lock,
         table[x].count > 0, table[x].dev # 0,
         table' = [table EXCEPT ![x].lock = TRUE],
         \/ /\ loc[t].pc = "iput"
            /\ loc' = [loc EXCEPT ![t] = [loc[t] EXCEPT !.pc = "write", !.num = table[x].num]]
         \/ /\ loc[t].pc = "sync"
            /\ loc' = [loc EXCEPT ![t] = [loc[t] EXCEPT !.pc = "write", !.num = table[x].num,
                                                         !.back = "sync"]],
         \A u \in Tasks : u # t => /\ loc[u].pc \in {"find", "read"} => loc[u].e # x
                                   /\ loc[u].pc = "truncate" => loc[u].x # x,
         UNCHANGED <<disk, imap, sb, links, refs>>
  PROVE  InodesIInv'
<1>1. StateTypeOK /\ InIput(t) /\ InMount(t)
  BY DEF InodesIInv
<1>2. table[x].count \in Nat /\ table[x].num \in Nat /\ table \in [Slots -> Inode]
      /\ loc \in [Tasks -> Place] /\ loc[t] \in Place
  BY <1>1 DEF StateTypeOK, Inode
<1>3. Changed(table', table, x, "lock") /\ table'[x].lock = TRUE
  BY <1>2, SetLock
<1>4. \/ loc[t].pc = "iput" /\ Edited(loc'[t], loc[t], "write", x, loc[t].back)
      \/ loc[t].pc = "sync" /\ Edited(loc'[t], loc[t], "write", x, "sync")
  <2>1. "write" \in Points /\ "sync" \in Backs
    BY DEF Points, Backs
  <2>2. CASE loc[t].pc = "iput"
    <3>1. loc'[t] = [loc[t] EXCEPT !.pc = "write", !.num = table[x].num]
      BY <1>2, <2>2
    <3>2. Edited([loc[t] EXCEPT !.pc = "write", !.num = table[x].num],
                 loc[t], "write", loc[t].x, loc[t].back)
      BY <1>2, <2>1, EditPcNum
    <3> QED
      BY <2>2, <3>1, <3>2
  <2>3. CASE loc[t].pc = "sync"
    <3>1. loc'[t] = [loc[t] EXCEPT !.pc = "write", !.num = table[x].num, !.back = "sync"]
      BY <1>2, <2>3
    <3>2. Edited([loc[t] EXCEPT !.pc = "write", !.num = table[x].num, !.back = "sync"],
                 loc[t], "write", loc[t].x, "sync")
      BY <1>2, <2>1, EditPcNumBack
    <3> QED
      BY <2>3, <3>1, <3>2
  <2> QED
    BY <2>2, <2>3
<1>5. /\ loc'[t] \in Place /\ loc'[t].pc = "write" /\ loc'[t].x = x /\ loc'[t].dev = loc[t].dev
      /\ (loc'[t].back = "umount" <=> loc[t].pc = "iput" /\ loc[t].back = "umount")
      /\ (loc'[t].back = "idle" <=> loc[t].pc = "iput" /\ loc[t].back = "idle")
  BY <1>4 DEF Edited
<1>6. loc' \in [Tasks -> Place] /\ Alone(t)
  BY <1>2, <1>5 DEF Alone
<1>7. StateTypeOK'
  BY <1>1, <1>3, <1>6 DEF StateTypeOK, Changed
<1>8. OnlySlot(x)
  BY <1>3 DEF OnlySlot, Changed
<1>9. \A y \in Slots : /\ table'[y].dev = table[y].dev /\ table'[y].num = table[y].num
                       /\ table'[y].nlinks = table[y].nlinks
                       /\ table[y].dirt => table'[y].dirt
  BY <1>3 DEF Changed
<1>10. \A y \in Slots : Reading(y)' <=> Reading(y)
  BY <1>5, <1>6 DEF Reading, Alone
<1>11. LowKept' /\ CopyGood' /\ DiskGood'
  BY <1>9, <1>10, CopiesStay
<1>12. \A d \in Devs, n \in Nums : Awaited(d, n)' <=> Awaited(d, n)
  BY <1>5, <1>6 DEF Awaited, Alone
<1>13. \A y \in Slots : table'[y].count = table[y].count /\ table'[y].mount = table[y].mount
  BY <1>3 DEF Changed
<1>14. InIput(t)' /\ InMount(t)'
  <2>1. InIput(t)'
    BY <1>3, <1>5, <1>9 DEF InIput
  <2>2. \A d \in Devs : Quiet(d) => Quiet(d)'
    BY <1>9, <1>12, <1>13 DEF Quiet
  <2>3. InMount(t)'
    BY <1>1, <1>5, <1>13, <2>2 DEF InMount
  <2> QED
    BY <2>1, <2>3
<1>15. Busying(t)
  <2>1. \A d \in Devs : Unmounting(t, d)' <=> Unmounting(t, d)
    BY <1>1, <1>5 DEF Unmounting, InIput
  <2> QED
    BY <1>5, <1>14, <2>1 DEF Busying
<1>16. OthersUndisturbed(t, x)
  BY <1>3 DEF OthersUndisturbed
<1>17. \A y \in Slots : InCall(loc'[t], y) <=> InCall(loc[t], y)
  BY <1>1, <1>5 DEF InCall, InIput
<1>18. \A y \in Slots : Balanced(t, y)
  BY <1>13, <1>17 DEF Balanced
<1>19. \A y \in Slots : LockedBy(t, y)' => y = x
  BY <1>5 DEF LockedBy
<1>20. \A u \in Tasks : loc[u].pc = "find" => links'[loc[u].dev][loc[u].num] > 0
  BY DEF InodesIInv, InIget
<1>21. table'[x].count <= table[x].count /\ ~(table'[x].count = 0)
  BY <1>2, <1>13
<1> QED
  BY <1>6, <1>7, <1>8, <1>11, <1>13, <1>15, <1>16, <1>18, <1>19, <1>20, <1>21, EntryKeeps

LEMMA SyncKeeps ==
  ASSUME InodesIInv, Races = {}, NEW t \in Tasks, sync_inodes(t)
  PROVE  InodesIInv'
<1> DEFINE x == loc[t].x
<1>1. loc[t].pc = "sync" /\ UNCHANGED <<disk, imap, sb, links, refs>>
  BY DEF sync_inodes
<1>2. CASE loc' = [loc EXCEPT ![t] = Idle] /\ UNCHANGED table
  BY <1>1, <1>2, SyncPassKeeps
<1>3. CASE loc' = [loc EXCEPT ![t] = [loc[t] EXCEPT !.x = @ + 1]] /\ UNCHANGED table
  BY <1>1, <1>3, SyncPassKeeps
<1>4. CASE /\ x \in Slots /\ ~table[x].lock /\ table[x].dirt /\ ~BeingDeleted(x)
           /\ table' = [table EXCEPT ![x].lock = TRUE]
           /\ loc' = [loc EXCEPT ![t] = [loc[t] EXCEPT !.pc = "write", !.num = table[x].num,
                                                        !.back = "sync"]]
  <2>1. table[x].count > 0
    <3>1. table[x].count \in Nat
      BY <1>4 DEF InodesIInv, StateTypeOK, Inode
    <3> QED
      BY <1>4, <3>1 DEF InodesIInv, FreeIsClean
  <2>2. \A u \in Tasks : u # t => /\ loc[u].pc \in {"find", "read"} => loc[u].e # x
                                  /\ loc[u].pc = "truncate" => loc[u].x # x
    BY <1>4 DEF InodesIInv, InIget, Zeroed, BeingDeleted
  <2>3. table[x].dev # 0
    BY <1>4 DEF InodesIInv, Named
  <2> QED
    BY <1>1, <1>4, <2>1, <2>2, <2>3, LockKeeps
<1> QED
  BY <1>1, <1>2, <1>3, <1>4 DEF sync_inodes, Goto, Return, SyncReady

LEMMA WriteKeeps ==
  ASSUME InodesIInv, NEW t \in Tasks, write_inode(t)
  PROVE  InodesIInv'
<1> DEFINE x == loc[t].x
           d == table[x].dev
           n == table[x].num
           T == [table EXCEPT ![x].lock = FALSE]
<1>1. StateTypeOK /\ InIput(t) /\ InMount(t) /\ loc[t].pc = "write"
  BY DEF InodesIInv, write_inode
<1>2. x \in Slots /\ d # 0 /\ table[x].lock
  BY <1>1 DEF InIput
<1>3. d \in Devs /\ n \in imap[d] /\ n \in Nums /\ n # 0
  <2>1. d \in Devs
    BY <1>1, <1>2 DEF StateTypeOK, Inode
  <2>2. n \in imap[d]
    BY <1>2 DEF InodesIInv, Named
  <2> QED
    BY <1>1, <2>1, <2>2 DEF StateTypeOK, Nums
<1>4. /\ disk' = [disk EXCEPT ![d][n] = table[x].nlinks]
      /\ table' = [table EXCEPT ![x].lock = FALSE, ![x].dirt = FALSE]
      /\ UNCHANGED <<imap, sb, links, refs>>
  BY <1>2, <1>3 DEF write_inode, AfterWrite
<1>5. /\ table \in [Slots -> Inode] /\ table[x].count \in Nat /\ table[x].nlinks \in Nat
      /\ loc \in [Tasks -> Place] /\ loc[t] \in Place
  BY <1>1, <1>2 DEF StateTypeOK, Inode
<1>6. Changed(T, table, x, "lock") /\ T[x].lock = FALSE
  BY <1>2, <1>5, SetLock
<1>7. table' = [T EXCEPT ![x].dirt = FALSE]
  BY <1>4
<1> HIDE DEF T
<1>8. Changed(table', T, x, "dirt") /\ table'[x].dirt = FALSE
  <2>1. T \in [Slots -> Inode]
    BY <1>6 DEF Changed
  <2> QED
    BY <1>2, <1>7, <2>1, SetDirt
<1>9. /\ table' \in [Slots -> Inode] /\ OnlySlot(x) /\ table'[x].nlinks = table[x].nlinks
      /\ table'[x].dirt = FALSE /\ table'[x].lock = FALSE
      /\ \A y \in Slots : /\ table'[y].dev = table[y].dev /\ table'[y].num = table[y].num
                          /\ table'[y].count = table[y].count /\ table'[y].mount = table[y].mount
  BY <1>6, <1>8 DEF Changed, OnlySlot
<1>a. imap' = imap /\ links' = links /\ sb' = sb
  BY <1>4
<1>10. /\ loc' = [loc EXCEPT ![t] = loc'[t]]
       /\ \/ loc[t].back = "sync" /\ Edited(loc'[t], loc[t], "sync", x + 1, "sync")
          \/ loc[t].back # "sync" /\ Edited(loc'[t], loc[t], "iput", x, loc[t].back)
  <2>1. "sync" \in Points /\ "iput" \in Points /\ loc[t].x + 1 \in Nat
    BY <1>5 DEF Points, Place
  <2>2. loc' = [loc EXCEPT ![t] = IF loc[t].back = "sync"
                                  THEN [loc[t] EXCEPT !.pc = "sync", !.x = @ + 1]
                                  ELSE [loc[t] EXCEPT !.pc = "iput"]]
    BY DEF write_inode, AfterWrite, Goto
  <2>3. Edited([loc[t] EXCEPT !.pc = "sync", !.x = loc[t].x + 1], loc[t], "sync",
               loc[t].x + 1, loc[t].back)
    BY <1>5, <2>1, EditPcX
  <2>4. Edited([loc[t] EXCEPT !.pc = "iput"], loc[t], "iput", loc[t].x, loc[t].back)
    BY <1>5, <2>1, EditPc
  <2>5. loc' = [loc EXCEPT ![t] = loc'[t]]
    BY <1>5, <2>2
  <2>6. CASE loc[t].back = "sync"
    <3>1. loc'[t] = [loc[t] EXCEPT !.pc = "sync", !.x = loc[t].x + 1]
      BY <1>5, <2>2, <2>6
    <3> QED
      BY <2>3, <2>5, <2>6, <3>1
  <2>7. CASE loc[t].back # "sync"
    <3>1. loc'[t] = [loc[t] EXCEPT !.pc = "iput"]
      BY <1>5, <2>2, <2>7
    <3> QED
      BY <2>4, <2>5, <2>7, <3>1
  <2> QED
    BY <2>6, <2>7
<1>11. loc' \in [Tasks -> Place] /\ Alone(t)
  BY <1>4, <1>5, <1>10 DEF Alone, Edited
<1>12. /\ disk' \in [Devs -> [Nums -> Nat]] /\ disk'[d][n] = table[x].nlinks
       /\ \A c \in Devs, m \in Nums : c # d \/ m # n => disk'[c][m] = disk[c][m]
  BY <1>1, <1>3, <1>4, <1>5 DEF StateTypeOK
<1>13. StateTypeOK'
  BY <1>1, <1>4, <1>9, <1>11, <1>12 DEF StateTypeOK
<1>14. \A y \in Slots : Reading(y)' <=> Reading(y)
  BY <1>1, <1>10, <1>11 DEF Reading, Alone, Edited
<1>15. LockedBy(t, x)
  BY <1>1 DEF LockedBy
<1>16. \A u \in Tasks : u # t => ~LockedBy(u, x)
  BY <1>2, <1>15 DEF InodesIInv, Apart
<1>17. ~Reading(x)
  BY <1>1, <1>16 DEF Reading, LockedBy
<1>18. CopyGood'
  <2> SUFFICES ASSUME NEW y \in Slots, table[y].dev # 0, ~Reading(y)
               PROVE  /\ table'[y].nlinks = links[table[y].dev][table[y].num]
                      /\ table'[y].dirt \/ disk'[table[y].dev][table[y].num]
                                             = links[table[y].dev][table[y].num]
    BY <1>a, <1>9, <1>14 DEF CopyGood
  <2>1. CASE y = x
    BY <1>9, <1>12, <2>1 DEF InodesIInv, CopyGood
  <2>2. CASE y # x
    <3>1. table'[y] = table[y]
      BY <1>9, <2>2 DEF OnlySlot
    <3>2. table[y].dev \in Devs /\ table[y].num \in Nums
      <4>1. table[y].dev \in Devs
        BY <1>1 DEF StateTypeOK, Inode
      <4> QED
        BY <1>1, <4>1 DEF InodesIInv, Named, StateTypeOK
    <3>3. ~(table[y].dev = d /\ table[y].num = n)
      BY <1>2, <2>2 DEF InodesIInv, Named, InodeUnique
    <3> QED
      BY <1>12, <3>1, <3>2, <3>3 DEF InodesIInv, CopyGood
  <2> QED
    BY <2>1, <2>2
<1>19. DiskGood'
  <2> SUFFICES ASSUME NEW c \in Devs, NEW m \in imap[c],
                      \A y \in Slots : table[y].dev = c /\ table[y].num = m => Reading(y)
               PROVE  disk'[c][m] = links[c][m]
    BY <1>a, <1>9, <1>14 DEF DiskGood
  <2>1. ~(c = d /\ m = n)
    BY <1>2, <1>17
  <2>2. m \in Nums
    BY <1>1 DEF StateTypeOK
  <2> QED
    BY <1>12, <2>1, <2>2 DEF InodesIInv, DiskGood
<1>20. LowKept'
  BY <1>4 DEF InodesIInv, LowKept
<1>21. \A c \in Devs, m \in Nums : Awaited(c, m)' <=> Awaited(c, m)
  BY <1>1, <1>10, <1>11 DEF Awaited, Alone, Edited
<1>22. InIput(t)' /\ InMount(t)'
  <2>1. InIput(t)'
    BY <1>2, <1>9, <1>10 DEF InIput, Edited
  <2>2. InMount(t)'
    <3>1. CASE loc[t].back = "umount"
      <4>1. /\ loc'[t].pc = "iput" /\ loc'[t].back = "umount" /\ loc'[t].dev = loc[t].dev
            /\ loc'[t].x = x
        BY <1>10, <3>1 DEF Edited
      <4>2. /\ loc[t].dev \in Devs \ {ROOT_DEV}
            /\ sb[loc[t].dev].imount = x /\ ~table[x].mount
            /\ Quiet(loc[t].dev)
        BY <1>1, <3>1 DEF InMount
      <4>3. Quiet(loc[t].dev)'
        BY <1>9, <1>10, <1>21, <3>1, <4>2 DEF Quiet, Edited
      <4> QED
        BY <1>a, <1>2, <1>9, <4>1, <4>2, <4>3 DEF InMount
    <3>2. CASE loc[t].back # "umount"
      BY <1>10, <3>2 DEF InMount, Edited
    <3> QED
      BY <3>1, <3>2
  <2> QED
    BY <2>1, <2>2
<1>23. Busying(t)
  <2>1. \A c \in Devs : Unmounting(t, c)' <=> Unmounting(t, c)
    BY <1>1, <1>10 DEF Unmounting, Edited
  <2> QED
    BY <1>1, <1>10, <1>22, <2>1 DEF Busying, Edited
<1>24. OthersUndisturbed(t, x)
  <2>1. \A u \in Tasks : loc[u].pc = "find" => loc[u].e # x
    BY <1>2 DEF InodesIInv, InIget, Zeroed
  <2>2. \A u \in Tasks : loc[u].pc = "truncate" => loc[u].x # x
    BY <1>2 DEF InodesIInv, InIput
  <2> QED
    BY <1>16, <2>1, <2>2 DEF OthersUndisturbed, LockedBy
<1>25. \A y \in Slots : InCall(loc'[t], y) <=> InCall(loc[t], y)
  BY <1>1, <1>10 DEF InCall, Edited
<1>26. \A y \in Slots : Balanced(t, y)
  BY <1>4, <1>9, <1>25 DEF Balanced
<1>27. \A y \in Slots : ~LockedBy(t, y)'
  BY <1>10 DEF LockedBy, Edited
<1>28. \A u \in Tasks : loc[u].pc = "find" => links'[loc[u].dev][loc[u].num] > 0
  BY <1>4 DEF InodesIInv, InIget
<1>29. table'[x].count <= table[x].count
  BY <1>2, <1>5, <1>9
<1> QED
  BY <1>2, <1>4, <1>9, <1>11, <1>13, <1>18, <1>19, <1>20, <1>23, <1>24, <1>26, <1>27, <1>28, <1>29,
     EntryKeeps

----------------------------------------------------------------------------
(* In a third kind of steps a super block is read or released, before the  *)
(* device is mounted or after.                                             *)
LEMMA SuperKeeps ==
  ASSUME InodesIInv, NEW t \in Tasks, NEW d \in Devs, Alone(t), StateTypeOK',
         UNCHANGED <<table, disk, imap, links>>,
         \A c \in Devs : c # d => sb'[c] = sb[c],
         sb'[d].imount = sb[d].imount,
         sb[d].present /\ ~sb'[d].present =>
           /\ d # ROOT_DEV /\ sb[d].imount = NoSlot /\ Quiet(d)
           /\ \A u \in Tasks : loc'[u].pc = "super" => loc'[u].dev # d,
         loc[t].pc \in {"idle", "super", "put"}, loc'[t].pc \in {"idle", "super", "iput"},
         loc'[t].pc = "iput" => loc'[t].back = "idle",
         InIput(t)', InMount(t)',
         loc'[t].pc = "super" => \A u \in Tasks : u # t /\ loc[u].pc = "super"
                                   => loc[u].dev # loc'[t].dev /\ loc[u].x # loc'[t].x,
         \A y \in Slots : Balanced(t, y),
         \A y \in Slots : refs'[t][y] > 0 => refs[t][y] > 0
  PROVE  InodesIInv'
<1>1. /\ \A c \in Devs : sb'[c].imount = sb[c].imount
      /\ \A y \in Slots : Mounts(y)' = Mounts(y)
  BY DEF Mounts
<1>2. Counted'
  <2>1. ASSUME NEW y \in Slots PROVE Exact(y)'
    <3>1. Exact(y) /\ refs \in [Tasks -> [Slots -> Nat]] /\ refs' \in [Tasks -> [Slots -> Nat]]
      BY DEF InodesIInv, Counted, StateTypeOK
    <3> QED
      BY <1>1, <3>1, ExactStep
  <2> QED
    BY <2>1 DEF Counted
<1>3. LowKept' /\ FreeIsClean'
  BY DEF InodesIInv, LowKept, FreeIsClean
<1>4. Named'
  BY DEF InodesIInv, Named, Alone, InodeUnique
<1>5. \A y \in Slots : Reading(y)' <=> Reading(y)
  BY DEF Reading, Alone
<1>6. CopyGood' /\ DiskGood'
  BY <1>5 DEF InodesIInv, CopyGood, DiskGood
<1>7. \A c \in Devs, n \in Nums : Awaited(c, n)' <=> Awaited(c, n)
  BY DEF Awaited, Alone
<1>8. \A u \in Tasks, c \in Devs : Unmounting(u, c)' <=> Unmounting(u, c)
  BY DEF Unmounting, Alone
<1>9. \A c \in Devs : Quiet(c) => Quiet(c)'
  BY <1>7 DEF Quiet
<1>10. StateTypeOK
  BY DEF InodesIInv
<1>11. DeviceStays'
  <2> SUFFICES ASSUME NEW y \in Slots, table[y].count > 0, table[y].dev # 0
               PROVE  sb'[table[y].dev].present
    BY DEF DeviceStays
  <2>1. table[y].dev \in Devs /\ sb[table[y].dev].present /\ table[y].count \in Nat
    BY <1>10 DEF InodesIInv, DeviceStays, StateTypeOK, Inode
  <2>2. CASE table[y].dev = d
    <3>1. ~Quiet(d)
      BY <2>1, <2>2 DEF Quiet
    <3> QED
      BY <2>1, <2>2, <3>1
  <2>3. CASE table[y].dev # d
    BY <2>1, <2>3
  <2> QED
    BY <2>2, <2>3
<1>12. ASSUME NEW u \in Tasks PROVE InIget(u)' /\ InIput(u)' /\ InMount(u)'
  <2>1. CASE u = t
    BY <2>1 DEF InIget
  <2>2. CASE u # t
    <3>1. loc'[u] = loc[u]
      BY <2>2 DEF Alone
    <3>2. InIget(u) /\ InIput(u) /\ InMount(u)
      BY DEF InodesIInv
    <3>3. InIget(u)'
      <4>1. CASE loc[u].pc = "find"
        <5>1. loc[u].dev \in Devs /\ loc[u].num \in Nums /\ sb[loc[u].dev].present
          BY <1>10, <3>2, <4>1 DEF InIget, StateTypeOK
        <5>2. Awaited(loc[u].dev, loc[u].num)
          BY <4>1 DEF Awaited
        <5>3. sb'[loc[u].dev].present
          <6>1. ~Quiet(loc[u].dev)
            BY <5>1, <5>2 DEF Quiet
          <6>2. CASE loc[u].dev = d
            BY <5>1, <6>1, <6>2
          <6>3. CASE loc[u].dev # d
            BY <5>1, <6>3
          <6> QED
            BY <6>2, <6>3
        <5> QED
          BY <3>1, <3>2, <4>1, <5>3 DEF InIget
      <4>2. CASE loc[u].pc # "find"
        BY <3>1, <3>2, <4>2 DEF InIget
      <4> QED
        BY <4>1, <4>2
    <3>4. InIput(u)'
      BY <3>1, <3>2 DEF InIput
    <3>5. InMount(u)'
      <4>1. loc[u].pc = "super" => sb'[loc[u].dev].present /\ loc[u].dev \in Devs
        BY <3>1, <3>2 DEF InMount
      <4> QED
        BY <1>1, <1>9, <3>1, <3>2, <4>1 DEF InMount
    <3> QED
      BY <3>3, <3>4, <3>5
  <2> QED
    BY <2>1, <2>2
<1>13. Apart'
  <2>1. \A u \in Tasks, y \in Slots : LockedBy(u, y)' <=> LockedBy(u, y)
    BY DEF LockedBy, Alone
  <2>2. \A u \in Tasks : u # t => loc'[u] = loc[u]
    BY DEF Alone
  <2>3. \A u, v \in Tasks : u # v /\ loc'[u].pc = "super" /\ loc'[v].pc = "super"
          => loc'[u].dev # loc'[v].dev /\ loc'[u].x # loc'[v].x
    BY <2>2 DEF InodesIInv, Apart
  <2> QED
    BY <1>8, <2>1, <2>3 DEF InodesIInv, Apart
<1>14. MountsOK'
  <2>0. MountsOK /\ ROOT_DEV \in Devs
    BY InodesAssumption DEF InodesIInv, ROOT_DEV
  <2>1. sb'[ROOT_DEV].present /\ sb'[ROOT_DEV].imount = 1
    BY <1>1, <2>0 DEF MountsOK
  <2>2. \A c \in Devs : sb'[c].imount # NoSlot => sb'[c].present
    BY <1>1, <2>0 DEF MountsOK
  <2> QED
    BY <1>1, <1>8, <2>0, <2>1, <2>2 DEF MountsOK
<1> QED
  BY <1>2, <1>3, <1>4, <1>6, <1>11, <1>12, <1>13, <1>14 DEF InodesIInv

(* put_super() ends. *)
LEMMA PutSuperKeeps ==
  ASSUME InodesIInv, NEW t \in Tasks, put_super(t)
  PROVE  InodesIInv'
<1> DEFINE d == loc[t].dev
<1>1. StateTypeOK /\ loc[t].pc = "put" /\ d \in Devs
  BY DEF InodesIInv, InMount, put_super
<1>2. /\ sb' = [sb EXCEPT ![d].lock = FALSE]
      /\ loc' = [loc EXCEPT ![t] = Idle]
      /\ UNCHANGED <<table, disk, imap, links, refs>>
  BY DEF put_super, Return, Goto
<1>3. /\ sb' \in [Devs -> Super] /\ \A c \in Devs : c # d => sb'[c] = sb[c]
      /\ sb'[d].imount = sb[d].imount /\ sb'[d].present = sb[d].present
  BY <1>1, <1>2 DEF StateTypeOK, Super
<1>4. loc \in [Tasks -> Place] /\ loc'[t] = Idle /\ loc' \in [Tasks -> Place] /\ Alone(t)
  BY <1>1, <1>2, IdlePlace DEF StateTypeOK, Alone
<1>5. StateTypeOK'
  BY <1>1, <1>2, <1>3, <1>4 DEF StateTypeOK
<1>6. InIput(t)' /\ InMount(t)'
  BY <1>4, IdlePlace DEF InIput, InMount
<1>7. \A y \in Slots : Balanced(t, y)
  BY <1>1, <1>2, <1>4, IdlePlace DEF Balanced, InCall
<1>8. loc'[t].pc = "idle" /\ refs' = refs
  BY <1>2, <1>4, IdlePlace
<1> QED
  BY <1>1, <1>2, <1>3, <1>4, <1>5, <1>6, <1>7, <1>8, SuperKeeps

(* read_super() fails: sys_mount() gives the directory back. *)
LEMMA SuperFailsKeeps ==
  ASSUME InodesIInv, NEW t \in Tasks, SuperFails(t)
  PROVE  InodesIInv'
<1> DEFINE d == loc[t].dev
           x == loc[t].x
           s == [present |-> FALSE, lock |-> FALSE, imount |-> NoSlot]
<1>1. StateTypeOK /\ loc[t].pc = "super" /\ loc[t].back = "idle" /\ x \in Slots
      /\ table[x].dev # 0 /\ d \in Devs /\ d # ROOT_DEV
      /\ sb[d].imount = NoSlot /\ Quiet(d)
  BY DEF InodesIInv, InMount, SuperFails
<1>2. /\ sb' = [sb EXCEPT ![d] = s]
      /\ loc' = [loc EXCEPT ![t] = [Idle EXCEPT !.pc = "iput", !.x = x]]
      /\ UNCHANGED <<table, disk, imap, links, refs>>
  BY DEF SuperFails, Goto
<1>3. /\ sb' \in [Devs -> Super] /\ \A c \in Devs : c # d => sb'[c] = sb[c]
      /\ sb'[d].imount = sb[d].imount
  BY <1>1, <1>2 DEF StateTypeOK, Super, NoSlot
<1>4. /\ loc \in [Tasks -> Place] /\ loc'[t] \in Place /\ loc' \in [Tasks -> Place] /\ Alone(t)
      /\ loc'[t].pc = "iput" /\ loc'[t].x = x /\ loc'[t].back = "idle"
  <2>1. x \in Nat /\ loc \in [Tasks -> Place]
    BY <1>1 DEF Slots, StateTypeOK
  <2>2. loc'[t] = [Idle EXCEPT !.pc = "iput", !.x = x]
    BY <1>2, <2>1
  <2> DEFINE l == [Idle EXCEPT !.pc = "iput", !.x = x]
  <2>a. l \in Place /\ l.pc = "iput" /\ l.x = x /\ l.back = "idle"
    BY <2>1, IputPlace
  <2> HIDE DEF l, x
  <2>b. loc'[t] = l
    BY <2>2 DEF l
  <2>3. loc'[t] \in Place /\ loc'[t].pc = "iput" /\ loc'[t].x = x /\ loc'[t].back = "idle"
    BY <2>a, <2>b
  <2> QED
    BY <1>2, <2>1, <2>3 DEF Alone
<1>5. StateTypeOK'
  BY <1>1, <1>2, <1>3, <1>4 DEF StateTypeOK
<1>6. InIput(t)' /\ InMount(t)'
  BY <1>1, <1>2, <1>4 DEF InIput, InMount
<1>7. \A y \in Slots : Balanced(t, y)
  BY <1>1, <1>2, <1>4 DEF Balanced, InCall
<1>8. \A u \in Tasks : loc'[u].pc = "super" => loc'[u].dev # d
  BY <1>1, <1>4 DEF Alone, InodesIInv, Apart
<1> QED
  BY <1>1, <1>2, <1>3, <1>4, <1>5, <1>6, <1>7, <1>8, SuperKeeps

(* sys_mount() up to read_super(). *)
LEMMA MountKeeps ==
  ASSUME InodesIInv, NEW t \in Tasks, NEW d \in Devs, NEW x \in Slots, sys_mount(t, d, x)
  PROVE  InodesIInv'
<1>1. /\ loc[t].pc = "idle" /\ d # ROOT_DEV /\ refs[t][x] > 0
      /\ table[x].dev = ROOT_DEV /\ table[x].num = MountPoint
      /\ refs' = [refs EXCEPT ![t][x] = @ - 1]
      /\ UNCHANGED <<table, disk, imap, links>>
  BY DEF sys_mount
<1>2. CASE table[x].count # 1 \/ sb[d].imount # NoSlot
  <2>1. StartIput(t, x)
    BY <1>1, <1>2 DEF sys_mount, StartIput
  <2> QED
    BY <2>1, StartIputKeeps
<1>3. CASE table[x].count = 1 /\ sb[d].imount = NoSlot
  <2>1. /\ ~sb[d].present /\ ~sb[d].lock
        /\ sb' = [sb EXCEPT ![d].present = TRUE, ![d].lock = TRUE]
        /\ loc' = [loc EXCEPT ![t] = [Idle EXCEPT !.pc = "super", !.dev = d, !.x = x]]
    BY <1>3 DEF sys_mount, Goto
  <2>2. StateTypeOK
    BY DEF InodesIInv
  <2>3. /\ sb' \in [Devs -> Super] /\ \A c \in Devs : c # d => sb'[c] = sb[c]
        /\ sb'[d].imount = sb[d].imount /\ sb'[d].present
    <3> DEFINE S == [sb EXCEPT ![d].present = TRUE]
    <3>1. /\ S \in [Devs -> Super] /\ S[d].imount = sb[d].imount /\ S[d].present
          /\ \A c \in Devs : c # d => S[c] = sb[c]
      BY <2>2 DEF StateTypeOK, Super
    <3>2. sb' = [S EXCEPT ![d].lock = TRUE]
      BY <2>1
    <3> HIDE DEF S
    <3> QED
      BY <3>1, <3>2 DEF Super
  <2>4. /\ loc \in [Tasks -> Place] /\ loc'[t] \in Place /\ loc' \in [Tasks -> Place]
        /\ loc'[t].pc = "super" /\ loc'[t].x = x /\ loc'[t].back = "idle" /\ loc'[t].dev = d
    <3>1. x \in Nat /\ loc \in [Tasks -> Place]
      BY <2>2 DEF Slots, StateTypeOK
    <3>2. loc'[t] = [Idle EXCEPT !.pc = "super", !.dev = d, !.x = x]
      BY <2>1, <3>1
    <3>3. loc'[t] = [pc |-> "super", dev |-> d, num |-> 0, x |-> x, e |-> 0, back |-> "idle"]
      BY <3>2 DEF Idle, NoSlot
    <3>4. loc'[t] \in Place
      BY <3>1, <3>3 DEF Place, Points, Backs
    <3> QED
      BY <2>1, <3>1, <3>3, <3>4
  <2>5. /\ refs' \in [Tasks -> [Slots -> Nat]] /\ refs'[t][x] = refs[t][x] - 1
        /\ \A y \in Slots : y # x => refs'[t][y] = refs[t][y]
    BY <1>1, <2>2 DEF StateTypeOK
  <2>6. Alone(t) /\ StateTypeOK'
    BY <1>1, <2>1, <2>2, <2>3, <2>4, <2>5 DEF Alone, StateTypeOK
  <2>7. \A c \in Devs : sb[c].imount # x
    <3>1. User(t, x)
      BY <1>1 DEF User
    <3> QED
      BY <1>3, <3>1, SlotFacts
  <2>8. Mounts(x)' = {}
    BY <2>3, <2>7 DEF Mounts
  <2>9. Quiet(d)'
    <3>1. \A y \in Slots : table[y].dev = d => table[y].count = 0
      <4>1. \A y \in Slots : table[y].count \in Nat
        BY <2>2 DEF StateTypeOK, Inode
      <4>2. d # 0
        BY InodesAssumption
      <4> QED
        BY <2>1, <4>1, <4>2 DEF InodesIInv, DeviceStays
    <3>2. \A n \in Nums : ~Awaited(d, n)
      BY <2>1 DEF InodesIInv, InIget, Awaited
    <3>3. \A n \in Nums : Awaited(d, n)' => Awaited(d, n)
      BY <2>4, <2>6 DEF Awaited, Alone
    <3> QED
      BY <1>1, <3>1, <3>2, <3>3 DEF Quiet
  <2>10. InIput(t)' /\ InMount(t)'
    <3>1. table[x].dev # 0 /\ table[x].num <= MountPoint
      BY <1>1 DEF ROOT_DEV, MountPoint
    <3> QED
      BY <1>1, <1>3, <2>3, <2>4, <2>8, <2>9, <3>1 DEF InIput, InMount
  <2>11. \A y \in Slots : Balanced(t, y)
    BY <1>1, <2>4, <2>5 DEF Balanced, InCall
  <2>12. \A u \in Tasks : loc[u].pc = "super" => loc[u].dev # d
    BY <2>1 DEF InodesIInv, InMount
  <2>13. \A u \in Tasks : u # t /\ loc[u].pc = "super" => loc[u].x # x
    <3> SUFFICES ASSUME NEW u \in Tasks, u # t, loc[u].pc = "super", loc[u].x = x PROVE FALSE
      OBVIOUS
    <3>1. loc[u].back = "idle"
      BY DEF InodesIInv, InMount
    <3>2. User(t, x) /\ User(u, x)
      BY <1>1, <3>1 DEF User, InCall
    <3>3. table[x].count > 1
      BY <3>2, SlotFacts
    <3> QED
      BY <1>3, <3>3
  <2> QED
    BY <1>1, <1>3, <2>2, <2>3, <2>4, <2>5, <2>6, <2>10, <2>11, <2>12, <2>13, SuperKeeps
<1> QED
  BY <1>2, <1>3

----------------------------------------------------------------------------
(* In a fourth kind a device is mounted or unmounted on an inode x.        *)
LEMMA MountingKeeps ==
  ASSUME InodesIInv, StateTypeOK', NEW t \in Tasks, NEW d \in Devs, NEW x \in Slots, Alone(t),
         UNCHANGED <<disk, imap, links, refs>>,
         \A c \in Devs : c # d => sb'[c] = sb[c],
         sb'[d].present \/ Quiet(d),
         OnlySlot(x), table[x].dev # 0,
         table'[x].nlinks = table[x].nlinks, table'[x].lock = table[x].lock,
         table[x].dirt => table'[x].dirt, table'[x].count <= table[x].count,
         table'[x].count = 0 => ~table'[x].dirt /\ ~table'[x].lock,
         Counted', MountsOK', InIput(t)', \A u \in Tasks : InMount(u)',
         loc[t].pc \in {"idle", "super", "iput"}, loc'[t].pc \in {"idle", "put", "iput"},
         \A u \in Tasks : u # t => /\ loc[u].pc \in {"find", "read"} => loc[u].e # x
                                   /\ loc[u].pc = "truncate" => loc[u].x # x,
         \A c \in Devs : Unmounting(t, c)' => \A u \in Tasks : u # t => ~Unmounting(u, c)
  PROVE  InodesIInv'
<1>0. StateTypeOK /\ \A u \in Tasks : u # t => loc'[u] = loc[u]
  BY DEF InodesIInv, Alone
<1>1. \A y \in Slots : /\ table'[y].dev = table[y].dev /\ table'[y].num = table[y].num
                       /\ table'[y].nlinks = table[y].nlinks /\ table'[y].lock = table[y].lock
                       /\ table[y].dirt => table'[y].dirt
  BY DEF OnlySlot
<1>2. \A y \in Slots : /\ table[y].count \in Nat /\ table'[y].count \in Nat
                       /\ table'[y].count <= table[y].count
  BY <1>0 DEF OnlySlot, StateTypeOK, Inode
<1>3. FreeIsClean'
  BY DEF InodesIInv, FreeIsClean, OnlySlot
<1>4. Named'
  <2>1. \A y \in Slots : table'[y].dirt => table'[y].dev # 0
    BY DEF InodesIInv, Named, OnlySlot
  <2> QED
    BY <1>1, <2>1 DEF InodesIInv, Named, InodeUnique
<1>5. \A y \in Slots : Reading(y)' <=> Reading(y)
  BY <1>0 DEF Reading
<1>6. LowKept' /\ CopyGood' /\ DiskGood'
  BY <1>1, <1>5, CopiesStay
<1>7. DeviceStays'
  <2> SUFFICES ASSUME NEW y \in Slots, table'[y].count > 0, table'[y].dev # 0
               PROVE  sb'[table'[y].dev].present
    BY DEF DeviceStays
  <2>1. table[y].count > 0 /\ table'[y].dev = table[y].dev /\ table[y].dev \in Devs
    BY <1>0, <1>1, <1>2 DEF StateTypeOK, Inode
  <2>2. sb[table[y].dev].present
    BY <2>1 DEF InodesIInv, DeviceStays
  <2>3. Quiet(d) => table[y].dev # d
    BY <2>1 DEF Quiet
  <2> QED
    BY <2>1, <2>2, <2>3
<1>8. ASSUME NEW u \in Tasks PROVE InIget(u)' /\ InIput(u)'
  <2>1. CASE u = t
    BY <2>1 DEF InIget
  <2>2. CASE u # t
    <3>1. loc'[u] = loc[u] /\ InIget(u) /\ InIput(u)
      BY <1>0, <2>2 DEF InodesIInv
    <3>2. ASSUME loc[u].pc = "find"
          PROVE  sb'[loc[u].dev].present /\ table'[loc[u].e] = table[loc[u].e]
      <4>1. loc[u].dev \in Devs /\ loc[u].num \in Nums /\ sb[loc[u].dev].present
            /\ loc[u].e \in Slots
        BY <1>0, <3>1, <3>2 DEF InIget, StateTypeOK
      <4>2. Awaited(loc[u].dev, loc[u].num)
        BY <3>2 DEF Awaited
      <4>3. Quiet(d) => loc[u].dev # d
        BY <4>1, <4>2 DEF Quiet
      <4>4. table'[loc[u].e] = table[loc[u].e]
        BY <2>2, <3>2, <4>1 DEF OnlySlot
      <4> QED
        BY <4>1, <4>3, <4>4
    <3>3. ASSUME loc[u].pc = "read" PROVE table'[loc[u].e] = table[loc[u].e]
      BY <2>2, <3>1, <3>3 DEF OnlySlot, InIget
    <3>4. InIget(u)'
      BY <3>1, <3>2, <3>3 DEF InIget
    <3>5. ASSUME loc[u].pc = "truncate" PROVE table'[loc[u].x] = table[loc[u].x]
      BY <2>2, <3>1, <3>5 DEF OnlySlot, InIput
    <3>6. InIput(u)'
      BY <1>1, <3>1, <3>5 DEF InIput
    <3> QED
      BY <3>4, <3>6
  <2> QED
    BY <2>1, <2>2
<1>9. Apart'
  <2>1. \A u \in Tasks, y \in Slots : u # t => (LockedBy(u, y)' <=> LockedBy(u, y))
    BY <1>0 DEF LockedBy
  <2>2. \A y \in Slots : ~LockedBy(t, y)'
    BY DEF LockedBy
  <2>3. \A u, v \in Tasks : u # v => \A y \in Slots : ~(LockedBy(u, y)' /\ LockedBy(v, y)')
    BY <2>1, <2>2 DEF InodesIInv, Apart
  <2>4. \A u, v \in Tasks : u # v /\ loc'[u].pc = "super" /\ loc'[v].pc = "super"
          => loc'[u].dev # loc'[v].dev /\ loc'[u].x # loc'[v].x
    BY <1>0 DEF InodesIInv, Apart
  <2>5. \A u \in Tasks, c \in Devs : u # t => (Unmounting(u, c)' <=> Unmounting(u, c))
    BY <1>0 DEF Unmounting
  <2>6. \A u, v \in Tasks : u # v => \A c \in Devs : ~(Unmounting(u, c)' /\ Unmounting(v, c)')
    BY <2>5 DEF InodesIInv, Apart
  <2> QED
    BY <2>3, <2>4, <2>6 DEF Apart
<1> QED
  BY <1>3, <1>4, <1>6, <1>7, <1>8, <1>9 DEF InodesIInv

(* A super block takes over the reference of the call to x, or gives one up. *)
LEMMA MountsCount ==
  ASSUME NEW t \in Tasks, NEW x \in Slots, NEW d \in Devs, Alone(t), Exact(x),
         refs \in [Tasks -> [Slots -> Nat]], refs' = refs, table[x].count \in Nat,
         \A c \in Devs : c # d => sb'[c].imount = sb[c].imount,
         \/ /\ sb[d].imount # x /\ sb'[d].imount = x /\ table'[x].count = table[x].count
            /\ InCall(loc[t], x) /\ ~InCall(loc'[t], x)
         \/ /\ sb[d].imount = x /\ sb'[d].imount # x /\ table'[x].count = table[x].count - 1
            /\ ~InCall(loc[t], x) /\ ~InCall(loc'[t], x)
  PROVE  Exact(x)'
<1> DEFINE k == Cardinality(Uses(x))
           m == Cardinality(Mounts(x))
           r == IF x = 1 THEN RootUses ELSE 0
<1>1. r \in Nat /\ r' = r
  BY DEF RootUses
<1>2. IsFiniteSet(Uses(x)) /\ IsFiniteSet(Mounts(x)) /\ k \in Nat /\ m \in Nat
      /\ table[x].count = k + m + r
  BY FS_CardinalityType DEF Exact
<1>3. CASE /\ sb[d].imount # x /\ sb'[d].imount = x /\ table'[x].count = table[x].count
           /\ InCall(loc[t], x) /\ ~InCall(loc'[t], x)
  <2>1. Mounts(x)' = Mounts(x) \cup {d} /\ d \notin Mounts(x)
    BY <1>3 DEF Mounts
  <2>2. IsFiniteSet(Mounts(x)') /\ Cardinality(Mounts(x)') = m + 1
    BY <1>2, <2>1, FS_AddElement
  <2>3. IsFiniteSet(Uses(x)') /\ Cardinality(Uses(x)') = k - 1
    BY <1>2, <1>3, UsesCount
  <2>4. Cardinality(Uses(x)') + Cardinality(Mounts(x)') + r = k + m + r
    BY <1>1, <1>2, <2>2, <2>3
  <2>5. table'[x].count = Cardinality(Uses(x)') + Cardinality(Mounts(x)') + r
    BY <1>2, <1>3, <2>4
  <2> QED
    BY <1>1, <2>2, <2>3, <2>5 DEF Exact
<1>4. CASE /\ sb[d].imount = x /\ sb'[d].imount # x /\ table'[x].count = table[x].count - 1
           /\ ~InCall(loc[t], x) /\ ~InCall(loc'[t], x)
  <2>1. Mounts(x)' = Mounts(x) \ {d} /\ d \in Mounts(x)
    BY <1>4 DEF Mounts
  <2>2. IsFiniteSet(Mounts(x)') /\ Cardinality(Mounts(x)') = m - 1
    BY <1>2, <2>1, FS_RemoveElement
  <2>3. Uses(x)' = Uses(x)
    BY <1>2, <1>4, UsesCount
  <2>4. k + Cardinality(Mounts(x)') + r = table[x].count - 1
    BY <1>1, <1>2, <2>2
  <2>5. table'[x].count = k + Cardinality(Mounts(x)') + r
    BY <1>4, <2>4
  <2> QED
    BY <1>1, <1>2, <2>2, <2>3, <2>5 DEF Exact
<1> QED
  BY <1>3, <1>4

(* read_super() ends, and the device is mounted. *)
LEMMA SuperReadKeeps ==
  ASSUME InodesIInv, NEW t \in Tasks, SuperRead(t)
  PROVE  InodesIInv'
<1> DEFINE d == loc[t].dev
           x == loc[t].x
           T == [table EXCEPT ![x].mount = TRUE]
           s == [present |-> TRUE, lock |-> FALSE, imount |-> x]
<1>1. StateTypeOK /\ MountsOK /\ loc[t].pc = "super" /\ loc[t].back = "idle" /\ x \in Slots
      /\ table[x].dev # 0 /\ table[x].num <= MountPoint /\ d \in Devs /\ d # ROOT_DEV
      /\ sb[d].present /\ sb[d].imount = NoSlot /\ Mounts(x) = {} /\ Quiet(d)
  BY DEF InodesIInv, InMount, SuperRead
<1>2. /\ sb' = [sb EXCEPT ![d] = s]
      /\ table' = [table EXCEPT ![x].mount = TRUE, ![x].dirt = TRUE]
      /\ loc' = [loc EXCEPT ![t] = Idle]
      /\ UNCHANGED <<disk, imap, links, refs>>
  BY DEF SuperRead, Return, Goto
<1>3. table \in [Slots -> Inode] /\ table[x].count \in Nat
  BY <1>1 DEF StateTypeOK, Inode
<1>4. Changed(T, table, x, "mount") /\ T[x].mount = TRUE
  BY <1>1, <1>3, SetMount
<1>5. table' = [T EXCEPT ![x].dirt = TRUE]
  BY <1>2
<1> HIDE DEF T
<1>6. Changed(table', T, x, "dirt") /\ table'[x].dirt = TRUE
  <2>1. T \in [Slots -> Inode]
    BY <1>4 DEF Changed
  <2> QED
    BY <1>1, <1>5, <2>1, SetDirt
<1>7. /\ table' \in [Slots -> Inode] /\ OnlySlot(x)
      /\ table'[x].dirt /\ table'[x].mount /\ table'[x].nlinks = table[x].nlinks
      /\ table'[x].lock = table[x].lock /\ table'[x].count = table[x].count
  BY <1>4, <1>6 DEF Changed, OnlySlot
<1>8. /\ sb' \in [Devs -> Super] /\ \A c \in Devs : c # d => sb'[c] = sb[c]
      /\ sb'[d].imount = x /\ sb'[d].present
  <2>1. s \in Super /\ s.imount = x /\ s.present
    BY <1>1 DEF Super, Slots
  <2> HIDE DEF s
  <2> QED
    BY <1>1, <1>2, <2>1 DEF StateTypeOK
<1>9. /\ loc \in [Tasks -> Place] /\ loc'[t] = Idle /\ loc' \in [Tasks -> Place] /\ Alone(t)
      /\ loc'[t].pc = "idle" /\ \A u \in Tasks : u # t => loc'[u] = loc[u]
  BY <1>1, <1>2, IdlePlace DEF StateTypeOK, Alone
<1>10. StateTypeOK'
  BY <1>1, <1>2, <1>7, <1>8, <1>9 DEF StateTypeOK
<1>11. InCall(loc[t], x) /\ User(t, x) /\ ~(table[x].count = 0)
  <2>1. InCall(loc[t], x) /\ User(t, x)
    BY <1>1 DEF InCall, User
  <2>2. table[x].count > 0
    BY <1>1, <2>1, SlotFacts
  <2> QED
    BY <1>3, <2>1, <2>2
<1>12. \A y \in Slots : /\ ~InCall(loc'[t], y) /\ (y # x => ~InCall(loc[t], y))
  BY <1>1, <1>9 DEF InCall
<1>13. refs \in [Tasks -> [Slots -> Nat]] /\ refs' = refs
  BY <1>1, <1>2 DEF StateTypeOK
<1>14. Counted'
  <2>1. ASSUME NEW y \in Slots PROVE Exact(y)'
    <3>1. Exact(y)
      BY DEF InodesIInv, Counted
    <3>2. CASE y = x
      <4>1. sb[d].imount # x
        BY <1>1 DEF NoSlot, Slots
      <4> QED
        BY <1>1, <1>3, <1>7, <1>8, <1>9, <1>11, <1>12, <1>13, <3>1, <3>2, <4>1, MountsCount
    <3>3. CASE y # x
      <4>1. Mounts(y)' = Mounts(y)
        <5>1. sb[d].imount # y /\ sb'[d].imount # y
          BY <1>1, <1>8, <3>3 DEF NoSlot, Slots
        <5> QED
          BY <1>8, <5>1 DEF Mounts
      <4>2. Balanced(t, y)
        BY <1>7, <1>12, <1>13, <3>3 DEF Balanced, OnlySlot
      <4> QED
        BY <1>9, <1>13, <3>1, <4>1, <4>2, ExactStep
    <3> QED
      BY <3>2, <3>3
  <2> QED
    BY <2>1 DEF Counted
<1>15. \A y \in Slots : /\ table'[y].dev = table[y].dev /\ table'[y].num = table[y].num
                        /\ table'[y].count = table[y].count
  BY <1>7 DEF OnlySlot
<1>16. \A c \in Devs : Quiet(c) => Quiet(c)'
  <2>1. \A c \in Devs, n \in Nums : Awaited(c, n)' => Awaited(c, n)
    BY <1>9 DEF Awaited
  <2> QED
    BY <1>15, <2>1 DEF Quiet
<1>17. \A u \in Tasks : ~Unmounting(u, d) /\ \A c \in Devs : Unmounting(u, c)' => Unmounting(u, c)
  <2>1. ASSUME NEW u \in Tasks, Unmounting(u, d) PROVE FALSE
    <3>1. sb[d].imount = loc[u].x /\ loc[u].x \in Slots
      BY <2>1 DEF Unmounting, InodesIInv, InMount, InIput
    <3> QED
      BY <1>1, <3>1 DEF NoSlot, Slots
  <2>2. \A u \in Tasks, c \in Devs : Unmounting(u, c)' => Unmounting(u, c)
    BY <1>9 DEF Unmounting
  <2> QED
    BY <2>1, <2>2
<1>18. ASSUME NEW u \in Tasks PROVE InMount(u)'
  <2>1. CASE u = t
    BY <1>9, <2>1 DEF InMount
  <2>2. CASE u # t
    <3>1. loc'[u] = loc[u] /\ InMount(u) /\ InIput(u)
      BY <1>9, <2>2 DEF InodesIInv
    <3>2. ASSUME loc[u].pc = "super"
          PROVE  /\ sb'[loc[u].dev] = sb[loc[u].dev] /\ Mounts(loc[u].x)' = {}
                 /\ Quiet(loc[u].dev)' /\ table'[loc[u].x].dev = table[loc[u].x].dev
                 /\ table'[loc[u].x].num = table[loc[u].x].num
      <4>1. loc[u].dev # d /\ loc[u].x # x
        BY <1>1, <2>2, <3>2 DEF InodesIInv, Apart
      <4>2. loc[u].x \in Slots /\ loc[u].dev \in Devs /\ Mounts(loc[u].x) = {} /\ Quiet(loc[u].dev)
        BY <3>1, <3>2 DEF InMount
      <4>3. Mounts(loc[u].x)' = {}
        BY <1>8, <3>1, <4>1, <4>2 DEF Mounts
      <4>4. Quiet(loc[u].dev)'
        BY <1>16, <3>1, <4>2
      <4> QED
        BY <1>8, <1>15, <4>1, <4>2, <4>3, <4>4
    <3>3. ASSUME loc[u].pc \in {"iput", "write"}, loc[u].back = "umount"
          PROVE  /\ sb'[loc[u].dev] = sb[loc[u].dev] /\ table'[loc[u].x] = table[loc[u].x]
                 /\ Quiet(loc[u].dev)'
      <4>1. loc[u].dev \in Devs /\ sb[loc[u].dev].imount = loc[u].x /\ loc[u].x \in Slots
            /\ Quiet(loc[u].dev)
        BY <3>1, <3>3 DEF InMount, InIput
      <4>2. loc[u].dev # d
        BY <1>1, <4>1 DEF NoSlot, Slots
      <4>3. loc[u].x # x
        BY <1>1, <4>1 DEF Mounts
      <4>4. Quiet(loc[u].dev)'
        BY <1>16, <3>1, <4>1
      <4> QED
        BY <1>7, <1>8, <4>1, <4>2, <4>3, <4>4 DEF OnlySlot
    <3> QED
      BY <3>1, <3>2, <3>3 DEF InMount
  <2> QED
    BY <2>1, <2>2
<1>19. MountsOK'
  <2>0. ROOT_DEV \in Devs
    BY InodesAssumption DEF ROOT_DEV
  <2>1. sb'[ROOT_DEV].present /\ sb'[ROOT_DEV].imount = 1
    BY <1>1, <1>8, <2>0 DEF MountsOK
  <2>2. \A c \in Devs : sb[c].imount # x
    BY <1>1 DEF Mounts
  <2>3. \A c \in Devs : sb'[c].imount # NoSlot =>
          /\ sb'[c].imount \in Slots /\ sb'[c].present
          /\ table'[sb'[c].imount].dev # 0 /\ table'[sb'[c].imount].num <= MountPoint
    BY <1>1, <1>8, <1>15 DEF MountsOK
  <2>4. \A b, c \in Devs : sb'[b].imount = sb'[c].imount /\ sb'[b].imount # NoSlot => b = c
    BY <1>1, <1>8, <2>2 DEF MountsOK
  <2>5. \A y \in Slots : table'[y].mount =>
          \E c \in Devs : sb'[c].imount = y /\ \A u \in Tasks : ~Unmounting(u, c)'
    <3> SUFFICES ASSUME NEW y \in Slots, table'[y].mount
                 PROVE  \E c \in Devs : sb'[c].imount = y /\ \A u \in Tasks : ~Unmounting(u, c)'
      OBVIOUS
    <3>1. CASE y = x
      BY <1>1, <1>8, <1>17, <3>1
    <3>2. CASE y # x
      <4>1. PICK c \in Devs : sb[c].imount = y /\ \A u \in Tasks : ~Unmounting(u, c)
        BY <1>1, <1>7, <3>2 DEF MountsOK, OnlySlot
      <4>2. c # d
        BY <1>1, <4>1 DEF NoSlot, Slots
      <4> QED
        BY <1>8, <1>17, <4>1, <4>2
    <3> QED
      BY <3>1, <3>2
  <2> QED
    BY <2>1, <2>3, <2>4, <2>5 DEF MountsOK
<1>20. \A u \in Tasks : u # t => /\ loc[u].pc \in {"find", "read"} => loc[u].e # x
                                 /\ loc[u].pc = "truncate" => loc[u].x # x
  <2>1. ASSUME NEW u \in Tasks, u # t, User(u, x), table[x].count = 1 PROVE FALSE
    <3>1. table[x].count > 1
      BY <1>1, <1>11, <2>1, SlotFacts
    <3> QED
      BY <2>1, <3>1
  <2>2. ASSUME NEW u \in Tasks, u # t, loc[u].pc \in {"find", "read"}, loc[u].e = x PROVE FALSE
    <3>1. User(u, x)
      BY <2>2 DEF User, InCall
    <3>2. table[x].count = 1
      BY <2>2 DEF InodesIInv, InIget, Zeroed
    <3> QED
      BY <2>1, <2>2, <3>1, <3>2
  <2>3. ASSUME NEW u \in Tasks, u # t, loc[u].pc = "truncate", loc[u].x = x PROVE FALSE
    <3>1. loc[u].back = "idle" /\ table[x].count = 1
      BY <2>3 DEF InodesIInv, InIput
    <3>2. User(u, x)
      BY <2>3, <3>1 DEF User, InCall
    <3> QED
      BY <2>1, <2>3, <3>1, <3>2
  <2> QED
    BY <2>2, <2>3
<1>21. InIput(t)' /\ \A c \in Devs : ~Unmounting(t, c)'
  BY <1>9 DEF InIput, Unmounting
<1>22. table'[x].count <= table[x].count /\ ~(table'[x].count = 0)
  BY <1>3, <1>7, <1>11
<1> QED
  BY <1>1, <1>2, <1>7, <1>8, <1>9, <1>10, <1>14, <1>18, <1>19, <1>20, <1>21, <1>22, MountingKeeps

(* The iput() of sys_umount() ends: the device is gone. *)
LEMMA UmountReturnKeeps ==
  ASSUME InodesIInv, NEW t \in Tasks, loc[t].pc = "iput", ~table[loc[t].x].lock,
         ~LastUse(loc[t].x) \/ ~table[loc[t].x].dirt, loc[t].back = "umount",
         table' = [table EXCEPT ![loc[t].x].count = @ - 1],
         sb' = [sb EXCEPT ![loc[t].dev] = [present |-> FALSE, lock |-> TRUE, imount |-> NoSlot]],
         loc' = [loc EXCEPT ![t] = [loc[t] EXCEPT !.pc = "put"]],
         UNCHANGED <<disk, imap, links, refs>>
  PROVE  InodesIInv'
<1> DEFINE d == loc[t].dev
           x == loc[t].x
           s == [present |-> FALSE, lock |-> TRUE, imount |-> NoSlot]
<1>1. /\ StateTypeOK /\ MountsOK /\ x \in Slots /\ table[x].dev # 0
      /\ d \in Devs /\ d # ROOT_DEV /\ sb[d].imount = x /\ ~table[x].mount /\ Quiet(d)
  BY DEF InodesIInv, InMount, InIput
<1>2. table \in [Slots -> Inode] /\ table[x].count \in Nat
  BY <1>1 DEF StateTypeOK, Inode
<1>3. /\ table[x].count > 0
      /\ \A u \in Tasks : u # t => /\ loc[u].pc \in {"find", "read"} => loc[u].e # x
                                   /\ loc[u].pc = "truncate" => loc[u].x # x
  BY IputAlone
<1>4. Changed(table', table, x, "count") /\ table'[x].count = table[x].count - 1
  <2>1. table[x].count - 1 \in Nat
    BY <1>2, <1>3
  <2> QED
    BY <1>1, <1>2, <2>1, SetCount
<1>5. /\ table' \in [Slots -> Inode] /\ OnlySlot(x)
      /\ table'[x].dirt = table[x].dirt /\ table'[x].nlinks = table[x].nlinks
      /\ table'[x].lock = table[x].lock /\ table'[x].mount = table[x].mount
  BY <1>4 DEF Changed, OnlySlot
<1>6. /\ sb' \in [Devs -> Super] /\ \A c \in Devs : c # d => sb'[c] = sb[c]
      /\ sb'[d].imount = NoSlot
  <2>1. s \in Super /\ s.imount = NoSlot
    BY DEF Super, NoSlot
  <2>2. sb' = [sb EXCEPT ![d] = s]
    OBVIOUS
  <2> HIDE DEF s
  <2> QED
    BY <1>1, <2>1, <2>2 DEF StateTypeOK
<1>7. loc \in [Tasks -> Place] /\ loc[t] \in Place
  BY <1>1 DEF StateTypeOK
<1>8. Edited(loc'[t], loc[t], "put", x, "umount")
  <2>1. "put" \in Points
    BY DEF Points
  <2>2. Edited([loc[t] EXCEPT !.pc = "put"], loc[t], "put", loc[t].x, loc[t].back)
    BY <1>7, <2>1, EditPc
  <2>3. loc'[t] = [loc[t] EXCEPT !.pc = "put"]
    BY <1>7
  <2> QED
    BY <2>2, <2>3
<1>9. /\ loc'[t].pc = "put" /\ loc'[t].dev = d /\ loc' \in [Tasks -> Place]
      /\ Alone(t) /\ \A u \in Tasks : u # t => loc'[u] = loc[u]
  <2>1. \A u \in Tasks : u # t => loc'[u] = loc[u]
    BY <1>7
  <2>2. loc' \in [Tasks -> Place]
    BY <1>7, <1>8 DEF Edited
  <2> QED
    BY <1>8, <2>1, <2>2 DEF Alone, Edited
<1>10. StateTypeOK'
  BY <1>1, <1>5, <1>6, <1>9 DEF StateTypeOK
<1>11. \A y \in Slots : ~InCall(loc[t], y) /\ ~InCall(loc'[t], y)
  BY <1>9 DEF InCall
<1>12. refs \in [Tasks -> [Slots -> Nat]] /\ refs' = refs
  BY <1>1 DEF StateTypeOK
<1>13. x # NoSlot
  BY <1>1 DEF NoSlot, Slots
<1>14. Counted'
  <2>1. ASSUME NEW y \in Slots PROVE Exact(y)'
    <3>1. Exact(y)
      BY DEF InodesIInv, Counted
    <3>2. CASE y = x
      BY <1>1, <1>2, <1>4, <1>6, <1>9, <1>11, <1>12, <1>13, <3>1, <3>2, MountsCount
    <3>3. CASE y # x
      <4>1. Mounts(y)' = Mounts(y)
        <5>1. sb[d].imount # y /\ sb'[d].imount # y
          BY <1>1, <1>6, <3>3 DEF NoSlot, Slots
        <5> QED
          BY <1>6, <5>1 DEF Mounts
      <4>2. Balanced(t, y)
        BY <1>5, <1>11, <1>12, <3>3 DEF Balanced, OnlySlot
      <4> QED
        BY <1>9, <1>12, <3>1, <4>1, <4>2, ExactStep
    <3> QED
      BY <3>2, <3>3
  <2> QED
    BY <2>1 DEF Counted
<1>15. \A y \in Slots : /\ table'[y].dev = table[y].dev /\ table'[y].num = table[y].num
                        /\ table'[y].mount = table[y].mount
                        /\ table[y].count = 0 => table'[y].count = 0
  <2>1. ~(table[x].count = 0)
    BY <1>2, <1>3
  <2> QED
    BY <1>5, <2>1 DEF OnlySlot
<1>16. \A c \in Devs : Quiet(c) => Quiet(c)'
  <2>1. \A c \in Devs, n \in Nums : Awaited(c, n)' => Awaited(c, n)
    BY <1>9 DEF Awaited
  <2> QED
    BY <1>15, <2>1 DEF Quiet
<1>17. \A u \in Tasks : /\ u # t => ~Unmounting(u, d)
                        /\ \A c \in Devs : ~Unmounting(t, c)' /\ (Unmounting(u, c)' => Unmounting(u, c))
  <2>1. Unmounting(t, d)
    BY DEF Unmounting
  <2>2. \A u \in Tasks, c \in Devs : Unmounting(u, c)' => Unmounting(u, c)
    BY <1>9 DEF Unmounting
  <2>3. \A c \in Devs : ~Unmounting(t, c)'
    BY <1>9 DEF Unmounting
  <2> QED
    BY <1>1, <2>1, <2>2, <2>3 DEF InodesIInv, Apart
<1>18. ASSUME NEW u \in Tasks PROVE InMount(u)'
  <2>1. CASE u = t
    BY <1>1, <1>9, <2>1 DEF InMount
  <2>2. CASE u # t
    <3>1. loc'[u] = loc[u] /\ InMount(u) /\ InIput(u)
      BY <1>9, <2>2 DEF InodesIInv
    <3>2. ASSUME loc[u].pc = "super"
          PROVE  /\ sb'[loc[u].dev] = sb[loc[u].dev] /\ Mounts(loc[u].x)' = {}
                 /\ Quiet(loc[u].dev)' /\ table'[loc[u].x].dev = table[loc[u].x].dev
                 /\ table'[loc[u].x].num = table[loc[u].x].num
      <4>1. loc[u].x \in Slots /\ loc[u].dev \in Devs /\ Mounts(loc[u].x) = {} /\ Quiet(loc[u].dev)
            /\ sb[loc[u].dev].imount = NoSlot
        BY <3>1, <3>2 DEF InMount
      <4>2. loc[u].dev # d
        BY <1>1, <1>13, <4>1
      <4>3. loc[u].x # NoSlot
        BY <4>1 DEF NoSlot, Slots
      <4>4. Mounts(loc[u].x)' = {}
        BY <1>6, <3>1, <4>1, <4>3 DEF Mounts
      <4>5. Quiet(loc[u].dev)'
        BY <1>16, <3>1, <4>1
      <4> QED
        BY <1>6, <1>15, <4>1, <4>2, <4>4, <4>5
    <3>3. ASSUME loc[u].pc \in {"iput", "write"}, loc[u].back = "umount"
          PROVE  /\ sb'[loc[u].dev] = sb[loc[u].dev] /\ Quiet(loc[u].dev)'
                 /\ table'[loc[u].x].mount = table[loc[u].x].mount
      <4>1. loc[u].dev \in Devs /\ loc[u].x \in Slots /\ Quiet(loc[u].dev)
        BY <3>1, <3>3 DEF InMount, InIput
      <4>2. loc[u].dev # d
        BY <1>17, <2>2, <3>3 DEF Unmounting
      <4>3. Quiet(loc[u].dev)'
        BY <1>16, <3>1, <4>1
      <4> QED
        BY <1>6, <1>15, <4>1, <4>2, <4>3
    <3> QED
      BY <3>1, <3>2, <3>3 DEF InMount
  <2> QED
    BY <2>1, <2>2
<1>19. MountsOK'
  <2>0. ROOT_DEV \in Devs
    BY InodesAssumption DEF ROOT_DEV
  <2>1. sb'[ROOT_DEV].present /\ sb'[ROOT_DEV].imount = 1
    BY <1>1, <1>6, <2>0 DEF MountsOK
  <2>3. \A c \in Devs : sb'[c].imount # NoSlot =>
          /\ sb'[c].imount \in Slots /\ sb'[c].present
          /\ table'[sb'[c].imount].dev # 0 /\ table'[sb'[c].imount].num <= MountPoint
    BY <1>1, <1>6, <1>15 DEF MountsOK
  <2>4. \A b, c \in Devs : sb'[b].imount = sb'[c].imount /\ sb'[b].imount # NoSlot => b = c
    BY <1>1, <1>6 DEF MountsOK
  <2>5. \A y \in Slots : table'[y].mount =>
          \E c \in Devs : sb'[c].imount = y /\ \A u \in Tasks : ~Unmounting(u, c)'
    <3> SUFFICES ASSUME NEW y \in Slots, table'[y].mount
                 PROVE  \E c \in Devs : sb'[c].imount = y /\ \A u \in Tasks : ~Unmounting(u, c)'
      OBVIOUS
    <3>1. PICK c \in Devs : sb[c].imount = y /\ \A u \in Tasks : ~Unmounting(u, c)
      BY <1>1, <1>15 DEF MountsOK
    <3>2. c # d
      BY <3>1 DEF Unmounting
    <3> QED
      BY <1>6, <1>17, <3>1, <3>2
  <2> QED
    BY <2>1, <2>3, <2>4, <2>5 DEF MountsOK
<1>20. InIput(t)'
  BY <1>9 DEF InIput
<1>21. table'[x].count = 0 => ~table'[x].dirt /\ ~table'[x].lock
  <2>1. table'[x].count = 0 => table[x].count = 1
    BY <1>2, <1>4
  <2>2. ~table[x].lock /\ (table[x].count = 1 => ~table[x].dirt)
    BY DEF LastUse
  <2> QED
    BY <1>5, <2>1, <2>2
<1>22. table'[x].count <= table[x].count
  BY <1>2, <1>4
<1> QED
  BY <1>1, <1>3, <1>5, <1>6, <1>9, <1>10, <1>14, <1>17, <1>18, <1>19, <1>20, <1>21, <1>22, MountingKeeps

(* sys_umount() up to its iput(). *)
LEMMA UmountKeeps ==
  ASSUME InodesIInv, Races = {}, NEW t \in Tasks, NEW d \in Devs, sys_umount(t, d)
  PROVE  InodesIInv'
<1> DEFINE x == sb[d].imount
           l == Call("iput", d, 0, x, 0, "umount")
<1>1. /\ loc[t].pc = "idle" /\ d # ROOT_DEV /\ x # NoSlot /\ ~Busy(d)
      /\ \A n \in Nums : ~Awaited(d, n)
      /\ \A u \in Tasks : ~Unmounting(u, d)
      /\ table' = [table EXCEPT ![x].mount = FALSE]
      /\ loc' = [loc EXCEPT ![t] = [Idle EXCEPT !.pc = "iput", !.dev = d, !.x = x,
                                                !.back = "umount"]]
      /\ UNCHANGED <<disk, imap, sb, links, refs>>
  BY DEF sys_umount, Goto
<1>2. StateTypeOK /\ MountsOK
  BY DEF InodesIInv
<1>3. x \in Slots /\ table[x].dev # 0 /\ table \in [Slots -> Inode] /\ table[x].count \in Nat
  BY <1>1, <1>2 DEF MountsOK, StateTypeOK, Inode
<1>4. Changed(table', table, x, "mount") /\ table'[x].mount = FALSE
  BY <1>1, <1>3, SetMount
<1>5. /\ table' \in [Slots -> Inode] /\ OnlySlot(x)
      /\ table'[x].dirt = table[x].dirt /\ table'[x].nlinks = table[x].nlinks
      /\ table'[x].lock = table[x].lock /\ table'[x].count = table[x].count
  BY <1>4 DEF Changed, OnlySlot
<1> HIDE DEF x
<1>6. [Idle EXCEPT !.pc = "iput", !.dev = d, !.x = x, !.back = "umount"] = l
  BY UmountPlace
<1>7. l \in Place /\ l.pc = "iput" /\ l.dev = d /\ l.x = x /\ l.back = "umount"
  <2>1. x \in Nat
    BY <1>3 DEF Slots
  <2> QED
    BY <2>1 DEF Call, Place, Points, Backs
<1>8. loc' = [loc EXCEPT ![t] = l] /\ loc \in [Tasks -> Place]
  BY <1>1, <1>2, <1>6 DEF StateTypeOK
<1> HIDE DEF l, x
<1>9. /\ loc'[t].pc = "iput" /\ loc'[t].dev = d /\ loc'[t].x = x /\ loc'[t].back = "umount"
      /\ loc' \in [Tasks -> Place] /\ \A u \in Tasks : u # t => loc'[u] = loc[u]
  BY <1>7, <1>8
<1>10. StateTypeOK' /\ Alone(t) /\ sb' = sb /\ refs' = refs /\ refs \in [Tasks -> [Slots -> Nat]]
  BY <1>1, <1>2, <1>5, <1>9 DEF StateTypeOK, Alone
<1>11. \A y \in Slots : ~InCall(loc[t], y) /\ ~InCall(loc'[t], y)
  BY <1>1, <1>9 DEF InCall
<1>12. Counted'
  <2>1. ASSUME NEW y \in Slots PROVE Exact(y)'
    <3>1. Exact(y)
      BY DEF InodesIInv, Counted
    <3>2. Mounts(y)' = Mounts(y)
      BY <1>10 DEF Mounts
    <3>3. Balanced(t, y)
      BY <1>5, <1>10, <1>11 DEF Balanced, OnlySlot
    <3> QED
      BY <1>10, <3>1, <3>2, <3>3, ExactStep
  <2> QED
    BY <2>1 DEF Counted
<1>13. \A y \in Slots : /\ table'[y].dev = table[y].dev /\ table'[y].num = table[y].num
                        /\ table'[y].count = table[y].count /\ (table'[y].mount => table[y].mount)
  BY <1>4, <1>5 DEF OnlySlot, Changed
<1>14. \A c \in Devs : Quiet(c) => Quiet(c)'
  <2>1. \A c \in Devs, n \in Nums : Awaited(c, n)' => Awaited(c, n)
    BY <1>9 DEF Awaited
  <2> QED
    BY <1>13, <2>1 DEF Quiet
<1>15. Quiet(d)
  <2>1. \A y \in Slots : table[y].count \in Nat
    BY <1>3 DEF Inode
  <2>2. \A y \in Slots : table[y].dev = d => table[y].count = 0
    BY <1>1, <2>1 DEF Busy
  <2> QED
    BY <1>1, <2>2 DEF Quiet
<1>16. /\ \A c \in Devs : Unmounting(t, c)' => c = d
       /\ \A u \in Tasks, c \in Devs : u # t => (Unmounting(u, c)' <=> Unmounting(u, c))
  BY <1>9 DEF Unmounting
<1>17. ASSUME NEW u \in Tasks PROVE InMount(u)'
  <2>1. CASE u = t
    <3>1. sb'[d].imount = x
      BY <1>10 DEF x
    <3> QED
      BY <1>1, <1>3, <1>4, <1>9, <1>14, <1>15, <2>1, <3>1 DEF InMount
  <2>2. CASE u # t
    <3>1. loc'[u] = loc[u] /\ InMount(u) /\ InIput(u)
      BY <1>9, <2>2 DEF InodesIInv
    <3>2. ASSUME loc[u].pc = "super"
          PROVE  /\ Mounts(loc[u].x)' = {} /\ Quiet(loc[u].dev)'
                 /\ table'[loc[u].x].dev = table[loc[u].x].dev
                 /\ table'[loc[u].x].num = table[loc[u].x].num
      <4>1. loc[u].x \in Slots /\ loc[u].dev \in Devs /\ Mounts(loc[u].x) = {} /\ Quiet(loc[u].dev)
        BY <3>1, <3>2 DEF InMount
      <4>2. Mounts(loc[u].x)' = {}
        BY <1>10, <3>1, <4>1 DEF Mounts
      <4>3. Quiet(loc[u].dev)'
        BY <1>14, <3>1, <4>1
      <4> QED
        BY <1>13, <4>1, <4>2, <4>3
    <3>3. ASSUME loc[u].pc \in {"iput", "write"}, loc[u].back = "umount"
          PROVE  Quiet(loc[u].dev)' /\ (table'[loc[u].x].mount => table[loc[u].x].mount)
      <4>1. loc[u].dev \in Devs /\ loc[u].x \in Slots /\ Quiet(loc[u].dev)
        BY <3>1, <3>3 DEF InMount, InIput
      <4>2. Quiet(loc[u].dev)'
        BY <1>14, <3>1, <4>1
      <4> QED
        BY <1>13, <4>1, <4>2
    <3> QED
      BY <1>10, <3>1, <3>2, <3>3 DEF InMount
  <2> QED
    BY <2>1, <2>2
<1>18. MountsOK'
  <2>1. \A c \in Devs : sb[c].imount # NoSlot =>
          /\ sb[c].imount \in Slots /\ sb[c].present
          /\ table'[sb[c].imount].dev # 0 /\ table'[sb[c].imount].num <= MountPoint
    BY <1>2, <1>13 DEF MountsOK
  <2>2. ASSUME NEW y \in Slots, table'[y].mount
        PROVE  \E c \in Devs : sb[c].imount = y /\ \A u \in Tasks : ~Unmounting(u, c)'
    <3>1. PICK c \in Devs : sb[c].imount = y /\ \A u \in Tasks : ~Unmounting(u, c)
      BY <1>2, <1>13, <2>2 DEF MountsOK
    <3>2. c # d
      BY <1>4, <2>2, <3>1 DEF x
    <3> QED
      BY <1>16, <3>1, <3>2
  <2> QED
    BY <1>2, <1>10, <2>1, <2>2 DEF MountsOK
<1>19. InIput(t)'
  BY <1>3, <1>9, <1>13 DEF InIput
<1>20. \A u \in Tasks : u # t => /\ loc[u].pc \in {"find", "read"} => loc[u].e # x
                                 /\ loc[u].pc = "truncate" => loc[u].x # x
  <2>1. \A u \in Tasks : loc[u].pc = "find" => loc[u].e # x
    BY <1>3 DEF InodesIInv, InIget, Zeroed
  <2>2. \A u \in Tasks : loc[u].pc = "read" => loc[u].e # x
    BY <1>3, ReaderAlone DEF x
  <2>3. table[x].nlinks > 0
    BY <1>3, MountedLinks DEF x
  <2>4. \A u \in Tasks : loc[u].pc = "truncate" => loc[u].x # x
    BY <2>3 DEF InodesIInv, InIput
  <2> QED
    BY <2>1, <2>2, <2>4
<1>21. table'[x].count <= table[x].count
  BY <1>3, <1>5
<1>22. table'[x].count = 0 => ~table'[x].dirt /\ ~table'[x].lock
  BY <1>3, <1>5 DEF InodesIInv, FreeIsClean
<1> QED
  BY <1>1, <1>3, <1>5, <1>9, <1>10, <1>12, <1>15, <1>16, <1>17, <1>18, <1>19, <1>20, <1>21, <1>22,
     MountingKeeps

----------------------------------------------------------------------------
(* In a fifth kind iget() takes an inode, finds one to wait for, or makes  *)
(* the empty inode e the one it looks for.  tab is the table with e taken. *)
Hand(t, tab, e) ==
  /\ tab \in [Slots -> Inode] /\ tab[e] = [Zeroed EXCEPT !.count = 1]
  /\ \A y \in Slots : y # e => tab[y] = table[y]
  /\ \/ loc[t].pc = "idle" /\ table[e].count = 0
     \/ loc[t].pc = "find" /\ loc[t].e = e /\ table[e].count = 1
  /\ \A u \in Tasks : refs[u][e] = 0
  /\ \A c \in Devs : sb[c].imount # e
  /\ \A u \in Tasks : u # t =>
       /\ loc[u].pc \in {"find", "read"} => loc[u].e # e
       /\ loc[u].pc \in {"iput", "truncate", "write", "super"} => loc[u].x # e
  /\ table[e].dev # 0 =>
       disk[table[e].dev][table[e].num] = links[table[e].dev][table[e].num]

(* The device is mounted, and is not being mounted or unmounted. *)
Open(d) ==
  /\ d \in Devs /\ sb[d].present
  /\ \A u \in Tasks : ~(loc[u].pc = "super" /\ loc[u].dev = d) /\ ~Unmounting(u, d)

Target(d, n) == Open(d) /\ n \in imap[d] /\ links[d][n] > 0

SameInode(y) ==
  /\ table'[y].dev = table[y].dev /\ table'[y].num = table[y].num
  /\ table'[y].nlinks = table[y].nlinks /\ table'[y].dirt = table[y].dirt
  /\ table'[y].lock = table[y].lock /\ table'[y].mount = table[y].mount

LEMMA GetKeeps ==
  ASSUME InodesIInv, NEW t \in Tasks, NEW e \in Slots, NEW tab, NEW d \in Devs, NEW n,
         Hand(t, tab, e), Target(d, n), StateTypeOK', Alone(t),
         UNCHANGED <<disk, imap, sb, links>>,
         \A y \in Slots : y # e =>
           /\ SameInode(y)
           /\ \/ table'[y] = table[y]
              \/ /\ table[y].dev = d /\ ~table[y].lock /\ table[y].nlinks > 0
                 /\ table'[y].count = table[y].count + 1,
         ~table'[e].mount, ~table'[e].dirt, table'[e].count = 0 => ~table'[e].lock,
         table'[e].dev # 0 =>
           /\ table'[e].dev = d /\ table'[e].num = n /\ Matches(tab, d, n) = {}
           /\ loc'[t].pc = "read",
         \A y \in Slots : Balanced(t, y),
         loc'[t].pc \in {"idle", "find", "read"}, InIget(t)',
         loc'[t].pc = "read" => loc'[t].e = e,
         loc'[t].pc = "find" => loc'[t].dev = d,
         \A y \in Slots : refs'[t][y] > 0 => refs[t][y] > 0 \/ (y # e /\ table[y].dev # 0)
  PROVE  InodesIInv'
<1>0. /\ StateTypeOK /\ Named /\ MountsOK /\ loc[t].pc \in {"idle", "find"}
      /\ \A u \in Tasks : u # t => loc'[u] = loc[u] /\ refs'[u] = refs[u]
      /\ refs \in [Tasks -> [Slots -> Nat]] /\ refs' \in [Tasks -> [Slots -> Nat]]
  BY DEF InodesIInv, Alone, Hand, StateTypeOK
<1>1. /\ Open(d) /\ n \in imap[d] /\ imap' = imap /\ sb' = sb /\ links' = links /\ disk' = disk
      /\ d # 0
  BY InodesAssumption DEF Target
<1>2. \A y \in Slots : /\ table[y].count \in Nat /\ table'[y].count \in Nat
                       /\ y # e /\ table'[y].count = 0 => table[y].count = 0
  <2>1. \A y \in Slots : table[y].count \in Nat /\ table'[y].count \in Nat
    BY <1>0 DEF StateTypeOK, Inode
  <2> QED
    BY <2>1
<1>3. Counted'
  <2>1. ASSUME NEW y \in Slots PROVE Exact(y)'
    <3>1. Exact(y) /\ Mounts(y)' = Mounts(y)
      BY <1>1 DEF InodesIInv, Counted, Mounts
    <3> QED
      BY <1>0, <3>1, ExactStep
  <2> QED
    BY <2>1 DEF Counted
<1>4. LowKept'
  BY <1>1 DEF InodesIInv, LowKept
<1>5. Named'
  <2>1. \A y \in Slots : table'[y].dev # 0 => table'[y].num \in imap[table'[y].dev]
    BY <1>0, <1>1 DEF Named, SameInode
  <2>2. \A y \in Slots : table'[y].dirt => table'[y].dev # 0
    BY <1>0 DEF Named, SameInode
  <2>3. ASSUME NEW y \in Slots, NEW u \in Tasks, refs'[u][y] > 0 PROVE table'[y].dev # 0
    <3>1. y # e
      <4>1. ~(refs[u][e] > 0)
        BY DEF Hand
      <4> QED
        BY <1>0, <2>3, <4>1
    <3>2. table[y].dev # 0
      BY <1>0, <2>3 DEF Named
    <3> QED
      BY <3>1, <3>2 DEF SameInode
  <2>4. ASSUME NEW y \in Slots, y # e, table'[y].dev = table'[e].dev,
               table'[y].num = table'[e].num, table'[y].dev # 0
        PROVE  FALSE
    <3>1. table[y].dev = d /\ table[y].num = n /\ tab[y] = table[y]
      BY <2>4 DEF SameInode, Hand
    <3>2. y \in Matches(tab, d, n)
      BY <3>1 DEF Matches
    <3> QED
      BY <2>4, <3>2
  <2>5. InodeUnique'
    BY <1>0, <2>4 DEF Named, InodeUnique, SameInode
  <2> QED
    BY <1>1, <2>1, <2>2, <2>3, <2>5 DEF Named
<1>6. FreeIsClean'
  BY <1>2 DEF InodesIInv, FreeIsClean, SameInode
<1>7. /\ ~Reading(e) /\ \A y \in Slots : y # e => (Reading(y)' <=> Reading(y))
      /\ table'[e].dev # 0 => Reading(e)'
  <2>1. ~Reading(e)
    BY <1>0 DEF Reading, Hand
  <2>2. \A y \in Slots : y # e => (Reading(y)' <=> Reading(y))
    BY <1>0 DEF Reading
  <2>3. table'[e].dev # 0 => Reading(e)'
    BY DEF Reading
  <2> QED
    BY <2>1, <2>2, <2>3
<1>8. CopyGood'
  <2> SUFFICES ASSUME NEW y \in Slots, table'[y].dev # 0, ~Reading(y)'
               PROVE  /\ table'[y].nlinks = links[table'[y].dev][table'[y].num]
                      /\ table'[y].dirt \/ disk[table'[y].dev][table'[y].num]
                                             = links[table'[y].dev][table'[y].num]
    BY <1>1 DEF CopyGood
  <2>1. y # e /\ ~Reading(y)
    BY <1>7
  <2> QED
    BY <2>1 DEF SameInode, InodesIInv, CopyGood
<1>9. DiskGood'
  <2> SUFFICES ASSUME NEW c \in Devs, NEW m \in imap[c],
                      \A y \in Slots : table'[y].dev = c /\ table'[y].num = m => Reading(y)'
               PROVE  disk[c][m] = links[c][m]
    BY <1>1 DEF DiskGood
  <2>1. CASE table[e].dev = c /\ table[e].num = m
    BY <2>1, InodesAssumption DEF Hand
  <2>2. CASE ~(table[e].dev = c /\ table[e].num = m)
    <3>1. \A y \in Slots : table[y].dev = c /\ table[y].num = m => Reading(y)
      BY <1>7, <2>2 DEF SameInode
    <3> QED
      BY <3>1 DEF InodesIInv, DiskGood
  <2> QED
    BY <2>1, <2>2
<1>10. DeviceStays'
  <2> SUFFICES ASSUME NEW y \in Slots, table'[y].count > 0, table'[y].dev # 0
               PROVE  sb[table'[y].dev].present
    BY <1>1 DEF DeviceStays
  <2>1. CASE table'[y].dev = d
    BY <1>1, <2>1 DEF Open
  <2>2. CASE table'[y].dev # d
    <3>1. y # e /\ table'[y].dev = table[y].dev /\ table'[y] = table[y]
      BY <2>2 DEF SameInode
    <3> QED
      BY <3>1 DEF InodesIInv, DeviceStays
  <2> QED
    BY <2>1, <2>2
<1>11. ASSUME NEW c \in Devs, Quiet(c), c # d PROVE Quiet(c)'
  <2>1. \A y \in Slots : table'[y].dev = c => table'[y].count = 0
    <3> SUFFICES ASSUME NEW y \in Slots, table'[y].dev = c PROVE table'[y].count = 0
      OBVIOUS
    <3>1. y # e
      BY <1>11, InodesAssumption
    <3>2. table[y].dev = c /\ table'[y] = table[y]
      BY <1>11, <3>1 DEF SameInode
    <3> QED
      BY <1>11, <3>2 DEF Quiet
  <2>2. \A m \in Nums : Awaited(c, m)' => Awaited(c, m)
    BY <1>0, <1>11 DEF Awaited
  <2> QED
    BY <1>11, <2>1, <2>2 DEF Quiet
<1>12. ASSUME NEW u \in Tasks PROVE InIget(u)' /\ InIput(u)' /\ InMount(u)'
  <2>1. CASE u = t
    BY <2>1 DEF InIput, InMount
  <2>2. CASE u # t
    <3>1. loc'[u] = loc[u] /\ InIget(u) /\ InIput(u) /\ InMount(u)
      BY <1>0, <2>2 DEF InodesIInv
    <3>2. ASSUME loc[u].pc = "find" PROVE table'[loc[u].e] = table[loc[u].e]
      <4>1. loc[u].e \in Slots /\ loc[u].e # e /\ table[loc[u].e].dev = 0
        BY <2>2, <3>1, <3>2 DEF InIget, Hand, Zeroed
      <4> QED
        BY <1>1, <4>1
    <3>3. ASSUME loc[u].pc = "read" PROVE table'[loc[u].e] = table[loc[u].e]
      <4>1. loc[u].e \in Slots /\ loc[u].e # e /\ table[loc[u].e].lock
        BY <2>2, <3>1, <3>3 DEF InIget, Hand
      <4> QED
        BY <4>1
    <3>4. InIget(u)'
      BY <1>1, <3>1, <3>2, <3>3 DEF InIget
    <3>5. ASSUME loc[u].pc \in {"iput", "truncate", "write", "super"}
          PROVE  loc[u].x \in Slots /\ loc[u].x # e /\ SameInode(loc[u].x)
      <4>1. loc[u].x \in Slots
        BY <3>1, <3>5 DEF InIput, InMount
      <4>2. loc[u].x # e
        BY <2>2, <3>5 DEF Hand
      <4> QED
        BY <4>1, <4>2
    <3>6. ASSUME loc[u].pc = "truncate" PROVE table'[loc[u].x] = table[loc[u].x]
      <4>1. table[loc[u].x].nlinks = 0 /\ loc[u].x \in Slots /\ loc[u].x # e
        BY <3>1, <3>5, <3>6 DEF InIput
      <4> QED
        BY <4>1
    <3>7. InIput(u)'
      BY <3>1, <3>5, <3>6 DEF InIput, SameInode
    <3>8. ASSUME loc[u].pc = "super"
          PROVE Mounts(loc[u].x)' = {} /\ Quiet(loc[u].dev)'
      <4>1. loc[u].dev \in Devs /\ loc[u].dev # d /\ Quiet(loc[u].dev) /\ Mounts(loc[u].x) = {}
        BY <1>1, <3>1, <3>8 DEF InMount, Open
      <4>2. Mounts(loc[u].x)' = Mounts(loc[u].x)
        BY <1>1, <3>1 DEF Mounts
      <4>3. Quiet(loc[u].dev)'
        BY <1>11, <3>1, <4>1
      <4> QED
        BY <4>1, <4>2, <4>3
    <3>9. ASSUME loc[u].pc \in {"iput", "write"}, loc[u].back = "umount"
          PROVE Quiet(loc[u].dev)'
      <4>1. loc[u].dev \in Devs /\ Quiet(loc[u].dev)
        BY <3>1, <3>9 DEF InMount
      <4>2. loc[u].dev # d
        BY <1>1, <3>9 DEF Open, Unmounting
      <4> QED
        BY <1>11, <3>1, <4>1, <4>2
    <3>10. InMount(u)'
      BY <1>1, <3>1, <3>5, <3>8, <3>9 DEF InMount, SameInode
    <3> QED
      BY <3>4, <3>7, <3>10
  <2> QED
    BY <2>1, <2>2
<1>13. Apart'
  <2>1. \A u \in Tasks, y \in Slots : u # t => (LockedBy(u, y)' <=> LockedBy(u, y))
    BY <1>0 DEF LockedBy
  <2>2. \A y \in Slots : LockedBy(t, y)' => \A u \in Tasks : u # t => ~LockedBy(u, y)
    BY DEF LockedBy, Hand
  <2>3. \A u, v \in Tasks : u # v => \A y \in Slots : ~(LockedBy(u, y)' /\ LockedBy(v, y)')
    BY <2>1, <2>2 DEF InodesIInv, Apart
  <2>4. \A u, v \in Tasks : u # v /\ loc'[u].pc = "super" /\ loc'[v].pc = "super"
          => loc'[u].dev # loc'[v].dev /\ loc'[u].x # loc'[v].x
    BY <1>0 DEF InodesIInv, Apart
  <2>5. \A u \in Tasks, c \in Devs : Unmounting(u, c)' => Unmounting(u, c)
    BY <1>0 DEF Unmounting
  <2> QED
    BY <2>3, <2>4, <2>5 DEF InodesIInv, Apart
<1>14. MountsOK'
  <2>1. \A u \in Tasks, c \in Devs : Unmounting(u, c)' => Unmounting(u, c)
    BY <1>0 DEF Unmounting
  <2>2. \A c \in Devs : sb[c].imount \in Slots => SameInode(sb[c].imount)
    BY DEF Hand
  <2>3. \A y \in Slots : table'[y].mount => table[y].mount
    BY DEF SameInode
  <2>4. \A c \in Devs : sb[c].imount # NoSlot =>
          /\ sb[c].imount \in Slots /\ sb[c].present
          /\ table'[sb[c].imount].dev # 0 /\ table'[sb[c].imount].num <= MountPoint
    BY <1>0, <2>2 DEF MountsOK, SameInode
  <2>5. ASSUME NEW y \in Slots, table'[y].mount
        PROVE  \E c \in Devs : sb[c].imount = y /\ \A u \in Tasks : ~Unmounting(u, c)'
    BY <1>0, <2>1, <2>3, <2>5 DEF MountsOK
  <2> QED
    BY <1>0, <1>1, <2>4, <2>5 DEF MountsOK
<1> QED
  BY <1>3, <1>4, <1>5, <1>6, <1>8, <1>9, <1>10, <1>12, <1>13, <1>14 DEF InodesIInv

LEMMA HandInode ==
  ASSUME NEW t, NEW e, NEW tab, Hand(t, tab, e)
  PROVE  /\ tab[e].dev = 0 /\ tab[e].count = 1 /\ tab[e].mount = FALSE
         /\ tab[e].dirt = FALSE /\ tab[e].lock = FALSE
BY DEF Hand, Zeroed

(* The root of the device that is mounted on an inode can be named, too. *)
LEMMA ResolveTarget ==
  ASSUME InodesIInv, NEW t \in Tasks, NEW e \in Slots, NEW tab, Hand(t, tab, e),
         NEW dev, NEW nr, Target(dev, nr)
  PROVE  Target(Resolve(tab, dev, nr)[1], Resolve(tab, dev, nr)[2])
<1>1. CASE ~\E x \in Matches(tab, dev, nr) : tab[x].mount /\ ~tab[x].lock
  <2>1. Resolve(tab, dev, nr) = <<dev, nr>>
    BY <1>1 DEF Resolve
  <2> QED
    BY <2>1
<1>2. CASE \E x \in Matches(tab, dev, nr) : tab[x].mount /\ ~tab[x].lock
  <2> DEFINE x == CHOOSE x \in Matches(tab, dev, nr) : tab[x].mount
             m == CHOOSE m \in Devs : sb[m].imount = x
  <2>1. Resolve(tab, dev, nr) = <<m, ROOT_INO>>
    BY <1>2 DEF Resolve
  <2>2. x \in Slots /\ tab[x].mount
    BY <1>2 DEF Matches
  <2> HIDE DEF x
  <2>3. x # e /\ table[x].mount
    <3>1. x # e
      BY <2>2, HandInode
    <3> QED
      BY <2>2, <3>1 DEF Hand
  <2>4. PICK c \in Devs : sb[c].imount = x /\ \A u \in Tasks : ~Unmounting(u, c)
    BY <2>2, <2>3 DEF InodesIInv, MountsOK
  <2>5. m \in Devs /\ sb[m].imount = x
    BY <2>4
  <2> HIDE DEF m
  <2>6. x # NoSlot
    BY <2>2 DEF NoSlot, Slots
  <2>7. m = c
    BY <2>4, <2>5, <2>6 DEF InodesIInv, MountsOK
  <2>8. sb[m].present
    BY <2>5, <2>6 DEF InodesIInv, MountsOK
  <2>9. \A u \in Tasks : ~(loc[u].pc = "super" /\ loc[u].dev = m)
    BY <2>5, <2>6 DEF InodesIInv, InMount
  <2>10. Open(m)
    BY <2>4, <2>5, <2>7, <2>8, <2>9 DEF Open
  <2>11. ROOT_INO \in Nums /\ ROOT_INO <= MountPoint
    BY InodesAssumption DEF ROOT_INO, Nums, MountPoint
  <2>12. ROOT_INO \in imap[m] /\ links[m][ROOT_INO] > 0
    BY <2>5, <2>11 DEF InodesIInv, LowKept
  <2>13. Target(m, ROOT_INO)
    BY <2>10, <2>12 DEF Target
  <2> QED
    BY <2>1, <2>13
<1> QED
  BY <1>1, <1>2

(* No copy is in the table: e becomes it, and is read. *)
LEMMA IgetNewKeeps ==
  ASSUME InodesIInv, NEW t \in Tasks, NEW e \in Slots, NEW tab, NEW d \in Devs, NEW n,
         Hand(t, tab, e), Target(d, n), Matches(tab, d, n) = {},
         table' = [tab EXCEPT ![e].dev = d, ![e].num = n, ![e].lock = TRUE],
         loc' = [loc EXCEPT ![t] = Call("read", d, n, 0, e, "idle")],
         UNCHANGED <<disk, imap, sb, links, refs>>
  PROVE  InodesIInv'
<1> DEFINE T1 == [tab EXCEPT ![e].dev = d]
           T2 == [T1 EXCEPT ![e].num = n]
           l == Call("read", d, n, 0, e, "idle")
<1>1. StateTypeOK /\ loc \in [Tasks -> Place] /\ refs \in [Tasks -> [Slots -> Nat]] /\ refs' = refs
  BY DEF InodesIInv, StateTypeOK
<1>2. n \in Nat /\ d # 0 /\ e \in Nat
  BY <1>1, InodesAssumption DEF Target, StateTypeOK, Nums, Slots
<1>3. /\ tab \in [Slots -> Inode] /\ \A y \in Slots : y # e => tab[y] = table[y]
  BY DEF Hand
<1>4. Changed(T1, tab, e, "dev") /\ T1[e].dev = d
  BY <1>3, SetDev
<1>5. table' = [T2 EXCEPT ![e].lock = TRUE]
  OBVIOUS
<1> HIDE DEF T1
<1>6. Changed(T2, T1, e, "num") /\ T2[e].num = n
  <2>1. T1 \in [Slots -> Inode]
    BY <1>4 DEF Changed
  <2> QED
    BY <1>2, <2>1, SetNum
<1> HIDE DEF T2
<1>7. Changed(table', T2, e, "lock") /\ table'[e].lock = TRUE
  <2>1. T2 \in [Slots -> Inode]
    BY <1>6 DEF Changed
  <2> QED
    BY ONLY <1>5, <2>1, e \in Slots, SetLock
<1>8. /\ table' \in [Slots -> Inode] /\ \A y \in Slots : y # e => table'[y] = table[y]
      /\ table'[e].dev = d /\ table'[e].num = n /\ table'[e].count = tab[e].count
      /\ table'[e].dirt = tab[e].dirt /\ table'[e].mount = tab[e].mount /\ table'[e].lock = TRUE
  BY <1>3, <1>4, <1>6, <1>7 DEF Changed
<1>9. /\ table'[e].count = 1 /\ table'[e].dirt = FALSE /\ table'[e].mount = FALSE
  BY <1>8, HandInode
<1>10. l \in Place /\ l.pc = "read" /\ l.e = e
  BY <1>2 DEF Call, Place, Points, Backs
<1> HIDE DEF l
<1>11. /\ loc'[t].pc = "read" /\ loc'[t].e = e /\ loc' \in [Tasks -> Place] /\ Alone(t)
  <2>1. loc' = [loc EXCEPT ![t] = l]
    BY DEF l
  <2> QED
    BY <1>1, <1>10, <2>1 DEF Alone
<1>12. StateTypeOK'
  BY <1>1, <1>8, <1>11 DEF StateTypeOK
<1>13. \A y \in Slots : y # e => SameInode(y) /\ table'[y] = table[y]
  BY <1>8 DEF SameInode
<1>14. InIget(t)'
  BY <1>2, <1>8, <1>9, <1>11 DEF InIget
<1>15. ASSUME NEW y \in Slots PROVE Balanced(t, y)
  <2>1. InCall(loc'[t], y) <=> y = e
    BY <1>11 DEF InCall
  <2>2. CASE y # e
    <3>1. ~InCall(loc[t], y)
      BY <2>2 DEF InCall, Hand
    <3> QED
      BY <1>1, <1>8, <2>1, <2>2, <3>1 DEF Balanced
  <2>3. CASE y = e /\ loc[t].pc = "idle"
    <3>1. ~InCall(loc[t], e) /\ table[e].count = 0
      BY <2>3 DEF InCall, Hand
    <3> QED
      BY <1>1, <1>9, <2>1, <2>3, <3>1 DEF Balanced
  <2>4. CASE y = e /\ loc[t].pc = "find"
    <3>1. InCall(loc[t], e) /\ table[e].count = 1
      BY <2>4 DEF InCall, Hand
    <3> QED
      BY <1>1, <1>9, <2>1, <2>4, <3>1 DEF Balanced
  <2> QED
    BY <2>2, <2>3, <2>4 DEF Hand
<1> QED
  BY <1>1, <1>8, <1>9, <1>11, <1>12, <1>13, <1>14, <1>15, GetKeeps

(* There is a copy, but it is locked. *)
LEMMA IgetWaitKeeps ==
  ASSUME InodesIInv, NEW t \in Tasks, NEW e \in Slots, NEW tab, NEW d \in Devs, NEW n,
         NEW x \in Slots, Hand(t, tab, e), Target(d, n), table' = tab,
         loc' = [loc EXCEPT ![t] = Call("find", d, n, x, e, "idle")],
         UNCHANGED <<disk, imap, sb, links, refs>>
  PROVE  InodesIInv'
<1> DEFINE l == Call("find", d, n, x, e, "idle")
<1>1. StateTypeOK /\ loc \in [Tasks -> Place] /\ refs \in [Tasks -> [Slots -> Nat]] /\ refs' = refs
  BY DEF InodesIInv, StateTypeOK
<1>2. n \in Nat /\ x \in Nat /\ e \in Nat
  BY <1>1 DEF Target, StateTypeOK, Nums, Slots
<1>3. /\ table' \in [Slots -> Inode] /\ \A y \in Slots : y # e => table'[y] = table[y]
  BY DEF Hand
<1>a. /\ tab[e].dev = 0 /\ tab[e].count = 1 /\ tab[e].mount = FALSE
      /\ tab[e].dirt = FALSE /\ tab[e].lock = FALSE
  BY ONLY Hand(t, tab, e), HandInode
<1>4. table'[e].count = 1 /\ table'[e].dirt = FALSE /\ table'[e].mount = FALSE
      /\ table'[e].dev = 0 /\ table'[e].lock = FALSE
  BY <1>a
<1>5. l \in Place /\ l.pc = "find" /\ l.e = e /\ l.x = x /\ l.dev = d /\ l.num = n
  BY <1>2 DEF Call, Place, Points, Backs
<1> HIDE DEF l
<1>6. /\ loc'[t].pc = "find" /\ loc'[t].e = e /\ loc'[t].x = x /\ loc'[t].dev = d /\ loc'[t].num = n
      /\ loc' \in [Tasks -> Place] /\ Alone(t)
  <2>1. loc' = [loc EXCEPT ![t] = l]
    BY DEF l
  <2> QED
    BY <1>1, <1>5, <2>1 DEF Alone
<1>7. StateTypeOK'
  BY <1>1, <1>3, <1>6 DEF StateTypeOK
<1>8. \A y \in Slots : y # e => SameInode(y) /\ table'[y] = table[y]
  BY <1>3 DEF SameInode
<1>9. InIget(t)'
  <2>1. table'[e] = [Zeroed EXCEPT !.count = 1]
    BY DEF Hand
  <2> QED
    BY <1>6, <2>1 DEF InIget, Target, Open
<1>10. ASSUME NEW y \in Slots PROVE Balanced(t, y)
  <2>1. InCall(loc'[t], y) <=> y = e
    BY <1>6 DEF InCall
  <2>2. CASE y # e
    <3>1. ~InCall(loc[t], y)
      BY <2>2 DEF InCall, Hand
    <3> QED
      BY <1>1, <1>3, <2>1, <2>2, <3>1 DEF Balanced
  <2>3. CASE y = e /\ loc[t].pc = "idle"
    <3>1. ~InCall(loc[t], e) /\ table[e].count = 0
      BY <2>3 DEF InCall, Hand
    <3> QED
      BY <1>1, <1>4, <2>1, <2>3, <3>1 DEF Balanced
  <2>4. CASE y = e /\ loc[t].pc = "find"
    <3>1. InCall(loc[t], e) /\ table[e].count = 1
      BY <2>4 DEF InCall, Hand
    <3> QED
      BY <1>1, <1>4, <2>1, <2>4, <3>1 DEF Balanced
  <2> QED
    BY <2>2, <2>3, <2>4 DEF Hand
<1> QED
  BY <1>1, <1>3, <1>4, <1>6, <1>7, <1>8, <1>9, <1>10, GetKeeps

(* There is a copy: it is taken, and e is given back. *)
LEMMA IgetFoundKeeps ==
  ASSUME InodesIInv, NEW t \in Tasks, NEW e \in Slots, NEW tab, NEW d \in Devs, NEW n,
         NEW x \in Matches(tab, d, n), Hand(t, tab, e), Target(d, n), ~tab[x].lock,
         table' = [tab EXCEPT ![x].count = @ + 1, ![e].count = @ - 1],
         refs' = [refs EXCEPT ![t][x] = @ + 1],
         loc' = [loc EXCEPT ![t] = Idle],
         UNCHANGED <<disk, imap, sb, links>>
  PROVE  InodesIInv'
<1> DEFINE T == [tab EXCEPT ![x].count = tab[x].count + 1]
<1>1. StateTypeOK /\ loc \in [Tasks -> Place] /\ refs \in [Tasks -> [Slots -> Nat]]
  BY DEF InodesIInv, StateTypeOK
<1>2. /\ tab \in [Slots -> Inode] /\ \A y \in Slots : y # e => tab[y] = table[y]
      /\ x \in Slots /\ tab[x].dev = d /\ tab[x].num = n /\ d # 0
  BY InodesAssumption DEF Hand, Matches
<1>a. /\ tab[e].dev = 0 /\ tab[e].count = 1 /\ tab[e].mount = FALSE
      /\ tab[e].dirt = FALSE /\ tab[e].lock = FALSE
  BY ONLY Hand(t, tab, e), HandInode
<1>3. x # e /\ tab[x] = table[x] /\ tab[x].count + 1 \in Nat /\ table[x].count \in Nat
  <2>1. x # e
    BY <1>2, <1>a
  <2> QED
    BY <1>2, <2>1 DEF Inode
<1>4. Changed(T, tab, x, "count") /\ T[x].count = tab[x].count + 1
  BY <1>2, <1>3, SetCount
<1>5. table' = [T EXCEPT ![e].count = T[e].count - 1]
  BY <1>2, <1>3
<1> HIDE DEF T
<1>6. T[e] = tab[e] /\ T[e].count = 1
  BY ONLY <1>a, <1>3, <1>4, e \in Slots DEF Changed
<1>7. Changed(table', T, e, "count") /\ table'[e].count = 0
  <2>1. T \in [Slots -> Inode]
    BY ONLY <1>4 DEF Changed
  <2>2. T[e].count - 1 = 0 /\ 0 \in Nat
    BY ONLY <1>6
  <2>3. table' = [T EXCEPT ![e].count = 0]
    BY ONLY <1>5, <2>2
  <2> QED
    BY ONLY <2>1, <2>2, <2>3, e \in Slots, SetCount
<1>8. /\ table' \in [Slots -> Inode] /\ \A y \in Slots : y # e /\ y # x => table'[y] = table[y]
      /\ table'[x].count = table[x].count + 1 /\ SameInode(x)
      /\ table'[e].dev = tab[e].dev /\ table'[e].dirt = tab[e].dirt
      /\ table'[e].mount = tab[e].mount /\ table'[e].lock = tab[e].lock
  BY <1>2, <1>3, <1>4, <1>7 DEF Changed, SameInode
<1>9. /\ table'[e].dev = 0 /\ table'[e].dirt = FALSE
      /\ table'[e].mount = FALSE /\ table'[e].lock = FALSE
  BY <1>a, <1>8
<1>10. /\ loc'[t] = Idle /\ loc' \in [Tasks -> Place] /\ Alone(t) /\ loc'[t].pc = "idle"
  BY <1>1, IdlePlace DEF Alone
<1>11. /\ refs' \in [Tasks -> [Slots -> Nat]] /\ refs'[t][x] = refs[t][x] + 1
       /\ \A y \in Slots : y # x => refs'[t][y] = refs[t][y]
  BY <1>1, <1>2
<1>12. StateTypeOK'
  BY <1>1, <1>8, <1>10, <1>11 DEF StateTypeOK
<1>13. table[x].nlinks > 0
  <2>1. ~Reading(x)
    BY <1>2, <1>3, ReaderAlone DEF Reading
  <2>2. table[x].nlinks = links[d][n]
    BY <1>2, <1>3, <2>1 DEF InodesIInv, CopyGood
  <2> QED
    BY <2>2 DEF Target
<1>14. ASSUME NEW y \in Slots, y # e
       PROVE  /\ SameInode(y)
              /\ \/ table'[y] = table[y]
                 \/ /\ table[y].dev = d /\ ~table[y].lock /\ table[y].nlinks > 0
                    /\ table'[y].count = table[y].count + 1
  <2>1. CASE y = x
    BY <1>2, <1>3, <1>8, <1>13, <2>1
  <2>2. CASE y # x
    BY <1>8, <1>14, <2>2 DEF SameInode
  <2> QED
    BY <2>1, <2>2
<1>15. InIget(t)'
  BY <1>10 DEF InIget
<1>16. ASSUME NEW y \in Slots PROVE Balanced(t, y)
  <2>1. ~InCall(loc'[t], y)
    BY <1>10 DEF InCall
  <2>2. CASE y # e
    <3>1. ~InCall(loc[t], y)
      BY <2>2 DEF InCall, Hand
    <3>2. CASE y = x
      BY <1>8, <1>11, <2>1, <3>1, <3>2 DEF Balanced
    <3>3. CASE y # x
      BY <1>8, <1>11, <2>1, <2>2, <3>1, <3>3 DEF Balanced
    <3> QED
      BY <3>2, <3>3
  <2>3. CASE y = e /\ loc[t].pc = "idle"
    <3>1. ~InCall(loc[t], e) /\ table[e].count = 0
      BY <2>3 DEF InCall, Hand
    <3> QED
      BY <1>3, <1>7, <1>11, <2>1, <2>3, <3>1 DEF Balanced
  <2>4. CASE y = e /\ loc[t].pc = "find"
    <3>1. InCall(loc[t], e) /\ table[e].count = 1
      BY <2>4 DEF InCall, Hand
    <3>2. table'[e].count = table[e].count - 1
      BY <1>7, <3>1
    <3> QED
      BY <1>3, <1>11, <2>1, <2>4, <3>1, <3>2 DEF Balanced
  <2> QED
    BY <2>2, <2>3, <2>4 DEF Hand
<1>17. \A y \in Slots : refs'[t][y] > 0 => refs[t][y] > 0 \/ (y # e /\ table[y].dev # 0)
  BY <1>2, <1>3, <1>11
<1> QED
  BY <1>9, <1>10, <1>12, <1>14, <1>15, <1>16, <1>17, GetKeeps

LEMMA IgetSearchKeeps ==
  ASSUME InodesIInv, NEW t \in Tasks, NEW e \in Slots, NEW tab, Hand(t, tab, e),
         NEW dev, NEW nr, Target(dev, nr), IgetSearch(t, tab, dev, nr, e),
         UNCHANGED <<disk, imap, sb, links>>
  PROVE  InodesIInv'
<1> DEFINE d == Resolve(tab, dev, nr)[1]
           n == Resolve(tab, dev, nr)[2]
           call == [Idle EXCEPT !.dev = d, !.num = n, !.e = e]
<1>1. Target(d, n)
  BY ResolveTarget
<1>2. \/ /\ Matches(tab, d, n) = {}
         /\ table' = [tab EXCEPT ![e].dev = d, ![e].num = n, ![e].lock = TRUE]
         /\ loc' = [loc EXCEPT ![t] = [call EXCEPT !.pc = "read"]]
         /\ UNCHANGED refs
      \/ \E x \in Matches(tab, d, n) :
           /\ table' = tab
           /\ loc' = [loc EXCEPT ![t] = [call EXCEPT !.pc = "find", !.x = x]]
           /\ UNCHANGED refs
      \/ \E x \in Matches(tab, d, n) :
           /\ ~tab[x].lock
           /\ table' = [tab EXCEPT ![x].count = @ + 1, ![e].count = @ - 1]
           /\ refs' = [refs EXCEPT ![t][x] = @ + 1]
           /\ loc' = [loc EXCEPT ![t] = Idle]
  BY Zenon DEF IgetSearch, Goto, Return
<1> HIDE DEF d, n
<1>3. call = Call("idle", d, n, 0, e, "idle")
  BY ONLY IgetCall
<1> HIDE DEF call
<1>4. [call EXCEPT !.pc = "read"] = Call("read", d, n, 0, e, "idle")
  BY ONLY <1>3, CallPc
<1>5. ASSUME NEW x
      PROVE [call EXCEPT !.pc = "find", !.x = x] = Call("find", d, n, x, e, "idle")
  <2>1. [call EXCEPT !.pc = "find"] = Call("find", d, n, 0, e, "idle")
    BY ONLY <1>3, CallPc
  <2>2. [Call("find", d, n, 0, e, "idle") EXCEPT !.x = x] = Call("find", d, n, x, e, "idle")
    BY ONLY CallX
  <2> QED
    BY ONLY <2>1, <2>2
<1>6. d \in Devs
  BY <1>1 DEF Target, Open
<1>7. CASE /\ Matches(tab, d, n) = {}
           /\ table' = [tab EXCEPT ![e].dev = d, ![e].num = n, ![e].lock = TRUE]
           /\ loc' = [loc EXCEPT ![t] = [call EXCEPT !.pc = "read"]]
           /\ UNCHANGED refs
  <2>1. loc' = [loc EXCEPT ![t] = Call("read", d, n, 0, e, "idle")]
    BY <1>4, <1>7, Zenon
  <2> QED
    BY <1>1, <1>6, <1>7, <2>1, IgetNewKeeps
<1>8. ASSUME NEW x \in Matches(tab, d, n), table' = tab, UNCHANGED refs,
             loc' = [loc EXCEPT ![t] = [call EXCEPT !.pc = "find", !.x = x]]
      PROVE  InodesIInv'
  <2>1. loc' = [loc EXCEPT ![t] = Call("find", d, n, x, e, "idle")]
    BY <1>5, <1>8, Zenon
  <2>2. x \in Slots
    BY DEF Matches
  <2> QED
    BY <1>1, <1>6, <1>8, <2>1, <2>2, IgetWaitKeeps
<1>9. ASSUME NEW x \in Matches(tab, d, n), ~tab[x].lock,
             table' = [tab EXCEPT ![x].count = @ + 1, ![e].count = @ - 1],
             refs' = [refs EXCEPT ![t][x] = @ + 1], loc' = [loc EXCEPT ![t] = Idle]
      PROVE  InodesIInv'
  BY <1>1, <1>6, <1>9, IgetFoundKeeps
<1> QED
  BY <1>2, <1>7, <1>8, <1>9, Zenon

(* What the invariant says of an inode that nobody uses. *)
LEMMA EmptyInode ==
  ASSUME InodesIInv, NEW e \in Slots, table[e].count = 0
  PROVE  /\ \A u \in Tasks : refs[u][e] = 0
         /\ \A c \in Devs : sb[c].imount # e
         /\ \A u \in Tasks :
              /\ loc[u].pc \in {"find", "read"} => loc[u].e # e
              /\ loc[u].pc \in {"iput", "truncate", "write", "super"} => loc[u].x # e
         /\ table[e].dev # 0 =>
              disk[table[e].dev][table[e].num] = links[table[e].dev][table[e].num]
<1>1. \A u \in Tasks : ~User(u, e)
  BY SlotFacts
<1>2. \A u \in Tasks : refs[u][e] = 0
  <2>1. \A u \in Tasks : refs[u][e] \in Nat /\ ~(refs[u][e] > 0)
    BY <1>1, SlotFacts DEF User
  <2> QED
    BY <2>1
<1>3. \A c \in Devs : sb[c].imount # e
  BY SlotFacts
<1>4. \A u \in Tasks : loc[u].pc \in {"find", "read"} => loc[u].e # e
  BY <1>1 DEF User, InCall
<1>5. ASSUME NEW u \in Tasks, loc[u].pc \in {"iput", "truncate", "write", "super"}, loc[u].x = e
      PROVE  FALSE
  <2>1. loc[u] \in Place
    BY DEF InodesIInv, StateTypeOK
  <2>2. CASE loc[u].back = "idle"
    BY <1>1, <1>5, <2>2 DEF User, InCall
  <2>3. CASE loc[u].back = "umount"
    <3>1. loc[u].pc \in {"iput", "write"}
      BY <1>5, <2>3 DEF InodesIInv, InIput, InMount
    <3> QED
      BY <1>3, <1>5, <2>3, <3>1 DEF InodesIInv, InMount
  <2>4. CASE loc[u].back = "sync"
    <3>1. loc[u].pc = "write"
      BY <1>5, <2>4 DEF InodesIInv, InIput, InMount
    <3> QED
      BY <1>5, <3>1 DEF InodesIInv, InIput, FreeIsClean
  <2> QED
    BY <2>1, <2>2, <2>3, <2>4 DEF Place, Backs
<1>6. ~Reading(e) /\ ~table[e].dirt
  BY <1>4 DEF Reading, InodesIInv, FreeIsClean
<1>7. table[e].dev # 0 =>
        disk[table[e].dev][table[e].num] = links[table[e].dev][table[e].num]
  BY <1>6 DEF InodesIInv, CopyGood
<1> QED
  BY <1>2, <1>3, <1>4, <1>5, <1>7

(* What a task names inodes of a device by keeps the device mounted. *)
LEMMA ReachesOpen ==
  ASSUME InodesIInv, NEW t \in Tasks, NEW d \in Devs, Reaches(t, d)
  PROVE  Open(d)
<1>1. CASE d = ROOT_DEV
  <2>1. sb[d].present
    BY <1>1 DEF InodesIInv, MountsOK
  <2>2. \A u \in Tasks : ~(loc[u].pc = "super" /\ loc[u].dev = d) /\ ~Unmounting(u, d)
    BY <1>1 DEF InodesIInv, InMount, Unmounting
  <2> QED
    BY <2>1, <2>2 DEF Open
<1>2. ASSUME NEW x \in Slots, refs[t][x] > 0, table[x].dev = d PROVE Open(d)
  <2>1. table[x].count > 0 /\ d # 0
    BY <1>2, SlotFacts, InodesAssumption DEF User
  <2>2. ~Quiet(d)
    BY <1>2, <2>1 DEF Quiet
  <2>3. sb[d].present
    BY <1>2, <2>1 DEF InodesIInv, DeviceStays
  <2>4. \A u \in Tasks : ~(loc[u].pc = "super" /\ loc[u].dev = d) /\ ~Unmounting(u, d)
    BY <2>2 DEF InodesIInv, InMount, Unmounting
  <2> QED
    BY <2>3, <2>4 DEF Open
<1> QED
  BY <1>1, <1>2 DEF Reaches

LEMMA EmptyType == [Zeroed EXCEPT !.count = 1] \in Inode
BY DEF Zeroed, Inode

LEMMA IgetKeeps ==
  ASSUME InodesIInv, NEW t \in Tasks, NEW d \in Devs, NEW n \in Nums, iget(t, d, n)
  PROVE  InodesIInv'
<1>1. /\ loc[t].pc = "idle" /\ Reaches(t, d) /\ n \in imap[d] /\ links[d][n] > 0
      /\ UNCHANGED <<disk, imap, sb, links>>
  BY DEF iget
<1>2. PICK e \in Empties : IgetSearch(t, get_empty_inode(e), d, n, e)
  BY DEF iget
<1>3. e \in Slots /\ table[e].count = 0
  BY DEF Empties
<1>4. Target(d, n)
  BY <1>1, ReachesOpen DEF Target
<1> DEFINE tab == get_empty_inode(e)
<1>5. /\ tab \in [Slots -> Inode] /\ tab[e] = [Zeroed EXCEPT !.count = 1]
      /\ \A y \in Slots : y # e => tab[y] = table[y]
  <2> DEFINE z == [Zeroed EXCEPT !.count = 1]
  <2>1. table \in [Slots -> Inode] /\ z \in Inode
    BY EmptyType DEF InodesIInv, StateTypeOK
  <2>2. tab = [table EXCEPT ![e] = z]
    BY DEF get_empty_inode
  <2> HIDE DEF z, tab
  <2>3. tab \in [Slots -> Inode] /\ tab[e] = z /\ \A y \in Slots : y # e => tab[y] = table[y]
    BY ONLY <1>3, <2>1, <2>2
  <2> QED
    BY <2>3 DEF z
<1>6. Hand(t, tab, e)
  <2> HIDE DEF tab
  <2>1. /\ \A u \in Tasks : refs[u][e] = 0
        /\ \A c \in Devs : sb[c].imount # e
        /\ \A u \in Tasks :
             /\ loc[u].pc \in {"find", "read"} => loc[u].e # e
             /\ loc[u].pc \in {"iput", "truncate", "write", "super"} => loc[u].x # e
        /\ table[e].dev # 0 =>
             disk[table[e].dev][table[e].num] = links[table[e].dev][table[e].num]
    BY <1>3, EmptyInode
  <2> QED
    BY <1>1, <1>3, <1>5, <2>1, Zenon DEF Hand
<1> HIDE DEF tab
<1>7. IgetSearch(t, tab, d, n, e)
  BY <1>2 DEF tab
<1> QED
  BY <1>1, <1>3, <1>4, <1>6, <1>7, IgetSearchKeeps

(* iget() searches again after a wait. *)
LEMMA IgetAgainKeeps ==
  ASSUME InodesIInv, NEW t \in Tasks, IgetAgain(t)
  PROVE  InodesIInv'
<1> DEFINE e == loc[t].e
           d == loc[t].dev
           n == loc[t].num
<1>1. /\ loc[t].pc = "find" /\ IgetSearch(t, table, d, n, e)
      /\ UNCHANGED <<disk, imap, sb, links>>
  BY DEF IgetAgain
<1>2. /\ e \in Slots /\ d \in Devs /\ n \in imap[d] /\ links[d][n] > 0 /\ sb[d].present
      /\ table[e] = [Zeroed EXCEPT !.count = 1]
  BY <1>1 DEF InodesIInv, InIget
<1>3. table[e].count = 1 /\ table[e].dev = 0 /\ ~table[e].lock
  BY <1>2 DEF Zeroed
<1>4. Awaited(d, n) /\ n \in Nums
  BY <1>1, <1>2 DEF Awaited, InodesIInv, StateTypeOK
<1>5. Target(d, n)
  <2>1. ~Quiet(d)
    BY <1>4 DEF Quiet
  <2>2. \A u \in Tasks : ~(loc[u].pc = "super" /\ loc[u].dev = d) /\ ~Unmounting(u, d)
    BY <2>1 DEF InodesIInv, InMount, Unmounting
  <2> QED
    BY <1>2, <2>2 DEF Target, Open
<1>6. Hand(t, table, e)
  <2>1. \A u \in Tasks : refs[u][e] = 0
    <3>1. \A u \in Tasks : refs[u][e] \in Nat /\ ~(refs[u][e] > 0)
      BY <1>2, <1>3, SlotFacts DEF InodesIInv, Named
    <3> QED
      BY <3>1
  <2>2. \A c \in Devs : sb[c].imount # e
    BY <1>2, <1>3, MountedLinks
  <2>3. User(t, e)
    BY <1>1 DEF User, InCall
  <2>4. ASSUME NEW u \in Tasks, u # t, loc[u].pc \in {"find", "read"}, loc[u].e = e PROVE FALSE
    <3>1. User(u, e)
      BY <2>4 DEF User, InCall
    <3>2. table[e].count > 1
      BY <1>2, <2>3, <2>4, <3>1, SlotFacts
    <3> QED
      BY <1>3, <3>2
  <2>5. \A u \in Tasks : loc[u].pc \in {"iput", "truncate", "write", "super"} => loc[u].x # e
    BY <1>3 DEF InodesIInv, InIput, InMount
  <2>6. table \in [Slots -> Inode]
    BY DEF InodesIInv, StateTypeOK
  <2> QED
    BY <1>1, <1>2, <1>3, <2>1, <2>2, <2>4, <2>5, <2>6 DEF Hand
<1> QED
  BY <1>1, <1>2, <1>5, <1>6, IgetSearchKeeps

----------------------------------------------------------------------------
(* In the last kind a task ends a call, and fills or clears a slot that    *)
(* nobody else uses.                                                       *)
LEMMA SlotKeeps ==
  ASSUME InodesIInv, StateTypeOK', NEW t \in Tasks, NEW e \in Slots, Alone(t), sb' = sb,
         \A y \in Slots : y # e => table'[y] = table[y],
         \A y \in Slots : Balanced(t, y),
         \A c \in Devs : sb[c].imount # e,
         \A u \in Tasks : u # t =>
           /\ loc[u].pc \in {"find", "read"} => loc[u].e # e
           /\ loc[u].pc \in {"iput", "truncate", "write", "super"} => loc[u].x # e,
         loc[t].pc \in {"idle", "read", "truncate"}, loc'[t].pc = "idle",
         ~table'[e].mount,
         table'[e].count = 0 => ~table'[e].dirt /\ ~table'[e].lock,
         table'[e].count > 0 => Open(table'[e].dev),
         \A u \in Tasks : u # t /\ loc[u].pc = "find" =>
           loc[u].num \in imap'[loc[u].dev] /\ links'[loc[u].dev][loc[u].num] > 0,
         Named', LowKept', CopyGood', DiskGood'
  PROVE  InodesIInv'
<1>0. /\ StateTypeOK /\ MountsOK
      /\ \A u \in Tasks : u # t => loc'[u] = loc[u] /\ refs'[u] = refs[u]
      /\ refs \in [Tasks -> [Slots -> Nat]] /\ refs' \in [Tasks -> [Slots -> Nat]]
  BY DEF InodesIInv, Alone, StateTypeOK
<1>1. Counted'
  <2>1. ASSUME NEW y \in Slots PROVE Exact(y)'
    <3>1. Exact(y) /\ Mounts(y)' = Mounts(y)
      BY DEF InodesIInv, Counted, Mounts
    <3> QED
      BY <1>0, <3>1, ExactStep
  <2> QED
    BY <2>1 DEF Counted
<1>2. FreeIsClean'
  BY DEF InodesIInv, FreeIsClean
<1>3. DeviceStays'
  <2> SUFFICES ASSUME NEW y \in Slots, table'[y].count > 0, table'[y].dev # 0
               PROVE  sb[table'[y].dev].present
    BY DEF DeviceStays
  <2>1. CASE y = e
    BY <2>1 DEF Open
  <2>2. CASE y # e
    BY <2>2 DEF InodesIInv, DeviceStays
  <2> QED
    BY <2>1, <2>2
<1>4. ASSUME NEW c \in Devs, Quiet(c), ~Open(c) PROVE Quiet(c)'
  <2>1. \A y \in Slots : table'[y].dev = c => table'[y].count = 0
    <3> SUFFICES ASSUME NEW y \in Slots, table'[y].dev = c PROVE table'[y].count = 0
      OBVIOUS
    <3>1. CASE y = e
      <4>1. table'[e].count \in Nat
        BY DEF StateTypeOK, Inode
      <4> QED
        BY <1>4, <3>1, <4>1
    <3>2. CASE y # e
      BY <1>4, <3>2 DEF Quiet
    <3> QED
      BY <3>1, <3>2
  <2>2. \A m \in Nums : Awaited(c, m)' => Awaited(c, m)
    BY <1>0 DEF Awaited
  <2> QED
    BY <1>4, <2>1, <2>2 DEF Quiet
<1>5. ASSUME NEW u \in Tasks PROVE InIget(u)' /\ InIput(u)' /\ InMount(u)'
  <2>1. CASE u = t
    BY <2>1 DEF InIget, InIput, InMount
  <2>2. CASE u # t
    <3>1. loc'[u] = loc[u] /\ InIget(u) /\ InIput(u) /\ InMount(u)
      BY <1>0, <2>2 DEF InodesIInv
    <3>2. loc[u].pc \in {"find", "read"} =>
            loc[u].e \in Slots /\ table'[loc[u].e] = table[loc[u].e]
      BY <2>2, <3>1 DEF InIget
    <3>3. InIget(u)'
      BY <2>2, <3>1, <3>2 DEF InIget
    <3>4. loc[u].pc \in {"iput", "truncate", "write", "super"} =>
            loc[u].x \in Slots /\ table'[loc[u].x] = table[loc[u].x]
      <4>1. loc[u].pc \in {"iput", "truncate", "write", "super"} => loc[u].x \in Slots
        BY <3>1 DEF InIput, InMount
      <4> QED
        BY <2>2, <4>1
    <3>5. InIput(u)'
      BY <3>1, <3>4 DEF InIput
    <3>6. ASSUME loc[u].pc = "super" PROVE Mounts(loc[u].x)' = {} /\ Quiet(loc[u].dev)'
      <4>1. loc[u].dev \in Devs /\ Quiet(loc[u].dev) /\ Mounts(loc[u].x) = {}
        BY <3>1, <3>6 DEF InMount
      <4>2. ~Open(loc[u].dev)
        BY <3>6 DEF Open
      <4>3. Mounts(loc[u].x)' = Mounts(loc[u].x)
        BY <3>1 DEF Mounts
      <4>4. Quiet(loc[u].dev)'
        BY <1>4, <3>1, <4>1, <4>2
      <4> QED
        BY <4>1, <4>3, <4>4
    <3>7. ASSUME loc[u].pc \in {"iput", "write"}, loc[u].back = "umount"
          PROVE  Quiet(loc[u].dev)'
      <4>1. loc[u].dev \in Devs /\ Quiet(loc[u].dev)
        BY <3>1, <3>7 DEF InMount
      <4>2. ~Open(loc[u].dev)
        BY <3>7 DEF Open, Unmounting
      <4> QED
        BY <1>4, <3>1, <4>1, <4>2
    <3>8. InMount(u)'
      BY <3>1, <3>4, <3>6, <3>7 DEF InMount
    <3> QED
      BY <3>3, <3>5, <3>8
  <2> QED
    BY <2>1, <2>2
<1>6. \A u \in Tasks, c \in Devs : Unmounting(u, c)' => Unmounting(u, c)
  BY <1>0 DEF Unmounting
<1>7. Apart'
  <2>1. \A u \in Tasks, y \in Slots : LockedBy(u, y)' => LockedBy(u, y)
    BY <1>0 DEF LockedBy
  <2>2. \A u \in Tasks : loc'[u].pc = "super" => loc'[u] = loc[u]
    BY <1>0
  <2> QED
    BY <1>6, <2>1, <2>2 DEF InodesIInv, Apart
<1>8. MountsOK'
  <2>1. \A c \in Devs : sb[c].imount # NoSlot =>
          /\ sb[c].imount \in Slots /\ sb[c].present
          /\ table'[sb[c].imount].dev # 0 /\ table'[sb[c].imount].num <= MountPoint
    BY <1>0 DEF MountsOK
  <2>2. ASSUME NEW y \in Slots, table'[y].mount
        PROVE  \E c \in Devs : sb[c].imount = y /\ \A u \in Tasks : ~Unmounting(u, c)'
    <3>1. table[y].mount
      BY <2>2
    <3> QED
      BY <1>0, <1>6, <3>1 DEF MountsOK
  <2> QED
    BY <1>0, <2>1, <2>2 DEF MountsOK
<1> QED
  BY <1>1, <1>2, <1>3, <1>5, <1>7, <1>8 DEF InodesIInv

(* The only user of an inode, in a call of its own. *)
LEMMA SoleUser ==
  ASSUME InodesIInv, NEW t \in Tasks, NEW x \in Slots, InCall(loc[t], x), table[x].count = 1
  PROVE  /\ \A u \in Tasks : refs[u][x] = 0
         /\ \A c \in Devs : sb[c].imount # x
         /\ \A u \in Tasks : u # t =>
              /\ loc[u].pc \in {"find", "read"} => loc[u].e # x
              /\ loc[u].pc \in {"iput", "truncate", "super"} => loc[u].x # x
              /\ loc[u].pc = "write" /\ loc[u].x = x => loc[u].back = "sync"
<1>1. User(t, x)
  BY DEF User
<1>2. \A u \in Tasks : u # t => ~User(u, x)
  BY <1>1, SlotFacts
<1>3. \A u \in Tasks : refs[u][x] = 0
  <2>1. \A u \in Tasks : refs[u][x] \in Nat /\ ~(refs[u][x] > 0)
    BY <1>2, SlotFacts DEF User
  <2> QED
    BY <2>1
<1>4. \A c \in Devs : sb[c].imount # x
  BY <1>1, SlotFacts
<1>5. \A u \in Tasks : u # t /\ loc[u].pc \in {"find", "read"} => loc[u].e # x
  BY <1>2 DEF User, InCall
<1>6. ASSUME NEW u \in Tasks, u # t, loc[u].x = x,
             loc[u].pc \in {"iput", "truncate", "write", "super"}
      PROVE  loc[u].back = "sync" /\ loc[u].pc = "write"
  <2>1. loc[u] \in Place
    BY DEF InodesIInv, StateTypeOK
  <2>2. loc[u].back # "idle"
    BY <1>2, <1>6 DEF User, InCall
  <2>3. loc[u].pc \in {"iput", "write"}
    BY <1>6, <2>2 DEF InodesIInv, InIput, InMount
  <2>4. loc[u].back # "umount"
    BY <1>4, <1>6, <2>3 DEF InodesIInv, InMount
  <2>5. loc[u].back = "sync"
    BY <2>1, <2>2, <2>4 DEF Place, Backs
  <2> QED
    BY <2>3, <2>5 DEF InodesIInv, InIput
<1> QED
  BY <1>3, <1>4, <1>5, <1>6

(* The end of read_inode(). *)
LEMMA ReadKeeps ==
  ASSUME InodesIInv, NEW t \in Tasks, read_inode(t), NEW e, loc[t].e = e
  PROVE  InodesIInv'
<1> DEFINE d == table[e].dev
           n == table[e].num
           T == [table EXCEPT ![e].lock = FALSE]
<1>1. /\ loc[t].pc = "read"
      /\ table' = [table EXCEPT ![e].lock = FALSE, ![e].nlinks = disk[d][n]]
      /\ refs' = [refs EXCEPT ![t][e] = @ + 1]
      /\ loc' = [loc EXCEPT ![t] = Idle]
      /\ UNCHANGED <<disk, imap, sb, links>>
  <2> DEFINE f == loc[t].e
  <2>1. /\ loc[t].pc = "read"
        /\ table' = [table EXCEPT ![f].lock = FALSE,
                                  ![f].nlinks = disk[table[f].dev][table[f].num]]
        /\ refs' = [refs EXCEPT ![t][f] = @ + 1]
        /\ loc' = [loc EXCEPT ![t] = Idle]
        /\ UNCHANGED <<disk, imap, sb, links>>
    BY DEF read_inode, Return, Goto
  <2>2. f = e
    OBVIOUS
  <2> HIDE DEF f
  <2> QED
    BY <2>1, <2>2, Zenon
<1>2. e \in Slots /\ d # 0 /\ table[e].count = 1 /\ table[e].lock /\ ~table[e].dirt
  BY <1>1 DEF InodesIInv, InIget
<1>3. /\ StateTypeOK /\ Named /\ table \in [Slots -> Inode] /\ loc \in [Tasks -> Place]
      /\ refs \in [Tasks -> [Slots -> Nat]]
  BY DEF InodesIInv, StateTypeOK
<1>4. d \in Devs /\ n \in imap[d] /\ n \in Nums /\ disk[d][n] \in Nat
  <2>1. d \in Devs
    BY <1>2, <1>3 DEF Inode
  <2>2. n \in imap[d]
    BY <1>2, <1>3 DEF Named
  <2> QED
    BY <1>3, <2>1, <2>2 DEF StateTypeOK
<1>5. Changed(T, table, e, "lock") /\ T[e].lock = FALSE
  <2>1. e \in Slots /\ table \in [Slots -> Inode] /\ FALSE \in BOOLEAN
    BY <1>2, <1>3
  <2> QED
    BY ONLY <2>1, SetLock
<1>6. table' = [T EXCEPT ![e].nlinks = disk[d][n]]
  BY <1>1
<1> HIDE DEF T
<1>7. Changed(table', T, e, "nlinks") /\ table'[e].nlinks = disk[d][n]
  <2>1. T \in [Slots -> Inode]
    BY <1>5 DEF Changed
  <2> QED
    BY ONLY <1>2, <1>4, <1>6, <2>1, SetNlinks
<1>8. /\ table' \in [Slots -> Inode] /\ \A y \in Slots : y # e => table'[y] = table[y]
      /\ table'[e].dev = d /\ table'[e].num = n /\ table'[e].count = table[e].count
      /\ table'[e].dirt = table[e].dirt /\ table'[e].mount = table[e].mount
      /\ table'[e].nlinks = disk[d][n] /\ table'[e].lock = FALSE
  BY <1>5, <1>7 DEF Changed
<1>9. loc'[t] = Idle /\ loc' \in [Tasks -> Place] /\ loc'[t].pc = "idle"
      /\ \A u \in Tasks : u # t => loc'[u] = loc[u]
  BY <1>1, <1>3, IdlePlace
<1>10. /\ refs' \in [Tasks -> [Slots -> Nat]] /\ refs'[t][e] = refs[t][e] + 1
       /\ \A y \in Slots : y # e => refs'[t][y] = refs[t][y]
       /\ \A u \in Tasks : u # t => refs'[u] = refs[u]
  BY <1>1, <1>2, <1>3
<1>a. disk' = disk /\ imap' = imap /\ sb' = sb /\ links' = links
  BY <1>1
<1>11. StateTypeOK' /\ Alone(t)
  BY <1>3, <1>8, <1>9, <1>10, <1>a DEF StateTypeOK, Alone
<1>12. /\ \A c \in Devs : sb[c].imount # e
       /\ \A u \in Tasks : u # t =>
            /\ loc[u].pc \in {"find", "read"} => loc[u].e # e
            /\ loc[u].pc \in {"iput", "truncate", "write", "super"} => loc[u].x # e
  <2>1. InCall(loc[t], e) /\ LockedBy(t, e)
    BY <1>1 DEF InCall, LockedBy
  <2>2. \A u \in Tasks : u # t => ~LockedBy(u, e)
    BY <1>2, <2>1 DEF InodesIInv, Apart
  <2>3. \A u \in Tasks : u # t => ~(loc[u].pc = "write" /\ loc[u].x = e)
    BY <2>2 DEF LockedBy
  <2> QED
    BY <1>2, <2>1, <2>3, SoleUser
<1>13. \A y \in Slots : Balanced(t, y)
  <2>1. \A y \in Slots : ~InCall(loc'[t], y) /\ (InCall(loc[t], y) <=> y = e)
    BY <1>1, <1>9 DEF InCall
  <2> QED
    BY <1>8, <1>10, <2>1 DEF Balanced
<1>14. ~Reading(e)' /\ Reading(e) /\ \A y \in Slots : y # e => (Reading(y)' <=> Reading(y))
  <2>1. Reading(e)
    BY <1>1 DEF Reading
  <2>2. ~Reading(e)'
    BY <1>9, <1>12 DEF Reading
  <2>3. \A y \in Slots : y # e => (Reading(y)' <=> Reading(y))
    BY <1>1, <1>9 DEF Reading
  <2> QED
    BY <2>1, <2>2, <2>3
<1>15. disk[d][n] = links[d][n]
  <2>1. \A y \in Slots : table[y].dev = d /\ table[y].num = n => y = e
    BY <1>2, <1>3 DEF Named, InodeUnique
  <2> QED
    BY <1>4, <1>14, <2>1 DEF InodesIInv, DiskGood
<1>16. CopyGood'
  <2> SUFFICES ASSUME NEW y \in Slots, table'[y].dev # 0, ~Reading(y)'
               PROVE  /\ table'[y].nlinks = links[table'[y].dev][table'[y].num]
                      /\ table'[y].dirt \/ disk[table'[y].dev][table'[y].num]
                                             = links[table'[y].dev][table'[y].num]
    BY <1>a DEF CopyGood
  <2>1. CASE y = e
    BY <1>8, <1>15, <2>1
  <2>2. CASE y # e
    BY <1>8, <1>14, <2>2 DEF InodesIInv, CopyGood
  <2> QED
    BY <2>1, <2>2
<1>17. DiskGood'
  <2> SUFFICES ASSUME NEW c \in Devs, NEW m \in imap[c],
                      \A y \in Slots : table'[y].dev = c /\ table'[y].num = m => Reading(y)'
               PROVE  disk[c][m] = links[c][m]
    BY <1>a DEF DiskGood
  <2>1. ~(c = d /\ m = n)
    BY <1>2, <1>8, <1>14
  <2>2. \A y \in Slots : table[y].dev = c /\ table[y].num = m => Reading(y)
    BY <1>8, <1>14, <2>1
  <2> QED
    BY <2>2 DEF InodesIInv, DiskGood
<1>18. Named'
  <2>1. \A y \in Slots : table'[y].dev = table[y].dev /\ table'[y].num = table[y].num
                         /\ table'[y].dirt = table[y].dirt
    BY <1>8
  <2>2. \A y \in Slots, u \in Tasks : refs'[u][y] > 0 => table[y].dev # 0
    BY <1>2, <1>3, <1>10 DEF Named
  <2>3. \A y \in Slots : table'[y].dirt => table'[y].dev # 0
    BY <1>3, <2>1 DEF Named
  <2>4. \A y \in Slots : table'[y].dev # 0 => table'[y].num \in imap'[table'[y].dev]
    BY <1>3, <1>a, <2>1 DEF Named
  <2>5. \A y \in Slots, u \in Tasks : refs'[u][y] > 0 => table'[y].dev # 0
    BY <2>1, <2>2
  <2>6. InodeUnique'
    BY <1>3, <2>1 DEF Named, InodeUnique
  <2> QED
    BY <2>3, <2>4, <2>5, <2>6 DEF Named
<1>19. LowKept'
  BY <1>a DEF InodesIInv, LowKept
<1>20. Open(d)
  <2>1. ~Quiet(d)
    BY <1>2 DEF Quiet
  <2>2. sb[d].present
    BY <1>2 DEF InodesIInv, DeviceStays
  <2>3. \A u \in Tasks : ~(loc[u].pc = "super" /\ loc[u].dev = d) /\ ~Unmounting(u, d)
    BY <2>1 DEF InodesIInv, InMount, Unmounting
  <2> QED
    BY <1>4, <2>2, <2>3 DEF Open
<1>21. ~table'[e].mount
  BY <1>2, <1>8, <1>12 DEF InodesIInv, MountsOK
<1>22. \A u \in Tasks : loc[u].pc = "find" =>
         loc[u].num \in imap'[loc[u].dev] /\ links'[loc[u].dev][loc[u].num] > 0
  BY <1>a DEF InodesIInv, InIget
<1>23. ~(table'[e].count = 0)
  BY <1>2, <1>8
<1> QED
  BY <1>1, <1>2, <1>8, <1>9, <1>11, <1>12, <1>13, <1>16, <1>17, <1>18, <1>19, <1>20, <1>21, <1>22,
     <1>23, <1>a, SlotKeeps

(* new_inode(), with the empty inode e and the free number n. *)
LEMMA NewKeeps ==
  ASSUME InodesIInv, NEW t \in Tasks, NEW d \in Devs, NEW e \in Slots, NEW n \in Nums,
         NEW z \in Inode, loc[t].pc = "idle", Open(d), table[e].count = 0, n \notin imap[d],
         z.dev = d, z.num = n, z.count = 1, z.nlinks = 1, z.dirt = TRUE, z.mount = FALSE,
         table' = [table EXCEPT ![e] = z],
         imap' = [imap EXCEPT ![d] = @ \cup {n}],
         links' = [links EXCEPT ![d][n] = 1],
         refs' = [refs EXCEPT ![t][e] = @ + 1],
         UNCHANGED <<disk, sb, loc>>
  PROVE  InodesIInv'
<1>1. /\ StateTypeOK /\ Named /\ table \in [Slots -> Inode] /\ loc \in [Tasks -> Place]
      /\ refs \in [Tasks -> [Slots -> Nat]] /\ imap \in [Devs -> SUBSET Nums]
      /\ links \in [Devs -> [Nums -> Nat]]
  BY DEF InodesIInv, StateTypeOK
<1>2. /\ table' \in [Slots -> Inode] /\ \A y \in Slots : y # e => table'[y] = table[y]
      /\ table'[e] = z
  BY ONLY <1>1, table' = [table EXCEPT ![e] = z], e \in Slots, z \in Inode
<1>3. /\ imap' \in [Devs -> SUBSET Nums] /\ n \in imap'[d]
      /\ \A c \in Devs : imap[c] \subseteq imap'[c]
      /\ \A c \in Devs : \A m \in imap'[c] : ~(c = d /\ m = n) => m \in imap[c]
  BY ONLY <1>1, imap' = [imap EXCEPT ![d] = @ \cup {n}], d \in Devs, n \in Nums
<1>4. /\ links' \in [Devs -> [Nums -> Nat]] /\ links'[d][n] = 1
      /\ \A c \in Devs, m \in Nums : ~(c = d /\ m = n) => links'[c][m] = links[c][m]
  BY ONLY <1>1, links' = [links EXCEPT ![d][n] = 1], d \in Devs, n \in Nums
<1>5. /\ refs' \in [Tasks -> [Slots -> Nat]] /\ refs'[t][e] = refs[t][e] + 1
      /\ \A y \in Slots : y # e => refs'[t][y] = refs[t][y]
      /\ \A u \in Tasks : u # t => refs'[u] = refs[u]
  BY ONLY <1>1, refs' = [refs EXCEPT ![t][e] = @ + 1], t \in Tasks, e \in Slots
<1>a. disk' = disk /\ sb' = sb /\ loc' = loc
  OBVIOUS
<1>6. StateTypeOK' /\ Alone(t)
  BY ONLY <1>1, <1>2, <1>3, <1>4, <1>5, <1>a DEF StateTypeOK, Alone
<1>7. /\ \A c \in Devs : sb[c].imount # e
      /\ \A u \in Tasks : refs[u][e] = 0
      /\ \A u \in Tasks :
           /\ loc[u].pc \in {"find", "read"} => loc[u].e # e
           /\ loc[u].pc \in {"iput", "truncate", "write", "super"} => loc[u].x # e
      /\ table[e].dev # 0 =>
           disk[table[e].dev][table[e].num] = links[table[e].dev][table[e].num]
  BY EmptyInode
<1>8. d # 0 /\ \A y \in Slots : ~(table[y].dev = d /\ table[y].num = n)
  BY <1>1, InodesAssumption DEF Named
<1>9. \A y \in Slots : Balanced(t, y)
  <2>1. \A y \in Slots : ~InCall(loc'[t], y) /\ ~InCall(loc[t], y)
    BY DEF InCall
  <2>2. table'[e].count = table[e].count + 1
    BY <1>2
  <2> QED
    BY <1>2, <1>5, <2>1, <2>2 DEF Balanced
<1>10. ~Reading(e) /\ \A y \in Slots : Reading(y)' <=> Reading(y)
  BY <1>7, <1>a DEF Reading
<1>11. \A y \in Slots : y # e /\ table[y].dev # 0 =>
         table[y].dev \in Devs /\ table[y].num \in imap[table[y].dev] /\ table[y].num \in Nums
  <2>1. \A y \in Slots : table[y].dev # 0 => table[y].dev \in Devs
    BY <1>1 DEF Inode
  <2> QED
    BY <1>1, <2>1 DEF Named
<1>12. CopyGood'
  <2> SUFFICES ASSUME NEW y \in Slots, table'[y].dev # 0, ~Reading(y)
               PROVE  /\ table'[y].nlinks = links'[table'[y].dev][table'[y].num]
                      /\ table'[y].dirt \/ disk[table'[y].dev][table'[y].num]
                                             = links'[table'[y].dev][table'[y].num]
    BY <1>a, <1>10 DEF CopyGood
  <2>1. CASE y = e
    BY <1>2, <1>4, <2>1
  <2>2. CASE y # e
    <3>1. table'[y] = table[y]
      BY <1>2, <2>2
    <3>2. links'[table[y].dev][table[y].num] = links[table[y].dev][table[y].num]
      BY <1>4, <1>8, <1>11, <2>2, <3>1
    <3> QED
      BY <3>1, <3>2 DEF InodesIInv, CopyGood
  <2> QED
    BY <2>1, <2>2
<1>13. DiskGood'
  <2> SUFFICES ASSUME NEW c \in Devs, NEW m \in imap'[c],
                      \A y \in Slots : table'[y].dev = c /\ table'[y].num = m => Reading(y)
               PROVE  disk[c][m] = links'[c][m]
    BY <1>a, <1>10 DEF DiskGood
  <2>1. ~(c = d /\ m = n)
    BY <1>2, <1>10
  <2>2. m \in imap[c] /\ m \in Nums
    BY <1>1, <1>3, <2>1
  <2>3. links'[c][m] = links[c][m]
    BY <1>4, <2>1, <2>2
  <2>4. CASE table[e].dev = c /\ table[e].num = m
    BY <1>7, <2>3, <2>4, InodesAssumption
  <2>5. CASE ~(table[e].dev = c /\ table[e].num = m)
    <3>1. \A y \in Slots : table[y].dev = c /\ table[y].num = m => Reading(y)
      BY <1>2, <2>5
    <3> QED
      BY <2>2, <2>3, <3>1 DEF InodesIInv, DiskGood
  <2> QED
    BY <2>4, <2>5
<1>14. Named'
  <2>1. \A y \in Slots : table'[y].dev # 0 => table'[y].num \in imap'[table'[y].dev]
    BY <1>2, <1>3, <1>11
  <2>2. \A y \in Slots : table'[y].dirt => table'[y].dev # 0
    BY <1>1, <1>2, <1>8 DEF Named
  <2>3. \A y \in Slots, u \in Tasks : refs'[u][y] > 0 => table'[y].dev # 0
    BY <1>1, <1>2, <1>5, <1>8 DEF Named
  <2>4. \A y \in Slots : y # e => ~(table'[y].dev = table'[e].dev /\ table'[y].num = table'[e].num)
    BY <1>2, <1>8
  <2>5. InodeUnique'
    BY <1>1, <1>2, <2>4 DEF Named, InodeUnique
  <2> QED
    BY <2>1, <2>2, <2>3, <2>5 DEF Named
<1>15. LowKept'
  <2> SUFFICES ASSUME NEW c \in Devs, NEW m \in Nums, m <= MountPoint
               PROVE  m \in imap'[c] /\ links'[c][m] > 0
    BY DEF LowKept
  <2>1. m \in imap[c] /\ links[c][m] > 0
    BY DEF InodesIInv, LowKept
  <2>2. ~(c = d /\ m = n)
    BY <2>1
  <2>3. links'[c][m] = links[c][m]
    BY <1>4, <2>2
  <2>4. m \in imap'[c]
    BY <1>3, <2>1
  <2> QED
    BY <2>1, <2>3, <2>4
<1>16. ASSUME NEW u \in Tasks, loc[u].pc = "find"
       PROVE  loc[u].num \in imap'[loc[u].dev] /\ links'[loc[u].dev][loc[u].num] > 0
  <2>1. loc[u].dev \in Devs /\ loc[u].num \in imap[loc[u].dev] /\ links[loc[u].dev][loc[u].num] > 0
    BY <1>16 DEF InodesIInv, InIget
  <2>2. loc[u].num \in Nums /\ ~(loc[u].dev = d /\ loc[u].num = n)
    BY <1>1, <2>1
  <2>3. links'[loc[u].dev][loc[u].num] = links[loc[u].dev][loc[u].num]
    BY <1>4, <2>1, <2>2
  <2>4. loc[u].num \in imap'[loc[u].dev]
    BY <1>3, <2>1
  <2> QED
    BY <2>1, <2>3, <2>4
<1>17. /\ ~table'[e].mount /\ ~(table'[e].count = 0) /\ Open(table'[e].dev)
       /\ loc'[t].pc = "idle"
  BY <1>2
<1> QED
  BY <1>2, <1>6, <1>7, <1>9, <1>12, <1>13, <1>14, <1>15, <1>16, <1>17, <1>a, SlotKeeps

LEMMA ZeroedFacts ==
  /\ Zeroed \in Inode
  /\ Zeroed.dev = 0 /\ Zeroed.count = 0
  /\ Zeroed.dirt = FALSE /\ Zeroed.lock = FALSE /\ Zeroed.mount = FALSE
BY DEF Zeroed, Inode

(* The entry of a new inode. *)
Fresh(d, n) == [Zeroed EXCEPT !.dev = d, !.num = n, !.count = 1, !.nlinks = 1, !.dirt = TRUE]

IsFresh(z, d, n) ==
  /\ z \in Inode /\ z.dev = d /\ z.num = n /\ z.count = 1 /\ z.nlinks = 1
  /\ z.dirt = TRUE /\ z.mount = FALSE

LEMMA FreshEntry ==
  ASSUME NEW d \in Devs, NEW n \in Nat, NEW z, z = Fresh(d, n)
  PROVE  IsFresh(z, d, n)
<1> DEFINE a == [Zeroed EXCEPT !.dev = d]
           b == [a EXCEPT !.num = n]
           c == [b EXCEPT !.count = 1]
           k == [c EXCEPT !.nlinks = 1]
<1>1. a \in Inode /\ a.dev = d /\ a.mount = FALSE
  BY ZeroedFacts DEF Inode
<1>2. z = [[[[a EXCEPT !.num = n] EXCEPT !.count = 1] EXCEPT !.nlinks = 1] EXCEPT !.dirt = TRUE]
  BY DEF Fresh
<1> HIDE DEF a
<1>3. b \in Inode /\ b.dev = d /\ b.num = n /\ b.mount = FALSE
  BY ONLY <1>1, n \in Nat DEF Inode, b
<1>4. z = [[[b EXCEPT !.count = 1] EXCEPT !.nlinks = 1] EXCEPT !.dirt = TRUE]
  BY ONLY <1>2 DEF b
<1> HIDE DEF b
<1>5. c \in Inode /\ c.dev = d /\ c.num = n /\ c.count = 1 /\ c.mount = FALSE
  BY ONLY <1>3 DEF Inode, c
<1>6. z = [[c EXCEPT !.nlinks = 1] EXCEPT !.dirt = TRUE]
  BY ONLY <1>4 DEF c
<1> HIDE DEF c
<1>7. k \in Inode /\ k.dev = d /\ k.num = n /\ k.count = 1 /\ k.nlinks = 1 /\ k.mount = FALSE
  BY ONLY <1>5 DEF Inode, k
<1>8. z = [k EXCEPT !.dirt = TRUE]
  BY ONLY <1>6 DEF k
<1> HIDE DEF k
<1> QED
  BY ONLY <1>7, <1>8 DEF Inode, IsFresh

LEMMA NewInodeKeeps ==
  ASSUME InodesIInv, NEW t \in Tasks, NEW d \in Devs, new_inode(t, d)
  PROVE  InodesIInv'
<1> DEFINE n == Min(Nums \ imap[d])
           z == Fresh(d, n)
<1>1. /\ loc[t].pc = "idle" /\ Reaches(t, d) /\ Nums \ imap[d] # {}
      /\ UNCHANGED <<disk, sb, loc>>
  BY DEF new_inode
<1>2. PICK e \in Empties : /\ table' = [table EXCEPT ![e] = z]
                           /\ imap' = [imap EXCEPT ![d] = @ \cup {n}]
                           /\ links' = [links EXCEPT ![d][n] = 1]
                           /\ refs' = [refs EXCEPT ![t][e] = @ + 1]
  BY DEF new_inode, Fresh
<1>3. e \in Slots /\ table[e].count = 0
  BY DEF Empties
<1>4. n \in Nums /\ n \notin imap[d]
  <2>1. Nums \ imap[d] \in SUBSET Nat
    BY DEF Nums
  <2>2. n \in Nums \ imap[d]
    BY <1>1, <2>1, MinSmallest
  <2> QED
    BY <2>2
<1> HIDE DEF n
<1>5. n \in Nat
  BY <1>4 DEF Nums
<1>z. z = Fresh(d, n)
  OBVIOUS
<1> HIDE DEF z
<1>6. /\ z \in Inode /\ z.dev = d /\ z.num = n /\ z.count = 1 /\ z.nlinks = 1 /\ z.dirt = TRUE
      /\ z.mount = FALSE
  <2>1. IsFresh(z, d, n)
    BY ONLY d \in Devs, <1>5, <1>z, FreshEntry, Zenon
  <2> QED
    BY ONLY <2>1 DEF IsFresh
<1>7. Open(d)
  BY <1>1, ReachesOpen
<1>8. table' = [table EXCEPT ![e] = z]
  BY <1>2
<1>9. /\ loc[t].pc = "idle" /\ UNCHANGED <<disk, sb, loc>>
      /\ imap' = [imap EXCEPT ![d] = @ \cup {n}]
      /\ links' = [links EXCEPT ![d][n] = 1]
      /\ refs' = [refs EXCEPT ![t][e] = @ + 1]
  BY <1>1, <1>2
<1> QED
  BY ONLY InodesIInv, t \in Tasks, d \in Devs, <1>3, <1>4, <1>6, <1>7, <1>8, <1>9, NewKeeps

(* The end of truncate() and free_inode(). *)
LEMMA FreeKeeps ==
  ASSUME InodesIInv, NEW t \in Tasks, NEW x, loc[t].x = x, loc[t].pc = "truncate",
         imap' = [imap EXCEPT ![table[x].dev] = @ \ {table[x].num}],
         table' = [table EXCEPT ![x] = Zeroed],
         loc' = [loc EXCEPT ![t] = Idle],
         UNCHANGED <<disk, sb, links, refs>>
  PROVE  InodesIInv'
<1> DEFINE d == table[x].dev
           n == table[x].num
<1>1. /\ x \in Slots /\ d # 0 /\ loc[t].back = "idle" /\ table[x].count = 1
      /\ table[x].nlinks = 0 /\ ~table[x].lock
  BY DEF InodesIInv, InIput
<1>2. /\ StateTypeOK /\ Named /\ table \in [Slots -> Inode] /\ loc \in [Tasks -> Place]
      /\ refs \in [Tasks -> [Slots -> Nat]] /\ imap \in [Devs -> SUBSET Nums]
  BY DEF InodesIInv, StateTypeOK
<1>3. d \in Devs /\ n \in imap[d] /\ n \in Nums
  <2>1. d \in Devs
    BY <1>1, <1>2 DEF Inode
  <2>2. n \in imap[d]
    BY <1>1, <1>2 DEF Named
  <2> QED
    BY <1>2, <2>1, <2>2
<1>4. /\ table' \in [Slots -> Inode] /\ \A y \in Slots : y # x => table'[y] = table[y]
      /\ table'[x] = Zeroed
  BY ONLY <1>1, <1>2, table' = [table EXCEPT ![x] = Zeroed], ZeroedFacts
<1> HIDE DEF d, n
<1>5. /\ imap' \in [Devs -> SUBSET Nums] /\ n \notin imap'[d]
      /\ \A c \in Devs : imap'[c] \subseteq imap[c]
      /\ \A c \in Devs : \A m \in imap[c] : ~(c = d /\ m = n) => m \in imap'[c]
  <2>1. imap' = [imap EXCEPT ![d] = @ \ {n}]
    BY DEF d, n
  <2> QED
    BY ONLY <1>2, <1>3, <2>1
<1>6. loc'[t] = Idle /\ loc' \in [Tasks -> Place] /\ loc'[t].pc = "idle"
      /\ \A u \in Tasks : u # t => loc'[u] = loc[u]
  BY ONLY <1>2, loc' = [loc EXCEPT ![t] = Idle], t \in Tasks, IdlePlace
<1>a. disk' = disk /\ sb' = sb /\ links' = links /\ refs' = refs
  OBVIOUS
<1>7. StateTypeOK' /\ Alone(t)
  BY ONLY <1>2, <1>4, <1>5, <1>6, <1>a DEF StateTypeOK, Alone
<1>8. InCall(loc[t], x) /\ \A y \in Slots : (InCall(loc[t], y) => y = x) /\ ~InCall(loc'[t], y)
  BY <1>1, <1>6 DEF InCall
<1>9. /\ \A c \in Devs : sb[c].imount # x
      /\ \A u \in Tasks : refs[u][x] = 0
      /\ \A u \in Tasks : u # t =>
           /\ loc[u].pc \in {"find", "read"} => loc[u].e # x
           /\ loc[u].pc \in {"iput", "truncate", "write", "super"} => loc[u].x # x
  <2>1. \A u \in Tasks : ~(loc[u].pc = "write" /\ loc[u].x = x)
    BY <1>1 DEF InodesIInv, InIput
  <2> QED
    BY <1>1, <1>8, <2>1, SoleUser
<1>10. ~Reading(x) /\ \A y \in Slots : Reading(y)' <=> Reading(y)
  <2>1. ~Reading(x)
    BY <1>9 DEF Reading
  <2>2. \A y \in Slots : Reading(y)' <=> Reading(y)
    BY <1>6 DEF Reading
  <2> QED
    BY <2>1, <2>2
<1>11. links[d][n] = 0
  BY <1>1, <1>10 DEF InodesIInv, CopyGood, d, n
<1>12. ASSUME NEW y \in Slots PROVE Balanced(t, y)
  <2>1. CASE y = x
    <3>1. table'[x].count = table[x].count - 1
      BY <1>1, <1>4, ZeroedFacts
    <3> QED
      BY <1>8, <1>a, <2>1, <3>1 DEF Balanced
  <2>2. CASE y # x
    BY <1>4, <1>8, <1>a, <2>2 DEF Balanced
  <2> QED
    BY <2>1, <2>2
<1>13. \A y \in Slots : y # x => ~(table[y].dev = d /\ table[y].num = n)
  BY <1>1, <1>2 DEF Named, InodeUnique, d, n
<1>14. CopyGood'
  <2> SUFFICES ASSUME NEW y \in Slots, table'[y].dev # 0, ~Reading(y)
               PROVE  /\ table'[y].nlinks = links[table'[y].dev][table'[y].num]
                      /\ table'[y].dirt \/ disk[table'[y].dev][table'[y].num]
                                             = links[table'[y].dev][table'[y].num]
    BY <1>a, <1>10 DEF CopyGood
  <2>1. y # x
    BY <1>4, ZeroedFacts
  <2>2. table'[y] = table[y]
    BY <1>4, <2>1
  <2> QED
    BY <2>2 DEF InodesIInv, CopyGood
<1>15. DiskGood'
  <2> SUFFICES ASSUME NEW c \in Devs, NEW m \in imap'[c],
                      \A y \in Slots : table'[y].dev = c /\ table'[y].num = m => Reading(y)
               PROVE  disk[c][m] = links[c][m]
    BY <1>a, <1>10 DEF DiskGood
  <2>1. ~(c = d /\ m = n) /\ m \in imap[c]
    BY <1>5
  <2>2. \A y \in Slots : table[y].dev = c /\ table[y].num = m => Reading(y)
    BY <1>4, <2>1 DEF d, n
  <2> QED
    BY <2>1, <2>2 DEF InodesIInv, DiskGood
<1>16. Named'
  <2>0. \A y \in Slots : table[y].dev # 0 => table[y].dev \in Devs
    BY <1>2 DEF Inode
  <2>1. ASSUME NEW y \in Slots, table'[y].dev # 0 PROVE table'[y].num \in imap'[table'[y].dev]
    <3>1. y # x
      BY <1>4, <2>1, ZeroedFacts
    <3>2. table'[y] = table[y] /\ table[y].dev \in Devs /\ table[y].num \in imap[table[y].dev]
      BY <1>2, <1>4, <2>0, <2>1, <3>1 DEF Named
    <3> QED
      BY <1>5, <1>13, <3>1, <3>2
  <2>2. \A y \in Slots : table'[y].dirt => table'[y].dev # 0
    BY <1>2, <1>4, ZeroedFacts DEF Named
  <2>3. ASSUME NEW y \in Slots, NEW u \in Tasks, refs'[u][y] > 0 PROVE table'[y].dev # 0
    <3>1. y # x
      BY <1>9, <1>a, <2>3
    <3> QED
      BY <1>2, <1>4, <1>a, <2>3, <3>1 DEF Named
  <2>4. InodeUnique'
    <3>1. ASSUME NEW y \in Slots, NEW w \in Slots, table'[y].dev = table'[w].dev,
                 table'[y].num = table'[w].num, table'[y].dev # 0
          PROVE  y = w
      <4>1. y # x /\ w # x
        BY <1>4, <3>1, ZeroedFacts
      <4>2. table'[y] = table[y] /\ table'[w] = table[w]
        BY <1>4, <4>1
      <4> QED
        BY <1>2, <3>1, <4>2 DEF Named, InodeUnique
    <3> QED
      BY <3>1 DEF InodeUnique
  <2> QED
    BY <2>1, <2>2, <2>3, <2>4 DEF Named
<1>17. LowKept'
  <2> SUFFICES ASSUME NEW c \in Devs, NEW m \in Nums, m <= MountPoint
               PROVE  m \in imap'[c] /\ links[c][m] > 0
    BY <1>a DEF LowKept
  <2>1. m \in imap[c] /\ links[c][m] > 0
    BY DEF InodesIInv, LowKept
  <2>2. ~(c = d /\ m = n)
    BY <1>11, <2>1
  <2> QED
    BY <1>5, <2>1, <2>2
<1>18. ASSUME NEW u \in Tasks, loc[u].pc = "find"
       PROVE  loc[u].num \in imap'[loc[u].dev] /\ links'[loc[u].dev][loc[u].num] > 0
  <2>1. loc[u].dev \in Devs /\ loc[u].num \in imap[loc[u].dev] /\ links[loc[u].dev][loc[u].num] > 0
    BY <1>18 DEF InodesIInv, InIget
  <2>2. ~(loc[u].dev = d /\ loc[u].num = n)
    BY <1>11, <2>1
  <2> QED
    BY <1>5, <1>a, <2>1, <2>2
<1>19. table'[x].count = 0 /\ ~table'[x].mount /\ ~table'[x].dirt /\ ~table'[x].lock
  BY <1>4, ZeroedFacts
<1>20. ~(table'[x].count > 0)
  BY <1>19
<1> QED
  BY <1>1, <1>4, <1>6, <1>7, <1>9, <1>12, <1>14, <1>15, <1>16, <1>17, <1>18, <1>19, <1>20, <1>a,
     SlotKeeps

LEMMA FreeInodeKeeps ==
  ASSUME InodesIInv, NEW t \in Tasks, free_inode(t)
  PROVE  InodesIInv'
<1>1. /\ loc[t].pc = "truncate"
      /\ imap' = [imap EXCEPT ![table[loc[t].x].dev] = @ \ {table[loc[t].x].num}]
      /\ table' = [table EXCEPT ![loc[t].x] = Zeroed]
      /\ loc' = [loc EXCEPT ![t] = Idle]
      /\ UNCHANGED <<disk, sb, links, refs>>
  BY DEF free_inode, Return, Goto
<1>2. PICK x : x = loc[t].x
  OBVIOUS
<1>3. /\ imap' = [imap EXCEPT ![table[x].dev] = @ \ {table[x].num}]
      /\ table' = [table EXCEPT ![x] = Zeroed]
  BY ONLY <1>1, <1>2
<1> QED
  BY ONLY InodesIInv, t \in Tasks, <1>1, <1>2, <1>3, FreeKeeps

(* iput(), from its wait or from repeat. *)
LEMMA IputKeeps ==
  ASSUME InodesIInv, NEW t \in Tasks, iput(t)
  PROVE  InodesIInv'
<1>1. loc[t].pc = "iput" /\ ~table[loc[t].x].lock /\ UNCHANGED <<disk, imap, links, refs>>
  BY DEF iput
<1>2. loc[t].back # "sync" /\ table[loc[t].x].dev # 0
  BY <1>1 DEF InodesIInv, InIput
<1>3. CASE /\ ~LastUse(loc[t].x) \/ ~table[loc[t].x].dirt
           /\ table' = [table EXCEPT ![loc[t].x].count = @ - 1]
           /\ IputReturn(t)
  <2>1. CASE loc[t].back = "umount"
    <3>1. /\ sb' = [sb EXCEPT ![loc[t].dev] =
                      [present |-> FALSE, lock |-> TRUE, imount |-> NoSlot]]
          /\ loc' = [loc EXCEPT ![t] = [loc[t] EXCEPT !.pc = "put"]]
      BY <1>3, <2>1 DEF IputReturn, Goto
    <3> QED
      BY ONLY InodesIInv, t \in Tasks, <1>1, <1>3, <2>1, <3>1, UmountReturnKeeps
  <2>2. CASE loc[t].back # "umount"
    <3>1. UNCHANGED sb /\ loc' = [loc EXCEPT ![t] = Idle]
      BY <1>3, <2>2 DEF IputReturn, Return, Goto
    <3> QED
      BY ONLY InodesIInv, t \in Tasks, <1>1, <1>3, <2>2, <3>1, IputDropKeeps
  <2> QED
    BY <2>1, <2>2
<1>4. CASE /\ LastUse(loc[t].x) /\ table[loc[t].x].nlinks = 0
           /\ Goto(t, [loc[t] EXCEPT !.pc = "truncate"])
           /\ UNCHANGED <<table, sb>>
  <2>1. loc' = [loc EXCEPT ![t] = [loc[t] EXCEPT !.pc = "truncate"]]
    BY <1>4 DEF Goto
  <2> QED
    BY ONLY InodesIInv, t \in Tasks, <1>1, <1>4, <2>1, TruncateKeeps
<1>5. CASE /\ table' = [table EXCEPT ![loc[t].x].lock = TRUE]
           /\ Goto(t, [loc[t] EXCEPT !.pc = "write", !.num = table[loc[t].x].num])
           /\ UNCHANGED sb
  <2>1. /\ loc[t].x \in Slots /\ table[loc[t].x].count > 0
        /\ \A u \in Tasks : u # t =>
             /\ loc[u].pc \in {"find", "read"} => loc[u].e # loc[t].x
             /\ loc[u].pc = "truncate" => loc[u].x # loc[t].x
    BY <1>1, <1>2, IputAlone
  <2>2. PICK x \in Slots : x = loc[t].x
    BY <2>1
  <2>3. loc' = [loc EXCEPT ![t] = [loc[t] EXCEPT !.pc = "write", !.num = table[x].num]]
    BY <1>5, <2>2 DEF Goto
  <2> QED
    BY ONLY InodesIInv, t \in Tasks, <1>1, <1>2, <1>5, <2>1, <2>2, <2>3, LockKeeps
<1> QED
  BY <1>3, <1>4, <1>5 DEF iput, MustWrite

LEMMA StutterKeeps ==
  ASSUME InodesIInv, UNCHANGED inodeVars
  PROVE  InodesIInv'
<1>1. /\ table' = table /\ disk' = disk /\ imap' = imap /\ sb' = sb /\ links' = links
      /\ loc' = loc /\ refs' = refs
  BY DEF inodeVars
<1>2. StateTypeOK' /\ LowKept' /\ Named' /\ FreeIsClean' /\ DeviceStays'
  BY <1>1 DEF InodesIInv, StateTypeOK, LowKept, Named, FreeIsClean, DeviceStays, InodeUnique
<1>3. Counted'
  <2>1. \A y : Uses(y)' = Uses(y)
    BY <1>1, Zenon DEF Uses
  <2>2. \A y : Mounts(y)' = Mounts(y)
    BY <1>1 DEF Mounts
  <2> QED
    BY <1>1, <2>1, <2>2, Zenon DEF InodesIInv, Counted, Exact
<1>4. CopyGood' /\ DiskGood'
  BY <1>1 DEF InodesIInv, CopyGood, DiskGood, Reading
<1>5. \A t \in Tasks : InIget(t)' /\ InIput(t)'
  BY <1>1 DEF InodesIInv, InIget, InIput
<1>6. \A t \in Tasks : InMount(t)'
  BY <1>1 DEF InodesIInv, InMount, Quiet, Mounts, Awaited
<1>7. Apart' /\ MountsOK'
  BY <1>1 DEF InodesIInv, Apart, MountsOK, LockedBy, Unmounting
<1> QED
  BY <1>2, <1>3, <1>4, <1>5, <1>6, <1>7 DEF InodesIInv

LEMMA NextKeeps ==
  ASSUME InodesIInv, Races = {}, [InodesNext]_inodeVars
  PROVE  InodesIInv'
<1>1. ASSUME NEW t \in Tasks, Step(t) PROVE InodesIInv'
  BY <1>1, IgetAgainKeeps, ReadKeeps, IputKeeps, FreeInodeKeeps, WriteKeeps, SyncKeeps,
     SuperReadKeeps, SuperFailsKeeps, PutSuperKeeps DEF Step
<1>2. ASSUME NEW t \in Tasks, CallOf(t) PROVE InodesIInv'
  <2>1. CASE \E d \in Devs : new_inode(t, d) \/ sys_umount(t, d)
    BY <2>1, NewInodeKeeps, UmountKeeps
  <2>2. CASE \E d \in Devs, n \in Nums : iget(t, d, n)
    BY <2>2, IgetKeeps
  <2>3. CASE \E x \in Slots : StartIput(t, x)
    BY <2>3, StartIputKeeps
  <2>4. CASE \E x \in Slots, v \in 0 .. MaxLinks : SetLinks(t, x, v)
    <3>1. PICK x \in Slots, v \in 0 .. MaxLinks : SetLinks(t, x, v)
      BY <2>4
    <3>2. v \in Nat
      BY InodesAssumption
    <3> QED
      BY <3>1, <3>2, SetLinksKeeps
  <2>5. CASE \E d \in Devs, x \in Slots : sys_mount(t, d, x)
    BY <2>5, MountKeeps
  <2>6. CASE StartSync(t)
    BY <2>6, StartSyncKeeps
  <2> QED
    BY <1>2, <2>1, <2>2, <2>3, <2>4, <2>5, <2>6 DEF CallOf
<1> QED
  BY <1>1, <1>2, StutterKeeps DEF InodesNext

----------------------------------------------------------------------------
(* mount_root() establishes the invariant. *)
LEMMA RootEntry ==
  ASSUME NEW z, z = [Zeroed EXCEPT !.dev = ROOT_DEV, !.num = ROOT_INO,
                                   !.count = 1 + RootUses, !.nlinks = 1]
  PROVE  /\ z \in Inode /\ z.dev = 1 /\ z.num = 1 /\ z.count = 4 /\ z.nlinks = 1
         /\ z.dirt = FALSE /\ z.lock = FALSE /\ z.mount = FALSE
<1> DEFINE a == [Zeroed EXCEPT !.dev = 1]
           b == [a EXCEPT !.num = 1]
           c == [b EXCEPT !.count = 4]
<1>0. 1 + RootUses = 4 /\ ROOT_DEV = 1 /\ ROOT_INO = 1
  BY DEF RootUses, ROOT_DEV, ROOT_INO
<1>1. a \in Inode /\ a.dev = 1 /\ a.dirt = FALSE /\ a.lock = FALSE /\ a.mount = FALSE
  BY ZeroedFacts, InodesAssumption DEF Inode
<1>2. z = [[[a EXCEPT !.num = 1] EXCEPT !.count = 4] EXCEPT !.nlinks = 1]
  BY <1>0
<1> HIDE DEF a
<1>3. b \in Inode /\ b.dev = 1 /\ b.num = 1 /\ b.dirt = FALSE /\ b.lock = FALSE /\ b.mount = FALSE
  BY ONLY <1>1 DEF Inode, b
<1>4. z = [[b EXCEPT !.count = 4] EXCEPT !.nlinks = 1]
  BY ONLY <1>2 DEF b
<1> HIDE DEF b
<1>5. /\ c \in Inode /\ c.dev = 1 /\ c.num = 1 /\ c.count = 4
      /\ c.dirt = FALSE /\ c.lock = FALSE /\ c.mount = FALSE
  BY ONLY <1>3 DEF Inode, c
<1>6. z = [c EXCEPT !.nlinks = 1]
  BY ONLY <1>4 DEF c
<1> HIDE DEF c
<1> QED
  BY ONLY <1>5, <1>6 DEF Inode

LEMMA InitKeeps == InodesInit => InodesIInv
<1> SUFFICES ASSUME InodesInit PROVE InodesIInv
  OBVIOUS
<1> DEFINE z == [Zeroed EXCEPT !.dev = ROOT_DEV, !.num = ROOT_INO,
                               !.count = 1 + RootUses, !.nlinks = 1]
<1>1. /\ table = [x \in Slots |-> IF x = 1 THEN z ELSE Zeroed]
      /\ disk = [d \in Devs |-> [n \in Nums |-> 1]]
      /\ imap = [d \in Devs |-> Nums]
      /\ sb = [d \in Devs |-> [present |-> d = ROOT_DEV, lock |-> FALSE,
                               imount |-> IF d = ROOT_DEV THEN 1 ELSE NoSlot]]
      /\ links = disk
      /\ loc = [t \in Tasks |-> Idle]
      /\ refs = [t \in Tasks |-> [x \in Slots |-> 0]]
  BY DEF InodesInit
<1>2. /\ z \in Inode /\ z.dev = 1 /\ z.num = 1 /\ z.count = 4 /\ z.nlinks = 1
      /\ z.dirt = FALSE /\ z.lock = FALSE /\ z.mount = FALSE
  BY RootEntry
<1> HIDE DEF z
<1>3. /\ 1 \in Slots /\ 1 \in Nums /\ 0 \notin Slots /\ 0 \notin Devs /\ 1 \in Devs
      /\ Nums \subseteq Nat /\ Slots \subseteq Nat /\ IsFiniteSet(Devs)
  BY InodesAssumption DEF Slots, Nums
<1>4. /\ table \in [Slots -> Inode] /\ table[1] = z
      /\ \A x \in Slots : x # 1 => table[x] = Zeroed
  BY ONLY <1>1, <1>2, <1>3, ZeroedFacts
<1>5. /\ sb \in [Devs -> Super] /\ sb[1].present /\ sb[1].imount = 1
      /\ \A d \in Devs : d # 1 => sb[d].imount = 0
  BY ONLY <1>1, <1>3 DEF Super, ROOT_DEV, NoSlot
<1>6. /\ loc \in [Tasks -> Place] /\ \A t \in Tasks : loc[t] = Idle /\ loc[t].pc = "idle"
  BY ONLY <1>1, IdlePlace
<1>7. /\ disk \in [Devs -> [Nums -> Nat]] /\ links \in [Devs -> [Nums -> Nat]]
      /\ imap \in [Devs -> SUBSET Nums]
      /\ \A d \in Devs : imap[d] = Nums /\ \A n \in Nums : disk[d][n] = 1 /\ links[d][n] = 1
  BY ONLY <1>1
<1>8. /\ refs \in [Tasks -> [Slots -> Nat]]
      /\ \A t \in Tasks, x \in Slots : refs[t][x] = 0
  BY ONLY <1>1
<1>9. StateTypeOK
  BY ONLY <1>4, <1>5, <1>6, <1>7, <1>8 DEF StateTypeOK
<1>10. ASSUME NEW x \in Slots PROVE Exact(x)
  <2>1. Uses(x) = UsesOf(refs, loc, x)
    BY Zenon DEF Uses, UsesOf
  <2>2. \A t \in Tasks : ~InCall(loc[t], x)
    BY <1>6 DEF InCall
  <2>3. \A u \in UsesOf(refs, loc, x) : \E t \in Tasks, i \in Nat : u = <<t, i>>
    BY <1>8, UsesMember, SMT
  <2>4. \A t \in Tasks, i \in Nat :
          <<t, i>> \in UsesOf(refs, loc, x) <=> i <= refs[t][x] /\ (i = 0 => InCall(loc[t], x))
    BY <1>8, UsesMember, Zenon
  <2>5. ASSUME NEW t \in Tasks, NEW i \in Nat, <<t, i>> \in UsesOf(refs, loc, x) PROVE FALSE
    <3>1. i <= refs[t][x] /\ (i = 0 => InCall(loc[t], x))
      BY <2>4, <2>5, Zenon
    <3>2. i = 0
      BY <1>8, <3>1
    <3> QED
      BY <2>2, <3>1, <3>2, Zenon
  <2>6. Uses(x) = {}
    BY <2>1, <2>3, <2>5
  <2>7. IsFiniteSet(Uses(x)) /\ Cardinality(Uses(x)) = 0
    BY <2>6, FS_EmptySet
  <2>8. CASE x = 1
    <3>1. Mounts(x) = {1}
      BY <1>3, <1>5, <2>8 DEF Mounts
    <3>2. IsFiniteSet(Mounts(x)) /\ Cardinality(Mounts(x)) = 1
      BY <3>1, FS_Singleton
    <3> QED
      BY <1>2, <1>4, <2>7, <2>8, <3>2 DEF Exact, RootUses
  <2>9. CASE x # 1
    <3>1. Mounts(x) = {}
      BY <1>3, <1>5, <2>9 DEF Mounts
    <3>2. IsFiniteSet(Mounts(x)) /\ Cardinality(Mounts(x)) = 0
      BY <3>1, FS_EmptySet
    <3> QED
      BY <1>4, <2>7, <2>9, <3>2, ZeroedFacts DEF Exact
  <2> QED
    BY <2>8, <2>9
<1>11. Counted /\ LowKept
  BY <1>7, <1>10 DEF Counted, LowKept
<1>12. \A x \in Slots : table[x].dev # 0 => x = 1
  BY <1>4, ZeroedFacts
<1>13. Named
  BY <1>2, <1>3, <1>4, <1>7, <1>8, <1>12, ZeroedFacts DEF Named, InodeUnique
<1>14. FreeIsClean
  BY <1>2, <1>4, ZeroedFacts DEF FreeIsClean
<1>15. CopyGood
  BY <1>2, <1>3, <1>4, <1>7, <1>12 DEF CopyGood
<1>16. DiskGood
  BY <1>7 DEF DiskGood
<1>17. DeviceStays
  BY <1>2, <1>4, <1>5, <1>12 DEF DeviceStays
<1>18. ASSUME NEW t \in Tasks PROVE InIget(t) /\ InIput(t) /\ InMount(t)
  BY <1>6 DEF InIget, InIput, InMount
<1>19. Apart
  BY <1>6 DEF Apart, LockedBy, Unmounting
<1>20. MountsOK
  BY <1>2, <1>3, <1>4, <1>5, <1>12, ZeroedFacts DEF MountsOK, ROOT_DEV, NoSlot, MountPoint
<1> QED
  BY <1>9, <1>11, <1>13, <1>14, <1>15, <1>16, <1>17, <1>18, <1>19, <1>20 DEF InodesIInv

(* The inductive invariant holds in every state, if Races is empty: of a   *)
(* condition that a call has tested before it sleeps, what the code after  *)
(* the sleep relies on still holds.                                        *)
THEOREM InodesInvariant ==
  ASSUME Races = {}
  PROVE  InodesSpec => []InodesIInv
<1>1. InodesInit => InodesIInv
  BY InitKeeps
<1>2. InodesIInv /\ [InodesNext]_inodeVars => InodesIInv'
  BY NextKeeps
<1> QED
  BY <1>1, <1>2, PTL DEF InodesSpec

(* fs/inode.c: an inode of a device is in inode_table[] at most once,      *)
(* although iget() sleeps between its search and its use of what it found, *)
(* and get_empty_inode() takes a free inode without losing a change.       *)
THEOREM InodesSound ==
  ASSUME Races = {}
  PROVE  InodesSpec => []InodesInv
<1>1. InodesIInv => InodesInv
  BY DEF InodesIInv, Named, InodesInv
<1> QED
  BY <1>1, InodesInvariant, PTL

(* i_count of fs/inode.c is the number of references: iput() gives up one  *)
(* that is there, and free_inode() is called for the last one only.        *)
THEOREM RefsAlwaysExact ==
  ASSUME Races = {}
  PROVE  InodesSpec => []RefsExact
<1>1. InodesIInv => RefsExact
  <2> SUFFICES ASSUME InodesIInv, NEW x \in Slots
               PROVE  /\ table[x].count = Cardinality(Uses(x)) + Cardinality(Mounts(x))
                                            + (IF x = 1 THEN RootUses ELSE 0)
                      /\ BeingDeleted(x) => table[x].count = 1 /\ table[x].nlinks = 0
    BY Zenon DEF RefsExact
  <2>1. Exact(x)
    BY DEF InodesIInv, Counted
  <2>2. BeingDeleted(x) => table[x].count = 1 /\ table[x].nlinks = 0
    BY DEF BeingDeleted, InodesIInv, InIput
  <2> QED
    BY <2>1, <2>2, Zenon DEF Exact
<1> QED
  BY <1>1, InodesInvariant, PTL

(* No change of an inode is lost in fs/inode.c: its copy in the table, and *)
(* the device when there is no copy or the copy is clean, hold the link    *)
(* count as it was last set.                                               *)
THEOREM InodesCoherent ==
  ASSUME Races = {}
  PROVE  InodesSpec => []InodeCoherent
<1>1. InodesIInv => InodeCoherent
  <2> SUFFICES ASSUME InodesIInv PROVE InodeCoherent
    OBVIOUS
  <2> DEFINE read == {loc[t].e : t \in {u \in Tasks : loc[u].pc = "read"}}
  <2>1. \A x : x \in read <=> Reading(x)
    BY DEF Reading
  <2> SUFFICES ASSUME NEW d \in Devs, NEW n \in imap[d]
               PROVE  /\ Matches(table, d, n) \ read = {} => disk[d][n] = links[d][n]
                      /\ \A x \in Matches(table, d, n) \ read :
                           /\ table[x].nlinks = links[d][n]
                           /\ table[x].dirt \/ disk[d][n] = links[d][n]
    BY DEF InodeCoherent
  <2> HIDE DEF read
  <2>2. \A x : x \in Matches(table, d, n) \ read <=>
                 x \in Slots /\ table[x].dev = d /\ table[x].num = n /\ ~Reading(x)
    BY <2>1 DEF Matches
  <2>3. d # 0
    BY InodesAssumption
  <2>4. Matches(table, d, n) \ read = {} => disk[d][n] = links[d][n]
    BY <2>2 DEF InodesIInv, DiskGood
  <2>5. \A x \in Matches(table, d, n) \ read :
          /\ table[x].nlinks = links[d][n]
          /\ table[x].dirt \/ disk[d][n] = links[d][n]
    BY <2>2, <2>3 DEF InodesIInv, CopyGood
  <2> QED
    BY <2>4, <2>5
<1> QED
  BY <1>1, InodesInvariant, PTL

(* A device whose inodes are in use is mounted: read_inode() and           *)
(* write_inode() of fs/inode.c find its super block.                       *)
THEOREM DevicesStay ==
  ASSUME Races = {}
  PROVE  InodesSpec => []DeviceStays
<1>1. InodesIInv => DeviceStays
  BY DEF InodesIInv
<1> QED
  BY <1>1, InodesInvariant, PTL
=============================================================================
