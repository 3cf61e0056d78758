------------------------------- MODULE MCNamei -------------------------------
(* Two tasks, each with a directory of its own below the root, /a and /b,  *)
(* and a file that has a name in both.  One task uses the names x and y of *)
(* its directory, the other x, in every call.                              *)
(* One inode and one block are free; a directory block has three entries.  *)
EXTENDS Namei, TLC

CONSTANTS t1, t2

E(name, n) == [name |-> name, ino |-> n]
Node(kind, links, count) == [kind |-> kind, links |-> links, count |-> count]

TwoDirectories ==
  [ino |-> <<Node("dir", 4, 1), Node("dir", 2, 1), Node("dir", 2, 1),
             Node("file", 2, 0), FreeInode>>,
   dir |-> <<<<E(".", 1), E("..", 1), E("a", 2), E("b", 3)>>,
             <<E(".", 2), E("..", 1), E("x", 4)>>,
             <<E(".", 3), E("..", 1), E("x", 4)>>, << >>, << >>>>,
   blk |-> <<2, 1, 1, 0, 0>>,
   nfree |-> 1]

OwnDirectory == (t1 :> 2) @@ (t2 :> 3)

OwnPaths ==
  (t1 :> {<<"/", "a", "x">>, <<"y">>}) @@ (t2 :> {<<"x">>})
=============================================================================
