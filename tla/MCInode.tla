------------------------------- MODULE MCInode -------------------------------
EXTENDS Inode, TLC

CONSTANTS a, b
Symm == Permutations(Procs \ {InitProc})
Call(op, path, new) == [op |-> op, path |-> path, new |-> new]
MCCalls ==
  { Call("mkdir", <<a>>, <<>>), Call("create", <<a, b>>, <<>>),
    Call("link", <<a, b>>, <<b>>), Call("open", <<a, "..">>, <<>>),
    Call("unlink", <<a>>, <<>>), Call("unlink", <<b>>, <<>>),
    Call("unlink", <<a, b>>, <<>>) }

(* Empty, with directory a, with file a/b as well, and with its link b. *)
Inode(type, nlink, ia, ib, up) ==
  [type |-> type, nlink |-> nlink, ents |-> a :> ia @@ b :> ib @@ ".." :> up]
MCDisks ==
  { <<Inode("dir", 1, 0, 0, 1), FreeInode, FreeInode>>,
    <<Inode("dir", 2, 2, 0, 1), Inode("dir", 1, 0, 0, 1), FreeInode>>,
    <<Inode("dir", 2, 2, 0, 1), Inode("dir", 1, 0, 3, 1),
      Inode("file", 1, 0, 0, 0)>>,
    <<Inode("dir", 2, 2, 3, 1), Inode("dir", 1, 0, 3, 1),
      Inode("file", 2, 0, 0, 0)>> }
=============================================================================
