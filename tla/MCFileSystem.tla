---------------------------- MODULE MCFileSystem ----------------------------
(***************************************************************************)
(* Two fibers, two paths and three files, so that one may be unlinked,     *)
(* open, and made again.                                                   *)
(***************************************************************************)
EXTENDS FileSystem, TLC

CONSTANTS f1, f2, p, q, i1, i2, i3, a, b

MCFiber == {f1, f2}
MCPath == {p, q}
MCInode == {i1, i2, i3}
MCChunk == {<<b, a>>}

Alike == Permutations(MCFiber) \cup Permutations(MCPath) \cup Permutations(MCInode)
=============================================================================
