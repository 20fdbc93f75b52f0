----------------------------- MODULE MCDatabase -----------------------------
(***************************************************************************)
(* Two fibers that write, one that scans, and a batch of each kind: a put, *)
(* one that changes two keys, and one that puts a key and deletes it again *)
(***************************************************************************)
EXTENDS DatabaseIterator

CONSTANTS f1, f2, x, y, v, w

PutX == <<[key |-> x, value |-> v]>>
PutBoth == <<[key |-> x, value |-> w], [key |-> y, value |-> w]>>
PutAndDelete == <<[key |-> x, value |-> v], [key |-> x, value |-> NoValue]>>

MCFiber == {f1, f2}
MCKey == {x, y}
MCKeyOrder == <<x, y>>
MCValue == {v, w}
MCBatch == {PutX, PutBoth, PutAndDelete}
=============================================================================
