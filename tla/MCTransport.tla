---------------------------- MODULE MCTransport ----------------------------
(***************************************************************************)
(* Two machines: a client c1 that connects to the service of a server s1,  *)
(* which connects to itself as well.                                       *)
(***************************************************************************)
EXTENDS Transport, TLC

CONSTANTS c1, s1

MCMachine == {c1, s1}
MCService == (c1 :> {}) @@ (s1 :> {1})
WithMe == [h \in MCMachine |-> {<<s1, 1>>}]
Both == {c1, s1}
=============================================================================
