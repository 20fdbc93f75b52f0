------------------------------ MODULE MCWorld ------------------------------
(***************************************************************************)
(* Small worlds: two servers of a pool and one adversary.                  *)
(***************************************************************************)
EXTENDS World, TLC

CONSTANTS s1, s2, a1    \* hosts

MCPool == {s1, s2}
MCAdversary == {a1}
MCSystemHost == {s1, s2}

\* The order the hosts were added in: the adversary before, or after.
AdversaryFirst == (a1 :> 0) @@ (s1 :> 1) @@ (s2 :> 2)
AdversaryLast == (s1 :> 0) @@ (s2 :> 1) @@ (a1 :> 2)

OneWay == {<<s1, s2>>}
ToAdversary == {<<s1, s2>>, <<s1, a1>>}
=============================================================================
