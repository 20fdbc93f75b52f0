-------------------------------- MODULE Time --------------------------------
(***************************************************************************)
(* time/time.hpp: the virtual time of the world.  It stands still while an *)
(* actor takes its step and jumps to the time of the next step in between. *)
(***************************************************************************)
EXTENDS Naturals

VARIABLE now        \* Time::now_

\* Time::FastForwardTo.  The code's check, future >= now_, is a property of
\* World (NoTimeTravel) and not a guard here.
FastForwardTo(future) == now' = future
=============================================================================
