-------------------------------- MODULE Clock --------------------------------
(***************************************************************************)
(* The clock that the components of the broker read: utc_now()             *)
(* (timeutils.py), taken to go forward, in whatever unit their windows and *)
(* intervals are counted in.                                               *)
(***************************************************************************)
EXTENDS Integers

CONSTANT MaxTime   \* bound: the clock of a run

VARIABLE now       \* the clock

\* Time passes.
Later == now < MaxTime /\ now' = now + 1

=============================================================================
