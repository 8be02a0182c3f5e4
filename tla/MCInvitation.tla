---------------------------- MODULE MCInvitation ----------------------------
(***************************************************************************)
(* Invitation on small instances.                                          *)
(***************************************************************************)
EXTENDS Invitation, FiniteSetsExt

CONSTANTS j1, j2

(* Any two faults or changes of mind, the same one twice included.         *)
AnyTwo ==
    {b \in [Faults -> 0 .. 2] : MapThenSumSet(LAMBDA f : b[f], Faults) = 2}
=============================================================================
