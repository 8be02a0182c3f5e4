-------------------------------- MODULE MCOrg --------------------------------
(***************************************************************************)
(* OrgAcceptance on small instances.                                       *)
(***************************************************************************)
EXTENDS OrgAcceptance, FiniteSetsExt

CONSTANTS d, g1, g2, dm, group

(* One offer of a DM, two of the same group.                               *)
MCConv == [o \in Offer |-> IF o = d THEN dm ELSE group]

(* Both sides are in the first roster; the second one drops the sender.    *)
MCMember == [v \in 0 .. 2 |-> CASE v = 0 -> {}
                                [] v = 1 -> {"self", "sender"}
                                [] v = 2 -> {"self"}]

(* Any two faults or changes of mind, the same one twice included.         *)
AnyTwo ==
    {b \in [Faults -> 0 .. 2] : MapThenSumSet(LAMBDA f : b[f], Faults) = 2}
=============================================================================
