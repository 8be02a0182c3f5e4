---------------------------- MODULE MCDmDelivery ----------------------------
(***************************************************************************)
(* DmDelivery on small instances.  FaultSpec bounds how many faults (a     *)
(* refused or uncertain write, a failed publication, a crash) one          *)
(* behaviour has.                                                          *)
(***************************************************************************)
EXTENDS DmDelivery

CONSTANT MaxFaults
VARIABLE faults

mcvars == <<vars, faults>>

NoOversized == {}
FirstOversized == {1}

BoundedInit == Init /\ faults = 0
BoundedNext ==
    \/ /\ \/ SLocal
          \/ RLocal
          \/ SEffect({"ok"}, {"sent", "never"})
          \/ REffect({"ok"}, {"sent", "never"})
       /\ faults' = faults
    \/ /\ faults < MaxFaults
       /\ faults' = faults + 1
       /\ \/ SEffect(Outcome \ {"ok"}, {"failed"})
          \/ REffect(Outcome \ {"ok"}, {"failed"})
          \/ SCrash
          \/ RCrash
FaultSpec == BoundedInit /\ [][BoundedNext]_mcvars
=============================================================================
