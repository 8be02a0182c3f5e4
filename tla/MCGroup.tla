------------------------------- MODULE MCGroup -------------------------------
(***************************************************************************)
(* GroupCommits on small instances.  Fingerprints are small numbers; their *)
(* order decides the succession.  CrashSpec bounds how many members die in *)
(* one behaviour, which leaves room for more members and commits.          *)
(***************************************************************************)
EXTENDS GroupCommits

CONSTANT MaxCrashes
VARIABLE crashes

mcvars == <<vars, crashes>>

Died == {n \in Node : mode[n] # "down" /\ mode'[n] = "down"}

(* A departure whose deletion fails uses up two deaths. *)
Botched == {f \in net' \ net : f.type = "leave" /\ mode'[f.who] # "gone"}

CrashInit == Init /\ crashes = 0
CrashNext ==
    /\ Next
    /\ crashes' = crashes + (IF Botched # {} THEN 2 ELSE Cardinality(Died))
    /\ crashes' <= MaxCrashes
CrashSpec == CrashInit /\ [][CrashNext]_mcvars
=============================================================================
