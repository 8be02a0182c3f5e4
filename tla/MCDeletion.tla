----------------------------- MODULE MCDeletion -----------------------------
(***************************************************************************)
(* Deletion on a small instance.                                           *)
(***************************************************************************)
EXTENDS Deletion, TLC

CONSTANTS a1, a2, b1, alice, bob, t1

(* Two linked devices of one account and another member.                   *)
MCKey == (a1 :> 2) @@ (a2 :> 1) @@ (b1 :> 3)
MCAccount == (a1 :> alice) @@ (a2 :> alice) @@ (b1 :> bob)

MCAuthor == [t \in Text |-> a1]

(* The other member is an admin, and then no longer: in an org group the   *)
(* org's roster says so, without a new epoch.                              *)
MCRosters == <<[members |-> Member, admins |-> {b1}, epoch |-> 1],
               [members |-> Member, admins |-> {}, epoch |-> 1]>>

(* A crash while the roster changes, a crash and a refused write, or a     *)
(* personal deletion.                                                      *)
MCBudgets ==
    {[refused |-> 0, crash |-> 1, personal |-> 0, roster |-> 3],
     [refused |-> 1, crash |-> 1, personal |-> 0, roster |-> 0],
     [refused |-> 0, crash |-> 0, personal |-> 1, roster |-> 0]}
=============================================================================
