-------------------------- MODULE MCDeletionRetry ---------------------------
(***************************************************************************)
(* Deletion on the smallest instance where a send is retried while another *)
(* device of its author deletes the message.                               *)
(***************************************************************************)
EXTENDS Deletion, TLC

CONSTANTS a1, a2, alice, t1

(* Two linked devices, one of which sends.                                 *)
MCKey == (a1 :> 2) @@ (a2 :> 1)
MCAccount == (a1 :> alice) @@ (a2 :> alice)
MCAuthor == [t \in Text |-> a1]

MCRosters == <<[members |-> Member, admins |-> {}, epoch |-> 1]>>

(* One restart, and two calls in which the store refuses something.        *)
MCBudgets == {[refused |-> 2, crash |-> 1, personal |-> 1, roster |-> 0]}
=============================================================================
