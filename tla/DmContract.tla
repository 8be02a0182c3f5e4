------------------------------ MODULE DmContract ------------------------------
(***************************************************************************)
(* What a DM promises the two people who use it, without outboxes, stores, *)
(* ratchets or acknowledgements: a text leaves only after the app accepted *)
(* it, arrives only after it left, and counts as delivered, for good, only *)
(* after it arrived.                                                       *)
(***************************************************************************)
CONSTANT Text
VARIABLES accepted, published, received, confirmed

contractVars == <<accepted, published, received, confirmed>>

CInit == accepted = {} /\ published = {} /\ received = {} /\ confirmed = {}

Accept(t) ==
    /\ accepted' = accepted \cup {t}
    /\ UNCHANGED <<published, received, confirmed>>

Publish(t) ==
    /\ t \in accepted
    /\ published' = published \cup {t}
    /\ UNCHANGED <<accepted, received, confirmed>>

Receive(t) ==
    /\ t \in published
    /\ received' = received \cup {t}
    /\ UNCHANGED <<accepted, published, confirmed>>

Confirm(t) ==
    /\ t \in received
    /\ confirmed' = confirmed \cup {t}
    /\ UNCHANGED <<accepted, published, received>>

CNext == \E t \in Text : Accept(t) \/ Publish(t) \/ Receive(t) \/ Confirm(t)

CSpec == CInit /\ [][CNext]_contractVars
=============================================================================
