------------------------------ MODULE OrgProofs ------------------------------
(* Theorems about OrgAcceptance, for every set of offers, any assignment of *)
(* offers to conversations, any rosters and any number of faults.           *)
EXTENDS OrgAcceptance, TLAPS

LEMMA Constants ==
  /\ Dm \subseteq Offer /\ DOMAIN Conv = Offer
  /\ \A o \in Offer : Conv[o] \in Conversations
  /\ \A c \in Conversations : \E o \in Offer : Conv[o] = c
  /\ \A d \in Dm, o \in Offer : Conv[d] = Conv[o] => d = o
  /\ Versions \subseteq Nat /\ 0 \in Versions /\ Signers \in Nat
  /\ Budgets \subseteq [Faults -> Nat]
  /\ None \notin Signer /\ None \notin Offer /\ None \notin Record
  /\ None \notin OrgSession /\ None \notin Session
  BY OrgAssumption, NoneAssumption DEF Conversations

(***************************************************************************)
(* The operators on records                                                *)
(***************************************************************************)

LEMMA RecordFields ==
  ASSUME NEW r \in Record
  PROVE  /\ r.pending \in Acceptances /\ r.resolved \subseteq Offer
         /\ \A o \in Offer : r.pending[o] \in Signer \cup {None}
  BY DEF Record, Acceptances

LEMMA SessionFields ==
  ASSUME NEW s \in OrgSession
  PROVE  /\ s.pending \in Acceptances /\ s.resolved \subseteq Offer
         /\ s.shown \subseteq Offer /\ s.seen \subseteq Offer /\ s.version \in Versions
         /\ \A o \in Offer : s.pending[o] \in Signer \cup {None}
         /\ ToRecord(s) \in Record
         /\ ToRecord(s).pending = s.pending /\ ToRecord(s).resolved = s.resolved
  BY DEF OrgSession, Acceptances, Record, ToRecord

LEMMA NoOffersRecord ==
  /\ NoOffers \in Record /\ NoOffers.resolved = {}
  /\ \A o \in Offer : NoOffers.pending[o] = None
  BY DEF NoOffers, Record, Acceptances

LEMMA RetainType ==
  ASSUME NEW p \in Acceptances, NEW R
  PROVE  /\ Retain(p, R) \in Acceptances
         /\ \A o \in Offer : Retain(p, R)[o] = IF o \in R THEN None ELSE p[o]
  BY DEF Retain, Acceptances

(* Pruning takes exactly the resolved offers out of what is pending and of  *)
(* what is shown.                                                           *)
LEMMA PruneFields ==
  ASSUME NEW s \in OrgSession
  PROVE  /\ Prune(s) \in OrgSession
         /\ Prune(s).resolved = s.resolved /\ Prune(s).seen = s.seen
         /\ Prune(s).version = s.version
         /\ Prune(s).shown = s.shown \ s.resolved
         /\ \A o \in Offer : Prune(s).pending[o] =
                               IF o \in s.resolved THEN None ELSE s.pending[o]
<1>1. s.pending \in Acceptances
  BY SessionFields
<1>2. Retain(s.pending, s.resolved) \in Acceptances
  BY <1>1, RetainType
<1>3. /\ Prune(s) \in OrgSession
      /\ Prune(s).resolved = s.resolved /\ Prune(s).seen = s.seen
      /\ Prune(s).version = s.version
      /\ Prune(s).shown = s.shown \ s.resolved
      /\ Prune(s).pending = Retain(s.pending, s.resolved)
  BY <1>2 DEF Prune, OrgSession
<1> QED BY <1>1, <1>3, RetainType

(* Retiring resolves exactly the pending offers whose conversation is saved *)
(* under the signer of the acceptance.                                      *)
LEMMA RetireFields ==
  ASSUME NEW r \in Record, NEW saved
  PROVE  /\ Retire(r, saved) \in Record
         /\ \A o \in Offer : o \in Retire(r, saved).resolved <=>
               \/ o \in r.resolved
               \/ r.pending[o] # None /\ saved[Conv[o]] = r.pending[o]
         /\ \A o \in Offer : Retire(r, saved).pending[o] =
               IF r.pending[o] # None /\ saved[Conv[o]] = r.pending[o] THEN None
               ELSE r.pending[o]
<1> DEFINE done == {o \in Pending(r) : NativeDurable(saved, o, r.pending[o])}
<1>1. Retire(r, saved) = [pending |-> Retain(r.pending, done), resolved |-> r.resolved \cup done]
  BY DEF Retire
<1>2. done \subseteq Offer
      /\ \A o \in Offer : o \in done <=> r.pending[o] # None /\ saved[Conv[o]] = r.pending[o]
  BY DEF Pending, NativeDurable
<1>3. r.pending \in Acceptances /\ r.resolved \subseteq Offer
  BY RecordFields
<1> HIDE DEF done
<1>4. Retire(r, saved).pending = Retain(r.pending, done)
      /\ Retire(r, saved).resolved = r.resolved \cup done
  BY <1>1
<1>5. Retire(r, saved) \in Record
  BY <1>1, <1>2, <1>3, RetainType DEF Record
<1> QED BY <1>2, <1>3, <1>4, <1>5, RetainType

Stored == IF disk = None THEN NoOffers ELSE disk

(* What a write brings for an offer, before it is compared with what is     *)
(* resolved and with the saved conversations.                               *)
Merged(r) == [o \in Offer |-> IF r.pending[o] # None THEN r.pending[o]
                              ELSE Stored.pending[o]]

(* A written record resolves what either side had resolved and what is      *)
(* durable by now; nothing else leaves the merged acceptances.              *)
LEMMA ReconciledFields ==
  ASSUME NEW r \in Record, disk \in Record \cup {None}
  PROVE  /\ Reconciled(r) \in Record
         /\ \A o \in Offer : o \in Reconciled(r).resolved <=>
               \/ o \in r.resolved \cup Stored.resolved
               \/ Merged(r)[o] # None /\ native[Conv[o]] = Merged(r)[o]
         /\ \A o \in Offer : Reconciled(r).pending[o] =
               IF o \in Reconciled(r).resolved THEN None ELSE Merged(r)[o]
<1>1. Stored \in Record
  BY NoOffersRecord DEF Stored
<1> DEFINE both == r.resolved \cup Stored.resolved
           merged == [pending |-> Retain(Merged(r), both), resolved |-> both]
<1>2. Merged(r) \in Acceptances /\ both \subseteq Offer
  BY <1>1, RecordFields DEF Merged, Acceptances
<1>3. Reconciled(r) = Retire(merged, native)
  BY DEF Reconciled, Merged, Stored
<1>4. merged \in Record /\ merged.resolved = both
      /\ \A o \in Offer : merged.pending[o] = IF o \in both THEN None ELSE Merged(r)[o]
  BY <1>2, RetainType DEF Record
<1> HIDE DEF merged, both
<1>5. /\ Reconciled(r) \in Record
      /\ \A o \in Offer : o \in Reconciled(r).resolved <=>
            \/ o \in both
            \/ merged.pending[o] # None /\ native[Conv[o]] = merged.pending[o]
      /\ \A o \in Offer : Reconciled(r).pending[o] =
            IF merged.pending[o] # None /\ native[Conv[o]] = merged.pending[o] THEN None
            ELSE merged.pending[o]
  BY <1>3, <1>4, RetireFields
<1> QED BY <1>4, <1>5 DEF both

Disjoint(r) == Pending(r) \cap r.resolved = {}

LEMMA BuildFields ==
  ASSUME NEW r \in Record, NEW v \in Versions, Disjoint(r)
  PROVE  /\ BuildSession(r, v) \in OrgSession /\ Disjoint(BuildSession(r, v))
         /\ BuildSession(r, v).pending = r.pending
         /\ BuildSession(r, v).resolved = r.resolved
         /\ BuildSession(r, v).shown = Pending(r) /\ BuildSession(r, v).seen = Pending(r)
<1>1. Pending(r) \subseteq Offer /\ Pending(r) \ r.resolved = Pending(r)
  BY DEF Disjoint, Pending
<1>2. r.pending \in Acceptances /\ r.resolved \subseteq Offer
  BY RecordFields
<1>3. BuildSession(r, v) = [pending |-> r.pending, resolved |-> r.resolved,
                            shown |-> Pending(r), seen |-> Pending(r), version |-> v]
  BY <1>1 DEF BuildSession
<1> QED BY <1>1, <1>2, <1>3 DEF OrgSession, Disjoint, Pending

LEMMA CommittedFields ==
  ASSUME org \in OrgSession, disk' \in Record, Disjoint(disk)', NEW o
  PROVE  /\ Committed(o) \in OrgSession /\ Disjoint(Committed(o))
         /\ \A x \in Offer : Committed(o).pending[x] = disk'.pending[x]
         /\ Committed(o).resolved = disk'.resolved
         /\ Committed(o).seen = org.seen
         /\ Committed(o).shown = (org.shown \ disk'.resolved) \ {o}
<1> DEFINE u == [org EXCEPT !.pending = disk'.pending, !.resolved = disk'.resolved]
           s == Prune(u)
<1>0. disk'.pending \in Acceptances /\ disk'.resolved \subseteq Offer
  BY RecordFields
<1>1. u \in OrgSession /\ u.pending = disk'.pending /\ u.resolved = disk'.resolved
      /\ u.shown = org.shown /\ u.seen = org.seen
  BY <1>0 DEF OrgSession
<1> HIDE DEF u
<1>2. /\ s \in OrgSession /\ s.resolved = u.resolved /\ s.seen = u.seen
      /\ s.shown = u.shown \ u.resolved
      /\ \A x \in Offer : s.pending[x] = IF x \in u.resolved THEN None ELSE u.pending[x]
  BY <1>1, PruneFields
<1>3. \A x \in Offer : s.pending[x] = disk'.pending[x]
  BY <1>1, <1>2 DEF Disjoint, Pending
<1>4. Committed(o) = [s EXCEPT !.shown = @ \ {o}]
  BY DEF Committed, s, u
<1> HIDE DEF s
<1>5. /\ Committed(o) \in OrgSession /\ Committed(o).pending = s.pending
      /\ Committed(o).resolved = s.resolved
      /\ Committed(o).seen = s.seen /\ Committed(o).shown = s.shown \ {o}
  BY <1>2, <1>4 DEF OrgSession
<1> QED BY <1>1, <1>2, <1>3, <1>5 DEF Disjoint, Pending

LEMMA HappensType ==
  ASSUME faults \in [Faults -> Nat], NEW f \in Faults, Happens(f)
  PROVE  faults' \in [Faults -> Nat]
  BY DEF Happens

LEMMA WriteType ==
  ASSUME disk \in Record \cup {None}, disk # None => Disjoint(disk),
         faults \in [Faults -> Nat], NEW o \in Outcomes, NEW r \in Record, Write(o, r)
  PROVE  /\ disk' = IF o = "refused" THEN disk ELSE Reconciled(r)
         /\ disk' \in Record \cup {None} /\ (disk # None => disk' # None)
         /\ o # "refused" => disk' \in Record /\ disk' # None
         /\ disk' # None => Disjoint(disk')
         /\ faults' \in [Faults -> Nat]
<1>1. disk' = IF o = "refused" THEN disk ELSE Reconciled(r)
  BY DEF Write
<1>2. Reconciled(r) \in Record /\ Disjoint(Reconciled(r)) /\ Reconciled(r) # None
  BY ReconciledFields, Constants DEF Disjoint, Pending
<1>3. faults' \in [Faults -> Nat]
  <2>1. CASE o = "saved"
    BY <2>1 DEF Write
  <2>2. CASE o # "saved"
    <3>1. o \in Faults /\ Happens(o)
      BY <2>2 DEF Write, Outcomes, Faults
    <3> QED BY <3>1, HappensType
  <2> QED BY <2>1, <2>2
<1> QED BY <1>1, <1>2, <1>3

(***************************************************************************)
(* Types                                                                   *)
(***************************************************************************)

(* What is durable was let in, a joined session was let in, a saved session *)
(* is durable, and an acceptance in progress has its session.               *)
SavedInv ==
    /\ \A c \in Conversations : held[c] # None /\ held[c].joined
                                  => <<c, held[c].signer>> \in welcomed
    /\ \A c \in Conversations : native[c] # None => <<c, native[c]>> \in durable
    /\ durable \subseteq welcomed
    /\ busy # None => held[Conv[busy]] # None /\ org # None

TypeInv == TypeOK /\ SavedInv

LEMMA TypeFacts ==
  ASSUME TypeInv
  PROVE  /\ org \in OrgSession \cup {None} /\ disk \in Record \cup {None}
         /\ roster \in Versions
         /\ held \in [Conversations -> Session \cup {None}]
         /\ native \in [Conversations -> Signer \cup {None}]
         /\ busy \in Offer \cup {None} /\ closing \in BOOLEAN
         /\ packages \subseteq Conversations \X Signer
         /\ welcomed \subseteq packages /\ durable \subseteq welcomed
         /\ drawn \in [Offer -> 0 .. Signers] /\ faults \in [Faults -> Nat]
         /\ accepted \in [Offer -> Signer \cup {None}]
         /\ renounced \subseteq Offer /\ shut \subseteq Conversations
         /\ disk # None => Disjoint(disk)
         /\ org # None => Disjoint(org)
  BY DEF TypeInv, TypeOK, SavedInv, Disjoint

LEMMA TypeNext == TypeInv /\ [Next]_vars => TypeInv'
<1> SUFFICES ASSUME TypeInv, [Next]_vars PROVE TypeInv'
  OBVIOUS
<1> USE Constants
<1>t. /\ org \in OrgSession \cup {None} /\ disk \in Record \cup {None}
      /\ roster \in Versions
      /\ held \in [Conversations -> Session \cup {None}]
      /\ native \in [Conversations -> Signer \cup {None}]
      /\ busy \in Offer \cup {None} /\ closing \in BOOLEAN
      /\ packages \subseteq Conversations \X Signer
      /\ welcomed \subseteq packages /\ durable \subseteq welcomed
      /\ drawn \in [Offer -> 0 .. Signers] /\ faults \in [Faults -> Nat]
      /\ accepted \in [Offer -> Signer \cup {None}]
      /\ renounced \subseteq Offer /\ shut \subseteq Conversations
      /\ disk # None => Disjoint(disk)
      /\ org # None => Disjoint(org)
  BY TypeFacts
<1>s. SavedInv
  BY DEF TypeInv
<1>o. \A c \in Conversations : held[c] # None =>
        held[c] \in Session /\ held[c].signer \in Signer /\ held[c].joined \in BOOLEAN
  BY <1>t DEF Session
(* The parts of the state that an action may change together. *)
<1>g. ASSUME org' \in OrgSession \cup {None}, disk' \in Record \cup {None},
             disk' # None => Disjoint(disk'), org' # None => Disjoint(org'),
             roster' \in Versions, held' \in [Conversations -> Session \cup {None}],
             native' \in [Conversations -> Signer \cup {None}],
             busy' \in Offer \cup {None}, closing' \in BOOLEAN,
             packages' \subseteq Conversations \X Signer,
             welcomed' \subseteq packages', durable' \subseteq welcomed',
             drawn' \in [Offer -> 0 .. Signers], faults' \in [Faults -> Nat],
             accepted' \in [Offer -> Signer \cup {None}],
             renounced' \subseteq Offer, shut' \subseteq Conversations, SavedInv'
      PROVE  TypeInv'
  BY <1>g DEF TypeInv, TypeOK, Disjoint, Pending
<1>f. /\ "refused" \in Faults /\ "uncertain" \in Faults /\ "unpublished" \in Faults
      /\ "crash" \in Faults /\ "close" \in Faults /\ "leave" \in Faults
  BY DEF Faults
(* Only the org, its disk and the users' wishes change. *)
<1>w. ASSUME org' \in OrgSession \cup {None}, disk' \in Record \cup {None},
             disk' # None => Disjoint(disk'), org' # None => Disjoint(org'),
             roster' \in Versions, renounced' \subseteq Offer, faults' \in [Faults -> Nat],
             accepted' \in [Offer -> Signer \cup {None}], closing' \in BOOLEAN,
             busy' = busy, busy # None => org' # None,
             UNCHANGED <<runtimes, durable, shut>>
      PROVE  TypeInv'
  <2>1. SavedInv'
    BY <1>w, <1>s DEF runtimes, SavedInv
  <2> QED BY <1>g, <1>t, <1>w, <2>1 DEF runtimes
<1>1. ASSUME NEW o \in Outcomes, JoinOrg(o) PROVE TypeInv'
  <2>1. NoOffers \in Record
    BY NoOffersRecord
  <2>2. disk' \in Record \cup {None} /\ (disk' # None => Disjoint(disk'))
        /\ faults' \in [Faults -> Nat] /\ disk' = (IF o = "refused" THEN disk ELSE Reconciled(NoOffers))
        /\ (o # "refused" => disk' \in Record /\ disk' # None)
    BY <1>1, <1>t, <2>1, WriteType DEF JoinOrg
  <2>3. CASE o = "saved"
    <3>1. org' = BuildSession(disk', roster) /\ disk' \in Record /\ Disjoint(disk')
      BY <1>1, <2>2, <2>3 DEF JoinOrg
    <3>2. org' \in OrgSession /\ Disjoint(org')
      BY <1>t, <3>1, BuildFields
    <3> QED BY <1>1, <1>t, <1>w, <2>2, <3>2 DEF JoinOrg, ghosts, Free
  <2>4. CASE o # "saved"
    <3>1. org' = None
      BY <1>1, <2>4 DEF JoinOrg
    <3> QED BY <1>1, <1>t, <1>w, <2>2, <3>1 DEF JoinOrg, ghosts, Free
  <2> QED BY <2>3, <2>4
<1>2. ASSUME NEW o \in Outcomes, LeaveOrg(o) PROVE TypeInv'
  <2>1. faults' \in [Faults -> Nat]
    <3>1. \A f \in Faults : f \in {"leave", o} => faults[f] > 0
      BY <1>2, <1>t DEF LeaveOrg, Outcomes, Faults
    <3>2. faults' = [f \in Faults |-> IF f \in {"leave", o} THEN faults[f] - 1 ELSE faults[f]]
      BY <1>2 DEF LeaveOrg
    <3>3. \A f \in Faults : (IF f \in {"leave", o} THEN faults[f] - 1 ELSE faults[f]) \in Nat
      BY <1>t, <3>1
    <3> QED BY <3>2, <3>3
  <2>2. /\ disk' \in Record \cup {None} /\ (disk' # None => Disjoint(disk'))
        /\ roster' \in Versions /\ renounced' \subseteq Offer
        /\ accepted' \in [Offer -> Signer \cup {None}] /\ closing' \in BOOLEAN
    BY <1>2, <1>t DEF LeaveOrg
  <2> QED BY <1>2, <1>t, <1>w, <2>1, <2>2 DEF LeaveOrg, Free
<1>3. CASE CloseOrgGroups
  <2> DEFINE bound == {c \in {Conv[o] : o \in Offer \ Dm} : held[c] # None}
  <2>1. held' \in [Conversations -> Session \cup {None}]
        /\ native' \in [Conversations -> Signer \cup {None}]
        /\ \A c \in Conversations : held'[c] \in {held[c], None} /\ native'[c] \in {native[c], None}
    BY <1>3, <1>t DEF CloseOrgGroups
  <2>2. shut' \subseteq Conversations
    BY <1>3, <1>t DEF CloseOrgGroups, Conversations
  <2>3. UNCHANGED <<org, disk, roster, busy, packages, welcomed, drawn, faults, accepted,
                    renounced, durable>> /\ closing' = FALSE /\ busy = None
    BY <1>3 DEF CloseOrgGroups, wire, Free
  <2>4. SavedInv'
    BY <1>s, <2>1, <2>3 DEF SavedInv
  <2> QED BY <1>g, <1>t, <2>1, <2>2, <2>3, <2>4
<1>4. ASSUME NEW v \in Versions, AbsorbRoster(v) PROVE TypeInv'
  <2>1. org \in OrgSession /\ org' = [org EXCEPT !.version = v]
    BY <1>4, <1>t DEF AbsorbRoster
  <2>2. org' \in OrgSession /\ org'.pending = org.pending /\ org'.resolved = org.resolved
    BY <2>1 DEF OrgSession
  <2>3. roster' \in Versions /\ faults' \in [Faults -> Nat]
    BY <1>4, <1>t, <1>f, HappensType DEF AbsorbRoster
  <2>4. Disjoint(org')
    BY <1>4, <1>t, <2>2 DEF AbsorbRoster, Disjoint, Pending
  <2> QED BY <1>4, <1>t, <1>w, <2>2, <2>3, <2>4 DEF AbsorbRoster, ghosts
<1>5. ASSUME NEW o \in Offer, ReceiveOffer(o) PROVE TypeInv'
  <2>1. org \in OrgSession /\ org' = [org EXCEPT !.seen = @ \cup {o}, !.shown = @ \cup {o}]
        /\ org # None
    BY <1>5, <1>t DEF ReceiveOffer, Listed
  <2>2. org' \in OrgSession /\ org'.pending = org.pending /\ org'.resolved = org.resolved
    BY <2>1 DEF OrgSession
  <2>4. Disjoint(org')
    BY <1>t, <2>1, <2>2 DEF Disjoint, Pending
  <2> QED BY <1>5, <1>t, <1>w, <2>2, <2>4 DEF ReceiveOffer, ghosts
<1>p. ASSUME org \in OrgSession, NEW d \in Record
      PROVE  /\ Prune([org EXCEPT !.resolved = @ \cup d.resolved]) \in OrgSession
             /\ Disjoint(Prune([org EXCEPT !.resolved = @ \cup d.resolved]))
  <2> DEFINE u == [org EXCEPT !.resolved = @ \cup d.resolved]
  <2>1. u \in OrgSession
    BY <1>p, RecordFields DEF OrgSession
  <2> HIDE DEF u
  <2>2. Prune(u) \in OrgSession /\ Disjoint(Prune(u))
    BY <2>1, PruneFields DEF Disjoint, Pending
  <2> QED BY <2>2 DEF u
<1>6. CASE Poll
  <2>1. org \in OrgSession /\ disk \in Record
        /\ org' = Prune([org EXCEPT !.resolved = @ \cup disk.resolved])
    BY <1>6, <1>t DEF Poll
  <2>2. org' \in OrgSession /\ Disjoint(org')
    BY <1>p, <2>1
  <2> QED BY <1>6, <1>t, <1>w, <2>2 DEF Poll, ghosts
<1>7. ASSUME NEW o \in Outcomes, WriteLink(o) PROVE TypeInv'
  <2>1. org \in OrgSession /\ org # None /\ ToRecord(org) \in Record
    BY <1>7, <1>t, SessionFields DEF WriteLink, Listed
  <2>2. /\ disk' \in Record \cup {None} /\ (disk' # None => Disjoint(disk'))
        /\ faults' \in [Faults -> Nat]
        /\ (o # "refused" => disk' \in Record /\ disk' # None)
    BY <1>7, <1>t, <2>1, WriteType DEF WriteLink
  <2>3. org' \in OrgSession /\ Disjoint(org')
    BY <1>7, <1>p, <1>t, <2>1, <2>2 DEF WriteLink
  <2> QED BY <1>7, <1>t, <1>w, <2>2, <2>3 DEF WriteLink, ghosts
<1>c. ASSUME org \in OrgSession, org # None, disk' \in Record, disk' # None, Disjoint(disk'), NEW o
      PROVE  Committed(o) \in OrgSession /\ Disjoint(Committed(o))
  <2>1. Disjoint(disk)'
    BY <1>c DEF Disjoint, Pending
  <2> QED BY <1>c, <2>1, CommittedFields
<1>8. ASSUME NEW x \in Offer, NEW o \in Outcomes, DismissOffer(x, o) PROVE TypeInv'
  <2> DEFINE r == [pending |-> [org.pending EXCEPT ![x] = None],
                   resolved |-> org.resolved \cup {x}]
  <2>1. org \in OrgSession /\ org # None
    BY <1>8, <1>t DEF DismissOffer
  <2>2. r \in Record
    BY <2>1, SessionFields DEF Record, Acceptances
  <2>3. Write(o, r)
    BY <1>8 DEF DismissOffer
  <2> HIDE DEF r
  <2>4. /\ disk' \in Record \cup {None} /\ (disk' # None => Disjoint(disk'))
        /\ faults' \in [Faults -> Nat]
        /\ (o # "refused" => disk' \in Record /\ disk' # None)
    BY <1>t, <2>2, <2>3, WriteType
  <2>5. org' \in OrgSession /\ Disjoint(org')
    BY <1>8, <1>c, <1>t, <2>1, <2>4 DEF DismissOffer
  <2> QED BY <1>8, <1>t, <1>w, <2>4, <2>5 DEF DismissOffer
<1>9. ASSUME NEW x \in Offer, NEW o \in Outcomes, AcceptOffer(x, o) PROVE TypeInv'
  <2> DEFINE fresh == OfferRecovery(x) = None
             signer == IF fresh THEN <<x, drawn[x] + 1>> ELSE OfferRecovery(x)
             r == [pending |-> [org.pending EXCEPT ![x] = signer], resolved |-> org.resolved]
  <2>1. org \in OrgSession /\ org # None
    BY <1>9, <1>t DEF AcceptOffer, Peek
  <2>2. fresh => drawn[x] < Signers
    BY <1>9 DEF AcceptOffer
  <2>3. signer \in Signer
    BY <1>t, <2>1, <2>2, SessionFields DEF OfferRecovery, Signer
  <2>4. drawn' \in [Offer -> 0 .. Signers]
    <3>1. drawn' = [drawn EXCEPT ![x] = IF fresh THEN @ + 1 ELSE @]
      BY <1>9 DEF AcceptOffer
    <3>2. (IF fresh THEN drawn[x] + 1 ELSE drawn[x]) \in 0 .. Signers
      BY <1>t, <2>2
    <3> HIDE DEF fresh
    <3> QED BY <1>t, <3>1, <3>2
  <2>5. /\ Write(o, r)
        /\ IF o = "saved"
           THEN /\ org' = Committed(x)
                /\ held' = [held EXCEPT ![Conv[x]] = [signer |-> signer, joined |-> FALSE]]
                /\ accepted' = [accepted EXCEPT ![x] = signer]
                /\ busy' = x
           ELSE UNCHANGED <<org, held, accepted, busy>>
        /\ UNCHANGED <<roster, native, closing, wire, renounced, durable, shut>>
    BY <1>9 DEF AcceptOffer
  <2>6. r \in Record
    BY <2>1, <2>3, SessionFields DEF Record, Acceptances
  <2> HIDE DEF r, signer, fresh
  <2>7. /\ disk' \in Record \cup {None} /\ (disk' # None => Disjoint(disk'))
        /\ faults' \in [Faults -> Nat]
        /\ (o # "refused" => disk' \in Record /\ disk' # None)
    BY <1>t, <2>5, <2>6, WriteType
  <2>8. org' \in OrgSession /\ Disjoint(org')
    BY <1>c, <1>t, <2>1, <2>5, <2>7
  <2>9. accepted' \in [Offer -> Signer \cup {None}] /\ busy' \in Offer \cup {None}
    BY <1>t, <2>3, <2>5
  <2>10. /\ held' \in [Conversations -> Session \cup {None}]
         /\ \A c \in Conversations : held'[c] # None /\ held'[c].joined
                                       => held'[c] = held[c]
         /\ busy' # None => held'[Conv[busy']] # None
    <3>1. [signer |-> signer, joined |-> FALSE] \in Session
      BY <2>3 DEF Session
    <3>2. CASE o = "saved"
      <4>1. PICK h \in Session : h.joined = FALSE /\ held' = [held EXCEPT ![Conv[x]] = h]
        BY <2>5, <3>1, <3>2
      <4>2. busy' = x /\ h # None /\ Conv[x] \in Conversations
        BY <2>5, <3>2
      <4> QED BY <1>t, <4>1, <4>2
    <3>3. CASE o # "saved"
      BY <1>s, <1>t, <2>5, <3>3 DEF SavedInv
    <3> QED BY <3>2, <3>3
  <2>11. SavedInv'
    BY <1>s, <2>1, <2>5, <2>8, <2>10 DEF SavedInv, wire
  <2> QED BY <1>g, <1>t, <2>4, <2>5, <2>7, <2>8, <2>9, <2>10, <2>11 DEF wire
<1>10. ASSUME NEW o \in Offer, PublishJoin(o) PROVE TypeInv'
  <2>1. /\ busy = o /\ busy' = None /\ org \in OrgSession /\ org # None
        /\ held[Conv[o]] # None /\ held[Conv[o]].signer \in Signer
        /\ UNCHANGED <<disk, roster, native, closing, welcomed, drawn, ghosts>>
    BY <1>10, <1>o, <1>s, <1>t DEF PublishJoin, SavedInv
  <2>2. packages' \subseteq Conversations \X Signer /\ packages \subseteq packages'
    BY <1>10, <1>t, <2>1 DEF PublishJoin
  <2>3. faults' \in [Faults -> Nat]
    BY <1>10, <1>f, <1>t, HappensType DEF PublishJoin
  <2>4. /\ held' \in [Conversations -> Session \cup {None}]
        /\ \A c \in Conversations : held'[c] \in {held[c], None}
    BY <1>10, <1>t DEF PublishJoin
  <2>5. org' \in OrgSession /\ Disjoint(org')
    <3>1. Reexpose(o) \in OrgSession /\ Reexpose(o).pending = org.pending
          /\ Reexpose(o).resolved = org.resolved
      BY <2>1 DEF Reexpose, OrgSession
    <3>2. org' = org \/ org' = Reexpose(o)
      BY <1>10 DEF PublishJoin
    <3> QED BY <1>t, <2>1, <3>1, <3>2 DEF Disjoint, Pending
  <2>6. SavedInv'
    BY <1>s, <2>1, <2>4 DEF SavedInv, ghosts
  <2> QED BY <1>g, <1>t, <2>1, <2>2, <2>3, <2>4, <2>5, <2>6 DEF ghosts
<1>11. ASSUME NEW c \in Conversations, ResendPackage(c) PROVE TypeInv'
  <2>1. packages' \subseteq Conversations \X Signer /\ packages \subseteq packages'
    BY <1>11, <1>o, <1>t DEF ResendPackage
  <2>2. SavedInv'
    BY <1>11, <1>s DEF ResendPackage, SavedInv, ghosts
  <2> QED BY <1>11, <1>g, <1>t, <2>1, <2>2 DEF ResendPackage, ghosts
<1>12. ASSUME NEW c \in Conversations, NEW s \in Signer, CreatorAdmits(c, s) PROVE TypeInv'
  <2>1. SavedInv'
    BY <1>12, <1>s DEF CreatorAdmits, SavedInv, ghosts
  <2> QED BY <1>12, <1>g, <1>t, <2>1 DEF CreatorAdmits, ghosts
<1>13. ASSUME NEW c \in Conversations, RecvWelcome(c) PROVE TypeInv'
  <2>1. held[c] \in Session /\ <<c, held[c].signer>> \in welcomed
        /\ held' = [held EXCEPT ![c] = [held[c] EXCEPT !.joined = TRUE]]
    BY <1>13, <1>o, <1>t DEF RecvWelcome
  <2>2. PICK h \in Session : h.signer = held[c].signer /\ held' = [held EXCEPT ![c] = h]
    BY <2>1 DEF Session
  <2>f. held' \in [Conversations -> Session \cup {None}]
        /\ \A d \in Conversations : held'[d] = IF d = c THEN h ELSE held[d]
    BY <1>t, <2>2
  <2>3. ASSUME NEW d \in Conversations
        PROVE  /\ held[d] # None => held'[d] # None
               /\ held'[d] # None /\ held'[d].joined => <<d, held'[d].signer>> \in welcomed
    BY <1>s, <2>1, <2>2, <2>f DEF SavedInv
  <2>4. UNCHANGED <<org, disk, roster, native, busy, closing, packages, welcomed, drawn,
                    faults, accepted, renounced, durable, shut>>
    BY <1>13 DEF RecvWelcome, wire, ghosts
  <2>5. SavedInv'
    BY <1>s, <1>t, <2>3, <2>4 DEF SavedInv
  <2> QED BY <1>g, <1>t, <2>f, <2>4, <2>5
<1>14. ASSUME NEW c \in Conversations, SaveNative(c) PROVE TypeInv'
  <2>1. held[c] # None /\ held[c].signer \in Signer /\ <<c, held[c].signer>> \in welcomed
    BY <1>14, <1>o, <1>s DEF SaveNative, SavedInv
  <2>2. native' \in [Conversations -> Signer \cup {None}]
        /\ \A d \in Conversations : native'[d] = IF d = c THEN held[c].signer ELSE native[d]
    BY <1>14, <1>t, <2>1 DEF SaveNative
  <2>3. disk' \in Record \cup {None} /\ (disk' # None => Disjoint(disk'))
    <3>1. CASE disk = None
      BY <1>14, <3>1 DEF SaveNative
    <3>2. CASE disk # None
      <4>1. disk \in Record /\ Disjoint(disk) /\ disk' = Retire(disk, native')
        BY <1>14, <1>t, <3>2 DEF SaveNative
      <4>2. PICK n : n = native'
        OBVIOUS
      <4>3. Retire(disk, n) \in Record /\ Disjoint(Retire(disk, n))
        BY <4>1, RetireFields DEF Disjoint, Pending
      <4> QED BY <4>1, <4>2, <4>3
    <3> QED BY <3>1, <3>2
  <2>4. UNCHANGED <<org, roster, held, busy, closing, packages, welcomed, drawn, faults,
                    accepted, renounced, shut>>
        /\ durable' = durable \cup {<<c, held[c].signer>>}
    BY <1>14 DEF SaveNative, wire
  <2>5. SavedInv'
    BY <1>s, <2>1, <2>2, <2>4 DEF SavedInv
  <2> QED BY <1>g, <1>t, <2>1, <2>2, <2>3, <2>4, <2>5
<1>15. ASSUME NEW c \in Conversations, CloseConversation(c) PROVE TypeInv'
  <2>1. held' \in [Conversations -> Session \cup {None}]
        /\ native' \in [Conversations -> Signer \cup {None}]
        /\ \A d \in Conversations : held'[d] \in {held[d], None} /\ native'[d] \in {native[d], None}
    BY <1>15, <1>t DEF CloseConversation
  <2>2. faults' \in [Faults -> Nat]
    BY <1>15, <1>f, <1>t, HappensType DEF CloseConversation
  <2>3. UNCHANGED <<org, disk, roster, busy, closing, packages, welcomed, drawn, accepted,
                    renounced, durable>> /\ shut' = shut \cup {c} /\ busy = None
    BY <1>15 DEF CloseConversation, wire, Free
  <2>4. SavedInv'
    BY <1>s, <2>1, <2>3 DEF SavedInv
  <2> QED BY <1>g, <1>t, <2>1, <2>2, <2>3, <2>4
<1>16. CASE Crash
  <2>1. /\ held' \in [Conversations -> Session \cup {None}]
        /\ \A c \in Conversations : held'[c] # None =>
              native[c] # None /\ held'[c] = [signer |-> native[c], joined |-> TRUE]
    BY <1>16, <1>t DEF Crash, Session
  <2>2. faults' \in [Faults -> Nat]
    BY <1>16, <1>f, <1>t, HappensType DEF Crash
  <2>3. UNCHANGED <<disk, roster, native, packages, welcomed, drawn, accepted, renounced, durable>>
        /\ busy' = None /\ closing' = FALSE /\ shut' = {}
    BY <1>16 DEF Crash, wire
  <2>4. org' \in OrgSession \cup {None} /\ (org' # None => Disjoint(org'))
    BY <1>16, <1>t, BuildFields DEF Crash
  <2>5. \A c \in Conversations : held'[c] # None => <<c, held'[c].signer>> \in welcomed
    BY <1>s, <2>1 DEF SavedInv
  <2>6. SavedInv'
    BY <1>s, <2>3, <2>5 DEF SavedInv
  <2> QED BY <1>g, <1>t, <2>1, <2>2, <2>3, <2>4, <2>6
<1>17. CASE UNCHANGED vars
  <2>1. SavedInv'
    BY <1>17, <1>s DEF vars, SavedInv
  <2> QED BY <1>17, <1>g, <1>t, <2>1 DEF vars
<1> QED BY <1>1, <1>2, <1>3, <1>4, <1>5, <1>6, <1>7, <1>8, <1>9, <1>10, <1>11, <1>12,
           <1>13, <1>14, <1>15, <1>16, <1>17 DEF Next

LEMMA TypeInit == Init => TypeInv
<1> SUFFICES ASSUME Init PROVE TypeInv
  OBVIOUS
<1>1. held \in [Conversations -> Session \cup {None}]
      /\ native \in [Conversations -> Signer \cup {None}]
      /\ \A c \in Conversations : held[c] = None /\ native[c] = None
  BY DEF Init
<1>2. drawn \in [Offer -> 0 .. Signers] /\ accepted \in [Offer -> Signer \cup {None}]
  BY Constants DEF Init
<1> QED BY <1>1, <1>2, Constants DEF Init, TypeInv, TypeOK, SavedInv

(* Every variable keeps its type, only what was let in is saved as joined,  *)
(* and no record, in memory or on disk, ever holds an offer as both pending *)
(* and resolved.                                                            *)
THEOREM TypeCorrect == Spec => []TypeOK
<1>1. Spec => []TypeInv
  BY TypeInit, TypeNext, PTL DEF Spec
<1>2. TypeInv => TypeOK
  BY DEF TypeInv
<1> QED BY <1>1, <1>2, PTL

(***************************************************************************)
(* Offers                                                                  *)
(***************************************************************************)

Durable(o, s) == <<Conv[o], s>> \in durable

(* The signers drawn for an offer so far. *)
Own(o) == {o} \X (1 .. drawn[o])

(* How memory may lag behind the disk.  It never runs ahead: what it holds  *)
(* as resolved or pending is so on disk, or resolved there by now; and what *)
(* the disk has resolved or pending without it was seen in this session.    *)
Sync(o) ==
    org # None =>
      /\ disk # None
      /\ o \in org.resolved => o \in disk.resolved
      /\ o \in disk.resolved => o \in org.resolved \/ o \in org.seen
      /\ o \in org.shown => o \in org.seen
      /\ org.pending[o] # None =>
            /\ o \in org.seen
            /\ disk.pending[o] = org.pending[o] \/ o \in disk.resolved
      /\ disk.pending[o] # None /\ org.pending[o] = None => o \in org.shown

Drawn(o) ==
    /\ org # None => org.pending[o] \in Own(o) \cup {None}
    /\ disk # None => disk.pending[o] \in Own(o) \cup {None}

(* An acceptance reported as saved is on disk and, while the org runs, in   *)
(* memory, until its conversation was durable.                              *)
Known(o) ==
    o \notin renounced /\ accepted[o] # None =>
      /\ disk # None
      /\ disk.pending[o] = accepted[o] \/ Durable(o, accepted[o])
      /\ org # None => org.pending[o] = accepted[o] \/ Durable(o, accepted[o])

(* The disk retires an acceptance in the transaction that makes it durable; *)
(* an offer that is shown although it is resolved on disk was given up, or  *)
(* can only be accepted with the keys that are durable already.             *)
Lag(o) ==
    /\ disk # None => ~Durable(o, disk.pending[o])
    /\ org # None /\ o \in org.shown /\ o \in disk.resolved /\ o \notin renounced
         => org.pending[o] # None /\ Durable(o, org.pending[o])

Offered(o) ==
    o \in org.shown \/ Durable(o, org.pending[o]) \/ Conv[o] \in shut

Retry(o) ==
    org # None /\ org.pending[o] # None =>
      /\ Offered(o) \/ held[Conv[o]] # None
      /\ busy # None /\ o # busy /\ Conv[o] = Conv[busy] => Offered(o)
      /\ o = busy => o \notin disk.resolved

OfferInv(o) == Sync(o) /\ Drawn(o) /\ Known(o) /\ Lag(o) /\ Retry(o)

(* A signer that a session uses or a package carries was drawn for an offer *)
(* of that conversation, and its acceptance is the one that was reported.   *)
Backed(c, s) ==
    \E o \in Offer : /\ Conv[o] = c /\ s \in Own(o)
                     /\ o \in renounced \/ accepted[o] = s \/ <<c, s>> \in durable

BackedInv ==
    /\ \A c \in Conversations : held[c] # None => Backed(c, held[c].signer)
    /\ \A p \in packages : Backed(p[1], p[2])

OrgInv == TypeInv /\ BackedInv /\ \A o \in Offer : OfferInv(o)

(* A write from memory changes nothing on disk for an offer that memory     *)
(* does not change: there is nothing left to retire.                        *)
LEMMA WriteKeeps ==
  ASSUME OrgInv, NEW r \in Record, NEW o \in Offer, disk # None,
         (org # None /\ r.pending[o] = org.pending[o]) \/ r.pending[o] = None,
         o \in r.resolved => o \in disk.resolved
  PROVE  /\ Reconciled(r).pending[o] = disk.pending[o]
         /\ o \in Reconciled(r).resolved <=> o \in disk.resolved
<1>1. disk \in Record /\ Disjoint(disk) /\ Stored = disk
  BY TypeFacts DEF OrgInv, Stored
<1>2. disk.pending[o] # None => native[Conv[o]] # disk.pending[o]
  BY Constants DEF OrgInv, OfferInv, Lag, Durable, TypeInv, SavedInv
<1>3. Merged(r)[o] = IF r.pending[o] # None THEN r.pending[o] ELSE disk.pending[o]
  BY <1>1 DEF Merged
<1>4. o \in disk.resolved => disk.pending[o] = None
  BY <1>1 DEF Disjoint, Pending
<1>5. r.pending[o] # None => disk.pending[o] = r.pending[o] \/ o \in disk.resolved
  BY DEF OrgInv, OfferInv, Sync
<1>6. /\ o \in Reconciled(r).resolved <=>
            \/ o \in r.resolved \cup disk.resolved
            \/ Merged(r)[o] # None /\ native[Conv[o]] = Merged(r)[o]
      /\ Reconciled(r).pending[o] = IF o \in Reconciled(r).resolved THEN None ELSE Merged(r)[o]
  BY <1>1, ReconciledFields
<1> QED BY <1>2, <1>3, <1>4, <1>5, <1>6

(* Backing grows: a later acceptance replaces only one that is durable.     *)
LEMMA BackedGrows ==
  ASSUME NEW c, NEW s \in Signer, Backed(c, s), drawn \in [Offer -> Nat], drawn' \in [Offer -> Nat],
         \A o \in Offer : drawn[o] <= drawn'[o],
         renounced \subseteq renounced', durable \subseteq durable',
         \A o \in Offer : accepted[o] = s =>
            accepted'[o] = s \/ o \in renounced' \/ <<Conv[o], s>> \in durable'
  PROVE  Backed(c, s)'
<1>1. PICK o \in Offer : /\ Conv[o] = c /\ s \in Own(o)
                         /\ o \in renounced \/ accepted[o] = s \/ <<c, s>> \in durable
  BY DEF Backed
<1>2. s \in Own(o)'
  BY <1>1 DEF Own
<1> QED BY <1>1, <1>2 DEF Backed

(* A signer that was not drawn yet is not durable. *)
LEMMA FreshNotDurable ==
  ASSUME OrgInv, NEW o \in Offer
  PROVE  ~Durable(o, <<o, drawn[o] + 1>>)
<1> SUFFICES ASSUME Durable(o, <<o, drawn[o] + 1>>) PROVE FALSE
  OBVIOUS
<1>1. drawn[o] \in Nat
  BY TypeFacts, Constants DEF OrgInv
<1>2. <<Conv[o], <<o, drawn[o] + 1>>>> \in packages
  BY TypeFacts DEF OrgInv, Durable
<1>3. Backed(Conv[o], <<o, drawn[o] + 1>>)
  BY <1>2 DEF OrgInv, BackedInv
<1>4. PICK x \in Offer : <<o, drawn[o] + 1>> \in Own(x)
  BY <1>3 DEF Backed
<1>5. x = o /\ drawn[o] + 1 \in 1 .. drawn[o]
  BY <1>4 DEF Own
<1> QED BY <1>1, <1>5

(* What accepting offer x with signer s does, pointwise. *)
Accepts(x, s, saved) ==
    /\ org # None /\ org' # None /\ disk # None /\ disk' # None
    /\ x \in org.shown /\ held[Conv[x]] = None /\ busy = None
    /\ s \in Own(x)' /\ \A o \in Offer : drawn[o] <= drawn'[o]
    /\ org.pending[x] # None => s = org.pending[x]
    /\ org.pending[x] = None => ~Durable(x, s)
    /\ \A o \in Offer : o \in disk'.resolved <=> o \in disk.resolved
    /\ \A o \in Offer \ {x} : disk'.pending[o] = disk.pending[o]
    /\ saved => /\ disk'.pending[x] = IF x \in disk.resolved THEN None ELSE s
                /\ \A o \in Offer : /\ org'.pending[o] = disk'.pending[o]
                                    /\ o \in org'.shown <=>
                                          o \in org.shown /\ o \notin disk.resolved /\ o # x
                                    /\ o \in org'.resolved <=> o \in disk.resolved
                                    /\ accepted'[o] = IF o = x THEN s ELSE accepted[o]
                /\ org'.seen = org.seen
                /\ held'[Conv[x]] # None /\ held'[Conv[x]].signer = s
                /\ \A c \in Conversations \ {Conv[x]} : held'[c] = held[c]
                /\ busy' = x
    /\ ~saved => /\ disk'.pending[x] \in {disk.pending[x], IF x \in disk.resolved THEN None ELSE s}
                 /\ UNCHANGED <<org, held, accepted, busy>>
    /\ UNCHANGED <<roster, native, closing, packages, welcomed, renounced, durable, shut>>

LEMMA AcceptEffect ==
  ASSUME OrgInv, NEW x \in Offer, NEW outcome \in Outcomes, AcceptOffer(x, outcome)
  PROVE  \E s \in Signer : Accepts(x, s, outcome = "saved")
<1> DEFINE fresh == OfferRecovery(x) = None
           s == IF fresh THEN <<x, drawn[x] + 1>> ELSE OfferRecovery(x)
           r == [pending |-> [org.pending EXCEPT ![x] = s], resolved |-> org.resolved]
<1> USE Constants
<1>t. /\ TypeInv /\ TypeInv' /\ OfferInv(x)
  BY TypeNext DEF OrgInv, Next
<1>0. /\ org \in OrgSession /\ org # None /\ disk \in Record /\ disk # None
      /\ Disjoint(disk) /\ drawn \in [Offer -> 0 .. Signers]
      /\ faults \in [Faults -> Nat] /\ held \in [Conversations -> Session \cup {None}]
      /\ accepted \in [Offer -> Signer \cup {None}] /\ drawn' \in [Offer -> 0 .. Signers]
  BY <1>t, TypeFacts DEF AcceptOffer, Peek, OfferInv, Sync, TypeInv, TypeOK
<1>1. /\ x \in org.shown /\ held[Conv[x]] = None /\ busy = None
      /\ fresh => drawn[x] < Signers
      /\ drawn' = [drawn EXCEPT ![x] = IF fresh THEN @ + 1 ELSE @]
      /\ Write(outcome, r)
      /\ IF outcome = "saved"
         THEN /\ org' = Committed(x)
              /\ held' = [held EXCEPT ![Conv[x]] = [signer |-> s, joined |-> FALSE]]
              /\ accepted' = [accepted EXCEPT ![x] = s]
              /\ busy' = x
         ELSE UNCHANGED <<org, held, accepted, busy>>
      /\ UNCHANGED <<roster, native, closing, wire, renounced, durable, shut>>
  BY DEF AcceptOffer, Peek, Free
<1>2. fresh <=> org.pending[x] = None
  BY DEF OfferRecovery
<1>3. \A o \in Offer : drawn'[o] = IF o = x /\ fresh THEN drawn[o] + 1 ELSE drawn[o]
  <2> HIDE DEF fresh
  <2> QED BY <1>0, <1>1
<1>4. \A o \in Offer : drawn[o] <= drawn'[o]
  BY <1>0, <1>3
<1>5. s \in Own(x)' /\ s \in Signer
  <2>1. CASE fresh
    BY <1>0, <1>1, <1>3, <2>1 DEF Own, Signer
  <2>2. CASE ~fresh
    <3>1. s = org.pending[x] /\ s \in Own(x)
      BY <1>t, <1>0, <1>2, <2>2 DEF OfferInv, Drawn, OfferRecovery
    <3>2. s \in Signer
      BY <1>0, <1>2, <2>2, <3>1, SessionFields
    <3> QED BY <1>0, <1>4, <3>1, <3>2 DEF Own
  <2> QED BY <2>1, <2>2
<1>6. /\ org.pending[x] # None => s = org.pending[x]
      /\ org.pending[x] = None => ~Durable(x, s)
  BY <1>2, FreshNotDurable DEF OfferRecovery
<1>7. /\ r \in Record /\ r.resolved = org.resolved
      /\ r.pending[x] = s /\ \A o \in Offer \ {x} : r.pending[o] = org.pending[o]
  BY <1>0, <1>5, SessionFields DEF Record, Acceptances
<1> HIDE DEF r, s, fresh
<1>8. /\ disk' = IF outcome = "refused" THEN disk ELSE Reconciled(r)
      /\ disk' \in Record /\ disk' # None /\ Disjoint(disk')
  BY <1>0, <1>1, <1>7, WriteType
<1>9. \A o \in Offer \ {x} : /\ Reconciled(r).pending[o] = disk.pending[o]
                             /\ o \in Reconciled(r).resolved <=> o \in disk.resolved
  BY <1>0, <1>7, WriteKeeps DEF OrgInv, OfferInv, Sync
<1>10. /\ x \in Reconciled(r).resolved <=> x \in disk.resolved
       /\ Reconciled(r).pending[x] = IF x \in disk.resolved THEN None ELSE s
  <2>1. Stored = disk /\ Merged(r)[x] = s
    BY <1>0, <1>5, <1>7 DEF Stored, Merged
  <2>2. x \in r.resolved => x \in disk.resolved
    BY <1>t, <1>0, <1>7 DEF OfferInv, Sync
  <2>3. x \notin disk.resolved => native[Conv[x]] # s
    <3>1. native[Conv[x]] = s => Durable(x, s)
      BY <1>t, <1>5 DEF TypeInv, SavedInv, Durable
    <3>2. x \notin disk.resolved /\ org.pending[x] # None => ~Durable(x, s)
      BY <1>t, <1>0, <1>6 DEF OfferInv, Sync, Lag
    <3> QED BY <1>6, <3>1, <3>2
  <2>4. /\ x \in Reconciled(r).resolved <=>
              \/ x \in r.resolved \cup disk.resolved
              \/ s # None /\ native[Conv[x]] = s
        /\ Reconciled(r).pending[x] = IF x \in Reconciled(r).resolved THEN None ELSE s
    BY <1>0, <1>7, <2>1, ReconciledFields
  <2> QED BY <1>5, <2>2, <2>3, <2>4
<1>11. /\ \A o \in Offer : o \in disk'.resolved <=> o \in disk.resolved
       /\ \A o \in Offer \ {x} : disk'.pending[o] = disk.pending[o]
       /\ disk'.pending[x] \in {disk.pending[x], IF x \in disk.resolved THEN None ELSE s}
       /\ outcome = "saved" => disk'.pending[x] = IF x \in disk.resolved THEN None ELSE s
  BY <1>8, <1>9, <1>10
<1>12. outcome = "saved" =>
         /\ org' \in OrgSession /\ org' # None
         /\ \A o \in Offer : /\ org'.pending[o] = disk'.pending[o]
                             /\ o \in org'.shown <=>
                                   o \in org.shown /\ o \notin disk.resolved /\ o # x
                             /\ o \in org'.resolved <=> o \in disk.resolved
         /\ org'.seen = org.seen
  <2>1. Disjoint(disk)'
    BY <1>8 DEF Disjoint, Pending
  <2> QED BY <1>0, <1>1, <1>8, <1>11, <2>1, CommittedFields
<1>13. outcome = "saved" =>
         /\ \A o \in Offer : accepted'[o] = IF o = x THEN s ELSE accepted[o]
         /\ held'[Conv[x]] # None /\ held'[Conv[x]].signer = s
         /\ \A c \in Conversations \ {Conv[x]} : held'[c] = held[c]
         /\ busy' = x
  <2>1. PICK h \in Session : h.signer = s /\ h = [signer |-> s, joined |-> FALSE]
    BY <1>5 DEF Session
  <2>2. h # None
    OBVIOUS
  <2> QED BY <1>0, <1>1, <2>1, <2>2
<1> QED
  <2>1. Accepts(x, s, outcome = "saved")
    BY <1>0, <1>1, <1>4, <1>5, <1>6, <1>8, <1>11, <1>12, <1>13 DEF Accepts, wire
  <2> QED BY <1>5, <2>1

LEMMA AcceptOfferInv ==
  ASSUME OrgInv, NEW x \in Offer, NEW outcome \in Outcomes, AcceptOffer(x, outcome),
         NEW o \in Offer
  PROVE  OfferInv(o)'
<1> USE Constants
<1>t. /\ TypeInv /\ OfferInv(o) /\ OfferInv(x) /\ (disk # None => Disjoint(disk))
      /\ drawn \in [Offer -> 0 .. Signers] /\ drawn' \in [Offer -> 0 .. Signers]
  BY TypeFacts, TypeNext DEF OrgInv, Next, TypeInv, TypeOK
<1>1. PICK s \in Signer : Accepts(x, s, outcome = "saved")
  BY AcceptEffect
<1>d. /\ o \in disk.resolved => disk.pending[o] = None
      /\ s # None /\ org # None /\ org' # None /\ disk # None /\ disk' # None
      /\ durable' = durable /\ renounced' = renounced /\ shut' = shut
  BY <1>t, <1>1 DEF Disjoint, Pending, Accepts
<1>e. /\ x \in org.shown /\ held[Conv[x]] = None /\ busy = None
      /\ s \in Own(x)' /\ \A y \in Offer : drawn[y] <= drawn'[y]
      /\ org.pending[x] # None => s = org.pending[x]
      /\ org.pending[x] = None => ~Durable(x, s)
      /\ o \in disk'.resolved <=> o \in disk.resolved
      /\ o # x => disk'.pending[o] = disk.pending[o]
      /\ o = x => disk'.pending[o] \in {disk.pending[o], IF o \in disk.resolved THEN None ELSE s}
  BY <1>1 DEF Accepts
<1>s. outcome = "saved" =>
        /\ o = x => disk'.pending[o] = IF o \in disk.resolved THEN None ELSE s
        /\ org'.pending[o] = disk'.pending[o]
        /\ o \in org'.shown <=> o \in org.shown /\ o \notin disk.resolved /\ o # x
        /\ o \in org'.resolved <=> o \in disk.resolved
        /\ accepted'[o] = IF o = x THEN s ELSE accepted[o]
        /\ org'.seen = org.seen
        /\ held'[Conv[x]] # None
        /\ \A c \in Conversations \ {Conv[x]} : held'[c] = held[c]
        /\ busy' = x
  BY <1>1 DEF Accepts
<1>n. outcome # "saved" => UNCHANGED <<org, held, accepted, busy>>
  BY <1>1 DEF Accepts
<1>2. Sync(o)'
  BY <1>t, <1>d, <1>e, <1>s, <1>n DEF OfferInv, Sync
<1>3. Drawn(o)'
  <2>1. Own(o) \subseteq Own(o)'
    BY <1>t, <1>e DEF Own
  <2> QED BY <1>t, <1>d, <1>e, <1>s, <1>n, <2>1 DEF OfferInv, Drawn
<1>4. Lag(o)'
  BY <1>t, <1>d, <1>e, <1>s, <1>n DEF OfferInv, Lag, Sync, Durable
<1>5. Known(o)'
  BY <1>t, <1>d, <1>e, <1>s, <1>n DEF OfferInv, Known, Lag, Sync, Durable
<1>6. Retry(o)'
  BY <1>t, <1>d, <1>e, <1>s, <1>n DEF OfferInv, Retry, Sync, Offered, Durable
<1> QED BY <1>2, <1>3, <1>4, <1>5, <1>6 DEF OfferInv

(* An offer for which the disk stays as it is and memory catches up. *)
LEMMA RefreshKeeps ==
  ASSUME OrgInv, NEW o \in Offer, org # None, org' # None, disk' # None,
         disk'.pending[o] = disk.pending[o], o \in disk'.resolved <=> o \in disk.resolved,
         org'.pending[o] = IF o \in disk.resolved THEN None ELSE org.pending[o],
         o \in org'.shown <=> o \in org.shown /\ o \notin disk.resolved,
         o \in org'.resolved <=> o \in disk.resolved, org'.seen = org.seen,
         busy = None, UNCHANGED <<held, busy, drawn, accepted, renounced, durable, shut>>
  PROVE  OfferInv(o)'
<1>t. OfferInv(o) /\ disk # None /\ (o \in disk.resolved => disk.pending[o] = None)
  BY TypeFacts DEF OrgInv, OfferInv, Sync, Disjoint, Pending
<1>2. Sync(o)'
  BY <1>t DEF OfferInv, Sync
<1>3. Drawn(o)'
  <2>1. Own(o)' = Own(o)
    BY DEF Own
  <2> QED BY <1>t, <2>1 DEF OfferInv, Drawn
<1>4. Lag(o)'
  BY <1>t DEF OfferInv, Lag, Durable
<1>5. Known(o)'
  BY <1>t DEF OfferInv, Known, Durable
<1>6. Retry(o)'
  BY <1>t DEF OfferInv, Retry, Sync, Offered, Durable
<1> QED BY <1>2, <1>3, <1>4, <1>5, <1>6 DEF OfferInv

(* An offer for which neither the disk nor memory changes. *)
LEMMA QuietKeeps ==
  ASSUME OrgInv, NEW o \in Offer, org # None <=> org' # None,
         org # None => /\ org'.pending = org.pending /\ org'.resolved = org.resolved
                       /\ org'.shown = org.shown /\ org'.seen = org.seen,
         disk # None <=> disk' # None,
         disk # None => /\ disk'.pending[o] = disk.pending[o]
                        /\ o \in disk'.resolved <=> o \in disk.resolved,
         held[Conv[o]] # None => held'[Conv[o]] # None \/ Conv[o] \in shut',
         UNCHANGED <<busy, drawn, accepted, durable>>,
         renounced \subseteq renounced', shut \subseteq shut'
  PROVE  OfferInv(o)'
<1>t. OfferInv(o)
  BY DEF OrgInv
<1>2. Sync(o)'
  BY <1>t DEF OfferInv, Sync
<1>3. Drawn(o)'
  <2>1. Own(o)' = Own(o)
    BY DEF Own
  <2> QED BY <1>t, <2>1 DEF OfferInv, Drawn
<1>4. Lag(o)'
  BY <1>t DEF OfferInv, Lag, Durable, Sync
<1>5. Known(o)'
  BY <1>t DEF OfferInv, Known, Durable
<1>6. Retry(o)'
  BY <1>t DEF OfferInv, Retry, Sync, Offered, Durable
<1> QED BY <1>2, <1>3, <1>4, <1>5, <1>6 DEF OfferInv

(* What catching up does, pointwise. *)
LEMMA PruneEffect ==
  ASSUME org \in OrgSession, NEW d \in Record, \A o \in Offer : o \in org.resolved => o \in d.resolved
  PROVE  LET s == Prune([org EXCEPT !.resolved = @ \cup d.resolved]) IN
         /\ s \in OrgSession /\ s.seen = org.seen
         /\ \A o \in Offer :
               /\ s.pending[o] = IF o \in d.resolved THEN None ELSE org.pending[o]
               /\ o \in s.shown <=> o \in org.shown /\ o \notin d.resolved
               /\ o \in s.resolved <=> o \in d.resolved
<1> DEFINE u == [org EXCEPT !.resolved = @ \cup d.resolved]
<1>1. /\ u \in OrgSession /\ u.resolved = org.resolved \cup d.resolved /\ u.seen = org.seen
      /\ u.pending = org.pending /\ u.shown = org.shown
  BY RecordFields DEF OrgSession
<1> HIDE DEF u
<1>2. /\ Prune(u) \in OrgSession /\ Prune(u).resolved = u.resolved /\ Prune(u).seen = u.seen
      /\ Prune(u).shown = u.shown \ u.resolved
      /\ \A o \in Offer : Prune(u).pending[o] = IF o \in u.resolved THEN None ELSE u.pending[o]
  BY <1>1, PruneFields
<1>3. /\ Prune(u) \in OrgSession /\ Prune(u).seen = org.seen
      /\ \A o \in Offer :
            /\ Prune(u).pending[o] = IF o \in d.resolved THEN None ELSE org.pending[o]
            /\ o \in Prune(u).shown <=> o \in org.shown /\ o \notin d.resolved
            /\ o \in Prune(u).resolved <=> o \in d.resolved
  BY <1>1, <1>2
<1> QED BY <1>3 DEF u

LEMMA PollInv ==
  ASSUME OrgInv, Poll, NEW o \in Offer
  PROVE  OfferInv(o)'
<1>1. org \in OrgSession /\ org # None /\ disk \in Record /\ disk # None /\ busy = None
  BY TypeFacts DEF OrgInv, Poll, Free
<1>2. \A x \in Offer : x \in org.resolved => x \in disk.resolved
  BY <1>1 DEF OrgInv, OfferInv, Sync
<1>3. /\ org' \in OrgSession /\ org'.seen = org.seen
      /\ org'.pending[o] = IF o \in disk.resolved THEN None ELSE org.pending[o]
      /\ o \in org'.shown <=> o \in org.shown /\ o \notin disk.resolved
      /\ o \in org'.resolved <=> o \in disk.resolved
  BY <1>1, <1>2, PruneEffect DEF Poll
<1>4. org' # None
  BY <1>3, Constants
<1> QED BY <1>1, <1>3, <1>4, RefreshKeeps DEF Poll, runtimes, ghosts

LEMMA WriteLinkInv ==
  ASSUME OrgInv, NEW outcome \in Outcomes, WriteLink(outcome), NEW o \in Offer
  PROVE  OfferInv(o)'
<1>0. /\ org \in OrgSession /\ org # None /\ disk \in Record /\ disk # None /\ busy = None
      /\ Disjoint(disk) /\ faults \in [Faults -> Nat]
  BY TypeFacts DEF OrgInv, WriteLink, Listed, Free, OfferInv, Sync
<1>1. /\ ToRecord(org) \in Record
      /\ ToRecord(org).pending = org.pending /\ ToRecord(org).resolved = org.resolved
  BY <1>0, SessionFields
<1>2. /\ disk' = IF outcome = "refused" THEN disk ELSE Reconciled(ToRecord(org))
      /\ disk' # None /\ disk' \in Record
  BY <1>0, <1>1, WriteType DEF WriteLink
<1>3. \A x \in Offer : /\ disk'.pending[x] = disk.pending[x]
                       /\ x \in disk'.resolved <=> x \in disk.resolved
  <2>1. PICK r \in Record : r = ToRecord(org)
    BY <1>1
  <2>2. ASSUME NEW x \in Offer
        PROVE  /\ Reconciled(r).pending[x] = disk.pending[x]
               /\ x \in Reconciled(r).resolved <=> x \in disk.resolved
    BY <1>0, <1>1, <2>1, WriteKeeps DEF OrgInv, OfferInv, Sync
  <2> QED BY <1>2, <2>1, <2>2
<1>4. CASE outcome = "saved"
  <2>1. \A x \in Offer : x \in org.resolved => x \in disk'.resolved
    BY <1>0, <1>3 DEF OrgInv, OfferInv, Sync
  <2>2. PICK d \in Record : d = disk'
    BY <1>2
  <2>3. /\ org' \in OrgSession /\ org'.seen = org.seen
        /\ org'.pending[o] = IF o \in d.resolved THEN None ELSE org.pending[o]
        /\ o \in org'.shown <=> o \in org.shown /\ o \notin d.resolved
        /\ o \in org'.resolved <=> o \in d.resolved
    BY <1>0, <1>4, <2>1, <2>2, PruneEffect DEF WriteLink
  <2>4. org' # None /\ (o \in d.resolved <=> o \in disk.resolved)
    BY <1>3, <2>2, <2>3, Constants
  <2> QED BY <1>0, <1>2, <1>3, <2>3, <2>4, RefreshKeeps DEF WriteLink, runtimes, ghosts
<1>5. CASE outcome # "saved"
  BY <1>0, <1>2, <1>3, <1>5, QuietKeeps DEF WriteLink, runtimes, ghosts
<1> QED BY <1>4, <1>5

LEMMA DismissInv ==
  ASSUME OrgInv, NEW x \in Offer, NEW outcome \in Outcomes, DismissOffer(x, outcome),
         NEW o \in Offer
  PROVE  OfferInv(o)'
<1> DEFINE r == [pending |-> [org.pending EXCEPT ![x] = None],
                 resolved |-> org.resolved \cup {x}]
<1>0. /\ org \in OrgSession /\ org # None /\ disk \in Record /\ disk # None /\ busy = None
      /\ Disjoint(disk) /\ faults \in [Faults -> Nat] /\ OfferInv(o) /\ OfferInv(x)
      /\ x \in org.shown /\ durable \subseteq Conversations \X Signer
  BY TypeFacts DEF OrgInv, DismissOffer, Free, OfferInv, Sync
<1>1. /\ r \in Record /\ r.resolved = org.resolved \cup {x}
      /\ r.pending[x] = None /\ \A y \in Offer \ {x} : r.pending[y] = org.pending[y]
  BY <1>0, SessionFields DEF Record, Acceptances
<1>2. Write(outcome, r)
  BY DEF DismissOffer
<1>c. /\ org' = IF outcome = "saved" THEN Committed(x) ELSE org
      /\ renounced' = renounced \cup {x}
      /\ UNCHANGED <<busy, held, drawn, accepted, durable, shut>>
  BY DEF DismissOffer, runtimes
<1> HIDE DEF r
<1>3. /\ disk' = IF outcome = "refused" THEN disk ELSE Reconciled(r)
      /\ disk' # None /\ disk' \in Record /\ Disjoint(disk')
  BY <1>0, <1>1, <1>2, WriteType
<1>4. \A y \in Offer \ {x} : /\ disk'.pending[y] = disk.pending[y]
                             /\ y \in disk'.resolved <=> y \in disk.resolved
  <2>1. ASSUME NEW y \in Offer \ {x}
        PROVE  /\ Reconciled(r).pending[y] = disk.pending[y]
               /\ y \in Reconciled(r).resolved <=> y \in disk.resolved
    <3>1. y \in r.resolved => y \in disk.resolved
      BY <1>0, <1>1 DEF OrgInv, OfferInv, Sync
    <3> QED BY <1>0, <1>1, <3>1, WriteKeeps
  <2> QED BY <1>3, <2>1
<1>5. outcome # "refused" => x \in disk'.resolved /\ disk'.pending[x] = None
  <2>1. x \in Reconciled(r).resolved /\ Reconciled(r).pending[x] = None
    BY <1>0, <1>1, ReconciledFields
  <2> QED BY <1>3, <2>1
<1>6. outcome = "saved" =>
        /\ org' # None /\ org'.seen = org.seen
        /\ \A y \in Offer : /\ org'.pending[y] = disk'.pending[y]
                            /\ y \in org'.resolved <=> y \in disk'.resolved
                            /\ y \in org'.shown <=>
                                  y \in org.shown /\ y \notin disk'.resolved /\ y # x
  <2>1. Disjoint(disk)'
    BY <1>3 DEF Disjoint, Pending
  <2> QED BY <1>0, <1>3, <1>c, <2>1, CommittedFields, Constants
<1>d. /\ o \in disk'.resolved => disk'.pending[o] = None
      /\ o \in disk.resolved => disk.pending[o] = None
      /\ ~Durable(o, None)
  BY <1>0, <1>3, Constants DEF Disjoint, Pending, Durable
<1>7. Sync(o)'
  BY <1>0, <1>3, <1>4, <1>5, <1>6, <1>c, <1>d DEF OfferInv, Sync
<1>8. Drawn(o)'
  <2>1. Own(o)' = Own(o)
    BY <1>c DEF Own
  <2> QED BY <1>0, <1>3, <1>4, <1>5, <1>6, <1>c, <2>1 DEF OfferInv, Drawn
<1>9. Lag(o)'
  BY <1>0, <1>3, <1>4, <1>5, <1>6, <1>c, <1>d DEF OfferInv, Lag, Durable
<1>10. Known(o)'
  BY <1>0, <1>3, <1>4, <1>6, <1>c DEF OfferInv, Known, Durable
<1>11. Retry(o)'
  BY <1>0, <1>3, <1>4, <1>5, <1>6, <1>c, <1>d, Constants
     DEF OfferInv, Retry, Sync, Offered, Durable
<1> QED BY <1>7, <1>8, <1>9, <1>10, <1>11 DEF OfferInv

(* A session built from the disk has caught up with it. *)
LEMMA BuiltInv ==
  ASSUME OrgInv, NEW o \in Offer, disk' # None,
         disk # None => /\ disk'.pending[o] = disk.pending[o]
                        /\ o \in disk'.resolved <=> o \in disk.resolved,
         disk = None => disk'.pending[o] = None /\ o \notin disk'.resolved,
         o \in disk'.resolved => disk'.pending[o] = None,
         org' # None => /\ org'.pending[o] = disk'.pending[o]
                        /\ o \in org'.resolved <=> o \in disk'.resolved
                        /\ o \in org'.shown <=> disk'.pending[o] # None
                        /\ o \in org'.seen <=> disk'.pending[o] # None,
         busy' = None, UNCHANGED <<drawn, accepted, renounced, durable>>
  PROVE  OfferInv(o)'
<1>t. OfferInv(o) /\ ~Durable(o, None) /\ o # None
  BY TypeFacts, Constants DEF OrgInv, Durable
<1>2. Sync(o)'
  BY DEF Sync
<1>3. Drawn(o)'
  <2>1. Own(o)' = Own(o)
    BY DEF Own
  <2> QED BY <1>t, <2>1 DEF OfferInv, Drawn
<1>4. Lag(o)'
  BY <1>t DEF OfferInv, Lag, Durable
<1>5. Known(o)'
  BY <1>t DEF OfferInv, Known, Durable
<1>6. Retry(o)'
  BY <1>t DEF Retry, Offered
<1> QED BY <1>2, <1>3, <1>4, <1>5, <1>6 DEF OfferInv

LEMMA JoinInv ==
  ASSUME OrgInv, NEW outcome \in Outcomes, JoinOrg(outcome), NEW o \in Offer
  PROVE  OfferInv(o)'
<1>0. /\ disk \in Record \cup {None} /\ busy = None /\ org = None /\ roster \in Versions
      /\ (disk # None => Disjoint(disk)) /\ faults \in [Faults -> Nat]
  BY TypeFacts DEF OrgInv, JoinOrg, Free
<1>1. NoOffers \in Record /\ NoOffers.resolved = {} /\ NoOffers.pending[o] = None
  BY NoOffersRecord
<1>2. /\ disk' = IF outcome = "refused" THEN disk ELSE Reconciled(NoOffers)
      /\ outcome # "refused" => disk' \in Record /\ disk' # None
      /\ disk' # None => Disjoint(disk')
      /\ Write(outcome, NoOffers)
  BY <1>0, <1>1, WriteType DEF JoinOrg
<1>3. CASE outcome = "refused"
  <2>1. UNCHANGED <<org, disk, busy, held, drawn, accepted, durable, renounced, shut>>
    BY <1>0, <1>2, <1>3 DEF JoinOrg, runtimes, ghosts
  <2> QED BY <2>1, QuietKeeps
<1>4. CASE outcome # "refused"
  <2>1. disk # None => /\ disk'.pending[o] = disk.pending[o]
                       /\ o \in disk'.resolved <=> o \in disk.resolved
    <3>1. PICK r \in Record : r = NoOffers
      BY <1>1
    <3>2. disk # None => /\ Reconciled(r).pending[o] = disk.pending[o]
                         /\ o \in Reconciled(r).resolved <=> o \in disk.resolved
      BY <1>1, <3>1, WriteKeeps
    <3> QED BY <1>2, <1>4, <3>1, <3>2
  <2>2. disk = None => disk'.pending[o] = None /\ o \notin disk'.resolved
    BY <1>0, <1>1, <1>2, <1>4, ReconciledFields DEF Merged, Stored
  <2>3. org' # None => /\ org'.pending[o] = disk'.pending[o]
                       /\ o \in org'.resolved <=> o \in disk'.resolved
                       /\ o \in org'.shown <=> disk'.pending[o] # None
                       /\ o \in org'.seen <=> disk'.pending[o] # None
    <3>1. PICK d \in Record : d = disk' /\ Disjoint(d)
      BY <1>2, <1>4
    <3>2. org' # None => org' = BuildSession(d, roster)
      BY <1>2, <1>4, <3>1 DEF JoinOrg
    <3> QED BY <1>0, <3>1, <3>2, BuildFields DEF Pending
  <2>4. o \in disk'.resolved => disk'.pending[o] = None
    BY <1>2, <1>4 DEF Disjoint, Pending
  <2>5. UNCHANGED <<busy, held, drawn, accepted, durable, renounced, shut>>
    BY DEF JoinOrg, runtimes, ghosts
  <2> QED BY <1>0, <1>2, <1>4, <2>1, <2>2, <2>3, <2>4, <2>5, BuiltInv
<1> QED BY <1>3, <1>4

LEMMA CrashInv ==
  ASSUME OrgInv, Crash, NEW o \in Offer
  PROVE  OfferInv(o)'
<1>0. /\ disk \in Record \cup {None} /\ roster \in Versions
      /\ (disk # None => Disjoint(disk)) /\ OfferInv(o)
  BY TypeFacts DEF OrgInv
<1>1. /\ UNCHANGED <<disk, drawn, accepted, durable, renounced>> /\ busy' = None
      /\ org' = IF disk = None THEN None ELSE BuildSession(disk, roster)
  BY DEF Crash
<1>2. CASE disk = None
  <2>1. Drawn(o)'
    BY <1>1, <1>2 DEF Drawn
  <2>2. Known(o)'
    BY <1>0, <1>1, <1>2 DEF Known, OfferInv
  <2> QED BY <1>1, <1>2, <2>1, <2>2 DEF OfferInv, Sync, Lag, Retry
<1>3. CASE disk # None
  <2>1. /\ org'.pending[o] = disk'.pending[o]
        /\ o \in org'.resolved <=> o \in disk'.resolved
        /\ o \in org'.shown <=> disk'.pending[o] # None
        /\ o \in org'.seen <=> disk'.pending[o] # None
    BY <1>0, <1>1, <1>3, BuildFields DEF Pending
  <2>2. o \in disk'.resolved => disk'.pending[o] = None
    BY <1>0, <1>1, <1>3 DEF Disjoint, Pending
  <2> QED BY <1>1, <1>3, <2>1, <2>2, BuiltInv
<1> QED BY <1>2, <1>3

LEMMA LeaveInv ==
  ASSUME OrgInv, NEW outcome \in Outcomes, LeaveOrg(outcome), NEW o \in Offer
  PROVE  OfferInv(o)'
<1>0. OfferInv(o)
  BY DEF OrgInv
<1>1. /\ org' = None /\ UNCHANGED <<busy, held, drawn, durable, shut>>
      /\ \/ UNCHANGED <<disk, renounced, accepted>>
         \/ disk' = None /\ renounced' = Offer
  BY DEF LeaveOrg, runtimes
<1>2. Own(o)' = Own(o)
  BY <1>1 DEF Own
<1>3. Drawn(o)' /\ Known(o)' /\ Lag(o)'
  BY <1>0, <1>1, <1>2 DEF OfferInv, Drawn, Known, Lag, Durable
<1> QED BY <1>1, <1>3 DEF OfferInv, Sync, Retry

(* Only what is shown and seen changes. *)
LEMMA ShownInv ==
  ASSUME OrgInv, NEW x \in Offer, NEW o \in Offer, ReceiveOffer(x) \/ PublishJoin(x)
  PROVE  OfferInv(o)'
<1> USE Constants
<1>0. OfferInv(o) /\ OfferInv(x)
  BY DEF OrgInv
<1>1. /\ org \in OrgSession /\ org # None /\ disk # None /\ disk \in Record /\ Disjoint(org)
      /\ held \in [Conversations -> Session \cup {None}]
  BY <1>0, TypeFacts
     DEF OrgInv, ReceiveOffer, Listed, PublishJoin, TypeInv, SavedInv, OfferInv, Sync
<1>2. UNCHANGED <<disk, drawn, accepted, durable, renounced, shut>>
  BY DEF ReceiveOffer, PublishJoin, runtimes, ghosts
<1>3. CASE ReceiveOffer(x)
  <2>1. /\ org' \in OrgSession /\ org'.pending = org.pending /\ org'.resolved = org.resolved
        /\ org'.seen = org.seen \cup {x} /\ org'.shown = org.shown \cup {x}
    BY <1>1, <1>3 DEF ReceiveOffer, OrgSession
  <2>2. /\ busy = None /\ busy' = None /\ held' = held /\ x \notin disk.resolved
        /\ o # None /\ org' # None
    BY <1>0, <1>1, <1>3, <2>1 DEF ReceiveOffer, Free, runtimes, OfferInv, Sync
  <2>3. Own(o)' = Own(o)
    BY <1>2 DEF Own
  <2>4. Sync(o)' /\ Drawn(o)'
    BY <1>0, <1>1, <1>2, <2>1, <2>2, <2>3 DEF OfferInv, Sync, Drawn
  <2>5. Lag(o)' /\ Known(o)'
    BY <1>0, <1>1, <1>2, <2>1, <2>2 DEF OfferInv, Lag, Known, Durable
  <2>6. Retry(o)'
    BY <1>0, <1>1, <1>2, <2>1, <2>2 DEF OfferInv, Retry, Offered, Durable
  <2> QED BY <2>4, <2>5, <2>6 DEF OfferInv
<1>4. CASE PublishJoin(x)
  <2>0. /\ busy = x /\ busy' = None /\ o # None
    BY <1>4 DEF PublishJoin
  <2>1. CASE org' = org /\ held' = held
    <3>1. Sync(o)' /\ Lag(o)' /\ Known(o)'
      BY <1>0, <1>2, <2>1 DEF OfferInv, Sync, Lag, Known, Durable
    <3>2. Drawn(o)'
      BY <1>0, <1>2, <2>1 DEF OfferInv, Drawn, Own
    <3>3. Retry(o)'
      BY <1>0, <1>2, <2>0, <2>1 DEF OfferInv, Retry, Offered, Durable
    <3> QED BY <3>1, <3>2, <3>3 DEF OfferInv
  <2>2. CASE held' = [held EXCEPT ![Conv[x]] = None] /\ org' = Reexpose(x)
    <3>1. /\ org' \in OrgSession /\ org'.pending = org.pending /\ org'.resolved = org.resolved
          /\ org'.seen = org.seen /\ org.shown \subseteq org'.shown
          /\ org'.shown \subseteq org.shown \cup {x}
          /\ org.pending[x] = None => org'.shown = org.shown
          /\ x \notin org.resolved /\ org.pending[x] # None => x \in org'.shown
      BY <1>1, <2>2 DEF Reexpose, OrgSession
    <3>2. org' # None /\ (org.pending[x] # None => x \notin org.resolved /\ x \notin disk.resolved
                                                    /\ x \in org.seen)
      BY <1>0, <1>1, <2>0, <3>1 DEF Disjoint, Pending, OfferInv, Retry, Sync
    <3>3. Conv[o] # Conv[x] => held'[Conv[o]] = held[Conv[o]]
      BY <1>1, <2>2
    <3>4. Sync(o)' /\ Lag(o)' /\ Known(o)'
      BY <1>0, <1>1, <1>2, <3>1, <3>2 DEF OfferInv, Sync, Lag, Known, Durable
    <3>5. Drawn(o)'
      BY <1>0, <1>2, <1>1, <3>1 DEF OfferInv, Drawn, Own
    <3>6. Retry(o)'
      BY <1>0, <1>1, <1>2, <2>0, <3>1, <3>2, <3>3 DEF OfferInv, Retry, Offered, Durable
    <3> QED BY <3>4, <3>5, <3>6 DEF OfferInv
  <2> QED BY <1>4, <2>1, <2>2 DEF PublishJoin
<1> QED BY <1>3, <1>4

(* Saving a joined session makes the acceptance durable and retires it. *)
LEMMA SaveInv ==
  ASSUME OrgInv, NEW c \in Conversations, SaveNative(c), NEW o \in Offer
  PROVE  OfferInv(o)'
<1> USE Constants
<1>0. /\ OfferInv(o) /\ disk \in Record \cup {None} /\ (disk # None => Disjoint(disk))
      /\ native \in [Conversations -> Signer \cup {None}]
      /\ held[c] # None /\ held[c].signer \in Signer /\ busy = None /\ o # None
  BY TypeFacts DEF OrgInv, SaveNative, Session, Free
<1>1. /\ UNCHANGED <<org, held, busy, drawn, accepted, renounced, shut>>
      /\ durable' = durable \cup {<<c, held[c].signer>>}
      /\ native'[Conv[o]] = IF Conv[o] = c THEN held[c].signer ELSE native[Conv[o]]
  BY <1>0 DEF SaveNative
<1>2. \A z : Durable(o, z)' <=> Durable(o, z) \/ (Conv[o] = c /\ z = held[c].signer)
  BY <1>1 DEF Durable
<1>3. /\ disk # None <=> disk' # None
      /\ disk # None =>
           IF disk.pending[o] # None /\ native'[Conv[o]] = disk.pending[o]
           THEN disk'.pending[o] = None /\ o \in disk'.resolved
           ELSE disk'.pending[o] = disk.pending[o] /\ (o \in disk'.resolved <=> o \in disk.resolved)
  <2>1. CASE disk = None
    BY <2>1 DEF SaveNative
  <2>2. CASE disk # None
    <3>1. PICK n : n = native'
      OBVIOUS
    <3>2. disk' = Retire(disk, n) /\ disk \in Record
      BY <1>0, <2>2, <3>1 DEF SaveNative
    <3>3. /\ Retire(disk, n) \in Record
          /\ o \in Retire(disk, n).resolved <=>
               \/ o \in disk.resolved
               \/ disk.pending[o] # None /\ n[Conv[o]] = disk.pending[o]
          /\ Retire(disk, n).pending[o] =
               IF disk.pending[o] # None /\ n[Conv[o]] = disk.pending[o] THEN None
               ELSE disk.pending[o]
      BY <3>2, RetireFields
    <3> QED BY <2>2, <3>1, <3>2, <3>3
  <2> QED BY <2>1, <2>2
<1>4. disk # None /\ disk.pending[o] # None /\ native'[Conv[o]] = disk.pending[o]
        => Conv[o] = c /\ disk.pending[o] = held[c].signer
  <2>1. native[Conv[o]] # None => Durable(o, native[Conv[o]])
    BY DEF OrgInv, TypeInv, SavedInv, Durable
  <2> QED BY <1>0, <1>1, <2>1 DEF OfferInv, Lag
(* The session that is saved is the one of the reported acceptance. *)
<1>5. disk # None /\ org # None /\ o \notin renounced /\ Conv[o] = c
        /\ disk.pending[o] = held[c].signer
        => org.pending[o] = disk.pending[o]
  <2> SUFFICES ASSUME disk # None, org # None, o \notin renounced, Conv[o] = c,
                      disk.pending[o] = held[c].signer
               PROVE  org.pending[o] = disk.pending[o]
    OBVIOUS
  <2>1. PICK x \in Offer : /\ Conv[x] = c /\ held[c].signer \in Own(x)
                           /\ \/ x \in renounced \/ accepted[x] = held[c].signer
                              \/ <<c, held[c].signer>> \in durable
    BY <1>0 DEF OrgInv, BackedInv, Backed
  <2>2. held[c].signer \in Own(o)
    BY <1>0 DEF OfferInv, Drawn
  <2>3. x = o
    BY <2>1, <2>2 DEF Own
  <2>4. ~Durable(o, held[c].signer)
    BY <1>0 DEF OfferInv, Lag
  <2> QED BY <1>0, <2>1, <2>3, <2>4 DEF OfferInv, Known, Durable
<1>d. disk # None /\ o \in disk.resolved => disk.pending[o] = None
  BY <1>0 DEF Disjoint, Pending
<1>6. Sync(o)'
  BY <1>0, <1>1, <1>3, <1>d DEF OfferInv, Sync
<1>7. Drawn(o)'
  <2>1. Own(o)' = Own(o)
    BY <1>1 DEF Own
  <2> QED BY <1>0, <1>1, <1>3, <2>1 DEF OfferInv, Drawn
<1>8. Lag(o)'
  <2>1. disk' # None => ~Durable(o, disk.pending[o])'
    <3>1. disk' # None => disk'.pending[o] = None \/ (disk'.pending[o] = disk.pending[o]
                            /\ (Conv[o] = c => disk.pending[o] # held[c].signer))
      BY <1>0, <1>1, <1>3
    <3> QED BY <1>0, <1>2, <1>3, <3>1, TypeFacts DEF OrgInv, OfferInv, Lag, Durable
  <2>2. org' # None /\ o \in org'.shown /\ o \in disk'.resolved /\ o \notin renounced'
          => org'.pending[o] # None /\ Durable(o, org.pending[o])'
    BY <1>0, <1>1, <1>2, <1>3, <1>4, <1>5 DEF OfferInv, Lag, Sync
  <2> QED BY <2>1, <2>2 DEF Lag
<1>9. Known(o)'
  BY <1>0, <1>1, <1>2, <1>3, <1>4 DEF OfferInv, Known
<1>10. Retry(o)'
  BY <1>0, <1>1, <1>2, <1>3 DEF OfferInv, Retry, Offered
<1> QED BY <1>6, <1>7, <1>8, <1>9, <1>10 DEF OfferInv

LEMMA OfferNext ==
  ASSUME OrgInv, Next, NEW o \in Offer
  PROVE  OfferInv(o)'
<1> USE Constants
<1>1. ASSUME NEW v \in Versions, AbsorbRoster(v) PROVE OfferInv(o)'
  <2>1. org \in OrgSession /\ org # None /\ org' = [org EXCEPT !.version = v]
    BY <1>1, TypeFacts DEF OrgInv, AbsorbRoster
  <2>2. /\ org'.pending = org.pending /\ org'.resolved = org.resolved
        /\ org'.shown = org.shown /\ org'.seen = org.seen /\ org' \in OrgSession
    BY <2>1 DEF OrgSession
  <2>3. UNCHANGED <<disk, held, busy, drawn, accepted, durable, renounced, shut>>
    BY <1>1 DEF AbsorbRoster, runtimes, ghosts
  <2> QED BY <2>1, <2>2, <2>3, QuietKeeps
<1>2. ASSUME NEW c \in Conversations, ResendPackage(c) PROVE OfferInv(o)'
  BY <1>2, QuietKeeps DEF ResendPackage, ghosts
<1>3. ASSUME NEW c \in Conversations, NEW s \in Signer, CreatorAdmits(c, s) PROVE OfferInv(o)'
  BY <1>3, QuietKeeps DEF CreatorAdmits, ghosts
<1>h. held \in [Conversations -> Session \cup {None}]
  BY TypeFacts DEF OrgInv
<1>4. ASSUME NEW c \in Conversations, RecvWelcome(c) PROVE OfferInv(o)'
  <2>1. PICK h \in Session : held' = [held EXCEPT ![c] = h]
    <3>1. held[c] \in Session
      BY <1>4, <1>h DEF RecvWelcome
    <3>2. [held[c] EXCEPT !.joined = TRUE] \in Session
      BY <3>1 DEF Session
    <3>3. held' = [held EXCEPT ![c] = [held[c] EXCEPT !.joined = TRUE]]
      BY <1>4, <1>h DEF RecvWelcome
    <3> QED BY <3>2, <3>3
  <2>2. held[Conv[o]] # None => held'[Conv[o]] # None
    BY <1>h, <2>1
  <2> QED BY <1>4, <2>2, QuietKeeps DEF RecvWelcome, ghosts
<1>5. ASSUME NEW c \in Conversations, CloseConversation(c) PROVE OfferInv(o)'
  <2>1. held'[Conv[o]] = held[Conv[o]] \/ Conv[o] \in shut'
    BY <1>5, <1>h DEF CloseConversation
  <2> QED BY <1>5, <2>1, QuietKeeps DEF CloseConversation
<1>6. CASE CloseOrgGroups
  <2>1. held'[Conv[o]] = held[Conv[o]] \/ Conv[o] \in shut'
    BY <1>6, <1>h DEF CloseOrgGroups
  <2>2. shut \subseteq shut'
    BY <1>6 DEF CloseOrgGroups
  <2> QED BY <1>6, <2>1, <2>2, QuietKeeps DEF CloseOrgGroups
<1> QED BY <1>1, <1>2, <1>3, <1>4, <1>5, <1>6, JoinInv, LeaveInv, WriteLinkInv, DismissInv,
           AcceptOfferInv, ShownInv, SaveInv, PollInv, CrashInv DEF Next

LEMMA BackedNext == OrgInv /\ Next => BackedInv'
<1> SUFFICES ASSUME OrgInv, Next PROVE BackedInv'
  OBVIOUS
<1> USE Constants
<1>t. /\ held \in [Conversations -> Session \cup {None}]
      /\ native \in [Conversations -> Signer \cup {None}]
      /\ packages \subseteq Conversations \X Signer /\ durable \subseteq packages
      /\ drawn \in [Offer -> Nat] /\ drawn' \in [Offer -> Nat]
      /\ accepted \in [Offer -> Signer \cup {None}]
      /\ TypeInv /\ SavedInv /\ BackedInv
  <2>1. TypeInv'
    BY TypeNext DEF OrgInv
  <2>2. drawn \in [Offer -> 0 .. Signers] /\ drawn' \in [Offer -> 0 .. Signers]
    BY <2>1, TypeFacts DEF OrgInv, TypeInv, TypeOK
  <2> QED BY <2>2, TypeFacts DEF OrgInv, TypeInv
<1>h. \A c \in Conversations : held[c] # None => held[c] \in Session /\ held[c].signer \in Signer
  BY <1>t DEF Session
(* Nothing is accepted anew; sessions and packages keep their signers. *)
<1>g. ASSUME drawn' = drawn, renounced \subseteq renounced', durable \subseteq durable',
             \A o \in Offer : accepted'[o] = accepted[o] \/ o \in renounced',
             \A c \in Conversations : held'[c] # None =>
                \/ held[c] # None /\ held'[c].signer = held[c].signer
                \/ native[c] # None /\ held'[c].signer = native[c],
             \A p \in packages' : p \in packages
                \/ \E c \in Conversations : held[c] # None /\ p = <<c, held[c].signer>>
      PROVE  BackedInv'
  <2>1. ASSUME NEW c, NEW s \in Signer, Backed(c, s) PROVE Backed(c, s)'
    BY <1>g, <1>t, <2>1, BackedGrows
  <2>2. \A c \in Conversations : held[c] # None => Backed(c, held[c].signer)
    BY <1>t DEF BackedInv
  <2>3. ASSUME NEW c \in Conversations, native[c] # None PROVE Backed(c, native[c])
    <3>1. PICK p \in packages : p = <<c, native[c]>>
      BY <1>t, <2>3 DEF SavedInv
    <3>2. Backed(p[1], p[2])
      BY <1>t DEF BackedInv
    <3> QED BY <3>1, <3>2
  <2>4. ASSUME NEW c \in Conversations, held'[c] # None PROVE Backed(c, held[c].signer)'
    <3>1. PICK s \in Signer : s = held'[c].signer /\ Backed(c, s)
      BY <1>g, <1>h, <1>t, <2>2, <2>3, <2>4
    <3>2. Backed(c, s)'
      BY <2>1, <3>1
    <3> QED BY <3>1, <3>2
  <2>5. ASSUME NEW p \in packages' PROVE Backed(p[1], p[2])'
    <3>1. p[2] \in Signer /\ Backed(p[1], p[2])
      <4>1. CASE p \in packages
        BY <1>t, <4>1 DEF BackedInv
      <4>2. CASE p \notin packages
        BY <1>g, <1>h, <2>2, <2>5, <4>2
      <4> QED BY <4>1, <4>2
    <3> QED BY <2>1, <3>1
  <2> QED BY <2>4, <2>5 DEF BackedInv
<1>1. ASSUME NEW x \in Offer, NEW outcome \in Outcomes, AcceptOffer(x, outcome) PROVE BackedInv'
  <2>1. PICK s \in Signer : Accepts(x, s, outcome = "saved")
    BY <1>1, AcceptEffect
  <2>2. /\ \A o \in Offer : drawn[o] <= drawn'[o]
        /\ s \in Own(x)' /\ (org.pending[x] # None => s = org.pending[x]) /\ org # None
        /\ UNCHANGED <<packages, renounced, durable>>
    BY <2>1 DEF Accepts
  <2>3. outcome = "saved" =>
          /\ \A o \in Offer : accepted'[o] = IF o = x THEN s ELSE accepted[o]
          /\ held'[Conv[x]] # None /\ held'[Conv[x]].signer = s
          /\ \A c \in Conversations \ {Conv[x]} : held'[c] = held[c]
    BY <2>1 DEF Accepts
  <2>4. outcome # "saved" => UNCHANGED <<held, accepted>>
    BY <2>1 DEF Accepts
  <2>5. accepted[x] # None => \/ x \in renounced \/ accepted[x] = s
                              \/ <<Conv[x], accepted[x]>> \in durable
    BY <2>2 DEF OrgInv, OfferInv, Known, Durable
  <2>6. ASSUME NEW c, NEW z \in Signer, Backed(c, z) PROVE Backed(c, z)'
    <3>1. \A o \in Offer : accepted[o] = z =>
             accepted'[o] = z \/ o \in renounced' \/ <<Conv[o], z>> \in durable'
      BY <2>2, <2>3, <2>4, <2>5
    <3> QED BY <1>t, <2>2, <2>6, <3>1, BackedGrows
  <2>7. ASSUME NEW c \in Conversations, held'[c] # None PROVE Backed(c, held[c].signer)'
    <3>1. CASE held'[c] = held[c]
      <4>1. PICK z \in Signer : z = held'[c].signer /\ Backed(c, z)
        BY <1>h, <1>t, <2>7, <3>1 DEF BackedInv
      <4>2. Backed(c, z)'
        BY <2>6, <4>1
      <4> QED BY <4>1, <4>2
    <3>2. CASE held'[c] # held[c]
      <4>1. outcome = "saved" /\ c = Conv[x] /\ held'[c].signer = s /\ accepted'[x] = s
        BY <2>3, <2>4, <3>2
      <4> QED BY <2>2, <4>1 DEF Backed
    <3> QED BY <3>1, <3>2
  <2>8. ASSUME NEW p \in packages' PROVE Backed(p[1], p[2])'
    BY <1>t, <2>2, <2>6, <2>8 DEF BackedInv
  <2> QED BY <2>7, <2>8 DEF BackedInv
<1>2. ASSUME NEW outcome \in Outcomes,
             \/ JoinOrg(outcome) \/ LeaveOrg(outcome) \/ WriteLink(outcome)
             \/ \E o \in Offer : DismissOffer(o, outcome)
      PROVE  BackedInv'
  <2>1. /\ UNCHANGED <<held, packages, drawn, durable>> /\ renounced \subseteq renounced'
        /\ \A o \in Offer : accepted'[o] = accepted[o] \/ o \in renounced'
    <3>1. renounced \subseteq Offer
      BY TypeFacts DEF OrgInv
    <3>2. CASE JoinOrg(outcome) \/ WriteLink(outcome)
      BY <3>2 DEF JoinOrg, WriteLink, runtimes, ghosts
    <3>3. CASE LeaveOrg(outcome)
      BY <3>1, <3>3 DEF LeaveOrg, runtimes
    <3>4. CASE \E o \in Offer : DismissOffer(o, outcome)
      BY <3>4 DEF DismissOffer, runtimes
    <3> QED BY <1>2, <3>2, <3>3, <3>4
  <2> QED BY <1>g, <2>1
<1>3. ASSUME NEW o \in Offer, ReceiveOffer(o) PROVE BackedInv'
  BY <1>3, <1>g DEF ReceiveOffer, runtimes, ghosts
<1>4. ASSUME NEW o \in Offer, PublishJoin(o) PROVE BackedInv'
  <2>1. held[Conv[o]] # None /\ Conv[o] \in Conversations
    BY <1>4, <1>t DEF PublishJoin, SavedInv
  <2>2. \A c \in Conversations : held'[c] \in {held[c], None}
    BY <1>4, <1>t DEF PublishJoin
  <2>3. packages' \subseteq packages \cup {<<Conv[o], held[Conv[o]].signer>>}
    BY <1>4 DEF PublishJoin
  <2>4. UNCHANGED <<drawn, renounced, durable, accepted>>
    BY <1>4 DEF PublishJoin, ghosts
  <2>5. \A p \in packages' : p \in packages
           \/ \E c \in Conversations : held[c] # None /\ p = <<c, held[c].signer>>
    BY <2>1, <2>3
  <2> QED BY <1>g, <2>2, <2>4, <2>5
<1>5. ASSUME NEW c \in Conversations, ResendPackage(c) PROVE BackedInv'
  BY <1>5, <1>g DEF ResendPackage, ghosts
<1>6. ASSUME NEW c \in Conversations, RecvWelcome(c) PROVE BackedInv'
  <2>1. held[c] \in Session /\ held[c] # None
        /\ held' = [held EXCEPT ![c] = [held[c] EXCEPT !.joined = TRUE]]
    BY <1>6, <1>h, <1>t DEF RecvWelcome
  <2>2. PICK h \in Session : h.signer = held[c].signer /\ held' = [held EXCEPT ![c] = h]
    BY <2>1 DEF Session
  <2>3. \A d \in Conversations : held'[d] # None => held[d] # None /\ held'[d].signer = held[d].signer
    BY <1>t, <2>1, <2>2
  <2> QED BY <1>6, <1>g, <2>3 DEF RecvWelcome, ghosts, wire
<1>7. CASE Crash
  <2>1. ASSUME NEW c \in Conversations, held'[c] # None
        PROVE  native[c] # None /\ held'[c].signer = native[c]
    BY <1>7, <2>1 DEF Crash
  <2> QED BY <1>7, <1>g, <2>1 DEF Crash, wire
<1>8. ASSUME \/ \E v \in Versions : AbsorbRoster(v)
             \/ Poll
             \/ \E c \in Conversations, s \in Signer : CreatorAdmits(c, s)
      PROVE  BackedInv'
  <2>1. UNCHANGED <<held, packages, drawn, durable, renounced, accepted>>
    BY <1>8 DEF AbsorbRoster, Poll, CreatorAdmits, runtimes, ghosts
  <2> QED BY <1>g, <2>1
<1>9. ASSUME \/ \E c \in Conversations : SaveNative(c) \/ CloseConversation(c)
             \/ CloseOrgGroups
      PROVE  BackedInv'
  <2>1. /\ UNCHANGED <<packages, drawn, renounced, accepted>> /\ durable \subseteq durable'
        /\ \A c \in Conversations : held'[c] \in {held[c], None}
    BY <1>9, <1>t DEF SaveNative, CloseConversation, CloseOrgGroups, wire
  <2> QED BY <1>g, <2>1
<1> QED BY <1>1, <1>2, <1>3, <1>4, <1>5, <1>6, <1>7, <1>8, <1>9 DEF Next

LEMMA OrgInvNext == OrgInv /\ [Next]_vars => OrgInv'
<1>1. OrgInv /\ Next => OrgInv'
  <2> SUFFICES ASSUME OrgInv, Next PROVE OrgInv'
    OBVIOUS
  <2>1. TypeInv' /\ BackedInv'
    BY TypeNext, BackedNext DEF OrgInv
  <2>2. ASSUME NEW o \in Offer PROVE OfferInv(o)'
    BY <2>2, OfferNext
  <2> QED BY <2>1, <2>2 DEF OrgInv
<1>2. OrgInv /\ UNCHANGED vars => OrgInv'
  <2> SUFFICES ASSUME OrgInv, UNCHANGED vars PROVE OrgInv'
    OBVIOUS
  <2>1. TypeInv'
    BY TypeNext DEF OrgInv
  <2>2. BackedInv'
    BY DEF OrgInv, BackedInv, Backed, Own, vars
  <2>3. ASSUME NEW o \in Offer PROVE OfferInv(o)'
    BY <2>3, QuietKeeps DEF vars
  <2> QED BY <2>1, <2>2, <2>3 DEF OrgInv
<1> QED BY <1>1, <1>2

LEMMA OrgInvAlways == Spec => []OrgInv
<1>1. Init => OrgInv
  <2> SUFFICES ASSUME Init PROVE OrgInv
    OBVIOUS
  <2>1. TypeInv
    BY TypeInit
  <2>2. BackedInv
    BY DEF Init, BackedInv
  <2>3. ASSUME NEW o \in Offer PROVE OfferInv(o)
    BY DEF Init, OfferInv, Sync, Drawn, Known, Lag, Retry
  <2> QED BY <2>1, <2>2, <2>3 DEF OrgInv
<1> QED BY <1>1, OrgInvNext, PTL DEF Spec

(***************************************************************************)
(* What the user can rely on                                               *)
(***************************************************************************)

(* Until the conversation is durable the disk keeps an acceptance with its  *)
(* keys, whatever else is written, refused, left or restarted.              *)
THEOREM AcceptedKept == Spec => []AcceptedIsKept
<1>1. OrgInv => AcceptedIsKept
  BY DEF OrgInv, OfferInv, Known, Durable, AcceptedIsKept
<1> QED BY <1>1, OrgInvAlways, PTL

(* Whom a DM has let in can still join: the signer on the only Welcome is   *)
(* the one whose keys the disk keeps, or the DM is durable already.         *)
THEOREM AdmittedJoins == Spec => []AdmittedCanJoin
<1>1. OrgInv => AdmittedCanJoin
  <2> SUFFICES ASSUME OrgInv, NEW o \in Dm \ renounced, NEW s \in Signer,
                      <<Conv[o], s>> \in welcomed, disk # None
               PROVE  disk.pending[o] = s \/ <<Conv[o], s>> \in durable
    BY DEF AdmittedCanJoin
  <2>1. <<Conv[o], s>> \in packages
    BY TypeFacts DEF OrgInv
  <2>2. Backed(Conv[o], s)
    BY <2>1 DEF OrgInv, BackedInv
  <2>3. PICK x \in Offer : /\ Conv[x] = Conv[o]
                           /\ x \in renounced \/ accepted[x] = s \/ <<Conv[o], s>> \in durable
    BY <2>2 DEF Backed
  <2>4. x = o /\ s # None
    BY <2>3, Constants
  <2> QED BY <2>3, <2>4 DEF OrgInv, OfferInv, Known, Durable
<1> QED BY <1>1, OrgInvAlways, PTL

(* While the org runs, a pending acceptance can be seen and repeated, or    *)
(* has its conversation, or is over.                                        *)
THEOREM AlwaysRetryable == Spec => []RetryOffered
<1>1. OrgInv => RetryOffered
  BY DEF OrgInv, OfferInv, Retry, Offered, Durable, RetryOffered, Pending
<1> QED BY <1>1, OrgInvAlways, PTL

(* What the disk has resolved it keeps resolved, and the running org does   *)
(* not show it again.                                                       *)
LEMMA ResolvedStep ==
  ASSUME OrgInv, Next, disk # None
  PROVE  /\ disk' # None => disk.resolved \subseteq disk'.resolved
         /\ org # None /\ org' # None => (org'.shown \ org.shown) \cap disk.resolved = {}
<1> USE Constants
<1>t. /\ disk \in Record /\ Disjoint(disk) /\ org \in OrgSession \cup {None}
      /\ roster \in Versions /\ faults \in [Faults -> Nat] /\ disk.resolved \subseteq Offer
      /\ (org # None => org.shown \subseteq Offer)
      /\ TypeInv' /\ (org' # None => org' \in OrgSession /\ org'.shown \subseteq Offer)
  <2>1. TypeInv'
    BY TypeNext DEF OrgInv
  <2>2. org' # None => org' \in OrgSession
    BY <2>1 DEF TypeInv, TypeOK
  <2>3. org' # None => org'.shown \subseteq Offer
    BY <2>2 DEF OrgSession
  <2> QED BY <2>1, <2>2, <2>3, TypeFacts, RecordFields, SessionFields DEF OrgInv
<1>w. ASSUME NEW o \in Outcomes, NEW r \in Record, Write(o, r)
      PROVE  disk.resolved \subseteq disk'.resolved
  <2>1. \A x \in Offer : x \in Stored.resolved => x \in Reconciled(r).resolved
    BY <1>t, ReconciledFields
  <2>2. disk.resolved \subseteq Reconciled(r).resolved
    BY <1>t, <2>1 DEF Stored
  <2> QED BY <1>w, <2>2 DEF Write
<1>s. ASSUME \A o \in Offer : o \in org'.shown => o \in org.shown \/ o \notin disk.resolved,
             org # None, org' # None
      PROVE  (org'.shown \ org.shown) \cap disk.resolved = {}
  BY <1>s, <1>t
<1>1. ASSUME NEW o \in Outcomes, JoinOrg(o) PROVE disk.resolved \subseteq disk'.resolved /\ org = None
  BY <1>1, <1>w, NoOffersRecord DEF JoinOrg
<1>2. ASSUME NEW o \in Outcomes, LeaveOrg(o)
      PROVE  (disk' # None => disk' = disk) /\ org' = None
  BY <1>2 DEF LeaveOrg
<1>3. ASSUME NEW o \in Outcomes, WriteLink(o)
      PROVE  disk.resolved \subseteq disk'.resolved /\ (org'.shown \ org.shown) \cap disk.resolved = {}
  <2>1. org \in OrgSession /\ org # None /\ ToRecord(org) \in Record
    BY <1>3, <1>t, SessionFields DEF WriteLink, Listed
  <2>2. disk.resolved \subseteq disk'.resolved
    BY <1>3, <1>w, <2>1 DEF WriteLink
  <2>3. org'.shown \subseteq org.shown
    <3>1. CASE o = "saved"
      <4> DEFINE u == [org EXCEPT !.resolved = @ \cup disk'.resolved]
      <4>0. disk' \in Record
        BY <1>3, <1>t, <2>1, <3>1, WriteType DEF WriteLink
      <4>1. u \in OrgSession /\ u.shown = org.shown
        BY <2>1, <4>0, RecordFields DEF OrgSession
      <4>2. org' = Prune(u)
        BY <1>3, <3>1 DEF WriteLink
      <4> HIDE DEF u
      <4>3. Prune(u).shown \subseteq u.shown
        BY <4>1, PruneFields
      <4> QED BY <4>1, <4>2, <4>3
    <3>2. CASE o # "saved"
      BY <1>3, <3>2 DEF WriteLink
    <3> QED BY <3>1, <3>2
  <2> QED BY <2>2, <2>3
<1>4. ASSUME NEW x \in Offer, NEW o \in Outcomes, DismissOffer(x, o)
      PROVE  disk.resolved \subseteq disk'.resolved /\ (org'.shown \ org.shown) \cap disk.resolved = {}
  <2> DEFINE r == [pending |-> [org.pending EXCEPT ![x] = None], resolved |-> org.resolved \cup {x}]
  <2>1. org \in OrgSession /\ org # None
    BY <1>4, <1>t DEF DismissOffer
  <2>2. r \in Record
    BY <2>1, SessionFields DEF Record, Acceptances
  <2>3. Write(o, r)
    BY <1>4 DEF DismissOffer
  <2> HIDE DEF r
  <2>4. disk.resolved \subseteq disk'.resolved
    BY <1>w, <2>2, <2>3
  <2>5. disk' \in Record /\ Disjoint(disk')
    BY <1>t, <2>2, <2>3, WriteType
  <2>6. Disjoint(disk)'
    BY <2>5 DEF Disjoint, Pending
  <2>7. org'.shown \subseteq org.shown
    BY <1>4, <2>1, <2>5, <2>6, CommittedFields DEF DismissOffer
  <2> QED BY <2>4, <2>7
<1>5. ASSUME NEW x \in Offer, NEW o \in Outcomes, AcceptOffer(x, o)
      PROVE  disk.resolved \subseteq disk'.resolved /\ (org'.shown \ org.shown) \cap disk.resolved = {}
  <2>1. PICK s \in Signer : Accepts(x, s, o = "saved")
    BY <1>5, AcceptEffect
  <2>2. /\ \A y \in Offer : y \in disk'.resolved <=> y \in disk.resolved
        /\ org # None /\ org' # None
        /\ o # "saved" => org' = org
        /\ o = "saved" => \A y \in Offer : y \in org'.shown => y \in org.shown
    BY <2>1 DEF Accepts
  <2> QED BY <1>s, <1>t, <2>2
<1>6. ASSUME NEW v \in Versions, AbsorbRoster(v) PROVE disk' = disk /\ org'.shown = org.shown
  <2>1. org \in OrgSession /\ org' = [org EXCEPT !.version = v] /\ disk' = disk
    BY <1>6, <1>t DEF AbsorbRoster
  <2> QED BY <2>1 DEF OrgSession
<1>7. ASSUME NEW x \in Offer, ReceiveOffer(x)
      PROVE  disk' = disk /\ (org'.shown \ org.shown) \cap disk.resolved = {}
  <2>1. org \in OrgSession /\ org # None /\ disk' = disk /\ x \notin org.resolved \cup org.seen
        /\ org' = [org EXCEPT !.seen = @ \cup {x}, !.shown = @ \cup {x}]
    BY <1>7, <1>t DEF ReceiveOffer, Listed
  <2>2. org'.shown = org.shown \cup {x}
    BY <2>1 DEF OrgSession
  <2>3. x \notin disk.resolved
    BY <2>1 DEF OrgInv, OfferInv, Sync
  <2> QED BY <2>1, <2>2, <2>3
<1>8. ASSUME NEW x \in Offer, PublishJoin(x)
      PROVE  disk' = disk /\ (org'.shown \ org.shown) \cap disk.resolved = {}
  <2>1. org \in OrgSession /\ org # None /\ disk' = disk /\ busy = x
    BY <1>8, <1>t DEF PublishJoin, OrgInv, TypeInv, SavedInv
  <2>2. org'.shown = org.shown \/ (org'.shown = org.shown \cup {x} /\ org.pending[x] # None)
    BY <1>8, <2>1 DEF PublishJoin, Reexpose, OrgSession
  <2>3. org.pending[x] # None => x \notin disk.resolved
    BY <2>1 DEF OrgInv, OfferInv, Retry
  <2> QED BY <2>1, <2>2, <2>3
<1>9. CASE Poll
  <2>1. org \in OrgSession /\ org # None /\ disk' = disk
        /\ org' = Prune([org EXCEPT !.resolved = @ \cup disk.resolved])
    BY <1>9, <1>t DEF Poll
  <2>2. \A x \in Offer : x \in org.resolved => x \in disk.resolved
    BY <2>1 DEF OrgInv, OfferInv, Sync
  <2>3. \A o \in Offer : o \in org'.shown => o \in org.shown
    BY <1>t, <2>1, <2>2, PruneEffect
  <2> QED BY <1>s, <2>1, <2>3
<1>10. CASE Crash
  <2>1. disk' = disk /\ org' = BuildSession(disk, roster)
    BY <1>10 DEF Crash
  <2>2. org'.shown = Pending(disk)
    BY <1>t, <2>1, BuildFields
  <2> QED BY <1>t, <2>1, <2>2 DEF Disjoint
<1>11. ASSUME NEW c \in Conversations, SaveNative(c)
       PROVE  disk.resolved \subseteq disk'.resolved /\ org' = org
  <2>1. PICK n : n = native' /\ disk' = Retire(disk, n) /\ org' = org
    BY <1>11 DEF SaveNative
  <2>2. \A x \in Offer : x \in disk.resolved => x \in Retire(disk, n).resolved
    BY <1>t, RetireFields
  <2> QED BY <1>t, <2>1, <2>2
<1>12. ASSUME NEW c \in Conversations,
              \/ ResendPackage(c) \/ (\E s \in Signer : CreatorAdmits(c, s))
              \/ RecvWelcome(c) \/ CloseConversation(c)
       PROVE  UNCHANGED <<disk, org>>
  BY <1>12 DEF ResendPackage, CreatorAdmits, RecvWelcome, CloseConversation
<1>13. CASE CloseOrgGroups
  BY <1>13 DEF CloseOrgGroups
<1> QED BY <1>1, <1>2, <1>3, <1>4, <1>5, <1>6, <1>7, <1>8, <1>9, <1>10, <1>11, <1>12, <1>13
        DEF Next

(* A resolved offer stays resolved on disk although the org writes from     *)
(* memory that may not know of it, and no message, poll, failed publication *)
(* or restart shows it again.                                               *)
THEOREM ResolvedForGood == Spec => ResolvedStaysResolved
<1>1. OrgInv /\ [Next]_vars =>
        [ disk # None =>
            /\ disk' # None => disk.resolved \subseteq disk'.resolved
            /\ org # None /\ org' # None
                 => (org'.shown \ org.shown) \cap disk.resolved = {} ]_vars
  BY ResolvedStep
<1> QED BY <1>1, OrgInvAlways, PTL DEF Spec, ResolvedStaysResolved
=============================================================================
