---------------------------- MODULE OrgAcceptance ----------------------------
(***************************************************************************)
(* Offers of an organisation at one installation: received, dismissed or   *)
(* accepted, and retired when the conversation they open is durable        *)
(* (mosh-core/src/org_runtime, persistence/org_acceptances.rs and          *)
(* api/org_workflows.rs).                                                  *)
(*                                                                         *)
(* The org runtime keeps its record in memory and on disk.  A conversation *)
(* saves itself in a transaction of its own that also retires the offers   *)
(* it came from, so memory may lag behind the disk and every write of the  *)
(* org record reconciles what it brings with what it finds.                *)
(*                                                                         *)
(* The other side of an offer is abstract: a DM lets in the first signer   *)
(* whose package it gets and no other, a group everyone.  Offers arrive    *)
(* late and more than once.  A write is saved, refused, or reported as     *)
(* refused although it was saved.                                          *)
(***************************************************************************)
EXTENDS Naturals, FiniteSets

CONSTANTS
    Offer,      \* offers made to this installation
    Dm,         \* the ones that offer a DM; the others offer a group
    Conv,       \* Offer -> the conversation it opens; only groups share one
    None,       \* no session, no record, no signer
    Member,     \* roster version -> who of {"self", "sender"} it lists
    Signers,    \* bound: MLS signers drawn for one offer
    Budgets     \* bounds: how often each fault and each user's change of mind

Faults == {"refused", "uncertain", "unpublished", "crash", "close", "leave"}

Conversations == {Conv[o] : o \in Offer}

Versions == DOMAIN Member

Signer == Offer \X (1 .. Signers)

ASSUME OrgAssumption ==
    /\ IsFiniteSet(Offer) /\ Dm \subseteq Offer
    /\ DOMAIN Conv = Offer /\ None \notin Signer
    /\ \A d \in Dm, o \in Offer : Conv[d] = Conv[o] => d = o
    /\ Versions \subseteq Nat /\ 0 \in Versions /\ Member[0] = {}
    /\ Signers \in Nat /\ Budgets \subseteq [Faults -> Nat]

VARIABLES
    org,        \* the OrgSession, None while the org is not joined
    disk,       \* its record, None without one
    roster,     \* version of the roster on disk, 0 without one
    held,       \* conversation -> session in memory, None without one
    native,     \* conversation -> signer of the joined session on disk
    busy,       \* the offer whose acceptance holds both runtimes, or None
    closing,    \* the org was left, its groups are still to be closed
    packages,   \* <<conversation, signer>> whose KeyPackage is on the wire
    welcomed,   \* <<conversation, signer>> that was let in
    drawn,      \* Offer -> signers drawn for it
    faults,     \* Faults -> how often it may still happen
    accepted,   \* Offer -> signer of the acceptance reported as saved
    renounced,  \* offers the user dismissed or left the org with
    durable,    \* <<conversation, signer>> ever saved as joined
    shut        \* conversations the user closed since the last start

vars == <<org, disk, roster, held, native, busy, closing, packages, welcomed,
          drawn, faults, accepted, renounced, durable, shut>>

wire == <<packages, welcomed>>
runtimes == <<held, native, packages, welcomed, drawn>>
ghosts == <<accepted, renounced, durable, shut>>

-----------------------------------------------------------------------------
(* PersistedOrgRecord: pending_acceptances by offer, resolved_offer_ids.   *)
Acceptances == [Offer -> Signer \cup {None}]

Record == [pending : Acceptances, resolved : SUBSET Offer]

OrgSession == [pending : Acceptances, resolved : SUBSET Offer,
               shown : SUBSET Offer, seen : SUBSET Offer, version : Versions]

Session == [signer : Signer, joined : BOOLEAN]

ASSUME NoneAssumption ==
    None \notin Offer /\ None \notin Record /\ None \notin OrgSession /\ None \notin Session

Pending(r) == {o \in Offer : r.pending[o] # None}

(* to_record                                                               *)
ToRecord(s) == [pending |-> s.pending, resolved |-> s.resolved]

NoOffers == [pending |-> [o \in Offer |-> None], resolved |-> {}]

(* Mutant: resolving an offer leaves its acceptance pending.               *)
RetainAll(pending, resolved) == pending

(* pending_acceptances.retain(|id, _| !resolved.contains(id))              *)
Retain(pending, resolved) ==
    [o \in Offer |-> IF o \in resolved THEN None ELSE pending[o]]

(* prune_resolved_acceptances                                              *)
Prune(s) ==
    [s EXCEPT !.pending = Retain(s.pending, s.resolved),
              !.shown = @ \ s.resolved]

(* Mutant: whichever session the conversation has will do.                 *)
NativeDurableAnyone(saved, o, signer) == saved[Conv[o]] # None

(* native_acceptance_is_durable: record and snapshot of a joined session   *)
(* with the signer of the acceptance.                                      *)
NativeDurable(saved, o, signer) == saved[Conv[o]] = signer

(* retire_completed_acceptances                                            *)
Retire(r, saved) ==
    LET done == {o \in Pending(r) : NativeDurable(saved, o, r.pending[o])}
    IN  [pending |-> Retain(r.pending, done), resolved |-> r.resolved \cup done]

(* Mutant: the record is written as the session has it.                    *)
ReconciledUnread(r) == Retire(r, native)

(* write_org_record: what record r becomes when it is written.             *)
Reconciled(r) ==
    LET stored == IF disk = None THEN NoOffers ELSE disk
        resolved == r.resolved \cup stored.resolved
        pending == [o \in Offer |-> IF r.pending[o] # None THEN r.pending[o]
                                    ELSE stored.pending[o]]
    IN  Retire([pending |-> Retain(pending, resolved), resolved |-> resolved],
               native)

Happens(fault) ==
    /\ faults[fault] > 0
    /\ faults' = [faults EXCEPT ![fault] = @ - 1]

Outcomes == {"saved", "refused", "uncertain"}

(* put_reconciled_org_record                                               *)
Write(outcome, r) ==
    /\ disk' = IF outcome = "refused" THEN disk ELSE Reconciled(r)
    /\ IF outcome = "saved" THEN UNCHANGED faults ELSE Happens(outcome)

Listed(who) == org # None /\ who \in Member[org.version]

(* The runtimes are locked while an offer is being accepted.               *)
Free == busy = None

-----------------------------------------------------------------------------
(* The org                                                                 *)

(* build_session, restore_pending_offers                                   *)
BuildSession(r, version) ==
    LET kept == Pending(r) \ r.resolved
    IN  [pending |-> r.pending, resolved |-> r.resolved,
         shown |-> kept, seen |-> kept, version |-> version]

(* join_org: a record that a failed delete left behind is taken up again.  *)
JoinOrg(outcome) ==
    /\ Free /\ org = None
    /\ Write(outcome, NoOffers)
    /\ org' = IF outcome = "saved" THEN BuildSession(Reconciled(NoOffers), roster)
              ELSE None
    /\ UNCHANGED <<roster, busy, closing, runtimes, ghosts>>

(* leave_org: the session goes first; when the record cannot be deleted    *)
(* the org's groups stay open.                                             *)
LeaveOrg(outcome) ==
    /\ Free /\ org # None /\ faults["leave"] > 0
    /\ org' = None
    /\ IF outcome = "refused" THEN UNCHANGED <<disk, roster, renounced, accepted>>
       ELSE /\ disk' = None /\ roster' = 0
            /\ renounced' = Offer
            /\ accepted' = [o \in Offer |-> None]
    /\ closing' = (outcome = "saved")
    /\ outcome # "saved" => faults[outcome] > 0
    /\ faults' = [f \in Faults |-> IF f \in {"leave", outcome} THEN faults[f] - 1
                                   ELSE faults[f]]
    /\ UNCHANGED <<busy, runtimes, durable, shut>>

(* close_org_groups: a close that fails (failed) is only logged, and so is *)
(* the delete of a record (left) in one that does not.                     *)
CloseOrgGroups ==
    /\ Free /\ closing /\ closing' = FALSE
    /\ LET bound == {c \in {Conv[o] : o \in Offer \ Dm} : held[c] # None}
       IN  \E failed, left \in SUBSET bound :
             LET closed == bound \ failed
             IN  /\ held' = [c \in Conversations |-> IF c \in closed THEN None
                                                     ELSE held[c]]
                 /\ native' = [c \in Conversations |-> IF c \in closed \ left THEN None
                                                       ELSE native[c]]
                 /\ shut' = shut \cup closed
    /\ UNCHANGED <<org, disk, roster, busy, wire, drawn, faults, accepted,
                   renounced, durable>>

(* absorb_roster_bytes: only a newer roster; a refused save is logged.     *)
AbsorbRoster(v) ==
    /\ Free /\ org # None /\ v > org.version
    /\ org' = [org EXCEPT !.version = v]
    /\ \/ roster' = v /\ UNCHANGED faults
       \/ roster' = roster /\ Happens("refused")
    /\ UNCHANGED <<disk, busy, closing, runtimes, ghosts>>

(* handle_message, receive_dm_offer, accept_offer                          *)
ReceiveOffer(o) ==
    /\ Free /\ Listed("sender")
    /\ o \notin org.resolved \cup org.seen
    /\ org' = [org EXCEPT !.seen = @ \cup {o}, !.shown = @ \cup {o}]
    /\ UNCHANGED <<disk, roster, busy, closing, runtimes, faults, ghosts>>

(* poll, list: refresh_acceptances                                         *)
Poll ==
    /\ Free /\ org # None /\ disk # None /\ Pending(org) # {}
    /\ org' = Prune([org EXCEPT !.resolved = @ \cup disk.resolved])
    /\ UNCHANGED <<disk, roster, busy, closing, runtimes, faults, ghosts>>

(* send_dm_offer, link_dm: the record is written with a new link, from     *)
(* memory that may be older than the disk.                                 *)
WriteLink(outcome) ==
    /\ Free /\ Listed("self") /\ Listed("sender")
    /\ Write(outcome, ToRecord(org))
    /\ org' = IF outcome = "saved"
              THEN Prune([org EXCEPT !.resolved = @ \cup disk'.resolved]) ELSE org
    /\ UNCHANGED <<roster, busy, closing, runtimes, ghosts>>

(* commit_offer after a write that was reported as saved.                  *)
Committed(o) ==
    LET s == Prune([org EXCEPT !.pending = disk'.pending,
                               !.resolved = disk'.resolved])
    IN  [s EXCEPT !.shown = @ \ {o}]

(* dismiss_dm_offer, dismiss_group_offer, resolve_offer                    *)
DismissOffer(o, outcome) ==
    /\ Free /\ org # None /\ o \in org.shown
    /\ Write(outcome, [pending |-> [org.pending EXCEPT ![o] = None],
                       resolved |-> org.resolved \cup {o}])
    /\ org' = IF outcome = "saved" THEN Committed(o) ELSE org
    /\ renounced' = renounced \cup {o}
    /\ UNCHANGED <<roster, busy, closing, runtimes, accepted, durable, shut>>

-----------------------------------------------------------------------------
(* Accepting an offer                                                      *)

(* Mutant: every attempt starts with new keys.                             *)
FreshRecovery(o) == None

(* offer_recovery                                                          *)
OfferRecovery(o) == org.pending[o]

(* peek_dm_offer asks for the roster, peek_group_offer does not.           *)
Peek(o) ==
    /\ org # None /\ o \in org.shown
    /\ o \in Dm => Listed("self") /\ Listed("sender")

(* accept_and_link_dm, accept_and_join_group up to register_prepared_*:    *)
(* the session is prepared, with the recovered signer if there is one, and *)
(* the acceptance saved; when that fails the session is discarded.         *)
AcceptOffer(o, outcome) ==
    /\ Free /\ Peek(o) /\ held[Conv[o]] = None
    /\ LET fresh == OfferRecovery(o) = None
           signer == IF fresh THEN <<o, drawn[o] + 1>> ELSE OfferRecovery(o)
       IN  /\ fresh => drawn[o] < Signers
           /\ drawn' = [drawn EXCEPT ![o] = IF fresh THEN @ + 1 ELSE @]
           /\ Write(outcome, [pending |-> [org.pending EXCEPT ![o] = signer],
                              resolved |-> org.resolved])
           /\ IF outcome = "saved"
              THEN /\ org' = Committed(o)
                   /\ held' = [held EXCEPT ![Conv[o]] =
                                 [signer |-> signer, joined |-> FALSE]]
                   /\ accepted' = [accepted EXCEPT ![o] = signer]
                   /\ busy' = o
              ELSE UNCHANGED <<org, held, accepted, busy>>
    /\ UNCHANGED <<roster, native, closing, wire, renounced, durable, shut>>

(* Mutant: a join that could not be published is not offered again.        *)
ReexposeNothing(o) == org

(* reexpose_acceptance                                                     *)
Reexpose(o) ==
    IF o \in org.resolved \/ org.pending[o] = None THEN org
    ELSE [org EXCEPT !.shown = @ \cup {o}]

(* publish_prepared_join: finding no peers counts as published.            *)
PublishJoin(o) ==
    /\ busy = o /\ busy' = None
    /\ LET c == Conv[o]
       IN  \/ /\ packages' = packages \cup {<<c, held[c].signer>>}
              /\ UNCHANGED <<org, held, faults>>
           \/ UNCHANGED <<org, held, packages, faults>>
           \/ /\ Happens("unpublished")
              /\ held' = [held EXCEPT ![c] = None]
              /\ org' = Reexpose(o)
              /\ UNCHANGED packages
    /\ UNCHANGED <<disk, roster, native, closing, welcomed, drawn, ghosts>>

-----------------------------------------------------------------------------
(* The conversations                                                       *)

(* pump_handshake, retry_pending_join                                      *)
ResendPackage(c) ==
    /\ Free /\ held[c] # None /\ ~held[c].joined
    /\ packages' = packages \cup {<<c, held[c].signer>>}
    /\ UNCHANGED <<org, disk, roster, held, native, busy, closing, welcomed,
                   drawn, faults, ghosts>>

(* The creator of the conversation, at its own installation, lets a package *)
(* in: a DM the first signer, as Invitation has it, a group everyone.      *)
CreatorAdmits(c, signer) ==
    /\ <<c, signer>> \in packages
    /\ (\E d \in Dm : Conv[d] = c) => \A w \in welcomed : w[1] # c
    /\ welcomed' = welcomed \cup {<<c, signer>>}
    /\ UNCHANGED <<org, disk, roster, held, native, busy, closing, packages,
                   drawn, faults, ghosts>>

(* accept_welcome                                                          *)
RecvWelcome(c) ==
    /\ Free /\ held[c] # None /\ ~held[c].joined
    /\ <<c, held[c].signer>> \in welcomed
    /\ held' = [held EXCEPT ![c].joined = TRUE]
    /\ UNCHANGED <<org, disk, roster, native, busy, closing, wire, drawn, faults,
                   ghosts>>

(* put_mls_state, install_history_admission: the joined session is saved   *)
(* and, in the same transaction, retire_accepted_offers runs.  A refused   *)
(* write is tried again.                                                   *)
SaveNative(c) ==
    /\ Free /\ held[c] # None /\ held[c].joined /\ native[c] # held[c].signer
    /\ native' = [native EXCEPT ![c] = held[c].signer]
    /\ disk' = IF disk = None THEN None ELSE Retire(disk, native')
    /\ durable' = durable \cup {<<c, held[c].signer>>}
    /\ UNCHANGED <<org, roster, held, busy, closing, wire, drawn, faults, accepted,
                   renounced, shut>>

(* close_session, close: a delete that fails is only logged.               *)
CloseConversation(c) ==
    /\ Free /\ held[c] # None /\ Happens("close")
    /\ held' = [held EXCEPT ![c] = None]
    /\ native' \in {native, [native EXCEPT ![c] = None]}
    /\ shut' = shut \cup {c}
    /\ UNCHANGED <<org, disk, roster, busy, closing, wire, drawn, accepted,
                   renounced, durable>>

(* The process stops and comes back: rehydrate of the three runtimes.  A   *)
(* session that had not joined is gone.                                    *)
Crash ==
    /\ Happens("crash")
    /\ org' = IF disk = None THEN None ELSE BuildSession(disk, roster)
    /\ held' = [c \in Conversations |->
                  IF native[c] = None THEN None
                  ELSE [signer |-> native[c], joined |-> TRUE]]
    /\ busy' = None /\ closing' = FALSE /\ shut' = {}
    /\ UNCHANGED <<disk, roster, native, wire, drawn, accepted, renounced, durable>>

-----------------------------------------------------------------------------
Init ==
    /\ org = None /\ disk = None /\ roster = 0
    /\ held = [c \in Conversations |-> None]
    /\ native = [c \in Conversations |-> None]
    /\ busy = None /\ closing = FALSE
    /\ packages = {} /\ welcomed = {}
    /\ drawn = [o \in Offer |-> 0]
    /\ faults \in Budgets
    /\ accepted = [o \in Offer |-> None] /\ renounced = {}
    /\ durable = {} /\ shut = {}

Next ==
    \/ \E outcome \in Outcomes :
          \/ JoinOrg(outcome)
          \/ LeaveOrg(outcome)
          \/ WriteLink(outcome)
          \/ \E o \in Offer : DismissOffer(o, outcome) \/ AcceptOffer(o, outcome)
    \/ \E v \in Versions : AbsorbRoster(v)
    \/ \E o \in Offer : ReceiveOffer(o) \/ PublishJoin(o)
    \/ \E c \in Conversations :
          \/ ResendPackage(c)
          \/ \E s \in Signer : CreatorAdmits(c, s)
          \/ RecvWelcome(c)
          \/ SaveNative(c)
          \/ CloseConversation(c)
    \/ Poll
    \/ CloseOrgGroups
    \/ Crash

Spec == Init /\ [][Next]_vars

-----------------------------------------------------------------------------
(* The variables have their types, and no record, in memory or on disk,    *)
(* holds an offer as both pending and resolved (write_org_record,          *)
(* prune_resolved_acceptances).                                            *)
TypeOK ==
    /\ org \in OrgSession \cup {None}
    /\ disk \in Record \cup {None}
    /\ roster \in Versions
    /\ held \in [Conversations -> Session \cup {None}]
    /\ native \in [Conversations -> Signer \cup {None}]
    /\ busy \in Offer \cup {None} /\ closing \in BOOLEAN
    /\ packages \subseteq Conversations \X Signer
    /\ welcomed \subseteq packages
    /\ drawn \in [Offer -> 0 .. Signers]
    /\ faults \in [Faults -> Nat]
    /\ accepted \in [Offer -> Signer \cup {None}]
    /\ renounced \subseteq Offer /\ shut \subseteq Conversations
    /\ durable \subseteq packages
    /\ disk # None => Pending(disk) \cap disk.resolved = {}
    /\ org # None => Pending(org) \cap org.resolved = {}

(* An acceptance the user was told of is not lost: until its conversation  *)
(* was saved as joined, the disk keeps the offer together with the keys of *)
(* that acceptance, whatever other writes, restarts, leaves that failed    *)
(* and acceptances of other offers for the same group come in between      *)
(* ("Retain accepted offers until the native conversation has durable MLS  *)
(* state", acceptance.rs).                                                 *)
AcceptedIsKept ==
    \A o \in Offer :
        accepted[o] # None /\ o \notin renounced /\ disk # None
          => \/ disk.pending[o] = accepted[o]
             \/ <<Conv[o], accepted[o]>> \in durable

(* A DM lets one signer in and then nobody else, so the installation keeps *)
(* the keys of the signer that was let in ("Resume an org acceptance with  *)
(* the original MLS KeyPackage private material", pending_join.rs).        *)
AdmittedCanJoin ==
    \A o \in Dm \ renounced, s \in Signer :
        <<Conv[o], s>> \in welcomed /\ disk # None
          => disk.pending[o] = s \/ <<Conv[o], s>> \in durable

(* What was resolved stays resolved although the org's writes come from    *)
(* memory that has not seen the conversation's transaction, and a resolved *)
(* offer is never shown again (write_org_record, accept_offer,             *)
(* restore_pending_offers).                                                *)
ResolvedStaysResolved ==
    [][ disk # None =>
          /\ disk' # None => disk.resolved \subseteq disk'.resolved
          /\ org # None /\ org' # None
               => (org'.shown \ org.shown) \cap disk.resolved = {} ]_vars

(* An acceptance never hangs where the user can neither see nor repeat it: *)
(* its offer is shown, its conversation is there, or it is over            *)
(* (reexpose_acceptance, restore_pending_offers).                          *)
RetryOffered ==
    org # None /\ Free =>
        \A o \in Pending(org) :
            \/ o \in org.shown
            \/ held[Conv[o]] # None
            \/ <<Conv[o], org.pending[o]>> \in durable
            \/ Conv[o] \in shut
=============================================================================
