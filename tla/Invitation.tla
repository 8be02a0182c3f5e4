----------------------------- MODULE Invitation -----------------------------
(***************************************************************************)
(* One personal-chat invitation of a private DM, from its creation to the  *)
(* first authenticated frames (mosh-core/src/private_dm_runtime/           *)
(* lifecycle.rs, invitations.rs, invitation_admission.rs, pending_join.rs, *)
(* control.rs, session_transport.rs and liveness.rs).                      *)
(*                                                                         *)
(* The creator shows a link, may replace it by one with another token, or  *)
(* bind it to one installation.  Any installation that has seen a link may *)
(* accept it: it draws a new MLS signer and repeats its KeyPackage until a *)
(* Welcome comes.  The creator admits the first acceptable package, saves  *)
(* that together with the Welcome, publishes the Welcome, and answers      *)
(* later packages of that signer with the same one.  Hellos then prove     *)
(* each side to the other.                                                 *)
(*                                                                         *)
(* Packages and Welcomes stay on the wire: they may arrive late and more   *)
(* than once (control frames are exempt from duplicate suppression).  A    *)
(* Hello decrypts once.  A write is saved, refused, or reported as refused *)
(* although it was saved.                                                  *)
(***************************************************************************)
EXTENDS Naturals, FiniteSets

CONSTANTS
    Joiner,     \* installations that may accept a link
    None,       \* no session, no record, no signer, no target
    Tokens,     \* bound: admission tokens 0 .. Tokens; 0 is the tokenless link
    Accepts,    \* bound: links an installation accepts, each with a new signer
    Budgets     \* bounds: how often each fault and each user's change of mind

Faults == {"lost", "refused", "uncertain", "crash", "lapse", "close"}

ASSUME InvitationAssumption ==
    /\ IsFiniteSet(Joiner) /\ None \notin Joiner
    /\ Tokens \in Nat \ {0} /\ Accepts \in Nat /\ Budgets \subseteq [Faults -> Nat]

VARIABLES
    creator,    \* the creator's session in memory, None when it has none
    saved,      \* its record in the store
    joiner,     \* Joiner -> the session in memory, None when it has none
    kept,       \* Joiner -> the session of its saved record, None without one
    drawn,      \* Joiner -> signers it has drawn
    wire,       \* packages and Welcomes ever published
    hellos,     \* Hellos on their way
    shown,      \* links given to the creator's user; the last one is live
    faults      \* Faults -> how often it may still happen

vars == <<creator, saved, joiner, kept, drawn, wire, hellos, shown, faults>>

-----------------------------------------------------------------------------
Link == [token : 0 .. Tokens, target : Joiner \cup {None}]

Signer == Joiner \X (1 .. Accepts)

ASSUME NoneAssumption == None \notin Signer

States == {"pending", "handshaking", "connected"}

(* InviteLifecycle and the session around it: consumed and peer_joined are *)
(* adm # None.  `due` says that the tail still has to save the record.     *)
CreatorSession == [link : Link, opened : BOOLEAN, adm : Signer \cup {None},
                   st : States, due : BOOLEAN]

JoinerSession == [link : Link, signer : Signer, joined : BOOLEAN, st : States]

Record == [link : Link, opened : BOOLEAN, adm : Signer \cup {None}]

(* to_persisted_record                                                     *)
RecordOf(s) == [link |-> s.link, opened |-> s.opened, adm |-> s.adm]

(* next_state                                                              *)
HandshakeFrame(st) == IF st = "pending" THEN "handshaking" ELSE st

AuthenticatedFrame(st) == "connected"

CounterpartLost(st) == IF st = "connected" THEN "handshaking" ELSE st

Happens(fault) ==
    /\ faults[fault] > 0
    /\ faults' = [faults EXCEPT ![fault] = @ - 1]

NoFault == UNCHANGED faults

Outcomes == {"saved", "refused", "uncertain"}

(* What a write of record r does to the store.                             *)
Write(outcome, r) ==
    /\ saved' = IF outcome = "refused" THEN saved ELSE r
    /\ IF outcome = "saved" THEN NoFault ELSE Happens(outcome)

(* route_send: a control frame that finds no peers counts as sent.         *)
Publishes(frame) ==
    \/ wire' = wire \cup {frame} /\ NoFault
    \/ wire' = wire /\ Happens("lost")

(* stage_admission: a targeted link asks for a package that proves who     *)
(* sends it; a link with a token is answered with that token.              *)
Package(s, j) ==
    [kind |-> "package", signer |-> s.signer, from |-> j,
     token |-> s.link.token, proved |-> s.link.target # None]

Welcome(signer) == [kind |-> "welcome", to |-> signer]

-----------------------------------------------------------------------------
(* The creator                                                             *)

(* create_invitation: only the link of a chat that is open from the start  *)
(* has no token.  Nothing is kept of an invitation that could not be       *)
(* saved, except what an uncertain write left in the store.                *)
CreateInvite(opened, outcome) ==
    /\ creator = None /\ saved = None /\ shown = {}
    /\ LET link == [token |-> IF opened THEN 0 ELSE 1, target |-> None]
           s == [link |-> link, opened |-> opened, adm |-> None,
                 st |-> "pending", due |-> FALSE]
       IN  /\ Write(outcome, RecordOf(s))
           /\ creator' = IF outcome = "saved" THEN s ELSE None
           /\ shown' = IF outcome = "saved" THEN {[link |-> link, live |-> TRUE]}
                       ELSE shown
    /\ UNCHANGED <<joiner, kept, drawn, wire, hellos>>

InviteAvailable == creator # None /\ creator.adm = None

(* The user is given this link; the ones before it no longer stand.        *)
Shows(link) ==
    {[l EXCEPT !.live = FALSE] : l \in shown} \cup {[link |-> link, live |-> TRUE]}

(* Mutant: the new link is shown and saved later, with the next record.    *)
RelinkUnsaved(s, otherwise, outcome) ==
    /\ outcome = "saved" /\ NoFault /\ UNCHANGED saved
    /\ creator' = [s EXCEPT !.due = TRUE]
    /\ shown' = Shows(s.link)

(* The common part of replace_invite and authenticated_owned_invite: the   *)
(* session s with the new link is saved before the link is shown.          *)
Relink(s, otherwise, outcome) ==
    /\ Write(outcome, RecordOf(s))
    /\ creator' = IF outcome = "saved" THEN s ELSE otherwise
    /\ shown' = IF outcome = "saved" THEN Shows(s.link) ELSE shown

(* replace_invite: a random token, never one that was used before.  A      *)
(* refused save leaves the old link in memory.                             *)
ReplaceInvite(outcome) ==
    /\ InviteAvailable
    /\ LET used == {l.link.token : l \in shown}
       IN  \E t \in (1 .. Tokens) \ used :
              /\ t = 1 \/ t - 1 \in used
              /\ Relink([creator EXCEPT !.link.token = t, !.due = TRUE],
                        creator, outcome)
    /\ UNCHANGED <<joiner, kept, drawn, wire, hellos>>

(* authenticated_owned_invite: the link becomes one for installation j.    *)
(* A refused save leaves the old link in memory and that record due.       *)
TargetInvite(j, outcome) ==
    /\ InviteAvailable /\ creator.link.target \in {None, j}
    /\ Relink([creator EXCEPT !.link.target = j, !.due = FALSE],
              [creator EXCEPT !.due = TRUE], outcome)
    /\ UNCHANGED <<joiner, kept, drawn, wire, hellos>>

(* open_session                                                            *)
OpenSession(outcome) ==
    /\ InviteAvailable /\ ~creator.opened
    /\ Write(outcome, RecordOf([creator EXCEPT !.opened = TRUE]))
    /\ creator' = IF outcome = "saved"
                  THEN [creator EXCEPT !.opened = TRUE, !.due = TRUE]
                  ELSE creator
    /\ UNCHANGED <<joiner, kept, drawn, wire, hellos, shown>>

(* unwrap_invitation_admission, accept_authenticated_key_package and       *)
(* accept_legacy_key_package: the token is the current one, and a targeted *)
(* link is answered only to its target, and only when that proves itself.  *)
Acceptable(p) ==
    /\ p.token = creator.link.token
    /\ creator.link.target # None => p.proved /\ p.from = creator.link.target

(* Mutant: the Welcome leaves before the admission is saved.               *)
AdmitUnsaved(p, outcome) ==
    /\ creator' = [creator EXCEPT !.adm = p.signer, !.due = TRUE,
                                  !.st = HandshakeFrame(@)]
    /\ UNCHANGED saved /\ outcome = "saved"
    /\ Publishes(Welcome(p.signer))

(* answer_key_package, the first admission: saved with its Welcome before  *)
(* the Welcome leaves; a refused save takes everything back.               *)
Admit(p, outcome) ==
    LET s == [creator EXCEPT !.adm = p.signer, !.due = TRUE,
                             !.st = HandshakeFrame(@)]
    IN  IF outcome = "saved"
        THEN creator' = s /\ saved' = RecordOf(s) /\ Publishes(Welcome(p.signer))
        ELSE creator' = creator /\ Write(outcome, RecordOf(s)) /\ UNCHANGED wire

(* Mutant: a repeated package is not answered.                             *)
AnswerAgainMute(p) ==
    /\ creator.adm = p.signer
    /\ NoFault
    /\ UNCHANGED <<creator, saved, wire>>

(* answer_key_package, a repeated package of the admitted signer.          *)
AnswerAgain(p) ==
    /\ creator.adm = p.signer
    /\ Publishes(Welcome(p.signer))
    /\ UNCHANGED <<creator, saved>>

(* admit_invitation_package                                                *)
RecvPackage(outcome) ==
    /\ creator # None
    /\ \E p \in wire :
          /\ p.kind = "package" /\ Acceptable(p)
          /\ IF creator.adm = None THEN Admit(p, outcome)
             ELSE outcome = "saved" /\ AnswerAgain(p)
    /\ UNCHANGED <<joiner, kept, drawn, hellos, shown>>

(* pump_hello, send_hello                                                  *)
CreatorHello ==
    /\ creator # None /\ creator.adm # None
    /\ LET h == [to |-> creator.adm[1], signer |-> creator.adm]
       IN  /\ h \notin hellos
           /\ \/ hellos' = hellos \cup {h} /\ NoFault
              \/ hellos' = hellos /\ Happens("lost")
    /\ UNCHANGED <<creator, saved, joiner, kept, drawn, wire, shown>>

(* accept_hello: it decrypts when it comes from the admitted signer.       *)
CreatorRecvHello(h) ==
    /\ h \in hellos /\ h.to = None
    /\ hellos' = hellos \ {h}
    /\ creator' = IF creator # None /\ creator.adm = h.signer
                  THEN [creator EXCEPT !.st = AuthenticatedFrame(@)] ELSE creator
    /\ UNCHANGED <<saved, joiner, kept, drawn, wire, shown, faults>>

(* pump_liveness: nothing authenticated came for the whole lost window.    *)
CreatorLapse ==
    /\ creator # None /\ creator.st = "connected" /\ Happens("lapse")
    /\ creator' = [creator EXCEPT !.st = CounterpartLost(@)]
    /\ UNCHANGED <<saved, joiner, kept, drawn, wire, hellos, shown>>

(* persist_tail: a record that is due is saved, or stays due.              *)
CreatorTail ==
    /\ creator # None /\ creator.due
    /\ saved' = RecordOf(creator)
    /\ creator' = [creator EXCEPT !.due = FALSE]
    /\ UNCHANGED <<joiner, kept, drawn, wire, hellos, shown, faults>>

(* close_session: the session goes; a delete that fails is only logged.    *)
CreatorClose ==
    /\ creator # None /\ Happens("close")
    /\ creator' = None
    /\ saved' \in {None, saved}
    /\ UNCHANGED <<joiner, kept, drawn, wire, hellos, shown>>

(* Mutant: only an inbound message proves that the handshake ran.          *)
RestoredUnproved(r) ==
    [link |-> r.link, opened |-> r.opened, adm |-> r.adm, due |-> FALSE,
     st |-> "pending"]

(* restore_session, note_restored_history                                  *)
RestoredCreator(r) ==
    [link |-> r.link, opened |-> r.opened, adm |-> r.adm, due |-> FALSE,
     st |-> IF r.adm = None THEN "pending" ELSE "handshaking"]

(* The process stops and comes back: rehydrate.                            *)
(* list_pending_invites and the chat's menu show the link of the record.   *)
CreatorCrash ==
    /\ creator # None \/ saved # None
    /\ Happens("crash")
    /\ creator' = IF saved = None THEN None ELSE RestoredCreator(saved)
    /\ shown' = IF saved = None \/ \E l \in shown : l.link = saved.link
                THEN shown
                ELSE shown \cup {[link |-> saved.link, live |-> TRUE]}
    /\ UNCHANGED <<saved, joiner, kept, drawn, wire, hellos>>

-----------------------------------------------------------------------------
(* An installation that accepts a link                                     *)

(* accept_invite, prepare_invite_restoring, publish_prepared_join: a link  *)
(* for another installation is refused; a session it holds already is a    *)
(* duplicate.  A publication that fails for another reason than missing    *)
(* peers undoes everything and is no step.                                 *)
Accept(j) ==
    /\ joiner[j] = None /\ drawn[j] < Accepts
    /\ \E l \in shown :
          /\ l.link.target \in {None, j}
          /\ LET s == [link |-> l.link, signer |-> <<j, drawn[j] + 1>>,
                       joined |-> FALSE, st |-> "pending"]
             IN  joiner' = [joiner EXCEPT ![j] = s] /\ Publishes(Package(s, j))
    /\ drawn' = [drawn EXCEPT ![j] = @ + 1]
    /\ UNCHANGED <<creator, saved, kept, hellos, shown>>

(* pump_handshake                                                          *)
ResendPackage(j) ==
    /\ joiner[j] # None /\ ~joiner[j].joined
    /\ Publishes(Package(joiner[j], j))
    /\ UNCHANGED <<creator, saved, joiner, kept, drawn, hellos, shown>>

(* accept_welcome: only the Welcome made for the own package opens.        *)
RecvWelcome(j) ==
    /\ joiner[j] # None /\ ~joiner[j].joined
    /\ Welcome(joiner[j].signer) \in wire
    /\ joiner' = [joiner EXCEPT ![j].joined = TRUE,
                                ![j].st = HandshakeFrame(@)]
    /\ UNCHANGED <<creator, saved, kept, drawn, wire, hellos, shown, faults>>

JoinerHello(j) ==
    /\ joiner[j] # None /\ joiner[j].joined
    /\ LET h == [to |-> None, signer |-> joiner[j].signer]
       IN  /\ h \notin hellos
           /\ \/ hellos' = hellos \cup {h} /\ NoFault
              \/ hellos' = hellos /\ Happens("lost")
    /\ UNCHANGED <<creator, saved, joiner, kept, drawn, wire, shown>>

JoinerRecvHello(j, h) ==
    /\ h \in hellos /\ h.to = j
    /\ hellos' = hellos \ {h}
    /\ joiner' = IF /\ joiner[j] # None /\ joiner[j].joined
                    /\ joiner[j].signer = h.signer
                 THEN [joiner EXCEPT ![j].st = AuthenticatedFrame(@)] ELSE joiner
    /\ UNCHANGED <<creator, saved, kept, drawn, wire, shown, faults>>

JoinerLapse(j) ==
    /\ joiner[j] # None /\ joiner[j].st = "connected" /\ Happens("lapse")
    /\ joiner' = [joiner EXCEPT ![j].st = CounterpartLost(@)]
    /\ UNCHANGED <<creator, saved, kept, drawn, wire, hellos, shown>>

(* What rehydrate makes of the session's record.                           *)
Restored(s) == [s EXCEPT !.st = "handshaking"]

(* persist_tail once record_is_final: before the Welcome there is nothing  *)
(* worth saving.                                                           *)
JoinerTail(j) ==
    /\ joiner[j] # None /\ joiner[j].joined /\ kept[j] # Restored(joiner[j])
    /\ kept' = [kept EXCEPT ![j] = Restored(joiner[j])]
    /\ UNCHANGED <<creator, saved, joiner, drawn, wire, hellos, shown, faults>>

JoinerClose(j) ==
    /\ joiner[j] # None /\ Happens("close")
    /\ joiner' = [joiner EXCEPT ![j] = None]
    /\ kept' \in {kept, [kept EXCEPT ![j] = None]}
    /\ UNCHANGED <<creator, saved, drawn, wire, hellos, shown>>

(* A session without its Welcome does not come back.  A record that a      *)
(* failed delete left behind comes back unless the session that followed   *)
(* it has saved its own keys over the old ones.                            *)
JoinerCrash(j) ==
    /\ joiner[j] # None \/ kept[j] # None
    /\ Happens("crash")
    /\ \E s \in IF joiner[j] # None /\ kept[j] # Restored(joiner[j])
                THEN {None, kept[j]} ELSE {kept[j]} :
          joiner' = [joiner EXCEPT ![j] = s]
    /\ UNCHANGED <<creator, saved, kept, drawn, wire, hellos, shown>>

-----------------------------------------------------------------------------
Init ==
    /\ creator = None /\ saved = None
    /\ joiner = [j \in Joiner |-> None] /\ kept = [j \in Joiner |-> None]
    /\ drawn = [j \in Joiner |-> 0]
    /\ wire = {} /\ hellos = {} /\ shown = {}
    /\ faults \in Budgets

CreatorStep ==
    \/ \E outcome \in Outcomes :
          \/ \E opened \in BOOLEAN : CreateInvite(opened, outcome)
          \/ ReplaceInvite(outcome)
          \/ \E j \in Joiner : TargetInvite(j, outcome)
          \/ OpenSession(outcome)
          \/ RecvPackage(outcome)
    \/ CreatorHello
    \/ \E h \in hellos : CreatorRecvHello(h)
    \/ CreatorLapse
    \/ CreatorTail
    \/ CreatorClose
    \/ CreatorCrash

JoinerStep(j) ==
    \/ Accept(j)
    \/ ResendPackage(j)
    \/ RecvWelcome(j)
    \/ JoinerHello(j)
    \/ \E h \in hellos : JoinerRecvHello(j, h)
    \/ JoinerLapse(j)
    \/ JoinerTail(j)
    \/ JoinerClose(j)
    \/ JoinerCrash(j)

Next == CreatorStep \/ \E j \in Joiner : JoinerStep(j)

Spec == Init /\ [][Next]_vars

(* What happens without a user: the tick of either runtime drains what has *)
(* arrived, repeats the package or the Hello, and saves what is due.       *)
Fairness ==
    /\ WF_vars(RecvPackage("saved"))
    /\ WF_vars(CreatorHello)
    /\ WF_vars(\E h \in hellos : CreatorRecvHello(h))
    /\ WF_vars(CreatorTail)
    /\ \A j \in Joiner :
          /\ WF_vars(ResendPackage(j))
          /\ WF_vars(RecvWelcome(j))
          /\ WF_vars(JoinerHello(j))
          /\ WF_vars(\E h \in hellos : JoinerRecvHello(j, h))
          /\ WF_vars(JoinerTail(j))

FairSpec == Spec /\ Fairness

-----------------------------------------------------------------------------
(* The variables have their types, and a chat is pending exactly while its *)
(* side has seen nobody, restored or not (note_restored_history).          *)
TypeOK ==
    /\ creator \in CreatorSession \cup {None}
    /\ saved \in Record \cup {None}
    /\ joiner \in [Joiner -> JoinerSession \cup {None}]
    /\ kept \in [Joiner -> JoinerSession \cup {None}]
    /\ drawn \in [Joiner -> 0 .. Accepts]
    /\ wire \subseteq [kind : {"package"}, signer : Signer, from : Joiner,
                       token : 0 .. Tokens, proved : BOOLEAN]
                      \cup [kind : {"welcome"}, to : Signer]
    /\ hellos \subseteq [to : Joiner \cup {None}, signer : Signer]
    /\ shown \subseteq [link : Link, live : BOOLEAN]
    /\ faults \in [Faults -> Nat]
    /\ creator # None => (creator.st = "pending" <=> creator.adm = None)
    /\ \A j \in Joiner : joiner[j] # None =>
          (joiner[j].st = "pending" <=> ~joiner[j].joined)

(* An invitation lets one counterpart in, ever: every Welcome published is *)
(* for the same signer, and a creator that holds the invitation, restarted *)
(* or not, has that signer and no other ("A different MLS signer can never *)
(* consume a used invitation, including after restart",                    *)
(* answer_key_package).                                                    *)
OneCounterpart ==
    \A m \in wire : m.kind = "welcome" =>
        /\ \A n \in wire : n.kind = "welcome" => n.to = m.to
        /\ creator # None => creator.adm = m.to

(* l lets in the sender of package p.                                      *)
Permits(l, p) ==
    /\ l.token = p.token
    /\ l.target # None => p.proved /\ p.from = l.target

(* Whoever is admitted came by a link that still stood: one the user had   *)
(* been given and had not replaced or bound to somebody else, also when    *)
(* the creator restarted or a save failed in between (replace_invite,      *)
(* authenticated_owned_invite: saved before the link is handed out).       *)
AdmissionByStandingLink ==
    [][ \A signer \in Signer :
          creator # None /\ creator' # None /\ creator'.adm # creator.adm
              /\ creator'.adm = signer
            => \E p \in wire, l \in shown :
                  /\ p.kind = "package" /\ p.signer = signer
                  /\ l.live /\ Permits(l.link, p) ]_vars

(* The chat of one admitted counterpart, both sides running.               *)
Paired(j) ==
    creator # None /\ joiner[j] # None /\ creator.adm = joiner[j].signer

(* Once the creator has admitted an installation, both sides see the other *)
(* connected and the installation has saved the chat, whatever frames were *)
(* lost on the way, unless one of the two closes the chat or loses it.     *)
HandshakeCompletes ==
    \A j \in Joiner :
        Paired(j) ~> (Paired(j) => /\ creator.st = "connected"
                                   /\ joiner[j].st = "connected"
                                   /\ kept[j] # None)
=============================================================================
