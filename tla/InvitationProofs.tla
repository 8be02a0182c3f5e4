--------------------------- MODULE InvitationProofs ---------------------------
(* Theorems about Invitation, for every set of installations, number of     *)
(* tokens and signers, and any number of faults.                            *)
EXTENDS Invitation, TLAPS

PackageFrame == [kind : {"package"}, signer : Signer, from : Joiner,
                 token : 0 .. Tokens, proved : BOOLEAN]
WelcomeFrame == [kind : {"welcome"}, to : Signer]

(* What a record brings back is a chat whose Welcome came. *)
KeptInv ==
    \A j \in Joiner : kept[j] # None => kept[j].joined /\ kept[j].st = "handshaking"

TypeInv == TypeOK /\ KeptInv

LEMMA Constants ==
  /\ Tokens \in Nat \ {0} /\ Accepts \in Nat /\ None \notin Signer /\ None \notin Joiner
  /\ 0 \in 0 .. Tokens /\ 1 \in 0 .. Tokens
  /\ Budgets \subseteq [Faults -> Nat]
  BY InvitationAssumption, NoneAssumption

(* A fault happens within its budget. *)
LEMMA HappensType ==
  ASSUME TypeOK, NEW f \in Faults, Happens(f)
  PROVE  faults' \in [Faults -> Nat]
  BY DEF Happens, TypeOK

LEMMA WriteType ==
  ASSUME TypeOK, NEW o \in Outcomes, NEW r \in Record, Write(o, r)
  PROVE  saved' \in Record \cup {None} /\ faults' \in [Faults -> Nat]
<1>1. saved' \in Record \cup {None}
  BY DEF Write, TypeOK
<1>2. CASE o = "saved"
  BY <1>1, <1>2 DEF Write, NoFault, TypeOK
<1>3. CASE o # "saved"
  <2>1. o \in Faults /\ Happens(o)
    BY <1>3 DEF Write, Outcomes, Faults
  <2> QED BY <1>1, <2>1, HappensType
<1> QED BY <1>2, <1>3

LEMMA PublishesType ==
  ASSUME TypeOK, NEW m \in PackageFrame \cup WelcomeFrame, Publishes(m)
  PROVE  wire' \subseteq PackageFrame \cup WelcomeFrame /\ faults' \in [Faults -> Nat]
<1>1. wire' \subseteq PackageFrame \cup WelcomeFrame
  BY DEF Publishes, TypeOK, PackageFrame, WelcomeFrame
<1>2. "lost" \in Faults
  BY DEF Faults
<1> QED BY <1>1, <1>2, HappensType DEF Publishes, NoFault, TypeOK

(* The creator's session is well formed. *)
SessionOK(s) == s \in CreatorSession /\ (s.st = "pending" <=> s.adm = None)

LEMMA RecordType ==
  ASSUME NEW s \in CreatorSession PROVE RecordOf(s) \in Record
  BY DEF RecordOf, CreatorSession, Record

LEMMA TypeCreator == TypeInv /\ CreatorStep => TypeInv'
<1> SUFFICES ASSUME TypeInv, CreatorStep PROVE TypeInv'
  OBVIOUS
<1> USE Constants DEF TypeInv
<1>t. /\ TypeOK /\ KeptInv
      /\ creator # None => SessionOK(creator)
      /\ saved # None => saved \in Record
      /\ wire \subseteq PackageFrame \cup WelcomeFrame
  BY DEF TypeOK, SessionOK, PackageFrame, WelcomeFrame
<1>g. ASSUME creator' = None \/ SessionOK(creator'), saved' \in Record \cup {None},
             UNCHANGED <<joiner, kept, drawn>>,
             wire' \subseteq PackageFrame \cup WelcomeFrame,
             hellos' \subseteq [to : Joiner \cup {None}, signer : Signer],
             shown' \subseteq [link : Link, live : BOOLEAN],
             faults' \in [Faults -> Nat]
      PROVE  TypeInv'
  <2>1. TypeOK'
    BY <1>g, <1>t DEF TypeOK, SessionOK, PackageFrame, WelcomeFrame
  <2> QED BY <1>g, <1>t, <2>1 DEF KeptInv
<1>q. /\ shown \subseteq [link : Link, live : BOOLEAN]
      /\ hellos \subseteq [to : Joiner \cup {None}, signer : Signer]
      /\ faults \in [Faults -> Nat] /\ saved \in Record \cup {None}
  BY DEF TypeOK
<1>1. ASSUME NEW opened \in BOOLEAN, NEW o \in Outcomes, CreateInvite(opened, o)
      PROVE  TypeInv'
  <2> DEFINE link == [token |-> IF opened THEN 0 ELSE 1, target |-> None]
             s == [link |-> link, opened |-> opened, adm |-> None,
                   st |-> "pending", due |-> FALSE]
  <2>1. link \in Link
    BY DEF Link
  <2>2. SessionOK(s)
    BY <2>1 DEF SessionOK, CreatorSession, States
  <2>3. RecordOf(s) \in Record
    BY <2>2, RecordType DEF SessionOK
  <2>4. saved' \in Record \cup {None} /\ faults' \in [Faults -> Nat]
    BY <1>1, <1>t, <2>3, WriteType DEF CreateInvite
  <2>5. creator' = None \/ SessionOK(creator')
    BY <1>1, <2>2 DEF CreateInvite
  <2>6. shown' \subseteq [link : Link, live : BOOLEAN]
    <3>1. [link |-> link, live |-> TRUE] \in [link : Link, live : BOOLEAN]
      BY <2>1
    <3>2. shown' = shown \/ shown' = {[link |-> link, live |-> TRUE]}
      BY <1>1 DEF CreateInvite
    <3> QED BY <1>q, <3>1, <3>2
  <2> QED BY <1>1, <1>g, <1>t, <1>q, <2>4, <2>5, <2>6 DEF CreateInvite
<1>r. ASSUME NEW s, NEW otherwise, SessionOK(s), SessionOK(otherwise), NEW o \in Outcomes,
             Relink(s, otherwise, o), UNCHANGED <<joiner, kept, drawn, wire, hellos>>
      PROVE  TypeInv'
  <2>1. RecordOf(s) \in Record
    BY <1>r, RecordType DEF SessionOK
  <2>2. saved' \in Record \cup {None} /\ faults' \in [Faults -> Nat]
    BY <1>r, <1>t, <2>1, WriteType DEF Relink
  <2>3. creator' = None \/ SessionOK(creator')
    BY <1>r DEF Relink
  <2>4. s.link \in Link
    BY <1>r DEF SessionOK, CreatorSession
  <2>5. Shows(s.link) \subseteq [link : Link, live : BOOLEAN]
    <3>1. ASSUME NEW l \in shown
          PROVE  [l EXCEPT !.live = FALSE] \in [link : Link, live : BOOLEAN]
      <4>1. l \in [link : Link, live : BOOLEAN]
        BY <1>q
      <4> QED BY <4>1
    <3>2. [link |-> s.link, live |-> TRUE] \in [link : Link, live : BOOLEAN]
      BY <2>4
    <3> QED BY <3>1, <3>2 DEF Shows
  <2>6. shown' \subseteq [link : Link, live : BOOLEAN]
    BY <1>r, <1>q, <2>5 DEF Relink
  <2> QED BY <1>r, <1>g, <1>t, <1>q, <2>2, <2>3, <2>6
<1>2. ASSUME NEW o \in Outcomes, ReplaceInvite(o) PROVE TypeInv'
  <2>1. PICK t \in 1 .. Tokens :
          Relink([creator EXCEPT !.link.token = t, !.due = TRUE], creator, o)
    BY <1>2 DEF ReplaceInvite
  <2>2. creator \in CreatorSession /\ SessionOK(creator) /\ t \in 0 .. Tokens
    BY <1>2, <1>t DEF ReplaceInvite, InviteAvailable, SessionOK
  <2>3. SessionOK([creator EXCEPT !.link.token = t, !.due = TRUE])
    BY <2>2 DEF SessionOK, CreatorSession, Link
  <2> QED BY <1>2, <1>r, <2>1, <2>2, <2>3 DEF ReplaceInvite
<1>3. ASSUME NEW j \in Joiner, NEW o \in Outcomes, TargetInvite(j, o) PROVE TypeInv'
  <2>1. creator \in CreatorSession /\ SessionOK(creator)
    BY <1>3, <1>t DEF TargetInvite, InviteAvailable, SessionOK
  <2>2. /\ SessionOK([creator EXCEPT !.link.target = j, !.due = FALSE])
        /\ SessionOK([creator EXCEPT !.due = TRUE])
    BY <2>1 DEF SessionOK, CreatorSession, Link
  <2> QED BY <1>3, <1>r, <2>2 DEF TargetInvite
<1>4. ASSUME NEW o \in Outcomes, OpenSession(o) PROVE TypeInv'
  <2>1. creator \in CreatorSession /\ SessionOK(creator)
    BY <1>4, <1>t DEF OpenSession, InviteAvailable, SessionOK
  <2>2. /\ SessionOK([creator EXCEPT !.opened = TRUE])
        /\ SessionOK([creator EXCEPT !.opened = TRUE, !.due = TRUE])
    BY <2>1 DEF SessionOK, CreatorSession
  <2>3. RecordOf([creator EXCEPT !.opened = TRUE]) \in Record
    BY <2>2, RecordType DEF SessionOK
  <2>4. saved' \in Record \cup {None} /\ faults' \in [Faults -> Nat]
    BY <1>4, <1>t, <2>3, WriteType DEF OpenSession
  <2>5. creator' = None \/ SessionOK(creator')
    BY <1>4, <2>1, <2>2 DEF OpenSession
  <2> QED BY <1>4, <1>g, <1>t, <1>q, <2>4, <2>5 DEF OpenSession
<1>5. ASSUME NEW o \in Outcomes, RecvPackage(o) PROVE TypeInv'
  <2>1. PICK p \in wire :
          /\ p.kind = "package" /\ Acceptable(p)
          /\ IF creator.adm = None THEN Admit(p, o) ELSE o = "saved" /\ AnswerAgain(p)
    BY <1>5 DEF RecvPackage
  <2>2. creator \in CreatorSession /\ SessionOK(creator) /\ p.signer \in Signer
    BY <1>5, <1>t, <2>1 DEF RecvPackage, SessionOK, PackageFrame, WelcomeFrame
  <2>3. Welcome(p.signer) \in PackageFrame \cup WelcomeFrame
    BY <2>2 DEF Welcome, WelcomeFrame
  <2> DEFINE s == [creator EXCEPT !.adm = p.signer, !.due = TRUE, !.st = HandshakeFrame(@)]
  <2>4. SessionOK(s)
    BY <2>2 DEF SessionOK, CreatorSession, HandshakeFrame, States
  <2>5. RecordOf(s) \in Record
    BY <2>4, RecordType DEF SessionOK
  <2> HIDE DEF s
  <2>6. CASE Admit(p, o) /\ o = "saved"
    <3>1. creator' = s /\ saved' = RecordOf(s) /\ Publishes(Welcome(p.signer))
      BY <2>6 DEF Admit, s
    <3>2. wire' \subseteq PackageFrame \cup WelcomeFrame /\ faults' \in [Faults -> Nat]
      BY <1>t, <2>3, <3>1, PublishesType
    <3> QED BY <1>5, <1>g, <1>q, <2>4, <2>5, <3>1, <3>2 DEF RecvPackage
  <2>7. CASE Admit(p, o) /\ o # "saved"
    <3>1. creator' = creator /\ Write(o, RecordOf(s)) /\ UNCHANGED wire
      BY <2>7 DEF Admit, s
    <3>2. saved' \in Record \cup {None} /\ faults' \in [Faults -> Nat]
      BY <1>t, <2>5, <3>1, WriteType
    <3> QED BY <1>5, <1>g, <1>t, <1>q, <2>2, <3>1, <3>2 DEF RecvPackage
  <2>8. CASE AnswerAgain(p)
    <3>1. wire' \subseteq PackageFrame \cup WelcomeFrame /\ faults' \in [Faults -> Nat]
      BY <1>t, <2>3, <2>8, PublishesType DEF AnswerAgain
    <3> QED BY <1>5, <1>g, <1>q, <2>2, <2>8, <3>1 DEF RecvPackage, AnswerAgain
  <2> QED BY <2>1, <2>6, <2>7, <2>8
<1>f. "lost" \in Faults /\ "lapse" \in Faults /\ "close" \in Faults /\ "crash" \in Faults
  BY DEF Faults
<1>6. CASE CreatorHello
  <2>1. creator.adm \in Signer /\ SessionOK(creator)
    BY <1>6, <1>t DEF CreatorHello, SessionOK, CreatorSession
  <2>2. [to |-> creator.adm[1], signer |-> creator.adm]
           \in [to : Joiner \cup {None}, signer : Signer]
    BY <2>1 DEF Signer
  <2>3. faults' \in [Faults -> Nat]
    BY <1>6, <1>t, <1>q, <1>f, HappensType DEF CreatorHello, NoFault
  <2> QED BY <1>6, <1>g, <1>t, <1>q, <2>1, <2>2, <2>3 DEF CreatorHello
<1>7. ASSUME NEW h \in hellos, CreatorRecvHello(h) PROVE TypeInv'
  <2>1. h.signer \in Signer
    BY <1>q
  <2>2. creator' = None \/ SessionOK(creator')
    BY <1>7, <1>t, <2>1 DEF CreatorRecvHello, SessionOK, CreatorSession, AuthenticatedFrame, States
  <2> QED BY <1>7, <1>g, <1>t, <1>q, <2>2 DEF CreatorRecvHello
<1>8. CASE CreatorLapse
  <2>1. SessionOK(creator')
    BY <1>8, <1>t DEF CreatorLapse, SessionOK, CreatorSession, CounterpartLost, States
  <2>2. faults' \in [Faults -> Nat]
    BY <1>8, <1>t, <1>f, HappensType DEF CreatorLapse
  <2> QED BY <1>8, <1>g, <1>t, <1>q, <2>1, <2>2 DEF CreatorLapse
<1>9. CASE CreatorTail
  <2>1. SessionOK(creator') /\ RecordOf(creator) \in Record
    BY <1>9, <1>t, RecordType DEF CreatorTail, SessionOK, CreatorSession
  <2> QED BY <1>9, <1>g, <1>t, <1>q, <2>1 DEF CreatorTail
<1>10. CASE CreatorClose
  <2>2. faults' \in [Faults -> Nat]
    BY <1>10, <1>t, <1>f, HappensType DEF CreatorClose
  <2> QED BY <1>10, <1>g, <1>t, <1>q, <2>2 DEF CreatorClose
<1>11. CASE CreatorCrash
  <2>1. creator' = None \/ SessionOK(creator')
    BY <1>11, <1>t DEF CreatorCrash, RestoredCreator, SessionOK, CreatorSession, Record, States
  <2>2. faults' \in [Faults -> Nat]
    BY <1>11, <1>t, <1>f, HappensType DEF CreatorCrash
  <2>3. saved # None => [link |-> saved.link, live |-> TRUE] \in [link : Link, live : BOOLEAN]
    BY <1>t DEF Record
  <2>4. shown' \subseteq [link : Link, live : BOOLEAN]
    BY <1>11, <1>q, <2>3 DEF CreatorCrash
  <2> QED BY <1>11, <1>g, <1>t, <1>q, <2>1, <2>2, <2>4 DEF CreatorCrash
<1> QED BY <1>1, <1>2, <1>3, <1>4, <1>5, <1>6, <1>7, <1>8, <1>9, <1>10, <1>11 DEF CreatorStep

LEMMA TypeJoiner == ASSUME NEW j \in Joiner PROVE TypeInv /\ JoinerStep(j) => TypeInv'
<1> SUFFICES ASSUME TypeInv, JoinerStep(j) PROVE TypeInv'
  OBVIOUS
<1> USE Constants DEF TypeInv
<1> DEFINE SideOK(s) == s \in JoinerSession /\ (s.st = "pending" <=> ~s.joined)
<1>t. /\ TypeOK /\ KeptInv
      /\ joiner[j] # None => SideOK(joiner[j])
      /\ kept[j] # None => kept[j] \in JoinerSession /\ SideOK(kept[j])
      /\ wire \subseteq PackageFrame \cup WelcomeFrame
  BY DEF TypeOK, KeptInv, PackageFrame, WelcomeFrame
<1>q. /\ joiner \in [Joiner -> JoinerSession \cup {None}]
      /\ kept \in [Joiner -> JoinerSession \cup {None}]
      /\ drawn \in [Joiner -> 0 .. Accepts]
      /\ hellos \subseteq [to : Joiner \cup {None}, signer : Signer]
      /\ shown \subseteq [link : Link, live : BOOLEAN]
      /\ faults \in [Faults -> Nat]
  BY DEF TypeOK
<1>g. ASSUME UNCHANGED <<creator, saved, shown>>,
             \E s : (s = None \/ SideOK(s)) /\ joiner' = [joiner EXCEPT ![j] = s],
             kept' \in [Joiner -> JoinerSession \cup {None}], KeptInv',
             drawn' \in [Joiner -> 0 .. Accepts],
             wire' \subseteq PackageFrame \cup WelcomeFrame,
             hellos' \subseteq [to : Joiner \cup {None}, signer : Signer],
             faults' \in [Faults -> Nat]
      PROVE  TypeInv'
  <2>1. PICK s : (s = None \/ SideOK(s)) /\ joiner' = [joiner EXCEPT ![j] = s]
    BY <1>g
  <2>2. joiner' \in [Joiner -> JoinerSession \cup {None}]
    BY <1>q, <2>1
  <2>3. \A i \in Joiner : joiner'[i] # None => (joiner'[i].st = "pending" <=> ~joiner'[i].joined)
    BY <1>q, <2>1 DEF TypeOK
  <2>4. TypeOK'
    BY <1>g, <1>t, <2>2, <2>3 DEF TypeOK, PackageFrame, WelcomeFrame
  <2> QED BY <1>g, <2>4
<1>k. kept' = kept => KeptInv'
  BY <1>t DEF KeptInv
<1>s. \E s : (s = None \/ SideOK(s)) /\ joiner = [joiner EXCEPT ![j] = s]
  <2>1. joiner = [joiner EXCEPT ![j] = joiner[j]]
    BY <1>q
  <2> QED BY <1>t, <2>1
<1>p. ASSUME NEW s, SideOK(s) PROVE Package(s, j) \in PackageFrame \cup WelcomeFrame
  BY <1>p DEF Package, PackageFrame, JoinerSession, Link
<1>f. "lost" \in Faults /\ "lapse" \in Faults /\ "close" \in Faults /\ "crash" \in Faults
  BY DEF Faults
<1>1. CASE Accept(j)
  <2>1. PICK l \in shown :
          LET s == [link |-> l.link, signer |-> <<j, drawn[j] + 1>>,
                    joined |-> FALSE, st |-> "pending"]
          IN  joiner' = [joiner EXCEPT ![j] = s] /\ Publishes(Package(s, j))
    BY <1>1 DEF Accept
  <2> DEFINE s == [link |-> l.link, signer |-> <<j, drawn[j] + 1>>,
                   joined |-> FALSE, st |-> "pending"]
  <2>2. l.link \in Link /\ drawn[j] + 1 \in 1 .. Accepts
    BY <1>1, <1>q DEF Accept
  <2>3. <<j, drawn[j] + 1>> \in Signer
    BY <2>2 DEF Signer
  <2>4. SideOK(s)
    BY <2>2, <2>3 DEF JoinerSession, States
  <2>5. joiner' = [joiner EXCEPT ![j] = s] /\ Publishes(Package(s, j))
    BY <2>1
  <2> HIDE DEF s
  <2>6. wire' \subseteq PackageFrame \cup WelcomeFrame /\ faults' \in [Faults -> Nat]
    BY <1>p, <1>t, <2>4, <2>5, PublishesType
  <2>7. drawn' \in [Joiner -> 0 .. Accepts]
    BY <1>1, <1>q, <2>2 DEF Accept
  <2> QED BY <1>1, <1>g, <1>k, <1>q, <2>4, <2>5, <2>6, <2>7 DEF Accept
<1>2. CASE ResendPackage(j)
  <2>1. wire' \subseteq PackageFrame \cup WelcomeFrame /\ faults' \in [Faults -> Nat]
    BY <1>2, <1>p, <1>t, PublishesType DEF ResendPackage
  <2> QED BY <1>2, <1>g, <1>k, <1>q, <1>s, <2>1 DEF ResendPackage
<1>3. CASE RecvWelcome(j)
  <2>1. SideOK([joiner[j] EXCEPT !.joined = TRUE, !.st = HandshakeFrame(@)])
    BY <1>3, <1>t DEF RecvWelcome, HandshakeFrame, JoinerSession, States
  <2>2. joiner' = [joiner EXCEPT ![j] = [joiner[j] EXCEPT !.joined = TRUE, !.st = HandshakeFrame(@)]]
    BY <1>3, <1>q DEF RecvWelcome
  <2> QED BY <1>3, <1>g, <1>k, <1>q, <1>t, <2>1, <2>2 DEF RecvWelcome
<1>4. CASE JoinerHello(j)
  <2>1. [to |-> None, signer |-> joiner[j].signer] \in [to : Joiner \cup {None}, signer : Signer]
    BY <1>4, <1>t DEF JoinerHello, JoinerSession
  <2>2. hellos' \subseteq [to : Joiner \cup {None}, signer : Signer]
    BY <1>4, <1>q, <2>1 DEF JoinerHello
  <2>3. faults' \in [Faults -> Nat]
    BY <1>4, <1>t, <1>q, <1>f, HappensType DEF JoinerHello, NoFault
  <2> QED BY <1>4, <1>g, <1>k, <1>q, <1>s, <1>t, <2>2, <2>3 DEF JoinerHello
<1>5. ASSUME NEW h \in hellos, JoinerRecvHello(j, h) PROVE TypeInv'
  <2>1. \E s : (s = None \/ SideOK(s)) /\ joiner' = [joiner EXCEPT ![j] = s]
    <3>1. CASE joiner' = joiner
      BY <1>s, <3>1
    <3>2. CASE joiner' # joiner
      <4>1. joiner[j] # None /\ joiner[j].joined
            /\ joiner' = [joiner EXCEPT ![j] = [joiner[j] EXCEPT !.st = "connected"]]
        BY <1>5, <3>2 DEF JoinerRecvHello, AuthenticatedFrame
      <4>2. SideOK([joiner[j] EXCEPT !.st = "connected"])
        BY <1>t, <4>1 DEF JoinerSession, States
      <4> QED BY <4>1, <4>2
    <3> QED BY <3>1, <3>2
  <2> QED BY <1>5, <1>g, <1>k, <1>q, <1>t, <2>1 DEF JoinerRecvHello
<1>6. CASE JoinerLapse(j)
  <2>1. SideOK([joiner[j] EXCEPT !.st = "handshaking"])
    BY <1>6, <1>t DEF JoinerLapse, JoinerSession, States
  <2>2. joiner' = [joiner EXCEPT ![j] = [joiner[j] EXCEPT !.st = "handshaking"]]
    BY <1>6 DEF JoinerLapse, CounterpartLost
  <2>3. faults' \in [Faults -> Nat]
    BY <1>6, <1>t, <1>f, HappensType DEF JoinerLapse
  <2> QED BY <1>6, <1>g, <1>k, <1>q, <1>t, <2>1, <2>2, <2>3 DEF JoinerLapse
<1>7. CASE JoinerTail(j)
  <2>1. Restored(joiner[j]) \in JoinerSession /\ Restored(joiner[j]).joined
        /\ Restored(joiner[j]).st = "handshaking"
    BY <1>7, <1>t DEF JoinerTail, Restored, JoinerSession, States
  <2>2. kept' \in [Joiner -> JoinerSession \cup {None}]
    BY <1>7, <1>q, <2>1 DEF JoinerTail
  <2>3. KeptInv'
    BY <1>7, <1>q, <1>t, <2>1 DEF JoinerTail, KeptInv
  <2> QED BY <1>7, <1>g, <1>q, <1>s, <1>t, <2>2, <2>3 DEF JoinerTail
<1>8. CASE JoinerClose(j)
  <2>1. kept' \in [Joiner -> JoinerSession \cup {None}] /\ KeptInv'
    BY <1>8, <1>q, <1>t DEF JoinerClose, KeptInv
  <2>2. faults' \in [Faults -> Nat]
    BY <1>8, <1>t, <1>f, HappensType DEF JoinerClose
  <2>3. joiner' = [joiner EXCEPT ![j] = None]
    BY <1>8 DEF JoinerClose
  <2> QED BY <1>8, <1>g, <1>q, <1>t, <2>1, <2>2, <2>3 DEF JoinerClose
<1>9. CASE JoinerCrash(j)
  <2>1. PICK s \in {None, kept[j]} : joiner' = [joiner EXCEPT ![j] = s]
    BY <1>9 DEF JoinerCrash
  <2>2. s = None \/ SideOK(s)
    BY <1>t, <2>1
  <2>3. faults' \in [Faults -> Nat]
    BY <1>9, <1>t, <1>f, HappensType DEF JoinerCrash
  <2> QED BY <1>9, <1>g, <1>k, <1>q, <1>t, <2>1, <2>2, <2>3 DEF JoinerCrash
<1> QED BY <1>1, <1>2, <1>3, <1>4, <1>5, <1>6, <1>7, <1>8, <1>9 DEF JoinerStep

LEMMA TypeInit == Init => TypeInv
  BY Constants DEF Init, TypeInv, TypeOK, KeptInv

LEMMA TypeNext == TypeInv /\ [Next]_vars => TypeInv'
<1> SUFFICES ASSUME TypeInv, [Next]_vars PROVE TypeInv'
  OBVIOUS
<1>1. CASE Next
  BY <1>1, TypeCreator, TypeJoiner DEF Next
<1>2. CASE UNCHANGED vars
  BY <1>2 DEF vars, TypeInv, TypeOK, KeptInv
<1> QED BY <1>1, <1>2

(* Every variable keeps its type; in particular a side's chat is pending    *)
(* exactly while it has seen nobody, also after any restart.                *)
THEOREM TypeCorrect == Spec => []TypeOK
<1>1. Spec => []TypeInv
  BY TypeInit, TypeNext, PTL DEF Spec
<1>2. TypeInv => TypeOK
  BY DEF TypeInv
<1> QED BY <1>1, <1>2, PTL

-----------------------------------------------------------------------------
(* One counterpart *)

Welcomes == {m \in wire : m.kind = "welcome"}

(* All Welcomes are for one signer, and both the running creator and its    *)
(* record have admitted that signer, so neither a restart nor a later       *)
(* package can make the creator admit another; and an invitation that was   *)
(* shown is not created again.                                              *)
WelcomeInv ==
    /\ \A m, n \in Welcomes : n.to = m.to
    /\ \A m \in Welcomes : /\ creator # None => creator.adm = m.to
                           /\ saved # None => saved.adm = m.to
                           /\ shown # {}
    /\ creator # None => shown # {}
    /\ creator # None /\ saved # None /\ creator.adm # None => saved.adm = creator.adm

OneInv == TypeInv /\ WelcomeInv

(* A creator that has admitted nobody has sent no Welcome. *)
LEMMA NoWelcomeYet ==
  ASSUME OneInv, creator # None, creator.adm = None
  PROVE  Welcomes = {}
<1>1. \A m \in Welcomes : m.to \in Signer
  BY DEF OneInv, TypeInv, TypeOK, Welcomes
<1> QED BY <1>1, Constants DEF OneInv, WelcomeInv

LEMMA WelcomeNext == OneInv /\ Next => WelcomeInv'
<1> SUFFICES ASSUME OneInv, Next PROVE WelcomeInv'
  OBVIOUS
<1>t. TypeInv /\ WelcomeInv
  BY DEF OneInv
<1>w. wire' = wire => Welcomes' = Welcomes
  BY DEF Welcomes
<1>c. creator # None => creator \in CreatorSession
  BY <1>t DEF TypeInv, TypeOK
<1>n. ASSUME creator # None, creator.adm = None, wire' = wire, shown' # {},
             creator' # None => creator'.adm = None
      PROVE  WelcomeInv'
  <2>1. Welcomes' = {}
    BY <1>n, <1>w, NoWelcomeYet
  <2> QED BY <1>n, <2>1 DEF WelcomeInv
<1>s. \A x : shown # {} => Shows(x) # {}
  BY DEF Shows
<1>1. ASSUME NEW opened \in BOOLEAN, NEW o \in Outcomes, CreateInvite(opened, o)
      PROVE  WelcomeInv'
  <2>1. Welcomes' = {}
    BY <1>1, <1>t, <1>w DEF CreateInvite, WelcomeInv
  <2>2. creator' # None => creator'.adm = None /\ shown' # {}
    BY <1>1 DEF CreateInvite
  <2> QED BY <2>1, <2>2 DEF WelcomeInv
<1>2. ASSUME NEW o \in Outcomes, ReplaceInvite(o) PROVE WelcomeInv'
  <2>0. creator # None /\ creator.adm = None /\ wire' = wire
    BY <1>2 DEF ReplaceInvite, InviteAvailable
  <2>1. PICK t \in 1 .. Tokens :
          Relink([creator EXCEPT !.link.token = t, !.due = TRUE], creator, o)
    BY <1>2 DEF ReplaceInvite
  <2>2. [creator EXCEPT !.link.token = t, !.due = TRUE].adm = creator.adm
    BY <1>c, <2>0 DEF CreatorSession
  <2>3. creator'.adm = None /\ shown' # {}
    BY <1>t, <1>s, <2>0, <2>1, <2>2 DEF Relink, WelcomeInv
  <2> QED BY <1>n, <2>0, <2>3
<1>3. ASSUME NEW j \in Joiner, NEW o \in Outcomes, TargetInvite(j, o) PROVE WelcomeInv'
  <2>0. creator # None /\ creator.adm = None /\ wire' = wire
    BY <1>3 DEF TargetInvite, InviteAvailable
  <2>2. /\ [creator EXCEPT !.link.target = j, !.due = FALSE].adm = creator.adm
        /\ [creator EXCEPT !.due = TRUE].adm = creator.adm
    BY <1>c, <2>0 DEF CreatorSession
  <2>3. creator'.adm = None /\ shown' # {}
    BY <1>3, <1>t, <1>s, <2>0, <2>2 DEF TargetInvite, Relink, WelcomeInv
  <2> QED BY <1>n, <2>0, <2>3
<1>4. ASSUME NEW o \in Outcomes, OpenSession(o) PROVE WelcomeInv'
  <2>0. creator # None /\ creator.adm = None /\ wire' = wire
    BY <1>4 DEF OpenSession, InviteAvailable
  <2>1. [creator EXCEPT !.opened = TRUE, !.due = TRUE].adm = creator.adm
    BY <1>c, <2>0 DEF CreatorSession
  <2>2. creator'.adm = None /\ shown' # {}
    BY <1>4, <1>t, <2>0, <2>1 DEF OpenSession, WelcomeInv
  <2> QED BY <1>n, <2>0, <2>2
<1>5. ASSUME NEW o \in Outcomes, RecvPackage(o) PROVE WelcomeInv'
  <2>0. creator # None /\ creator \in CreatorSession /\ shown' = shown /\ shown # {}
    BY <1>5, <1>c, <1>t DEF RecvPackage, WelcomeInv
  <2>1. PICK p \in wire :
          /\ p.kind = "package" /\ Acceptable(p)
          /\ IF creator.adm = None THEN Admit(p, o) ELSE o = "saved" /\ AnswerAgain(p)
    BY <1>5 DEF RecvPackage
  <2> DEFINE s == [creator EXCEPT !.adm = p.signer, !.due = TRUE, !.st = HandshakeFrame(@)]
  <2>2. s.adm = p.signer /\ RecordOf(s).adm = p.signer
    BY <2>0 DEF CreatorSession, RecordOf
  <2>p. Publishes(Welcome(p.signer)) =>
          Welcomes' = Welcomes \/ Welcomes' = Welcomes \cup {Welcome(p.signer)}
    BY DEF Publishes, Welcomes, Welcome
  <2>3. CASE creator.adm = None /\ o = "saved"
    <3>1. creator' = s /\ saved' = RecordOf(s) /\ Publishes(Welcome(p.signer))
      BY <2>1, <2>3 DEF Admit
    <3>2. Welcomes' \subseteq {Welcome(p.signer)}
      BY <2>0, <2>3, <2>p, <3>1, NoWelcomeYet
    <3> HIDE DEF s
    <3> QED BY <2>0, <2>2, <3>1, <3>2 DEF WelcomeInv, Welcome
  <2>4. CASE creator.adm = None /\ o # "saved"
    <3>1. creator' = creator /\ wire' = wire
      BY <2>1, <2>4 DEF Admit
    <3> QED BY <1>n, <2>0, <2>4, <3>1
  <2>5. CASE creator.adm # None
    <3>1. creator.adm = p.signer /\ UNCHANGED <<creator, saved>>
          /\ Publishes(Welcome(p.signer))
      BY <2>1, <2>5 DEF AnswerAgain
    <3>2. \A m \in Welcomes' : m.to = p.signer
      BY <1>t, <2>0, <2>p, <3>1 DEF WelcomeInv, Welcome
    <3> QED BY <1>t, <2>0, <2>5, <3>1, <3>2 DEF WelcomeInv
  <2> QED BY <2>3, <2>4, <2>5
<1>6. CASE CreatorHello
  BY <1>6, <1>t, <1>w DEF CreatorHello, WelcomeInv
<1>a. ASSUME NEW x \in States, creator # None
      PROVE  [creator EXCEPT !.st = x].adm = creator.adm
  BY <1>a, <1>c DEF CreatorSession
<1>7. ASSUME NEW h \in hellos, CreatorRecvHello(h) PROVE WelcomeInv'
  <2>1. creator' = creator \/ (creator # None /\ creator'.adm = creator.adm)
    BY <1>7, <1>a DEF CreatorRecvHello, AuthenticatedFrame, States
  <2> QED BY <1>7, <1>t, <1>w, <2>1 DEF CreatorRecvHello, WelcomeInv
<1>8. CASE CreatorLapse
  <2>1. creator # None /\ creator'.adm = creator.adm
    BY <1>8, <1>a DEF CreatorLapse, CounterpartLost, States
  <2> QED BY <1>8, <1>t, <1>w, <2>1 DEF CreatorLapse, WelcomeInv
<1>9. CASE CreatorTail
  <2>1. creator # None /\ creator'.adm = creator.adm /\ saved'.adm = creator.adm
    BY <1>9, <1>c DEF CreatorTail, CreatorSession, RecordOf
  <2> QED BY <1>9, <1>t, <1>w, <2>1 DEF CreatorTail, WelcomeInv
<1>10. CASE CreatorClose
  BY <1>10, <1>t, <1>w DEF CreatorClose, WelcomeInv
<1>11. CASE CreatorCrash
  <2>1. creator' # None => saved # None /\ creator'.adm = saved.adm /\ shown' # {}
    BY <1>11 DEF CreatorCrash, RestoredCreator
  <2>2. saved' = saved /\ Welcomes' = Welcomes /\ (shown # {} => shown' # {})
    BY <1>11, <1>w DEF CreatorCrash
  <2> QED BY <1>t, <2>1, <2>2 DEF WelcomeInv
<1>12. ASSUME NEW j \in Joiner, JoinerStep(j) PROVE WelcomeInv'
  <2>1. UNCHANGED <<creator, saved, shown>>
    BY <1>12 DEF JoinerStep, Accept, ResendPackage, RecvWelcome, JoinerHello,
       JoinerRecvHello, JoinerLapse, JoinerTail, JoinerClose, JoinerCrash
  <2>2. Welcomes' = Welcomes
    <3>1. CASE Accept(j)
      BY <3>1 DEF Accept, Publishes, Package, Welcomes
    <3>2. CASE ResendPackage(j)
      BY <3>2 DEF ResendPackage, Publishes, Package, Welcomes
    <3>3. CASE ~Accept(j) /\ ~ResendPackage(j)
      BY <1>12, <1>w, <3>3 DEF JoinerStep, RecvWelcome, JoinerHello, JoinerRecvHello,
         JoinerLapse, JoinerTail, JoinerClose, JoinerCrash
    <3> QED BY <3>1, <3>2, <3>3
  <2> QED BY <1>t, <2>1, <2>2 DEF WelcomeInv
<1> QED BY <1>1, <1>2, <1>3, <1>4, <1>5, <1>6, <1>7, <1>8, <1>9, <1>10, <1>11, <1>12
        DEF Next, CreatorStep

(* An invitation lets in one counterpart, ever: whatever packages arrive    *)
(* late or repeated, whatever link was shown, saved or refused, and however *)
(* often the creator restarts, all Welcomes are for one signer.             *)
THEOREM OnlyOneCounterpart == Spec => []OneCounterpart
<1>1. Init => OneInv
  BY TypeInit DEF Init, OneInv, WelcomeInv, Welcomes
<1>2. OneInv /\ [Next]_vars => OneInv'
  <2>1. OneInv /\ Next => OneInv'
    BY WelcomeNext, TypeNext DEF OneInv
  <2>2. OneInv /\ UNCHANGED vars => OneInv'
    <3>1. OneInv /\ UNCHANGED vars => TypeInv'
      BY TypeNext DEF OneInv
    <3> QED BY <3>1 DEF vars, OneInv, WelcomeInv, Welcomes
  <2> QED BY <2>1, <2>2
<1>3. OneInv => OneCounterpart
  BY DEF OneInv, WelcomeInv, Welcomes, OneCounterpart
<1> QED BY <1>1, <1>2, <1>3, PTL DEF Spec

-----------------------------------------------------------------------------
(* Admission by a standing link *)

Stands(link) == [link |-> link, live |-> TRUE] \in shown

(* The link in the creator's memory stands; the one in its record stands or *)
(* was never shown; and once a link was bound to an installation, no later  *)
(* one is open to everybody.                                                *)
LinkInv ==
    /\ creator # None => Stands(creator.link)
    /\ saved # None /\ (\E l \in shown : l.link = saved.link) => Stands(saved.link)
    /\ \A l \in shown : l.link.target # None =>
          /\ creator # None => creator.link.target # None
          /\ saved # None => saved.link.target # None

(* A standing link lets in the signer of a package that is on the wire.     *)
Justified(signer) ==
    \E p \in wire, l \in shown : /\ p.kind = "package" /\ p.signer = signer
                                 /\ l.live /\ Permits(l.link, p)

(* An admission that only an uncertain write left in the record, and that a *)
(* restart will bring back, was by a link that still stands.                *)
AdmissionInv ==
    creator # None /\ saved # None /\ saved.adm # creator.adm /\ saved.adm # None
      => Justified(saved.adm)

StandingInv == OneInv /\ LinkInv /\ AdmissionInv

(* What a write leaves in the store. *)
LEMMA WriteSaves ==
  ASSUME NEW o \in Outcomes, NEW r, Write(o, r)
  PROVE  IF o = "refused" THEN saved' = saved ELSE saved' = r
  BY DEF Write

(* Handing out a link keeps the ones handed out before, no longer standing. *)
LEMMA ShowsLinks ==
  ASSUME TypeOK, NEW link \in Link
  PROVE  /\ [link |-> link, live |-> TRUE] \in Shows(link)
         /\ \A l \in Shows(link) : l.link = link \/ \E k \in shown : k.link = l.link
<1>1. shown \subseteq [link : Link, live : BOOLEAN]
  BY DEF TypeOK
<1>2. ASSUME NEW l \in Shows(link) PROVE l.link = link \/ \E k \in shown : k.link = l.link
  <2>1. CASE l = [link |-> link, live |-> TRUE]
    BY <2>1
  <2>2. CASE l # [link |-> link, live |-> TRUE]
    <3>1. PICK k \in shown : l = [k EXCEPT !.live = FALSE]
      BY <1>2, <2>2 DEF Shows
    <3>2. k \in [link : Link, live : BOOLEAN]
      BY <1>1
    <3> QED BY <3>1, <3>2
  <2> QED BY <2>1, <2>2
<1> QED BY <1>2 DEF Shows

LEMMA LinkNext == StandingInv /\ Next => LinkInv'
<1> SUFFICES ASSUME StandingInv, Next PROVE LinkInv'
  OBVIOUS
<1>t. TypeOK /\ LinkInv /\ WelcomeInv
  BY DEF StandingInv, OneInv, TypeInv
<1>c. /\ creator # None => creator \in CreatorSession /\ creator.link \in Link
      /\ shown \subseteq [link : Link, live : BOOLEAN]
  BY <1>t DEF TypeOK, CreatorSession
(* An action that hands out nothing and keeps the link in memory, and saves *)
(* nothing or that link.                                                    *)
<1>k. ASSUME shown' = shown, creator' # None => creator # None /\ creator'.link = creator.link,
             saved' # None => \/ saved' = saved
                              \/ creator # None /\ saved'.link = creator.link
      PROVE  LinkInv'
  BY <1>k, <1>t DEF LinkInv, Stands
<1>1. ASSUME NEW opened \in BOOLEAN, NEW o \in Outcomes, CreateInvite(opened, o)
      PROVE  LinkInv'
  <2> DEFINE link == [token |-> IF opened THEN 0 ELSE 1, target |-> None]
             s == [link |-> link, opened |-> opened, adm |-> None,
                   st |-> "pending", due |-> FALSE]
  <2>1. /\ shown = {} /\ creator = None /\ saved = None
        /\ Write(o, RecordOf(s))
        /\ creator' = IF o = "saved" THEN s ELSE None
        /\ shown' = IF o = "saved" THEN {[link |-> link, live |-> TRUE]} ELSE shown
    BY <1>1 DEF CreateInvite
  <2>2. s.link = link /\ RecordOf(s).link = link /\ link.target = None
    BY DEF RecordOf
  <2>3. saved' # None => saved'.link = link
    BY <2>1, <2>2, WriteSaves
  <2> HIDE DEF s
  <2>4. \A l \in shown' : l = [link |-> link, live |-> TRUE]
    BY <2>1
  <2>5. creator' # None => creator'.link = link /\ o = "saved"
    BY <2>1, <2>2
  <2> HIDE DEF link
  <2>6. o = "saved" => [link |-> link, live |-> TRUE] \in shown'
    BY <2>1
  <2>7. \A l \in shown' : l.link.target = None
    BY <2>2, <2>4
  <2>8. creator' # None => [link |-> creator'.link, live |-> TRUE] \in shown'
    BY <2>5, <2>6
  <2>9. saved' # None /\ (\E l \in shown' : l.link = saved'.link)
          => [link |-> saved'.link, live |-> TRUE] \in shown'
    BY <2>3, <2>4
  <2> QED BY <2>7, <2>8, <2>9 DEF LinkInv, Stands
(* A new link that is bound if any was, and was not shown unless it stands. *)
<1>r. ASSUME NEW s \in CreatorSession, NEW otherwise, NEW o \in Outcomes,
             creator # None, otherwise.link = creator.link, Relink(s, otherwise, o),
             creator.link.target # None => s.link.target # None,
             \A l \in shown : l.link = s.link => Stands(s.link),
             UNCHANGED <<joiner, kept, drawn, wire, hellos>>
      PROVE  LinkInv'
  <2>0. s.link \in Link /\ RecordOf(s).link = s.link
    BY DEF CreatorSession, RecordOf
  <2>1. saved' = (IF o = "refused" THEN saved ELSE RecordOf(s))
    BY <1>r, WriteSaves DEF Relink
  <2>2. CASE o = "saved"
    <3>1. creator' = s /\ saved' = RecordOf(s) /\ shown' = Shows(s.link)
      BY <1>r, <2>1, <2>2 DEF Relink
    <3>2. \A l \in shown' : l.link.target # None => s.link.target # None
      BY <1>r, <1>t, <2>0, <3>1, ShowsLinks DEF LinkInv
    <3>3. [link |-> s.link, live |-> TRUE] \in shown'
      BY <1>t, <2>0, <3>1, ShowsLinks
    <3>4. creator'.link = s.link /\ saved'.link = s.link
      BY <2>0, <3>1
    <3> QED BY <3>2, <3>3, <3>4 DEF LinkInv, Stands
  <2>3. CASE o = "uncertain"
    <3>1. creator' = otherwise /\ saved' = RecordOf(s) /\ shown' = shown
      BY <1>r, <2>1, <2>3 DEF Relink
    <3>2. creator'.link = creator.link /\ saved'.link = s.link
      BY <1>r, <2>0, <3>1
    <3> QED BY <1>r, <1>t, <3>1, <3>2 DEF LinkInv, Stands
  <2>4. CASE o = "refused"
    BY <1>r, <1>k, <2>1, <2>4 DEF Relink
  <2> QED BY <2>2, <2>3, <2>4 DEF Outcomes
<1>2. ASSUME NEW o \in Outcomes, ReplaceInvite(o) PROVE LinkInv'
  <2>0. creator # None /\ creator \in CreatorSession
    BY <1>2, <1>c DEF ReplaceInvite, InviteAvailable
  <2>1. PICK t \in 1 .. Tokens :
          /\ \A l \in shown : l.link.token # t
          /\ Relink([creator EXCEPT !.link.token = t, !.due = TRUE], creator, o)
    BY <1>2 DEF ReplaceInvite
  <2> DEFINE s == [creator EXCEPT !.link.token = t, !.due = TRUE]
  <2>l. /\ [creator.link EXCEPT !.token = t] \in Link
        /\ [creator.link EXCEPT !.token = t].token = t
        /\ [creator.link EXCEPT !.token = t].target = creator.link.target
    BY <2>0, Constants DEF CreatorSession, Link
  <2>2. s \in CreatorSession /\ s.link.token = t /\ s.link.target = creator.link.target
    BY <2>0, <2>l DEF CreatorSession
  <2>3. Relink(s, creator, o) /\ UNCHANGED <<joiner, kept, drawn, wire, hellos>>
    BY <1>2, <2>1 DEF ReplaceInvite
  <2> HIDE DEF s
  <2>4. \A l \in shown : l.link # s.link
    BY <2>1, <2>2
  <2> QED BY <1>r, <2>0, <2>2, <2>3, <2>4
<1>3. ASSUME NEW j \in Joiner, NEW o \in Outcomes, TargetInvite(j, o) PROVE LinkInv'
  <2>0. creator # None /\ creator \in CreatorSession /\ creator.link.target \in {None, j}
    BY <1>3, <1>c DEF TargetInvite, InviteAvailable
  <2> DEFINE s == [creator EXCEPT !.link.target = j, !.due = FALSE]
             d == [creator EXCEPT !.due = TRUE]
  <2>1. j # None
    BY Constants
  <2>2. s \in CreatorSession /\ s.link.target = j /\ d.link = creator.link
    BY <2>0 DEF CreatorSession, Link
  <2>3. creator.link.target = j => s.link = creator.link
    BY <2>0 DEF CreatorSession, Link
  <2>4. Relink(s, d, o) /\ UNCHANGED <<joiner, kept, drawn, wire, hellos>>
    BY <1>3 DEF TargetInvite
  <2> HIDE DEF s, d
  <2>5. \A l \in shown : l.link = s.link => Stands(s.link)
    BY <1>t, <2>0, <2>1, <2>2, <2>3 DEF LinkInv
  <2>6. creator.link.target # None => s.link.target # None
    BY <2>1, <2>2
  <2>7. d.link = creator.link /\ s \in CreatorSession
    BY <2>2
  <2> QED BY <1>r, <2>0, <2>4, <2>5, <2>6, <2>7
<1>4. ASSUME NEW o \in Outcomes, OpenSession(o) PROVE LinkInv'
  <2>0. creator # None /\ creator \in CreatorSession
    BY <1>4, <1>c DEF OpenSession, InviteAvailable
  <2>1. /\ RecordOf([creator EXCEPT !.opened = TRUE]).link = creator.link
        /\ [creator EXCEPT !.opened = TRUE, !.due = TRUE].link = creator.link
    BY <2>0 DEF CreatorSession, RecordOf
  <2>2. creator'.link = creator.link /\ shown' = shown
    BY <1>4, <2>1 DEF OpenSession
  <2>3. saved' = saved \/ saved'.link = creator.link
    BY <1>4, <2>1, WriteSaves DEF OpenSession
  <2> QED BY <1>k, <2>0, <2>2, <2>3
<1>5. ASSUME NEW o \in Outcomes, RecvPackage(o) PROVE LinkInv'
  <2>0. creator # None /\ creator \in CreatorSession /\ shown' = shown
    BY <1>5, <1>c DEF RecvPackage
  <2>1. PICK p \in wire :
          IF creator.adm = None THEN Admit(p, o) ELSE AnswerAgain(p)
    BY <1>5 DEF RecvPackage
  <2> DEFINE s == [creator EXCEPT !.adm = p.signer, !.due = TRUE, !.st = HandshakeFrame(@)]
  <2>2. s.link = creator.link /\ RecordOf(s).link = creator.link
    BY <2>0 DEF CreatorSession, RecordOf
  <2>3. CASE creator.adm = None
    <3>1. \/ creator' = s /\ saved' = RecordOf(s)
          \/ creator' = creator /\ Write(o, RecordOf(s))
      BY <2>1, <2>3 DEF Admit
    <3> HIDE DEF s
    <3>2. saved' = saved \/ saved' = RecordOf(s)
      BY <3>1, WriteSaves
    <3> QED BY <1>k, <2>0, <2>2, <3>1, <3>2
  <2>4. CASE creator.adm # None
    BY <1>k, <2>0, <2>1, <2>4 DEF AnswerAgain
  <2> QED BY <2>3, <2>4
<1>6. CASE CreatorHello
  BY <1>6, <1>k DEF CreatorHello
<1>a. ASSUME NEW x \in States, creator # None
      PROVE  [creator EXCEPT !.st = x].link = creator.link
  BY <1>a, <1>c DEF CreatorSession
<1>7. ASSUME NEW h \in hellos, CreatorRecvHello(h) PROVE LinkInv'
  <2>1. creator' = creator \/ (creator # None /\ creator'.link = creator.link)
    BY <1>7, <1>a DEF CreatorRecvHello, AuthenticatedFrame, States
  <2> QED BY <1>7, <1>k, <2>1 DEF CreatorRecvHello
<1>8. CASE CreatorLapse
  <2>1. creator # None /\ creator'.link = creator.link
    BY <1>8, <1>a DEF CreatorLapse, CounterpartLost, States
  <2> QED BY <1>8, <1>k, <2>1 DEF CreatorLapse
<1>9. CASE CreatorTail
  <2>1. creator # None /\ creator'.link = creator.link /\ saved'.link = creator.link
    BY <1>9, <1>c DEF CreatorTail, CreatorSession, RecordOf
  <2> QED BY <1>9, <1>k, <2>1 DEF CreatorTail
<1>10. CASE CreatorClose
  BY <1>10, <1>k DEF CreatorClose
<1>11. CASE CreatorCrash
  <2>1. CASE saved = None
    BY <1>11, <1>t, <2>1 DEF CreatorCrash, LinkInv
  <2>2. CASE saved # None
    <3>1. saved' = saved /\ creator'.link = saved.link
      BY <1>11, <2>2 DEF CreatorCrash, RestoredCreator
    <3>2. CASE \E l \in shown : l.link = saved.link
      BY <1>11, <1>t, <2>2, <3>1, <3>2 DEF CreatorCrash, LinkInv, Stands
    <3>3. CASE ~ \E l \in shown : l.link = saved.link
      <4>1. shown' = shown \cup {[link |-> saved.link, live |-> TRUE]}
        BY <1>11, <2>2, <3>3 DEF CreatorCrash
      <4>2. \A l \in shown' : l.link.target # None => saved.link.target # None
        BY <1>t, <2>2, <4>1 DEF LinkInv
      <4> QED BY <2>2, <3>1, <4>1, <4>2 DEF LinkInv, Stands
    <3> QED BY <3>2, <3>3
  <2> QED BY <2>1, <2>2
<1>12. ASSUME NEW j \in Joiner, JoinerStep(j) PROVE LinkInv'
  <2>1. UNCHANGED <<creator, saved, shown>>
    BY <1>12 DEF JoinerStep, Accept, ResendPackage, RecvWelcome, JoinerHello,
       JoinerRecvHello, JoinerLapse, JoinerTail, JoinerClose, JoinerCrash
  <2> QED BY <1>k, <2>1
<1> QED BY <1>1, <1>2, <1>3, <1>4, <1>5, <1>6, <1>7, <1>8, <1>9, <1>10, <1>11, <1>12
        DEF Next, CreatorStep


(* A package that the creator's link lets in justifies its admission. *)
LEMMA AcceptableJustifies ==
  ASSUME LinkInv, creator # None, NEW p \in wire, p.kind = "package", Acceptable(p)
  PROVE  Justified(p.signer)
<1>1. [link |-> creator.link, live |-> TRUE] \in shown
  BY DEF LinkInv, Stands
<1>2. Permits(creator.link, p)
  BY DEF Acceptable, Permits
<1> DEFINE k == [link |-> creator.link, live |-> TRUE]
<1>3. k \in shown /\ k.live /\ k.link = creator.link
  BY <1>1
<1> HIDE DEF k
<1>4. k.live /\ Permits(k.link, p)
  BY <1>2, <1>3
<1> QED BY <1>3, <1>4 DEF Justified

(* Whom the running creator admits in a step, by a package or by a restart. *)
LEMMA AdmissionStep ==
  ASSUME StandingInv, Next, creator # None, creator' # None, creator'.adm # creator.adm
  PROVE  /\ Justified(creator'.adm) \/ creator'.adm = None
         /\ saved' # None => saved'.adm = creator'.adm
<1>t. TypeOK /\ LinkInv /\ AdmissionInv /\ creator \in CreatorSession
  BY DEF StandingInv, OneInv, TypeInv, TypeOK
<1>1. ASSUME NEW o \in Outcomes, ReplaceInvite(o) PROVE FALSE
  <2>1. PICK t \in 1 .. Tokens :
          Relink([creator EXCEPT !.link.token = t, !.due = TRUE], creator, o)
    BY <1>1 DEF ReplaceInvite
  <2>2. [creator EXCEPT !.link.token = t, !.due = TRUE].adm = creator.adm
    BY <1>t DEF CreatorSession
  <2> QED BY <2>1, <2>2 DEF Relink
<1>2. ASSUME NEW j \in Joiner, NEW o \in Outcomes, TargetInvite(j, o) PROVE FALSE
  <2>1. /\ [creator EXCEPT !.link.target = j, !.due = FALSE].adm = creator.adm
        /\ [creator EXCEPT !.due = TRUE].adm = creator.adm
    BY <1>t DEF CreatorSession
  <2> QED BY <1>2, <2>1 DEF TargetInvite, Relink
<1>3. ASSUME NEW o \in Outcomes, OpenSession(o) PROVE FALSE
  <2>1. [creator EXCEPT !.opened = TRUE, !.due = TRUE].adm = creator.adm
    BY <1>t DEF CreatorSession
  <2> QED BY <1>3, <2>1 DEF OpenSession
<1>4. ASSUME NEW o \in Outcomes, RecvPackage(o)
      PROVE  Justified(creator'.adm) /\ saved'.adm = creator'.adm
  <2>1. PICK p \in wire :
          /\ p.kind = "package" /\ Acceptable(p)
          /\ IF creator.adm = None THEN Admit(p, o) ELSE o = "saved" /\ AnswerAgain(p)
    BY <1>4 DEF RecvPackage
  <2> DEFINE s == [creator EXCEPT !.adm = p.signer, !.due = TRUE, !.st = HandshakeFrame(@)]
  <2>2. s.adm = p.signer /\ RecordOf(s).adm = p.signer
    BY <1>t DEF CreatorSession, RecordOf
  <2>3. creator' = s /\ saved' = RecordOf(s)
    BY <2>1 DEF Admit, AnswerAgain
  <2> HIDE DEF s
  <2>4. Justified(p.signer)
    BY <1>t, <2>1, AcceptableJustifies
  <2>5. creator'.adm = p.signer /\ saved'.adm = p.signer
    BY <2>2, <2>3
  <2> QED BY <2>4, <2>5
<1>a. \A x \in States : [creator EXCEPT !.st = x].adm = creator.adm
  BY <1>t DEF CreatorSession
<1>5. ASSUME NEW h \in hellos, CreatorRecvHello(h) PROVE FALSE
  BY <1>5, <1>a DEF CreatorRecvHello, AuthenticatedFrame, States
<1>6. CASE CreatorLapse
  BY <1>6, <1>a DEF CreatorLapse, CounterpartLost, States
<1>7. CASE CreatorTail
  BY <1>7, <1>t DEF CreatorTail, CreatorSession
<1>8. CASE CreatorCrash
  <2>1. saved # None /\ creator'.adm = saved.adm /\ saved' = saved
    BY <1>8 DEF CreatorCrash, RestoredCreator
  <2>2. saved.adm # None => Justified(saved.adm)
    BY <1>t, <2>1 DEF AdmissionInv
  <2> QED BY <2>1, <2>2
<1>9. ASSUME NEW j \in Joiner, JoinerStep(j) PROVE FALSE
  BY <1>9 DEF JoinerStep, Accept, ResendPackage, RecvWelcome, JoinerHello,
     JoinerRecvHello, JoinerLapse, JoinerTail, JoinerClose, JoinerCrash
<1> QED
  BY <1>1, <1>2, <1>3, <1>4, <1>5, <1>6, <1>7, <1>8, <1>9
  DEF Next, CreatorStep, CreateInvite, CreatorHello, CreatorClose

LEMMA AdmissionNext == StandingInv /\ Next => AdmissionInv'
<1> SUFFICES ASSUME StandingInv, Next, creator' # None, saved' # None,
                    saved'.adm # creator'.adm, saved'.adm # None
             PROVE  Justified(saved.adm)'
  BY DEF AdmissionInv
<1>t. TypeOK /\ LinkInv /\ AdmissionInv
  BY DEF StandingInv, OneInv, TypeInv
<1>c. creator # None => creator \in CreatorSession
  BY <1>t DEF TypeOK
<1>0. ASSUME creator = None PROVE FALSE
  <2>1. (\E b \in BOOLEAN, o \in Outcomes : CreateInvite(b, o)) \/ CreatorCrash
    BY <1>0 DEF Next, CreatorStep, ReplaceInvite, TargetInvite, OpenSession, RecvPackage,
       InviteAvailable, CreatorHello, CreatorRecvHello, CreatorLapse, CreatorTail,
       CreatorClose, JoinerStep, Accept, ResendPackage, RecvWelcome, JoinerHello,
       JoinerRecvHello, JoinerLapse, JoinerTail, JoinerClose, JoinerCrash
  <2>2. ASSUME NEW b \in BOOLEAN, NEW o \in Outcomes, CreateInvite(b, o) PROVE FALSE
    BY <2>2 DEF CreateInvite, Write, RecordOf
  <2>3. CASE CreatorCrash
    BY <2>3 DEF CreatorCrash, RestoredCreator
  <2> QED BY <2>1, <2>2, <2>3
<1>1. creator # None /\ creator \in CreatorSession /\ creator'.adm = creator.adm
  BY <1>0, <1>c, AdmissionStep
(* The record is as before, and so is what justifies it. *)
<1>k. ASSUME saved' = saved, wire \subseteq wire', shown' = shown
      PROVE  Justified(saved.adm)'
  <2>1. Justified(saved.adm)
    BY <1>k, <1>1, <1>t DEF AdmissionInv
  <2> QED BY <1>k, <2>1 DEF Justified
<1>r. ASSUME NEW r, NEW o \in Outcomes, Write(o, r), r.adm = creator.adm,
             creator.adm = creator'.adm
      PROVE  saved' = saved
  BY <1>r DEF Write
<1>2. ASSUME NEW o \in Outcomes, ReplaceInvite(o) PROVE Justified(saved.adm)'
  <2>1. PICK t \in 1 .. Tokens :
          Relink([creator EXCEPT !.link.token = t, !.due = TRUE], creator, o)
    BY <1>2 DEF ReplaceInvite
  <2>2. RecordOf([creator EXCEPT !.link.token = t, !.due = TRUE]).adm = creator.adm
    BY <1>1 DEF CreatorSession, RecordOf
  <2>3. saved' = saved /\ o = "refused"
    BY <1>1, <2>1, <2>2 DEF Relink, Write
  <2> QED BY <1>2, <1>k, <2>1, <2>3 DEF ReplaceInvite, Relink
<1>3. ASSUME NEW j \in Joiner, NEW o \in Outcomes, TargetInvite(j, o)
      PROVE  Justified(saved.adm)'
  <2>1. RecordOf([creator EXCEPT !.link.target = j, !.due = FALSE]).adm = creator.adm
    BY <1>1 DEF CreatorSession, RecordOf
  <2>2. saved' = saved /\ o = "refused"
    BY <1>1, <1>3, <2>1 DEF TargetInvite, Relink, Write
  <2> QED BY <1>3, <1>k, <2>2 DEF TargetInvite, Relink
<1>4. ASSUME NEW o \in Outcomes, OpenSession(o) PROVE Justified(saved.adm)'
  <2>1. RecordOf([creator EXCEPT !.opened = TRUE]).adm = creator.adm
    BY <1>1 DEF CreatorSession, RecordOf
  <2>2. saved' = saved
    BY <1>1, <1>4, <2>1 DEF OpenSession, Write
  <2> QED BY <1>4, <1>k, <2>2 DEF OpenSession
<1>5. ASSUME NEW o \in Outcomes, RecvPackage(o) PROVE Justified(saved.adm)'
  <2>1. PICK p \in wire :
          /\ p.kind = "package" /\ Acceptable(p)
          /\ IF creator.adm = None THEN Admit(p, o) ELSE o = "saved" /\ AnswerAgain(p)
    BY <1>5 DEF RecvPackage
  <2> DEFINE s == [creator EXCEPT !.adm = p.signer, !.due = TRUE, !.st = HandshakeFrame(@)]
  <2>2. RecordOf(s).adm = p.signer
    BY <1>1 DEF CreatorSession, RecordOf
  <2>3. Justified(p.signer)
    BY <1>t, <1>1, <2>1, AcceptableJustifies
  <2>4. shown' = shown /\ wire \subseteq wire'
    BY <1>5, <2>1 DEF RecvPackage, Admit, AnswerAgain, Publishes
  <2>5. saved' = saved \/ saved' = RecordOf(s)
    BY <2>1 DEF Admit, AnswerAgain, Write
  <2> HIDE DEF s
  <2>6. CASE saved' = RecordOf(s)
    <3>1. saved'.adm = p.signer
      BY <2>2, <2>6
    <3> QED BY <2>3, <2>4, <3>1 DEF Justified
  <2> QED BY <1>k, <2>4, <2>5, <2>6
<1>6. CASE CreatorHello
  BY <1>6, <1>k DEF CreatorHello
<1>7. ASSUME NEW h \in hellos, CreatorRecvHello(h) PROVE Justified(saved.adm)'
  BY <1>7, <1>k DEF CreatorRecvHello
<1>8. CASE CreatorLapse
  BY <1>8, <1>k DEF CreatorLapse
<1>9. CASE CreatorTail
  BY <1>1, <1>9 DEF CreatorTail, RecordOf
<1>10. CASE CreatorCrash
  BY <1>10 DEF CreatorCrash, RestoredCreator
<1>11. ASSUME NEW j \in Joiner, JoinerStep(j) PROVE Justified(saved.adm)'
  <2>1. UNCHANGED <<saved, shown>> /\ wire \subseteq wire'
    BY <1>11 DEF JoinerStep, Accept, ResendPackage, RecvWelcome, JoinerHello, Publishes,
       JoinerRecvHello, JoinerLapse, JoinerTail, JoinerClose, JoinerCrash
  <2> QED BY <1>k, <2>1
<1> QED BY <1>1, <1>2, <1>3, <1>4, <1>5, <1>6, <1>7, <1>8, <1>9, <1>10, <1>11
        DEF Next, CreatorStep, CreateInvite, CreatorClose

(* Whoever the creator admits, by a package or by what a restart brings     *)
(* back after an uncertain write, came by a link that its user had been     *)
(* given and had not replaced or bound to somebody else.                    *)
THEOREM AdmittedByStandingLink == Spec => AdmissionByStandingLink
<1>1. Init => StandingInv
  <2>1. Init => OneInv
    BY TypeInit DEF Init, OneInv, WelcomeInv, Welcomes
  <2> QED BY <2>1 DEF Init, StandingInv, LinkInv, AdmissionInv
<1>2. StandingInv /\ [Next]_vars => StandingInv'
  <2>1. StandingInv /\ Next => StandingInv'
    BY WelcomeNext, TypeNext, LinkNext, AdmissionNext DEF StandingInv, OneInv
  <2>2. StandingInv /\ UNCHANGED vars => StandingInv'
    <3>1. StandingInv /\ UNCHANGED vars => TypeInv'
      BY TypeNext DEF StandingInv, OneInv
    <3> QED BY <3>1 DEF vars, StandingInv, OneInv, WelcomeInv, Welcomes, LinkInv, Stands,
                        AdmissionInv, Justified
  <2> QED BY <2>1, <2>2
<1>3. StandingInv /\ [Next]_vars =>
        [ \A signer \in Signer :
            creator # None /\ creator' # None /\ creator'.adm # creator.adm
                /\ creator'.adm = signer
              => \E p \in wire, l \in shown :
                    /\ p.kind = "package" /\ p.signer = signer
                    /\ l.live /\ Permits(l.link, p) ]_vars
  <2>1. ASSUME StandingInv, Next, NEW signer \in Signer, creator # None,
               creator' # None, creator'.adm # creator.adm, creator'.adm = signer
        PROVE  \E p \in wire, l \in shown :
                  /\ p.kind = "package" /\ p.signer = signer
                  /\ l.live /\ Permits(l.link, p)
    BY <2>1, AdmissionStep, Constants DEF Justified
  <2> QED BY <2>1
<1> QED BY <1>1, <1>2, <1>3, PTL DEF Spec, AdmissionByStandingLink
=============================================================================
