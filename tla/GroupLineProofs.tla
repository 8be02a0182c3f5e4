-------------------------- MODULE GroupLineProofs --------------------------
(***************************************************************************)
(* Proofs about GroupCommits, second part: the group keeps to one line.    *)
(*                                                                         *)
(* In every state one member, the chief, ought to be the admin.  Commits   *)
(* are made by the chief, or by the one heir of a chief that announced its *)
(* departure (AuthorityInv); a member never loses a commit of its own that *)
(* others have seen, so it makes no other in its place (ForeignInv).  The  *)
(* commits made in one state can then be two only if the chief made one of *)
(* them after its announcement (NoSplit); everything else follows.         *)
(***************************************************************************)
EXTENDS GroupProofs

-----------------------------------------------------------------------------
(* Who speaks for the group *)

(* The members that have been there since a state the creator was still in. *)
(* The others were admitted after the creator left, by an admin the invite  *)
(* does not name, and no Welcome they accept exists.                        *)
Tenured(s) ==
    {m \in Members(s) :
        \E c \in Line(s) : /\ Creator \in Members(c)
                           /\ \A d \in Line(s) : Epoch(d) >= Epoch(c) => m \in Members(d)}

(* Who ought to be the admin in state s. *)
Chief(s) == IF Creator \in Members(s) THEN Creator ELSE Lowest(Tenured(s))

Parted(m) == \E f \in Parting : f.who = m

LEMMA TenureUnderCreator ==
  ASSUME TreeInv, NEW s \in States, Creator \in Members(s)
  PROVE  Tenured(s) = Members(s) /\ Chief(s) = Creator
<1>1. s \in Line(s) /\ Line(s) \subseteq States
  BY LineFacts, StateFields DEF Line
<1>2. \A d \in Line(s) : Epoch(d) >= Epoch(s) => d = s
  BY LineFacts, StateFields
<1> QED BY <1>1, <1>2 DEF Tenured, Chief

LEMMA TenureOfChild ==
  ASSUME TreeInv, NEW t \in Commits, Creator \notin Members(t)
  PROVE  Tenured(t) = Tenured(Parent(t)) \cap Members(t)
<1>0. PICK p : p = Parent(t)
  OBVIOUS
<1>1. /\ t \in States /\ p \in States /\ Line(t) = Line(p) \cup {t} /\ p \in Line(p)
      /\ Line(p) \subseteq States /\ Epoch(t) = Epoch(p) + 1
      /\ \A d \in States : Epoch(d) \in Nat
      /\ \A d \in Line(p) : Epoch(d) <= Epoch(p)
  BY <1>0, CommitFields, StateFields, LineFacts DEF Line
<1>2. ASSUME NEW m \in Tenured(t) PROVE m \in Tenured(p) \cap Members(t)
  <2>1. PICK c \in Line(t) : /\ Creator \in Members(c) /\ m \in Members(t)
                             /\ \A d \in Line(t) : Epoch(d) >= Epoch(c) => m \in Members(d)
    BY <1>2 DEF Tenured
  <2>2. c \in Line(p)
    BY <1>1, <2>1
  <2>3. m \in Members(p)
    BY <1>1, <2>1, <2>2
  <2> QED BY <1>1, <2>1, <2>2, <2>3 DEF Tenured
<1>3. ASSUME NEW m \in Tenured(p), m \in Members(t) PROVE m \in Tenured(t)
  <2>1. PICK c \in Line(p) : /\ Creator \in Members(c) /\ m \in Members(p)
                             /\ \A d \in Line(p) : Epoch(d) >= Epoch(c) => m \in Members(d)
    BY <1>3 DEF Tenured
  <2> QED BY <1>1, <1>3, <2>1 DEF Tenured
<1> QED BY <1>0, <1>2, <1>3

(* A member that is there all along the way keeps its tenure. *)
LEMMA TenureStays ==
  ASSUME TreeInv, NEW t \in States, NEW s \in Line(t), NEW n \in Tenured(s),
         n \in Members(t), \A c \in Path(t) \ Path(s) : n \in Members(Parent(c))
  PROVE  n \in Tenured(t)
<1>1. /\ s \in States /\ Line(t) \subseteq States /\ Line(s) \subseteq Line(t)
      /\ \A d \in States : Epoch(d) \in Nat
  BY StateFields, LineFacts
<1>2. PICK c \in Line(s) : /\ Creator \in Members(c)
                           /\ \A d \in Line(s) : Epoch(d) >= Epoch(c) => n \in Members(d)
  BY DEF Tenured
<1>3. ASSUME NEW d \in Line(t), Epoch(d) >= Epoch(c) PROVE n \in Members(d)
  <2>1. CASE d \in Line(s)
    BY <1>2, <1>3, <2>1
  <2>2. CASE d = t
    BY <2>2
  <2>3. CASE d # t /\ d \notin Line(s)
    <3>1. PICK x \in Path(t) : Parent(x) = d
      BY <2>3, LineFacts
    <3>2. x \notin Path(s)
      <4>1. ASSUME x \in Path(s) PROVE FALSE
        <5>1. x \in Commits /\ x \in Line(s)
          BY <4>1, <1>1, StateFields DEF Line
        <5>2. Line(x) \subseteq Line(s) /\ Parent(x) \in Line(x)
          BY <1>1, <5>1, LineFacts, CommitFields
        <5> QED BY <2>3, <3>1, <5>2
      <4> QED BY <4>1
    <3> QED BY <3>1, <3>2
  <2> QED BY <2>1, <2>2, <2>3
<1> QED BY <1>1, <1>2, <1>3 DEF Tenured

LEMMA TenureKept ==
  ASSUME TreeInv, Kept, NEW s \in States
  PROVE  Tenured(s)' = Tenured(s) /\ Chief(s)' = Chief(s)
<1>1. /\ Members(s)' = Members(s) /\ Line(s)' = Line(s) /\ Line(s) \subseteq States
      /\ \A d \in States : Epoch(d)' = Epoch(d) /\ Members(d)' = Members(d)
  BY KeptFields, StateFields
<1>2. Tenured(s)' = Tenured(s)
  BY <1>1 DEF Tenured
<1> QED BY <1>1, <1>2 DEF Chief

(* How a commit came about: the chief of the state admitted a stranger ...  *)
Admission(c) ==
    /\ tree[c].who \notin Members(Parent(c)) /\ tree[c].who \notin Founders
    /\ Members(c) = Members(Parent(c)) \cup {tree[c].who}
    /\ tree[c].by = Chief(Parent(c))

(* ... or a member announced its departure in that state, and the chief, or *)
(* the chief's heir when it was the chief that left, took it out.           *)
Departure(c) ==
    /\ tree[c].who \in Tenured(Parent(c)) /\ tree[c].by \in Tenured(Parent(c))
    /\ tree[c].who # tree[c].by
    /\ Members(c) = Members(Parent(c)) \ {tree[c].who}
    /\ \E f \in Parting : f.who = tree[c].who /\ f.at = Parent(c)
    /\ IF tree[c].who = Chief(Parent(c))
       THEN tree[c].by = Lowest(Members(c))
       ELSE tree[c].by = Chief(Parent(c))

(* From a state s to one it leads to: without the creator, tenure is only   *)
(* lost, and whoever has none stays; the chief remains the chief as long as *)
(* it is there, and otherwise has announced its departure; a member that is *)
(* new was admitted on the way.                                             *)
LineLaw(s, t) ==
    /\ Creator \notin Members(s) =>
          /\ Creator \notin Members(t) /\ Tenured(t) \subseteq Tenured(s)
          /\ Members(s) \ Tenured(s) \subseteq Members(t) \ Tenured(t)
    /\ Chief(s) \in Tenured(t) => Chief(t) = Chief(s)
    /\ Chief(t) = Chief(s) \/ Parted(Chief(s))
    /\ \A w \in Members(t) \ Members(s) :
          \E d \in Path(t) \ Path(s) : w \in Members(d) /\ w \notin Members(Parent(d))

ChiefInv == \A s \in States : Chief(s) \in Tenured(s)
CauseInv == \A c \in Commits : Admission(c) \/ Departure(c)
LineInv == \A t \in States : \A s \in Line(t) : LineLaw(s, t)
AuthorityInv == ChiefInv /\ CauseInv /\ LineInv

LEMMA TenureFields ==
  ASSUME TreeInv, NEW s \in States
  PROVE  /\ Tenured(s) \subseteq Members(s) /\ Members(s) \subseteq Nat
         /\ Tenured(s) \in SUBSET Nat
         /\ Creator \notin Members(s) /\ Tenured(s) # {} =>
               /\ Chief(s) \in Tenured(s) /\ \A k \in Tenured(s) : Chief(s) <= k
<1>1. Tenured(s) \subseteq Members(s)
  BY DEF Tenured
<1>2. Members(s) \subseteq Nat
  BY StateFields, ConstantsOK
<1> QED BY <1>1, <1>2, LowestIsLeast DEF Chief

(* One commit keeps the law of the line. *)
LEMMA OneCommitOn ==
  ASSUME TreeInv, NEW t \in Commits, NEW p \in States, p = Parent(t),
         Admission(t) \/ Departure(t), Chief(p) \in Tenured(p)
  PROVE  /\ Chief(t) \in Tenured(t)
         /\ Creator \notin Members(p) =>
               /\ Creator \notin Members(t) /\ Tenured(t) \subseteq Tenured(p)
               /\ Members(p) \ Tenured(p) \subseteq Members(t) \ Tenured(t)
         /\ Chief(p) \in Tenured(t) => Chief(t) = Chief(p)
         /\ Chief(t) = Chief(p) \/ Parted(Chief(p))
<1>0. /\ t \in States /\ Creator \in Founders
  BY CommitFields, ConstantsOK
<1>1. /\ Creator \in Members(t) => Tenured(t) = Members(t) /\ Chief(t) = Creator
      /\ Creator \in Members(p) => Tenured(p) = Members(p) /\ Chief(p) = Creator
  BY <1>0, TenureUnderCreator
<1>2. Creator \notin Members(t) => Tenured(t) = Tenured(p) \cap Members(t)
  BY <1>0, TenureOfChild
<1>3. Tenured(p) \subseteq Members(p)
  BY TenureFields
<1>4. Creator \notin Members(p) =>
        /\ Creator \notin Members(t) /\ Tenured(t) \subseteq Tenured(p)
        /\ Members(p) \ Tenured(p) \subseteq Members(t) \ Tenured(t)
  BY <1>0, <1>2, <1>3 DEF Admission, Departure
<1>5. Chief(t) \in Tenured(t)
  <2>1. CASE Creator \in Members(t)
    BY <1>1, <2>1
  <2>2. CASE Creator \notin Members(t)
    <3>1. Tenured(t) # {}
      BY <1>1, <1>2, <1>3, <2>2 DEF Admission, Departure
    <3> QED BY <1>0, <2>2, <3>1, TenureFields
  <2> QED BY <2>1, <2>2
<1>6. ASSUME Chief(p) \in Tenured(t) PROVE Chief(t) = Chief(p)
  <2>1. CASE Creator \in Members(p)
    <3>1. Creator \in Members(t)
      BY <1>0, <1>1, <1>6, <2>1, TenureFields
    <3> QED BY <1>1, <2>1, <3>1
  <2>2. CASE Creator \notin Members(p)
    <3>1. /\ \A k \in Tenured(p) : Chief(p) <= k
          /\ Chief(t) \in Tenured(t) /\ \A k \in Tenured(t) : Chief(t) <= k
      BY <1>0, <1>4, <1>5, <2>2, TenureFields
    <3>2. Chief(p) <= Chief(t) /\ Chief(t) <= Chief(p) /\ Chief(p) \in Nat /\ Chief(t) \in Nat
      BY <1>0, <1>4, <1>6, <2>2, <3>1, TenureFields
    <3> QED BY <3>2
  <2> QED BY <2>1, <2>2
<1>7. Chief(t) = Chief(p) \/ Parted(Chief(p))
  <2>1. CASE Chief(p) \in Tenured(t)
    BY <1>6, <2>1
  <2>2. CASE Chief(p) \notin Tenured(t)
    <3>1. Chief(p) \notin Members(t)
      BY <1>1, <1>2, <2>2
    <3>2. Departure(t) /\ tree[t].who = Chief(p)
      BY <1>3, <3>1 DEF Admission, Departure
    <3> QED BY <3>2 DEF Departure, Parted
  <2> QED BY <2>1, <2>2
<1> QED BY <1>4, <1>5, <1>6, <1>7

LEMMA LineGrows ==
  ASSUME TreeInv, NEW t \in Commits, NEW p \in States, p = Parent(t),
         Admission(t) \/ Departure(t), Chief(p) \in Tenured(p),
         \A s \in Line(p) : LineLaw(s, p), NEW s \in Line(t)
  PROVE  LineLaw(s, t)
<1>0. /\ t \in States /\ Line(t) = Line(p) \cup {t} /\ Path(t) = Path(p) \cup {t}
      /\ t \notin Path(p) /\ s \in States
  BY CommitFields, StateFields
<1>1. CASE s = t
  BY <1>1 DEF LineLaw
<1>2. CASE s \in Line(p)
  <2>1. /\ Creator \notin Members(p) =>
               /\ Creator \notin Members(t) /\ Tenured(t) \subseteq Tenured(p)
               /\ Members(p) \ Tenured(p) \subseteq Members(t) \ Tenured(t)
        /\ Chief(p) \in Tenured(t) => Chief(t) = Chief(p)
        /\ Chief(t) = Chief(p) \/ Parted(Chief(p))
    BY OneCommitOn
  <2>2. LineLaw(s, p)
    BY <1>2
  <2>3. Creator \notin Members(s) =>
          /\ Creator \notin Members(t) /\ Tenured(t) \subseteq Tenured(s)
          /\ Members(s) \ Tenured(s) \subseteq Members(t) \ Tenured(t)
    BY <2>1, <2>2 DEF LineLaw
  <2>4. ASSUME Chief(s) \in Tenured(t) PROVE Chief(t) = Chief(s)
    <3>1. CASE Creator \in Members(p)
      <4>1. Creator \in Members(s)
        BY <2>2, <3>1 DEF LineLaw
      <4>2. Chief(s) = Creator /\ Chief(p) = Creator
        BY <1>0, <3>1, <4>1, TenureUnderCreator
      <4> QED BY <2>1, <2>4, <4>2
    <3>2. CASE Creator \notin Members(p)
      BY <2>1, <2>2, <2>4, <3>2 DEF LineLaw
    <3> QED BY <3>1, <3>2
  <2>5. Chief(t) = Chief(s) \/ Parted(Chief(s))
    BY <2>1, <2>2 DEF LineLaw
  <2>6. ASSUME NEW w \in Members(t) \ Members(s)
        PROVE  \E d \in Path(t) \ Path(s) : w \in Members(d) /\ w \notin Members(Parent(d))
    <3>1. CASE w \in Members(p)
      BY <1>0, <2>2, <2>6, <3>1 DEF LineLaw
    <3>2. CASE w \notin Members(p)
      <4>1. t \notin Path(s)
        BY <1>0, <1>2, LineFacts
      <4> QED BY <1>0, <2>6, <3>2, <4>1
    <3> QED BY <3>1, <3>2
  <2> QED BY <2>3, <2>4, <2>5, <2>6 DEF LineLaw
<1> QED BY <1>0, <1>1, <1>2

(* The two, for the state after a step. *)
LEMMA GrowthLaw ==
  TreeInv => \A t \in Commits : \A p \in States :
     /\ p = Parent(t) /\ (Admission(t) \/ Departure(t)) /\ Chief(p) \in Tenured(p)
     /\ \A s \in Line(p) : LineLaw(s, p)
     => Chief(t) \in Tenured(t) /\ \A s \in Line(t) : LineLaw(s, t)
BY OneCommitOn, LineGrows

(* What is known of the states there are stays true of them. *)
LEMMA AuthorityKept ==
  ASSUME TreeInv, AuthorityInv, Kept, Parting \subseteq Parting'
  PROVE  /\ \A s \in States : Chief(s)' \in Tenured(s)'
         /\ \A c \in Commits : Admission(c)' \/ Departure(c)'
         /\ \A t \in States : \A s \in Line(t) : LineLaw(s, t)'
<1>1. \A s \in States :
        /\ s \in States' /\ Parent(s)' = Parent(s) /\ Epoch(s)' = Epoch(s)
        /\ Members(s)' = Members(s) /\ Path(s)' = Path(s) /\ Line(s)' = Line(s)
        /\ tree'[s] = tree[s] /\ Tenured(s)' = Tenured(s) /\ Chief(s)' = Chief(s)
        /\ Line(s) \subseteq States /\ Path(s) \subseteq Commits
  BY KeptFields, TenureKept, StateFields
<1>2. \A c \in Commits : c \in States /\ Parent(c) \in States
  BY CommitFields
<1>3. \A s \in States : Chief(s)' \in Tenured(s)'
  BY <1>1 DEF AuthorityInv, ChiefInv
<1>4. ASSUME NEW c \in Commits PROVE Admission(c)' \/ Departure(c)'
  <2>1. PICK p \in States : p = Parent(c)
    BY <1>2
  <2>2. /\ Parent(c)' = p /\ tree'[c] = tree[c] /\ Members(c)' = Members(c)
        /\ Members(p)' = Members(p) /\ Tenured(p)' = Tenured(p) /\ Chief(p)' = Chief(p)
    BY <1>1, <1>2, <2>1
  <2>3. Members(Parent(c))' = Members(p) /\ Tenured(Parent(c))' = Tenured(p)
        /\ Chief(Parent(c))' = Chief(p)
    <3>1. /\ tree'[c].parent = p
      BY <2>2 DEF Parent
    <3> QED BY <2>2, <3>1 DEF Parent, Members, Tenured, Chief, Line, Path, Epoch
  <2>4. CASE Admission(c)
    BY <2>1, <2>2, <2>3, <2>4 DEF Admission
  <2>5. CASE Departure(c)
    BY <2>1, <2>2, <2>3, <2>5 DEF Departure
  <2> QED BY <2>4, <2>5 DEF AuthorityInv, CauseInv
<1>5. ASSUME NEW t \in States, NEW s \in Line(t) PROVE LineLaw(s, t)'
  <2>1. LineLaw(s, t) /\ s \in States
    BY <1>1 DEF AuthorityInv, LineInv
  <2>2. \A m : Parted(m) => Parted(m)'
    BY DEF Parted
  <2>3. \A d \in Path(t) : Members(d)' = Members(d) /\ Members(Parent(d))' = Members(Parent(d))
    <3> SUFFICES ASSUME NEW d \in Path(t)
                 PROVE  Members(d)' = Members(d) /\ Members(Parent(d))' = Members(Parent(d))
      OBVIOUS
    <3>1. d \in Commits /\ d \in States /\ Parent(d) \in States
      BY <1>1, <1>2
    <3>2. tree'[d] = tree[d] /\ tree'[Parent(d)] = tree[Parent(d)]
      BY <1>1, <3>1
    <3> QED BY <3>2 DEF Members, Parent
  <2> QED BY <1>1, <2>1, <2>2, <2>3 DEF LineLaw
<1> QED BY <1>3, <1>4, <1>5

LEMMA AuthoritySame ==
  ASSUME TypeInv, AuthorityInv, tree' = tree, Parting \subseteq Parting'
  PROVE  AuthorityInv'
<1>1. TreeInv /\ Kept /\ States' = States /\ Commits' = Commits
  BY SameTree DEF TypeInv
<1>2. \A t \in States : Line(t)' = Line(t)
  BY <1>1, KeptFields
<1> QED BY <1>1, <1>2, AuthorityKept DEF AuthorityInv, ChiefInv, CauseInv, LineInv

LEMMA AuthorityGrows ==
  ASSUME TypeInv, AuthorityInv, Parting \subseteq Parting', NEW n \in Node, NEW who \in Node,
         NEW M \in SUBSET Node, Grown(n, st[n], who, M), NEW k, k = Len(tree) + 1,
         Admission(k)' \/ Departure(k)'
  PROVE  AuthorityInv'
<1>1. /\ Kept /\ TreeInv /\ TreeInv' /\ States' = States \cup {k} /\ Commits' = Commits \cup {k}
      /\ Parent(k)' = st[n] /\ st[n] \in States
  <2>1. TreeInv /\ st[n] \in States
    BY TypeFields
  <2>2. /\ Kept /\ TreeInv' /\ States' = States \cup {k} /\ Commits' = Commits \cup {k}
    BY GrownSets
  <2>3. Parent(k)' = st[n]
    BY GrownSets DEF Parent
  <2> QED BY <2>1, <2>2, <2>3
<1>2. /\ \A s \in States : Chief(s)' \in Tenured(s)' /\ Line(s)' = Line(s)
      /\ \A c \in Commits : Admission(c)' \/ Departure(c)'
      /\ \A t \in States : \A s \in Line(t) : LineLaw(s, t)'
  BY <1>1, AuthorityKept, KeptFields
<1>3. (\A t \in Commits : \A p \in States :
         /\ p = Parent(t) /\ (Admission(t) \/ Departure(t)) /\ Chief(p) \in Tenured(p)
         /\ \A s \in Line(p) : LineLaw(s, p)
         => Chief(t) \in Tenured(t) /\ \A s \in Line(t) : LineLaw(s, t))'
  BY <1>1, GrowthLaw, PTL
<1>4. Chief(k)' \in Tenured(k)' /\ \A s \in Line(k)' : LineLaw(s, k)'
  <2>1. PICK p \in States : p = st[n]
    BY <1>1
  <2>2. /\ k \in Commits' /\ p \in States' /\ p = Parent(k)' /\ Chief(p)' \in Tenured(p)'
        /\ \A s \in Line(p)' : LineLaw(s, p)'
    BY <1>1, <1>2, <2>1
  <2> QED BY <1>3, <2>2
<1>5. ChiefInv' /\ CauseInv'
  BY <1>1, <1>2, <1>4 DEF ChiefInv, CauseInv
<1>6. LineInv'
  BY <1>1, <1>2, <1>4 DEF LineInv
<1> QED BY <1>5, <1>6 DEF AuthorityInv

-----------------------------------------------------------------------------
(* What the members hold *)

(* Whom a member that reconciled in state s takes for the admin: the chief, *)
(* or somebody without tenure, who will never act.                          *)
Pointer(a, s) == a = Chief(s) \/ a \in Members(s) \ Tenured(s)

(* Member n may stand in state s, or come back to it after a restart, with  *)
(* the saved admin a, the commit log L and the admission replays R.         *)
Fits(n, s, a, L, R) ==
    /\ n \in Members(s) => n \in Tenured(s)
    /\ \E r \in Line(s) : Pointer(a, r)
    /\ L \subseteq Path(s)
    /\ \A c \in R : tree[c].who \in Members(s) => c \in Path(s)
    /\ R # {} => Chief(s) = n \/ n \notin Members(s)

Stand(n, s) == Fits(n, s, dAdm[n], log[n], saved[n])

NodeInv(n) ==
    /\ mode[n] \in {"out", "joining"} =>
          /\ saved[n] = {} /\ log[n] = {} /\ adm[n] = Creator /\ dAdm[n] = Creator
          /\ n \notin Founders /\ \A c \in Commits : tree[c].by # n
    /\ \A c \in saved[n] : tree[c].by = n /\ tree[c].who \in Members(c)
    /\ \A s \in States :
          /\ st[n] = s /\ Joined(n) =>
                Stand(n, s) /\ \E r \in Line(s) : Pointer(adm[n], r)
          /\ st[n] = s /\ Idle(n) => Pointer(adm[n], s)
          /\ dSt[n] = s => Stand(n, s)
    /\ \A s, d \in States : st[n] = s /\ dSt[n] = d /\ Joined(n) => s \in Line(d)

(* The commits of n that others have seen: on the path to one that          *)
(* circulates, or to a state some other member stands in or has saved.      *)
Seen(n, c) ==
    \/ \E x \in Circulating : c \in Path(x)
    \/ \E p \in Node \ {n} : \/ c \in Path(st[p])
                             \/ dSt[p] # NoState /\ c \in Path(dSt[p])
Foreign(n) == {c \in Commits : tree[c].by = n /\ Seen(n, c)}

(* A member never loses a commit of its own that others have seen, and      *)
(* never makes two in one epoch of which they do.                           *)
ForeignInv ==
    \A n \in Node :
        /\ Joined(n) => Foreign(n) \subseteq Path(st[n])
        /\ dSt[n] # NoState => Foreign(n) \subseteq Path(dSt[n])
        /\ \A x, y \in Foreign(n) : Epoch(x) = Epoch(y) => x = y

(* A Welcome is about an admission, founders ask for none, and a departure  *)
(* is announced by a tenured member.                                        *)
WireInv ==
    \A f \in net :
        /\ f.type = "welcome" => tree[f.id].who \in Members(f.id)
        /\ f.type = "package" => f.who \notin Founders
        /\ f.type = "leave" => f.who \in Tenured(f.at)

GroupInv ==
    /\ TypeInv /\ ClosedInv /\ AuthorityInv /\ WireInv /\ ForeignInv
    /\ \A n \in Node : NodeInv(n)

(* The state a member stands in has on its path only what the member made   *)
(* or others can vouch for.                                                 *)
Vouched(c) ==
    \/ c \in Foreign(tree[c].by)
    \/ Joined(tree[c].by) /\ c \in Path(st[tree[c].by])

(* What a step of q does that matters to what others have seen: it adds     *)
(* commits of q alone, publishes commits of the line it stands on, moves    *)
(* along commits it made or learned from others, and leaves none behind     *)
(* that others have seen.                                                   *)
Sound(q) ==
    /\ Kept /\ Others(q)
    /\ \A c \in Commits' : c \in Commits \/ tree'[c].by = q
    /\ \A x \in Circulating' :
          \/ x \in Circulating
          \/ /\ mode'[q] \in {"in", "quit"} /\ x \in tree'[st'[q]].path
             /\ x \in tree'[dSt'[q]].path
    /\ \A c \in tree'[st'[q]].path :
          tree'[c].by = q \/ (c \in Commits /\ Vouched(c))
    /\ dSt'[q] # NoState => \A c \in tree'[dSt'[q]].path :
          tree'[c].by = q \/ (c \in Commits /\ Vouched(c))
    /\ mode'[q] \in {"in", "quit"} => Foreign(q) \subseteq tree'[st'[q]].path
    /\ dSt'[q] # NoState => Foreign(q) \subseteq tree'[dSt'[q]].path

(* The commits of n that a step of another member shows to others: they had *)
(* seen them, or n stands on them.                                          *)
LEMMA OthersForeign ==
  ASSUME TypeInv, TypeInv', NEW q \in Node, Sound(q), NEW n \in Node \ {q},
         NEW c \in Foreign(n)'
  PROVE  c \in Foreign(n) \/ (Joined(n) /\ c \in Path(st[n]))
<1>0. /\ TreeInv /\ TreeInv' /\ Kept /\ Others(q)
      /\ \A m \in Node : st[m] \in States /\ dSt[m] \in {NoState} \cup States
      /\ \A m \in Node : st'[m] \in States' /\ dSt'[m] \in {NoState} \cup States'
      /\ Circulating \subseteq States /\ Circulating' \subseteq States'
  <2>1. \A m \in Node : st[m] \in States /\ dSt[m] \in {NoState} \cup States
    BY TypeFields
  <2>2. \A m \in Node : st'[m] \in States' /\ dSt'[m] \in {NoState} \cup States'
    BY DEF TypeInv, TypeOK
  <2>3. Circulating \subseteq States /\ Circulating' \subseteq States'
    <3>1. Commits \subseteq States /\ Commits' \subseteq States'
      BY DEF Commits, States, TypeInv, TreeInv
    <3> QED BY <3>1 DEF TypeInv, NetInv
  <2> QED BY <2>1, <2>2, <2>3 DEF Sound, TypeInv
<1>1. \A s \in States : tree'[s] = tree[s] /\ Path(s)' = Path(s) /\ Path(s) \subseteq Commits
                        /\ Epoch(s)' = Epoch(s)
  BY <1>0, KeptFields, StateFields
<1>2. Commits \subseteq States
  BY <1>0, GenesisFields
<1>4. \A t \in States' : \A s \in Path(t)' : Path(s)' \subseteq Path(t)'
  BY <1>0 DEF TreeInv, PathInv
<1>5. c \in Foreign(n) \/ (Joined(n) /\ c \in Path(st[n]))
  <2>1. c \in Commits' /\ tree'[c].by = n
    BY DEF Foreign
  <2>2. c \in Commits /\ tree[c].by = n
    <3>1. c \in Commits
      BY <2>1 DEF Sound
    <3> QED BY <1>1, <1>2, <2>1, <3>1
  <2>3. ASSUME c \in tree'[st'[q]].path \/ (dSt'[q] # NoState /\ c \in tree'[dSt'[q]].path)
        PROVE  c \in Foreign(n) \/ (Joined(n) /\ c \in Path(st[n]))
    <3>1. Vouched(c)
      BY <2>1, <2>3 DEF Sound
    <3> QED BY <2>2, <3>1 DEF Vouched
  <2>4. CASE \E x \in Circulating' : c \in Path(x)'
    <3>1. PICK x \in Circulating' : c \in Path(x)'
      BY <2>4
    <3>2. CASE x \in Circulating
      <4>1. c \in Path(x)
        BY <1>0, <1>1, <3>1, <3>2
      <4> QED BY <2>2, <3>2, <4>1 DEF Foreign, Seen
    <3>3. CASE x \notin Circulating
      <4>1. x \in tree'[st'[q]].path
        BY <3>3 DEF Sound
      <4>2. c \in tree'[st'[q]].path
        BY <1>0, <1>4, <3>1, <4>1 DEF Path
      <4> QED BY <2>3, <4>2
    <3> QED BY <3>2, <3>3
  <2>5. CASE \E p \in Node \ {n} : \/ c \in Path(st[p])'
                                   \/ dSt'[p] # NoState /\ c \in Path(dSt[p])'
    <3>1. PICK p \in Node \ {n} : \/ c \in Path(st[p])'
                                  \/ dSt'[p] # NoState /\ c \in Path(dSt[p])'
      BY <2>5
    <3>2. CASE p = q
      BY <2>3, <3>1, <3>2 DEF Path
    <3>3. CASE p # q
      <4>1. st'[p] = st[p] /\ dSt'[p] = dSt[p]
        BY <1>0, <3>3 DEF Others
      <4>2. c \in tree'[st[p]].path \/ (dSt[p] # NoState /\ c \in tree'[dSt[p]].path)
        BY <3>1, <4>1 DEF Path
      <4>3. c \in Path(st[p]) \/ (dSt[p] # NoState /\ c \in Path(dSt[p]))
        BY <1>0, <1>1, <4>2 DEF Path
      <4> QED BY <2>2, <4>3 DEF Foreign, Seen
    <3> QED BY <3>2, <3>3
  <2> QED BY <2>4, <2>5 DEF Foreign, Seen
<1> QED BY <1>5

LEMMA ForeignStep ==
  ASSUME TypeInv, TypeInv', ForeignInv, NEW q \in Node, Sound(q),
         \A n \in Node : Joined(n) => Path(st[n]) \subseteq Path(dSt[n])
  PROVE  ForeignInv'
<1>0. /\ TreeInv /\ TreeInv' /\ Kept /\ Others(q)
      /\ \A n \in Node : st[n] \in States /\ dSt[n] \in {NoState} \cup States
      /\ \A n \in Node : st'[n] \in States' /\ dSt'[n] \in {NoState} \cup States'
      /\ Circulating \subseteq States /\ Circulating' \subseteq States'
  <2>1. \A n \in Node : st[n] \in States /\ dSt[n] \in {NoState} \cup States
    BY TypeFields
  <2>2. \A n \in Node : st'[n] \in States' /\ dSt'[n] \in {NoState} \cup States'
    BY DEF TypeInv, TypeOK
  <2>3. Circulating \subseteq States /\ Circulating' \subseteq States'
    <3>1. Commits \subseteq States /\ Commits' \subseteq States'
      BY DEF Commits, States, TypeInv, TreeInv
    <3> QED BY <3>1 DEF TypeInv, NetInv
  <2> QED BY <2>1, <2>2, <2>3 DEF Sound, TypeInv
<1>1. \A s \in States : tree'[s] = tree[s] /\ Path(s)' = Path(s) /\ Path(s) \subseteq Commits
                        /\ Epoch(s)' = Epoch(s)
  BY <1>0, KeptFields, StateFields
<1>2. Commits \subseteq States
  BY <1>0, GenesisFields
<1>3. \A s \in States' : \A c, d \in Path(s)' : Epoch(c)' = Epoch(d)' => c = d
  BY <1>0 DEF TreeInv, PathInv
<1>4. \A t \in States' : \A s \in Path(t)' : Path(s)' \subseteq Path(t)'
  BY <1>0 DEF TreeInv, PathInv
<1>5. ASSUME NEW n \in Node \ {q}, NEW c \in Foreign(n)'
      PROVE  c \in Foreign(n) \/ (Joined(n) /\ c \in Path(st[n]))
  BY <1>5, OthersForeign
<1>6. ASSUME NEW c \in Foreign(q)'
      PROVE  \/ c \in Foreign(q)
             \/ /\ mode'[q] \in {"in", "quit"} /\ c \in tree'[st'[q]].path
                /\ c \in tree'[dSt'[q]].path
  <2>1. c \in Commits' /\ tree'[c].by = q
    BY <1>6 DEF Foreign
  <2>2. CASE \E p \in Node \ {q} : \/ c \in Path(st[p])'
                                   \/ dSt'[p] # NoState /\ c \in Path(dSt[p])'
    <3>1. PICK p \in Node \ {q} : \/ c \in Path(st[p])'
                                  \/ dSt'[p] # NoState /\ c \in Path(dSt[p])'
      BY <2>2
    <3>2. st'[p] = st[p] /\ dSt'[p] = dSt[p]
      BY <1>0 DEF Others
    <3>3. c \in tree'[st[p]].path \/ (dSt[p] # NoState /\ c \in tree'[dSt[p]].path)
      BY <3>1, <3>2 DEF Path
    <3>4. c \in Path(st[p]) \/ (dSt[p] # NoState /\ c \in Path(dSt[p]))
      BY <1>0, <1>1, <3>3 DEF Path
    <3>5. c \in Commits /\ tree[c].by = q
      <4>1. c \in Commits
        BY <1>0, <1>1, <3>4
      <4> QED BY <1>1, <1>2, <2>1, <4>1
    <3> QED BY <3>4, <3>5 DEF Foreign, Seen
  <2>3. CASE \E x \in Circulating' : c \in Path(x)'
    <3>1. PICK x \in Circulating' : c \in Path(x)'
      BY <2>3
    <3>2. CASE x \in Circulating
      <4>1. c \in Path(x) /\ c \in Commits
        BY <1>0, <1>1, <3>1, <3>2
      <4>2. tree[c].by = q
        BY <1>1, <1>2, <2>1, <4>1
      <4> QED BY <3>2, <4>1, <4>2 DEF Foreign, Seen
    <3>3. CASE x \notin Circulating
      <4>1. /\ mode'[q] \in {"in", "quit"} /\ x \in tree'[st'[q]].path
            /\ x \in tree'[dSt'[q]].path
        BY <3>3 DEF Sound
      <4>2. dSt'[q] # NoState
        BY <4>1 DEF TypeInv, SavedInv
      <4>3. c \in tree'[st'[q]].path /\ c \in tree'[dSt'[q]].path
        BY <1>0, <1>4, <3>1, <4>1, <4>2 DEF Path
      <4> QED BY <4>1, <4>3
    <3> QED BY <3>2, <3>3
  <2> QED BY <1>6, <2>2, <2>3 DEF Foreign, Seen
<1>7. ASSUME NEW n \in Node \ {q}
      PROVE  /\ Joined(n)' => Foreign(n)' \subseteq Path(st[n])'
             /\ dSt'[n] # NoState => Foreign(n)' \subseteq Path(dSt[n])'
             /\ \A x, y \in Foreign(n)' : Epoch(x)' = Epoch(y)' => x = y
  <2>1. /\ mode'[n] = mode[n] /\ st'[n] = st[n] /\ dSt'[n] = dSt[n]
    BY <1>0 DEF Others
  <2>2. /\ (Joined(n)' <=> Joined(n)) /\ Path(st[n])' = Path(st[n])
        /\ dSt[n] # NoState => Path(dSt[n])' = Path(dSt[n])
    <3>1. Joined(n)' <=> Joined(n)
      BY <2>1 DEF Joined
    <3>2. tree'[st[n]].path = tree[st[n]].path
          /\ (dSt[n] # NoState => tree'[dSt[n]].path = tree[dSt[n]].path)
      BY <1>0, <1>1
    <3> QED BY <2>1, <3>1, <3>2 DEF Path
  <2>3. /\ Joined(n) => Foreign(n) \subseteq Path(st[n]) /\ Path(st[n]) \subseteq Path(dSt[n])
        /\ dSt[n] # NoState => Foreign(n) \subseteq Path(dSt[n])
        /\ \A x, y \in Foreign(n) : Epoch(x) = Epoch(y) => x = y
    BY DEF ForeignInv
  <2>4. Joined(n) => Foreign(n)' \subseteq Path(st[n])
    BY <1>5, <2>3
  <2>5. dSt[n] # NoState => Foreign(n)' \subseteq Path(dSt[n])
    BY <1>5, <2>3
  <2>6. \A x, y \in Foreign(n)' : Epoch(x)' = Epoch(y)' => x = y
    <3>1. CASE Joined(n)
      <4>1. Foreign(n)' \subseteq Path(st[n])' /\ st'[n] \in States'
        <5>1. st'[n] \in States'
          BY <1>0
        <5>2. Foreign(n)' \subseteq Path(st[n])'
          BY <2>2, <2>4, <3>1 DEF Path
        <5> QED BY <5>1, <5>2
      <4>2. PICK s \in States' : s = st'[n]
        BY <4>1
      <4>3. Foreign(n)' \subseteq Path(s)'
        BY <4>1, <4>2 DEF Path
      <4> QED BY <1>3, <4>3
    <3>2. CASE ~Joined(n)
      <4>1. Foreign(n)' \subseteq Foreign(n) /\ Foreign(n) \subseteq Commits
        BY <1>5, <3>2 DEF Foreign
      <4>2. \A x \in Foreign(n)' : Epoch(x)' = Epoch(x)
        BY <1>1, <1>2, <4>1
      <4> QED BY <2>3, <4>1, <4>2
    <3> QED BY <3>1, <3>2
  <2> QED BY <2>1, <2>2, <2>4, <2>5, <2>6
<1>8. /\ Joined(q)' => Foreign(q)' \subseteq Path(st[q])'
      /\ dSt'[q] # NoState => Foreign(q)' \subseteq Path(dSt[q])'
      /\ \A x, y \in Foreign(q)' : Epoch(x)' = Epoch(y)' => x = y
  <2>1. Joined(q)' => Foreign(q)' \subseteq Path(st[q])'
    BY <1>6 DEF Sound, Path, Joined
  <2>2. dSt'[q] # NoState => Foreign(q)' \subseteq Path(dSt[q])'
    BY <1>6 DEF Sound, Path
  <2>3. \A x, y \in Foreign(q)' : Epoch(x)' = Epoch(y)' => x = y
    <3>1. CASE Joined(q)'
      <4>1. PICK s \in States' : s = st'[q]
        BY <1>0
      <4>2. Foreign(q)' \subseteq Path(s)'
        BY <2>1, <3>1, <4>1 DEF Path
      <4> QED BY <1>3, <4>2
    <3>2. CASE ~Joined(q)'
      <4>1. Foreign(q)' \subseteq Foreign(q) /\ Foreign(q) \subseteq Commits
        BY <1>6, <3>2 DEF Foreign, Joined
      <4>2. \A x \in Foreign(q)' : Epoch(x)' = Epoch(x)
        BY <1>1, <1>2, <4>1
      <4>3. \A x, y \in Foreign(q) : Epoch(x) = Epoch(y) => x = y
        BY DEF ForeignInv
      <4> QED BY <4>1, <4>2, <4>3
    <3> QED BY <3>1, <3>2
  <2> QED BY <2>1, <2>2, <2>3
<1> QED BY <1>7, <1>8 DEF ForeignInv

-----------------------------------------------------------------------------
(* Moving along a line *)

(* Two states lie on one line, or the ways to them part at some state.      *)
LEMMA Diverge ==
  ASSUME TreeInv, NEW s \in States, NEW t \in States, s \notin Line(t), t \notin Line(s)
  PROVE  \E x \in Path(s), y \in Path(t) : x # y /\ Parent(x) = Parent(y)
<1>0. /\ Path(s) \subseteq Commits /\ \A c \in Commits : c \in States /\ Epoch(c) \in Nat
      /\ Line(s) \subseteq States
  BY StateFields, GenesisFields
<1>1. s \in Path(s) \ Path(t)
  BY LineFacts, GenesisFields DEF Line
<1>2. PICK E : E = {Epoch(x) : x \in Path(s) \ Path(t)}
  OBVIOUS
<1>3. E \in SUBSET Nat /\ E # {}
  BY <1>0, <1>1, <1>2
<1>4. PICK x \in Path(s) \ Path(t) : \A z \in Path(s) \ Path(t) : Epoch(x) <= Epoch(z)
  <2>1. PICK e : e = Lowest(E)
    OBVIOUS
  <2>2. e \in E /\ \A k \in E : e <= k
    BY <1>3, <2>1, LowestIsLeast
  <2>3. PICK x \in Path(s) \ Path(t) : e = Epoch(x)
    BY <1>2, <2>2
  <2>4. \A z \in Path(s) \ Path(t) : Epoch(z) \in E
    BY <1>2
  <2> QED BY <2>2, <2>3, <2>4
<1>5. PICK p : p = Parent(x)
  OBVIOUS
<1>6. /\ x \in Commits /\ x \in Line(s) /\ p \in States /\ Epoch(x) = Epoch(p) + 1
      /\ p \in Line(x) /\ Epoch(p) \in Nat
  BY <1>0, <1>4, <1>5, CommitFields, StateFields DEF Line
<1>7. p \in Line(s)
  BY <1>6, LineFacts
<1>8. p \in Line(t)
  <2>1. CASE p = 1
    BY <2>1 DEF Line
  <2>2. CASE p \in Path(s)
    <3>1. ~(Epoch(x) <= Epoch(p))
      BY <1>6
    <3> QED BY <1>4, <2>2, <3>1 DEF Line
  <2> QED BY <1>7, <2>1, <2>2 DEF Line
<1>9. PICK y \in Path(t) : Parent(y) = p
  BY <1>7, <1>8, LineFacts
<1> QED BY <1>4, <1>5, <1>9

LEMMA LineOrder ==
  ASSUME TreeInv, NEW t \in States, NEW s \in Line(t), NEW r \in Line(t)
  PROVE  s \in Line(r) \/ r \in Line(s)
<1>0. /\ s \in States /\ r \in States /\ Path(s) \subseteq Path(t) /\ Path(r) \subseteq Path(t)
      /\ Path(t) \subseteq Commits
  BY LineFacts, StateFields
<1>1. ASSUME NEW x \in Path(s), NEW y \in Path(r), Parent(x) = Parent(y) PROVE x = y
  <2>1. Epoch(x) = Epoch(y) /\ x \in Path(t) /\ y \in Path(t)
    BY <1>0, <1>1, CommitFields
  <2> QED BY <2>1 DEF TreeInv, PathInv
<1> QED BY <1>0, <1>1, Diverge

LEMMA NodeKept ==
  ASSUME TypeInv, NEW q \in Node, NEW m \in Node \ {q}, Kept, Others(q), NodeInv(m),
         \A c \in Commits' : c \in Commits \/ tree'[c].by = q,
         States' \subseteq States \cup {Len(tree) + 1}
  PROVE  NodeInv(m)'
<1>0. /\ TreeInv /\ mode'[m] = mode[m] /\ st'[m] = st[m] /\ adm'[m] = adm[m]
      /\ busy'[m] = busy[m] /\ dSt'[m] = dSt[m] /\ dAdm'[m] = dAdm[m]
      /\ log'[m] = log[m] /\ saved'[m] = saved[m]
      /\ st[m] \in States /\ dSt[m] \in {NoState} \cup States
      /\ log[m] \subseteq Commits /\ saved[m] \subseteq Commits
  BY TypeFields DEF Others
<1>1. \A s \in States :
        /\ s \in States' /\ Members(s)' = Members(s) /\ Path(s)' = Path(s)
        /\ Line(s)' = Line(s) /\ tree'[s] = tree[s] /\ Tenured(s)' = Tenured(s)
        /\ Chief(s)' = Chief(s) /\ Line(s) \subseteq States
  BY <1>0, KeptFields, TenureKept, StateFields
<1>2. Commits \subseteq States /\ Len(tree) + 1 \notin States /\ Len(tree) + 1 # NoState
  BY <1>0, GenesisFields DEF States, TreeInv, NoState
<1>3. ASSUME NEW s \in States, Stand(m, s) PROVE Stand(m, s)'
  BY <1>0, <1>1, <1>2, <1>3 DEF Stand, Fits, Pointer
<1>4. \A c \in saved'[m] : tree'[c].by = m /\ tree'[c].who \in Members(c)'
  BY <1>0, <1>1, <1>2 DEF NodeInv
<1>5. mode'[m] \in {"out", "joining"} =>
          /\ saved'[m] = {} /\ log'[m] = {} /\ adm'[m] = Creator /\ dAdm'[m] = Creator
          /\ m \notin Founders /\ \A c \in Commits' : tree'[c].by # m
  BY <1>0, <1>1, <1>2 DEF NodeInv
<1>6. ASSUME NEW s \in States'
      PROVE  /\ st'[m] = s /\ Joined(m)' =>
                  Stand(m, s)' /\ \E r \in Line(s)' : Pointer(adm[m], r)'
             /\ st'[m] = s /\ Idle(m)' => Pointer(adm[m], s)'
             /\ dSt'[m] = s => Stand(m, s)'
  <2>1. CASE s \in States
    <3>1. /\ st[m] = s /\ Joined(m) => Stand(m, s) /\ \E r \in Line(s) : Pointer(adm[m], r)
          /\ st[m] = s /\ Idle(m) => Pointer(adm[m], s)
          /\ dSt[m] = s => Stand(m, s)
      BY <2>1 DEF NodeInv
    <3>2. (Joined(m)' <=> Joined(m)) /\ (Idle(m)' <=> Idle(m))
      BY <1>0 DEF Joined, Idle
    <3>3. st'[m] = s /\ Joined(m)' =>
                  Stand(m, s)' /\ \E r \in Line(s)' : Pointer(adm[m], r)'
      BY <1>0, <1>1, <1>3, <2>1, <3>1, <3>2 DEF Pointer
    <3>4. st'[m] = s /\ Idle(m)' => Pointer(adm[m], s)'
      BY <1>0, <1>1, <2>1, <3>1, <3>2 DEF Pointer
    <3>5. dSt'[m] = s => Stand(m, s)'
      BY <1>0, <1>3, <2>1, <3>1
    <3> QED BY <3>3, <3>4, <3>5
  <2>2. CASE s = Len(tree) + 1
    BY <1>0, <1>2, <2>2
  <2> QED BY <2>1, <2>2
<1>7. \A s, d \in States' : st'[m] = s /\ dSt'[m] = d /\ Joined(m)' => s \in Line(d)'
  <2>1. Joined(m)' <=> Joined(m)
    BY <1>0 DEF Joined
  <2> QED BY <1>0, <1>1, <1>2, <2>1 DEF NodeInv
<1> QED BY <1>4, <1>5, <1>6, <1>7 DEF NodeInv

(* reconcile_admin finds whom the state speaks for, from whatever earlier   *)
(* state the pointer is.                                                    *)
LEMMA PointerOn ==
  ASSUME TreeInv, AuthorityInv, NEW t \in States, NEW s \in Line(t), NEW a \in Node,
         Pointer(a, s), NEW b, b = Reconcile(a, Members(t))
  PROVE  Pointer(b, t)
<1>0. /\ s \in States /\ LineLaw(s, t) /\ Chief(t) \in Tenured(t)
      /\ Tenured(t) \subseteq Members(t) /\ Members(t) \in SUBSET Nat
      /\ Chief(s) \in Tenured(s) /\ Tenured(s) \subseteq Members(s)
  BY StateFields, TenureFields DEF AuthorityInv, LineInv, ChiefInv
<1>1. Creator \in Members(s) => Tenured(s) = Members(s) /\ Chief(s) = Creator
  BY <1>0, TenureUnderCreator
<1>2. CASE a \in Members(t)
  <2>1. b = a
    BY <1>2 DEF Reconcile
  <2>2. CASE a = Chief(s)
    BY <1>0, <1>2, <2>1, <2>2 DEF LineLaw, Pointer
  <2>3. CASE a \in Members(s) \ Tenured(s)
    BY <1>0, <1>1, <2>1, <2>3 DEF LineLaw, Pointer
  <2> QED BY <2>2, <2>3 DEF Pointer
<1>3. CASE a \notin Members(t)
  <2>1. Members(t) \ {a} = Members(t) /\ Members(t) # {}
    BY <1>0, <1>3
  <2>2. b = Lowest(Members(t))
    BY <1>3, <2>1 DEF Reconcile, Successor
  <2>3. b \in Members(t) /\ \A k \in Members(t) : b <= k
    BY <1>0, <2>1, <2>2, LowestIsLeast
  <2>4. CASE b \notin Tenured(t)
    BY <2>3, <2>4 DEF Pointer
  <2>5. CASE b \in Tenured(t)
    <3>1. Creator \notin Members(t)
      BY <1>0, <1>1, <1>3 DEF LineLaw, Pointer
    <3>2. Chief(t) \in Tenured(t) /\ \A k \in Tenured(t) : Chief(t) <= k
      BY <1>0, <3>1, TenureFields
    <3>3. Chief(t) <= b /\ b <= Chief(t) /\ b \in Nat /\ Chief(t) \in Nat
      BY <1>0, <2>3, <2>5, <3>2
    <3> QED BY <3>3 DEF Pointer
  <2> QED BY <2>4, <2>5
<1> QED BY <1>2, <1>3

(* A member that moves on along commits it did not make, and was a member   *)
(* to take, stands as well where it gets.                                   *)
LEMMA StandOn ==
  ASSUME TypeInv, AuthorityInv, NEW n \in Node, NEW t \in States, NEW s \in Line(t),
         Stand(n, s),
         \A c \in Path(t) \ Path(s) : n \in Members(Parent(c)) /\ tree[c].by # n
  PROVE  Stand(n, t)
<1>0. /\ TreeInv /\ s \in States /\ Path(s) \subseteq Path(t) /\ Line(s) \subseteq Line(t)
      /\ LineLaw(s, t) /\ Path(t) \subseteq Commits
      /\ s # t => \E c \in Path(t) \ Path(s) : Parent(c) = s
  BY LineFacts, StateFields DEF TypeInv, AuthorityInv, LineInv
<1>1. CASE s = t
  BY <1>1
<1>2. CASE s # t
  <2>1. n \in Tenured(s)
    BY <1>0, <1>2 DEF Stand, Fits
  <2>2. n \in Members(t) => n \in Tenured(t)
    BY <1>0, <2>1, TenureStays
  <2>3. \E r \in Line(t) : Pointer(dAdm[n], r)
    BY <1>0 DEF Stand, Fits
  <2>4. log[n] \subseteq Path(t)
    BY <1>0 DEF Stand, Fits
  <2>5. saved[n] # {} => Chief(s) = n /\ (Chief(t) = n \/ n \notin Members(t))
    BY <1>0, <2>1, <2>2, TenureFields DEF Stand, Fits, LineLaw
  <2>6. ASSUME NEW c \in saved[n], tree[c].who \in Members(t) PROVE c \in Path(t)
    <3>1. CASE tree[c].who \in Members(s)
      BY <1>0, <2>6, <3>1 DEF Stand, Fits
    <3>2. CASE tree[c].who \notin Members(s)
      <4>1. PICK d \in Path(t) \ Path(s) :
              tree[c].who \in Members(d) /\ tree[c].who \notin Members(Parent(d))
        BY <1>0, <2>6, <3>2 DEF LineLaw
      <4>2. PICK p : p = Parent(d)
        OBVIOUS
      <4>3. /\ d \in Commits /\ d \in Line(t) /\ p \in States /\ Path(p) \subseteq Path(d)
            /\ p \in Line(d)
        BY <1>0, <4>1, <4>2, CommitFields DEF Line
      <4>4. d \in States /\ Line(d) \subseteq Line(t) /\ Path(d) \subseteq Path(t)
        BY <1>0, <4>3, LineFacts
      <4>5. Admission(d) /\ tree[d].by = Chief(p)
        BY <4>1, <4>2, <4>3 DEF AuthorityInv, CauseInv, Admission, Departure
      <4>6. s \in Line(p)
        <5>1. p \in Line(t)
          BY <4>3, <4>4
        <5>2. CASE p \in Line(s)
          <6>1. p = s
            <7>1. ASSUME p # s PROVE FALSE
              <8>1. PICK x \in Path(s) \ Path(p) : Parent(x) = p
                BY <1>0, <5>2, <7>1, LineFacts
              <8>2. x \in Path(t) /\ x \in Commits /\ Epoch(x) = Epoch(p) + 1
                    /\ Epoch(d) = Epoch(p) + 1
                BY <1>0, <4>2, <4>3, <8>1, CommitFields
              <8>3. x = d
                BY <1>0, <4>1, <8>2 DEF TreeInv, PathInv
              <8> QED BY <4>1, <8>1, <8>3
            <7> QED BY <7>1
          <6>2. s \in Line(s)
            BY <1>0, LineFacts DEF Line
          <6> QED BY <6>1, <6>2
        <5>3. s \in Line(p) \/ p \in Line(s)
          BY <1>0, <5>1, LineOrder
        <5> QED BY <5>2, <5>3
      <4>7. Path(p) \ Path(s) \subseteq Path(t) \ Path(s)
        BY <4>3, <4>4
      <4>8. n \in Members(p)
        BY <4>1, <4>2
      <4>9. n \in Tenured(p)
        BY <1>0, <2>1, <4>3, <4>6, <4>7, <4>8, TenureStays
      <4>10. Chief(p) = n
        <5>1. LineLaw(s, p) /\ Chief(s) = n
          BY <2>5, <4>3, <4>6 DEF AuthorityInv, LineInv
        <5> QED BY <4>9, <5>1 DEF LineLaw
      <4> QED BY <4>1, <4>5, <4>10
    <3> QED BY <3>1, <3>2
  <2> QED BY <2>2, <2>3, <2>4, <2>5, <2>6 DEF Stand, Fits
<1> QED BY <1>1, <1>2

-----------------------------------------------------------------------------
(* Steps that leave the tree alone *)

(* The commits on the path to s are of q, or known from others. *)
Known(q, s) == \A c \in Path(s) : tree[c].by = q \/ Vouched(c)

LEMMA KnownStates ==
  ASSUME TypeInv, NEW q \in Node
  PROVE  /\ Known(q, 1) /\ Known(q, st[q]) /\ (dSt[q] # NoState => Known(q, dSt[q]))
         /\ \A x \in Circulating : Known(q, x)
         /\ \A p \in Node : Joined(p) => Known(q, st[p])
<1>0. /\ TreeInv /\ Circulating \subseteq States
      /\ \A p \in Node : st[p] \in States /\ dSt[p] \in {NoState} \cup States
      /\ \A s \in States : Path(s) \subseteq Commits
      /\ \A c \in Commits : c \in States /\ tree[c].by \in Node
  BY TypeFields, StateFields, GenesisFields
<1>1. Known(q, 1)
  BY <1>0, GenesisFields DEF Known
<1>2. Known(q, st[q]) /\ (dSt[q] # NoState => Known(q, dSt[q]))
  BY <1>0 DEF Known, Vouched, Foreign, Seen
<1>3. \A x \in Circulating : Known(q, x)
  BY <1>0 DEF Known, Vouched, Foreign, Seen
<1>4. ASSUME NEW p \in Node, Joined(p) PROVE Known(q, st[p])
  <2> SUFFICES ASSUME NEW c \in Path(st[p]) PROVE Vouched(c)
    BY DEF Known
  <2>1. c \in Commits /\ tree[c].by \in Node
    BY <1>0
  <2>2. CASE tree[c].by = p
    BY <1>4, <2>2 DEF Vouched
  <2>3. CASE tree[c].by # p
    BY <1>4, <2>1, <2>3 DEF Vouched, Foreign, Seen
  <2> QED BY <2>2, <2>3
<1> QED BY <1>1, <1>2, <1>3, <1>4

(* What the invariant says of one member. *)
LEMMA NodeFields ==
  ASSUME GroupInv, NEW q \in Node
  PROVE  /\ Joined(q) => /\ dSt[q] \in States /\ st[q] \in Line(dSt[q])
                         /\ Path(st[q]) \subseteq Path(dSt[q])
                         /\ Fits(q, st[q], dAdm[q], log[q], saved[q])
                         /\ \E r \in Line(st[q]) : Pointer(adm[q], r)
                         /\ Foreign(q) \subseteq Path(st[q])
         /\ Idle(q) => Pointer(adm[q], st[q])
         /\ dSt[q] # NoState => /\ dSt[q] \in States /\ Foreign(q) \subseteq Path(dSt[q])
                                /\ Fits(q, dSt[q], dAdm[q], log[q], saved[q])
         /\ \A c \in saved[q] : tree[c].by = q /\ tree[c].who \in Members(c)
<1>0. /\ TypeInv /\ TreeInv /\ NodeInv(q)
      /\ st[q] \in States /\ dSt[q] \in {NoState} \cup States
      /\ Joined(q) => dSt[q] \in States
  BY TypeFields DEF GroupInv, Joined
<1>1. Joined(q) => /\ st[q] \in Line(dSt[q])
                   /\ Fits(q, st[q], dAdm[q], log[q], saved[q])
                   /\ \E r \in Line(st[q]) : Pointer(adm[q], r)
  BY <1>0 DEF NodeInv, Stand
<1>2. Joined(q) => Path(st[q]) \subseteq Path(dSt[q])
  BY <1>0, <1>1, LineFacts
<1>3. /\ Joined(q) => Foreign(q) \subseteq Path(st[q])
      /\ dSt[q] # NoState => Foreign(q) \subseteq Path(dSt[q])
  BY DEF GroupInv, ForeignInv
<1>4. /\ Idle(q) => Pointer(adm[q], st[q])
      /\ dSt[q] # NoState => /\ dSt[q] \in States
                             /\ Fits(q, dSt[q], dAdm[q], log[q], saved[q])
      /\ \A c \in saved[q] : tree[c].by = q /\ tree[c].who \in Members(c)
  BY <1>0 DEF NodeInv, Stand
<1> QED BY <1>0, <1>1, <1>2, <1>3, <1>4

LEMMA SameOps ==
  ASSUME tree' = tree
  PROVE  /\ States' = States /\ Commits' = Commits
         /\ \A s : /\ Members(s)' = Members(s) /\ Path(s)' = Path(s) /\ Line(s)' = Line(s)
                   /\ Parent(s)' = Parent(s) /\ Epoch(s)' = Epoch(s)
                   /\ Tenured(s)' = Tenured(s) /\ Chief(s)' = Chief(s)
<1>1. States' = States /\ Commits' = Commits
  BY DEF States, Commits
<1>2. \A s : /\ Members(s)' = Members(s) /\ Path(s)' = Path(s) /\ Line(s)' = Line(s)
             /\ Parent(s)' = Parent(s) /\ Epoch(s)' = Epoch(s)
  BY DEF Members, Path, Line, Parent, Epoch
<1>3. \A s : Tenured(s)' = Tenured(s)
  BY <1>2 DEF Tenured
<1>4. \A s : Chief(s)' = Chief(s)
  BY <1>2, <1>3 DEF Chief
<1> QED BY <1>1, <1>2, <1>3, <1>4

(* A frame that q may publish when it then stands in s and has d saved. *)
Proper(q, f, s, d) ==
    /\ f.type = "welcome" => tree[f.id].who \in Members(f.id)
    /\ f.type = "package" => f.who \notin Founders
    /\ f.type = "leave" => f.who \in Tenured(f.at)
    /\ \A x : Carries(f, x) =>
          mode'[q] \in {"in", "quit"} /\ x \in Path(s) /\ d # NoState /\ x \in Path(d)

(* A step of q that makes no commit, after which q stands in s and takes a  *)
(* for the admin, with d, b, L and R in its store.                          *)
Stays(q, s, d, a, b, L, R) ==
    /\ tree' = tree /\ s \in States /\ d \in {NoState} \cup States
    /\ st'[q] = s /\ dSt'[q] = d /\ adm'[q] = a /\ dAdm'[q] = b
    /\ log'[q] = L /\ saved'[q] = R
    /\ net \subseteq net' /\ \A f \in net' : f \in net \/ Proper(q, f, s, d)
    /\ Known(q, s) /\ (d # NoState => Known(q, d))
    /\ d # NoState => Foreign(q) \subseteq Path(d) /\ Fits(q, d, b, L, R)
    /\ mode'[q] \in {"in", "quit"} =>
          /\ Foreign(q) \subseteq Path(s) /\ Fits(q, s, b, L, R)
          /\ \E r \in Line(s) : Pointer(a, r)
          /\ d # NoState => s \in Line(d)
          /\ ~busy'[q] => Pointer(a, s)
    /\ mode'[q] \in {"out", "joining"} =>
          /\ R = {} /\ L = {} /\ a = Creator /\ b = Creator
          /\ q \notin Founders /\ \A c \in Commits : tree[c].by # q
    /\ \A c \in R : tree[c].by = q /\ tree[c].who \in Members(c)

LEMMA StaysSound ==
  ASSUME TypeInv, NEW q \in Node, Others(q), NEW s, NEW d, NEW a, NEW b, NEW L, NEW R,
         Stays(q, s, d, a, b, L, R)
  PROVE  Sound(q)
<1>1. tree' = tree /\ Kept /\ TreeInv /\ Commits' = Commits
  BY SameTree DEF Stays, TypeInv
<1>2. PICK F : F = {f \in net' : Proper(q, f, s, d)}
  OBVIOUS
<1>3. \A x \in Circulating' :
          x \in Circulating \/ (mode'[q] \in {"in", "quit"} /\ x \in Path(s) /\ x \in Path(d))
  <2>1. net' = net \cup F
    BY <1>2 DEF Stays
  <2>2. \A x \in Circulating' : x \in Circulating \/ \E f \in F : Carries(f, x)
    BY <2>1, NetGrows
  <2> QED BY <1>2, <2>2 DEF Proper
<1>4. tree'[st'[q]].path = Path(s) /\ tree'[dSt'[q]].path = Path(d)
      /\ (dSt'[q] # NoState <=> d # NoState)
  BY <1>1 DEF Stays, Path
<1>5. /\ \A c \in Path(s) : tree'[c].by = q \/ (c \in Commits /\ Vouched(c))
      /\ d # NoState => \A c \in Path(d) : tree'[c].by = q \/ (c \in Commits /\ Vouched(c))
  <2>1. Path(s) \subseteq Commits /\ (d # NoState => Path(d) \subseteq Commits)
    BY <1>1, StateFields DEF Stays
  <2> QED BY <1>1, <2>1 DEF Stays, Known
<1>6. /\ mode'[q] \in {"in", "quit"} => Foreign(q) \subseteq Path(s)
      /\ d # NoState => Foreign(q) \subseteq Path(d)
  BY DEF Stays
<1> QED BY <1>1, <1>3, <1>4, <1>5, <1>6 DEF Sound

LEMMA StaysNode ==
  ASSUME TypeInv, NEW q \in Node, NEW s, NEW d, NEW a, NEW b, NEW L, NEW R,
         Stays(q, s, d, a, b, L, R)
  PROVE  NodeInv(q)'
<1>1. /\ tree' = tree /\ States' = States /\ Commits' = Commits
      /\ \A x : /\ Members(x)' = Members(x) /\ Path(x)' = Path(x) /\ Line(x)' = Line(x)
                /\ Tenured(x)' = Tenured(x) /\ Chief(x)' = Chief(x)
  BY SameOps DEF Stays
<1>2. /\ s \in States /\ d \in {NoState} \cup States
      /\ st'[q] = s /\ dSt'[q] = d /\ adm'[q] = a /\ dAdm'[q] = b /\ log'[q] = L /\ saved'[q] = R
  BY DEF Stays
<1>3. ASSUME NEW t \in States, Fits(q, t, b, L, R) PROVE Stand(q, t)'
  BY <1>1, <1>2, <1>3 DEF Stand, Fits, Pointer
<1>4. mode'[q] \in {"out", "joining"} =>
          /\ saved'[q] = {} /\ log'[q] = {} /\ adm'[q] = Creator /\ dAdm'[q] = Creator
          /\ q \notin Founders /\ \A c \in Commits' : tree'[c].by # q
  BY <1>1, <1>2 DEF Stays
<1>5. \A c \in saved'[q] : tree'[c].by = q /\ tree'[c].who \in Members(c)'
  BY <1>1, <1>2 DEF Stays
<1>6. ASSUME NEW t \in States'
      PROVE  /\ st'[q] = t /\ Joined(q)' =>
                  Stand(q, t)' /\ \E r \in Line(t)' : Pointer(adm[q], r)'
             /\ st'[q] = t /\ Idle(q)' => Pointer(adm[q], t)'
             /\ dSt'[q] = t => Stand(q, t)'
  <2>0. t \in States /\ NoState \notin States
    BY <1>1 DEF States, NoState
  <2>1. ASSUME st'[q] = t, Joined(q)'
        PROVE  Stand(q, t)' /\ \E r \in Line(t)' : Pointer(adm[q], r)'
    <3>1. t = s /\ mode'[q] \in {"in", "quit"}
      BY <1>2, <2>1 DEF Joined
    <3>2. Fits(q, s, b, L, R) /\ \E r \in Line(s) : Pointer(a, r)
      BY <3>1 DEF Stays
    <3> QED BY <1>1, <1>2, <1>3, <3>1, <3>2 DEF Pointer
  <2>2. ASSUME st'[q] = t, Idle(q)' PROVE Pointer(adm[q], t)'
    <3>1. t = s /\ mode'[q] \in {"in", "quit"} /\ ~busy'[q]
      BY <1>2, <2>2 DEF Joined, Idle
    <3>2. Pointer(a, s)
      BY <3>1 DEF Stays
    <3> QED BY <1>1, <1>2, <3>1, <3>2 DEF Pointer
  <2>3. ASSUME dSt'[q] = t PROVE Stand(q, t)'
    BY <1>2, <1>3, <2>0, <2>3 DEF Stays
  <2> QED BY <2>1, <2>2, <2>3
<1>7. \A t, e \in States' : st'[q] = t /\ dSt'[q] = e /\ Joined(q)' => t \in Line(e)'
  <2>1. NoState \notin States
    BY DEF States, NoState
  <2> QED BY <1>1, <1>2, <2>1 DEF Stays, Joined
<1> QED BY <1>4, <1>5, <1>6, <1>7 DEF NodeInv

LEMMA StepKeeps ==
  ASSUME GroupInv, NEW q \in Node, Step(q), AuthorityInv', WireInv', Sound(q), NodeInv(q)',
         States' \subseteq States \cup {Len(tree) + 1}
  PROVE  GroupInv' /\ Sound(q)
<1>1. TypeInv' /\ ClosedInv' /\ TypeInv /\ Others(q)
  BY TypeNext, ClosedStep, OthersKept DEF GroupInv
<1>2. ForeignInv'
  <2>1. \A n \in Node : Joined(n) => Path(st[n]) \subseteq Path(dSt[n])
    BY NodeFields
  <2> QED BY <1>1, <2>1, ForeignStep DEF GroupInv
<1>3. \A m \in Node \ {q} : NodeInv(m)'
  <2>1. /\ Kept /\ \A c \in Commits' : c \in Commits \/ tree'[c].by = q
    BY DEF Sound
  <2> QED BY <1>1, <2>1, NodeKept DEF GroupInv
<1> QED BY <1>1, <1>2, <1>3 DEF GroupInv

LEMMA StaysKeeps ==
  ASSUME GroupInv, NEW q \in Node, Step(q), NEW s, NEW d, NEW a, NEW b, NEW L, NEW R,
         Stays(q, s, d, a, b, L, R)
  PROVE  GroupInv' /\ Sound(q)
<1>1. TypeInv /\ Others(q) /\ AuthorityInv /\ WireInv
  BY OthersKept DEF GroupInv
<1>2. /\ tree' = tree /\ States' = States
      /\ \A x : Members(x)' = Members(x) /\ Tenured(x)' = Tenured(x)
  BY SameOps DEF Stays
<1>3. Parting \subseteq Parting' /\ AuthorityInv'
  <2>1. Parting \subseteq Parting'
    BY DEF Stays, Parting
  <2> QED BY <1>1, <1>2, <2>1, AuthoritySame
<1>4. WireInv'
  <2> SUFFICES ASSUME NEW f \in net'
               PROVE  /\ f.type = "welcome" => tree'[f.id].who \in Members(f.id)'
                      /\ f.type = "package" => f.who \notin Founders
                      /\ f.type = "leave" => f.who \in Tenured(f.at)'
    BY DEF WireInv
  <2>1. f \in net \/ Proper(q, f, s, d)
    BY DEF Stays
  <2> QED BY <1>1, <1>2, <2>1 DEF WireInv, Proper
<1>5. Sound(q) /\ NodeInv(q)'
  BY <1>1, StaysSound, StaysNode
<1> QED BY <1>2, <1>3, <1>4, <1>5, StepKeeps

(* Steps of q after which it stands where it stood, with the same store. *)
LEMMA StaysPut ==
  ASSUME GroupInv, NEW q \in Node, Step(q), tree' = tree,
         st'[q] = st[q], dSt'[q] = dSt[q], adm'[q] = adm[q], dAdm'[q] = dAdm[q],
         log'[q] = log[q], saved'[q] = saved[q],
         net \subseteq net', \A f \in net' : f \in net \/ Proper(q, f, st[q], dSt[q]),
         mode'[q] \in {"in", "quit"} => Joined(q),
         mode'[q] \in {"in", "quit"} /\ ~busy'[q] => Idle(q),
         mode'[q] \in {"out", "joining"} => mode[q] \in {"out", "joining"}
  PROVE  GroupInv' /\ Sound(q)
<1>1. PICK s, d, a, b, L, R : /\ s = st[q] /\ d = dSt[q] /\ a = adm[q] /\ b = dAdm[q]
                              /\ L = log[q] /\ R = saved[q]
  OBVIOUS
<1>2. TypeInv /\ s \in States /\ d \in {NoState} \cup States /\ NodeInv(q)
  BY <1>1, TypeFields DEF GroupInv
<1>3. Known(q, s) /\ (d # NoState => Known(q, d))
  BY <1>1, <1>2, KnownStates
<1>4. /\ d # NoState => Foreign(q) \subseteq Path(d) /\ Fits(q, d, b, L, R)
      /\ \A c \in R : tree[c].by = q /\ tree[c].who \in Members(c)
  BY <1>1, NodeFields
<1>5. mode'[q] \in {"in", "quit"} =>
          /\ Foreign(q) \subseteq Path(s) /\ Fits(q, s, b, L, R)
          /\ \E r \in Line(s) : Pointer(a, r)
          /\ d # NoState => s \in Line(d)
          /\ ~busy'[q] => Pointer(a, s)
  BY <1>1, NodeFields
<1>6. mode'[q] \in {"out", "joining"} =>
          /\ R = {} /\ L = {} /\ a = Creator /\ b = Creator
          /\ q \notin Founders /\ \A c \in Commits : tree[c].by # q
  BY <1>1, <1>2 DEF NodeInv
<1>7. Stays(q, s, d, a, b, L, R)
  BY <1>1, <1>2, <1>3, <1>4, <1>5, <1>6 DEF Stays
<1> QED BY <1>7, StaysKeeps

LEMMA KeepsJoin ==
  ASSUME GroupInv, NEW n \in Node, Join(n) \/ RetryJoin(n)
  PROVE  GroupInv' /\ Sound(n)
<1>0. TypeNow /\ Step(n) /\ NodeInv(n)
  BY TypesNow DEF GroupInv, Step
<1>1. n \notin Founders /\ mode[n] \in {"out", "joining"}
  BY <1>0 DEF NodeInv, Join, RetryJoin
<1>2. PICK f : f = [type |-> "package", who |-> n]
  OBVIOUS
<1>3. net \subseteq net' /\ \A g \in net' : g \in net \/ g = f
  <2>1. CASE Join(n)
    BY <1>2, <2>1, PublishedFields DEF Join
  <2>2. CASE RetryJoin(n)
    BY <1>2, <2>2 DEF RetryJoin
  <2> QED BY <2>1, <2>2
<1>4. Proper(n, f, st[n], dSt[n])
  BY <1>1, <1>2 DEF Proper, Carries
<1>5. mode'[n] = "joining" /\ tree' = tree /\ UNCHANGED <<st, adm, dSt, dAdm, log, saved>>
  <2>1. CASE Join(n)
    BY <1>0, <2>1 DEF Join, TypeNow, store
  <2>2. CASE RetryJoin(n)
    BY <2>2 DEF RetryJoin, memory, store
  <2> QED BY <2>1, <2>2
<1> QED BY <1>0, <1>1, <1>3, <1>4, <1>5, StaysPut

LEMMA KeepsReplay ==
  ASSUME GroupInv, NEW n \in Node, NEW f \in net, ReplayAdmission(n, f)
  PROVE  GroupInv' /\ Sound(n)
<1>0. /\ TypeInv /\ Step(n) /\ Idle(n) /\ Joined(n) /\ f.who \in Members(st[n])
      /\ UNCHANGED <<tree, memory, store>>
  BY DEF GroupInv, Step, Receive, ReplayAdmission, Idle
<1>1. PICK c \in saved[n], F \in SUBSET Frame :
            /\ tree[c].who = f.who /\ c \in Commits
            /\ F \subseteq AdmissionFrames(c) /\ net' = net \cup F
            /\ \A g \in F : g.type \in {"welcome", "commit"} /\ g.id = c
                            /\ \A x : Carries(g, x) => x = c
  BY <1>0, ReplayFields
<1>2. c \in Path(st[n]) /\ c \in Path(dSt[n]) /\ tree[c].who \in Members(c)
      /\ dSt[n] # NoState
  <2>1. NoState \notin States
    BY DEF States, NoState
  <2> QED BY <1>0, <1>1, <2>1, NodeFields DEF Fits
<1>3. mode'[n] = mode[n] /\ busy'[n] = busy[n] /\ mode'[n] \in {"in", "quit"}
  BY <1>0 DEF memory, Joined
<1>4. \A g \in net' : g \in net \/ Proper(n, g, st[n], dSt[n])
  BY <1>1, <1>2, <1>3 DEF Proper
<1>5. UNCHANGED <<tree, st, adm, dSt, dAdm, log, saved>>
  BY <1>0 DEF memory, store
<1> QED BY <1>0, <1>1, <1>3, <1>4, <1>5, StaysPut

LEMMA KeepsServe ==
  ASSUME GroupInv, NEW n \in Node, NEW f \in net, ServeResync(n, f)
  PROVE  GroupInv' /\ Sound(n)
<1>0. /\ TypeInv /\ Step(n) /\ Idle(n) /\ Joined(n) /\ UNCHANGED <<tree, memory, store>>
  BY DEF GroupInv, Step, Receive, ServeResync, Idle
<1>1. PICK g \in Frame : /\ net' = net \cup {g} /\ g.type = "response"
                         /\ g.commits \subseteq log[n]
  BY <1>0, ServeFields
<1>2. log[n] \subseteq Path(st[n]) /\ log[n] \subseteq Path(dSt[n]) /\ dSt[n] # NoState
  <2>1. NoState \notin States
    BY DEF States, NoState
  <2> QED BY <1>0, <2>1, NodeFields DEF Fits
<1>3. mode'[n] = mode[n] /\ busy'[n] = busy[n] /\ mode'[n] \in {"in", "quit"}
  BY <1>0 DEF memory, Joined
<1>4. Proper(n, g, st[n], dSt[n])
  BY <1>1, <1>2, <1>3 DEF Proper, Carries
<1>5. UNCHANGED <<tree, st, adm, dSt, dAdm, log, saved>>
  BY <1>0 DEF memory, store
<1> QED BY <1>0, <1>1, <1>3, <1>4, <1>5, StaysPut

LEMMA KeepsRecvResponse ==
  ASSUME GroupInv, NEW n \in Node, NEW f \in net, RecvResponse(n, f)
  PROVE  GroupInv' /\ Sound(n)
<1>0. TypeNow /\ Step(n) /\ Idle(n) /\ Joined(n)
  BY TypesNow DEF GroupInv, Step, Receive, RecvResponse, Idle
<1>1. busy' = [busy EXCEPT ![n] = TRUE]
      /\ UNCHANGED <<tree, net, mode, st, adm, dSt, dAdm, log, saved>>
  BY DEF RecvResponse, store
<1>2. busy'[n] = TRUE /\ mode'[n] \in {"in", "quit"}
  BY <1>0, <1>1 DEF TypeNow, Joined
<1> QED BY <1>0, <1>1, <1>2, StaysPut

LEMMA KeepsEndAbsorb ==
  ASSUME GroupInv, NEW n \in Node, EndAbsorb(n)
  PROVE  GroupInv' /\ Sound(n)
<1>0. TypeInv /\ TypeNow /\ Step(n) /\ Joined(n) /\ AuthorityInv /\ TreeInv
  BY TypesNow DEF GroupInv, Step, EndAbsorb, ClosedInv, Closed, TypeInv
<1>1. PICK s, d, a, b, L, R :
        /\ s = st[n] /\ d = dSt[n] /\ a = Reconcile(adm[n], Members(st[n])) /\ b = dAdm[n]
        /\ L = log[n] /\ R = saved[n]
  OBVIOUS
<1>2. s \in States /\ d \in States /\ NoState \notin States /\ adm[n] \in Node
  BY <1>0, <1>1, TypeFields DEF Joined, States, NoState
<1>3. /\ tree' = tree /\ st'[n] = s /\ dSt'[n] = d /\ adm'[n] = a /\ dAdm'[n] = b
      /\ log'[n] = L /\ saved'[n] = R /\ mode'[n] \in {"in", "quit"}
  BY <1>0, <1>1 DEF TypeNow, EndAbsorb, store, Joined
<1>4. net \subseteq net' /\ \A f \in net' : f \in net \/ Proper(n, f, s, d)
  <2>1. CASE \E sent \in BOOLEAN : Ask(n, Silent, s, sent)
    <3>1. net \subseteq net' /\ \A f \in net' \ net : f.type = "request"
      BY <1>0, <1>2, <2>1, AskFields
    <3> QED BY <3>1 DEF Proper, Carries
  <2>2. CASE net' = net
    BY <2>2
  <2> QED BY <1>1, <2>1, <2>2 DEF EndAbsorb
<1>5. Known(n, s) /\ Known(n, d)
  BY <1>0, <1>1, <1>2, KnownStates
<1>6. /\ Foreign(n) \subseteq Path(d) /\ Fits(n, d, b, L, R)
      /\ Foreign(n) \subseteq Path(s) /\ Fits(n, s, b, L, R) /\ s \in Line(d)
      /\ \A c \in R : tree[c].by = n /\ tree[c].who \in Members(c)
      /\ \E r \in Line(s) : Pointer(adm[n], r)
  BY <1>0, <1>1, <1>2, NodeFields
<1>7. Pointer(a, s) /\ s \in Line(s)
  <2>1. s \in Line(s)
    BY <1>0, <1>2, LineFacts DEF Line
  <2> QED BY <1>0, <1>1, <1>2, <1>6, <2>1, PointerOn
<1>8. Stays(n, s, d, a, b, L, R)
  BY <1>2, <1>3, <1>4, <1>5, <1>6, <1>7 DEF Stays
<1> QED BY <1>0, <1>8, StaysKeeps

LEMMA KeepsSave ==
  ASSUME GroupInv, NEW n \in Node, SaveRecord(n)
  PROVE  GroupInv' /\ Sound(n)
<1>0. TypeInv /\ TypeNow /\ Step(n) /\ Joined(n) /\ Idle(n) /\ TreeInv
  BY TypesNow DEF GroupInv, Step, SaveRecord, Idle, TypeInv
<1>1. PICK s, a, L, R : s = st[n] /\ a = adm[n] /\ L = log[n] /\ R = saved[n]
  OBVIOUS
<1>2. s \in States /\ NoState \notin States
  BY <1>0, <1>1, TypeFields DEF States, NoState
<1>3. /\ tree' = tree /\ net' = net /\ st'[n] = s /\ dSt'[n] = s /\ adm'[n] = a /\ dAdm'[n] = a
      /\ log'[n] = L /\ saved'[n] = R /\ mode'[n] \in {"in", "quit"}
  BY <1>0, <1>1 DEF TypeNow, SaveRecord, memory, Joined
<1>4. Known(n, s)
  BY <1>0, <1>1, KnownStates
<1>5. /\ Foreign(n) \subseteq Path(s) /\ Fits(n, s, dAdm[n], L, R)
      /\ \A c \in R : tree[c].by = n /\ tree[c].who \in Members(c)
      /\ Pointer(a, s)
  BY <1>0, <1>1, NodeFields
<1>6. s \in Line(s)
  BY <1>0, <1>2, LineFacts DEF Line
<1>7. Fits(n, s, a, L, R)
  BY <1>5, <1>6 DEF Fits
<1>8. Stays(n, s, s, a, a, L, R)
  BY <1>2, <1>3, <1>4, <1>5, <1>6, <1>7 DEF Stays
<1> QED BY <1>0, <1>8, StaysKeeps

(* The session ends; what is saved stays or goes. *)
LEMMA KeepsForget ==
  ASSUME GroupInv, NEW n \in Node, Step(n), tree' = tree, Forget(n), mode'[n] \in {"gone", "down"},
         dAdm'[n] = dAdm[n], saved'[n] = saved[n],
         \/ dSt'[n] = dSt[n] /\ log'[n] = log[n]
         \/ dSt'[n] = NoState,
         net \subseteq net', \A f \in net' : f \in net \/ Proper(n, f, 1, dSt'[n])
  PROVE  GroupInv' /\ Sound(n)
<1>0. TypeInv /\ TreeInv /\ 1 \in States
  BY GenesisFields DEF GroupInv, TypeInv
<1>1. PICK d, b, L, R : d = dSt'[n] /\ b = dAdm[n] /\ L = log'[n] /\ R = saved[n]
  OBVIOUS
<1>2. d \in {NoState} \cup States
  BY <1>0, <1>1, TypeFields
<1>3. st'[n] = 1 /\ adm'[n] = Creator
  BY <1>0, ForgetFields
<1>4. Known(n, 1) /\ (d # NoState => Known(n, d))
  BY <1>0, <1>1, KnownStates
<1>5. /\ d # NoState => Foreign(n) \subseteq Path(d) /\ Fits(n, d, b, L, R)
      /\ \A c \in R : tree[c].by = n /\ tree[c].who \in Members(c)
  BY <1>1, NodeFields
<1>6. mode'[n] \notin {"in", "quit", "out", "joining"}
  OBVIOUS
<1>7. Stays(n, 1, d, Creator, b, L, R)
  BY <1>0, <1>1, <1>2, <1>3, <1>4, <1>5, <1>6 DEF Stays
<1> QED BY <1>7, StaysKeeps

LEMMA KeepsCrash ==
  ASSUME GroupInv, NEW n \in Node, Crash(n)
  PROVE  GroupInv' /\ Sound(n)
<1>0. TypeNow /\ Step(n)
  BY TypesNow DEF GroupInv, Step
<1>1. /\ Forget(n) /\ tree' = tree /\ net' = net /\ mode'[n] \in {"gone", "down"}
      /\ UNCHANGED <<dSt, dAdm, log, saved>>
  BY <1>0 DEF Crash, TypeNow, store
<1> QED BY <1>0, <1>1, KeepsForget

LEMMA KeepsLeave ==
  ASSUME GroupInv, NEW n \in Node, Leave(n)
  PROVE  GroupInv' /\ Sound(n)
<1>0. TypeNow /\ Step(n) /\ Joined(n) /\ Idle(n) /\ n \in Members(st[n])
  BY TypesNow DEF GroupInv, Step, Leave, Idle
<1>1. PICK l : l = [type |-> "leave", who |-> n, at |-> st[n]]
  OBVIOUS
<1>2. n \in Tenured(st[n])
  BY <1>0, NodeFields DEF Fits
<1>3. \A s, d : Proper(n, l, s, d)
  BY <1>1, <1>2 DEF Proper, Carries
<1>4. net' = net \cup {l} /\ tree' = tree /\ UNCHANGED <<dAdm, saved>>
  BY <1>1 DEF Leave
<1>5. CASE /\ mode' = [mode EXCEPT ![n] = "gone"] /\ Forget(n)
           /\ dSt' = [dSt EXCEPT ![n] = NoState]
  <2>1. mode'[n] = "gone" /\ dSt'[n] = NoState
    BY <1>0, <1>5 DEF TypeNow
  <2> QED BY <1>0, <1>3, <1>4, <1>5, <2>1, KeepsForget
<1>6. CASE mode' = [mode EXCEPT ![n] = "down"] /\ Forget(n) /\ UNCHANGED <<dSt, log>>
  <2>1. mode'[n] = "down"
    BY <1>0, <1>6 DEF TypeNow
  <2> QED BY <1>0, <1>3, <1>4, <1>6, <2>1, KeepsForget
<1>7. CASE /\ mode' = [mode EXCEPT ![n] = "quit"]
           /\ UNCHANGED <<st, adm, buf, asked, rejoin, busy, todo, dSt, log>>
  <2>1. mode'[n] = "quit"
    BY <1>0, <1>7 DEF TypeNow
  <2> QED BY <1>0, <1>3, <1>4, <1>7, <2>1, StaysPut
<1> QED BY <1>5, <1>6, <1>7 DEF Leave

LEMMA KeepsRestart ==
  ASSUME GroupInv, NEW n \in Node, Restart(n)
  PROVE  GroupInv' /\ Sound(n)
<1>0. TypeInv /\ TypeNow /\ Step(n) /\ AuthorityInv /\ TreeInv
  BY TypesNow DEF GroupInv, Step, TypeInv
<1>1. PICK d, a, b, L, R : /\ d = dSt[n] /\ a = Reconcile(dAdm[n], Members(dSt[n]))
                           /\ b = dAdm[n] /\ L = log[n] /\ R = saved[n]
  OBVIOUS
<1>2. d \in States /\ NoState \notin States /\ b \in Node
  BY <1>0, <1>1, TypeFields DEF States, NoState, Restart
<1>3. /\ tree' = tree /\ st'[n] = d /\ dSt'[n] = d /\ adm'[n] = a /\ dAdm'[n] = b
      /\ log'[n] = L /\ saved'[n] = R /\ mode'[n] = "in"
  BY <1>0, <1>1 DEF TypeNow, Restart, store
<1>4. net \subseteq net' /\ \A f \in net' : f \in net \/ Proper(n, f, d, d)
  <2>1. net \subseteq net' /\ \A f \in net' \ net : f.type = "request"
    BY <1>0, RestartFields
  <2> QED BY <2>1 DEF Proper, Carries
<1>5. Known(n, d)
  BY <1>0, <1>1, <1>2, KnownStates
<1>6. /\ Foreign(n) \subseteq Path(d) /\ Fits(n, d, b, L, R)
      /\ \A c \in R : tree[c].by = n /\ tree[c].who \in Members(c)
  BY <1>1, <1>2, NodeFields
<1>7. Pointer(a, d) /\ d \in Line(d)
  <2>1. d \in Line(d)
    BY <1>0, <1>2, LineFacts DEF Line
  <2>2. PICK r \in Line(d) : Pointer(b, r)
    BY <1>6 DEF Fits
  <2> QED BY <1>0, <1>1, <1>2, <2>1, <2>2, PointerOn
<1>8. Stays(n, d, d, a, b, L, R)
  BY <1>2, <1>3, <1>4, <1>5, <1>6, <1>7 DEF Stays
<1> QED BY <1>0, <1>8, StaysKeeps

(* A Welcome by the creator: the creator was there to make it, and whoever  *)
(* it admits is tenured.                                                    *)
LEMMA WelcomeFields ==
  ASSUME GroupInv, NEW n \in Node, NEW c \in Commits, tree[c].who = n, tree[c].by = Creator,
         n \in Members(c)
  PROVE  n \in Tenured(c) /\ Creator \in Members(c) /\ Chief(c) = Creator
<1>0. TypeInv /\ TreeInv /\ AuthorityInv
  BY DEF GroupInv, TypeInv
<1>1. PICK p : p = Parent(c)
  OBVIOUS
<1>2. p \in States /\ c \in States
  BY <1>0, <1>1, CommitFields
<1>3. Admission(c)
  <2>1. ASSUME Departure(c) PROVE FALSE
    BY <2>1 DEF Departure
  <2> QED BY <1>0, <2>1 DEF AuthorityInv, CauseInv
<1>4. Creator = Chief(p) /\ Members(p) \subseteq Members(c)
  BY <1>1, <1>3 DEF Admission
<1>5. Creator \in Members(p)
  BY <1>0, <1>2, <1>4, TenureFields DEF AuthorityInv, ChiefInv
<1>6. Creator \in Members(c)
  BY <1>4, <1>5
<1> QED BY <1>0, <1>2, <1>6, TenureUnderCreator

LEMMA KeepsWelcome ==
  ASSUME GroupInv, NEW n \in Node, NEW f \in net, RecvWelcome(n, f)
  PROVE  GroupInv' /\ Sound(n)
<1>0. /\ TypeInv /\ TypeNow /\ Step(n) /\ AuthorityInv /\ TreeInv /\ NodeInv(n) /\ WireInv
      /\ mode[n] = "joining" /\ f.type = "welcome"
  BY TypesNow DEF GroupInv, Step, Receive, TypeInv, RecvWelcome
<1>1. PICK d : d = f.id
  OBVIOUS
<1>2. /\ d \in Circulating /\ d \in Commits /\ d \in States /\ NoState \notin States
      /\ st[n] \in States
  BY <1>0, <1>1, FrameFields, TypeFields DEF States, NoState
<1>3. /\ saved[n] = {} /\ log[n] = {} /\ adm[n] = Creator /\ dAdm[n] = Creator
      /\ n \notin Founders /\ \A c \in Commits : tree[c].by # n
  BY <1>0 DEF NodeInv
<1>4. tree[d].who = n /\ tree[d].by = Creator /\ n \in Members(d)
  BY <1>0, <1>1, <1>3 DEF RecvWelcome, WireInv
<1>5. n \in Tenured(d) /\ Creator \in Members(d) /\ Chief(d) = Creator
  BY <1>2, <1>4, WelcomeFields
<1>6. d \in Line(d) /\ Pointer(Creator, d) /\ Fits(n, d, Creator, {}, {})
  <2>1. d \in Line(d)
    BY <1>0, <1>2, LineFacts DEF Line
  <2>2. Pointer(Creator, d)
    BY <1>5 DEF Pointer
  <2> QED BY <1>5, <2>1, <2>2 DEF Fits
<1>7. Foreign(n) = {}
  BY <1>3 DEF Foreign
<1>8. Known(n, d) /\ Known(n, st[n])
  BY <1>0, <1>2, KnownStates
<1>9. /\ tree' = tree /\ net' = net /\ dSt'[n] = d /\ dAdm'[n] = Creator /\ log'[n] = {}
      /\ saved'[n] = {}
  BY <1>0, <1>1, <1>3 DEF RecvWelcome, TypeNow
<1>10. CASE UNCHANGED <<mode, st, adm>>
  <2>1. st'[n] = st[n] /\ adm'[n] = Creator /\ mode'[n] = "joining"
    BY <1>0, <1>3, <1>10
  <2>2. PICK s : s = st[n]
    OBVIOUS
  <2>3. Stays(n, s, d, Creator, Creator, {}, {})
    BY <1>2, <1>3, <1>6, <1>7, <1>8, <1>9, <2>1, <2>2 DEF Stays
  <2> QED BY <1>0, <2>3, StaysKeeps
<1>11. CASE /\ mode' = [mode EXCEPT ![n] = "in"] /\ st' = [st EXCEPT ![n] = d]
            /\ adm' = [adm EXCEPT ![n] = Reconcile(adm[n], Members(d))]
  <2>1. Reconcile(adm[n], Members(d)) = Creator
    BY <1>3, <1>5 DEF Reconcile
  <2>2. st'[n] = d /\ adm'[n] = Creator /\ mode'[n] = "in"
    BY <1>0, <1>11, <2>1 DEF TypeNow
  <2>3. Stays(n, d, d, Creator, Creator, {}, {})
    BY <1>2, <1>6, <1>7, <1>8, <1>9, <2>2 DEF Stays
  <2> QED BY <1>0, <2>3, StaysKeeps
<1> QED BY <1>1, <1>10, <1>11 DEF RecvWelcome

(* Moving on along commits that others made: member n, with an open         *)
(* session, gets from its state to t.                                       *)
Taken(n, t) ==
    /\ t \in States /\ st[n] \in Line(t)
    /\ \A c \in Path(t) \ Path(st[n]) : n \in Members(Parent(c)) /\ Seen(n, c)

LEMMA TakenFields ==
  ASSUME GroupInv, NEW n \in Node, Joined(n), NEW t, Taken(n, t)
  PROVE  /\ Foreign(n) \subseteq Path(t) /\ Path(st[n]) \subseteq Path(t)
         /\ \A L \in SUBSET Path(t) : Fits(n, t, dAdm[n], L, saved[n])
         /\ \E r \in Line(t) : Pointer(adm[n], r)
         /\ Pointer(Reconcile(adm[n], Members(t)), t)
         /\ t \in Line(t)
<1>0. /\ TypeInv /\ TreeInv /\ AuthorityInv /\ t \in States /\ st[n] \in Line(t)
      /\ st[n] \in States /\ adm[n] \in Node /\ Path(t) \subseteq Commits
  BY TypeFields, StateFields DEF GroupInv, Taken
<1>1. Path(st[n]) \subseteq Path(t) /\ Line(st[n]) \subseteq Line(t) /\ t \in Line(t)
  BY <1>0, LineFacts
<1>2. /\ Foreign(n) \subseteq Path(st[n]) /\ Stand(n, st[n])
      /\ \E r \in Line(st[n]) : Pointer(adm[n], r)
  BY NodeFields DEF Stand
<1>3. \A c \in Path(t) \ Path(st[n]) : n \in Members(Parent(c)) /\ tree[c].by # n
  BY <1>0, <1>2 DEF Taken, Foreign
<1>4. Stand(n, t)
  <2>1. PICK s \in Line(t) : s = st[n]
    BY <1>0
  <2> QED BY <1>0, <1>2, <1>3, <2>1, StandOn
<1>5. \A L \in SUBSET Path(t) : Fits(n, t, dAdm[n], L, saved[n])
  BY <1>4 DEF Stand, Fits
<1>6. PICK r \in Line(t) : Pointer(adm[n], r)
  BY <1>1, <1>2
<1>7. Pointer(Reconcile(adm[n], Members(t)), t)
  BY <1>0, <1>6, PointerOn
<1> QED BY <1>1, <1>2, <1>5, <1>6, <1>7

(* Where sequence_commit leaves the member, in memory and on disk. *)
LEMMA SequenceTakes ==
  ASSUME GroupInv, NEW n \in Node, Joined(n), NEW c \in Circulating, NEW t \in States,
         Sequenced(n, c, t)
  PROVE  /\ st'[n] = t /\ mode'[n] \in {"in", "quit"}
         /\ Taken(n, t) /\ Known(n, t) /\ dSt'[n] \in States /\ t \in Line(dSt'[n])
         /\ Known(n, dSt'[n]) /\ Foreign(n) \subseteq Path(dSt'[n])
         /\ log'[n] \subseteq Path(t) /\ Fits(n, dSt'[n], dAdm[n], log'[n], saved[n])
<1>0. /\ TypeInv /\ TreeInv /\ c \in Commits /\ st[n] \in States /\ buf[n] \subseteq Circulating
      /\ dSt[n] \in States /\ log[n] \subseteq Commits
      /\ Circulating \subseteq Commits /\ Circulating \subseteq States
  BY TypeFields DEF GroupInv, Joined
<1>1. PICK B : B = buf[n] \cup {c}
  OBVIOUS
<1>2. /\ t \in Reach(n, B, st[n]) /\ B \subseteq Circulating /\ B \in SUBSET Commits
      /\ log'[n] \subseteq log[n] \cup (Path(t) \ Path(st[n]))
  BY <1>0, <1>1, SequenceFields
<1>3. /\ st[n] \in Line(t) /\ Path(st[n]) \subseteq Path(t) /\ Path(t) \ Path(st[n]) \subseteq B
      /\ \A x \in Path(t) \ Path(st[n]) : n \in Members(Parent(x))
  BY <1>0, <1>2, ReachFields
<1>4. \A x \in Circulating : x \in Path(x) /\ Seen(n, x) /\ Vouched(x)
  <2>1. \A x \in Circulating : x \in Path(x) /\ tree[x].by \in Node
    BY <1>0, CommitFields, StateFields
  <2>2. \A x \in Circulating : \A m : Seen(m, x)
    BY <2>1 DEF Seen
  <2> QED BY <1>0, <2>1, <2>2 DEF Vouched, Foreign
<1>5. Taken(n, t)
  BY <1>2, <1>3, <1>4 DEF Taken
<1>6. Known(n, t)
  <2>1. Known(n, st[n])
    BY <1>0, KnownStates
  <2> QED BY <1>2, <1>3, <1>4, <2>1 DEF Known
<1>7. /\ Foreign(n) \subseteq Path(t) /\ t \in Line(t)
      /\ \A L \in SUBSET Path(t) : Fits(n, t, dAdm[n], L, saved[n])
  BY <1>5, TakenFields
<1>8. log'[n] \subseteq Path(t)
  <2>1. log[n] \subseteq Path(st[n])
    BY NodeFields DEF Fits
  <2> QED BY <1>2, <1>3, <2>1
<1>9. PICK d : d = dSt'[n]
  OBVIOUS
<1>10. /\ d \in States /\ t \in Line(d) /\ Known(n, d) /\ Foreign(n) \subseteq Path(d)
       /\ Fits(n, d, dAdm[n], log'[n], saved[n])
  <2>1. CASE d = t
    BY <1>6, <1>7, <1>8, <2>1
  <2>2. CASE t = st[n] /\ d = dSt[n]
    <3>1. /\ t \in Line(d) /\ Foreign(n) \subseteq Path(d) /\ d # NoState
          /\ Fits(n, d, dAdm[n], log[n], saved[n])
      BY <1>0, <2>2, NodeFields DEF States, NoState
    <3>2. log'[n] \subseteq log[n]
      BY <1>2, <2>2
    <3>3. Fits(n, d, dAdm[n], log'[n], saved[n])
      BY <3>1, <3>2 DEF Fits
    <3>4. Known(n, d)
      BY <1>0, <2>2, <3>1, KnownStates
    <3> QED BY <1>0, <2>2, <3>1, <3>3, <3>4
  <2>3. CASE d \in B /\ Parent(d) = t /\ n \in Members(t)
    <3>1. /\ d \in Circulating /\ d \in Commits /\ d \in States /\ Path(d) = Path(t) \cup {d}
          /\ Line(d) = Line(t) \cup {d}
      BY <1>0, <1>2, <2>3, CommitFields
    <3>2. Taken(n, d)
      BY <1>3, <1>4, <1>5, <2>3, <3>1 DEF Taken
    <3>3. Known(n, d)
      BY <1>4, <1>6, <3>1 DEF Known
    <3>4. /\ Foreign(n) \subseteq Path(d)
          /\ \A L \in SUBSET Path(d) : Fits(n, d, dAdm[n], L, saved[n])
      BY <3>2, TakenFields
    <3> QED BY <1>7, <1>8, <3>1, <3>3, <3>4
  <2>4. \/ t = st[n] /\ dSt'[n] = dSt[n]
        \/ t # st[n] /\ dSt'[n] = t
        \/ /\ dSt'[n] \in buf[n] \cup {c} /\ dSt'[n] \in Commits
           /\ Parent(dSt'[n]) = t /\ n \in Members(t)
    BY <1>0, SequenceFields
  <2> QED BY <1>1, <1>9, <2>1, <2>2, <2>3, <2>4
<1>11. st'[n] = t /\ mode'[n] \in {"in", "quit"}
  <2>1. st'[n] = t
    <3>1. st' = [st EXCEPT ![n] = t]
      BY DEF Sequenced, Sequence
    <3> QED BY <1>0, <3>1, TypesNow DEF TypeNow
  <2>2. mode'[n] \in {mode[n], "in"}
    BY <1>0, SequenceFields
  <2> QED BY <2>1, <2>2 DEF Joined
<1> QED BY <1>5, <1>6, <1>8, <1>9, <1>10, <1>11

LEMMA KeepsSequence ==
  ASSUME GroupInv, NEW n \in Node, Step(n), Joined(n), NEW c \in Circulating, NEW t \in States,
         Sequenced(n, c, t), tree' = tree, dAdm'[n] = dAdm[n], saved'[n] = saved[n],
         net \subseteq net', \A f \in net' \ net : f.type = "request",
         \/ adm'[n] = Reconcile(adm[n], Members(t))
         \/ adm'[n] = adm[n] /\ busy'[n]
  PROVE  GroupInv' /\ Sound(n)
<1>1. PICK d, a, b, L, R : /\ d = dSt'[n] /\ a = adm'[n] /\ b = dAdm[n] /\ L = log'[n]
                           /\ R = saved[n]
  OBVIOUS
<1>2. /\ Taken(n, t) /\ Known(n, t) /\ d \in States /\ t \in Line(d)
      /\ Known(n, d) /\ Foreign(n) \subseteq Path(d)
      /\ L \subseteq Path(t) /\ Fits(n, d, b, L, R)
  BY <1>1, SequenceTakes
<1>3. /\ Foreign(n) \subseteq Path(t) /\ Fits(n, t, b, L, R) /\ t \in Line(t)
      /\ \E r \in Line(t) : Pointer(adm[n], r)
      /\ Pointer(Reconcile(adm[n], Members(t)), t)
  BY <1>1, <1>2, TakenFields
<1>4. (\E r \in Line(t) : Pointer(a, r)) /\ (~busy'[n] => Pointer(a, t))
  BY <1>1, <1>3
<1>5. st'[n] = t /\ mode'[n] \in {"in", "quit"}
  BY SequenceTakes
<1>6. \A f \in net' : f \in net \/ Proper(n, f, t, d)
  BY DEF Proper, Carries
<1>7. \A x \in R : tree[x].by = n /\ tree[x].who \in Members(x)
  BY <1>1, NodeFields
<1>8. Stays(n, t, d, a, b, L, R)
  BY <1>1, <1>2, <1>3, <1>4, <1>5, <1>6, <1>7 DEF Stays
<1> QED BY <1>8, StaysKeeps

LEMMA KeepsRecvCommit ==
  ASSUME GroupInv, NEW n \in Node, NEW f \in net, RecvCommit(n, f)
  PROVE  GroupInv' /\ Sound(n)
<1>0. TypeInv /\ TypeNow /\ Step(n) /\ Joined(n) /\ f.id \in Circulating
  BY TypesNow, BringsFields DEF GroupInv, Step, Receive, RecvCommit, Idle
<1>1. PICK t \in States, ok \in BOOLEAN :
          /\ Sequence(n, f.id, t, ok)
          /\ \/ \E sent \in BOOLEAN : Ask(n, asked[n], t, sent)
             \/ UNCHANGED net
          /\ adm' = [adm EXCEPT ![n] = Reconcile(adm[n], Members(t))]
  BY DEF RecvCommit
<1>2. Sequenced(n, f.id, t)
  BY <1>1 DEF Sequenced
<1>3. net \subseteq net' /\ \A g \in net' \ net : g.type = "request"
  <2>1. CASE \E sent \in BOOLEAN : Ask(n, asked[n], t, sent)
    <3>1. asked[n] \in {Silent} \cup 0..MaxCommits
      BY <1>0, TypeFields
    <3> QED BY <1>0, <2>1, <3>1, AskFields
  <2>2. CASE UNCHANGED net
    BY <2>2
  <2> QED BY <1>1, <2>1, <2>2
<1>4. adm'[n] = Reconcile(adm[n], Members(t))
  BY <1>0, <1>1 DEF TypeNow
<1>5. tree' = tree /\ UNCHANGED <<dAdm, saved>>
  BY DEF RecvCommit
<1> QED BY <1>0, <1>2, <1>3, <1>4, <1>5, KeepsSequence

LEMMA KeepsAbsorb ==
  ASSUME GroupInv, NEW n \in Node, AbsorbNext(n)
  PROVE  GroupInv' /\ Sound(n)
<1>0. TypeInv /\ Step(n) /\ Joined(n) /\ busy[n]
  BY DEF GroupInv, Step, AbsorbNext, ClosedInv, Closed
<1>1. PICK c \in todo[n], t \in States : Sequenced(n, c, t)
  BY DEF AbsorbNext, Sequenced
<1>2. c \in Circulating
  BY <1>0, TypeFields
<1>3. tree' = tree /\ net' = net /\ UNCHANGED <<adm, busy, dAdm, saved>>
  BY DEF AbsorbNext
<1> QED BY <1>0, <1>1, <1>2, <1>3, KeepsSequence

LEMMA KeepsTransition ==
  ASSUME GroupInv, NEW n \in Node, NEW p \in Node, InstallTransition(n, p)
  PROVE  GroupInv' /\ Sound(n)
<1>0. TypeInv /\ TreeInv /\ TypeNow /\ Step(n) /\ Idle(n) /\ Joined(n) /\ Joined(p) /\ p # n
  BY TypesNow DEF GroupInv, Step, InstallTransition, Idle, TypeInv
<1>1. PICK c \in Evidence(p) :
          /\ Applies(n, c, st[n]) /\ n \in Members(c)
          /\ dSt' = [dSt EXCEPT ![n] = c]
          /\ \/ /\ st' = [st EXCEPT ![n] = c]
                /\ adm' = [adm EXCEPT ![n] = Reconcile(adm[n], Members(c))]
                /\ mode' = [mode EXCEPT ![n] = "in"]
             \/ UNCHANGED <<mode, st, adm>>
  BY DEF InstallTransition
<1>2. /\ c \in Path(st[p]) /\ Parent(c) = st[n] /\ n \in Members(st[n])
      /\ st[p] \in States /\ st[n] \in States
  BY <1>0, <1>1, TypeFields DEF Evidence, Applies, Parent
<1>3. /\ c \in Commits /\ c \in States /\ Path(c) = Path(st[n]) \cup {c}
      /\ Line(c) = Line(st[n]) \cup {c} /\ Parent(c) \in Line(c)
      /\ Path(c) \subseteq Path(st[p])
  <2>1. c \in Commits
    BY <1>0, <1>2, StateFields
  <2>2. Path(c) \subseteq Path(st[p])
    BY <1>0, <1>2 DEF TreeInv, PathInv
  <2> QED BY <1>0, <1>2, <2>1, <2>2, CommitFields
<1>4. Seen(n, c)
  BY <1>0, <1>2 DEF Seen
<1>5. Taken(n, c)
  BY <1>2, <1>3, <1>4 DEF Taken
<1>6. Known(n, c) /\ Known(n, st[n])
  <2>1. Known(n, st[p]) /\ Known(n, st[n])
    BY <1>0, KnownStates
  <2> QED BY <1>3, <2>1 DEF Known
<1>7. /\ Foreign(n) \subseteq Path(c)
      /\ \A L \in SUBSET Path(c) : Fits(n, c, dAdm[n], L, saved[n])
      /\ Pointer(Reconcile(adm[n], Members(c)), c) /\ c \in Line(c)
  BY <1>0, <1>5, TakenFields
<1>8. /\ Foreign(n) \subseteq Path(st[n]) /\ Fits(n, st[n], dAdm[n], log[n], saved[n])
      /\ Pointer(adm[n], st[n])
      /\ \A x \in saved[n] : tree[x].by = n /\ tree[x].who \in Members(x)
  BY <1>0, NodeFields
<1>9. PICK b, L, R : b = dAdm[n] /\ L = log[n] /\ R = saved[n]
  OBVIOUS
<1>10. L \subseteq Path(c) /\ Fits(n, c, b, L, R)
  BY <1>3, <1>7, <1>8, <1>9 DEF Fits
<1>11. /\ tree' = tree /\ net' = net /\ dAdm'[n] = b /\ log'[n] = L /\ saved'[n] = R
       /\ dSt'[n] = c
  BY <1>0, <1>1, <1>9 DEF TypeNow, InstallTransition
<1>12. CASE UNCHANGED <<mode, st, adm>>
  <2>1. PICK s, a : s = st[n] /\ a = adm[n]
    OBVIOUS
  <2>2. /\ st'[n] = s /\ adm'[n] = a /\ mode'[n] \in {"in", "quit"} /\ s \in Line(c)
        /\ s \in Line(s)
    <3>1. s \in Line(s)
      BY <1>0, <1>2, <2>1, LineFacts DEF Line
    <3> QED BY <1>0, <1>2, <1>3, <1>12, <2>1, <3>1 DEF Joined
  <2>3. Stays(n, s, c, a, b, L, R)
    BY <1>2, <1>3, <1>6, <1>7, <1>8, <1>9, <1>10, <1>11, <2>1, <2>2 DEF Stays
  <2> QED BY <1>0, <2>3, StaysKeeps
<1>13. CASE /\ st' = [st EXCEPT ![n] = c]
            /\ adm' = [adm EXCEPT ![n] = Reconcile(adm[n], Members(c))]
            /\ mode' = [mode EXCEPT ![n] = "in"]
  <2>1. PICK a : a = Reconcile(adm[n], Members(c))
    OBVIOUS
  <2>2. st'[n] = c /\ adm'[n] = a /\ mode'[n] = "in"
    BY <1>0, <1>13, <2>1 DEF TypeNow
  <2>3. Pointer(a, c)
    BY <1>7, <2>1
  <2>4. Stays(n, c, c, a, b, L, R)
    BY <1>3, <1>6, <1>7, <1>8, <1>9, <1>10, <1>11, <2>2, <2>3 DEF Stays
  <2> QED BY <1>0, <2>4, StaysKeeps
<1> QED BY <1>1, <1>12, <1>13

-----------------------------------------------------------------------------
(* Steps that make a commit *)

(* Two laws, for the state after a step. *)
LEMMA TenureLaw ==
  TreeInv => \A t \in Commits : \A x \in States : x = Parent(t) =>
                Tenured(x) \cap Members(t) \subseteq Tenured(t)
<1> SUFFICES ASSUME TreeInv, NEW t \in Commits, NEW x \in States, x = Parent(t),
                    NEW m \in Tenured(x), m \in Members(t)
             PROVE  m \in Tenured(t)
  OBVIOUS
<1>1. CASE Creator \in Members(t)
  BY <1>1, CommitFields, TenureUnderCreator
<1>2. CASE Creator \notin Members(t)
  BY <1>2, TenureOfChild
<1> QED BY <1>1, <1>2

LEMMA PointerLaw ==
  TreeInv /\ AuthorityInv =>
     \A t \in States : \A s \in Line(t) : \A a \in Node, b \in Node, X \in SUBSET Node :
        Pointer(a, s) /\ X = Members(t) /\ b = Reconcile(a, X) => Pointer(b, t)
BY PointerOn

(* The commit k that n makes in state p. *)
LEMMA MadeKeeps ==
  ASSUME GroupInv, NEW n \in Node, Step(n), Idle(n), NEW who \in Node, NEW M \in SUBSET Node,
         NEW R, NEW F, NEW k, k = Len(tree) + 1, NEW p, p = st[n],
         Grown(n, st[n], who, M), Made(n, Child(n, who, M), R, F),
         \A f \in F : /\ f.type \in {"welcome", "commit"} /\ f.id = k
                      /\ f.type = "welcome" => who \in M,
         Admission(k)' \/ Departure(k)', n \in M,
         R # {} => Chief(p) = n, R \subseteq saved[n] \cup {k}, k \in R => who \in M,
         \A c \in R \ {k} : tree[c].who \in M => tree[c].who \in Members(p),
         k \in R => who \notin Members(p)
  PROVE  GroupInv' /\ Sound(n)
<1>0. /\ TypeInv /\ TreeInv /\ TypeNow /\ Joined(n) /\ AuthorityInv /\ WireInv /\ Others(n)
      /\ p \in States /\ saved[n] \subseteq Commits
  BY TypesNow, OthersKept, TypeFields DEF GroupInv, Idle
<1>1. /\ Kept /\ TreeInv' /\ States' = States \cup {k} /\ Commits' = Commits \cup {k}
      /\ k \notin States /\ k \notin Commits /\ k # NoState
  BY <1>0, GrownSets
<1>2. /\ Parent(k)' = p /\ Path(k)' = Path(p) \cup {k} /\ Members(k)' = M
      /\ tree'[k].by = n /\ tree'[k].who = who /\ tree'[k].path = Path(p) \cup {k}
  <2>1. /\ Parent(k)' = st[n] /\ Path(k)' = Path(st[n]) \cup {k} /\ Members(k)' = M
        /\ tree'[k].by = n /\ tree'[k].who = who
    <3>1. tree'[k] = [parent |-> st[n], epoch |-> Epoch(st[n]) + 1, by |-> n, who |-> who,
                      members |-> M, path |-> Path(st[n]) \cup {k}]
      BY <1>0, GrownFields
    <3> QED BY <3>1 DEF Parent, Members, Path
  <2>2. tree'[k].path = Path(st[n]) \cup {k}
    BY <2>1 DEF Path
  <2> QED BY <2>1, <2>2
<1>3. PICK c : c = Child(n, who, M)
  OBVIOUS
<1>4. c.members = M /\ c.members \in SUBSET Node /\ Made(n, c, R, F)
  BY <1>3 DEF Child
<1>5. /\ dSt'[n] = k /\ saved'[n] = R /\ UNCHANGED <<mode, busy, dAdm>>
      /\ \/ st'[n] = k /\ log'[n] \subseteq log[n] \cup {k} /\ adm'[n] = Reconcile(adm[n], M)
         \/ st' = st /\ log' = log /\ net' = net /\ adm' = adm
  BY <1>0, <1>4, MadeFields
<1>6. net \subseteq net' /\ \A f \in net' : f \in net \/ (f \in F /\ st'[n] = k)
  <2>1. CASE UNCHANGED <<st, log, net, adm>>
    BY <2>1
  <2>2. CASE st' = [st EXCEPT ![n] = Len(tree) + 1] /\ \E G \in SUBSET F : net' = net \cup G
    BY <1>0, <2>2 DEF TypeNow
  <2> QED BY <2>1, <2>2 DEF Made
<1>7. \A s \in States :
        /\ Members(s)' = Members(s) /\ Path(s)' = Path(s)
        /\ Line(s)' = Line(s) /\ tree'[s] = tree[s] /\ Tenured(s)' = Tenured(s)
        /\ Chief(s)' = Chief(s) /\ Line(s) \subseteq States /\ Path(s) \subseteq Commits
  BY <1>0, <1>1, KeptFields, TenureKept, StateFields
<1>8. Commits \subseteq States
  BY <1>0, GenesisFields
<1>9. Parting \subseteq Parting' /\ AuthorityInv'
  <2>1. Parting \subseteq Parting'
    BY <1>6 DEF Parting
  <2> QED BY <1>0, <2>1, AuthorityGrows
<1>10. WireInv'
  <2> SUFFICES ASSUME NEW f \in net'
               PROVE  /\ f.type = "welcome" => tree'[f.id].who \in Members(f.id)'
                      /\ f.type = "package" => f.who \notin Founders
                      /\ f.type = "leave" => f.who \in Tenured(f.at)'
    BY DEF WireInv
  <2>1. CASE f \in net
    <3>1. /\ f.type = "welcome" => f.id \in States
          /\ f.type = "leave" => f.at \in States
      BY <1>0, <2>1, FrameFields, TypeFields
    <3> QED BY <1>0, <1>7, <2>1, <3>1 DEF WireInv
  <2>2. CASE f \in F
    BY <1>2, <2>2
  <2> QED BY <1>6, <2>1, <2>2
<1>11. /\ Foreign(n) \subseteq Path(p) /\ Known(n, p) /\ Fits(n, p, dAdm[n], log[n], saved[n])
       /\ Pointer(adm[n], p) /\ \A x \in saved[n] : tree[x].by = n /\ tree[x].who \in Members(x)
  BY <1>0, NodeFields, KnownStates
<1>12. /\ Line(k)' = Line(p) \cup {k} /\ p \in Line(p) /\ k \in Line(k)' /\ p \in Line(k)'
  <2>1. Line(k)' = Line(p) \cup {k}
    BY <1>2 DEF Line
  <2>2. p \in Line(p)
    BY <1>0, LineFacts DEF Line
  <2> QED BY <2>1, <2>2
<1>13. Sound(n)
  <2>1. \A x \in Circulating' : \/ x \in Circulating
                                \/ /\ mode'[n] \in {"in", "quit"} /\ x \in tree'[st'[n]].path
                                   /\ x \in tree'[dSt'[n]].path
    <3> SUFFICES ASSUME NEW x \in Circulating', x \notin Circulating
                 PROVE  /\ mode'[n] \in {"in", "quit"} /\ x \in tree'[st'[n]].path
                        /\ x \in tree'[dSt'[n]].path
      OBVIOUS
    <3>1. PICK G : G = net' \ net
      OBVIOUS
    <3>2. net' = net \cup G
      BY <1>6, <3>1
    <3>3. PICK f \in G : Carries(f, x)
      BY <3>2, NetGrows
    <3>4. f \in F /\ st'[n] = k /\ x = k
      BY <1>6, <3>1, <3>3 DEF Carries
    <3>5. mode'[n] \in {"in", "quit"}
      BY <1>0, <1>5 DEF Joined
    <3> QED BY <1>2, <1>5, <3>4, <3>5
  <2>2. \A x \in Path(p) \cup {k} : tree'[x].by = n \/ (x \in Commits /\ Vouched(x))
    <3>1. \A x \in Path(p) : x \in Commits /\ tree'[x] = tree[x]
      BY <1>0, <1>7, <1>8
    <3> QED BY <1>2, <1>11, <3>1 DEF Known
  <2>3. tree'[st'[n]].path \in {Path(p), Path(p) \cup {k}} /\ tree'[dSt'[n]].path = Path(p) \cup {k}
    <3>1. tree'[p].path = Path(p)
      BY <1>0, <1>7 DEF Path
    <3> QED BY <1>2, <1>5, <3>1
  <2> QED BY <1>0, <1>1, <1>2, <1>11, <2>1, <2>2, <2>3 DEF Sound
<1>14. n \in Tenured(k)' /\ (R # {} => Chief(k)' = n)
  <2>1. (\A t \in Commits : \A x \in States : x = Parent(t) =>
                Tenured(x) \cap Members(t) \subseteq Tenured(t))'
    BY <1>1, TenureLaw, PTL
  <2>2. n \in Tenured(p)
    <3>1. n \in Members(p)
      <4>1. CASE Admission(k)'
        <5>1. tree'[k].by = Chief(Parent(k))'
          BY <4>1 DEF Admission
        <5>2. Chief(p)' = Chief(p) /\ Chief(p) \in Tenured(p) /\ Tenured(p) \subseteq Members(p)
          BY <1>0, <1>7, TenureFields DEF AuthorityInv, ChiefInv
        <5>3. Chief(Parent(k))' = Chief(p)'
          BY <1>2 DEF Chief, Tenured, Members, Line, Path, Epoch, Parent
        <5> QED BY <1>2, <5>1, <5>2, <5>3
      <4>2. CASE Departure(k)'
        <5>1. Members(k)' = Members(Parent(k))' \ {tree'[k].who}
          BY <4>2 DEF Departure
        <5>2. Members(Parent(k))' = Members(p)'
          BY <1>2 DEF Members, Parent
        <5> QED BY <1>0, <1>2, <1>7, <5>1, <5>2
      <4> QED BY <4>1, <4>2
    <3> QED BY <1>11, <3>1 DEF Fits
  <2>3. n \in Tenured(k)'
    BY <1>0, <1>1, <1>2, <1>7, <2>1, <2>2
  <2>4. LineLaw(p, k)'
    BY <1>1, <1>9, <1>12 DEF AuthorityInv, LineInv
  <2>5. Chief(p)' \in Tenured(k)' => Chief(k)' = Chief(p)'
    BY <2>4 DEF LineLaw
  <2> QED BY <1>0, <1>7, <2>3, <2>5
<1>15. ASSUME log'[n] \subseteq Path(p) \cup {k} PROVE Stand(n, k)'
  <2>1. dAdm'[n] = dAdm[n] /\ saved'[n] = R
    BY <1>5
  <2>2. PICK r \in Line(p) : Pointer(dAdm[n], r)
    BY <1>11 DEF Fits
  <2>3. r \in Line(k)' /\ r \in States /\ Chief(r)' = Chief(r) /\ Tenured(r)' = Tenured(r)
        /\ Members(r)' = Members(r)
    BY <1>0, <1>7, <1>12, <2>2
  <2>4. \E x \in Line(k)' : dAdm'[n] = Chief(x)' \/ dAdm'[n] \in Members(x)' \ Tenured(x)'
    BY <2>1, <2>2, <2>3 DEF Pointer
  <2>5. ASSUME NEW x \in R, tree'[x].who \in Members(k)' PROVE x \in Path(k)'
    <3>1. CASE x = k
      BY <1>2, <3>1
    <3>2. CASE x # k
      <4>1. x \in saved[n] /\ x \in States
        BY <1>0, <1>8, <3>2
      <4>2. tree[x].who \in Members(p)
        BY <1>2, <1>7, <2>5, <3>2, <4>1
      <4>3. x \in Path(p)
        BY <1>11, <4>1, <4>2 DEF Fits
      <4> QED BY <1>2, <4>3
    <3> QED BY <3>1, <3>2
  <2> QED BY <1>2, <1>14, <1>15, <2>1, <2>4, <2>5 DEF Stand, Fits, Pointer
<1>16. ASSUME log'[n] = log[n] PROVE Stand(n, p)'
  <2>1. dAdm'[n] = dAdm[n] /\ saved'[n] = R
    BY <1>5
  <2>2. PICK r \in Line(p) : Pointer(dAdm[n], r)
    BY <1>11 DEF Fits
  <2>3. r \in Line(p)' /\ r \in States /\ Chief(r)' = Chief(r) /\ Tenured(r)' = Tenured(r)
        /\ Members(r)' = Members(r)
    BY <1>0, <1>7, <2>2
  <2>4. \E x \in Line(p)' : dAdm'[n] = Chief(x)' \/ dAdm'[n] \in Members(x)' \ Tenured(x)'
    BY <2>1, <2>2, <2>3 DEF Pointer
  <2>5. ASSUME NEW x \in R, tree'[x].who \in Members(p)' PROVE x \in Path(p)'
    <3>1. CASE x = k
      BY <1>0, <1>2, <1>7, <2>5, <3>1
    <3>2. CASE x # k
      <4>1. x \in saved[n] /\ x \in States
        BY <1>0, <1>8, <3>2
      <4>2. tree[x].who \in Members(p)
        BY <1>0, <1>7, <2>5, <4>1
      <4>3. x \in Path(p)
        BY <1>11, <4>1, <4>2 DEF Fits
      <4> QED BY <1>0, <1>7, <4>3
    <3> QED BY <3>1, <3>2
  <2>6. /\ n \in Members(p)' => n \in Tenured(p)'
        /\ log'[n] \subseteq Path(p)'
        /\ R # {} => Chief(p)' = n
    BY <1>0, <1>7, <1>11, <1>16 DEF Fits
  <2> QED BY <2>1, <2>4, <2>5, <2>6 DEF Stand, Fits, Pointer
<1>17. log'[n] \subseteq Path(p) \cup {k}
  BY <1>5, <1>11 DEF Fits
<1>18. NodeInv(n)'
  <2>1. /\ mode'[n] \in {"in", "quit"} /\ mode'[n] \notin {"out", "joining"}
    BY <1>0, <1>5 DEF Joined
  <2>2. \A x \in saved'[n] : tree'[x].by = n /\ tree'[x].who \in Members(x)'
    BY <1>0, <1>2, <1>5, <1>7, <1>8, <1>11
  <2>3. st'[n] \in {k, p}
    BY <1>5
  <2>4. st'[n] = k => Stand(n, k)' /\ Pointer(adm[n], k)'
    <3> SUFFICES ASSUME st'[n] = k PROVE Stand(n, k)' /\ Pointer(adm[n], k)'
      OBVIOUS
    <3>1. adm'[n] = Reconcile(adm[n], M)
      BY <1>0, <1>1, <1>5
    <3>2. (\A t \in States : \A s \in Line(t) : \A a \in Node, b \in Node, X \in SUBSET Node :
             Pointer(a, s) /\ X = Members(t) /\ b = Reconcile(a, X) => Pointer(b, t))'
      BY <1>1, <1>9, PointerLaw, PTL
    <3>3. PICK a \in Node, b \in Node : a = adm[n] /\ b = adm'[n]
      BY <1>0, <3>1, TypeFields, SuccessorType
    <3>4. Pointer(a, p)'
      BY <1>0, <1>7, <1>11, <3>3 DEF Pointer
    <3>5. Pointer(b, k)'
      <4>1. k \in States' /\ p \in Line(k)' /\ M = Members(k)' /\ b = Reconcile(a, M)
        BY <1>1, <1>2, <1>12, <3>1, <3>3
      <4> QED BY <3>2, <3>4, <4>1
    <3>6. Pointer(adm[n], k)'
      BY <3>3, <3>5 DEF Pointer
    <3> QED BY <1>15, <1>17, <3>6
  <2>5. st'[n] = p => Stand(n, p)' /\ Pointer(adm[n], p)'
    <3> SUFFICES ASSUME st'[n] = p PROVE Stand(n, p)' /\ Pointer(adm[n], p)'
      OBVIOUS
    <3>1. log' = log /\ adm' = adm
      BY <1>0, <1>1, <1>5
    <3>2. Pointer(adm[n], p)'
      BY <1>0, <1>7, <1>11, <3>1 DEF Pointer
    <3> QED BY <1>16, <3>1, <3>2
  <2>6. \A s \in States' : st'[n] = s =>
           Stand(n, s)' /\ Pointer(adm[n], s)' /\ \E r \in Line(s)' : Pointer(adm[n], r)'
    <3>1. p \in Line(p)' /\ k \in Line(k)'
      BY <1>0, <1>7, <1>12
    <3> QED BY <2>3, <2>4, <2>5, <3>1
  <2>7. \A s \in States' : dSt'[n] = s => Stand(n, s)'
    BY <1>5, <1>15, <1>17
  <2>8. \A s, d \in States' : st'[n] = s /\ dSt'[n] = d => s \in Line(d)'
    BY <1>5, <1>12, <2>3
  <2> QED BY <2>1, <2>2, <2>6, <2>7, <2>8 DEF NodeInv
<1>19. States' \subseteq States \cup {Len(tree) + 1}
  BY <1>1
<1> QED BY <1>9, <1>10, <1>13, <1>18, <1>19, StepKeeps

(* The new commit k, made by n in state p. *)
NewCommit(n, who, M, k, p) ==
    /\ tree'[k].by = n /\ tree'[k].who = who /\ Members(k)' = M
    /\ Parent(k)' = p /\ tree'[k].parent = p
    /\ Members(p)' = Members(p) /\ Tenured(p)' = Tenured(p) /\ Chief(p)' = Chief(p)
    /\ p \in States /\ k \notin Commits

LEMMA MadeState ==
  ASSUME GroupInv, NEW n \in Node, NEW who \in Node, NEW M \in SUBSET Node,
         Grown(n, st[n], who, M), NEW k, k = Len(tree) + 1, NEW p, p = st[n]
  PROVE  NewCommit(n, who, M, k, p)
<1>1. TypeInv /\ TreeInv /\ p \in States
  BY TypeFields DEF GroupInv
<1>2. /\ Kept /\ Parent(k)' = st[n] /\ Members(k)' = M
      /\ tree'[k].by = n /\ tree'[k].who = who /\ k \notin Commits
  <2>0. TypeInv
    BY <1>1
  <2>1. Kept /\ k \notin Commits
    BY <2>0, GrownSets
  <2>2. /\ Parent(k)' = st[n] /\ Members(k)' = M /\ tree'[k].by = n /\ tree'[k].who = who
    <3>1. tree'[k] = [parent |-> st[n], epoch |-> Epoch(st[n]) + 1, by |-> n, who |-> who,
                      members |-> M, path |-> Path(st[n]) \cup {k}]
      BY <1>1, GrownFields
    <3> QED BY <3>1 DEF Parent, Members
  <2> QED BY <2>1, <2>2
<1>3. /\ Members(p)' = Members(p) /\ Tenured(p)' = Tenured(p) /\ Chief(p)' = Chief(p)
  BY <1>1, <1>2, KeptFields, TenureKept
<1>4. tree'[k].parent = p
  BY <1>2 DEF Parent
<1> QED BY <1>1, <1>2, <1>3, <1>4 DEF NewCommit

(* An admin that is up to date is the chief of the state it stands in.      *)
LEMMA AdminIsChief ==
  ASSUME GroupInv, NEW n \in Node, Idle(n), adm[n] = n, NEW p, p = st[n]
  PROVE  n = Chief(p) /\ n \in Members(p)
<1>1. TypeInv /\ TreeInv /\ p \in States /\ Joined(n) /\ AuthorityInv
  BY TypeFields DEF GroupInv, Idle
<1>2. Pointer(n, p) /\ Fits(n, p, dAdm[n], log[n], saved[n])
  BY <1>1, NodeFields
<1>3. Tenured(p) \subseteq Members(p) /\ Chief(p) \in Tenured(p)
  BY <1>1, TenureFields DEF AuthorityInv, ChiefInv
<1>4. n \in Members(p) => n \in Tenured(p)
  BY <1>2 DEF Fits
<1> QED BY <1>2, <1>3, <1>4 DEF Pointer

LEMMA KeepsAdmit ==
  ASSUME GroupInv, NEW n \in Node, NEW f \in net, Admit(n, f)
  PROVE  GroupInv' /\ Sound(n)
<1>0. /\ TypeInv /\ TreeInv /\ WireInv /\ Step(n) /\ Idle(n) /\ adm[n] = n /\ f.type = "package"
      /\ f.who \notin Members(st[n]) /\ saved[n] \subseteq Commits
  BY TypeFields DEF GroupInv, Admit, ActingAdmin, Step, Receive
<1>1. PICK p, k, who, M, R, F :
        /\ p = st[n] /\ k = Len(tree) + 1 /\ who = f.who /\ M = Members(st[n]) \cup {f.who}
        /\ R = {d \in saved[n] : tree[d].who # f.who} \cup {Len(tree) + 1}
        /\ F = AdmissionFrames(Len(tree) + 1)
  BY Zenon
<1>10. p \in States /\ who \in Node
  <2>1. st[n] \in States
    BY <1>0, TypeFields
  <2>2. f.who \in Node
    BY <1>0, AdmitFields
  <2> QED BY <1>1, <2>1, <2>2
<1>2. /\ M \in SUBSET Node /\ Grown(n, st[n], who, M) /\ Made(n, Child(n, who, M), R, F)
  <2>1. /\ Members(st[n]) \cup {f.who} \in SUBSET Node
        /\ Grown(n, st[n], f.who, Members(st[n]) \cup {f.who})
        /\ Made(n, Child(n, f.who, Members(st[n]) \cup {f.who}),
                {d \in saved[n] : tree[d].who # f.who} \cup {Len(tree) + 1},
                AdmissionFrames(Len(tree) + 1))
    BY <1>0, AdmitFields
  <2> QED BY <1>1, <2>1
<1>3. /\ tree'[k].by = n /\ tree'[k].who = who /\ Members(k)' = M
      /\ Members(Parent(k))' = Members(p) /\ Chief(Parent(k))' = Chief(p) /\ k \notin Commits
  <2>1. /\ n \in Node /\ who \in Node /\ M \in SUBSET Node /\ Grown(n, st[n], who, M)
        /\ k = Len(tree) + 1 /\ p = st[n]
    BY <1>1, <1>2, <1>10
  <2>0. NewCommit(n, who, M, k, p)
    BY <2>1, MadeState
  <2>2. /\ tree'[k].by = n /\ tree'[k].who = who /\ Members(k)' = M /\ k \notin Commits
        /\ Parent(k)' = p /\ tree'[k].parent = p
    BY <2>0 DEF NewCommit
  <2>3. /\ Members(p)' = Members(p) /\ Tenured(p)' = Tenured(p) /\ Chief(p)' = Chief(p)
    BY <2>0 DEF NewCommit
  <2>4. Members(Parent(k))' = Members(p)' /\ Tenured(Parent(k))' = Tenured(p)'
        /\ Chief(Parent(k))' = Chief(p)'
    BY <2>2 DEF Parent, Members, Tenured, Chief, Line, Path, Epoch
  <2> QED BY <2>2, <2>3, <2>4
<1>4. n = Chief(p) /\ n \in Members(p)
  BY <1>0, <1>1, AdminIsChief
<1>5. who \notin Founders
  BY <1>0, <1>1 DEF WireInv
<1>6. Admission(k)'
  BY <1>0, <1>1, <1>3, <1>4, <1>5 DEF Admission
<1>7. \A g \in F : /\ g.type \in {"welcome", "commit"} /\ g.id = k
                   /\ g.type = "welcome" => who \in M
  BY <1>1 DEF AdmissionFrames
<1>8. /\ R \subseteq saved[n] \cup {k} /\ who \in M /\ who \notin Members(p) /\ n \in M
      /\ \A c \in R \ {k} : tree[c].who \in M => tree[c].who \in Members(p)
  BY <1>0, <1>1, <1>4
<1> QED BY <1>0, <1>1, <1>2, <1>4, <1>6, <1>7, <1>8, <1>10, MadeKeeps

LEMMA KeepsDeparture ==
  ASSUME GroupInv, NEW n \in Node, NEW f \in net, CommitDeparture(n, f)
  PROVE  GroupInv' /\ Sound(n)
<1>0. /\ TypeInv /\ TreeInv /\ WireInv /\ AuthorityInv /\ Step(n) /\ Idle(n) /\ Joined(n)
      /\ f.type = "leave" /\ f.who # n /\ f.at = st[n] /\ ShouldCommitDeparture(n, f.who)
      /\ saved[n] \subseteq Commits
  <2>1. /\ Step(n) /\ Idle(n)
        /\ f.type = "leave" /\ f.who # n /\ f.at = st[n] /\ ShouldCommitDeparture(n, f.who)
    BY DEF CommitDeparture, Step, Receive
  <2> QED BY <2>1, TypeFields DEF GroupInv, Idle
<1>1. PICK p, k, who, M, R, F :
        /\ p = st[n] /\ k = Len(tree) + 1 /\ who = f.who /\ M = Members(st[n]) \ {f.who}
        /\ R = saved[n] /\ F = {[type |-> "commit", id |-> Len(tree) + 1]}
  BY Zenon
<1>10. p \in States /\ who \in Node
  <2>1. st[n] \in States
    BY <1>0, TypeFields
  <2>2. f.who \in Node
    BY <1>0, DepartureFields
  <2> QED BY <1>1, <2>1, <2>2
<1>2. /\ M \in SUBSET Node /\ Grown(n, st[n], who, M) /\ Made(n, Child(n, who, M), R, F)
  <2>1. /\ Members(st[n]) \ {f.who} \in SUBSET Node
        /\ Grown(n, st[n], f.who, Members(st[n]) \ {f.who})
        /\ Made(n, Child(n, f.who, Members(st[n]) \ {f.who}), saved[n],
                {[type |-> "commit", id |-> Len(tree) + 1]})
    BY <1>0, DepartureFields
  <2> QED BY <1>1, <2>1
<1>3. /\ tree'[k].by = n /\ tree'[k].who = who /\ Members(k)' = M /\ Parent(k)' = p
      /\ Members(Parent(k))' = Members(p) /\ Tenured(Parent(k))' = Tenured(p)
      /\ Chief(Parent(k))' = Chief(p) /\ k \notin Commits
  <2>1. /\ n \in Node /\ who \in Node /\ M \in SUBSET Node /\ Grown(n, st[n], who, M)
        /\ k = Len(tree) + 1 /\ p = st[n]
    BY <1>1, <1>2, <1>10
  <2>0. NewCommit(n, who, M, k, p)
    BY <2>1, MadeState
  <2>2. /\ tree'[k].by = n /\ tree'[k].who = who /\ Members(k)' = M /\ k \notin Commits
        /\ Parent(k)' = p /\ tree'[k].parent = p
    BY <2>0 DEF NewCommit
  <2>3. /\ Members(p)' = Members(p) /\ Tenured(p)' = Tenured(p) /\ Chief(p)' = Chief(p)
    BY <2>0 DEF NewCommit
  <2>4. Members(Parent(k))' = Members(p)' /\ Tenured(Parent(k))' = Tenured(p)'
        /\ Chief(Parent(k))' = Chief(p)'
    BY <2>2 DEF Parent, Members, Tenured, Chief, Line, Path, Epoch
  <2> QED BY <2>2, <2>3, <2>4
<1>4. /\ Pointer(adm[n], p) /\ Fits(n, p, dAdm[n], log[n], saved[n])
      /\ Tenured(p) \subseteq Members(p) /\ who \in Tenured(p)
  BY <1>0, <1>1, <1>10, NodeFields, TenureFields DEF WireInv
<1>5. /\ n \in Members(p)
      /\ IF who = Chief(p) THEN n = Lowest(M) ELSE n = Chief(p)
  <2>1. CASE who # adm[n]
    <3>1. adm[n] = n
      BY <1>0, <1>1, <2>1 DEF ShouldCommitDeparture
    <3> QED BY <1>0, <1>1, <2>1, <3>1, AdminIsChief
  <2>2. CASE who = adm[n]
    <3>1. Successor(Members(p), who) = n
      BY <1>0, <1>1, <2>2 DEF ShouldCommitDeparture
    <3>2. M = Members(p) \ {who} /\ M \in SUBSET Nat
      BY <1>1, <1>2, ConstantsOK
    <3>3. M # {} /\ n = Lowest(M)
      BY <1>0, <1>1, <3>1, <3>2 DEF Successor
    <3>4. n \in Members(p)
      BY <3>2, <3>3, LowestIsLeast
    <3>5. who = Chief(p)
      BY <1>4, <2>2 DEF Pointer
    <3> QED BY <3>3, <3>4, <3>5
  <2> QED BY <2>1, <2>2
<1>6. n \in Tenured(p) /\ (R # {} => Chief(p) = n)
  BY <1>1, <1>4, <1>5 DEF Fits
<1>7. Departure(k)'
  <2>1. f \in Parting'
    <3>1. net \subseteq net'
      BY <1>2 DEF Made
    <3> QED BY <1>0, <3>1 DEF Parting
  <2>2. \E g \in Parting' : g.who = tree'[k].who /\ g.at = Parent(k)'
    BY <1>0, <1>1, <1>3, <2>1
  <2> QED BY <1>0, <1>1, <1>3, <1>4, <1>5, <1>6, <2>2 DEF Departure
<1>8. \A g \in F : /\ g.type \in {"welcome", "commit"} /\ g.id = k
                   /\ g.type = "welcome" => who \in M
  BY <1>1
<1>9. /\ R \subseteq saved[n] \cup {k} /\ n \in M /\ k \notin R
      /\ \A c \in R \ {k} : tree[c].who \in M => tree[c].who \in Members(p)
  BY <1>0, <1>1, <1>3, <1>5
<1> QED BY <1>0, <1>1, <1>2, <1>6, <1>7, <1>8, <1>9, <1>10, MadeKeeps

-----------------------------------------------------------------------------
(* The invariant holds *)

LEMMA GroupInit ==
  ASSUME Init
  PROVE  GroupInv
<1>1. TypeInv /\ TreeInv
  BY TypeInit DEF TypeInv
<1>2. ClosedInv
  BY DEF Init, ClosedInv, Closed
<1>3. /\ States = {1} /\ Commits = {} /\ Members(1) = Founders /\ Line(1) = {1}
      /\ Creator \in Founders
  <2>1. Len(tree) = 1
    BY DEF Init
  <2>2. States = {1} /\ Commits = {}
    BY <2>1 DEF States, Commits
  <2> QED BY <1>1, <2>2, GenesisFields, ConstantsOK
<1>4. Tenured(1) = Founders /\ Chief(1) = Creator
  BY <1>1, <1>3, TenureUnderCreator
<1>5. AuthorityInv
  <2>1. LineLaw(1, 1)
    BY <1>3, <1>4 DEF LineLaw
  <2> QED BY <1>3, <1>4, <2>1 DEF AuthorityInv, ChiefInv, CauseInv, LineInv
<1>6. WireInv
  BY DEF Init, WireInv
<1>7. ForeignInv
  <2>1. \A n : Foreign(n) = {}
    BY <1>3 DEF Foreign
  <2> QED BY <2>1 DEF ForeignInv
<1>8. ASSUME NEW n \in Node PROVE NodeInv(n)
  <2>1. /\ st[n] = 1 /\ adm[n] = Creator /\ dAdm[n] = Creator /\ log[n] = {} /\ saved[n] = {}
        /\ dSt[n] \in {NoState, 1} /\ (mode[n] = "in" \/ n \notin Founders)
    BY DEF Init
  <2>2. Pointer(Creator, 1)
    BY <1>4 DEF Pointer
  <2>3. Fits(n, 1, Creator, {}, {})
    BY <1>3, <1>4, <2>2 DEF Fits
  <2>4. Stand(n, 1)
    BY <2>1, <2>3 DEF Stand
  <2> QED BY <1>3, <2>1, <2>2, <2>4 DEF NodeInv
<1> QED BY <1>1, <1>2, <1>5, <1>6, <1>7, <1>8 DEF GroupInv

LEMMA GroupNext ==
  ASSUME GroupInv, NEW n \in Node, Step(n)
  PROVE  GroupInv' /\ Sound(n)
<1>1. CASE Join(n) \/ RetryJoin(n)
  BY <1>1, KeepsJoin
<1>2. CASE AbsorbNext(n) \/ EndAbsorb(n)
  BY <1>2, KeepsAbsorb, KeepsEndAbsorb
<1>3. CASE Leave(n) \/ SaveRecord(n) \/ Crash(n) \/ Restart(n)
  BY <1>3, KeepsLeave, KeepsSave, KeepsCrash, KeepsRestart
<1>4. ASSUME NEW f \in net, Receive(n, f) PROVE GroupInv' /\ Sound(n)
  BY <1>4, KeepsWelcome, KeepsAdmit, KeepsReplay, KeepsDeparture, KeepsRecvCommit,
     KeepsServe, KeepsRecvResponse DEF Receive
<1>5. ASSUME NEW p \in Node, InstallTransition(n, p) PROVE GroupInv' /\ Sound(n)
  BY <1>5, KeepsTransition
<1> QED BY <1>1, <1>2, <1>3, <1>4, <1>5 DEF Step

LEMMA GroupStutters ==
  ASSUME GroupInv, UNCHANGED vars
  PROVE  GroupInv'
<1>1. /\ tree' = tree /\ net' = net /\ mode' = mode /\ st' = st /\ adm' = adm /\ busy' = busy
      /\ dSt' = dSt /\ dAdm' = dAdm /\ log' = log /\ saved' = saved
      /\ Circulating' = Circulating /\ Parting' = Parting
  BY Unchanging DEF vars
<1>2. /\ States' = States /\ Commits' = Commits
      /\ \A s : /\ Members(s)' = Members(s) /\ Path(s)' = Path(s) /\ Line(s)' = Line(s)
                /\ Epoch(s)' = Epoch(s) /\ Tenured(s)' = Tenured(s) /\ Chief(s)' = Chief(s)
  BY <1>1, SameOps
<1>3. TypeInv'
  <2>1. TypeInv /\ TypeNow
    BY TypesNow DEF GroupInv
  <2>2. TypeStep
    BY <2>1 DEF TypeNow, TypeStep, vars
  <2>3. \A n \in Node : /\ buf'[n] = buf[n] /\ log'[n] = log[n] /\ todo'[n] = todo[n]
                        /\ mode'[n] \in {"in", "quit", "down"} => dSt'[n] # NoState
    BY <2>1 DEF vars, TypeInv, SavedInv
  <2> QED BY <1>1, <2>1, <2>2, <2>3, TypeQuiet
<1>4. ClosedInv'
  BY DEF GroupInv, vars, ClosedInv, Closed, Joined
<1>5. AuthorityInv'
  BY <1>1, AuthoritySame DEF GroupInv
<1>6. WireInv'
  BY <1>1, <1>2 DEF GroupInv, WireInv
<1>7. ForeignInv'
  <2>1. \A n : (Joined(n)' <=> Joined(n)) /\ Path(st[n])' = Path(st[n])
               /\ Path(dSt[n])' = Path(dSt[n])
    BY <1>1 DEF Joined, Path
  <2>2. \A n : Foreign(n)' = Foreign(n)
    <3>1. \A n, c : Seen(n, c)' <=> Seen(n, c)
      BY <1>1, <1>2, <2>1 DEF Seen
    <3> QED BY <1>1, <1>2, <3>1 DEF Foreign
  <2> QED BY <1>1, <1>2, <2>1, <2>2 DEF GroupInv, ForeignInv
<1>8. ASSUME NEW n \in Node PROVE NodeInv(n)'
  <2>1. NodeInv(n)
    BY DEF GroupInv
  <2>2. \A a, s : Pointer(a, s)' <=> Pointer(a, s)
    BY <1>2 DEF Pointer
  <2>3. \A s : (Stand(n, s)' <=> Stand(n, s)) /\ (Pointer(adm[n], s)' <=> Pointer(adm[n], s))
    BY <1>1, <1>2 DEF Stand, Fits, Pointer
  <2>4. (Joined(n)' <=> Joined(n)) /\ (Idle(n)' <=> Idle(n))
    BY <1>1 DEF Joined, Idle
  <2> QED BY <1>1, <1>2, <2>1, <2>3, <2>4 DEF NodeInv
<1> QED BY <1>3, <1>4, <1>5, <1>6, <1>7, <1>8 DEF GroupInv

-----------------------------------------------------------------------------
(* One line *)

(* One of the commits of S is by a member that made it in the very state it *)
(* announced its departure in.                                              *)
Splits(S) ==
    \E f \in Parting, c \in S : f.who = tree[c].by /\ f.at = Parent(c)

LEMMA StandingFields ==
  ASSUME TypeInv, NEW c
  PROVE  /\ c \in Standing => c \in Commits
         /\ c \in Standing <=> \/ \E x \in Circulating : c \in Path(x)
                               \/ \E n \in Node : Joined(n) /\ c \in Path(st[n])
<1>1. c \in Standing <=> \/ \E x \in Circulating : c \in Path(x)
                         \/ \E n \in Node : Joined(n) /\ c \in Path(st[n])
  BY DEF Standing
<1>2. /\ TreeInv /\ Circulating \subseteq States /\ \A n \in Node : st[n] \in States
  BY TypeFields DEF TypeInv, NetInv, States, Commits
<1> QED BY <1>1, <1>2, StateFields

(* Whoever made a commit that stands holds it, or others have seen it. *)
LEMMA StandingIsKept ==
  ASSUME TypeInv, NEW c \in Standing, NEW q, q = tree[c].by
  PROVE  c \in Foreign(q) \/ (Joined(q) /\ c \in Path(st[q]))
<1>1. c \in Commits
  BY StandingFields
<1>2. CASE \E x \in Circulating : c \in Path(x)
  BY <1>1, <1>2 DEF Foreign, Seen
<1>3. CASE \E n \in Node : Joined(n) /\ c \in Path(st[n])
  <2>1. PICK n \in Node : Joined(n) /\ c \in Path(st[n])
    BY <1>3
  <2>2. CASE n = q
    BY <2>1, <2>2
  <2>3. CASE n # q
    BY <1>1, <2>1, <2>3 DEF Foreign, Seen
  <2> QED BY <2>2, <2>3
<1> QED BY <1>2, <1>3, StandingFields

(* Of the commits made in one state one stands, or one of them was made by  *)
(* the chief after it announced its departure there.                        *)
LEMMA NoSplit ==
  ASSUME GroupInv, NEW c \in Standing, NEW d \in Standing, Parent(c) = Parent(d)
  PROVE  c = d \/ Splits({c, d})
<1>0. /\ TypeInv /\ TreeInv /\ c \in Commits /\ d \in Commits /\ AuthorityInv /\ ForeignInv
  BY StandingFields DEF GroupInv, TypeInv
<1>1. PICK p : p = Parent(c)
  OBVIOUS
<1>2. /\ p \in States /\ p = Parent(d) /\ Epoch(c) = Epoch(p) + 1 /\ Epoch(d) = Epoch(p) + 1
      /\ tree[c].by \in Node /\ tree[d].by \in Node
  <2>1. c \in States /\ d \in States
    BY <1>0, CommitFields
  <2> QED BY <1>0, <1>1, <2>1, CommitFields, StateFields
<1>3. CASE tree[c].by = tree[d].by
  <2>1. PICK q : q = tree[c].by /\ q = tree[d].by /\ q \in Node
    BY <1>2, <1>3
  <2>2. /\ c \in Foreign(q) \/ (Joined(q) /\ c \in Path(st[q]))
        /\ d \in Foreign(q) \/ (Joined(q) /\ d \in Path(st[q]))
    BY <1>0, <2>1, StandingIsKept
  <2>3. /\ Joined(q) => Foreign(q) \subseteq Path(st[q])
        /\ \A x, y \in Foreign(q) : Epoch(x) = Epoch(y) => x = y
    BY <1>0, <2>1 DEF ForeignInv
  <2>4. \A x, y \in Path(st[q]) : Epoch(x) = Epoch(y) => x = y
    <3>1. st[q] \in States
      BY <1>0, <2>1, TypeFields
    <3> QED BY <1>0, <3>1 DEF TreeInv, PathInv
  <2>5. CASE Joined(q)
    BY <1>2, <2>2, <2>3, <2>4, <2>5
  <2>6. CASE ~Joined(q)
    BY <1>2, <2>2, <2>3, <2>6
  <2> QED BY <2>5, <2>6
<1>4. CASE tree[c].by # tree[d].by
  <2>1. ASSUME NEW x \in {c, d}, tree[x].by # Chief(p)
        PROVE  /\ tree[x].by = Lowest(Members(p) \ {Chief(p)})
               /\ \E f \in Parting : f.who = Chief(p) /\ f.at = p
    <3>1. Parent(x) = p /\ Departure(x)
      BY <1>0, <1>1, <1>2, <2>1 DEF AuthorityInv, CauseInv, Admission
    <3> QED BY <2>1, <3>1 DEF Departure
  <2>2. CASE tree[c].by = Chief(p)
    <3>1. \E f \in Parting : f.who = Chief(p) /\ f.at = p
      BY <1>4, <2>1, <2>2
    <3> QED BY <1>1, <2>2, <3>1 DEF Splits
  <2>3. CASE tree[d].by = Chief(p)
    <3>1. \E f \in Parting : f.who = Chief(p) /\ f.at = p
      BY <1>4, <2>1, <2>3
    <3> QED BY <1>2, <2>3, <3>1 DEF Splits
  <2>4. CASE tree[c].by # Chief(p) /\ tree[d].by # Chief(p)
    BY <1>4, <2>1, <2>4
  <2> QED BY <2>2, <2>3, <2>4
<1> QED BY <1>3, <1>4

(* Two states lie on one line, when all commits on the paths to them stand. *)
LEMMA OneWay ==
  ASSUME GroupInv, NEW s \in States, NEW t \in States,
         Path(s) \cup Path(t) \subseteq Standing
  PROVE  s \in Line(t) \/ t \in Line(s) \/ Splits(Path(s) \cup Path(t))
<1> SUFFICES ASSUME s \notin Line(t), t \notin Line(s)
             PROVE  Splits(Path(s) \cup Path(t))
  OBVIOUS
<1>1. TreeInv
  BY DEF GroupInv, TypeInv
<1>2. PICK x \in Path(s), y \in Path(t) : x # y /\ Parent(x) = Parent(y)
  BY <1>1, Diverge
<1>3. Splits({x, y})
  BY <1>2, NoSplit
<1> QED BY <1>3 DEF Splits

LEMMA SplitDeserts ==
  ASSUME NEW S, Splits(S), S \subseteq Standing
  PROVE  Deserted
BY DEF Splits, Deserted, Parent

LEMMA StandingPaths ==
  ASSUME TypeInv
  PROVE  /\ \A x \in Circulating : Path(x) \subseteq Standing
         /\ \A n \in Node : Joined(n) => Path(st[n]) \subseteq Standing
BY DEF Standing

LEMMA ChainHolds == GroupInv => OneChain \/ Deserted
<1> SUFFICES ASSUME GroupInv, NEW n \in Node, NEW p \in Node, Joined(n), Joined(p), ~Deserted
             PROVE  Path(st[n]) \subseteq Path(st[p]) \/ Path(st[p]) \subseteq Path(st[n])
  BY DEF OneChain
<1>1. TypeInv /\ TreeInv /\ st[n] \in States /\ st[p] \in States
  BY TypeFields DEF GroupInv
<1>2. PICK s \in States, t \in States : s = st[n] /\ t = st[p]
  BY <1>1
<1>3. Path(s) \cup Path(t) \subseteq Standing
  BY <1>1, <1>2, StandingPaths
<1>4. s \in Line(t) \/ t \in Line(s)
  BY <1>3, OneWay, SplitDeserts
<1> QED BY <1>1, <1>2, <1>4, LineFacts

LEMMA ForkHolds == GroupInv => NoFork
<1> SUFFICES ASSUME GroupInv, NEW c \in Circulating, NEW d \in Circulating,
                    Epoch(c) = Epoch(d), ~Deserted
             PROVE  c = d
  BY DEF NoFork
<1>1. TypeInv /\ TreeInv /\ c \in States /\ d \in States
  BY CommitFields DEF GroupInv, TypeInv, NetInv
<1>2. Path(c) \cup Path(d) \subseteq Standing
  BY <1>1, StandingPaths
<1>3. c \in Line(d) \/ d \in Line(c)
  BY <1>1, <1>2, OneWay, SplitDeserts
<1> QED BY <1>1, <1>3, LineFacts

(* A circulating commit is one of its author's that others have seen. *)
LEMMA AuthorHolds == GroupInv => AuthorKeepsCommit
<1> SUFFICES ASSUME GroupInv, NEW c \in Circulating, NEW q, q = tree[c].by, dSt[q] # NoState
             PROVE  c \in Path(dSt[q])
  BY DEF AuthorKeepsCommit
<1>1. TypeInv /\ TreeInv /\ c \in Commits /\ c \in States
  BY CommitFields DEF GroupInv, TypeInv, NetInv
<1>2. q \in Node /\ c \in Path(c)
  BY <1>1, StateFields, CommitFields
<1>3. c \in Foreign(q)
  BY <1>1, <1>2 DEF Foreign, Seen
<1> QED BY <1>2, <1>3 DEF GroupInv, ForeignInv

(* A member that takes itself for the admin is, or was, the chief of a      *)
(* state on its way.                                                        *)
LEMMA ActingWasChief ==
  ASSUME GroupInv, NEW n \in Node, ActingAdmin(n), NEW s, s = st[n]
  PROVE  \E r \in Line(s) : n = Chief(r)
<1>0. /\ TypeInv /\ TreeInv /\ AuthorityInv /\ s \in States /\ Joined(n) /\ adm[n] = n
  BY TypeFields DEF GroupInv, ActingAdmin
<1>1. PICK r \in Line(s) : Pointer(n, r)
  BY <1>0, NodeFields
<1>2. /\ r \in States /\ LineLaw(r, s)
  BY <1>0, LineFacts DEF AuthorityInv, LineInv
<1>3. n \notin Members(s) \ Tenured(s)
  <2>1. Fits(n, s, dAdm[n], log[n], saved[n])
    BY <1>0, NodeFields
  <2> QED BY <2>1 DEF Fits
<1>4. n \notin Members(r) \ Tenured(r)
  <2>1. Creator \in Members(r) => Tenured(r) = Members(r)
    BY <1>0, <1>2, TenureUnderCreator
  <2>2. Creator \notin Members(r) => Members(r) \ Tenured(r) \subseteq Members(s) \ Tenured(s)
    BY <1>2 DEF LineLaw
  <2> QED BY <1>3, <2>1, <2>2
<1> QED BY <1>1, <1>4 DEF Pointer

LEMMA AdminHolds == GroupInv => OneAdmin
<1> SUFFICES ASSUME GroupInv, NEW n \in Node, NEW p \in Node, ActingAdmin(n), ActingAdmin(p),
                    \A f \in Parting : f.who \notin {n, p}, ~Deserted
             PROVE  n = p
  BY DEF OneAdmin
<1>1. /\ TypeInv /\ TreeInv /\ AuthorityInv /\ st[n] \in States /\ st[p] \in States
      /\ Joined(n) /\ Joined(p)
  BY TypeFields DEF GroupInv, ActingAdmin
<1>2. PICK s \in States, t \in States : s = st[n] /\ t = st[p]
  BY <1>1
<1>3. s \in Line(t) \/ t \in Line(s)
  <2>1. Path(s) \cup Path(t) \subseteq Standing
    BY <1>1, <1>2, StandingPaths
  <2> QED BY <2>1, OneWay, SplitDeserts
<1>4. PICK r \in Line(s) : n = Chief(r)
  BY <1>2, ActingWasChief
<1>5. PICK q \in Line(t) : p = Chief(q)
  BY <1>2, ActingWasChief
<1>6. r \in States /\ q \in States /\ (r \in Line(q) \/ q \in Line(r))
  <2>1. CASE s \in Line(t)
    BY <1>1, <1>4, <1>5, <2>1, LineFacts, LineOrder
  <2>2. CASE t \in Line(s)
    BY <1>1, <1>4, <1>5, <2>2, LineFacts, LineOrder
  <2> QED BY <1>3, <2>1, <2>2
<1>7. CASE r \in Line(q)
  <2>1. LineLaw(r, q)
    BY <1>1, <1>6, <1>7 DEF AuthorityInv, LineInv
  <2> QED BY <1>4, <1>5, <2>1 DEF LineLaw, Parted
<1>8. CASE q \in Line(r)
  <2>1. LineLaw(q, r)
    BY <1>1, <1>6, <1>8 DEF AuthorityInv, LineInv
  <2> QED BY <1>4, <1>5, <2>1 DEF LineLaw, Parted
<1> QED BY <1>6, <1>7, <1>8

LEMMA StepGrows ==
  ASSUME TypeInv, NEW n \in Node, Step(n)
  PROVE  /\ Kept /\ net \subseteq net'
         /\ \/ tree' = tree
            \/ /\ \E who \in Node, M \in SUBSET Node : Grown(n, st[n], who, M)
               /\ Idle(n) /\ UNCHANGED <<mode, buf, rejoin, busy>>
               /\ st'[n] = st[n] \/ st'[n] = Len(tree) + 1
<1>0. TypeNow /\ asked[n] \in {Silent} \cup 0..MaxCommits /\ Silent \in {Silent} \cup 0..MaxCommits
      /\ st[n] \in States
  BY TypesNow, TypeFields
<1>1. ASSUME tree' = tree PROVE Kept
  BY <1>1, SameTree
<1>2. CASE Join(n) \/ RetryJoin(n) \/ AbsorbNext(n) \/ SaveRecord(n) \/ Crash(n) \/ Restart(n)
           \/ Leave(n)
  <2>1. tree' = tree /\ net \subseteq net'
    BY <1>2 DEF Join, RetryJoin, AbsorbNext, SaveRecord, Crash, Restart, Leave
  <2> QED BY <1>1, <2>1
<1>3. CASE EndAbsorb(n)
  <2>1. tree' = tree
    BY <1>3 DEF EndAbsorb
  <2>2. CASE Gap(buf[n], st[n])
    <3>1. \E sent \in BOOLEAN : Ask(n, Silent, st[n], sent)
      BY <1>3, <2>2 DEF EndAbsorb
    <3> QED BY <1>0, <1>1, <2>1, <3>1, AskFields
  <2>3. CASE ~Gap(buf[n], st[n])
    BY <1>1, <1>3, <2>1, <2>3 DEF EndAbsorb
  <2> QED BY <2>2, <2>3
<1>4. ASSUME NEW f \in net, RecvWelcome(n, f) \/ ReplayAdmission(n, f) \/ ServeResync(n, f)
                            \/ RecvResponse(n, f)
      PROVE  Kept /\ net \subseteq net' /\ tree' = tree
  <2>1. tree' = tree /\ net \subseteq net'
    BY <1>4 DEF RecvWelcome, ReplayAdmission, ServeResync, RecvResponse
  <2> QED BY <1>1, <2>1
<1>5. ASSUME NEW f \in net, RecvCommit(n, f) PROVE  Kept /\ net \subseteq net' /\ tree' = tree
  <2>1. tree' = tree
    BY <1>5 DEF RecvCommit
  <2>2. PICK t \in States, ok \in BOOLEAN :
          IF ok /\ Gap(buf'[n], t) THEN \E sent \in BOOLEAN : Ask(n, asked[n], t, sent)
                                   ELSE net' = net
    BY <1>5 DEF RecvCommit
  <2>3. net \subseteq net'
    <3>1. CASE \E sent \in BOOLEAN : Ask(n, asked[n], t, sent)
      BY <1>0, <3>1, AskFields
    <3>2. CASE net' = net
      BY <3>2
    <3> QED BY <2>2, <3>1, <3>2
  <2> QED BY <1>1, <2>1, <2>3
<1>6. ASSUME NEW who \in Node, NEW M \in SUBSET Node, NEW c, NEW R, NEW F,
             Grown(n, st[n], who, M), Made(n, c, R, F)
      PROVE  /\ Kept /\ net \subseteq net' /\ UNCHANGED <<mode, buf, rejoin, busy>>
             /\ st'[n] = st[n] \/ st'[n] = Len(tree) + 1
  <2>1. Kept
    <3>1. TreeInv
      BY DEF TypeInv
    <3> QED BY <1>0, <1>6, <3>1, GrownFields
  <2>2. net \subseteq net' /\ UNCHANGED <<mode, buf, rejoin, busy>>
    BY <1>6 DEF Made
  <2>3. st'[n] = st[n] \/ st'[n] = Len(tree) + 1
    BY <1>0, <1>6 DEF Made, TypeNow
  <2> QED BY <2>1, <2>2, <2>3
<1>7. ASSUME NEW f \in net, Admit(n, f)
      PROVE  \E who \in Node, M \in SUBSET Node : \E c, R, F :
                Grown(n, st[n], who, M) /\ Made(n, c, R, F)
  BY <1>7, AdmitFields
<1>8. ASSUME NEW f \in net, CommitDeparture(n, f)
      PROVE  \E who \in Node, M \in SUBSET Node : \E c, R, F :
                Grown(n, st[n], who, M) /\ Made(n, c, R, F)
  BY <1>8, DepartureFields
<1>9. ASSUME NEW f \in net, Admit(n, f) \/ CommitDeparture(n, f) PROVE Idle(n)
  BY <1>9 DEF Admit, CommitDeparture
<1>10. ASSUME NEW p \in Node, InstallTransition(n, p)
       PROVE  Kept /\ net \subseteq net' /\ tree' = tree
  BY <1>1, <1>10 DEF InstallTransition
<1> QED BY <1>2, <1>3, <1>4, <1>5, <1>6, <1>7, <1>8, <1>9, <1>10 DEF Step, Receive

-----------------------------------------------------------------------------
(* The hint *)

(* Why the hint of n, which stands in s, may be up: a commit it waits to    *)
(* apply or to follow, or a split group.                                    *)
Trail(s) == Path(s) \cup UNION {Path(x) : x \in Circulating}
Due(n, s) ==
    \/ \E c \in buf[n] : WireEpoch(c) >= Epoch(s)
    \/ Splits(Trail(s))

HintInv ==
    \A n \in Node, s \in States : st[n] = s /\ Idle(n) /\ rejoin[n] => Due(n, s)

LEMMA DueStays ==
  ASSUME TypeInv, Kept, net \subseteq net', NEW n \in Node, NEW s \in States,
         Due(n, s), buf'[n] = buf[n]
  PROVE  Due(n, s)'
<1>0. /\ TreeInv /\ Circulating \subseteq Circulating' /\ Parting \subseteq Parting'
      /\ buf[n] \subseteq States /\ Circulating \subseteq States
  <2>1. PICK F : F = net' \ net
    OBVIOUS
  <2>2. net' = net \cup F
    BY <2>1
  <2>3. Circulating \subseteq Circulating' /\ Parting \subseteq Parting'
    BY <2>2, NetGrows
  <2> QED BY <2>3, TypeFields, GenesisFields
<1>1. \A c \in States : /\ tree'[c] = tree[c] /\ WireEpoch(c)' = WireEpoch(c)
                        /\ Path(c)' = Path(c) /\ Parent(c)' = Parent(c)
                        /\ Epoch(c)' = Epoch(c) /\ Path(c) \subseteq States
  <2>1. \A c \in States : Path(c) \subseteq States
    BY <1>0, StateFields, GenesisFields
  <2> QED BY <1>0, <2>1, KeptFields
<1>2. CASE \E c \in buf[n] : WireEpoch(c) >= Epoch(s)
  BY <1>0, <1>1, <1>2 DEF Due
<1>3. CASE Splits(Trail(s))
  <2>1. PICK f \in Parting, c \in Trail(s) : f.who = tree[c].by /\ f.at = Parent(c)
    BY <1>3 DEF Splits
  <2>2. c \in States /\ c \in Trail(s)'
    BY <1>0, <1>1 DEF Trail
  <2> QED BY <1>0, <1>1, <2>1, <2>2 DEF Due, Splits
<1> QED BY <1>2, <1>3 DEF Due

(* How a step of n comes to leave the hint up. *)
LEMMA HintSteps ==
  ASSUME TypeInv, ClosedInv, NEW n \in Node, Step(n), tree' = tree, Idle(n)', rejoin'[n]
  PROVE  \/ Idle(n) /\ rejoin[n] /\ st'[n] = st[n] /\ buf'[n] = buf[n]
         \/ \E t \in States : st'[n] = t /\ \E c \in buf'[n] : WireEpoch(c) >= Epoch(t)
<1>0. /\ TypeNow /\ TreeInv /\ st[n] \in States /\ (~Joined(n) => ~rejoin[n] /\ ~busy[n])
      /\ mode'[n] \in {"in", "quit"} /\ ~busy'[n]
  <2>1. /\ TypeNow /\ TreeInv /\ st[n] \in States
    BY TypesNow, TypeFields
  <2>2. ~Joined(n) => ~rejoin[n] /\ ~busy[n]
    BY DEF ClosedInv, Closed
  <2> QED BY <2>1, <2>2 DEF Idle, Joined
<1>1. ~(Join(n) \/ RetryJoin(n) \/ AbsorbNext(n))
  BY <1>0 DEF Join, RetryJoin, AbsorbNext, memory, TypeNow
<1>2. CASE EndAbsorb(n)
  <2>1. st' = st /\ buf' = buf
    BY <1>2 DEF EndAbsorb
  <2>2. Gap(buf[n], st[n])
    BY <1>0, <1>2 DEF EndAbsorb, TypeNow
  <2>3. \E c \in buf[n] : WireEpoch(c) >= Epoch(st[n])
    <3>1. PICK c \in buf[n] : WireEpoch(c) > Epoch(st[n])
      BY <2>2 DEF Gap
    <3>2. c \in Commits
      BY TypeFields
    <3>3. WireEpoch(c) \in Nat /\ Epoch(st[n]) \in Nat
      BY <1>0, <3>2, WireEpochs, StateFields
    <3> QED BY <3>1, <3>3
  <2> QED BY <1>0, <2>1, <2>3
<1>3. CASE Leave(n) \/ Crash(n)
  <2>1. CASE Forget(n)
    BY <2>1, ForgetFields
  <2>2. CASE UNCHANGED <<st, buf, rejoin, busy>> /\ Idle(n)
    BY <2>2
  <2> QED BY <1>3, <2>1, <2>2 DEF Leave, Crash
<1>4. CASE SaveRecord(n)
  BY <1>4 DEF SaveRecord, memory
<1>5. CASE Restart(n)
  BY <1>0, <1>5 DEF Restart, Joined
<1>6. ASSUME NEW f \in net, RecvWelcome(n, f) PROVE FALSE
  BY <1>0, <1>6 DEF RecvWelcome, Joined
<1>7. ASSUME NEW f \in net, ReplayAdmission(n, f) \/ ServeResync(n, f)
      PROVE  Idle(n) /\ rejoin[n] /\ st'[n] = st[n] /\ buf'[n] = buf[n]
  BY <1>7 DEF ReplayAdmission, ServeResync, memory
<1>8. ASSUME NEW f \in net, RecvResponse(n, f) PROVE FALSE
  BY <1>0, <1>8 DEF RecvResponse, TypeNow
<1>9. ASSUME NEW f \in net, Admit(n, f) \/ CommitDeparture(n, f) PROVE FALSE
  BY <1>9 DEF Admit, CommitDeparture, Install, TreeInv
<1>10. ASSUME NEW f \in net, RecvCommit(n, f)
       PROVE  \/ Idle(n) /\ rejoin[n] /\ st'[n] = st[n] /\ buf'[n] = buf[n]
              \/ \E t \in States : st'[n] = t /\ \E c \in buf'[n] : WireEpoch(c) >= Epoch(t)
  <2>1. PICK t \in States, ok \in BOOLEAN :
          /\ Sequence(n, f.id, t, ok)
          /\ \/ ok /\ Gap(buf'[n], t)
             \/ rejoin' = [rejoin EXCEPT ![n] = rejoin[n] /\ ~ok]
    BY <1>10 DEF RecvCommit
  <2>2. f.id \in Commits /\ Idle(n)
    BY <1>10, BringsFields DEF RecvCommit
  <2>3. Sequenced(n, f.id, t)
    BY <2>1 DEF Sequenced
  <2>8. PICK c : c = f.id
    OBVIOUS
  <2>4. /\ st'[n] = t /\ buf'[n] \subseteq Commits
        /\ Stuck(n, f.id, t) => Waits(n, t)
    <3>1. c \in Commits /\ Sequenced(n, c, t)
      BY <2>2, <2>3, <2>8
    <3>2. st'[n] = t
      BY <1>0, <2>1 DEF Sequence, TypeNow
    <3>3. buf'[n] \subseteq buf[n] \cup {c}
      BY <3>1, SequenceFields
    <3>4. Stuck(n, c, t) => Waits(n, t)
      BY <3>1, SequenceFields
    <3> QED BY <1>0, <2>8, <3>1, <3>2, <3>3, <3>4, TypeFields
  <2>5. \A x \in buf'[n] : WireEpoch(x) \in Nat /\ Epoch(t) \in Nat
    BY <1>0, <2>4, WireEpochs, StateFields
  <2>6. CASE Gap(buf'[n], t)
    BY <2>4, <2>5, <2>6 DEF Gap
  <2>7. CASE rejoin' = [rejoin EXCEPT ![n] = rejoin[n] /\ ~ok]
    <3>1. rejoin[n] /\ ~ok
      BY <1>0, <2>7 DEF TypeNow
    <3>2. Stuck(n, f.id, t)
      <4>1. ok = FALSE
        BY <3>1
      <4> QED BY <2>1, <4>1 DEF Stuck
    <3> QED BY <2>2, <2>4, <2>5, <3>1, <3>2 DEF Waits
  <2> QED BY <2>1, <2>6, <2>7
<1>11. ASSUME NEW p \in Node, InstallTransition(n, p)
       PROVE  Idle(n) /\ rejoin[n] /\ st'[n] = st[n] /\ buf'[n] = buf[n]
  BY <1>0, <1>11 DEF InstallTransition, TypeNow
<1> QED BY <1>1, <1>2, <1>3, <1>4, <1>5, <1>6, <1>7, <1>8, <1>9, <1>10, <1>11 DEF Step, Receive

(* A commit of the epoch of n's state that circulates is that state, or the *)
(* group is split on the way to them.                                       *)
LEMMA RivalLaw ==
  GroupInv => \A m \in Node : \A s \in States : \A x \in Circulating :
     Joined(m) /\ st[m] = s /\ Epoch(x) = Epoch(s) /\ x # s => Splits(Trail(s))
<1> SUFFICES ASSUME GroupInv, NEW n \in Node, NEW k \in States, NEW c \in Circulating,
                    Joined(n), st[n] = k, Epoch(c) = Epoch(k), c # k
             PROVE  Splits(Trail(k))
  OBVIOUS
<1>1. TypeInv /\ TreeInv /\ c \in States
  BY CommitFields DEF GroupInv, TypeInv, NetInv
<1>2. Path(c) \cup Path(k) \subseteq Standing
  BY <1>1, StandingPaths
<1>3. c \notin Line(k) /\ k \notin Line(c)
  BY <1>1, LineFacts
<1>4. Splits(Path(c) \cup Path(k))
  BY <1>1, <1>2, <1>3, OneWay
<1> QED BY <1>4 DEF Splits, Trail

LEMMA HintGrows ==
  ASSUME GroupInv, GroupInv', NEW n \in Node, Step(n), NEW who \in Node, NEW M \in SUBSET Node,
         Grown(n, st[n], who, M), NEW k, k = Len(tree) + 1, NEW p, p = st[n],
         st'[n] = k, Joined(n)', buf'[n] = buf[n], Due(n, p)
  PROVE  Due(n, k)'
<1>0. /\ TypeInv /\ TreeInv /\ p \in States /\ Kept /\ net \subseteq net'
      /\ buf[n] \subseteq Circulating /\ buf[n] \subseteq Commits
  <2>1. TypeInv
    BY DEF GroupInv
  <2> QED BY <2>1, TypeFields, StepGrows
<1>1. /\ States' = States \cup {k} /\ k \notin States
  BY <1>0, GrownSets
<1>2. /\ Epoch(k)' = Epoch(p) + 1 /\ Path(k)' = Path(p) \cup {k} /\ Path(p)' = Path(p)
  <2>1. tree'[k] = [parent |-> st[n], epoch |-> Epoch(st[n]) + 1, by |-> n, who |-> who,
                    members |-> M, path |-> Path(st[n]) \cup {k}]
    BY <1>0, GrownFields
  <2>2. Path(p)' = Path(p)
    BY <1>0, KeptFields
  <2> QED BY <2>1, <2>2 DEF Epoch, Path
<1>3. Due(n, p)'
  BY <1>0, DueStays
<1>4. CASE Splits(Trail(p))'
  <2>1. Trail(p)' \subseteq Trail(k)'
    BY <1>2 DEF Trail
  <2> QED BY <1>4, <2>1 DEF Due, Splits
<1>5. ASSUME NEW c \in buf'[n], WireEpoch(c)' >= Epoch(p)' PROVE Due(n, k)'
  <2>1. /\ c \in Circulating' /\ c \in Commits /\ c \in States
    <3>1. c \in Commits /\ c \in States
      BY <1>0, <1>5, GenesisFields
    <3>2. PICK F : F = net' \ net
      OBVIOUS
    <3>3. net' = net \cup F
      BY <1>0, <3>2
    <3>4. Circulating \subseteq Circulating'
      BY <3>3, NetGrows
    <3> QED BY <1>0, <1>5, <3>1, <3>4
  <2>2. /\ WireEpoch(c)' = WireEpoch(c) /\ Epoch(c)' = Epoch(c) /\ Epoch(p)' = Epoch(p)
        /\ WireEpoch(c) = Epoch(c) - 1 /\ Epoch(c) \in Nat /\ Epoch(p) \in Nat
    BY <1>0, <2>1, KeptFields, WireEpochs, StateFields
  <2>3. CASE WireEpoch(c)' >= Epoch(k)'
    BY <1>5, <2>3 DEF Due
  <2>4. CASE Epoch(c)' = Epoch(k)'
    <3>1. (\A m \in Node : \A s \in States : \A x \in Circulating :
             Joined(m) /\ st[m] = s /\ Epoch(x) = Epoch(s) /\ x # s => Splits(Trail(s)))'
      <4>1. GroupInv'
        OBVIOUS
      <4> QED BY <4>1, RivalLaw, PTL
    <3>2. k \in States' /\ c # k
      BY <1>1, <2>1
    <3>3. Splits(Trail(k))'
      BY <2>1, <2>4, <3>1, <3>2
    <3> QED BY <3>3 DEF Due
  <2> QED BY <1>2, <1>5, <2>2, <2>3, <2>4
<1> QED BY <1>3, <1>4, <1>5 DEF Due

LEMMA HintKept ==
  ASSUME GroupInv, GroupInv', HintInv, NEW n \in Node, Step(n)
  PROVE  HintInv'
<1>0. /\ TypeInv /\ TreeInv /\ ClosedInv /\ Kept /\ net \subseteq net' /\ Others(n)
      /\ \A m \in Node : st[m] \in States
  <2>1. TypeInv /\ ClosedInv
    BY DEF GroupInv
  <2> QED BY <2>1, TypeFields, StepGrows, OthersKept
<1>1. ASSUME NEW m \in Node, st'[m] = st[m], buf'[m] = buf[m], Idle(m), rejoin[m],
             NEW s, s = st'[m]
      PROVE  Due(m, s)'
  <2>1. s \in States /\ Due(m, s)
    BY <1>0, <1>1 DEF HintInv
  <2> QED BY <1>0, <1>1, <2>1, DueStays
<1>2. ASSUME NEW m \in Node \ {n}, Idle(m)', rejoin'[m], NEW s, s = st'[m] PROVE Due(m, s)'
  <2>1. /\ st'[m] = st[m] /\ buf'[m] = buf[m] /\ mode'[m] = mode[m]
        /\ rejoin'[m] = rejoin[m] /\ busy'[m] = busy[m]
    BY <1>0 DEF Others
  <2>2. Idle(m) /\ rejoin[m]
    BY <1>2, <2>1 DEF Idle, Joined
  <2> QED BY <1>1, <1>2, <2>1, <2>2
<1>3. ASSUME Idle(n)', rejoin'[n], NEW s, s = st'[n] PROVE Due(n, s)'
  <2>1. CASE tree' = tree
    <3>1. CASE Idle(n) /\ rejoin[n] /\ st'[n] = st[n] /\ buf'[n] = buf[n]
      BY <1>1, <1>3, <3>1
    <3>2. CASE \E t \in States : st'[n] = t /\ \E c \in buf'[n] : WireEpoch(c) >= Epoch(t)
      <4>1. \E c \in buf'[n] : WireEpoch(c) >= Epoch(s)
        BY <1>3, <3>2
      <4>2. \A c : WireEpoch(c)' = WireEpoch(c) /\ Epoch(c)' = Epoch(c)
        BY <2>1 DEF WireEpoch, Epoch
      <4> QED BY <4>1, <4>2 DEF Due
    <3> QED BY <1>0, <1>3, <2>1, <3>1, <3>2, HintSteps
  <2>2. CASE /\ \E who \in Node, M \in SUBSET Node : Grown(n, st[n], who, M)
             /\ Idle(n) /\ UNCHANGED <<mode, buf, rejoin, busy>>
             /\ st'[n] = st[n] \/ st'[n] = Len(tree) + 1
    <3>1. Idle(n) /\ rejoin[n] /\ buf'[n] = buf[n] /\ Joined(n)'
      BY <1>3, <2>2 DEF Idle
    <3>2. CASE st'[n] = st[n]
      BY <1>1, <1>3, <3>1, <3>2
    <3>3. CASE st'[n] = Len(tree) + 1
      <4>0. PICK p, k : p = st[n] /\ k = Len(tree) + 1
        OBVIOUS
      <4>1. PICK who \in Node, M \in SUBSET Node : Grown(n, st[n], who, M)
        BY <2>2
      <4>2. Due(n, p)
        BY <1>0, <3>1, <4>0 DEF HintInv
      <4>3. Due(n, k)'
        BY <3>1, <3>3, <4>0, <4>1, <4>2, HintGrows
      <4> QED BY <1>3, <3>3, <4>0, <4>3
    <3> QED BY <2>2, <3>2, <3>3
  <2> QED BY <1>0, <2>1, <2>2, StepGrows
<1> QED BY <1>2, <1>3 DEF HintInv

LEMMA HintHolds == GroupInv /\ HintInv => RejoinHasCause
<1> SUFFICES ASSUME GroupInv, HintInv, NEW n \in Node, Idle(n), rejoin[n]
             PROVE  (\E c \in buf[n] : WireEpoch(c) >= Epoch(st[n])) \/ Deserted
  BY DEF RejoinHasCause
<1>1. TypeInv /\ st[n] \in States /\ Joined(n)
  BY TypeFields DEF GroupInv, Idle
<1>2. PICK s \in States : s = st[n]
  BY <1>1
<1>3. Due(n, s)
  BY <1>2 DEF HintInv
<1>4. Trail(s) \subseteq Standing
  BY <1>1, <1>2, StandingPaths DEF Trail
<1>5. Splits(Trail(s)) => Deserted
  BY <1>4, SplitDeserts
<1> QED BY <1>2, <1>3, <1>5 DEF Due

-----------------------------------------------------------------------------
(* Departures that do not fail *)

(* Whoever announced its departure is gone, and so is what it made since.   *)
ByeInv ==
    \A f \in Parting : mode[f.who] = "gone" /\ Foreign(f.who) \subseteq Path(f.at)

LEMMA GoneIsGone ==
  ASSUME TypeInv, ClosedInv, NEW n \in Node, Step(n)
  PROVE  mode[n] # "gone"
<1>1. Joined(n) => mode[n] # "gone"
  BY DEF Joined
<1>2. busy[n] => Joined(n)
  BY DEF ClosedInv, Closed
<1>3. CASE Join(n) \/ RetryJoin(n) \/ Crash(n) \/ Restart(n)
  BY <1>3 DEF Join, RetryJoin, Crash, Restart
<1>4. CASE AbsorbNext(n) \/ EndAbsorb(n)
  BY <1>1, <1>2, <1>4 DEF AbsorbNext, EndAbsorb
<1>5. CASE Leave(n) \/ SaveRecord(n)
  BY <1>1, <1>5 DEF Leave, SaveRecord, Idle
<1>6. ASSUME NEW f \in net, Receive(n, f) PROVE mode[n] # "gone"
  BY <1>1, <1>6 DEF Receive, RecvWelcome, Admit, ReplayAdmission, CommitDeparture, RecvCommit,
     ServeResync, RecvResponse, Idle
<1>7. ASSUME NEW p \in Node, InstallTransition(n, p) PROVE mode[n] # "gone"
  BY <1>1, <1>7 DEF InstallTransition, Idle
<1> QED BY <1>3, <1>4, <1>5, <1>6, <1>7 DEF Step

(* Only Leave announces a departure. *)
LEMMA NewPartings ==
  ASSUME TypeInv, NEW n \in Node, Step(n)
  PROVE  Leave(n) \/ Parting' = Parting
<1>0. TypeNow /\ asked[n] \in {Silent} \cup 0..MaxCommits /\ Silent \in {Silent} \cup 0..MaxCommits
      /\ st[n] \in States
  BY TypesNow, TypeFields
<1>1. ASSUME net' = net PROVE Parting' = Parting
  BY <1>1 DEF Parting
<1>2. ASSUME NEW F, net' = net \cup F, \A f \in F : f.type # "leave" PROVE Parting' = Parting
  BY <1>2 DEF Parting
<1>3. CASE Join(n) \/ RetryJoin(n)
  <2>1. \E F : net' = net \cup F /\ \A f \in F : f.type # "leave"
    <3>1. CASE Join(n)
      <4>1. PICK F \in Published({[type |-> "package", who |-> n]}) : net' = net \cup F
        BY <3>1 DEF Join
      <4>2. F \subseteq {[type |-> "package", who |-> n]}
        BY <4>1, PublishedFields
      <4>3. \A f \in F : f.type # "leave"
        BY <4>2
      <4> QED BY <4>1, <4>3
    <3>2. CASE RetryJoin(n)
      <4>1. PICK F : F = {[type |-> "package", who |-> n]}
        OBVIOUS
      <4>2. net' = net \cup F /\ \A f \in F : f.type # "leave"
        BY <3>2, <4>1 DEF RetryJoin
      <4> QED BY <4>2
    <3> QED BY <1>3, <3>1, <3>2
  <2> QED BY <1>2, <2>1
<1>4. CASE AbsorbNext(n) \/ SaveRecord(n) \/ Crash(n)
  BY <1>1, <1>4 DEF AbsorbNext, SaveRecord, Crash
<1>5. CASE Restart(n)
  BY <1>5, RestartFields
<1>6. CASE EndAbsorb(n)
  <2>1. CASE Gap(buf[n], st[n])
    <3>1. \E sent \in BOOLEAN : Ask(n, Silent, st[n], sent)
      BY <1>6, <2>1 DEF EndAbsorb
    <3> QED BY <1>0, <3>1, AskFields
  <2>2. CASE ~Gap(buf[n], st[n])
    BY <1>1, <1>6, <2>2 DEF EndAbsorb
  <2> QED BY <2>1, <2>2
<1>7. ASSUME NEW f \in net, RecvWelcome(n, f) \/ RecvResponse(n, f) PROVE Parting' = Parting
  BY <1>1, <1>7 DEF RecvWelcome, RecvResponse
<1>8. ASSUME NEW f \in net, ReplayAdmission(n, f) PROVE Parting' = Parting
  <2>1. PICK c \in saved[n], F \in SUBSET Frame :
          net' = net \cup F /\ \A g \in F : g.type \in {"welcome", "commit"}
    BY <1>8, ReplayFields
  <2> QED BY <1>2, <2>1
<1>9. ASSUME NEW f \in net, ServeResync(n, f) PROVE Parting' = Parting
  <2>1. PICK g \in Frame : net' = net \cup {g} /\ g.type = "response"
    BY <1>9, ServeFields
  <2>2. PICK F : F = {g}
    OBVIOUS
  <2>3. net' = net \cup F /\ \A h \in F : h.type # "leave"
    BY <2>1, <2>2
  <2> QED BY <1>2, <2>3
<1>10. ASSUME NEW f \in net, RecvCommit(n, f) PROVE Parting' = Parting
  <2>1. PICK t \in States, ok \in BOOLEAN :
          IF ok /\ Gap(buf'[n], t) THEN \E sent \in BOOLEAN : Ask(n, asked[n], t, sent)
                                   ELSE net' = net
    BY <1>10 DEF RecvCommit
  <2>2. CASE \E sent \in BOOLEAN : Ask(n, asked[n], t, sent)
    BY <1>0, <2>2, AskFields
  <2> QED BY <1>1, <2>1, <2>2
<1>11. ASSUME NEW c, NEW R, NEW F, Made(n, c, R, F), \A g \in F : g.type # "leave"
       PROVE  Parting' = Parting
  <2>1. CASE net' = net
    BY <1>1, <2>1
  <2>2. CASE \E G \in SUBSET F : net' = net \cup G
    BY <1>2, <1>11, <2>2
  <2> QED BY <1>11, <2>1, <2>2 DEF Made
<1>12. ASSUME NEW f \in net, Admit(n, f) PROVE Parting' = Parting
  <2>1. \A g \in AdmissionFrames(Len(tree) + 1) : g.type # "leave"
    BY DEF AdmissionFrames
  <2> QED BY <1>11, <1>12, <2>1, AdmitFields
<1>13. ASSUME NEW f \in net, CommitDeparture(n, f) PROVE Parting' = Parting
  <2>1. \A g \in {[type |-> "commit", id |-> Len(tree) + 1]} : g.type # "leave"
    OBVIOUS
  <2> QED BY <1>11, <1>13, <2>1, DepartureFields
<1>14. ASSUME NEW p \in Node, InstallTransition(n, p) PROVE Parting' = Parting
  BY <1>1, <1>14 DEF InstallTransition
<1> QED BY <1>3, <1>4, <1>5, <1>6, <1>7, <1>8, <1>9, <1>10, <1>12, <1>13, <1>14
        DEF Step, Receive

LEMMA ByeKept ==
  ASSUME "leave" \notin Faults, GroupInv, GroupInv', ByeInv, NEW n \in Node, Step(n), Sound(n)
  PROVE  ByeInv'
<1>0. /\ TypeInv /\ TypeInv' /\ TreeInv /\ ClosedInv /\ Others(n) /\ Kept
  <2>1. TypeInv /\ TypeInv' /\ ClosedInv
    BY DEF GroupInv
  <2> QED BY <2>1, OthersKept, StepGrows DEF TypeInv
<1>1. ASSUME NEW f \in Parting
      PROVE  mode'[f.who] = "gone" /\ Foreign(f.who)' \subseteq Path(f.at)'
  <2>1. f.who \in Node /\ f.at \in States
    BY <1>0, FrameFields DEF Parting
  <2>2. PICK m \in Node, s \in States : m = f.who /\ s = f.at
    BY <2>1
  <2>3. mode[m] = "gone" /\ Foreign(m) \subseteq Path(s)
    BY <2>2 DEF ByeInv
  <2>4. m # n /\ ~Joined(m)
    BY <1>0, <2>3, GoneIsGone DEF Joined
  <2>5. mode'[m] = "gone"
    BY <1>0, <2>3, <2>4 DEF Others
  <2>6. Foreign(m)' \subseteq Foreign(m)
    BY <1>0, <2>4, OthersForeign
  <2>7. Path(s)' = Path(s)
    BY <1>0, KeptFields
  <2> QED BY <2>2, <2>3, <2>5, <2>6, <2>7
<1>2. CASE Parting' = Parting
  BY <1>1, <1>2 DEF ByeInv
<1>3. CASE Leave(n)
  <2>1. PICK l, s : l = [type |-> "leave", who |-> n, at |-> st[n]] /\ s = st[n]
    OBVIOUS
  <2>2. /\ net' = net \cup {l} /\ mode' = [mode EXCEPT ![n] = "gone"] /\ tree' = tree /\ Joined(n)
    BY <1>3, <2>1 DEF Leave, Idle
  <2>3. mode'[n] = "gone"
    BY <1>0, <2>2, TypesNow DEF TypeNow
  <2>4. Circulating' = Circulating
    <3>1. PICK F : F = {l}
      OBVIOUS
    <3>2. net' = net \cup F
      BY <2>2, <3>1
    <3>3. \A f \in F : \A c : ~Carries(f, c)
      BY <2>1, <3>1 DEF Carries
    <3> QED BY <3>2, <3>3, NetGrows
  <2>5. Foreign(n)' \subseteq Foreign(n)
    <3> SUFFICES ASSUME NEW c \in Foreign(n)' PROVE c \in Foreign(n)
      OBVIOUS
    <3>1. /\ Commits' = Commits /\ \A x : Path(x)' = Path(x)
      BY <2>2, SameOps
    <3>2. \A p \in Node \ {n} : /\ Path(st[p])' = Path(st[p]) /\ Path(dSt[p])' = Path(dSt[p])
                                /\ dSt'[p] = dSt[p]
      <4>1. \A p \in Node \ {n} : st'[p] = st[p] /\ dSt'[p] = dSt[p]
        BY <1>0 DEF Others
      <4> QED BY <2>2, <4>1 DEF Path
    <3>3. Seen(n, c)
      <4>1. Seen(n, c)'
        BY DEF Foreign
      <4> QED BY <2>4, <3>1, <3>2, <4>1 DEF Seen
    <3> QED BY <2>2, <3>1, <3>3 DEF Foreign
  <2>6. Foreign(n) \subseteq Path(s) /\ Path(s)' = Path(s)
    <3>1. Foreign(n) \subseteq Path(s)
      BY <2>1, <2>2 DEF GroupInv, ForeignInv
    <3> QED BY <2>2, <3>1 DEF Path
  <2>7. \A f \in Parting' : f \in Parting \/ f = l
    BY <2>2 DEF Parting
  <2>8. l.who = n /\ l.at = s
    BY <2>1
  <2>9. mode'[l.who] = "gone" /\ Foreign(l.who)' \subseteq Path(l.at)'
    BY <2>3, <2>5, <2>6, <2>8
  <2> QED BY <1>1, <2>7, <2>9 DEF ByeInv
<1> QED BY <1>0, <1>2, <1>3, NewPartings

LEMMA NoneDeserts == GroupInv /\ ByeInv => ~Deserted
<1> SUFFICES ASSUME GroupInv, ByeInv, NEW f \in Parting, NEW c \in Standing,
                    f.who = tree[c].by, f.at = tree[c].parent
             PROVE  FALSE
  BY DEF Deserted
<1>1. TypeInv /\ TreeInv /\ c \in Commits
  BY StandingFields DEF GroupInv, TypeInv
<1>2. mode[f.who] = "gone" /\ Foreign(f.who) \subseteq Path(f.at)
  BY DEF ByeInv
<1>3. c \in Foreign(f.who)
  BY <1>1, <1>2, StandingIsKept DEF Joined
<1> QED BY <1>1, <1>2, <1>3, CommitFields DEF Parent

-----------------------------------------------------------------------------
(* Theorems *)

LEMMA GroupAlways == Spec => [](GroupInv /\ HintInv)
<1>1. Init => GroupInv /\ HintInv
  <2>1. ASSUME Init PROVE HintInv
    BY <2>1 DEF Init, HintInv
  <2> QED BY <2>1, GroupInit
<1>2. GroupInv /\ HintInv /\ [Next]_vars => GroupInv' /\ HintInv'
  <2> SUFFICES ASSUME GroupInv, HintInv, [Next]_vars PROVE GroupInv' /\ HintInv'
    OBVIOUS
  <2>1. ASSUME NEW n \in Node, Step(n) PROVE GroupInv' /\ HintInv'
    BY <2>1, GroupNext, HintKept
  <2>2. CASE UNCHANGED vars
    <3>1. GroupInv'
      BY <2>2, GroupStutters
    <3>2. HintInv'
      <4> SUFFICES ASSUME NEW n \in Node, NEW s \in States', st'[n] = s, Idle(n)', rejoin'[n]
                   PROVE  Due(n, s)'
        BY DEF HintInv
      <4>1. TypeInv /\ Kept /\ net \subseteq net' /\ s \in States
        BY <2>2, SameTree DEF GroupInv, vars
      <4>2. st[n] = s /\ Idle(n) /\ rejoin[n] /\ buf'[n] = buf[n]
        BY <2>2 DEF vars, Idle, Joined
      <4>3. Due(n, s)
        BY <4>1, <4>2 DEF HintInv
      <4> QED BY <4>1, <4>2, <4>3, DueStays
    <3> QED BY <3>1, <3>2
  <2> QED BY <2>1, <2>2 DEF Next
<1> QED BY <1>1, <1>2, PTL DEF Spec

(* Of every epoch at most one commit circulates, for groups of any size and *)
(* any number of commits, with every fault: unless a member made a commit   *)
(* in the very state it had announced its departure in.                     *)
THEOREM NeverForks == Spec => []NoFork
BY GroupAlways, ForkHolds, PTL

(* The states two open sessions stand in lie on one line, with that one     *)
(* exception.                                                               *)
THEOREM OneLine == Spec => [](OneChain \/ Deserted)
BY GroupAlways, ChainHolds, PTL

(* A commit that circulates is in the durable state of its author, whatever *)
(* write was refused or uncertain and whenever the author died.             *)
THEOREM AuthorKeeps == Spec => []AuthorKeepsCommit
BY GroupAlways, AuthorHolds, PTL

(* At most one open session takes itself for the admin, not counting one    *)
(* that announced its departure; although a pointer is only reconciled when *)
(* its holder handles a frame.                                              *)
THEOREM SingleAdmin == Spec => []OneAdmin
BY GroupAlways, AdminHolds, PTL

(* needs_rejoin stands between frames only while a commit of the current or *)
(* a later epoch is buffered, or the group is split.                        *)
THEOREM HintHasCause == Spec => []RejoinHasCause
BY GroupAlways, HintHolds, PTL

(* Where close always gets as far as forgetting the group, nobody deserts,  *)
(* so that the group keeps one line without exception.                      *)
THEOREM CleanLeaving ==
  ASSUME "leave" \notin Faults
  PROVE  Spec => [](OneChain /\ ~Deserted)
<1>1. Init => ByeInv
  BY DEF Init, ByeInv, Parting
<1>2. GroupInv /\ HintInv /\ ByeInv /\ GroupInv' /\ [Next]_vars => ByeInv'
  <2> SUFFICES ASSUME GroupInv, ByeInv, GroupInv', [Next]_vars PROVE ByeInv'
    OBVIOUS
  <2>1. ASSUME NEW n \in Node, Step(n) PROVE ByeInv'
    BY <2>1, GroupNext, ByeKept
  <2>2. CASE UNCHANGED vars
    <3>1. tree' = tree /\ net' = net /\ mode' = mode /\ st' = st /\ dSt' = dSt
      BY <2>2 DEF vars
    <3>2. /\ Commits' = Commits /\ Circulating' = Circulating /\ Parting' = Parting
          /\ \A x : Path(x)' = Path(x)
      BY <3>1, SameOps, Unchanging
    <3>3. \A m, c : Seen(m, c)' <=> Seen(m, c)
      BY <3>1, <3>2 DEF Seen, Path
    <3>4. \A m : Foreign(m)' = Foreign(m)
      BY <3>1, <3>2, <3>3 DEF Foreign
    <3> QED BY <3>1, <3>2, <3>4 DEF ByeInv
  <2> QED BY <2>1, <2>2 DEF Next
<1> QED BY <1>1, <1>2, GroupAlways, ChainHolds, NoneDeserts, PTL DEF Spec
=============================================================================
