---------------------------- MODULE GroupProofs ----------------------------
(***************************************************************************)
(* Proofs about GroupCommits, first part: the tree of group states, types. *)
(*                                                                         *)
(* Every commit leads from an earlier state to one of the next epoch, and  *)
(* the path to a state has one commit of every epoch, whatever members do  *)
(* (TreeInv); what circulates or is buffered is a commit of the tree       *)
(* (NetInv).  From this follow the types, and in GroupLineProofs the rest. *)
(***************************************************************************)
EXTENDS GroupCommits, TLAPS, FiniteSetTheorems, SequenceTheorems,
        WellFoundedInduction

-----------------------------------------------------------------------------
(* The lowest fingerprint *)

LEMMA LowestIsLeast ==
  ASSUME NEW S \in SUBSET Nat, S # {}
  PROVE  Lowest(S) \in S /\ \A k \in S : Lowest(S) <= k
<1>1. IsWellFoundedOn(OpToRel(<, Nat), Nat)
  BY NatLessThanWellFounded
<1>2. PICK m \in S : \A k \in S : <<k, m>> \notin OpToRel(<, Nat)
  BY <1>1, WFMin
<1>3. \A k \in S : m <= k
  <2> TAKE k \in S
  <2>1. ~(k < m)
    BY <1>2 DEF OpToRel
  <2> QED BY <2>1
<1> QED BY <1>3 DEF Lowest

-----------------------------------------------------------------------------
(* The tree of group states *)

Parent(c) == tree[c].parent

(* A state and the states it grew from. *)
Line(s) == {1} \cup Path(s)

(* Every commit leads from an earlier state to one of the next epoch.       *)
GrowthInv ==
    /\ tree[1] = Genesis
    /\ \A c \in Commits : /\ Parent(c) \in 1..(c - 1)
                          /\ Epoch(c) = Epoch(Parent(c)) + 1
                          /\ Path(c) = Path(Parent(c)) \cup {c}

(* The path to a state has one commit of every epoch up to its own, and     *)
(* with a commit the path to it.                                            *)
PathInv(s) ==
    /\ Epoch(s) < s /\ Path(s) \subseteq 2..s
    /\ \A c \in Path(s) : Epoch(c) \in 1..Epoch(s) /\ Path(c) \subseteq Path(s)
    /\ \A c, d \in Path(s) : Epoch(c) = Epoch(d) => c = d
    /\ \A e \in 1..Epoch(s) : \E c \in Path(s) : Epoch(c) = e
    /\ \A d \in Line(s) \ {s} : \E c \in Path(s) : Parent(c) = d

TreeInv ==
    /\ tree \in Seq(GroupState) /\ Len(tree) \in 1..(MaxCommits + 1)
    /\ GrowthInv
    /\ \A s \in States : PathInv(s)

(* A state as the tree holds it. *)
LEMMA StateFields ==
  ASSUME TreeInv, NEW s \in States
  PROVE  /\ s \in State /\ tree[s] \in GroupState
         /\ Parent(s) \in State /\ Epoch(s) \in 0..MaxCommits /\ Epoch(s) \in Nat
         /\ tree[s].by \in Node /\ tree[s].who \in Node
         /\ Members(s) \in SUBSET Node /\ Path(s) \in SUBSET Commit
         /\ Path(s) \in SUBSET Commits /\ Line(s) \in SUBSET States
<1>0. MaxCommits \in Nat /\ Len(tree) \in Nat /\ Len(tree) <= MaxCommits + 1
  BY ConstantsOK DEF TreeInv
<1>1. tree[s] \in GroupState
  BY ElementOfSeq DEF TreeInv, States
<1>2. s \in State
  BY <1>0 DEF States, State
<1>3. Path(s) \subseteq 2..s /\ s \in 1..Len(tree)
  BY DEF TreeInv, PathInv, States
<1>4. Path(s) \in SUBSET Commits
  BY <1>0, <1>3 DEF Commits
<1>5. Line(s) \in SUBSET States
  BY <1>0, <1>3, <1>4 DEF Line, States, Commits
<1>6. /\ tree[s].parent \in State /\ tree[s].epoch \in 0..MaxCommits
      /\ tree[s].by \in Node /\ tree[s].who \in Node
      /\ tree[s].members \in SUBSET Node /\ tree[s].path \in SUBSET Commit
  BY <1>1 DEF GroupState
<1> QED BY <1>0, <1>1, <1>2, <1>4, <1>5, <1>6 DEF Parent, Epoch, Members, Path

LEMMA GenesisFields ==
  ASSUME TreeInv
  PROVE  /\ 1 \in States /\ Epoch(1) = 0 /\ Path(1) = {} /\ Line(1) = {1}
         /\ Members(1) = Founders
         /\ \A s \in States : s \in Commits \/ s = 1
         /\ Commits \subseteq States
<1>1. tree[1] = Genesis /\ Len(tree) \in Nat /\ Len(tree) >= 1
  BY ConstantsOK DEF TreeInv, GrowthInv
<1> QED BY <1>1 DEF Genesis, States, Commits, Epoch, Path, Line, Members

(* What a commit adds to the state it was made in. *)
LEMMA CommitFields ==
  ASSUME TreeInv, NEW c \in Commits
  PROVE  /\ c \in States /\ Parent(c) \in States /\ Parent(c) < c
         /\ Epoch(c) = Epoch(Parent(c)) + 1 /\ Epoch(c) > 0
         /\ Path(c) = Path(Parent(c)) \cup {c} /\ Line(c) = Line(Parent(c)) \cup {c}
         /\ Parent(c) \in Line(c) /\ c \notin Path(Parent(c))
<1>1. c \in States /\ c \in 2..Len(tree) /\ Len(tree) \in Nat
  BY DEF TreeInv, States, Commits
<1>2. /\ Parent(c) \in 1..(c - 1) /\ Epoch(c) = Epoch(Parent(c)) + 1
      /\ Path(c) = Path(Parent(c)) \cup {c}
  BY DEF TreeInv, GrowthInv
<1>3. Parent(c) \in States /\ Parent(c) < c
  BY <1>1, <1>2 DEF States
<1>4. Epoch(Parent(c)) \in Nat /\ Path(Parent(c)) \subseteq 2..Parent(c)
  BY <1>3, StateFields DEF TreeInv, PathInv
<1>5. Parent(c) \in Line(Parent(c))
  <2>1. CASE Parent(c) = 1
    BY <2>1 DEF Line
  <2>2. CASE Parent(c) \in Commits
    BY <2>2 DEF TreeInv, GrowthInv, Line
  <2> QED BY <1>3, <2>1, <2>2, GenesisFields
<1> QED BY <1>1, <1>2, <1>3, <1>4, <1>5 DEF Line

(* A state is on its own line, and whoever is on the line of a state is     *)
(* there with its own line.                                                 *)
LEMMA LineFacts ==
  ASSUME TreeInv, NEW t \in States, NEW s \in Line(t)
  PROVE  /\ s \in States /\ t \in Line(t)
         /\ Path(s) \subseteq Path(t) /\ Line(s) \subseteq Line(t)
         /\ Epoch(s) <= Epoch(t) /\ (Epoch(s) = Epoch(t) => s = t)
         /\ s # t => \E c \in Path(t) \ Path(s) : Parent(c) = s
<1>1. s \in States /\ Epoch(s) \in Nat /\ Epoch(t) \in Nat
  BY StateFields
<1>2. t \in Line(t)
  BY GenesisFields, CommitFields DEF Line
<1>3. Path(s) \subseteq Path(t) /\ Epoch(s) <= Epoch(t)
  <2>1. CASE s = 1
    BY <1>1, <2>1, GenesisFields
  <2>2. CASE s \in Path(t)
    BY <2>2, <1>1 DEF TreeInv, PathInv
  <2> QED BY <2>1, <2>2 DEF Line
<1>4. Epoch(s) = Epoch(t) => s = t
  <2>1. CASE s = 1
    BY <1>1, <2>1, GenesisFields, CommitFields
  <2>2. CASE t = 1
    BY <2>2, GenesisFields
  <2>3. CASE s \in Path(t) /\ t \in Path(t)
    BY <2>3 DEF TreeInv, PathInv
  <2> QED BY <1>2, <2>1, <2>2, <2>3 DEF Line
<1>5. ASSUME s # t PROVE \E c \in Path(t) \ Path(s) : Parent(c) = s
  <2>1. PICK c \in Path(t) : Parent(c) = s
    BY <1>5 DEF TreeInv, PathInv
  <2>2. Epoch(c) = Epoch(s) + 1
    BY <2>1, CommitFields, StateFields
  <2>3. c \notin Path(s)
    <3>1. \A x \in Path(s) : Epoch(x) \in 1..Epoch(s)
      BY <1>1 DEF TreeInv, PathInv
    <3> QED BY <1>1, <2>2, <3>1
  <2> QED BY <2>1, <2>3
<1> QED BY <1>1, <1>2, <1>3, <1>4, <1>5 DEF Line

(* The tree grows by one commit of n, made in state s. *)
Grown(n, s, who, members) ==
    /\ Len(tree) <= MaxCommits
    /\ tree' = Append(tree, [parent |-> s, epoch |-> Epoch(s) + 1, by |-> n,
                             who |-> who, members |-> members,
                             path |-> Path(s) \cup {Len(tree) + 1}])

(* The states there are stay as they are. *)
Kept ==
    /\ Len(tree') \in Nat /\ Len(tree') >= Len(tree)
    /\ \A s \in States : tree'[s] = tree[s]

LEMMA GrownFields ==
  ASSUME TreeInv, NEW n \in Node, NEW s \in States, NEW who \in Node,
         NEW M \in SUBSET Node, Grown(n, s, who, M)
  PROVE  /\ Kept /\ Len(tree') = Len(tree) + 1 /\ Len(tree') <= MaxCommits + 1
         /\ tree' \in Seq(GroupState)
         /\ tree'[Len(tree) + 1] =
              [parent |-> s, epoch |-> Epoch(s) + 1, by |-> n, who |-> who,
               members |-> M, path |-> Path(s) \cup {Len(tree) + 1}]
<1>0. /\ MaxCommits \in Nat /\ Len(tree) \in Nat /\ Len(tree) >= 1
      /\ tree \in Seq(GroupState) /\ Len(tree) <= MaxCommits
  BY ConstantsOK DEF TreeInv, Grown
<1>1. PICK c : c = [parent |-> s, epoch |-> Epoch(s) + 1, by |-> n, who |-> who,
                    members |-> M, path |-> Path(s) \cup {Len(tree) + 1}]
  OBVIOUS
<1>2. Epoch(s) < s /\ s <= Len(tree) /\ Epoch(s) \in Nat
  BY <1>0, StateFields DEF TreeInv, PathInv, States
<1>3. Epoch(s) + 1 \in 0..MaxCommits
  BY <1>0, <1>2 DEF States
<1>4. Len(tree) + 1 \in Commit
  BY <1>0 DEF Commit
<1>5. c \in GroupState
  BY <1>1, <1>3, <1>4, StateFields DEF GroupState
<1>6. tree' = Append(tree, c)
  BY <1>1 DEF Grown
<1> QED BY <1>0, <1>1, <1>5, <1>6, AppendProperties DEF Kept, States

LEMMA KeptFields ==
  ASSUME TreeInv, Kept, NEW s \in States
  PROVE  /\ s \in States' /\ Parent(s)' = Parent(s) /\ Epoch(s)' = Epoch(s)
         /\ Members(s)' = Members(s) /\ Path(s)' = Path(s) /\ Line(s)' = Line(s)
         /\ tree'[s] = tree[s] /\ WireEpoch(s)' = WireEpoch(s)
<1>1. s \in States' /\ tree'[s] = tree[s]
  BY DEF Kept, States, TreeInv
<1> QED BY <1>1 DEF Parent, Epoch, Members, Path, Line, WireEpoch

LEMMA KeptSets ==
  ASSUME TreeInv, Kept
  PROVE  /\ States \subseteq States' /\ Commits \subseteq Commits'
BY DEF TreeInv, Kept, States, Commits

LEMMA TreeGrows ==
  ASSUME TreeInv, NEW n \in Node, NEW s \in States, NEW who \in Node,
         NEW M \in SUBSET Node, Grown(n, s, who, M)
  PROVE  TreeInv'
<1>0. /\ MaxCommits \in Nat /\ Len(tree) \in Nat /\ Len(tree) >= 1
  BY ConstantsOK DEF TreeInv
<1>1. /\ Kept /\ Len(tree') = Len(tree) + 1 /\ Len(tree') <= MaxCommits + 1
      /\ tree' \in Seq(GroupState)
  BY GrownFields
<1>2. PICK k : k = Len(tree) + 1
  OBVIOUS
<1>3. /\ Parent(k)' = s /\ Epoch(k)' = Epoch(s) + 1 /\ Path(k)' = Path(s) \cup {k}
  <2>1. tree'[k] = [parent |-> s, epoch |-> Epoch(s) + 1, by |-> n, who |-> who,
                    members |-> M, path |-> Path(s) \cup {k}]
    BY <1>2, GrownFields
  <2>2. tree'[k].parent = s /\ tree'[k].epoch = Epoch(s) + 1
        /\ tree'[k].path = Path(s) \cup {k}
    BY <2>1
  <2> QED BY <2>2 DEF Parent, Epoch, Path
<1>4. \A x \in States' : x \in States \/ x = k
  BY <1>0, <1>1, <1>2 DEF States
<1>5. \A x \in States : /\ x # k /\ x < k /\ x \in Nat /\ x >= 1
                        /\ Epoch(x) \in Nat /\ Path(x) \subseteq States
  BY <1>0, <1>2, StateFields, GenesisFields DEF States
<1>6. GrowthInv'
  <2>1. tree'[1] = Genesis
    BY <1>1, GenesisFields, KeptFields DEF TreeInv, GrowthInv
  <2>2. ASSUME NEW c \in Commits'
        PROVE  /\ Parent(c)' \in 1..(c - 1)
               /\ Epoch(c)' = tree'[Parent(c)'].epoch + 1
               /\ Path(c)' = tree'[Parent(c)'].path \cup {c}
    <3>1. CASE c = k
      <4>1. tree'[s] = tree[s] /\ Parent(c)' = s
        BY <1>1, <1>3, <3>1, KeptFields
      <4>2. Epoch(c)' = tree[s].epoch + 1 /\ Path(c)' = tree[s].path \cup {c}
        BY <1>3, <3>1 DEF Epoch, Path
      <4>3. s \in 1..(c - 1)
        BY <1>5, <3>1, <1>2, <1>0 DEF States
      <4> QED BY <4>1, <4>2, <4>3
    <3>2. CASE c \in Commits
      <4>1. Parent(c) \in States /\ c \in States
        BY <3>2, CommitFields
      <4>2. /\ Parent(c)' = Parent(c) /\ tree'[Parent(c)] = tree[Parent(c)]
            /\ Epoch(c)' = Epoch(c) /\ Path(c)' = Path(c)
        BY <1>1, <4>1, KeptFields
      <4>3. /\ Parent(c) \in 1..(c - 1)
            /\ Epoch(c) = tree[Parent(c)].epoch + 1
            /\ Path(c) = tree[Parent(c)].path \cup {c}
        BY <3>2 DEF TreeInv, GrowthInv, Epoch, Path
      <4> QED BY <4>2, <4>3
    <3> QED BY <1>0, <1>1, <1>2, <3>1, <3>2 DEF Commits
  <2> QED BY <2>1, <2>2 DEF GrowthInv, Epoch, Path
<1>7. ASSUME NEW x \in States PROVE PathInv(x)'
  <2>1. PathInv(x)
    BY DEF TreeInv
  <2>2. \A c \in Path(x) \cup {x} :
          /\ Epoch(c)' = Epoch(c) /\ Path(c)' = Path(c) /\ Parent(c)' = Parent(c)
          /\ Line(c)' = Line(c)
    BY <1>1, <1>5, KeptFields
  <2> QED BY <2>1, <2>2 DEF PathInv
<1>8. PathInv(k)'
  <2>1. PathInv(s)
    BY DEF TreeInv
  <2>2. \A c \in Line(s) \cup {s} :
          /\ c \in States
          /\ Epoch(c)' = Epoch(c) /\ Path(c)' = Path(c) /\ Parent(c)' = Parent(c)
    BY <1>1, KeptFields, StateFields
  <2>3. Line(k)' = Line(s) \cup {k}
    BY <1>3 DEF Line
  <2>a. Path(s) \subseteq Line(s) /\ s \in Line(s)
    BY LineFacts DEF Line
  <2>4. Epoch(k)' < k /\ Path(k)' \subseteq 2..k
    BY <1>0, <1>2, <1>3, <1>5, <2>1 DEF PathInv, States
  <2>5. \A c \in Path(s) : Epoch(c)' \in 1..Epoch(s) /\ Path(c)' \subseteq Path(s)
    BY <2>1, <2>2, <2>a DEF PathInv
  <2>6. \A c \in Path(k)' : Epoch(c)' \in 1..Epoch(k)' /\ Path(c)' \subseteq Path(k)'
    BY <1>3, <1>5, <2>5
  <2>7. \A c, d \in Path(k)' : Epoch(c)' = Epoch(d)' => c = d
    <3>1. \A c, d \in Path(s) : Epoch(c)' = Epoch(d)' => c = d
      BY <2>1, <2>2, <2>a DEF PathInv
    <3>2. \A c \in Path(s) : Epoch(c)' # Epoch(k)'
      BY <1>3, <1>5, <2>5
    <3> QED BY <1>3, <3>1, <3>2
  <2>8. \A e \in 1..Epoch(k)' : \E c \in Path(k)' : Epoch(c)' = e
    <3>1. \A e \in 1..Epoch(s) : \E c \in Path(s) : Epoch(c)' = e
      BY <2>1, <2>2, <2>a DEF PathInv
    <3> QED BY <1>3, <1>5, <3>1
  <2>9. \A d \in Line(k)' \ {k} : \E c \in Path(k)' : Parent(c)' = d
    <3>1. \A d \in Line(s) \ {s} : \E c \in Path(s) : Parent(c)' = d
      BY <2>1, <2>2, <2>a DEF PathInv
    <3> QED BY <1>3, <2>3, <3>1
  <2> QED BY <2>4, <2>6, <2>7, <2>8, <2>9 DEF PathInv
<1>9. \A x \in States' : PathInv(x)'
  BY <1>4, <1>7, <1>8
<1> QED BY <1>0, <1>1, <1>6, <1>9 DEF TreeInv

-----------------------------------------------------------------------------
(* Types *)

(* A frame and the commits it carries. *)
Carries(f, c) ==
    \/ f.type \in {"commit", "welcome"} /\ f.id = c
    \/ f.type = "response" /\ c \in f.commits

LEMMA CirculatingMeans ==
  ASSUME NEW c
  PROVE  c \in Circulating <=> \E f \in net : Carries(f, c)
<1>1. ASSUME c \in Circulating PROVE \E f \in net : Carries(f, c)
  BY <1>1 DEF Circulating, Carries
<1>2. ASSUME NEW f \in net, Carries(f, c) PROVE c \in Circulating
  BY <1>2 DEF Circulating, Carries
<1> QED BY <1>1, <1>2

(* What circulates is in the tree; buffers and replays hold nothing else,   *)
(* and a departure was announced in a state of the tree.                    *)
NetInv ==
    /\ Circulating \subseteq Commits
    /\ \A f \in Parting : f.at \in States
    /\ \A n \in Node : buf[n] \subseteq Circulating /\ todo[n] \subseteq Circulating

(* A member that is up, or comes back, has its group saved.                 *)
SavedInv ==
    \A n \in Node : mode[n] \in {"in", "quit", "down"} => dSt[n] # NoState

TypeInv == TypeOK /\ TreeInv /\ NetInv /\ SavedInv

LEMMA SuccessorType ==
  ASSUME NEW M \in SUBSET Node, NEW a \in Node
  PROVE  Successor(M, a) \in Node /\ Reconcile(a, M) \in Node
BY LowestIsLeast, ConstantsOK DEF Successor, Reconcile

LEMMA CommitsFinite ==
  ASSUME TreeInv, NEW S \in SUBSET Commits
  PROVE  IsFiniteSet(S) /\ Cardinality(S) \in Nat
<1>1. Len(tree) \in Int
  BY DEF TreeInv
<1>2. IsFiniteSet(Commits)
  BY <1>1, FS_Interval DEF Commits
<1> QED BY <1>2, FS_Subset, FS_CardinalityType

(* One commit per epoch. *)
Spread(S) == \A c, d \in S : WireEpoch(c) = WireEpoch(d) => c = d

LEMMA WireEpochs ==
  ASSUME TreeInv, NEW c \in Commits, NEW d \in Commits
  PROVE  /\ WireEpoch(c) \in Nat /\ WireEpoch(c) = Epoch(c) - 1
         /\ (WireEpoch(c) = WireEpoch(d) <=> Epoch(c) = Epoch(d))
BY StateFields, CommitFields DEF WireEpoch, Epoch

(* Where a drain stops, and why it got there. *)
LEMMA ReachFields ==
  ASSUME TreeInv, NEW n \in Node, NEW s \in States, NEW b \in SUBSET Commits,
         NEW t \in Reach(n, b, s)
  PROVE  /\ t \in States /\ s \in Line(t) /\ Path(s) \subseteq Path(t)
         /\ Path(t) \ Path(s) \subseteq b
         /\ \A c \in Path(t) \ Path(s) : n \in Members(Parent(c))
         /\ t # s => \E c \in Path(t) \ Path(s) : Parent(c) = s /\ Epoch(c) = Epoch(s) + 1
<1>1. /\ t \in States /\ Path(s) \subseteq Path(t) /\ Path(t) \ Path(s) \subseteq b
      /\ \A c \in Path(t) \ Path(s) : n \in Members(Parent(c))
  BY DEF Reach, Parent
<1>2. s \in Line(t)
  <2>1. s \in Line(s)
    BY LineFacts DEF Line
  <2> QED BY <1>1, <2>1 DEF Line
<1>3. ASSUME t # s
      PROVE  \E c \in Path(t) \ Path(s) : Parent(c) = s /\ Epoch(c) = Epoch(s) + 1
  <2>1. PICK c \in Path(t) \ Path(s) : Parent(c) = s
    BY <1>1, <1>2, <1>3, LineFacts
  <2> QED BY <1>1, <2>1, StateFields, CommitFields
<1> QED BY <1>1, <1>2, <1>3

(* The buffer keeps its bound, and has one commit per epoch.                *)
LEMMA OfferedFields ==
  ASSUME TreeInv, NEW b \in SUBSET Commits, Cardinality(b) <= BufferCap, Spread(b),
         NEW c \in Commits, NEW s \in States, NEW B, B = Offered(b, c, s)
  PROVE  /\ B \in SUBSET Commits /\ B \subseteq b \cup {c} /\ Spread(B)
         /\ WireEpoch(c) # Epoch(s) => Cardinality(B) <= BufferCap
         /\ WireEpoch(c) = Epoch(s) =>
              /\ c \in B /\ B \ {c} \subseteq b
              /\ \A d \in B : WireEpoch(d) = Epoch(s) => d = c
<1>0. /\ WireEpoch(c) \in Nat /\ Epoch(s) \in Nat /\ BufferCap \in Nat
      /\ IsFiniteSet(b) /\ Cardinality(b) \in Nat
  BY WireEpochs, StateFields, ConstantsOK, CommitsFinite
<1>1. CASE WireEpoch(c) = Epoch(s)
  <2>1. B = {d \in b : WireEpoch(d) # WireEpoch(c)} \cup {c}
    BY <1>0, <1>1 DEF Offered
  <2> QED BY <1>1, <2>1 DEF Spread
<1>2. CASE WireEpoch(c) > Epoch(s)
  <2>1. B = Insert(b, c)
    BY <1>0, <1>2 DEF Offered
  <2>2. CASE B = b
    BY <1>0, <1>2, <2>2
  <2>3. CASE /\ B = b \cup {c} /\ ~(Cardinality(b) >= BufferCap)
             /\ ~\E d \in b : WireEpoch(d) = WireEpoch(c)
    <3>1. Cardinality(B) <= BufferCap
      <4>1. Cardinality(b \cup {c}) = IF c \in b THEN Cardinality(b) ELSE Cardinality(b) + 1
        BY <1>0, FS_AddElement
      <4> QED BY <1>0, <2>3, <4>1
    <3>2. Spread(B)
      BY <2>3 DEF Spread
    <3> QED BY <1>0, <1>2, <2>3, <3>1, <3>2
  <2> QED BY <2>1, <2>2, <2>3 DEF Insert
<1>3. CASE WireEpoch(c) < Epoch(s)
  <2>1. B = b
    BY <1>0, <1>3 DEF Offered
  <2> QED BY <1>0, <1>3, <2>1
<1> QED BY <1>0, <1>1, <1>2, <1>3

LEMMA LoggedFields ==
  ASSUME TreeInv, NEW L \in SUBSET Commits, Spread(L), NEW S \in SUBSET Commits,
         Spread(S), NEW N \in Logged(L, S)
  PROVE  N \subseteq L \cup S /\ Spread(N)
<1>1. PICK T \in SUBSET S : N = {d \in L : \A c \in T : WireEpoch(c) # WireEpoch(d)} \cup T
  BY DEF Logged
<1> QED BY <1>1 DEF Spread

(* A drain that stopped in t at a commit that does not apply or is not      *)
(* written, and what it leaves in the buffer.                               *)
Stuck(n, c, t) == Sequence(n, c, t, FALSE)
Waits(n, t) ==
    \/ t = st[n] /\ buf'[n] = buf[n]
    \/ \E x \in buf'[n] : WireEpoch(x) = Epoch(t)

(* What sequence_commit does to member n: it moves forward along commits    *)
(* that were offered, and each of them applied in turn.                     *)
Sequenced(n, c, t) == \E ok \in BOOLEAN : Sequence(n, c, t, ok)

LEMMA SequenceFields ==
  ASSUME TypeInv, NEW n \in Node, NEW c \in Commits, NEW t \in States,
         Sequenced(n, c, t)
  PROVE  /\ st' \in [Node -> States] /\ st'[n] = t
         /\ \A m \in Node \ {n} : /\ st'[m] = st[m] /\ buf'[m] = buf[m] /\ dSt'[m] = dSt[m]
                                  /\ log'[m] = log[m] /\ mode'[m] = mode[m]
         /\ buf' \in [Node -> SUBSET Commits] /\ buf'[n] \subseteq buf[n] \cup {c}
         /\ Cardinality(buf'[n]) <= BufferCap /\ Spread(buf'[n])
         /\ dSt' \in [Node -> {NoState} \cup States]
         /\ \/ t = st[n] /\ dSt'[n] = dSt[n]
            \/ t # st[n] /\ dSt'[n] = t
            \/ /\ dSt'[n] \in buf[n] \cup {c} /\ dSt'[n] \in Commits
               /\ Parent(dSt'[n]) = t /\ n \in Members(t)
         /\ log' \in [Node -> SUBSET Commits] /\ Spread(log'[n])
         /\ log'[n] \subseteq log[n] \cup (Path(t) \ Path(st[n]))
         /\ mode' \in [Node -> Mode]
         /\ mode'[n] = IF t = st[n] THEN mode[n] ELSE "in"
         /\ t \in Reach(n, buf[n] \cup {c}, st[n])
         /\ Stuck(n, c, t) => Waits(n, t)
<1>0. /\ st \in [Node -> States] /\ buf \in [Node -> SUBSET Commits]
      /\ dSt \in [Node -> {NoState} \cup States] /\ log \in [Node -> SUBSET Commits]
      /\ mode \in [Node -> Mode] /\ TreeInv
      /\ Cardinality(buf[n]) <= BufferCap /\ Spread(buf[n]) /\ Spread(log[n])
  BY DEF TypeInv, TypeOK, Spread
<1>s. st[n] \in States /\ buf[n] \in SUBSET Commits
  BY <1>0
<1>1. PICK b : b = Offered(buf[n], c, st[n])
  OBVIOUS
<1>2. PICK next : next = Ready(b, t)
  OBVIOUS
<1>3. PICK fits : fits = {x \in next : Applies(n, x, t)}
  OBVIOUS
<1>4. /\ t \in Reach(n, b, st[n])
      /\ st' = [st EXCEPT ![n] = t]
      /\ buf' = [buf EXCEPT ![n] = IF t = st[n] /\ WireEpoch(c) = Epoch(t)
                                   THEN buf[n] ELSE b \ Path(t)]
      /\ \E d \in {IF t = st[n] THEN dSt[n] ELSE t} \cup fits :
            dSt' = [dSt EXCEPT ![n] = d]
      /\ \E L \in Logged(log[n], Path(t) \ Path(st[n])) : log' = [log EXCEPT ![n] = L]
      /\ mode' = [mode EXCEPT ![n] = IF t = st[n] THEN mode[n] ELSE "in"]
  BY <1>1, <1>2, <1>3 DEF Sequence, Sequenced
<1>5. /\ b \in SUBSET Commits /\ b \subseteq buf[n] \cup {c} /\ Spread(b)
      /\ WireEpoch(c) # Epoch(st[n]) => Cardinality(b) <= BufferCap
      /\ WireEpoch(c) = Epoch(st[n]) =>
           /\ c \in b /\ b \ {c} \subseteq buf[n]
           /\ \A d \in b : WireEpoch(d) = Epoch(st[n]) => d = c
  BY <1>0, <1>s, <1>1, OfferedFields
<1>6. /\ st[n] \in Line(t) /\ Path(st[n]) \subseteq Path(t)
      /\ Path(t) \ Path(st[n]) \subseteq b
      /\ \A x \in Path(t) \ Path(st[n]) : n \in Members(Parent(x))
      /\ t # st[n] => \E x \in Path(t) \ Path(st[n]) :
                         Parent(x) = st[n] /\ Epoch(x) = Epoch(st[n]) + 1
  BY <1>0, <1>s, <1>4, <1>5, ReachFields
<1>7. t \in Reach(n, buf[n] \cup {c}, st[n])
  BY <1>5, <1>6 DEF Reach, Parent
<1>8. /\ st' \in [Node -> States] /\ st'[n] = t
      /\ mode' \in [Node -> Mode] /\ mode'[n] = IF t = st[n] THEN mode[n] ELSE "in"
      /\ \A m \in Node \ {n} : st'[m] = st[m] /\ mode'[m] = mode[m]
  BY <1>0, <1>4 DEF Mode
<1>9. /\ buf' \in [Node -> SUBSET Commits] /\ buf'[n] \subseteq buf[n] \cup {c}
      /\ buf'[n] = IF t = st[n] /\ WireEpoch(c) = Epoch(t) THEN buf[n] ELSE b \ Path(t)
      /\ \A m \in Node \ {n} : buf'[m] = buf[m]
  BY <1>0, <1>4, <1>5
<1>10. Spread(buf'[n])
  BY <1>0, <1>5, <1>9 DEF Spread
<1>11. Cardinality(buf'[n]) <= BufferCap
  <2>1. CASE buf'[n] = buf[n]
    BY <1>0, <2>1
  <2>2. CASE buf'[n] = b \ Path(t) /\ WireEpoch(c) # Epoch(st[n])
    <3>1. Cardinality(b \ Path(t)) <= Cardinality(b) /\ Cardinality(b) \in Nat
          /\ Cardinality(b \ Path(t)) \in Nat
      BY <1>0, <1>5, CommitsFinite, FS_Subset
    <3> QED BY <1>5, <2>2, <3>1, ConstantsOK
  <2>3. CASE buf'[n] = b \ Path(t) /\ WireEpoch(c) = Epoch(st[n]) /\ t # st[n]
    <3>1. PICK x \in Path(t) \ Path(st[n]) : Epoch(x) = Epoch(st[n]) + 1
      BY <1>6, <2>3
    <3>2. x \in b /\ x \in Commits
      BY <1>5, <1>6
    <3>3. WireEpoch(x) = Epoch(st[n])
      BY <1>0, <1>s, <3>1, <3>2, WireEpochs, StateFields
    <3>4. c \in Path(t)
      BY <1>5, <2>3, <3>2, <3>3
    <3>5. b \ Path(t) \subseteq buf[n]
      BY <1>5, <2>3, <3>4
    <3>6. /\ Cardinality(b \ Path(t)) <= Cardinality(buf[n]) /\ Cardinality(buf[n]) \in Nat
          /\ Cardinality(b \ Path(t)) \in Nat
      BY <1>0, <1>s, <1>5, <3>5, CommitsFinite, FS_Subset
    <3> QED BY <1>0, <2>3, <3>6, ConstantsOK
  <2> QED BY <1>9, <2>1, <2>2, <2>3
<1>12. /\ dSt' \in [Node -> {NoState} \cup States]
       /\ \A m \in Node \ {n} : dSt'[m] = dSt[m]
       /\ \/ t = st[n] /\ dSt'[n] = dSt[n]
          \/ t # st[n] /\ dSt'[n] = t
          \/ /\ dSt'[n] \in buf[n] \cup {c} /\ dSt'[n] \in Commits
             /\ Parent(dSt'[n]) = t /\ n \in Members(t)
  <2>1. PICK d \in {IF t = st[n] THEN dSt[n] ELSE t} \cup fits :
               dSt' = [dSt EXCEPT ![n] = d]
    BY <1>4
  <2>2. \A x \in fits : x \in b /\ x \in States /\ Parent(x) = t /\ n \in Members(t)
                        /\ x \in Commits
    BY <1>0, <1>2, <1>3, <1>5, GenesisFields DEF Ready, Applies, Parent
  <2>3. d \in {NoState} \cup States
    BY <1>0, <2>1, <2>2
  <2>4. dSt'[n] = d
    BY <1>0, <2>1
  <2>5. \/ t = st[n] /\ d = dSt[n]
        \/ t # st[n] /\ d = t
        \/ d \in fits
    BY <2>1
  <2>6. d \in fits => d \in buf[n] \cup {c}
    BY <1>5, <2>2
  <2>7. /\ dSt' \in [Node -> {NoState} \cup States]
        /\ \A m \in Node \ {n} : dSt'[m] = dSt[m]
    BY <1>0, <2>1, <2>3
  <2> QED BY <2>2, <2>4, <2>5, <2>6, <2>7
<1>13. /\ log' \in [Node -> SUBSET Commits] /\ Spread(log'[n])
       /\ log'[n] \subseteq log[n] \cup (Path(t) \ Path(st[n]))
       /\ \A m \in Node \ {n} : log'[m] = log[m]
  <2>1. PICK L \in Logged(log[n], Path(t) \ Path(st[n])) : log' = [log EXCEPT ![n] = L]
    BY <1>4
  <2>2. Path(t) \ Path(st[n]) \in SUBSET Commits /\ Spread(Path(t) \ Path(st[n]))
    BY <1>5, <1>6 DEF Spread
  <2>3. L \subseteq log[n] \cup (Path(t) \ Path(st[n])) /\ Spread(L)
    <3>1. log[n] \in SUBSET Commits
      BY <1>0
    <3> QED BY <1>0, <2>2, <3>1, LoggedFields
  <2> QED BY <1>0, <2>1, <2>2, <2>3
<1>14. ASSUME Stuck(n, c, t) PROVE Waits(n, t)
  <2>1. PICK x \in b : WireEpoch(x) = Epoch(t)
    <3>1. next # {}
      BY <1>1, <1>2, <1>14 DEF Sequence, Stuck
    <3> QED BY <1>2, <3>1 DEF Ready
  <2>2. x \notin Path(t)
    <3>1. x \in Commits /\ Epoch(t) \in Nat
      BY <1>0, <1>5, StateFields
    <3>2. Epoch(x) = Epoch(t) + 1
      BY <1>0, <2>1, <3>1, WireEpochs, StateFields, CommitFields
    <3>3. x \in Path(t) => Epoch(x) <= Epoch(t)
      BY <1>0, <3>1 DEF TreeInv, PathInv
    <3> QED BY <3>1, <3>2, <3>3
  <2> QED BY <1>9, <2>1, <2>2 DEF Waits
<1> QED BY <1>7, <1>8, <1>9, <1>10, <1>11, <1>12, <1>13, <1>14

(* Frames only add to what circulates and to the announced departures.      *)
LEMMA NetGrows ==
  ASSUME NEW F, net' = net \cup F
  PROVE  /\ Circulating \subseteq Circulating'
         /\ \A c \in Circulating' : c \in Circulating \/ \E f \in F : Carries(f, c)
         /\ Parting \subseteq Parting'
         /\ \A f \in Parting' : f \in Parting \/ (f \in F /\ f.type = "leave")
<1>1. \A c : c \in Circulating <=> \E f \in net : Carries(f, c)
  BY CirculatingMeans
<1>2. \A c : c \in Circulating' <=> \E f \in net' : Carries(f, c)
  <2>1. ASSUME NEW c, c \in Circulating' PROVE \E f \in net' : Carries(f, c)
    BY <2>1 DEF Circulating, Carries
  <2>2. ASSUME NEW c, NEW f \in net', Carries(f, c) PROVE c \in Circulating'
    BY <2>2 DEF Circulating, Carries
  <2> QED BY <2>1, <2>2
<1> QED BY <1>1, <1>2 DEF Parting

LEMMA Unchanging ==
  ASSUME net' = net
  PROVE  Circulating' = Circulating /\ Parting' = Parting
BY DEF Circulating, Parting

(* Packages and requests carry no commits and announce no departure.        *)
LEMMA QuietFrames ==
  ASSUME NEW F, net' = net \cup F, \A f \in F : f.type \in {"package", "request"}
  PROVE  Circulating' = Circulating /\ Parting' = Parting
<1>1. \A f \in F : f.type # "leave" /\ \A c : ~Carries(f, c)
  BY DEF Carries
<1> QED BY <1>1, NetGrows

LEMMA PublishedFields ==
  ASSUME NEW F, NEW G \in Published(F)
  PROVE  G \subseteq F
BY DEF Published

LEMMA AskFields ==
  ASSUME TypeInv, NEW n \in Node, NEW a \in {Silent} \cup 0..MaxCommits,
         NEW t \in States, \E sent \in BOOLEAN : Ask(n, a, t, sent)
  PROVE  /\ asked' \in [Node -> {Silent} \cup 0..MaxCommits]
         /\ net' \subseteq Frame /\ net \subseteq net'
         /\ Circulating' = Circulating /\ Parting' = Parting
         /\ \A f \in net' \ net : f.type = "request"
<1>0. /\ asked \in [Node -> {Silent} \cup 0..MaxCommits] /\ net \subseteq Frame
      /\ Epoch(t) \in 0..MaxCommits
  BY StateFields DEF TypeInv, TypeOK
<1>1. PICK r : r = [type |-> "request", who |-> n, epoch |-> Epoch(t)]
  OBVIOUS
<1>2. r \in Frame /\ r.type = "request"
  BY <1>0, <1>1 DEF Frame
<1>3. /\ asked' = [asked EXCEPT ![n] = a] \/ asked' = [asked EXCEPT ![n] = Epoch(t)]
         \/ asked' = [asked EXCEPT ![n] = Silent]
      /\ net' = net \/ \E F \in Published({r}) : net' = net \cup F
  BY <1>1 DEF Ask
<1>4. \E F \in SUBSET {r} : net' = net \cup F
  <2>1. CASE net' = net
    <3>1. net' = net \cup {} /\ {} \in SUBSET {r}
      BY <2>1
    <3> QED BY <3>1
  <2>2. CASE \E F \in Published({r}) : net' = net \cup F
    BY <2>2, PublishedFields
  <2> QED BY <1>3, <2>1, <2>2
<1>5. PICK F \in SUBSET {r} : net' = net \cup F
  BY <1>4
<1>6. Circulating' = Circulating /\ Parting' = Parting
  BY <1>2, <1>5, QuietFrames
<1> QED BY <1>0, <1>2, <1>3, <1>5, <1>6

(* Reading TypeInv member by member. *)
LEMMA TypeFields ==
  ASSUME TypeInv, NEW n \in Node
  PROVE  /\ TreeInv /\ mode[n] \in Mode /\ st[n] \in States /\ adm[n] \in Node
         /\ buf[n] \in SUBSET Commits /\ asked[n] \in {Silent} \cup 0..MaxCommits
         /\ rejoin[n] \in BOOLEAN /\ busy[n] \in BOOLEAN /\ todo[n] \in SUBSET Commits
         /\ dSt[n] \in {NoState} \cup States /\ dAdm[n] \in Node
         /\ log[n] \in SUBSET Commits /\ saved[n] \in SUBSET Commits
         /\ buf[n] \subseteq Circulating /\ todo[n] \subseteq Circulating
         /\ Circulating \subseteq Commits /\ Circulating \subseteq States
         /\ mode[n] \in {"in", "quit", "down"} => dSt[n] \in States
         /\ Cardinality(buf[n]) <= BufferCap /\ Spread(buf[n]) /\ Spread(log[n])
         /\ Members(st[n]) \in SUBSET Node
         /\ dSt[n] \in States => Members(dSt[n]) \in SUBSET Node
<1>1. TypeOK /\ TreeInv /\ NetInv /\ SavedInv
  BY DEF TypeInv
<1>2. /\ mode[n] \in Mode /\ st[n] \in States /\ adm[n] \in Node
      /\ buf[n] \in SUBSET Commits /\ asked[n] \in {Silent} \cup 0..MaxCommits
      /\ rejoin[n] \in BOOLEAN /\ busy[n] \in BOOLEAN /\ todo[n] \in SUBSET Commits
      /\ dSt[n] \in {NoState} \cup States /\ dAdm[n] \in Node
      /\ log[n] \in SUBSET Commits /\ saved[n] \in SUBSET Commits
      /\ Cardinality(buf[n]) <= BufferCap
  BY <1>1 DEF TypeOK
<1>3. Spread(buf[n]) /\ Spread(log[n])
  BY <1>1 DEF TypeOK, Spread
<1>4. /\ buf[n] \subseteq Circulating /\ todo[n] \subseteq Circulating
      /\ Circulating \subseteq Commits /\ Circulating \subseteq States
  BY <1>1, GenesisFields DEF NetInv
<1>5. mode[n] \in {"in", "quit", "down"} => dSt[n] \in States
  BY <1>1, <1>2 DEF SavedInv
<1> QED BY <1>1, <1>2, <1>3, <1>4, <1>5, StateFields

(* The parts of TypeInv that a step with the same tree has to show.         *)
TypeStep ==
    /\ tree' = tree /\ net' \subseteq Frame
    /\ mode' \in [Node -> Mode] /\ st' \in [Node -> States] /\ adm' \in [Node -> Node]
    /\ buf' \in [Node -> SUBSET Commits] /\ todo' \in [Node -> SUBSET Commits]
    /\ asked' \in [Node -> {Silent} \cup 0..MaxCommits]
    /\ rejoin' \in [Node -> BOOLEAN] /\ busy' \in [Node -> BOOLEAN]
    /\ dSt' \in [Node -> {NoState} \cup States] /\ dAdm' \in [Node -> Node]
    /\ log' \in [Node -> SUBSET Commits] /\ saved' \in [Node -> SUBSET Commits]

NetStep ==
    /\ Circulating \subseteq Circulating' /\ Circulating' \subseteq Commits
    /\ \A f \in Parting' : f.at \in States

BufferStep(n) ==
    /\ Cardinality(buf'[n]) <= BufferCap /\ Spread(buf'[n]) /\ Spread(log'[n])
    /\ buf'[n] \subseteq Circulating' /\ todo'[n] \subseteq Circulating'
    /\ mode'[n] \in {"in", "quit", "down"} => dSt'[n] # NoState

LEMMA SameTree ==
  ASSUME TypeInv, tree' = tree
  PROVE  /\ Kept /\ TreeInv' /\ States' = States /\ Commits' = Commits
         /\ \A c : WireEpoch(c)' = WireEpoch(c)
<1>1. /\ States' = States /\ Commits' = Commits
      /\ \A c : /\ WireEpoch(c)' = WireEpoch(c) /\ Parent(c)' = Parent(c)
               /\ Epoch(c)' = Epoch(c) /\ Path(c)' = Path(c) /\ Line(c)' = Line(c)
  BY DEF States, Commits, WireEpoch, Parent, Epoch, Path, Line
<1>2. TreeInv /\ Len(tree) \in Nat
  BY DEF TypeInv, TreeInv
<1>3. Kept
  BY <1>2 DEF Kept
<1>4. \A s \in States : PathInv(s)'
  BY <1>1, <1>2 DEF TreeInv, PathInv
<1>5. GrowthInv'
  BY <1>1, <1>2 DEF TreeInv, GrowthInv
<1> QED BY <1>1, <1>2, <1>3, <1>4, <1>5 DEF TreeInv

LEMMA TypeSteps ==
  ASSUME TypeInv, TypeStep, NetStep, \A n \in Node : BufferStep(n)
  PROVE  TypeInv'
<1>1. /\ TreeInv' /\ States' = States /\ Commits' = Commits
      /\ \A c : WireEpoch(c)' = WireEpoch(c)
  BY SameTree DEF TypeStep
<1>2. \A n \in Node :
         /\ Cardinality(buf'[n]) <= BufferCap
         /\ \A S \in {buf'[n], log'[n]} : \A c, d \in S :
               WireEpoch(c)' = WireEpoch(d)' => c = d
  BY <1>1 DEF BufferStep, Spread
<1>3. TypeOK'
  BY <1>1, <1>2 DEF TypeStep, TypeOK, TreeInv
<1>4. NetInv'
  BY <1>1 DEF NetStep, NetInv, BufferStep
<1>5. SavedInv'
  BY DEF BufferStep, SavedInv
<1> QED BY <1>1, <1>3, <1>4, <1>5 DEF TypeInv

(* A frame that was published carries commits of the tree. *)
LEMMA FrameFields ==
  ASSUME TypeInv, NEW f \in net
  PROVE  /\ f.type \in {"commit", "welcome"} => f.id \in Circulating
         /\ f.type = "response" => f.commits \subseteq Circulating
         /\ f.type \in {"package", "request", "response", "leave"} => f.who \in Node
         /\ f.type = "leave" => f \in Parting /\ f.at \in States
<1>1. f \in Frame
  BY DEF TypeInv, TypeOK
<1>2. \A c : Carries(f, c) => c \in Circulating
  BY CirculatingMeans
<1>3. f.type \in {"package", "request", "response", "leave"} => f.who \in Node
  BY <1>1 DEF Frame
<1>4. f.type = "leave" => f \in Parting
  BY DEF Parting
<1>5. f \in Parting => f.at \in States
  BY DEF TypeInv, NetInv
<1> QED BY <1>2, <1>3, <1>4, <1>5 DEF Carries

(* The variables of TypeStep before the step. *)
TypeNow ==
    /\ net \subseteq Frame
    /\ mode \in [Node -> Mode] /\ st \in [Node -> States] /\ adm \in [Node -> Node]
    /\ buf \in [Node -> SUBSET Commits] /\ todo \in [Node -> SUBSET Commits]
    /\ asked \in [Node -> {Silent} \cup 0..MaxCommits]
    /\ rejoin \in [Node -> BOOLEAN] /\ busy \in [Node -> BOOLEAN]
    /\ dSt \in [Node -> {NoState} \cup States] /\ dAdm \in [Node -> Node]
    /\ log \in [Node -> SUBSET Commits] /\ saved \in [Node -> SUBSET Commits]

LEMMA TypesNow ==
  ASSUME TypeInv
  PROVE  TypeNow
BY DEF TypeInv, TypeOK, TypeNow

(* A step that publishes nothing but packages and requests, and touches no  *)
(* buffer and no saved state, keeps its types if what it assigns has them.  *)
LEMMA TypeQuiet ==
  ASSUME TypeInv, TypeStep, Circulating' = Circulating, Parting' = Parting,
         \A n \in Node : /\ buf'[n] \in {buf[n], {}} /\ log'[n] \in {log[n], {}}
                         /\ todo'[n] \in {todo[n], {}}
                         /\ mode'[n] \in {"in", "quit", "down"} => dSt'[n] # NoState
  PROVE  TypeInv'
<1>1. NetStep
  BY DEF NetStep, TypeInv, NetInv
<1>2. ASSUME NEW n \in Node PROVE BufferStep(n)
  <2>1. /\ Cardinality(buf[n]) <= BufferCap /\ Spread(buf[n]) /\ Spread(log[n])
        /\ buf[n] \subseteq Circulating /\ todo[n] \subseteq Circulating
    BY TypeFields
  <2>2. Cardinality({}) = 0 /\ BufferCap \in Nat /\ Spread({})
    BY FS_EmptySet, ConstantsOK DEF Spread
  <2>3. Cardinality(buf'[n]) <= BufferCap
    <3>1. CASE buf'[n] = buf[n]
      BY <2>1, <3>1
    <3>2. CASE buf'[n] = {}
      BY <2>2, <3>2
    <3> QED BY <3>1, <3>2
  <2>4. Spread(buf'[n]) /\ Spread(log'[n])
    BY <2>1, <2>2 DEF Spread
  <2> QED BY <2>1, <2>3, <2>4 DEF BufferStep
<1> QED BY <1>1, <1>2, TypeSteps

LEMMA TypeJoin ==
  ASSUME TypeInv, NEW n \in Node, Join(n) \/ RetryJoin(n)
  PROVE  TypeInv'
<1>1. PICK p : p = [type |-> "package", who |-> n]
  OBVIOUS
<1>2. p \in Frame /\ p.type = "package"
  BY <1>1 DEF Frame
<1>3. \E F \in SUBSET {p} : net' = net \cup F
  BY <1>1, PublishedFields DEF Join, RetryJoin
<1>4. PICK F \in SUBSET {p} : net' = net \cup F
  BY <1>3
<1>5. Circulating' = Circulating /\ Parting' = Parting
  BY <1>2, <1>4, QuietFrames
<1>6. TypeStep
  BY <1>2, <1>4 DEF TypeInv, TypeOK, TypeStep, Join, RetryJoin, memory, store, Mode
<1>7. \A m \in Node : /\ buf'[m] = buf[m] /\ log'[m] = log[m] /\ todo'[m] = todo[m]
                      /\ dSt'[m] = dSt[m] /\ mode'[m] \in {mode[m], "joining"}
  BY DEF TypeInv, TypeOK, Join, RetryJoin, memory, store
<1> QED BY <1>5, <1>6, <1>7, TypeQuiet, TypeFields DEF TypeInv, SavedInv

LEMMA TypeWelcome ==
  ASSUME TypeInv, NEW n \in Node, NEW f \in net, RecvWelcome(n, f)
  PROVE  TypeInv'
<1>1. f.id \in States /\ f.id # NoState /\ Members(f.id) \in SUBSET Node
  BY FrameFields, TypeFields, StateFields DEF RecvWelcome, TypeInv, NoState, States
<1>2. adm[n] \in Node /\ Reconcile(adm[n], Members(f.id)) \in Node
  BY <1>1, TypeFields, SuccessorType
<1>3. TypeStep
  <2>1. /\ mode' \in [Node -> Mode] /\ st' \in [Node -> States] /\ adm' \in [Node -> Node]
    <3>1. "in" \in Mode
      BY DEF Mode
    <3>2. CASE /\ mode' = [mode EXCEPT ![n] = "in"]
               /\ st' = [st EXCEPT ![n] = f.id]
               /\ adm' = [adm EXCEPT ![n] = Reconcile(adm[n], Members(f.id))]
      BY <1>1, <1>2, <3>1, <3>2, TypesNow DEF TypeNow
    <3>3. CASE UNCHANGED <<mode, st, adm>>
      BY <3>3, TypesNow DEF TypeNow
    <3> QED BY <3>2, <3>3 DEF RecvWelcome
  <2>2. dSt' \in [Node -> {NoState} \cup States] /\ dAdm' \in [Node -> Node]
    BY <1>1, <1>2, TypesNow DEF TypeNow, RecvWelcome
  <2> QED BY <2>1, <2>2, TypesNow DEF TypeNow, TypeStep, RecvWelcome
<1>4. Circulating' = Circulating /\ Parting' = Parting
  BY Unchanging DEF RecvWelcome
<1>5. \A m \in Node : /\ buf'[m] = buf[m] /\ log'[m] = log[m] /\ todo'[m] = todo[m]
                      /\ m # n => dSt'[m] = dSt[m] /\ mode'[m] = mode[m]
                      /\ dSt'[n] = f.id
  BY DEF TypeInv, TypeOK, RecvWelcome
<1> QED BY <1>1, <1>3, <1>4, <1>5, TypeQuiet, TypeFields DEF TypeInv, SavedInv

LEMMA TypeRecvResponse ==
  ASSUME TypeInv, NEW n \in Node, NEW f \in net, RecvResponse(n, f)
  PROVE  TypeInv'
<1>1. f.commits \subseteq Circulating /\ Circulating \subseteq Commits
  BY FrameFields, TypeFields DEF RecvResponse
<1>2. TypeStep
  BY <1>1 DEF TypeInv, TypeOK, TypeStep, RecvResponse, store
<1>3. Circulating' = Circulating /\ Parting' = Parting
  BY Unchanging DEF RecvResponse
<1>4. NetStep
  BY <1>3 DEF NetStep, TypeInv, NetInv
<1>5. ASSUME NEW m \in Node PROVE BufferStep(m)
  <2>1. /\ buf'[m] = buf[m] /\ log'[m] = log[m] /\ todo'[m] \in {todo[m], f.commits}
        /\ dSt'[m] = dSt[m] /\ mode'[m] = mode[m]
    BY DEF TypeInv, TypeOK, RecvResponse, store
  <2> QED BY <1>1, <1>3, <2>1, TypeFields DEF BufferStep, TypeInv, SavedInv
<1> QED BY <1>2, <1>4, <1>5, TypeSteps

LEMMA TypeEndAbsorb ==
  ASSUME TypeInv, NEW n \in Node, EndAbsorb(n)
  PROVE  TypeInv'
<1>1. /\ st[n] \in States /\ rejoin[n] \in BOOLEAN
      /\ Reconcile(adm[n], Members(st[n])) \in Node
  BY TypeFields, SuccessorType
<1>2. /\ asked' \in [Node -> {Silent} \cup 0..MaxCommits] /\ net' \subseteq Frame
      /\ Circulating' = Circulating /\ Parting' = Parting
  <2>1. CASE Gap(buf[n], st[n])
    <3>1. \E sent \in BOOLEAN : Ask(n, Silent, st[n], sent)
      BY <2>1 DEF EndAbsorb
    <3> QED BY <1>1, <3>1, AskFields
  <2>2. CASE ~Gap(buf[n], st[n])
    BY <2>2, Unchanging DEF EndAbsorb, TypeInv, TypeOK
  <2> QED BY <2>1, <2>2
<1>3. rejoin' \in [Node -> BOOLEAN]
  BY <1>1 DEF EndAbsorb, TypeInv, TypeOK
<1>4. TypeStep
  BY <1>1, <1>2, <1>3 DEF TypeInv, TypeOK, TypeStep, EndAbsorb, store
<1>5. \A m \in Node : /\ buf'[m] = buf[m] /\ log'[m] = log[m] /\ todo'[m] = todo[m]
                      /\ dSt'[m] = dSt[m] /\ mode'[m] = mode[m]
  BY DEF EndAbsorb, store
<1> QED BY <1>2, <1>4, <1>5, TypeQuiet DEF TypeInv, SavedInv

LEMMA TypeTransition ==
  ASSUME TypeInv, NEW n \in Node, NEW p \in Node, InstallTransition(n, p)
  PROVE  TypeInv'
<1>1. PICK c \in Evidence(p) :
          /\ dSt' = [dSt EXCEPT ![n] = c]
          /\ \/ /\ st' = [st EXCEPT ![n] = c]
                /\ adm' = [adm EXCEPT ![n] = Reconcile(adm[n], Members(c))]
                /\ rejoin' = [rejoin EXCEPT ![n] = FALSE]
                /\ mode' = [mode EXCEPT ![n] = "in"]
             \/ UNCHANGED <<mode, st, adm, rejoin>>
  BY DEF InstallTransition
<1>2. c \in States /\ c # NoState /\ Members(c) \in SUBSET Node
  <2>1. c \in Path(st[p])
    BY DEF Evidence
  <2> QED BY <2>1, TypeFields, StateFields DEF TypeInv, Commits, States, NoState
<1>3. Reconcile(adm[n], Members(c)) \in Node
  BY <1>2, TypeFields, SuccessorType
<1>4. TypeStep
  <2>1. /\ mode' \in [Node -> Mode] /\ st' \in [Node -> States] /\ adm' \in [Node -> Node]
        /\ rejoin' \in [Node -> BOOLEAN]
    <3>1. "in" \in Mode /\ FALSE \in BOOLEAN
      BY DEF Mode
    <3>2. CASE /\ st' = [st EXCEPT ![n] = c]
               /\ adm' = [adm EXCEPT ![n] = Reconcile(adm[n], Members(c))]
               /\ rejoin' = [rejoin EXCEPT ![n] = FALSE]
               /\ mode' = [mode EXCEPT ![n] = "in"]
      BY <1>2, <1>3, <3>1, <3>2, TypesNow DEF TypeNow
    <3>3. CASE UNCHANGED <<mode, st, adm, rejoin>>
      BY <3>3, TypesNow DEF TypeNow
    <3> QED BY <1>1, <3>2, <3>3
  <2>2. dSt' \in [Node -> {NoState} \cup States]
    BY <1>1, <1>2, TypesNow DEF TypeNow
  <2> QED BY <2>1, <2>2, TypesNow DEF TypeNow, TypeStep, InstallTransition
<1>5. Circulating' = Circulating /\ Parting' = Parting
  BY Unchanging DEF InstallTransition
<1>6. \A m \in Node : /\ buf'[m] = buf[m] /\ log'[m] = log[m] /\ todo'[m] = todo[m]
                      /\ m # n => dSt'[m] = dSt[m] /\ mode'[m] = mode[m]
                      /\ dSt'[n] = c
  BY <1>1 DEF TypeInv, TypeOK, InstallTransition
<1> QED BY <1>2, <1>4, <1>5, <1>6, TypeQuiet DEF TypeInv, SavedInv

(* Answers: only the network changes. *)
LEMMA TypeAnswer ==
  ASSUME TypeInv, UNCHANGED <<tree, memory, store>>, NEW F \in SUBSET Frame,
         net' = net \cup F,
         \A f \in F : f.type # "leave" /\ \A c : Carries(f, c) => c \in Commits
  PROVE  TypeInv'
<1>1. TypeStep
  BY TypesNow DEF TypeNow, TypeStep, memory, store
<1>2. NetStep
  BY NetGrows DEF NetStep, TypeInv, NetInv
<1>3. \A n \in Node : BufferStep(n)
  BY <1>2, TypeFields DEF BufferStep, NetStep, TypeInv, SavedInv, memory, store
<1> QED BY <1>1, <1>2, <1>3, TypeSteps

LEMMA AdmissionFrameFields ==
  ASSUME TypeInv, NEW k \in Commits
  PROVE  /\ AdmissionFrames(k) \in SUBSET Frame
         /\ \A f \in AdmissionFrames(k) :
               f.type \in {"welcome", "commit"} /\ f.id = k /\ \A c : Carries(f, c) <=> c = k
<1>1. k \in Commit
  BY GenesisFields, StateFields, ConstantsOK DEF TypeInv, TreeInv, Commits, Commit
<1> QED BY <1>1 DEF AdmissionFrames, Frame, Carries

LEMMA ReplayFields ==
  ASSUME TypeInv, NEW n \in Node, NEW f \in net, ReplayAdmission(n, f)
  PROVE  \E c \in saved[n], F \in SUBSET Frame :
            /\ tree[c].who = f.who /\ c \in Commits
            /\ F \subseteq AdmissionFrames(c) /\ net' = net \cup F
            /\ \A g \in F : g.type \in {"welcome", "commit"} /\ g.id = c
                            /\ \A x : Carries(g, x) => x = c
<1>1. PICK c \in saved[n] : /\ tree[c].who = f.who
                            /\ \E F \in Published(AdmissionFrames(c)) : net' = net \cup F
  BY DEF ReplayAdmission
<1>2. PICK F \in Published(AdmissionFrames(c)) : net' = net \cup F
  BY <1>1
<1>3. F \subseteq AdmissionFrames(c)
  BY PublishedFields
<1>4. c \in Commits
  BY TypeFields
<1>5. F \in SUBSET Frame
  BY <1>3, <1>4, AdmissionFrameFields
<1>6. \A g \in F : g.type \in {"welcome", "commit"} /\ g.id = c
                   /\ \A x : Carries(g, x) => x = c
  BY <1>3, <1>4, AdmissionFrameFields
<1> QED BY <1>1, <1>2, <1>3, <1>4, <1>5, <1>6

LEMMA TypeReplay ==
  ASSUME TypeInv, NEW n \in Node, NEW f \in net, ReplayAdmission(n, f)
  PROVE  TypeInv'
<1>1. PICK c \in saved[n], F \in SUBSET Frame :
          /\ c \in Commits /\ net' = net \cup F
          /\ \A g \in F : g.type \in {"welcome", "commit"} /\ \A x : Carries(g, x) => x = c
  BY ReplayFields
<1>2. UNCHANGED <<tree, memory, store>>
  BY DEF ReplayAdmission
<1>3. \A g \in F : g.type # "leave" /\ \A x : Carries(g, x) => x \in Commits
  BY <1>1
<1> QED BY <1>1, <1>2, <1>3, TypeAnswer

LEMMA ServeFields ==
  ASSUME TypeInv, NEW n \in Node, NEW f \in net, ServeResync(n, f)
  PROVE  \E g \in Frame : /\ net' = net \cup {g} /\ g.type = "response"
                          /\ g.commits \subseteq log[n]
<1>1. PICK g : g = [type |-> "response", who |-> f.who,
                    commits |-> {c \in log[n] : WireEpoch(c) >= f.epoch}]
  OBVIOUS
<1>2. f.who \in Node
  BY FrameFields DEF ServeResync
<1>3. log[n] \subseteq Commit
  BY TypeFields, ConstantsOK DEF TypeInv, TreeInv, Commits, Commit
<1>4. g \in Frame /\ g.type = "response" /\ g.commits \subseteq log[n]
  BY <1>1, <1>2, <1>3 DEF Frame
<1> QED BY <1>1, <1>4 DEF ServeResync

LEMMA TypeServe ==
  ASSUME TypeInv, NEW n \in Node, NEW f \in net, ServeResync(n, f)
  PROVE  TypeInv'
<1>1. PICK g \in Frame : /\ net' = net \cup {g} /\ g.type = "response"
                         /\ g.commits \subseteq log[n]
  BY ServeFields
<1>2. g.type # "leave" /\ \A c : Carries(g, c) => c \in Commits
  BY <1>1, TypeFields DEF Carries
<1>3. {g} \in SUBSET Frame /\ UNCHANGED <<tree, memory, store>>
  BY DEF ServeResync
<1> QED BY <1>1, <1>2, <1>3, TypeAnswer

LEMMA BringsFields ==
  ASSUME TypeInv, NEW n \in Node, NEW f \in net, Brings(n, f)
  PROVE  f.id \in Circulating /\ f.id \in Commits
BY FrameFields, TypeFields DEF Brings

(* The parts of a step that takes commits which Sequence leaves open. *)
LEMMA TypeSequence ==
  ASSUME TypeInv, NEW n \in Node, NEW c \in Circulating, NEW t \in States,
         Sequenced(n, c, t), tree' = tree, net' \subseteq Frame,
         Circulating' = Circulating, Parting' = Parting,
         adm' \in [Node -> Node], rejoin' \in [Node -> BOOLEAN], UNCHANGED <<busy, dAdm, saved>>,
         todo' \in [Node -> SUBSET Commits], \A m \in Node : todo'[m] \subseteq todo[m],
         asked' \in [Node -> {Silent} \cup 0..MaxCommits], Joined(n)
  PROVE  TypeInv'
<1>0. c \in Commits
  BY DEF TypeInv, NetInv
<1>1. TypeStep
  BY <1>0, TypesNow, SequenceFields DEF TypeNow, TypeStep
<1>2. NetStep
  BY DEF NetStep, TypeInv, NetInv
<1>3. ASSUME NEW m \in Node \ {n} PROVE BufferStep(m)
  <2>1. buf'[m] = buf[m] /\ dSt'[m] = dSt[m] /\ log'[m] = log[m] /\ mode'[m] = mode[m]
    BY <1>0, SequenceFields
  <2>2. todo'[m] \subseteq todo[m]
    OBVIOUS
  <2> QED BY <2>1, <2>2, TypeFields DEF BufferStep, TypeInv, SavedInv
<1>4. BufferStep(n)
  <2>1. /\ buf'[n] \subseteq buf[n] \cup {c} /\ Cardinality(buf'[n]) <= BufferCap
        /\ Spread(buf'[n]) /\ Spread(log'[n])
    BY <1>0, SequenceFields
  <2>2. buf'[n] \subseteq Circulating' /\ todo'[n] \subseteq Circulating'
    BY <2>1, TypeFields
  <2>3. dSt'[n] # NoState
    <3>1. dSt[n] \in States
      BY TypeFields DEF Joined
    <3>2. dSt'[n] \in States
      <4>1. \/ dSt'[n] = dSt[n] \/ dSt'[n] = t \/ dSt'[n] \in Commits
        BY <1>0, SequenceFields
      <4> QED BY <3>1, <4>1, GenesisFields DEF TypeInv
    <3> QED BY <3>2 DEF States, NoState
  <2> QED BY <2>1, <2>2, <2>3 DEF BufferStep
<1> QED BY <1>1, <1>2, <1>3, <1>4, TypeSteps

LEMMA TypeRecvCommit ==
  ASSUME TypeInv, NEW n \in Node, NEW f \in net, RecvCommit(n, f)
  PROVE  TypeInv'
<1>0. Joined(n) /\ Brings(n, f)
  BY DEF RecvCommit, Idle
<1>1. f.id \in Circulating
  BY <1>0, BringsFields
<1>2. PICK t \in States, ok \in BOOLEAN :
          /\ Sequence(n, f.id, t, ok)
          /\ IF ok /\ Gap(buf'[n], t)
             THEN (\E sent \in BOOLEAN : Ask(n, asked[n], t, sent)) /\ UNCHANGED rejoin
             ELSE /\ rejoin' = [rejoin EXCEPT ![n] = rejoin[n] /\ ~ok]
                  /\ UNCHANGED <<asked, net>>
          /\ adm' = [adm EXCEPT ![n] = Reconcile(adm[n], Members(t))]
  BY DEF RecvCommit
<1>3. Sequenced(n, f.id, t)
  BY <1>2 DEF Sequenced
<1>4. adm' \in [Node -> Node]
  BY <1>2, TypesNow, TypeFields, StateFields, SuccessorType DEF TypeNow, TypeInv
<1>5. /\ asked' \in [Node -> {Silent} \cup 0..MaxCommits] /\ net' \subseteq Frame
      /\ Circulating' = Circulating /\ Parting' = Parting /\ rejoin' \in [Node -> BOOLEAN]
  <2>1. CASE (\E sent \in BOOLEAN : Ask(n, asked[n], t, sent)) /\ UNCHANGED rejoin
    <3>2. asked[n] \in {Silent} \cup 0..MaxCommits
      BY TypeFields
    <3> QED BY <2>1, <3>2, AskFields, TypesNow DEF TypeNow
  <2>2. CASE /\ rejoin' = [rejoin EXCEPT ![n] = rejoin[n] /\ ~ok]
             /\ UNCHANGED <<asked, net>>
    <3>1. rejoin' \in [Node -> BOOLEAN]
      BY <2>2, TypesNow DEF TypeNow
    <3> QED BY <2>2, <3>1, Unchanging, TypesNow DEF TypeNow
  <2> QED BY <1>2, <2>1, <2>2
<1>6. tree' = tree /\ todo' = todo /\ UNCHANGED <<busy, dAdm, saved>>
  BY DEF RecvCommit
<1>7. todo' \in [Node -> SUBSET Commits] /\ \A m \in Node : todo'[m] \subseteq todo[m]
  BY <1>6, TypesNow DEF TypeNow
<1> QED BY <1>0, <1>1, <1>3, <1>4, <1>5, <1>6, <1>7, TypeSequence

LEMMA TypeAbsorb ==
  ASSUME TypeInv, NEW n \in Node, Joined(n), AbsorbNext(n)
  PROVE  TypeInv'
<1>1. PICK c \in todo[n] : /\ \E t \in States, ok \in BOOLEAN : Sequence(n, c, t, ok)
                           /\ todo' = [todo EXCEPT ![n] = @ \ {c}]
  BY DEF AbsorbNext
<1>2. PICK t \in States : Sequenced(n, c, t)
  BY <1>1 DEF Sequenced
<1>3. c \in Circulating
  BY TypeFields
<1>4. todo' \in [Node -> SUBSET Commits] /\ \A m \in Node : todo'[m] \subseteq todo[m]
  BY <1>1, TypesNow DEF TypeNow
<1>5. /\ tree' = tree /\ net' = net /\ UNCHANGED <<adm, asked, rejoin, busy, dAdm, saved>>
  BY DEF AbsorbNext
<1>6. Circulating' = Circulating /\ Parting' = Parting
  BY <1>5, Unchanging
<1>7. /\ adm' \in [Node -> Node] /\ rejoin' \in [Node -> BOOLEAN] /\ net' \subseteq Frame
      /\ asked' \in [Node -> {Silent} \cup 0..MaxCommits]
  BY <1>5, TypesNow DEF TypeNow
<1> QED BY <1>2, <1>3, <1>4, <1>5, <1>6, <1>7, TypeSequence

LEMMA ForgetFields ==
  ASSUME TypeInv, NEW n \in Node, Forget(n)
  PROVE  /\ st' \in [Node -> States] /\ adm' \in [Node -> Node]
         /\ buf' \in [Node -> SUBSET Commits] /\ todo' \in [Node -> SUBSET Commits]
         /\ asked' \in [Node -> {Silent} \cup 0..MaxCommits]
         /\ rejoin' \in [Node -> BOOLEAN] /\ busy' \in [Node -> BOOLEAN]
         /\ \A m \in Node \ {n} : /\ st'[m] = st[m] /\ adm'[m] = adm[m]
                                  /\ buf'[m] = buf[m] /\ todo'[m] = todo[m]
                                  /\ rejoin'[m] = rejoin[m] /\ busy'[m] = busy[m]
         /\ st'[n] = 1 /\ adm'[n] = Creator /\ buf'[n] = {} /\ todo'[n] = {}
         /\ rejoin'[n] = FALSE /\ busy'[n] = FALSE
<1>1. TypeNow /\ 1 \in States /\ Creator \in Node
  BY TypesNow, GenesisFields, ConstantsOK DEF TypeInv
<1>2. /\ st' \in [Node -> States] /\ adm' \in [Node -> Node]
      /\ st'[n] = 1 /\ adm'[n] = Creator
      /\ \A m \in Node \ {n} : st'[m] = st[m] /\ adm'[m] = adm[m]
  BY <1>1 DEF Forget, TypeNow
<1>3. /\ buf' \in [Node -> SUBSET Commits] /\ todo' \in [Node -> SUBSET Commits]
      /\ buf'[n] = {} /\ todo'[n] = {}
      /\ \A m \in Node \ {n} : buf'[m] = buf[m] /\ todo'[m] = todo[m]
  BY <1>1 DEF Forget, TypeNow
<1>4. /\ asked' \in [Node -> {Silent} \cup 0..MaxCommits]
  BY <1>1 DEF Forget, TypeNow
<1>5. rejoin' = [rejoin EXCEPT ![n] = FALSE] /\ busy' = [busy EXCEPT ![n] = FALSE]
  BY DEF Forget
<1>6. /\ rejoin' \in [Node -> BOOLEAN] /\ busy' \in [Node -> BOOLEAN]
      /\ rejoin'[n] = FALSE /\ busy'[n] = FALSE
      /\ \A m \in Node \ {n} : rejoin'[m] = rejoin[m] /\ busy'[m] = busy[m]
  BY <1>1, <1>5 DEF TypeNow
<1> QED BY <1>2, <1>3, <1>4, <1>6

LEMMA TypeLeave ==
  ASSUME TypeInv, NEW n \in Node, Leave(n)
  PROVE  TypeInv'
<1>1. PICK l : l = [type |-> "leave", who |-> n, at |-> st[n]]
  OBVIOUS
<1>2. l \in Frame /\ l.type = "leave" /\ l.at \in States /\ \A c : ~Carries(l, c)
  BY <1>1, TypeFields, StateFields DEF Frame, Carries
<1>3. /\ net' = net \cup {l} /\ UNCHANGED <<tree, dAdm, saved>> /\ Idle(n)
      /\ \/ /\ mode' = [mode EXCEPT ![n] = "gone"] /\ Forget(n)
            /\ dSt' = [dSt EXCEPT ![n] = NoState] /\ log' = [log EXCEPT ![n] = {}]
         \/ /\ mode' = [mode EXCEPT ![n] = "down"] /\ Forget(n) /\ UNCHANGED <<dSt, log>>
         \/ /\ mode' = [mode EXCEPT ![n] = "quit"]
            /\ UNCHANGED <<st, adm, buf, asked, rejoin, busy, todo, dSt, log>>
  BY <1>1 DEF Leave
<1>4. NetStep
  <2>1. /\ Circulating \subseteq Circulating' /\ Circulating' \subseteq Circulating
        /\ \A f \in Parting' : f \in Parting \/ f = l
    <3>1. PICK F : F = {l}
      OBVIOUS
    <3>2. net' = net \cup F
      BY <1>3, <3>1
    <3>3. /\ Circulating \subseteq Circulating'
          /\ \A c \in Circulating' : c \in Circulating \/ \E f \in F : Carries(f, c)
          /\ \A f \in Parting' : f \in Parting \/ f \in F
      BY <3>2, NetGrows
    <3>4. \A f \in F : \A c : ~Carries(f, c)
      BY <1>2, <3>1
    <3> QED BY <3>1, <3>3, <3>4
  <2> QED BY <1>2, <2>1 DEF NetStep, TypeInv, NetInv
<1>5. "gone" \in Mode /\ "down" \in Mode /\ "quit" \in Mode /\ TypeNow
  <2>1. "gone" \in Mode /\ "down" \in Mode /\ "quit" \in Mode
    BY DEF Mode
  <2> QED BY <2>1, TypesNow
<1>6. TypeStep
  <2>1. net' \subseteq Frame /\ dAdm' \in [Node -> Node] /\ saved' \in [Node -> SUBSET Commits]
    BY <1>2, <1>3, <1>5 DEF TypeNow
  <2>2. mode' \in [Node -> Mode] /\ dSt' \in [Node -> {NoState} \cup States]
        /\ log' \in [Node -> SUBSET Commits]
    BY <1>3, <1>5 DEF TypeNow
  <2>3. CASE Forget(n)
    BY <1>3, <2>1, <2>2, <2>3, ForgetFields DEF TypeStep
  <2>4. CASE UNCHANGED <<st, adm, buf, asked, rejoin, busy, todo, dSt, log>>
    BY <1>3, <1>5, <2>1, <2>2, <2>4 DEF TypeNow, TypeStep
  <2> QED BY <1>3, <2>3, <2>4
<1>7. ASSUME NEW m \in Node PROVE BufferStep(m)
  <2>0. /\ buf'[m] \in {buf[m], {}} /\ todo'[m] \in {todo[m], {}}
    <3>1. CASE Forget(n)
      BY <3>1, ForgetFields
    <3>2. CASE UNCHANGED <<st, adm, buf, asked, rejoin, busy, todo, dSt, log>>
      BY <3>2
    <3> QED BY <1>3, <3>1, <3>2
  <2>1. log'[m] \in {log[m], {}}
    BY <1>3, <1>5 DEF TypeNow
  <2>2. mode'[m] \in {"in", "quit", "down"} => dSt'[m] # NoState
    <3>0. /\ mode[m] \in {"in", "quit", "down"} => dSt[m] # NoState
          /\ mode[n] \in {"in", "quit"} /\ dSt[n] # NoState
      BY <1>3 DEF TypeInv, SavedInv, Idle, Joined
    <3>1. CASE m = n
      BY <1>3, <1>5, <3>0, <3>1 DEF TypeNow
    <3>2. CASE m # n
      BY <1>3, <1>5, <3>0, <3>2 DEF TypeNow
    <3> QED BY <3>1, <3>2
  <2>3. /\ Cardinality(buf[m]) <= BufferCap /\ Spread(buf[m]) /\ Spread(log[m])
        /\ buf[m] \subseteq Circulating /\ todo[m] \subseteq Circulating
    BY TypeFields
  <2>4. Cardinality({}) <= BufferCap /\ Spread({})
    BY FS_EmptySet, ConstantsOK DEF Spread
  <2>5. Cardinality(buf'[m]) <= BufferCap /\ Spread(buf'[m]) /\ Spread(log'[m])
    <3>1. buf'[m] = buf[m] \/ buf'[m] = {}
      BY <2>0
    <3>2. log'[m] = log[m] \/ log'[m] = {}
      BY <2>1
    <3> QED BY <2>3, <2>4, <3>1, <3>2
  <2> QED BY <1>4, <2>0, <2>2, <2>3, <2>5 DEF BufferStep, NetStep
<1> QED BY <1>4, <1>6, <1>7, TypeSteps

LEMMA TypeSave ==
  ASSUME TypeInv, NEW n \in Node, SaveRecord(n)
  PROVE  TypeInv'
<1>1. TypeStep
  BY TypesNow, TypeFields DEF TypeNow, TypeStep, SaveRecord, memory
<1>2. Circulating' = Circulating /\ Parting' = Parting
  BY Unchanging DEF SaveRecord
<1>3. \A m \in Node : /\ buf'[m] = buf[m] /\ log'[m] = log[m] /\ todo'[m] = todo[m]
                      /\ dSt'[m] \in {dSt[m], st[m]} /\ mode'[m] = mode[m]
  BY TypesNow DEF TypeNow, SaveRecord, memory
<1>4. \A m \in Node : st[m] # NoState
  BY TypeFields DEF States, NoState
<1> QED BY <1>1, <1>2, <1>3, <1>4, TypeQuiet DEF TypeInv, SavedInv

LEMMA TypeCrash ==
  ASSUME TypeInv, NEW n \in Node, Crash(n)
  PROVE  TypeInv'
<1>0. /\ mode' = [mode EXCEPT ![n] = IF dSt[n] = NoState THEN "gone" ELSE "down"]
      /\ Forget(n) /\ tree' = tree /\ net' = net /\ UNCHANGED store
  BY DEF Crash
<1>1. "gone" \in Mode /\ "down" \in Mode /\ TypeNow
  BY TypesNow DEF Mode
<1>2. mode' \in [Node -> Mode]
  BY <1>0, <1>1 DEF TypeNow
<1>3. TypeStep
  BY <1>0, <1>1, <1>2, ForgetFields DEF TypeNow, TypeStep, store
<1>4. Circulating' = Circulating /\ Parting' = Parting
  BY <1>0, Unchanging
<1>5. \A m \in Node : /\ buf'[m] \in {buf[m], {}} /\ todo'[m] \in {todo[m], {}}
                      /\ log'[m] = log[m] /\ dSt'[m] = dSt[m]
  BY <1>0, ForgetFields DEF store
<1>6. \A m \in Node : mode'[m] \in {"in", "quit", "down"} => dSt[m] # NoState
  BY <1>0, <1>1 DEF TypeNow, TypeInv, SavedInv
<1> QED BY <1>3, <1>4, <1>5, <1>6, TypeQuiet

LEMMA RestartFields ==
  ASSUME TypeInv, NEW n \in Node, Restart(n)
  PROVE  /\ net' \subseteq Frame /\ Circulating' = Circulating /\ Parting' = Parting
         /\ net \subseteq net' /\ \A g \in net' \ net : g.type = "request"
<1>1. PICK r : r = [type |-> "request", who |-> n, epoch |-> Epoch(dSt[n])]
  OBVIOUS
<1>2. dSt[n] \in States
  BY TypeFields DEF Restart
<1>3. r \in Frame /\ r.type = "request"
  BY <1>1, <1>2, StateFields DEF Frame, TypeInv
<1>4. PICK F \in Published(IF adm'[n] = n THEN {} ELSE {r}) : net' = net \cup F
  BY <1>1 DEF Restart
<1>5. F \subseteq {r}
  BY <1>4, PublishedFields
<1>6. Circulating' = Circulating /\ Parting' = Parting
  BY <1>3, <1>4, <1>5, QuietFrames
<1> QED BY <1>3, <1>4, <1>5, <1>6, TypesNow DEF TypeNow

LEMMA TypeRestart ==
  ASSUME TypeInv, NEW n \in Node, Restart(n)
  PROVE  TypeInv'
<1>0. /\ mode[n] = "down" /\ mode' = [mode EXCEPT ![n] = "in"]
      /\ st' = [st EXCEPT ![n] = dSt[n]]
      /\ adm' = [adm EXCEPT ![n] = Reconcile(dAdm[n], Members(dSt[n]))]
      /\ UNCHANGED <<tree, buf, asked, rejoin, busy, todo, store>>
  BY DEF Restart
<1>1. dSt[n] \in States /\ Reconcile(dAdm[n], Members(dSt[n])) \in Node /\ "in" \in Mode
  BY <1>0, TypeFields, SuccessorType DEF Mode
<1>2. TypeStep
  BY <1>0, <1>1, TypesNow, RestartFields DEF TypeNow, TypeStep, store
<1>4. \A m \in Node : /\ buf'[m] = buf[m] /\ log'[m] = log[m] /\ todo'[m] = todo[m]
                      /\ dSt'[m] = dSt[m]
  BY <1>0 DEF store
<1>5. \A m \in Node : mode'[m] \in {"in", "quit", "down"} => dSt[m] # NoState
  BY <1>0, <1>1, TypesNow DEF TypeNow, TypeInv, SavedInv, States, NoState
<1> QED BY <1>2, <1>4, <1>5, RestartFields, TypeQuiet

(* What making a commit does, whether or not its author gets to install it. *)
Made(n, c, replays, frames) ==
    /\ dSt' = [dSt EXCEPT ![n] = Len(tree) + 1] /\ saved' = [saved EXCEPT ![n] = replays]
    /\ UNCHANGED <<mode, buf, asked, rejoin, busy, todo, dAdm>>
    /\ \/ /\ st' = [st EXCEPT ![n] = Len(tree) + 1]
          /\ \E L \in SUBSET (log[n] \cup {Len(tree) + 1}) :
                /\ log' = [log EXCEPT ![n] = L]
                /\ Len(tree) + 1 \in L =>
                     \A d \in log[n] \cap L : WireEpoch(d) # c.epoch - 1
          /\ \E F \in SUBSET frames : net' = net \cup F
          /\ adm' = [adm EXCEPT ![n] = Reconcile(adm[n], c.members)]
       \/ UNCHANGED <<st, log, net, adm>>

LEMMA InstallFields ==
  ASSUME TypeInv, NEW n \in Node, NEW who \in Node, NEW M \in SUBSET Node,
         NEW replays, NEW frames, Install(n, Child(n, who, M), replays, frames)
  PROVE  /\ Grown(n, st[n], who, M) /\ Made(n, Child(n, who, M), replays, frames)
         /\ Child(n, who, M).epoch = Epoch(st[n]) + 1 /\ Child(n, who, M).members = M
<1>1. PICK c : c = Child(n, who, M)
  OBVIOUS
<1>2. Grown(n, st[n], who, M)
  BY DEF Install, Child, Grown
<1>3. Len(tree') = Len(tree) + 1
  BY <1>2, GrownFields, TypeFields DEF TypeInv
<1>4. c.epoch = Epoch(st[n]) + 1 /\ c.members = M
  BY <1>1 DEF Child
<1>5. Install(n, c, replays, frames)
  BY <1>1
<1>7. Made(n, c, replays, frames)
  <2>1. /\ dSt' = [dSt EXCEPT ![n] = Len(tree) + 1] /\ saved' = [saved EXCEPT ![n] = replays]
        /\ UNCHANGED <<mode, buf, asked, rejoin, busy, todo, dAdm>>
    BY <1>3, <1>5 DEF Install
  <2>2. CASE UNCHANGED <<st, log, net, adm>>
    BY <2>1, <2>2 DEF Made
  <2>3. CASE
          /\ st' = [st EXCEPT ![n] = Len(tree')]
          /\ log' \in {[log EXCEPT ![n] = L] : L \in
                 LET old == {d \in log[n] : WireEpoch(d) # c.epoch - 1}
                 IN  {old \cup {Len(tree')}}
                         \cup IF "log" \in Faults THEN {log[n]} ELSE {}}
          /\ \E F \in Published(frames) : net' = net \cup F
          /\ adm' = [adm EXCEPT ![n] = Reconcile(adm[n], c.members)]
    <3>1. PICK old : old = {d \in log[n] : WireEpoch(d) # c.epoch - 1}
      OBVIOUS
    <3>2. \E L \in {old \cup {Len(tree) + 1}, log[n]} : log' = [log EXCEPT ![n] = L]
      BY <1>3, <2>3, <3>1
    <3>3. PICK L \in {old \cup {Len(tree) + 1}, log[n]} : log' = [log EXCEPT ![n] = L]
      BY <3>2
    <3>4. Len(tree) + 1 \notin log[n]
      BY TypeFields DEF Commits, TypeInv, TreeInv
    <3>5. L \in SUBSET (log[n] \cup {Len(tree) + 1})
      BY <3>1
    <3>6. Len(tree) + 1 \in L => \A d \in log[n] \cap L : WireEpoch(d) # c.epoch - 1
      BY <3>1, <3>4
    <3>7. \E F \in SUBSET frames : net' = net \cup F
      BY <2>3, PublishedFields
    <3>8. \E K \in SUBSET (log[n] \cup {Len(tree) + 1}) :
                /\ log' = [log EXCEPT ![n] = K]
                /\ Len(tree) + 1 \in K =>
                     \A d \in log[n] \cap K : WireEpoch(d) # c.epoch - 1
      BY <3>3, <3>5, <3>6
    <3> QED BY <1>3, <2>1, <2>3, <3>7, <3>8 DEF Made
  <2> QED BY <1>5, <2>2, <2>3 DEF Install
<1> QED BY <1>1, <1>2, <1>4, <1>7

LEMMA GrownSets ==
  ASSUME TypeInv, NEW n \in Node, NEW who \in Node, NEW M \in SUBSET Node,
         Grown(n, st[n], who, M), NEW k, k = Len(tree) + 1
  PROVE  /\ Kept /\ TreeInv' /\ States' = States \cup {k} /\ Commits' = Commits \cup {k}
         /\ k \notin States /\ k \notin Commits /\ k \in Commit /\ k # NoState
         /\ k \in Nat /\ \A c \in States : c < k
         /\ Parent(k)' = st[n] /\ Epoch(k)' = Epoch(st[n]) + 1 /\ WireEpoch(k)' = Epoch(st[n])
         /\ Path(k)' = Path(st[n]) \cup {k} /\ Members(k)' = M
         /\ tree'[k].by = n /\ tree'[k].who = who
         /\ tree' \in Seq(GroupState) /\ Len(tree') \in 1..(MaxCommits + 1)
<1>0. /\ MaxCommits \in Nat /\ Len(tree) \in Nat /\ Len(tree) >= 1 /\ Len(tree) <= MaxCommits
      /\ TreeInv /\ st[n] \in States
  BY ConstantsOK, TypeFields DEF TypeInv, TreeInv, Grown
<1>1. /\ Kept /\ Len(tree') = Len(tree) + 1 /\ Len(tree') <= MaxCommits + 1
      /\ tree' \in Seq(GroupState)
      /\ tree'[k] = [parent |-> st[n], epoch |-> Epoch(st[n]) + 1, by |-> n, who |-> who,
                     members |-> M, path |-> Path(st[n]) \cup {k}]
  BY <1>0, GrownFields
<1>2. TreeInv'
  BY <1>0, TreeGrows
<1>3. /\ States' = States \cup {k} /\ Commits' = Commits \cup {k}
      /\ k \notin States /\ k \notin Commits /\ k \in Commit /\ k # NoState
      /\ k \in Nat /\ \A c \in States : c < k
  BY <1>0, <1>1 DEF States, Commits, Commit, NoState
<1>4. /\ tree'[k].parent = st[n] /\ tree'[k].epoch = Epoch(st[n]) + 1 /\ tree'[k].by = n
      /\ tree'[k].who = who /\ tree'[k].members = M /\ tree'[k].path = Path(st[n]) \cup {k}
  BY <1>1
<1>5. Epoch(st[n]) \in Nat
  BY <1>0, StateFields
<1>6. WireEpoch(k)' = Epoch(st[n])
  BY <1>4, <1>5 DEF WireEpoch
<1> QED BY <1>0, <1>1, <1>2, <1>3, <1>4, <1>6 DEF Parent, Epoch, Members, Path

LEMMA MadeFields ==
  ASSUME TypeInv, NEW n \in Node, NEW c, NEW replays, NEW frames,
         Made(n, c, replays, frames), NEW k, k = Len(tree) + 1, c.members \in SUBSET Node
  PROVE  /\ dSt'[n] = k /\ saved'[n] = replays
         /\ \A m \in Node \ {n} : /\ st'[m] = st[m] /\ dSt'[m] = dSt[m] /\ log'[m] = log[m]
                                  /\ saved'[m] = saved[m] /\ adm'[m] = adm[m]
         /\ UNCHANGED <<mode, buf, asked, rejoin, busy, todo, dAdm>>
         /\ \/ /\ st'[n] = k /\ log'[n] \subseteq log[n] \cup {k}
               /\ k \in log'[n] => \A d \in log[n] \cap log'[n] : WireEpoch(d) # c.epoch - 1
               /\ adm'[n] = Reconcile(adm[n], c.members)
            \/ st' = st /\ log' = log /\ net' = net /\ adm' = adm
         /\ \E F \in SUBSET frames : net' = net \cup F
         /\ st' \in [Node -> States \cup {k}] /\ adm' \in [Node -> Node]
         /\ dSt' \in [Node -> {NoState} \cup States \cup {k}]
         /\ log' \in [Node -> SUBSET (Commits \cup {k})]
         /\ replays \subseteq Commits \cup {k} => saved' \in [Node -> SUBSET (Commits \cup {k})]
<1>1. TypeNow
  BY TypesNow
<1>2. /\ dSt' = [dSt EXCEPT ![n] = k] /\ saved' = [saved EXCEPT ![n] = replays]
      /\ UNCHANGED <<mode, buf, asked, rejoin, busy, todo, dAdm>>
  BY DEF Made
<1>3. /\ dSt'[n] = k /\ saved'[n] = replays
      /\ \A m \in Node \ {n} : dSt'[m] = dSt[m] /\ saved'[m] = saved[m]
      /\ dSt' \in [Node -> {NoState} \cup States \cup {k}]
      /\ replays \subseteq Commits \cup {k} => saved' \in [Node -> SUBSET (Commits \cup {k})]
  BY <1>1, <1>2 DEF TypeNow
<1>4. CASE UNCHANGED <<st, log, net, adm>>
  <2>1. net' = net \cup {} /\ {} \in SUBSET frames
    BY <1>4
  <2>2. /\ st' \in [Node -> States \cup {k}] /\ adm' \in [Node -> Node]
        /\ log' \in [Node -> SUBSET (Commits \cup {k})]
    BY <1>1, <1>4 DEF TypeNow
  <2>3. \E F \in SUBSET frames : net' = net \cup F
    BY <2>1
  <2> QED BY <1>2, <1>3, <1>4, <2>2, <2>3
<1>5. CASE /\ st' = [st EXCEPT ![n] = k]
           /\ \E L \in SUBSET (log[n] \cup {k}) :
                /\ log' = [log EXCEPT ![n] = L]
                /\ k \in L => \A d \in log[n] \cap L : WireEpoch(d) # c.epoch - 1
           /\ \E F \in SUBSET frames : net' = net \cup F
           /\ adm' = [adm EXCEPT ![n] = Reconcile(adm[n], c.members)]
  <2>1. PICK L \in SUBSET (log[n] \cup {k}) :
                /\ log' = [log EXCEPT ![n] = L]
                /\ k \in L => \A d \in log[n] \cap L : WireEpoch(d) # c.epoch - 1
    BY <1>5
  <2>2. log'[n] = L /\ log' \in [Node -> SUBSET (Commits \cup {k})]
        /\ \A m \in Node \ {n} : log'[m] = log[m]
    BY <1>1, <2>1 DEF TypeNow
  <2>3. Reconcile(adm[n], c.members) \in Node
    BY SuccessorType, TypeFields
  <2>4. /\ st' \in [Node -> States \cup {k}] /\ adm' \in [Node -> Node]
        /\ st'[n] = k /\ adm'[n] = Reconcile(adm[n], c.members)
        /\ \A m \in Node \ {n} : st'[m] = st[m] /\ adm'[m] = adm[m]
    BY <1>1, <1>5, <2>3 DEF TypeNow
  <2>5. \E F \in SUBSET frames : net' = net \cup F
    BY <1>5
  <2> QED BY <1>2, <1>3, <2>1, <2>2, <2>4, <2>5
<1> QED BY <1>4, <1>5 DEF Made

LEMMA TypeMade ==
  ASSUME TypeInv, NEW n \in Node, NEW who \in Node, NEW M \in SUBSET Node,
         NEW replays, NEW frames, Joined(n),
         Grown(n, st[n], who, M), Made(n, Child(n, who, M), replays, frames),
         replays \subseteq Commits \cup {Len(tree) + 1},
         frames \subseteq AdmissionFrames(Len(tree) + 1)
  PROVE  TypeInv'
<1>1. PICK k : k = Len(tree) + 1
  OBVIOUS
<1>2. PICK c : c = Child(n, who, M)
  OBVIOUS
<1>3. c.members = M /\ c.epoch = Epoch(st[n]) + 1 /\ Epoch(st[n]) \in Nat
  BY <1>2, TypeFields, StateFields DEF Child
<1>4. /\ Kept /\ TreeInv' /\ States' = States \cup {k} /\ Commits' = Commits \cup {k}
      /\ k \notin States /\ k \notin Commits /\ k \in Commit /\ k # NoState
      /\ WireEpoch(k)' = Epoch(st[n])
      /\ tree' \in Seq(GroupState) /\ Len(tree') \in 1..(MaxCommits + 1)
  BY <1>1, GrownSets
<1>5. Made(n, c, replays, frames) /\ TypeNow /\ TreeInv
  BY <1>2, TypesNow DEF TypeInv
<1>6. /\ st' \in [Node -> States'] /\ adm' \in [Node -> Node]
      /\ dSt' \in [Node -> {NoState} \cup States'] /\ log' \in [Node -> SUBSET Commits']
      /\ saved' \in [Node -> SUBSET Commits']
      /\ UNCHANGED <<mode, buf, asked, rejoin, busy, todo, dAdm>>
  BY <1>1, <1>3, <1>4, <1>5, MadeFields
<1>7. PICK F \in SUBSET frames : net' = net \cup F
  <2>1. CASE UNCHANGED <<st, log, net, adm>>
    <3>1. net' = net \cup {} /\ {} \in SUBSET frames
      BY <2>1
    <3> QED BY <3>1
  <2>2. CASE \E F \in SUBSET frames : net' = net \cup F
    BY <2>2
  <2> QED BY <1>5, <2>1, <2>2 DEF Made
<1>8. \A g \in F : g \in Frame /\ g.type # "leave" /\ \A x : Carries(g, x) => x = k
  BY <1>1, <1>4, <1>7 DEF AdmissionFrames, Frame, Carries
<1>9. /\ Circulating \subseteq Circulating'
      /\ \A x \in Circulating' : x \in Circulating \/ \E f \in F : Carries(f, x)
      /\ \A f \in Parting' : f \in Parting \/ (f \in F /\ f.type = "leave")
  BY <1>7, NetGrows
<1>10. NetInv'
  <2>1. Circulating' \subseteq Commits'
    BY <1>4, <1>8, <1>9 DEF TypeInv, NetInv
  <2>2. \A f \in Parting' : f.at \in States'
    BY <1>4, <1>8, <1>9 DEF TypeInv, NetInv
  <2>3. \A m \in Node : buf'[m] \subseteq Circulating' /\ todo'[m] \subseteq Circulating'
    BY <1>6, <1>9 DEF TypeInv, NetInv
  <2> QED BY <2>1, <2>2, <2>3 DEF NetInv
<1>11. SavedInv'
  <2> SUFFICES ASSUME NEW m \in Node, mode'[m] \in {"in", "quit", "down"}
               PROVE  dSt'[m] # NoState
    BY DEF SavedInv
  <2>1. dSt'[n] = k /\ \A x \in Node \ {n} : dSt'[x] = dSt[x]
    BY <1>1, <1>3, <1>5, MadeFields
  <2> QED BY <1>4, <1>6, <2>1 DEF TypeInv, SavedInv
<1>12. \A m \in Node : Cardinality(buf'[m]) <= BufferCap
  BY <1>6, TypeFields
<1>13. \A x \in Commits : WireEpoch(x)' = WireEpoch(x)
  BY <1>4, <1>5, KeptFields, GenesisFields
<1>14. ASSUME NEW m \in Node, NEW x \in buf'[m], NEW y \in buf'[m],
              WireEpoch(x)' = WireEpoch(y)'
       PROVE  x = y
  <2>1. x \in Commits /\ y \in Commits /\ Spread(buf[m]) /\ buf'[m] = buf[m]
    BY <1>6, TypeFields
  <2> QED BY <1>13, <1>14, <2>1 DEF Spread
<1>15. ASSUME NEW m \in Node, NEW x \in log'[m], NEW y \in log'[m],
              WireEpoch(x)' = WireEpoch(y)'
       PROVE  x = y
  <2>1. log[m] \subseteq Commits /\ Spread(log[m])
    BY TypeFields
  <2>2. CASE log'[m] \subseteq log[m]
    BY <1>13, <1>15, <2>1, <2>2 DEF Spread
  <2>3. CASE /\ log'[m] \subseteq log[m] \cup {k} /\ k \in log'[m]
             /\ \A d \in log[m] \cap log'[m] : WireEpoch(d) # c.epoch - 1
    <3>1. \A d \in log[m] \cap log'[m] : WireEpoch(d)' # WireEpoch(k)'
      BY <1>3, <1>4, <1>13, <2>1, <2>3
    <3>2. x \in log[m] /\ y \in log[m] => x = y
      BY <1>13, <1>15, <2>1 DEF Spread
    <3> QED BY <1>15, <2>3, <3>1, <3>2
  <2>4. \/ log'[m] \subseteq log[m]
        \/ /\ log'[m] \subseteq log[m] \cup {k}
           /\ k \in log'[m] => \A d \in log[m] \cap log'[m] : WireEpoch(d) # c.epoch - 1
    <3>1. /\ \A z \in Node \ {n} : log'[z] = log[z]
          /\ \/ /\ log'[n] \subseteq log[n] \cup {k}
                /\ k \in log'[n] => \A d \in log[n] \cap log'[n] : WireEpoch(d) # c.epoch - 1
             \/ log' = log
      BY <1>1, <1>3, <1>5, MadeFields
    <3> QED BY <3>1
  <2> QED BY <2>2, <2>3, <2>4
<1>16. \A m \in Node :
          /\ Cardinality(buf'[m]) <= BufferCap
          /\ \A S \in {buf'[m], log'[m]} : \A x, y \in S :
                WireEpoch(x)' = WireEpoch(y)' => x = y
  BY <1>12, <1>14, <1>15
<1>17. /\ net' \subseteq Frame /\ mode' \in [Node -> Mode] /\ buf' \in [Node -> SUBSET Commits']
       /\ todo' \in [Node -> SUBSET Commits'] /\ dAdm' \in [Node -> Node]
       /\ asked' \in [Node -> {Silent} \cup 0..MaxCommits]
       /\ rejoin' \in [Node -> BOOLEAN] /\ busy' \in [Node -> BOOLEAN]
  BY <1>4, <1>5, <1>6, <1>7, <1>8 DEF TypeNow
<1>18. TypeOK'
  BY <1>4, <1>6, <1>16, <1>17 DEF TypeOK
<1> QED BY <1>4, <1>10, <1>11, <1>18 DEF TypeInv

LEMMA AdmitFields ==
  ASSUME TypeInv, NEW n \in Node, NEW f \in net, Admit(n, f)
  PROVE  /\ f.who \in Node /\ Members(st[n]) \cup {f.who} \in SUBSET Node
         /\ Grown(n, st[n], f.who, Members(st[n]) \cup {f.who})
         /\ Made(n, Child(n, f.who, Members(st[n]) \cup {f.who}),
                 {d \in saved[n] : tree[d].who # f.who} \cup {Len(tree) + 1},
                 AdmissionFrames(Len(tree) + 1))
<1>1. f.who \in Node /\ Members(st[n]) \cup {f.who} \in SUBSET Node
  BY FrameFields, TypeFields DEF Admit
<1>2. PICK M : M = Members(st[n]) \cup {f.who}
  OBVIOUS
<1>3. PICK R, F : /\ R = {d \in saved[n] : tree[d].who # f.who} \cup {Len(tree) + 1}
                  /\ F = AdmissionFrames(Len(tree) + 1)
  OBVIOUS
<1>4. Install(n, Child(n, f.who, M), R, F)
  BY <1>2, <1>3 DEF Admit
<1>5. Grown(n, st[n], f.who, M) /\ Made(n, Child(n, f.who, M), R, F)
  BY <1>1, <1>2, <1>4, InstallFields
<1> QED BY <1>1, <1>2, <1>3, <1>5

LEMMA DepartureFields ==
  ASSUME TypeInv, NEW n \in Node, NEW f \in net, CommitDeparture(n, f)
  PROVE  /\ f.who \in Node /\ Members(st[n]) \ {f.who} \in SUBSET Node
         /\ Grown(n, st[n], f.who, Members(st[n]) \ {f.who})
         /\ Made(n, Child(n, f.who, Members(st[n]) \ {f.who}), saved[n],
                 {[type |-> "commit", id |-> Len(tree) + 1]})
<1>1. f.who \in Node /\ Members(st[n]) \ {f.who} \in SUBSET Node
  BY FrameFields, TypeFields DEF CommitDeparture
<1>2. PICK M : M = Members(st[n]) \ {f.who}
  OBVIOUS
<1>3. PICK R, F : R = saved[n] /\ F = {[type |-> "commit", id |-> Len(tree) + 1]}
  OBVIOUS
<1>4. Install(n, Child(n, f.who, M), R, F)
  BY <1>2, <1>3 DEF CommitDeparture
<1>5. Grown(n, st[n], f.who, M) /\ Made(n, Child(n, f.who, M), R, F)
  BY <1>1, <1>2, <1>4, InstallFields
<1> QED BY <1>1, <1>2, <1>3, <1>5

LEMMA TypeAdmit ==
  ASSUME TypeInv, NEW n \in Node, NEW f \in net, Admit(n, f)
  PROVE  TypeInv'
<1>1. PICK M, R, F : /\ M = Members(st[n]) \cup {f.who} /\ F = AdmissionFrames(Len(tree) + 1)
                     /\ R = {d \in saved[n] : tree[d].who # f.who} \cup {Len(tree) + 1}
  OBVIOUS
<1>2. /\ f.who \in Node /\ M \in SUBSET Node
      /\ Grown(n, st[n], f.who, M) /\ Made(n, Child(n, f.who, M), R, F)
  BY <1>1, AdmitFields
<1>3. R \subseteq Commits \cup {Len(tree) + 1} /\ F \subseteq AdmissionFrames(Len(tree) + 1)
  BY <1>1, TypeFields
<1>4. Joined(n)
  BY DEF Admit, Idle
<1> QED BY <1>2, <1>3, <1>4, TypeMade

LEMMA TypeDeparture ==
  ASSUME TypeInv, NEW n \in Node, NEW f \in net, CommitDeparture(n, f)
  PROVE  TypeInv'
<1>1. PICK M, R, F : /\ M = Members(st[n]) \ {f.who} /\ R = saved[n]
                     /\ F = {[type |-> "commit", id |-> Len(tree) + 1]}
  OBVIOUS
<1>2. /\ f.who \in Node /\ M \in SUBSET Node
      /\ Grown(n, st[n], f.who, M) /\ Made(n, Child(n, f.who, M), R, F)
  BY <1>1, DepartureFields
<1>3. R \subseteq Commits \cup {Len(tree) + 1} /\ F \subseteq AdmissionFrames(Len(tree) + 1)
  BY <1>1, TypeFields DEF AdmissionFrames
<1>4. Joined(n)
  BY DEF CommitDeparture, Idle
<1> QED BY <1>2, <1>3, <1>4, TypeMade

LEMMA TypeInit ==
  ASSUME Init
  PROVE  TypeInv
<1>0. /\ MaxCommits \in Nat /\ Creator \in Node /\ Founders \in SUBSET Node /\ BufferCap \in Nat
  BY ConstantsOK
<1>1. Genesis \in GroupState
  BY <1>0 DEF Genesis, GroupState, State
<1>2. tree \in Seq(GroupState) /\ Len(tree) = 1 /\ tree[1] = Genesis
  BY <1>1 DEF Init
<1>3. States = {1} /\ Commits = {}
  BY <1>2 DEF States, Commits
<1>4. GrowthInv
  BY <1>2, <1>3 DEF GrowthInv
<1>5. PathInv(1)
  <2>1. Epoch(1) = 0 /\ Path(1) = {} /\ Line(1) = {1}
    BY <1>2 DEF Genesis, Epoch, Path, Line
  <2> QED BY <2>1 DEF PathInv
<1>6. TreeInv
  BY <1>0, <1>2, <1>3, <1>4, <1>5 DEF TreeInv
<1>7. net = {} /\ Circulating = {} /\ Parting = {}
  BY DEF Init, Circulating, Parting
<1>8. NetInv
  BY <1>7 DEF NetInv, Init
<1>9. SavedInv
  BY DEF SavedInv, Init, NoState
<1>10. mode \in [Node -> Mode]
  <2>1. "in" \in Mode /\ "out" \in Mode
    BY DEF Mode
  <2> QED BY <2>1 DEF Init
<1>11. /\ st \in [Node -> States] /\ adm \in [Node -> Node] /\ buf \in [Node -> SUBSET Commits]
       /\ todo \in [Node -> SUBSET Commits] /\ asked \in [Node -> {Silent} \cup 0..MaxCommits]
       /\ dSt \in [Node -> {NoState} \cup States] /\ dAdm \in [Node -> Node]
       /\ log \in [Node -> SUBSET Commits] /\ saved \in [Node -> SUBSET Commits]
       /\ net \subseteq Frame
  BY <1>0, <1>3 DEF Init
<1>12. rejoin \in [Node -> BOOLEAN] /\ busy \in [Node -> BOOLEAN]
  BY DEF Init
<1>13. \A n \in Node : buf[n] = {} /\ log[n] = {}
  BY DEF Init
<1>14. Cardinality({}) = 0
  BY FS_EmptySet
<1>15. \A n \in Node : /\ Cardinality(buf[n]) <= BufferCap
                       /\ \A S \in {buf[n], log[n]} : \A c, d \in S :
                             WireEpoch(c) = WireEpoch(d) => c = d
  BY <1>0, <1>13, <1>14
<1>16. TypeOK
  BY <1>0, <1>2, <1>10, <1>11, <1>12, <1>15 DEF TypeOK
<1> QED BY <1>6, <1>8, <1>9, <1>16 DEF TypeInv

-----------------------------------------------------------------------------
(* A step of one member leaves the sessions and the stores of the others    *)
(* alone.                                                                   *)

Others(n) ==
    \A m \in Node \ {n} :
        /\ mode'[m] = mode[m] /\ st'[m] = st[m] /\ adm'[m] = adm[m]
        /\ buf'[m] = buf[m] /\ rejoin'[m] = rejoin[m]
        /\ busy'[m] = busy[m] /\ todo'[m] = todo[m]
        /\ dSt'[m] = dSt[m] /\ dAdm'[m] = dAdm[m]
        /\ log'[m] = log[m] /\ saved'[m] = saved[m]

LEMMA OthersKept ==
  ASSUME TypeInv, NEW n \in Node, Step(n)
  PROVE  Others(n)
<1>0. TypeNow
  BY TypesNow
<1>1. CASE Join(n)
  BY <1>0, <1>1 DEF TypeNow, Join, store, Others
<1>2. CASE RetryJoin(n) \/ \E f \in net : ReplayAdmission(n, f) \/ ServeResync(n, f)
  BY <1>2 DEF RetryJoin, ReplayAdmission, ServeResync, memory, store, Others
<1>3. CASE AbsorbNext(n)
  <2>1. PICK c \in todo[n] : /\ \E t \in States, ok \in BOOLEAN : Sequence(n, c, t, ok)
                             /\ todo' = [todo EXCEPT ![n] = @ \ {c}]
    BY <1>3 DEF AbsorbNext
  <2>2. PICK t \in States : Sequenced(n, c, t)
    BY <2>1 DEF Sequenced
  <2>3. c \in Commits
    BY TypeFields
  <2>4. \A m \in Node \ {n} : todo'[m] = todo[m]
    BY <1>0, <2>1 DEF TypeNow
  <2>5. UNCHANGED <<adm, rejoin, busy, dAdm, saved>>
    BY <1>3 DEF AbsorbNext
  <2>6. \A m \in Node \ {n} : /\ st'[m] = st[m] /\ buf'[m] = buf[m] /\ dSt'[m] = dSt[m]
                              /\ log'[m] = log[m] /\ mode'[m] = mode[m]
    BY <2>2, <2>3, SequenceFields
  <2> QED BY <2>4, <2>5, <2>6 DEF Others
<1>4. CASE EndAbsorb(n)
  <2>1. \A m \in Node \ {n} : busy'[m] = busy[m] /\ adm'[m] = adm[m]
    BY <1>0, <1>4 DEF TypeNow, EndAbsorb
  <2>2. \A m \in Node \ {n} : rejoin'[m] = rejoin[m]
    BY <1>0, <1>4 DEF TypeNow, EndAbsorb
  <2>3. UNCHANGED <<mode, st, buf, todo, store>>
    BY <1>4 DEF EndAbsorb
  <2> QED BY <2>1, <2>2, <2>3 DEF Others, store
<1>5. CASE Leave(n)
  <2>1. UNCHANGED <<dAdm, saved>>
    BY <1>5 DEF Leave
  <2>2. /\ \/ Forget(n) \/ UNCHANGED <<st, adm, buf, asked, rejoin, busy, todo>>
        /\ \A m \in Node \ {n} : mode'[m] = mode[m] /\ dSt'[m] = dSt[m] /\ log'[m] = log[m]
    BY <1>0, <1>5 DEF TypeNow, Leave
  <2>3. CASE Forget(n)
    <3>1. \A m \in Node \ {n} : /\ st'[m] = st[m] /\ adm'[m] = adm[m]
                                /\ buf'[m] = buf[m] /\ todo'[m] = todo[m]
                                /\ rejoin'[m] = rejoin[m] /\ busy'[m] = busy[m]
      BY <2>3, ForgetFields
    <3> QED BY <2>1, <2>2, <3>1 DEF Others
  <2>4. CASE UNCHANGED <<st, adm, buf, asked, rejoin, busy, todo>>
    BY <2>1, <2>2, <2>4 DEF Others
  <2> QED BY <2>2, <2>3, <2>4
<1>6. CASE SaveRecord(n)
  BY <1>0, <1>6 DEF TypeNow, SaveRecord, memory, Others
<1>7. CASE Crash(n)
  <2>1. Forget(n) /\ UNCHANGED store /\ \A m \in Node \ {n} : mode'[m] = mode[m]
    BY <1>0, <1>7 DEF TypeNow, Crash
  <2> QED BY <2>1, ForgetFields DEF Others, store
<1>8. CASE Restart(n)
  BY <1>0, <1>8 DEF TypeNow, Restart, store, Others
<1>9. ASSUME NEW f \in net, RecvWelcome(n, f) PROVE Others(n)
  <2>1. UNCHANGED <<buf, rejoin, busy, todo, log, saved>>
    BY <1>9 DEF RecvWelcome
  <2>2. \A m \in Node \ {n} : dSt'[m] = dSt[m] /\ dAdm'[m] = dAdm[m]
    BY <1>0, <1>9 DEF RecvWelcome, TypeNow
  <2>3. \A m \in Node \ {n} : mode'[m] = mode[m] /\ st'[m] = st[m] /\ adm'[m] = adm[m]
    BY <1>0, <1>9 DEF RecvWelcome, TypeNow
  <2> QED BY <2>1, <2>2, <2>3 DEF Others
<1>10. ASSUME NEW f \in net, Admit(n, f) PROVE Others(n)
  <2>1. PICK M, R, F, c :
          /\ M = Members(st[n]) \cup {f.who} /\ F = AdmissionFrames(Len(tree) + 1)
          /\ R = {d \in saved[n] : tree[d].who # f.who} \cup {Len(tree) + 1}
          /\ c = Child(n, f.who, M)
    OBVIOUS
  <2>2. Made(n, c, R, F) /\ c.members \in SUBSET Node
    BY <1>10, <2>1, AdmitFields DEF Child
  <2> QED BY <2>2, MadeFields DEF Others
<1>11. ASSUME NEW f \in net, CommitDeparture(n, f) PROVE Others(n)
  <2>1. PICK M, F, c : /\ M = Members(st[n]) \ {f.who} /\ c = Child(n, f.who, M)
                       /\ F = {[type |-> "commit", id |-> Len(tree) + 1]}
    OBVIOUS
  <2>2. Made(n, c, saved[n], F) /\ c.members \in SUBSET Node
    BY <1>11, <2>1, DepartureFields DEF Child
  <2> QED BY <2>2, MadeFields DEF Others
<1>12. ASSUME NEW f \in net, RecvCommit(n, f) PROVE Others(n)
  <2>1. PICK t \in States, ok \in BOOLEAN :
          /\ Sequence(n, f.id, t, ok)
          /\ \/ UNCHANGED rejoin \/ rejoin' = [rejoin EXCEPT ![n] = rejoin[n] /\ ~ok]
          /\ adm' = [adm EXCEPT ![n] = Reconcile(adm[n], Members(t))]
    BY <1>12 DEF RecvCommit
  <2>2. Sequenced(n, f.id, t) /\ f.id \in Commits
    BY <1>12, <2>1, BringsFields DEF Sequenced, RecvCommit
  <2>3. \A m \in Node \ {n} : adm'[m] = adm[m]
    BY <1>0, <2>1 DEF TypeNow
  <2>4. \A m \in Node \ {n} : rejoin'[m] = rejoin[m]
    BY <1>0, <2>1 DEF TypeNow
  <2>5. UNCHANGED <<busy, todo, dAdm, saved>>
    BY <1>12 DEF RecvCommit
  <2>6. \A m \in Node \ {n} : /\ st'[m] = st[m] /\ buf'[m] = buf[m] /\ dSt'[m] = dSt[m]
                              /\ log'[m] = log[m] /\ mode'[m] = mode[m]
    BY <2>2, SequenceFields
  <2> QED BY <2>3, <2>4, <2>5, <2>6 DEF Others
<1>13. ASSUME NEW f \in net, RecvResponse(n, f) PROVE Others(n)
  <2>1. UNCHANGED <<mode, st, adm, buf, rejoin, dSt, dAdm, log, saved>>
    BY <1>13 DEF RecvResponse, store
  <2>2. \A m \in Node \ {n} : busy'[m] = busy[m] /\ todo'[m] = todo[m]
    BY <1>0, <1>13 DEF RecvResponse, TypeNow
  <2> QED BY <2>1, <2>2 DEF Others
<1>14. ASSUME NEW p \in Node, InstallTransition(n, p) PROVE Others(n)
  <2>1. UNCHANGED <<buf, busy, todo, dAdm, log, saved>>
    BY <1>14 DEF InstallTransition
  <2>2. \A m \in Node \ {n} : dSt'[m] = dSt[m] /\ st'[m] = st[m] /\ adm'[m] = adm[m]
                              /\ mode'[m] = mode[m]
    BY <1>0, <1>14 DEF InstallTransition, TypeNow
  <2>3. rejoin' = rejoin \/ rejoin' = [rejoin EXCEPT ![n] = FALSE]
    BY <1>14 DEF InstallTransition
  <2>4. \A m \in Node \ {n} : rejoin'[m] = rejoin[m]
    BY <1>0, <2>3 DEF TypeNow
  <2> QED BY <2>1, <2>2, <2>4 DEF Others
<1> QED
  BY <1>1, <1>2, <1>3, <1>4, <1>5, <1>6, <1>7, <1>8, <1>9, <1>10, <1>11, <1>12, <1>13,
     <1>14 DEF Step, Receive

(* A member without an open session keeps nothing of one. *)
Closed(n) == st[n] = 1 /\ ~busy[n] /\ ~rejoin[n] /\ buf[n] = {} /\ todo[n] = {}

ClosedInv == \A n \in Node : ~Joined(n) => Closed(n)

LEMMA ClosedStep ==
  ASSUME TypeInv, ClosedInv, NEW n \in Node, Step(n)
  PROVE  ClosedInv'
<1>0. TypeNow /\ Others(n) /\ (~Joined(n) => Closed(n))
  BY TypesNow, OthersKept DEF ClosedInv
<1>1. ASSUME NEW m \in Node \ {n} PROVE ~Joined(m)' => Closed(m)'
  BY <1>0 DEF Others, ClosedInv, Closed, Joined
<1>2. ~Joined(n)' => Closed(n)'
  <2>1. CASE Joined(n)'
    BY <2>1
  <2>2. CASE Forget(n)
    BY <2>2, ForgetFields DEF Closed
  <2>3. CASE ~Joined(n) /\ UNCHANGED <<st, busy, rejoin, buf, todo>>
    BY <1>0, <2>3 DEF Closed
  <2>4. CASE Joined(n) /\ UNCHANGED mode
    BY <2>4 DEF Joined
  <2>5. CASE Join(n) \/ RetryJoin(n)
    BY <2>3, <2>5 DEF Join, RetryJoin, Joined, memory
  <2>6. CASE AbsorbNext(n)
    <3>1. Joined(n)
      BY <1>0, <2>6 DEF AbsorbNext, Closed
    <3>2. PICK c \in todo[n], t \in States : Sequenced(n, c, t)
      BY <2>6 DEF AbsorbNext, Sequenced
    <3>3. mode'[n] \in {mode[n], "in"}
      BY <3>2, SequenceFields, TypeFields
    <3> QED BY <3>1, <3>3 DEF Joined
  <2>7. CASE EndAbsorb(n) \/ SaveRecord(n)
    <3>1. Joined(n)
      BY <1>0, <2>7 DEF EndAbsorb, SaveRecord, Idle, Closed
    <3> QED BY <2>4, <2>7, <3>1 DEF EndAbsorb, SaveRecord, memory
  <2>8. CASE Leave(n)
    <3>1. Forget(n) \/ mode' = [mode EXCEPT ![n] = "quit"]
      BY <2>8 DEF Leave
    <3>2. mode' = [mode EXCEPT ![n] = "quit"] => Joined(n)'
      BY <1>0 DEF Joined, TypeNow
    <3> QED BY <2>1, <2>2, <3>1, <3>2
  <2>9. CASE Crash(n)
    BY <2>2, <2>9 DEF Crash
  <2>10. CASE Restart(n)
    BY <1>0, <2>10 DEF Restart, Joined, TypeNow
  <2>11. ASSUME NEW f \in net, Receive(n, f) PROVE ~Joined(n)' => Closed(n)'
    <3>1. CASE RecvWelcome(n, f)
      <4>1. ~Joined(n) /\ UNCHANGED <<busy, rejoin, buf, todo>>
        BY <3>1 DEF RecvWelcome, Joined
      <4>2. mode' = [mode EXCEPT ![n] = "in"] \/ UNCHANGED st
        BY <3>1 DEF RecvWelcome
      <4>3. mode' = [mode EXCEPT ![n] = "in"] => Joined(n)'
        BY <1>0 DEF Joined, TypeNow
      <4> QED BY <2>3, <4>1, <4>2, <4>3
    <3>2. CASE Admit(n, f) \/ CommitDeparture(n, f)
      BY <2>4, <3>2 DEF Admit, CommitDeparture, Install, Idle
    <3>3. CASE ReplayAdmission(n, f) \/ ServeResync(n, f) \/ RecvResponse(n, f)
      BY <2>4, <3>3 DEF ReplayAdmission, ServeResync, RecvResponse, Idle, memory
    <3>4. CASE RecvCommit(n, f)
      <4>1. PICK t \in States : Sequenced(n, f.id, t)
        BY <3>4 DEF RecvCommit, Sequenced
      <4>2. Joined(n) /\ f.id \in Commits
        BY <3>4, BringsFields DEF RecvCommit, Idle
      <4>3. mode'[n] \in {mode[n], "in"}
        BY <4>1, <4>2, SequenceFields
      <4> QED BY <4>2, <4>3 DEF Joined
    <3> QED BY <2>11, <3>1, <3>2, <3>3, <3>4 DEF Receive
  <2>12. ASSUME NEW p \in Node, InstallTransition(n, p) PROVE ~Joined(n)' => Closed(n)'
    <3>1. Joined(n) /\ (mode' = [mode EXCEPT ![n] = "in"] \/ UNCHANGED mode)
      BY <2>12 DEF InstallTransition, Idle
    <3>2. mode' = [mode EXCEPT ![n] = "in"] => Joined(n)'
      BY <1>0 DEF Joined, TypeNow
    <3> QED BY <2>4, <3>1, <3>2
  <2> QED BY <2>5, <2>6, <2>7, <2>8, <2>9, <2>10, <2>11, <2>12 DEF Step
<1> QED BY <1>1, <1>2 DEF ClosedInv

LEMMA TypeNext ==
  ASSUME TypeInv, ClosedInv, NEW n \in Node, Step(n)
  PROVE  TypeInv'
<1>1. CASE Join(n) \/ RetryJoin(n)
  BY <1>1, TypeJoin
<1>2. CASE AbsorbNext(n)
  <2>1. Joined(n)
    BY <1>2 DEF AbsorbNext, ClosedInv, Closed
  <2> QED BY <1>2, <2>1, TypeAbsorb
<1>3. CASE EndAbsorb(n)
  BY <1>3, TypeEndAbsorb
<1>4. CASE Leave(n) \/ SaveRecord(n) \/ Crash(n) \/ Restart(n)
  BY <1>4, TypeLeave, TypeSave, TypeCrash, TypeRestart
<1>5. ASSUME NEW f \in net, Receive(n, f) PROVE TypeInv'
  BY <1>5, TypeWelcome, TypeAdmit, TypeReplay, TypeDeparture, TypeRecvCommit, TypeServe,
     TypeRecvResponse DEF Receive
<1>6. ASSUME NEW p \in Node, InstallTransition(n, p) PROVE TypeInv'
  BY <1>6, TypeTransition
<1> QED BY <1>1, <1>2, <1>3, <1>4, <1>5, <1>6 DEF Step

(* Every variable keeps its type, whatever frames are lost, repeated or     *)
(* reordered and whoever crashes; the buffer of commits that wait for       *)
(* earlier ones stays within BUFFER_CAP, and it and the commit log hold one *)
(* commit per epoch.                                                        *)
THEOREM TypeCorrect == Spec => []TypeOK
<1>1. Init => TypeInv /\ ClosedInv
  <2>1. ASSUME Init PROVE ClosedInv
    BY <2>1 DEF Init, ClosedInv, Closed
  <2> QED BY <2>1, TypeInit
<1>2. TypeInv /\ ClosedInv /\ [Next]_vars => TypeInv' /\ ClosedInv'
  <2> SUFFICES ASSUME TypeInv, ClosedInv, [Next]_vars PROVE TypeInv' /\ ClosedInv'
    OBVIOUS
  <2>1. ASSUME NEW n \in Node, Step(n) PROVE TypeInv' /\ ClosedInv'
    BY <2>1, TypeNext, ClosedStep
  <2>2. CASE UNCHANGED vars
    <3>1. TypeNow
      BY TypesNow
    <3>2. TypeStep
      BY <2>2, <3>1 DEF TypeNow, TypeStep, vars
    <3>3. Circulating' = Circulating /\ Parting' = Parting
      BY <2>2, Unchanging DEF vars
    <3>4. \A n \in Node : /\ buf'[n] = buf[n] /\ log'[n] = log[n] /\ todo'[n] = todo[n]
                          /\ mode'[n] \in {"in", "quit", "down"} => dSt'[n] # NoState
      BY <2>2 DEF vars, TypeInv, SavedInv
    <3>5. TypeInv'
      BY <3>2, <3>3, <3>4, TypeQuiet
    <3>6. ClosedInv'
      BY <2>2 DEF vars, ClosedInv, Closed, Joined
    <3> QED BY <3>5, <3>6
  <2> QED BY <2>1, <2>2 DEF Next
<1>3. TypeInv => TypeOK
  BY DEF TypeInv
<1> QED BY <1>1, <1>2, <1>3, PTL DEF Spec
=============================================================================
