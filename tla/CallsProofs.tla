---------------------------- MODULE CallsProofs ----------------------------
(***************************************************************************)
(* Proofs about Calls.                                                     *)
(*                                                                         *)
(* The handlers are operators on the state of one device, so most of the   *)
(* argument is about them alone: what each helper keeps (first part), and  *)
(* what a control may do to the held call, to the history and to the       *)
(* sequence numbers (HandlerEffect).  The invariants then never look into  *)
(* a handler again.                                                        *)
(***************************************************************************)
EXTENDS Calls, SequenceTheorems, FiniteSetTheorems, TLAPS

Actions == {"offer", "answer", "selected", "occupied", "decline", "end"}
Reasons == {"", "user", "busy", "ended", "update"}
Reservation == [id : CallIds, caller : Device \cup {None},
                receiver : Device \cup {None}]
Admission == [id : CallIds, caller : Device]
Ending == [id : CallIds, act : {"end", "decline"}, reason : Reasons,
           caller : Device \cup {None}]

Session == [call : Call \cup {None},
            occ : [Device -> Reservation \cup {None}],
            adm : Admission \cup {None}, ends : Seq(Ending),
            seq : Nat, got : [Device -> Nat], closed : Seq(Closings),
            log : Seq(CallIds), used : SUBSET (Device \X Nat),
            gone : SUBSET Device]

Record == [seq : Nat, got : [Device -> Nat], closed : Seq(Closings),
           log : Seq(CallIds), used : SUBSET (Device \X Nat),
           gone : SUBSET Device]

(* The parts of a session that are bounded in the code.                    *)
Bounded(s) ==
    /\ Len(s.closed) <= ClosedCap /\ Len(s.ends) <= MaxEnds
    /\ Cardinality(Reserved(s)) <= MaxReservations

Good(s) == s \in Session /\ Bounded(s)

(* What most helpers leave alone.                                          *)
Keeps(s, t) ==
    /\ t.seq = s.seq /\ t.got = s.got /\ t.call = s.call /\ t.log = s.log
    /\ t.gone = s.gone /\ t.used = s.used

-----------------------------------------------------------------------------
(* Sequences.                                                              *)

LEMMA TailOf ==
    ASSUME NEW S, NEW q \in Seq(S), Len(q) # 0
    PROVE  /\ Tail(q) \in Seq(S) /\ Len(Tail(q)) = Len(q) - 1
           /\ \A i \in 1 .. Len(Tail(q)) : i + 1 \in 1 .. Len(q) /\ Tail(q)[i] = q[i + 1]
<1>1. q # << >>
    BY EmptySeq
<1> QED
    BY <1>1, HeadTailProperties, LenProperties

LEMMA AppendTo ==
    ASSUME NEW S, NEW q \in Seq(S), NEW x \in S
    PROVE  /\ Append(q, x) \in Seq(S) /\ Len(Append(q, x)) = Len(q) + 1
           /\ \A i \in 1 .. Len(q) : Append(q, x)[i] = q[i]
           /\ Append(q, x)[Len(q) + 1] = x
BY AppendProperties

LEMMA RemoveFrom ==
    ASSUME NEW S, NEW q \in Seq(S), NEW i \in 1 .. Len(q)
    PROVE  /\ RemoveAt(q, i) \in Seq(S) /\ Len(RemoveAt(q, i)) = Len(q) - 1
           /\ \A j \in 1 .. Len(RemoveAt(q, i)) :
                 \E k \in 1 .. Len(q) : RemoveAt(q, i)[j] = q[k]
<1> DEFINE a == SubSeq(q, 1, i - 1)
           b == SubSeq(q, i + 1, Len(q))
<1>1. Len(q) \in Nat /\ \A j \in 1 .. Len(q) : q[j] \in S
    BY LenProperties, ElementOfSeq
<1>2. /\ a \in Seq(S) /\ Len(a) = i - 1
      /\ \A j \in 1 .. i - 1 : a[j] = q[j]
  <2>1. \A j \in 1 .. i - 1 : q[j] \in S
      BY <1>1
  <2> QED
      BY <1>1, <2>1, SubSeqProperties
<1>3. /\ b \in Seq(S) /\ Len(b) = Len(q) - i
      /\ \A j \in 1 .. Len(q) - i : b[j] = q[i + j]
  <2>1. \A j \in i + 1 .. Len(q) : q[j] \in S
      BY <1>1
  <2> QED
      BY <1>1, <2>1, SubSeqProperties
<1>4. RemoveAt(q, i) = a \o b
    BY DEF RemoveAt
<1> HIDE DEF a, b
<1>5. /\ a \o b \in Seq(S) /\ Len(a \o b) = Len(a) + Len(b)
      /\ \A j \in 1 .. Len(a) + Len(b) :
            (a \o b)[j] = IF j <= Len(a) THEN a[j] ELSE b[j - Len(a)]
    BY <1>2, <1>3, ConcatProperties
<1>6. ASSUME NEW j \in 1 .. Len(q) - 1
      PROVE  \E k \in 1 .. Len(q) : (a \o b)[j] = q[k]
  <2>1. CASE j <= i - 1
      BY <2>1, <1>1, <1>2, <1>3, <1>5
  <2>2. CASE ~(j <= i - 1)
    <3>1. j - (i - 1) \in 1 .. Len(q) - i
        BY <2>2, <1>1
    <3>2. (a \o b)[j] = b[j - (i - 1)]
        BY <2>2, <1>1, <1>2, <1>3, <1>5
    <3>3. b[j - (i - 1)] = q[i + (j - (i - 1))]
        BY <3>1, <1>3
    <3>4. i + (j - (i - 1)) = j + 1 /\ j + 1 \in 1 .. Len(q)
        BY <1>1
    <3> QED
        BY <3>2, <3>3, <3>4
  <2> QED
      BY <2>1, <2>2
<1>7. Len(a) + Len(b) = Len(q) - 1
    BY <1>1, <1>2, <1>3
<1> QED
    BY <1>4, <1>5, <1>6, <1>7

-----------------------------------------------------------------------------
(* Helpers on a session.                                                   *)

(* The book: closing a call keeps the book within its bound, and touches   *)
(* nothing else.  An entry it holds afterwards is the closed call or was   *)
(* there before.                                                           *)
LEMMA CloseKeeps ==
    ASSUME NEW s, Good(s), NEW id \in CallIds, NEW confirmed \in BOOLEAN
    PROVE  /\ Good(Close(s, id, confirmed)) /\ Keeps(s, Close(s, id, confirmed))
           /\ Close(s, id, confirmed).occ = s.occ
           /\ Close(s, id, confirmed).adm = s.adm
           /\ Close(s, id, confirmed).ends = s.ends
           /\ \A c \in CallIds : Closed(Close(s, id, confirmed), c) => c = id \/ Closed(s, c)
           /\ \A c \in CallIds : ConfirmedClosed(Close(s, id, confirmed), c)
                 => c = id \/ ConfirmedClosed(s, c)
<1> DEFINE old == s.closed
           new == IF Closed(s, id)
                  THEN [i \in DOMAIN old |-> Confirm(old[i], id, confirmed)]
                  ELSE Append(IF Len(old) = ClosedCap THEN Tail(old) ELSE old,
                              [id |-> id, confirmed |-> confirmed])
           t == Close(s, id, confirmed)
<1>1. t = [s EXCEPT !.closed = new]
    BY DEF Close
<1>2. /\ s \in Session /\ old \in Seq(Closings) /\ Len(old) \in Nat
      /\ Len(old) <= ClosedCap /\ DOMAIN old = 1 .. Len(old)
      /\ \A i \in 1 .. Len(old) : old[i] \in Closings
    BY LenProperties, ElementOfSeq DEF Good, Bounded, Session
<1>3. ClosedCap \in Nat \ {0}
    BY CallsAssumption
<1>4. /\ new \in Seq(Closings) /\ Len(new) <= ClosedCap
      /\ \A i \in DOMAIN new :
            \/ new[i].id = id
            \/ \E j \in DOMAIN old : new[i] = old[j]
  <2>1. CASE Closed(s, id)
    <3>1. new = [i \in 1 .. Len(old) |-> Confirm(old[i], id, confirmed)]
        BY <2>1, <1>2
    <3>2. ASSUME NEW i \in 1 .. Len(old)
          PROVE  /\ new[i] \in Closings
                 /\ new[i].id = id \/ new[i] = old[i]
      <4>1. old[i] \in Closings /\ i \in DOMAIN old
          BY <1>2
      <4>2. PICK x \in Closings : x = old[i]
          BY <4>1
      <4>3. /\ Confirm(x, id, confirmed) \in Closings
            /\ x.id = id => Confirm(x, id, confirmed).id = id
            /\ x.id # id => Confirm(x, id, confirmed) = x
          BY DEF Closings, Confirm
      <4>4. new[i] = Confirm(x, id, confirmed)
          BY <3>1, <4>2
      <4> QED
          BY <4>2, <4>3, <4>4
    <3>3. DOMAIN new = 1 .. Len(old) /\ new \in [1 .. Len(old) -> Closings]
        BY <3>1, <3>2
    <3> HIDE DEF new
    <3>4. new \in Seq(Closings)
        BY <3>3, <1>2, SeqDef
    <3>5. Len(new) = Len(old)
        BY <3>3, <3>4, <1>2, LenProperties
    <3> QED
        BY <3>2, <3>3, <3>4, <3>5, <1>2
  <2>2. CASE ~Closed(s, id)
    <3> DEFINE room == IF Len(old) = ClosedCap THEN Tail(old) ELSE old
               x == [id |-> id, confirmed |-> confirmed]
    <3>1. /\ room \in Seq(Closings) /\ Len(room) \in Nat /\ Len(room) < ClosedCap
          /\ \A i \in 1 .. Len(room) : \E j \in DOMAIN old : room[i] = old[j]
      <4>1. CASE Len(old) = ClosedCap
        <5>1. Len(old) # 0 /\ room = Tail(old)
            BY <4>1, <1>3
        <5>2. /\ Tail(old) \in Seq(Closings) /\ Len(Tail(old)) = Len(old) - 1
              /\ \A i \in 1 .. Len(Tail(old)) :
                    i + 1 \in 1 .. Len(old) /\ Tail(old)[i] = old[i + 1]
            BY <5>1, <1>2, TailOf
        <5>3. \A i \in 1 .. Len(Tail(old)) : \E j \in DOMAIN old : Tail(old)[i] = old[j]
            BY <5>2, <1>2
        <5> QED
            BY <5>1, <5>2, <5>3, <1>2, <1>3, <4>1
      <4>2. CASE Len(old) # ClosedCap
          BY <4>2, <1>2, <1>3
      <4> QED
          BY <4>1, <4>2
    <3>2. x \in Closings /\ x.id = id
        BY DEF Closings
    <3>3. new = Append(room, x)
        BY <2>2
    <3> HIDE DEF room, x, new
    <3>4. /\ new \in Seq(Closings) /\ Len(new) = Len(room) + 1
          /\ \A i \in 1 .. Len(room) : new[i] = room[i]
          /\ new[Len(room) + 1] = x
        BY <3>1, <3>2, <3>3, AppendTo
    <3>5. DOMAIN new = 1 .. Len(room) + 1
        BY <3>4, LenProperties
    <3>6. ASSUME NEW i \in 1 .. Len(room) + 1
          PROVE  new[i].id = id \/ \E j \in DOMAIN old : new[i] = old[j]
      <4>1. CASE i = Len(room) + 1
          BY <4>1, <3>2, <3>4
      <4>2. CASE i # Len(room) + 1
          BY <4>2, <3>1, <3>4
      <4> QED
          BY <4>1, <4>2
    <3> QED
        BY <3>1, <3>4, <3>5, <3>6, <1>3
  <2> QED
      BY <2>1, <2>2
<1> HIDE DEF new, t
<1>5. /\ t \in Session /\ t.closed = new /\ Keeps(s, t)
      /\ t.occ = s.occ /\ t.adm = s.adm /\ t.ends = s.ends
    BY <1>1, <1>2, <1>4 DEF Session, Keeps
<1>6. Good(t)
  <2>1. Reserved(t) = Reserved(s)
      BY <1>5 DEF Reserved
  <2> QED
      BY <2>1, <1>4, <1>5 DEF Good, Bounded
<1>7. \A c \in CallIds : Closed(t, c) => c = id \/ Closed(s, c)
    BY <1>4, <1>5 DEF Closed, Range
<1>8. \A c \in CallIds : ConfirmedClosed(t, c) => c = id \/ ConfirmedClosed(s, c)
    BY <1>4, <1>5 DEF ConfirmedClosed, Range
<1> QED
    BY <1>5, <1>6, <1>7, <1>8 DEF t

LEMMA CloseForGood ==
    ASSUME NEW s, Good(s), NEW id \in CallIds
    PROVE  LET t == Close(s, id, TRUE)
           IN  /\ Good(t) /\ Keeps(s, t) /\ t.occ = s.occ /\ t.ends = s.ends
               /\ \A c \in CallIds : Closed(t, c) => c = id \/ Closed(s, c)
               /\ \A c \in CallIds : ConfirmedClosed(t, c)
                     => c = id \/ ConfirmedClosed(s, c)
<1>1. TRUE \in BOOLEAN
    OBVIOUS
<1> QED
    BY <1>1, CloseKeeps, Zenon

(* What the occupancy and the admission of offers leave alone.             *)
KeepsBook(s, t) == Keeps(s, t) /\ t.closed = s.closed /\ t.ends = s.ends

LEMMA ReservedFinite ==
    ASSUME NEW s
    PROVE  IsFiniteSet(Reserved(s)) /\ Cardinality(Reserved(s)) \in Nat
<1>1. IsFiniteSet(Device) /\ Reserved(s) \in SUBSET Device
    BY CallsAssumption DEF Reserved
<1> QED
    BY <1>1, FS_Subset, FS_CardinalityType

(* A session with no more reservations than a good one is good.            *)
LEMMA FewerIsGood ==
    ASSUME NEW s, Good(s), NEW t \in Session, KeepsBook(s, t),
           \A e \in Device : t.occ[e] # None => s.occ[e] # None
    PROVE  Good(t)
<1>1. Reserved(t) \in SUBSET Reserved(s)
    BY DEF Reserved
<1>2. /\ Cardinality(Reserved(t)) <= Cardinality(Reserved(s))
      /\ Cardinality(Reserved(t)) \in Nat /\ Cardinality(Reserved(s)) \in Nat
    BY <1>1, ReservedFinite, FS_Subset
<1> QED
    BY <1>2, CallsAssumption DEF Good, Bounded, KeepsBook

LEMMA OccKeeps ==
    ASSUME NEW s, Good(s), NEW occ \in [Device -> Reservation \cup {None}],
           \A e \in Device : occ[e] # None => s.occ[e] # None
    PROVE  LET t == [s EXCEPT !.occ = occ]
           IN  Good(t) /\ KeepsBook(s, t) /\ t.occ = occ /\ t.adm = s.adm
<1> DEFINE t == [s EXCEPT !.occ = occ]
<1>1. s \in Session
    BY DEF Good
<1>2. t \in Session /\ KeepsBook(s, t) /\ t.occ = occ /\ t.adm = s.adm
    BY <1>1 DEF Session, KeepsBook, Keeps
<1> HIDE DEF t
<1>3. Good(t)
    BY <1>2, FewerIsGood
<1> QED
    BY <1>2, <1>3 DEF t

LEMMA ReserveKeeps ==
    ASSUME NEW s, Good(s), NEW e \in Device, NEW id \in CallIds,
           NEW caller \in Device \cup {None}, NEW receiver \in Device \cup {None}
    PROVE  /\ Good(Reserve(s, e, id, caller, receiver))
           /\ KeepsBook(s, Reserve(s, e, id, caller, receiver))
<1> DEFINE r == [id |-> id, caller |-> caller, receiver |-> receiver]
           t == [s EXCEPT !.occ[e] = r]
<1>1. s \in Session /\ r \in Reservation
    BY DEF Good, Reservation
<1>2. CASE e \notin Reserved(s) /\ Cardinality(Reserved(s)) >= MaxReservations
    BY <1>2 DEF Reserve, KeepsBook, Keeps
<1>3. CASE ~(e \notin Reserved(s) /\ Cardinality(Reserved(s)) >= MaxReservations)
  <2>1. Reserve(s, e, id, caller, receiver) = t
      BY <1>3 DEF Reserve
  <2> HIDE DEF r
  <2>2. /\ t \in Session /\ KeepsBook(s, t)
        /\ \A f \in Device : t.occ[f] = IF f = e THEN r ELSE s.occ[f]
      BY <1>1 DEF Session, KeepsBook, Keeps
  <2> HIDE DEF t
  <2>3. Cardinality(Reserved(t)) <= MaxReservations
    <3>1. /\ IsFiniteSet(Reserved(s)) /\ Cardinality(Reserved(s)) \in Nat
          /\ IsFiniteSet(Reserved(t)) /\ Cardinality(Reserved(t)) \in Nat
          /\ MaxReservations \in Nat
        BY ReservedFinite, CallsAssumption
    <3>2. Reserved(t) \in SUBSET (Reserved(s) \cup {e})
        BY <2>2 DEF Reserved
    <3>3. /\ IsFiniteSet(Reserved(s) \cup {e})
          /\ Cardinality(Reserved(s) \cup {e}) =
                IF e \in Reserved(s) THEN Cardinality(Reserved(s))
                ELSE Cardinality(Reserved(s)) + 1
        BY <3>1, FS_AddElement
    <3>4. Cardinality(Reserved(t)) <= Cardinality(Reserved(s) \cup {e})
        BY <3>2, <3>3, FS_Subset
    <3>5. Cardinality(Reserved(s)) <= MaxReservations
        BY DEF Good, Bounded
    <3> QED
        BY <3>1, <3>3, <3>4, <3>5, <1>3
  <2> QED
      BY <2>1, <2>2, <2>3 DEF Good, Bounded, KeepsBook
<1> QED
    BY <1>2, <1>3

LEMMA ReleaseKeeps ==
    ASSUME NEW s, Good(s), NEW e \in Device, NEW id \in CallIds
    PROVE  Good(Release(s, e, id)) /\ KeepsBook(s, Release(s, e, id))
<1>1. s \in Session
    BY DEF Good
<1>2. CASE e \in Reserved(s) /\ s.occ[e].id = id
  <2> DEFINE t == [s EXCEPT !.occ[e] = None]
  <2>1. /\ t \in Session /\ KeepsBook(s, t)
        /\ \A f \in Device : t.occ[f] = IF f = e THEN None ELSE s.occ[f]
      BY <1>1 DEF Session, KeepsBook, Keeps
  <2>2. Release(s, e, id) = t
      BY <1>2 DEF Release
  <2> HIDE DEF t
  <2>3. Good(t)
      BY <2>1, FewerIsGood
  <2> QED
      BY <2>1, <2>2, <2>3
<1>3. CASE ~(e \in Reserved(s) /\ s.occ[e].id = id)
    BY <1>3 DEF Release, KeepsBook, Keeps
<1> QED
    BY <1>2, <1>3

LEMMA ForgetKeeps ==
    ASSUME NEW s, Good(s), NEW id \in CallIds
    PROVE  /\ Good(ForgetOffer(s, id)) /\ KeepsBook(s, ForgetOffer(s, id))
           /\ ForgetOffer(s, id).occ = s.occ
<1>1. s \in Session
    BY DEF Good
<1>2. CASE s.adm # None /\ s.adm.id = id
  <2> DEFINE t == [s EXCEPT !.adm = None]
  <2>1. t \in Session /\ KeepsBook(s, t) /\ t.occ = s.occ
      BY <1>1 DEF Session, KeepsBook, Keeps
  <2>2. ForgetOffer(s, id) = t
      BY <1>2 DEF ForgetOffer
  <2> HIDE DEF t
  <2> QED
      BY <2>1, <2>2, FewerIsGood
<1>3. CASE ~(s.adm # None /\ s.adm.id = id)
    BY <1>3 DEF ForgetOffer, KeepsBook, Keeps
<1> QED
    BY <1>2, <1>3

LEMMA FinishOccupancyKeeps ==
    ASSUME NEW s, Good(s), NEW id \in CallIds, NEW confirmed \in BOOLEAN
    PROVE  /\ Good(FinishOccupancy(s, id, confirmed))
           /\ KeepsBook(s, FinishOccupancy(s, id, confirmed))
<1> DEFINE occ == [e \in Device |-> IF e \in Reserved(s) /\ s.occ[e].id = id
                                    THEN None ELSE s.occ[e]]
<1>1. /\ occ \in [Device -> Reservation \cup {None}]
      /\ \A f \in Device : occ[f] # None => s.occ[f] # None
    BY DEF Good, Session
<1>2. FinishOccupancy(s, id, confirmed) =
        IF confirmed THEN ForgetOffer([s EXCEPT !.occ = occ], id)
        ELSE [s EXCEPT !.occ = occ]
    BY DEF FinishOccupancy
<1> HIDE DEF occ
<1>3. PICK freed : freed = [s EXCEPT !.occ = occ]
    OBVIOUS
<1>4. Good(freed) /\ KeepsBook(s, freed)
    BY <1>1, <1>3, OccKeeps
<1>5. Good(ForgetOffer(freed, id)) /\ KeepsBook(freed, ForgetOffer(freed, id))
    BY <1>4, ForgetKeeps
<1> QED
    BY <1>2, <1>3, <1>4, <1>5 DEF KeepsBook, Keeps

LEMMA ReceiveEndKeeps ==
    ASSUME NEW s, Good(s), NEW sender \in Device, NEW id \in CallIds
    PROVE  Good(ReceiveEnd(s, sender, id)) /\ KeepsBook(s, ReceiveEnd(s, sender, id))
<1> DEFINE t == IF s.adm # None /\ s.adm.caller = sender
                THEN ForgetOffer(s, id) ELSE s
<1>1. Good(t) /\ KeepsBook(s, t) /\ t.occ = s.occ
    BY ForgetKeeps DEF KeepsBook, Keeps
<1> DEFINE occ == [e \in Device |->
                      IF /\ e \in Reserved(s) /\ t.occ[e].id = id
                         /\ sender \in {t.occ[e].caller, t.occ[e].receiver}
                      THEN None ELSE t.occ[e]]
<1>2. ReceiveEnd(s, sender, id) = [t EXCEPT !.occ = occ]
    BY DEF ReceiveEnd
<1> HIDE DEF t
<1>3. /\ occ \in [Device -> Reservation \cup {None}]
      /\ \A f \in Device : occ[f] # None => t.occ[f] # None
    BY <1>1 DEF Good, Session
<1> HIDE DEF occ
<1>4. PICK u : u = [t EXCEPT !.occ = occ]
    OBVIOUS
<1>5. Good(u) /\ KeepsBook(t, u)
    BY <1>1, <1>3, <1>4, OccKeeps
<1> QED
    BY <1>1, <1>2, <1>4, <1>5 DEF KeepsBook, Keeps

LEMMA ObserveSelectionKeeps ==
    ASSUME NEW s, Good(s), NEW d \in Device, NEW c \in ControlType
    PROVE  Good(ObserveSelection(s, d, c)) /\ KeepsBook(s, ObserveSelection(s, d, c))
<1>1. CASE ObserveSelection(s, d, c) = s
    BY <1>1 DEF KeepsBook, Keeps
<1>2. CASE /\ ObserveSelection(s, d, c) =
                 Reserve(s, c.receiver, c.id, c.from, c.receiver)
           /\ c.receiver \in Device
  <2>1. c.id \in CallIds /\ c.from \in Device \cup {None}
        /\ c.receiver \in Device \cup {None}
      BY DEF ControlType
  <2> QED
      BY <2>1, <1>2, ReserveKeeps
<1>3. CASE /\ ObserveSelection(s, d, c) =
                 Reserve(s, c.receiver, c.id, c.from, c.receiver)
           /\ c.receiver \notin Device
  <2> DEFINE t == [s EXCEPT !.occ[c.receiver] =
             [id |-> c.id, caller |-> c.from, receiver |-> c.receiver]]
  <2>1. s \in Session
      BY DEF Good
  <2>2. t = s
      BY <2>1, <1>3 DEF Session
  <2>3. Reserve(s, c.receiver, c.id, c.from, c.receiver) = s
      BY <2>2 DEF Reserve
  <2> QED
      BY <2>3, <1>3 DEF KeepsBook, Keeps
<1> QED
    BY <1>1, <1>2, <1>3 DEF ObserveSelection

(* Remembering a terminal control keeps their number within the bound; one *)
(* that is remembered afterwards is the new one or was there before.       *)
LEMMA RememberKeeps ==
    ASSUME NEW s, Good(s), NEW id \in CallIds, NEW act \in {"end", "decline"},
           NEW reason \in Reasons, act = "end" => s.call # None
    PROVE  LET t == Remember(s, id, act, reason)
           IN  /\ Good(t) /\ Keeps(s, t)
               /\ t.closed = s.closed
               /\ \A x \in Range(t.ends) :
                     \/ x \in Range(s.ends)
                     \/ /\ x.act = act /\ x.id = id
                        /\ act = "end" => x.caller = s.call.caller
<1> DEFINE q == s.ends
           same == {i \in DOMAIN q : q[i].id = id}
           others == IF same = {} THEN q ELSE RemoveAt(q, CHOOSE i \in same : TRUE)
           room == IF Len(others) = MaxEnds THEN Tail(others) ELSE others
           x == [id |-> id, act |-> act, reason |-> reason,
                 caller |-> IF act = "end" THEN s.call.caller ELSE None]
           t == Remember(s, id, act, reason)
<1>1. /\ s \in Session /\ q \in Seq(Ending) /\ Len(q) \in Nat
      /\ Len(q) <= MaxEnds /\ DOMAIN q = 1 .. Len(q) /\ MaxEnds \in Nat \ {0}
    BY LenProperties, CallsAssumption DEF Good, Bounded, Session
<1>2. x \in Ending
    BY <1>1 DEF Ending, Session, Call
<1>3. t = [s EXCEPT !.ends = Append(room, x)]
    BY DEF Remember
<1>4. /\ others \in Seq(Ending) /\ Len(others) \in Nat /\ Len(others) <= MaxEnds
      /\ \A j \in 1 .. Len(others) : \E k \in 1 .. Len(q) : others[j] = q[k]
  <2>1. CASE same = {}
      BY <2>1, <1>1
  <2>2. CASE same # {}
    <3>1. PICK i \in 1 .. Len(q) : others = RemoveAt(q, i)
        BY <2>2, <1>1
    <3>2. /\ RemoveAt(q, i) \in Seq(Ending) /\ Len(RemoveAt(q, i)) = Len(q) - 1
          /\ \A j \in 1 .. Len(RemoveAt(q, i)) :
                \E k \in 1 .. Len(q) : RemoveAt(q, i)[j] = q[k]
      <4> HIDE DEF q
      <4>1. q \in Seq(Ending)
          BY <1>1
      <4> QED
          BY <4>1, RemoveFrom
    <3>3. Len(q) - 1 \in Nat /\ Len(q) - 1 <= MaxEnds
        BY <1>1
    <3>4. others \in Seq(Ending) /\ Len(others) = Len(q) - 1
        BY <3>1, <3>2, Zenon
    <3>5. \A j \in 1 .. Len(others) : \E k \in 1 .. Len(q) : others[j] = q[k]
        BY <3>1, <3>2, Zenon
    <3> HIDE DEF others, same
    <3> QED
        BY <3>3, <3>4, <3>5
  <2> QED
      BY <2>1, <2>2
<1> HIDE DEF others, same, x
<1>5. /\ room \in Seq(Ending) /\ Len(room) \in Nat /\ Len(room) < MaxEnds
      /\ \A j \in 1 .. Len(room) : \E k \in 1 .. Len(q) : room[j] = q[k]
  <2>1. CASE Len(others) = MaxEnds
    <3>1. Len(others) # 0 /\ room = Tail(others)
        BY <2>1, <1>1
    <3>2. /\ Tail(others) \in Seq(Ending) /\ Len(Tail(others)) = Len(others) - 1
          /\ \A i \in 1 .. Len(Tail(others)) :
                i + 1 \in 1 .. Len(others) /\ Tail(others)[i] = others[i + 1]
        BY <3>1, <1>4, TailOf
    <3> QED
        BY <3>1, <3>2, <1>1, <1>4, <2>1
  <2>2. CASE Len(others) # MaxEnds
      BY <2>2, <1>1, <1>4
  <2> QED
      BY <2>1, <2>2
<1> HIDE DEF room
<1> DEFINE new == Append(room, x)
<1>6. /\ new \in Seq(Ending) /\ Len(new) = Len(room) + 1
      /\ \A i \in 1 .. Len(room) : new[i] = room[i]
      /\ new[Len(room) + 1] = x
    BY <1>2, <1>5, AppendTo
<1>7. DOMAIN new = 1 .. Len(room) + 1
    BY <1>6, LenProperties
<1> HIDE DEF new
<1>8. \A y \in Range(new) : y \in Range(q) \/ y = x
  <2>1. ASSUME NEW i \in 1 .. Len(room) + 1
        PROVE  new[i] \in Range(q) \/ new[i] = x
    <3>1. CASE i = Len(room) + 1
        BY <3>1, <1>6
    <3>2. CASE i # Len(room) + 1
      <4>1. i \in 1 .. Len(room)
          BY <3>2, <1>5
      <4>2. PICK k \in 1 .. Len(q) : new[i] = q[k]
          BY <4>1, <1>5, <1>6
      <4> QED
          BY <4>2, <1>1, Zenon DEF Range
    <3> QED
        BY <3>1, <3>2
  <2> QED
      BY <2>1, <1>7 DEF Range
<1>9. t \in Session /\ Keeps(s, t) /\ t.ends = new /\ t.occ = s.occ /\ t.closed = s.closed
    BY <1>1, <1>3, <1>6 DEF Session, Keeps, new
<1>10. x.act = act /\ x.id = id /\ (act = "end" => x.caller = s.call.caller)
    BY DEF x
<1> HIDE DEF t
<1>11. Good(t)
  <2>1. Reserved(t) = Reserved(s)
      BY <1>9 DEF Reserved
  <2> QED
      BY <2>1, <1>1, <1>5, <1>6, <1>9 DEF Good, Bounded
<1>12. \A y \in Range(t.ends) :
          y \in Range(s.ends) \/ (y.act = act /\ y.id = id /\ (act = "end" => y.caller = s.call.caller))
    BY <1>8, <1>9, <1>10
<1> QED
    BY <1>9, <1>11, <1>12 DEF t

(* The call a good session holds is over: it appears once more in the      *)
(* history, nothing is held, and only it and the call it merged are closed.*)
LEMMA FinishCallKeeps ==
    ASSUME NEW s, Good(s), s.call # None
    PROVE  LET t == FinishCall(s)
           IN  /\ Good(t) /\ t.seq = s.seq /\ t.got = s.got /\ t.gone = s.gone
               /\ t.used = s.used /\ t.ends = s.ends
               /\ t.call = None /\ t.log = Append(s.log, s.call.id)
               /\ \A x \in CallIds : Closed(t, x) =>
                     x \in {s.call.id, s.call.merged} \/ Closed(s, x)
<1> DEFINE c == s.call
           confirmed == \/ c.dir = "caller" \/ c.phase = "active"
                        \/ ConfirmedClosed(s, c.id)
           first == Close(s, c.id, confirmed)
           both == IF c.merged = None THEN first
                   ELSE Close(first, c.merged, confirmed)
           freed == FinishOccupancy(both, c.id, confirmed)
           t == FinishCall(s)
<1>1. /\ c \in Call /\ c.id \in CallIds /\ c.merged \in CallIds \cup {None}
      /\ confirmed \in BOOLEAN
    BY DEF Good, Session, Call
<1>2. t = [freed EXCEPT !.call = None, !.log = Append(@, c.id)]
    BY DEF FinishCall
<1> HIDE DEF confirmed, c, t
<1>3. /\ Good(first) /\ Keeps(s, first) /\ first.ends = s.ends
      /\ \A x \in CallIds : Closed(first, x) => x = c.id \/ Closed(s, x)
    BY <1>1, CloseKeeps
<1> HIDE DEF first
<1>4. /\ Good(both) /\ Keeps(s, both) /\ both.ends = s.ends
      /\ \A x \in CallIds : Closed(both, x) => x \in {c.id, c.merged} \/ Closed(s, x)
  <2>1. CASE c.merged = None
      BY <2>1, <1>3
  <2>2. CASE c.merged # None
    <3>1. /\ Good(both) /\ Keeps(first, both) /\ both.ends = first.ends
          /\ \A x \in CallIds : Closed(both, x) => x = c.merged \/ Closed(first, x)
        BY <2>2, <1>1, <1>3, CloseKeeps
    <3> QED
        BY <3>1, <1>3 DEF Keeps
  <2> QED
      BY <2>1, <2>2
<1> HIDE DEF both
<1>5. Good(freed) /\ KeepsBook(both, freed)
    BY <1>1, <1>4, FinishOccupancyKeeps
<1> HIDE DEF freed
<1>6. freed \in Session /\ freed.log = s.log /\ freed.log \in Seq(CallIds)
    BY <1>4, <1>5 DEF Good, KeepsBook, Keeps, Session
<1>7. Append(freed.log, c.id) \in Seq(CallIds)
    BY <1>1, <1>6, AppendTo
<1>8. /\ t \in Session /\ t.seq = freed.seq /\ t.got = freed.got /\ t.gone = freed.gone
      /\ t.used = freed.used /\ t.ends = freed.ends /\ t.call = None
      /\ t.log = Append(freed.log, c.id) /\ t.closed = freed.closed /\ t.occ = freed.occ
    BY <1>2, <1>6, <1>7 DEF Session
<1>9. Good(t)
  <2>1. Reserved(t) = Reserved(freed)
      BY <1>8 DEF Reserved
  <2> QED
      BY <2>1, <1>5, <1>8 DEF Good, Bounded
<1>10. \A x \in CallIds : Closed(t, x) => Closed(both, x)
    BY <1>5, <1>8 DEF Closed, KeepsBook
<1> QED
    BY <1>4, <1>5, <1>6, <1>8, <1>9, <1>10 DEF Keeps, KeepsBook, c, t

(* A session differs from a good one in the held call only.                *)
LEMMA CallOnlyGood ==
    ASSUME NEW s, Good(s), NEW call \in Call \cup {None}
    PROVE  LET t == [s EXCEPT !.call = call]
           IN  /\ Good(t) /\ t.call = call /\ t.seq = s.seq /\ t.got = s.got
               /\ t.log = s.log /\ t.closed = s.closed /\ t.ends = s.ends
               /\ t.gone = s.gone /\ t.used = s.used /\ t.occ = s.occ
<1> DEFINE t == [s EXCEPT !.call = call]
<1>1. s \in Session
    BY DEF Good
<1>2. /\ t \in Session /\ t.call = call /\ t.seq = s.seq /\ t.got = s.got
      /\ t.log = s.log /\ t.closed = s.closed /\ t.ends = s.ends
      /\ t.gone = s.gone /\ t.used = s.used /\ t.occ = s.occ
    BY <1>1 DEF Session
<1> HIDE DEF t
<1>3. Reserved(t) = Reserved(s)
    BY <1>2 DEF Reserved
<1>4. Good(t)
    BY <1>2, <1>3 DEF Good, Bounded
<1> QED
    BY <1>2, <1>4 DEF t

LEMMA InstallKeeps ==
    ASSUME NEW s, Good(s), NEW c \in ControlType
    PROVE  LET t == InstallIncoming(s, c)
           IN  /\ Good(t) /\ t.call = Ringing(c.id, c.from) /\ t.call \in Call
               /\ t.seq = s.seq /\ t.got = s.got /\ t.log = s.log
               /\ t.closed = s.closed /\ t.ends = s.ends
<1> DEFINE t == InstallIncoming(s, c)
           a == [id |-> c.id, caller |-> c.from]
<1>1. s \in Session
    BY DEF Good
<1>2. Ringing(c.id, c.from) \in Call /\ a \in Admission
    BY DEF Ringing, Call, Phases, ControlType, Admission
<1>3. t = [s EXCEPT !.call = Ringing(c.id, c.from), !.adm = a]
    BY DEF InstallIncoming
<1> HIDE DEF t, a
<1>4. /\ t \in Session /\ t.call = Ringing(c.id, c.from) /\ t.seq = s.seq
      /\ t.got = s.got /\ t.log = s.log /\ t.closed = s.closed
      /\ t.ends = s.ends /\ t.occ = s.occ
    BY <1>1, <1>2, <1>3 DEF Session
<1>5. Reserved(t) = Reserved(s)
    BY <1>4 DEF Reserved
<1>6. Good(t)
    BY <1>4, <1>5 DEF Good, Bounded
<1> QED
    BY <1>2, <1>4, <1>6 DEF t

-----------------------------------------------------------------------------
(* Handlers.                                                               *)

(* What a device knows of the call c it holds: whose it is, whom it may be *)
(* with, and which of two crossing calls it merged.                        *)
LocalCall(d, c) ==
    /\ c.dir = "caller" =>
          /\ c.caller = d /\ c.id[1] = d /\ c.phase \in {"outgoing", "active"}
          /\ c.sel = None \/ UserOf[c.sel] # UserOf[d]
          /\ c.merged # None => Rank[d] <= Rank[c.merged[1]]
    /\ c.dir = "callee" =>
          /\ c.phase # "outgoing" /\ c.caller = c.id[1]
          /\ UserOf[c.caller] # UserOf[d]
          /\ plan.engine[c.caller] = plan.engine[d]
          /\ c.sel \in {None, d}
          /\ c.merged # None => c.merged[1] = d /\ Rank[c.caller] < Rank[d]
    /\ c.phase = "active" =>
          c.sel \in Device /\ plan.engine[c.caller] = plan.engine[c.sel]

(* A control as device d may take it in.                                   *)
Heard(d, c) ==
    /\ c \in ControlType /\ c.from # d
    /\ c.act = "offer" => c.from = c.id[1]

SameCall(a, b) == a.id = b.id /\ a.dir = b.dir /\ a.caller = b.caller

(* How control c may change the call of device d from s to t, when `out`   *)
(* is published.                                                           *)
Installs(s, d, c, t) ==
    /\ c.act = "offer" /\ UserOf[c.from] # UserOf[d]
    /\ plan.engine[c.from] = plan.engine[d]
    /\ ~ClosedCallOffer(s, c.id) /\ t.log = s.log /\ t.closed = s.closed
    /\ t.call \in Call /\ t.call.id = c.id /\ t.call.dir = "callee"
    /\ t.call.caller = c.from /\ t.call.sel = None
    /\ \/ t.call.phase = "ringing" /\ t.call.merged = None
       \/ /\ t.call.phase = "accepting" /\ s.call # None
          /\ s.call.phase = "outgoing" /\ t.call.merged = s.call.id
          /\ Rank[c.from] < Rank[d]

Merges(s, d, c, t) ==
    /\ c.act = "offer" /\ s.call # None /\ s.call.phase = "outgoing"
    /\ t.call \in Call /\ SameCall(t.call, s.call)
    /\ t.call.phase = "outgoing" /\ t.call.sel = s.call.sel
    /\ t.call.merged = c.id /\ ~(Rank[c.from] < Rank[d])
    /\ t.log = s.log /\ t.closed = s.closed

IsRefused(s, t) ==
    /\ s.call # None /\ t.call \in Call /\ SameCall(t.call, s.call)
    /\ t.call.phase = s.call.phase /\ t.call.sel = s.call.sel
    /\ t.call.merged = s.call.merged
    /\ t.log = s.log /\ t.closed = s.closed

Selects(s, d, c, t) ==
    /\ c.act = "answer" /\ s.call # None /\ s.call.dir = "caller"
    /\ s.call.phase # "active" /\ s.call.id = c.id
    /\ UserOf[c.from] # UserOf[d] /\ plan.engine[c.from] = plan.engine[d]
    /\ t.call \in Call /\ SameCall(t.call, s.call)
    /\ t.call.phase = "active" /\ t.call.sel = c.from
    /\ t.call.merged = s.call.merged
    /\ t.log = s.log /\ t.closed = s.closed

Joins(s, d, c, t) ==
    /\ c.act = "selected" /\ s.call # None /\ s.call.dir = "callee"
    /\ s.call.id = c.id /\ s.call.caller = c.from /\ c.receiver = d
    /\ t.call \in Call /\ SameCall(t.call, s.call)
    /\ t.call.phase = "active" /\ t.call.sel = d
    /\ t.call.merged = s.call.merged
    /\ t.log = s.log /\ t.closed = s.closed

CallEffect(s, d, c, ok, r) ==
    \/ r.s.call = s.call
    \/ r.s.call = None
    \/ Installs(s, d, c, r.s)
    \/ Merges(s, d, c, r.s)
    \/ IsRefused(s, r.s)
    \/ ok /\ Selects(s, d, c, r.s) /\ r.out = Selected(c.id, c.from)
    \/ Joins(s, d, c, r.s)

(* What enters the history: the call given up, or an offer refused for the *)
(* media protocol it speaks.                                               *)
LogEffect(s, d, c, t) ==
    \/ t.log = s.log
    \/ s.call # None /\ t.call = None /\ t.log = Append(s.log, s.call.id)
    \/ /\ c.act = "offer" /\ plan.engine[c.from] # plan.engine[d]
       /\ c.id \notin Range(s.log) /\ t.call = s.call
       /\ t.log = Append(s.log, c.id)

ClosedEffect(s, c, t) ==
    /\ \A x \in CallIds : Closed(t, x) =>
          \/ Closed(s, x) \/ x = c.id
          \/ s.call # None /\ x \in {s.call.id, s.call.merged}
    /\ t.call # None /\ ConfirmedClosed(t, t.call.id)
          => ConfirmedClosed(s, t.call.id)

(* A terminal control that is remembered ends the call that was held, or   *)
(* refuses one.                                                            *)
EndsEffect(s, t) ==
    \A x \in Range(t.ends) :
        \/ x \in Range(s.ends)
        \/ x.act = "decline"
        \/ /\ s.call # None /\ t.call = None
           /\ x.id = s.call.id /\ x.caller = s.call.caller

OutEffect(s, ok, r) ==
    r.out # None =>
        /\ r.out.act # "offer"
        /\ ok /\ r.out.act = "selected" =>
              /\ r.s.call # None /\ r.s.call.dir = "caller"
              /\ r.s.call.id = r.out.id /\ r.s.call.phase = "active"
              /\ r.s.call.sel = r.out.receiver
        /\ r.out.act = "end" =>
              /\ s.call # None /\ r.s.call = None
              /\ r.out.id = s.call.id /\ r.out.caller = s.call.caller

(* The caller's own end is the end.                                        *)
EndEffect(s, c, t) ==
    c.act = "end" /\ c.id[1] = c.from /\ t.call # None
        => t.call.id # c.id

Effect(s, d, c, ok, r) ==
    /\ Good(r.s) /\ r.s.seq = s.seq /\ r.s.got = s.got
    /\ r.out \in Publication \cup {None}
    /\ CallEffect(s, d, c, ok, r) /\ LogEffect(s, d, c, r.s)
    /\ ClosedEffect(s, c, r.s) /\ EndsEffect(s, r.s)
    /\ OutEffect(s, ok, r) /\ EndEffect(s, c, r.s)

LEMMA QuietFields ==
    ASSUME NEW s
    PROVE  Quiet(s).s = s /\ Quiet(s).out = None
BY DEF Quiet

LEMMA PublishesFields ==
    ASSUME NEW s, NEW out
    PROVE  Publishes(s, out).s = s /\ Publishes(s, out).out = out
BY DEF Publishes

LEMMA ControlFields ==
    ASSUME NEW id \in CallIds, NEW act \in Actions,
           NEW caller \in Device \cup {None}, NEW receiver \in Device \cup {None},
           NEW reason \in Reasons
    PROVE  LET c == Control(id, act, caller, receiver, reason)
           IN  /\ c \in Publication /\ c.id = id /\ c.act = act
               /\ c.caller = caller /\ c.receiver = receiver
BY DEF Control, Publication, Actions, Reasons

(* Nothing happens to the call.                                            *)
LEMMA StillEffect ==
    ASSUME NEW s, Good(s), NEW d \in Device, NEW c, NEW ok \in BOOLEAN,
           NEW r, r.s = s, r.out \in Publication \cup {None},
           OutEffect(s, ok, r),
           c.act # "end" \/ s.call = None \/ s.call.id # c.id \/ c.id[1] # c.from
    PROVE  Effect(s, d, c, ok, r)
BY DEF Effect, CallEffect, LogEffect, ClosedEffect, EndsEffect, EndEffect

(* receive_call_offer                                                      *)
LEMMA OfferEffect ==
    ASSUME NEW s, Good(s), NEW d \in Device, NEW c, Heard(d, c),
           c.act = "offer", UserOf[c.from] # UserOf[d],
           NEW blocked \in BOOLEAN, NEW ok \in BOOLEAN,
           s.call # None => LocalCall(d, s.call)
    PROVE  Effect(s, d, c, ok, ReceiveOffer(s, d, c, blocked))
<1>0. PICK r : r = ReceiveOffer(s, d, c, blocked)
    OBVIOUS
<1> SUFFICES Effect(s, d, c, ok, r)
    BY <1>0
<1>1. /\ c \in ControlType /\ c.id \in CallIds /\ c.from \in Device
      /\ s \in Session /\ s.call \in Call \cup {None}
    BY DEF Heard, ControlType, Good, Session
<1>a. /\ Answer(c.id) \in Publication /\ Answer(c.id).act = "answer"
      /\ \A reason \in Reasons : /\ Decline(c.id, reason) \in Publication
                                 /\ Decline(c.id, reason).act = "decline"
  <2>1. /\ Control(c.id, "answer", None, None, "") \in Publication
        /\ Control(c.id, "answer", None, None, "").act = "answer"
      BY <1>1 DEF Control, Publication
  <2>2. ASSUME NEW reason \in Reasons
        PROVE  /\ Control(c.id, "decline", None, None, reason) \in Publication
               /\ Control(c.id, "decline", None, None, reason).act = "decline"
      BY <1>1 DEF Control, Publication, Reasons
  <2> QED
      BY <2>1, <2>2 DEF Answer, Decline
<1>2. CASE r = Quiet(s)
    BY <1>2, QuietFields, StillEffect DEF OutEffect
<1>3. CASE r = Publishes(s, Decline(c.id, "busy")) \/ r = Publishes(s, Answer(c.id))
  <2>1. /\ r.s = s /\ r.out \in Publication
        /\ r.out.act \in {"answer", "decline"}
    <3>1. Decline(c.id, "busy") \in Publication /\ Decline(c.id, "busy").act = "decline"
        BY <1>a DEF Reasons
    <3> QED
        BY <1>3, <1>a, <3>1, PublishesFields
  <2>2. OutEffect(s, ok, r)
      BY <2>1 DEF OutEffect
  <2> QED
      BY <2>1, <2>2, StillEffect
<1>4. CASE /\ r = RefuseOtherEngine(s, c) /\ plan.engine[c.from] # plan.engine[d]
           /\ ~ClosedCallOffer(s, c.id)
  <2> DEFINE m == Remember(s, c.id, "decline", "update")
             t == [m EXCEPT !.log = Append(@, c.id)]
  <2>1. /\ Good(m) /\ Keeps(s, m) /\ m.closed = s.closed
        /\ \A x \in Range(m.ends) : x \in Range(s.ends) \/ x.act = "decline"
    <3>1. "update" \in Reasons
        BY DEF Reasons
    <3> QED
        BY <3>1, <1>1, RememberKeeps
  <2>2. r = Publishes(t, Decline(c.id, "update"))
      BY <1>4 DEF RefuseOtherEngine
  <2> HIDE DEF m
  <2>3. m \in Session /\ m.log = s.log /\ Append(m.log, c.id) \in Seq(CallIds)
    <3>1. m \in Session /\ m.log = s.log /\ m.log \in Seq(CallIds)
        BY <2>1 DEF Good, Keeps, Session
    <3> QED
        BY <3>1, <1>1, AppendTo
  <2>4. /\ t \in Session /\ t.log = Append(s.log, c.id) /\ t.seq = m.seq
        /\ t.got = m.got /\ t.call = m.call /\ t.closed = m.closed
        /\ t.ends = m.ends /\ t.occ = m.occ
      BY <2>3 DEF Session
  <2> HIDE DEF t
  <2>5. Good(t)
    <3>1. Reserved(t) = Reserved(m)
        BY <2>4 DEF Reserved
    <3> QED
        BY <3>1, <2>1, <2>4 DEF Good, Bounded
  <2>6. r.s = t /\ r.out = Decline(c.id, "update")
      BY <2>2, PublishesFields
  <2>7. c.id \notin Range(s.log)
      BY <1>4 DEF ClosedCallOffer
  <2>8. r.out \in Publication /\ r.out.act = "decline"
      BY <2>6, <1>a DEF Reasons
  <2>9. t.call = s.call /\ t.seq = s.seq /\ t.got = s.got /\ t.closed = s.closed
      BY <2>1, <2>4 DEF Keeps
  <2>10. ClosedEffect(s, c, t)
      BY <2>9 DEF ClosedEffect, Closed, ConfirmedClosed
  <2>11. EndsEffect(s, t)
      BY <2>1, <2>4 DEF EndsEffect
  <2>12. CallEffect(s, d, c, ok, r)
      BY <2>6, <2>9 DEF CallEffect
  <2>13. LogEffect(s, d, c, t)
      BY <2>4, <2>7, <2>9, <1>4 DEF LogEffect
  <2>14. OutEffect(s, ok, r)
      BY <2>8 DEF OutEffect
  <2>15. EndEffect(s, c, t)
      BY DEF EndEffect
  <2> QED
      BY <2>5, <2>6, <2>8, <2>9, <2>10, <2>11, <2>12, <2>13, <2>14, <2>15 DEF Effect
<1>5. CASE /\ r = Quiet(InstallIncoming(s, c)) /\ ~ClosedCallOffer(s, c.id)
           /\ plan.engine[c.from] = plan.engine[d]
  <2> DEFINE t == InstallIncoming(s, c)
  <2>1. /\ Good(t) /\ t.call = Ringing(c.id, c.from) /\ t.call \in Call
        /\ t.seq = s.seq /\ t.got = s.got /\ t.log = s.log
        /\ t.closed = s.closed /\ t.ends = s.ends
      BY <1>1, InstallKeeps
  <2>2. r.s = t /\ r.out = None
      BY <1>5, QuietFields
  <2> HIDE DEF t
  <2>3. Installs(s, d, c, t)
      BY <2>1, <1>5 DEF Installs, Ringing
  <2>4. ClosedEffect(s, c, t) /\ EndsEffect(s, t)
      BY <2>1 DEF ClosedEffect, EndsEffect, Closed, ConfirmedClosed
  <2>5. CallEffect(s, d, c, ok, r)
      BY <2>2, <2>3 DEF CallEffect
  <2>6. LogEffect(s, d, c, t)
      BY <2>1 DEF LogEffect
  <2>7. OutEffect(s, ok, r)
      BY <2>2 DEF OutEffect
  <2>8. EndEffect(s, c, t)
      BY DEF EndEffect
  <2> QED
      BY <2>1, <2>2, <2>4, <2>5, <2>6, <2>7, <2>8 DEF Effect
<1>6. CASE /\ r = MergeCrossCall(s, d, c) /\ ~ClosedCallOffer(s, c.id)
           /\ plan.engine[c.from] = plan.engine[d]
           /\ s.call # None /\ s.call.phase = "outgoing"
  <2>1. s.call \in Call
      BY <1>1, <1>6
  <2>2. CASE Yields(d, c)
    <3> DEFINE u == InstallIncoming(s, c)
               call == [Ringing(c.id, c.from) EXCEPT !.merged = s.call.id,
                                                     !.phase = "accepting"]
               t == [u EXCEPT !.call.merged = s.call.id,
                              !.call.phase = "accepting"]
    <3>1. /\ Good(u) /\ u.call = Ringing(c.id, c.from) /\ u.call \in Call
          /\ u.seq = s.seq /\ u.got = s.got /\ u.log = s.log
          /\ u.closed = s.closed /\ u.ends = s.ends
        BY <1>1, InstallKeeps
    <3>2. r.s = t /\ r.out = Answer(c.id)
        BY <1>6, <2>2, PublishesFields DEF MergeCrossCall
    <3> HIDE DEF u
    <3>3. /\ t.call.id = c.id /\ t.call.dir = "callee" /\ t.call.caller = c.from
          /\ t.call.sel = None /\ t.call.phase = "accepting"
          /\ t.call.merged = s.call.id /\ t.call \in Call
          /\ t \in Session /\ t.seq = u.seq /\ t.got = u.got /\ t.log = u.log
          /\ t.closed = u.closed /\ t.ends = u.ends /\ t.occ = u.occ
      <4>1. /\ u \in Session /\ u.call \in Call /\ s.call.id \in CallIds
            /\ u.call.id = c.id /\ u.call.dir = "callee"
            /\ u.call.caller = c.from /\ u.call.sel = None
          BY <3>1, <2>1 DEF Good, Call, Ringing
      <4> QED
          BY <4>1 DEF Session, Call, Phases
    <3> HIDE DEF t
    <3>4. Good(t)
      <4>1. Reserved(t) = Reserved(u)
          BY <3>3 DEF Reserved
      <4> QED
          BY <4>1, <3>1, <3>3 DEF Good, Bounded
    <3>5. Installs(s, d, c, t)
        BY <3>1, <3>3, <1>6, <2>2 DEF Installs, Yields
    <3>6. ClosedEffect(s, c, t) /\ EndsEffect(s, t)
        BY <3>1, <3>3 DEF ClosedEffect, EndsEffect, Closed, ConfirmedClosed
    <3>7. CallEffect(s, d, c, ok, r)
        BY <3>2, <3>5 DEF CallEffect
    <3>8. LogEffect(s, d, c, t)
        BY <3>1, <3>3 DEF LogEffect
    <3>9. OutEffect(s, ok, r)
        BY <3>2, <1>a DEF OutEffect
    <3>10. EndEffect(s, c, t)
        BY DEF EndEffect
    <3> QED
        BY <3>1, <3>2, <3>3, <3>4, <3>6, <1>a, <3>7, <3>8, <3>9, <3>10 DEF Effect
  <2>3. CASE ~Yields(d, c)
    <3> DEFINE t == [s EXCEPT !.call.merged = c.id]
    <3>1. r.s = t /\ r.out = None
        BY <1>6, <2>3, QuietFields DEF MergeCrossCall
    <3>2. /\ t.call \in Call /\ SameCall(t.call, s.call)
          /\ t.call.phase = "outgoing" /\ t.call.sel = s.call.sel
          /\ t.call.merged = c.id
          /\ t \in Session /\ t.seq = s.seq /\ t.got = s.got /\ t.log = s.log
          /\ t.closed = s.closed /\ t.ends = s.ends /\ t.occ = s.occ
        BY <1>1, <1>6, <2>1 DEF Session, Call, SameCall
    <3> HIDE DEF t
    <3>3. Good(t)
      <4>1. Reserved(t) = Reserved(s)
          BY <3>2 DEF Reserved
      <4> QED
          BY <4>1, <3>2 DEF Good, Bounded
    <3>4. Merges(s, d, c, t)
        BY <3>2, <1>6, <2>3 DEF Merges, Yields
    <3>5. ClosedEffect(s, c, t) /\ EndsEffect(s, t)
        BY <3>2 DEF ClosedEffect, EndsEffect, Closed, ConfirmedClosed
    <3>6. CallEffect(s, d, c, ok, r)
        BY <3>1, <3>4 DEF CallEffect
    <3>7. LogEffect(s, d, c, t)
        BY <3>2 DEF LogEffect
    <3>8. OutEffect(s, ok, r)
        BY <3>1 DEF OutEffect
    <3>9. EndEffect(s, c, t)
        BY DEF EndEffect
    <3> QED
        BY <3>1, <3>2, <3>3, <3>5, <3>6, <3>7, <3>8, <3>9 DEF Effect
  <2> QED
      BY <2>2, <2>3
<1> QED
    BY <1>0, <1>2, <1>3, <1>4, <1>5, <1>6 DEF ReceiveOffer

(* The held call is over, and its end is remembered.                       *)
Finished(s, t) ==
    /\ Good(t) /\ t.seq = s.seq /\ t.got = s.got /\ t.gone = s.gone
    /\ t.used = s.used /\ t.call = None /\ t.log = Append(s.log, s.call.id)
    /\ \A x \in CallIds : Closed(t, x) =>
          x \in {s.call.id, s.call.merged} \/ Closed(s, x)
    /\ \A x \in Range(t.ends) :
          \/ x \in Range(s.ends)
          \/ x.act = "decline"
          \/ x.id = s.call.id /\ x.caller = s.call.caller

LEMMA RememberFinish ==
    ASSUME NEW s, Good(s), s.call # None, NEW id \in CallIds,
           NEW act \in {"end", "decline"}, act = "end" => id = s.call.id,
           NEW reason \in Reasons
    PROVE  Finished(s, FinishCall(Remember(s, id, act, reason)))
<1>1. PICK m : m = Remember(s, id, act, reason)
    OBVIOUS
<1>2. /\ Good(m) /\ Keeps(s, m) /\ m.closed = s.closed
      /\ \A x \in Range(m.ends) :
            \/ x \in Range(s.ends)
            \/ x.act = act /\ x.id = id /\ (act = "end" => x.caller = s.call.caller)
    BY <1>1, RememberKeeps
<1>3. PICK t : t = FinishCall(m)
    OBVIOUS
<1>4. m.call = s.call /\ m.log = s.log /\ m.seq = s.seq /\ m.got = s.got
      /\ m.gone = s.gone /\ m.used = s.used
    BY <1>2 DEF Keeps
<1>5. /\ Good(t) /\ t.seq = m.seq /\ t.got = m.got /\ t.gone = m.gone
      /\ t.used = m.used /\ t.ends = m.ends
      /\ t.call = None /\ t.log = Append(m.log, m.call.id)
      /\ \A x \in CallIds : Closed(t, x) =>
            x \in {m.call.id, m.call.merged} \/ Closed(m, x)
    BY <1>2, <1>3, <1>4, FinishCallKeeps
<1>6. \A x \in CallIds : Closed(m, x) => Closed(s, x)
    BY <1>2 DEF Closed
<1>7. Finished(s, t)
    BY <1>2, <1>4, <1>5, <1>6 DEF Finished
<1> QED
    BY <1>1, <1>3, <1>7

(* A step that finishes the held call has an effect a control may have.    *)
LEMMA FinishedEffect ==
    ASSUME NEW s, s.call # None, NEW t, Finished(s, t), NEW d, NEW c,
           NEW ok \in BOOLEAN, NEW r, r.s = t,
           \/ r.out = None
           \/ /\ r.out \in Publication /\ r.out.act = "end"
              /\ r.out.id = s.call.id /\ r.out.caller = s.call.caller
    PROVE  Effect(s, d, c, ok, r)
<1>1. CallEffect(s, d, c, ok, r)
    BY DEF CallEffect, Finished
<1>2. LogEffect(s, d, c, t)
    BY DEF LogEffect, Finished
<1>3. ClosedEffect(s, c, t)
    BY DEF ClosedEffect, Finished
<1>4. EndsEffect(s, t)
    BY DEF EndsEffect, Finished
<1>5. OutEffect(s, ok, r)
    BY DEF OutEffect, Finished
<1>6. EndEffect(s, c, t)
    BY DEF EndEffect, Finished
<1> QED
    BY <1>1, <1>2, <1>3, <1>4, <1>5, <1>6 DEF Effect, Finished

LEMMA EndFields ==
    ASSUME NEW s, Good(s), s.call # None, NEW reason \in Reasons
    PROVE  LET out == End(s.call.id, s.call.caller, reason)
           IN  /\ out \in Publication /\ out.act = "end"
               /\ out.id = s.call.id /\ out.caller = s.call.caller
<1>1. s.call.id \in CallIds /\ s.call.caller \in Device
    BY DEF Good, Session, Call
<1> QED
    BY <1>1 DEF End, Control, Publication, Reasons

(* call_end                                                                *)
LEMMA EndCallEffect ==
    ASSUME NEW s, Good(s), s.call # None, NEW reason \in Reasons, NEW d, NEW c,
           NEW ok \in BOOLEAN
    PROVE  /\ Effect(s, d, c, ok, EndCall(s, reason))
           /\ Finished(s, EndCall(s, reason).s)
           /\ EndCall(s, reason).out = End(s.call.id, s.call.caller, reason)
<1>1. PICK r : r = EndCall(s, reason)
    OBVIOUS
<1>2. PICK t : t = FinishCall(Remember(s, s.call.id, "end", reason))
    OBVIOUS
<1>3. r.s = t /\ r.out = End(s.call.id, s.call.caller, reason)
    BY <1>1, <1>2, PublishesFields DEF EndCall
<1>4. s.call.id \in CallIds
    BY DEF Good, Session, Call
<1>5. Finished(s, t)
    BY <1>2, <1>4, RememberFinish
<1>6. Effect(s, d, c, ok, r)
    BY <1>3, <1>5, EndFields, FinishedEffect
<1> QED
    BY <1>1, <1>3, <1>5, <1>6

(* receive_call_answer                                                     *)
LEMMA AnswerEffect ==
    ASSUME NEW s, Good(s), NEW d \in Device, NEW c, Heard(d, c),
           c.act = "answer", UserOf[c.from] # UserOf[d], NEW ok \in BOOLEAN,
           s.call # None => LocalCall(d, s.call)
    PROVE  Effect(s, d, c, ok, ReceiveAnswer(s, d, c, ok))
<1>0. PICK r : r = ReceiveAnswer(s, d, c, ok)
    OBVIOUS
<1> SUFFICES Effect(s, d, c, ok, r)
    BY <1>0
<1>1. /\ c \in ControlType /\ c.id \in CallIds /\ c.from \in Device
      /\ s \in Session /\ s.call \in Call \cup {None}
    BY DEF Heard, ControlType, Good, Session
<1>2. CASE ~Holds(s, c.id) \/ s.call.dir # "caller"
  <2>1. r.s = s /\ r.out = None
      BY <1>0, <1>2, QuietFields DEF ReceiveAnswer
  <2> QED
      BY <2>1, StillEffect DEF OutEffect
<1>3. CASE ~(~Holds(s, c.id) \/ s.call.dir # "caller")
  <2>1. s.call \in Call /\ s.call.dir = "caller" /\ s.call.id = c.id /\ s.call # None
      BY <1>1, <1>3 DEF Holds
  <2>2. ASSUME NEW x \in Device \cup {None}
        PROVE  /\ Selected(c.id, x) \in Publication
               /\ Selected(c.id, x).act = "selected"
               /\ Selected(c.id, x).id = c.id /\ Selected(c.id, x).receiver = x
      BY <1>1 DEF Selected, Control, Publication
  <2>3. CASE s.call.phase = "active"
    <3>1. r.s = s /\ r.out = Selected(c.id, s.call.sel)
        BY <1>0, <1>3, <2>3, PublishesFields DEF ReceiveAnswer
    <3>2. s.call.sel \in Device \cup {None}
        BY <2>1 DEF Call
    <3>3. OutEffect(s, ok, r)
        BY <3>1, <3>2, <2>1, <2>2, <2>3 DEF OutEffect
    <3> QED
        BY <3>1, <3>2, <3>3, <2>2, StillEffect
  <2>4. CASE s.call.phase # "active" /\ plan.engine[c.from] # plan.engine[d]
    <3>1. r = EndCall(s, "update") /\ "update" \in Reasons
        BY <1>0, <1>3, <2>4 DEF ReceiveAnswer, Reasons
    <3> QED
        BY <3>1, <2>1, EndCallEffect
  <2>5. CASE s.call.phase # "active" /\ plan.engine[c.from] = plan.engine[d]
    <3> DEFINE t == [s EXCEPT !.call.sel = c.from, !.call.phase = "active"]
    <3>1. r.s = (IF ok THEN t ELSE s) /\ r.out = Selected(c.id, c.from)
        BY <1>0, <1>3, <2>5, PublishesFields DEF ReceiveAnswer
    <3>2. CASE ~ok
      <4>1. r.s = s /\ OutEffect(s, ok, r)
          BY <3>1, <3>2, <1>1, <2>2 DEF OutEffect
      <4> QED
          BY <4>1, <3>1, <1>1, <2>2, StillEffect
    <3>3. CASE ok
      <4>1. /\ t.call \in Call /\ SameCall(t.call, s.call)
            /\ t.call.phase = "active" /\ t.call.sel = c.from
            /\ t.call.merged = s.call.merged
            /\ t \in Session /\ t.seq = s.seq /\ t.got = s.got /\ t.log = s.log
            /\ t.closed = s.closed /\ t.ends = s.ends /\ t.occ = s.occ
          BY <1>1, <2>1 DEF Session, Call, SameCall, Phases
      <4> HIDE DEF t
      <4>2. Good(t)
        <5>1. Reserved(t) = Reserved(s)
            BY <4>1 DEF Reserved
        <5> QED
            BY <5>1, <4>1 DEF Good, Bounded
      <4>3. r.s = t
          BY <3>1, <3>3
      <4>4. CallEffect(s, d, c, ok, r)
          BY <4>1, <4>3, <3>1, <3>3, <2>1, <2>5 DEF CallEffect, Selects
      <4>5. LogEffect(s, d, c, t) /\ EndsEffect(s, t) /\ EndEffect(s, c, t)
          BY <4>1 DEF LogEffect, EndsEffect, EndEffect
      <4>6. ClosedEffect(s, c, t)
          BY <4>1 DEF ClosedEffect, Closed, ConfirmedClosed
      <4>7. OutEffect(s, ok, r)
        <5>1. t.call # None /\ t.call.dir = "caller" /\ t.call.id = c.id
            BY <4>1, <2>1, NoneAssumption DEF SameCall
        <5> QED
            BY <5>1, <4>1, <4>3, <3>1, <1>1, <2>2 DEF OutEffect
      <4>8. r.out \in Publication
          BY <3>1, <1>1, <2>2
      <4> QED
          BY <4>1, <4>2, <4>3, <4>4, <4>5, <4>6, <4>7, <4>8 DEF Effect
    <3> QED
        BY <3>2, <3>3
  <2> QED
      BY <2>3, <2>4, <2>5
<1> QED
    BY <1>2, <1>3

(* receive_call_selection                                                  *)
LEMMA SelectionEffect ==
    ASSUME NEW s, Good(s), NEW d \in Device, NEW c, Heard(d, c),
           c.act = "selected", UserOf[c.from] # UserOf[d], NEW ok \in BOOLEAN
    PROVE  Effect(s, d, c, ok, ReceiveSelection(s, d, c))
<1>0. PICK r : r = ReceiveSelection(s, d, c)
    OBVIOUS
<1> SUFFICES Effect(s, d, c, ok, r)
    BY <1>0
<1>1. /\ c \in ControlType /\ c.id \in CallIds /\ c.from \in Device
      /\ s \in Session /\ s.call \in Call \cup {None}
    BY DEF Heard, ControlType, Good, Session
<1>2. PICK o : o = ObserveSelection(s, d, c)
    OBVIOUS
<1>3. Good(o) /\ KeepsBook(s, o)
    BY <1>1, <1>2, ObserveSelectionKeeps
<1>4. CASE r = Quiet(s)
  <2>1. r.s = s /\ r.out = None
      BY <1>4, QuietFields
  <2> QED
      BY <2>1, StillEffect DEF OutEffect
<1>5. CASE r = Quiet(o) \/ r = Quiet([o EXCEPT !.call = None])
  <2>1. PICK t : r.s = t /\ r.out = None /\ (t = o \/ t = [o EXCEPT !.call = None])
      BY <1>5, QuietFields
  <2>2. /\ Good(t) /\ (t.call = o.call \/ t.call = None) /\ t.seq = o.seq
        /\ t.got = o.got /\ t.log = o.log /\ t.closed = o.closed /\ t.ends = o.ends
    <3>1. CASE t = o
        BY <3>1, <1>3
    <3>2. CASE t = [o EXCEPT !.call = None]
        BY <3>2, <1>3, CallOnlyGood
    <3> QED
        BY <3>1, <3>2, <2>1
  <2>3. /\ (t.call = s.call \/ t.call = None) /\ t.seq = s.seq /\ t.got = s.got
        /\ t.log = s.log /\ t.closed = s.closed /\ t.ends = s.ends
      BY <2>2, <1>3 DEF KeepsBook, Keeps
  <2>4. CallEffect(s, d, c, ok, r) /\ OutEffect(s, ok, r)
      BY <2>1, <2>3 DEF CallEffect, OutEffect
  <2>5. LogEffect(s, d, c, t) /\ EndsEffect(s, t) /\ EndEffect(s, c, t)
      BY <2>3 DEF LogEffect, EndsEffect, EndEffect
  <2>6. ClosedEffect(s, c, t)
      BY <2>3 DEF ClosedEffect, Closed, ConfirmedClosed
  <2> QED
      BY <2>1, <2>2, <2>3, <2>4, <2>5, <2>6 DEF Effect
<1>6. CASE /\ r = Quiet([s EXCEPT !.call.sel = d, !.call.phase = "active"])
           /\ s.call # None /\ s.call.id = c.id /\ s.call.caller = c.from
           /\ s.call.dir = "callee" /\ c.receiver = d
  <2> DEFINE t == [s EXCEPT !.call.sel = d, !.call.phase = "active"]
  <2>1. r.s = t /\ r.out = None
      BY <1>6, QuietFields
  <2>2. /\ t.call \in Call /\ SameCall(t.call, s.call)
        /\ t.call.phase = "active" /\ t.call.sel = d
        /\ t.call.merged = s.call.merged
        /\ t \in Session /\ t.seq = s.seq /\ t.got = s.got /\ t.log = s.log
        /\ t.closed = s.closed /\ t.ends = s.ends /\ t.occ = s.occ
    <3>1. s.call \in Call
        BY <1>1, <1>6
    <3> QED
        BY <3>1, <1>1 DEF Session, Call, SameCall, Phases
  <2> HIDE DEF t
  <2>3. Good(t)
    <3>1. Reserved(t) = Reserved(s)
        BY <2>2 DEF Reserved
    <3> QED
        BY <3>1, <2>2 DEF Good, Bounded
  <2>4. Joins(s, d, c, t)
      BY <2>2, <1>6 DEF Joins
  <2>5. CallEffect(s, d, c, ok, r) /\ OutEffect(s, ok, r)
      BY <2>1, <2>4 DEF CallEffect, OutEffect
  <2>6. LogEffect(s, d, c, t) /\ EndsEffect(s, t) /\ EndEffect(s, c, t)
      BY <2>2 DEF LogEffect, EndsEffect, EndEffect
  <2>7. ClosedEffect(s, c, t)
      BY <2>2 DEF ClosedEffect, Closed, ConfirmedClosed
  <2> QED
      BY <2>1, <2>2, <2>3, <2>5, <2>6, <2>7 DEF Effect
<1> QED
    BY <1>0, <1>2, <1>4, <1>5, <1>6 DEF ReceiveSelection, Holds

(* receive_call_termination.  The caller's own end always ends the call of *)
(* a callee device.                                                        *)
LEMMA TerminationEffect ==
    ASSUME NEW s, Good(s), NEW d \in Device, NEW c, Heard(d, c),
           c.act \in {"decline", "end"}, UserOf[c.from] # UserOf[d],
           NEW ok \in BOOLEAN, s.call # None => LocalCall(d, s.call)
    PROVE  Effect(s, d, c, ok, ReceiveTermination(s, d, c))
<1>0. PICK r : r = ReceiveTermination(s, d, c)
    OBVIOUS
<1> SUFFICES Effect(s, d, c, ok, r)
    BY <1>0
<1>1. /\ c \in ControlType /\ c.id \in CallIds /\ c.from \in Device
      /\ s \in Session /\ s.call \in Call \cup {None}
    BY DEF Heard, ControlType, Good, Session
<1>2. PICK t : t = ReceiveEnd(s, c.from, c.id)
    OBVIOUS
<1>3. /\ Good(t) /\ t.seq = s.seq /\ t.got = s.got /\ t.call = s.call
      /\ t.log = s.log /\ t.gone = s.gone /\ t.used = s.used
      /\ t.closed = s.closed /\ t.ends = s.ends
    BY <1>1, <1>2, ReceiveEndKeeps DEF KeepsBook, Keeps
<1>4. PICK u : u = Close(t, c.id, TRUE)
    OBVIOUS
<1>5. /\ Good(u) /\ u.seq = s.seq /\ u.got = s.got /\ u.call = s.call
      /\ u.log = s.log /\ u.ends = s.ends
      /\ \A x \in CallIds : Closed(u, x) => x = c.id \/ Closed(t, x)
      /\ \A x \in CallIds : ConfirmedClosed(u, x) => x = c.id \/ ConfirmedClosed(t, x)
    BY <1>1, <1>3, <1>4, CloseForGood DEF Keeps
<1>6. /\ \A x : Closed(t, x) <=> Closed(s, x)
      /\ \A x : ConfirmedClosed(t, x) <=> ConfirmedClosed(s, x)
    BY <1>3 DEF Closed, ConfirmedClosed
<1>7. CASE ~MatchesId(s.call, c.id)
  <2>1. s.call = None \/ s.call.id # c.id
      BY <1>7 DEF MatchesId
  <2>2. PICK v : r.s = v /\ r.out = None /\ (v = t \/ v = u)
      BY <1>0, <1>2, <1>4, <1>7, QuietFields DEF ReceiveTermination
  <2>3. /\ Good(v) /\ v.seq = s.seq /\ v.got = s.got /\ v.call = s.call
        /\ v.log = s.log /\ v.ends = s.ends
      BY <2>2, <1>3, <1>5
  <2>4. ClosedEffect(s, c, v)
    <3>1. \A x \in CallIds : /\ Closed(v, x) => x = c.id \/ Closed(s, x)
                             /\ ConfirmedClosed(v, x) => x = c.id \/ ConfirmedClosed(s, x)
        BY <2>2, <1>5, <1>6
    <3>2. v.call # None => v.call.id \in CallIds /\ v.call.id # c.id
        BY <2>1, <2>3, <1>1 DEF Call
    <3> QED
        BY <3>1, <3>2 DEF ClosedEffect
  <2>5. CallEffect(s, d, c, ok, r) /\ OutEffect(s, ok, r)
      BY <2>2, <2>3 DEF CallEffect, OutEffect
  <2>6. LogEffect(s, d, c, v) /\ EndsEffect(s, v) /\ EndEffect(s, c, v)
      BY <2>1, <2>3 DEF LogEffect, EndsEffect, EndEffect
  <2> QED
      BY <2>2, <2>3, <2>4, <2>5, <2>6 DEF Effect
<1>8. CASE MatchesId(s.call, c.id)
  <2>1. s.call # None /\ s.call \in Call /\ s.call.id \in CallIds /\ LocalCall(d, s.call)
      BY <1>1, <1>8 DEF MatchesId, Call
  <2>2. c.act = "end" /\ c.id[1] = c.from /\ s.call.id = c.id =>
            Permitted(s.call, c) /\ s.call.phase # "outgoing"
      \* the call of another device: this one is a callee
      BY <2>1 DEF LocalCall, Permitted, Heard, Call
  <2>3. PICK w : w = Close(t, s.call.id, TRUE)
      OBVIOUS
  <2>4. /\ Good(w) /\ w.seq = s.seq /\ w.got = s.got /\ w.call = s.call
        /\ w.log = s.log /\ w.ends = s.ends /\ w.gone = s.gone /\ w.used = s.used
        /\ \A x \in CallIds : Closed(w, x) => x = s.call.id \/ Closed(t, x)
      BY <2>1, <2>3, <1>3, CloseForGood DEF Keeps
  <2>5. CASE ~Permitted(s.call, c)
    <3>1. r.s = t /\ r.out = None
        BY <1>0, <1>2, <1>8, <2>5, QuietFields DEF ReceiveTermination
    <3>2. ClosedEffect(s, c, t)
        BY <1>3, <1>6 DEF ClosedEffect
    <3>3. CallEffect(s, d, c, ok, r) /\ OutEffect(s, ok, r)
        BY <3>1, <1>3 DEF CallEffect, OutEffect
    <3>4. LogEffect(s, d, c, t) /\ EndsEffect(s, t)
        BY <1>3 DEF LogEffect, EndsEffect
    <3>5. EndEffect(s, c, t)
        BY <1>3, <2>2, <2>5 DEF EndEffect
    <3> QED
        BY <3>1, <3>2, <3>3, <3>4, <3>5, <1>3 DEF Effect
  <2>6. CASE Permitted(s.call, c) /\ c.reason = "update" /\ s.call.phase = "outgoing"
    <3> DEFINE v == [t EXCEPT !.call.refused = TRUE]
    <3>1. r.s = v /\ r.out = None
        BY <1>0, <1>2, <1>8, <2>6, QuietFields DEF ReceiveTermination
    <3>2. /\ v.call \in Call /\ SameCall(v.call, s.call)
          /\ v.call.phase = s.call.phase /\ v.call.sel = s.call.sel
          /\ v.call.merged = s.call.merged
          /\ v \in Session /\ v.seq = t.seq /\ v.got = t.got /\ v.log = t.log
          /\ v.closed = t.closed /\ v.ends = t.ends /\ v.occ = t.occ
      <4>1. t \in Session /\ t.call \in Call /\ t.call = s.call
          BY <1>3, <2>1 DEF Good
      <4> QED
          BY <4>1 DEF Session, Call, SameCall
    <3> HIDE DEF v
    <3>3. Good(v)
      <4>1. Reserved(v) = Reserved(t)
          BY <3>2 DEF Reserved
      <4> QED
          BY <4>1, <3>2, <1>3 DEF Good, Bounded
    <3>4. IsRefused(s, v)
        BY <3>2, <1>3, <2>1 DEF IsRefused
    <3>5. CallEffect(s, d, c, ok, r) /\ OutEffect(s, ok, r)
        BY <3>1, <3>4 DEF CallEffect, OutEffect
    <3>6. LogEffect(s, d, c, v) /\ EndsEffect(s, v)
        BY <3>2, <1>3 DEF LogEffect, EndsEffect
    <3>7. ClosedEffect(s, c, v)
        BY <3>2, <1>3 DEF ClosedEffect, Closed, ConfirmedClosed
    <3>8. EndEffect(s, c, v)
        BY <2>2, <2>6, <3>2 DEF EndEffect, SameCall
    <3> QED
        BY <3>1, <3>2, <3>3, <3>5, <3>6, <3>7, <3>8, <1>3 DEF Effect
  <2>7. CASE Permitted(s.call, c) /\ ~(c.reason = "update" /\ s.call.phase = "outgoing")
             /\ s.call.dir = "caller"
    <3>1. PICK v : v = FinishCall(Remember(w, s.call.id, "end", "ended"))
        OBVIOUS
    <3>2. r.s = v /\ r.out = End(s.call.id, s.call.caller, "ended")
      <4>1. r = Publishes(FinishCall(Remember(
                    Close(ReceiveEnd(s, c.from, c.id), s.call.id, TRUE),
                    s.call.id, "end", "ended")),
                    End(s.call.id, s.call.caller, "ended"))
          BY <1>0, <1>8, <2>7 DEF ReceiveTermination
      <4>2. r = Publishes(v, End(s.call.id, s.call.caller, "ended"))
          BY <4>1, <1>2, <2>3, <3>1
      <4> QED
          BY <4>2, PublishesFields
    <3>3. Finished(w, v)
      <4>1. "ended" \in Reasons
          BY DEF Reasons
      <4> QED
          BY <4>1, <3>1, <2>1, <2>4, RememberFinish
    <3>4. Finished(s, v)
        BY <3>3, <2>4, <1>6 DEF Finished
    <3>5. "ended" \in Reasons
        BY DEF Reasons
    <3> QED
        BY <3>2, <3>4, <3>5, <2>1, EndFields, FinishedEffect
  <2>8. CASE Permitted(s.call, c) /\ ~(c.reason = "update" /\ s.call.phase = "outgoing")
             /\ s.call.dir # "caller"
    <3>1. PICK v : v = FinishCall(w)
        OBVIOUS
    <3>2. r.s = v /\ r.out = None
      <4>1. r = Quiet(FinishCall(
                    Close(ReceiveEnd(s, c.from, c.id), s.call.id, TRUE)))
          BY <1>0, <1>8, <2>8 DEF ReceiveTermination
      <4>2. r = Quiet(v)
          BY <4>1, <1>2, <2>3, <3>1
      <4> QED
          BY <4>2, QuietFields
    <3>3. /\ Good(v) /\ v.seq = w.seq /\ v.got = w.got /\ v.gone = w.gone
          /\ v.used = w.used /\ v.ends = w.ends
          /\ v.call = None /\ v.log = Append(w.log, w.call.id)
          /\ \A x \in CallIds : Closed(v, x) =>
                x \in {w.call.id, w.call.merged} \/ Closed(w, x)
        BY <3>1, <2>1, <2>4, FinishCallKeeps
    <3>4. Finished(s, v)
        BY <3>3, <2>4, <1>6 DEF Finished
    <3> QED
        BY <3>2, <3>4, <2>1, FinishedEffect
  <2> QED
      BY <2>5, <2>6, <2>7, <2>8
<1> QED
    BY <1>7, <1>8

(* observe_own_call, on the state alone.                                   *)
LEMMA OwnKeeps ==
    ASSUME NEW s, Good(s), NEW d \in Device, NEW c, Heard(d, c)
    PROVE  \E t : LET v == ObserveOwn(s, c)
                  IN  /\ Good(v) /\ v.seq = s.seq /\ v.got = s.got /\ v.call = s.call
                      /\ v.log = s.log /\ v.ends = s.ends /\ v.closed = t.closed
                      /\ \A x \in CallIds : Closed(t, x) => x = c.id \/ Closed(s, x)
                      /\ AuthoritativeEnd(s, c) => \A x \in CallIds :
                            ConfirmedClosed(t, x) => x = c.id \/ ConfirmedClosed(s, x)
                      /\ ~AuthoritativeEnd(s, c) => t = s
<1>1. /\ c \in ControlType /\ c.id \in CallIds /\ c.from \in Device /\ c.from # d
      /\ c.caller \in Device \cup {None} /\ c.receiver \in Device \cup {None}
      /\ s \in Session /\ s.call \in Call \cup {None} /\ None \notin Device
    BY CallsAssumption DEF Heard, ControlType, Good, Session
<1>2. PICK t : t = IF AuthoritativeEnd(s, c)
                   THEN FinishOccupancy(Close(s, c.id, TRUE), c.id, TRUE) ELSE s
    OBVIOUS
<1>3. /\ Good(t) /\ Keeps(s, t) /\ t.ends = s.ends
      /\ \A x \in CallIds : Closed(t, x) => x = c.id \/ Closed(s, x)
      /\ AuthoritativeEnd(s, c) => \A x \in CallIds :
            ConfirmedClosed(t, x) => x = c.id \/ ConfirmedClosed(s, x)
      /\ ~AuthoritativeEnd(s, c) => t = s
  <2>1. CASE ~AuthoritativeEnd(s, c)
      BY <2>1, <1>2 DEF Keeps
  <2>2. CASE AuthoritativeEnd(s, c)
    <3>1. PICK u : u = Close(s, c.id, TRUE)
        OBVIOUS
    <3>2. /\ Good(u) /\ Keeps(s, u) /\ u.ends = s.ends
          /\ \A x \in CallIds : Closed(u, x) => x = c.id \/ Closed(s, x)
          /\ \A x \in CallIds : ConfirmedClosed(u, x) => x = c.id \/ ConfirmedClosed(s, x)
        BY <1>1, <3>1, CloseForGood
    <3>3. Good(t) /\ KeepsBook(u, t)
      <4>1. TRUE \in BOOLEAN
          OBVIOUS
      <4>2. t = FinishOccupancy(u, c.id, TRUE)
          BY <1>2, <2>2, <3>1
      <4> QED
          BY <4>1, <4>2, <1>1, <3>2, FinishOccupancyKeeps, Zenon
    <3> QED
        BY <3>2, <3>3, <2>2 DEF KeepsBook, Keeps, Closed, ConfirmedClosed
  <2> QED
      BY <2>1, <2>2
<1>4. PICK v : v = ObserveOwn(s, c)
    OBVIOUS
<1>5. Good(v) /\ KeepsBook(t, v)
  <2>1. PICK caller \in Device \cup {None} :
            caller = IF Holds(t, c.id) THEN t.call.caller ELSE c.from
      BY <1>1, <1>3 DEF Holds, Good, Session, Call
  <2>2. \/ v = Release(t, c.from, c.id)
        \/ v = Reserve(t, c.from, c.id, c.caller, c.receiver)
        \/ v = Reserve(t, c.from, c.id, c.from, c.receiver)
        \/ v = Reserve(t, c.from, c.id, caller, None)
    <3>1. v = CASE c.act \in {"end", "decline"} -> Release(t, c.from, c.id)
          [] c.act = "occupied" ->
                Reserve(t, c.from, c.id, c.caller, c.receiver)
          [] c.act = "selected" ->
                Reserve(t, c.from, c.id, c.from, c.receiver)
          [] OTHER -> Reserve(t, c.from, c.id, caller, None)
        BY <1>2, <1>4, <2>1 DEF ObserveOwn
    <3> QED
        BY <3>1
  <2>3. c.from \in Device \cup {None} /\ None \in Device \cup {None}
      BY <1>1
  <2>4. \A a, b \in Device \cup {None} :
            /\ Good(Reserve(t, c.from, c.id, a, b))
            /\ KeepsBook(t, Reserve(t, c.from, c.id, a, b))
      BY <1>1, <1>3, ReserveKeeps
  <2>5. /\ Good(Release(t, c.from, c.id))
        /\ KeepsBook(t, Release(t, c.from, c.id))
      BY <1>1, <1>3, ReleaseKeeps
  <2> QED
      BY <2>1, <2>2, <2>3, <2>4, <2>5, <1>1
<1>6. /\ v.seq = s.seq /\ v.got = s.got /\ v.call = s.call /\ v.log = s.log
      /\ v.ends = s.ends /\ v.closed = t.closed
    BY <1>3, <1>5 DEF KeepsBook, Keeps
<1> QED
    BY <1>3, <1>4, <1>5, <1>6

(* observe_own_call: the held call is not touched.  A control of one's own *)
(* user never closes the call this device holds, because neither its       *)
(* caller nor its receiver is another device of the user.                  *)
LEMMA OwnEffect ==
    ASSUME NEW s, Good(s), NEW d \in Device, NEW c, Heard(d, c),
           UserOf[c.from] = UserOf[d], NEW ok \in BOOLEAN,
           s.call # None => LocalCall(d, s.call)
    PROVE  Effect(s, d, c, ok, Quiet(ObserveOwn(s, c)))
<1>1. /\ c \in ControlType /\ c.id \in CallIds /\ c.from \in Device /\ c.from # d
      /\ c.caller \in Device \cup {None} /\ c.receiver \in Device \cup {None}
      /\ s \in Session /\ s.call \in Call \cup {None} /\ None \notin Device
    BY CallsAssumption DEF Heard, ControlType, Good, Session
<1>2. PICK v : v = ObserveOwn(s, c)
    OBVIOUS
<1>3. PICK t :
          /\ Good(v) /\ v.seq = s.seq /\ v.got = s.got /\ v.call = s.call
          /\ v.log = s.log /\ v.ends = s.ends /\ v.closed = t.closed
          /\ \A x \in CallIds : Closed(t, x) => x = c.id \/ Closed(s, x)
          /\ AuthoritativeEnd(s, c) => \A x \in CallIds :
                ConfirmedClosed(t, x) => x = c.id \/ ConfirmedClosed(s, x)
          /\ ~AuthoritativeEnd(s, c) => t = s
    BY <1>2, OwnKeeps
<1>7. PICK r : r = Quiet(v)
    OBVIOUS
<1>8. r.s = v /\ r.out = None
    BY <1>7, QuietFields
<1>9. s.call # None /\ s.call.id = c.id => ~AuthoritativeEnd(s, c)
  <2> SUFFICES ASSUME s.call # None, s.call.id = c.id, AuthoritativeEnd(s, c)
               PROVE  FALSE
      OBVIOUS
  <2>1. c.from \in {s.call.caller, s.call.sel}
      BY DEF AuthoritativeEnd, MatchesId
  <2>2. s.call \in Call /\ LocalCall(d, s.call)
      BY <1>1
  <2> QED
      BY <2>1, <2>2, <1>1 DEF LocalCall, Call
<1>10. ClosedEffect(s, c, v)
  <2>1. \A x : /\ Closed(v, x) <=> Closed(t, x)
               /\ ConfirmedClosed(v, x) <=> ConfirmedClosed(t, x)
      BY <1>3 DEF Closed, ConfirmedClosed
  <2>2. ASSUME s.call # None, ConfirmedClosed(t, s.call.id)
        PROVE  ConfirmedClosed(s, s.call.id)
    <3>1. s.call.id \in CallIds
        BY <1>1, <2>2 DEF Call
    <3> QED
        BY <3>1, <2>2, <1>3, <1>9
  <2> QED
      BY <2>1, <2>2, <1>3 DEF ClosedEffect
<1>11. EndEffect(s, c, v)
  <2> SUFFICES ASSUME c.act = "end", c.id[1] = c.from, s.call # None, s.call.id = c.id
               PROVE  FALSE
      BY <1>3 DEF EndEffect
  <2> QED
      BY <1>1 DEF LocalCall, Call
<1>12. CallEffect(s, d, c, ok, r) /\ OutEffect(s, ok, r)
    BY <1>3, <1>8 DEF CallEffect, OutEffect
<1>13. LogEffect(s, d, c, v) /\ EndsEffect(s, v)
    BY <1>3 DEF LogEffect, EndsEffect
<1>14. Effect(s, d, c, ok, r)
    BY <1>3, <1>8, <1>10, <1>11, <1>12, <1>13 DEF Effect
<1> QED
    BY <1>2, <1>7, <1>14

(* apply_call_control: whatever the control, and whoever sent it.          *)
LEMMA ApplyEffect ==
    ASSUME NEW s, Good(s), NEW d \in Device, NEW c, Heard(d, c),
           NEW blocked \in BOOLEAN, NEW ok \in BOOLEAN,
           s.call # None => LocalCall(d, s.call) /\ ~ConfirmedClosed(s, s.call.id)
    PROVE  Effect(s, d, c, ok, ApplyControl(s, d, c, blocked, ok))
<1>0. PICK r : r = ApplyControl(s, d, c, blocked, ok)
    OBVIOUS
<1> SUFFICES Effect(s, d, c, ok, r)
    BY <1>0
<1>1. c.act \in Actions
    BY DEF Heard, ControlType, Actions
<1>2. CASE ConfirmedClosed(s, c.id)
  <2>1. r.s = s /\ r.out = None
      BY <1>0, <1>2, QuietFields DEF ApplyControl
  <2>2. s.call = None \/ s.call.id # c.id
      BY <1>2
  <2> QED
      BY <2>1, <2>2, StillEffect DEF OutEffect
<1>3. CASE ~ConfirmedClosed(s, c.id) /\ UserOf[c.from] = UserOf[d]
  <2>1. r = Quiet(ObserveOwn(s, c))
      BY <1>0, <1>3 DEF ApplyControl
  <2> QED
      BY <2>1, <1>3, OwnEffect
<1>4. CASE ~ConfirmedClosed(s, c.id) /\ UserOf[c.from] # UserOf[d]
  <2>0. r = CASE c.act = "offer" -> ReceiveOffer(s, d, c, blocked)
              [] c.act = "answer" -> ReceiveAnswer(s, d, c, ok)
              [] c.act = "occupied" -> Quiet(s)
              [] c.act = "selected" -> ReceiveSelection(s, d, c)
              [] c.act \in {"decline", "end"} -> ReceiveTermination(s, d, c)
      BY <1>0, <1>4 DEF ApplyControl
  <2>1. CASE c.act = "offer"
    <3>1. r = ReceiveOffer(s, d, c, blocked)
        BY <2>0, <2>1
    <3> QED
        BY <3>1, <2>1, <1>4, OfferEffect
  <2>2. CASE c.act = "answer"
    <3>1. r = ReceiveAnswer(s, d, c, ok)
        BY <2>0, <2>2
    <3> QED
        BY <3>1, <2>2, <1>4, AnswerEffect
  <2>3. CASE c.act = "occupied"
    <3>1. r.s = s /\ r.out = None
        BY <2>0, <2>3, QuietFields
    <3> QED
        BY <3>1, <2>3, StillEffect DEF OutEffect
  <2>4. CASE c.act = "selected"
    <3>1. r = ReceiveSelection(s, d, c)
        BY <2>0, <2>4
    <3> QED
        BY <3>1, <2>4, <1>4, SelectionEffect
  <2>5. CASE c.act \in {"decline", "end"}
    <3>1. r = ReceiveTermination(s, d, c)
        BY <2>0, <2>5
    <3> QED
        BY <3>1, <2>5, <1>4, TerminationEffect
  <2> QED
      BY <2>1, <2>2, <2>3, <2>4, <2>5, <1>1 DEF Actions
<1> QED
    BY <1>2, <1>3, <1>4

(* The same, after the sequence number of the control was taken.           *)
Taken(s, t, c) ==
    /\ Good(t) /\ t.seq = s.seq /\ t.call = s.call /\ t.log = s.log
    /\ t.closed = s.closed /\ t.ends = s.ends /\ t.gone = s.gone
    /\ \A e \in Device : s.got[e] <= t.got[e]
    /\ c.seq <= t.got[c.from]

(* handle_call_control: the sequence number is taken first, and the rest   *)
(* is as if the control came alone.                                        *)
LEMMA HandlerTakes ==
    ASSUME NEW s, Good(s), NEW d \in Device, NEW c, Heard(d, c),
           NEW blocked \in BOOLEAN, NEW ok \in BOOLEAN,
           Fresh(s, c) \/ Terminal(c)
    PROVE  \E t : /\ Taken(s, t, c)
                  /\ HandleControl(s, d, c, blocked, ok)
                        = ApplyControl(t, d, c, blocked, ok)
<1>1. /\ c \in ControlType /\ c.from \in Device /\ c.seq \in Nat
      /\ s \in Session /\ s.got \in [Device -> Nat]
    BY DEF Heard, ControlType, Good, Session
<1>2. PICK u : u = Receive(s, c)
    OBVIOUS
<1>3. /\ u \in Session /\ u.seq = s.seq /\ u.call = s.call /\ u.log = s.log
      /\ u.closed = s.closed /\ u.ends = s.ends /\ u.gone = s.gone
      /\ u.occ = s.occ
      /\ \A e \in Device : s.got[e] <= u.got[e]
      /\ c.seq <= u.got[c.from]
  <2>1. CASE Fresh(s, c)
    <3> DEFINE w == [s EXCEPT !.got[c.from] = c.seq]
    <3>1. u = w
        BY <2>1, <1>2 DEF Receive
    <3>2. /\ w \in Session /\ w.seq = s.seq /\ w.call = s.call /\ w.log = s.log
          /\ w.closed = s.closed /\ w.ends = s.ends /\ w.gone = s.gone
          /\ w.occ = s.occ
          /\ \A e \in Device : w.got[e] = IF e = c.from THEN c.seq ELSE s.got[e]
        BY <1>1 DEF Session
    <3> HIDE DEF w
    <3> QED
        BY <3>1, <3>2, <2>1, <1>1 DEF Fresh
  <2>2. CASE ~Fresh(s, c)
      BY <2>2, <1>1, <1>2 DEF Receive, Fresh
  <2> QED
      BY <2>1, <2>2
<1>a. PICK used : used = IF Terminal(c) THEN u.used \cup {<<c.from, c.seq>>} ELSE u.used
    OBVIOUS
<1>b. used \in SUBSET (Device \X Nat)
    BY <1>1, <1>3, <1>a DEF Session
<1>4. PICK t : t = [u EXCEPT !.used = used]
    OBVIOUS
<1>5. /\ t \in Session /\ t.seq = u.seq /\ t.call = u.call /\ t.log = u.log
      /\ t.closed = u.closed /\ t.ends = u.ends /\ t.gone = u.gone
      /\ t.occ = u.occ /\ t.got = u.got
    BY <1>3, <1>b, <1>4 DEF Session
<1>6. Good(t)
  <2>1. Reserved(t) = Reserved(s)
      BY <1>3, <1>5 DEF Reserved
  <2> QED
      BY <2>1, <1>3, <1>5 DEF Good, Bounded
<1>7. Taken(s, t, c)
    BY <1>3, <1>5, <1>6 DEF Taken
<1>8. HandleControl(s, d, c, blocked, ok) = ApplyControl(t, d, c, blocked, ok)
    BY <1>2, <1>a, <1>4 DEF HandleControl
<1> QED
    BY <1>7, <1>8

(* Only a fresh control that is not terminal can install a call.           *)
LEMMA HandlerEffect ==
    ASSUME NEW s, Good(s), NEW d \in Device, NEW c, Heard(d, c),
           NEW blocked \in BOOLEAN, NEW ok \in BOOLEAN,
           s.call # None => LocalCall(d, s.call) /\ ~ConfirmedClosed(s, s.call.id),
           Fresh(s, c) \/ Terminal(c)
    PROVE  \E t : /\ Taken(s, t, c)
                  /\ Effect(t, d, c, ok, HandleControl(s, d, c, blocked, ok))
<1>1. PICK t : /\ Taken(s, t, c)
               /\ HandleControl(s, d, c, blocked, ok) = ApplyControl(t, d, c, blocked, ok)
    BY HandlerTakes
<1>2. /\ Good(t)
      /\ t.call # None => LocalCall(d, t.call) /\ ~ConfirmedClosed(t, t.call.id)
    BY <1>1 DEF Taken, ConfirmedClosed
<1>3. Effect(t, d, c, ok, ApplyControl(t, d, c, blocked, ok))
    BY <1>2, ApplyEffect
<1> QED
    BY <1>1, <1>3

-----------------------------------------------------------------------------
(* Steps.  Every step but a restart moves one device d from dev[d] to h,   *)
(* and hands `out` to the network unless it is None.                       *)

History == [served : SUBSET CallIds, quit : SUBSET CallIds,
            heard : SUBSET CallIds]

TypeInv ==
    /\ plan \in PlanType /\ sent \subseteq ControlType
    /\ dev \in [Device -> Session] /\ disk \in [Device -> Record]
    /\ past \in [Device -> History]
    /\ \A d \in Device :
          /\ Bounded(dev[d]) /\ Len(disk[d].closed) <= ClosedCap
          /\ dev[d].seq <= plan.maxSeq[d] /\ disk[d].seq <= dev[d].seq

(* Some control names the call.                                            *)
Named(id) == \E m \in sent : m.id = id

Starts(s, d, h, out) ==
    /\ h.call \in Call /\ ~Named(h.call.id) /\ h.call.id[1] = d
    /\ h.call.dir = "caller" /\ h.call.caller = d /\ h.call.phase = "outgoing"
    /\ h.call.sel = None /\ h.call.merged = None
    /\ out # None /\ out.act = "offer" /\ out.id = h.call.id
    /\ h.log = s.log /\ h.closed = s.closed

Accepts(s, h) ==
    /\ s.call # None /\ s.call.phase \in {"ringing", "accepting"}
    /\ h.call \in Call /\ SameCall(h.call, s.call)
    /\ h.call.phase = "accepting" /\ h.call.sel = s.call.sel
    /\ h.call.merged = s.call.merged
    /\ h.log = s.log /\ h.closed = s.closed

CallMove(s, d, h, out) ==
    \/ h.call = s.call
    \/ h.call = None
    \/ Starts(s, d, h, out)
    \/ Accepts(s, h)
    \/ IsRefused(s, h)
    \/ \E c \in sent :
          /\ c.from # d
          /\ \/ Installs(s, d, c, h) /\ Fresh(s, c)
             \/ Merges(s, d, c, h)
             \/ Selects(s, d, c, h) /\ out # None /\ out = Selected(c.id, c.from)
             \/ Joins(s, d, c, h)

LogMove(s, d, h) ==
    \/ h.log = s.log
    \/ s.call # None /\ h.call = None /\ h.log = Append(s.log, s.call.id)
    \/ \E c \in sent :
          /\ c.from # d /\ c.act = "offer"
          /\ plan.engine[c.from] # plan.engine[d]
          /\ c.id \notin Range(s.log) /\ h.call = s.call
          /\ h.log = Append(s.log, c.id)

ClosedMove(s, h) ==
    /\ \A x \in CallIds : Closed(h, x) =>
          \/ Closed(s, x) \/ Named(x)
          \/ s.call # None /\ x \in {s.call.id, s.call.merged}
    /\ h.call # None /\ ConfirmedClosed(h, h.call.id)
          => ConfirmedClosed(s, h.call.id)

OutMove(s, h, out) ==
    out # None =>
        /\ out.act = "offer" =>
              /\ h.call # None /\ h.call.dir = "caller"
              /\ h.call.id = out.id /\ h.call.phase = "outgoing"
        /\ out.act = "selected" =>
              /\ h.call # None /\ h.call.dir = "caller"
              /\ h.call.id = out.id /\ h.call.phase = "active"
              /\ h.call.sel = out.receiver
        /\ out.act = "end" =>
              \/ /\ s.call # None /\ h.call = None
                 /\ out.id = s.call.id /\ out.caller = s.call.caller
              \/ /\ h.call = s.call
                 /\ \E x \in Range(s.ends) :
                       x.act = "end" /\ out.id = x.id /\ out.caller = x.caller

Saves(d, h) == disk' = [disk EXCEPT ![d] = Durable(h)]

HeardMove(d, h) ==
    /\ past' \in [Device -> History]
    /\ \A e \in Device \ {d} : past'[e] = past[e]
    /\ \/ past'[d].heard = past[d].heard
       \/ \E c \in sent :
             /\ c.act = "end" /\ c.caller = c.from
             /\ past'[d].heard = past[d].heard \cup {c.id}
             /\ Saves(d, h) /\ c.seq <= h.got[c.from]
             /\ c.id[1] = c.from => ~Holds(h, c.id)

(* What a step does to the device, the record and the network.             *)
Settles(d, h, out) ==
    /\ Good(h) /\ dev' = [dev EXCEPT ![d] = h] /\ plan' = plan
    /\ dev[d].seq <= h.seq /\ h.seq <= plan.maxSeq[d]
    /\ disk' = disk \/ Saves(d, h)
    /\ out \in Publication \cup {None}
    /\ out = None => sent' = sent
    /\ out # None => /\ sent' = sent \cup {Stamp(d, out, h.seq)}
                     /\ dev[d].seq < h.seq /\ Saves(d, h)

Move(d, h, out) ==
    /\ d \in Device /\ Settles(d, h, out)
    /\ \A e \in Device : dev[d].got[e] <= h.got[e]
    /\ CallMove(dev[d], d, h, out) /\ LogMove(dev[d], d, h)
    /\ ClosedMove(dev[d], h) /\ EndsEffect(dev[d], h)
    /\ OutMove(dev[d], h, out) /\ HeardMove(d, h)

AlikeButSeq(s, h) ==
    /\ h.got = s.got /\ h.call = s.call /\ h.log = s.log /\ h.gone = s.gone
    /\ h.used = s.used /\ h.closed = s.closed /\ h.ends = s.ends
    /\ h.occ = s.occ

(* publish_authenticated_call                                              *)
LEMMA SettleFields ==
    ASSUME TypeInv, NEW d \in Device, NEW r, NEW outcome, plan' = plan,
           Good(r.s), r.s.seq = dev[d].seq, r.out \in Publication \cup {None},
           Settle(d, r, outcome)
    PROVE  \E h : /\ Settles(d, h, IF outcome = "sent" THEN r.out ELSE None)
                  /\ AlikeButSeq(r.s, h)
                  /\ outcome # "refused" => Saves(d, h)
<1>1. /\ dev[d].seq \in Nat /\ dev[d].seq <= plan.maxSeq[d]
      /\ plan.maxSeq[d] \in Nat /\ r.s \in Session
    BY DEF TypeInv, Session, Good, PlanType
<1>2. PICK n \in Nat : n = dev[d].seq + 1
    BY <1>1
<1>3. PICK h : h = IF r.out = None THEN r.s ELSE [r.s EXCEPT !.seq = n]
    OBVIOUS
<1>4. /\ r.out # None => n <= plan.maxSeq[d]
      /\ dev' = [dev EXCEPT ![d] = h]
      /\ disk' = IF outcome = "refused" THEN disk
                 ELSE [disk EXCEPT ![d] = Durable(h)]
      /\ sent' = IF r.out = None \/ outcome # "sent" THEN sent
                 ELSE sent \cup {Stamp(d, r.out, n)}
    BY <1>2, <1>3 DEF Settle
<1>5. /\ h \in Session /\ AlikeButSeq(r.s, h)
      /\ h.seq = IF r.out = None THEN dev[d].seq ELSE n
  <2>1. CASE r.out = None
      BY <2>1, <1>1, <1>3 DEF AlikeButSeq
  <2>2. CASE r.out # None
    <3>1. h = [r.s EXCEPT !.seq = n]
        BY <2>2, <1>3
    <3> QED
        BY <3>1, <2>2, <1>1 DEF Session, AlikeButSeq
  <2> QED
      BY <2>1, <2>2
<1>6. Good(h)
  <2>1. Reserved(h) = Reserved(r.s)
      BY <1>5 DEF Reserved, AlikeButSeq
  <2> QED
      BY <2>1, <1>5 DEF Good, Bounded, AlikeButSeq
<1>7. PICK out : out = IF outcome = "sent" THEN r.out ELSE None
    OBVIOUS
<1>8. outcome # "refused" => Saves(d, h)
    BY <1>4 DEF Saves
<1>9. out # None => r.out = out /\ outcome = "sent" /\ h.seq = n
    BY <1>5, <1>7
<1>10. Settles(d, h, out)
  <2>1. dev[d].seq <= h.seq /\ h.seq <= plan.maxSeq[d]
      BY <1>1, <1>2, <1>4, <1>5
  <2>2. disk' = disk \/ Saves(d, h)
      BY <1>4 DEF Saves
  <2>3. out = None => sent' = sent
      BY <1>4, <1>7
  <2>4. out # None => /\ sent' = sent \cup {Stamp(d, out, h.seq)}
                      /\ dev[d].seq < h.seq /\ Saves(d, h)
      BY <1>1, <1>2, <1>4, <1>8, <1>9
  <2>5. out \in Publication \cup {None}
      BY <1>7
  <2> QED
      BY <1>4, <1>6, <2>1, <2>2, <2>3, <2>4, <2>5 DEF Settles
<1> QED
    BY <1>5, <1>7, <1>8, <1>10

LEMMA HeldIdsType ==
    ASSUME NEW s, Good(s)
    PROVE  HeldIds(s) \in SUBSET CallIds
BY DEF HeldIds, Good, Session, Call

LEMMA GivesUpType ==
    ASSUME NEW s, Good(s), NEW c, NEW r, r.out \in Publication \cup {None}
    PROVE  GivesUp(s, c, r) \in SUBSET CallIds
<1>1. HeldIds(s) \in SUBSET CallIds
    BY HeldIdsType
<1>2. r.out # None => r.out.id \in CallIds
    BY DEF Publication
<1> QED
    BY <1>1, <1>2 DEF GivesUp

LEMMA NoteFields ==
    ASSUME TypeInv, NEW d \in Device, NEW h, Good(h), dev' = [dev EXCEPT ![d] = h],
           NEW quit \in SUBSET CallIds, NEW heard \in SUBSET CallIds,
           Note(d, quit, heard)
    PROVE  /\ past' \in [Device -> History]
           /\ \A e \in Device \ {d} : past'[e] = past[e]
           /\ past'[d].heard = past[d].heard \cup heard
           /\ past'[d].quit = past[d].quit \cup quit
<1>1. past \in [Device -> History] /\ past[d] \in History /\ dev'[d] = h
    BY DEF TypeInv
<1>2. PICK serving : serving = Serving(h)
    OBVIOUS
<1>3. serving \in SUBSET CallIds
    BY <1>2 DEF Serving, Good, Session, Call
<1>4. PICK x : x = [served |-> past[d].served \cup serving,
                    quit |-> past[d].quit \cup quit,
                    heard |-> past[d].heard \cup heard]
    OBVIOUS
<1>5. /\ x \in History /\ x.heard = past[d].heard \cup heard
      /\ x.quit = past[d].quit \cup quit
    BY <1>1, <1>3, <1>4 DEF History
<1>6. past' = [past EXCEPT ![d] = x]
    BY <1>1, <1>2, <1>4 DEF Note
<1> QED
    BY <1>1, <1>5, <1>6

(* A step that hears of no end.                                            *)
LEMMA QuietNote ==
    ASSUME TypeInv, NEW d \in Device, NEW h, NEW out, Settles(d, h, out),
           NEW quit \in SUBSET CallIds, Note(d, quit, {})
    PROVE  HeardMove(d, h)
<1>1. /\ past' \in [Device -> History]
      /\ \A e \in Device \ {d} : past'[e] = past[e]
      /\ past'[d].heard = past[d].heard \cup {}
    BY NoteFields DEF Settles
<1> QED
    BY <1>1 DEF HeardMove

(* The call, the history and the remembered ends stay as they are.         *)
LEMMA IdleMove ==
    ASSUME TypeInv, NEW d \in Device, NEW h, NEW out, Settles(d, h, out),
           AlikeButSeq(dev[d], h), OutMove(dev[d], h, out), HeardMove(d, h)
    PROVE  Move(d, h, out)
<1>1. dev[d] \in Session
    BY DEF TypeInv
<1>2. \A e \in Device : dev[d].got[e] <= h.got[e]
    BY <1>1 DEF AlikeButSeq, Session
<1>3. CallMove(dev[d], d, h, out) /\ LogMove(dev[d], d, h)
    BY DEF CallMove, LogMove, AlikeButSeq
<1>4. ClosedMove(dev[d], h)
    BY DEF ClosedMove, Closed, ConfirmedClosed, AlikeButSeq
<1>5. EndsEffect(dev[d], h)
    BY DEF EndsEffect, AlikeButSeq
<1> QED
    BY <1>2, <1>3, <1>4, <1>5 DEF Move

(* The held call is over.                                                  *)
LEMMA FinishMove ==
    ASSUME TypeInv, NEW d \in Device, NEW t, NEW h, NEW out, dev[d].call # None,
           Settles(d, h, out), Finished(dev[d], t), AlikeButSeq(t, h),
           \/ out = None
           \/ out.act = "decline"
           \/ out.act = "end" /\ out.id = dev[d].call.id /\ out.caller = dev[d].call.caller,
           HeardMove(d, h)
    PROVE  Move(d, h, out)
<1>1. dev[d] \in Session
    BY DEF TypeInv
<1>2. /\ h.call = None /\ h.log = Append(dev[d].log, dev[d].call.id)
      /\ h.got = dev[d].got /\ h.ends = t.ends /\ h.closed = t.closed
    BY DEF Finished, AlikeButSeq
<1>3. \A e \in Device : dev[d].got[e] <= h.got[e]
    BY <1>1, <1>2 DEF Session
<1>4. CallMove(dev[d], d, h, out) /\ LogMove(dev[d], d, h)
    BY <1>2 DEF CallMove, LogMove
<1>5. ClosedMove(dev[d], h)
  <2>1. \A x \in CallIds : Closed(h, x) => Closed(t, x)
      BY <1>2 DEF Closed
  <2> QED
      BY <2>1, <1>2 DEF ClosedMove, Finished
<1>6. EndsEffect(dev[d], h)
    BY <1>2 DEF EndsEffect, Finished
<1>7. OutMove(dev[d], h, out)
    BY <1>2 DEF OutMove
<1> QED
    BY <1>3, <1>4, <1>5, <1>6, <1>7 DEF Move

LEMMA DeviceGood ==
    ASSUME TypeInv, NEW d \in Device
    PROVE  Good(dev[d]) /\ dev[d].seq \in Nat /\ dev[d] \in Session
BY DEF TypeInv, Good, Session

LEMMA CallStartMove ==
    ASSUME TypeInv, plan' = plan, NEW d \in Device, NEW outcome, CallStart(d, outcome)
    PROVE  \E h, out : Move(d, h, out)
<1>1. PICK n \in 1 .. MaxCalls :
          /\ \A m \in sent : m.id # <<d, n>>
          /\ Settle(d, Publishes([dev[d] EXCEPT !.call =
                           IF outcome = "sent" THEN Outgoing(<<d, n>>, d) ELSE None],
                                 Offer(<<d, n>>)), outcome)
    BY DEF CallStart
<1>2. PICK id : id = <<d, n>>
    OBVIOUS
<1>3. id \in CallIds /\ id[1] = d
    BY <1>2 DEF CallIds
<1>4. PICK s : s = dev[d]
    OBVIOUS
<1>5. Good(s) /\ s.seq \in Nat /\ s.call = None
    BY <1>4, DeviceGood DEF CallStart
<1>6. PICK call : call = IF outcome = "sent" THEN Outgoing(id, d) ELSE None
    OBVIOUS
<1>7. Outgoing(id, d) \in Call
    BY <1>3 DEF Outgoing, Call, Phases
<1>8. call \in Call \cup {None}
    BY <1>6, <1>7
<1>9. PICK t : t = [s EXCEPT !.call = call]
    OBVIOUS
<1>10. /\ Good(t) /\ t.call = call /\ t.seq = s.seq /\ t.got = s.got
       /\ t.log = s.log /\ t.closed = s.closed /\ t.ends = s.ends
    BY <1>5, <1>8, <1>9, CallOnlyGood
<1>11. PICK r : r = Publishes(t, Offer(id))
    OBVIOUS
<1>12. r.s = t /\ r.out = Offer(id) /\ Settle(d, r, outcome)
    BY <1>1, <1>2, <1>4, <1>6, <1>9, <1>11, PublishesFields
<1>13. Offer(id) \in Publication /\ Offer(id).act = "offer" /\ Offer(id).id = id
    BY <1>3 DEF Offer, Control, Publication
<1>14. PICK out : out = IF outcome = "sent" THEN r.out ELSE None
    OBVIOUS
<1>15. PICK h : Settles(d, h, out) /\ AlikeButSeq(t, h)
    BY <1>4, <1>10, <1>12, <1>13, <1>14, SettleFields
<1>16. HeardMove(d, h)
    BY <1>15, QuietNote DEF CallStart
<1>17. /\ h.call = call /\ h.got = s.got /\ h.log = s.log /\ h.closed = s.closed
       /\ h.ends = s.ends
    BY <1>10, <1>15 DEF AlikeButSeq
<1>18. \A e \in Device : s.got[e] <= h.got[e]
    BY <1>5, <1>17 DEF Good, Session
<1>19. CallMove(s, d, h, out)
  <2>1. CASE outcome # "sent"
      BY <2>1, <1>6, <1>17 DEF CallMove
  <2>2. CASE outcome = "sent"
    <3>1. h.call = Outgoing(id, d) /\ out = Offer(id) /\ out # None
        BY <2>2, <1>6, <1>12, <1>13, <1>14, <1>17, NoneAssumption
    <3>2. /\ h.call.id = id /\ h.call.dir = "caller" /\ h.call.caller = d
          /\ h.call.phase = "outgoing" /\ h.call.sel = None /\ h.call.merged = None
        BY <3>1 DEF Outgoing
    <3>3. ~Named(id)
        BY <1>1, <1>2 DEF Named
    <3>4. Starts(s, d, h, out)
        BY <3>1, <3>2, <3>3, <1>3, <1>7, <1>13, <1>17 DEF Starts
    <3> QED
        BY <3>4 DEF CallMove
  <2> QED
      BY <2>1, <2>2
<1>20. LogMove(s, d, h)
    BY <1>17 DEF LogMove
<1>21. ClosedMove(s, h)
    BY <1>17 DEF ClosedMove, Closed, ConfirmedClosed
<1>22. EndsEffect(s, h)
    BY <1>17 DEF EndsEffect
<1>23. OutMove(s, h, out)
  <2> SUFFICES ASSUME out # None PROVE OutMove(s, h, out)
      BY DEF OutMove
  <2>1. outcome = "sent" /\ out = Offer(id) /\ h.call = Outgoing(id, d)
      BY <1>6, <1>12, <1>14, <1>17
  <2>2. h.call # None
      BY <2>1, <1>7, NoneAssumption
  <2>3. h.call.id = id /\ h.call.dir = "caller" /\ h.call.phase = "outgoing"
      BY <2>1 DEF Outgoing
  <2>4. out.act = "offer" /\ out.id = id
      BY <2>1, <1>13
  <2> QED
      BY <2>2, <2>3, <2>4 DEF OutMove
<1> QED
    BY <1>4, <1>15, <1>16, <1>18, <1>19, <1>20, <1>21, <1>22, <1>23 DEF Move

LEMMA CallAcceptMove ==
    ASSUME TypeInv, plan' = plan, NEW d \in Device, NEW outcome, CallAccept(d, outcome)
    PROVE  \E h, out : Move(d, h, out)
<1>1. PICK s : s = dev[d]
    OBVIOUS
<1>2. /\ Good(s) /\ s \in Session /\ s.seq \in Nat /\ s.call # None
      /\ s.call \in Call /\ s.call.phase \in {"ringing", "accepting"}
    BY <1>1, DeviceGood DEF CallAccept, Session
<1>3. PICK t : t = IF outcome = "sent" THEN [s EXCEPT !.call.phase = "accepting"] ELSE s
    OBVIOUS
<1>4. /\ t \in Session /\ t.seq = s.seq /\ t.got = s.got /\ t.log = s.log
      /\ t.closed = s.closed /\ t.ends = s.ends /\ t.occ = s.occ
      /\ \/ t.call = s.call
         \/ /\ t.call \in Call /\ SameCall(t.call, s.call)
            /\ t.call.phase = "accepting" /\ t.call.sel = s.call.sel
            /\ t.call.merged = s.call.merged
    BY <1>2, <1>3 DEF Session, Call, SameCall, Phases
<1>5. Good(t)
  <2>1. Reserved(t) = Reserved(s)
      BY <1>4 DEF Reserved
  <2> QED
      BY <2>1, <1>2, <1>4 DEF Good, Bounded
<1>6. PICK r : r = Publishes(t, Answer(s.call.id))
    OBVIOUS
<1>7. r.s = t /\ r.out = Answer(s.call.id) /\ Settle(d, r, outcome)
    BY <1>1, <1>3, <1>6, PublishesFields DEF CallAccept
<1>8. Answer(s.call.id) \in Publication /\ Answer(s.call.id).act = "answer"
    BY <1>2 DEF Answer, Control, Publication, Call
<1>9. PICK out : out = IF outcome = "sent" THEN r.out ELSE None
    OBVIOUS
<1>10. PICK h : Settles(d, h, out) /\ AlikeButSeq(t, h)
    BY <1>1, <1>4, <1>5, <1>7, <1>8, <1>9, SettleFields
<1>11. HeardMove(d, h)
    BY <1>10, QuietNote DEF CallAccept
<1>12. /\ h.call = t.call /\ h.got = s.got /\ h.log = s.log /\ h.closed = s.closed
       /\ h.ends = s.ends
    BY <1>4, <1>10 DEF AlikeButSeq
<1>13. \A e \in Device : s.got[e] <= h.got[e]
    BY <1>2, <1>12 DEF Session
<1>14. CallMove(s, d, h, out)
    BY <1>2, <1>4, <1>12 DEF CallMove, Accepts
<1>15. LogMove(s, d, h)
    BY <1>12 DEF LogMove
<1>16. ClosedMove(s, h)
    BY <1>4, <1>12 DEF ClosedMove, Closed, ConfirmedClosed
<1>17. EndsEffect(s, h)
    BY <1>12 DEF EndsEffect
<1>18. OutMove(s, h, out)
    BY <1>7, <1>8, <1>9 DEF OutMove
<1> QED
    BY <1>1, <1>10, <1>11, <1>13, <1>14, <1>15, <1>16, <1>17, <1>18 DEF Move

LEMMA CallDeclineMove ==
    ASSUME TypeInv, plan' = plan, NEW d \in Device, NEW outcome, CallDecline(d, outcome)
    PROVE  \E h, out : Move(d, h, out)
<1>1. PICK s : s = dev[d]
    OBVIOUS
<1>2. Good(s) /\ s \in Session /\ s.seq \in Nat
    BY <1>1, DeviceGood
<1>3. PICK id \in HeldIds(s) :
          /\ Settle(d, Publishes(IF outcome = "sent"
                                 THEN FinishCall(Remember(s, id, "decline", "user"))
                                 ELSE s, Decline(id, "user")), outcome)
          /\ Note(d, IF outcome = "sent" THEN HeldIds(s) ELSE {}, {})
    BY <1>1 DEF CallDecline
<1>4. id \in CallIds /\ s.call # None
    BY <1>2, <1>3, HeldIdsType DEF HeldIds
<1>5. PICK t : t = IF outcome = "sent"
                   THEN FinishCall(Remember(s, id, "decline", "user")) ELSE s
    OBVIOUS
<1>6. /\ outcome = "sent" => Finished(s, t)
      /\ outcome # "sent" => t = s
      /\ Good(t) /\ t.seq = s.seq
  <2>1. CASE outcome # "sent"
      BY <2>1, <1>2, <1>5
  <2>2. CASE outcome = "sent"
    <3>1. "user" \in Reasons
        BY DEF Reasons
    <3>2. Finished(s, t)
        BY <3>1, <2>2, <1>2, <1>4, <1>5, RememberFinish
    <3> QED
        BY <2>2, <3>2 DEF Finished
  <2> QED
      BY <2>1, <2>2
<1>7. PICK r : r = Publishes(t, Decline(id, "user"))
    OBVIOUS
<1>8. r.s = t /\ r.out = Decline(id, "user") /\ Settle(d, r, outcome)
    BY <1>3, <1>5, <1>7, PublishesFields
<1>9. Decline(id, "user") \in Publication /\ Decline(id, "user").act = "decline"
    BY <1>4 DEF Decline, Control, Publication
<1>10. PICK out : out = IF outcome = "sent" THEN r.out ELSE None
    OBVIOUS
<1>11. PICK h : Settles(d, h, out) /\ AlikeButSeq(t, h)
    BY <1>1, <1>6, <1>8, <1>9, <1>10, SettleFields
<1>12. PICK quit \in SUBSET CallIds : Note(d, quit, {})
    BY <1>2, <1>3, HeldIdsType
<1>13. HeardMove(d, h)
    BY <1>11, <1>12, QuietNote
<1>14. CASE outcome = "sent"
    BY <1>14, <1>1, <1>4, <1>6, <1>8, <1>9, <1>10, <1>11, <1>13, FinishMove
<1>15. CASE outcome # "sent"
  <2>1. out = None /\ t = s
      BY <1>15, <1>6, <1>10
  <2> QED
      BY <2>1, <1>1, <1>11, <1>13, IdleMove DEF OutMove
<1> QED
    BY <1>14, <1>15

LEMMA CallEndMove ==
    ASSUME TypeInv, plan' = plan, NEW d \in Device, NEW outcome, CallEnd(d, outcome)
    PROVE  \E h, out : Move(d, h, out)
<1>1. PICK s : s = dev[d]
    OBVIOUS
<1>2. Good(s) /\ s \in Session /\ s.seq \in Nat /\ s.call # None
    BY <1>1, DeviceGood DEF CallEnd
<1>3. "ended" \in Reasons /\ TRUE \in BOOLEAN
    BY DEF Reasons
<1>4. PICK r : r = EndCall(s, "ended")
    OBVIOUS
<1>5. Finished(s, r.s) /\ r.out = End(s.call.id, s.call.caller, "ended")
    BY <1>2, <1>3, <1>4, EndCallEffect, Zenon
<1>6. /\ r.out \in Publication /\ r.out.act = "end"
      /\ r.out.id = s.call.id /\ r.out.caller = s.call.caller
    BY <1>2, <1>3, <1>5, EndFields
<1>7. Settle(d, r, outcome) /\ Note(d, HeldIds(s), {})
    BY <1>1, <1>4 DEF CallEnd
<1>8. Good(r.s) /\ r.s.seq = s.seq
    BY <1>5 DEF Finished
<1>9. PICK out : out = IF outcome = "sent" THEN r.out ELSE None
    OBVIOUS
<1>10. PICK h : Settles(d, h, out) /\ AlikeButSeq(r.s, h)
    BY <1>1, <1>6, <1>7, <1>8, <1>9, SettleFields
<1>11. PICK quit \in SUBSET CallIds : Note(d, quit, {})
    BY <1>2, <1>7, HeldIdsType
<1>12. HeardMove(d, h)
    BY <1>10, <1>11, QuietNote
<1> QED
    BY <1>1, <1>2, <1>5, <1>6, <1>9, <1>10, <1>12, FinishMove

LEMMA ResendMove ==
    ASSUME TypeInv, plan' = plan, NEW d \in Device, NEW outcome, Resend(d, outcome),
           dev[d].call # None => LocalCall(d, dev[d].call)
    PROVE  \E h, out : Move(d, h, out)
<1>1. PICK s : s = dev[d]
    OBVIOUS
<1>2. /\ Good(s) /\ s \in Session /\ s.seq \in Nat /\ s.call # None
      /\ s.call \in Call /\ LocalCall(d, s.call)
    BY <1>1, DeviceGood DEF Resend, Session
<1>3. PICK m : m = OutboundControl(s.call)
    OBVIOUS
<1>4. PICK r : r = Publishes(s, m)
    OBVIOUS
<1>5. r.s = s /\ r.out = m /\ Settle(d, r, outcome) /\ Note(d, {}, {})
    BY <1>1, <1>3, <1>4, PublishesFields DEF Resend
<1>6. /\ m \in Publication /\ m.act # "end"
      /\ m.act = "offer" => m.id = s.call.id /\ s.call.phase = "outgoing"
      /\ m.act = "selected" => /\ m.id = s.call.id /\ s.call.phase = "active"
                               /\ s.call.dir = "caller" /\ m.receiver = s.call.sel
  <2>1. /\ s.call.id \in CallIds /\ s.call.caller \in Device
        /\ s.call.sel \in Device \cup {None}
      BY <1>2 DEF Call
  <2>2. /\ Offer(s.call.id) \in Publication /\ Offer(s.call.id).act = "offer"
        /\ Offer(s.call.id).id = s.call.id
        /\ Answer(s.call.id) \in Publication /\ Answer(s.call.id).act = "answer"
      BY <2>1 DEF Offer, Answer, Control, Publication
  <2>3. /\ Selected(s.call.id, s.call.sel) \in Publication
        /\ Selected(s.call.id, s.call.sel).act = "selected"
        /\ Selected(s.call.id, s.call.sel).id = s.call.id
        /\ Selected(s.call.id, s.call.sel).receiver = s.call.sel
      BY <2>1 DEF Selected, Control, Publication
  <2>4. Occupied(s.call) \in Publication /\ Occupied(s.call).act = "occupied"
      BY <2>1 DEF Occupied, Control, Publication
  <2>5. \/ m = Offer(s.call.id) /\ s.call.phase = "outgoing"
        \/ m = Answer(s.call.id)
        \/ /\ m = Selected(s.call.id, s.call.sel)
           /\ s.call.phase = "active" /\ s.call.dir = "caller"
        \/ m = Occupied(s.call)
      BY <1>3 DEF OutboundControl
  <2> QED
      BY <2>2, <2>3, <2>4, <2>5
<1>7. PICK out : out = IF outcome = "sent" THEN r.out ELSE None
    OBVIOUS
<1>8. PICK h : Settles(d, h, out) /\ AlikeButSeq(s, h)
    BY <1>1, <1>2, <1>5, <1>6, <1>7, SettleFields
<1>9. HeardMove(d, h)
    BY <1>5, <1>8, QuietNote
<1>10. OutMove(s, h, out)
  <2>1. h.call = s.call
      BY <1>8 DEF AlikeButSeq
  <2>2. out # None => out = m
      BY <1>5, <1>7
  <2>3. s.call.phase = "outgoing" => s.call.dir = "caller"
      BY <1>2 DEF LocalCall, Call
  <2> QED
      BY <2>1, <2>2, <2>3, <1>2, <1>6 DEF OutMove
<1> QED
    BY <1>1, <1>8, <1>9, <1>10, IdleMove

LEMMA RetryEndMove ==
    ASSUME TypeInv, plan' = plan, NEW d \in Device, NEW outcome, RetryEnd(d, outcome)
    PROVE  \E h, out : Move(d, h, out)
<1>1. PICK s : s = dev[d]
    OBVIOUS
<1>2. /\ Good(s) /\ s \in Session /\ s.seq \in Nat
    BY <1>1, DeviceGood
<1>3. PICK x \in Range(s.ends) :
          Settle(d, Publishes(s, Control(x.id, x.act, x.caller, None, x.reason)), outcome)
    BY <1>1 DEF RetryEnd
<1>4. x \in Ending
  <2>1. s.ends \in Seq(Ending)
      BY <1>2 DEF Session
  <2>2. \A i \in DOMAIN s.ends : s.ends[i] \in Ending
      BY <2>1, LenProperties, ElementOfSeq
  <2> QED
      BY <2>2, <1>3 DEF Range
<1>5. PICK m : m = Control(x.id, x.act, x.caller, None, x.reason)
    OBVIOUS
<1>6. /\ m \in Publication /\ m.act = x.act /\ m.id = x.id /\ m.caller = x.caller
      /\ m.act \in {"end", "decline"}
    BY <1>4, <1>5 DEF Control, Publication, Ending, Reasons
<1>7. PICK r : r = Publishes(s, m)
    OBVIOUS
<1>8. r.s = s /\ r.out = m /\ Settle(d, r, outcome) /\ Note(d, {}, {})
    BY <1>1, <1>3, <1>5, <1>7, PublishesFields DEF RetryEnd
<1>9. PICK out : out = IF outcome = "sent" THEN r.out ELSE None
    OBVIOUS
<1>10. PICK h : Settles(d, h, out) /\ AlikeButSeq(s, h)
    BY <1>1, <1>2, <1>6, <1>8, <1>9, SettleFields
<1>11. HeardMove(d, h)
    BY <1>8, <1>10, QuietNote
<1>12. OutMove(s, h, out)
  <2>1. h.call = s.call
      BY <1>10 DEF AlikeButSeq
  <2>2. out # None => out = m
      BY <1>8, <1>9
  <2> QED
      BY <2>1, <2>2, <1>3, <1>6 DEF OutMove
<1> QED
    BY <1>1, <1>10, <1>11, <1>12, IdleMove

LEMMA ExpireMove ==
    ASSUME TypeInv, plan' = plan, NEW d \in Device, Expire(d)
    PROVE  \E h, out : Move(d, h, out)
<1>1. PICK s : s = dev[d]
    OBVIOUS
<1>2. Good(s) /\ s \in Session /\ s.seq \in Nat /\ s.seq <= plan.maxSeq[d]
    BY <1>1, DeviceGood DEF TypeInv
<1>3. PICK e \in Device : dev' = [dev EXCEPT ![d].occ[e] = None]
    BY DEF Expire, Reserved
<1>4. PICK h : h = [s EXCEPT !.occ[e] = None]
    OBVIOUS
<1>5. /\ h \in Session /\ h.seq = s.seq /\ h.got = s.got /\ h.call = s.call
      /\ h.log = s.log /\ h.gone = s.gone /\ h.used = s.used
      /\ h.closed = s.closed /\ h.ends = s.ends
      /\ \A f \in Device : h.occ[f] = IF f = e THEN None ELSE s.occ[f]
    BY <1>2, <1>4 DEF Session
<1>6. Good(h)
    BY <1>2, <1>5, FewerIsGood DEF KeepsBook, Keeps
<1>7. dev' = [dev EXCEPT ![d] = h]
    BY <1>1, <1>3, <1>4
<1>8. Settles(d, h, None)
  <2>1. disk' = disk /\ sent' = sent
      BY DEF Expire
  <2>2. s.seq <= h.seq /\ h.seq <= plan.maxSeq[d]
      BY <1>2, <1>5
  <2> QED
      BY <2>1, <2>2, <1>1, <1>6, <1>7 DEF Settles
<1>9. HeardMove(d, h)
    BY DEF HeardMove, TypeInv, Expire
<1>10. /\ CallMove(s, d, h, None) /\ LogMove(s, d, h) /\ EndsEffect(s, h)
       /\ OutMove(s, h, None)
    BY <1>5 DEF CallMove, LogMove, EndsEffect, OutMove
<1>11. ClosedMove(s, h)
    BY <1>5 DEF ClosedMove, Closed, ConfirmedClosed
<1>12. \A f \in Device : s.got[f] <= h.got[f]
    BY <1>2, <1>5 DEF Session
<1> QED
    BY <1>1, <1>8, <1>9, <1>10, <1>11, <1>12 DEF Move

LEMMA LearnRemovalMove ==
    ASSUME TypeInv, plan' = plan, NEW d \in Device, NEW e, LearnRemoval(d, e)
    PROVE  \E h, out : Move(d, h, out)
<1>1. PICK b : b = dev[d]
    OBVIOUS
<1>2. Good(b) /\ b \in Session /\ b.seq \in Nat /\ e \in Device
    BY <1>1, DeviceGood DEF LearnRemoval, TypeInv, PlanType
<1>3. PICK s : s = [b EXCEPT !.gone = @ \cup {e}]
    OBVIOUS
<1>4. /\ s \in Session /\ s.seq = b.seq /\ s.got = b.got /\ s.call = b.call
      /\ s.log = b.log /\ s.used = b.used /\ s.closed = b.closed
      /\ s.ends = b.ends /\ s.occ = b.occ
    BY <1>2, <1>3 DEF Session
<1>5. Good(s)
  <2>1. Reserved(s) = Reserved(b)
      BY <1>4 DEF Reserved
  <2> QED
      BY <2>1, <1>2, <1>4 DEF Good, Bounded
<1>6. PICK t : t = IF s.call # None /\ ~CallAuthorized(s, d) THEN FinishCall(s) ELSE s
    OBVIOUS
<1>7. PICK r : r = Quiet(t)
    OBVIOUS
<1>8. r.s = t /\ r.out = None /\ Settle(d, r, "sent")
    BY <1>1, <1>3, <1>6, <1>7, QuietFields DEF LearnRemoval
<1>9. PICK quit \in SUBSET CallIds : Note(d, quit, {})
    BY <1>1, <1>3, <1>5, HeldIdsType DEF LearnRemoval
<1>10. /\ Good(t) /\ t.seq = s.seq /\ t.got = s.got /\ t.ends = s.ends
       /\ \/ t = s
          \/ /\ s.call # None /\ t.call = None /\ t.log = Append(s.log, s.call.id)
             /\ \A x \in CallIds : Closed(t, x) =>
                   x \in {s.call.id, s.call.merged} \/ Closed(s, x)
  <2>1. CASE s.call # None /\ ~CallAuthorized(s, d)
    <3>1. t = FinishCall(s)
        BY <2>1, <1>6
    <3> QED
        BY <3>1, <2>1, <1>5, FinishCallKeeps
  <2>2. CASE ~(s.call # None /\ ~CallAuthorized(s, d))
      BY <2>2, <1>5, <1>6
  <2> QED
      BY <2>1, <2>2
<1>11. PICK h : Settles(d, h, None) /\ AlikeButSeq(t, h)
  <2>1. (IF "sent" = "sent" THEN r.out ELSE None) = None
      BY <1>8
  <2>2. \E h : Settles(d, h, IF "sent" = "sent" THEN r.out ELSE None) /\ AlikeButSeq(t, h)
      BY <1>1, <1>4, <1>8, <1>10, SettleFields
  <2> QED
      BY <2>1, <2>2
<1>12. HeardMove(d, h)
    BY <1>9, <1>11, QuietNote
<1>13. /\ h.call = t.call /\ h.log = t.log /\ h.got = b.got /\ h.ends = b.ends
       /\ h.closed = t.closed
    BY <1>4, <1>10, <1>11 DEF AlikeButSeq
<1>14. CallMove(b, d, h, None) /\ LogMove(b, d, h)
    BY <1>4, <1>10, <1>13 DEF CallMove, LogMove
<1>15. ClosedMove(b, h)
  <2>1. \A x : /\ Closed(h, x) <=> Closed(t, x)
               /\ ConfirmedClosed(h, x) <=> ConfirmedClosed(t, x)
               /\ Closed(s, x) <=> Closed(b, x)
               /\ ConfirmedClosed(s, x) <=> ConfirmedClosed(b, x)
      BY <1>4, <1>13 DEF Closed, ConfirmedClosed
  <2> QED
      BY <2>1, <1>4, <1>10, <1>13 DEF ClosedMove
<1>16. EndsEffect(b, h) /\ OutMove(b, h, None)
    BY <1>13 DEF EndsEffect, OutMove
<1>17. \A f \in Device : b.got[f] <= h.got[f]
    BY <1>2, <1>13 DEF Session
<1> QED
    BY <1>1, <1>11, <1>12, <1>14, <1>15, <1>16, <1>17 DEF Move

(* The state a record restores.                                            *)
LEMMA RestoredFields ==
    ASSUME NEW r \in Record, Len(r.closed) <= ClosedCap
    PROVE  LET t == Restored(r)
           IN  /\ Good(t) /\ t.call = None /\ t.ends = << >> /\ t.seq = r.seq
               /\ t.got = r.got /\ t.closed = r.closed /\ t.log = r.log
               /\ Durable(t) = r
<1> DEFINE t == Restored(r)
<1>1. << >> \in Seq(Ending) /\ Len(<< >>) = 0
    BY EmptySeq
<1>2. /\ t \in Session /\ t.call = None /\ t.ends = << >> /\ t.seq = r.seq
      /\ t.got = r.got /\ t.closed = r.closed /\ t.log = r.log
      /\ t.used = r.used /\ t.gone = r.gone
      /\ \A e \in Device : t.occ[e] = None
    BY <1>1 DEF Restored, Session, Record
<1>3. Durable(t) = r
    BY <1>2 DEF Durable, Record
<1> HIDE DEF t
<1>4. Reserved(t) = {}
    BY <1>2 DEF Reserved
<1>5. Good(t)
    BY <1>1, <1>2, <1>4, FS_EmptySet, CallsAssumption DEF Good, Bounded
<1> QED
    BY <1>2, <1>3, <1>5 DEF t

LEMMA DurableFields ==
    ASSUME NEW s, Good(s)
    PROVE  LET r == Durable(s)
           IN  /\ r \in Record /\ r.seq = s.seq /\ r.got = s.got
               /\ r.closed = s.closed /\ r.log = s.log
               /\ Len(r.closed) <= ClosedCap
BY DEF Durable, Good, Bounded, Session, Record

LEMMA CrashAfterEndingMove ==
    ASSUME TypeInv, plan' = plan, NEW d \in Device, CrashAfterEnding(d)
    PROVE  \E h, out : Move(d, h, out)
<1>1. PICK s : s = dev[d]
    OBVIOUS
<1>2. /\ Good(s) /\ s \in Session /\ s.seq \in Nat /\ s.call # None
      /\ s.seq < plan.maxSeq[d] /\ plan.maxSeq[d] \in Nat
    BY <1>1, DeviceGood DEF CrashAfterEnding, TypeInv, PlanType
<1>3. PICK n \in Nat : n = s.seq + 1
    BY <1>2
<1>4. PICK u : u = [s EXCEPT !.seq = n]
    OBVIOUS
<1>5. /\ u \in Session /\ u.seq = n /\ AlikeButSeq(s, u)
    BY <1>2, <1>4 DEF Session, AlikeButSeq
<1>6. Good(u)
  <2>1. Reserved(u) = Reserved(s)
      BY <1>5 DEF Reserved, AlikeButSeq
  <2> QED
      BY <2>1, <1>2, <1>5 DEF Good, Bounded, AlikeButSeq
<1>7. PICK saved : saved = Durable(u)
    OBVIOUS
<1>8. /\ saved \in Record /\ saved.seq = n /\ saved.got = s.got
      /\ saved.closed = s.closed /\ saved.log = s.log
      /\ Len(saved.closed) <= ClosedCap
    BY <1>5, <1>6, <1>7, DurableFields DEF AlikeButSeq
<1>9. PICK h : h = Restored(saved)
    OBVIOUS
<1>10. /\ Good(h) /\ h.call = None /\ h.ends = << >> /\ h.seq = n
       /\ h.got = s.got /\ h.closed = s.closed /\ h.log = s.log
       /\ Durable(h) = saved
    BY <1>8, <1>9, RestoredFields
<1>11. /\ dev' = [dev EXCEPT ![d] = h] /\ disk' = [disk EXCEPT ![d] = saved]
       /\ Note(d, HeldIds(s), {})
    BY <1>1, <1>3, <1>4, <1>7, <1>9 DEF CrashAfterEnding
<1>12. PICK out : /\ out \in {End(s.call.id, s.call.caller, "ended")}
                          \cup {Decline(id, "user") : id \in HeldIds(s)}
                  /\ sent' = sent \cup {Stamp(d, out, n)}
    BY <1>1, <1>3 DEF CrashAfterEnding
<1>13. /\ out \in Publication /\ out # None
       /\ \/ out.act = "decline"
          \/ out.act = "end" /\ out.id = s.call.id /\ out.caller = s.call.caller
  <2>1. CASE out = End(s.call.id, s.call.caller, "ended")
    <3>1. "ended" \in Reasons
        BY DEF Reasons
    <3> QED
        BY <3>1, <2>1, <1>2, EndFields, NoneAssumption
  <2>2. CASE out \in {Decline(id, "user") : id \in HeldIds(s)}
    <3>1. PICK id \in CallIds : out = Decline(id, "user")
        BY <2>2, <1>2, HeldIdsType
    <3>2. Decline(id, "user") \in Publication /\ Decline(id, "user").act = "decline"
        BY DEF Decline, Control, Publication
    <3> QED
        BY <3>1, <3>2, NoneAssumption
  <2> QED
      BY <2>1, <2>2, <1>12
<1>14. Saves(d, h)
    BY <1>10, <1>11 DEF Saves
<1>15. Settles(d, h, out)
  <2>1. s.seq <= h.seq /\ s.seq < h.seq /\ h.seq <= plan.maxSeq[d]
      BY <1>2, <1>3, <1>10
  <2>2. sent' = sent \cup {Stamp(d, out, h.seq)}
      BY <1>10, <1>12
  <2> QED
      BY <2>1, <2>2, <1>1, <1>10, <1>11, <1>13, <1>14 DEF Settles
<1>16. PICK quit \in SUBSET CallIds : Note(d, quit, {})
    BY <1>2, <1>11, HeldIdsType
<1>17. HeardMove(d, h)
    BY <1>15, <1>16, QuietNote
<1>18. CallMove(s, d, h, out) /\ LogMove(s, d, h)
    BY <1>10 DEF CallMove, LogMove
<1>19. ClosedMove(s, h)
    BY <1>10 DEF ClosedMove, Closed
<1>20. EndsEffect(s, h)
  <2>1. DOMAIN << >> = {}
      BY EmptySeq
  <2>2. Range(h.ends) = {}
      BY <2>1, <1>10 DEF Range
  <2> QED
      BY <2>2 DEF EndsEffect
<1>21. OutMove(s, h, out)
    BY <1>2, <1>10, <1>13 DEF OutMove
<1>22. \A e \in Device : s.got[e] <= h.got[e]
    BY <1>2, <1>10 DEF Session
<1> QED
    BY <1>1, <1>15, <1>17, <1>18, <1>19, <1>20, <1>21, <1>22 DEF Move

(* handle_call_control, as a step of the device.                           *)
LEMMA HandleMove ==
    ASSUME TypeInv, plan' = plan, NEW d \in Device, NEW outcome,
           HandleCallControl(d, outcome),
           dev[d].call # None => /\ LocalCall(d, dev[d].call)
                                 /\ ~ConfirmedClosed(dev[d], dev[d].call.id),
           \A m \in sent : m.act = "offer" => m.from = m.id[1]
    PROVE  \E h, out : Move(d, h, out)
<1>1. PICK s : s = dev[d]
    OBVIOUS
<1>2. Good(s) /\ s \in Session /\ s.seq \in Nat /\ s.got \in [Device -> Nat]
    BY <1>1, DeviceGood DEF Session
<1>3. PICK ok \in BOOLEAN : ok = (outcome = "sent")
    OBVIOUS
<1>4. PICK c \in sent, blocked \in plan.elsewhere :
          LET r == HandleControl(s, d, c, blocked, ok)
          IN  /\ c.from # d
              /\ IF Terminal(c) THEN <<c.from, c.seq>> \notin s.used
                 ELSE Fresh(s, c)
              /\ Settle(d, r, outcome)
              /\ Note(d, GivesUp(s, c, r),
                      IF /\ outcome # "refused"
                         /\ c.act = "end" /\ c.caller = c.from
                      THEN {c.id} ELSE {})
    BY <1>1, <1>3 DEF HandleCallControl
<1>5. /\ c \in ControlType /\ blocked \in BOOLEAN /\ c.id \in CallIds
      /\ c.from \in Device /\ c.seq \in Nat
    BY DEF TypeInv, PlanType, ControlType
<1>6. Heard(d, c)
    BY <1>4, <1>5 DEF Heard
<1>7. Fresh(s, c) \/ Terminal(c)
    BY <1>4
<1>8. PICK r : r = HandleControl(s, d, c, blocked, ok)
    OBVIOUS
<1>9. PICK t : Taken(s, t, c) /\ Effect(t, d, c, ok, r)
    BY <1>1, <1>2, <1>5, <1>6, <1>7, <1>8, HandlerEffect
<1>10. /\ Good(r.s) /\ r.s.seq = s.seq /\ r.s.got = t.got
       /\ r.out \in Publication \cup {None}
    BY <1>9 DEF Effect, Taken
<1>11. PICK out : out = IF outcome = "sent" THEN r.out ELSE None
    OBVIOUS
<1>12. PICK h : /\ Settles(d, h, out) /\ AlikeButSeq(r.s, h)
                /\ outcome # "refused" => Saves(d, h)
    BY <1>1, <1>4, <1>8, <1>10, <1>11, SettleFields
<1>13. /\ h.call = r.s.call /\ h.log = r.s.log /\ h.closed = r.s.closed
       /\ h.ends = r.s.ends /\ h.got = t.got
    BY <1>10, <1>12 DEF AlikeButSeq
<1>14. /\ t.call = s.call /\ t.log = s.log /\ t.closed = s.closed
       /\ t.ends = s.ends /\ \A e \in Device : s.got[e] <= t.got[e]
       /\ c.seq <= t.got[c.from]
    BY <1>9 DEF Taken
<1>15. \A x : /\ Closed(h, x) <=> Closed(r.s, x)
              /\ ConfirmedClosed(h, x) <=> ConfirmedClosed(r.s, x)
              /\ Closed(t, x) <=> Closed(s, x)
              /\ ConfirmedClosed(t, x) <=> ConfirmedClosed(s, x)
    BY <1>13, <1>14 DEF Closed, ConfirmedClosed
<1>16. CallMove(s, d, h, out)
  <2>0. CallEffect(t, d, c, ok, r)
      BY <1>9 DEF Effect
  <2>1. CASE r.s.call = t.call \/ r.s.call = None
      BY <2>1, <1>13, <1>14 DEF CallMove
  <2>2. CASE Installs(t, d, c, r.s)
    <3>1. Installs(s, d, c, h)
        BY <2>2, <1>13, <1>14, <1>15 DEF Installs, ClosedCallOffer
    <3>2. Fresh(s, c)
        BY <2>2, <1>7 DEF Installs, Terminal
    <3> QED
        BY <3>1, <3>2, <1>4 DEF CallMove
  <2>3. CASE Merges(t, d, c, r.s)
    <3>1. Merges(s, d, c, h)
        BY <2>3, <1>13, <1>14 DEF Merges
    <3> QED
        BY <3>1, <1>4 DEF CallMove
  <2>4. CASE IsRefused(t, r.s)
    <3>1. IsRefused(s, h)
        BY <2>4, <1>13, <1>14 DEF IsRefused
    <3> QED
        BY <3>1 DEF CallMove
  <2>5. CASE ok /\ Selects(t, d, c, r.s) /\ r.out = Selected(c.id, c.from)
    <3>1. Selects(s, d, c, h)
        BY <2>5, <1>13, <1>14 DEF Selects
    <3>2. "selected" \in Actions /\ "" \in Reasons
        BY DEF Actions, Reasons
    <3>3. Selected(c.id, c.from) \in Publication
        BY <3>2, <1>5, ControlFields DEF Selected
    <3>4. out = Selected(c.id, c.from) /\ out # None
        BY <3>3, <2>5, <1>3, <1>11, NoneAssumption
    <3> QED
        BY <3>1, <3>4, <1>4 DEF CallMove
  <2>6. CASE Joins(t, d, c, r.s)
    <3>1. Joins(s, d, c, h)
        BY <2>6, <1>13, <1>14 DEF Joins
    <3> QED
        BY <3>1, <1>4 DEF CallMove
  <2> QED
      BY <2>0, <2>1, <2>2, <2>3, <2>4, <2>5, <2>6 DEF CallEffect
<1>17. LogMove(s, d, h)
  <2>1. LogEffect(t, d, c, r.s)
      BY <1>9 DEF Effect
  <2> QED
      BY <2>1, <1>4, <1>13, <1>14 DEF LogMove, LogEffect
<1>18. ClosedMove(s, h)
  <2>1. ClosedEffect(t, c, r.s)
      BY <1>9 DEF Effect
  <2>2. Named(c.id)
      BY DEF Named
  <2> QED
      BY <2>1, <2>2, <1>13, <1>14, <1>15 DEF ClosedMove, ClosedEffect
<1>19. EndsEffect(s, h)
    BY <1>9, <1>13, <1>14 DEF Effect, EndsEffect
<1>20. OutMove(s, h, out)
  <2>1. OutEffect(t, ok, r)
      BY <1>9 DEF Effect
  <2>2. out # None => out = r.out /\ ok
      BY <1>3, <1>11
  <2> QED
      BY <2>1, <2>2, <1>13, <1>14 DEF OutMove, OutEffect
<1>21. PICK quit : quit = GivesUp(s, c, r)
    OBVIOUS
<1>22. PICK heard : heard = IF /\ outcome # "refused"
                              /\ c.act = "end" /\ c.caller = c.from
                            THEN {c.id} ELSE {}
    OBVIOUS
<1>23. quit \in SUBSET CallIds /\ heard \in SUBSET CallIds /\ Note(d, quit, heard)
  <2>1. GivesUp(s, c, r) \in SUBSET CallIds
      BY <1>2, <1>10, GivesUpType
  <2> QED
      BY <2>1, <1>4, <1>5, <1>8, <1>21, <1>22
<1>24. /\ past' \in [Device -> History]
       /\ \A e \in Device \ {d} : past'[e] = past[e]
       /\ past'[d].heard = past[d].heard \cup heard
    BY <1>12, <1>23, NoteFields DEF Settles
<1>25. HeardMove(d, h)
  <2>1. CASE heard = {}
      BY <2>1, <1>24 DEF HeardMove
  <2>2. CASE heard # {}
    <3>1. /\ heard = {c.id} /\ outcome # "refused" /\ c.act = "end"
          /\ c.caller = c.from
        BY <2>2, <1>22
    <3>2. c.id[1] = c.from => ~Holds(h, c.id)
        BY <3>1, <1>9, <1>13 DEF Effect, EndEffect, Holds
    <3> QED
        BY <3>1, <3>2, <1>12, <1>13, <1>14, <1>24 DEF HeardMove
  <2> QED
      BY <2>1, <2>2
<1>26. \A e \in Device : s.got[e] <= h.got[e]
    BY <1>13, <1>14
<1> QED
    BY <1>1, <1>12, <1>16, <1>17, <1>18, <1>19, <1>20, <1>25, <1>26 DEF Move

-----------------------------------------------------------------------------
(* Every step is a move of one device or a restart.                        *)

(* A restart keeps the record, and forgets the rest.                       *)
Restarts(d) ==
    /\ d \in Device /\ plan' = plan /\ disk' = disk /\ sent' = sent
    /\ dev' = [dev EXCEPT ![d] = Restored(disk[d])]
    /\ past' \in [Device -> History]
    /\ \A e \in Device : past'[e].heard = past[e].heard

(* What a handler relies on.                                               *)
OffersSigned == \A m \in sent : m.act = "offer" => m.from = m.id[1]

HeldCall(d) ==
    dev[d].call # None =>
        /\ LocalCall(d, dev[d].call)
        /\ ~ConfirmedClosed(dev[d], dev[d].call.id)
        /\ Named(dev[d].call.id)
        /\ dev[d].call.merged # None => Named(dev[d].call.merged)

(* A call that is closed, now or in the record, has been heard of.         *)
ClosedNamed(d) ==
    \A x \in CallIds : Closed(dev[d], x) \/ Closed(disk[d], x) => Named(x)

CallInv ==
    /\ TypeInv /\ OffersSigned
    /\ \A d \in Device : HeldCall(d) /\ ClosedNamed(d)

LEMMA CrashRestarts ==
    ASSUME TypeInv, plan' = plan, NEW d \in Device, Crash(d)
    PROVE  Restarts(d)
<1>1. /\ disk[d] \in Record /\ Len(disk[d].closed) <= ClosedCap
      /\ Good(dev[d])
    BY DeviceGood DEF TypeInv
<1>2. PICK h : h = Restored(disk[d])
    OBVIOUS
<1>3. Good(h)
    BY <1>1, <1>2, RestoredFields
<1>4. PICK quit, none : quit = HeldIds(dev[d]) /\ none = {}
    OBVIOUS
<1>5. /\ dev' = [dev EXCEPT ![d] = h] /\ disk' = disk /\ sent' = sent
      /\ Note(d, quit, none)
    BY <1>2, <1>4 DEF Crash
<1>6. quit \in SUBSET CallIds /\ none \in SUBSET CallIds
    BY <1>1, <1>4, HeldIdsType
<1>7. /\ past' \in [Device -> History]
      /\ \A e \in Device \ {d} : past'[e] = past[e]
      /\ past'[d].heard = past[d].heard \cup none
    BY <1>3, <1>5, <1>6, NoteFields
<1> QED
    BY <1>2, <1>4, <1>5, <1>7 DEF Restarts

LEMMA NextMoves ==
    ASSUME CallInv, Next
    PROVE  \/ \E d, h, out : Move(d, h, out)
           \/ \E d : Restarts(d)
<1>1. TypeInv /\ plan' = plan /\ plan.present \subseteq Device
    BY DEF CallInv, TypeInv, PlanType, Next
<1>2. PICK d \in Device :
          \/ \E outcome \in plan.outcomes :
                \/ CallStart(d, outcome)
                \/ CallAccept(d, outcome)
                \/ CallDecline(d, outcome)
                \/ CallEnd(d, outcome)
                \/ HandleCallControl(d, outcome)
                \/ Resend(d, outcome)
                \/ RetryEnd(d, outcome)
          \/ Expire(d)
          \/ Crash(d)
          \/ CrashAfterEnding(d)
          \/ \E e \in plan.present : LearnRemoval(d, e)
    BY <1>1 DEF Next
<1>3. HeldCall(d)
    BY DEF CallInv
<1>4. CASE \E outcome \in plan.outcomes : CallStart(d, outcome)
    BY <1>4, <1>1, CallStartMove
<1>5. CASE \E outcome \in plan.outcomes : CallAccept(d, outcome)
    BY <1>5, <1>1, CallAcceptMove
<1>6. CASE \E outcome \in plan.outcomes : CallDecline(d, outcome)
    BY <1>6, <1>1, CallDeclineMove
<1>7. CASE \E outcome \in plan.outcomes : CallEnd(d, outcome)
    BY <1>7, <1>1, CallEndMove
<1>8. CASE \E outcome \in plan.outcomes : HandleCallControl(d, outcome)
  <2>1. PICK outcome \in plan.outcomes : HandleCallControl(d, outcome)
      BY <1>8
  <2>2. \A m \in sent : m.act = "offer" => m.from = m.id[1]
      BY DEF CallInv, OffersSigned
  <2>3. dev[d].call # None => /\ LocalCall(d, dev[d].call)
                              /\ ~ConfirmedClosed(dev[d], dev[d].call.id)
      BY <1>3 DEF HeldCall
  <2> QED
      BY <2>1, <2>2, <2>3, <1>1, HandleMove
<1>9. CASE \E outcome \in plan.outcomes : Resend(d, outcome)
  <2>1. dev[d].call # None => LocalCall(d, dev[d].call)
      BY <1>3 DEF HeldCall
  <2> QED
      BY <2>1, <1>9, <1>1, ResendMove
<1>10. CASE \E outcome \in plan.outcomes : RetryEnd(d, outcome)
    BY <1>10, <1>1, RetryEndMove
<1>11. CASE Expire(d)
    BY <1>11, <1>1, ExpireMove
<1>12. CASE Crash(d)
    BY <1>12, <1>1, CrashRestarts
<1>13. CASE CrashAfterEnding(d)
    BY <1>13, <1>1, CrashAfterEndingMove
<1>14. CASE \E e \in plan.present : LearnRemoval(d, e)
    BY <1>14, <1>1, LearnRemovalMove
<1> QED
    BY <1>2, <1>4, <1>5, <1>6, <1>7, <1>8, <1>9, <1>10, <1>11, <1>12, <1>13, <1>14

LEMMA StampFields ==
    ASSUME NEW d \in Device, NEW out \in Publication, NEW n \in Nat
    PROVE  LET m == Stamp(d, out, n)
           IN  /\ m \in ControlType /\ m.id = out.id /\ m.act = out.act
               /\ m.caller = out.caller /\ m.receiver = out.receiver
               /\ m.from = d /\ m.seq = n
BY DEF Stamp, Publication, ControlType

(* What is on the network after a move: what was there, and `out`.         *)
Sent(m, d, h, out) ==
    /\ out # None /\ out \in Publication /\ m \in ControlType /\ m.id = out.id
    /\ m.act = out.act /\ m.caller = out.caller /\ m.receiver = out.receiver
    /\ m.from = d /\ m.seq = h.seq

LEMMA MoveFields ==
    ASSUME TypeInv, NEW d, NEW h, NEW out, Move(d, h, out)
    PROVE  /\ d \in Device /\ plan' = plan /\ Good(h) /\ h \in Session
           /\ dev'[d] = h /\ \A e \in Device : e # d => dev'[e] = dev[e]
           /\ \A e \in Device : e # d => disk'[e] = disk[e]
           /\ \/ disk' = disk
              \/ Saves(d, h) /\ disk'[d] = Durable(h)
           /\ out # None => /\ disk'[d] = Durable(h) /\ dev[d].seq < h.seq
                            /\ \E m \in sent' : Sent(m, d, h, out)
           /\ sent \subseteq sent'
           /\ \A m \in sent' : m \in sent \/ Sent(m, d, h, out)
           /\ \A m, n \in sent' : Sent(m, d, h, out) /\ Sent(n, d, h, out) => m \in sent \/ n \in sent \/ m = n
<1>1. /\ d \in Device /\ plan' = plan /\ Good(h) /\ h \in Session /\ h.seq \in Nat
      /\ dev' = [dev EXCEPT ![d] = h]
      /\ disk' = disk \/ Saves(d, h)
      /\ out \in Publication \cup {None}
      /\ out = None => sent' = sent
      /\ out # None => /\ sent' = sent \cup {Stamp(d, out, h.seq)}
                       /\ dev[d].seq < h.seq /\ Saves(d, h)
    BY DEF Move, Settles, Good, Session
<1>2. dev'[d] = h /\ \A e \in Device : e # d => dev'[e] = dev[e]
    BY <1>1 DEF TypeInv
<1>3. Saves(d, h) => /\ disk'[d] = Durable(h)
                     /\ \A e \in Device : e # d => disk'[e] = disk[e]
    BY <1>1 DEF TypeInv, Saves
<1>4. CASE out = None
    BY <1>4, <1>1, <1>2, <1>3
<1>5. CASE out # None
  <2>1. PICK m : m = Stamp(d, out, h.seq)
      OBVIOUS
  <2>2. Sent(m, d, h, out)
      BY <2>1, <1>1, <1>5, StampFields DEF Sent
  <2>3. sent' = sent \cup {m}
      BY <2>1, <1>1, <1>5
  <2> QED
      BY <2>2, <2>3, <1>1, <1>2, <1>3, <1>5
<1> QED
    BY <1>4, <1>5

LEMMA RestartFields ==
    ASSUME TypeInv, NEW d, Restarts(d)
    PROVE  /\ d \in Device /\ plan' = plan /\ disk' = disk /\ sent' = sent
           /\ Good(dev'[d]) /\ dev'[d].call = None /\ dev'[d].ends = << >>
           /\ dev'[d].seq = disk[d].seq /\ dev'[d].got = disk[d].got
           /\ dev'[d].closed = disk[d].closed /\ dev'[d].log = disk[d].log
           /\ \A e \in Device : e # d => dev'[e] = dev[e]
<1>1. /\ disk[d] \in Record /\ Len(disk[d].closed) <= ClosedCap /\ d \in Device
    BY DEF TypeInv, Restarts
<1>2. PICK h : h = Restored(disk[d])
    OBVIOUS
<1>3. /\ Good(h) /\ h.call = None /\ h.ends = << >> /\ h.seq = disk[d].seq
      /\ h.got = disk[d].got /\ h.closed = disk[d].closed /\ h.log = disk[d].log
    BY <1>1, <1>2, RestoredFields
<1>4. dev'[d] = h /\ \A e \in Device : e # d => dev'[e] = dev[e]
    BY <1>1, <1>2 DEF TypeInv, Restarts
<1> QED
    BY <1>1, <1>3, <1>4 DEF Restarts

-----------------------------------------------------------------------------
(* The type invariant.                                                     *)

LEMMA InitType ==
    Init => TypeInv
<1> SUFFICES ASSUME Init PROVE TypeInv
    OBVIOUS
<1>1. plan \in PlanType /\ plan.maxSeq \in [Device -> Nat]
    BY CallsAssumption DEF Init, PlanType
<1>2. Blank \in Record /\ Len(Blank.closed) = 0 /\ Blank.seq = 0
    BY EmptySeq DEF Blank, Record
<1>3. PICK h : h = Restored(Blank)
    OBVIOUS
<1>4. Good(h) /\ h.seq = 0
    BY <1>2, <1>3, RestoredFields, CallsAssumption
<1>5. /\ dev = [d \in Device |-> h] /\ disk = [d \in Device |-> Blank]
      /\ sent = {} /\ past \in [Device -> History]
    BY <1>3 DEF Init, History
<1> QED
    BY <1>1, <1>2, <1>4, <1>5, CallsAssumption DEF TypeInv, Good

LEMMA MoveType ==
    ASSUME TypeInv, NEW d, NEW h, NEW out, Move(d, h, out)
    PROVE  TypeInv'
<1>1. /\ d \in Device /\ plan' = plan /\ Good(h) /\ h \in Session
      /\ dev' = [dev EXCEPT ![d] = h]
      /\ dev[d].seq <= h.seq /\ h.seq <= plan.maxSeq[d]
      /\ disk' = disk \/ Saves(d, h)
      /\ past' \in [Device -> History]
    BY DEF Move, Settles, Good, HeardMove
<1>2. /\ plan \in PlanType /\ dev \in [Device -> Session]
      /\ disk \in [Device -> Record] /\ sent \subseteq ControlType
    BY DEF TypeInv
<1>3. sent' \subseteq ControlType
    BY <1>2, MoveFields DEF Sent
<1>4. PICK r : r = Durable(h)
    OBVIOUS
<1>5. /\ r \in Record /\ r.seq = h.seq /\ Len(r.closed) <= ClosedCap
    BY <1>1, <1>4, DurableFields
<1>6. disk' = disk \/ disk' = [disk EXCEPT ![d] = r]
    BY <1>1, <1>4 DEF Saves
<1>7. dev' \in [Device -> Session] /\ disk' \in [Device -> Record]
    BY <1>1, <1>2, <1>5, <1>6
<1>8. ASSUME NEW e \in Device
      PROVE  /\ Bounded(dev'[e]) /\ Len(disk'[e].closed) <= ClosedCap
             /\ dev'[e].seq <= plan'.maxSeq[e] /\ disk'[e].seq <= dev'[e].seq
  <2>1. /\ Bounded(dev[e]) /\ Len(disk[e].closed) <= ClosedCap
        /\ dev[e].seq <= plan.maxSeq[e] /\ disk[e].seq <= dev[e].seq
      BY DEF TypeInv
  <2>2. CASE e # d
    <3>1. dev'[e] = dev[e] /\ disk'[e] = disk[e]
        BY <2>2, <1>1, <1>2, <1>6
    <3> QED
        BY <3>1, <2>1, <1>1
  <2>3. CASE e = d
    <3>1. dev'[e] = h /\ disk'[e] \in {disk[e], r}
        BY <2>3, <1>1, <1>2, <1>6
    <3>2. disk[e].seq \in Nat /\ dev[e].seq \in Nat /\ h.seq \in Nat
        BY <1>1, <1>2 DEF Session, Record
    <3> QED
        BY <3>1, <3>2, <2>1, <2>3, <1>1, <1>5 DEF Good
  <2> QED
      BY <2>2, <2>3
<1>9. plan' \in PlanType
    BY <1>1, <1>2
<1> QED
    BY <1>1, <1>3, <1>7, <1>8, <1>9 DEF TypeInv, Bounded, Reserved

LEMMA RestartType ==
    ASSUME TypeInv, NEW d, Restarts(d)
    PROVE  TypeInv'
<1>1. /\ d \in Device /\ plan' = plan /\ disk' = disk /\ sent' = sent
      /\ past' \in [Device -> History]
    BY DEF Restarts
<1>2. /\ plan \in PlanType /\ dev \in [Device -> Session]
      /\ disk \in [Device -> Record] /\ sent \subseteq ControlType
    BY DEF TypeInv
<1>3. PICK h : h = Restored(disk[d])
    OBVIOUS
<1>4. dev' = [dev EXCEPT ![d] = h]
    BY <1>3 DEF Restarts
<1>5. Good(h) /\ h.seq = disk[d].seq
    BY <1>1, <1>2, <1>3, RestoredFields DEF TypeInv
<1>6. dev' \in [Device -> Session]
    BY <1>2, <1>4, <1>5 DEF Good
<1>7. ASSUME NEW e \in Device
      PROVE  /\ Bounded(dev'[e]) /\ Len(disk'[e].closed) <= ClosedCap
             /\ dev'[e].seq <= plan'.maxSeq[e] /\ disk'[e].seq <= dev'[e].seq
  <2>1. /\ Bounded(dev[e]) /\ Len(disk[e].closed) <= ClosedCap
        /\ dev[e].seq <= plan.maxSeq[e] /\ disk[e].seq <= dev[e].seq
        /\ disk[e].seq \in Nat /\ dev[e].seq \in Nat /\ plan.maxSeq[e] \in Nat
      BY <1>2 DEF TypeInv, Session, Record, PlanType
  <2>2. dev'[e] = IF e = d THEN h ELSE dev[e]
      BY <1>2, <1>4
  <2> QED
      BY <2>1, <2>2, <1>1, <1>5 DEF Good
<1> QED
    BY <1>1, <1>2, <1>6, <1>7 DEF TypeInv, Bounded, Reserved

-----------------------------------------------------------------------------
(* What a held call is.                                                    *)

(* A move leaves the device with a call as LocalCall describes it.         *)
LEMMA MoveLocal ==
    ASSUME CallInv, NEW d, NEW h, NEW out, Move(d, h, out), h.call # None
    PROVE  LocalCall(d, h.call)
<1>1. PICK s : s = dev[d]
    OBVIOUS
<1>2. /\ TypeInv /\ OffersSigned /\ d \in Device /\ s \in Session
      /\ s.call # None => s.call \in Call /\ LocalCall(d, s.call)
    BY <1>1, MoveFields DEF CallInv, HeldCall, TypeInv, Session
<1>3. CallMove(s, d, h, out) /\ None \notin Device
    BY <1>1, CallsAssumption DEF Move
<1>4. CASE h.call = s.call
    BY <1>4, <1>2
<1>5. CASE Starts(s, d, h, out)
    BY <1>5, <1>3 DEF Starts, LocalCall
<1>6. CASE Accepts(s, h)
    BY <1>6, <1>2 DEF Accepts, LocalCall, SameCall, Call
<1>7. CASE IsRefused(s, h)
    BY <1>7, <1>2 DEF IsRefused, LocalCall, SameCall
<1>8. ASSUME NEW c \in sent, c.from # d,
             \/ Installs(s, d, c, h) /\ Fresh(s, c)
             \/ Merges(s, d, c, h)
             \/ Selects(s, d, c, h) /\ out # None /\ out = Selected(c.id, c.from)
             \/ Joins(s, d, c, h)
      PROVE  LocalCall(d, h.call)
  <2>1. /\ c \in ControlType /\ c.from \in Device
        /\ c.act = "offer" => c.from = c.id[1]
      BY <1>2 DEF TypeInv, ControlType, OffersSigned
  <2>2. CASE Installs(s, d, c, h)
    <3>1. /\ h.call.dir = "callee" /\ h.call.caller = c.from /\ c.from = h.call.id[1]
          /\ h.call.phase \in {"ringing", "accepting"} /\ h.call.sel = None
          /\ UserOf[c.from] # UserOf[d] /\ plan.engine[c.from] = plan.engine[d]
        BY <2>1, <2>2 DEF Installs
    <3>2. h.call.merged # None => h.call.merged[1] = d /\ Rank[c.from] < Rank[d]
      <4>1. CASE h.call.merged = None
          BY <4>1
      <4>2. CASE h.call.merged # None
        <5>1. /\ s.call # None /\ s.call.phase = "outgoing"
              /\ h.call.merged = s.call.id /\ Rank[c.from] < Rank[d]
            BY <4>2, <2>2 DEF Installs
        <5>2. s.call.dir = "caller"
            BY <5>1, <1>2 DEF LocalCall, Call
        <5> QED
            BY <5>1, <5>2, <1>2 DEF LocalCall
      <4> QED
          BY <4>1, <4>2
    <3> QED
        BY <3>1, <3>2 DEF LocalCall
  <2>3. CASE Merges(s, d, c, h)
    <3>1. /\ s.call # None /\ s.call.phase = "outgoing" /\ SameCall(h.call, s.call)
          /\ h.call.phase = "outgoing" /\ h.call.sel = s.call.sel
          /\ h.call.merged = c.id /\ ~(Rank[c.from] < Rank[d])
          /\ c.from = c.id[1]
        BY <2>1, <2>3 DEF Merges
    <3>2. s.call.dir = "caller"
        BY <3>1, <1>2 DEF LocalCall, Call
    <3>3. Rank[d] <= Rank[c.id[1]]
        BY <3>1, <2>1, <1>2, CallsAssumption
    <3> QED
        BY <3>1, <3>2, <3>3, <1>2 DEF LocalCall, SameCall
  <2>4. CASE Selects(s, d, c, h)
      BY <2>1, <2>4, <1>2 DEF Selects, LocalCall, SameCall
  <2>5. CASE Joins(s, d, c, h)
      BY <2>1, <2>5, <1>2 DEF Joins, LocalCall, SameCall
  <2> QED
      BY <1>8, <2>2, <2>3, <2>4, <2>5
<1> QED
    BY <1>3, <1>4, <1>5, <1>6, <1>7, <1>8 DEF CallMove

(* The call a device holds after a move is the one it held, a call of its  *)
(* own that nobody has heard of, or one it was offered.                    *)
LEMMA MoveHolds ==
    ASSUME CallInv, NEW d, NEW h, NEW out, Move(d, h, out), h.call # None
    PROVE  \/ /\ dev[d].call # None /\ h.call.id = dev[d].call.id
              /\ ConfirmedClosed(h, h.call.id) => ConfirmedClosed(dev[d], h.call.id)
           \/ Starts(dev[d], d, h, out)
           \/ \E c \in sent : /\ Installs(dev[d], d, c, h) /\ Fresh(dev[d], c)
                              /\ c.from # d /\ c.from = h.call.id[1]
                              /\ h.call.id = c.id
<1>1. PICK s : s = dev[d]
    OBVIOUS
<1>2. CallMove(s, d, h, out) /\ ClosedMove(s, h) /\ OffersSigned
    BY <1>1 DEF Move, CallInv
<1>3. ConfirmedClosed(h, h.call.id) => ConfirmedClosed(s, h.call.id)
    BY <1>2 DEF ClosedMove
<1>4. CASE h.call = s.call
    BY <1>1, <1>3, <1>4
<1>5. CASE Starts(s, d, h, out)
    BY <1>1, <1>5
<1>6. CASE Accepts(s, h) \/ IsRefused(s, h)
    BY <1>1, <1>3, <1>6 DEF Accepts, IsRefused, SameCall
<1>7. ASSUME NEW c \in sent,
             \/ Merges(s, d, c, h)
             \/ Selects(s, d, c, h)
             \/ Joins(s, d, c, h)
      PROVE  s.call # None /\ h.call.id = s.call.id
    BY <1>7 DEF Merges, Selects, Joins, SameCall
<1>8. ASSUME NEW c \in sent, c.from # d, Installs(s, d, c, h), Fresh(s, c)
      PROVE  /\ Installs(s, d, c, h) /\ Fresh(s, c)
             /\ c.from # d /\ c.from = h.call.id[1] /\ h.call.id = c.id
    BY <1>2, <1>8 DEF Installs, OffersSigned
<1>9. CASE \E c \in sent :
              /\ c.from # d
              /\ \/ Installs(s, d, c, h) /\ Fresh(s, c)
                 \/ Merges(s, d, c, h)
                 \/ Selects(s, d, c, h) /\ out # None /\ out = Selected(c.id, c.from)
                 \/ Joins(s, d, c, h)
    BY <1>1, <1>3, <1>7, <1>8, <1>9
<1> QED
    BY <1>2, <1>4, <1>5, <1>6, <1>9 DEF CallMove

(* A merged call has been heard of.                                        *)
LEMMA MoveMerged ==
    ASSUME CallInv, NEW d, NEW h, NEW out, Move(d, h, out), h.call # None,
           h.call.merged # None
    PROVE  Named(h.call.merged)
<1>1. PICK s : s = dev[d]
    OBVIOUS
<1>2. /\ CallMove(s, d, h, out)
      /\ s.call # None => /\ Named(s.call.id)
                          /\ s.call.merged # None => Named(s.call.merged)
    BY <1>1 DEF Move, CallInv, HeldCall
<1>3. CASE h.call = s.call
    BY <1>2, <1>3
<1>4. CASE Starts(s, d, h, out)
    BY <1>4 DEF Starts
<1>5. CASE Accepts(s, h) \/ IsRefused(s, h)
    BY <1>2, <1>5 DEF Accepts, IsRefused
<1>6. ASSUME NEW c \in sent,
             \/ Installs(s, d, c, h) \/ Merges(s, d, c, h)
             \/ Selects(s, d, c, h) \/ Joins(s, d, c, h)
      PROVE  Named(h.call.merged)
  <2>1. CASE Installs(s, d, c, h)
      BY <2>1, <1>2 DEF Installs
  <2>2. CASE Merges(s, d, c, h)
    <3>1. h.call.merged = c.id
        BY <2>2 DEF Merges
    <3> QED
        BY <3>1 DEF Named
  <2>3. CASE Selects(s, d, c, h) \/ Joins(s, d, c, h)
      BY <2>3, <1>2 DEF Selects, Joins
  <2> QED
      BY <1>6, <2>1, <2>2, <2>3
<1> QED
    BY <1>2, <1>3, <1>4, <1>5, <1>6 DEF CallMove

LEMMA MoveCall ==
    ASSUME CallInv, NEW d, NEW h, NEW out, Move(d, h, out)
    PROVE  CallInv'
<1>1. PICK s : s = dev[d]
    OBVIOUS
<1>2. /\ TypeInv /\ TypeInv' /\ OffersSigned /\ d \in Device /\ s \in Session
      /\ h \in Session /\ plan' = plan
      /\ s.call # None => /\ s.call \in Call /\ LocalCall(d, s.call)
                          /\ ~ConfirmedClosed(s, s.call.id) /\ Named(s.call.id)
      /\ ClosedNamed(d)
    BY <1>1, MoveFields, MoveType DEF CallInv, HeldCall, TypeInv, Session
<1>3. /\ dev'[d] = h /\ \A e \in Device : e # d => dev'[e] = dev[e]
      /\ \A e \in Device : e # d => disk'[e] = disk[e]
      /\ disk' = disk \/ disk'[d] = Durable(h)
      /\ out # None => \E m \in sent' : Sent(m, d, h, out)
      /\ sent \subseteq sent'
      /\ \A m \in sent' : m \in sent \/ Sent(m, d, h, out)
    BY <1>2, MoveFields
<1>4. h.call # None => LocalCall(d, h.call) /\ h.call \in Call
    BY <1>2, MoveLocal DEF Session
<1>5. OffersSigned'
  <2> SUFFICES ASSUME NEW m \in sent', m.act = "offer" PROVE m.from = m.id[1]
      BY DEF OffersSigned
  <2>1. CASE m \in sent
      BY <2>1, <1>2 DEF OffersSigned
  <2>2. CASE Sent(m, d, h, out)
    <3>1. h.call # None /\ h.call.dir = "caller" /\ h.call.id = m.id /\ m.from = d
        BY <2>2 DEF Sent, Move, OutMove
    <3> QED
        BY <3>1, <1>4 DEF LocalCall
  <2> QED
      BY <2>1, <2>2, <1>3
<1>6. \A x : Named(x) => Named(x)'
    BY <1>3 DEF Named
<1>7. h.call # None => ~ConfirmedClosed(h, h.call.id) /\ Named(h.call.id)'
  <2> HAVE h.call # None
  <2>1. CASE /\ s.call # None /\ h.call.id = s.call.id
             /\ ConfirmedClosed(h, h.call.id) => ConfirmedClosed(s, h.call.id)
    <3>1. Named(s.call.id) /\ ~ConfirmedClosed(h, h.call.id)
        BY <2>1, <1>2
    <3> QED
        BY <3>1, <2>1, <1>3 DEF Named
  <2>2. CASE Starts(s, d, h, out)
    <3>1. /\ out # None /\ out.id = h.call.id /\ ~Named(h.call.id)
          /\ h.closed = s.closed /\ h.call.id \in CallIds
        BY <2>2, <1>4 DEF Starts, Call
    <3>2. ~Closed(s, h.call.id)
        BY <3>1, <1>1, <1>2 DEF ClosedNamed
    <3>3. ~ConfirmedClosed(h, h.call.id)
        BY <3>1, <3>2 DEF Closed, ConfirmedClosed
    <3> QED
        BY <3>1, <3>3, <1>3 DEF Named, Sent
  <2>3. CASE \E c \in sent : Installs(s, d, c, h) /\ h.call.id = c.id
    <3>1. PICK c \in sent : Installs(s, d, c, h) /\ h.call.id = c.id
        BY <2>3
    <3>2. ~Closed(s, h.call.id) /\ h.closed = s.closed
        BY <3>1 DEF Installs, ClosedCallOffer
    <3>3. ~ConfirmedClosed(h, h.call.id)
        BY <3>2 DEF Closed, ConfirmedClosed
    <3> QED
        BY <3>1, <3>3, <1>3 DEF Named
  <2> QED
      BY <1>1, <2>1, <2>2, <2>3, MoveHolds
<1>8. ASSUME NEW e \in Device PROVE HeldCall(e)'
  <2>1. PICK g : g = dev'[e]
      OBVIOUS
  <2>2. g.call # None => /\ LocalCall(e, g.call) /\ ~ConfirmedClosed(g, g.call.id)
                         /\ \E m \in sent' : m.id = g.call.id
                         /\ g.call.merged # None => \E m \in sent' : m.id = g.call.merged
    <3>1. CASE e = d
        BY <3>1, <2>1, <1>3, <1>4, <1>7, MoveMerged DEF Named
    <3>2. CASE e # d
      <4>1. g = dev[e]
          BY <3>2, <2>1, <1>3
      <4>2. HeldCall(e)
          BY DEF CallInv
      <4> QED
          BY <4>1, <4>2, <1>3 DEF HeldCall, Named
    <3> QED
        BY <3>1, <3>2
  <2> QED
      BY <2>1, <2>2, <1>2 DEF HeldCall, LocalCall, ConfirmedClosed, Named
<1>9. ASSUME NEW e \in Device PROVE ClosedNamed(e)'
  <2> SUFFICES ASSUME NEW x \in CallIds, (Closed(dev[e], x) \/ Closed(disk[e], x))'
               PROVE  \E m \in sent' : m.id = x
      BY DEF ClosedNamed, Named
  <2>0. ClosedNamed(e) /\ ClosedNamed(d) /\ HeldCall(d)
      BY <1>2 DEF CallInv
  <2>1. PICK g, r : g = dev'[e] /\ r = disk'[e]
      OBVIOUS
  <2>2. Closed(g, x) \/ Closed(r, x)
      BY <2>1 DEF Closed
  <2>3. CASE Closed(dev[e], x) \/ Closed(disk[e], x)
    <3>1. Named(x)
        BY <2>0, <2>3 DEF ClosedNamed
    <3> QED
        BY <3>1, <1>3 DEF Named
  <2>4. CASE e = d /\ Closed(h, x)
    <3>1. \/ Closed(s, x) \/ Named(x)
          \/ s.call # None /\ x \in {s.call.id, s.call.merged}
        BY <2>4, <1>1 DEF Move, ClosedMove
    <3>2. s.call # None /\ x = s.call.merged => Named(x)
        BY <2>0, <1>1, NoneAssumption DEF HeldCall
    <3> QED
        BY <3>1, <3>2, <2>0, <1>1, <1>2, <1>3 DEF ClosedNamed, Named
  <2>5. Closed(Durable(h), x) => Closed(h, x)
      BY DEF Durable, Closed
  <2> QED
      BY <2>1, <2>2, <2>3, <2>4, <2>5, <1>3
<1> QED
    BY <1>2, <1>5, <1>8, <1>9 DEF CallInv

LEMMA RestartCall ==
    ASSUME CallInv, NEW d, Restarts(d)
    PROVE  CallInv'
<1>1. TypeInv /\ TypeInv' /\ OffersSigned /\ d \in Device
    BY RestartType DEF CallInv, Restarts
<1>2. /\ plan' = plan /\ disk' = disk /\ sent' = sent /\ dev'[d].call = None
      /\ dev'[d].closed = disk[d].closed
      /\ \A e \in Device : e # d => dev'[e] = dev[e]
    BY <1>1, RestartFields
<1>3. OffersSigned'
    BY <1>1, <1>2 DEF OffersSigned
<1>4. ASSUME NEW e \in Device PROVE HeldCall(e)'
  <2>1. HeldCall(e)
      BY DEF CallInv
  <2> QED
      BY <2>1, <1>2 DEF HeldCall, LocalCall, ConfirmedClosed, Named
<1>5. ASSUME NEW e \in Device PROVE ClosedNamed(e)'
  <2>1. ClosedNamed(e)
      BY DEF CallInv
  <2> QED
      BY <2>1, <1>2 DEF ClosedNamed, Closed, Named
<1> QED
    BY <1>1, <1>3, <1>4, <1>5 DEF CallInv

LEMMA InitCall ==
    Init => CallInv
<1> SUFFICES ASSUME Init PROVE CallInv
    OBVIOUS
<1>1. TypeInv
    BY InitType
<1>2. ASSUME NEW d \in Device
      PROVE  /\ dev[d].call = None
             /\ \A x \in CallIds : ~Closed(dev[d], x) /\ ~Closed(disk[d], x)
  <2>1. dev[d].call = None /\ dev[d].closed = << >> /\ disk[d].closed = << >>
      BY DEF Init, Restored, Blank
  <2>2. Range(<< >>) = {}
      BY EmptySeq DEF Range
  <2> QED
      BY <2>1, <2>2 DEF Closed
<1>3. OffersSigned
    BY DEF Init, OffersSigned
<1> QED
    BY <1>1, <1>2, <1>3 DEF CallInv, HeldCall, ClosedNamed

LEMMA StutterCall ==
    ASSUME CallInv, UNCHANGED vars
    PROVE  CallInv'
<1>1. /\ plan' = plan /\ dev' = dev /\ disk' = disk /\ sent' = sent
      /\ past' = past
    BY DEF vars
<1>2. TypeInv'
    BY <1>1 DEF CallInv, TypeInv, Bounded, Reserved
<1>3. OffersSigned'
    BY <1>1 DEF CallInv, OffersSigned
<1>4. ASSUME NEW d \in Device PROVE HeldCall(d)' /\ ClosedNamed(d)'
    BY <1>1 DEF CallInv, HeldCall, LocalCall, ConfirmedClosed, Named, ClosedNamed, Closed
<1> QED
    BY <1>2, <1>3, <1>4 DEF CallInv

LEMMA CallAlways ==
    Spec => []CallInv
<1>1. CallInv /\ [Next]_vars => CallInv'
    BY NextMoves, MoveCall, RestartCall, StutterCall
<1> QED
    BY <1>1, InitCall, PTL DEF Spec

LEMMA TypeFollows ==
    TypeInv => TypeOK
<1> SUFFICES ASSUME TypeInv PROVE TypeOK
    OBVIOUS
<1>1. sent \subseteq ControlType
    BY DEF TypeInv
<1>2. ASSUME NEW d \in Device
      PROVE  LET s == dev[d]
             IN  /\ s.call \in Call \cup {None}
                 /\ s.seq \in 0 .. plan.maxSeq[d] /\ s.got \in [Device -> Nat]
                 /\ Range(s.closed) \subseteq Closings /\ Len(s.closed) <= ClosedCap
                 /\ Cardinality(Reserved(s)) <= MaxReservations
                 /\ Len(s.ends) <= MaxEnds
                 /\ Range(s.log) \subseteq CallIds
                 /\ disk[d].seq <= s.seq
  <2>1. PICK s : s = dev[d]
      OBVIOUS
  <2>2. /\ s \in Session /\ Bounded(s) /\ s.seq <= plan.maxSeq[d]
        /\ disk[d].seq <= s.seq /\ plan.maxSeq[d] \in Nat
      BY <2>1 DEF TypeInv, PlanType
  <2>3. s.closed \in Seq(Closings) /\ s.log \in Seq(CallIds)
      BY <2>2 DEF Session
  <2>4. Range(s.closed) \subseteq Closings /\ Range(s.log) \subseteq CallIds
    <3>1. /\ \A i \in DOMAIN s.closed : s.closed[i] \in Closings
          /\ \A i \in DOMAIN s.log : s.log[i] \in CallIds
        BY <2>3, ElementOfSeq, LenProperties
    <3> QED
        BY <3>1 DEF Range
  <2>5. s.seq \in 0 .. plan.maxSeq[d]
      BY <2>2 DEF Session
  <2> QED
      BY <2>1, <2>2, <2>4, <2>5 DEF Session, Bounded
<1> QED
    BY <1>1, <1>2 DEF TypeOK

(* Whatever is lost, late, refused or restarted, every device keeps a well *)
(* formed session, and its closed calls, reservations and repeated ends    *)
(* stay within their bounds.                                               *)
THEOREM TypeCorrect ==
    Spec => []TypeOK
<1>1. CallInv => TypeOK
    BY TypeFollows DEF CallInv
<1> QED
    BY <1>1, CallAlways, PTL

-----------------------------------------------------------------------------
(* Sequence numbers.                                                       *)

(* A control is sent after its number was saved.                           *)
SequencesSaved == \A m \in sent : m.seq <= disk[m.from].seq

SequenceInv == SequencesSaved /\ SequencesUnique

LEMMA MoveSequence ==
    ASSUME CallInv, SequenceInv, NEW d, NEW h, NEW out, Move(d, h, out)
    PROVE  SequenceInv'
<1>1. /\ TypeInv /\ d \in Device /\ dev[d].seq \in Nat /\ h.seq \in Nat
      /\ disk[d].seq \in Nat /\ disk[d].seq <= dev[d].seq
      /\ dev[d].seq <= h.seq
      /\ \A m \in sent : m.from \in Device /\ m.seq \in Nat
  <2>1. TypeInv /\ d \in Device /\ h \in Session /\ dev[d].seq <= h.seq
      BY DEF CallInv, Move, Settles, Good
  <2>2. dev[d] \in Session /\ disk[d] \in Record /\ disk[d].seq <= dev[d].seq
      BY <2>1 DEF TypeInv
  <2>3. \A m \in sent : m.from \in Device /\ m.seq \in Nat
      BY <2>1 DEF TypeInv, ControlType
  <2> QED
      BY <2>1, <2>2, <2>3 DEF Session, Record
<1>2. /\ \A e \in Device : e # d => disk'[e] = disk[e]
      /\ disk' = disk \/ disk'[d] = Durable(h)
      /\ out # None => disk'[d] = Durable(h) /\ dev[d].seq < h.seq
      /\ sent \subseteq sent'
      /\ \A m \in sent' : m \in sent \/ Sent(m, d, h, out)
      /\ \A m, n \in sent' : Sent(m, d, h, out) /\ Sent(n, d, h, out)
            => m \in sent \/ n \in sent \/ m = n
    BY <1>1, MoveFields
<1>3. Durable(h).seq = h.seq
    BY DEF Durable
<1>4. ASSUME NEW m \in sent PROVE m.seq <= disk[m.from].seq
    BY DEF SequenceInv, SequencesSaved
<1>5. SequencesSaved'
  <2> SUFFICES ASSUME NEW m \in sent' PROVE m.seq <= disk'[m.from].seq
      BY DEF SequencesSaved
  <2>1. CASE m \in sent
      BY <2>1, <1>1, <1>2, <1>3, <1>4
  <2>2. CASE Sent(m, d, h, out)
      BY <2>2, <1>1, <1>2, <1>3 DEF Sent
  <2> QED
      BY <2>1, <2>2, <1>2
<1>6. ASSUME NEW m \in sent, NEW n, Sent(n, d, h, out)
      PROVE  ~(m.from = n.from /\ m.seq = n.seq)
    BY <1>1, <1>2, <1>4, <1>6 DEF Sent
<1>7. SequencesUnique'
  <2> SUFFICES ASSUME NEW m \in sent', NEW n \in sent', m.from = n.from, m.seq = n.seq
               PROVE  m = n
      BY DEF SequencesUnique
  <2>1. CASE m \in sent /\ n \in sent
      BY <2>1 DEF SequenceInv, SequencesUnique
  <2> QED
      BY <2>1, <1>2, <1>6
<1> QED
    BY <1>5, <1>7 DEF SequenceInv

LEMMA SequenceAlways ==
    Spec => []SequenceInv
<1>1. Init => SequenceInv
    BY DEF Init, SequenceInv, SequencesSaved, SequencesUnique
<1>2. ASSUME CallInv, SequenceInv, NEW d, Restarts(d) PROVE SequenceInv'
    BY <1>2 DEF SequenceInv, SequencesSaved, SequencesUnique, Restarts
<1>3. ASSUME SequenceInv, UNCHANGED vars PROVE SequenceInv'
    BY <1>3 DEF SequenceInv, SequencesSaved, SequencesUnique, vars
<1>4. CallInv /\ SequenceInv /\ [Next]_vars => SequenceInv'
    BY <1>2, <1>3, NextMoves, MoveSequence
<1> QED
    BY <1>1, <1>4, CallAlways, PTL DEF Spec

(* A device never signs two controls with one sequence number, although a  *)
(* save may be refused and the device may restart at any moment: the       *)
(* number of every control that was sent is in the record.                 *)
THEOREM SequencesNeverReused ==
    Spec => []SequencesUnique
<1>1. SequenceInv => SequencesUnique
    BY DEF SequenceInv
<1> QED
    BY <1>1, SequenceAlways, PTL

-----------------------------------------------------------------------------
(* The history.                                                            *)

(* A history without repetition, of calls that were heard of.              *)
ShownOnce(l) ==
    IsInjective(l) /\ \A i \in DOMAIN l : Named(l[i])

LogInv ==
    \A d \in Device :
        /\ ShownOnce(dev[d].log) /\ ShownOnce(disk[d].log)
        /\ dev[d].call # None => dev[d].call.id \notin Range(dev[d].log)

LEMMA AppendOnce ==
    ASSUME NEW l \in Seq(CallIds), NEW x \in CallIds, IsInjective(l),
           x \notin Range(l), Named(x), \A i \in DOMAIN l : Named(l[i])
    PROVE  ShownOnce(Append(l, x))
<1>1. PICK k : k = Append(l, x)
    OBVIOUS
<1>2. /\ Len(l) \in Nat /\ DOMAIN l = 1 .. Len(l) /\ DOMAIN k = 1 .. Len(l) + 1
      /\ \A i \in 1 .. Len(l) : k[i] = l[i]
      /\ k[Len(l) + 1] = x
    BY <1>1, AppendTo, LenProperties
<1>3. \A i \in 1 .. Len(l) : l[i] # x
    BY <1>2 DEF Range
<1>4. IsInjective(k)
    BY <1>2, <1>3 DEF IsInjective
<1>5. \A i \in DOMAIN k : Named(k[i])
    BY <1>2
<1> QED
    BY <1>1, <1>4, <1>5 DEF ShownOnce

LEMMA MoveLog ==
    ASSUME CallInv, LogInv, NEW d, NEW h, NEW out, Move(d, h, out)
    PROVE  LogInv'
<1>1. PICK s : s = dev[d]
    OBVIOUS
<1>2. /\ TypeInv /\ OffersSigned /\ d \in Device /\ s \in Session /\ h \in Session
      /\ HeldCall(d) /\ ShownOnce(s.log) /\ s.log \in Seq(CallIds)
      /\ s.call # None => /\ s.call \in Call /\ s.call.id \in CallIds
                          /\ s.call.id \notin Range(s.log)
                          /\ LocalCall(d, s.call) /\ Named(s.call.id)
  <2>1. TypeInv /\ d \in Device
      BY MoveFields DEF CallInv
  <2> QED
      BY <2>1, <1>1, MoveFields DEF CallInv, LogInv, HeldCall, TypeInv, Session, Call
<1>3. /\ dev'[d] = h /\ \A e \in Device : e # d => dev'[e] = dev[e]
      /\ \A e \in Device : e # d => disk'[e] = disk[e]
      /\ disk' = disk \/ disk'[d] = Durable(h)
      /\ sent \subseteq sent'
    BY <1>2, MoveFields
<1>4. LogMove(s, d, h)
    BY <1>1 DEF Move
<1>5. /\ ShownOnce(h.log)
      /\ h.call # None /\ s.call # None /\ h.call.id = s.call.id
             => h.call.id \notin Range(h.log)
      /\ h.log = s.log \/ h.call = None \/ h.call = s.call
  <2>1. CASE h.log = s.log
      BY <2>1, <1>2
  <2>2. CASE s.call # None /\ h.call = None /\ h.log = Append(s.log, s.call.id)
      BY <2>2, <1>2, AppendOnce DEF ShownOnce
  <2>3. ASSUME NEW c \in sent, c.from # d, c.act = "offer",
               plan.engine[c.from] # plan.engine[d],
               c.id \notin Range(s.log), h.call = s.call,
               h.log = Append(s.log, c.id)
        PROVE  /\ ShownOnce(h.log)
               /\ s.call # None => s.call.id \notin Range(h.log)
    <3>1. c.id \in CallIds /\ c.from = c.id[1] /\ Named(c.id)
        BY <2>3, <1>2 DEF TypeInv, ControlType, OffersSigned, Named
    <3>2. ShownOnce(h.log)
        BY <3>1, <2>3, <1>2, AppendOnce DEF ShownOnce
    <3>3. s.call # None => s.call.id # c.id
      <4> HAVE s.call # None
      <4>1. CASE s.call.dir = "caller"
          BY <4>1, <3>1, <2>3, <1>2 DEF LocalCall
      <4>2. CASE s.call.dir = "callee"
          BY <4>2, <3>1, <2>3, <1>2 DEF LocalCall
      <4> QED
          BY <4>1, <4>2, <1>2 DEF Call
    <3>4. \A x \in Range(h.log) : x = c.id \/ x \in Range(s.log)
      <4>1. /\ DOMAIN s.log = 1 .. Len(s.log) /\ Len(s.log) \in Nat
            /\ DOMAIN h.log = 1 .. Len(s.log) + 1
            /\ \A i \in 1 .. Len(s.log) : h.log[i] = s.log[i]
            /\ h.log[Len(s.log) + 1] = c.id
          BY <3>1, <2>3, <1>2, AppendTo, LenProperties
      <4> QED
          BY <4>1 DEF Range
    <3> QED
        BY <3>2, <3>3, <3>4, <1>2
  <2> QED
      BY <1>4, <2>1, <2>2, <2>3 DEF LogMove
<1>6. h.call # None => h.call.id \notin Range(h.log)
  <2> HAVE h.call # None
  <2>1. CASE s.call # None /\ h.call.id = s.call.id
      BY <2>1, <1>5
  <2>2. CASE Starts(s, d, h, out)
    <3>1. h.log = s.log /\ ~Named(h.call.id)
        BY <2>2 DEF Starts
    <3> QED
        BY <3>1, <1>2 DEF ShownOnce, Range
  <2>3. CASE \E c \in sent : Installs(s, d, c, h) /\ h.call.id = c.id
      BY <2>3 DEF Installs, ClosedCallOffer
  <2> QED
      BY <1>1, <2>1, <2>2, <2>3, MoveHolds
<1>7. Durable(h).log = h.log
    BY DEF Durable
<1>8. ASSUME NEW e \in Device
      PROVE  /\ ShownOnce(dev[e].log)' /\ ShownOnce(disk[e].log)'
             /\ dev'[e].call # None => dev'[e].call.id \notin Range(dev'[e].log)
  <2>1. /\ ShownOnce(dev[e].log) /\ ShownOnce(disk[e].log)
        /\ dev[e].call # None => dev[e].call.id \notin Range(dev[e].log)
      BY DEF LogInv
  <2>2. PICK a, b : a = dev'[e].log /\ b = disk'[e].log
      OBVIOUS
  <2>3. ShownOnce(a) /\ ShownOnce(b)
      BY <2>1, <2>2, <1>3, <1>5, <1>7
  <2>4. /\ IsInjective(a) /\ \A i \in DOMAIN a : \E m \in sent' : m.id = a[i]
        /\ IsInjective(b) /\ \A i \in DOMAIN b : \E m \in sent' : m.id = b[i]
      BY <2>3, <1>3 DEF ShownOnce, Named
  <2>5. dev'[e].call # None => dev'[e].call.id \notin Range(dev'[e].log)
      BY <2>1, <1>3, <1>6
  <2>6. ShownOnce(dev[e].log)' /\ ShownOnce(disk[e].log)'
      BY <2>2, <2>4 DEF ShownOnce, Named, IsInjective
  <2> QED
      BY <2>5, <2>6
<1> QED
    BY <1>8 DEF LogInv, Range

LEMMA LogAlways ==
    Spec => []LogInv
<1>1. Init => LogInv
  <2> SUFFICES ASSUME Init, NEW d \in Device
               PROVE  /\ ShownOnce(dev[d].log) /\ ShownOnce(disk[d].log)
                      /\ dev[d].call = None
      BY DEF LogInv
  <2>1. dev[d].call = None /\ dev[d].log = << >> /\ disk[d].log = << >>
      BY DEF Init, Restored, Blank
  <2>2. DOMAIN << >> = {}
      BY EmptySeq
  <2> QED
      BY <2>1, <2>2 DEF ShownOnce, IsInjective
<1>2. ASSUME CallInv, LogInv, NEW d, Restarts(d) PROVE LogInv'
  <2>1. /\ disk' = disk /\ sent' = sent /\ dev'[d].call = None
        /\ dev'[d].log = disk[d].log
        /\ \A e \in Device : e # d => dev'[e] = dev[e]
      BY <1>2, RestartFields DEF CallInv
  <2> QED
      BY <2>1, <1>2 DEF LogInv, ShownOnce, Named, IsInjective, Range
<1>3. ASSUME LogInv, UNCHANGED vars PROVE LogInv'
    BY <1>3 DEF LogInv, ShownOnce, Named, IsInjective, Range, vars
<1>4. CallInv /\ LogInv /\ [Next]_vars => LogInv'
    BY <1>2, <1>3, NextMoves, MoveLog
<1> QED
    BY <1>1, <1>4, CallAlways, PTL DEF Spec

(* A call enters the chat history of a device at most once, however often  *)
(* it is offered, refused, ended or restarted: a call is held only while   *)
(* it is not in the history, and its id was never used before.             *)
THEOREM HistoryShowsOnce ==
    Spec => []LoggedOnce
<1>1. LogInv => LoggedOnce
    BY DEF LogInv, LoggedOnce, ShownOnce
<1> QED
    BY <1>1, LogAlways, PTL

-----------------------------------------------------------------------------
(* Two offers that cross, and the device that was selected.                *)

LEMMA CrossFollows ==
    CallInv => CrossCallOneYields
<1> SUFFICES ASSUME CallInv, NEW d \in Device, NEW e \in Device, d # e,
                    dev[d].call # None, dev[e].call # None,
                    dev[d].call.dir = dev[e].call.dir,
                    dev[d].call.merged = dev[e].call.id,
                    dev[e].call.merged = dev[d].call.id
             PROVE  FALSE
    BY DEF CrossCallOneYields
<1>1. PICK c, b : c = dev[d].call /\ b = dev[e].call
    OBVIOUS
<1>2. /\ c \in Call /\ b \in Call /\ LocalCall(d, c) /\ LocalCall(e, b)
    BY <1>1 DEF CallInv, TypeInv, Session, HeldCall
<1>3. /\ c.merged = b.id /\ b.merged = c.id /\ c.dir = b.dir
      /\ c.merged # None /\ b.merged # None
    BY <1>1, <1>2, NoneAssumption DEF Call
<1>4. /\ Rank[d] \in Nat /\ Rank[e] \in Nat /\ Rank[d] # Rank[e]
    BY CallsAssumption
<1>5. CASE c.dir = "caller"
    BY <1>2, <1>3, <1>4, <1>5 DEF LocalCall
<1>6. CASE c.dir = "callee"
    BY <1>2, <1>3, <1>4, <1>6 DEF LocalCall
<1> QED
    BY <1>2, <1>5, <1>6 DEF Call

(* Of two crossing offers exactly one stands: a device that yields its own *)
(* call has the greater rank, a device that keeps it the smaller one, and  *)
(* both know whose call they merged.                                       *)
THEOREM OneOfTwoYields ==
    Spec => []CrossCallOneYields
BY CallAlways, CrossFollows, PTL

(* A selection names the caller's one receiver, of the other user and of   *)
(* the same media protocol.                                                *)
Selection(m) == m \in sent /\ m.act = "selected"

SelectionsAgree ==
    /\ \A m \in sent : Selection(m) =>
          /\ m.from = m.id[1] /\ m.receiver \in Device
          /\ UserOf[m.from] # UserOf[m.receiver]
          /\ plan.engine[m.from] = plan.engine[m.receiver]
    /\ \A m, n \in sent : Selection(m) /\ Selection(n) /\ m.id = n.id
          => m.receiver = n.receiver

(* An outgoing call has selected nobody; an active one has its receiver.   *)
HeldSelection(d) ==
    LET c == dev[d].call
    IN  /\ c # None /\ c.phase = "outgoing" =>
              \A m \in sent : Selection(m) => m.id # c.id
        /\ c # None /\ c.phase = "active" =>
              \E m \in sent : /\ Selection(m) /\ m.id = c.id
                              /\ m.receiver = c.sel

SelectInv == SelectionsAgree /\ \A d \in Device : HeldSelection(d)

LEMMA MoveSelect ==
    ASSUME CallInv, SelectInv, NEW d, NEW h, NEW out, Move(d, h, out)
    PROVE  SelectInv'
<1>1. PICK s : s = dev[d]
    OBVIOUS
<1>2. /\ TypeInv /\ d \in Device /\ plan' = plan /\ s \in Session /\ h \in Session
      /\ s.call # None => s.call \in Call /\ LocalCall(d, s.call)
      /\ h.call # None => h.call \in Call /\ LocalCall(d, h.call)
  <2>1. TypeInv /\ d \in Device /\ plan' = plan /\ h \in Session
      BY MoveFields DEF CallInv
  <2>2. s \in Session
      BY <2>1, <1>1 DEF TypeInv
  <2> QED
      BY <2>1, <2>2, <1>1, MoveLocal DEF CallInv, HeldCall, Session
<1>3. /\ dev'[d] = h /\ \A e \in Device : e # d => dev'[e] = dev[e]
      /\ out # None => \E m \in sent' : Sent(m, d, h, out)
      /\ sent \subseteq sent'
      /\ \A m \in sent' : m \in sent \/ Sent(m, d, h, out)
    BY <1>2, MoveFields
<1>4. \A m \in sent : m.act = "selected" =>
          /\ m.from = m.id[1] /\ m.receiver \in Device
          /\ UserOf[m.from] # UserOf[m.receiver]
          /\ plan.engine[m.from] = plan.engine[m.receiver]
    BY DEF SelectInv, SelectionsAgree, Selection
<1>5. \A m, n \in sent : m.act = "selected" /\ n.act = "selected" /\ m.id = n.id
          => m.receiver = n.receiver
    BY DEF SelectInv, SelectionsAgree, Selection
<1>6. ASSUME NEW e \in Device, dev[e].call # None
      PROVE  /\ dev[e].call.phase = "outgoing" =>
                   \A m \in sent : m.act = "selected" => m.id # dev[e].call.id
             /\ dev[e].call.phase = "active" =>
                   \E m \in sent : /\ m.act = "selected" /\ m.id = dev[e].call.id
                                   /\ m.receiver = dev[e].call.sel
    BY <1>6 DEF SelectInv, HeldSelection, Selection
(* What this step selects.                                                 *)
<1>7. ASSUME NEW m, Sent(m, d, h, out), m.act = "selected"
      PROVE  /\ h.call # None /\ h.call.dir = "caller" /\ h.call.phase = "active"
             /\ h.call.id = m.id /\ h.call.sel = m.receiver /\ m.from = d
             /\ m.from = m.id[1] /\ m.receiver \in Device
             /\ UserOf[m.from] # UserOf[m.receiver]
             /\ plan.engine[m.from] = plan.engine[m.receiver]
  <2>1. /\ h.call # None /\ h.call.dir = "caller" /\ h.call.phase = "active"
        /\ h.call.id = m.id /\ h.call.sel = m.receiver /\ m.from = d
      BY <1>7 DEF Sent, Move, OutMove
  <2>2. h.call.sel \in Device /\ h.call.caller = d
      BY <2>1, <1>2 DEF LocalCall
  <2>3. h.call.sel # None
      BY <2>2, CallsAssumption
  <2> QED
      BY <2>1, <2>2, <2>3, <1>2 DEF LocalCall
(* The held call, and what had been selected before.                       *)
<1>8. ASSUME h.call # None
      PROVE  /\ h.call.phase = "outgoing" =>
                   \A m \in sent : m.act = "selected" => m.id # h.call.id
             /\ h.call.phase = "active" =>
                   \/ \E m \in sent : /\ m.act = "selected" /\ m.id = h.call.id
                                      /\ m.receiver = h.call.sel
                   \/ /\ \A m \in sent : m.act = "selected" => m.id # h.call.id
                      /\ \E m \in sent' : /\ m.act = "selected" /\ m.id = h.call.id
                                          /\ m.receiver = h.call.sel
  <2>0. CallMove(s, d, h, out)
      BY <1>1 DEF Move
  <2>1. CASE h.call = s.call
      BY <1>8, <2>1, <1>1, <1>2, <1>6
  <2>2. CASE Starts(s, d, h, out)
      BY <2>2 DEF Starts, Named
  <2>3. CASE Accepts(s, h)
      BY <2>3 DEF Accepts
  <2>4. CASE IsRefused(s, h)
    <3>1. /\ s.call # None /\ h.call.id = s.call.id /\ h.call.phase = s.call.phase
          /\ h.call.sel = s.call.sel
        BY <2>4 DEF IsRefused, SameCall
    <3> QED
        BY <3>1, <1>1, <1>2, <1>6
  <2>5. ASSUME NEW c \in sent, Installs(s, d, c, h)
        PROVE  h.call.phase \notin {"outgoing", "active"}
      BY <2>5 DEF Installs
  <2>6. ASSUME NEW c \in sent, Merges(s, d, c, h)
        PROVE  /\ s.call # None /\ s.call.phase = "outgoing"
               /\ h.call.id = s.call.id /\ h.call.phase = "outgoing"
      BY <2>6 DEF Merges, SameCall
  <2>7. ASSUME NEW c \in sent, Selects(s, d, c, h), out # None,
               out = Selected(c.id, c.from)
        PROVE  /\ h.call.phase = "active"
               /\ \A m \in sent : m.act = "selected" => m.id # h.call.id
               /\ \E m \in sent' : /\ m.act = "selected" /\ m.id = h.call.id
                                   /\ m.receiver = h.call.sel
    <3>1. /\ s.call # None /\ s.call.dir = "caller" /\ s.call.phase # "active"
          /\ s.call.id = c.id /\ h.call.id = c.id /\ h.call.sel = c.from
          /\ h.call.phase = "active"
        BY <2>7 DEF Selects, SameCall
    <3>2. s.call.phase = "outgoing"
        BY <3>1, <1>2 DEF LocalCall
    <3>3. out.act = "selected" /\ out.id = c.id /\ out.receiver = c.from
        BY <2>7 DEF Selected, Control
    <3>4. PICK m \in sent' : Sent(m, d, h, out)
        BY <2>7, <1>3
    <3>5. m.act = "selected" /\ m.id = h.call.id /\ m.receiver = h.call.sel
        BY <3>1, <3>3, <3>4 DEF Sent
    <3> QED
        BY <3>1, <3>2, <3>5, <1>1, <1>2, <1>6
  <2>8. ASSUME NEW c \in sent, Joins(s, d, c, h)
        PROVE  /\ h.call.phase = "active"
               /\ c.act = "selected" /\ c.id = h.call.id /\ c.receiver = h.call.sel
      BY <2>8 DEF Joins, SameCall
  <2>9. CASE \E c \in sent :
                /\ c.from # d
                /\ \/ Installs(s, d, c, h) /\ Fresh(s, c)
                   \/ Merges(s, d, c, h)
                   \/ Selects(s, d, c, h) /\ out # None /\ out = Selected(c.id, c.from)
                   \/ Joins(s, d, c, h)
    <3>1. PICK c \in sent :
              \/ Installs(s, d, c, h)
              \/ Merges(s, d, c, h)
              \/ Selects(s, d, c, h) /\ out # None /\ out = Selected(c.id, c.from)
              \/ Joins(s, d, c, h)
        BY <2>9
    <3>2. CASE Installs(s, d, c, h)
        BY <3>2, <2>5
    <3>3. CASE Merges(s, d, c, h)
        BY <3>3, <2>6, <1>1, <1>2, <1>6
    <3>4. CASE Selects(s, d, c, h) /\ out # None /\ out = Selected(c.id, c.from)
        BY <3>4, <2>7
    <3>5. CASE Joins(s, d, c, h)
        BY <3>5, <2>8
    <3> QED
        BY <3>1, <3>2, <3>3, <3>4, <3>5
  <2> QED
      BY <1>8, <2>0, <2>1, <2>2, <2>3, <2>4, <2>9 DEF CallMove
(* So a new selection repeats the old one.                                 *)
<1>9. ASSUME NEW m \in sent, m.act = "selected", NEW n, Sent(n, d, h, out),
             n.act = "selected", m.id = n.id
      PROVE  m.receiver = n.receiver
    BY <1>5, <1>7, <1>8, <1>9
<1>10. SelectionsAgree'
  <2>1. ASSUME NEW m \in sent', m.act = "selected"
        PROVE  /\ m.from = m.id[1] /\ m.receiver \in Device
               /\ UserOf[m.from] # UserOf[m.receiver]
               /\ plan.engine[m.from] = plan.engine[m.receiver]
      BY <2>1, <1>3, <1>4, <1>7
  <2>2. ASSUME NEW m \in sent', NEW n \in sent', m.act = "selected",
               n.act = "selected", m.id = n.id
        PROVE  m.receiver = n.receiver
    <3>1. CASE Sent(m, d, h, out) /\ Sent(n, d, h, out)
        BY <3>1 DEF Sent
    <3> QED
        BY <2>2, <3>1, <1>3, <1>5, <1>9
  <2> QED
      BY <2>1, <2>2, <1>2 DEF SelectionsAgree, Selection
<1>11. ASSUME NEW e \in Device PROVE HeldSelection(e)'
  <2>1. PICK c : c = dev'[e].call
      OBVIOUS
  <2>2. /\ c # None /\ c.phase = "outgoing" =>
              \A m \in sent' : m.act = "selected" => m.id # c.id
        /\ c # None /\ c.phase = "active" =>
              \E m \in sent' : /\ m.act = "selected" /\ m.id = c.id
                               /\ m.receiver = c.sel
    <3>1. CASE e = d
      <4>1. c = h.call
          BY <3>1, <2>1, <1>3
      <4> QED
          BY <4>1, <1>3, <1>7, <1>8
    <3>2. CASE e # d
      <4>1. /\ c = dev[e].call
            /\ c # None => c \in Call /\ LocalCall(e, c)
          BY <3>2, <2>1, <1>2, <1>3 DEF CallInv, HeldCall, TypeInv, Session
      <4>2. c # None /\ c.phase = "outgoing" => c.id[1] = e
          BY <4>1 DEF LocalCall, Call
      <4>3. ASSUME c # None, c.phase = "outgoing", NEW m \in sent', m.act = "selected"
            PROVE  m.id # c.id
          BY <3>2, <4>1, <4>2, <4>3, <1>3, <1>6, <1>7
      <4>4. ASSUME c # None, c.phase = "active"
            PROVE  \E m \in sent' : /\ m.act = "selected" /\ m.id = c.id
                                    /\ m.receiver = c.sel
          BY <4>1, <4>4, <1>3, <1>6
      <4> QED
          BY <4>3, <4>4
    <3> QED
        BY <3>1, <3>2
  <2> QED
      BY <2>1, <2>2 DEF HeldSelection, Selection
<1> QED
    BY <1>10, <1>11 DEF SelectInv

LEMMA SelectAlways ==
    Spec => []SelectInv
<1>1. Init => SelectInv
  <2> SUFFICES ASSUME Init PROVE SelectInv
      OBVIOUS
  <2>1. sent = {} /\ \A d \in Device : dev[d].call = None
      BY DEF Init, Restored
  <2> QED
      BY <2>1 DEF SelectInv, SelectionsAgree, HeldSelection
<1>2. ASSUME CallInv, SelectInv, NEW d, Restarts(d) PROVE SelectInv'
  <2>1. /\ plan' = plan /\ sent' = sent /\ dev'[d].call = None
        /\ \A e \in Device : e # d => dev'[e] = dev[e]
      BY <1>2, RestartFields DEF CallInv
  <2>2. SelectionsAgree'
      BY <2>1, <1>2 DEF SelectInv, SelectionsAgree, Selection
  <2>3. ASSUME NEW e \in Device PROVE HeldSelection(e)'
    <3>1. HeldSelection(e)
        BY <1>2 DEF SelectInv
    <3> QED
        BY <3>1, <2>1 DEF HeldSelection, Selection
  <2> QED
      BY <2>2, <2>3 DEF SelectInv
<1>3. ASSUME SelectInv, UNCHANGED vars PROVE SelectInv'
    BY <1>3 DEF SelectInv, SelectionsAgree, HeldSelection, Selection, vars
<1>4. CallInv /\ SelectInv /\ [Next]_vars => SelectInv'
    BY <1>2, <1>3, NextMoves, MoveSelect
<1> QED
    BY <1>1, <1>4, CallAlways, PTL DEF Spec

LEMMA ReceiverFollows ==
    CallInv /\ SelectInv => OneReceiver
<1> SUFFICES ASSUME CallInv, SelectInv PROVE OneReceiver
    OBVIOUS
<1>1. \A m, n \in sent :
          m.act = "selected" /\ n.act = "selected" /\ m.id = n.id =>
              m.receiver = n.receiver
    BY DEF SelectInv, SelectionsAgree, Selection
<1>2. ASSUME NEW d \in Device, Active(d)
      PROVE  LET c == dev[d].call
             IN  /\ c.caller = c.id[1] /\ d \in {c.caller, c.sel}
                 /\ UserOf[c.caller] # UserOf[c.sel]
                 /\ plan.engine[c.caller] = plan.engine[c.sel]
                 /\ \E m \in sent : /\ m.act = "selected" /\ m.id = c.id
                                    /\ m.receiver = c.sel
  <2>1. PICK c : c = dev[d].call
      OBVIOUS
  <2>2. /\ c # None /\ c.phase = "active" /\ c \in Call /\ LocalCall(d, c)
      BY <2>1, <1>2 DEF Active, CallInv, HeldCall, TypeInv, Session
  <2>3. \E m \in sent : /\ m.act = "selected" /\ m.id = c.id /\ m.receiver = c.sel
      BY <2>1, <2>2 DEF SelectInv, HeldSelection, Selection
  <2>4. c.sel \in Device /\ c.sel # None
      BY <2>2, CallsAssumption DEF LocalCall
  <2>5. CASE c.dir = "caller"
      BY <2>1, <2>2, <2>3, <2>4, <2>5 DEF LocalCall
  <2>6. CASE c.dir = "callee"
      BY <2>1, <2>2, <2>3, <2>4, <2>6 DEF LocalCall
  <2> QED
      BY <2>2, <2>5, <2>6 DEF Call
<1>3. ASSUME NEW d \in Device, NEW e \in Device, Active(d), Active(e),
             dev[d].call.id = dev[e].call.id
      PROVE  LET c == dev[d].call
             IN  /\ c.caller = dev[e].call.caller /\ c.sel = dev[e].call.sel
                 /\ {d, e} \subseteq {c.caller, c.sel}
                 /\ UserOf[c.caller] # UserOf[c.sel]
                 /\ plan.engine[c.caller] = plan.engine[c.sel]
  <2>1. PICK c, b : c = dev[d].call /\ b = dev[e].call
      OBVIOUS
  <2>2. /\ c.caller = c.id[1] /\ d \in {c.caller, c.sel}
        /\ UserOf[c.caller] # UserOf[c.sel]
        /\ plan.engine[c.caller] = plan.engine[c.sel]
        /\ \E m \in sent : m.act = "selected" /\ m.id = c.id /\ m.receiver = c.sel
      BY <2>1, <1>2, <1>3
  <2>3. /\ b.caller = b.id[1] /\ e \in {b.caller, b.sel}
        /\ \E m \in sent : m.act = "selected" /\ m.id = b.id /\ m.receiver = b.sel
      BY <2>1, <1>2, <1>3
  <2>4. c.id = b.id
      BY <2>1, <1>3
  <2>5. c.sel = b.sel /\ c.caller = b.caller
      BY <2>2, <2>3, <2>4, <1>1
  <2> QED
      BY <2>1, <2>2, <2>3, <2>5
<1> QED
    BY <1>1, <1>3 DEF OneReceiver

(* One device per user in a call: whoever is active in a call is its       *)
(* caller or the receiver it selected, and no call is ever confirmed to    *)
(* two receivers.  The caller selects while nothing was selected and keeps *)
(* to it; a restart forgets the call, and its id is never used again.      *)
THEOREM SelectedOnce ==
    Spec => []OneReceiver
BY CallAlways, SelectAlways, ReceiverFollows, PTL

-----------------------------------------------------------------------------
(* After the end.                                                          *)

(* An end by the caller itself.                                            *)
CallerEnd(m) == m.act = "end" /\ m.caller = m.from

(* The own calls whose end a device repeats are over.                      *)
EndsOver(d) ==
    \A x \in Range(dev[d].ends) : x.act = "end" /\ x.caller = d =>
        x.id[1] = d /\ Named(x.id) /\ ~Holds(dev[d], x.id)

(* A caller's end comes after all its offers.                              *)
EndsLast ==
    \A m \in sent : CallerEnd(m) =>
        /\ m.id[1] = m.from /\ ~Holds(dev[m.from], m.id)
        /\ \A n \in sent : n.act = "offer" /\ n.id = m.id => n.seq <= m.seq

(* Whoever heard the end is past every offer of the call.                  *)
HeardOver(d) ==
    /\ \A e \in Device : disk[d].got[e] <= dev[d].got[e]
    /\ \A id \in past[d].heard :
          /\ \E m \in sent : CallerEnd(m) /\ m.id = id
          /\ ~Holds(dev[d], id)
          /\ \A n \in sent : n.act = "offer" /\ n.id = id
                => n.seq <= disk[d].got[n.from]

EndInv ==
    /\ \A d \in Device : EndsOver(d) /\ HeardOver(d)
    /\ EndsLast

(* A call of its own that a device let go it never holds again.            *)
LEMMA OwnCallStaysOver ==
    ASSUME CallInv, NEW d, NEW h, NEW out, Move(d, h, out),
           NEW id, id[1] = d, Named(id), ~Holds(dev[d], id)
    PROVE  ~Holds(h, id)
<1> SUFFICES ASSUME h.call # None, h.call.id = id PROVE FALSE
    BY DEF Holds
<1>1. CASE dev[d].call # None /\ h.call.id = dev[d].call.id
    BY <1>1 DEF Holds
<1>2. CASE Starts(dev[d], d, h, out)
    BY <1>2 DEF Starts
<1> QED
    BY <1>1, <1>2, MoveHolds

LEMMA MoveEndsOver ==
    ASSUME CallInv, EndInv, NEW d, NEW h, NEW out, Move(d, h, out), NEW e \in Device
    PROVE  EndsOver(e)'
<1>1. /\ TypeInv /\ d \in Device
      /\ dev'[d] = h /\ \A f \in Device : f # d => dev'[f] = dev[f]
      /\ sent \subseteq sent'
    BY MoveFields DEF CallInv
<1>2. ASSUME NEW x, x.act = "end", x.caller = d, x \in Range(h.ends)
      PROVE  x.id[1] = d /\ Named(x.id) /\ ~Holds(h, x.id)
  <2>1. EndsEffect(dev[d], h)
      BY DEF Move
  <2>2. CASE x \in Range(dev[d].ends)
    <3>1. x.id[1] = d /\ Named(x.id) /\ ~Holds(dev[d], x.id)
        BY <2>2, <1>1, <1>2 DEF EndInv, EndsOver
    <3> QED
        BY <3>1, OwnCallStaysOver
  <2>3. CASE /\ dev[d].call # None /\ h.call = None
             /\ x.id = dev[d].call.id /\ x.caller = dev[d].call.caller
    <3>1. /\ dev[d].call \in Call /\ LocalCall(d, dev[d].call)
          /\ Named(dev[d].call.id)
        BY <2>3, <1>1 DEF CallInv, HeldCall, TypeInv, Session
    <3>2. dev[d].call.dir = "caller"
        BY <3>1, <2>3, <1>2 DEF LocalCall, Call
    <3> QED
        BY <3>1, <3>2, <2>3 DEF LocalCall, Holds
  <2> QED
      BY <2>1, <2>2, <2>3, <1>2 DEF EndsEffect
<1>3. CASE e = d
    BY <1>1, <1>2, <1>3 DEF EndsOver, Named, Holds, Range
<1>4. CASE e # d
  <2>1. EndsOver(e)
      BY DEF EndInv
  <2> QED
      BY <2>1, <1>1, <1>4 DEF EndsOver, Named, Holds, Range
<1> QED
    BY <1>3, <1>4

LEMMA MoveEndsLast ==
    ASSUME CallInv, EndInv, SequenceInv, NEW d, NEW h, NEW out, Move(d, h, out)
    PROVE  EndsLast'
<1>1. /\ TypeInv /\ d \in Device /\ OffersSigned
      /\ dev'[d] = h /\ \A f \in Device : f # d => dev'[f] = dev[f]
      /\ sent \subseteq sent'
      /\ \A m \in sent' : m \in sent \/ Sent(m, d, h, out)
    BY MoveFields DEF CallInv
(* An offer that is sent now is held now.                                  *)
<1>2. ASSUME NEW n, Sent(n, d, h, out), n.act = "offer"
      PROVE  Holds(h, n.id) /\ n.id[1] = d
  <2>1. h.call # None /\ h.call.dir = "caller" /\ h.call.id = n.id
      BY <1>2 DEF Sent, Move, OutMove
  <2> QED
      BY <2>1, MoveLocal DEF Holds, LocalCall
<1>3. ASSUME NEW m \in sent, CallerEnd(m)
      PROVE  /\ m.id[1] = m.from /\ ~Holds(dev'[m.from], m.id)
             /\ \A n \in sent' : n.act = "offer" /\ n.id = m.id => n.seq <= m.seq
  <2>1. /\ m.id[1] = m.from /\ ~Holds(dev[m.from], m.id) /\ m.from \in Device
        /\ \A n \in sent : n.act = "offer" /\ n.id = m.id => n.seq <= m.seq
        /\ Named(m.id)
      BY <1>1, <1>3 DEF EndInv, EndsLast, TypeInv, ControlType, Named
  <2>2. ~Holds(dev'[m.from], m.id)
    <3>1. CASE m.from = d
      <4>1. ~Holds(h, m.id)
          BY <3>1, <2>1, OwnCallStaysOver
      <4> QED
          BY <4>1, <3>1, <1>1 DEF Holds
    <3>2. CASE m.from # d
        BY <3>2, <2>1, <1>1 DEF Holds
    <3> QED
        BY <3>1, <3>2
  <2>3. ASSUME NEW n, Sent(n, d, h, out), n.act = "offer", n.id = m.id
        PROVE  FALSE
      BY <2>1, <2>2, <2>3, <1>1, <1>2 DEF Holds
  <2> QED
      BY <2>1, <2>2, <2>3, <1>1
<1>4. ASSUME NEW m, Sent(m, d, h, out), CallerEnd(m)
      PROVE  /\ m.id[1] = m.from /\ ~Holds(h, m.id) /\ m.from = d
             /\ \A n \in sent' : n.act = "offer" /\ n.id = m.id => n.seq <= m.seq
  <2>1. /\ out # None /\ out.act = "end" /\ m.id = out.id /\ m.from = d
        /\ out.caller = d /\ m.seq = h.seq
      BY <1>4 DEF Sent, CallerEnd
  <2>2. m.id[1] = d /\ ~Holds(h, m.id)
    <3>1. OutMove(dev[d], h, out)
        BY DEF Move
    <3>2. CASE /\ dev[d].call # None /\ h.call = None
               /\ out.id = dev[d].call.id /\ out.caller = dev[d].call.caller
      <4>1. dev[d].call \in Call /\ LocalCall(d, dev[d].call)
          BY <3>2, <1>1 DEF CallInv, HeldCall, TypeInv, Session
      <4>2. dev[d].call.dir = "caller"
          BY <4>1, <3>2, <2>1 DEF LocalCall, Call
      <4> QED
          BY <4>1, <4>2, <3>2, <2>1 DEF LocalCall, Holds
    <3>3. CASE /\ h.call = dev[d].call
               /\ \E x \in Range(dev[d].ends) :
                     x.act = "end" /\ out.id = x.id /\ out.caller = x.caller
      <4>1. PICK x \in Range(dev[d].ends) :
                x.act = "end" /\ out.id = x.id /\ out.caller = x.caller
          BY <3>3
      <4>2. EndsOver(d)
          BY <1>1 DEF EndInv
      <4>3. x.id[1] = d /\ ~Holds(dev[d], x.id)
          BY <4>1, <4>2, <2>1 DEF EndsOver
      <4> QED
          BY <4>1, <4>3, <3>3, <2>1 DEF Holds
    <3> QED
        BY <3>1, <3>2, <3>3, <2>1 DEF OutMove
  <2>3. /\ dev[d].seq \in Nat /\ h.seq \in Nat /\ disk[d].seq \in Nat
        /\ disk[d].seq <= dev[d].seq /\ dev[d].seq < h.seq
    <3>1. h \in Session /\ dev[d].seq < h.seq
        BY <2>1, <1>1, MoveFields
    <3>2. dev[d] \in Session /\ disk[d] \in Record /\ disk[d].seq <= dev[d].seq
        BY <1>1 DEF TypeInv
    <3> QED
        BY <3>1, <3>2 DEF Session, Record
  <2>4. ASSUME NEW n \in sent, n.act = "offer", n.id = m.id
        PROVE  n.seq <= m.seq
    <3>1. n.from = d /\ n.seq \in Nat
        BY <2>2, <2>4, <1>1 DEF OffersSigned, TypeInv, ControlType
    <3>2. n.seq <= disk[d].seq
        BY <3>1 DEF SequenceInv, SequencesSaved
    <3> QED
        BY <3>1, <3>2, <2>1, <2>3
  <2>5. ASSUME NEW n, Sent(n, d, h, out), n.act = "offer"
        PROVE  FALSE
      BY <2>1, <2>5 DEF Sent
  <2> QED
      BY <2>1, <2>2, <2>4, <2>5, <1>1
<1>5. ASSUME NEW m \in sent', CallerEnd(m)
      PROVE  /\ m.id[1] = m.from /\ ~Holds(dev'[m.from], m.id)
             /\ \A n \in sent' : n.act = "offer" /\ n.id = m.id => n.seq <= m.seq
  <2>1. CASE m \in sent
      BY <2>1, <1>3, <1>5
  <2>2. CASE Sent(m, d, h, out)
      BY <2>2, <1>1, <1>4, <1>5 DEF Holds
  <2> QED
      BY <2>1, <2>2, <1>1
<1> QED
    BY <1>5 DEF EndsLast, CallerEnd, Holds

LEMMA MoveHeardOver ==
    ASSUME CallInv, EndInv, EndsLast', NEW d, NEW h, NEW out,
           Move(d, h, out), NEW e \in Device
    PROVE  HeardOver(e)'
<1>1. /\ TypeInv /\ d \in Device /\ OffersSigned /\ h \in Session /\ Good(h)
      /\ dev'[d] = h /\ \A f \in Device : f # d => dev'[f] = dev[f]
      /\ \A f \in Device : f # d => disk'[f] = disk[f]
      /\ disk' = disk \/ disk'[d] = Durable(h)
      /\ sent \subseteq sent'
      /\ \A m \in sent' : m \in sent \/ Sent(m, d, h, out)
    BY MoveFields DEF CallInv
<1>2. PICK r : r = Durable(h)
    OBVIOUS
<1>3. r.got = h.got
    BY <1>2 DEF Durable
<1>4. /\ h.got \in [Device -> Nat] /\ dev[d].got \in [Device -> Nat]
      /\ disk[d].got \in [Device -> Nat]
      /\ \A f \in Device : dev[d].got[f] <= h.got[f]
  <2>1. dev[d] \in Session /\ disk[d] \in Record
      BY <1>1 DEF TypeInv
  <2>2. \A f \in Device : dev[d].got[f] <= h.got[f]
      BY DEF Move
  <2> QED
      BY <2>1, <2>2, <1>1 DEF Session, Record
<1>5. HeardOver(d) /\ HeardOver(e)
    BY <1>1 DEF EndInv
(* A call that is over gets no new offer.                                  *)
<1>6. ASSUME NEW m \in sent, CallerEnd(m), NEW n \in sent', n.act = "offer", n.id = m.id
      PROVE  n \in sent /\ n.from = m.from /\ n.seq <= m.seq /\ n.from \in Device
                 /\ n.seq \in Nat /\ m.seq \in Nat
  <2>1. m.id[1] = m.from /\ ~Holds(dev'[m.from], m.id) /\ m.from \in Device
    <3>1. m \in sent'
        BY <1>1
    <3>2. m.id[1] = m.from /\ ~Holds(dev'[m.from], m.id)
        BY <3>1, <1>6 DEF EndsLast, CallerEnd, Holds
    <3> QED
        BY <3>2, <1>1 DEF TypeInv, ControlType
  <2>2. ~Sent(n, d, h, out)
    <3> SUFFICES ASSUME Sent(n, d, h, out) PROVE FALSE
        OBVIOUS
    <3>1. h.call # None /\ h.call.dir = "caller" /\ h.call.id = n.id
        BY <1>6 DEF Sent, Move, OutMove
    <3>2. n.id[1] = d
        BY <3>1, MoveLocal DEF LocalCall
    <3> QED
        BY <3>1, <3>2, <2>1, <1>1, <1>6 DEF Holds
  <2>3. n \in sent
      BY <2>2, <1>1
  <2>4. n.seq <= m.seq
      BY <2>3, <1>6 DEF EndInv, EndsLast
  <2> QED
      BY <2>1, <2>3, <2>4, <1>1, <1>6 DEF OffersSigned, TypeInv, ControlType
<1>7. CASE e # d
  <2>1. /\ dev'[e] = dev[e] /\ disk'[e] = disk[e] /\ past'[e] = past[e]
      BY <1>1, <1>7 DEF Move, HeardMove
  <2>2. /\ \A f \in Device : disk[e].got[f] <= dev[e].got[f]
        /\ \A id \in past[e].heard :
              /\ \E m \in sent : CallerEnd(m) /\ m.id = id
              /\ ~Holds(dev[e], id)
              /\ \A n \in sent : n.act = "offer" /\ n.id = id
                    => n.seq <= disk[e].got[n.from]
      BY <1>5 DEF HeardOver
  <2>3. ASSUME NEW id \in past[e].heard
        PROVE  /\ \E m \in sent' : CallerEnd(m) /\ m.id = id
               /\ ~Holds(dev[e], id)
               /\ \A n \in sent' : n.act = "offer" /\ n.id = id
                     => n.seq <= disk[e].got[n.from]
      BY <2>2, <1>1, <1>6
  <2> QED
      BY <2>1, <2>2, <2>3 DEF HeardOver, CallerEnd, Holds
<1>8. CASE e = d
  <2>1. \A f \in Device : disk[d].got[f] <= dev[d].got[f]
      BY <1>5 DEF HeardOver
  <2>2. \A f \in Device : /\ disk'[d].got[f] <= h.got[f]
                          /\ disk[d].got[f] <= disk'[d].got[f]
    <3>1. CASE disk' = disk
        BY <3>1, <2>1, <1>4
    <3>2. CASE disk'[d] = Durable(h)
        BY <3>2, <2>1, <1>2, <1>3, <1>4
    <3> QED
        BY <3>1, <3>2, <1>1
  <2>3. ASSUME NEW id \in past[d].heard
        PROVE  /\ \E m \in sent' : CallerEnd(m) /\ m.id = id
               /\ ~Holds(h, id)
               /\ \A n \in sent' : n.act = "offer" /\ n.id = id
                     => n.seq <= disk'[d].got[n.from]
    <3>1. PICK m \in sent : CallerEnd(m) /\ m.id = id
        BY <1>5 DEF HeardOver
    <3>2. /\ ~Holds(dev[d], id)
          /\ \A n \in sent : n.act = "offer" /\ n.id = id
                => n.seq <= disk[d].got[n.from]
        BY <1>5 DEF HeardOver
    <3>3. \A n \in sent' : n.act = "offer" /\ n.id = id
              => n.seq <= disk'[d].got[n.from]
      <4> SUFFICES ASSUME NEW n \in sent', n.act = "offer", n.id = id
                   PROVE  n.seq <= disk'[d].got[n.from]
          OBVIOUS
      <4>1. n \in sent /\ n.from \in Device /\ n.seq \in Nat
          BY <3>1, <1>6
      <4>2. n.seq <= disk[d].got[n.from] /\ disk[d].got[n.from] <= disk'[d].got[n.from]
          BY <4>1, <3>2, <2>2
      <4>3. disk[d].got[n.from] \in Nat /\ disk'[d].got[n.from] \in Nat
          BY <4>1, <1>1, <1>2, <1>3, <1>4
      <4> QED
          BY <4>1, <4>2, <4>3
    <3>4. ~Holds(h, id)
      <4> SUFFICES ASSUME h.call # None, h.call.id = id PROVE FALSE
          BY DEF Holds
      <4>1. CASE dev[d].call # None /\ h.call.id = dev[d].call.id
          BY <4>1, <3>2 DEF Holds
      <4>2. CASE Starts(dev[d], d, h, out)
          BY <4>2, <3>1 DEF Starts, Named
      <4>3. ASSUME NEW c \in sent, Installs(dev[d], d, c, h), Fresh(dev[d], c),
                   h.call.id = c.id
            PROVE  FALSE
        <5>1. c.act = "offer" /\ c.from \in Device /\ c.seq \in Nat
            BY <4>3, <1>1 DEF Installs, TypeInv, ControlType
        <5>2. c.seq <= disk[d].got[c.from] /\ disk[d].got[c.from] <= dev[d].got[c.from]
            BY <5>1, <4>3, <3>2, <2>1
        <5> QED
            BY <5>1, <5>2, <4>3, <1>4 DEF Fresh
      <4> QED
          BY <4>1, <4>2, <4>3, MoveHolds
    <3> QED
        BY <3>1, <3>3, <3>4, <1>1
  <2>4. ASSUME NEW c \in sent, c.act = "end", c.caller = c.from, Saves(d, h),
               c.seq <= h.got[c.from], c.id[1] = c.from => ~Holds(h, c.id)
        PROVE  /\ \E m \in sent' : CallerEnd(m) /\ m.id = c.id
               /\ ~Holds(h, c.id)
               /\ \A n \in sent' : n.act = "offer" /\ n.id = c.id
                     => n.seq <= disk'[d].got[n.from]
    <3>1. CallerEnd(c) /\ c.id[1] = c.from /\ c \in sent'
        BY <2>4, <1>1 DEF CallerEnd, EndInv, EndsLast
    <3>2. disk'[d].got = h.got
      <4>1. disk'[d] = r
          BY <2>4, <1>1, <1>2 DEF Saves, TypeInv
      <4> QED
          BY <4>1, <1>3
    <3>3. \A n \in sent' : n.act = "offer" /\ n.id = c.id
              => n.seq <= disk'[d].got[n.from]
        BY <3>1, <3>2, <2>4, <1>4, <1>6
    <3> QED
        BY <3>1, <3>3, <2>4
  <2>5. ASSUME NEW id \in past'[d].heard
        PROVE  /\ \E m \in sent' : CallerEnd(m) /\ m.id = id
               /\ ~Holds(h, id)
               /\ \A n \in sent' : n.act = "offer" /\ n.id = id
                     => n.seq <= disk'[d].got[n.from]
    <3>1. HeardMove(d, h)
        BY DEF Move
    <3>2. CASE id \in past[d].heard
        BY <3>2, <2>3
    <3>3. CASE id \notin past[d].heard
      <4>1. PICK c \in sent :
                /\ c.act = "end" /\ c.caller = c.from /\ id = c.id
                /\ Saves(d, h) /\ c.seq <= h.got[c.from]
                /\ c.id[1] = c.from => ~Holds(h, c.id)
          BY <3>1, <3>3 DEF HeardMove
      <4> QED
          BY <4>1, <2>4
    <3> QED
        BY <3>2, <3>3
  <2> QED
      BY <2>2, <2>5, <1>1, <1>8 DEF HeardOver, CallerEnd, Holds
<1> QED
    BY <1>7, <1>8

LEMMA EndAlways ==
    Spec => []EndInv
<1>1. Init => EndInv
  <2> SUFFICES ASSUME Init PROVE EndInv
      OBVIOUS
  <2>1. /\ sent = {} /\ \A d \in Device : past[d].heard = {}
      BY DEF Init
  <2>2. \A d \in Device : Range(dev[d].ends) = {}
    <3>1. \A d \in Device : dev[d].ends = << >>
        BY DEF Init, Restored
    <3>2. DOMAIN << >> = {}
        BY EmptySeq
    <3> QED
        BY <3>1, <3>2 DEF Range
  <2>3. \A d, e \in Device : disk[d].got[e] = 0 /\ dev[d].got[e] = 0
      BY DEF Init, Restored, Blank
  <2> QED
      BY <2>1, <2>2, <2>3 DEF EndInv, EndsOver, EndsLast, HeardOver
<1>2. ASSUME CallInv, EndInv, NEW d, Restarts(d) PROVE EndInv'
  <2>1. /\ d \in Device /\ disk' = disk /\ sent' = sent /\ dev'[d].call = None
        /\ dev'[d].ends = << >> /\ dev'[d].got = disk[d].got
        /\ \A e \in Device : e # d => dev'[e] = dev[e]
        /\ \A e \in Device : past'[e].heard = past[e].heard
        /\ disk[d].got \in [Device -> Nat]
    <3>1. TypeInv
        BY <1>2 DEF CallInv
    <3> QED
        BY <3>1, <1>2, RestartFields DEF Restarts, TypeInv, Record
  <2>2. Range(<< >>) = {}
      BY EmptySeq DEF Range
  <2>3. ASSUME NEW e \in Device PROVE EndsOver(e)'
    <3>1. EndsOver(e)
        BY <1>2 DEF EndInv
    <3>2. CASE e = d
      <4>1. Range(dev'[e].ends) = {}
          BY <3>2, <2>1, <2>2
      <4> QED
          BY <4>1 DEF EndsOver, Range
    <3>3. CASE e # d
        BY <3>1, <3>3, <2>1 DEF EndsOver, Named, Holds, Range
    <3> QED
        BY <3>2, <3>3
  <2>4. ASSUME NEW e \in Device PROVE HeardOver(e)'
    <3>1. HeardOver(e)
        BY <1>2 DEF EndInv
    <3>2. CASE e = d
        BY <3>1, <3>2, <2>1 DEF HeardOver, CallerEnd, Holds
    <3>3. CASE e # d
        BY <3>1, <3>3, <2>1 DEF HeardOver, CallerEnd, Holds
    <3> QED
        BY <3>2, <3>3
  <2>5. EndsLast'
    <3>1. EndsLast /\ \A m \in sent : m.from \in Device
        BY <1>2 DEF EndInv, CallInv, TypeInv, ControlType
    <3> QED
        BY <3>1, <2>1 DEF EndsLast, CallerEnd, Holds
  <2> QED
      BY <2>3, <2>4, <2>5 DEF EndInv
<1>3. ASSUME EndInv, UNCHANGED vars PROVE EndInv'
  <2>1. ASSUME NEW d \in Device PROVE EndsOver(d)' /\ HeardOver(d)'
      BY <1>3 DEF EndInv, EndsOver, HeardOver, CallerEnd, Named, Holds, Range, vars
  <2>2. EndsLast'
      BY <1>3 DEF EndInv, EndsLast, CallerEnd, Holds, vars
  <2> QED
      BY <2>1, <2>2 DEF EndInv
<1>4. ASSUME CallInv, EndInv, SequenceInv, NEW d, NEW h, NEW out, Move(d, h, out)
      PROVE  EndInv'
  <2>1. EndsLast'
      BY <1>4, MoveEndsLast
  <2> QED
      BY <1>4, <2>1, MoveEndsOver, MoveHeardOver DEF EndInv
<1>5. CallInv /\ SequenceInv /\ EndInv /\ [Next]_vars => EndInv'
    BY <1>2, <1>3, <1>4, NextMoves
<1> QED
    BY <1>1, <1>5, CallAlways, SequenceAlways, PTL DEF Spec

(* A call whose end by its caller was taken in and saved never rings again *)
(* on that device, restarts included: the end is numbered after every      *)
(* offer of the call, and the record knows that number.                    *)
THEOREM EndedStaysSilent ==
    Spec => []NoRingAfterEnd
<1>1. EndInv => NoRingAfterEnd
    BY DEF EndInv, HeardOver, NoRingAfterEnd, Holds
<1> QED
    BY <1>1, EndAlways, PTL

-----------------------------------------------------------------------------
(* Who ends an accepted call.                                              *)

(* How a control may take a device out of an active call, and what it may  *)
(* make the device repeat: the end of the call it held, or its refusal.    *)
QuitEffect(s, c, r) ==
    /\ \A x \in Range(r.s.ends) :
          \/ x \in Range(s.ends)
          \/ r.out # None /\ r.out.act = "decline" /\ x.id = r.out.id
          \/ s.call # None /\ r.s.call = None /\ x.id = s.call.id
    /\ s.call # None /\ s.call.phase = "active" /\ r.s.call # s.call =>
          /\ r.s.call = None /\ Terminal(c) /\ c.id \in HeldIds(s)
          /\ c.from \in {s.call.caller, s.call.sel}

LEMMA KeptQuits ==
    ASSUME NEW s, NEW c, NEW r, r.s.ends = s.ends,
           s.call # None /\ s.call.phase = "active" => r.s.call = s.call
    PROVE  QuitEffect(s, c, r)
BY DEF QuitEffect

(* FinishCall after Remember: only the control just remembered is new.     *)
LEMMA FinishQuits ==
    ASSUME NEW s, Good(s), s.call # None, NEW id \in CallIds,
           NEW act \in {"end", "decline"}, NEW reason \in Reasons
    PROVE  LET t == FinishCall(Remember(s, id, act, reason))
           IN  /\ t.call = None
               /\ \A x \in Range(t.ends) : x \in Range(s.ends) \/ x.id = id
<1>1. PICK m : m = Remember(s, id, act, reason)
    OBVIOUS
<1>2. /\ Good(m) /\ m.call = s.call
      /\ \A x \in Range(m.ends) : x \in Range(s.ends) \/ x.id = id
    BY <1>1, RememberKeeps DEF Keeps
<1>3. PICK t : t = FinishCall(m)
    OBVIOUS
<1>4. t.call = None /\ t.ends = m.ends
    BY <1>2, <1>3, FinishCallKeeps
<1> QED
    BY <1>1, <1>2, <1>3, <1>4

(* call_end                                                                *)
LEMMA EndCallQuits ==
    ASSUME NEW s, Good(s), s.call # None, NEW reason \in Reasons
    PROVE  LET r == EndCall(s, reason)
           IN  /\ r.s.call = None
               /\ \A x \in Range(r.s.ends) : x \in Range(s.ends) \/ x.id = s.call.id
<1>1. s.call.id \in CallIds
    BY DEF Good, Session, Call
<1>2. PICK t : t = FinishCall(Remember(s, s.call.id, "end", reason))
    OBVIOUS
<1>3. t.call = None /\ \A x \in Range(t.ends) : x \in Range(s.ends) \/ x.id = s.call.id
    BY <1>1, <1>2, FinishQuits
<1>4. EndCall(s, reason).s = t
    BY <1>2, PublishesFields DEF EndCall
<1> QED
    BY <1>3, <1>4

(* receive_call_offer                                                      *)
LEMMA OfferQuits ==
    ASSUME NEW s, Good(s), NEW d \in Device, NEW c, Heard(d, c),
           NEW blocked \in BOOLEAN
    PROVE  QuitEffect(s, c, ReceiveOffer(s, d, c, blocked))
<1>0. PICK r : r = ReceiveOffer(s, d, c, blocked)
    OBVIOUS
<1> SUFFICES QuitEffect(s, c, r)
    BY <1>0
<1>1. /\ c \in ControlType /\ c.id \in CallIds /\ c.from \in Device
      /\ s \in Session /\ s.call \in Call \cup {None}
    BY DEF Heard, ControlType, Good, Session
<1>2. CASE r = Quiet(s) \/ \E m : r = Publishes(s, m)
    BY <1>2, QuietFields, PublishesFields, KeptQuits
<1>3. CASE r = RefuseOtherEngine(s, c)
  <2>1. PICK t : t = Remember(s, c.id, "decline", "update")
      OBVIOUS
  <2>2. "update" \in Reasons /\ "decline" \in {"end", "decline"}
      BY DEF Reasons
  <2>3. /\ t \in Session /\ t.call = s.call
        /\ \A x \in Range(t.ends) : x \in Range(s.ends) \/ x.id = c.id
      BY <2>1, <2>2, <1>1, RememberKeeps DEF Keeps, Good
  <2>4. PICK v : v = [t EXCEPT !.log = Append(@, c.id)]
      OBVIOUS
  <2>5. v.call = t.call /\ v.ends = t.ends
      BY <2>3, <2>4 DEF Session
  <2>6. r.s = v /\ r.out = Decline(c.id, "update")
      BY <1>3, <2>1, <2>4, PublishesFields DEF RefuseOtherEngine
  <2>7. r.out \in Publication /\ r.out.act = "decline" /\ r.out.id = c.id
      BY <2>6, <1>1 DEF Decline, Control, Publication
  <2>8. r.out # None
      BY <2>7, NoneAssumption
  <2> QED
      BY <2>3, <2>5, <2>6, <2>7, <2>8 DEF QuitEffect
<1>4. CASE s.call = None /\ r = Quiet(InstallIncoming(s, c))
    BY <1>1, <1>4, InstallKeeps, QuietFields, KeptQuits
<1>5. CASE s.call # None /\ s.call.phase = "outgoing" /\ r = MergeCrossCall(s, d, c)
  <2>1. s.call.phase # "active"
      BY <1>5
  <2>2. CASE Yields(d, c)
    <3>1. PICK t : t = InstallIncoming(s, c)
        OBVIOUS
    <3>2. t \in Session /\ t.ends = s.ends
        BY <3>1, <1>1, InstallKeeps DEF Good
    <3>3. PICK v : v = [t EXCEPT !.call.merged = s.call.id, !.call.phase = "accepting"]
        OBVIOUS
    <3>4. v.ends = t.ends
        BY <3>2, <3>3 DEF Session
    <3>5. r.s = v
        BY <1>5, <2>2, <3>1, <3>3, PublishesFields DEF MergeCrossCall
    <3> QED
        BY <3>2, <3>4, <3>5, <2>1, KeptQuits
  <2>3. CASE ~Yields(d, c)
    <3>1. PICK v : v = [s EXCEPT !.call.merged = c.id]
        OBVIOUS
    <3>2. v.ends = s.ends
        BY <3>1, <1>1 DEF Session
    <3>3. r.s = v
        BY <1>5, <2>3, <3>1, QuietFields DEF MergeCrossCall
    <3> QED
        BY <3>2, <3>3, <2>1, KeptQuits
  <2> QED
      BY <2>2, <2>3
<1> QED
    BY <1>0, <1>2, <1>3, <1>4, <1>5 DEF ReceiveOffer

(* receive_call_answer                                                     *)
LEMMA AnswerQuits ==
    ASSUME NEW s, Good(s), NEW d \in Device, NEW c, Heard(d, c), NEW ok \in BOOLEAN
    PROVE  QuitEffect(s, c, ReceiveAnswer(s, d, c, ok))
<1>0. PICK r : r = ReceiveAnswer(s, d, c, ok)
    OBVIOUS
<1> SUFFICES QuitEffect(s, c, r)
    BY <1>0
<1>1. CASE r = Quiet(s) \/ \E m : r = Publishes(s, m)
    BY <1>1, QuietFields, PublishesFields, KeptQuits
<1>2. CASE s.call # None /\ s.call.phase # "active" /\ r = EndCall(s, "update")
  <2>1. "update" \in Reasons
      BY DEF Reasons
  <2> QED
      BY <2>1, <1>2, EndCallQuits DEF QuitEffect
<1>3. CASE /\ s.call # None /\ s.call.phase # "active"
           /\ r = Publishes([s EXCEPT !.call.sel = c.from, !.call.phase = "active"],
                            Selected(c.id, c.from))
  <2>1. PICK v : v = [s EXCEPT !.call.sel = c.from, !.call.phase = "active"]
      OBVIOUS
  <2>2. v.ends = s.ends
      BY <2>1 DEF Good, Session
  <2>3. r.s = v
      BY <1>3, <2>1, PublishesFields
  <2> QED
      BY <2>2, <2>3, <1>3, KeptQuits
<1> QED
    BY <1>0, <1>1, <1>2, <1>3 DEF ReceiveAnswer, Holds

(* receive_call_selection                                                  *)
LEMMA SelectionQuits ==
    ASSUME NEW s, Good(s), NEW d \in Device, NEW c, Heard(d, c)
    PROVE  QuitEffect(s, c, ReceiveSelection(s, d, c))
<1>0. PICK r : r = ReceiveSelection(s, d, c)
    OBVIOUS
<1> SUFFICES QuitEffect(s, c, r)
    BY <1>0
<1>1. c \in ControlType /\ s \in Session
    BY DEF Heard, Good
<1>2. PICK t : t = ObserveSelection(s, d, c)
    OBVIOUS
<1>3. t \in Session /\ t.ends = s.ends
    BY <1>1, <1>2, ObserveSelectionKeeps DEF KeepsBook, Good
<1>4. CASE r = Quiet(s)
    BY <1>4, QuietFields, KeptQuits
<1>5. CASE s.call = None /\ r = Quiet(t)
    BY <1>3, <1>5, QuietFields, KeptQuits
<1>6. CASE s.call.phase # "active" /\ r = Quiet([t EXCEPT !.call = None])
  <2>1. PICK v : v = [t EXCEPT !.call = None]
      OBVIOUS
  <2>2. v.ends = t.ends
      BY <2>1, <1>3 DEF Session
  <2>3. r.s = v
      BY <2>1, <1>6, QuietFields
  <2> QED
      BY <2>2, <2>3, <1>3, <1>6, KeptQuits
<1>7. CASE /\ s.call.phase # "active"
           /\ r = Quiet([s EXCEPT !.call.sel = d, !.call.phase = "active"])
  <2>1. PICK v : v = [s EXCEPT !.call.sel = d, !.call.phase = "active"]
      OBVIOUS
  <2>2. v.ends = s.ends
      BY <2>1, <1>1 DEF Session
  <2>3. r.s = v
      BY <2>1, <1>7, QuietFields
  <2> QED
      BY <2>2, <2>3, <1>7, KeptQuits
<1> QED
    BY <1>0, <1>2, <1>4, <1>5, <1>6, <1>7 DEF ReceiveSelection

(* receive_call_termination: the only handler that ends an active call,    *)
(* and only for its caller or the selected receiver.                       *)
LEMMA TerminationQuits ==
    ASSUME NEW s, Good(s), NEW d \in Device, NEW c, Heard(d, c), Terminal(c)
    PROVE  QuitEffect(s, c, ReceiveTermination(s, d, c))
<1>0. PICK r : r = ReceiveTermination(s, d, c)
    OBVIOUS
<1> SUFFICES QuitEffect(s, c, r)
    BY <1>0
<1>1. /\ c \in ControlType /\ c.id \in CallIds /\ c.from \in Device
      /\ s \in Session /\ s.call \in Call \cup {None}
    BY DEF Heard, ControlType, Good, Session
<1>2. PICK t : t = ReceiveEnd(s, c.from, c.id)
    OBVIOUS
<1>3. Good(t) /\ t.call = s.call /\ t.ends = s.ends
    BY <1>1, <1>2, ReceiveEndKeeps DEF KeepsBook, Keeps
<1>4. CASE ~MatchesId(s.call, c.id)
  <2>1. PICK u : u = Close(t, c.id, TRUE)
      OBVIOUS
  <2>2. u.call = s.call /\ u.ends = s.ends
      BY <2>1, <1>1, <1>3, CloseForGood DEF Keeps
  <2>3. r.s \in {t, u}
      BY <1>0, <1>2, <1>4, <2>1, QuietFields DEF ReceiveTermination
  <2> QED
      BY <2>2, <2>3, <1>3, KeptQuits
<1>5. CASE MatchesId(s.call, c.id)
  <2>1. s.call # None /\ s.call \in Call /\ s.call.id \in CallIds
      BY <1>1, <1>5 DEF MatchesId, Call
  <2>2. c.id \in HeldIds(s)
      BY <2>1, <1>1, <1>5, NoneAssumption DEF MatchesId, HeldIds
  <2>3. PICK w : w = Close(t, s.call.id, TRUE)
      OBVIOUS
  <2>4. Good(w) /\ w.call = s.call /\ w.ends = s.ends
      BY <2>1, <2>3, <1>3, CloseForGood DEF Keeps
  <2>5. CASE ~Permitted(s.call, c)
    <3>1. r.s = t
        BY <1>0, <1>2, <1>5, <2>5, QuietFields DEF ReceiveTermination
    <3> QED
        BY <3>1, <1>3, KeptQuits
  <2>6. CASE Permitted(s.call, c) /\ c.reason = "update" /\ s.call.phase = "outgoing"
    <3>1. PICK v : v = [t EXCEPT !.call.refused = TRUE]
        OBVIOUS
    <3>2. v.ends = t.ends
        BY <3>1, <1>3 DEF Good, Session
    <3>3. r.s = v
        BY <1>0, <1>2, <1>5, <2>6, <3>1, QuietFields DEF ReceiveTermination
    <3> QED
        BY <3>2, <3>3, <1>3, <2>6, KeptQuits
  <2>7. CASE Permitted(s.call, c) /\ ~(c.reason = "update" /\ s.call.phase = "outgoing")
    <3>1. s.call.phase = "active" => c.from \in {s.call.caller, s.call.sel}
        BY <2>7 DEF Permitted
    <3>2. /\ r.s.call = None
          /\ \A x \in Range(r.s.ends) : x \in Range(s.ends) \/ x.id = s.call.id
      <4>1. CASE s.call.dir = "caller"
        <5>1. PICK v : v = FinishCall(Remember(w, s.call.id, "end", "ended"))
            OBVIOUS
        <5>2. "ended" \in Reasons
            BY DEF Reasons
        <5>3. /\ v.call = None
              /\ \A x \in Range(v.ends) : x \in Range(s.ends) \/ x.id = s.call.id
            BY <5>1, <5>2, <2>1, <2>4, FinishQuits
        <5>4. r = Publishes(v, End(s.call.id, s.call.caller, "ended"))
          <6>1. r = Publishes(FinishCall(Remember(
                        Close(ReceiveEnd(s, c.from, c.id), s.call.id, TRUE),
                        s.call.id, "end", "ended")),
                        End(s.call.id, s.call.caller, "ended"))
              BY <1>0, <1>5, <2>7, <4>1 DEF ReceiveTermination
          <6> QED
              BY <6>1, <1>2, <2>3, <5>1
        <5> QED
            BY <5>3, <5>4, PublishesFields
      <4>2. CASE s.call.dir # "caller"
        <5>1. PICK v : v = FinishCall(w)
            OBVIOUS
        <5>2. v.call = None /\ v.ends = s.ends
            BY <5>1, <2>1, <2>4, FinishCallKeeps
        <5>3. r = Quiet(v)
          <6>1. r = Quiet(FinishCall(
                        Close(ReceiveEnd(s, c.from, c.id), s.call.id, TRUE)))
              BY <1>0, <1>5, <2>7, <4>2 DEF ReceiveTermination
          <6> QED
              BY <6>1, <1>2, <2>3, <5>1
        <5> QED
            BY <5>2, <5>3, QuietFields
      <4> QED
          BY <4>1, <4>2
    <3> QED
        BY <3>1, <3>2, <2>1, <2>2 DEF QuitEffect
  <2> QED
      BY <2>5, <2>6, <2>7
<1> QED
    BY <1>4, <1>5

(* apply_call_control and handle_call_control                              *)
LEMMA ApplyQuits ==
    ASSUME NEW s, Good(s), NEW d \in Device, NEW c, Heard(d, c),
           NEW blocked \in BOOLEAN, NEW ok \in BOOLEAN,
           s.call # None => LocalCall(d, s.call)
    PROVE  QuitEffect(s, c, ApplyControl(s, d, c, blocked, ok))
<1>0. PICK r : r = ApplyControl(s, d, c, blocked, ok)
    OBVIOUS
<1> SUFFICES QuitEffect(s, c, r)
    BY <1>0
<1>1. c.act \in Actions
    BY DEF Heard, ControlType, Actions
<1>2. CASE ConfirmedClosed(s, c.id)
  <2>1. r.s = s
      BY <1>0, <1>2, QuietFields DEF ApplyControl
  <2> QED
      BY <2>1, KeptQuits
<1>3. CASE ~ConfirmedClosed(s, c.id) /\ UserOf[c.from] = UserOf[d]
  <2>1. PICK v : v = ObserveOwn(s, c)
      OBVIOUS
  <2>2. r = Quiet(v)
      BY <1>0, <1>3, <2>1 DEF ApplyControl
  <2>3. v.call = s.call /\ v.ends = s.ends
      BY <2>1, <1>3, OwnKeeps
  <2> QED
      BY <2>2, <2>3, QuietFields, KeptQuits
<1>4. CASE ~ConfirmedClosed(s, c.id) /\ UserOf[c.from] # UserOf[d]
  <2>0. r = CASE c.act = "offer" -> ReceiveOffer(s, d, c, blocked)
              [] c.act = "answer" -> ReceiveAnswer(s, d, c, ok)
              [] c.act = "occupied" -> Quiet(s)
              [] c.act = "selected" -> ReceiveSelection(s, d, c)
              [] c.act \in {"decline", "end"} -> ReceiveTermination(s, d, c)
      BY <1>0, <1>4 DEF ApplyControl
  <2>1. CASE c.act = "offer"
    <3>1. r = ReceiveOffer(s, d, c, blocked)
        BY <2>0, <2>1
    <3> QED
        BY <3>1, OfferQuits
  <2>2. CASE c.act = "answer"
    <3>1. r = ReceiveAnswer(s, d, c, ok)
        BY <2>0, <2>2
    <3> QED
        BY <3>1, AnswerQuits
  <2>3. CASE c.act = "occupied"
    <3>1. r.s = s
        BY <2>0, <2>3, QuietFields
    <3> QED
        BY <3>1, KeptQuits
  <2>4. CASE c.act = "selected"
    <3>1. r = ReceiveSelection(s, d, c)
        BY <2>0, <2>4
    <3> QED
        BY <3>1, SelectionQuits
  <2>5. CASE c.act \in {"decline", "end"}
    <3>1. r = ReceiveTermination(s, d, c) /\ Terminal(c)
        BY <2>0, <2>5 DEF Terminal
    <3> QED
        BY <3>1, TerminationQuits
  <2> QED
      BY <2>1, <2>2, <2>3, <2>4, <2>5, <1>1 DEF Actions
<1> QED
    BY <1>2, <1>3, <1>4

LEMMA HandlerQuits ==
    ASSUME NEW s, Good(s), NEW d \in Device, NEW c, Heard(d, c),
           NEW blocked \in BOOLEAN, NEW ok \in BOOLEAN,
           s.call # None => LocalCall(d, s.call), Fresh(s, c) \/ Terminal(c)
    PROVE  QuitEffect(s, c, HandleControl(s, d, c, blocked, ok))
<1>1. PICK t : /\ Taken(s, t, c)
               /\ HandleControl(s, d, c, blocked, ok) = ApplyControl(t, d, c, blocked, ok)
    BY HandlerTakes
<1>2. Good(t) /\ t.call = s.call /\ t.ends = s.ends
    BY <1>1 DEF Taken
<1>3. PICK r : r = ApplyControl(t, d, c, blocked, ok)
    OBVIOUS
<1>4. QuitEffect(t, c, r)
    BY <1>2, <1>3, ApplyQuits
<1>5. HeldIds(t) = HeldIds(s)
    BY <1>2 DEF HeldIds
<1>6. QuitEffect(s, c, r)
    BY <1>2, <1>4, <1>5 DEF QuitEffect
<1> QED
    BY <1>1, <1>3, <1>6

(* Whoever sent a terminal control, or repeats one, gave that call up.     *)
QuitInv ==
    /\ \A m \in sent : Terminal(m) => m.id \in past[m.from].quit
    /\ \A d \in Device : \A x \in Range(dev[d].ends) : x.id \in past[d].quit

(* A step of device d gives up what it ends, refuses or leaves.            *)
Quits(d) ==
    /\ \A e \in Device : past[e].quit \subseteq past'[e].quit
    /\ \A m \in sent' :
          m \in sent \/ (m.from = d /\ (Terminal(m) => m.id \in past'[d].quit))
    /\ \A e \in Device \ {d} : dev'[e] = dev[e]
    /\ \A x \in Range(dev'[d].ends) : x.id \in past'[d].quit
    /\ Active(d) /\ dev'[d].call # dev[d].call =>
          HeldIds(dev[d]) \cap past'[d].quit # {}

LEMMA SettleQuits ==
    ASSUME TypeInv, NEW d \in Device, NEW r, NEW outcome, plan' = plan,
           Good(r.s), r.s.seq = dev[d].seq, r.out \in Publication \cup {None},
           Settle(d, r, outcome),
           NEW quit \in SUBSET CallIds, NEW heard \in SUBSET CallIds,
           Note(d, quit, heard),
           r.out # None /\ r.out.act \in {"end", "decline"} /\ outcome = "sent"
               => r.out.id \in past[d].quit \cup quit,
           \A x \in Range(r.s.ends) : x.id \in past[d].quit \cup quit,
           Active(d) /\ r.s.call # dev[d].call => HeldIds(dev[d]) \cap quit # {}
    PROVE  Quits(d)
<1>1. PICK out : out = IF outcome = "sent" THEN r.out ELSE None
    OBVIOUS
<1>2. PICK h : Settles(d, h, out) /\ AlikeButSeq(r.s, h)
    BY <1>1, SettleFields
<1>3. /\ Good(h) /\ h.seq \in Nat /\ dev' = [dev EXCEPT ![d] = h]
      /\ h.call = r.s.call /\ h.ends = r.s.ends
      /\ out \in Publication \cup {None}
      /\ out = None => sent' = sent
      /\ out # None => sent' = sent \cup {Stamp(d, out, h.seq)}
    BY <1>2 DEF Settles, AlikeButSeq, Good, Session
<1>4. dev'[d] = h /\ \A e \in Device \ {d} : dev'[e] = dev[e]
    BY <1>3 DEF TypeInv
<1>5. /\ \A e \in Device \ {d} : past'[e] = past[e]
      /\ past'[d].quit = past[d].quit \cup quit
    BY <1>3, NoteFields
<1>6. ASSUME NEW m \in sent', m \notin sent
      PROVE  m.from = d /\ (Terminal(m) => m.id \in past'[d].quit)
  <2>1. out # None /\ out \in Publication /\ m = Stamp(d, out, h.seq)
      BY <1>3, <1>6
  <2>2. m.from = d /\ m.id = out.id /\ m.act = out.act
      BY <2>1, <1>3, StampFields
  <2>3. out = r.out /\ outcome = "sent"
      BY <2>1, <1>1
  <2> QED
      BY <2>1, <2>2, <2>3, <1>5 DEF Terminal
<1>7. \A x \in Range(dev'[d].ends) : x.id \in past'[d].quit
    BY <1>3, <1>4, <1>5
<1>8. Active(d) /\ dev'[d].call # dev[d].call => HeldIds(dev[d]) \cap past'[d].quit # {}
    BY <1>3, <1>4, <1>5
<1>9. \A e \in Device : past[e].quit \subseteq past'[e].quit
    BY <1>5
<1>10. \A m \in sent' :
          m \in sent \/ (m.from = d /\ (Terminal(m) => m.id \in past'[d].quit))
    BY <1>6
<1> QED
    BY <1>4, <1>7, <1>8, <1>9, <1>10 DEF Quits

(* A device takes a control in.                                            *)
LEMMA HandleQuits ==
    ASSUME CallInv, QuitInv, plan' = plan, NEW d \in Device, NEW outcome,
           HandleCallControl(d, outcome)
    PROVE  Quits(d)
<1>1. PICK s : s = dev[d]
    OBVIOUS
<1>2. /\ TypeInv /\ Good(s) /\ s.call \in Call \cup {None}
      /\ s.call # None => LocalCall(d, s.call) /\ ~ConfirmedClosed(s, s.call.id)
    BY <1>1, DeviceGood DEF CallInv, HeldCall, Session
<1>3. PICK ok \in BOOLEAN : ok = (outcome = "sent")
    OBVIOUS
<1>4. PICK c \in sent, blocked \in plan.elsewhere :
          LET r == HandleControl(s, d, c, blocked, ok)
          IN  /\ c.from # d
              /\ IF Terminal(c) THEN <<c.from, c.seq>> \notin s.used
                 ELSE Fresh(s, c)
              /\ Settle(d, r, outcome)
              /\ Note(d, GivesUp(s, c, r),
                      IF /\ outcome # "refused"
                         /\ c.act = "end" /\ c.caller = c.from
                      THEN {c.id} ELSE {})
    BY <1>1, <1>3 DEF HandleCallControl
<1>5. /\ c \in ControlType /\ blocked \in BOOLEAN /\ c.id \in CallIds
    BY <1>2 DEF TypeInv, PlanType, ControlType
<1>6. Heard(d, c)
    BY <1>4, <1>5 DEF Heard, CallInv, OffersSigned
<1>7. Fresh(s, c) \/ Terminal(c)
    BY <1>4
<1>8. PICK r : r = HandleControl(s, d, c, blocked, ok)
    OBVIOUS
<1>9. PICK t : Taken(s, t, c) /\ Effect(t, d, c, ok, r)
    BY <1>2, <1>5, <1>6, <1>7, <1>8, HandlerEffect
<1>10. /\ Good(r.s) /\ r.s.seq = dev[d].seq /\ r.out \in Publication \cup {None}
       /\ r.out # None /\ r.out.act = "end" =>
             s.call # None /\ r.s.call = None /\ r.out.id = s.call.id
    BY <1>1, <1>9 DEF Effect, Taken, OutEffect
<1>11. QuitEffect(s, c, r)
    BY <1>2, <1>5, <1>6, <1>7, <1>8, HandlerQuits
<1>12. PICK quit : quit = GivesUp(s, c, r)
    OBVIOUS
<1>13. PICK heard : heard = IF /\ outcome # "refused"
                              /\ c.act = "end" /\ c.caller = c.from
                            THEN {c.id} ELSE {}
    OBVIOUS
<1>14. quit \in SUBSET CallIds /\ heard \in SUBSET CallIds
    BY <1>2, <1>5, <1>10, <1>12, <1>13, GivesUpType
<1>15. Settle(d, r, outcome) /\ Note(d, quit, heard)
    BY <1>4, <1>8, <1>12, <1>13
<1>16. s.call # None => s.call.id \in HeldIds(s)
    BY <1>2, NoneAssumption DEF HeldIds, Call
<1>17. s.call # None /\ r.s.call = None => HeldIds(s) \subseteq quit
    \* an active call is left for a counterpart that gave it up
  <2> SUFFICES ASSUME s.call # None, r.s.call = None
               PROVE  HeldIds(s) \subseteq quit
      OBVIOUS
  <2>1. s.call.phase = "active" =>
            /\ c.from \in {s.call.caller, s.call.sel}
            /\ c.id \in HeldIds(s) \cap past[c.from].quit
    <3>1. Terminal(c) => c.id \in past[c.from].quit
        BY DEF QuitInv
    <3> QED
        BY <3>1, <1>11 DEF QuitEffect
  <2> QED
      BY <2>1, <1>12 DEF GivesUp
<1>18. r.out # None /\ r.out.act = "decline" => r.out.id \in quit
    BY <1>12 DEF GivesUp
<1>19. r.out # None /\ r.out.act \in {"end", "decline"} => r.out.id \in quit
    BY <1>10, <1>16, <1>17, <1>18
<1>20. \A x \in Range(r.s.ends) : x.id \in past[d].quit \cup quit
  <2> SUFFICES ASSUME NEW x \in Range(r.s.ends) PROVE x.id \in past[d].quit \cup quit
      OBVIOUS
  <2>1. CASE x \in Range(s.ends)
      BY <2>1, <1>1 DEF QuitInv
  <2>2. CASE r.out # None /\ r.out.act = "decline" /\ x.id = r.out.id
      BY <2>2, <1>18
  <2>3. CASE s.call # None /\ r.s.call = None /\ x.id = s.call.id
      BY <2>3, <1>16, <1>17
  <2> QED
      BY <2>1, <2>2, <2>3, <1>11 DEF QuitEffect
<1>21. Active(d) /\ r.s.call # dev[d].call => HeldIds(dev[d]) \cap quit # {}
  <2>1. Active(d) /\ r.s.call # dev[d].call => s.call # None /\ r.s.call = None
      BY <1>1, <1>11 DEF Active, QuitEffect
  <2> QED
      BY <2>1, <1>1, <1>16, <1>17
<1> QED
    BY <1>2, <1>10, <1>14, <1>15, <1>19, <1>20, <1>21, SettleQuits

(* The user or the engine ends, declines, starts or accepts a call.        *)
LEMMA CallEndQuits ==
    ASSUME CallInv, QuitInv, plan' = plan, NEW d \in Device, NEW outcome,
           CallEnd(d, outcome)
    PROVE  Quits(d)
<1>1. PICK s : s = dev[d]
    OBVIOUS
<1>2. TypeInv /\ Good(s) /\ s.call # None /\ s.call \in Call
    BY <1>1, DeviceGood DEF CallEnd, CallInv, Session
<1>3. "ended" \in Reasons /\ TRUE \in BOOLEAN
    BY DEF Reasons
<1>4. PICK r : r = EndCall(s, "ended")
    OBVIOUS
<1>5. Finished(s, r.s) /\ r.out = End(s.call.id, s.call.caller, "ended")
    BY <1>2, <1>3, <1>4, EndCallEffect, Zenon
<1>6. r.out \in Publication /\ r.out.act = "end" /\ r.out.id = s.call.id
    BY <1>2, <1>3, <1>5, EndFields
<1>7. \A x \in Range(r.s.ends) : x \in Range(s.ends) \/ x.id = s.call.id
    BY <1>2, <1>3, <1>4, EndCallQuits
<1>8. Settle(d, r, outcome) /\ Note(d, HeldIds(s), {})
    BY <1>1, <1>4 DEF CallEnd
<1>9. Good(r.s) /\ r.s.seq = dev[d].seq
    BY <1>1, <1>5 DEF Finished
<1>10. s.call.id \in HeldIds(s) /\ HeldIds(s) \in SUBSET CallIds
    BY <1>2, NoneAssumption, HeldIdsType DEF HeldIds, Call
<1>11. \A x \in Range(r.s.ends) : x.id \in past[d].quit \cup HeldIds(s)
    BY <1>1, <1>7, <1>10 DEF QuitInv
<1>12. HeldIds(dev[d]) \cap HeldIds(s) # {}
    BY <1>1, <1>10
<1> QED
    BY <1>2, <1>6, <1>8, <1>9, <1>10, <1>11, <1>12, SettleQuits

LEMMA CallDeclineQuits ==
    ASSUME CallInv, QuitInv, plan' = plan, NEW d \in Device, NEW outcome,
           CallDecline(d, outcome)
    PROVE  Quits(d)
<1>1. PICK s : s = dev[d]
    OBVIOUS
<1>2. TypeInv /\ Good(s)
    BY <1>1, DeviceGood DEF CallInv
<1>3. PICK id \in HeldIds(s) :
          /\ Settle(d, Publishes(IF outcome = "sent"
                                 THEN FinishCall(Remember(s, id, "decline", "user"))
                                 ELSE s, Decline(id, "user")), outcome)
          /\ Note(d, IF outcome = "sent" THEN HeldIds(s) ELSE {}, {})
    BY <1>1 DEF CallDecline
<1>4. id \in CallIds /\ s.call # None /\ HeldIds(s) \in SUBSET CallIds
    BY <1>2, <1>3, HeldIdsType DEF HeldIds
<1>5. PICK t : t = IF outcome = "sent"
                   THEN FinishCall(Remember(s, id, "decline", "user")) ELSE s
    OBVIOUS
<1>6. PICK r : r = Publishes(t, Decline(id, "user"))
    OBVIOUS
<1>7. r.s = t /\ r.out = Decline(id, "user") /\ Settle(d, r, outcome)
    BY <1>3, <1>5, <1>6, PublishesFields
<1>8. r.out \in Publication /\ r.out.id = id
    BY <1>4, <1>7 DEF Decline, Control, Publication
<1>9. PICK quit : quit = IF outcome = "sent" THEN HeldIds(s) ELSE {}
    OBVIOUS
<1>10. quit \in SUBSET CallIds /\ Note(d, quit, {})
    BY <1>3, <1>4, <1>9
<1>11. /\ Good(t) /\ t.seq = s.seq
       /\ outcome # "sent" => t = s
       /\ \A x \in Range(t.ends) : x \in Range(s.ends) \/ x.id \in quit
  <2>1. CASE outcome # "sent"
      BY <2>1, <1>2, <1>5
  <2>2. CASE outcome = "sent"
    <3>1. "user" \in Reasons /\ "decline" \in {"end", "decline"} /\ "decline" # "end"
        BY DEF Reasons
    <3>2. Finished(s, t)
        BY <3>1, <2>2, <1>2, <1>4, <1>5, RememberFinish
    <3>3. \A x \in Range(t.ends) : x \in Range(s.ends) \/ x.id = id
        BY <3>1, <2>2, <1>2, <1>4, <1>5, FinishQuits
    <3> QED
        BY <2>2, <3>2, <3>3, <1>3, <1>9 DEF Finished
  <2> QED
      BY <2>1, <2>2
<1>12. \A x \in Range(r.s.ends) : x.id \in past[d].quit \cup quit
    BY <1>1, <1>7, <1>11 DEF QuitInv
<1>13. outcome = "sent" => r.out.id \in past[d].quit \cup quit
    BY <1>3, <1>8, <1>9
<1>14. r.s.call # dev[d].call => HeldIds(dev[d]) \cap quit # {}
    BY <1>1, <1>3, <1>7, <1>9, <1>11
<1> QED
    BY <1>1, <1>2, <1>7, <1>8, <1>10, <1>11, <1>12, <1>13, <1>14, SettleQuits

(* Steps that give nothing up.                                             *)
LEMMA IdleQuits ==
    ASSUME TypeInv, QuitInv, NEW d \in Device, NEW r, NEW outcome, plan' = plan,
           Good(r.s), r.s.seq = dev[d].seq, r.out \in Publication,
           r.s.ends = dev[d].ends, Active(d) => r.s.call = dev[d].call,
           r.out.act \in {"end", "decline"} => r.out.id \in past[d].quit,
           Settle(d, r, outcome), Note(d, {}, {})
    PROVE  Quits(d)
<1>1. \A x \in Range(r.s.ends) : x.id \in past[d].quit \cup {}
    BY DEF QuitInv
<1>2. {} \in SUBSET CallIds
    OBVIOUS
<1> QED
    BY <1>1, <1>2, SettleQuits

LEMMA CallStartQuits ==
    ASSUME CallInv, QuitInv, plan' = plan, NEW d \in Device, NEW outcome,
           CallStart(d, outcome)
    PROVE  Quits(d)
<1>1. PICK n \in 1 .. MaxCalls :
          Settle(d, Publishes([dev[d] EXCEPT !.call =
                          IF outcome = "sent" THEN Outgoing(<<d, n>>, d) ELSE None],
                              Offer(<<d, n>>)), outcome)
    BY DEF CallStart
<1>2. PICK id \in CallIds : id = <<d, n>>
    BY DEF CallIds
<1>3. TypeInv /\ Good(dev[d]) /\ dev[d].call = None
    BY DeviceGood DEF CallInv, CallStart
<1>4. PICK call : call = IF outcome = "sent" THEN Outgoing(id, d) ELSE None
    OBVIOUS
<1>5. call \in Call \cup {None}
    BY <1>4 DEF Outgoing, Call, Phases
<1>6. PICK t : t = [dev[d] EXCEPT !.call = call]
    OBVIOUS
<1>7. Good(t) /\ t.seq = dev[d].seq /\ t.ends = dev[d].ends
    BY <1>3, <1>5, <1>6, CallOnlyGood
<1>8. PICK r : r = Publishes(t, Offer(id))
    OBVIOUS
<1>9. r.s = t /\ r.out = Offer(id) /\ Settle(d, r, outcome)
    BY <1>1, <1>2, <1>4, <1>6, <1>8, PublishesFields
<1>10. Offer(id) \in Publication /\ Offer(id).act = "offer"
    BY DEF Offer, Control, Publication
<1>11. ~Active(d) /\ Note(d, {}, {})
    BY <1>3 DEF Active, CallStart
<1> QED
    BY <1>3, <1>7, <1>9, <1>10, <1>11, IdleQuits

LEMMA CallAcceptQuits ==
    ASSUME CallInv, QuitInv, plan' = plan, NEW d \in Device, NEW outcome,
           CallAccept(d, outcome)
    PROVE  Quits(d)
<1>1. PICK s : s = dev[d]
    OBVIOUS
<1>2. /\ TypeInv /\ Good(s) /\ s \in Session /\ s.call # None /\ s.call \in Call
      /\ s.call.phase \in {"ringing", "accepting"}
    BY <1>1, DeviceGood DEF CallInv, CallAccept, Session
<1>3. PICK t : t = IF outcome = "sent" THEN [s EXCEPT !.call.phase = "accepting"] ELSE s
    OBVIOUS
<1>4. /\ t \in Session /\ t.seq = s.seq /\ t.closed = s.closed /\ t.ends = s.ends
      /\ t.occ = s.occ
    BY <1>2, <1>3 DEF Session, Call, Phases
<1>5. Good(t)
  <2>1. Reserved(t) = Reserved(s)
      BY <1>4 DEF Reserved
  <2> QED
      BY <2>1, <1>2, <1>4 DEF Good, Bounded
<1>6. PICK r : r = Publishes(t, Answer(s.call.id))
    OBVIOUS
<1>7. r.s = t /\ r.out = Answer(s.call.id) /\ Settle(d, r, outcome)
    BY <1>1, <1>3, <1>6, PublishesFields DEF CallAccept
<1>8. Answer(s.call.id) \in Publication /\ Answer(s.call.id).act = "answer"
    BY <1>2 DEF Answer, Control, Publication, Call
<1>9. ~Active(d) /\ Note(d, {}, {})
    BY <1>1, <1>2 DEF Active, CallAccept
<1> QED
    BY <1>1, <1>2, <1>4, <1>5, <1>7, <1>8, <1>9, IdleQuits

LEMMA ResendQuits ==
    ASSUME CallInv, QuitInv, plan' = plan, NEW d \in Device, NEW outcome,
           Resend(d, outcome)
    PROVE  Quits(d)
<1>1. PICK s : s = dev[d]
    OBVIOUS
<1>2. /\ TypeInv /\ Good(s) /\ s.call # None /\ s.call \in Call
    BY <1>1, DeviceGood DEF CallInv, Resend, Session
<1>3. PICK m : m = OutboundControl(s.call)
    OBVIOUS
<1>4. m \in Publication /\ m.act \notin {"end", "decline"}
  <2>1. /\ s.call.id \in CallIds /\ s.call.caller \in Device
        /\ s.call.sel \in Device \cup {None}
      BY <1>2 DEF Call
  <2>2. \/ m = Offer(s.call.id) \/ m = Answer(s.call.id)
        \/ m = Selected(s.call.id, s.call.sel) \/ m = Occupied(s.call)
      BY <1>3 DEF OutboundControl
  <2>3. /\ Offer(s.call.id) \in Publication /\ Offer(s.call.id).act = "offer"
        /\ Answer(s.call.id) \in Publication /\ Answer(s.call.id).act = "answer"
      BY <2>1 DEF Offer, Answer, Control, Publication
  <2>4. /\ Selected(s.call.id, s.call.sel) \in Publication
        /\ Selected(s.call.id, s.call.sel).act = "selected"
      BY <2>1 DEF Selected, Control, Publication
  <2>5. Occupied(s.call) \in Publication /\ Occupied(s.call).act = "occupied"
      BY <2>1 DEF Occupied, Control, Publication
  <2> QED
      BY <2>2, <2>3, <2>4, <2>5
<1>5. PICK r : r = Publishes(s, m)
    OBVIOUS
<1>6. r.s = s /\ r.out = m /\ Settle(d, r, outcome) /\ Note(d, {}, {})
    BY <1>1, <1>3, <1>5, PublishesFields DEF Resend
<1> QED
    BY <1>1, <1>2, <1>4, <1>6, IdleQuits

LEMMA RetryEndQuits ==
    ASSUME CallInv, QuitInv, plan' = plan, NEW d \in Device, NEW outcome,
           RetryEnd(d, outcome)
    PROVE  Quits(d)
<1>1. PICK s : s = dev[d]
    OBVIOUS
<1>2. TypeInv /\ Good(s)
    BY <1>1, DeviceGood DEF CallInv
<1>3. PICK x \in Range(s.ends) :
          Settle(d, Publishes(s, Control(x.id, x.act, x.caller, None, x.reason)), outcome)
    BY <1>1 DEF RetryEnd
<1>4. x \in Ending
  <2>1. s.ends \in Seq(Ending)
      BY <1>2 DEF Good, Session
  <2>2. \A i \in DOMAIN s.ends : s.ends[i] \in Ending
      BY <2>1, LenProperties, ElementOfSeq
  <2> QED
      BY <2>2, <1>3 DEF Range
<1>5. PICK m : m = Control(x.id, x.act, x.caller, None, x.reason)
    OBVIOUS
<1>6. m \in Publication /\ m.id = x.id
    BY <1>4, <1>5 DEF Control, Publication, Ending, Reasons
<1>7. x.id \in past[d].quit
    BY <1>1, <1>3 DEF QuitInv
<1>8. PICK r : r = Publishes(s, m)
    OBVIOUS
<1>9. r.s = s /\ r.out = m /\ Settle(d, r, outcome) /\ Note(d, {}, {})
    BY <1>1, <1>3, <1>5, <1>8, PublishesFields DEF RetryEnd
<1> QED
    BY <1>1, <1>2, <1>6, <1>7, <1>9, IdleQuits

LEMMA ExpireQuits ==
    ASSUME CallInv, QuitInv, NEW d \in Device, Expire(d)
    PROVE  Quits(d)
<1>1. dev \in [Device -> Session] /\ dev[d] \in Session
    BY DEF CallInv, TypeInv
<1>2. PICK e \in Device : dev' = [dev EXCEPT ![d].occ[e] = None]
    BY DEF Expire, Reserved
<1>3. PICK h : h = [dev[d] EXCEPT !.occ[e] = None]
    OBVIOUS
<1>4. h.call = dev[d].call /\ h.ends = dev[d].ends
    BY <1>1, <1>3 DEF Session
<1>5. dev'[d] = h /\ \A f \in Device \ {d} : dev'[f] = dev[f]
    BY <1>1, <1>2, <1>3
<1>6. sent' = sent /\ past' = past
    BY DEF Expire
<1>7. \A x \in Range(dev'[d].ends) : x.id \in past'[d].quit
    BY <1>4, <1>5, <1>6 DEF QuitInv
<1> QED
    BY <1>4, <1>5, <1>6, <1>7 DEF Quits

LEMMA LearnRemovalQuits ==
    ASSUME CallInv, QuitInv, plan' = plan, NEW d \in Device, NEW e, LearnRemoval(d, e)
    PROVE  Quits(d)
<1>1. PICK b : b = dev[d]
    OBVIOUS
<1>2. TypeInv /\ Good(b) /\ b \in Session /\ e \in Device
    BY <1>1, DeviceGood DEF LearnRemoval, CallInv, TypeInv, PlanType
<1>3. PICK s : s = [b EXCEPT !.gone = @ \cup {e}]
    OBVIOUS
<1>4. /\ s \in Session /\ s.seq = b.seq /\ s.call = b.call /\ s.closed = b.closed
      /\ s.ends = b.ends /\ s.occ = b.occ
    BY <1>2, <1>3 DEF Session
<1>5. Good(s)
  <2>1. Reserved(s) = Reserved(b)
      BY <1>4 DEF Reserved
  <2> QED
      BY <2>1, <1>2, <1>4 DEF Good, Bounded
<1>6. PICK t : t = IF s.call # None /\ ~CallAuthorized(s, d) THEN FinishCall(s) ELSE s
    OBVIOUS
<1>7. PICK quit : quit = IF CallAuthorized(s, d) THEN {} ELSE HeldIds(s)
    OBVIOUS
<1>8. PICK r : r = Quiet(t)
    OBVIOUS
<1>9. r.s = t /\ r.out = None /\ Settle(d, r, "sent") /\ Note(d, quit, {})
    BY <1>1, <1>3, <1>6, <1>7, <1>8, QuietFields DEF LearnRemoval
<1>10. /\ Good(t) /\ t.seq = s.seq /\ t.ends = s.ends
       /\ t.call # s.call => s.call # None /\ ~CallAuthorized(s, d)
  <2>1. CASE s.call # None /\ ~CallAuthorized(s, d)
      BY <2>1, <1>5, <1>6, FinishCallKeeps
  <2>2. CASE ~(s.call # None /\ ~CallAuthorized(s, d))
      BY <2>2, <1>5, <1>6
  <2> QED
      BY <2>1, <2>2
<1>11. HeldIds(s) = HeldIds(b) /\ quit \in SUBSET CallIds
    BY <1>4, <1>5, <1>7, HeldIdsType DEF HeldIds
<1>12. s.call # None => s.call.id \in HeldIds(s)
    BY <1>4, NoneAssumption DEF HeldIds, Session, Call
<1>13. Active(d) /\ r.s.call # dev[d].call => HeldIds(dev[d]) \cap quit # {}
    BY <1>1, <1>4, <1>7, <1>9, <1>10, <1>11, <1>12
<1>14. \A x \in Range(r.s.ends) : x.id \in past[d].quit \cup quit
    BY <1>1, <1>4, <1>9, <1>10 DEF QuitInv
<1>15. {} \in SUBSET CallIds /\ r.s.seq = dev[d].seq
    BY <1>1, <1>4, <1>9, <1>10
<1> QED
    BY <1>2, <1>9, <1>10, <1>11, <1>13, <1>14, <1>15, SettleQuits

(* Restarts: the call is given up, the repeated controls are forgotten.    *)
LEMMA RestartQuits ==
    ASSUME CallInv, NEW d \in Device, NEW h, Good(h), h.ends = << >>,
           dev' = [dev EXCEPT ![d] = h], Note(d, HeldIds(dev[d]), {}),
           \A m \in sent' : m \in sent \/ (m.from = d /\ m.id \in HeldIds(dev[d]))
    PROVE  Quits(d)
<1>1. TypeInv /\ Good(dev[d]) /\ dev[d].call \in Call \cup {None}
    BY DeviceGood DEF CallInv, Session
<1>2. HeldIds(dev[d]) \in SUBSET CallIds /\ {} \in SUBSET CallIds
    BY <1>1, HeldIdsType
<1>3. /\ \A e \in Device \ {d} : past'[e] = past[e]
      /\ past'[d].quit = past[d].quit \cup HeldIds(dev[d])
    BY <1>1, <1>2, NoteFields
<1>4. dev'[d] = h /\ \A e \in Device \ {d} : dev'[e] = dev[e]
    BY <1>1 DEF TypeInv
<1>5. Range(dev'[d].ends) = {}
  <2>1. DOMAIN << >> = {}
      BY EmptySeq
  <2> QED
      BY <2>1, <1>4 DEF Range
<1>6. Active(d) => HeldIds(dev[d]) \cap past'[d].quit # {}
  <2>1. Active(d) => dev[d].call.id \in HeldIds(dev[d])
      BY <1>1, NoneAssumption DEF Active, HeldIds, Call
  <2> QED
      BY <2>1, <1>3
<1>7. \A e \in Device : past[e].quit \subseteq past'[e].quit
    BY <1>3
<1>8. \A m \in sent' :
          m \in sent \/ (m.from = d /\ (Terminal(m) => m.id \in past'[d].quit))
    BY <1>3
<1> QED
    BY <1>4, <1>5, <1>6, <1>7, <1>8 DEF Quits

LEMMA CrashQuits ==
    ASSUME CallInv, plan' = plan, NEW d \in Device, Crash(d)
    PROVE  Quits(d)
<1>1. disk[d] \in Record /\ Len(disk[d].closed) <= ClosedCap
    BY DEF CallInv, TypeInv
<1>2. PICK h : h = Restored(disk[d])
    OBVIOUS
<1>3. Good(h) /\ h.ends = << >>
    BY <1>1, <1>2, RestoredFields
<1>4. dev' = [dev EXCEPT ![d] = h] /\ sent' = sent /\ Note(d, HeldIds(dev[d]), {})
    BY <1>2 DEF Crash
<1> QED
    BY <1>3, <1>4, RestartQuits

LEMMA CrashAfterEndingQuits ==
    ASSUME CallInv, plan' = plan, NEW d \in Device, CrashAfterEnding(d)
    PROVE  Quits(d)
<1>1. PICK s : s = dev[d]
    OBVIOUS
<1>2. /\ Good(s) /\ s \in Session /\ s.seq \in Nat /\ s.call # None /\ s.call \in Call
    BY <1>1, DeviceGood DEF CallInv, CrashAfterEnding, Session
<1>3. PICK n \in Nat : n = s.seq + 1
    BY <1>2
<1>4. PICK u : u = [s EXCEPT !.seq = n]
    OBVIOUS
<1>5. u \in Session /\ u.closed = s.closed /\ u.ends = s.ends /\ u.occ = s.occ
    BY <1>2, <1>4 DEF Session
<1>6. Good(u)
  <2>1. Reserved(u) = Reserved(s)
      BY <1>5 DEF Reserved
  <2> QED
      BY <2>1, <1>2, <1>5 DEF Good, Bounded
<1>7. PICK saved : saved = Durable(u)
    OBVIOUS
<1>8. saved \in Record /\ Len(saved.closed) <= ClosedCap
    BY <1>6, <1>7, DurableFields
<1>9. PICK h : h = Restored(saved)
    OBVIOUS
<1>10. Good(h) /\ h.ends = << >>
    BY <1>8, <1>9, RestoredFields
<1>11. dev' = [dev EXCEPT ![d] = h] /\ Note(d, HeldIds(dev[d]), {})
    BY <1>1, <1>3, <1>4, <1>7, <1>9 DEF CrashAfterEnding
<1>12. PICK out : /\ out \in {End(s.call.id, s.call.caller, "ended")}
                          \cup {Decline(id, "user") : id \in HeldIds(s)}
                  /\ sent' = sent \cup {Stamp(d, out, n)}
    BY <1>1, <1>3 DEF CrashAfterEnding
<1>13. out.id \in HeldIds(s)
  <2>1. s.call.id \in HeldIds(s)
      BY <1>2, NoneAssumption DEF HeldIds, Call
  <2>2. CASE out = End(s.call.id, s.call.caller, "ended")
      BY <2>1, <2>2 DEF End, Control
  <2>3. CASE out \in {Decline(id, "user") : id \in HeldIds(s)}
      BY <2>3 DEF Decline, Control
  <2> QED
      BY <2>2, <2>3, <1>12
<1>14. Stamp(d, out, n).from = d /\ Stamp(d, out, n).id = out.id
    BY DEF Stamp
<1>15. \A m \in sent' : m \in sent \/ (m.from = d /\ m.id \in HeldIds(dev[d]))
    BY <1>1, <1>12, <1>13, <1>14
<1> QED
    BY <1>10, <1>11, <1>15, RestartQuits

LEMMA NextQuits ==
    ASSUME CallInv, QuitInv, Next
    PROVE  \E d \in Device : Quits(d)
<1>1. plan' = plan /\ plan.present \subseteq Device
    BY DEF CallInv, TypeInv, PlanType, Next
<1>2. PICK d \in Device :
          \/ \E outcome \in plan.outcomes :
                \/ CallStart(d, outcome)
                \/ CallAccept(d, outcome)
                \/ CallDecline(d, outcome)
                \/ CallEnd(d, outcome)
                \/ HandleCallControl(d, outcome)
                \/ Resend(d, outcome)
                \/ RetryEnd(d, outcome)
          \/ Expire(d)
          \/ Crash(d)
          \/ CrashAfterEnding(d)
          \/ \E e \in plan.present : LearnRemoval(d, e)
    BY <1>1 DEF Next
<1>3. CASE \E outcome \in plan.outcomes :
                CallStart(d, outcome) \/ CallAccept(d, outcome)
    BY <1>1, <1>3, CallStartQuits, CallAcceptQuits
<1>4. CASE \E outcome \in plan.outcomes :
                CallDecline(d, outcome) \/ CallEnd(d, outcome)
    BY <1>1, <1>4, CallDeclineQuits, CallEndQuits
<1>5. CASE \E outcome \in plan.outcomes : HandleCallControl(d, outcome)
    BY <1>1, <1>5, HandleQuits
<1>6. CASE \E outcome \in plan.outcomes : Resend(d, outcome) \/ RetryEnd(d, outcome)
    BY <1>1, <1>6, ResendQuits, RetryEndQuits
<1>7. CASE Expire(d) \/ Crash(d) \/ CrashAfterEnding(d)
    BY <1>1, <1>7, ExpireQuits, CrashQuits, CrashAfterEndingQuits
<1>8. CASE \E e \in plan.present : LearnRemoval(d, e)
    BY <1>1, <1>8, LearnRemovalQuits
<1> QED
    BY <1>2, <1>3, <1>4, <1>5, <1>6, <1>7, <1>8

LEMMA QuitAlways ==
    Spec => []QuitInv
<1>1. Init => QuitInv
  <2> SUFFICES ASSUME Init PROVE QuitInv
      OBVIOUS
  <2>1. Restored(Blank).ends = << >>
      BY DEF Restored
  <2>2. DOMAIN << >> = {}
      BY EmptySeq
  <2>3. \A d \in Device : dev[d] = Restored(Blank)
      BY DEF Init
  <2>4. \A d \in Device : Range(dev[d].ends) = {}
      BY <2>1, <2>2, <2>3 DEF Range
  <2> QED
      BY <2>4 DEF Init, QuitInv
<1>2. ASSUME CallInv, QuitInv, NEW d \in Device, Quits(d) PROVE QuitInv'
  <2>1. \A m \in sent : m.from \in Device
      BY <1>2 DEF CallInv, TypeInv, ControlType
  <2>2. ASSUME NEW m \in sent', Terminal(m) PROVE m.id \in past'[m.from].quit
      BY <1>2, <2>1, <2>2 DEF Quits, QuitInv
  <2>3. ASSUME NEW e \in Device, NEW x \in Range(dev'[e].ends)
        PROVE  x.id \in past'[e].quit
      BY <1>2, <2>3 DEF Quits, QuitInv
  <2> QED
      BY <2>2, <2>3 DEF QuitInv, Terminal
<1>3. ASSUME QuitInv, UNCHANGED vars PROVE QuitInv'
    BY <1>3 DEF QuitInv, Terminal, vars
<1>4. CallInv /\ QuitInv /\ [Next]_vars => QuitInv'
    BY <1>2, <1>3, NextQuits
<1> QED
    BY <1>1, <1>4, CallAlways, PTL DEF Spec

(* Only its two devices end an accepted call (ADR 0043): whatever is lost, *)
(* late or repeated, a device that leaves an active call leaves one that   *)
(* it or its counterpart gave up.                                          *)
THEOREM OnlyThePairEndsACall ==
    Spec => SelectedPairKeepsCall
<1>1. CallInv /\ QuitInv /\ [Next]_vars =>
        [\A d \in Device :
          Active(d) /\ dev'[d].call # dev[d].call =>
              LET c == dev[d].call
              IN  HeldIds(dev[d]) \cap
                      (past'[c.caller].quit \cup past'[c.sel].quit) # {}]_vars
  <2> SUFFICES ASSUME CallInv, QuitInv, Next, NEW d \in Device,
                      Active(d), dev'[d].call # dev[d].call
               PROVE  HeldIds(dev[d]) \cap
                      (past'[dev[d].call.caller].quit \cup past'[dev[d].call.sel].quit) # {}
      OBVIOUS
  <2>1. PICK e \in Device : Quits(e)
      BY NextQuits
  <2>2. e = d
      BY <2>1 DEF Quits
  <2>3. HeldIds(dev[d]) \cap past'[d].quit # {}
      BY <2>1, <2>2 DEF Quits
  <2>4. d \in {dev[d].call.caller, dev[d].call.sel}
    <3>1. dev[d].call # None /\ dev[d].call \in Call /\ LocalCall(d, dev[d].call)
        BY DEF CallInv, HeldCall, Active, TypeInv, Session
    <3>2. dev[d].call.sel \in Device /\ None \notin Device
        BY <3>1, CallsAssumption DEF LocalCall, Active
    <3> QED
        BY <3>1, <3>2 DEF LocalCall, Call
  <2> QED
      BY <2>3, <2>4
<1> QED
    BY <1>1, CallAlways, QuitAlways, PTL DEF Spec, SelectedPairKeepsCall

=============================================================================
