--------------------------- MODULE DmDeliveryProofs ---------------------------
(* Theorems about DmDelivery, for every number of texts, resends and        *)
(* generations.                                                             *)
EXTENDS DmDelivery, TLAPS

LEMMA NodeFacts == "S" \in Node /\ "R" \in Node /\ "S" # "R"
  BY DEF Node

(* What persist_send leaves behind is well typed if the memory it saves is. *)
LEMMA PersistSendType ==
  ASSUME TypeOK, NEW m \in Msgs, NEW deep \in BOOLEAN, NEW o \in Outcome,
         msg' \in [Msgs -> Status], attempt' \in [Msgs -> Attempt],
         crypto' \in [Node -> Ratchet], PersistSend(m, deep, o)
  PROVE  /\ dMsg' \in [Msgs -> Status] /\ dAttempt' \in [Msgs -> Attempt]
         /\ pend' \in [Msgs -> {"no", "row", "deep"}]
         /\ due' \in [Node -> BOOLEAN] /\ snap' \in [Node -> Ratchet]
         /\ rows' = rows
<1>1. dMsg' \in [Msgs -> Status] /\ dAttempt' \in [Msgs -> Attempt]
  BY DEF PersistSend, TypeOK
<1>2. pend' \in [Msgs -> {"no", "row", "deep"}]
  BY DEF PersistSend, TypeOK
<1>3. due' \in [Node -> BOOLEAN]
  BY NodeFacts DEF PersistSend, TypeOK, Outcome
<1>4. snap' \in [Node -> Ratchet]
  BY NodeFacts DEF PersistSend, TypeOK, Saved, Outcome
<1>5. rows' = rows
  BY DEF PersistSend
<1> QED BY <1>1, <1>2, <1>3, <1>4, <1>5

(* route_send keeps ratchets, snapshots and the wire well typed. *)
LEMMA RouteSendType ==
  ASSUME TypeOK, NEW n \in Node, NEW base \in Ratchet, NEW k \in {"data", "ack"},
         NEW m \in Msgs, NEW o \in Publication, RouteSend(n, base, k, m, o)
  PROVE  /\ crypto' \in [Node -> Ratchet] /\ snap' \in [Node -> Ratchet]
         /\ wire' \subseteq Frame
         /\ UNCHANGED <<dMsg, dAttempt, rows>>
<1> USE ConstantsOK
<1>1. base.next \in 0..MaxGen /\ base.used \subseteq 0..(MaxGen - 1)
  BY DEF Ratchet
<1>2. CASE o = "never"
  BY <1>2 DEF RouteSend, TypeOK, Saved
<1>3. CASE o # "never"
  <2>1. base.next \in 0..(MaxGen - 1)
    BY <1>1, <1>3 DEF RouteSend
  <2>2. [base EXCEPT !.next = @ + 1] \in Ratchet
    BY <2>1 DEF Ratchet
  <2>3. crypto' \in [Node -> Ratchet]
    BY <1>3, <2>2 DEF RouteSend, TypeOK
  <2>4. snap' \in [Node -> Ratchet]
    BY <1>3, <2>3 DEF RouteSend, TypeOK, Saved
  <2>5. wire' \subseteq Frame
    BY <2>1 DEF RouteSend, TypeOK, Frame
  <2> QED BY <2>3, <2>4, <2>5 DEF RouteSend
<1> QED BY <1>2, <1>3

(* Putting sends back in the queue keeps log and attempts well typed. *)
LEMMA ResumeType ==
  ASSUME NEW a \in [Msgs -> Attempt], NEW g \in [Msgs -> Status], NEW X, Resume(a, g, X)
  PROVE  attempt' \in [Msgs -> Attempt] /\ msg' \in [Msgs -> Status]
<1>1. [status |-> "Queued", resends |-> 0] \in Attempt /\ "Queued" \in Status
  BY ConstantsOK DEF Attempt, Status
<1> QED BY <1>1 DEF Resume

(* So does replaying the stored rows. *)
LEMMA ReplayType ==
  ASSUME TypeOK
  PROVE  \A m \in Msgs : ReplayAttempt(m) \in Attempt /\ ReplayMessage(m) \in Status
<1> SUFFICES ASSUME NEW m \in Msgs
             PROVE  ReplayAttempt(m) \in Attempt /\ ReplayMessage(m) \in Status
  OBVIOUS
<1>1. dAttempt[m] \in Attempt /\ dMsg[m] \in Status
  BY DEF TypeOK
<1>2. [dAttempt[m] EXCEPT !.status = "Failed"] \in Attempt
  BY <1>1 DEF Attempt, Status
<1>3. ReplayAttempt(m) \in Attempt
  BY <1>1, <1>2 DEF ReplayAttempt
<1>4. ReplayMessage(m) \in Status
  BY <1>1, <1>3 DEF ReplayMessage, Attempt, Status
<1> QED BY <1>3, <1>4

TypeInv == TypeOK /\ CommandInv

LEMMA TypeInit == Init => TypeInv
<1> SUFFICES ASSUME Init PROVE TypeInv
  OBVIOUS
<1> USE ConstantsOK
<1>1. [next |-> 0, used |-> {}] \in Ratchet
  BY DEF Ratchet
<1>2. NoAttempt \in Attempt
  BY DEF NoAttempt, Attempt, Status
<1>3. TypeOK
  BY <1>1, <1>2 DEF Init, TypeOK, PcS, Op, Status, Msgs
<1>4. CommandInv
  BY DEF Init, CommandInv
<1> QED BY <1>3, <1>4 DEF TypeInv

LEMMA TypeLocalS == TypeInv /\ SLocal => TypeInv'
<1> SUFFICES ASSUME TypeInv, SLocal PROVE TypeInv'
  OBVIOUS
<1> USE ConstantsOK DEF TypeInv, CommandInv, memS, memR, store
<1>1. ASSUME NEW m \in Msgs \cup {0}, NEW k \in {"service", "send", "retry"}, SStart(k, m)
      PROVE  TypeInv'
  BY <1>1 DEF SStart, TypeOK, PcS, Op, Resendable
<1>2. ASSUME NEW f \in wire, SRecvAck(f) PROVE TypeInv'
  <2> DEFINE a == [attempt EXCEPT ![f.id] = NoAttempt]
             g == [msg EXCEPT ![f.id] = IF attempt[f.id].status # "None"
                                        THEN "Delivered" ELSE @]
             X == IF attempt[f.id].status # "None" \/ ~conn THEN Exhausted(a) ELSE {}
  <2>1. f \in Frame /\ f.id \in Msgs /\ f.gen \in 0..(MaxGen - 1)
    BY DEF TypeOK, Frame
  <2>9. NoAttempt \in Attempt /\ "Delivered" \in Status
    BY DEF NoAttempt, Attempt, Status
  <2>2. a \in [Msgs -> Attempt] /\ g \in [Msgs -> Status]
    BY <2>1, <2>9 DEF TypeOK
  <2>3. Resume(a, g, X)
    BY <1>2 DEF SRecvAck
  <2>8. X \subseteq Msgs
    BY DEF Exhausted
  <2>4. attempt' \in [Msgs -> Attempt] /\ msg' \in [Msgs -> Status]
    BY <2>2, <2>3, ResumeType
  <2>5. crypto' \in [Node -> Ratchet]
    BY <1>2, <2>1, NodeFacts DEF SRecvAck, TypeOK, Ratchet
  <2>6. dirty' \subseteq Msgs
    BY <1>2, <2>1, <2>8 DEF SRecvAck, TypeOK
  <2>7. TypeOK'
    BY <1>2, <2>4, <2>5, <2>6 DEF SRecvAck, TypeOK
  <2> QED BY <1>2, <2>7 DEF SRecvAck
<1>3. CASE SRecvHello
  <2>1. attempt' \in [Msgs -> Attempt] /\ msg' \in [Msgs -> Status]
    BY <1>3, ResumeType DEF SRecvHello, TypeOK
  <2>2. TypeOK'
    BY <1>3, <2>1 DEF SRecvHello, TypeOK, Exhausted
  <2> QED BY <1>3, <2>2 DEF SRecvHello
<1>4. ASSUME NEW lost \in BOOLEAN, NEW D \in SUBSET Resendable, STick(lost, D)
      PROVE  TypeInv'
  BY <1>4 DEF STick, TypeOK, PcS, Op, Resendable
<1>5. CASE STakeDirty
  BY <1>5 DEF STakeDirty, TypeOK, PcS, Op
<1>6. CASE SStartDeliver
  BY <1>6 DEF SStartDeliver, TypeOK, PcS, Op, Queued
<1>7. CASE SEndDeliver
  BY <1>7 DEF SEndDeliver, EndDeliver, Return, Goto, TypeOK, PcS, Op
<1>8. CASE SEndTailSends
  BY <1>8 DEF SEndTailSends, EndTail, Return, Goto, TypeOK, PcS, Op
<1>9. CASE SRetryNothing
  BY <1>9 DEF SRetryNothing, Return, TypeOK, PcS, Op
<1>10. CASE SRestart
  <2>1. attempt' \in [Msgs -> Attempt] /\ msg' \in [Msgs -> Status]
    BY <1>10, ReplayType DEF SRestart
  <2>2. TypeOK'
    BY <1>10, <2>1 DEF SRestart, TypeOK, PcS
  <2> QED BY <1>10, <2>2 DEF SRestart
<1> QED BY <1>1, <1>2, <1>3, <1>4, <1>5, <1>6, <1>7, <1>8, <1>9, <1>10 DEF SLocal

LEMMA TypeEffectS == TypeInv /\ SEffect(Outcome, Publication) => TypeInv'
<1> SUFFICES ASSUME TypeInv, SEffect(Outcome, Publication) PROVE TypeInv'
  OBVIOUS
<1> USE ConstantsOK DEF TypeInv, CommandInv, memR, store
<1>1. ASSUME NEW m \in Msgs, NEW o \in Publication, SResend(m, o) PROVE TypeInv'
  <2>1. crypto["S"] \in Ratchet
    BY NodeFacts DEF TypeOK
  <2>2. /\ crypto' \in [Node -> Ratchet] /\ snap' \in [Node -> Ratchet]
        /\ wire' \subseteq Frame /\ UNCHANGED <<dMsg, dAttempt, rows>>
    BY <1>1, <2>1, NodeFacts, RouteSendType DEF SResend
  <2>3. attempt[m] \in Attempt /\ attempt[m].resends < AutoResendMax
    BY <1>1 DEF SResend, TypeOK, Resendable
  <2>4. attempt' \in [Msgs -> Attempt]
    BY <1>1, <2>3 DEF SResend, TypeOK, Attempt
  <2>5. TypeOK'
    BY <1>1, <2>2, <2>4 DEF SResend, TypeOK
  <2>6. \A k \in Msgs \ {m} : attempt'[k] = attempt[k]
    BY <1>1 DEF SResend, TypeOK
  <2>7. CommandInv'
    BY <1>1, <2>6 DEF SResend, Resendable, TypeOK
  <2> QED BY <2>5, <2>7
<1>2. ASSUME NEW m \in Msgs, NEW o \in Outcome, SFlush(m, o) PROVE TypeInv'
  BY <1>2, PersistSendType DEF SFlush, TypeOK
<1>3. ASSUME NEW m \in Msgs, NEW o \in Outcome, SDeliver(m, o) PROVE TypeInv'
  BY <1>3, PersistSendType DEF SDeliver, EndDeliver, Return, Goto, TypeOK, PcS, Op
<1>4. ASSUME NEW m \in Msgs, NEW o \in Publication, SPublish(m, o) PROVE TypeInv'
  <2>1. crypto["S"] \in Ratchet /\ attempt[m] \in Attempt
    BY NodeFacts DEF TypeOK
  <2>2. [attempt[m] EXCEPT !.status = "Failed"] \in Attempt
        /\ [attempt[m] EXCEPT !.status = "Sent"] \in Attempt
    BY <2>1 DEF Attempt, Status
  <2>3. CASE m \in Oversized
    <3> DEFINE r == [crypto["S"] EXCEPT !.next = IF @ < MaxGen THEN @ + 1 ELSE @]
    <3>0. r \in Ratchet
      BY <2>1 DEF Ratchet
    <3>3. crypto' = [crypto EXCEPT !["S"] = r]
      BY <1>4, <2>3 DEF SPublish
    <3>1. crypto' \in [Node -> Ratchet]
      BY <3>0, <3>3 DEF TypeOK
    <3>2. attempt' \in [Msgs -> Attempt] /\ msg' \in [Msgs -> Status]
      BY <1>4, <2>2, <2>3 DEF SPublish, TypeOK, Status
    <3> QED BY <1>4, <2>3, <3>1, <3>2 DEF SPublish, Goto, TypeOK, PcS
  <2>4. CASE m \notin Oversized
    <3>1. /\ crypto' \in [Node -> Ratchet] /\ snap' \in [Node -> Ratchet]
          /\ wire' \subseteq Frame /\ UNCHANGED <<dMsg, dAttempt, rows>>
      BY <1>4, <2>1, <2>4, NodeFacts, RouteSendType DEF SPublish
    <3>2. attempt' \in [Msgs -> Attempt] /\ msg' \in [Msgs -> Status]
      BY <1>4, <2>2, <2>4 DEF SPublish, TypeOK, Status
    <3> QED BY <1>4, <2>4, <3>1, <3>2
            DEF SPublish, EndDeliver, Return, Goto, TypeOK, PcS, Op
  <2> QED BY <2>3, <2>4
<1>5. ASSUME NEW m \in Msgs, NEW o \in Outcome, SSettled(m, o) PROVE TypeInv'
  BY <1>5, PersistSendType DEF SSettled, EndDeliver, Return, Goto, TypeOK, PcS, Op
<1>6. ASSUME NEW m \in Msgs, NEW o \in Outcome, STailSend(m, o) PROVE TypeInv'
  BY <1>6, PersistSendType DEF STailSend, TypeOK
<1>7. ASSUME NEW m \in Msgs, NEW o \in Outcome, STailRow(m, o) PROVE TypeInv'
  <2>1. dMsg' \in [Msgs -> Status]
    BY <1>7 DEF STailRow, TypeOK
  <2>2. CASE o = "ok"
    <3>1. tail' \in [Node -> SUBSET Msgs]
      BY <1>7, <2>2, NodeFacts DEF STailRow, TypeOK
    <3>2. due["S"] \in BOOLEAN /\ (due["S"] \/ tail["S"] = {m}) \in BOOLEAN
      BY NodeFacts DEF TypeOK
    <3>3. due' \in [Node -> BOOLEAN]
      BY <1>7, <2>2, <3>2 DEF STailRow, TypeOK
    <3> QED BY <1>7, <2>1, <2>2, <3>1, <3>3 DEF STailRow, Goto, TypeOK, PcS, Op
  <2>3. CASE o # "ok"
    BY <1>7, <2>1, <2>3 DEF STailRow, EndTail, Return, Goto, TypeOK, PcS, Op
  <2> QED BY <2>2, <2>3
<1>8. ASSUME NEW o \in Outcome, STailState(o) PROVE TypeInv'
  BY <1>8, NodeFacts DEF STailState, EndTail, Return, Goto, TypeOK, PcS, Op
<1>9. ASSUME NEW o \in Outcome, SSendAdmit(o) \/ SRetryAdmit(o) PROVE TypeInv'
  <2>1. arg \in Msgs /\ op # "service" /\ pcS = "admit"
    BY <1>9 DEF SSendAdmit, SRetryAdmit
  <2>2. attempt[arg] \in Attempt
    BY <2>1 DEF TypeOK
  <2>3. [attempt[arg] EXCEPT !.status = "Pending"] \in Attempt
        /\ [[attempt[arg] EXCEPT !.status = "Pending"] EXCEPT !.status = "Failed"] \in Attempt
    BY <2>2 DEF Attempt, Status
  <2>4. Admission(arg, o)
    BY <1>9 DEF SSendAdmit, SRetryAdmit
  <2>5. /\ attempt' \in [Msgs -> Attempt] /\ dAttempt' \in [Msgs -> Attempt]
        /\ msg' \in [Msgs -> Status] /\ dMsg' \in [Msgs -> Status]
    BY <2>1, <2>3, <2>4 DEF Admission, TypeOK, Status
  <2>6. CASE SSendAdmit(o)
    <3>1. next' \in 1..(MaxMsgs + 1)
      BY <2>1, <2>6 DEF SSendAdmit, TypeOK, Msgs
    <3>2. tail' \in [Node -> SUBSET Msgs]
      BY <2>1, <2>6 DEF SSendAdmit, TypeOK
    <3> QED BY <2>1, <2>4, <2>5, <2>6, <3>1, <3>2 DEF SSendAdmit, Admission, TypeOK, PcS, Op
  <2>7. CASE SRetryAdmit(o)
    BY <2>1, <2>4, <2>5, <2>7 DEF SRetryAdmit, Admission, TypeOK, PcS, Op
  <2> QED BY <1>9, <2>6, <2>7
<1>10. ASSUME NEW o \in Outcome, SRefuse(o) PROVE TypeInv'
  <2>1. arg \in Msgs
    BY <1>10 DEF SRefuse
  <2> QED BY <1>10, <2>1, PersistSendType DEF SRefuse, Return, TypeOK, PcS, Op
<1>11. ASSUME NEW o \in Outcome, SActivate(o) PROVE TypeInv'
  <2>1. arg \in Msgs
    BY <1>11 DEF SActivate
  <2>2. [attempt[arg] EXCEPT !.status = "Queued"] \in Attempt
    BY <2>1 DEF TypeOK, Attempt, Status
  <2>3. attempt' \in [Msgs -> Attempt] /\ msg' \in [Msgs -> Status]
    BY <1>11, <2>1, <2>2 DEF SActivate, TypeOK, Status
  <2>4. crypto' \in [Node -> Ratchet] /\ PersistSend(arg, TRUE, o)
    BY <1>11 DEF SActivate, TypeOK
  <2>5. /\ dMsg' \in [Msgs -> Status] /\ dAttempt' \in [Msgs -> Attempt]
        /\ pend' \in [Msgs -> {"no", "row", "deep"}]
        /\ due' \in [Node -> BOOLEAN] /\ snap' \in [Node -> Ratchet]
        /\ rows' = rows
    BY <2>1, <2>3, <2>4, PersistSendType
  <2> QED BY <1>11, <2>1, <2>3, <2>4, <2>5 DEF SActivate, TypeOK, PcS, Op
<1> QED BY <1>1, <1>2, <1>3, <1>4, <1>5, <1>6, <1>7, <1>8, <1>9, <1>10, <1>11 DEF SEffect

LEMMA TypeStepR ==
  TypeInv /\ (RLocal \/ REffect(Outcome, Publication)) => TypeInv'
<1> SUFFICES ASSUME TypeInv, RLocal \/ REffect(Outcome, Publication) PROVE TypeInv'
  OBVIOUS
<1> USE ConstantsOK DEF TypeInv, CommandInv, memS, store, Resendable
<1>1. CASE RTick
  BY <1>1 DEF RTick, TypeOK
<1>2. CASE RRestart
  BY <1>2 DEF RRestart, TypeOK
<1>3. ASSUME NEW f \in wire, NEW o \in Publication, RRecvData(f, o) PROVE TypeInv'
  <2>1. f \in Frame /\ f.id \in Msgs /\ f.gen \in 0..(MaxGen - 1)
    BY DEF TypeOK, Frame
  <2>2. crypto["R"] \in Ratchet /\ [crypto["R"] EXCEPT !.used = @ \cup {f.gen}] \in Ratchet
    BY <2>1, NodeFacts DEF TypeOK, Ratchet
  <2>3. seen' \subseteq Frame
    BY <1>3, <2>1 DEF RRecvData, TypeOK
  <2>4. /\ crypto' \in [Node -> Ratchet] /\ snap' \in [Node -> Ratchet]
        /\ wire' \subseteq Frame /\ UNCHANGED <<dMsg, dAttempt, rows>>
    <3>1. CASE HasInboundMessage(f.id)
      BY <1>3, <2>1, <2>2, <3>1, NodeFacts, RouteSendType DEF RRecvData
    <3>2. CASE ~HasInboundMessage(f.id) /\ (f.gen \in crypto["R"].used \/ HoldsCopyOf(f.id))
      BY <1>3, <2>2, <3>2 DEF RRecvData, TypeOK
    <3>3. CASE /\ ~HasInboundMessage(f.id)
               /\ f.gen \notin crypto["R"].used /\ ~HoldsCopyOf(f.id)
      BY <1>3, <2>1, <2>2, <3>3, NodeFacts, RouteSendType DEF RRecvData
    <3> QED BY <3>1, <3>2, <3>3
  <2>5. log' \subseteq Msgs /\ held' \subseteq Msgs
    BY <1>3, <2>1 DEF RRecvData, TypeOK
  <2>6. tail' \in [Node -> SUBSET Msgs]
    BY <1>3, <2>1, NodeFacts DEF RRecvData, TypeOK
  <2> QED BY <1>3, <2>3, <2>4, <2>5, <2>6 DEF RRecvData, TypeOK
<1>4. ASSUME NEW m \in Msgs, NEW o \in Outcome, RTailRow(m, o) PROVE TypeInv'
  <2>1. rows' \subseteq Msgs /\ pcR' \in {"off", "recv", "rows"}
    BY <1>4 DEF RTailRow, TypeOK
  <2>2. tail' \in [Node -> SUBSET Msgs]
    BY <1>4, NodeFacts DEF RTailRow, TypeOK
  <2>3. (due["R"] \/ tail["R"] = {m}) \in BOOLEAN
    OBVIOUS
  <2>4. due' \in [Node -> BOOLEAN]
    BY <1>4, <2>3 DEF RTailRow, TypeOK
  <2> QED BY <1>4, <2>1, <2>2, <2>4 DEF RTailRow, TypeOK
<1>5. ASSUME NEW o \in Outcome, RTailState(o) PROVE TypeInv'
  BY <1>5, NodeFacts DEF RTailState, TypeOK
<1> QED BY <1>1, <1>2, <1>3, <1>4, <1>5 DEF RLocal, REffect

LEMMA TypeCrash == TypeInv /\ (SCrash \/ RCrash) => TypeInv'
<1> SUFFICES ASSUME TypeInv, SCrash \/ RCrash PROVE TypeInv'
  OBVIOUS
<1> USE ConstantsOK DEF TypeInv, CommandInv, memS, memR, store, Resendable
<1>1. CASE SCrash
  <2>1. NoAttempt \in Attempt /\ "None" \in Status
    BY DEF NoAttempt, Attempt, Status
  <2>2. attempt' \in [Msgs -> Attempt] /\ msg' \in [Msgs -> Status]
    BY <1>1, <2>1 DEF SCrash
  <2>3. crypto' \in [Node -> Ratchet] /\ tail' \in [Node -> SUBSET Msgs]
    BY <1>1, NodeFacts DEF SCrash, TypeOK
  <2>4. due' \in [Node -> BOOLEAN]
    BY <1>1, NodeFacts DEF SCrash, TypeOK
  <2> QED BY <1>1, <2>2, <2>3, <2>4 DEF SCrash, TypeOK, PcS, Op
<1>2. CASE RCrash
  <2>1. crypto' \in [Node -> Ratchet] /\ tail' \in [Node -> SUBSET Msgs]
    BY <1>2, NodeFacts DEF RCrash, TypeOK
  <2>2. due' \in [Node -> BOOLEAN]
    BY <1>2, NodeFacts DEF RCrash, TypeOK
  <2> QED BY <1>2, <2>1, <2>2 DEF RCrash, TypeOK
<1> QED BY <1>1, <1>2

LEMMA TypeNext == TypeInv /\ [Next]_vars => TypeInv'
<1> SUFFICES ASSUME TypeInv, [Next]_vars PROVE TypeInv'
  OBVIOUS
<1>1. CASE Next
  BY <1>1, TypeLocalS, TypeEffectS, TypeStepR, TypeCrash DEF Next
<1>2. CASE UNCHANGED vars
  BY <1>2 DEF vars, TypeInv, TypeOK, CommandInv, Resendable
<1> QED BY <1>1, <1>2

(* Every variable keeps its type in every behaviour of the two runtimes, so *)
(* no attempt is ever resent automatically more than AUTO_RESEND_MAX times, *)
(* and a running command always names a text.                               *)
THEOREM TypeCorrect == Spec => []TypeOK
<1>1. Spec => []TypeInv
  BY TypeInit, TypeNext, PTL DEF Spec
<1>2. TypeInv => TypeOK
  BY DEF TypeInv
<1> QED BY <1>1, <1>2, PTL

-----------------------------------------------------------------------------
(* No generation is used twice *)

GenInv == TypeInv /\ RatchetInv /\ GenerationsNeverReused

(* Nothing is published, ratchets only advance, and a snapshot is the old   *)
(* one or the running ratchet: then both parts of the invariant survive.    *)
LEMMA SnapshotAdvances ==
  ASSUME GenInv, TypeInv', wire' = wire,
         \A n \in Node : /\ crypto'[n].next >= crypto[n].next
                         /\ snap'[n].next \in {snap[n].next, crypto'[n].next}
  PROVE  RatchetInv' /\ GenerationsNeverReused'
<1>1. \A n \in Node : /\ crypto[n].next \in Nat /\ crypto'[n].next \in Nat
                      /\ snap[n].next \in Nat /\ snap'[n].next \in Nat
  BY ConstantsOK DEF GenInv, TypeInv, TypeOK, Ratchet
<1>2. \A f \in wire : f.gen \in Nat /\ Author(f) \in Node
  BY ConstantsOK DEF GenInv, TypeInv, TypeOK, Frame, Author, Node
<1>3. RatchetInv'
  BY <1>1 DEF GenInv, RatchetInv
<1>4. \A n \in Node : snap'[n].next >= snap[n].next
  BY <1>1 DEF GenInv, RatchetInv
<1>5. GenerationsNeverReused'
  BY <1>1, <1>2, <1>4 DEF GenInv, GenerationsNeverReused, Author
<1> QED BY <1>3, <1>5

(* persist_send saves the running ratchet or leaves the old snapshot. *)
LEMMA PersistSendSnapshot ==
  ASSUME TypeInv, NEW m \in Msgs, NEW deep \in BOOLEAN, NEW o \in Outcome,
         PersistSend(m, deep, o), crypto' = crypto
  PROVE  \A n \in Node : /\ crypto'[n].next >= crypto[n].next
                         /\ snap'[n].next \in {snap[n].next, crypto'[n].next}
<1>1. \A n \in Node : crypto[n].next \in Nat
  BY ConstantsOK DEF TypeInv, TypeOK, Ratchet
<1>2. snap' = snap \/ snap' = Saved("S")
  BY DEF PersistSend, Outcome
<1>3. \A n \in Node : snap'[n].next \in {snap[n].next, crypto'[n].next}
  BY <1>2, NodeFacts DEF Saved, TypeInv, TypeOK
<1> QED BY <1>1, <1>3

(* A publication: the frame carries the generation that the ratchet leaves  *)
(* behind, and the snapshot saved first is already past it.                 *)
LEMMA RouteSendGenerations ==
  ASSUME GenInv, TypeInv', NEW n \in Node, NEW base \in Ratchet,
         base.next = crypto[n].next, NEW k \in {"data", "ack"},
         (k = "data") <=> (n = "S"), NEW m \in Msgs, NEW o \in Publication,
         RouteSend(n, base, k, m, o)
  PROVE  RatchetInv' /\ GenerationsNeverReused'
<1>1. \A q \in Node : /\ crypto[q].next \in Nat /\ crypto'[q].next \in Nat
                      /\ snap[q].next \in Nat /\ snap'[q].next \in Nat
  BY ConstantsOK DEF GenInv, TypeInv, TypeOK, Ratchet
<1>2. base.next \in Nat /\ [base EXCEPT !.next = @ + 1].next = base.next + 1
  BY ConstantsOK DEF Ratchet
<1>3. \A q \in Node \ {n} : crypto'[q] = crypto[q] /\ snap'[q] = snap[q]
  BY DEF RouteSend, Saved, GenInv, TypeInv, TypeOK
<1>4. /\ crypto'[n].next = IF o = "never" THEN base.next ELSE base.next + 1
      /\ snap'[n].next \in {snap[n].next, crypto'[n].next}
  BY <1>2 DEF RouteSend, Saved, GenInv, TypeInv, TypeOK
<1>5. \A q \in Node : /\ crypto'[q].next >= crypto[q].next
                      /\ snap'[q].next \in {snap[q].next, crypto'[q].next}
  BY <1>1, <1>2, <1>3, <1>4
<1>6. CASE o # "sent"
  BY <1>5, <1>6, SnapshotAdvances DEF RouteSend
<1>7. CASE o = "sent"
  <2>1. snap'[n].next = base.next + 1
    BY <1>4, <1>7 DEF RouteSend, Saved, GenInv, TypeInv, TypeOK
  <2>2. RatchetInv'
    BY <1>1, <1>5 DEF GenInv, RatchetInv
  <2>3. \A q \in Node : snap'[q].next >= snap[q].next
    BY <1>1, <1>5 DEF GenInv, RatchetInv
  <2>4. \A f \in wire : f.gen < snap'[Author(f)].next
    <3> SUFFICES ASSUME NEW f \in wire PROVE f.gen < snap'[Author(f)].next
      OBVIOUS
    <3>1. f.gen \in Nat /\ Author(f) \in Node
      BY ConstantsOK DEF GenInv, TypeInv, TypeOK, Frame, Author, Node
    <3>2. f.gen < snap[Author(f)].next
      BY DEF GenInv, GenerationsNeverReused
    <3> QED BY <1>1, <2>3, <3>1, <3>2
  <2> DEFINE e == [kind |-> k, id |-> m, gen |-> base.next]
  <2>5. Author(e) = n
    BY DEF Author, Node
  <2>6. e.gen < snap'[Author(e)].next
    BY <1>2, <2>1, <2>5
  <2>7. wire' = wire \cup {e}
    BY <1>7 DEF RouteSend
  <2>8. \A f \in wire' : f.gen < snap'[Author(f)].next
    BY <2>4, <2>6, <2>7
  <2>9. GenerationsNeverReused'
    BY <2>8 DEF GenerationsNeverReused, Author
  <2> QED BY <2>2, <2>9
<1> QED BY <1>6, <1>7

LEMMA GenNext == GenInv /\ Next => RatchetInv' /\ GenerationsNeverReused'
<1> SUFFICES ASSUME GenInv, Next PROVE RatchetInv' /\ GenerationsNeverReused'
  OBVIOUS
<1> DEFINE Advances == \A n \in Node :
             /\ crypto'[n].next >= crypto[n].next
             /\ snap'[n].next \in {snap[n].next, crypto'[n].next}
           Goal == RatchetInv' /\ GenerationsNeverReused'
<1>t. TypeInv /\ TypeInv'
  BY TypeNext DEF GenInv
<1>n. \A n \in Node : crypto[n].next \in Nat /\ snap[n].next \in Nat
  BY <1>t, ConstantsOK DEF TypeInv, TypeOK, Ratchet
<1>q. (UNCHANGED <<wire, crypto, snap>>) => Goal
  BY <1>t, <1>n, SnapshotAdvances
<1>p. ASSUME NEW m \in Msgs, NEW deep \in BOOLEAN, NEW o \in Outcome,
             PersistSend(m, deep, o), UNCHANGED <<crypto, wire>>
      PROVE  Goal
  BY <1>t, <1>p, PersistSendSnapshot, SnapshotAdvances
<1>1. CASE SLocal
  <2>1. ASSUME NEW f \in wire, SRecvAck(f) PROVE Goal
    <3>1. \A n \in Node : crypto'[n].next = crypto[n].next /\ snap'[n] = snap[n]
      BY <1>t, <2>1 DEF SRecvAck, store, TypeInv, TypeOK, Ratchet
    <3>2. wire' = wire
      BY <2>1 DEF SRecvAck
    <3> QED BY <1>t, <1>n, <3>1, <3>2, SnapshotAdvances
  <2>2. CASE ~\E f \in wire : SRecvAck(f)
    BY <1>1, <1>q, <2>2 DEF SLocal, SStart, SRecvHello, STick, STakeDirty, SStartDeliver,
       SEndDeliver, SEndTailSends, SRetryNothing, SRestart, store
  <2> QED BY <2>1, <2>2
<1>2. CASE SEffect(Outcome, Publication)
  <2>1. ASSUME NEW m \in Msgs, NEW o \in Publication, SResend(m, o) PROVE Goal
    <3>1. crypto["S"] \in Ratchet
      BY <1>t, NodeFacts DEF TypeInv, TypeOK
    <3> QED BY <1>t, <2>1, <3>1, NodeFacts, RouteSendGenerations DEF SResend
  <2>2. ASSUME NEW m \in Msgs, NEW o \in Outcome,
               SFlush(m, o) \/ SDeliver(m, o) \/ SSettled(m, o) \/ STailSend(m, o)
        PROVE  Goal
    BY <1>p, <2>2 DEF SFlush, SDeliver, SSettled, STailSend
  <2>3. ASSUME NEW m \in Msgs, NEW o \in Publication, SPublish(m, o) PROVE Goal
    <3>1. crypto["S"] \in Ratchet
      BY <1>t, NodeFacts DEF TypeInv, TypeOK
    <3>2. CASE m \notin Oversized
      BY <1>t, <2>3, <3>1, <3>2, NodeFacts, RouteSendGenerations DEF SPublish
    <3>3. CASE m \in Oversized
      <4>1. UNCHANGED <<wire, snap>>
        BY <2>3, <3>3 DEF SPublish, store
      <4> DEFINE r == [crypto["S"] EXCEPT !.next = IF @ < MaxGen THEN @ + 1 ELSE @]
      <4>2. r.next >= crypto["S"].next
        BY <1>n, <3>1, NodeFacts DEF Ratchet
      <4>3. crypto' = [crypto EXCEPT !["S"] = r]
        BY <2>3, <3>3 DEF SPublish
      <4>4. \A n \in Node : crypto'[n].next >= crypto[n].next
        BY <1>t, <1>n, <4>2, <4>3 DEF TypeInv, TypeOK
      <4> QED BY <1>t, <1>n, <4>1, <4>4, SnapshotAdvances
    <3> QED BY <3>2, <3>3
  <2>4. ASSUME NEW m \in Msgs, NEW o \in Outcome, STailRow(m, o) PROVE Goal
    BY <1>q, <2>4 DEF STailRow
  <2>5. ASSUME NEW o \in Outcome, STailState(o) PROVE Goal
    <3>1. UNCHANGED <<wire, crypto>>
      BY <2>5 DEF STailState
    <3>2. Advances
      BY <1>t, <1>n, <2>5, NodeFacts DEF STailState, TypeInv, TypeOK
    <3> QED BY <1>t, <3>1, <3>2, SnapshotAdvances
  <2>6. ASSUME NEW o \in Outcome, SSendAdmit(o) \/ SRetryAdmit(o) PROVE Goal
    BY <1>q, <2>6 DEF SSendAdmit, SRetryAdmit, Admission
  <2>7. ASSUME NEW o \in Outcome, SRefuse(o) \/ SActivate(o) PROVE Goal
    <3>1. arg \in Msgs
      BY <1>t, <2>7 DEF SRefuse, SActivate, TypeInv, CommandInv
    <3> QED BY <1>p, <2>7, <3>1 DEF SRefuse, SActivate
  <2> QED BY <1>2, <2>1, <2>2, <2>3, <2>4, <2>5, <2>6, <2>7 DEF SEffect
<1>3. CASE RLocal
  BY <1>q, <1>3 DEF RLocal, RTick, RRestart, store
<1>4. CASE REffect(Outcome, Publication)
  <2>1. ASSUME NEW f \in wire, NEW o \in Publication, RRecvData(f, o) PROVE Goal
    <3> DEFINE r == [crypto["R"] EXCEPT !.used = @ \cup {f.gen}]
    <3>1. f.id \in Msgs /\ f.gen \in 0..(MaxGen - 1)
      BY <1>t DEF TypeInv, TypeOK, Frame
    <3>2. crypto["R"] \in Ratchet /\ r \in Ratchet /\ r.next = crypto["R"].next
      BY <1>t, <3>1, NodeFacts DEF TypeInv, TypeOK, Ratchet
    <3>3. CASE RouteSend("R", crypto["R"], "ack", f.id, o)
      BY <1>t, <3>1, <3>2, <3>3, NodeFacts, RouteSendGenerations
    <3>4. CASE RouteSend("R", r, "ack", f.id, o)
      BY <1>t, <3>1, <3>2, <3>4, NodeFacts, RouteSendGenerations
    <3>5. CASE crypto' = [crypto EXCEPT !["R"] = r] /\ UNCHANGED <<wire, store>>
      <4>1. \A n \in Node : crypto'[n].next = crypto[n].next /\ snap'[n] = snap[n]
        BY <1>t, <3>2, <3>5 DEF store, TypeInv, TypeOK
      <4> QED BY <1>t, <1>n, <3>5, <4>1, SnapshotAdvances
    <3> QED BY <2>1, <3>3, <3>4, <3>5 DEF RRecvData
  <2>2. ASSUME NEW m \in Msgs, NEW o \in Outcome, RTailRow(m, o) PROVE Goal
    BY <1>q, <2>2 DEF RTailRow
  <2>3. ASSUME NEW o \in Outcome, RTailState(o) PROVE Goal
    <3>1. UNCHANGED <<wire, crypto>>
      BY <2>3 DEF RTailState
    <3>2. Advances
      BY <1>t, <1>n, <2>3, NodeFacts DEF RTailState, TypeInv, TypeOK
    <3> QED BY <1>t, <3>1, <3>2, SnapshotAdvances
  <2> QED BY <1>4, <2>1, <2>2, <2>3 DEF REffect
<1>5. CASE SCrash \/ RCrash
  <2>1. UNCHANGED <<wire, snap>>
    BY <1>5 DEF SCrash, RCrash, store
  <2>2. \A n \in Node : crypto'[n].next >= snap'[n].next
    BY <1>t, <1>n, <1>5, <2>1 DEF SCrash, RCrash, TypeInv, TypeOK, GenInv, RatchetInv
  <2>3. RatchetInv'
    BY <1>n, <1>t, <2>2, ConstantsOK DEF RatchetInv, TypeInv, TypeOK, Ratchet
  <2> QED BY <2>1, <2>3 DEF GenInv, GenerationsNeverReused, Author
<1> QED BY <1>1, <1>2, <1>3, <1>4, <1>5 DEF Next

(* Whatever is refused, fails or dies, an author's saved ratchet is past    *)
(* every generation it ever published, so no restart makes it encrypt two   *)
(* frames under one generation.                                             *)
THEOREM NoGenerationReuse == Spec => []GenerationsNeverReused
<1>1. Init => GenInv
  BY TypeInit, ConstantsOK DEF Init, GenInv, RatchetInv, GenerationsNeverReused
<1>2. GenInv /\ [Next]_vars => GenInv'
  <2>1. GenInv /\ Next => GenInv'
    BY GenNext, TypeNext DEF GenInv
  <2>2. GenInv /\ UNCHANGED vars => GenInv'
    <3>1. GenInv /\ UNCHANGED vars => TypeInv'
      BY TypeNext DEF GenInv
    <3> QED BY <3>1 DEF vars, GenInv, RatchetInv, GenerationsNeverReused, Author
  <2> QED BY <2>1, <2>2
<1>3. GenInv => GenerationsNeverReused
  BY DEF GenInv
<1> QED BY <1>1, <1>2, <1>3, PTL DEF Spec

-----------------------------------------------------------------------------
(* A refused text never leaves *)

AcceptInv == TypeInv /\ AdmittedInv /\ RefusedNeverPublished

(* persist_send writes a row it was given or leaves the one that was there; *)
LEMMA PersistSendRows ==
  ASSUME TypeInv, NEW m \in Msgs, NEW deep \in BOOLEAN, NEW o \in Outcome,
         PersistSend(m, deep, o)
  PROVE  /\ \A k \in Msgs : dAttempt'[k] \in {dAttempt[k], attempt'[k]}
         /\ \A k \in Msgs : dMsg'[k] \in {dMsg[k], msg'[k]}
  BY DEF PersistSend, TypeInv, TypeOK

(* and route_send adds at most the one frame to the wire.                   *)
LEMMA RouteSendWire ==
  ASSUME NEW n, NEW base, NEW k, NEW m, NEW o, RouteSend(n, base, k, m, o)
  PROVE  /\ wire \subseteq wire'
         /\ \A f \in wire' : f \in wire \/ (f.kind = k /\ f.id = m)
         /\ UNCHANGED <<dMsg, dAttempt, rows>>
  BY DEF RouteSend

LEMMA AcceptNext == AcceptInv /\ Next => AdmittedInv' /\ RefusedNeverPublished'
<1> SUFFICES ASSUME AcceptInv, Next PROVE AdmittedInv' /\ RefusedNeverPublished'
  OBVIOUS
<1> DEFINE Goal == AdmittedInv' /\ RefusedNeverPublished'
           Live(a) == \A m \in Msgs : a[m].status \in {"Queued", "Sent"} => m \in admitted
<1>t. TypeInv /\ TypeInv' /\ AdmittedInv /\ RefusedNeverPublished
  BY TypeNext DEF AcceptInv
<1>a. Live(attempt) /\ Live(dAttempt)
  BY <1>t DEF AdmittedInv
<1>g. ASSUME admitted' = admitted, Live(attempt'), Live(dAttempt'),
             pcS' \in {"deliver", "publish", "settled"} => todo' \subseteq admitted,
             \A f \in wire' : f \in wire \/ f.kind = "ack" \/ f.id \in admitted
      PROVE  Goal
  <2>1. AdmittedInv'
    BY <1>g DEF AdmittedInv
  <2>2. RefusedNeverPublished'
    BY <1>t, <1>g DEF RefusedNeverPublished, TypeInv, TypeOK, Frame
  <2> QED BY <2>1, <2>2
<1>p. ASSUME NEW m \in Msgs, NEW deep \in BOOLEAN, NEW o \in Outcome,
             PersistSend(m, deep, o), Live(attempt')
      PROVE  Live(dAttempt')
  BY <1>t, <1>a, <1>p, PersistSendRows
<1>1. CASE SLocal
  <2>1. ASSUME NEW m \in Msgs \cup {0}, NEW k \in {"service", "send", "retry"}, SStart(k, m)
        PROVE  Goal
    BY <1>a, <1>g, <2>1 DEF SStart, store
  <2>2. ASSUME NEW f \in wire, SRecvAck(f) PROVE Goal
    <3> DEFINE a == [attempt EXCEPT ![f.id] = NoAttempt]
               g == [msg EXCEPT ![f.id] = IF attempt[f.id].status # "None"
                                          THEN "Delivered" ELSE @]
               X == IF attempt[f.id].status # "None" \/ ~conn THEN Exhausted(a) ELSE {}
    <3>1. Resume(a, g, X)
      BY <2>2 DEF SRecvAck
    <3>2. Live(a)
      BY <1>t, <1>a DEF NoAttempt, TypeInv, TypeOK
    <3>3. X \subseteq admitted
      BY <3>2 DEF Exhausted
    <3>4. Live(attempt')
      BY <3>1, <3>2, <3>3 DEF Resume
    <3> QED BY <1>a, <1>g, <2>2, <3>4 DEF SRecvAck, store
  <2>3. CASE SRecvHello
    <3>1. Resume(attempt, msg, Exhausted(attempt))
      BY <2>3 DEF SRecvHello
    <3>2. Exhausted(attempt) \subseteq admitted
      BY <1>a DEF Exhausted
    <3>3. Live(attempt')
      BY <1>a, <3>1, <3>2 DEF Resume
    <3> QED BY <1>a, <1>g, <2>3, <3>3 DEF SRecvHello, store
  <2>4. ASSUME NEW lost \in BOOLEAN, NEW D \in SUBSET Resendable, STick(lost, D)
        PROVE  Goal
    BY <1>a, <1>g, <2>4 DEF STick, store
  <2>5. CASE STakeDirty
    BY <1>a, <1>g, <2>5 DEF STakeDirty, store
  <2>6. CASE SStartDeliver
    BY <1>a, <1>g, <2>6 DEF SStartDeliver, Queued, store
  <2>7. CASE SEndDeliver
    BY <1>a, <1>g, <2>7 DEF SEndDeliver, EndDeliver, Return, Goto, store
  <2>8. CASE SEndTailSends
    BY <1>a, <1>g, <2>8 DEF SEndTailSends, EndTail, Return, Goto, store
  <2>9. CASE SRetryNothing
    BY <1>a, <1>g, <2>9 DEF SRetryNothing, Return, store
  <2>10. CASE SRestart
    <3>1. \A m \in Msgs : ReplayAttempt(m).status \in {"Queued", "Sent"}
                           => dAttempt[m].status \in {"Queued", "Sent"}
      BY <1>t DEF ReplayAttempt, TypeInv, TypeOK, Attempt
    <3>2. Live(attempt')
      BY <1>a, <2>10, <3>1 DEF SRestart
    <3> QED BY <1>a, <1>g, <2>10, <3>2 DEF SRestart, store
  <2> QED BY <1>1, <2>1, <2>2, <2>3, <2>4, <2>5, <2>6, <2>7, <2>8, <2>9, <2>10 DEF SLocal
<1>2. CASE SEffect(Outcome, Publication)
  <2>1. ASSUME NEW m \in Msgs, NEW o \in Publication, SResend(m, o) PROVE Goal
    <3>1. attempt[m].status = "Sent"
      BY <1>t, <2>1 DEF SResend, TypeInv, CommandInv, Resendable
    <3>2. m \in admitted
      BY <1>a, <3>1
    <3>3. \A k \in Msgs : attempt'[k].status = attempt[k].status
      BY <1>t, <2>1 DEF SResend, TypeInv, TypeOK, Attempt
    <3> QED BY <1>a, <1>g, <2>1, <3>2, <3>3, RouteSendWire DEF SResend
  <2>2. ASSUME NEW m \in Msgs, NEW o \in Outcome, SFlush(m, o) \/ STailSend(m, o)
        PROVE  Goal
    <3>1. Live(attempt') /\ Live(dAttempt')
      BY <1>a, <1>p, <2>2 DEF SFlush, STailSend
    <3> QED BY <1>g, <2>2, <3>1 DEF SFlush, STailSend
  <2>3. ASSUME NEW m \in Msgs, NEW o \in Outcome, SDeliver(m, o) \/ SSettled(m, o)
        PROVE  Goal
    <3>1. Live(attempt') /\ Live(dAttempt')
      BY <1>a, <1>p, <2>3 DEF SDeliver, SSettled
    <3>2. todo \subseteq admitted
      BY <1>t, <2>3 DEF SDeliver, SSettled, AdmittedInv
    <3> QED BY <1>g, <2>3, <3>1, <3>2
            DEF SDeliver, SSettled, EndDeliver, Return, Goto
  <2>4. ASSUME NEW m \in Msgs, NEW o \in Publication, SPublish(m, o) PROVE Goal
    <3>1. todo \subseteq admitted /\ m \in admitted
      BY <1>t, <2>4 DEF SPublish, AdmittedInv, IsOldest
    <3>2. \A k \in Msgs \ {m} : attempt'[k].status = attempt[k].status
      BY <1>t, <2>4 DEF SPublish, TypeInv, TypeOK
    <3>3. Live(attempt')
      BY <1>a, <3>1, <3>2
    <3>4. CASE m \in Oversized
      BY <1>a, <1>g, <2>4, <3>1, <3>3, <3>4 DEF SPublish, Goto, store
    <3>5. CASE m \notin Oversized
      <4>1. RouteSend("S", crypto["S"], "data", m, o)
        BY <2>4, <3>5 DEF SPublish
      <4> QED BY <1>a, <1>g, <2>4, <3>1, <3>3, <3>5, <4>1, RouteSendWire
              DEF SPublish, EndDeliver, Return, Goto
    <3> QED BY <3>4, <3>5
  <2>5. ASSUME NEW m \in Msgs, NEW o \in Outcome, STailRow(m, o) PROVE Goal
    BY <1>a, <1>g, <2>5 DEF STailRow, EndTail, Return, Goto
  <2>6. ASSUME NEW o \in Outcome, STailState(o) PROVE Goal
    BY <1>a, <1>g, <2>6 DEF STailState, EndTail, Return, Goto
  <2>7. ASSUME NEW o \in Outcome, SSendAdmit(o) \/ SRetryAdmit(o) PROVE Goal
    <3>1. Admission(arg, o) /\ arg \in Msgs /\ o \in {"ok", "refused", "uncertain"}
      BY <1>t, <2>7 DEF SSendAdmit, SRetryAdmit, TypeInv, CommandInv
    <3>2. \A k \in Msgs \ {arg} : attempt'[k] = attempt[k] /\ dAttempt'[k] = dAttempt[k]
      BY <1>t, <3>1 DEF Admission, TypeInv, TypeOK
    <3>3. /\ attempt'[arg].status \in {"Pending", "Failed"}
          /\ dAttempt'[arg] = dAttempt[arg] \/ dAttempt'[arg].status = "Pending"
      BY <1>t, <3>1 DEF Admission, TypeInv, TypeOK, Attempt
    <3>4. Live(attempt') /\ Live(dAttempt')
      BY <1>a, <3>2, <3>3
    <3> QED BY <1>g, <3>1, <3>4 DEF Admission
  <2>8. ASSUME NEW o \in Outcome, SRefuse(o) PROVE Goal
    <3>1. arg \in Msgs
      BY <1>t, <2>8 DEF SRefuse, TypeInv, CommandInv
    <3>2. Live(attempt') /\ Live(dAttempt')
      BY <1>a, <1>p, <2>8, <3>1 DEF SRefuse
    <3> QED BY <1>g, <2>8, <3>2 DEF SRefuse, Return
  <2>9. ASSUME NEW o \in Outcome, SActivate(o) PROVE Goal
    <3>1. arg \in Msgs
      BY <1>t, <2>9 DEF SActivate, TypeInv, CommandInv
    <3>2. admitted' = admitted \cup {arg}
      BY <2>9 DEF SActivate
    <3>3. \A k \in Msgs \ {arg} : attempt'[k] = attempt[k]
      BY <1>t, <2>9 DEF SActivate, TypeInv, TypeOK
    <3>4. \A k \in Msgs : attempt'[k].status \in {"Queued", "Sent"} => k \in admitted'
      BY <1>a, <3>2, <3>3
    <3>5. \A k \in Msgs : dAttempt'[k] \in {dAttempt[k], attempt'[k]}
      BY <1>t, <2>9, <3>1, PersistSendRows DEF SActivate
    <3>6. \A k \in Msgs : dAttempt'[k].status \in {"Queued", "Sent"} => k \in admitted'
      BY <1>a, <3>2, <3>4, <3>5
    <3>7. todo' \subseteq admitted'
      BY <2>9, <3>4 DEF SActivate
    <3>8. AdmittedInv'
      BY <3>4, <3>6, <3>7 DEF AdmittedInv
    <3>9. RefusedNeverPublished'
      BY <1>t, <2>9, <3>2 DEF SActivate, RefusedNeverPublished
    <3> QED BY <3>8, <3>9
  <2> QED BY <1>2, <2>1, <2>2, <2>3, <2>4, <2>5, <2>6, <2>7, <2>8, <2>9 DEF SEffect
<1>r. (UNCHANGED <<attempt, dAttempt, pcS, todo, admitted, wire>>) => Goal
  BY <1>t DEF AdmittedInv, RefusedNeverPublished
<1>3. CASE RLocal
  BY <1>r, <1>3 DEF RLocal, RTick, RRestart, store, memS
<1>4. CASE REffect(Outcome, Publication)
  <2>1. ASSUME NEW f \in wire, NEW o \in Publication, RRecvData(f, o) PROVE Goal
    <3>1. UNCHANGED <<attempt, pcS, todo, admitted>>
      BY <2>1 DEF RRecvData, memS
    <3>2. dAttempt' = dAttempt /\ \A h \in wire' : h \in wire \/ h.kind = "ack"
      BY <2>1, RouteSendWire DEF RRecvData, store
    <3> QED BY <1>t, <1>a, <1>g, <3>1, <3>2 DEF AdmittedInv
  <2>2. ASSUME NEW m \in Msgs, NEW o \in Outcome, RTailRow(m, o) PROVE Goal
    BY <1>r, <2>2 DEF RTailRow, memS
  <2>3. ASSUME NEW o \in Outcome, RTailState(o) PROVE Goal
    BY <1>r, <2>3 DEF RTailState, memS
  <2> QED BY <1>4, <2>1, <2>2, <2>3 DEF REffect
<1>5. CASE SCrash
  <2>1. Live(attempt')
    BY <1>5 DEF SCrash, NoAttempt
  <2> QED BY <1>a, <1>g, <1>5, <2>1 DEF SCrash, store
<1>6. CASE RCrash
  BY <1>r, <1>6 DEF RCrash, store, memS
<1> QED BY <1>1, <1>2, <1>3, <1>4, <1>5, <1>6 DEF Next

(* A text that no call accepted is never published, in any behaviour: not   *)
(* by the repair of the refused write, not by a later tick and not after a  *)
(* restart that finds the refused transaction on disk.                      *)
THEOREM RefusedStaysHome == Spec => []RefusedNeverPublished
<1>1. Init => AcceptInv
  BY TypeInit DEF Init, AcceptInv, AdmittedInv, RefusedNeverPublished, NoAttempt
<1>2. AcceptInv /\ [Next]_vars => AcceptInv'
  <2>1. AcceptInv /\ Next => AcceptInv'
    BY AcceptNext, TypeNext DEF AcceptInv
  <2>2. AcceptInv /\ UNCHANGED vars => AcceptInv'
    <3>1. AcceptInv /\ UNCHANGED vars => TypeInv'
      BY TypeNext DEF AcceptInv
    <3> QED BY <3>1 DEF vars, AcceptInv, AdmittedInv, RefusedNeverPublished
  <2> QED BY <2>1, <2>2
<1>3. AcceptInv => RefusedNeverPublished
  BY DEF AcceptInv
<1> QED BY <1>1, <1>2, <1>3, PTL DEF Spec

-----------------------------------------------------------------------------
(* Delivered is honest *)

ReceiptInv == TypeInv /\ HeldInv /\ DeliveredWasHeld

LEMMA ReceiptNext == ReceiptInv /\ Next => HeldInv' /\ DeliveredWasHeld'
<1> SUFFICES ASSUME ReceiptInv, Next PROVE HeldInv' /\ DeliveredWasHeld'
  OBVIOUS
<1> DEFINE Goal == HeldInv' /\ DeliveredWasHeld'
           Honest(g) == \A m \in Msgs : g[m] = "Delivered" => m \in held
<1>t. TypeInv /\ TypeInv' /\ HeldInv /\ DeliveredWasHeld
  BY TypeNext DEF ReceiptInv
<1>h. Honest(msg) /\ Honest(dMsg)
  BY <1>t DEF DeliveredWasHeld
<1>g. ASSUME UNCHANGED <<log, rows, held>>, tail'["R"] = tail["R"],
             Honest(msg'), Honest(dMsg'), wire \subseteq wire',
             \A f \in wire' : f \in wire \/ f.kind = "data"
      PROVE  Goal
  <2>1. HeldInv'
    BY <1>t, <1>g DEF HeldInv
  <2>2. DeliveredWasHeld'
    BY <1>g DEF DeliveredWasHeld
  <2> QED BY <2>1, <2>2
<1>p. ASSUME NEW m \in Msgs, NEW deep \in BOOLEAN, NEW o \in Outcome,
             PersistSend(m, deep, o), Honest(msg')
      PROVE  Honest(dMsg') /\ rows' = rows
  <2>1. Honest(dMsg')
    BY <1>t, <1>h, <1>p, PersistSendRows
  <2> QED BY <1>p, <2>1 DEF PersistSend
<1>1. CASE SLocal
  <2>1. ASSUME NEW f \in wire, SRecvAck(f) PROVE Goal
    <3> DEFINE a == [attempt EXCEPT ![f.id] = NoAttempt]
               g == [msg EXCEPT ![f.id] = IF attempt[f.id].status # "None"
                                          THEN "Delivered" ELSE @]
               X == IF attempt[f.id].status # "None" \/ ~conn THEN Exhausted(a) ELSE {}
    <3>1. f.id \in held /\ Resume(a, g, X)
      BY <1>t, <2>1 DEF SRecvAck, HeldInv
    <3>2. Honest(g)
      BY <1>t, <1>h, <3>1 DEF TypeInv, TypeOK
    <3>3. Honest(msg')
      BY <3>1, <3>2 DEF Resume
    <3> QED BY <1>g, <1>h, <2>1, <3>3 DEF SRecvAck, store, memR
  <2>2. CASE SRecvHello
    <3>1. Honest(msg')
      BY <1>h, <2>2 DEF SRecvHello, Resume
    <3> QED BY <1>g, <1>h, <2>2, <3>1 DEF SRecvHello, store, memR
  <2>3. CASE SRestart
    <3>1. \A m \in Msgs : ReplayMessage(m) = "Delivered" => dMsg[m] = "Delivered"
      <4> SUFFICES ASSUME NEW m \in Msgs
                   PROVE  ReplayMessage(m) = "Delivered" => dMsg[m] = "Delivered"
        OBVIOUS
      <4>1. ReplayAttempt(m) \in Attempt
        BY <1>t, ReplayType DEF TypeInv
      <4>2. ReplayAttempt(m).status # "Delivered"
        BY <4>1 DEF Attempt
      <4> QED BY <4>2 DEF ReplayMessage
    <3>2. Honest(msg')
      BY <1>h, <2>3, <3>1 DEF SRestart
    <3> QED BY <1>g, <1>h, <2>3, <3>2 DEF SRestart, store, memR
  <2>4. CASE ~(SRecvHello \/ SRestart \/ \E f \in wire : SRecvAck(f))
    BY <1>1, <1>g, <1>h, <2>4 DEF SLocal, SStart, STick, STakeDirty, SStartDeliver,
       SEndDeliver, SEndTailSends, SRetryNothing, store, memR
  <2> QED BY <2>1, <2>2, <2>3, <2>4
<1>2. CASE SEffect(Outcome, Publication)
  <2>1. ASSUME NEW m \in Msgs, NEW o \in Publication, SResend(m, o) PROVE Goal
    BY <1>g, <1>h, <2>1, RouteSendWire DEF SResend, memR
  <2>2. ASSUME NEW m \in Msgs, NEW o \in Outcome,
               SFlush(m, o) \/ SDeliver(m, o) \/ SSettled(m, o) \/ STailSend(m, o)
        PROVE  Goal
    <3>1. UNCHANGED <<msg, log, held, tail, wire>>
      BY <2>2 DEF SFlush, SDeliver, SSettled, STailSend, memR
    <3>2. Honest(dMsg') /\ rows' = rows
      BY <1>h, <1>p, <2>2, <3>1 DEF SFlush, SDeliver, SSettled, STailSend
    <3> QED BY <1>g, <1>h, <3>1, <3>2
  <2>3. ASSUME NEW m \in Msgs, NEW o \in Publication, SPublish(m, o) PROVE Goal
    <3>1. Honest(msg')
      BY <1>t, <1>h, <2>3 DEF SPublish, TypeInv, TypeOK
    <3>2. CASE m \in Oversized
      BY <1>g, <1>h, <2>3, <3>1, <3>2 DEF SPublish, store, memR
    <3>3. CASE m \notin Oversized
      BY <1>g, <1>h, <2>3, <3>1, <3>3, RouteSendWire DEF SPublish, memR
    <3> QED BY <3>2, <3>3
  <2>4. ASSUME NEW m \in Msgs, NEW o \in Outcome, STailRow(m, o) PROVE Goal
    <3>1. Honest(dMsg')
      BY <1>t, <1>h, <2>4 DEF STailRow, TypeInv, TypeOK
    <3>2. tail'["R"] = tail["R"]
      BY <1>t, <2>4, NodeFacts DEF STailRow, TypeInv, TypeOK
    <3> QED BY <1>g, <1>h, <2>4, <3>1, <3>2 DEF STailRow, memR
  <2>5. ASSUME NEW o \in Outcome, STailState(o) PROVE Goal
    BY <1>g, <1>h, <2>5 DEF STailState, memR
  <2>6. ASSUME NEW o \in Outcome, SSendAdmit(o) \/ SRetryAdmit(o) PROVE Goal
    <3>1. Admission(arg, o) /\ arg \in Msgs
      BY <1>t, <2>6 DEF SSendAdmit, SRetryAdmit, TypeInv, CommandInv
    <3>2. Honest(msg') /\ Honest(dMsg')
      BY <1>t, <1>h, <3>1 DEF Admission, TypeInv, TypeOK
    <3>3. tail'["R"] = tail["R"]
      BY <1>t, <2>6, NodeFacts DEF SSendAdmit, SRetryAdmit, TypeInv, TypeOK
    <3> QED BY <1>g, <3>1, <3>2, <3>3 DEF Admission, memR
  <2>7. ASSUME NEW o \in Outcome, SRefuse(o) \/ SActivate(o) PROVE Goal
    <3>1. arg \in Msgs /\ PersistSend(arg, TRUE, o)
      BY <1>t, <2>7 DEF SRefuse, SActivate, TypeInv, CommandInv
    <3>2. Honest(msg')
      BY <1>t, <1>h, <2>7, <3>1 DEF SRefuse, SActivate, TypeInv, TypeOK
    <3>3. Honest(dMsg') /\ rows' = rows
      BY <1>p, <3>1, <3>2
    <3> QED BY <1>g, <2>7, <3>2, <3>3 DEF SRefuse, SActivate, memR
  <2> QED BY <1>2, <2>1, <2>2, <2>3, <2>4, <2>5, <2>6, <2>7 DEF SEffect
<1>3. CASE RTick
  BY <1>g, <1>h, <1>3 DEF RTick, store, memS
<1>4. CASE RRestart
  BY <1>t, <1>4 DEF RRestart, store, memS, HeldInv, DeliveredWasHeld
<1>5. ASSUME NEW f \in wire, NEW o \in Publication, RRecvData(f, o) PROVE Goal
  <2>1. f.kind = "data" /\ f.id \in Msgs
    BY <1>t, <1>5 DEF RRecvData, TypeInv, TypeOK, Frame
  <2>2. UNCHANGED <<msg, dMsg, rows>>
    BY <1>5, RouteSendWire DEF RRecvData, memS, store
  <2>3. /\ wire \subseteq wire'
        /\ \A g \in wire' : g \in wire \/ (g.kind = "ack" /\ g.id = f.id)
    BY <1>5, RouteSendWire DEF RRecvData
  <2>4. held \subseteq held' /\ held' \subseteq held \cup {f.id}
    BY <1>5 DEF RRecvData
  <2>5. log' \subseteq held' /\ tail'["R"] \subseteq held' /\ rows' \subseteq held'
    BY <1>t, <1>5, <2>2, <2>4, NodeFacts DEF RRecvData, HeldInv, TypeInv, TypeOK
  <2>6. wire' # wire => f.id \in held'
    BY <1>t, <1>5 DEF RRecvData, HasInboundMessage, HeldInv
  <2>7. \A g \in wire' : g.kind = "ack" => g.id \in held'
    BY <1>t, <2>3, <2>4, <2>6 DEF HeldInv
  <2>8. \A m \in held' : \E g \in wire' : g.kind = "data" /\ g.id = m
    BY <1>t, <2>1, <2>3, <2>4 DEF HeldInv
  <2>9. HeldInv'
    BY <2>5, <2>7, <2>8 DEF HeldInv
  <2>10. DeliveredWasHeld'
    BY <1>h, <2>2, <2>4 DEF DeliveredWasHeld
  <2> QED BY <2>9, <2>10
<1>6. ASSUME NEW m \in Msgs, NEW o \in Outcome, RTailRow(m, o) PROVE Goal
  <2>1. rows' \subseteq held /\ tail'["R"] \subseteq held
    BY <1>t, <1>6, NodeFacts DEF RTailRow, HeldInv, TypeInv, TypeOK
  <2>2. UNCHANGED <<msg, dMsg, log, held, wire>>
    BY <1>6 DEF RTailRow, memS
  <2> QED BY <1>t, <2>1, <2>2 DEF HeldInv, DeliveredWasHeld
<1>7. ASSUME NEW o \in Outcome, RTailState(o) PROVE Goal
  BY <1>g, <1>h, <1>7 DEF RTailState, memS
<1>8. CASE SCrash
  <2>1. Honest(msg') /\ tail'["R"] = tail["R"]
    BY <1>t, <1>8, NodeFacts DEF SCrash, TypeInv, TypeOK
  <2> QED BY <1>g, <1>h, <1>8, <2>1 DEF SCrash, store, memR
<1>9. CASE RCrash
  <2>1. log' = {} /\ tail'["R"] = {} /\ UNCHANGED <<msg, dMsg, rows, held, wire>>
    BY <1>t, <1>9, NodeFacts DEF RCrash, store, memS, TypeInv, TypeOK
  <2> QED BY <1>t, <2>1 DEF HeldInv, DeliveredWasHeld
<1> QED BY <1>1, <1>2, <1>3, <1>4, <1>5, <1>6, <1>7, <1>8, <1>9 DEF Next, RLocal, REffect

(* Delivered is never shown, and never stored, for a text that the          *)
(* receiving runtime did not take into its log, whatever frames are lost,   *)
(* repeated or reordered and whoever crashes.                               *)
THEOREM DeliveredIsHonest == Spec => []DeliveredWasHeld
<1>1. Init => ReceiptInv
  BY TypeInit, NodeFacts DEF Init, ReceiptInv, HeldInv, DeliveredWasHeld
<1>2. ReceiptInv /\ [Next]_vars => ReceiptInv'
  <2>1. ReceiptInv /\ Next => ReceiptInv'
    BY ReceiptNext, TypeNext DEF ReceiptInv
  <2>2. ReceiptInv /\ UNCHANGED vars => ReceiptInv'
    <3>1. ReceiptInv /\ UNCHANGED vars => TypeInv'
      BY TypeNext DEF ReceiptInv
    <3> QED BY <3>1 DEF vars, ReceiptInv, HeldInv, DeliveredWasHeld
  <2> QED BY <2>1, <2>2
<1>3. ReceiptInv => DeliveredWasHeld
  BY DEF ReceiptInv
<1> QED BY <1>1, <1>2, <1>3, PTL DEF Spec
=============================================================================
