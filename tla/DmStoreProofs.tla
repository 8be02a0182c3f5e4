---------------------------- MODULE DmStoreProofs ----------------------------
(* Theorems about what DmDelivery's store holds: how the rows on disk, the  *)
(* outbox in memory and the frames that left stay in step through refused   *)
(* writes and crashes; and, resting on them, the refinement of DmContract.  *)
EXTENDS DmDeliveryProofs

-----------------------------------------------------------------------------
(* The inductive invariant *)

OnWire(m) == \E f \in wire : f.kind = "data" /\ f.id = m

(* A restart would bring this text back as it stands in memory. *)
Synced(m) == attempt[m] = ReplayAttempt(m) /\ msg[m] = ReplayMessage(m)

(* The texts whose state the running command is about to save itself. *)
InHand ==
    CASE pcS = "flush" -> todo
      [] pcS = "settled" -> {m \in todo : IsOldest(m, todo)}
      [] pcS \in {"refuse", "activate"} -> {arg}
      [] OTHER -> {}

(* The log shows a text as its attempt stands; without an attempt nothing   *)
(* is under way, and only the text being admitted is Pending.               *)
MemoryInv == pcS # "off" => \A m \in Msgs :
    /\ attempt[m].status = "None" =>
         attempt[m] = NoAttempt /\ msg[m] \in {"None", "Delivered", "Failed"}
    /\ attempt[m].status # "None" => msg[m] = attempt[m].status
    /\ attempt[m].status = "Pending" => pcS = "activate" /\ m = arg

(* A message row without an attempt row is not a text under way either.     *)
RowsInv == \A m \in Msgs : dAttempt[m].status = "None" =>
    /\ dAttempt[m] = NoAttempt
    /\ dMsg[m] \in {"None", "Delivered", "Failed", "Pending"}

(* Memory and store differ only for texts that are registered for saving or *)
(* that the running command is about to save.                               *)
SyncInv ==
    /\ pcS \notin {"recv", "resend"} => dirty = {}
    /\ pcS = "rows" => Unsaved = {}
    /\ pcS # "off" => \A m \in Msgs \ (Unsaved \cup dirty \cup InHand) : Synced(m)

(* The outbox turn walks through all queued texts, oldest first, and has    *)
(* saved the one it is about to publish.                                    *)
OutboxInv ==
    /\ pcS \in {"deliver", "publish"} => todo = Queued
    /\ pcS = "settled" => Queued = {m \in todo : ~IsOldest(m, todo)}
    /\ pcS = "publish" => \A m \in todo : IsOldest(m, todo) =>
                            dAttempt[m] = attempt[m] /\ dMsg[m] = msg[m]

(* A text counts as sent only after it left, with a row to resume from; and *)
(* memory and store both know whatever left until it is delivered.          *)
LeftInv == \A m \in Msgs :
    /\ dAttempt[m].status = "Sent" => OnWire(m)
    /\ OnWire(m) => \/ dAttempt[m].status # "None" /\ dMsg[m] # "None"
                    \/ dMsg[m] = "Delivered"
    /\ pcS # "off" =>
         /\ attempt[m].status = "Sent" =>
              OnWire(m) /\ dAttempt[m].status \in {"Queued", "Sent"}
         /\ OnWire(m) => attempt[m].status # "None" \/ msg[m] = "Delivered"

StoreInv == TypeInv /\ MemoryInv /\ RowsInv /\ SyncInv /\ OutboxInv /\ LeftInv

-----------------------------------------------------------------------------
(* Writes *)

(* persist_send touches one text's rows, and releases its entry exactly     *)
(* when the whole write succeeded.                                          *)
LEMMA PersistSendEffect ==
  ASSUME TypeInv, NEW m \in Msgs, NEW deep \in BOOLEAN, NEW o \in Outcome,
         PersistSend(m, deep, o)
  PROVE  /\ \A k \in Msgs \ {m} : /\ dMsg'[k] = dMsg[k] /\ dAttempt'[k] = dAttempt[k]
                                  /\ pend'[k] = pend[k]
         /\ pend'[m] = "no" <=> o = "ok"
         /\ \/ dMsg'[m] = msg'[m] /\ dAttempt'[m] = attempt'[m]
            \/ o = "refused" /\ UNCHANGED <<dMsg, dAttempt>>
  BY DEF PersistSend, TypeInv, TypeOK, Outcome

(* What the store reads back for a row just saved is what memory holds.     *)
LEMMA SavedIsSynced ==
  ASSUME NEW m \in Msgs, MemoryInv, pcS # "off", attempt[m].status # "Pending",
         dAttempt[m] = attempt[m], dMsg[m] = msg[m]
  PROVE  Synced(m)
  BY DEF MemoryInv, Synced, ReplayAttempt, ReplayMessage

(* A step that saves text m, whose state in memory is unchanged or is now   *)
(* Queued, keeps the rows well formed and brings m in step.                 *)
LEMMA Saving ==
  ASSUME StoreInv, pcS # "off", NEW m \in Msgs, NEW deep \in BOOLEAN, NEW o \in Outcome,
         PersistSend(m, deep, o), TypeInv', MemoryInv', pcS' # "off", wire' = wire,
         attempt'[m].status # "Pending",
         \A k \in Msgs \ {m} : attempt'[k] = attempt[k] /\ msg'[k] = msg[k],
         \/ attempt'[m] = attempt[m] /\ msg'[m] = msg[m]
         \/ attempt'[m].status = "Queued"
  PROVE  /\ RowsInv' /\ LeftInv'
         /\ \A k \in Msgs \ {m} : pend'[k] = pend[k] /\ (Synced(k) => Synced(k)')
         /\ pend'[m] = "no" => /\ o = "ok" /\ Synced(m)'
                               /\ dAttempt'[m] = attempt'[m] /\ dMsg'[m] = msg'[m]
         /\ o = "ok" => pend'[m] = "no"
<1>1. /\ \A k \in Msgs \ {m} : /\ dMsg'[k] = dMsg[k] /\ dAttempt'[k] = dAttempt[k]
                               /\ pend'[k] = pend[k]
      /\ pend'[m] = "no" <=> o = "ok"
      /\ \/ dMsg'[m] = msg'[m] /\ dAttempt'[m] = attempt'[m]
         \/ o = "refused" /\ UNCHANGED <<dMsg, dAttempt>>
  BY PersistSendEffect DEF StoreInv
<1>2. RowsInv'
  BY <1>1 DEF StoreInv, RowsInv, MemoryInv
<1>3. \A k \in Msgs : OnWire(k)' <=> OnWire(k)
  BY DEF OnWire
<1>4. LeftInv'
  <2> SUFFICES ASSUME NEW k \in Msgs PROVE LeftInv!(k)'
    BY DEF LeftInv
  <2> QED BY <1>1, <1>3 DEF StoreInv, LeftInv, MemoryInv
<1>5. \A k \in Msgs \ {m} : Synced(k) => Synced(k)'
  BY <1>1 DEF Synced, ReplayAttempt, ReplayMessage
<1>6. pend'[m] = "no" => /\ o = "ok" /\ Synced(m)'
                         /\ dAttempt'[m] = attempt'[m] /\ dMsg'[m] = msg'[m]
  BY <1>1 DEF MemoryInv, Synced, ReplayAttempt, ReplayMessage
<1> QED BY <1>1, <1>2, <1>4, <1>5, <1>6

-----------------------------------------------------------------------------
(* The invariant is kept, action by action *)

Parts == MemoryInv /\ RowsInv /\ SyncInv /\ OutboxInv /\ LeftInv

(* Steps that only move the running command along. *)
LEMMA StoreControl ==
  ASSUME StoreInv, TypeInv', pcS # "off", pcS' # "off", pcS # "activate",
         UNCHANGED <<msg, attempt, pend, dMsg, dAttempt, wire>>,
         dirty \subseteq dirty' \cup InHand', InHand \subseteq dirty' \cup InHand',
         pcS' \notin {"recv", "resend"} => dirty' = {},
         pcS' = "rows" => Unsaved = {}, OutboxInv'
  PROVE  Parts'
<1>1. MemoryInv' /\ RowsInv'
  BY DEF StoreInv, MemoryInv, RowsInv
<1>2. \A k \in Msgs : Synced(k)' <=> Synced(k)
  BY DEF Synced, ReplayAttempt, ReplayMessage
<1>3. Unsaved' = Unsaved
  BY DEF Unsaved
<1>4. SyncInv'
  BY <1>2, <1>3 DEF StoreInv, SyncInv
<1>5. \A k \in Msgs : OnWire(k)' <=> OnWire(k)
  BY DEF OnWire
<1>6. LeftInv'
  BY <1>5 DEF StoreInv, LeftInv
<1> QED BY <1>1, <1>4, <1>6 DEF Parts

LEMMA StoreLocalS == StoreInv /\ SLocal => Parts'
<1> SUFFICES ASSUME StoreInv, SLocal PROVE Parts'
  OBVIOUS
<1>t. TypeInv /\ TypeInv'
  BY TypeLocalS DEF StoreInv
<1>s. SyncInv /\ OutboxInv
  BY DEF StoreInv
<1>1. ASSUME NEW m \in Msgs \cup {0}, NEW k \in {"service", "send", "retry"}, SStart(k, m)
      PROVE  Parts'
  BY <1>1, <1>t, <1>s, StoreControl DEF SStart, store, InHand, OutboxInv, SyncInv
<1>2. ASSUME NEW lost \in BOOLEAN, NEW D \in SUBSET Resendable, STick(lost, D)
      PROVE  Parts'
  BY <1>2, <1>t, <1>s, StoreControl DEF STick, store, InHand, OutboxInv, SyncInv
<1>3. CASE STakeDirty
  BY <1>3, <1>t, <1>s, StoreControl DEF STakeDirty, store, InHand, OutboxInv, SyncInv
<1>4. CASE SStartDeliver
  BY <1>4, <1>t, <1>s, StoreControl DEF SStartDeliver, store, InHand, OutboxInv, SyncInv, Queued
<1>5. CASE SEndDeliver
  BY <1>5, <1>t, <1>s, StoreControl
     DEF SEndDeliver, EndDeliver, Return, Goto, store, InHand, OutboxInv, SyncInv
<1>6. CASE SEndTailSends
  BY <1>6, <1>t, <1>s, StoreControl
     DEF SEndTailSends, EndTail, Return, Goto, store, InHand, OutboxInv, SyncInv
<1>7. CASE SRetryNothing
  BY <1>7, <1>t, <1>s, StoreControl
     DEF SRetryNothing, Return, store, InHand, OutboxInv, SyncInv
<1>8. ASSUME NEW f \in wire, SRecvAck(f) PROVE Parts'
  <2> DEFINE open == attempt[f.id].status # "None"
             a == [attempt EXCEPT ![f.id] = NoAttempt]
             g == [msg EXCEPT ![f.id] = IF open THEN "Delivered" ELSE @]
             X == IF open \/ ~conn THEN Exhausted(a) ELSE {}
  <2>1. f.id \in Msgs /\ pcS = "recv" /\ pcS' = "recv"
    BY <1>8, <1>t DEF SRecvAck, TypeInv, TypeOK, Frame
  <2>2. Resume(a, g, X) /\ dirty' = dirty \cup X \cup (IF open THEN {f.id} ELSE {})
    BY <1>8 DEF SRecvAck
  <2>3. UNCHANGED <<dMsg, dAttempt, pend, wire, arg, todo>>
    BY <1>8 DEF SRecvAck, store
  <2>4. attempt[f.id].status = "None" => attempt[f.id] = NoAttempt
    BY <2>1 DEF StoreInv, MemoryInv
  <2>5. X \subseteq Msgs /\ \A k \in X : k # f.id /\ attempt[k].status = "Sent"
    BY <1>t, <2>1 DEF Exhausted, NoAttempt, TypeInv, TypeOK
  <2>6. \A k \in Msgs :
          \/ k \in X /\ attempt'[k] = [status |-> "Queued", resends |-> 0] /\ msg'[k] = "Queued"
          \/ k \notin X /\ attempt'[k] = a[k] /\ msg'[k] = g[k]
    BY <2>2, <2>5 DEF Resume
  <2>7. /\ \A k \in Msgs \ {f.id} : a[k] = attempt[k] /\ g[k] = msg[k]
        /\ a[f.id] = NoAttempt /\ g[f.id] = IF open THEN "Delivered" ELSE msg[f.id]
    BY <1>t, <2>1 DEF TypeInv, TypeOK
  <2> HIDE DEF open, a, g, X
  <2>8. \A k \in Msgs \ dirty' : attempt'[k] = attempt[k] /\ msg'[k] = msg[k]
    BY <2>2, <2>4, <2>6, <2>7 DEF open
  <2>9. MemoryInv'
    BY <2>1, <2>6, <2>7 DEF StoreInv, MemoryInv, NoAttempt, open
  <2>10. RowsInv'
    BY <2>3 DEF StoreInv, RowsInv
  <2>11. Unsaved' = Unsaved
    BY <2>3 DEF Unsaved
  <2>12. \A k \in Msgs \ dirty' : Synced(k) => Synced(k)'
    BY <2>3, <2>8 DEF Synced, ReplayAttempt, ReplayMessage
  <2>13. SyncInv'
    BY <1>s, <2>1, <2>2, <2>11, <2>12 DEF SyncInv, InHand
  <2>14. OutboxInv'
    BY <2>1 DEF OutboxInv
  <2>15. \A k \in Msgs : OnWire(k)' <=> OnWire(k)
    BY <2>3 DEF OnWire
  <2>16. LeftInv'
    BY <2>1, <2>3, <2>4, <2>5, <2>6, <2>7, <2>15 DEF StoreInv, LeftInv, NoAttempt, open
  <2> QED BY <2>9, <2>10, <2>13, <2>14, <2>16 DEF Parts
<1>9. CASE SRecvHello
  <2> DEFINE X == Exhausted(attempt)
  <2>1. pcS = "recv" /\ pcS' = "recv" /\ dirty' = dirty \cup X
    BY <1>9 DEF SRecvHello
  <2>3. UNCHANGED <<dMsg, dAttempt, pend, wire, arg, todo>>
    BY <1>9 DEF SRecvHello, store
  <2>5. X \subseteq Msgs /\ \A k \in X : attempt[k].status = "Sent"
    BY DEF Exhausted
  <2>6. \A k \in Msgs :
          \/ k \in X /\ attempt'[k] = [status |-> "Queued", resends |-> 0] /\ msg'[k] = "Queued"
          \/ k \notin X /\ attempt'[k] = attempt[k] /\ msg'[k] = msg[k]
    BY <1>9, <2>5 DEF SRecvHello, Resume
  <2> HIDE DEF X
  <2>9. MemoryInv'
    BY <2>1, <2>6 DEF StoreInv, MemoryInv, NoAttempt
  <2>10. RowsInv'
    BY <2>3 DEF StoreInv, RowsInv
  <2>11. Unsaved' = Unsaved
    BY <2>3 DEF Unsaved
  <2>12. \A k \in Msgs \ dirty' : Synced(k) => Synced(k)'
    BY <2>1, <2>3, <2>6 DEF Synced, ReplayAttempt, ReplayMessage
  <2>13. SyncInv'
    BY <1>s, <2>1, <2>11, <2>12 DEF SyncInv, InHand
  <2>14. OutboxInv'
    BY <2>1 DEF OutboxInv
  <2>15. \A k \in Msgs : OnWire(k)' <=> OnWire(k)
    BY <2>3 DEF OnWire
  <2>16. LeftInv'
    BY <2>1, <2>3, <2>5, <2>6, <2>15 DEF StoreInv, LeftInv
  <2> QED BY <2>9, <2>10, <2>13, <2>14, <2>16 DEF Parts
<1>10. CASE SRestart
  <2>1. /\ pcS = "off" /\ pcS' = "idle"
        /\ UNCHANGED <<dMsg, dAttempt, pend, wire, dirty>>
        /\ \A k \in Msgs : attempt'[k] = ReplayAttempt(k) /\ msg'[k] = ReplayMessage(k)
    BY <1>10 DEF SRestart, store
  <2>2. \A k \in Msgs : dAttempt[k] \in Attempt
    BY <1>t DEF TypeInv, TypeOK
  <2>3. ASSUME NEW k \in Msgs
        PROVE  IF dAttempt[k].status = "Pending" THEN ReplayAttempt(k).status = "Failed"
                                                 ELSE ReplayAttempt(k) = dAttempt[k]
    <3>1. [dAttempt[k] EXCEPT !.status = "Failed"].status = "Failed"
      BY <2>2 DEF Attempt
    <3> QED BY <3>1 DEF ReplayAttempt
  <2>4. MemoryInv'
    BY <2>1, <2>3 DEF StoreInv, RowsInv, MemoryInv, ReplayMessage
  <2>5. RowsInv'
    BY <2>1 DEF StoreInv, RowsInv
  <2>6. \A k \in Msgs : Synced(k)'
    BY <2>1 DEF Synced, ReplayAttempt, ReplayMessage
  <2>7. SyncInv' /\ OutboxInv'
    BY <1>s, <2>1, <2>6 DEF SyncInv, OutboxInv
  <2>8. \A k \in Msgs : OnWire(k)' <=> OnWire(k)
    BY <2>1 DEF OnWire
  <2>9. LeftInv'
    BY <2>1, <2>3, <2>8 DEF StoreInv, LeftInv, ReplayMessage
  <2> QED BY <2>4, <2>5, <2>7, <2>9 DEF Parts
<1> QED BY <1>1, <1>2, <1>3, <1>4, <1>5, <1>6, <1>7, <1>8, <1>9, <1>10 DEF SLocal

(* A step of the outbox or of a repair that saves text m and leaves memory  *)
(* alone; afterwards the command holds at most what it held, less m.        *)
LEMMA StoreSaving ==
  ASSUME StoreInv, TypeInv', NEW m \in Msgs, NEW deep \in BOOLEAN, NEW o \in Outcome,
         PersistSend(m, deep, o), UNCHANGED <<msg, attempt, dirty, wire>>,
         pcS \notin {"off", "activate", "rows", "recv", "resend"},
         pcS' \notin {"off", "rows", "recv", "resend"},
         InHand \subseteq InHand' \cup {m}, OutboxInv'
  PROVE  Parts'
<1>1. MemoryInv'
  BY DEF StoreInv, MemoryInv
<1>2. attempt'[m].status # "Pending"
  BY DEF StoreInv, MemoryInv
<1>3. /\ RowsInv' /\ LeftInv'
      /\ \A k \in Msgs \ {m} : pend'[k] = pend[k] /\ (Synced(k) => Synced(k)')
      /\ pend'[m] = "no" => Synced(m)'
  BY <1>1, <1>2, Saving
<1>4. dirty = {}
  BY DEF StoreInv, SyncInv
<1>5. \A k \in Msgs \ {m} : k \notin Unsaved' \cup dirty' \cup InHand' => Synced(k)'
  BY <1>3, <1>4 DEF StoreInv, SyncInv, Unsaved
<1>6. m \notin Unsaved' => Synced(m)'
  BY <1>3 DEF Unsaved
<1>7. SyncInv'
  BY <1>4, <1>5, <1>6 DEF SyncInv
<1> QED BY <1>1, <1>3, <1>7 DEF Parts

LEMMA StoreEffectS == StoreInv /\ SEffect(Outcome, Publication) => Parts'
<1> SUFFICES ASSUME StoreInv, SEffect(Outcome, Publication) PROVE Parts'
  OBVIOUS
<1>t. TypeInv /\ TypeInv'
  BY TypeEffectS DEF StoreInv
<1>s. SyncInv /\ OutboxInv
  BY DEF StoreInv
<1>m. \A T \in SUBSET Msgs : \A j, k \in T : IsOldest(j, T) /\ IsOldest(k, T) => j = k
  BY ConstantsOK DEF IsOldest, Msgs
<1>1. ASSUME NEW m \in Msgs, NEW o \in Publication, SResend(m, o) PROVE Parts'
  <2>1. /\ pcS = "resend" /\ pcS' = "resend" /\ dirty' = dirty \cup {m}
        /\ UNCHANGED <<msg, pend, dMsg, dAttempt, arg>> /\ wire \subseteq wire'
        /\ \A f \in wire' : f \in wire \/ (f.kind = "data" /\ f.id = m)
    BY <1>1, RouteSendWire DEF SResend
  <2>2. \A k \in Msgs \ {m} : attempt'[k] = attempt[k]
    BY <1>1, <1>t DEF SResend, TypeInv, TypeOK
  <2>3. attempt[m].status = "Sent" /\ attempt'[m].status = "Sent"
    BY <1>1, <1>t DEF SResend, TypeInv, TypeOK, CommandInv, Resendable, Attempt
  <2>4. MemoryInv' /\ RowsInv' /\ OutboxInv'
    BY <2>1, <2>2, <2>3 DEF StoreInv, MemoryInv, RowsInv, OutboxInv
  <2>5. \A k \in Msgs \ {m} : Synced(k) => Synced(k)'
    BY <2>1, <2>2 DEF Synced, ReplayAttempt, ReplayMessage
  <2>6. SyncInv'
    BY <1>s, <2>1, <2>5 DEF SyncInv, InHand, Unsaved
  <2>7. OnWire(m) /\ \A k \in Msgs : OnWire(k)' <=> OnWire(k)
    BY <2>1, <2>3 DEF StoreInv, LeftInv, OnWire
  <2>8. LeftInv'
    BY <2>1, <2>2, <2>3, <2>7 DEF StoreInv, LeftInv
  <2> QED BY <2>4, <2>6, <2>8 DEF Parts
<1>2. ASSUME NEW m \in Msgs, NEW o \in Outcome, SFlush(m, o) PROVE Parts'
  <2>1. InHand \subseteq InHand' \cup {m} /\ OutboxInv'
    BY <1>2 DEF SFlush, InHand, OutboxInv
  <2> QED BY <1>2, <1>t, <2>1, StoreSaving DEF SFlush
<1>3. ASSUME NEW m \in Msgs, NEW o \in Outcome, SDeliver(m, o) PROVE Parts'
  <2>1. InHand = {}
    BY <1>3 DEF SDeliver, InHand
  <2>2. pcS' \in {"publish", "idle", "tail"} /\ (pcS' = "publish" => o = "ok" /\ todo' = todo)
    BY <1>3 DEF SDeliver, EndDeliver, Return, Goto
  <2>3. Queued' = Queued
    BY <1>3 DEF SDeliver, Queued
  <2>4. o = "ok" => dAttempt'[m] = attempt'[m] /\ dMsg'[m] = msg'[m]
    BY <1>3, <1>t, PersistSendEffect DEF SDeliver
  <2>5. \A k \in todo : IsOldest(k, todo) => k = m
    BY <1>3, <1>t, <1>m DEF SDeliver, IsOldest, TypeInv, TypeOK
  <2>6. OutboxInv'
    BY <1>3, <1>s, <2>2, <2>3, <2>4, <2>5 DEF SDeliver, OutboxInv, IsOldest
  <2> QED BY <1>3, <1>t, <2>1, <2>2, <2>6, StoreSaving DEF SDeliver
<1>4. ASSUME NEW m \in Msgs, NEW o \in Publication, SPublish(m, o) PROVE Parts'
  <2>1. /\ pcS = "publish" /\ IsOldest(m, todo) /\ UNCHANGED <<pend, dMsg, dAttempt, dirty>>
        /\ wire \subseteq wire'
        /\ \A f \in wire' : f \in wire \/ (o = "sent" /\ f.kind = "data" /\ f.id = m)
    BY <1>4, RouteSendWire DEF SPublish, EndDeliver, Return, Goto, store, RouteSend
  <2>2. todo = Queued /\ attempt[m].status = "Queued" /\ dAttempt[m] = attempt[m] /\ dMsg[m] = msg[m]
    BY <1>s, <2>1 DEF OutboxInv, IsOldest, Queued
  <2>a. dirty = {} /\ dirty' = {}
    BY <1>s, <2>1 DEF SyncInv
  <2>3. CASE UNCHANGED <<attempt, msg>>
    <3>1. o # "sent" /\ pcS' \in {"idle", "tail"}
      BY <1>4, <1>t, <2>2, <2>3, <2>1
         DEF SPublish, EndDeliver, Return, Goto, TypeInv, TypeOK, Attempt
    <3>2. wire' = wire /\ InHand = {} /\ InHand' = {} /\ OutboxInv'
      BY <2>1, <3>1 DEF InHand, OutboxInv
    <3> QED BY <1>t, <2>1, <2>3, <2>a, <3>1, <3>2, StoreControl
  <2>4. CASE ~UNCHANGED <<attempt, msg>>
    <3>1. /\ pcS' = "settled" /\ todo' = todo
          /\ \/ o = "sent" /\ attempt' = [attempt EXCEPT ![m].status = "Sent"]
                /\ msg' = [msg EXCEPT ![m] = "Sent"]
             \/ o # "sent" /\ attempt' = [attempt EXCEPT ![m].status = "Failed"]
                /\ msg' = [msg EXCEPT ![m] = "Failed"]
      BY <1>4, <2>4 DEF SPublish, Goto
    <3>2. \A k \in Msgs \ {m} : attempt'[k] = attempt[k] /\ msg'[k] = msg[k]
      BY <1>t, <3>1 DEF TypeInv, TypeOK
    <3>3. /\ o = "sent" => attempt'[m].status = "Sent" /\ msg'[m] = "Sent"
          /\ o # "sent" => attempt'[m].status = "Failed" /\ msg'[m] = "Failed"
      BY <1>t, <3>1 DEF TypeInv, TypeOK, Attempt
    <3>4. MemoryInv' /\ RowsInv'
      BY <2>1, <3>1, <3>2, <3>3 DEF StoreInv, MemoryInv, RowsInv
    <3>5. \A k \in todo : IsOldest(k, todo) <=> k = m
      BY <1>t, <1>m, <2>1 DEF IsOldest, TypeInv, TypeOK
    <3>6. Queued' = Queued \ {m}
      BY <3>2, <3>3 DEF Queued
    <3>7. OutboxInv'
      BY <2>2, <3>1, <3>5, <3>6 DEF OutboxInv, IsOldest
    <3>8. \A k \in Msgs \ {m} : Synced(k) => Synced(k)'
      BY <2>1, <3>2 DEF Synced, ReplayAttempt, ReplayMessage
    <3>9. m \in InHand' /\ InHand = {} /\ Unsaved' = Unsaved
      BY <2>1, <3>1 DEF InHand, IsOldest, Unsaved
    <3>10. SyncInv'
      BY <1>s, <2>1, <2>a, <3>1, <3>8, <3>9 DEF SyncInv
    <3>11. \A k \in Msgs : (OnWire(k) => OnWire(k)') /\ (OnWire(k)' => OnWire(k) \/ k = m)
      BY <2>1 DEF OnWire
    <3>12. o = "sent" => OnWire(m)'
      <4>1. o = "sent" => [kind |-> "data", id |-> m, gen |-> crypto["S"].next] \in wire'
        BY <1>4 DEF SPublish, RouteSend
      <4> QED BY <4>1 DEF OnWire
    <3>13. dMsg[m] = "Queued"
      BY <2>1, <2>2 DEF StoreInv, MemoryInv
    <3>14. LeftInv'
      BY <2>1, <2>2, <3>1, <3>2, <3>3, <3>11, <3>12, <3>13 DEF StoreInv, LeftInv
    <3> QED BY <3>4, <3>7, <3>10, <3>14 DEF Parts
  <2> QED BY <2>3, <2>4
<1>5. ASSUME NEW m \in Msgs, NEW o \in Outcome, SSettled(m, o) PROVE Parts'
  <2>1. pcS = "settled" /\ IsOldest(m, todo) /\ UNCHANGED <<attempt, msg, dirty, wire>>
    BY <1>5 DEF SSettled
  <2>2. \A k \in todo : IsOldest(k, todo) <=> k = m
    BY <1>t, <1>m, <2>1 DEF IsOldest, TypeInv, TypeOK
  <2>3. InHand \subseteq {m}
    BY <2>1, <2>2 DEF InHand
  <2>4. pcS' \in {"deliver", "idle", "tail"} /\ (pcS' = "deliver" => todo' = todo \ {m})
    BY <1>5 DEF SSettled, EndDeliver, Return, Goto
  <2>5. Queued' = Queued /\ Queued = todo \ {m}
    BY <1>s, <2>1, <2>2 DEF OutboxInv, Queued
  <2>6. OutboxInv'
    BY <2>4, <2>5 DEF OutboxInv
  <2> QED BY <1>5, <1>t, <2>1, <2>3, <2>4, <2>6, StoreSaving DEF SSettled
<1>6. ASSUME NEW m \in Msgs, NEW o \in Outcome, STailSend(m, o) PROVE Parts'
  <2>1. InHand = {} /\ OutboxInv'
    BY <1>6 DEF STailSend, InHand, OutboxInv
  <2> QED BY <1>6, <1>t, <2>1, StoreSaving DEF STailSend
<1>7. ASSUME NEW m \in Msgs, NEW o \in Outcome, STailRow(m, o) PROVE Parts'
  <2>1. /\ pcS = "rows" /\ UNCHANGED <<msg, attempt, dirty, pend, dAttempt, wire>>
        /\ dMsg' = dMsg \/ dMsg' = [dMsg EXCEPT ![m] = msg[m]]
    BY <1>7 DEF STailRow
  <2>2. pcS' \in {"rows", "admit", "idle"}
    BY <1>7 DEF STailRow, EndTail, Return, Goto
  <2>3. dirty = {} /\ Unsaved = {} /\ Unsaved' = {} /\ InHand = {}
    BY <1>s, <2>1 DEF SyncInv, Unsaved, InHand
  <2>4. \A k \in Msgs : Synced(k)
    BY <1>s, <2>1, <2>3 DEF SyncInv
  <2>5. \A k \in Msgs : dMsg'[k] = dMsg[k] \/ dMsg'[k] = msg[k]
    BY <1>t, <2>1 DEF TypeInv, TypeOK
  <2>6. ASSUME NEW k \in Msgs
        PROVE  IF dAttempt[k].status = "None"
               THEN attempt[k] = dAttempt[k] /\ msg[k] \in {"None", "Delivered", "Failed"}
               ELSE attempt[k].status # "None" /\ msg[k] = attempt[k].status
    <3>1. dAttempt[k] \in Attempt /\ attempt[k] = ReplayAttempt(k)
      BY <1>t, <2>4 DEF TypeInv, TypeOK, Synced
    <3>2. dAttempt[k].status = "Pending" => attempt[k].status = "Failed"
      BY <3>1 DEF ReplayAttempt, Attempt
    <3>3. dAttempt[k].status # "Pending" => attempt[k] = dAttempt[k]
      BY <3>1 DEF ReplayAttempt
    <3> QED BY <2>1, <3>2, <3>3 DEF StoreInv, MemoryInv
  <2>7. RowsInv'
    BY <2>1, <2>5, <2>6 DEF StoreInv, RowsInv
  <2>8. MemoryInv' /\ OutboxInv'
    BY <2>1, <2>2 DEF StoreInv, MemoryInv, OutboxInv
  <2>9. ASSUME NEW k \in Msgs PROVE Synced(k)'
    <3>1. attempt'[k] = ReplayAttempt(k)'
      BY <2>1, <2>4 DEF Synced, ReplayAttempt
    <3>2. ReplayAttempt(k) = attempt[k] /\ ReplayAttempt(k)' = attempt[k] /\ msg[k] = ReplayMessage(k)
      BY <2>1, <2>4, <3>1 DEF Synced
    <3>3. CASE attempt[k].status # "None"
      BY <2>1, <3>1, <3>2, <3>3 DEF Synced, ReplayMessage
    <3>4. CASE attempt[k].status = "None"
      <4>1. msg[k] \in {"None", "Delivered", "Failed"}
        BY <2>1, <3>4 DEF StoreInv, MemoryInv
      <4>2. ReplayMessage(k)' = IF dMsg'[k] = "Pending" THEN "Failed" ELSE dMsg'[k]
        BY <3>2, <3>4 DEF ReplayMessage
      <4>3. msg[k] = IF dMsg[k] = "Pending" THEN "Failed" ELSE dMsg[k]
        BY <3>2, <3>4 DEF ReplayMessage
      <4>4. msg'[k] = ReplayMessage(k)'
        BY <2>1, <2>5, <4>1, <4>2, <4>3
      <4> QED BY <3>1, <4>4 DEF Synced
    <3> QED BY <3>3, <3>4
  <2>10. SyncInv'
    BY <2>1, <2>2, <2>3, <2>9 DEF SyncInv
  <2>11. \A k \in Msgs : OnWire(k)' <=> OnWire(k)
    BY <2>1 DEF OnWire
  <2>12. LeftInv'
    BY <2>1, <2>2, <2>5, <2>6, <2>11 DEF StoreInv, LeftInv, NoAttempt
  <2> QED BY <2>7, <2>8, <2>10, <2>12 DEF Parts
<1>8. ASSUME NEW o \in Outcome, STailState(o) PROVE Parts'
  <2>1. pcS = "rows" /\ pcS' \in {"admit", "idle"}
        /\ UNCHANGED <<msg, attempt, dirty, pend, dMsg, dAttempt, wire>>
    BY <1>8 DEF STailState, EndTail, Return, Goto
  <2>2. InHand = {} /\ OutboxInv' /\ dirty = {}
    BY <1>s, <2>1 DEF InHand, OutboxInv, SyncInv
  <2> QED BY <1>t, <2>1, <2>2, StoreControl
<1>9. ASSUME NEW o \in Outcome, SSendAdmit(o) \/ SRetryAdmit(o) PROVE Parts'
  <2>1. /\ Admission(arg, o) /\ arg \in Msgs /\ pcS = "admit" /\ arg' = arg
        /\ pcS' = (IF o = "ok" THEN "activate" ELSE "refuse")
        /\ UNCHANGED <<dirty, pend, wire>>
    BY <1>9, <1>t DEF SSendAdmit, SRetryAdmit, Admission, TypeInv, CommandInv
  <2>2. \A k \in Msgs \ {arg} : /\ attempt'[k] = attempt[k] /\ msg'[k] = msg[k]
                                 /\ dAttempt'[k] = dAttempt[k] /\ dMsg'[k] = dMsg[k]
    BY <1>t, <2>1 DEF Admission, TypeInv, TypeOK
  <2>3. /\ attempt'[arg].status = (IF o = "ok" THEN "Pending" ELSE "Failed")
        /\ msg'[arg] = attempt'[arg].status
    BY <1>t, <2>1 DEF Admission, TypeInv, TypeOK, Attempt
  <2>4. \/ dAttempt'[arg] = dAttempt[arg] /\ dMsg'[arg] = dMsg[arg]
        \/ dAttempt'[arg].status = "Pending" /\ dMsg'[arg] = "Pending"
    BY <1>t, <2>1 DEF Admission, TypeInv, TypeOK, Attempt
  <2>5. MemoryInv' /\ RowsInv'
    BY <2>1, <2>2, <2>3, <2>4 DEF StoreInv, MemoryInv, RowsInv
  <2>6. \A k \in Msgs \ {arg} : Synced(k) => Synced(k)'
    BY <2>2 DEF Synced, ReplayAttempt, ReplayMessage
  <2>7. InHand = {} /\ InHand' = {arg} /\ Unsaved' = Unsaved /\ OutboxInv'
    BY <2>1 DEF InHand, Unsaved, OutboxInv
  <2>8. SyncInv'
    BY <1>s, <2>1, <2>6, <2>7 DEF SyncInv
  <2>9. \A k \in Msgs : OnWire(k)' <=> OnWire(k)
    BY <2>1 DEF OnWire
  <2>10. LeftInv'
    BY <2>1, <2>2, <2>3, <2>4, <2>9 DEF StoreInv, LeftInv
  <2> QED BY <2>5, <2>7, <2>8, <2>10 DEF Parts
<1>10. ASSUME NEW o \in Outcome, SRefuse(o) PROVE Parts'
  <2>1. arg \in Msgs /\ pcS = "refuse" /\ pcS' = "idle"
    BY <1>10, <1>t DEF SRefuse, Return, TypeInv, CommandInv
  <2>2. InHand = {arg} /\ OutboxInv'
    BY <2>1 DEF InHand, OutboxInv
  <2> QED BY <1>10, <1>t, <2>1, <2>2, StoreSaving DEF SRefuse
<1>11. ASSUME NEW o \in Outcome, SActivate(o) PROVE Parts'
  <2>0. PICK x \in Msgs : x = arg
    BY <1>11, <1>t DEF SActivate, TypeInv, CommandInv
  <2>1. /\ arg = x /\ pcS = "activate" /\ pcS' = "deliver" /\ todo' = Queued'
        /\ UNCHANGED <<dirty, wire>>
    BY <1>11, <1>t, <2>0 DEF SActivate, TypeInv, CommandInv, Queued
  <2>2. /\ \A k \in Msgs \ {x} : attempt'[k] = attempt[k] /\ msg'[k] = msg[k]
        /\ attempt'[x].status = "Queued" /\ msg'[x] = "Queued"
    BY <1>11, <1>t, <2>1 DEF SActivate, TypeInv, TypeOK, Attempt
  <2>3. MemoryInv'
    BY <2>1, <2>2 DEF StoreInv, MemoryInv
  <2>4. PersistSend(x, TRUE, o)
    BY <1>11, <2>1 DEF SActivate
  <2>5. /\ RowsInv' /\ LeftInv'
        /\ \A k \in Msgs \ {x} : pend'[k] = pend[k] /\ (Synced(k) => Synced(k)')
        /\ pend'[x] = "no" => Synced(x)'
    BY <1>t, <2>1, <2>2, <2>3, <2>4, Saving
  <2>6. dirty = {} /\ InHand = {x} /\ InHand' = {}
    BY <1>s, <2>1 DEF SyncInv, InHand
  <2>7. \A k \in Msgs : k \notin Unsaved' => Synced(k)'
    BY <1>s, <2>1, <2>5, <2>6 DEF SyncInv, Unsaved
  <2>8. SyncInv' /\ OutboxInv'
    BY <2>1, <2>6, <2>7 DEF SyncInv, OutboxInv
  <2> QED BY <2>3, <2>5, <2>8 DEF Parts
<1> QED BY <1>1, <1>2, <1>3, <1>4, <1>5, <1>6, <1>7, <1>8, <1>9, <1>10, <1>11 DEF SEffect

(* R, the network and R's store are invisible to S's rows: all R adds to    *)
(* the wire is acknowledgements.                                            *)
LEMMA StoreStepR ==
  StoreInv /\ (RLocal \/ REffect(Outcome, Publication) \/ RCrash) => Parts'
<1> SUFFICES ASSUME StoreInv, RLocal \/ REffect(Outcome, Publication) \/ RCrash
             PROVE  Parts'
  OBVIOUS
<1>1. UNCHANGED <<memS, dMsg, dAttempt>> /\ wire \subseteq wire'
      /\ \A f \in wire' : f \in wire \/ f.kind = "ack"
  <2>1. ASSUME NEW f \in wire, NEW o \in Publication, RRecvData(f, o)
        PROVE  /\ UNCHANGED <<memS, dMsg, dAttempt>> /\ wire \subseteq wire'
               /\ \A g \in wire' : g \in wire \/ g.kind = "ack"
    BY <2>1, RouteSendWire DEF RRecvData, store
  <2>2. CASE ~\E f \in wire, o \in Publication : RRecvData(f, o)
    BY <2>2 DEF RLocal, REffect, RTick, RRestart, RTailRow, RTailState, RCrash, store
  <2> QED BY <2>1, <2>2
<1>2. \A k \in Msgs : OnWire(k)' <=> OnWire(k)
  BY <1>1 DEF OnWire
<1>3. Queued' = Queued /\ Unsaved' = Unsaved /\ InHand' = InHand
  BY <1>1 DEF memS, Queued, Unsaved, InHand, IsOldest
<1>4. \A k \in Msgs : Synced(k)' <=> Synced(k)
  BY <1>1 DEF memS, Synced, ReplayAttempt, ReplayMessage
<1>5. MemoryInv' /\ RowsInv' /\ SyncInv'
  BY <1>1, <1>3, <1>4 DEF memS, StoreInv, MemoryInv, RowsInv, SyncInv
<1>6. OutboxInv'
  BY <1>1, <1>3 DEF memS, StoreInv, OutboxInv, IsOldest
<1>7. LeftInv'
  BY <1>1, <1>2 DEF memS, StoreInv, LeftInv
<1> QED BY <1>5, <1>6, <1>7 DEF Parts

LEMMA StoreCrash == StoreInv /\ SCrash => Parts'
<1> SUFFICES ASSUME StoreInv, SCrash PROVE Parts'
  OBVIOUS
<1>1. pcS' = "off" /\ dirty' = {} /\ UNCHANGED <<dMsg, dAttempt, wire>>
  BY DEF SCrash, store
<1>2. \A k \in Msgs : OnWire(k)' <=> OnWire(k)
  BY <1>1 DEF OnWire
<1> QED BY <1>1, <1>2 DEF StoreInv, Parts, MemoryInv, RowsInv, SyncInv, OutboxInv, LeftInv

LEMMA StoreInit == Init => StoreInv
<1> SUFFICES ASSUME Init PROVE StoreInv
  OBVIOUS
<1>1. \A m \in Msgs : /\ attempt[m] = NoAttempt /\ dAttempt[m] = NoAttempt
                      /\ msg[m] = "None" /\ dMsg[m] = "None" /\ ~OnWire(m)
  BY DEF Init, OnWire
<1>2. \A m \in Msgs : Synced(m)
  BY <1>1 DEF Synced, ReplayAttempt, ReplayMessage, NoAttempt
<1>3. MemoryInv /\ RowsInv /\ LeftInv
  BY <1>1 DEF MemoryInv, RowsInv, LeftInv, NoAttempt
<1>4. SyncInv /\ OutboxInv
  BY <1>2 DEF Init, SyncInv, OutboxInv
<1> QED BY <1>3, <1>4, TypeInit DEF StoreInv

LEMMA StoreNext == StoreInv /\ [Next]_vars => StoreInv'
<1> SUFFICES ASSUME StoreInv, [Next]_vars PROVE StoreInv'
  OBVIOUS
<1>1. TypeInv'
  BY TypeNext DEF StoreInv
<1>2. CASE Next
  <2>1. Parts'
    BY <1>2, StoreLocalS, StoreEffectS, StoreStepR, StoreCrash DEF Next
  <2> QED BY <1>1, <2>1 DEF StoreInv, Parts
<1>3. CASE UNCHANGED vars
  <2>1. Queued' = Queued /\ Unsaved' = Unsaved /\ InHand' = InHand
    BY <1>3 DEF vars, Queued, Unsaved, InHand, IsOldest
  <2>2. \A k \in Msgs : (Synced(k)' <=> Synced(k)) /\ (OnWire(k)' <=> OnWire(k))
    BY <1>3 DEF vars, Synced, ReplayAttempt, ReplayMessage, OnWire
  <2>3. MemoryInv' /\ RowsInv' /\ SyncInv' /\ LeftInv'
    BY <1>3, <2>1, <2>2 DEF vars, StoreInv, MemoryInv, RowsInv, SyncInv, LeftInv
  <2>4. OutboxInv'
    BY <1>3, <2>1 DEF vars, StoreInv, OutboxInv, IsOldest
  <2> QED BY <1>1, <2>3, <2>4 DEF StoreInv
<1> QED BY <1>2, <1>3

LEMMA StoreAlways == Spec => []StoreInv
  BY StoreInit, StoreNext, PTL DEF Spec

-----------------------------------------------------------------------------
(* What follows *)

(* Once a text has left, the sender's store knows it until its row says     *)
(* Delivered: no refused or torn write and no crash, at any point, makes    *)
(* the runtime forget a text the peer may have.                             *)
THEOREM LeftIsKnown == Spec => []PublishedStaysKnown
<1>1. StoreInv => PublishedStaysKnown
  BY DEF StoreInv, TypeInv, TypeOK, Frame, LeftInv, OnWire, PublishedStaysKnown
<1> QED BY <1>1, StoreAlways, PTL

(* Between commands, every text whose state in memory differs from what a   *)
(* restart would read is registered for saving: persist_send's pending      *)
(* writes and the dirty list cover every outcome that is only in memory.    *)
THEOREM NothingSettledIsLost == Spec => []RestartLosesNothingSettled
<1>1. StoreInv => RestartLosesNothingSettled
  BY DEF StoreInv, SyncInv, InHand, Synced, RestartLosesNothingSettled
<1> QED BY <1>1, StoreAlways, PTL

(* The only two steps that put a data frame on the wire. *)
LEMMA WhoPublishes ==
  ASSUME StoreInv, [Next]_vars, NEW f \in wire' \ wire, f.kind = "data"
  PROVE  f.id \in Msgs /\ \E o \in Publication : SResend(f.id, o) \/ SPublish(f.id, o)
<1>1. Next
  BY DEF vars
<1>2. CASE SLocal
  BY <1>2 DEF SLocal, SStart, SRecvAck, SRecvHello, STick, STakeDirty, SStartDeliver,
     SEndDeliver, SEndTailSends, SRetryNothing, SRestart
<1>3. CASE SEffect(Outcome, Publication)
  <2>1. \E m \in Msgs, o \in Publication : SResend(m, o) \/ SPublish(m, o)
    BY <1>3 DEF SEffect, SFlush, SDeliver, SSettled, STailSend, STailRow, STailState,
       SSendAdmit, SRetryAdmit, Admission, SRefuse, SActivate
  <2>2. PICK m \in Msgs, o \in Publication : SResend(m, o) \/ SPublish(m, o)
    BY <2>1
  <2>3. f.id = m
    BY <2>2, RouteSendWire DEF SResend, SPublish
  <2> QED BY <2>2, <2>3
<1>4. CASE REffect(Outcome, Publication)
  <2>1. ASSUME NEW g \in wire, NEW o \in Publication, RRecvData(g, o) PROVE FALSE
    <3>1. \A h \in wire' : h \in wire \/ h.kind = "ack"
      BY <2>1, RouteSendWire DEF RRecvData
    <3> QED BY <3>1
  <2> QED BY <1>4, <2>1 DEF REffect, RTailRow, RTailState
<1>5. CASE RLocal \/ SCrash \/ RCrash
  BY <1>5 DEF RLocal, RTick, RRestart, SCrash, RCrash
<1> QED BY <1>1, <1>2, <1>3, <1>4, <1>5 DEF Next

(* Whatever leaves has a row that a restart at that very moment would       *)
(* resume as queued or sent: deliver_queued has saved the admission, and a  *)
(* resend repeats only what such a row covers.                              *)
THEOREM LeavesRecoverable == Spec => PublishedIsRecoverable
<1>1. StoreInv /\ [Next]_vars =>
        [\A f \in wire' \ wire : f.kind = "data" =>
            ReplayAttempt(f.id).status \in {"Queued", "Sent"}]_vars
  <2> SUFFICES ASSUME StoreInv, [Next]_vars, NEW f \in wire' \ wire, f.kind = "data"
               PROVE  ReplayAttempt(f.id).status \in {"Queued", "Sent"}
    OBVIOUS
  <2>1. PICK o \in Publication : SResend(f.id, o) \/ SPublish(f.id, o)
    BY WhoPublishes
  <2>2. f.id \in Msgs
    BY WhoPublishes
  <2>3. dAttempt[f.id].status \in {"Queued", "Sent"}
    <3>1. CASE SResend(f.id, o)
      BY <2>2, <3>1 DEF SResend, StoreInv, TypeInv, CommandInv, Resendable, LeftInv
    <3>2. CASE SPublish(f.id, o)
      BY <2>2, <3>2 DEF SPublish, StoreInv, OutboxInv, IsOldest, Queued
    <3> QED BY <2>1, <3>1, <3>2
  <2> QED BY <2>3 DEF ReplayAttempt
<1> QED BY <1>1, StoreAlways, PTL DEF Spec, PublishedIsRecoverable

(* A text leaves for the first time only when no older text is waiting: the *)
(* outbox turn publishes in filing order, and neither a refused write, a    *)
(* failed publication nor a crash lets a later text go first.               *)
THEOREM LeavesInOrder == Spec => NoOvertaking
<1>1. StoreInv /\ [Next]_vars =>
        [\A f \in wire' \ wire :
           (f.kind = "data" /\ ~\E g \in wire : g.kind = "data" /\ g.id = f.id)
              => \A k \in Msgs : k < f.id => attempt[k].status # "Queued"]_vars
  <2> SUFFICES ASSUME StoreInv, [Next]_vars, NEW f \in wire' \ wire, f.kind = "data",
                      ~OnWire(f.id), NEW k \in Msgs, k < f.id
               PROVE  attempt[k].status # "Queued"
    BY DEF OnWire
  <2>1. PICK o \in Publication : SResend(f.id, o) \/ SPublish(f.id, o)
    BY WhoPublishes
  <2>2. f.id \in Msgs
    BY WhoPublishes
  <2>3. ~SResend(f.id, o)
    BY <2>2 DEF SResend, StoreInv, TypeInv, CommandInv, Resendable, LeftInv
  <2>4. IsOldest(f.id, Queued)
    BY <2>1, <2>3 DEF SPublish, StoreInv, OutboxInv
  <2> QED BY <2>2, <2>4, ConstantsOK DEF IsOldest, Queued, Msgs
<1> QED BY <1>1, StoreAlways, PTL DEF Spec, NoOvertaking

-----------------------------------------------------------------------------
(* DmDelivery implements DmContract, for every number of texts, resends and *)
(* generations.  The contract's four sets are read off the detailed state:  *)
(* the texts some call accepted, those with a frame on the wire, those R    *)
(* took in, and those S has stored as Delivered.                            *)

(* Accepted texts and the texts of running commands have been filed; a text *)
(* that is being activated is still Pending; and a stored receipt ends the  *)
(* attempt in store and memory, so nothing can write over it.               *)
ConfirmedInv ==
    /\ \A m \in admitted : m < next
    /\ op \in {"sending", "retry", "retrying"} => arg < next
    /\ pcS = "activate" => attempt[arg].status = "Pending" /\ op \in {"sending", "retrying"}
    /\ \A m \in Msgs : dMsg[m] = "Delivered" =>
          /\ dAttempt[m].status = "None"
          /\ pcS # "off" => attempt[m].status = "None" /\ msg[m] = "Delivered"

ContractInv == StoreInv /\ AcceptInv /\ ReceiptInv /\ ConfirmedInv

(* The contract's published and confirmed. *)
Left == {m \in Msgs : \E f \in wire : f.kind = "data" /\ f.id = m}
Settled == {m \in Msgs : dMsg[m] = "Delivered"}

(* One text is stored as Delivered, one R had taken in, or none is. *)
OneConfirmed ==
    \/ Settled' = Settled
    \/ \E m \in held : Settled' = Settled \cup {m}

(* A step of the contract, or none. *)
Visible ==
    \/ admitted' = admitted /\ Left' = Left /\ held' = held /\ OneConfirmed
    \/ /\ \E m \in Msgs : admitted' = admitted \cup {m}
       /\ Left' = Left /\ held' = held /\ Settled' = Settled
    \/ /\ \E m \in admitted : Left' = Left \cup {m}
       /\ admitted' = admitted /\ held' = held /\ Settled' = Settled
    \/ /\ \E m \in Left : held' = held \cup {m}
       /\ admitted' = admitted /\ Left' = Left /\ Settled' = Settled

LEMMA VisibleIsContract ==
  ASSUME TypeInv, Visible
  PROVE  [Contract!CNext]_(Contract!contractVars)
<1> USE DEF Contract!CNext, Contract!contractVars, Left, Settled
<1>1. CASE admitted' = admitted /\ Left' = Left /\ held' = held /\ OneConfirmed
  <2>1. CASE Settled' = Settled
    BY <1>1, <2>1
  <2>2. CASE \E m \in held : Settled' = Settled \cup {m}
    <3>1. PICK m \in held : Settled' = Settled \cup {m}
      BY <2>2
    <3>2. m \in Msgs
      BY DEF TypeInv, TypeOK
    <3>3. Contract!Confirm(m)
      BY <1>1, <3>1 DEF Contract!Confirm
    <3> QED BY <3>2, <3>3
  <2> QED BY <1>1, <2>1, <2>2 DEF OneConfirmed
<1>2. CASE /\ \E m \in Msgs : admitted' = admitted \cup {m}
           /\ Left' = Left /\ held' = held /\ Settled' = Settled
  BY <1>2 DEF Contract!Accept
<1>3. CASE /\ \E m \in admitted : Left' = Left \cup {m}
           /\ admitted' = admitted /\ held' = held /\ Settled' = Settled
  <2>1. PICK m \in admitted : Left' = Left \cup {m}
    BY <1>3
  <2>2. m \in Msgs
    BY DEF TypeInv, TypeOK
  <2>3. Contract!Publish(m)
    BY <1>3, <2>1 DEF Contract!Publish
  <2> QED BY <2>2, <2>3
<1>4. CASE /\ \E m \in Left : held' = held \cup {m}
           /\ admitted' = admitted /\ Left' = Left /\ Settled' = Settled
  <2>1. PICK m \in Left : held' = held \cup {m}
    BY <1>4
  <2>2. Contract!Receive(m)
    BY <1>4, <2>1 DEF Contract!Receive
  <2> QED BY <2>2
<1> QED BY <1>1, <1>2, <1>3, <1>4 DEF Visible

-----------------------------------------------------------------------------
(* Steps of the sender that save rows *)

(* A text whose log entry says Delivered has no attempt. *)
LEMMA DeliveredHasNoAttempt ==
  ASSUME StoreInv, pcS # "off", NEW m \in Msgs, msg[m] = "Delivered"
  PROVE  attempt[m].status = "None"
<1>1. attempt[m].status # "Delivered"
  BY DEF StoreInv, TypeInv, TypeOK, Attempt
<1> QED BY <1>1 DEF StoreInv, MemoryInv

(* Saving text m while memory does not change: the receipt is stored with   *)
(* the deletion of the attempt row, or nothing of the kind happens.         *)
LEMMA ConfirmBySaving ==
  ASSUME ContractInv, TypeInv', pcS \notin {"off", "activate"}, pcS' # "activate",
         NEW m \in Msgs, UNCHANGED <<msg, attempt, admitted, next, wire, held>>,
         op' \in {"sending", "retry", "retrying"} => op' = op /\ arg' = arg,
         \A k \in Msgs \ {m} : dMsg'[k] = dMsg[k] /\ dAttempt'[k] = dAttempt[k],
         \/ dMsg'[m] = dMsg[m] /\ dAttempt'[m] = dAttempt[m]
         \/ /\ dMsg'[m] = msg[m]
            /\ dAttempt'[m] = attempt[m] \/ (Synced(m) /\ dAttempt'[m] = dAttempt[m])
  PROVE  ConfirmedInv' /\ Visible
<1>1. msg[m] = "Delivered" => attempt[m].status = "None"
  BY DeliveredHasNoAttempt DEF ContractInv
<1>2. Synced(m) /\ attempt[m].status = "None" => dAttempt[m].status = "None"
  <2>1. dAttempt[m] \in Attempt
    BY DEF ContractInv, StoreInv, TypeInv, TypeOK
  <2> QED BY <2>1 DEF Synced, ReplayAttempt, Attempt
<1>3. msg[m] = "Delivered" => m \in held
  BY DEF ContractInv, ReceiptInv, DeliveredWasHeld
<1>4. \A k \in Msgs : dMsg[k] = "Delivered" => dMsg'[k] = "Delivered"
  BY DEF ContractInv, ConfirmedInv
<1>5. \A k \in Msgs : dMsg'[k] = "Delivered" =>
         /\ dAttempt'[k].status = "None" /\ attempt[k].status = "None" /\ msg[k] = "Delivered"
         /\ dMsg[k] = "Delivered" \/ (k = m /\ m \in held)
  BY <1>1, <1>2, <1>3 DEF ContractInv, ConfirmedInv
<1>6. ConfirmedInv'
  BY <1>5 DEF ContractInv, ConfirmedInv
<1>7. OneConfirmed
  <2>1. CASE dMsg'[m] = "Delivered" /\ dMsg[m] # "Delivered"
    <3>1. Settled' = Settled \cup {m} /\ m \in held
      BY <1>4, <1>5, <2>1 DEF Settled
    <3> QED BY <3>1 DEF OneConfirmed
  <2>2. CASE ~(dMsg'[m] = "Delivered" /\ dMsg[m] # "Delivered")
    <3>1. Settled' = Settled
      BY <1>4, <1>5, <2>2 DEF Settled
    <3> QED BY <3>1 DEF OneConfirmed
  <2> QED BY <2>1, <2>2
<1>8. Left' = Left
  BY DEF Left
<1> QED BY <1>6, <1>7, <1>8 DEF Visible

-----------------------------------------------------------------------------
(* Every step *)

(* The memory of unconfirmed texts may change as long as no rows do. *)
LEMMA ConfirmedInMemory ==
  ASSUME ContractInv, UNCHANGED <<dMsg, dAttempt, admitted, next, held>>,
         Left' = Left, pcS' # "activate", pcS # "off" \/ pcS' = "off",
         op' \in {"sending", "retry", "retrying"} => arg' < next,
         pcS' # "off" => \A k \in Msgs : attempt[k].status = "None" /\ msg[k] = "Delivered"
                           => attempt'[k].status = "None" /\ msg'[k] = "Delivered"
  PROVE  ConfirmedInv' /\ Visible
<1>1. ConfirmedInv'
  BY DEF ContractInv, ConfirmedInv
<1>2. Settled' = Settled
  BY DEF Settled
<1> QED BY <1>1, <1>2 DEF Visible, OneConfirmed

LEMMA ContractLocalS == ContractInv /\ SLocal => ConfirmedInv' /\ Visible
<1> SUFFICES ASSUME ContractInv, SLocal PROVE ConfirmedInv' /\ Visible
  OBVIOUS
<1>t. TypeInv /\ TypeInv' /\ ConfirmedInv
  BY TypeLocalS DEF ContractInv, StoreInv
<1>n. next \in Int /\ \A m \in Msgs : m \in Int
  BY <1>t, ConstantsOK DEF TypeInv, TypeOK, Msgs
<1>w. wire' = wire => Left' = Left
  BY DEF Left
<1>1. ASSUME NEW m \in Msgs \cup {0}, NEW k \in {"service", "send", "retry"}, SStart(k, m)
      PROVE  ConfirmedInv' /\ Visible
  BY <1>1, <1>w, ConfirmedInMemory DEF SStart, store
<1>2. ASSUME NEW f \in wire, SRecvAck(f) PROVE ConfirmedInv' /\ Visible
  <2> DEFINE a == [attempt EXCEPT ![f.id] = NoAttempt]
             g == [msg EXCEPT ![f.id] = IF attempt[f.id].status # "None"
                                        THEN "Delivered" ELSE @]
             X == IF attempt[f.id].status # "None" \/ ~conn THEN Exhausted(a) ELSE {}
  <2>1. Resume(a, g, X)
    BY <1>2 DEF SRecvAck
  <2>2. \A k \in Msgs : attempt[k].status = "None" /\ msg[k] = "Delivered"
                        => a[k].status = "None" /\ g[k] = "Delivered"
    BY <1>t DEF TypeInv, TypeOK, NoAttempt
  <2>3. \A k \in X : a[k].status = "Sent"
    BY DEF Exhausted
  <2>4. \A k \in Msgs : attempt[k].status = "None" /\ msg[k] = "Delivered"
                        => attempt'[k].status = "None" /\ msg'[k] = "Delivered"
    BY <2>1, <2>2, <2>3 DEF Resume
  <2> QED BY <1>2, <1>t, <1>w, <2>4, ConfirmedInMemory DEF SRecvAck, store, ConfirmedInv
<1>3. CASE SRecvHello
  <2>1. \A k \in Msgs : attempt[k].status = "None" /\ msg[k] = "Delivered"
                        => attempt'[k].status = "None" /\ msg'[k] = "Delivered"
    BY <1>3 DEF SRecvHello, Resume, Exhausted
  <2> QED BY <1>3, <1>t, <1>w, <2>1, ConfirmedInMemory DEF SRecvHello, store, ConfirmedInv
<1>4. ASSUME NEW lost \in BOOLEAN, NEW D \in SUBSET Resendable, STick(lost, D)
      PROVE  ConfirmedInv' /\ Visible
  BY <1>4, <1>t, <1>w, ConfirmedInMemory DEF STick, store, ConfirmedInv
<1>5. CASE STakeDirty
  BY <1>5, <1>t, <1>w, ConfirmedInMemory DEF STakeDirty, store, ConfirmedInv
<1>6. CASE SStartDeliver
  BY <1>6, <1>t, <1>w, ConfirmedInMemory DEF SStartDeliver, store, ConfirmedInv
<1>7. CASE SEndDeliver
  BY <1>7, <1>t, <1>w, ConfirmedInMemory
     DEF SEndDeliver, EndDeliver, Return, Goto, store, ConfirmedInv
<1>8. CASE SEndTailSends
  BY <1>8, <1>t, <1>w, ConfirmedInMemory
     DEF SEndTailSends, EndTail, Return, Goto, store, ConfirmedInv
<1>9. CASE SRetryNothing
  BY <1>9, <1>t, <1>w, ConfirmedInMemory DEF SRetryNothing, Return, store, ConfirmedInv
<1>10. CASE SRestart
  <2>1. /\ pcS' = "idle" /\ UNCHANGED <<dMsg, dAttempt, wire, admitted, held, next, op, arg>>
        /\ \A k \in Msgs : attempt'[k] = ReplayAttempt(k) /\ msg'[k] = ReplayMessage(k)
    BY <1>10 DEF SRestart, store
  <2>2. \A k \in Msgs : dMsg[k] = "Delivered" =>
          ReplayAttempt(k).status = "None" /\ ReplayMessage(k) = "Delivered"
    BY <1>t DEF ConfirmedInv, ReplayAttempt, ReplayMessage
  <2>3. ConfirmedInv'
    BY <1>t, <2>1, <2>2 DEF ConfirmedInv
  <2>4. Settled' = Settled /\ Left' = Left
    BY <1>w, <2>1 DEF Settled
  <2> QED BY <2>1, <2>3, <2>4 DEF Visible, OneConfirmed
<1> QED BY <1>1, <1>2, <1>3, <1>4, <1>5, <1>6, <1>7, <1>8, <1>9, <1>10 DEF SLocal

LEMMA ContractEffectS ==
  ContractInv /\ SEffect(Outcome, Publication) => ConfirmedInv' /\ Visible
<1> SUFFICES ASSUME ContractInv, SEffect(Outcome, Publication)
             PROVE  ConfirmedInv' /\ Visible
  OBVIOUS
<1> DEFINE Goal == ConfirmedInv' /\ Visible
<1>t. TypeInv /\ TypeInv' /\ ConfirmedInv
  BY TypeEffectS DEF ContractInv, StoreInv
<1>n. next \in Int /\ \A m \in Msgs : m \in Int
  BY <1>t, ConstantsOK DEF TypeInv, TypeOK, Msgs
<1>w. wire' = wire => Left' = Left
  BY DEF Left
<1>p. ASSUME NEW m \in Msgs, NEW deep \in BOOLEAN, NEW o \in Outcome, PersistSend(m, deep, o),
             UNCHANGED <<msg, attempt, admitted, next, wire, held>>,
             pcS \notin {"off", "activate"}, pcS' # "activate",
             op' \in {"sending", "retry", "retrying"} => op' = op /\ arg' = arg
      PROVE  Goal
  <2>1. /\ \A k \in Msgs \ {m} : dMsg'[k] = dMsg[k] /\ dAttempt'[k] = dAttempt[k]
        /\ \/ dMsg'[m] = msg[m] /\ dAttempt'[m] = attempt[m]
           \/ dMsg'[m] = dMsg[m] /\ dAttempt'[m] = dAttempt[m]
    BY <1>p, <1>t, PersistSendEffect
  <2> QED BY <1>p, <1>t, <2>1, ConfirmBySaving
<1>1. ASSUME NEW m \in Msgs, NEW o \in Publication, SResend(m, o) PROVE Goal
  <2>1. /\ pcS = "resend" /\ pcS' = "resend" /\ wire \subseteq wire'
        /\ UNCHANGED <<msg, dMsg, dAttempt, op, arg, next, admitted, held>>
        /\ \A f \in wire' : f \in wire \/ (f.kind = "data" /\ f.id = m)
    BY <1>1, RouteSendWire DEF SResend
  <2>2. attempt[m].status = "Sent" /\ \A k \in Msgs \ {m} : attempt'[k] = attempt[k]
    BY <1>1, <1>t DEF SResend, TypeInv, TypeOK, CommandInv, Resendable
  <2>3. m \in Left
    BY <2>1, <2>2 DEF ContractInv, StoreInv, LeftInv, OnWire, Left
  <2>4. Left' = Left
    BY <2>1, <2>3 DEF Left
  <2> QED BY <1>t, <2>1, <2>2, <2>4, ConfirmedInMemory DEF ConfirmedInv
<1>2. ASSUME NEW m \in Msgs, NEW o \in Outcome,
             SFlush(m, o) \/ SDeliver(m, o) \/ SSettled(m, o) \/ STailSend(m, o)
      PROVE  Goal
  BY <1>2, <1>p DEF SFlush, SDeliver, SSettled, STailSend, EndDeliver, Return, Goto
<1>3. ASSUME NEW m \in Msgs, NEW o \in Publication, SPublish(m, o) PROVE Goal
  <2>1. /\ pcS = "publish" /\ pcS' \in {"settled", "idle", "tail"} /\ IsOldest(m, todo)
        /\ UNCHANGED <<dMsg, dAttempt, next, admitted, held>>
        /\ op' \in {"sending", "retry", "retrying"} => op' = op /\ arg' = arg
    BY <1>3, RouteSendWire DEF SPublish, EndDeliver, Return, Goto, store
  <2>2. attempt[m].status = "Queued" /\ m \in admitted
    BY <2>1 DEF ContractInv, StoreInv, OutboxInv, IsOldest, Queued, AcceptInv, AdmittedInv
  <2>3. \A k \in Msgs \ {m} : attempt'[k] = attempt[k] /\ msg'[k] = msg[k]
    BY <1>3, <1>t DEF SPublish, TypeInv, TypeOK
  <2>4. ConfirmedInv' /\ Settled' = Settled
    BY <1>t, <2>1, <2>2, <2>3 DEF ConfirmedInv, Settled
  <2>5. Left' = Left \/ Left' = Left \cup {m}
    <3>1. CASE wire' = wire
      BY <1>w, <3>1
    <3>2. CASE wire' # wire
      <4>1. wire' = wire \cup {[kind |-> "data", id |-> m, gen |-> crypto["S"].next]}
        BY <1>3, <3>2 DEF SPublish, RouteSend
      <4> QED BY <4>1 DEF Left
    <3> QED BY <3>1, <3>2
  <2> QED BY <2>1, <2>2, <2>4, <2>5 DEF Visible, OneConfirmed
<1>4. ASSUME NEW m \in Msgs, NEW o \in Outcome, STailRow(m, o) PROVE Goal
  <2>1. /\ pcS = "rows" /\ pcS' # "activate"
        /\ UNCHANGED <<msg, attempt, admitted, next, wire, held, dAttempt>>
        /\ op' \in {"sending", "retry", "retrying"} => op' = op /\ arg' = arg
    BY <1>4 DEF STailRow, EndTail, Return, Goto
  <2>2. Synced(m)
    BY <2>1 DEF ContractInv, StoreInv, SyncInv, InHand
  <2>3. /\ \A k \in Msgs \ {m} : dMsg'[k] = dMsg[k]
        /\ dMsg'[m] = dMsg[m] \/ dMsg'[m] = msg[m]
    BY <1>4, <1>t DEF STailRow, TypeInv, TypeOK
  <2> QED BY <1>t, <2>1, <2>2, <2>3, ConfirmBySaving
<1>5. ASSUME NEW o \in Outcome, STailState(o) PROVE Goal
  BY <1>5, <1>t, <1>w, ConfirmedInMemory
     DEF STailState, EndTail, Return, Goto, ConfirmedInv
<1>6. ASSUME NEW o \in Outcome, SSendAdmit(o) \/ SRetryAdmit(o) PROVE Goal
  <2>1. /\ Admission(arg, o) /\ arg \in Msgs /\ pcS = "admit" /\ arg' = arg
        /\ pcS' = (IF o = "ok" THEN "activate" ELSE "refuse")
        /\ UNCHANGED <<wire, admitted, held>> /\ op' \in {"sending", "retrying"}
    BY <1>6, <1>t DEF SSendAdmit, SRetryAdmit, Admission, TypeInv, CommandInv
  <2>2. \A k \in Msgs \ {arg} : /\ attempt'[k] = attempt[k] /\ msg'[k] = msg[k]
                                 /\ dAttempt'[k] = dAttempt[k] /\ dMsg'[k] = dMsg[k]
    BY <1>t, <2>1 DEF Admission, TypeInv, TypeOK
  <2>3. dMsg[arg] # "Delivered"
    <3>1. CASE SSendAdmit(o)
      <4>1. arg = next
        BY <1>t, <3>1 DEF SSendAdmit, TypeInv, CommandInv
      <4>2. dMsg[arg] = "Delivered" => arg \in admitted
        BY <2>1 DEF ContractInv, ReceiptInv, AcceptInv, DeliveredWasHeld, HeldInv,
           RefusedNeverPublished
      <4> QED BY <1>t, <1>n, <4>1, <4>2 DEF ConfirmedInv
    <3>2. CASE SRetryAdmit(o)
      BY <1>t, <2>1, <3>2 DEF SRetryAdmit, ConfirmedInv
    <3> QED BY <1>6, <3>1, <3>2
  <2>4. dMsg'[arg] # "Delivered" /\ (o = "ok" => attempt'[arg].status = "Pending")
    BY <1>t, <2>1, <2>3 DEF Admission, TypeInv, TypeOK, Attempt
  <2>5. /\ \A m \in admitted' : m < next'
        /\ op' \in {"sending", "retry", "retrying"} => arg' < next'
    <3>1. CASE SSendAdmit(o)
      <4>1. next' = next + 1 /\ arg = next
        BY <1>t, <3>1 DEF SSendAdmit, TypeInv, CommandInv
      <4>2. \A m \in admitted : m \in Int
        BY <1>t, <1>n DEF TypeInv, TypeOK
      <4> QED BY <1>t, <1>n, <2>1, <4>1, <4>2 DEF ConfirmedInv
    <3>2. CASE SRetryAdmit(o)
      BY <1>t, <2>1, <3>2 DEF SRetryAdmit, ConfirmedInv
    <3> QED BY <1>6, <3>1, <3>2
  <2>6. ConfirmedInv'
    BY <1>t, <2>1, <2>2, <2>4, <2>5 DEF ConfirmedInv
  <2>7. Settled' = Settled /\ Left' = Left
    BY <1>w, <2>1, <2>2, <2>3, <2>4 DEF Settled
  <2> QED BY <2>1, <2>6, <2>7 DEF Visible, OneConfirmed
<1>7. ASSUME NEW o \in Outcome, SRefuse(o) PROVE Goal
  <2>1. arg \in Msgs
    BY <1>7, <1>t DEF SRefuse, TypeInv, CommandInv
  <2> QED BY <1>7, <1>p, <2>1 DEF SRefuse, Return
<1>8. ASSUME NEW o \in Outcome, SActivate(o) PROVE Goal
  <2>0. PICK x \in Msgs : x = arg
    BY <1>8, <1>t DEF SActivate, TypeInv, CommandInv
  <2>1. /\ arg = x /\ pcS = "activate" /\ pcS' = "deliver" /\ admitted' = admitted \cup {x}
        /\ UNCHANGED <<op, arg, next, wire, held>> /\ PersistSend(x, TRUE, o)
    BY <1>8, <2>0 DEF SActivate
  <2>2. /\ \A k \in Msgs \ {x} : attempt'[k] = attempt[k] /\ msg'[k] = msg[k]
        /\ attempt'[x].status = "Queued" /\ msg'[x] = "Queued"
    BY <1>8, <1>t, <2>0 DEF SActivate, TypeInv, TypeOK, Attempt
  <2>3. /\ \A k \in Msgs \ {x} : dMsg'[k] = dMsg[k] /\ dAttempt'[k] = dAttempt[k]
        /\ dMsg'[x] = "Queued" \/ dMsg'[x] = dMsg[x]
    BY <1>t, <2>1, <2>2, PersistSendEffect
  <2>4. dMsg[x] # "Delivered" /\ dMsg'[x] # "Delivered"
    BY <1>t, <2>1, <2>3 DEF ConfirmedInv
  <2>5. x < next
    BY <1>t, <2>1 DEF ConfirmedInv, TypeInv, CommandInv
  <2>6. ConfirmedInv'
    BY <1>t, <2>1, <2>2, <2>3, <2>4, <2>5 DEF ConfirmedInv
  <2>7. Settled' = Settled /\ Left' = Left
    BY <1>w, <2>1, <2>3, <2>4 DEF Settled
  <2> QED BY <2>1, <2>6, <2>7 DEF Visible
<1> QED BY <1>1, <1>2, <1>3, <1>4, <1>5, <1>6, <1>7, <1>8 DEF SEffect

LEMMA ContractStepR ==
  ContractInv /\ (RLocal \/ REffect(Outcome, Publication) \/ RCrash)
    => ConfirmedInv' /\ Visible
<1> SUFFICES ASSUME ContractInv, RLocal \/ REffect(Outcome, Publication) \/ RCrash
             PROVE  ConfirmedInv' /\ Visible
  OBVIOUS
<1>t. TypeInv /\ ConfirmedInv /\ HeldInv
  BY DEF ContractInv, StoreInv, ReceiptInv
<1>g. ASSUME UNCHANGED <<memS, dMsg, dAttempt, admitted, next>>,
             \/ held' = held
             \/ \E m \in Left : held' = held \cup {m},
             wire \subseteq wire', \A g \in wire' : g \in wire \/ g.kind = "ack"
      PROVE  ConfirmedInv' /\ Visible
  <2>1. ConfirmedInv' /\ Settled' = Settled
    BY <1>t, <1>g DEF ConfirmedInv, memS, Settled
  <2>2. Left' = Left
    BY <1>g DEF Left
  <2> QED BY <1>g, <2>1, <2>2 DEF Visible, OneConfirmed
<1>1. ASSUME NEW f \in wire, NEW o \in Publication, RRecvData(f, o)
      PROVE  ConfirmedInv' /\ Visible
  <2>1. f.id \in Left
    BY <1>1, <1>t DEF RRecvData, TypeInv, TypeOK, Frame, Left
  <2>2. held' = held \/ held' = held \cup {f.id}
    BY <1>1 DEF RRecvData
  <2>3. UNCHANGED <<dMsg, dAttempt>> /\ wire \subseteq wire'
        /\ \A g \in wire' : g \in wire \/ g.kind = "ack"
    BY <1>1, RouteSendWire DEF RRecvData, store
  <2>4. UNCHANGED <<memS, admitted, next>>
    BY <1>1 DEF RRecvData
  <2> QED BY <1>g, <2>1, <2>2, <2>3, <2>4
<1>2. CASE ~\E f \in wire, o \in Publication : RRecvData(f, o)
  BY <1>2, <1>g DEF RLocal, REffect, RTick, RRestart, RTailRow, RTailState, RCrash, store
<1> QED BY <1>1, <1>2

LEMMA ContractStep == ContractInv /\ Next => ConfirmedInv' /\ Visible
<1> SUFFICES ASSUME ContractInv, Next PROVE ConfirmedInv' /\ Visible
  OBVIOUS
<1>1. CASE SCrash
  <2>1. /\ pcS' = "off" /\ op' = "service"
        /\ UNCHANGED <<dMsg, dAttempt, admitted, next, held, wire>>
    BY <1>1 DEF SCrash, store
  <2>2. Left' = Left
    BY <2>1 DEF Left
  <2> QED BY <2>1, <2>2, ConfirmedInMemory
<1> QED BY <1>1, ContractLocalS, ContractEffectS, ContractStepR DEF Next

LEMMA ContractNext == ContractInv /\ [Next]_vars => ContractInv'
<1> SUFFICES ASSUME ContractInv, [Next]_vars PROVE ContractInv'
  OBVIOUS
<1>1. StoreInv'
  BY StoreNext DEF ContractInv
<1>2. CASE Next
  <2>1. ConfirmedInv' /\ AdmittedInv' /\ RefusedNeverPublished' /\ HeldInv' /\ DeliveredWasHeld'
    BY <1>2, ContractStep, AcceptNext, ReceiptNext DEF ContractInv
  <2> QED BY <1>1, <2>1 DEF ContractInv, StoreInv, AcceptInv, ReceiptInv
<1>3. CASE UNCHANGED vars
  <2>1. ConfirmedInv'
    BY <1>3 DEF vars, ContractInv, ConfirmedInv
  <2>2. AdmittedInv' /\ RefusedNeverPublished'
    BY <1>3 DEF vars, ContractInv, AcceptInv, AdmittedInv, RefusedNeverPublished
  <2>3. HeldInv' /\ DeliveredWasHeld'
    BY <1>3 DEF vars, ContractInv, ReceiptInv, HeldInv, DeliveredWasHeld
  <2> QED BY <1>1, <2>1, <2>2, <2>3 DEF ContractInv, StoreInv, AcceptInv, ReceiptInv
<1> QED BY <1>2, <1>3

LEMMA ContractInit == Init => ContractInv
<1> SUFFICES ASSUME Init PROVE ContractInv
  OBVIOUS
<1>1. StoreInv /\ TypeInv
  BY StoreInit, TypeInit
<1>2. AcceptInv
  BY <1>1 DEF Init, AcceptInv, AdmittedInv, RefusedNeverPublished, NoAttempt
<1>3. ReceiptInv
  BY <1>1, NodeFacts DEF Init, ReceiptInv, HeldInv, DeliveredWasHeld
<1>4. ConfirmedInv
  BY DEF Init, ConfirmedInv
<1> QED BY <1>1, <1>2, <1>3, <1>4 DEF ContractInv

(* The two runtimes, their stores and the network implement the contract:   *)
(* in every behaviour a text leaves only once a call accepted it, arrives   *)
(* only once it left, and is stored as Delivered only once it arrived, each *)
(* one at a time and none of it ever taken back, by no refused write, retry *)
(* or crash.                                                                *)
THEOREM DeliveryImplementsContract == Spec => ImplementsContract
<1>1. Init => Contract!CInit
  BY DEF Init, Contract!CInit
<1>2. ContractInv /\ [Next]_vars => [Contract!CNext]_(Contract!contractVars)
  <2>1. ContractInv /\ Next => [Contract!CNext]_(Contract!contractVars)
    BY ContractStep, VisibleIsContract DEF ContractInv, StoreInv
  <2>2. UNCHANGED vars => UNCHANGED Contract!contractVars
    BY DEF vars, Contract!contractVars
  <2> QED BY <2>1, <2>2
<1>3. Spec => []ContractInv
  BY ContractInit, ContractNext, PTL DEF Spec
<1> QED BY <1>1, <1>2, <1>3, PTL DEF Spec, ImplementsContract, Contract!CSpec
=============================================================================
