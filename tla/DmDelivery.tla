------------------------------ MODULE DmDelivery ------------------------------
(***************************************************************************)
(* One direction of a private DM between two runtimes after the handshake: *)
(* "S" writes texts, "R" receives them and acknowledges.  The module holds *)
(* the sender's outbox and its write acceptance (outbox.rs, resend.rs,     *)
(* conversation/outbound.rs, conversation/runtime_writes.rs), the          *)
(* receiver's data channel (data.rs), the service tick that drives both    *)
(* (service.rs), the MLS ratchets as far as delivery depends on them, the  *)
(* encrypted store, and process death at every point between two effects.  *)
(*                                                                         *)
(* A command holds the runtime for its whole duration, so a handler is a   *)
(* chain of steps driven by pcS (pcR): each step is one effect that the    *)
(* outside can see (a store transaction, a published frame) together with  *)
(* the memory changes that lead to it.  Only the other runtime, the        *)
(* network and a crash interleave with the chain.                          *)
(*                                                                         *)
(* Simplifications.  Clocks are left out: a deadline may be due at any     *)
(* tick.  The network is the set of all frames ever published; a frame may *)
(* be received at any later time, any number of times, or never, which     *)
(* covers loss, duplication and reordering.  A Hello is not a frame of     *)
(* this set: R's authenticated traffic may reach S at any drain while R    *)
(* runs.  The session carries a device membership, as every session of the *)
(* production runtime does, and no sibling installation has joined it, so  *)
(* devices_live() is false.                                                *)
(***************************************************************************)
EXTENDS Integers, FiniteSets

CONSTANTS
    MaxMsgs,        \* texts the user may write; ids are filing order
    Oversized,      \* texts whose envelope exceeds MAX_PUBLISH_BYTES
    AutoResendMax,  \* AUTO_RESEND_MAX
    MaxGen          \* bound: ciphertexts one runtime's ratchet may produce

Msgs == 1..MaxMsgs
Node == {"S", "R"}

ASSUME ConstantsOK ==
    /\ MaxMsgs \in Nat
    /\ Oversized \subseteq Msgs
    /\ AutoResendMax \in Nat
    /\ MaxGen \in Nat

VARIABLES
    (* S, in memory *)
    pcS, op, arg, todo, \* where the running command stands
    next,           \* the next fresh message id
    msg,            \* delivery_status of the message in the log
    attempt,        \* outbound_attempts
    dirty,          \* dirty_outbound
    pend,           \* PendingWrites.sends: "no", "row" or "deep"
    conn,           \* DmSessionState::Connected
    (* R, in memory *)
    pcR,
    log,            \* inbound messages in the log
    seen,           \* SeenFrames: data frames already routed
    (* both, in memory *)
    tail,           \* rows past History.persisted_counts
    due,            \* PendingWrites.state.extra
    crypto,         \* MLS ratchets: own next generation, spent peer generations
    (* durable *)
    dMsg, dAttempt, \* S: message rows and attempt rows
    rows,           \* R: message rows
    snap,           \* MLS snapshots
    (* the network, and two history variables *)
    wire,
    admitted,       \* texts some send or retry call accepted
    held            \* texts R's runtime ever took into its log

memS == <<pcS, op, arg, todo, msg, attempt, dirty, pend, conn>>
memR == <<pcR, log, seen>>
store == <<dMsg, dAttempt, rows, snap>>
vars == <<pcS, op, arg, todo, next, msg, attempt, dirty, pend, conn, pcR, log,
          seen, tail, due, crypto, dMsg, dAttempt, rows, snap, wire, admitted,
          held>>

-----------------------------------------------------------------------------
(* Types *)

Status == {"None", "Pending", "Queued", "Sent", "Delivered", "Failed"}
Attempt == [status : Status \ {"Delivered"}, resends : 0..AutoResendMax]
NoAttempt == [status |-> "None", resends |-> 0]
Frame == [kind : {"data", "ack"}, id : Msgs, gen : 0..(MaxGen - 1)]
Ratchet == [next : 0..MaxGen, used : SUBSET (0..(MaxGen - 1))]

PcS == {"off", "idle", "recv", "resend", "flush", "deliver", "publish",
        "settled", "tail", "rows", "admit", "refuse", "activate"}
Op == {"service", "send", "retry", "sending", "retrying"}

-----------------------------------------------------------------------------
(* Helpers *)

(* Mutant of IsOldest: no order among the waiting texts. *)
IsAny(m, T) == m \in T

IsOldest(m, T) == m \in T /\ \A k \in T : m <= k

(* The attempts queued_in_order collects; IsOldest picks their head. *)
Queued == {m \in Msgs : attempt[m].status = "Queued"}

Unsaved == {m \in Msgs : pend[m] # "no"}

Saved(n) == [snap EXCEPT ![n] = crypto[n]']

(* Attempts the automatic loop may still publish, whatever their cadence. *)
Resendable ==
    {m \in Msgs : attempt[m].status = "Sent" /\ attempt[m].resends < AutoResendMax}

Exhausted(a) ==
    {m \in Msgs : a[m].status = "Sent" /\ a[m].resends >= AutoResendMax}

(* What a store call may come to.  "uncertain": the caller gets an error    *)
(* for a transaction that is nevertheless on disk.  "state_refused": the    *)
(* row is saved and the session state behind it is not.                     *)
Outcome == {"ok", "refused", "uncertain", "state_refused"}

(* Mutant of PersistSend: the entry is released although the write was      *)
(* refused.                                                                 *)
PersistSendForgotten(m, deep, o) ==
    /\ IF o = "refused"
       THEN UNCHANGED <<dMsg, dAttempt>>
       ELSE /\ dMsg' = [dMsg EXCEPT ![m] = msg'[m]]
            /\ dAttempt' = [dAttempt EXCEPT ![m] = attempt'[m]]
    /\ pend' = [pend EXCEPT ![m] = "no"]
    /\ snap' = Saved("S")
    /\ UNCHANGED <<due, rows>>

(* Mutant of PersistSend: attempt and message row in two transactions, the  *)
(* attempt first.                                                           *)
PersistSendTorn(m, deep, o) ==
    /\ dMsg' = IF o = "ok" THEN [dMsg EXCEPT ![m] = msg'[m]] ELSE dMsg
    /\ dAttempt' = IF o = "refused" THEN dAttempt
                   ELSE [dAttempt EXCEPT ![m] = attempt'[m]]
    /\ pend' = [pend EXCEPT ![m] = IF o = "ok" THEN "no" ELSE "deep"]
    /\ snap' = Saved("S")
    /\ UNCHANGED <<due, rows>>

(* ConversationRuntime::persist_send: register the write, save message and *)
(* attempt in one transaction (no attempt deletes its row), then flush the *)
(* session state if it is due; only a complete success releases the entry. *)
PersistSend(m, deep, o) ==
    LET d == deep \/ pend[m] = "deep"
        flush == d \/ due["S"]
    IN  /\ IF o = "refused"
           THEN UNCHANGED <<dMsg, dAttempt>>
           ELSE /\ dMsg' = [dMsg EXCEPT ![m] = msg'[m]]
                /\ dAttempt' = [dAttempt EXCEPT ![m] = attempt'[m]]
        /\ pend' = [pend EXCEPT ![m] = IF o = "ok" THEN "no"
                                       ELSE IF d THEN "deep" ELSE "row"]
        /\ \/ /\ o = "ok"
              /\ due' = [due EXCEPT !["S"] = FALSE]
              /\ snap' = IF flush THEN Saved("S") ELSE snap
           \/ /\ o \in {"refused", "uncertain"}
              /\ UNCHANGED <<due, snap>>
           \/ /\ o = "state_refused"
              /\ flush
              /\ due' = [due EXCEPT !["S"] = TRUE]
              /\ snap' \in {snap, Saved("S")}
        /\ rows' = rows

(* What becomes of a publication.  "failed": the transport, or the save     *)
(* before it, refuses.  "never": there is nothing to hand over.             *)
Publication == {"sent", "failed", "never"}

(* Mutant of RouteSend: publish first, save the session later. *)
RouteSendUnsaved(n, base, kind, m, o) ==
    /\ (o = "never") <=> (base.next = MaxGen)
    /\ crypto' = [crypto EXCEPT ![n] = IF o = "never" THEN base
                                       ELSE [base EXCEPT !.next = @ + 1]]
    /\ wire' = IF o = "sent"
               THEN wire \cup {[kind |-> kind, id |-> m, gen |-> base.next]}
               ELSE wire
    /\ UNCHANGED <<snap, dMsg, dAttempt, rows>>

(* Encrypt under the own ratchet and hand the frame to route_send, which   *)
(* saves the session (persist_device_crypto) before it publishes.  A       *)
(* refusal on that way leaves the generation spent, the snapshot saved or  *)
(* not, and nothing on the wire.  At the bound MaxGen the encryption       *)
(* itself fails.                                                           *)
RouteSend(n, base, kind, m, o) ==
    /\ (o = "never") <=> (base.next = MaxGen)
    /\ crypto' = [crypto EXCEPT ![n] = IF o = "never" THEN base
                                       ELSE [base EXCEPT !.next = @ + 1]]
    /\ wire' = IF o = "sent"
               THEN wire \cup {[kind |-> kind, id |-> m, gen |-> base.next]}
               ELSE wire
    /\ \/ o # "never" /\ snap' = Saved(n)
       \/ o # "sent" /\ snap' = snap
    /\ UNCHANGED <<dMsg, dAttempt, rows>>

(* resume_exhausted_sends: put every given attempt back in the queue with a *)
(* fresh resend budget and mark it for saving.                              *)
Resume(a, g, X) ==
    /\ attempt' = [m \in Msgs |->
                     IF m \in X THEN [status |-> "Queued", resends |-> 0] ELSE a[m]]
    /\ msg' = [m \in Msgs |-> IF m \in X THEN "Queued" ELSE g[m]]

-----------------------------------------------------------------------------
(* S: a command starts, and takes in what arrived *)

(* The command returns, with or without an error. *)
Return == pcS' = "idle" /\ op' = "service" /\ arg' = 0 /\ todo' = {}

Goto(p, T) == pcS' = p /\ todo' = T /\ UNCHANGED <<op, arg>>

(* service, send_message and retry_message all begin with drain_inbound. *)
SStart(k, m) ==
    /\ pcS = "idle"
    /\ \/ k = "service" /\ m = 0
       \/ k = "send" /\ m = next /\ m \in Msgs
       \/ k = "retry" /\ m \in Msgs /\ m < next
    /\ pcS' = "recv" /\ op' = k /\ arg' = m /\ todo' = {}
    /\ UNCHANGED <<next, msg, attempt, dirty, pend, conn, memR, tail, due,
                   crypto, store, wire, admitted, held>>

(* Mutants of SRecvAck: the receipt is noted in the attempt, which stays;   *)
(* and the attempt outlives the receipt unchanged.                          *)
SRecvAckNoted(f) ==
    /\ pcS = "recv" /\ f \in wire /\ f.kind = "ack"
    /\ f.gen \notin crypto["S"].used
    /\ crypto' = [crypto EXCEPT !["S"].used = @ \cup {f.gen}]
    /\ conn' = TRUE
    /\ msg' = [msg EXCEPT ![f.id] = "Delivered"] /\ dirty' = dirty \cup {f.id}
    /\ attempt' = [attempt EXCEPT ![f.id].status = "Delivered"]
    /\ UNCHANGED <<pcS, op, arg, todo, next, pend, memR, tail, due, store, wire,
                   admitted, held>>

SRecvAckKept(f) ==
    /\ pcS = "recv" /\ f \in wire /\ f.kind = "ack"
    /\ f.gen \notin crypto["S"].used
    /\ crypto' = [crypto EXCEPT !["S"].used = @ \cup {f.gen}]
    /\ conn' = TRUE
    /\ msg' = [msg EXCEPT ![f.id] = "Delivered"] /\ dirty' = dirty \cup {f.id}
    /\ UNCHANGED <<pcS, op, arg, todo, next, attempt, pend, memR, tail, due,
                   store, wire, admitted, held>>

(* accept_delivery_ack: a spent generation does not decrypt and the frame   *)
(* is dropped.  Otherwise the frame proves the peer is there; the attempt   *)
(* it names, if any, is over; and exhausted sends get another round on a    *)
(* change into Connected or on a new receipt.                               *)
SRecvAck(f) ==
    /\ pcS = "recv" /\ f \in wire /\ f.kind = "ack"
    /\ f.gen \notin crypto["S"].used
    /\ crypto' = [crypto EXCEPT !["S"].used = @ \cup {f.gen}]
    /\ conn' = TRUE
    /\ LET open == attempt[f.id].status # "None"
           a == [attempt EXCEPT ![f.id] = NoAttempt]
           g == [msg EXCEPT ![f.id] = IF open THEN "Delivered" ELSE @]
           X == IF open \/ ~conn THEN Exhausted(a) ELSE {}
       IN  /\ Resume(a, g, X)
           /\ dirty' = dirty \cup X \cup (IF open THEN {f.id} ELSE {})
    /\ UNCHANGED <<pcS, op, arg, todo, next, pend, memR, tail, due, store, wire,
                   admitted, held>>

(* A Hello, or any other authenticated frame of a running R. *)
SRecvHello ==
    /\ pcS = "recv" /\ pcR # "off" /\ ~conn
    /\ conn' = TRUE
    /\ Resume(attempt, msg, Exhausted(attempt))
    /\ dirty' = dirty \cup Exhausted(attempt)
    /\ UNCHANGED <<pcS, op, arg, todo, next, pend, memR, tail, due, crypto, store,
                   wire, admitted, held>>

(* The tick: pump_liveness may take Connected away, and the resends whose   *)
(* cadence elapsed are collected.                                           *)
STick(lost, D) ==
    /\ pcS = "recv" /\ D \subseteq Resendable
    /\ conn' = (conn /\ ~lost)
    /\ pcS' = "resend" /\ todo' = D
    /\ UNCHANGED <<op, arg, next, msg, attempt, dirty, pend, memR, tail, due,
                   crypto, store, wire, admitted, held>>

(* pump_unacked_resends, one due message: a fresh ciphertext of the same   *)
(* id; only transport acceptance burns a slot, and the row is marked for   *)
(* saving either way.                                                      *)
SResend(m, o) ==
    /\ pcS = "resend" /\ m \in todo
    /\ RouteSend("S", crypto["S"], "data", m, o)
    /\ attempt' = [attempt EXCEPT ![m].resends = IF o = "sent" THEN @ + 1 ELSE @]
    /\ todo' = todo \ {m} /\ dirty' = dirty \cup {m}
    /\ UNCHANGED <<pcS, op, arg, next, msg, pend, conn, memR, tail, due,
                   admitted, held>>

(* Take the ids whose state changed; the tick saves them one by one. *)
STakeDirty ==
    /\ pcS = "resend" /\ todo = {}
    /\ pcS' = "flush" /\ todo' = dirty /\ dirty' = {}
    /\ UNCHANGED <<op, arg, next, msg, attempt, pend, conn, memR, tail, due,
                   crypto, store, wire, admitted, held>>

SFlush(m, o) ==
    /\ pcS = "flush" /\ m \in todo
    /\ todo' = todo \ {m}
    /\ UNCHANGED <<pcS, op, arg, next, msg, attempt, dirty, conn, memR, tail,
                   crypto, wire, admitted, held>>
    /\ PersistSend(m, FALSE, o)

-----------------------------------------------------------------------------
(* S: deliver_queued *)

(* Where a command goes once its outbox turn is over: a retry reports back, *)
(* everything else ends with persist_tail.                                  *)
EndDeliver ==
    IF op = "retrying" THEN Return ELSE Goto("tail", {m \in Msgs : pend'[m] # "no"})

SStartDeliver ==
    /\ pcS = "flush" /\ todo = {}
    /\ pcS' = "deliver" /\ todo' = Queued
    /\ UNCHANGED <<op, arg, next, msg, attempt, dirty, pend, conn, memR, tail,
                   due, crypto, store, wire, admitted, held>>

(* Mutant of SDeliver: a refused write does not stop the publication. *)
SDeliverAnyway(m, o) ==
    /\ pcS = "deliver" /\ IsOldest(m, todo)
    /\ UNCHANGED <<next, msg, attempt, dirty, conn, memR, tail, crypto, wire,
                   admitted, held>>
    /\ PersistSend(m, TRUE, o)
    /\ Goto("publish", todo)

(* The admitted row must be on disk before the text may leave; a refusal    *)
(* ends the whole turn.                                                     *)
SDeliver(m, o) ==
    /\ pcS = "deliver" /\ IsOldest(m, todo)
    /\ UNCHANGED <<next, msg, attempt, dirty, conn, memR, tail, crypto, wire,
                   admitted, held>>
    /\ PersistSend(m, TRUE, o)
    /\ IF o = "ok" THEN Goto("publish", todo) ELSE EndDeliver

(* Mutant of SPublish: a text that can never fit is left in the queue. *)
SPublishStuck(m, o) ==
    /\ pcS = "publish" /\ IsOldest(m, todo)
    /\ UNCHANGED <<next, dirty, pend, conn, memR, tail, due, admitted, held>>
    /\ IF m \notin Oversized
       THEN RouteSend("S", crypto["S"], "data", m, o)
       ELSE o = "never" /\ UNCHANGED <<crypto, wire, store>>
    /\ IF o = "sent"
       THEN /\ attempt' = [attempt EXCEPT ![m].status = "Sent"]
            /\ msg' = [msg EXCEPT ![m] = "Sent"]
            /\ Goto("settled", todo)
       ELSE UNCHANGED <<attempt, msg>> /\ EndDeliver

(* publish_queued: Sent once the transport took the frame; a text that can  *)
(* never fit is failed; any other refusal leaves it Queued and ends the     *)
(* turn.                                                                    *)
SPublish(m, o) ==
    /\ pcS = "publish" /\ IsOldest(m, todo)
    /\ UNCHANGED <<next, dirty, pend, conn, memR, tail, due, admitted, held>>
    /\ \/ /\ m \in Oversized /\ o = "never"
          /\ crypto' = [crypto EXCEPT !["S"].next = IF @ < MaxGen THEN @ + 1 ELSE @]
          /\ attempt' = [attempt EXCEPT ![m].status = "Failed"]
          /\ msg' = [msg EXCEPT ![m] = "Failed"]
          /\ Goto("settled", todo) /\ UNCHANGED <<store, wire>>
       \/ /\ m \notin Oversized
          /\ RouteSend("S", crypto["S"], "data", m, o)
          /\ IF o = "sent"
             THEN /\ attempt' = [attempt EXCEPT ![m].status = "Sent"]
                  /\ msg' = [msg EXCEPT ![m] = "Sent"]
                  /\ Goto("settled", todo)
             ELSE UNCHANGED <<attempt, msg>> /\ EndDeliver

(* The outcome is saved; a refusal ends the turn, the write stays pending. *)
SSettled(m, o) ==
    /\ pcS = "settled" /\ IsOldest(m, todo)
    /\ UNCHANGED <<next, msg, attempt, dirty, conn, memR, tail, crypto, wire,
                   admitted, held>>
    /\ PersistSend(m, TRUE, o)
    /\ IF o = "ok" THEN Goto("deliver", todo \ {m}) ELSE EndDeliver

SEndDeliver ==
    /\ pcS = "deliver" /\ todo = {}
    /\ UNCHANGED <<next, msg, attempt, dirty, pend, conn, memR, tail,
                   due, crypto, store, wire, admitted, held>>
    /\ EndDeliver

-----------------------------------------------------------------------------
(* S: persist_tail *)

(* After the tail a service pass or a send is over; a send or retry whose   *)
(* opening drain this was goes on to admission.                             *)
EndTail == IF op \in {"send", "retry"} THEN Goto("admit", {}) ELSE Return

STailSend(m, o) ==
    /\ pcS = "tail" /\ m \in todo
    /\ todo' = todo \ {m}
    /\ UNCHANGED <<pcS, op, arg, next, msg, attempt, dirty, conn, memR, tail,
                   crypto, wire, admitted, held>>
    /\ PersistSend(m, FALSE, o)

(* One refused send keeps the session's tail back until a later pass. *)
SEndTailSends ==
    /\ pcS = "tail" /\ todo = {}
    /\ IF Unsaved = {} THEN Goto("rows", {}) ELSE EndTail
    /\ UNCHANGED <<next, msg, attempt, dirty, pend, conn, memR, tail,
                   due, crypto, store, wire, admitted, held>>

(* write_tail appends the next row; the pass that appended the last one     *)
(* asks for the session state to be saved too.                              *)
STailRow(m, o) ==
    /\ pcS = "rows" /\ IsOldest(m, tail["S"]) /\ o \in {"ok", "refused", "uncertain"}
    /\ dMsg' = IF o = "refused" THEN dMsg ELSE [dMsg EXCEPT ![m] = msg[m]]
    /\ IF o = "ok"
       THEN /\ tail' = [tail EXCEPT !["S"] = @ \ {m}]
            /\ due' = [due EXCEPT !["S"] = @ \/ tail["S"] = {m}]
            /\ Goto("rows", {})
       ELSE UNCHANGED <<tail, due>> /\ EndTail
    /\ UNCHANGED <<next, msg, attempt, dirty, pend, conn, memR, crypto,
                   dAttempt, rows, snap, wire, admitted, held>>

(* flush_state *)
STailState(o) ==
    /\ pcS = "rows" /\ tail["S"] = {} /\ o \in {"ok", "refused", "uncertain"}
    /\ due["S"] \/ o = "ok"
    /\ snap' = IF due["S"] /\ o # "refused"
               THEN [snap EXCEPT !["S"] = crypto["S"]] ELSE snap
    /\ due' = [due EXCEPT !["S"] = @ /\ o # "ok"]
    /\ EndTail
    /\ UNCHANGED <<next, msg, attempt, dirty, pend, conn, memR, tail,
                   crypto, dMsg, dAttempt, rows, wire, admitted, held>>

-----------------------------------------------------------------------------
(* S: admission of a new text, and of a retry *)

(* file_text or reopen puts the text at Pending in memory, and             *)
(* persist_admission tries to save just that.  A refusal settles it Failed *)
(* at once, even if the transaction landed.                                *)
Admission(m, o) ==
    /\ dMsg' = IF o = "refused" THEN dMsg ELSE [dMsg EXCEPT ![m] = "Pending"]
    /\ LET a == [attempt[m] EXCEPT !.status = "Pending"]
       IN  /\ dAttempt' = IF o = "refused" THEN dAttempt ELSE [dAttempt EXCEPT ![m] = a]
           /\ attempt' = [attempt EXCEPT ![m] = IF o = "ok" THEN a
                                                ELSE [a EXCEPT !.status = "Failed"]]
    /\ msg' = [msg EXCEPT ![m] = IF o = "ok" THEN "Pending" ELSE "Failed"]
    /\ pcS' = IF o = "ok" THEN "activate" ELSE "refuse"
    /\ UNCHANGED <<arg, todo, dirty, pend, conn, memR, due, crypto, rows, snap,
                   wire, admitted, held>>

SSendAdmit(o) ==
    /\ pcS = "admit" /\ op = "send" /\ o \in {"ok", "refused", "uncertain"}
    /\ op' = "sending" /\ next' = next + 1
    /\ tail' = [tail EXCEPT !["S"] = @ \cup {arg}]
    /\ Admission(arg, o)

(* Only an attempt that was sent or failed is reopened. *)
SRetryAdmit(o) ==
    /\ pcS = "admit" /\ op = "retry" /\ o \in {"ok", "refused", "uncertain"}
    /\ attempt[arg].status \in {"Sent", "Failed"}
    /\ op' = "retrying" /\ UNCHANGED <<next, tail>>
    /\ Admission(arg, o)

(* A queued or pending text is reported as it stands, a settled one is an   *)
(* error: neither changes anything.                                         *)
SRetryNothing ==
    /\ pcS = "admit" /\ op = "retry"
    /\ attempt[arg].status \notin {"Sent", "Failed"}
    /\ Return
    /\ UNCHANGED <<next, msg, attempt, dirty, pend, conn, memR, tail, due,
                   crypto, store, wire, admitted, held>>

(* The refusal itself is saved if the store lets it; the caller gets the    *)
(* error.                                                                   *)
SRefuse(o) ==
    /\ pcS = "refuse"
    /\ Return
    /\ UNCHANGED <<next, msg, attempt, dirty, conn, memR, tail,
                   crypto, wire, admitted, held>>
    /\ PersistSend(arg, TRUE, o)

(* activate_queue: accepted, and now the outbox may publish it.  A refusal  *)
(* of this write is only logged.                                            *)
SActivate(o) ==
    /\ pcS = "activate"
    /\ attempt' = [attempt EXCEPT ![arg].status = "Queued"]
    /\ msg' = [msg EXCEPT ![arg] = "Queued"]
    /\ admitted' = admitted \cup {arg}
    /\ pcS' = "deliver"
    /\ todo' = {m \in Msgs : attempt'[m].status = "Queued"}
    /\ UNCHANGED <<op, arg, next, dirty, conn, memR, tail, crypto, wire, held>>
    /\ PersistSend(arg, TRUE, o)

-----------------------------------------------------------------------------
(* S: process death and rehydrate *)

SCrash ==
    /\ pcS # "off"
    /\ pcS' = "off"
    /\ op' = "service" /\ arg' = 0 /\ todo' = {}
    /\ msg' = [m \in Msgs |-> "None"] /\ attempt' = [m \in Msgs |-> NoAttempt]
    /\ dirty' = {} /\ pend' = [m \in Msgs |-> "no"] /\ conn' = FALSE
    /\ tail' = [tail EXCEPT !["S"] = {}] /\ due' = [due EXCEPT !["S"] = FALSE]
    /\ crypto' = [crypto EXCEPT !["S"] = snap["S"]]
    /\ UNCHANGED <<next, memR, store, wire, admitted, held>>

(* Mutant of ReplayAttempt: an interrupted admission is taken as accepted. *)
ReplayAttemptQueued(m) ==
    IF dAttempt[m].status = "Pending"
    THEN [dAttempt[m] EXCEPT !.status = "Queued"] ELSE dAttempt[m]

(* History.replay: an attempt found Pending was interrupted and comes back  *)
(* Failed; a message takes its status from its attempt where there is one,  *)
(* and a Pending message without one is failed for good.                    *)
ReplayAttempt(m) ==
    IF dAttempt[m].status = "Pending"
    THEN [dAttempt[m] EXCEPT !.status = "Failed"] ELSE dAttempt[m]

ReplayMessage(m) ==
    IF ReplayAttempt(m).status # "None" THEN ReplayAttempt(m).status
    ELSE IF dMsg[m] = "Pending" THEN "Failed" ELSE dMsg[m]

SRestart ==
    /\ pcS = "off"
    /\ pcS' = "idle"
    /\ attempt' = [m \in Msgs |-> ReplayAttempt(m)]
    /\ msg' = [m \in Msgs |-> ReplayMessage(m)]
    /\ UNCHANGED <<op, arg, todo, next, dirty, pend, conn, memR, tail, due,
                   crypto, store, wire, admitted, held>>

-----------------------------------------------------------------------------
(* R: the data channel, the end of its tick, and process death *)

(* Mutant of HasInboundMessage: every id is acknowledged.                   *)
HasAnyMessage(m) == m \in Msgs

(* handle_data.  A frame already routed is ignored.  A text R holds is      *)
(* acknowledged again without decrypting; a spent generation does not       *)
(* decrypt and the frame is dropped; a new text goes into the log and is    *)
(* acknowledged at once, before its row is saved.                           *)
HasInboundMessage(m) == m \in log
HoldsCopyOf(m) == m \in log

RRecvData(f, o) ==
    /\ pcR = "recv" /\ f \in wire /\ f.kind = "data" /\ f \notin seen
    /\ seen' = seen \cup {f}
    /\ \/ /\ HasInboundMessage(f.id)
          /\ RouteSend("R", crypto["R"], "ack", f.id, o)
          /\ UNCHANGED <<log, tail, held>>
       \/ /\ ~HasInboundMessage(f.id) /\ o = "never"
          /\ f.gen \in crypto["R"].used \/ HoldsCopyOf(f.id)
          /\ crypto' = [crypto EXCEPT !["R"].used = @ \cup {f.gen}]
          /\ UNCHANGED <<log, tail, held, wire, store>>
       \/ /\ ~HasInboundMessage(f.id)
          /\ f.gen \notin crypto["R"].used /\ ~HoldsCopyOf(f.id)
          /\ log' = log \cup {f.id} /\ held' = held \cup {f.id}
          /\ tail' = [tail EXCEPT !["R"] = @ \cup {f.id}]
          /\ RouteSend("R", [crypto["R"] EXCEPT !.used = @ \cup {f.gen}],
                       "ack", f.id, o)
    /\ UNCHANGED <<memS, pcR, next, due, admitted>>

(* The drain is over and the tick reaches persist_tail. *)
RTick ==
    /\ pcR = "recv" /\ (tail["R"] # {} \/ due["R"])
    /\ pcR' = "rows"
    /\ UNCHANGED <<memS, next, log, seen, tail, due, crypto, store, wire,
                   admitted, held>>

RTailRow(m, o) ==
    /\ pcR = "rows" /\ m \in tail["R"] /\ o \in {"ok", "refused", "uncertain"}
    /\ rows' = IF o = "refused" THEN rows ELSE rows \cup {m}
    /\ IF o = "ok"
       THEN /\ tail' = [tail EXCEPT !["R"] = @ \ {m}]
            /\ due' = [due EXCEPT !["R"] = @ \/ tail["R"] = {m}]
            /\ pcR' = pcR
       ELSE pcR' = "recv" /\ UNCHANGED <<tail, due>>
    /\ UNCHANGED <<memS, next, log, seen, crypto, dMsg, dAttempt, snap, wire,
                   admitted, held>>

RTailState(o) ==
    /\ pcR = "rows" /\ tail["R"] = {} /\ o \in {"ok", "refused", "uncertain"}
    /\ snap' = IF o = "refused" THEN snap ELSE [snap EXCEPT !["R"] = crypto["R"]]
    /\ due' = [due EXCEPT !["R"] = o # "ok"]
    /\ pcR' = "recv"
    /\ UNCHANGED <<memS, next, log, seen, tail, crypto, dMsg, dAttempt, rows,
                   wire, admitted, held>>

RCrash ==
    /\ pcR # "off"
    /\ pcR' = "off" /\ log' = {} /\ seen' = {}
    /\ tail' = [tail EXCEPT !["R"] = {}] /\ due' = [due EXCEPT !["R"] = FALSE]
    /\ crypto' = [crypto EXCEPT !["R"] = snap["R"]]
    /\ UNCHANGED <<memS, next, store, wire, admitted, held>>

RRestart ==
    /\ pcR = "off"
    /\ pcR' = "recv" /\ log' = rows
    /\ UNCHANGED <<memS, next, seen, tail, due, crypto, store, wire, admitted, held>>

-----------------------------------------------------------------------------
(* The specification *)

Init ==
    /\ pcS = "idle" /\ op = "service" /\ arg = 0 /\ todo = {} /\ next = 1
    /\ msg = [m \in Msgs |-> "None"] /\ attempt = [m \in Msgs |-> NoAttempt]
    /\ dirty = {} /\ pend = [m \in Msgs |-> "no"] /\ conn = TRUE
    /\ pcR = "recv" /\ log = {} /\ seen = {}
    /\ tail = [n \in Node |-> {}] /\ due = [n \in Node |-> FALSE]
    /\ crypto = [n \in Node |-> [next |-> 0, used |-> {}]]
    /\ dMsg = msg /\ dAttempt = attempt /\ rows = {} /\ snap = crypto
    /\ wire = {} /\ admitted = {} /\ held = {}

(* Steps without a store call or a publication. *)
SLocal ==
    \/ \E m \in Msgs \cup {0}, k \in {"service", "send", "retry"} : SStart(k, m)
    \/ \E f \in wire : SRecvAck(f)
    \/ SRecvHello
    \/ \E lost \in BOOLEAN, D \in SUBSET Resendable : STick(lost, D)
    \/ STakeDirty
    \/ SStartDeliver
    \/ SEndDeliver
    \/ SEndTailSends
    \/ SRetryNothing
    \/ SRestart

(* Steps with one, ending in a member of W or of P. *)
SEffect(W, P) ==
    \/ \E m \in Msgs, o \in P : SResend(m, o)
    \/ \E m \in Msgs, o \in W : SFlush(m, o)
    \/ \E m \in Msgs, o \in W : SDeliver(m, o)
    \/ \E m \in Msgs, o \in P : SPublish(m, o)
    \/ \E m \in Msgs, o \in W : SSettled(m, o)
    \/ \E m \in Msgs, o \in W : STailSend(m, o)
    \/ \E m \in Msgs, o \in W : STailRow(m, o)
    \/ \E o \in W : STailState(o)
    \/ \E o \in W : SSendAdmit(o)
    \/ \E o \in W : SRetryAdmit(o)
    \/ \E o \in W : SRefuse(o)
    \/ \E o \in W : SActivate(o)

RLocal == RTick \/ RRestart

REffect(W, P) ==
    \/ \E f \in wire, o \in P : RRecvData(f, o)
    \/ \E m \in Msgs, o \in W : RTailRow(m, o)
    \/ \E o \in W : RTailState(o)

Next ==
    \/ SLocal
    \/ RLocal
    \/ SEffect(Outcome, Publication)
    \/ REffect(Outcome, Publication)
    \/ SCrash
    \/ RCrash

Spec == Init /\ [][Next]_vars

-----------------------------------------------------------------------------
(* Properties *)

(* The variables hold what the runtimes can hold; in particular an attempt  *)
(* never counts more automatic resends than AUTO_RESEND_MAX, and there is   *)
(* none for a message that was delivered.                                   *)
TypeOK ==
    /\ pcS \in PcS /\ op \in Op /\ arg \in Msgs \cup {0} /\ todo \subseteq Msgs
    /\ next \in 1..(MaxMsgs + 1)
    /\ msg \in [Msgs -> Status] /\ attempt \in [Msgs -> Attempt]
    /\ dirty \subseteq Msgs /\ pend \in [Msgs -> {"no", "row", "deep"}]
    /\ conn \in BOOLEAN
    /\ pcR \in {"off", "recv", "rows"} /\ log \subseteq Msgs /\ seen \subseteq Frame
    /\ tail \in [Node -> SUBSET Msgs] /\ due \in [Node -> BOOLEAN]
    /\ crypto \in [Node -> Ratchet] /\ snap \in [Node -> Ratchet]
    /\ dMsg \in [Msgs -> Status] /\ dAttempt \in [Msgs -> Attempt]
    /\ rows \subseteq Msgs
    /\ wire \subseteq Frame /\ admitted \subseteq Msgs /\ held \subseteq Msgs

(* A text whose every send and retry call answered with an error is never   *)
(* published: not by the repair of the refused write, not by a later tick,  *)
(* and not after a restart that finds the refused transaction on disk.      *)
RefusedNeverPublished ==
    \A f \in wire : f.kind = "data" => f.id \in admitted

(* Once a text has left, its sender's store never forgets it: there is an   *)
(* attempt row to resume from until the row itself says Delivered, whatever *)
(* write is refused and wherever the process dies (commit_send is atomic).  *)
PublishedStaysKnown ==
    \A f \in wire : f.kind = "data" =>
        \/ dAttempt[f.id].status # "None" /\ dMsg[f.id] # "None"
        \/ dMsg[f.id] = "Delivered"

(* At the moment a text leaves, a crash would bring it back as one the      *)
(* outbox goes on delivering, never as Failed or unknown (deliver_queued    *)
(* saves before it publishes).                                              *)
PublishedIsRecoverable ==
    [][\A f \in wire' \ wire : f.kind = "data" =>
            ReplayAttempt(f.id).status \in {"Queued", "Sent"}]_vars

(* No overtaking: when a text leaves for the first time, no older text is   *)
(* still waiting in the queue (a refusal ends the whole outbox turn).       *)
NoOvertaking ==
    [][\A f \in wire' \ wire :
         (f.kind = "data" /\ ~\E g \in wire : g.kind = "data" /\ g.id = f.id)
            => \A k \in Msgs : k < f.id => attempt[k].status # "Queued"]_vars

(* Delivered is only ever shown, or stored, for a text that the receiving   *)
(* runtime did take into its log (handle_data acknowledges no other).       *)
DeliveredWasHeld ==
    \A m \in Msgs : (msg[m] = "Delivered" \/ dMsg[m] = "Delivered") => m \in held

Author(f) == IF f.kind = "data" THEN "S" ELSE "R"

(* Every generation that went out is behind the saved ratchet of its        *)
(* author, so no restart makes an author encrypt twice under one generation *)
(* (route_send saves the session before it publishes).                      *)
GenerationsNeverReused ==
    \A f \in wire : f.gen < snap[Author(f)].next

(* Between commands, a message whose delivery state differs from what a     *)
(* restart would bring back is registered for saving, in the pending writes *)
(* or the dirty list: no outcome is silently left in memory only.           *)
RestartLosesNothingSettled ==
    pcS = "idle" => \A m \in Msgs \ (Unsaved \cup dirty) :
        attempt[m] = ReplayAttempt(m) /\ msg[m] = ReplayMessage(m)

(* The whole protocol keeps the promise stated in DmContract. *)
Contract == INSTANCE DmContract WITH
    Text <- Msgs,
    accepted <- admitted,
    published <- {m \in Msgs : \E f \in wire : f.kind = "data" /\ f.id = m},
    received <- held,
    confirmed <- {m \in Msgs : dMsg[m] = "Delivered"}

(* Every step is a step of the contract or invisible to it: a text leaves   *)
(* only once accepted, arrives only once it left, and is stored as          *)
(* Delivered, for good, only once it arrived.                               *)
ImplementsContract == Contract!CSpec

(* What makes the properties above inductive.  A started command knows its  *)
(* text, and what the automatic loop collected is still due;                *)
CommandInv ==
    /\ pcS = "resend" => todo \subseteq Resendable
    /\ op # "service" => arg \in Msgs
    /\ op = "send" => arg = next
    /\ pcS \in {"admit", "refuse", "activate"} => op # "service"

(* a saved ratchet is never ahead of the running one;                       *)
RatchetInv == \A n \in Node : snap[n].next <= crypto[n].next

(* whatever the outbox or the resend loop may still publish was accepted,   *)
(* in memory and in what a restart reads;                                   *)
AdmittedInv ==
    /\ \A m \in Msgs : attempt[m].status \in {"Queued", "Sent"} => m \in admitted
    /\ \A m \in Msgs : dAttempt[m].status \in {"Queued", "Sent"} => m \in admitted
    /\ pcS \in {"deliver", "publish", "settled"} => todo \subseteq admitted

(* and R holds, stores and acknowledges only what it once took in, which    *)
(* was published.                                                           *)
HeldInv ==
    /\ log \subseteq held /\ rows \subseteq held /\ tail["R"] \subseteq held
    /\ \A f \in wire : f.kind = "ack" => f.id \in held
    /\ \A m \in held : \E f \in wire : f.kind = "data" /\ f.id = m
=============================================================================
