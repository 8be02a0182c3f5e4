------------------------------- MODULE Calls -------------------------------
(***************************************************************************)
(* Voice and video call signalling of one private DM whose two users each  *)
(* have one or more linked devices                                         *)
(* (mosh-core/src/private_dm_runtime/calls.rs and calls/).                 *)
(*                                                                         *)
(* Every device runs the same session: it may hold one call, it keeps a    *)
(* persisted book (its own control sequence, the newest sequence taken     *)
(* from each signer, the closed calls), a volatile map of the calls its    *)
(* user's other devices hold, and terminal controls it repeats.  A control *)
(* is an MLS message to every other device; it may be lost, overtaken or   *)
(* arrive late, but MLS decrypts it at most once.  Controls are therefore  *)
(* kept for ever in `sent`, and a control that is never taken in is lost.  *)
(*                                                                         *)
(* Time is abstract: ring deadlines, the native engine's 15 s failure and  *)
(* leases may strike at any moment.  A handler is an operator from the     *)
(* device's state to its next state; `ok` says whether its publication     *)
(* was sent, and the record saved.                                         *)
(***************************************************************************)
EXTENDS Naturals, FiniteSets, Sequences, SequencesExt, Functions

CONSTANTS
    Device,         \* MLS signers of the DM's devices
    UserOf,         \* Device -> its user
    Rank,           \* Device -> its place in the order of signer keys
    None,           \* no call, no device, no reservation
    ClosedCap,      \* closed calls a book remembers (512 in the code)
    MaxReservations,\* devices with a reservation (64 in the code)
    MaxEnds,        \* terminal controls repeated at a time (32 in the code)
    MaxCalls,       \* bound: calls a device starts
    Plans           \* bounds: the environments to explore, see PlanType

AllOutcomes == {"sent", "unsent", "refused"}

(* An environment: the devices in the DM and the media protocol of each,   *)
(* whose users call, hang up or decline, which devices restart or may be   *)
(* removed, what a publication may meet, whether another DM of a device    *)
(* may hold a call, whose repeat timers come round, and how many controls  *)
(* each device may publish.                                                *)
PlanType ==
    [present : SUBSET Device, engine : [Device -> Nat],
     callers : SUBSET Device, enders : SUBSET Device,
     crashers : SUBSET Device, removable : SUBSET Device,
     outcomes : SUBSET AllOutcomes, elsewhere : SUBSET BOOLEAN,
     repeaters : SUBSET Device, maxSeq : [Device -> Nat]]

ASSUME CallsAssumption ==
    /\ IsFiniteSet(Device) /\ None \notin Device
    /\ DOMAIN UserOf = Device /\ Rank \in [Device -> Nat]
    /\ \A d, e \in Device : Rank[d] = Rank[e] => d = e
    /\ ClosedCap \in Nat \ {0} /\ MaxReservations \in Nat \ {0}
    /\ MaxEnds \in Nat \ {0} /\ MaxCalls \in Nat
    /\ Plans \subseteq PlanType

VARIABLES
    plan,   \* the environment, chosen at the start
    dev,    \* Device -> the session's memory
    disk,   \* Device -> the part of it in the saved session record
    sent,   \* every control ever handed to the network
    past    \* Device -> history: calls served, given up, heard to have ended

vars == <<plan, dev, disk, sent, past>>

-----------------------------------------------------------------------------
(* Call state, protocol book, occupancy                                    *)

(* The id is a random token; a fresh one is named by who drew it.          *)
CallIds == Device \X (1 .. MaxCalls)

Phases == {"outgoing", "ringing", "accepting", "active"}

Call == [id : CallIds, dir : {"caller", "callee"}, phase : Phases,
         caller : Device, sel : Device \cup {None},
         merged : CallIds \cup {None}, refused : BOOLEAN]

Outgoing(id, d) ==
    [id |-> id, dir |-> "caller", phase |-> "outgoing", caller |-> d,
     sel |-> None, merged |-> None, refused |-> FALSE]

Ringing(id, d) ==
    [id |-> id, dir |-> "callee", phase |-> "ringing", caller |-> d,
     sel |-> None, merged |-> None, refused |-> FALSE]

MatchesId(call, id) == call # None /\ id \in {call.id, call.merged}

Holds(s, id) == s.call # None /\ s.call.id = id

Closed(s, id) == \E c \in Range(s.closed) : c.id = id

ConfirmedClosed(s, id) == \E c \in Range(s.closed) : c.id = id /\ c.confirmed

(* The entry x of a book, once call id was closed again.                   *)
Confirm(x, id, confirmed) ==
    IF x.id = id THEN [x EXCEPT !.confirmed = @ \/ confirmed] ELSE x

(* Mutant: the oldest closed call is never dropped.                        *)
CloseUnbounded(s, id, confirmed) ==
    [s EXCEPT !.closed =
        IF Closed(s, id)
        THEN [i \in DOMAIN @ |-> Confirm(@[i], id, confirmed)]
        ELSE Append(@, [id |-> id, confirmed |-> confirmed])]

(* CallProtocolBook::close: confirmation only ever grows; the oldest entry *)
(* makes room for a new one.                                               *)
Close(s, id, confirmed) ==
    [s EXCEPT !.closed =
        IF Closed(s, id)
        THEN [i \in DOMAIN @ |-> Confirm(@[i], id, confirmed)]
        ELSE Append(IF Len(@) = ClosedCap THEN Tail(@) ELSE @,
                    [id |-> id, confirmed |-> confirmed])]

(* CallProtocolBook::receive: is this sequence new from its signer?        *)
Fresh(s, c) == c.seq > s.got[c.from]

Receive(s, c) == IF Fresh(s, c) THEN [s EXCEPT !.got[c.from] = c.seq] ELSE s

Reserved(s) == {e \in Device : s.occ[e] # None}

(* CallOccupancy::calls                                                    *)
OccupiedCalls(s) == {s.occ[e].id : e \in Reserved(s)}

(* CallOccupancy::selected                                                 *)
SelectedElsewhere(s, id) ==
    \E e \in Reserved(s) : s.occ[e].id = id /\ s.occ[e].receiver # None

Reserve(s, e, id, caller, receiver) ==
    IF e \notin Reserved(s) /\ Cardinality(Reserved(s)) >= MaxReservations
    THEN s
    ELSE [s EXCEPT !.occ[e] =
             [id |-> id, caller |-> caller, receiver |-> receiver]]

Release(s, e, id) ==
    IF e \in Reserved(s) /\ s.occ[e].id = id
    THEN [s EXCEPT !.occ[e] = None] ELSE s

ForgetOffer(s, id) ==
    IF s.adm # None /\ s.adm.id = id THEN [s EXCEPT !.adm = None] ELSE s

(* CallOccupancy::finish                                                   *)
FinishOccupancy(s, id, confirmed) ==
    LET freed == [s EXCEPT !.occ =
                     [e \in Device |-> IF e \in Reserved(s) /\ @[e].id = id
                                       THEN None ELSE @[e]]]
    IN  IF confirmed THEN ForgetOffer(freed, id) ELSE freed

(* CallOccupancy::receive_end                                              *)
ReceiveEnd(s, sender, id) ==
    LET t == IF s.adm # None /\ s.adm.caller = sender
             THEN ForgetOffer(s, id) ELSE s
    IN  [t EXCEPT !.occ =
            [e \in Device |->
                IF /\ e \in Reserved(s) /\ @[e].id = id
                   /\ sender \in {@[e].caller, @[e].receiver}
                THEN None ELSE @[e]]]

(* CallOccupancy::reserve_selected, as observe_call_selection calls it:    *)
(* only for an own device, the admitted offer, and no other live claim.    *)
ObserveSelection(s, d, c) ==
    LET e == c.receiver
        live == e \in Reserved(s)
    IN  IF /\ UserOf[e] = UserOf[d]
           /\ s.adm = [id |-> c.id, caller |-> c.from]
           /\ live => s.occ[e].id = c.id /\ s.occ[e].caller = c.from
        THEN Reserve(s, e, c.id, c.from, e)
        ELSE s

(* authoritative_call_end: who may end a call for good, judged by the held *)
(* call, else by what is known of it, else by the control's own claim.     *)
AuthoritativeEnd(s, c) ==
    /\ c.act = "end"
    /\ LET known == {e \in Reserved(s) : s.occ[e].id = c.id}
       IN  IF MatchesId(s.call, c.id)
           THEN c.from \in {s.call.caller, s.call.sel}
           ELSE IF known = {} THEN c.caller = c.from
           ELSE \E e \in known :
                    c.from \in {s.occ[e].caller, s.occ[e].receiver}

(* CallEndRetries::remember: one terminal control per call, the oldest     *)
(* makes room for a new one.                                               *)
Remember(s, id, act, reason) ==
    LET same == {i \in DOMAIN s.ends : s.ends[i].id = id}
        others == IF same = {} THEN s.ends
                  ELSE RemoveAt(s.ends, CHOOSE i \in same : TRUE)
        room == IF Len(others) = MaxEnds THEN Tail(others) ELSE others
    IN  [s EXCEPT !.ends = Append(room,
            [id |-> id, act |-> act, reason |-> reason,
             caller |-> IF act = "end" THEN s.call.caller ELSE None])]

(* finish_call: closes the call and the one it merged, frees its           *)
(* reservations and appends one call event to the history.                 *)
FinishCall(s) ==
    LET c == s.call
        confirmed == \/ c.dir = "caller" \/ c.phase = "active"
                     \/ ConfirmedClosed(s, c.id)
        first == Close(s, c.id, confirmed)
        both == IF c.merged = None THEN first
                ELSE Close(first, c.merged, confirmed)
    IN  [FinishOccupancy(both, c.id, confirmed) EXCEPT
            !.call = None, !.log = Append(@, c.id)]

-----------------------------------------------------------------------------
(* Handlers.  A handler returns the next state and the control to publish, *)
(* if any; a handler whose state depends on the publication takes `ok`.    *)

Control(id, act, caller, receiver, reason) ==
    [id |-> id, act |-> act, caller |-> caller,
     receiver |-> receiver, reason |-> reason]

Offer(id) == Control(id, "offer", None, None, "")
Answer(id) == Control(id, "answer", None, None, "")
Selected(id, receiver) == Control(id, "selected", None, receiver, "")
Occupied(call) == Control(call.id, "occupied", call.caller, call.sel, "")
Decline(id, reason) == Control(id, "decline", None, None, reason)
End(id, caller, reason) == Control(id, "end", caller, None, reason)

Publication ==
    [id : CallIds, act : {"offer", "answer", "selected", "occupied",
                          "decline", "end"},
     caller : Device \cup {None}, receiver : Device \cup {None},
     reason : {"", "user", "busy", "ended", "update"}]

ASSUME NoneAssumption ==
    None \notin CallIds /\ None \notin Call /\ None \notin Publication

Quiet(s) == [s |-> s, out |-> None]
Publishes(s, control) == [s |-> s, out |-> control]

(* install_incoming_call                                                   *)
InstallIncoming(s, c) ==
    [s EXCEPT !.call = Ringing(c.id, c.from),
              !.adm = [id |-> c.id, caller |-> c.from]]

(* Mutant: the incoming offer always wins.                                 *)
AlwaysYields(d, c) == Rank[c.from] # Rank[d]

(* merge_cross_call: the smaller (signer, call id) stands.  The two        *)
(* signers differ, so the call id never decides.                           *)
Yields(d, c) == Rank[c.from] < Rank[d]

MergeCrossCall(s, d, c) ==
    IF Yields(d, c)
    THEN LET t == InstallIncoming(s, c)
         IN  Publishes([t EXCEPT !.call.merged = s.call.id,
                                 !.call.phase = "accepting"], Answer(c.id))
    ELSE Quiet([s EXCEPT !.call.merged = c.id])

(* Mutant: only the book says that a call is over.                         *)
ClosedCallOfferByBook(s, id) == Closed(s, id)

ClosedCallOffer(s, id) == Closed(s, id) \/ id \in Range(s.log)

(* refuse_other_engine                                                     *)
RefuseOtherEngine(s, c) ==
    Publishes([Remember(s, c.id, "decline", "update") EXCEPT
                  !.log = Append(@, c.id)],
              Decline(c.id, "update"))

(* receive_call_offer; `blocked` is call_admission_blocked.                *)
ReceiveOffer(s, d, c, blocked) ==
    IF ClosedCallOffer(s, c.id) \/ SelectedElsewhere(s, c.id) THEN Quiet(s)
    ELSE IF plan.engine[c.from] # plan.engine[d] THEN RefuseOtherEngine(s, c)
    ELSE IF s.call = None
         THEN IF blocked \/ OccupiedCalls(s) \ {c.id} # {}
              THEN Publishes(s, Decline(c.id, "busy"))
              ELSE Quiet(InstallIncoming(s, c))
    ELSE IF s.call.phase = "outgoing" /\ s.call.id # c.id
         THEN MergeCrossCall(s, d, c)
    ELSE IF /\ s.call.id = c.id /\ s.call.caller = c.from
            /\ s.call.phase \in {"accepting", "active"}
         THEN Publishes(s, Answer(c.id))
    ELSE Quiet(s)

(* call_end: the call is over here whether or not the control went out.    *)
EndCall(s, reason) ==
    Publishes(FinishCall(Remember(s, s.call.id, "end", reason)),
              End(s.call.id, s.call.caller, reason))

(* Mutant: an answer is selected in whatever phase the call is.            *)
ReceiveAnswerAnyPhase(s, d, c, ok) ==
    IF ~Holds(s, c.id) \/ s.call.dir # "caller" THEN Quiet(s)
    ELSE IF plan.engine[c.from] # plan.engine[d] THEN EndCall(s, "update")
    ELSE Publishes(IF ok THEN [s EXCEPT !.call.sel = c.from,
                                        !.call.phase = "active"] ELSE s,
                   Selected(c.id, c.from))

(* receive_call_answer: the first answer is selected, if that can be       *)
(* published; every later one is told who was.                             *)
ReceiveAnswer(s, d, c, ok) ==
    IF ~Holds(s, c.id) \/ s.call.dir # "caller" THEN Quiet(s)
    ELSE IF s.call.phase = "active"
         THEN Publishes(s, Selected(c.id, s.call.sel))
    ELSE IF plan.engine[c.from] # plan.engine[d] THEN EndCall(s, "update")
    ELSE Publishes(IF ok THEN [s EXCEPT !.call.sel = c.from,
                                        !.call.phase = "active"] ELSE s,
                   Selected(c.id, c.from))

(* receive_call_selection                                                  *)
ReceiveSelection(s, d, c) ==
    IF s.call = None THEN Quiet(ObserveSelection(s, d, c))
    ELSE IF \/ ~Holds(s, c.id) \/ s.call.caller # c.from
            \/ s.call.dir # "callee" \/ s.call.phase = "active"
         THEN Quiet(s)
    ELSE IF c.receiver # d
         THEN Quiet([ObserveSelection(s, d, c) EXCEPT !.call = None])
    ELSE IF s.call.phase = "accepting"
         THEN Quiet([s EXCEPT !.call.sel = d, !.call.phase = "active"])
    ELSE Quiet(s)

(* Mutant: any callee device may terminate at the caller's, as before the  *)
(* call was accepted.                                                      *)
PermittedAlways(call, c) == call.dir = "caller" \/ c.from = call.caller

(* Who may terminate the held call: of an active one its two participants, *)
(* of a pending one the caller, and any callee device at the caller's.     *)
Permitted(call, c) ==
    IF call.phase = "active" THEN c.from \in {call.caller, call.sel}
    ELSE call.dir = "caller" \/ c.from = call.caller

(* receive_call_termination                                                *)
ReceiveTermination(s, d, c) ==
    LET t == ReceiveEnd(s, c.from, c.id)
        call == s.call
        closed == Close(t, call.id, TRUE)
    IN  IF ~MatchesId(call, c.id)
        THEN Quiet(IF AuthoritativeEnd(s, c) THEN Close(t, c.id, TRUE) ELSE t)
        ELSE IF ~Permitted(call, c) THEN Quiet(t)
        ELSE IF c.reason = "update" /\ call.phase = "outgoing"
             THEN Quiet([t EXCEPT !.call.refused = TRUE])
        ELSE IF call.dir = "caller"
             THEN Publishes(
                    FinishCall(Remember(closed, call.id, "end", "ended")),
                    End(call.id, call.caller, "ended"))
        ELSE Quiet(FinishCall(closed))

(* observe_own_call: a control of one of our own user's other devices.     *)
ObserveOwn(s, c) ==
    LET t == IF AuthoritativeEnd(s, c)
             THEN FinishOccupancy(Close(s, c.id, TRUE), c.id, TRUE) ELSE s
        caller == IF Holds(t, c.id) THEN t.call.caller ELSE c.from
    IN  CASE c.act \in {"end", "decline"} -> Release(t, c.from, c.id)
          [] c.act = "occupied" ->
                Reserve(t, c.from, c.id, c.caller, c.receiver)
          [] c.act = "selected" ->
                Reserve(t, c.from, c.id, c.from, c.receiver)
          [] OTHER -> Reserve(t, c.from, c.id, caller, None)

(* apply_call_control                                                      *)
ApplyControl(s, d, c, blocked, ok) ==
    IF ConfirmedClosed(s, c.id) THEN Quiet(s)
    ELSE IF UserOf[c.from] = UserOf[d] THEN Quiet(ObserveOwn(s, c))
    ELSE CASE c.act = "offer" -> ReceiveOffer(s, d, c, blocked)
           [] c.act = "answer" -> ReceiveAnswer(s, d, c, ok)
           [] c.act = "occupied" -> Quiet(s)
           [] c.act = "selected" -> ReceiveSelection(s, d, c)
           [] c.act \in {"decline", "end"} -> ReceiveTermination(s, d, c)

(* handle_call_control: a control older than the newest of its signer is   *)
(* dropped, unless it is terminal.                                         *)
Terminal(c) == c.act \in {"end", "decline"}

(* Mutant: a terminal control does not count as its signer's newest.       *)
HandleTerminalFirst(s, d, c, blocked, ok) ==
    LET t == IF Terminal(c)
             THEN [s EXCEPT !.used = @ \cup {<<c.from, c.seq>>}]
             ELSE Receive(s, c)
    IN  IF Fresh(s, c) \/ Terminal(c) THEN ApplyControl(t, d, c, blocked, ok)
        ELSE Quiet(t)

HandleControl(s, d, c, blocked, ok) ==
    LET t == [Receive(s, c) EXCEPT
                 !.used = IF Terminal(c) THEN @ \cup {<<c.from, c.seq>>}
                          ELSE @]
    IN  IF Fresh(s, c) \/ Terminal(c) THEN ApplyControl(t, d, c, blocked, ok)
        ELSE Quiet(t)

(* Mutant: an answer is sent once; the heartbeat takes its place.          *)
OutboundWithoutAnswer(call) ==
    CASE call.phase = "outgoing" -> Offer(call.id)
      [] call.phase = "active" /\ call.dir = "caller" ->
            Selected(call.id, call.sel)
      [] OTHER -> Occupied(call)

(* What the device repeats while it holds a call (outbound_control).       *)
OutboundControl(call) ==
    CASE call.phase = "outgoing" -> Offer(call.id)
      [] call.phase = "accepting" -> Answer(call.id)
      [] call.phase = "active" /\ call.dir = "caller" ->
            Selected(call.id, call.sel)
      [] OTHER -> Occupied(call)

(* call_authorized, once `gone` are known to be removed.                   *)
CallAuthorized(s, d) ==
    /\ d \notin s.gone
    /\ s.call # None => {s.call.caller, s.call.sel} \cap s.gone = {}

(* decrypt_call_control admits a control only of admitted participants.    *)
Admitted(s, d, c) ==
    /\ c.from \notin s.gone
    /\ c.act = "selected" =>
          /\ c.receiver \notin s.gone
          /\ (UserOf[c.receiver] = UserOf[d]) # (UserOf[c.from] = UserOf[d])
    /\ c.act = "occupied" =>
          c.caller \notin s.gone /\ c.receiver \in {None, c.from}
    /\ c.act = "end" => c.caller \notin s.gone

-----------------------------------------------------------------------------
(* The runtime: one mutex per device, so a handler is one step.            *)

Durable(s) == [seq |-> s.seq, got |-> s.got, closed |-> s.closed,
               log |-> s.log, used |-> s.used, gone |-> s.gone]

(* A restart keeps the record; the call, the occupancy and the repeated    *)
(* terminal controls are volatile.                                         *)
Restored(r) ==
    [call |-> None, occ |-> [e \in Device |-> None], adm |-> None,
     ends |-> <<>>, seq |-> r.seq, got |-> r.got, closed |-> r.closed,
     log |-> r.log, used |-> r.used, gone |-> r.gone]

Blank == [seq |-> 0, got |-> [e \in Device |-> 0], closed |-> <<>>,
          log |-> <<>>, used |-> {}, gone |-> {}]

(* publish_authenticated_call: the sequence number is taken and the record *)
(* saved before the control is sent; a refused save sends nothing.         *)
Stamp(d, control, n) ==
    [id |-> control.id, act |-> control.act, caller |-> control.caller,
     receiver |-> control.receiver, reason |-> control.reason,
     from |-> d, seq |-> n]

(* Mutant: the control is sent before the record is saved.                 *)
SettleUnsaved(d, result, outcome) ==
    LET n == dev[d].seq + 1
        s == IF result.out = None THEN result.s
             ELSE [result.s EXCEPT !.seq = n]
    IN  /\ result.out # None => n <= plan.maxSeq[d]
        /\ dev' = [dev EXCEPT ![d] = s]
        /\ disk' = IF outcome = "refused" \/ result.out # None THEN disk
                   ELSE [disk EXCEPT ![d] = Durable(s)]
        /\ sent' = IF result.out = None \/ outcome # "sent" THEN sent
                   ELSE sent \cup {Stamp(d, result.out, n)}

Settle(d, result, outcome) ==
    LET n == dev[d].seq + 1
        s == IF result.out = None THEN result.s
             ELSE [result.s EXCEPT !.seq = n]
    IN  /\ result.out # None => n <= plan.maxSeq[d]
        /\ dev' = [dev EXCEPT ![d] = s]
        /\ disk' = IF outcome = "refused" THEN disk
                   ELSE [disk EXCEPT ![d] = Durable(s)]
        /\ sent' = IF result.out = None \/ outcome # "sent" THEN sent
                   ELSE sent \cup {Stamp(d, result.out, n)}

Serving(s) == IF s.call # None /\ s.call.phase = "active"
              THEN {s.call.id} ELSE {}

Note(d, quit, heard) ==
    past' = [past EXCEPT ![d] =
        [served |-> @.served \cup Serving(dev'[d]),
         quit |-> @.quit \cup quit, heard |-> @.heard \cup heard]]

HeldIds(s) == IF s.call = None THEN {} ELSE {s.call.id, s.call.merged} \ {None}

(* History: what a device gives up as it takes control c in.  It refuses   *)
(* an offer; it drops a call that was not accepted yet; or it leaves an    *)
(* accepted one because its counterpart gave it up, or the call it merged. *)
GivesUp(s, c, result) ==
    LET left == s.call # None /\ result.s.call = None
    IN  UNION {IF result.out # None /\ result.out.act = "decline"
               THEN {result.out.id} ELSE {},
               IF /\ left
                  /\ s.call.phase = "active" =>
                        /\ c.from \in {s.call.caller, s.call.sel}
                        /\ c.id \in HeldIds(s) \cap past[c.from].quit
               THEN HeldIds(s) ELSE {}}

Authorized(d) == d \notin dev[d].gone

(* PrivateDmRuntime::call_start and the session's: nothing may be occupied *)
(* anywhere, and an offer that was not sent leaves no call.                *)
CallStart(d, outcome) ==
    /\ d \in plan.callers /\ Authorized(d)
    /\ dev[d].call = None /\ OccupiedCalls(dev[d]) = {}
    /\ \E n \in 1 .. MaxCalls :
          LET id == <<d, n>>
              s == dev[d]
              call == IF outcome = "sent" THEN Outgoing(id, d) ELSE None
          IN  /\ \A m \in sent : m.id # id
              /\ n > 1 => \E m \in sent : m.id = <<d, n - 1>>
              /\ Settle(d, Publishes([s EXCEPT !.call = call], Offer(id)),
                        outcome)
    /\ Note(d, {}, {})

(* call_accept: answering asks to be selected; it may be repeated.         *)
CallAccept(d, outcome) ==
    /\ Authorized(d) /\ dev[d].call # None
    /\ dev[d].call.phase \in {"ringing", "accepting"}
    /\ LET s == dev[d]
       IN  Settle(d, Publishes(IF outcome = "sent"
                               THEN [s EXCEPT !.call.phase = "accepting"]
                               ELSE s, Answer(s.call.id)), outcome)
    /\ Note(d, {}, {})

(* call_decline, under the displayed id: the call's or the merged one's.   *)
(* A decline that was not sent leaves the call as it was.                  *)
CallDecline(d, outcome) ==
    /\ d \in plan.enders /\ Authorized(d)
    /\ \E id \in HeldIds(dev[d]) :
          LET s == dev[d]
          IN  /\ Settle(d, Publishes(
                        IF outcome = "sent"
                        THEN FinishCall(Remember(s, id, "decline", "user"))
                        ELSE s, Decline(id, "user")), outcome)
              /\ Note(d, IF outcome = "sent" THEN HeldIds(s) ELSE {}, {})

(* call_end: the user hangs up, the ring deadline passes, or the native    *)
(* engine reports the connection lost.                                     *)
CallEnd(d, outcome) ==
    /\ d \in plan.enders /\ Authorized(d) /\ dev[d].call # None
    /\ Settle(d, EndCall(dev[d], "ended"), outcome)
    /\ Note(d, HeldIds(dev[d]), {})

(* A control arrives.  One older than its signer's newest changes nothing  *)
(* unless it is terminal, and is not taken in at all.                      *)
HandleCallControl(d, outcome) ==
    /\ Authorized(d)
    /\ \E c \in sent, blocked \in plan.elsewhere :
          LET s == dev[d]
              result == HandleControl(s, d, c, blocked, outcome = "sent")
          IN  /\ c.from # d /\ Admitted(s, d, c)
              /\ IF Terminal(c) THEN <<c.from, c.seq>> \notin s.used
                 ELSE Fresh(s, c)
              /\ result.out = None => outcome # "unsent"
              /\ blocked => c.act = "offer"
              /\ Settle(d, result, outcome)
              /\ Note(d, GivesUp(s, c, result),
                      IF /\ outcome # "refused"
                         /\ c.act = "end" /\ c.caller = c.from
                      THEN {c.id} ELSE {})

(* pump_call_signaling, the held call due to be repeated.                  *)
Resend(d, outcome) ==
    /\ d \in plan.repeaters /\ Authorized(d) /\ dev[d].call # None
    /\ Settle(d, Publishes(dev[d], OutboundControl(dev[d].call)), outcome)
    /\ Note(d, {}, {})

(* pump_call_signaling, a remembered terminal control due to be repeated.  *)
RetryEnd(d, outcome) ==
    /\ d \in plan.repeaters /\ Authorized(d)
    /\ \E t \in Range(dev[d].ends) :
          Settle(d, Publishes(dev[d], Control(t.id, t.act, t.caller, None,
                                              t.reason)), outcome)
    /\ Note(d, {}, {})

(* pump_call_signaling: a lease of 15 s has run out.  (That a terminal     *)
(* control is repeated for 15 s only needs no step: RetryEnd may never     *)
(* come.)                                                                  *)
Expire(d) ==
    /\ \E e \in Reserved(dev[d]) : dev' = [dev EXCEPT ![d].occ[e] = None]
    /\ UNCHANGED <<disk, sent, past>>

(* The record of this device says that e was removed from the DM; the tick *)
(* then ends a call that has lost a participant (reconcile_call_authority).*)
LearnRemoval(d, e) ==
    /\ e \in plan.removable \ dev[d].gone
    /\ LET s == [dev[d] EXCEPT !.gone = @ \cup {e}]
       IN  /\ Settle(d, Quiet(IF s.call # None /\ ~CallAuthorized(s, d)
                              THEN FinishCall(s) ELSE s), "sent")
           /\ Note(d, IF CallAuthorized(s, d) THEN {} ELSE HeldIds(s), {})

(* The process stops and comes back with what its record holds.            *)
Crash(d) ==
    /\ d \in plan.crashers /\ dev[d] # Restored(disk[d])
    /\ dev' = [dev EXCEPT ![d] = Restored(disk[d])]
    /\ UNCHANGED <<disk, sent>>
    /\ Note(d, HeldIds(dev[d]), {})

(* The process stops after a decline or an end was sent and before the     *)
(* finished call was saved.                                                *)
CrashAfterEnding(d) ==
    /\ d \in plan.crashers /\ Authorized(d) /\ dev[d].call # None /\ dev[d].seq < plan.maxSeq[d]
    /\ LET s == dev[d]
           n == s.seq + 1
           saved == Durable([s EXCEPT !.seq = n])
       IN  /\ dev' = [dev EXCEPT ![d] = Restored(saved)]
           /\ disk' = [disk EXCEPT ![d] = saved]
           /\ \E c \in {End(s.call.id, s.call.caller, "ended")}
                      \cup {Decline(id, "user") : id \in HeldIds(s)} :
                 sent' = sent \cup {Stamp(d, c, n)}
    /\ Note(d, HeldIds(dev[d]), {})

Init ==
    /\ plan \in Plans
    /\ dev = [d \in Device |-> Restored(Blank)]
    /\ disk = [d \in Device |-> Blank]
    /\ sent = {}
    /\ past = [d \in Device |-> [served |-> {}, quit |-> {}, heard |-> {}]]

Next ==
    /\ \E d \in plan.present :
          \/ \E outcome \in plan.outcomes :
                \/ CallStart(d, outcome)
                \/ CallAccept(d, outcome)
                \/ CallDecline(d, outcome)
                \/ CallEnd(d, outcome)
                \/ HandleCallControl(d, outcome)
                \/ Resend(d, outcome)
                \/ RetryEnd(d, outcome)
          \/ Expire(d)
          \/ Crash(d)
          \/ CrashAfterEnding(d)
          \/ \E e \in plan.present : LearnRemoval(d, e)
    /\ UNCHANGED plan

Spec == Init /\ [][Next]_vars

-----------------------------------------------------------------------------
(* Properties                                                              *)

ControlType ==
    [id : CallIds, act : {"offer", "answer", "selected", "occupied",
                          "decline", "end"},
     caller : Device \cup {None}, receiver : Device \cup {None},
     reason : {"", "user", "busy", "ended", "update"},
     from : Device, seq : Nat]

Closings == [id : CallIds, confirmed : BOOLEAN]

(* The state keeps its shape, and no bounded part outgrows its bound: the  *)
(* closed calls, the reservations and the repeated terminal controls.      *)
TypeOK ==
    /\ sent \subseteq ControlType
    /\ \A d \in Device :
          LET s == dev[d]
          IN  /\ s.call \in Call \cup {None}
              /\ s.seq \in 0 .. plan.maxSeq[d] /\ s.got \in [Device -> Nat]
              /\ Range(s.closed) \subseteq Closings /\ Len(s.closed) <= ClosedCap
              /\ Cardinality(Reserved(s)) <= MaxReservations
              /\ Len(s.ends) <= MaxEnds
              /\ Range(s.log) \subseteq CallIds
              /\ disk[d].seq <= s.seq

Active(d) == dev[d].call # None /\ dev[d].call.phase = "active"

(* One device per user in a call (ADR 0043): whoever is in an active call  *)
(* is its caller or the receiver the caller selected, all devices active   *)
(* in it agree on the two, they belong to different users, speak the same  *)
(* media protocol, and no call is ever confirmed to two receivers, however *)
(* many devices answer and whatever is lost, late or restarted.            *)
OneReceiver ==
    /\ \A d, e \in Device :
          Active(d) /\ Active(e) /\ dev[d].call.id = dev[e].call.id =>
              LET c == dev[d].call
              IN  /\ c.caller = dev[e].call.caller /\ c.sel = dev[e].call.sel
                  /\ {d, e} \subseteq {c.caller, c.sel}
                  /\ UserOf[c.caller] # UserOf[c.sel]
                  /\ plan.engine[c.caller] = plan.engine[c.sel]
    /\ \A m, n \in sent :
          m.act = "selected" /\ n.act = "selected" /\ m.id = n.id =>
              m.receiver = n.receiver

(* An accepted call ends by its two devices: a step that takes a device    *)
(* out of an active call finds that one of the two gave it up, or a call   *)
(* merged into it: hung up, declined, refused while busy, timed out, lost  *)
(* the engine, restarted or saw a removal.  Refusals, timeouts and         *)
(* restarts of the users' other devices never end it (ADR 0043).           *)
SelectedPairKeepsCall ==
    [][\A d \in Device :
          Active(d) /\ dev'[d].call # dev[d].call =>
              LET c == dev[d].call
              IN  HeldIds(dev[d]) \cap
                      (past'[c.caller].quit \cup past'[c.sel].quit) # {}]_vars

(* A call whose end by its caller was taken in and saved is not rung,      *)
(* answered or joined here any more, even when the offer comes after it.   *)
NoRingAfterEnd ==
    \A d \in Device : dev[d].call # None => dev[d].call.id \notin past[d].heard

(* Of two offers that cross, exactly one stands: two devices never each    *)
(* give up their own call for the other's, nor each keep their own after   *)
(* seeing the other's.                                                     *)
CrossCallOneYields ==
    \A d, e \in Device :
        LET c == dev[d].call
            b == dev[e].call
        IN  ~ /\ d # e /\ c # None /\ b # None /\ c.dir = b.dir
              /\ \/ c.dir = "callee" /\ c.merged # None
                     /\ c.merged = b.id /\ b.merged = c.id
                 \/ c.dir = "caller" /\ c.merged = b.id /\ b.merged = c.id

(* No two controls of a device carry one sequence number, restarts and     *)
(* refused saves included: receivers would drop the second for good.       *)
SequencesUnique ==
    \A m, n \in sent : m.from = n.from /\ m.seq = n.seq => m = n

(* The chat history of a device shows a call at most once.                 *)
LoggedOnce == \A d \in Device : IsInjective(dev[d].log)

=============================================================================
