----------------------------- MODULE MCCallsLive -----------------------------
(***************************************************************************)
(* What the call protocol reaches when nobody hangs up, no deadline passes *)
(* and no device stops.  A repeat that would only say what the device said *)
(* last is left out: `sent` keeps that control deliverable, so repeating   *)
(* it adds a sequence number and nothing else.                             *)
(***************************************************************************)
EXTENDS MCCalls

LatestOf(d) == {m \in sent : m.from = d /\ m.seq = dev[d].seq}

Repeat(d) ==
    /\ dev[d].call # None
    /\ ~ \E m \in LatestOf(d) :
            LET c == OutboundControl(dev[d].call)
            IN  m.id = c.id /\ m.act = c.act /\ m.receiver = c.receiver
    /\ Resend(d, "sent")

LiveStep(d) ==
    \/ CallStart(d, "sent")
    \/ CallAccept(d, "sent") /\ dev[d].call.phase = "ringing"
    \/ HandleCallControl(d, "sent")
    \/ Repeat(d)

LiveNext == /\ \E d \in plan.present : LiveStep(d)
            /\ UNCHANGED plan

(* A tick of the runtime drains what arrived and repeats what is due; the  *)
(* users need not answer.                                                  *)
Drain(d) == d \in plan.present /\ HandleCallControl(d, "sent") /\ UNCHANGED plan
Tick(d) == d \in plan.present /\ Repeat(d) /\ UNCHANGED plan

Fairness == \A d \in Device : WF_vars(Drain(d)) /\ WF_vars(Tick(d))

LiveSpec == Init /\ [][LiveNext]_vars /\ Fairness

(* Offers cross between two devices, or two devices of a user answer one   *)
(* call while its second user looks on.                                    *)
LivePlans ==
    {[Quiescent EXCEPT !.present = {a1, b1}, !.callers = {a1, b1},
          !.maxSeq = Controls(9, 9)],
     [Quiescent EXCEPT !.maxSeq = Controls(9, 9)]}

Crossed == \A d \in plan.present :
              dev[d].call # None /\ dev[d].call.phase = "outgoing"

(* Two users who call each other at once end up in one call together, with *)
(* no one touching anything (merge_cross_call, "both sides must converge   *)
(* on one call identity and caller authority", ADR 0043).                  *)
CrossCallSettles ==
    Crossed ~> \A d, e \in plan.present :
                   Active(d) /\ dev[d].call.id = dev[e].call.id

(* An answer is never left waiting: the device that answered is told that  *)
(* it or another device was selected, although controls overtaken by later *)
(* ones of their signer are dropped for good.                              *)
AnswerSettles ==
    \A d \in Device :
        (dev[d].call # None /\ dev[d].call.phase = "accepting")
            ~> (dev[d].call = None \/ dev[d].call.phase = "active")
=============================================================================
