------------------------------- MODULE MCDmLive -------------------------------
(***************************************************************************)
(* DmDelivery under the fairness its scheduling gives it.                  *)
(*                                                                         *)
(* Faults are as in FaultSpec, and losing a frame for good or losing       *)
(* Connected counts as one too.  The 15 s and 25 s deadlines are far above *)
(* the time a frame needs, so a deadline only passes when nothing is in    *)
(* flight.  The user gives no retry: delivery is the runtime's own work.   *)
(***************************************************************************)
EXTENDS MCDmDelivery

VARIABLES
    arrived,    \* frames that arrived at least once
    dropped     \* frames that never will

livevars == <<mcvars, arrived, dropped>>

InFlight == wire \ (arrived \cup dropped)

(* The frames a step takes in. *)
Taken ==
    {f \in wire : IF f.kind = "data"
                  THEN f \in seen' \ seen
                  ELSE f.gen \in crypto'["S"].used \ crypto["S"].used}

(* A frame that was dropped is not taken in, a resend is due only when      *)
(* nothing is in flight, and there is no user at the retry button.          *)
Timely ==
    /\ Taken \cap dropped = {}
    /\ arrived' = arrived \cup Taken
    /\ dropped' = dropped
    /\ (pcS = "recv" /\ pcS' = "resend") => (conn' = conn /\ (todo' # {} => InFlight = {}))
    /\ op' \notin {"retry", "retrying"}

LoseFrame ==
    /\ faults < MaxFaults /\ faults' = faults + 1
    /\ \E f \in InFlight : dropped' = dropped \cup {f}
    /\ UNCHANGED <<vars, arrived>>

LoseConnected ==
    /\ faults < MaxFaults /\ faults' = faults + 1
    /\ conn /\ InFlight = {} /\ STick(TRUE, {})
    /\ UNCHANGED <<arrived, dropped>>

LiveNext ==
    \/ BoundedNext /\ Timely
    \/ LoseFrame
    \/ LoseConnected

(* The service thread keeps ticking and a started command runs to its end; *)
(* a process that died is started again; what is in flight arrives; and    *)
(* the resend cadence elapses.                                             *)
Good(A) == A /\ faults' = faults /\ Timely

SWork == Good(SStart("service", 0) \/ STick(FALSE, {}) \/ STakeDirty \/ SStartDeliver
              \/ SEndDeliver \/ SEndTailSends \/ SRestart
              \/ SEffect({"ok"}, {"sent", "never"}))
RWork == Good(\/ RLocal
              \/ \E f \in InFlight, o \in {"sent", "never"} : RRecvData(f, o)
              \/ \E m \in Msgs : RTailRow(m, "ok")
              \/ RTailState("ok"))

Fairness ==
    /\ WF_livevars(SWork)
    /\ WF_livevars(RWork)
    /\ SF_livevars(Good(\E f \in InFlight : SRecvAck(f)))
    /\ SF_livevars(Good(SRecvHello))
    /\ SF_livevars(Good(Resendable # {} /\ STick(FALSE, Resendable)))

LiveSpec ==
    /\ BoundedInit /\ arrived = {} /\ dropped = {}
    /\ [][LiveNext]_livevars
    /\ Fairness

(* Every text the app accepted ends Delivered, or Failed with a retry to    *)
(* offer, and stays so: no text is Queued or Sent for ever, whatever the    *)
(* order of losses, refused writes and crashes, as long as fewer rounds are *)
(* spoiled than AUTO_RESEND_MAX allows.                                     *)
AcceptedSettles ==
    <>[](\A m \in admitted : msg[m] \in {"Delivered", "Failed"})
=============================================================================
