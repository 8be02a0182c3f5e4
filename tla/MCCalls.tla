------------------------------ MODULE MCCalls ------------------------------
(* Environments in which TLC explores Calls.                               *)
EXTENDS Calls

CONSTANTS a1, a2, b1, b2

MCUser == [d \in Device |-> IF d \in {a1, a2} THEN "a" ELSE "b"]

(* Signer order: the two users' devices interleave.                        *)
MCRank == [d \in Device |->
              CASE d = a1 -> 1 [] d = b1 -> 2 [] d = a2 -> 3 [] d = b2 -> 4]

Controls(a, b) == [d \in Device |-> IF d \in {a1, a2} THEN a ELSE b]

Quiescent ==
    [present |-> {a1, b1, b2}, engine |-> [d \in Device |-> 1],
     callers |-> {a1}, enders |-> {}, crashers |-> {}, removable |-> {},
     outcomes |-> {"sent"}, elsewhere |-> {FALSE},
     repeaters |-> Device, maxSeq |-> Controls(2, 2)]

(* Two devices of the callee answer, refuse and hang up together.          *)
Answering == [Quiescent EXCEPT !.enders = {b2}, !.repeaters = {},
                  !.maxSeq = Controls(3, 2)]

(* Offers cross while a second device of one user watches.                 *)
Crossing == [Quiescent EXCEPT !.callers = {a1, b1}, !.enders = {b1}]

(* Restarts, unsent publications and refused saves.                        *)
Failing == [Quiescent EXCEPT !.present = {a1, b1}, !.enders = {b1},
                !.crashers = {a1, b1}, !.outcomes = AllOutcomes]

(* A device restarts and calls back while its own refusal is on its way.   *)
CallingBack == [Quiescent EXCEPT !.present = {a1, b1}, !.callers = {a1, b1},
                    !.enders = {a1}, !.crashers = {a1},
                    !.maxSeq = Controls(3, 3)]

(* A device is removed in mid call; another DM holds a call.               *)
Removing == [Quiescent EXCEPT !.present = {a1, b1}, !.removable = {b1},
                 !.enders = {a1}, !.elsewhere = BOOLEAN,
                 !.maxSeq = Controls(3, 3)]

(* A device refuses an offer while another DM of it holds a call, and      *)
(* accepts the repeated offer before its refusal arrives.                  *)
Busy == [Quiescent EXCEPT !.present = {a1, b1}, !.elsewhere = BOOLEAN,
             !.maxSeq = Controls(4, 3)]

(* A device hangs up its own call, which the other side has merged, and    *)
(* accepts the other's before the end arrives.                             *)
HangingUp == [Quiescent EXCEPT !.present = {a1, b1}, !.callers = {a1, b1},
                  !.enders = {b1}, !.maxSeq = Controls(3, 3)]

(* A third device declines the call that the two others merge.             *)
Refusing == [Quiescent EXCEPT !.present = {a1, a2, b1}, !.callers = {a1, b1},
                 !.enders = {a2}, !.repeaters = {},
                 !.maxSeq = [Controls(3, 3) EXCEPT ![a2] = 1]]

(* One device of the callee speaks another media protocol.                 *)
Mixed == [Quiescent EXCEPT !.engine[b2] = 2, !.enders = {a1}]

(* The caller has a second device too.                                     *)
Siblings == [Quiescent EXCEPT !.present = {a1, a2, b1},
                 !.callers = {a2, b1}]

(* A second call after the first, with a book that remembers one.          *)
Again == [Quiescent EXCEPT !.present = {a1, b1}, !.enders = {a1},
              !.maxSeq = Controls(4, 3)]

MCPlans == {Answering, Crossing, Failing, CallingBack, Removing, Busy,
            HangingUp, Refusing, Mixed, Siblings, Again}
=============================================================================
