----------------------------- MODULE MCGroupLive -----------------------------
(***************************************************************************)
(* GroupCommits under the fairness its scheduling gives it.                *)
(*                                                                         *)
(* The service turn runs as long as the app does: it drains the inbox and  *)
(* republishes a pending join.  The app is started again after it died.  A *)
(* frame that is published again and again gets through, and a resync      *)
(* frame that got out arrives.  Nothing is assumed of Commit frames, of    *)
(* history pulls or of the store.                                          *)
(***************************************************************************)
EXTENDS MCGroup

Get(n, A(_, _)) == \E f \in net : A(n, f)

FullReplay(n, f) ==
    ReplayAdmission(n, f) /\ \E c \in saved[n] : AdmissionFrames(c) \subseteq net'

Answer(n, f) == ServeResync(n, f) /\ net' # net

(* A response with a commit n has not got. *)
RecvNews(n, f) ==
    RecvResponse(n, f) /\ \E c \in f.commits : WireEpoch(c) >= Epoch(st[n])

Bounded(A) == A /\ crashes' = crashes

JoinFairness ==
    \A n \in Node :
        /\ WF_mcvars(Bounded(Restart(n)))
        /\ WF_mcvars(Bounded(RetryJoin(n)))
        /\ SF_mcvars(Bounded(Get(n, Admit)))
        /\ SF_mcvars(Bounded(Get(n, FullReplay)))
        /\ SF_mcvars(Bounded(Get(n, RecvWelcome)))
        /\ WF_mcvars(Bounded(AbsorbNext(n) \/ EndAbsorb(n)))

GapFairness ==
    \A n \in Node :
        /\ WF_mcvars(Bounded(Restart(n)))
        /\ WF_mcvars(Bounded(AbsorbNext(n) \/ EndAbsorb(n)))
        /\ SF_mcvars(Bounded(Get(n, Answer)))
        /\ SF_mcvars(Bounded(Get(n, RecvNews)))

JoinSpec == CrashSpec /\ JoinFairness
GapSpec == CrashSpec /\ GapFairness

(* A join does not hang: whatever the admin's crashes and the lost Welcome  *)
(* or package frames, the repeated package draws the saved admission again  *)
(* until the joiner is in (or its own process died with the join unsaved).  *)
JoinSettles == \A n \in Node : mode[n] = "joining" ~> mode[n] # "joining"

(* A gap does not stay: a member that holds a commit it cannot apply gets   *)
(* the missing ones by replay, although it asks only once per epoch.        *)
GapCloses ==
    \A n \in Node : (Joined(n) /\ Gap(buf[n], st[n])) ~> ~Gap(buf[n], st[n])
=============================================================================
