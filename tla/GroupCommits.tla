----------------------------- MODULE GroupCommits -----------------------------
(***************************************************************************)
(* Membership of one plain private group: who may commit, how commits are  *)
(* put in epoch order, how a member that missed some catches up, how the   *)
(* admin role moves, and what of it a crash leaves behind                  *)
(* (commit_sequencer.rs, private_group_runtime/).                          *)
(*                                                                         *)
(* MLS is a tree of group states.  tree[1] is the state the founders share;*)
(* every other entry is a commit, identified with the state it leads to.   *)
(* A commit applies only at the state it was made in, to a member of that  *)
(* state, which is all the model keeps of stage_membership.                *)
(*                                                                         *)
(* A control frame is handled in one step, with one exception: the commits *)
(* of a resync response are absorbed one per step, because a refused write *)
(* stops one of them and not the rest.  Frames leave a handler only at its *)
(* end, so dying inside a handler is the same as a handler that is stopped *)
(* by a refused write or a failed publication, followed by Crash.          *)
(*                                                                         *)
(* The network is the set of all frames ever published; a frame may be     *)
(* received at any later time, any number of times, or never.  The         *)
(* sequencer's set of applied commits is left out: a commit in it is of an *)
(* epoch the member has passed, which offer drops by the epoch alone.      *)
(* Organization groups, whose authority is a signed roster, are not part   *)
(* of this module.                                                         *)
(***************************************************************************)
EXTENDS Integers, Sequences, FiniteSets

CONSTANTS
    Node,       \* members and joiners; the order of their fingerprints is <=
    Founders,   \* members of the group's first modelled state
    Creator,    \* the founder the invite names
    BufferCap,  \* BUFFER_CAP
    MaxCommits, \* bound: commits ever made
    Leavers,    \* bound: members that may leave
    Faults      \* what may go wrong: a subset of FaultKinds

FaultKinds == {"store", "log", "publish", "crash", "leave"}

ASSUME ConstantsOK ==
    /\ Node \subseteq Nat
    /\ Founders \subseteq Node
    /\ Creator \in Founders
    /\ BufferCap \in Nat
    /\ MaxCommits \in Nat
    /\ Leavers \subseteq Node
    /\ Faults \subseteq FaultKinds

VARIABLES
    tree,       \* the group states, in the order they were made
    net,        \* control frames ever published
    (* each member, in memory *)
    mode,       \* out, joining, in, quit, down or gone
    st,         \* the MLS state of the session
    adm,        \* current_admin_fingerprint; is_admin is adm[n] = n
    buf,        \* CommitSequencer.buffered
    asked,      \* CommitSequencer.last_requested_epoch
    rejoin,     \* needs_rejoin
    busy, todo, \* absorbing a resync response, and what is left of it
    (* each member, durable *)
    dSt,        \* the saved MLS snapshot
    dAdm,       \* the admin of the saved record
    log,        \* group_commit_log
    saved       \* admission replays, one per joiner

memory == <<mode, st, adm, buf, asked, rejoin, busy, todo>>
store == <<dSt, dAdm, log, saved>>
vars == <<tree, net, mode, st, adm, buf, asked, rejoin, busy, todo, dSt, dAdm,
          log, saved>>

-----------------------------------------------------------------------------
(* Types *)

NoState == 0    \* nothing saved
Silent == -1    \* no request reserved

State == 1..(MaxCommits + 1)
Commit == 2..(MaxCommits + 1)
Genesis == [parent |-> 1, epoch |-> 0, by |-> Creator, who |-> Creator,
            members |-> Founders, path |-> {}]
GroupState ==
    [parent : State, epoch : 0..MaxCommits, by : Node, who : Node,
     members : SUBSET Node, path : SUBSET Commit]

Mode == {"out", "joining", "in", "quit", "down", "gone"}

Frame ==
    [type : {"package"}, who : Node]
        \cup [type : {"welcome", "commit"}, id : Commit]
        \cup [type : {"leave"}, who : Node, at : State]
        \cup [type : {"request"}, who : Node, epoch : 0..MaxCommits]
        \cup [type : {"response"}, who : Node, commits : SUBSET Commit]

-----------------------------------------------------------------------------
(* Group states and commits *)

States == 1..Len(tree)
Commits == 2..Len(tree)
Epoch(s) == tree[s].epoch
WireEpoch(c) == tree[c].epoch - 1
Members(s) == tree[s].members
Path(s) == tree[s].path

Joined(n) == mode[n] \in {"in", "quit"}
Idle(n) == Joined(n) /\ ~busy[n]

Applies(n, c, s) == tree[c].parent = s /\ n \in Members(s)

Lowest(S) == CHOOSE m \in S : \A k \in S : m <= k

(* successor_of: the lowest fingerprint but the departing one; n itself,    *)
(* the departing member, when nobody is left.                               *)
Successor(S, n) == IF S \ {n} = {} THEN n ELSE Lowest(S \ {n})

(* Mutant of Reconcile: the successor rule runs while the admin is there.   *)
ReconcileEager(a, M) == Successor(M, 0)

(* reconcile_admin over the leaves M. *)
Reconcile(a, M) == IF a \in M THEN a ELSE Successor(M, a)

(* Mutant of ActingAdmin: every member may admit. *)
ActingAdminAny(n) == Joined(n)

ActingAdmin(n) == Joined(n) /\ adm[n] = n

-----------------------------------------------------------------------------
(* The sequencer *)

Ready(b, s) == {c \in b : WireEpoch(c) = Epoch(s)}

Gap(b, s) == b # {} /\ \A c \in b : WireEpoch(c) > Epoch(s)

(* Mutant of Insert: the buffer grows without a bound. *)
InsertUncapped(b, c) ==
    IF \E d \in b : WireEpoch(d) = WireEpoch(c) THEN b ELSE b \cup {c}

Insert(b, c) ==
    IF (\E d \in b : WireEpoch(d) = WireEpoch(c)) \/ Cardinality(b) >= BufferCap
    THEN b
    ELSE b \cup {c}

(* The buffer as the drain sees it after commit c was offered in state s: a *)
(* commit of the current epoch goes first, whatever is buffered for it.     *)
Offered(b, c, s) ==
    CASE WireEpoch(c) = Epoch(s) ->
            {d \in b : WireEpoch(d) # WireEpoch(c)} \cup {c}
      [] WireEpoch(c) > Epoch(s) -> Insert(b, c)
      [] OTHER -> b

(* The states a drain of b may stop in: every commit on the way is in b.    *)
Reach(n, b, s) ==
    {t \in States :
        /\ Path(s) \subseteq Path(t)
        /\ Path(t) \ Path(s) \subseteq b
        /\ \A c \in Path(t) \ Path(s) : n \in Members(tree[c].parent)}

(* What the commit log may hold after the commits of S were logged.         *)
Logged(L, S) ==
    {{d \in L : \A c \in T : WireEpoch(c) # WireEpoch(d)} \cup T :
        T \in IF "log" \in Faults THEN SUBSET S ELSE {S}}

(* sequence_commit: offer c, apply what is ready, stop in state t.  ok is   *)
(* FALSE when the next ready commit does not apply or its write is refused; *)
(* a refused write may be on disk all the same.                             *)
Sequence(n, c, t, ok) ==
    LET b == Offered(buf[n], c, st[n])
        next == Ready(b, t)
        fits == {x \in next : Applies(n, x, t)}
    IN  /\ t \in Reach(n, b, st[n])
        /\ ok = (next = {})
        /\ fits # {} => "store" \in Faults
        /\ st' = [st EXCEPT ![n] = t]
        /\ buf' = [buf EXCEPT ![n] =
                      IF t = st[n] /\ WireEpoch(c) = Epoch(t)
                      THEN buf[n] ELSE b \ Path(t)]
        /\ \E d \in {IF t = st[n] THEN dSt[n] ELSE t} \cup fits :
              dSt' = [dSt EXCEPT ![n] = d]
        /\ \E L \in Logged(log[n], Path(t) \ Path(st[n])) :
              log' = [log EXCEPT ![n] = L]
        /\ mode' = [mode EXCEPT ![n] = IF t = st[n] THEN mode[n] ELSE "in"]

(* The frames of F that get out.  No peers in the room is a success to the  *)
(* caller, and so are frames that nobody receives.                          *)
Published(F) == IF "publish" \in Faults THEN SUBSET F ELSE {F}

(* Mutant of Ask: the epoch is reserved and the request is not sent. *)
AskMute(n, a, t, sent) ==
    sent /\ asked' = [asked EXCEPT ![n] = Epoch(t)] /\ UNCHANGED net

(* request_resync_if_gapped in state t, with the reservation a: one request *)
(* per epoch, given back when the publication fails.                        *)
Ask(n, a, t, sent) ==
    LET frame == [type |-> "request", who |-> n, epoch |-> Epoch(t)]
    IN  IF a = Epoch(t)
        THEN sent /\ asked' = [asked EXCEPT ![n] = a] /\ UNCHANGED net
        ELSE \/ /\ sent
                /\ asked' = [asked EXCEPT ![n] = Epoch(t)]
                /\ \E F \in Published({frame}) : net' = net \cup F
             \/ /\ ~sent /\ "publish" \in Faults
                /\ asked' = [asked EXCEPT ![n] = Silent]
                /\ UNCHANGED net

-----------------------------------------------------------------------------
Init ==
    /\ tree = <<Genesis>>
    /\ net = {}
    /\ mode = [n \in Node |-> IF n \in Founders THEN "in" ELSE "out"]
    /\ st = [n \in Node |-> 1]
    /\ adm = [n \in Node |-> Creator]
    /\ buf = [n \in Node |-> {}]
    /\ asked = [n \in Node |-> Silent]
    /\ rejoin = [n \in Node |-> FALSE]
    /\ busy = [n \in Node |-> FALSE]
    /\ todo = [n \in Node |-> {}]
    /\ dSt = [n \in Node |-> IF n \in Founders THEN 1 ELSE NoState]
    /\ dAdm = [n \in Node |-> Creator]
    /\ log = [n \in Node |-> {}]
    /\ saved = [n \in Node |-> {}]

-----------------------------------------------------------------------------
(* Joining *)

(* join_group: a session without an MLS state, holding the invite's admin.  *)
Join(n) ==
    /\ mode[n] = "out"
    /\ mode' = [mode EXCEPT ![n] = "joining"]
    /\ \E F \in Published({[type |-> "package", who |-> n]}) : net' = net \cup F
    /\ UNCHANGED <<tree, st, adm, buf, asked, rejoin, busy, todo, store>>

(* retry_pending_join: the same package again. *)
RetryJoin(n) ==
    /\ mode[n] = "joining"
    /\ net' = net \cup {[type |-> "package", who |-> n]}
    /\ UNCHANGED <<tree, memory, store>>

(* accept_welcome: the Welcome must be by the admin the invite named.  The  *)
(* record, joined, is saved with the snapshot; only then does the session   *)
(* take the state.                                                          *)
RecvWelcome(n, f) ==
    /\ mode[n] = "joining"
    /\ f.type = "welcome" /\ tree[f.id].who = n /\ tree[f.id].by = adm[n]
    /\ dSt' = [dSt EXCEPT ![n] = f.id]
    /\ dAdm' = [dAdm EXCEPT ![n] = adm[n]]
    /\ \/ /\ mode' = [mode EXCEPT ![n] = "in"]
          /\ st' = [st EXCEPT ![n] = f.id]
          /\ adm' = [adm EXCEPT ![n] = Reconcile(adm[n], Members(f.id))]
       \/ "store" \in Faults /\ UNCHANGED <<mode, st, adm>>
    /\ UNCHANGED <<tree, net, buf, asked, rejoin, busy, todo, log, saved>>

-----------------------------------------------------------------------------
(* Making commits *)

(* Mutant of Install: a refused write does not stop the publication. *)
InstallAnyway(n, c, replays, frames) ==
    /\ Len(tree) <= MaxCommits
    /\ tree' = Append(tree, c)
    /\ \/ dSt' = [dSt EXCEPT ![n] = Len(tree')] \/ UNCHANGED dSt
    /\ saved' = [saved EXCEPT ![n] = replays]
    /\ st' = [st EXCEPT ![n] = Len(tree')]
    /\ log' = [log EXCEPT ![n] = log[n] \cup {Len(tree')}]
    /\ net' = net \cup frames
    /\ adm' = [adm EXCEPT ![n] = Reconcile(adm[n], c.members)]
    /\ UNCHANGED <<mode, buf, asked, rejoin, busy, todo, dAdm>>

(* The tail of admit_history_member and publish_membership_change for the   *)
(* commit c, once made: save the candidate, install it, log the commit,     *)
(* publish; the frame's reconcile_admin.  A refused write stops before the  *)
(* installation, and may be on disk all the same.                           *)
Install(n, c, replays, frames) ==
    /\ Len(tree) <= MaxCommits
    /\ tree' = Append(tree, c)
    /\ dSt' = [dSt EXCEPT ![n] = Len(tree')]
    /\ saved' = [saved EXCEPT ![n] = replays]
    /\ \/ /\ st' = [st EXCEPT ![n] = Len(tree')]
          /\ log' \in {[log EXCEPT ![n] = L] : L \in
                 LET old == {d \in log[n] : WireEpoch(d) # c.epoch - 1}
                 IN  {old \cup {Len(tree')}}
                         \cup IF "log" \in Faults THEN {log[n]} ELSE {}}
          /\ \E F \in Published(frames) : net' = net \cup F
          /\ adm' = [adm EXCEPT ![n] = Reconcile(adm[n], c.members)]
       \/ "store" \in Faults /\ UNCHANGED <<st, log, net, adm>>
    /\ UNCHANGED <<mode, buf, asked, rejoin, busy, todo, dAdm>>

Child(n, who, members) ==
    [parent |-> st[n], epoch |-> Epoch(st[n]) + 1, by |-> n, who |-> who,
     members |-> members, path |-> Path(st[n]) \cup {Len(tree) + 1}]

AdmissionFrames(c) == {[type |-> "welcome", id |-> c], [type |-> "commit", id |-> c]}

(* accept_key_package of a stranger: admit_history_member. *)
Admit(n, f) ==
    /\ Idle(n) /\ ActingAdmin(n)
    /\ f.type = "package" /\ f.who \notin Members(st[n])
    /\ mode[n] # "quit"    \* MLS makes no commit over the own removal
    /\ Install(n, Child(n, f.who, Members(st[n]) \cup {f.who}),
               {d \in saved[n] : tree[d].who # f.who} \cup {Len(tree) + 1},
               AdmissionFrames(Len(tree) + 1))

(* Mutant of ReplayAdmission: a member's package is only dropped. *)
ReplayAdmissionMute(n, f) ==
    /\ Idle(n) /\ ActingAdmin(n)
    /\ f.type = "package" /\ f.who \in Members(st[n])
    /\ UNCHANGED vars

(* accept_key_package of a member: replay_admission. *)
ReplayAdmission(n, f) ==
    /\ Idle(n) /\ ActingAdmin(n)
    /\ f.type = "package" /\ f.who \in Members(st[n])
    /\ \E c \in saved[n] :
          /\ tree[c].who = f.who
          /\ \E F \in Published(AdmissionFrames(c)) : net' = net \cup F
    /\ UNCHANGED <<tree, memory, store>>

(* Mutant of ShouldCommitDeparture: every member left takes a departing     *)
(* admin for its own to commit.                                             *)
ShouldCommitAny(n, who) == IF who # adm[n] THEN adm[n] = n ELSE TRUE

ShouldCommitDeparture(n, who) ==
    IF who # adm[n] THEN adm[n] = n ELSE Successor(Members(st[n]), who) = n

(* accept_departure: the proposal verifies only in the state it was signed  *)
(* in.                                                                      *)
CommitDeparture(n, f) ==
    /\ Idle(n)
    /\ f.type = "leave" /\ f.who # n
    /\ ShouldCommitDeparture(n, f.who)
    /\ f.at = st[n] /\ f.who \in Members(st[n])
    /\ mode[n] # "quit"
    /\ Install(n, Child(n, f.who, Members(st[n]) \ {f.who}), saved[n],
               {[type |-> "commit", id |-> Len(tree) + 1]})

-----------------------------------------------------------------------------
(* Taking commits *)

(* The commit a frame brings a joined member: a Commit that is not its own  *)
(* echo, or a Welcome for somebody, by the admin.                           *)
Brings(n, f) ==
    \/ f.type = "commit" /\ tree[f.id].by # n
    \/ f.type = "welcome" /\ adm[n] # n /\ tree[f.id].by = adm[n]

(* Mutant of RecvCommit: a closed gap leaves the rejoin hint standing. *)
RecvCommitWedged(n, f) ==
    /\ Idle(n) /\ Brings(n, f)
    /\ \E t \in States, ok \in BOOLEAN :
          /\ Sequence(n, f.id, t, ok)
          /\ IF ok /\ Gap(buf'[n], t)
             THEN \E sent \in BOOLEAN : Ask(n, asked[n], t, sent)
             ELSE UNCHANGED <<asked, net>>
          /\ adm' = [adm EXCEPT ![n] = Reconcile(adm[n], Members(t))]
    /\ UNCHANGED <<tree, rejoin, busy, todo, dAdm, saved>>

(* apply_commit_sequenced, then the frame's reconcile_admin, which runs     *)
(* once however many commits the frame moved.                               *)
RecvCommit(n, f) ==
    /\ Idle(n) /\ Brings(n, f)
    /\ \E t \in States, ok \in BOOLEAN :
          /\ Sequence(n, f.id, t, ok)
          /\ IF ok /\ Gap(buf'[n], t)
             THEN (\E sent \in BOOLEAN : Ask(n, asked[n], t, sent))
                      /\ UNCHANGED rejoin
             ELSE /\ rejoin' = [rejoin EXCEPT ![n] = rejoin[n] /\ ~ok]
                  /\ UNCHANGED <<asked, net>>
          /\ adm' = [adm EXCEPT ![n] = Reconcile(adm[n], Members(t))]
    /\ UNCHANGED <<tree, busy, todo, dAdm, saved>>

(* accept_resync_request: the log from the epoch the member stands at. *)
ServeResync(n, f) ==
    /\ Idle(n) /\ ActingAdmin(n)
    /\ f.type = "request" /\ f.who # n
    /\ net' = net \cup {[type |-> "response", who |-> f.who,
                         commits |-> {c \in log[n] : WireEpoch(c) >= f.epoch}]}
    /\ UNCHANGED <<tree, memory, store>>

(* absorb_resync_response takes the replay ... *)
RecvResponse(n, f) ==
    /\ Idle(n)
    /\ f.type = "response" /\ f.who = n
    /\ busy' = [busy EXCEPT ![n] = TRUE]
    /\ todo' = [todo EXCEPT ![n] = f.commits]
    /\ UNCHANGED <<tree, net, mode, st, adm, buf, asked, rejoin, store>>

(* ... absorb_resync_commits feeds it to the sequencer in epoch order,      *)
(* whatever becomes of each commit ...                                      *)
AbsorbNext(n) ==
    /\ busy[n]
    /\ \E c \in todo[n] :
          /\ \A d \in todo[n] : WireEpoch(c) <= WireEpoch(d)
          /\ \E t \in States, ok \in BOOLEAN : Sequence(n, c, t, ok)
          /\ todo' = [todo EXCEPT ![n] = @ \ {c}]
    /\ UNCHANGED <<tree, net, adm, asked, rejoin, busy, dAdm, saved>>

(* ... and what is still missing is asked for once more and flagged.        *)
EndAbsorb(n) ==
    /\ busy[n] /\ todo[n] = {}
    /\ busy' = [busy EXCEPT ![n] = FALSE]
    /\ IF Gap(buf[n], st[n])
       THEN \E sent \in BOOLEAN :
               /\ Ask(n, Silent, st[n], sent)
               /\ rejoin' = [rejoin EXCEPT ![n] = rejoin[n] \/ sent]
       ELSE rejoin' = [rejoin EXCEPT ![n] = FALSE] /\ UNCHANGED <<asked, net>>
    /\ adm' = [adm EXCEPT ![n] = Reconcile(adm[n], Members(st[n]))]
    /\ UNCHANGED <<tree, mode, st, buf, todo, store>>

(* The transitions p can prove: the commits of its path since, and with,    *)
(* its own admission.                                                       *)
Evidence(p) == {c \in Path(st[p]) : p \in Members(c)}

(* install_transition_evidence: one missing commit, pulled from a member    *)
(* that is ahead.  The sequencer does not hear of it, nor does the log.     *)
InstallTransition(n, p) ==
    /\ Idle(n) /\ Joined(p) /\ p # n
    /\ \E c \in Evidence(p) :
          /\ Applies(n, c, st[n]) /\ n \in Members(c)
          /\ dSt' = [dSt EXCEPT ![n] = c]
          /\ \/ /\ st' = [st EXCEPT ![n] = c]
                /\ adm' = [adm EXCEPT ![n] = Reconcile(adm[n], Members(c))]
                /\ rejoin' = [rejoin EXCEPT ![n] = FALSE]
                /\ mode' = [mode EXCEPT ![n] = "in"]
             \/ "store" \in Faults /\ UNCHANGED <<mode, st, adm, rejoin>>
    /\ UNCHANGED <<tree, net, buf, asked, busy, todo, dAdm, log, saved>>

-----------------------------------------------------------------------------
(* Leaving, saving, dying *)

Forget(n) ==
    /\ st' = [st EXCEPT ![n] = 1]
    /\ adm' = [adm EXCEPT ![n] = Creator]
    /\ buf' = [buf EXCEPT ![n] = {}]
    /\ asked' = [asked EXCEPT ![n] = Silent]
    /\ rejoin' = [rejoin EXCEPT ![n] = FALSE]
    /\ busy' = [busy EXCEPT ![n] = FALSE]
    /\ todo' = [todo EXCEPT ![n] = {}]

(* close: announce the departure, then forget the group.  The group stays   *)
(* on disk when the deletion is refused or the process dies before it; the  *)
(* session stays open when the admin's handoff frame cannot be published.   *)
Leave(n) ==
    /\ n \in Leavers
    /\ Idle(n) /\ n \in Members(st[n])
    /\ net' = net \cup {[type |-> "leave", who |-> n, at |-> st[n]]}
    /\ \/ /\ mode' = [mode EXCEPT ![n] = "gone"]
          /\ Forget(n)
          /\ dSt' = [dSt EXCEPT ![n] = NoState]
          /\ log' = [log EXCEPT ![n] = {}]
       \/ /\ "leave" \in Faults
          /\ mode' = [mode EXCEPT ![n] = "down"]
          /\ Forget(n)
          /\ UNCHANGED <<dSt, log>>
       \/ /\ "leave" \in Faults
          /\ ActingAdmin(n) /\ Successor(Members(st[n]), n) # n
          /\ mode' = [mode EXCEPT ![n] = "quit"]
          /\ UNCHANGED <<st, adm, buf, asked, rejoin, busy, todo, dSt, log>>
    /\ UNCHANGED <<tree, dAdm, saved>>

(* write_extra: the record and the snapshot, with some message's row. *)
SaveRecord(n) ==
    /\ Idle(n)
    /\ dSt' = [dSt EXCEPT ![n] = st[n]]
    /\ dAdm' = [dAdm EXCEPT ![n] = adm[n]]
    /\ UNCHANGED <<tree, net, memory, log, saved>>

(* The process dies.  A join that was never saved is forgotten. *)
Crash(n) ==
    /\ "crash" \in Faults
    /\ mode[n] \in {"joining", "in", "quit"}
    /\ mode' = [mode EXCEPT ![n] = IF dSt[n] = NoState THEN "gone" ELSE "down"]
    /\ Forget(n)
    /\ UNCHANGED <<tree, net, store>>

(* rehydrate: the saved tree outranks the saved admin; everyone but the     *)
(* admin asks for what it may have missed.                                  *)
Restart(n) ==
    /\ mode[n] = "down"
    /\ mode' = [mode EXCEPT ![n] = "in"]
    /\ st' = [st EXCEPT ![n] = dSt[n]]
    /\ adm' = [adm EXCEPT ![n] = Reconcile(dAdm[n], Members(dSt[n]))]
    /\ \E F \in Published(IF adm'[n] = n THEN {} ELSE
            {[type |-> "request", who |-> n, epoch |-> Epoch(dSt[n])]}) :
          net' = net \cup F
    /\ UNCHANGED <<tree, buf, asked, rejoin, busy, todo, store>>

-----------------------------------------------------------------------------
Receive(n, f) ==
    \/ RecvWelcome(n, f) \/ Admit(n, f) \/ ReplayAdmission(n, f)
    \/ CommitDeparture(n, f) \/ RecvCommit(n, f) \/ ServeResync(n, f)
    \/ RecvResponse(n, f)

Step(n) ==
    \/ Join(n) \/ RetryJoin(n) \/ AbsorbNext(n) \/ EndAbsorb(n)
    \/ Leave(n) \/ SaveRecord(n) \/ Crash(n) \/ Restart(n)
    \/ \E f \in net : Receive(n, f)
    \/ \E p \in Node : InstallTransition(n, p)

Next == \E n \in Node : Step(n)

Spec == Init /\ [][Next]_vars

-----------------------------------------------------------------------------
(* Properties *)

(* Every variable keeps its type.  A buffer never outgrows BUFFER_CAP and   *)
(* holds one commit per epoch, and so does the commit log.                  *)
TypeOK ==
    /\ tree \in Seq(GroupState) /\ Len(tree) \in 1..(MaxCommits + 1)
    /\ net \subseteq Frame
    /\ mode \in [Node -> Mode]
    /\ st \in [Node -> States]
    /\ adm \in [Node -> Node]
    /\ buf \in [Node -> SUBSET Commits]
    /\ asked \in [Node -> {Silent} \cup 0..MaxCommits]
    /\ rejoin \in [Node -> BOOLEAN]
    /\ busy \in [Node -> BOOLEAN]
    /\ todo \in [Node -> SUBSET Commits]
    /\ dSt \in [Node -> {NoState} \cup States]
    /\ dAdm \in [Node -> Node]
    /\ log \in [Node -> SUBSET Commits]
    /\ saved \in [Node -> SUBSET Commits]
    /\ \A n \in Node :
          /\ Cardinality(buf[n]) <= BufferCap
          /\ \A S \in {buf[n], log[n]} : \A c, d \in S :
                WireEpoch(c) = WireEpoch(d) => c = d

(* The commits that left their author: in a Commit, in a Welcome, or in a   *)
(* replay.                                                                  *)
Circulating ==
    {f.id : f \in {g \in net : g.type \in {"commit", "welcome"}}}
        \cup UNION {f.commits : f \in {g \in net : g.type = "response"}}

(* The commits that may still spread: on the path to one that circulates,  *)
(* or to the state of an open session.                                      *)
Standing ==
    UNION ({Path(c) : c \in Circulating}
               \cup {Path(st[n]) : n \in {m \in Node : Joined(m)}})

(* A member that announced its departure and did not get away goes on as if *)
(* it had never said so; Deserted: one of them made such a commit in the    *)
(* very state it announced its departure in.                                *)
Parting == {f \in net : f.type = "leave"}
Deserted ==
    \E f \in Parting, c \in Standing :
        f.who = tree[c].by /\ f.at = tree[c].parent

(* The group never forks: of every epoch at most one commit circulates,     *)
(* although the admin role moves, members act on stale pointers and authors *)
(* crash between saving and publishing (should_commit_departure: "exactly   *)
(* one member acts").  Only an admin that commits after announcing its own  *)
(* departure, which nothing in close.rs prevents, can split it.             *)
NoFork ==
    \A c, d \in Circulating : Epoch(c) = Epoch(d) => c = d \/ Deserted

(* The states two open sessions stand in lie on one line, so a member that  *)
(* is behind can always be brought forward by replay.                       *)
OneChain ==
    \A n, p \in Node : Joined(n) /\ Joined(p) =>
        Path(st[n]) \subseteq Path(st[p]) \/ Path(st[p]) \subseteq Path(st[n])

(* At most one open session takes itself for the admin (acting_admin), not  *)
(* counting one that announced its departure and did not get away.          *)
OneAdmin ==
    \A n, p \in Node :
        /\ ActingAdmin(n) /\ ActingAdmin(p)
        /\ \A f \in Parting : f.who \notin {n, p}
        => n = p \/ Deserted

(* A commit that circulates is in the durable state of its author, so the   *)
(* author never comes back from a restart to make a second one in its place *)
(* (publish_membership_change and admit_history_member save first).         *)
AuthorKeepsCommit ==
    \A c \in Circulating :
        dSt[tree[c].by] # NoState => c \in Path(dSt[tree[c].by])

(* needs_rejoin is a hint about commits that are missing: between frames it *)
(* stands only while a commit of the current or a later epoch is buffered.  *)
(* An admin's own commits do not take the hint back; it has none to take    *)
(* back unless the group was split.                                         *)
RejoinHasCause ==
    \A n \in Node : Idle(n) /\ rejoin[n] =>
        (\E c \in buf[n] : WireEpoch(c) >= Epoch(st[n])) \/ Deserted
=============================================================================
