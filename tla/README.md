# Mosh: formal model

Mosh is a peer-to-peer messenger: a Flutter application (`lib/`) over a Rust core
(`mosh-core/`). Conversations are MLS groups carried by Moss, a gossip network without
servers; every device keeps its own encrypted store. This directory holds TLA+ modules of
the parts of the core whose correctness depends on the order of store writes,
publications, receipts and crashes. Paths below are relative to `src/`.

## 1. Inventory

| Component | State | Operations | Talks to | What is hard |
| --- | --- | --- | --- | --- |
| DM text delivery (`private_dm_runtime/{outbox,resend,data,service}.rs`, `conversation/{outbound,runtime_writes,history}.rs`) | message log, attempts, dirty list, pending writes, ratchet; rows, attempts, snapshot on disk | send, retry, tick, receive text, receive acknowledgement, restart | store, MLS, Moss | a crash between any two effects, refused writes, lost frames, generations that decrypt once |
| Group membership (`commit_sequencer.rs`, `private_group_runtime/`) | MLS state, admin pointer, buffer of future commits, resync reservation, rejoin hint; snapshot, record, commit log, admission replays on disk | join, admit, leave, commit a departure, apply, buffer, resync, history pull, restart | store, MLS, Moss | who may commit, commits out of order, the admin leaving, saved state of different ages |
| Org-group gate (`private_group_runtime/org_gate.rs`) | signed roster, deferred admissions | admit, evict, reconcile | organisations | roster and MLS tree move independently |
| DM handshake (`private_dm_runtime/{invitations,invitation_admission,pending_join,lifecycle,control}.rs`) | invitation with token and target, admitted signer, session state; the record on both sides | create, replace, bind, open, accept, admit, Welcome, repeat, close, restart | store, MLS, Moss | several people open one link, links replaced under way, restart around the Welcome |
| Calls (`private_dm_runtime/calls/`) | one call per session, occupancy leases, sequence book, closed calls, repeated terminal controls | start, accept, decline, end, receive a control, repeat, expire, restart | devices, native call engine | both sides call at once, several devices answer, controls lost or overtaken |
| DM devices (`private_dm_runtime/devices/`) | device membership, proofs, receipts | admit, revoke, rejoin | device linking | a device joining while texts are in flight |
| Group messages and history (`private_group_runtime/{data,outbound}.rs`, `history/`) | messages, membership intervals, pages | send, pull, import | store | who may read which page |
| Channels (`channel_runtime/`) | public log | send, pull | Moss | little: best effort |
| Organisations (`org_runtime/`, `persistence/org_acceptances.rs`) | roster, offers, pending acceptances | offer, accept, retire | DM and group runtimes through the store | two records that must agree across a crash |
| Deletion (`message_deletion/`, `persistence/deletion_guard.rs`) | journal of records in memory and on disk, own acceptances, rows, attempts | delete for me, delete for everyone, page, receipt, reconcile, copy between linked devices | every runtime, store | deletion before the message, roles that change under way, rows of different ages |
| Attachments (`conversation/transfer*.rs`, `attachment_runtime.rs`) | chunks, checkpoints | request, serve, resume | store | scheduling, resumption |
| Recovery (`conversation/recovery/`) and device linking (`device_link/`) | journal, slots, roster | export, import, pair | DM devices | resumption, replays |
| Shared node and inbox (`shared_node.rs`, `inbox.rs`) | reference counts, queues per owner | acquire, release, deliver, drain | Moss | counts of four runtimes, bounded queues |
| Read marks, typing, mesh; native call engine; Plus; bridge API; secret storage; diagnostics; Flutter UI; platform shells | see `PROJECT.json` | | | |

Runtimes are driven by one service thread and by bridge calls; both take the runtime's
lock, so handlers of one runtime do not interleave with each other. What does interleave
is everything outside the lock: other devices, the network, the store's verdicts, and the
death of the process between two effects. That is what the modules are about.

What makes the modelled components correct:

* DM delivery: a text whose send was refused never leaves; a text that left is never
  forgotten; Delivered is honest and final; no ratchet generation is used twice; texts
  leave in order; every accepted text settles.
* Group membership: of one epoch one commit circulates; all members stand on one line of
  states; one member acts as admin; an author never restarts behind its own commit; joins
  and gaps end.
* Calls: at most one device of each user is in a call, both agree on which; of two calls
  that cross one stands; an ended call does not ring again and is logged once; an answer
  is settled.
* Invitations: one counterpart per invitation, for good; nobody comes in by a link that was
  withdrawn; once admitted, the handshake completes.
* Organisations: an accepted offer, with the keys of its acceptance, is kept until the
  conversation is durable, and what is resolved stays resolved.
* Deletion: a receipt can be relied on; what is erased stays erased; a role that was taken
  away moderates nothing any more; the exchange rests only in agreement.

## 2. Plan

1. `DmDelivery`, `DmContract`, their runs and first theorems (done).
2. `GroupCommits` with safety and liveness (done).
3. `Calls`, `Invitation`, `OrgAcceptance`, `Deletion` (done).
4. Proofs of every safety property the runs check, and of the refinement of `DmContract`
   (done, section 5).
5. Left: `SharedNode` and `Inbox` (reference counts and filing of frames), attachment transfer,
   conversation recovery, device linking, the org roster as a second source of membership
   in `GroupCommits`.

## 3. Modules

| Module | Role |
| --- | --- |
| `DmDelivery` | one direction of a DM after the handshake |
| `DmContract` | what a DM promises its two users |
| `MCDmDelivery` | bounds the number of faults (`FaultSpec`) |
| `MCDmLive` | adds fairness and frames lost for good (`LiveSpec`) |
| `DmDeliveryProofs`, `DmStoreProofs` | theorems about `DmDelivery`: types, ratchets and receipts; what the store knows, and the refinement of `DmContract` |
| `GroupCommits` | membership of one plain group |
| `MCGroup` | bounds the number of crashes (`CrashSpec`) |
| `MCGroupLive` | adds fairness (`JoinSpec`, `GapSpec`) |
| `GroupProofs`, `GroupLineProofs` | theorems about `GroupCommits`: types and the tree; the group keeps one line |
| `Calls` | call signalling between the devices of a DM's two users |
| `MCCalls`, `MCCallsLive` | the environments to explore; fairness (`LiveSpec`) |
| `Invitation`, `MCInvitation` | one invitation, its creator and everyone who opens it |
| `OrgAcceptance`, `MCOrg` | offers of an organisation at one installation |
| `Deletion`, `MCDeletion`, `MCDeletionRetry` | deletion of the messages of a private group; the retry of a send that is being deleted |
| `InvitationProofs`, `OrgProofs`, `CallsProofs`, `DeletionProofs` | theorems about `Invitation`, `OrgAcceptance`, `Calls` and `Deletion` |

### DmDelivery

`S` writes, `R` receives. A command (`service`, `send_message`, `retry_message`) holds the
runtime, so it is a chain of steps driven by `pcS` (`pcR` for `R`); each step is one
effect visible outside, a store transaction or a published frame, with the memory changes
that lead to it.

| Model | Code |
| --- | --- |
| `msg`, `attempt`, `dirty`, `pend` | delivery status, `outbound_attempts`, `dirty_outbound`, `PendingWrites.sends` |
| `crypto`, `snap` | MLS ratchets in memory, and the saved snapshot |
| `dMsg`, `dAttempt`, `rows` | message and attempt rows |
| `SStart`, `SRecvAck`, `SRecvHello`, `STick` | start of a command, `accept_delivery_ack`, `note_authenticated_frame`, `pump_liveness` |
| `SResend`, `STakeDirty`, `SFlush` | `pump_unacked_resends`, `take_dirty_outbound` and its flush in `tick` |
| `SStartDeliver`, `SDeliver`, `SPublish`, `SSettled`, `SEndDeliver` | `deliver_queued`, `publish_text`, `settle` |
| `STailSend`, `SEndTailSends`, `STailRow`, `STailState` | `persist_tail` |
| `SSendAdmit`, `SRetryAdmit`, `SRefuse`, `SActivate`, `SRetryNothing` | `send_message`, `retry_message`, `admit_queued` |
| `SCrash`, `SRestart`, `ReplayAttempt`, `ReplayMessage` | loss of memory; `restore_session`, `replay`, `settle_orphaned_sends` |
| `RRecvData`, `RTick`, `RTailRow`, `RTailState`, `RCrash`, `RRestart` | `handle_data` and the receiver's tick and store |

Every store call may land, be refused, be refused although it landed (`uncertain`), or
save the row and not the session state behind it. A publication succeeds, fails, or has
nothing to hand over. The network is the set of all frames ever published: a frame may
arrive any number of times, in any order, or never.

Left out: clocks (a deadline may be due at any tick), the texts themselves, retry counters
and timestamps that only the UI shows, the receiver's own outbox (the other direction is
the same program), deletion of a queued text, linked devices (`devices_live` is false).
The received log is a set, so "shown once" is not a claim of this module.

### GroupCommits

MLS is a tree of group states. `tree[1]` is the state the founders share; every other
entry is a commit, identified with the state it leads to. A commit applies only at the
state it was made in.

| Model | Code |
| --- | --- |
| `st`, `adm`, `buf`, `asked`, `rejoin` | MLS state, `current_admin_fingerprint`, `buffered`, `last_requested_epoch`, `needs_rejoin` |
| `dSt`, `dAdm`, `log`, `saved` | snapshot, record, commit log, admission replays |
| `Join`, `RetryJoin`, `RecvWelcome` | `join_group_restoring`, `retry_pending_join`, `accept_welcome` |
| `Admit`, `ReplayAdmission` | `admit_history_member`, `replay_admission` |
| `CommitDeparture`, `ShouldCommitDeparture`, `Install` | `accept_departure`, `should_commit_departure`, `publish_membership_change` |
| `RecvCommit`, `Sequence`, `Offered`, `Reach`, `Gap` | `apply_commit_sequenced`, `sequence_commit`, `offer`, the drain loop, `gap` |
| `ServeResync`, `RecvResponse`, `AbsorbNext`, `EndAbsorb` | the resync request and its answer |
| `InstallTransition` | `install_transition_evidence`, a commit obtained by a history pull |
| `Leave`, `SaveRecord`, `Crash`, `Restart` | `close`, the record save, death, `resume_group` |

A control frame is handled in one step, except a resync answer, whose commits are absorbed
one per step because a refused write stops one of them and not the rest. Frames leave a
handler at its end, so dying inside one equals a handler stopped by a refused write or a
failed publication, followed by `Crash`. `Faults` says which of these a run allows:
`store` (saves refused or uncertain), `log` (commit log writes refused), `publish` (frames
that do not get out), `crash`, and `leave` (the announced departure is not followed by the
deletion of the group).

Abstractions: fingerprints are numbers whose order decides the succession; a publication
into a room without peers counts as success, as in the code; the mode `quit` is an admin
whose handoff could not be published and whose own removal is pending, so that MLS makes
no commit for it; a restart from `quit` is taken as a restart from `in`; the record may be
saved at any time, because message rows save it too; a joiner that dies loses a join that
was not saved; the 3 s limit on replays and the retry timers are left out; a joiner accepts
only the Welcome of the creator its invite names. Org groups are not part of the module.

### Calls

Every device of the two users runs the same session. A handler is an operator from the
device's state to its next state; an action applies one handler, saves the record and
publishes, and its `outcome` says whether the publication was sent and the record saved.

| Model | Code |
| --- | --- |
| `dev[d].call`, `closed`, `seq`, `got`, `ends` | `CallState`, `CallProtocolBook` (closed calls, own and received sequences), repeated terminal controls |
| `dev[d]`'s reservations | `occupancy.rs`: which calls the user's other devices hold |
| `disk` | the part of it in the saved session record |
| `CallStart`, `CallAccept`, `CallDecline`, `CallEnd` | the four user calls |
| `HandleCallControl` with `ReceiveAnswer`, `ClosedCallOffer`, `Yields`, `Permitted` | `receive.rs`, `offer.rs`: one received control |
| `Resend`, `RetryEnd`, `Expire` | `pump_call_signaling`, `terminal.rs`, leases and deadlines |
| `LearnRemoval`, `Crash`, `CrashAfterEnding` | `reconcile_call_authority`, restarts |

A control that is never taken in is lost; MLS opens a control once; a sequence older than
the newest of its signer is dropped. Deadlines may strike at any time. `past` is history:
calls served, given up, or heard to have ended.

### Invitation

| Model | Code |
| --- | --- |
| `creator`, `saved` | the creator's session with its `InviteLifecycle`, and its record |
| `joiner`, `kept`, `drawn` | sessions, records and MLS signers of those who open a link |
| `CreateInvite`, `ReplaceInvite`, `TargetInvite`, `OpenSession`, `CreatorClose` | operations of the creator's user |
| `RecvPackage` with `Acceptable`, `Admit`, `AnswerAgain` | `admit_invitation_package`, `answer_key_package` |
| `Accept`, `ResendPackage`, `RecvWelcome`, `JoinerClose` | `accept_invite_restoring`, `pump_handshake`, `accept_welcome` |
| `CreatorHello`, `CreatorRecvHello`, `JoinerHello`, `JoinerRecvHello`, the `Lapse`s | the Hello exchange and `pump_liveness` |
| `CreatorTail`, `JoinerTail`, `CreatorCrash`, `JoinerCrash` | `persist_session_tail`, `rehydrate` |

Packages and Welcomes may arrive late and repeatedly, a Hello decrypts once. Every fault
(lost frame, refused or uncertain write, crash, lapse, closed chat) is counted in `faults`.

### OrgAcceptance

The org runtime's record and the conversations' own records live in one store and are
written by different transactions.

| Model | Code |
| --- | --- |
| `org`, `disk`, `roster` | `OrgSession`, `PersistedOrgRecord`, the saved roster |
| `held`, `native` | conversations in memory and on disk |
| `ReceiveOffer`, `DismissOffer`, `AcceptOffer`, `PublishJoin` | `accept_offer`, `dismiss_*_offer`, `api/org_workflows.rs` |
| `Reconciled`, `Retire`, `NativeDurable` | `write_org_record` and what it reconciles |
| `SaveNative` | the conversation's transaction with `retire_accepted_offers` |
| `Poll`, `Reexpose`, `OfferRecovery` | `refresh_acceptances`, `reexpose_acceptance`, `offer_recovery` |
| `JoinOrg`, `LeaveOrg`, `CloseOrgGroups`, `AbsorbRoster`, `Crash` | the org's life cycle |

`busy` is the offer whose acceptance holds both runtimes. The other side is external: a DM
lets in the first signer whose package it gets, a group everyone. `accepted`, `renounced`,
`durable` and `shut` are history.

### Deletion

| Model | Code |
| --- | --- |
| `mem[m]`, `disk[m]`: `rec`, `me`, `accepted`, `row`, `attempt` | `DeletionBook` with message log and attempts; deletion, acceptance, history and outbound tables |
| `Merged`, `Validate`, `MayAck`, `Marker` | `merged`, `validate`, `may_ack_with_proof`, `marker` |
| `Install`, `Committed`, `Unchanged`, `Changes` | `install`, `commit_message_deletions`, `unchanged`, `prepare` |
| `Guarded` | `write_history_row`, `erase_known_target`: a row about to be written meets a tombstone |
| `DeleteForMe`, `DeleteForEveryone` | `delete_for_me`, `admit` |
| `Turn`, `Reconcile`, `PersistTail`, `Drain`, `Service` | `apply`, `sync_deletions` and `persist_tail`: what `drain_inbound` does after the frames |
| `owed[m]`, `Due`, `WriteSends` | `PendingWrites`: the sends and publications to be saved again; `commit_send` |
| `Serve`, `ReceiveState`, `ReceiveAck` | `receive_request`, `receive_state`, `acknowledge` |
| `RetryMessage`, `RetryRefused`, `ReceiveText` | `retry_message` with a first save that goes through or fails; `handle_data` |
| `CopyJournal`, `LearnRoster`, `Crash` | `save_account_deletions`, a new roster, a restart |

A member publishes its digest every two seconds and answers a digest that differs from its
own with a page; the digests are not frames of the model, `Serve` is enabled while some
member's digest differs. The last page of a member stays on the wire until it publishes
another, receipts stay for good; both may arrive any number of times or never. A page holds
the whole journal (the code sends 16 records and a cursor). After a restart the journal in
memory is empty until the first service turn, as in the code.

A user call begins with `drain_inbound`, so `DeleteForMe`, `DeleteForEveryone` and the two
retries begin with `Drain`, in the same step and with every way its writes can end; its
errors are logged and the call goes on. `retry_message` then saves the attempt, publishes
it and saves again. Any of these can fail: a first save that is refused, or that commits the
rows and is refused the session's snapshot behind them, publishes nothing and keeps the
attempt (`RetryRefused`); a publication that fails keeps it too, and a last save that fails
is owed (`RetryMessage`, `sent` and `w`). Device linking runs in a thread of its own, so the
journal of a linked device can land on disk between the drain and the first save
(`Reopened`).

## 4. Runs

| Run | Question | Bounds |
| --- | --- | --- |
| `dm_faults` | do the safety properties and `DmContract` hold for one text with faults anywhere? | 1 text, 4 faults, 1 resend, 2 ciphertexts per side |
| `dm_live` | does every accepted text settle, also behind one that cannot be published, and without overtaking it? | 2 texts, the older oversized, 3 faults, 3 resends |
| `group_chain` | do all members stay on one line? | 4 nodes, 3 commits, 2 leavers, buffer of 1, frames that do not get out |
| `group_faults` | one commit per epoch, one admin, no author behind its own commit, an honest rejoin hint, when members restart from what was saved? | 3 nodes, 3 commits, store and log faults, 2 crashes or one departure whose deletion fails |
| `group_join` | does a pending join end? | 3 nodes, frames that do not get out, 2 crashes |
| `group_gap` | does a gap close? | 4 nodes, 2 commits, 1 crash |
| `calls` | one device per user, one call of two that cross, no ring after the end, no sequence twice, one log row, no end from outside? | 11 environments of 2 or 3 devices, 2 calls per device, 2 to 4 controls per device, memory of 1 closed call |
| `calls_live` | do crossing calls and answers settle? | 2 or 3 devices, 9 controls each |
| `invitation` | one counterpart, by a standing link, and does its handshake complete? | 2 installations, a replaced link, any two faults |
| `org` | is an accepted offer kept until its conversation is durable, and a resolved one resolved? | 1 DM offer, 2 offers of one group, 2 signers per offer, any two faults |
| `deletion` | are receipts reliable, erasures final, revoked moderations dead, and is rest agreement? | 2 linked devices and an admin, 1 message, 1 operation, crash and new roster, crash and refused write, or personal deletion |
| `deletion_cancel` | is a send never published once its row is erased on disk, as ADR 0040 has it? No: see the findings | 2 linked devices, 1 message, 1 operation, 2 refusals, 1 crash, 1 personal deletion |

Why the bounds are enough to be interesting. Four faults let one text meet a refused or
uncertain admission, a crash, a refused repair of what the restart found, and a crash of the
other side, in any order. Two texts are what order needs, and two failed
publications get both into the outbox at once; that order holds for any number of texts,
retries and faults is proved (`LeavesInOrder`). Two ciphertexts per side let one
generation be lost and the next one used. A fork needs two authors and one epoch, which two
commits and three nodes allow; the fourth node is a bystander who sees only some of the
frames. A third commit is what overflows a buffer of one, and lets a successor act after it
took over. As many faults as resends is the most that automatic delivery can survive; the
code's `AUTO_RESEND_MAX` is 10, the run's is 3. Calls need two devices on one side for the
selection, two callers for the crossing, and a second call for the memory of closed ones;
exploring these as separate environments keeps each exhaustive. Three of them (`Busy`,
`HangingUp`, `Refusing`) let a device refuse or give up a call and then be accepted before
its first word arrives, which takes three or four controls of each. An invitation needs two
people after one link. Two offers of one group are what makes two acceptances compete for
one conversation. A deletion needs a linked device, which may not confirm it, a member of
another account, who may, and someone whose role can change; one operation is enough for
every order of request, page, receipt, text, restart and roster. What several records in
one page do to each other (see the observation on `receive_state`) is beyond this run: with
two operations the state space does not fit. A retry meets a deletion three times: when the
journal lands, when a failing save or publication leaves the attempt in memory over an
erased row, and when the next drain is refused. `deletion` has every single refusal in that
(`ErasedForGood` says what holds then, and the proof covers any number), `deletion_cancel`
the two that the finding needs.

`PROJECT.json` names for each property a change of the code that breaks it.

### Fairness

`MCDmLive`: the service thread ticks as long as the process lives, a started command runs
to its end, a dead process is started again, frames in flight arrive, and the resend
cadence elapses. The 15 s and 25 s deadlines are far above the time a frame needs, so a
deadline only passes when nothing is in flight. A frame lost for good and a lost
connection count as faults, and there are at most as many faults as automatic resends:
past that the code leaves a text Sent until the peer is heard again, by design.

`MCGroupLive`: the service turn drains the inbox and republishes a pending join; the app
is started again after it died; a frame that is published again and again gets out; a
resync frame that got out arrives. Nothing is assumed of Commit frames, of history pulls
or of the store.

`MCCallsLive`: the tick of a device drains what arrived and repeats what is due. Nobody
hangs up, no deadline passes and no device stops; otherwise a call may simply end. Users
need not answer. `Invitation`: the tick of either side drains, repeats the package or the
Hello, and saves what is due; users and faults are free to come in between.

`Deletion` states convergence without fairness: `RestIsAgreement` says that no state in
which neither a service turn nor one more page would change anything has members that
disagree. `merged` only moves a record upwards (pending, rejected, confirmed, confirmed
with a lower key), so an exchange cannot go on for ever.

### Findings

`deletion_cancel` is violated. A device publishes a message, the save of the outcome is
refused and the device restarts, so that it holds the send as failed. Its linked device, which
has received the message, deletes it. The author retries; the journal of the linked device
lands after the drain, and the first save erases row and attempt on disk. The publication
fails (or that save's snapshot does), which leaves the text and its attempt in memory. In the
next retry `apply` is refused (`private_group_runtime/service.rs`: logged, and the loop goes
on), and `publish_prepared` (`private_group_runtime/outbound.rs`) takes the attempt from memory
and publishes a text that is erased on the author's own disk. ADR 0040 says that writes
"cannot restore content or a cancelled send"; the write indeed does not, and the send it
cancelled goes out. A drain that applies the journal stops it: `ErasedForGood` states that
nothing is published over a tombstone unless the store refuses something in the very call,
and is proved.

### Observations

What the models show beside the properties that hold, each at the code it is about:

* `private_dm_runtime/data.rs`, `handle_data`: the acknowledgement leaves from memory. A
  receiver that dies before its tail write has lost a text that the sender shows as
  Delivered, although `control.rs` says "The peer's runtime holds the message".
* `private_group_runtime/close.rs`: the departure is published before the group is
  deleted. An admin that dies in between comes back as admin beside its successor, and
  both may commit. `NoFork`, `OneAdmin` and `RejoinHasCause` except exactly this
  (`Deserted`: a member made, in the very state it announced its departure in, a commit
  that still stands), and section 5 proves that nothing else splits a group.
* `private_group_runtime/commits.rs`: `reconcile_admin` runs once per frame over the last
  tree. A member whose frame drains both the admin's removal and the successor's admission
  of a member with a lower fingerprint names the newcomer, although ADR 0023 says that
  all paths end at the same admin.
* `commit_sequencer.rs`, `gap`: only the lowest buffered epoch is looked at. A history pull
  that advances the session leaves a stale entry there, which hides the gap behind it. A
  refused save that stops the drain leaves a ready commit buffered until the next frame,
  and a resync request published into an empty room keeps its reservation.
* `private_dm_runtime/outbox.rs`, `admit_queued`: a text shown as Queued whose activation
  write was refused comes back as Failed. A text that used up its automatic resends stays
  Sent until the peer is heard again, by design.
* `private_dm_runtime/calls/state.rs`, `matches_id`: a callee declines a call and calls
  back before the caller heard of it; the caller merges the two, and the late or repeated
  Decline ends the new call. `docs/Features/voice-calls.md` says that delayed controls
  "cannot affect a replacement call"; `SelectedPairKeepsCall` therefore counts giving up
  the merged call as giving up the call. The same happens when a device hangs up its own
  call, or has it declined by a third device, and then accepts the call that had merged it.
* `private_dm_runtime/calls/offer.rs`, `receive_call_offer`: a busy refusal neither closes
  the call nor ends the ringing. The device becomes free, the repeated offer rings, it is
  accepted and selected; the late refusal, which is terminal and now comes from the
  selected device, ends the accepted call. `SelectedPairKeepsCall` counts it as giving up.
* `private_dm_runtime/pending_join.rs`: a plain joiner that dies before its Welcome is
  saved loses its signer, and the invitation, bound to that signer, is used up.
* `org_runtime/acceptance.rs`: a dismissal reported as failed although it was saved leaves
  an offer that can still be accepted and is then not retained. A second accepted offer of
  one group leaves the older acceptance pending until it is dismissed. Leaving deletes the
  record and closes the groups in a second step.
* `message_deletion/receive.rs`, `receive_state`: the first record a receiver cannot admit
  ends the page, so records behind it and receipts for those before it are not processed.
  After a role was taken away, a moderation that only some members accepted does not reach
  the others any more; `RestIsAgreement` is stated for an unchanged roster.
* `private_group_runtime/history/publication.rs`, `write_publication`: the owed write of a
  publication is made from the message in memory, as it was sent. If the message is erased
  there before the write is repeated, it fails for good: until the next start `persist_tail`
  fails at every turn, and with it every `delete_messages`, which wants no write owed.
* A commit of the store that is reported as failed although it was made closes the store
  until the next start. For deletions that is a commit and a restart, both of which the model
  has, so `Install` knows only saved and refused.
* ADR 0040 has a rejected deletion shown as deleted only for oneself; the personal record
  wins the marker, so the row is hidden, which the tests assert.

## 5. Proofs

Every theorem holds for all values of the constants that satisfy the named assumptions of
its component's module, and for any number of faults. The assumptions are: bounds are
natural numbers (`ClosedCap`, `MaxReservations`, `MaxEnds` and `Tokens` at least 1, as in
the code), sets lie where their names say, two devices have different ranks, and `None`, the
model's "nothing", is not one of the things it stands in for (`NoneAssumption` of
`Invitation`, `OrgAcceptance`, `Calls` and `Deletion`). In `Deletion` signers have different
keys, admins are members, and everyone who ever takes part is a member at the start
(`DeletionAssumption`, `FirstRosterAssumption`): a roster may lose members, not gain them. In `GroupCommits` fingerprints are natural
numbers and the creator is a founder (`ConstantsOK`); groups and trees may be of any size.

| Module | Theorem | States | Inductive invariant |
| --- | --- | --- | --- |
| `DmDeliveryProofs` | `TypeCorrect` | `[]TypeOK` | `TypeInv`: `TypeOK` and `CommandInv` |
| | `NoGenerationReuse` | `[]GenerationsNeverReused` | `GenInv`: adds `RatchetInv` |
| | `RefusedStaysHome` | `[]RefusedNeverPublished` | `AcceptInv`: adds `AdmittedInv` |
| | `DeliveredIsHonest` | `[]DeliveredWasHeld` | `ReceiptInv`: adds `HeldInv` |
| `DmStoreProofs` | `LeftIsKnown` | `[]PublishedStaysKnown` | `StoreInv` |
| | `NothingSettledIsLost` | `[]RestartLosesNothingSettled` | `StoreInv` |
| | `LeavesRecoverable` | `PublishedIsRecoverable` (action) | `StoreInv` |
| | `LeavesInOrder` | `NoOvertaking` (action) | `StoreInv` |
| | `DeliveryImplementsContract` | `ImplementsContract` (refinement) | `ContractInv`: adds `ConfirmedInv` |
| `GroupProofs` | `TypeCorrect` | `[]TypeOK` | `TypeInv` and `ClosedInv` |
| `GroupLineProofs` | `NeverForks`, `AuthorKeeps`, `SingleAdmin` | `[]NoFork`, `[]AuthorKeepsCommit`, `[]OneAdmin` | `GroupInv` |
| | `OneLine` | `[](OneChain \/ Deserted)` | `GroupInv` |
| | `HintHasCause` | `[]RejoinHasCause` | `GroupInv` and `HintInv` |
| | `CleanLeaving` | `[](OneChain /\ ~Deserted)`, if `leave` is not in `Faults` | `GroupInv` and `ByeInv` |
| `InvitationProofs` | `TypeCorrect` | `[]TypeOK` | `TypeInv` |
| | `OnlyOneCounterpart` | `[]OneCounterpart` | `OneInv`: adds `WelcomeInv` |
| | `AdmittedByStandingLink` | `AdmissionByStandingLink` (action) | `StandingInv`: adds `LinkInv`, `AdmissionInv` |
| `OrgProofs` | `TypeCorrect` | `[]TypeOK` | `TypeInv` |
| | `AcceptedKept`, `AdmittedJoins`, `AlwaysRetryable` | `[]AcceptedIsKept`, `[]AdmittedCanJoin`, `[]RetryOffered` | `OrgInv`: adds `BackedInv`, `OfferInv` |
| | `ResolvedForGood` | `ResolvedStaysResolved` (action) | `OrgInv` |
| `CallsProofs` | `TypeCorrect` | `[]TypeOK` | `CallInv` |
| | `OneOfTwoYields` | `[]CrossCallOneYields` | `CallInv` |
| | `SequencesNeverReused` | `[]SequencesUnique` | `SequenceInv` |
| | `HistoryShowsOnce` | `[]LoggedOnce` | `LogInv` |
| | `SelectedOnce` | `[]OneReceiver` | `SelectInv` |
| | `EndedStaysSilent` | `[]NoRingAfterEnd` | `EndInv` |
| | `OnlyThePairEndsACall` | `SelectedPairKeepsCall` (action) | `CallInv` and `QuitInv` |
| `DeletionProofs` | `DeletionInvariant` | `[]DeletionInv` | `DeletionInv` |
| | `ReceiptsAreDurable`, `PagesAgreeAtRest` | `[]ReceiptIsDurable`, `[]RestIsAgreement` | `DeletionInv` |
| | `DeletedStaysDeleted`, `RevokedStaysUnconfirmed` | `ErasedForGood`, `RevokedNotConfirmed` (actions) | `DeletionInv` |

None of these properties is inductive alone; what the invariants add is the argument.

*DM delivery.* `TypeOK` bounds the resend counter, and the step that raises it relies on
what the tick collected earlier: `CommandInv` says that it is still due. The ratchet on
disk is behind the wire only if the one in memory is never behind the one on disk
(`RatchetInv`). A text that is published was accepted because everything the outbox or a
restart may publish was (`AdmittedInv`). Delivered rests on an acknowledgement on the wire,
which rests on what the receiver took in (`HeldInv`). `StoreInv` relates memory and store
at every point of a command: memory is what a restart would read, except for texts that are
registered for saving or that the running command is about to save (`SyncInv`); the outbox
turn walks through all queued texts and has saved the one it is about to publish
(`OutboxInv`); a text counts as sent only after it left, and memory and store know whatever
left until it is delivered (`LeftInv`). The refinement needs one thing more,
`ConfirmedInv`: a stored receipt has ended the attempt in store and in memory, so nothing
writes over it, and only filed texts are accepted or activated.

Each of these proofs has one lemma per group of actions (`SLocal`, `SEffect`, the receiver,
the crashes), one step per action, and lemmas for the two operators most actions share,
`PersistSend` and `RouteSend`.

*Group membership.* `TypeInv` adds to the types that a commit is numbered after its parent
and that a path has one commit of every epoch (`TreeInv`), that only commits that exist
circulate and only those are buffered (`NetInv`), and that a member which is up or comes
back has its group saved (`SavedInv`); `ClosedInv` says that a session which is not open
holds nothing. The argument for one line is about who may
commit. Call a member tenured in a state if it was there since a state the creator was in,
and call the creator, or else the lowest tenured member, the chief (`Tenured`, `Chief`).
`GroupInv` is the conjunction of:

* `AuthorityInv`: there always is a chief; a commit is an admission by the chief, or a
  departure that was announced in that very state and committed by the chief, or by the
  heir if it is the chief that leaves; further along a line tenure is only lost, and a chief
  stays the chief or has announced its departure (`LineLaw`).
* `NodeInv`: what a member saved is ahead of what it stands in; the admin it names, once
  reconciled, is the chief of its state or somebody without tenure, who never acts
  (`Pointer`). The second case is the newcomer of the observation on `reconcile_admin`
  above: that member names the wrong admin, and the group still does not fork.
* `ForeignInv`: a member never loses a commit of its own that others have seen, and makes
  no second one in its epoch. This is where saving before publishing is needed, and the
  order of the two in `publish_membership_change`.
* `WireInv`: a departure is announced by a tenured member, a Welcome is about an admission.

Take two different commits that stand, with one parent. Their authors differ
(`ForeignInv`), so one is the chief's heir and the chief had announced its departure in that
state (`CauseInv`); the other is the chief's, made in spite of it: `Deserted`. Two states
not on one line have such a pair where they part (`Diverge`). All properties follow.
`HintInv` adds that a member whose `needs_rejoin` is up has a commit of its epoch or a later
one buffered, or that what circulates and its own path part somewhere. `ByeInv`: where
leaving always deletes the group, whoever announced its departure is gone, and nobody has
seen a commit it made after that. Each action is shown to be a `Sound` step of one member, and only that is used to
carry `ForeignInv` over.

*Invitation.* All Welcomes are for one signer because, from the first Welcome on, the
record on disk and a running creator both hold that signer as admitted (`WelcomeInv`). For
the standing link, `LinkInv` says that the creator's link in memory stands, that the saved
one stands if it was ever shown, and that a bound link is never replaced by an unbound one;
`AdmissionInv` that an admission which only an uncertain write left in the record is
justified by a link that stands and a package on the wire.

*Organisations.* The record on disk, the one in memory and the conversations on disk move
separately. `OfferInv(o)` says for one offer which combinations are possible: memory may lag
behind the disk but never runs ahead of it (`Sync`); an acceptance reported as saved is on
disk, and in memory while the organisation runs, until its conversation was durable
(`Known`); the disk retires an acceptance in the transaction that makes it durable (`Lag`);
and an acceptance in memory is offered again, durable, or in the hands of a session
(`Retry`). `BackedInv`: a signer that a session uses or a package carries was drawn for an
offer of that conversation, and its acceptance was reported, given up or made durable.

*Calls.* The handlers are operators on the state of one device. A first part shows what
each helper keeps (`Good`, the bounded book, occupancy and retry list), a second one what a
received control can do (`HandlerEffect`), a third that every action is a `Move` of one
device or a restart (`NextMoves`). The invariants look only at `Move`. `CallInv` says what a
device knows of the call it holds: whose it is, that the caller's id names the caller, on
which side of a crossing it stands, that it is not closed for good. `SequenceInv`: the
number of a control that was sent is in the record. `LogInv`: a held call is not in the
history, and the history holds only ids that were on the wire, so a fresh one cannot be
there. `SelectInv`: an outgoing call has selected nobody, an active one agrees with what
was selected. `EndInv`: the caller's end is numbered after all its offers and the caller
never holds that call again; whoever has heard the end has saved a number that is not below
any offer of the call. The bounded book of closed calls plays no part in the last argument,
so forgetting a closed call is harmless there.

For `SelectedPairKeepsCall`, the history `quit` of a device grows with every call it gives
up: by its user, a timeout, a restart or a removal; by refusing an offer; by dropping a call
that was not accepted; and by leaving an accepted one for a counterpart that gave it up
before (`GivesUp`). `QuitInv` says that whoever sent a terminal control, or repeats one, has
its call in `quit`. Only `receive_call_termination` ends an active call, and only for its
caller or its receiver (`QuitEffect`), so every end of an active call goes back to one of
the two. The attempt to prove an earlier form, in which only the user's own actions counted,
failed on the refusals of the observations above; TLC then showed all three.

*Deletion.* Every operation has one request, and all copies of it on the wire, in memory and
on disk are that request. `DeletionInv` says that there is such an assignment `q` of requests
to operations with `Consistent(q)`: every request made was its actor's right under a roster
the actor has known (`Rightful`); every record in a book or on a page is of an operation that
was made, is rejected only if its actor's roster has changed, and carries a receipt only if
its signer's disk stands behind it (`Good`, `Seen`); memory never runs ahead of the disk, a
row that is there in one is there in the other, and a send that failed has its text, in
memory and on disk each (`Local`, `Behind`); a write is owed only for messages the device
sent (`Owes`). A disk stands behind a
receipt when the receipt is `Durable`: a confirmed record, accepted, of another account than
the actor's, and no text under it. Every action is a move of one device whose disk only grows
(`Moves`, `Grows`) or a new roster (`Learns`); since a disk that grows keeps standing behind
its receipts (`DurableGrows`), every receipt on the wire is one of `Seen`. This is where saving
before signing is needed.

`DeletedStaysDeleted` rests on two parts of a move. What a device shows never turns back from
erased to text (`Shows`, and `Grows` for the disk), which holds through a retry because every
row goes through the guard, in its first save as in its last. And a device publishes a text
only if it may (`MaySend`): memory shows it when the call begins, and if the disk had a
tombstone, the drain of that call would have erased it and taken the attempt along
(`DrainEffect`), unless a write was refused. The stronger claim, that a row erased on disk is
not published at all, is the one `deletion_cancel` refutes.

A page is taken in record by record, by a function defined by recursion over the records.
What it keeps is shown by looking at the first record that would break it (`IsRun`,
`Running`). `PagesAgreeAtRest` uses the same argument in the other direction: a device that
a page leaves as it was has taken every record of it in without a change, and `merged` is
the identity on a pair of different records only in one order; signers have different keys,
so two devices that leave each other alone hold the same records.

Only model-checked: `AcceptedSettles`, `JoinSettles`, `GapCloses`, `CrossCallSettles`,
`AnswerSettles` and `HandshakeCompletes`, the liveness properties. Liveness under fairness and
`ENABLED` are outside what the proof system's installed back ends do. The modules under
proof use no recursive operators, and recursion over data appears in `Deletion` only.

## 6. Not modelled

`PROJECT.json` lists every component with its status and reason. The modules cover the
protocols of conversations: a small share of the repository's lines, because most of them
are a Flutter application, generated bridge code, tests, platform shells, serialisation
and storage of records without control of their own.

Left for later, with control worth modelling: attachment transfer, conversation recovery,
device linking and device admission, the shared node's reference counts
(`shared_node.rs`: a release without its acquire is absorbed by a saturating count), the
inbox and its bounded queues, the 4096-frame limit of `conversation/dedup.rs`, history
import, the org roster in group membership, the native call engine, purchases of Mosh Plus.

Left out inside the modelled components: in calls, camera and media controls, the
background notification's actions and the kinds of log rows; in invitations, memberships of
linked devices and the connecting of peers; in organisations, links, roster signatures and
the creation of offers; in deletion, attachments, rows without a signed origin,
certificates that have not arrived, revoked devices, fragments and page cursors, the
cancellation when a group is closed, and the variants for DMs and channels.

External: cryptography, the store engine, Moss and WebRTC appear as what their callers rely
on. The Flutter UI, generated code and platform shells carry no protocol of their own beyond
the text-send queue and the call orchestrator.
