------------------------------ MODULE Deletion ------------------------------
(***************************************************************************)
(* Deleting the messages of a private group, for oneself or for everyone   *)
(* (mosh-core/src/message_deletion, private_group_runtime/deletion.rs and  *)
(* the guards of persistence).                                             *)
(*                                                                         *)
(* Every device keeps a journal of deletion records in memory and on disk, *)
(* and erases the rows of its history in the transaction that saves the    *)
(* record.  A request to delete for everyone is signed once; the first     *)
(* member of another account to save it confirms it with a receipt.        *)
(* Journals meet by digests, pages and receipts, and by the journal linked *)
(* devices copy from each other.  Roles come from a roster that every      *)
(* member learns at its own time.                                          *)
(*                                                                         *)
(* A frame goes to everyone in the room and may reach each of them at any  *)
(* time, again, or never: a receipt stays on the wire, and so does a page  *)
(* until its sender publishes a newer one.  The digests, of which every    *)
(* member publishes its own every two seconds, are not frames of the model:*)
(* a member may serve its first page while some member's digest differs.   *)
(*                                                                         *)
(* A transaction is committed or refused.  One that is committed and still *)
(* reported as failed closes the store until the next start: for the       *)
(* journal that is a commit and a restart.                                 *)
(*                                                                         *)
(* Left out: attachments, correlation with rows of older versions,         *)
(* certificates not yet received, revoked devices, fragments of a page.    *)
(***************************************************************************)
EXTENDS Naturals, Sequences, FiniteSets

CONSTANTS
    Member,     \* devices of the group
    Key,        \* Member -> its signing key, as a number
    Account,    \* Member -> the account it is certified for
    Text,       \* messages
    Author,     \* Text -> the device that sends it
    Rosters,    \* the rosters in force one after the other
    Ops,        \* bound: operations
    None,       \* no record, no request, no receipt
    Budgets     \* bounds: steps in which the store refuses something,
                \* crashes, personal deletions, and how many members learn
                \* of a new roster

Faults == {"refused", "crash", "personal", "roster"}

(* Operations, in the order of their storage keys.                         *)
Op == 1 .. Ops

ASSUME DeletionAssumption ==
    /\ IsFiniteSet(Member) /\ IsFiniteSet(Text) /\ None \notin Member
    /\ Key \in [Member -> Nat] /\ DOMAIN Account = Member
    /\ \A m, n \in Member : Key[m] = Key[n] => m = n
    /\ Author \in [Text -> Member]
    /\ Rosters # << >>
    /\ \A i \in 1 .. Len(Rosters) :
          /\ Rosters[i].members \subseteq Member
          /\ Rosters[i].admins \subseteq Rosters[i].members
          /\ Rosters[i].epoch \in Nat
    /\ Ops \in Nat
    /\ Budgets \subseteq [Faults -> Nat]

(* Everybody is in the group at first.                                     *)
ASSUME FirstRosterAssumption == Rosters[1].members = Member

VARIABLES
    mem,        \* Member -> journal, rows and attempts in memory
    disk,       \* Member -> the same on disk
    made,       \* operations a request was signed for
    view,       \* Member -> index of the roster it knows
    pages,      \* Member -> the last page it published
    acks,       \* receipts published, each for the epoch of its signer
    mail,       \* Member -> texts on their way to it
    owed,       \* Member -> Text -> the write of a send it has to repeat
    faults      \* Faults -> how often it may still happen

vars == <<mem, disk, made, view, pages, acks, mail, owed, faults>>
frames == <<pages, acks>>

-----------------------------------------------------------------------------
(* DeleteRequest; its digest is its operation.                             *)
Request ==
    [target : Text, actor : Member, moderated : BOOLEAN, epoch : Nat]

(* DeletionRecord of a request, ack the signer of its receipt.             *)
Record ==
    [request : Request, status : {"pending", "rejected", "confirmed"},
     ack : Member \cup {None}]

ASSUME NoneAssumption == None \notin Record

(* canonical                                                               *)
Pending(r) == [request |-> r, status |-> "pending", ack |-> None]
Rejected(r) == [request |-> r, status |-> "rejected", ack |-> None]
Confirmed(r, k) == [request |-> r, status |-> "confirmed", ack |-> k]

(* DeletionBook with the message log and the outbound attempts: rec holds  *)
(* the shared records, me the targets of the account's personal ones,      *)
(* accepted the operations this device confirmed itself, row what it shows *)
(* of a message: nothing, its text, or that it was deleted ("me",          *)
(* "pending" or "confirmed"), attempt the sends that failed.               *)
Empty == [rec |-> [op \in Op |-> None], me |-> {}, accepted |-> {},
          row |-> [t \in Text |-> "none"], attempt |-> {}]

Roster(m) == Rosters[view[m]]

Here(m) == [mem |-> mem[m], disk |-> disk[m]]

(* merged                                                                  *)
Merged(old, new) ==
    IF /\ old # None
       /\ \/ /\ old.status = "confirmed"
             /\ new.status = "confirmed" => Key[old.ack] <= Key[new.ack]
          \/ old.status = "rejected" /\ new.status = "pending"
    THEN old ELSE new

(* ErasurePlan::new, merge_deletion_row: records recs and the personal     *)
(* tombstones mine join a journal.                                         *)
Merge(b, recs, mine) ==
    [b EXCEPT !.rec = [op \in Op |-> IF op \in DOMAIN recs
                                     THEN Merged(b.rec[op], recs[op])
                                     ELSE b.rec[op]],
              !.me = @ \cup mine]

Statuses(b, t) ==
    {b.rec[op].status :
        op \in {o \in Op : b.rec[o] # None /\ b.rec[o].request.target = t}}

(* marker of the record that prepare and matching_deletion prefer.  For    *)
(* prepare a rejected record ranks with the personal ones, and for         *)
(* matching_deletion it does not: but the transaction that saves it saves  *)
(* the personal one of the same message too (personal_rejection).          *)
Marker(b, t) ==
    CASE t \in b.me \/ "rejected" \in Statuses(b, t) -> "me"
      [] t \notin b.me /\ Statuses(b, t) = {} -> "none"
      [] OTHER -> IF "confirmed" \in Statuses(b, t) THEN "confirmed"
                                                    ELSE "pending"

-----------------------------------------------------------------------------
(* Rights.                                                                 *)

(* other_account                                                           *)
OtherAccount(r, k) == Account[k] # Account[r.actor]

(* may_ack_with_proof                                                      *)
MayAck(m, r, k) == k \in Roster(m).members /\ OtherAccount(r, k)

(* Mutant: a member's record is taken for a record its member may make.    *)
ValidateAnyRole(m, accepted, op, rec, carrier) ==
    carrier \in Roster(m).members

(* validate: may m admit record rec of operation op from carrier?          *)
Validate(m, accepted, op, rec, carrier) ==
    LET r == rec.request
        ros == Roster(m)
        confirmed == rec.status = "confirmed"
        endorsed == /\ confirmed
                    /\ \/ carrier \in ros.admins
                       \/ rec.ack \in ros.admins /\ MayAck(m, r, rec.ack)
    IN  /\ carrier \in ros.members
        /\ \/ confirmed /\ op \in accepted
           \/ /\ r.epoch <= ros.epoch
              /\ r.actor \in ros.members \/ endorsed
              /\ IF r.moderated THEN r.actor \in ros.admins \/ endorsed
                 ELSE Account[r.actor] = Account[Author[r.target]]
              /\ confirmed => /\ OtherAccount(r, rec.ack)
                              /\ rec.ack \in ros.members \/ endorsed

(* permitted: the member's own account may delete, an admin may moderate.  *)
IsAuthor(m, t) == Account[m] = Account[Author[t]]
Permitted(m, t) ==
    m \in Roster(m).members /\ (IsAuthor(m, t) \/ m \in Roster(m).admins)

-----------------------------------------------------------------------------
(* Saving.  s is the memory and the disk of one device.                    *)

Receipts(recs) == {op \in DOMAIN recs : recs[op].status = "confirmed"}

(* prepare: the rows whose marker changes.                                 *)
Changes(s, b) ==
    {t \in Text : /\ s.mem.row[t] # "none"
                  /\ Marker(b, t) \notin {"none", s.mem.row[t]}}

(* Mutant: only the journal is compared.                                   *)
UnchangedJournal(s, recs, mine, native) ==
    /\ Merge(s.mem, recs, mine) = s.mem
    /\ native => Receipts(recs) \subseteq s.mem.accepted

(* unchanged                                                               *)
Unchanged(s, recs, mine, native) ==
    LET b == Merge(s.mem, recs, mine)
    IN  /\ b = s.mem /\ Changes(s, b) = {}
        /\ native => Receipts(recs) \subseteq s.mem.accepted

(* commit_message_deletions and ErasurePlan::apply: the journal, the empty *)
(* rows and the cancelled attempts are one transaction.  An attempt of a   *)
(* group was never published, since the publication forgets it, so every   *)
(* erasure cancels it (commit_erased_row).                                 *)
Committed(s, recs, mine, native) ==
    LET b == Merge(s.mem, recs, mine)
        d == Merge(s.disk, recs, mine)
        erased == Changes(s, b)
        Row(row) == [t \in Text |-> IF t \in erased THEN Marker(d, t) ELSE row[t]]
        now == IF native THEN Receipts(recs) ELSE {}
    IN  [mem |-> [b EXCEPT !.row = Row(@), !.accepted = @ \cup now,
                           !.attempt = @ \ erased],
         disk |-> [d EXCEPT !.row = Row(@), !.accepted = @ \cup now,
                            !.attempt = @ \ erased]]

(* Mutant: the error of the store is not passed on.                        *)
InstallUnheard(s, recs, mine, native, outcome) ==
    [s |-> IF outcome = "refused" THEN s ELSE Committed(s, recs, mine, native),
     ok |-> TRUE]

(* install, when a write would end with outcome: what the device holds and *)
(* whether the call succeeds.                                              *)
Install(s, recs, mine, native, outcome) ==
    IF Unchanged(s, recs, mine, native) THEN [s |-> s, ok |-> TRUE]
    ELSE IF outcome = "refused" THEN [s |-> s, ok |-> FALSE]
    ELSE [s |-> Committed(s, recs, mine, native), ok |-> TRUE]

(* reload                                                                  *)
Reload(s) ==
    [s EXCEPT !.mem.accepted = s.disk.accepted,
              !.mem.rec = [op \in Op |-> IF s.disk.rec[op] # None
                                         THEN s.disk.rec[op] ELSE @[op]],
              !.mem.me = @ \cup s.disk.me]

(* Mutant: a late text is saved as it came.                                *)
GuardedAnyway(b, t) == "text"

(* write_history_row, erase_known_target                                   *)
Guarded(b, t) ==
    CASE b.row[t] \notin {"none", "text"} -> b.row[t]
      [] OTHER -> IF Marker(b, t) = "none" THEN "text" ELSE Marker(b, t)

Set(m, s) == mem' = [mem EXCEPT ![m] = s.mem] /\ disk' = [disk EXCEPT ![m] = s.disk]

Owe(m, writes) == owed' = [owed EXCEPT ![m] = writes]

Spend(fs) ==
    /\ \A f \in fs : faults[f] > 0
    /\ faults' = [f \in Faults |-> IF f \in fs THEN faults[f] - 1 ELSE faults[f]]

(* Whether the store refused something is one of the faults.               *)
Refusal(refused) == IF refused THEN {"refused"} ELSE {}

-----------------------------------------------------------------------------
(* Frames.                                                                 *)

Known(b) == {op \in Op : b.rec[op] # None /\ b.rec[op].status # "rejected"}

(* The records of book b that m may show to others.                        *)
Shared(m, b) ==
    {op \in Known(b) : Validate(m, b.accepted, op, b.rec[op], m)}

(* digest                                                                  *)
Digest(m, b) == {<<op, b.rec[op]>> : op \in Shared(m, b)}

(* page, sealed for the epoch of m: its shared records.                    *)
Page(m, b) ==
    [epoch |-> Roster(m).epoch, records |-> [op \in Shared(m, b) |-> b.rec[op]]]

-----------------------------------------------------------------------------
(* handle_data: a text is saved before the log takes it, unless the log    *)
(* holds a copy or its erasure.  When the write is refused the ratchet     *)
(* stays where it was and the text may come again.                         *)
ReceiveText(m, t, outcome) ==
    /\ t \in mail[m]
    /\ Spend(Refusal(outcome = "refused"))
    /\ IF outcome = "refused" THEN UNCHANGED <<mem, disk, mail>>
       ELSE /\ mail' = [mail EXCEPT ![m] = @ \ {t}]
            /\ IF mem[m].row[t] = "none"
               THEN /\ disk' = [disk EXCEPT ![m].row[t] = Guarded(disk[m], t)]
                    /\ mem' = [mem EXCEPT ![m].row[t] = "text"]
               ELSE UNCHANGED <<mem, disk>>
    /\ UNCHANGED <<made, view, frames, owed>>

-----------------------------------------------------------------------------
(* The service.                                                            *)

NoRecords == [op \in {} |-> None]
Only(op, rec) == [o \in {op} |-> rec]

(* reconcile: m's own requests that it has lost the right to, each with    *)
(* the personal tombstone that keeps the message hidden.                   *)
Rejections(m, b) ==
    LET lost == {op \in Op :
                   /\ b.rec[op] # None
                   /\ b.rec[op].status = "pending" /\ b.rec[op].request.actor = m
                   /\ ~ /\ m \in Roster(m).members
                        /\ b.rec[op].request.moderated => m \in Roster(m).admins}
    IN  [recs |-> [op \in lost |-> Rejected(b.rec[op].request)],
         mine |-> {b.rec[op].request.target : op \in lost}]

(* The shared records of a book.                                           *)
Held(b) == [op \in {o \in Op : b.rec[o] # None} |-> b.rec[op]]

(* sync_deletions, "later" until two seconds have passed: reject what the  *)
(* roster no longer allows.                                                *)
Reconcile(m, applied, rejecting) ==
    LET lost == Rejections(m, applied.s.mem)
    IN  IF applied.ok /\ Known(applied.s.mem) # {} /\ rejecting # "later"
        THEN Install(applied.s, lost.recs, lost.mine, FALSE, rejecting)
        ELSE applied

(* apply: reload and erase; then sync_deletions.                           *)
Turn(m, outcome, rejecting) ==
    LET loaded == Reload(Here(m))
    IN  Reconcile(m, Install(loaded, Held(loaded.mem), loaded.mem.me, FALSE, outcome),
                  rejecting)

(* How a write of sends ends.  It is "partial" when the rows and attempts  *)
(* are committed and the snapshot of the session after them is refused:    *)
(* the write stays owed.                                                   *)
Writes == {"saved", "refused", "partial"}

(* commit_send: the rows of the messages due and the attempts that memory  *)
(* has for them.  A row that comes out erased takes its attempt along.     *)
WriteSends(s, due) ==
    [s EXCEPT !.disk.row = [t \in Text |-> IF t \in due THEN Guarded(s.disk, t)
                                                        ELSE @[t]],
              !.disk.attempt = {t \in Text :
                                  IF t \in due THEN /\ t \in s.mem.attempt
                                                    /\ Guarded(s.disk, t) = "text"
                                  ELSE t \in @}]

(* The writes m can repeat.  That of a publication needs the message, and  *)
(* fails for good once memory has erased it (write_publication).           *)
Due(m, b) ==
    {t \in Text : \/ owed[m][t] = "send"
                  \/ owed[m][t] = "publication" /\ b.row[t] = "text"}

(* persist_tail                                                            *)
PersistTail(m, turn, w) ==
    LET due == Due(m, turn.s.mem)
    IN  [s |-> IF w = "refused" THEN turn.s ELSE WriteSends(turn.s, due),
         owed |-> [t \in Text |-> IF w = "saved" /\ t \in due THEN "nothing"
                                                             ELSE owed[m][t]],
         ok |-> turn.ok /\ (w = "saved" \/ due = {})]

(* drain_inbound when it is through with the frames, d saying how its      *)
(* writes end.  Their errors are logged, and the caller goes on.           *)
Drain(m, d) == PersistTail(m, Turn(m, d.apply, d.reconcile), d.tail)

Service(m, d) ==
    LET drained == Drain(m, d)
    IN  /\ Set(m, drained.s) /\ Owe(m, drained.owed)
        /\ Spend(Refusal(~drained.ok))
        /\ UNCHANGED <<made, view, frames, mail>>

(* save_account_deletions: the journal on disk d takes over the one of a   *)
(* linked device; rejected requests stay where they are.                   *)
Copied(d, b) == Merge(d, [op \in Known(b) |-> b.rec[op]], b.me)

-----------------------------------------------------------------------------
(* Operations of the user.  Each begins with drain_inbound.                *)

(* delete_messages goes on when no write is owed.                          *)
Settled(writes) == \A t \in Text : writes[t] = "nothing"

(* delete_for_me                                                           *)
DeleteForMe(m, t, d, outcome) ==
    LET drained == Drain(m, d)
        saved == Install(Reload(drained.s), NoRecords, {t}, FALSE, outcome)
    IN  /\ faults["personal"] > 0
        /\ Settled(drained.owed)
        /\ drained.s.mem.row[t] \notin {"none", "me"}
        /\ Set(m, saved.s) /\ Owe(m, drained.owed)
        /\ Spend(Refusal(~(drained.ok /\ saved.ok)) \cup {"personal"})
        /\ UNCHANGED <<made, view, frames, mail>>

(* admit, request_for: a signed request, and the page that announces it.   *)
DeleteForEveryone(m, t, op, d, outcome) ==
    LET drained == Drain(m, d)
        new == Only(op, Pending([target |-> t, actor |-> m,
                                 moderated |-> ~IsAuthor(m, t),
                                 epoch |-> Roster(m).epoch]))
        saved == Install(drained.s, new, {}, FALSE, outcome)
    IN  /\ op \notin made /\ made' = made \cup {op}
        /\ Permitted(m, t) /\ Settled(drained.owed)
        /\ drained.s.mem.row[t] = "text"
        /\ Set(m, saved.s) /\ Owe(m, drained.owed)
        /\ Spend(Refusal(~(drained.ok /\ saved.ok)))
        /\ pages' = IF saved.ok THEN [pages EXCEPT ![m] = Page(m, saved.s.mem)]
                               ELSE pages
        /\ UNCHANGED <<view, acks, mail>>

(* retry_message up to its first save.  Device linking has a thread of its *)
(* own, and the journal of device n may land between the two (n = Author[t]*)
(* for none).                                                              *)
Reopened(t, d, n) ==
    LET drained == Drain(Author[t], d)
    IN  [drained EXCEPT !.s.disk = Copied(@, disk[n])]

(* persist_prepared fails: the write is tried once more, w being what came *)
(* of the two, the attempt stays and nothing is published.                 *)
RetryRefused(t, d, n, w) ==
    LET m == Author[t]
        open == Reopened(t, d, n)
    IN  /\ Account[m] = Account[n] /\ t \in open.s.mem.attempt
        /\ Set(m, IF w = "refused" THEN open.s ELSE WriteSends(open.s, {t}))
        /\ Owe(m, [open.owed EXCEPT ![t] = IF w = "saved" THEN "nothing" ELSE "send"])
        /\ Spend({"refused"})
        /\ UNCHANGED <<made, view, frames, mail>>

(* publish_prepared: saved, published or not (sent), and saved again.  The *)
(* attempt is forgotten when it was published and stays when it was not;   *)
(* that the last save fails is only logged.                                *)
RetryMessage(t, d, n, sent, w) ==
    LET m == Author[t]
        open == Reopened(t, d, n)
        saved == WriteSends(open.s, {t})
        settled == IF sent THEN [saved EXCEPT !.mem.attempt = @ \ {t}] ELSE saved
    IN  /\ Account[m] = Account[n] /\ t \in open.s.mem.attempt
        /\ Set(m, IF w = "refused" THEN settled ELSE WriteSends(settled, {t}))
        /\ Owe(m, [open.owed EXCEPT ![t] = IF w = "saved" THEN "nothing"
                                           ELSE IF sent THEN "publication" ELSE "send"])
        /\ mail' = IF sent THEN [k \in Member |-> IF k = m THEN mail[k] ELSE mail[k] \cup {t}]
                   ELSE mail
        /\ Spend(Refusal(~open.ok \/ w # "saved"))
        /\ UNCHANGED <<made, view, frames>>

-----------------------------------------------------------------------------
(* Pages and receipts.                                                     *)

(* currently_admissible: the record as m may admit it, None if it may not. *)
Admissible(m, op, rec, carrier) ==
    LET Valid(x) == Validate(m, mem[m].accepted, op, x, carrier)
    IN  CASE Valid(rec) -> rec
          [] ~Valid(rec) /\ rec.status = "confirmed"
             /\ Valid(Pending(rec.request)) -> Pending(rec.request)
          [] OTHER -> None

(* accept: m's own receipt, where it may give one.                         *)
Receipted(m, rec) ==
    IF rec.ack = None /\ MayAck(m, rec.request, m)
    THEN Confirmed(rec.request, m) ELSE rec

(* One record of a page.  The first that is not admitted or not saved ends *)
(* the page, and the receipts for the ones before it are not sent.         *)
Accept(m, carrier, at, x, op, r) ==
    LET admitted == Admissible(m, op, r, carrier)
        rec == Receipted(m, admitted)
        saved == Install(x.s, Only(op, rec), {}, TRUE,
                         IF op = at THEN "refused" ELSE "saved")
    IN  IF ~x.ok \/ admitted = None THEN [x EXCEPT !.ok = FALSE]
        ELSE [s |-> saved.s, ok |-> saved.ok,
              signed |-> x.signed \cup (IF rec.ack = m THEN {op} ELSE {})]

(* receive_state: the records of a page in their order, the store refusing *)
(* the one of operation at (0: none).                                      *)
Accepted(m, carrier, page, at) ==
    LET after[op \in 0 .. Ops] ==
            IF op = 0 THEN [s |-> Here(m), ok |-> TRUE, signed |-> {}]
            ELSE IF op \in DOMAIN page.records
            THEN Accept(m, carrier, at, after[op - 1], op, page.records[op])
            ELSE after[op - 1]
    IN  after[Ops]

(* receive_request: n answers with a page whoever shows another digest.    *)
Serve(n) ==
    LET page == Page(n, mem[n])
        digest == Digest(n, mem[n])
    IN  /\ DOMAIN page.records # {} /\ page # pages[n]
        /\ \E m \in Member : Digest(m, mem[m]) # digest
        /\ pages' = [pages EXCEPT ![n] = page]
        /\ UNCHANGED <<mem, disk, made, view, acks, mail, owed, faults>>

(* receive_deletion_frame: m opens only frames of its own epoch and hears  *)
(* only members.                                                           *)
Opens(m, n, epoch) == epoch = Roster(m).epoch /\ n \in Roster(m).members

(* DeleteAck, sealed for the epoch of its signer.                          *)
Receipt(m, op) == [op |-> op, signer |-> m, epoch |-> Roster(m).epoch]

(* receive_state and the receipts it answers with.                         *)
ReceiveState(m, n, at) ==
    /\ m # n /\ pages[n] # None /\ Opens(m, n, pages[n].epoch)
    /\ LET page == Accepted(m, n, pages[n], at)
       IN  /\ Set(m, page.s)
           /\ acks' = IF page.ok THEN acks \cup {Receipt(m, op) : op \in page.signed}
                     ELSE acks
    /\ Spend(Refusal(at # 0))
    /\ UNCHANGED <<made, view, pages, mail, owed>>

(* receive, acknowledge: a receipt for a record m holds and may still      *)
(* admit.                                                                  *)
ReceiveAck(m, ack, outcome) ==
    LET n == ack.signer
        rec == mem[m].rec[ack.op]
        new == Only(ack.op, Confirmed(rec.request, n))
    IN  /\ m # n /\ ack \in acks /\ Opens(m, n, ack.epoch)
        /\ rec # None /\ rec.status # "rejected"
        /\ Validate(m, mem[m].accepted, ack.op, rec, n)
        /\ MayAck(m, rec.request, n)
        /\ Set(m, Install(Here(m), new, {}, TRUE, outcome).s)
        /\ Spend(Refusal(outcome = "refused"))
        /\ UNCHANGED <<made, view, frames, mail, owed>>

-----------------------------------------------------------------------------
(* The environment.                                                        *)

(* m receives the journal of a linked device, into the disk only.          *)
CopyJournal(m, n) ==
    /\ m # n /\ Account[m] = Account[n]
    /\ disk' = [disk EXCEPT ![m] = Copied(@, disk[n])]
    /\ disk' # disk
    /\ UNCHANGED <<mem, made, view, frames, mail, owed, faults>>

(* m learns of the next roster.                                            *)
LearnRoster(m) ==
    /\ view[m] < Len(Rosters) /\ Spend({"roster"})
    /\ view' = [view EXCEPT ![m] = @ + 1]
    /\ UNCHANGED <<mem, disk, made, frames, mail, owed>>

(* No write is owed.                                                       *)
Nothing == [t \in Text |-> "nothing"]

(* A restart: rows and attempts come back from the disk, the journal when  *)
(* the service first runs, and what was owed is forgotten.                 *)
Crash(m) ==
    /\ Spend({"crash"})
    /\ mem' = [mem EXCEPT ![m] = [Empty EXCEPT !.row = disk[m].row,
                                               !.attempt = disk[m].attempt]]
    /\ Owe(m, Nothing)
    /\ UNCHANGED <<disk, made, view, frames, mail>>

-----------------------------------------------------------------------------
(* Every text is a send of its author that failed so far.                  *)
Fresh(m) ==
    [Empty EXCEPT !.row = [t \in Text |-> IF m = Author[t] THEN "text" ELSE "none"],
                  !.attempt = {t \in Text : m = Author[t]}]

Init ==
    /\ mem = [m \in Member |-> Fresh(m)] /\ disk = mem
    /\ made = {} /\ view = [m \in Member |-> 1]
    /\ pages = [m \in Member |-> None] /\ acks = {}
    /\ mail = [m \in Member |-> {}] /\ owed = [m \in Member |-> Nothing]
    /\ faults \in Budgets

Outcomes == {o \in {"saved", "refused"} : o = "saved" \/ faults["refused"] > 0}
Endings == {w \in Writes : w = "saved" \/ faults["refused"] > 0}

(* The ways the writes of a drain can end, of those that it makes.         *)
Drains(m) ==
    [apply : Outcomes,
     reconcile : IF Rejections(m, disk[m]).mine = {} THEN {"saved"}
                 ELSE Outcomes \cup {"later"},
     tail : IF owed[m] = Nothing THEN {"saved"} ELSE Endings]

(* A retry is offered for a send that is shown as failed.                  *)
User ==
    \/ \E m \in Member, t \in Text, o \in Outcomes : \E d \in Drains(m) :
          \/ DeleteForMe(m, t, d, o)
          \/ \E op \in Op : DeleteForEveryone(m, t, op, d, o)
    \/ \E t \in Text, n \in Member, w \in Endings : \E d \in Drains(Author[t]) :
          /\ t \in mem[Author[t]].attempt
          /\ \/ RetryRefused(t, d, n, w)
             \/ \E sent \in BOOLEAN : RetryMessage(t, d, n, sent, w)

Run(m) == \E d \in Drains(m) : Service(m, d)

Take(m, n) ==
    \E at \in {0} \cup {op \in Op : faults["refused"] > 0} : ReceiveState(m, n, at)

Acknowledge(m) == \E ack \in acks, o \in Outcomes : ReceiveAck(m, ack, o)

Environment ==
    \/ \E m, n \in Member : CopyJournal(m, n)
    \/ \E m \in Member : LearnRoster(m) \/ Crash(m)

Next ==
    \/ User \/ Environment
    \/ \E m \in Member :
          \/ Run(m) \/ Acknowledge(m)
          \/ \E t \in Text, o \in Outcomes : ReceiveText(m, t, o)
          \/ Serve(m)
          \/ \E n \in Member : Take(m, n)

Spec == Init /\ [][Next]_vars

-----------------------------------------------------------------------------
(* Properties.                                                             *)

(* Receipts wherever they are: in a journal, in a page, on their own.      *)
ReceiptsSeen ==
    {<<ack.op, ack.signer>> : ack \in acks} \cup
    {r \in Op \X Member :
        \E m \in Member :
          \/ \E b \in {mem[m], disk[m]} :
                b.rec[r[1]] # None /\ b.rec[r[1]].ack = r[2]
          \/ /\ pages[m] # None /\ r[1] \in DOMAIN pages[m].records
             /\ pages[m].records[r[1]].ack = r[2]}

(* A receipt is given only for a deletion its signer has on disk, as       *)
(* confirmed and accepted by itself, with the message gone from its        *)
(* history, and never by the account that asked for it: whoever shows a    *)
(* deletion as confirmed can rely on it.                                   *)
ReceiptIsDurable ==
    \A r \in ReceiptsSeen :
        LET rec == disk[r[2]].rec[r[1]]
        IN  /\ rec # None /\ rec.status = "confirmed"
            /\ r[1] \in disk[r[2]].accepted
            /\ disk[r[2]].row[rec.request.target] # "text"
            /\ OtherAccount(rec.request, r[2])

Gone(b, t) == b.row[t] \notin {"none", "text"}

Publishes(t) == \E n \in Member : t \in mail'[n] \ mail[n]

(* A deleted message does not come back.  An erased row stays erased, in   *)
(* memory over restarts too, no text is saved under a tombstone the disk   *)
(* already has, however late it arrives and whatever memory has forgotten. *)
(* retry_message publishes no text that memory shows as erased, and one    *)
(* that the disk of its author has a tombstone for only in a call in which *)
(* the store refuses to apply it.                                          *)
ErasedForGood ==
    [][\A m \in Member, t \in Text :
         /\ (Marker(disk[m], t) # "none" /\ disk'[m].row[t] = "text")
                => disk[m].row[t] = "text"
         /\ Gone(disk[m], t) => Gone(disk'[m], t)
         /\ Gone(mem[m], t) => Gone(mem'[m], t)
         /\ (m = Author[t] /\ Publishes(t))
                => /\ ~Gone(mem[m], t)
                   /\ (Marker(disk[m], t) # "none"
                         => faults'["refused"] < faults["refused"])]_vars

(* A send that was cancelled is not sent: no text whose row the disk of    *)
(* its author has as erased is published, whatever write is refused.       *)
CancelledNotSent ==
    [][\A t \in Text : Gone(disk[Author[t]], t) => ~Publishes(t)]_vars

ConfirmedSomewhere(op) ==
    \E m \in Member : disk[m].rec[op] # None /\ disk[m].rec[op].status = "confirmed"

(* Op is a moderation, and nobody takes its author for an admin any more.  *)
Revoked(op) ==
    \E n \in Member :
        /\ disk[n].rec[op] # None /\ disk[n].rec[op].request.moderated
        /\ \A m \in Member : disk[n].rec[op].request.actor \notin Roster(m).admins

(* A moderation that nobody has accepted by the time everybody knows its   *)
(* author for no admin is never accepted, however late its frames arrive.  *)
RevokedNotConfirmed ==
    [][\A op \in made :
         (Revoked(op) /\ ~ConfirmedSomewhere(op)) => ~ConfirmedSomewhere(op)']_vars

(* Nothing that the service of m or one more page of another member would  *)
(* do changes what m holds.                                                *)
Quiet(m) ==
    /\ Turn(m, "saved", "saved").s = Here(m)
    /\ \A n \in Member \ {m} :
          Opens(m, n, Roster(n).epoch) =>
              Accepted(m, n, Page(n, mem[n]), 0).s = Here(m)

(* Deletions spread.  The exchange of pages comes to rest only with every  *)
(* member holding the same journal, and with a deletion for everyone in it *)
(* nobody keeps the text, in memory or on disk, wherever it was when the   *)
(* request arrived.  It holds as long as the roster stays as it is.        *)
RestIsAgreement ==
    ((\A m \in Member : view[m] = 1) /\ (\A m \in Member : Quiet(m))) =>
        \A m, n \in Member :
            /\ Digest(m, mem[m]) = Digest(n, mem[n])
            /\ \A op \in Known(mem[n]) :
                  "text" \notin {mem[m].row[mem[n].rec[op].request.target],
                                disk[m].row[mem[n].rec[op].request.target]}
=============================================================================
