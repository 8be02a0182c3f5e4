--------------------------- MODULE DeletionProofs ---------------------------
(* Theorems about Deletion, for any number of devices, accounts, texts,     *)
(* operations, rosters and faults.                                          *)
(*                                                                          *)
(* The invariant speaks of the requests that were signed: q[op] is the      *)
(* request of operation op, of which records, pages and receipts are        *)
(* copies.  A step belongs to one device, whose disk only grows; so a       *)
(* receipt that its signer's disk stands behind stays so, and every copy of *)
(* it may rely on it.                                                       *)
EXTENDS Deletion, TLAPS, WellFoundedInduction

-----------------------------------------------------------------------------
(* Types and constants. *)

Rows == {"none", "text", "me", "pending", "confirmed"}

Book == [rec : [Op -> Record \cup {None}], me : SUBSET Text,
         accepted : SUBSET Op, row : [Text -> Rows], attempt : SUBSET Text]

(* The assumptions the proofs use.                                          *)
LEMMA Constants ==
  /\ None \notin Member /\ None \notin Record /\ Key \in [Member -> Nat]
  /\ \A m, n \in Member : Key[m] = Key[n] => m = n
  /\ Author \in [Text -> Member] /\ Ops \in Nat
  /\ \A i \in 1 .. Len(Rosters) :
        /\ Rosters[i].members \subseteq Member
        /\ Rosters[i].admins \subseteq Rosters[i].members
        /\ Rosters[i].epoch \in Nat
BY DeletionAssumption, NoneAssumption

-----------------------------------------------------------------------------
(* Journals. *)

(* What is in a record of operation op when its request is q[op].           *)
Fair(q, op, rec) ==
    /\ rec \in Record /\ rec.request = q[op]
    /\ rec.status = "confirmed" <=> rec.ack # None

FairBook(q, b) ==
    b \in Book /\ \A op \in Op : b.rec[op] # None => Fair(q, op, b.rec[op])

FairRecs(q, recs) ==
    DOMAIN recs \subseteq Op /\ \A op \in DOMAIN recs : Fair(q, op, recs[op])

(* The fields of a record.                                                  *)
LEMMA RecordFields ==
  ASSUME NEW r \in Record
  PROVE  /\ r.request \in Request /\ r.ack \in Member \cup {None} /\ r # None
         /\ r.status \in {"pending", "rejected", "confirmed"}
         /\ r.request.target \in Text /\ r.request.actor \in Member
         /\ r.request.epoch \in Nat
BY Constants DEF Record, Request

(* canonical makes fair records.                                            *)
LEMMA FairRecord ==
  ASSUME NEW q, NEW op, NEW r \in Request, NEW k \in Member, r = q[op]
  PROVE  Fair(q, op, Pending(r)) /\ Fair(q, op, Rejected(r)) /\ Fair(q, op, Confirmed(r, k))
BY Constants DEF Fair, Pending, Rejected, Confirmed, Record

(* merged picks one of two records, and never gives up a confirmation.      *)
LEMMA MergedIs ==
  ASSUME NEW q, NEW op, NEW old, NEW new, old # None => Fair(q, op, old), Fair(q, op, new)
  PROVE  /\ Fair(q, op, Merged(old, new)) /\ Merged(old, new) # None
         /\ Merged(old, new) \in {old, new} \ {None}
         /\ new.status = "confirmed" => Merged(old, new).status = "confirmed"
         /\ old # None /\ old.status = "confirmed" => Merged(old, new).status = "confirmed"
<1>1. new # None
  BY RecordFields DEF Fair
<1>2. Merged(old, new) \in {old, new}
  BY DEF Merged
<1>3. new.status = "confirmed" => Merged(old, new).status = "confirmed"
  BY DEF Merged
<1>4. old # None /\ old.status = "confirmed" => Merged(old, new).status = "confirmed"
  BY DEF Merged
<1>5. Merged(old, new) # None
  BY <1>1 DEF Merged
<1> QED BY <1>1, <1>2, <1>3, <1>4, <1>5

(* The fields of a journal.                                                 *)
LEMMA BookFields ==
  ASSUME NEW b \in Book
  PROVE  /\ b.rec \in [Op -> Record \cup {None}] /\ b.me \subseteq Text
         /\ b.accepted \subseteq Op /\ b.row \in [Text -> Rows] /\ b.attempt \subseteq Text
         /\ \A op \in Op : b.rec[op] # None => b.rec[op] \in Record
BY DEF Book

(* merge_deletion_row, field by field.                                      *)
LEMMA MergeFields ==
  ASSUME NEW q, NEW b, FairBook(q, b), NEW recs, FairRecs(q, recs), NEW mine \in SUBSET Text
  PROVE  LET c == Merge(b, recs, mine)
         IN  /\ FairBook(q, c)
             /\ c.me = b.me \cup mine /\ c.row = b.row
             /\ c.accepted = b.accepted /\ c.attempt = b.attempt
             /\ \A op \in Op : c.rec[op] = IF op \in DOMAIN recs
                                           THEN Merged(b.rec[op], recs[op]) ELSE b.rec[op]
<1>0. b \in Book /\ \A op \in Op : b.rec[op] # None => Fair(q, op, b.rec[op])
  BY DEF FairBook
<1>1. PICK R : R = [op \in Op |-> IF op \in DOMAIN recs
                                  THEN Merged(b.rec[op], recs[op]) ELSE b.rec[op]]
  OBVIOUS
<1>2. ASSUME NEW op \in Op
      PROVE  R[op] # None => Fair(q, op, R[op]) /\ R[op] \in Record
  <2>1. CASE op \in DOMAIN recs
    <3>1. Fair(q, op, recs[op])
      BY <2>1 DEF FairRecs
    <3>2. Fair(q, op, Merged(b.rec[op], recs[op]))
      BY <1>0, <3>1, MergedIs
    <3> QED BY <1>1, <2>1, <3>2 DEF Fair
  <2>2. CASE op \notin DOMAIN recs
    <3>1. R[op] = b.rec[op]
      BY <1>1, <2>2
    <3> QED BY <1>0, <3>1 DEF Fair
  <2> QED BY <2>1, <2>2
<1>3. R \in [Op -> Record \cup {None}]
  BY <1>1, <1>2
<1>4. Merge(b, recs, mine) = [b EXCEPT !.rec = R, !.me = b.me \cup mine]
  BY <1>1, <1>0 DEF Merge, Book
<1>5. PICK c : c = Merge(b, recs, mine)
  OBVIOUS
<1>6. /\ c.rec = R /\ c.me = b.me \cup mine /\ c.row = b.row
      /\ c.accepted = b.accepted /\ c.attempt = b.attempt /\ c \in Book
  BY <1>0, <1>3, <1>4, <1>5 DEF Book
<1>7. FairBook(q, c)
  BY <1>2, <1>6 DEF FairBook
<1> QED BY <1>1, <1>5, <1>6, <1>7

(* Whether a book has anything about a text.                                *)
Buried(b, t) ==
    \/ t \in b.me
    \/ \E op \in Op : b.rec[op] # None /\ b.rec[op].request.target = t

(* A text has a marker exactly when the journal has something about it.     *)
LEMMA MarkerIs ==
  ASSUME NEW b, NEW t
  PROVE  /\ Marker(b, t) \in {"none", "me", "pending", "confirmed"}
         /\ Marker(b, t) # "none" <=> Buried(b, t)
<1>1. Statuses(b, t) = {} <=> ~\E op \in Op : b.rec[op] # None /\ b.rec[op].request.target = t
  BY DEF Statuses
<1>2. CASE t \in b.me \/ "rejected" \in Statuses(b, t)
  <2>1. Marker(b, t) = "me"
    BY <1>2 DEF Marker
  <2> QED BY <1>1, <1>2, <2>1 DEF Buried
<1>3. CASE t \notin b.me /\ Statuses(b, t) = {}
  <2>1. Marker(b, t) = "none"
    BY <1>3 DEF Marker
  <2> QED BY <1>1, <1>3, <2>1 DEF Buried
<1>4. CASE t \notin b.me /\ "rejected" \notin Statuses(b, t) /\ Statuses(b, t) # {}
  <2>1. Marker(b, t) = IF "confirmed" \in Statuses(b, t) THEN "confirmed" ELSE "pending"
    BY <1>4 DEF Marker
  <2> QED BY <1>1, <1>4, <2>1 DEF Buried
<1> QED BY <1>2, <1>3, <1>4

-----------------------------------------------------------------------------
(* One device. *)

Erased(b, t) == b.row[t] \notin {"none", "text"}

(* Memory never runs ahead of the disk, and an attempt has its text where it  *)
(* is kept: in memory it may outlive the row on disk.                         *)
Behind(b, d) ==
    /\ b.accepted \subseteq d.accepted /\ b.me \subseteq d.me
    /\ \A op \in Op : b.rec[op] # None =>
          /\ d.rec[op] # None
          /\ b.rec[op].status = "confirmed" => d.rec[op].status = "confirmed"

Local(q, s) ==
    /\ s = [mem |-> s.mem, disk |-> s.disk]
    /\ FairBook(q, s.mem) /\ FairBook(q, s.disk) /\ Behind(s.mem, s.disk)
    /\ \A t \in Text :
          /\ s.mem.row[t] = "none" <=> s.disk.row[t] = "none"
          /\ s.disk.row[t] = "text" => s.mem.row[t] = "text"
          /\ t \in s.mem.attempt => s.mem.row[t] = "text"
          /\ t \in s.disk.attempt => s.disk.row[t] = "text"

(* What memory never does: lose a row, or show a text again it has erased.  *)
Shows(b, d) ==
    \A t \in Text : /\ Erased(b, t) => Erased(d, t)
                    /\ b.row[t] # "none" => d.row[t] # "none"

(* What a disk never does: forget, or bring back what it has erased.        *)
Grows(b, d) ==
    /\ Behind(b, d)
    /\ \A t \in Text : /\ Erased(b, t) => Erased(d, t)
                       /\ Buried(b, t) /\ d.row[t] = "text" => b.row[t] = "text"

(* What a journal buries, one that is ahead of it buries too.               *)
LEMMA BuriedGrows ==
  ASSUME NEW q, NEW b, NEW d, FairBook(q, b), FairBook(q, d), Behind(b, d),
         NEW t, Buried(b, t)
  PROVE  Buried(d, t)
<1>1. CASE t \in b.me
  BY <1>1 DEF Behind, Buried
<1>2. ASSUME NEW op \in Op, b.rec[op] # None, b.rec[op].request.target = t PROVE Buried(d, t)
  <2>1. d.rec[op] # None
    BY <1>2 DEF Behind
  <2>2. b.rec[op].request = q[op] /\ d.rec[op].request = q[op]
    BY <1>2, <2>1 DEF FairBook, Fair
  <2> QED BY <1>2, <2>1, <2>2 DEF Buried
<1> QED BY <1>1, <1>2 DEF Buried

(* Behind is transitive.                                                    *)
LEMMA BehindTrans ==
  ASSUME NEW b, NEW d, NEW e, Behind(b, d), Behind(d, e)
  PROVE  Behind(b, e)
BY DEF Behind

(* Grows is transitive.                                                     *)
LEMMA GrowsTrans ==
  ASSUME NEW q, NEW b, NEW d, NEW e, FairBook(q, b), FairBook(q, d), Grows(b, d), Grows(d, e)
  PROVE  Grows(b, e)
<1>1. Behind(b, e)
  BY BehindTrans DEF Grows
<1>2. ASSUME NEW t \in Text, Buried(b, t), e.row[t] = "text" PROVE b.row[t] = "text"
  <2>1. Buried(d, t)
    BY <1>2, BuriedGrows DEF Grows
  <2> QED BY <1>2, <2>1 DEF Grows
<1> QED BY <1>1, <1>2 DEF Grows

(* All three are reflexive.                                                 *)
LEMMA GrowsSelf == ASSUME NEW b PROVE Grows(b, b) /\ Behind(b, b) /\ Shows(b, b)
BY DEF Grows, Behind, Shows

(* What is behind a journal is behind what becomes of it.                   *)
LEMMA MergeBehind ==
  ASSUME NEW q, NEW b, FairBook(q, b), NEW recs, FairRecs(q, recs), NEW mine \in SUBSET Text
  PROVE  Behind(b, Merge(b, recs, mine))
<1>1. PICK c : c = Merge(b, recs, mine)
  OBVIOUS
<1>2. /\ c.me = b.me \cup mine /\ c.accepted = b.accepted
      /\ \A op \in Op : c.rec[op] = IF op \in DOMAIN recs
                                    THEN Merged(b.rec[op], recs[op]) ELSE b.rec[op]
  BY <1>1, MergeFields
<1>3. ASSUME NEW op \in Op, b.rec[op] # None
      PROVE  c.rec[op] # None /\ (b.rec[op].status = "confirmed" => c.rec[op].status = "confirmed")
  <2>1. CASE op \in DOMAIN recs
    <3>1. Fair(q, op, recs[op]) /\ Fair(q, op, b.rec[op])
      BY <1>3, <2>1 DEF FairRecs, FairBook
    <3> QED BY <1>2, <1>3, <2>1, <3>1, MergedIs
  <2> QED BY <1>2, <1>3, <2>1
<1> QED BY <1>1, <1>2, <1>3 DEF Behind

(* Memory stays behind the disk when both merge the same records.           *)
LEMMA MergeKeepsBehind ==
  ASSUME NEW q, NEW b, NEW d, FairBook(q, b), FairBook(q, d), Behind(b, d),
         NEW recs, FairRecs(q, recs), NEW mine \in SUBSET Text
  PROVE  Behind(Merge(b, recs, mine), Merge(d, recs, mine))
<1>1. PICK c : c = Merge(b, recs, mine)
  OBVIOUS
<1>2. PICK e : e = Merge(d, recs, mine)
  OBVIOUS
<1>3. /\ c.me = b.me \cup mine /\ c.accepted = b.accepted
      /\ \A op \in Op : c.rec[op] = IF op \in DOMAIN recs
                                    THEN Merged(b.rec[op], recs[op]) ELSE b.rec[op]
  BY <1>1, MergeFields
<1>4. /\ e.me = d.me \cup mine /\ e.accepted = d.accepted
      /\ \A op \in Op : e.rec[op] = IF op \in DOMAIN recs
                                    THEN Merged(d.rec[op], recs[op]) ELSE d.rec[op]
  BY <1>2, MergeFields
<1>5. ASSUME NEW op \in Op, c.rec[op] # None
      PROVE  e.rec[op] # None /\ (c.rec[op].status = "confirmed" => e.rec[op].status = "confirmed")
  <2>1. CASE op \in DOMAIN recs
    <3>1. Fair(q, op, recs[op]) /\ (b.rec[op] # None => Fair(q, op, b.rec[op]))
          /\ (d.rec[op] # None => Fair(q, op, d.rec[op]))
      BY <2>1 DEF FairRecs, FairBook
    <3>2. e.rec[op] # None
      BY <1>4, <2>1, <3>1, MergedIs
    <3>3. CASE recs[op].status = "confirmed"
      BY <1>4, <2>1, <3>1, <3>2, <3>3, MergedIs
    <3>4. CASE recs[op].status # "confirmed" /\ c.rec[op].status = "confirmed"
      <4>1. b.rec[op] # None /\ b.rec[op].status = "confirmed"
        <5>1. c.rec[op] \in {b.rec[op], recs[op]}
          <6>1. c.rec[op] = Merged(b.rec[op], recs[op])
            BY <1>3, <2>1
          <6> QED BY <6>1 DEF Merged
        <5> QED BY <1>5, <3>4, <5>1
      <4>2. d.rec[op] # None /\ d.rec[op].status = "confirmed"
        BY <4>1 DEF Behind
      <4> QED BY <1>4, <2>1, <3>1, <4>2, MergedIs
    <3> QED BY <3>2, <3>3, <3>4
  <2>2. CASE op \notin DOMAIN recs
    BY <1>3, <1>4, <1>5, <2>2 DEF Behind
  <2> QED BY <2>1, <2>2
<1>6. c.me \subseteq e.me /\ c.accepted \subseteq e.accepted
  BY <1>3, <1>4 DEF Behind
<1> QED BY <1>1, <1>2, <1>5, <1>6 DEF Behind

(* A transaction, field by field: b and d are the merged journals.          *)
CommittedAs(s, recs, native, b, d, c) ==
    LET now == IF native THEN Receipts(recs) ELSE {}
    IN  /\ c = [mem |-> c.mem, disk |-> c.disk]
        /\ c.mem \in Book /\ c.mem.rec = b.rec /\ c.mem.me = b.me
        /\ c.mem.accepted = b.accepted \cup now
        /\ c.mem.attempt = b.attempt \ Changes(s, b)
        /\ \A t \in Text : c.mem.row[t] = IF t \in Changes(s, b) THEN Marker(d, t) ELSE b.row[t]
        /\ c.disk \in Book /\ c.disk.rec = d.rec /\ c.disk.me = d.me
        /\ c.disk.accepted = d.accepted \cup now
        /\ c.disk.attempt = d.attempt \ Changes(s, b)
        /\ \A t \in Text : c.disk.row[t] = IF t \in Changes(s, b) THEN Marker(d, t) ELSE d.row[t]

(* commit_message_deletions and ErasurePlan::apply, field by field.         *)
LEMMA CommittedFields ==
  ASSUME NEW q, NEW s, Local(q, s), NEW recs, FairRecs(q, recs), NEW mine \in SUBSET Text,
         NEW native \in BOOLEAN,
         NEW b, b = Merge(s.mem, recs, mine), NEW d, d = Merge(s.disk, recs, mine),
         NEW c, c = Committed(s, recs, mine, native)
  PROVE  CommittedAs(s, recs, native, b, d, c)
<1>0. FairBook(q, s.mem) /\ FairBook(q, s.disk)
  BY DEF Local
<1>1. b \in Book /\ d \in Book
  BY <1>0, MergeFields DEF FairBook
<1>2. PICK E : E = Changes(s, b)
  OBVIOUS
<1>3. PICK now : now = IF native THEN Receipts(recs) ELSE {}
  OBVIOUS
<1>4. PICK rb : rb = [t \in Text |-> IF t \in E THEN Marker(d, t) ELSE b.row[t]]
  OBVIOUS
<1>5. PICK rd : rd = [t \in Text |-> IF t \in E THEN Marker(d, t) ELSE d.row[t]]
  OBVIOUS
<1>6. now \subseteq Op
  BY <1>3 DEF Receipts, FairRecs
<1>7. rb \in [Text -> Rows] /\ rd \in [Text -> Rows]
  <2>1. \A t \in Text : Marker(d, t) \in Rows
    BY MarkerIs DEF Rows
  <2> QED BY <1>1, <1>4, <1>5, <2>1, BookFields
<1>8. c = [mem |-> [b EXCEPT !.row = rb, !.accepted = b.accepted \cup now,
                             !.attempt = b.attempt \ E],
           disk |-> [d EXCEPT !.row = rd, !.accepted = d.accepted \cup now,
                              !.attempt = d.attempt \ E]]
  BY <1>1, <1>2, <1>3, <1>4, <1>5 DEF Committed, Book
<1>9. /\ c.mem.rec = b.rec /\ c.mem.me = b.me /\ c.mem.accepted = b.accepted \cup now
      /\ c.mem.attempt = b.attempt \ E /\ c.mem.row = rb /\ c.mem \in Book
  <2>1. PICK acc : acc = b.accepted \cup now
    OBVIOUS
  <2>2. PICK att : att = b.attempt \ E
    OBVIOUS
  <2>3. PICK e : e = [b EXCEPT !.row = rb, !.accepted = acc, !.attempt = att]
    OBVIOUS
  <2>4. acc \in SUBSET Op /\ att \in SUBSET Text
    BY <1>1, <1>6, <2>1, <2>2, BookFields
  <2>5. /\ e.rec = b.rec /\ e.me = b.me /\ e.accepted = acc /\ e.attempt = att
        /\ e.row = rb /\ e \in Book
    BY <1>1, <1>7, <2>3, <2>4 DEF Book
  <2>6. c.mem = e
    BY <1>8, <2>1, <2>2, <2>3
  <2> QED BY <2>1, <2>2, <2>5, <2>6
<1>10. /\ c.disk.rec = d.rec /\ c.disk.me = d.me /\ c.disk.accepted = d.accepted \cup now
       /\ c.disk.attempt = d.attempt \ E /\ c.disk.row = rd /\ c.disk \in Book
  <2>1. PICK acc : acc = d.accepted \cup now
    OBVIOUS
  <2>2. PICK att : att = d.attempt \ E
    OBVIOUS
  <2>3. PICK e : e = [d EXCEPT !.row = rd, !.accepted = acc, !.attempt = att]
    OBVIOUS
  <2>4. acc \in SUBSET Op /\ att \in SUBSET Text
    BY <1>1, <1>6, <2>1, <2>2, BookFields
  <2>5. /\ e.rec = d.rec /\ e.me = d.me /\ e.accepted = acc /\ e.attempt = att
        /\ e.row = rd /\ e \in Book
    BY <1>1, <1>7, <2>3, <2>4 DEF Book
  <2>6. c.disk = e
    BY <1>8, <2>1, <2>2, <2>3
  <2> QED BY <2>1, <2>2, <2>5, <2>6
<1>11. c = [mem |-> c.mem, disk |-> c.disk]
  BY <1>8
<1> QED BY <1>2, <1>3, <1>4, <1>5, <1>9, <1>10, <1>11 DEF CommittedAs

(* A transaction keeps the device consistent, and its disk grows.           *)
LEMMA CommittedLocal ==
  ASSUME NEW q, NEW s, Local(q, s), NEW recs, FairRecs(q, recs), NEW mine \in SUBSET Text,
         NEW native \in BOOLEAN,
         NEW b, b = Merge(s.mem, recs, mine), NEW d, d = Merge(s.disk, recs, mine),
         NEW c, c = Committed(s, recs, mine, native)
  PROVE  /\ Local(q, c) /\ Grows(s.disk, c.disk)
         /\ Shows(s.mem, c.mem) /\ Behind(s.mem, c.mem)
         /\ \A t \in Text : Buried(b, t) => c.mem.row[t] # "text"
<1>0. /\ FairBook(q, s.mem) /\ FairBook(q, s.disk) /\ Behind(s.mem, s.disk)
      /\ \A t \in Text :
          /\ s.mem.row[t] = "none" <=> s.disk.row[t] = "none"
          /\ s.disk.row[t] = "text" => s.mem.row[t] = "text"
          /\ t \in s.mem.attempt => s.mem.row[t] = "text"
          /\ t \in s.disk.attempt => s.disk.row[t] = "text"
  BY DEF Local
<1>1. /\ FairBook(q, b) /\ b.row = s.mem.row /\ b.attempt = s.mem.attempt
      /\ FairBook(q, d) /\ d.row = s.disk.row /\ d.attempt = s.disk.attempt
  <2>1. FairBook(q, b) /\ b.row = s.mem.row /\ b.attempt = s.mem.attempt
    BY <1>0, MergeFields
  <2>2. FairBook(q, d) /\ d.row = s.disk.row /\ d.attempt = s.disk.attempt
    BY <1>0, MergeFields
  <2> QED BY <2>1, <2>2
<1>2. Behind(b, d) /\ Behind(s.disk, d) /\ Behind(s.mem, b)
  <2>1. Behind(b, d)
    BY <1>0, MergeKeepsBehind
  <2>2. Behind(s.disk, d)
    BY <1>0, MergeBehind
  <2>3. Behind(s.mem, b)
    BY <1>0, MergeBehind
  <2> QED BY <2>1, <2>2, <2>3
<1>3. PICK E : E = Changes(s, b)
  OBVIOUS
<1>4. /\ c = [mem |-> c.mem, disk |-> c.disk]
      /\ c.mem \in Book /\ c.mem.rec = b.rec /\ c.mem.me = b.me
      /\ c.mem.accepted = b.accepted \cup (IF native THEN Receipts(recs) ELSE {})
      /\ c.mem.attempt = b.attempt \ E
      /\ \A t \in Text : c.mem.row[t] = IF t \in E THEN Marker(d, t) ELSE b.row[t]
  <2>1. CommittedAs(s, recs, native, b, d, c)
    BY CommittedFields
  <2> QED BY <1>3, <2>1 DEF CommittedAs
<1>5. /\ c.disk \in Book /\ c.disk.rec = d.rec /\ c.disk.me = d.me
      /\ c.disk.accepted = d.accepted \cup (IF native THEN Receipts(recs) ELSE {})
      /\ c.disk.attempt = d.attempt \ E
      /\ \A t \in Text : c.disk.row[t] = IF t \in E THEN Marker(d, t) ELSE d.row[t]
  <2>1. CommittedAs(s, recs, native, b, d, c)
    BY CommittedFields
  <2> QED BY <1>3, <2>1 DEF CommittedAs
<1>6. \A t \in E : t \in Text /\ Marker(d, t) \notin {"none", "text"}
  <2> TAKE t \in E
  <2>1. t \in Text /\ Marker(b, t) # "none"
    BY <1>3 DEF Changes
  <2>2. Buried(b, t)
    BY <2>1, MarkerIs
  <2>3. Buried(d, t)
    BY <1>1, <1>2, <2>2, BuriedGrows
  <2> QED BY <2>1, <2>3, MarkerIs
<1>7. FairBook(q, c.mem) /\ FairBook(q, c.disk)
  BY <1>1, <1>4, <1>5 DEF FairBook
<1>8. Behind(c.mem, c.disk) /\ Behind(s.disk, c.disk) /\ Behind(s.mem, c.mem)
  BY <1>2, <1>4, <1>5 DEF Behind
<1>9. ASSUME NEW t \in Text
      PROVE  /\ c.mem.row[t] = "none" <=> c.disk.row[t] = "none"
             /\ c.disk.row[t] = "text" => c.mem.row[t] = "text"
             /\ t \in c.mem.attempt => c.mem.row[t] = "text"
             /\ t \in c.disk.attempt => c.disk.row[t] = "text"
             /\ Erased(s.disk, t) => Erased(c.disk, t)
             /\ Erased(s.mem, t) => Erased(c.mem, t)
             /\ s.mem.row[t] # "none" => c.mem.row[t] # "none"
             /\ c.disk.row[t] = "text" => s.disk.row[t] = "text"
  <2>1. CASE t \in E
    BY <1>4, <1>5, <1>6, <2>1 DEF Erased
  <2>2. CASE t \notin E
    BY <1>0, <1>1, <1>4, <1>5, <2>2 DEF Erased
  <2> QED BY <2>1, <2>2
<1>10. ASSUME NEW t \in Text, Buried(b, t) PROVE c.mem.row[t] # "text"
  <2>1. CASE t \in E
    BY <1>4, <1>6, <2>1
  <2>2. CASE t \notin E
    <3>1. Marker(b, t) \notin {"none", "text"}
      BY <1>10, MarkerIs
    <3>2. s.mem.row[t] # "text"
      BY <1>3, <2>2, <3>1 DEF Changes
    <3> QED BY <1>1, <1>4, <2>2, <3>2
  <2> QED BY <2>1, <2>2
<1> QED BY <1>4, <1>7, <1>8, <1>9, <1>10 DEF Local, Grows, Shows

(* install, whatever the outcome: the device stays consistent, its disk     *)
(* only grows, and records come from the two journals and the input.  When  *)
(* it succeeds memory holds the merged journal and shows no text that is    *)
(* deleted in it.                                                           *)
Installed(q, s, recs, mine, native, outcome, i) ==
    /\ Local(q, i.s) /\ Grows(s.disk, i.s.disk)
    /\ Shows(s.mem, i.s.mem) /\ Behind(s.mem, i.s.mem)
    /\ \A op \in Op :
          /\ i.s.mem.rec[op] \in {s.mem.rec[op], Merged(s.mem.rec[op], recs[op])}
          /\ i.s.disk.rec[op] \in {s.disk.rec[op], Merged(s.disk.rec[op], recs[op])}
          /\ op \notin DOMAIN recs => /\ i.s.mem.rec[op] = s.mem.rec[op]
                                      /\ i.s.disk.rec[op] = s.disk.rec[op]
    /\ i.s.mem.attempt \subseteq s.mem.attempt /\ i.s.disk.attempt \subseteq s.disk.attempt
    /\ i.ok =>
          /\ \A op \in DOMAIN recs : i.s.mem.rec[op] = Merged(s.mem.rec[op], recs[op])
          /\ mine \subseteq i.s.mem.me
          /\ native => Receipts(recs) \subseteq i.s.mem.accepted
          /\ \A t \in Text : Buried(i.s.mem, t) => i.s.mem.row[t] # "text"
    /\ i.ok \/ i.s = s
    /\ i.ok \in BOOLEAN /\ (outcome # "refused" => i.ok)

(* install does what Installed says.                                        *)
LEMMA InstallEffect ==
  ASSUME NEW q, NEW s, Local(q, s), NEW recs, FairRecs(q, recs), NEW mine \in SUBSET Text,
         NEW native \in BOOLEAN, NEW outcome,
         NEW i, i = Install(s, recs, mine, native, outcome)
  PROVE  Installed(q, s, recs, mine, native, outcome, i)
<1>0. FairBook(q, s.mem) /\ FairBook(q, s.disk) /\ DOMAIN recs \subseteq Op
  BY DEF Local, FairRecs
<1>1. PICK b : b = Merge(s.mem, recs, mine)
  OBVIOUS
<1>2. PICK d : d = Merge(s.disk, recs, mine)
  OBVIOUS
<1>3. /\ b.me = s.mem.me \cup mine
      /\ \A op \in Op : b.rec[op] = IF op \in DOMAIN recs
                                    THEN Merged(s.mem.rec[op], recs[op]) ELSE s.mem.rec[op]
  BY <1>0, <1>1, MergeFields
<1>4. \A op \in Op : d.rec[op] = IF op \in DOMAIN recs
                                 THEN Merged(s.disk.rec[op], recs[op]) ELSE s.disk.rec[op]
  BY <1>0, <1>2, MergeFields
<1>5. CASE Unchanged(s, recs, mine, native)
  <2>1. i.s = s /\ i.ok = TRUE
    BY <1>5 DEF Install
  <2>2. b = s.mem /\ Changes(s, b) = {} /\ (native => Receipts(recs) \subseteq s.mem.accepted)
    BY <1>1, <1>5 DEF Unchanged
  <2>3. ASSUME NEW t \in Text, Buried(s.mem, t) PROVE s.mem.row[t] # "text"
    <3>1. Marker(b, t) \notin {"none", "text"}
      BY <2>2, <2>3, MarkerIs
    <3> QED BY <2>2, <3>1 DEF Changes
  <2>4. \A op \in DOMAIN recs : s.mem.rec[op] = Merged(s.mem.rec[op], recs[op])
    BY <1>0, <1>3, <2>2
  <2>5. mine \subseteq s.mem.me
    BY <1>3, <2>2
  <2> QED BY <2>1, <2>2, <2>3, <2>4, <2>5, GrowsSelf DEF Installed
<1>6. CASE ~Unchanged(s, recs, mine, native) /\ outcome = "refused"
  <2>1. i.s = s /\ i.ok = FALSE
    BY <1>6 DEF Install
  <2> QED BY <1>6, <2>1, GrowsSelf DEF Installed
<1>7. CASE ~Unchanged(s, recs, mine, native) /\ outcome # "refused"
  <2>1. PICK c : c = Committed(s, recs, mine, native)
    OBVIOUS
  <2>2. i.s = c /\ i.ok = TRUE
    BY <1>7, <2>1 DEF Install
  <2>3. /\ Local(q, c) /\ Grows(s.disk, c.disk) /\ Shows(s.mem, c.mem) /\ Behind(s.mem, c.mem)
        /\ \A t \in Text : Buried(b, t) => c.mem.row[t] # "text"
    BY <1>1, <1>2, <2>1, CommittedLocal
  <2>4. /\ c.mem.rec = b.rec /\ c.disk.rec = d.rec /\ c.mem.me = b.me
        /\ c.mem.accepted = b.accepted \cup (IF native THEN Receipts(recs) ELSE {})
    <3>1. CommittedAs(s, recs, native, b, d, c)
      BY <1>1, <1>2, <2>1, CommittedFields
    <3> QED BY <3>1 DEF CommittedAs
  <2>5. \A t \in Text : Buried(c.mem, t) <=> Buried(b, t)
    BY <2>4 DEF Buried
  <2>6. \A op \in DOMAIN recs : c.mem.rec[op] = Merged(s.mem.rec[op], recs[op])
    BY <1>0, <1>3, <2>4
  <2>7. \A op \in Op :
           /\ c.mem.rec[op] \in {s.mem.rec[op], Merged(s.mem.rec[op], recs[op])}
           /\ c.disk.rec[op] \in {s.disk.rec[op], Merged(s.disk.rec[op], recs[op])}
           /\ op \notin DOMAIN recs => /\ c.mem.rec[op] = s.mem.rec[op]
                                       /\ c.disk.rec[op] = s.disk.rec[op]
    BY <1>3, <1>4, <2>4
  <2>9. c.mem.attempt \subseteq s.mem.attempt /\ c.disk.attempt \subseteq s.disk.attempt
    <3>1. CommittedAs(s, recs, native, b, d, c)
      BY <1>1, <1>2, <2>1, CommittedFields
    <3>2. b.attempt = s.mem.attempt
      BY <1>0, <1>1, MergeFields
    <3>3. d.attempt = s.disk.attempt
      BY <1>0, <1>2, MergeFields
    <3> QED BY <3>1, <3>2, <3>3 DEF CommittedAs
  <2>8. mine \subseteq c.mem.me /\ (native => Receipts(recs) \subseteq c.mem.accepted)
    BY <1>3, <2>4
  <2> QED BY <2>2, <2>3, <2>5, <2>6, <2>7, <2>8, <2>9 DEF Installed
<1> QED BY <1>5, <1>6, <1>7

(* reload: memory takes over the journal of the disk and nothing else.      *)
LEMMA ReloadEffect ==
  ASSUME NEW q, NEW s, Local(q, s), NEW r, r = Reload(s)
  PROVE  /\ Local(q, r) /\ r.disk = s.disk /\ r.mem.row = s.mem.row
         /\ r.mem.attempt = s.mem.attempt /\ r.mem.me = s.disk.me
         /\ \A op \in Op : r.mem.rec[op] = s.disk.rec[op]
<1>0. /\ s = [mem |-> s.mem, disk |-> s.disk] /\ s.mem \in Book /\ s.disk \in Book
      /\ FairBook(q, s.disk) /\ Behind(s.mem, s.disk)
  BY DEF Local, FairBook
<1>1. PICK R : R = [op \in Op |-> IF s.disk.rec[op] # None THEN s.disk.rec[op] ELSE s.mem.rec[op]]
  OBVIOUS
<1>2. R \in [Op -> Record \cup {None}] /\ \A op \in Op : R[op] = s.disk.rec[op]
  BY <1>0, <1>1, BookFields DEF Behind
<1>3. PICK b : b = [s.mem EXCEPT !.accepted = s.disk.accepted, !.rec = R, !.me = s.mem.me \cup s.disk.me]
  OBVIOUS
<1>4. s.mem.me \cup s.disk.me = s.disk.me
  BY <1>0 DEF Behind
<1>5. /\ b \in Book /\ b.rec = R /\ b.me = s.disk.me /\ b.accepted = s.disk.accepted
      /\ b.row = s.mem.row /\ b.attempt = s.mem.attempt
  BY <1>0, <1>2, <1>3, <1>4 DEF Book
<1>6. r = [mem |-> b, disk |-> s.disk]
  <2>1. r = [s EXCEPT !.mem = b]
    BY <1>0, <1>1, <1>3 DEF Reload, Book
  <2> QED BY <1>0, <2>1
<1>7. FairBook(q, b) /\ Behind(b, s.disk)
  BY <1>0, <1>2, <1>5 DEF FairBook, Behind
<1> QED BY <1>0, <1>2, <1>5, <1>6, <1>7 DEF Local

-----------------------------------------------------------------------------
(* Receipts. *)

(* Journal b of k stands behind the receipt of k for operation op.          *)
Durable(q, b, op, k) ==
    /\ b.rec[op] # None /\ b.rec[op].status = "confirmed" /\ op \in b.accepted
    /\ b.row[q[op].target] # "text" /\ OtherAccount(q[op], k)

(* A disk that grows keeps standing behind its receipts.                    *)
LEMMA DurableGrows ==
  ASSUME NEW q, NEW b, NEW d, FairBook(q, b), Grows(b, d), NEW op \in Op, NEW k,
         Durable(q, b, op, k)
  PROVE  Durable(q, d, op, k)
<1>1. b.rec[op].request = q[op] /\ q[op].target \in Text
  BY RecordFields DEF Durable, FairBook, Fair
<1>2. Buried(b, q[op].target)
  BY <1>1 DEF Durable, Buried
<1> QED BY <1>1, <1>2 DEF Durable, Grows, Behind

(* A record that may be in the world w (the requests that were made, the    *)
(* receipts that are durable, the members whose roster has changed) or      *)
(* carries a receipt that m may give and its disk d stands behind.          *)
Proper(q, w, m, d, op, rec) ==
    /\ op \in w.made
    /\ rec.ack # None => \/ <<op, rec.ack>> \in w.seen
                         \/ rec.ack = m /\ op \in w.may /\ Durable(q, d, op, m)
    /\ rec.status = "rejected" => q[op].actor \in w.late

ProperBook(q, w, m, d, b) ==
    \A op \in Op : b.rec[op] # None => Proper(q, w, m, d, op, b.rec[op])

ProperRecs(q, w, m, d, recs) ==
    \A op \in DOMAIN recs : Proper(q, w, m, d, op, recs[op])

Whole(q, w, m, s) ==
    Local(q, s) /\ ProperBook(q, w, m, s.disk, s.mem) /\ ProperBook(q, w, m, s.disk, s.disk)

(* So a record stays proper.                                                *)
LEMMA ProperGrows ==
  ASSUME NEW q, NEW w, NEW m, NEW b, NEW d, FairBook(q, b), Grows(b, d),
         NEW op \in Op, NEW rec, Proper(q, w, m, b, op, rec)
  PROVE  Proper(q, w, m, d, op, rec)
BY DurableGrows DEF Proper

(* install keeps a device whole, if the records it takes in are proper.     *)
LEMMA WholeInstall ==
  ASSUME NEW q, NEW w, NEW m, NEW s, Whole(q, w, m, s), NEW recs, FairRecs(q, recs),
         NEW mine \in SUBSET Text, NEW native \in BOOLEAN, NEW outcome,
         NEW i, i = Install(s, recs, mine, native, outcome),
         i.ok => ProperRecs(q, w, m, i.s.disk, recs)
  PROVE  Whole(q, w, m, i.s) /\ Installed(q, s, recs, mine, native, outcome, i)
<1>0. Local(q, s) /\ FairBook(q, s.disk) /\ FairBook(q, s.mem)
  BY DEF Whole, Local
<1>1. Installed(q, s, recs, mine, native, outcome, i)
  BY <1>0, InstallEffect
<1>2. CASE i.s = s
  BY <1>1, <1>2
<1>3. CASE i.ok
  <2>1. Local(q, i.s) /\ Grows(s.disk, i.s.disk)
    BY <1>1 DEF Installed
  <2>2. ASSUME NEW op \in Op, s.mem.rec[op] # None
        PROVE  Proper(q, w, m, i.s.disk, op, s.mem.rec[op])
    BY <1>0, <2>1, <2>2, ProperGrows DEF Whole, ProperBook
  <2>3. ASSUME NEW op \in Op, s.disk.rec[op] # None
        PROVE  Proper(q, w, m, i.s.disk, op, s.disk.rec[op])
    BY <1>0, <2>1, <2>3, ProperGrows DEF Whole, ProperBook
  <2>4. ASSUME NEW op \in Op, i.s.mem.rec[op] # None
        PROVE  Proper(q, w, m, i.s.disk, op, i.s.mem.rec[op])
    <3>1. CASE op \notin DOMAIN recs
      <4>1. i.s.mem.rec[op] = s.mem.rec[op]
        BY <1>1, <3>1 DEF Installed
      <4> QED BY <2>2, <2>4, <4>1
    <3>2. CASE op \in DOMAIN recs
      <4>1. i.s.mem.rec[op] \in {s.mem.rec[op], recs[op]}
        BY <1>1 DEF Installed, Merged
      <4>2. Proper(q, w, m, i.s.disk, op, recs[op])
        BY <1>3, <3>2 DEF ProperRecs
      <4> QED BY <2>2, <2>4, <4>1, <4>2
    <3> QED BY <3>1, <3>2
  <2>5. ASSUME NEW op \in Op, i.s.disk.rec[op] # None
        PROVE  Proper(q, w, m, i.s.disk, op, i.s.disk.rec[op])
    <3>1. CASE op \notin DOMAIN recs
      <4>1. i.s.disk.rec[op] = s.disk.rec[op]
        BY <1>1, <3>1 DEF Installed
      <4> QED BY <2>3, <2>5, <4>1
    <3>2. CASE op \in DOMAIN recs
      <4>1. i.s.disk.rec[op] \in {s.disk.rec[op], recs[op]}
        BY <1>1 DEF Installed, Merged
      <4>2. Proper(q, w, m, i.s.disk, op, recs[op])
        BY <1>3, <3>2 DEF ProperRecs
      <4> QED BY <2>3, <2>5, <4>1, <4>2
    <3> QED BY <3>1, <3>2
  <2> QED BY <1>1, <2>1, <2>4, <2>5 DEF Whole, ProperBook
<1> QED BY <1>1, <1>2, <1>3 DEF Installed

(* A confirmed record that was installed as one's own is durable.           *)
LEMMA InstalledDurable ==
  ASSUME NEW q, NEW s, Local(q, s), NEW recs, FairRecs(q, recs), NEW mine, NEW outcome,
         NEW i, Installed(q, s, recs, mine, TRUE, outcome, i), i.ok,
         NEW op \in DOMAIN recs, recs[op].status = "confirmed",
         NEW k, OtherAccount(q[op], k)
  PROVE  Durable(q, i.s.disk, op, k)
<1>0. /\ op \in Op /\ Fair(q, op, recs[op]) /\ Local(q, i.s)
      /\ (s.mem.rec[op] # None => Fair(q, op, s.mem.rec[op]))
  BY DEF FairRecs, Installed, Local, FairBook
<1>1. i.s.mem.rec[op] = Merged(s.mem.rec[op], recs[op]) /\ op \in i.s.mem.accepted
  BY DEF Installed, Receipts
<1>2. i.s.mem.rec[op] # None /\ i.s.mem.rec[op].status = "confirmed"
      /\ Fair(q, op, i.s.mem.rec[op])
  BY <1>0, <1>1, MergedIs
<1>3. /\ i.s.disk.rec[op] # None /\ i.s.disk.rec[op].status = "confirmed"
      /\ op \in i.s.disk.accepted
  BY <1>0, <1>1, <1>2 DEF Local, Behind
<1>4. q[op].target \in Text /\ Buried(i.s.mem, q[op].target)
  BY <1>0, <1>2, RecordFields DEF Fair, Buried
<1>5. i.s.mem.row[q[op].target] # "text"
  BY <1>4 DEF Installed
<1>6. i.s.disk.row[q[op].target] # "text"
  BY <1>0, <1>4, <1>5 DEF Local
<1> QED BY <1>3, <1>6 DEF Durable

-----------------------------------------------------------------------------
(* Taking in a page. *)

(* What currently_admissible and the receipt make of a record.              *)
LEMMA AdmittedIs ==
  ASSUME NEW q, NEW m \in Member, NEW op \in Op, NEW n \in Member, NEW r, Fair(q, op, r),
         r.status # "rejected", NEW a, a = Admissible(m, op, r, n), a # None,
         NEW rec, rec = Receipted(m, a)
  PROVE  /\ Fair(q, op, rec) /\ rec.status # "rejected"
         /\ \/ rec = r
            \/ rec = Pending(q[op])
            \/ /\ rec = Confirmed(q[op], m) /\ OtherAccount(q[op], m)
               /\ q[op].moderated => q[op].actor \in Roster(m).admins
<1>0. r \in Record /\ r.request = q[op] /\ q[op] \in Request
  BY RecordFields DEF Fair
<1>1. \/ a = r /\ Validate(m, mem[m].accepted, op, r, n)
      \/ a = Pending(q[op]) /\ Validate(m, mem[m].accepted, op, Pending(q[op]), n)
  <2>1. CASE Validate(m, mem[m].accepted, op, r, n)
    <3>1. a = r
      BY <2>1, Zenon DEF Admissible
    <3> QED BY <2>1, <3>1
  <2>2. CASE /\ ~Validate(m, mem[m].accepted, op, r, n) /\ r.status = "confirmed"
             /\ Validate(m, mem[m].accepted, op, Pending(r.request), n)
    <3>1. a = Pending(r.request)
      BY <2>2, Zenon DEF Admissible
    <3> QED BY <1>0, <2>2, <3>1
  <2>3. CASE /\ ~Validate(m, mem[m].accepted, op, r, n)
             /\ ~ /\ r.status = "confirmed"
                  /\ Validate(m, mem[m].accepted, op, Pending(r.request), n)
    <3>1. a = None
      BY <2>3, Zenon DEF Admissible
    <3> QED BY <3>1
  <2> QED BY <2>1, <2>2, <2>3
<1>2. Fair(q, op, a) /\ a.status # "rejected" /\ a.request = q[op]
      /\ Validate(m, mem[m].accepted, op, a, n)
  <2>1. Fair(q, op, Pending(q[op]))
    BY <1>0, FairRecord
  <2>2. Pending(q[op]).status = "pending" /\ Pending(q[op]).request = q[op]
    BY DEF Pending
  <2> QED BY <1>0, <1>1, <2>1, <2>2
<1>3. CASE a.ack = None /\ MayAck(m, a.request, m)
  <2>1. rec = Confirmed(q[op], m)
    BY <1>2, <1>3 DEF Receipted
  <2>2. OtherAccount(q[op], m)
    BY <1>2, <1>3 DEF MayAck
  <2>3. a.status # "confirmed"
    BY <1>2, <1>3 DEF Fair
  <2>4. q[op].moderated => q[op].actor \in Roster(m).admins
    BY <1>2, <2>3 DEF Validate
  <2>5. Fair(q, op, rec) /\ rec.status # "rejected"
    BY <1>0, <2>1, FairRecord DEF Confirmed
  <2> QED BY <2>1, <2>2, <2>4, <2>5
<1>4. CASE ~(a.ack = None /\ MayAck(m, a.request, m))
  <2>1. rec = a
    BY <1>4 DEF Receipted
  <2> QED BY <1>1, <1>2, <2>1
<1> QED BY <1>3, <1>4

(* What m may receipt now. *)
MayGive(q, m) == {op \in Op : q[op].moderated => q[op].actor \in Roster(m).admins}

(* A device in the middle of a page.                                        *)
Running(q, w, m, x) ==
    /\ x = [s |-> x.s, ok |-> x.ok, signed |-> x.signed] /\ x.ok \in BOOLEAN
    /\ Whole(q, w, m, x.s) /\ Grows(disk[m], x.s.disk) /\ Shows(mem[m], x.s.mem)
    /\ x.s.mem.attempt \subseteq mem[m].attempt /\ x.s.disk.attempt \subseteq disk[m].attempt
    /\ x.signed \subseteq Op
    /\ x.ok => \A op \in x.signed : Durable(q, x.s.disk, op, m)

(* A record somebody else's page may hold.                                  *)
Circulates(q, w, op, rec) ==
    /\ Fair(q, op, rec) /\ rec.status # "rejected" /\ op \in w.made
    /\ rec.ack # None => <<op, rec.ack>> \in w.seen

(* accept: one record of a page, with the receipt of m.                     *)
LEMMA AcceptStep ==
  ASSUME NEW q, NEW w, NEW m \in Member, NEW n \in Member, NEW at, NEW x, Running(q, w, m, x),
         FairBook(q, disk[m]), w.may = MayGive(q, m),
         NEW op \in Op, NEW r, Circulates(q, w, op, r),
         <<op, m>> \in w.seen => Durable(q, disk[m], op, m),
         NEW y, y = Accept(m, n, at, x, op, r)
  PROVE  Running(q, w, m, y)
<1>0. PICK a : a = Admissible(m, op, r, n)
  OBVIOUS
<1>1. CASE ~x.ok \/ a = None
  <2>1. y = [x EXCEPT !.ok = FALSE]
    BY <1>0, <1>1 DEF Accept
  <2>2. y.s = x.s /\ y.ok = FALSE /\ y.signed = x.signed
        /\ y = [s |-> y.s, ok |-> y.ok, signed |-> y.signed]
    BY <2>1 DEF Running
  <2> QED BY <2>2 DEF Running
<1>2. CASE x.ok /\ a # None
  <2>1. PICK rec : rec = Receipted(m, a)
    OBVIOUS
  <2>2. PICK recs : recs = Only(op, rec)
    OBVIOUS
  <2>3. PICK out : out = IF op = at THEN "refused" ELSE "saved"
    OBVIOUS
  <2>4. PICK i : i = Install(x.s, recs, {}, TRUE, out)
    OBVIOUS
  <2>5. y = [s |-> i.s, ok |-> i.ok,
             signed |-> x.signed \cup (IF rec.ack = m THEN {op} ELSE {})]
    BY <1>0, <1>2, <2>1, <2>2, <2>3, <2>4 DEF Accept
  <2>6. /\ Fair(q, op, rec) /\ rec.status # "rejected"
        /\ \/ rec = r
           \/ rec = Pending(q[op])
           \/ /\ rec = Confirmed(q[op], m) /\ OtherAccount(q[op], m)
              /\ q[op].moderated => q[op].actor \in Roster(m).admins
    BY <1>0, <1>2, <2>1, AdmittedIs DEF Circulates
  <2>7. FairRecs(q, recs) /\ DOMAIN recs = {op} /\ recs[op] = rec
    <3>1. Fair(q, op, rec)
      BY <2>6
    <3>2. DOMAIN recs = {op} /\ recs[op] = rec
      BY <2>2 DEF Only
    <3> QED BY <3>1, <3>2 DEF FairRecs
  <2>8. Whole(q, w, m, x.s) /\ Local(q, x.s) /\ Grows(disk[m], x.s.disk) /\ FairBook(q, x.s.disk)
    BY DEF Running, Whole, Local
  <2>9. Installed(q, x.s, recs, {}, TRUE, out, i)
    BY <2>4, <2>7, <2>8, InstallEffect
  <2>10. rec.ack = m => OtherAccount(q[op], m) /\ (<<op, m>> \in w.seen \/ op \in w.may)
    <3>1. CASE rec = r
      BY <3>1, Constants DEF Circulates, Durable
    <3>2. CASE rec = Pending(q[op])
      BY <3>2, Constants DEF Pending
    <3>3. CASE OtherAccount(q[op], m) /\ (q[op].moderated => q[op].actor \in Roster(m).admins)
      BY <3>3 DEF MayGive
    <3> QED BY <2>6, <3>1, <3>2, <3>3
  <2>11. i.ok /\ rec.ack = m => Durable(q, i.s.disk, op, m)
    <3> SUFFICES ASSUME i.ok, rec.ack = m PROVE Durable(q, i.s.disk, op, m)
      OBVIOUS
    <3>1. rec.status = "confirmed"
      BY <2>6, Constants DEF Fair
    <3> QED BY <2>7, <2>8, <2>9, <2>10, <3>1, InstalledDurable
  <2>12. i.ok => ProperRecs(q, w, m, i.s.disk, recs)
    <3> SUFFICES ASSUME i.ok PROVE Proper(q, w, m, i.s.disk, op, rec)
      BY <2>7 DEF ProperRecs
    <3>1. rec.ack # None => \/ <<op, rec.ack>> \in w.seen
                            \/ rec.ack = m /\ op \in w.may /\ Durable(q, i.s.disk, op, m)
      <4>1. CASE rec.ack = m
        BY <2>10, <2>11, <4>1
      <4>2. CASE rec.ack # m
        <5>1. CASE rec = r
          BY <5>1 DEF Circulates
        <5>2. CASE rec = Pending(q[op])
          BY <5>2 DEF Pending
        <5>3. CASE rec = Confirmed(q[op], m)
          BY <4>2, <5>3 DEF Confirmed
        <5> QED BY <2>6, <5>1, <5>2, <5>3
      <4> QED BY <4>1, <4>2
    <3> QED BY <2>6, <3>1 DEF Proper, Circulates
  <2>13. Whole(q, w, m, i.s)
    BY <2>4, <2>7, <2>8, <2>12, WholeInstall
  <2>14. Grows(x.s.disk, i.s.disk) /\ Shows(x.s.mem, i.s.mem) /\ i.ok \in BOOLEAN
         /\ i.s.mem.attempt \subseteq x.s.mem.attempt /\ i.s.disk.attempt \subseteq x.s.disk.attempt
    BY <2>9 DEF Installed
  <2>15. Grows(disk[m], i.s.disk)
    BY <2>8, <2>14, GrowsTrans
  <2>16. x.signed \subseteq Op /\ \A o \in x.signed : Durable(q, i.s.disk, o, m)
    BY <1>2, <2>8, <2>14, DurableGrows DEF Running
  <2>17. /\ y = [s |-> y.s, ok |-> y.ok, signed |-> y.signed] /\ y.s = i.s /\ y.ok = i.ok
         /\ y.signed = x.signed \cup (IF rec.ack = m THEN {op} ELSE {})
    BY <2>5
  <2>18. x.s.mem.attempt \subseteq mem[m].attempt /\ x.s.disk.attempt \subseteq disk[m].attempt
    BY DEF Running
  <2>19. Shows(mem[m], i.s.mem)
    BY <2>14 DEF Running, Shows
  <2> QED BY <2>11, <2>13, <2>14, <2>15, <2>16, <2>17, <2>18, <2>19 DEF Running
<1> QED BY <1>1, <1>2

(* Induction over the operations of a page, by the least counterexample.    *)
LEMMA Induction ==
  ASSUME NEW S \in SUBSET Nat, 0 \in S, \A n \in Nat \ {0} : n - 1 \in S => n \in S
  PROVE  S = Nat
<1> SUFFICES ASSUME Nat \ S # {} PROVE FALSE
  OBVIOUS
<1>1. IsWellFoundedOn(OpToRel(<, Nat), Nat)
  BY NatLessThanWellFounded
<1>2. PICK m \in Nat \ S : \A k \in Nat \ S : <<k, m>> \notin OpToRel(<, Nat)
  BY <1>1, WFMin
<1>3. m # 0 /\ m - 1 \in Nat /\ m - 1 < m
  OBVIOUS
<1>4. m - 1 \in S
  BY <1>2, <1>3 DEF OpToRel
<1> QED BY <1>3, <1>4

(* The record of operation op of a page, if it has one.                     *)
StepOf(m, n, page, at, op, x) ==
    IF op \in DOMAIN page.records
    THEN Accept(m, n, at, x, op, page.records[op]) ELSE x

(* f is what m holds after each operation up to k.                          *)
IsRun(f, k, m, n, page, at) ==
    f = [op \in 0 .. k |->
            IF op = 0 THEN [s |-> Here(m), ok |-> TRUE, signed |-> {}]
            ELSE IF op \in DOMAIN page.records
            THEN Accept(m, n, at, f[op - 1], op, page.records[op]) ELSE f[op - 1]]

(* The recursive function of receive_state is one.                          *)
LEMMA RunExists ==
  ASSUME NEW m, NEW n, NEW page, NEW at, NEW k \in Nat
  PROVE  \E f : IsRun(f, k, m, n, page, at)
<1>0. PICK base : base = [s |-> Here(m), ok |-> TRUE, signed |-> {}]
  OBVIOUS
<1>1. PICK S : S = {j \in Nat : \E f : IsRun(f, j, m, n, page, at)}
  OBVIOUS
<1>2. 0 \in S
  <2>1. PICK g : g = [i \in {0} |-> base]
    OBVIOUS
  <2>2. 0 .. 0 = {0}
    OBVIOUS
  <2>3. IsRun(g, 0, m, n, page, at)
    BY <1>0, <2>1, <2>2 DEF IsRun
  <2> QED BY <1>1, <2>3
<1>3. ASSUME NEW j \in Nat \ {0}, j - 1 \in S PROVE j \in S
  <2>1. PICK f : IsRun(f, j - 1, m, n, page, at)
    BY <1>1, <1>3
  <2>2. PICK g : g = [i \in 0 .. j |-> IF i = j THEN StepOf(m, n, page, at, j, f[j - 1]) ELSE f[i]]
    OBVIOUS
  <2>3. ASSUME NEW i \in 0 .. j
        PROVE  g[i] = IF i = 0 THEN base ELSE StepOf(m, n, page, at, i, g[i - 1])
    <3>1. CASE i = j
      BY <2>2, <3>1
    <3>2. CASE i # j
      <4>1. i \in 0 .. (j - 1) /\ (i # 0 => i - 1 \in 0 .. j /\ i - 1 # j)
        BY <3>2
      <4>2. g[i] = f[i] /\ (i # 0 => g[i - 1] = f[i - 1])
        BY <2>2, <3>2, <4>1
      <4>3. f[i] = IF i = 0 THEN base ELSE StepOf(m, n, page, at, i, f[i - 1])
        BY <1>0, <2>1, <4>1 DEF IsRun, StepOf
      <4> QED BY <4>2, <4>3
    <3> QED BY <3>1, <3>2
  <2>4. IsRun(g, j, m, n, page, at)
    BY <1>0, <2>2, <2>3 DEF IsRun, StepOf
  <2> QED BY <1>1, <2>4
<1>4. S = Nat
  BY <1>1, <1>2, <1>3, Induction
<1> QED BY <1>1, <1>4

(* A page is taken in one record after the other.                           *)
LEMMA AcceptedRun ==
  ASSUME NEW m, NEW n, NEW page, NEW at
  PROVE  \E f : /\ Accepted(m, n, page, at) = f[Ops]
                /\ f[0] = [s |-> Here(m), ok |-> TRUE, signed |-> {}]
                /\ \A op \in Op : f[op] = StepOf(m, n, page, at, op, f[op - 1])
<1>1. PICK g : g = CHOOSE f : IsRun(f, Ops, m, n, page, at)
  OBVIOUS
<1>2. Accepted(m, n, page, at) = g[Ops]
  BY <1>1, Zenon DEF Accepted, IsRun
<1>3. \E f : IsRun(f, Ops, m, n, page, at)
  BY RunExists, Constants
<1>4. IsRun(g, Ops, m, n, page, at)
  BY <1>1, <1>3, Zenon
<1>5. 0 \in 0 .. Ops /\ \A op \in Op : op \in 0 .. Ops /\ op # 0
  BY Constants DEF Op
<1>6. g[0] = [s |-> Here(m), ok |-> TRUE, signed |-> {}]
  BY <1>4, <1>5 DEF IsRun
<1>7. ASSUME NEW op \in Op PROVE g[op] = StepOf(m, n, page, at, op, g[op - 1])
  BY <1>4, <1>5 DEF IsRun, StepOf
<1> QED BY <1>2, <1>6, <1>7

(* A whole page.                                                            *)
LEMMA AcceptedEffect ==
  ASSUME NEW q, NEW w, NEW m \in Member, NEW n \in Member, NEW page, NEW at,
         Whole(q, w, m, Here(m)), w.may = MayGive(q, m),
         DOMAIN page.records \subseteq Op,
         \A op \in DOMAIN page.records :
            /\ Circulates(q, w, op, page.records[op])
            /\ <<op, m>> \in w.seen => Durable(q, disk[m], op, m)
  PROVE  Running(q, w, m, Accepted(m, n, page, at))
<1>0. FairBook(q, disk[m])
  BY DEF Whole, Local, Here
<1>1. PICK f : /\ Accepted(m, n, page, at) = f[Ops]
               /\ f[0] = [s |-> Here(m), ok |-> TRUE, signed |-> {}]
               /\ \A op \in Op : f[op] = StepOf(m, n, page, at, op, f[op - 1])
  BY AcceptedRun
<1>2. PICK S : S = {k \in Nat : k <= Ops => Running(q, w, m, f[k])}
  OBVIOUS
<1>3. 0 \in S
  <2>1. Running(q, w, m, f[0])
    BY <1>1, GrowsSelf DEF Running, Here
  <2> QED BY <1>2, <2>1
<1>4. ASSUME NEW k \in Nat \ {0}, k - 1 \in S PROVE k \in S
  <2> SUFFICES ASSUME k <= Ops PROVE Running(q, w, m, f[k])
    BY <1>2
  <2>1. k \in Op /\ Running(q, w, m, f[k - 1])
    BY <1>2, <1>4, Constants DEF Op
  <2>2. CASE k \in DOMAIN page.records
    <3>1. f[k] = Accept(m, n, at, f[k - 1], k, page.records[k])
      BY <1>1, <2>1, <2>2 DEF StepOf
    <3>2. Circulates(q, w, k, page.records[k]) /\ (<<k, m>> \in w.seen => Durable(q, disk[m], k, m))
      BY <2>2
    <3> QED BY <1>0, <2>1, <3>1, <3>2, AcceptStep
  <2>3. CASE k \notin DOMAIN page.records
    <3>1. f[k] = f[k - 1]
      BY <1>1, <2>1, <2>3 DEF StepOf
    <3> QED BY <2>1, <3>1
  <2> QED BY <2>2, <2>3
<1>5. S = Nat
  BY <1>2, <1>3, <1>4, Induction
<1> QED BY <1>1, <1>2, <1>5, Constants

-----------------------------------------------------------------------------
(* The inductive invariant. *)

(* The receipts their signers stand behind.                                 *)
Seen(q) == {r \in Op \X Member : Durable(q, disk[r[2]], r[1], r[2])}

World(q, m, known) ==
    [made |-> known, seen |-> Seen(q), late |-> {k \in Member : view[k] > 1},
     may |-> MayGive(q, m)]

(* The actor had the right to delete under a roster it has known.           *)
Rightful(r) ==
    /\ r \in Request
    /\ \E i \in 1 .. view[r.actor] :
          /\ i \in 1 .. Len(Rosters) /\ r.epoch = Rosters[i].epoch
          /\ r.actor \in Rosters[i].members
          /\ IF r.moderated THEN r.actor \in Rosters[i].admins
             ELSE Account[r.actor] = Account[Author[r.target]]

Good(q, op, rec) ==
    /\ op \in made
    /\ rec.ack # None => <<op, rec.ack>> \in Seen(q)
    /\ rec.status = "rejected" => view[q[op].actor] > 1

GoodBook(q, b) == \A op \in Op : b.rec[op] # None => Good(q, op, b.rec[op])

GoodPage(q, p) ==
    /\ DOMAIN p.records \subseteq Op
    /\ \A op \in DOMAIN p.records :
          /\ Fair(q, op, p.records[op]) /\ p.records[op].status # "rejected"
          /\ Good(q, op, p.records[op])

Types ==
    /\ mem \in [Member -> Book] /\ disk \in [Member -> Book]
    /\ made \subseteq Op /\ view \in [Member -> 1 .. Len(Rosters)]
    /\ pages = [m \in Member |-> pages[m]] /\ mail \in [Member -> SUBSET Text]
    /\ owed = [m \in Member |-> owed[m]] /\ faults \in [Faults -> Nat]

(* The writes a device may owe: those of its own sends.                     *)
Owes(m, writes) ==
    /\ writes \in [Text -> {"nothing", "send", "publication"}]
    /\ \A t \in Text : writes[t] # "nothing" => Author[t] = m

(* A device sends, resends and writes again only what is its own, which it  *)
(* has had from the start.                                                  *)
Sends(m) ==
    /\ \A t \in mem[m].attempt \cup disk[m].attempt : Author[t] = m
    /\ \A t \in mail[m] : Author[t] # m
    /\ Owes(m, owed[m])
    /\ \A t \in Text : Author[t] = m => mem[m].row[t] # "none"

Consistent(q) ==
    /\ Types
    /\ \A op \in made : Rightful(q[op])
    /\ \A ack \in acks : <<ack.op, ack.signer>> \in Seen(q)
    /\ \A m \in Member :
          /\ Local(q, Here(m)) /\ GoodBook(q, mem[m]) /\ GoodBook(q, disk[m])
          /\ pages[m] # None => GoodPage(q, pages[m])
          /\ Sends(m)

DeletionInv == \E q : Consistent(q)

(* What a step does to the device it is a step of.                          *)
Ahead(q, w, m, s) ==
    /\ Whole(q, w, m, s) /\ Grows(disk[m], s.disk) /\ Shows(mem[m], s.mem)
    /\ s.mem.attempt \cup s.disk.attempt \subseteq mem[m].attempt \cup disk[m].attempt

(* m may publish t: memory has not erased it, and if the disk has a         *)
(* tombstone for it the store refuses something in this step.               *)
MaySend(m, t) ==
    /\ Author[t] = m /\ ~Erased(mem[m], t)
    /\ Buried(disk[m], t) => faults'["refused"] < faults["refused"]

Moves(q, m) ==
    /\ \E s : Set(m, s) /\ Ahead(q, World(q, m, made'), m, s)
    /\ \E e : Owe(m, e) /\ Owes(m, e)
    /\ made \subseteq made' /\ made' \subseteq Op /\ view' = view
    /\ \A op \in made' : Rightful(q[op])
    /\ pages' = pages \/ pages' = [pages EXCEPT ![m] = Page(m, mem'[m])]
    /\ \A ack \in acks' :
          ack \in acks \/ (ack.signer = m /\ ack.op \in Op /\ Durable(q, disk'[m], ack.op, m))
    /\ mail' \in [Member -> SUBSET Text] /\ faults' \in [Faults -> Nat]
    /\ \A n \in Member, t \in Text :
          t \in mail'[n] => t \in mail[n] \/ (n # m /\ MaySend(m, t))

(* What is good in a state is proper for the step of a device.              *)
LEMMA GoodIsProper ==
  ASSUME NEW q, NEW m, NEW known, made \subseteq known, NEW op \in Op, NEW rec, Good(q, op, rec),
         Fair(q, op, rec), NEW d
  PROVE  Proper(q, World(q, m, known), m, d, op, rec)
BY RecordFields DEF Good, Proper, World, Fair

(* In a consistent state every device is whole.                             *)
LEMMA WholeHere ==
  ASSUME NEW q, Consistent(q), NEW m \in Member, NEW known, made \subseteq known
  PROVE  Ahead(q, World(q, m, known), m, Here(m))
<1>1. Local(q, Here(m)) /\ GoodBook(q, mem[m]) /\ GoodBook(q, disk[m])
  BY DEF Consistent
<1>2. FairBook(q, mem[m]) /\ FairBook(q, disk[m])
  BY <1>1 DEF Local, Here
<1>3. PICK w : w = World(q, m, known)
  OBVIOUS
<1>4. ASSUME NEW op \in Op, mem[m].rec[op] # None PROVE Proper(q, w, m, disk[m], op, mem[m].rec[op])
  <2>1. Good(q, op, mem[m].rec[op]) /\ Fair(q, op, mem[m].rec[op])
    BY <1>1, <1>2, <1>4 DEF GoodBook, FairBook
  <2> QED BY <1>3, <2>1, GoodIsProper
<1>5. ASSUME NEW op \in Op, disk[m].rec[op] # None PROVE Proper(q, w, m, disk[m], op, disk[m].rec[op])
  <2>1. Good(q, op, disk[m].rec[op]) /\ Fair(q, op, disk[m].rec[op])
    BY <1>1, <1>2, <1>5 DEF GoodBook, FairBook
  <2> QED BY <1>3, <2>1, GoodIsProper
<1>6. Whole(q, w, m, Here(m))
  BY <1>1, <1>4, <1>5 DEF Whole, ProperBook, Here
<1> QED BY <1>3, <1>6, GrowsSelf DEF Ahead, Here

(* A device goes on with a step when it keeps what it had by then and every  *)
(* record it takes over is proper.                                          *)
LEMMA AheadThen ==
  ASSUME NEW q, NEW w, NEW m, FairBook(q, disk[m]), NEW s, Ahead(q, w, m, s),
         NEW e, Local(q, e), Grows(s.disk, e.disk), Shows(s.mem, e.mem),
         e.mem.attempt \cup e.disk.attempt \subseteq s.mem.attempt \cup s.disk.attempt,
         \A op \in Op : e.mem.rec[op] \in {None, s.mem.rec[op], s.disk.rec[op]},
         \A op \in Op : \/ e.disk.rec[op] \in {None, s.disk.rec[op]}
                        \/ Proper(q, w, m, e.disk, op, e.disk.rec[op])
  PROVE  Ahead(q, w, m, e)
<1>1. /\ Grows(disk[m], s.disk) /\ Shows(mem[m], s.mem) /\ FairBook(q, s.disk)
      /\ ProperBook(q, w, m, s.disk, s.mem) /\ ProperBook(q, w, m, s.disk, s.disk)
      /\ s.mem.attempt \cup s.disk.attempt \subseteq mem[m].attempt \cup disk[m].attempt
  BY DEF Ahead, Whole, Local
<1>2. ASSUME NEW op \in Op, NEW rec, Proper(q, w, m, s.disk, op, rec)
      PROVE  Proper(q, w, m, e.disk, op, rec)
  BY <1>1, <1>2, ProperGrows
<1>3. ProperBook(q, w, m, e.disk, e.mem)
  BY <1>1, <1>2 DEF ProperBook
<1>4. ProperBook(q, w, m, e.disk, e.disk)
  BY <1>1, <1>2 DEF ProperBook
<1>5. Grows(disk[m], e.disk)
  BY <1>1, GrowsTrans
<1>6. Shows(mem[m], e.mem)
  BY <1>1 DEF Shows
<1> QED BY <1>1, <1>3, <1>4, <1>5, <1>6 DEF Ahead, Whole

(* What a device may do while fewer requests were made it may still do.      *)
LEMMA AheadWider ==
  ASSUME NEW q, NEW m, NEW known, made \subseteq known, NEW s,
         Ahead(q, World(q, m, made), m, s)
  PROVE  Ahead(q, World(q, m, known), m, s)
<1>1. ASSUME NEW op, NEW rec, Proper(q, World(q, m, made), m, s.disk, op, rec)
      PROVE  Proper(q, World(q, m, known), m, s.disk, op, rec)
  BY <1>1 DEF Proper, World
<1> QED BY <1>1 DEF Ahead, Whole, ProperBook

(* reload carries a move on.                                                *)
LEMMA AheadReload ==
  ASSUME NEW q, NEW w, NEW m, FairBook(q, disk[m]), NEW s, Ahead(q, w, m, s),
         NEW e, e = Reload(s)
  PROVE  Ahead(q, w, m, e) /\ \A t : Buried(s.disk, t) => Buried(e.mem, t)
<1>1. Local(q, s)
  BY DEF Ahead, Whole
<1>2. /\ Local(q, e) /\ e.disk = s.disk /\ e.mem.row = s.mem.row
      /\ e.mem.attempt = s.mem.attempt /\ e.mem.me = s.disk.me
      /\ \A op \in Op : e.mem.rec[op] = s.disk.rec[op]
  BY <1>1, ReloadEffect
<1>3. Grows(s.disk, e.disk) /\ Shows(s.mem, e.mem)
  BY <1>2, GrowsSelf DEF Shows, Erased
<1>4. Ahead(q, w, m, e)
  BY <1>2, <1>3, AheadThen
<1> QED BY <1>2, <1>4 DEF Buried

(* install carries a move on.                                               *)
LEMMA AheadInstall ==
  ASSUME NEW q, NEW w, NEW m, FairBook(q, disk[m]), NEW s, Ahead(q, w, m, s),
         NEW recs, FairRecs(q, recs),
         NEW mine \in SUBSET Text, NEW native \in BOOLEAN, NEW outcome,
         NEW i, i = Install(s, recs, mine, native, outcome),
         i.ok => ProperRecs(q, w, m, i.s.disk, recs)
  PROVE  Ahead(q, w, m, i.s) /\ Installed(q, s, recs, mine, native, outcome, i)
<1>1. Whole(q, w, m, s) /\ Grows(disk[m], s.disk) /\ FairBook(q, s.disk)
  BY DEF Ahead, Whole, Local
<1>2. Whole(q, w, m, i.s) /\ Installed(q, s, recs, mine, native, outcome, i)
  BY <1>1, WholeInstall
<1>3. Grows(s.disk, i.s.disk) /\ Shows(s.mem, i.s.mem)
      /\ i.s.mem.attempt \subseteq s.mem.attempt /\ i.s.disk.attempt \subseteq s.disk.attempt
  BY <1>2 DEF Installed
<1>4. Grows(disk[m], i.s.disk)
  BY <1>1, <1>3, GrowsTrans
<1>5. Shows(mem[m], i.s.mem)
  BY <1>3 DEF Ahead, Shows
<1> QED BY <1>2, <1>3, <1>4, <1>5 DEF Ahead

(* A device changes and the rest of the room stands still.                  *)
Alone ==
    /\ made' = made /\ view' = view /\ pages' = pages /\ acks' = acks /\ mail' = mail
    /\ faults' \in [Faults -> Nat]

(* A step of one device that sends nothing is a move.                       *)
LEMMA AloneMoves ==
  ASSUME NEW q, Consistent(q), NEW m \in Member, NEW s, Set(m, s),
         Ahead(q, World(q, m, made), m, s), NEW e, Owe(m, e), Owes(m, e), Alone
  PROVE  Moves(q, m)
<1>1. /\ made \subseteq Op /\ mail \in [Member -> SUBSET Text]
      /\ \A op \in made : Rightful(q[op])
  BY DEF Consistent, Types
<1>2. /\ made' = made /\ view' = view /\ pages' = pages /\ acks' = acks /\ mail' = mail
      /\ faults' \in [Faults -> Nat]
  BY DEF Alone
<1>3. Set(m, s) /\ Ahead(q, World(q, m, made'), m, s)
  BY <1>2
<1> QED BY <1>1, <1>2, <1>3 DEF Moves

(* A budget is spent, and stays one.                                        *)
LEMMA SpendEffect ==
  ASSUME NEW q, Consistent(q), NEW fs, Spend(fs)
  PROVE  /\ faults' \in [Faults -> Nat]
         /\ "refused" \in fs => faults'["refused"] < faults["refused"]
<1>1. faults \in [Faults -> Nat] /\ "refused" \in Faults
  BY DEF Consistent, Types, Faults
<1>2. /\ \A f \in fs : faults[f] > 0
      /\ faults' = [f \in Faults |-> IF f \in fs THEN faults[f] - 1 ELSE faults[f]]
  BY DEF Spend
<1> QED BY <1>1, <1>2

(* What a device owes stays the same.                                       *)
LEMMA OwesAsBefore ==
  ASSUME NEW q, Consistent(q), NEW m \in Member, owed' = owed
  PROVE  Owe(m, owed[m]) /\ Owes(m, owed[m])
BY DEF Consistent, Types, Sends, Owe

(* What a consistent state says of one device.                              *)
LEMMA DeviceFacts ==
  ASSUME NEW q, Consistent(q), NEW m \in Member
  PROVE  /\ mem[m] \in Book /\ disk[m] \in Book
         /\ Local(q, Here(m)) /\ FairBook(q, mem[m]) /\ FairBook(q, disk[m])
         /\ GoodBook(q, mem[m]) /\ GoodBook(q, disk[m])
BY DEF Consistent, Types, Local, Here

(* No records are fair records.                                             *)
LEMMA NoRecordsFair ==
  ASSUME NEW q PROVE FairRecs(q, NoRecords) /\ DOMAIN NoRecords = {}
BY DEF FairRecs, NoRecords

(* No text is on the screen that the journal buries.                        *)
Hidden(b) == \A t \in Text : Buried(b, t) => b.row[t] # "text"

(* apply and sync_deletions move one device, and hide what is deleted.      *)
LEMMA TurnEffect ==
  ASSUME NEW q, Consistent(q), NEW m \in Member, NEW o, NEW r
  PROVE  /\ Ahead(q, World(q, m, made), m, Turn(m, o, r).s)
         /\ Turn(m, o, r).ok => /\ Hidden(Turn(m, o, r).s.mem)
                                /\ \A t \in Text : Buried(disk[m], t)
                                                    => Buried(Turn(m, o, r).s.mem, t)
         /\ o = "saved" /\ r = "saved" => Turn(m, o, r).ok
<1>0. FairBook(q, disk[m]) /\ view \in [Member -> 1 .. Len(Rosters)]
  BY DeviceFacts DEF Consistent, Types
<1>1. PICK w : w = World(q, m, made)
  OBVIOUS
<1>2. PICK s : s = Reload(Here(m))
  OBVIOUS
<1>3. Ahead(q, w, m, s) /\ FairBook(q, s.mem) /\ \A t : Buried(disk[m], t) => Buried(s.mem, t)
  <2>1. Ahead(q, w, m, Here(m)) /\ Here(m).disk = disk[m]
    BY <1>1, WholeHere DEF Here
  <2>2. Ahead(q, w, m, s) /\ \A t : Buried(disk[m], t) => Buried(s.mem, t)
    BY <1>0, <1>2, <2>1, AheadReload
  <2> QED BY <2>2 DEF Ahead, Whole, Local
<1>4. PICK i : i = Install(s, Held(s.mem), s.mem.me, FALSE, o)
  OBVIOUS
<1>5. /\ Ahead(q, w, m, i.s) /\ (o = "saved" => i.ok)
      /\ i.ok => Hidden(i.s.mem)
      /\ \A t \in Text : Buried(disk[m], t) => Buried(i.s.mem, t)
  <2>1. PICK recs : recs = Held(s.mem)
    OBVIOUS
  <2>2. DOMAIN recs = {op \in Op : s.mem.rec[op] # None}
        /\ \A op \in DOMAIN recs : recs[op] = s.mem.rec[op]
    BY <2>1 DEF Held
  <2>3. FairRecs(q, recs)
    BY <1>3, <2>2 DEF FairRecs, FairBook
  <2>4. s.mem.me \in SUBSET Text
    BY <1>3, BookFields DEF FairBook
  <2>5. Installed(q, s, recs, s.mem.me, FALSE, o, i)
    <3>1. Local(q, s)
      BY <1>3 DEF Ahead, Whole
    <3> QED BY <1>4, <2>1, <2>3, <2>4, <3>1, InstallEffect
  <2>6. FairBook(q, s.disk) /\ Grows(s.disk, i.s.disk) /\ ProperBook(q, w, m, s.disk, s.mem)
    BY <1>3, <2>5 DEF Ahead, Whole, Local, Installed
  <2>7. ASSUME NEW op \in DOMAIN recs PROVE Proper(q, w, m, i.s.disk, op, recs[op])
    <3>1. op \in Op /\ Proper(q, w, m, s.disk, op, recs[op])
      BY <2>2, <2>6 DEF ProperBook
    <3> QED BY <2>6, <3>1, ProperGrows
  <2>8. ProperRecs(q, w, m, i.s.disk, recs)
    BY <2>7 DEF ProperRecs
  <2>9. Ahead(q, w, m, i.s)
    BY <1>0, <1>3, <1>4, <2>1, <2>3, <2>4, <2>8, AheadInstall
  <2>10. FairBook(q, i.s.mem) /\ Behind(s.mem, i.s.mem)
    BY <2>5, <2>9 DEF Ahead, Whole, Local, Installed
  <2>11. \A t \in Text : Buried(disk[m], t) => Buried(i.s.mem, t)
    BY <1>3, <2>10, BuriedGrows
  <2>12. (o = "saved" => i.ok) /\ (i.ok => Hidden(i.s.mem))
    BY <2>5 DEF Installed, Hidden
  <2> QED BY <2>9, <2>11, <2>12
<1>6. PICK l : l = Rejections(m, i.s.mem)
  OBVIOUS
<1>7. PICK j : j = Install(i.s, l.recs, l.mine, FALSE, r)
  OBVIOUS
<1>8. Turn(m, o, r) \in {i, j}
  BY <1>2, <1>4, <1>6, <1>7 DEF Turn, Reconcile
<1>9. /\ Ahead(q, w, m, j.s) /\ (r = "saved" => j.ok)
      /\ j.ok => Hidden(j.s.mem)
      /\ \A t \in Text : Buried(disk[m], t) => Buried(j.s.mem, t)
  <2>1. FairBook(q, i.s.mem) /\ ProperBook(q, w, m, i.s.disk, i.s.mem)
    BY <1>5 DEF Ahead, Whole, Local
  <2>2. PICK b : b = i.s.mem
    OBVIOUS
  <2>3. PICK lost : lost = {op \in Op :
                   /\ b.rec[op] # None
                   /\ b.rec[op].status = "pending" /\ b.rec[op].request.actor = m
                   /\ ~ /\ m \in Roster(m).members
                        /\ b.rec[op].request.moderated => m \in Roster(m).admins}
    OBVIOUS
  <2>4. /\ DOMAIN l.recs = lost /\ \A op \in lost : l.recs[op] = Rejected(b.rec[op].request)
        /\ l.mine = {b.rec[op].request.target : op \in lost}
    BY <1>6, <2>2, <2>3 DEF Rejections
  <2>5. ASSUME NEW op \in lost
        PROVE  /\ op \in Op /\ Fair(q, op, b.rec[op]) /\ b.rec[op].request = q[op]
               /\ q[op] \in Request /\ q[op].target \in Text /\ q[op].actor = m
               /\ Fair(q, op, l.recs[op]) /\ op \in w.made
    <3>1. op \in Op /\ b.rec[op] # None /\ b.rec[op].request.actor = m
      BY <2>3
    <3>2. Fair(q, op, b.rec[op]) /\ b.rec[op].request = q[op] /\ op \in w.made
      BY <2>1, <2>2, <3>1 DEF FairBook, Fair, ProperBook, Proper
    <3>3. q[op] \in Request /\ q[op].target \in Text /\ q[op].actor = m
      BY <3>1, <3>2, RecordFields DEF Fair
    <3>4. Fair(q, op, Rejected(q[op]))
      BY <3>3, FairRecord
    <3> QED BY <2>4, <3>1, <3>2, <3>3, <3>4
  <2>6. FairRecs(q, l.recs)
    BY <2>4, <2>5 DEF FairRecs
  <2>7. l.mine \in SUBSET Text
    BY <2>4, <2>5
  <2>8. ASSUME NEW op \in lost PROVE view[m] > 1
    <3>1. Rightful(q[op]) /\ q[op].actor = m
      BY <1>1, <2>5 DEF Consistent, World
    <3>2. PICK k \in 1 .. view[m] :
             /\ k \in 1 .. Len(Rosters) /\ m \in Rosters[k].members
             /\ q[op].moderated => m \in Rosters[k].admins
      BY <3>1 DEF Rightful
    <3>3. ~(m \in Roster(m).members /\ (q[op].moderated => m \in Roster(m).admins))
      BY <2>3, <2>5
    <3>4. k # view[m]
      BY <3>2, <3>3 DEF Roster
    <3>5. view[m] \in Nat
      BY <1>0
    <3> QED BY <3>2, <3>4, <3>5
  <2>9. ASSUME NEW op \in lost PROVE Proper(q, w, m, j.s.disk, op, l.recs[op])
    <3>0. l.recs[op] = Rejected(b.rec[op].request)
      BY <2>4
    <3>1. l.recs[op].ack = None /\ l.recs[op].status = "rejected"
      BY <3>0 DEF Rejected
    <3>2. op \in w.made /\ q[op].actor \in w.late
      BY <1>1, <2>5, <2>8 DEF World
    <3> QED BY <3>1, <3>2 DEF Proper
  <2>10. ProperRecs(q, w, m, j.s.disk, l.recs)
    BY <2>4, <2>9 DEF ProperRecs
  <2>11. Ahead(q, w, m, j.s) /\ Installed(q, i.s, l.recs, l.mine, FALSE, r, j)
    BY <1>0, <1>5, <1>7, <2>6, <2>7, <2>10, AheadInstall
  <2>12. FairBook(q, j.s.mem) /\ Behind(i.s.mem, j.s.mem)
    BY <2>11 DEF Ahead, Whole, Local, Installed
  <2>13. \A t \in Text : Buried(disk[m], t) => Buried(j.s.mem, t)
    BY <1>5, <2>1, <2>12, BuriedGrows
  <2>14. (r = "saved" => j.ok) /\ (j.ok => Hidden(j.s.mem))
    BY <2>11 DEF Installed, Hidden
  <2> QED BY <2>11, <2>13, <2>14
<1> QED BY <1>1, <1>5, <1>8, <1>9

(* write_history_row saves no text under a tombstone.                       *)
LEMMA GuardedIs ==
  ASSUME NEW b \in Book, NEW t \in Text
  PROVE  /\ Guarded(b, t) \in Rows /\ Guarded(b, t) # "none"
         /\ Erased(b, t) => Guarded(b, t) = b.row[t]
         /\ Guarded(b, t) = "text" => b.row[t] \in {"none", "text"} /\ ~Buried(b, t)
<1>1. CASE Erased(b, t)
  <2>1. Guarded(b, t) = b.row[t]
    BY <1>1 DEF Guarded, Erased
  <2> QED BY <1>1, <2>1, BookFields DEF Erased
<1>2. CASE ~Erased(b, t)
  <2>1. Guarded(b, t) = IF Marker(b, t) = "none" THEN "text" ELSE Marker(b, t)
    BY <1>2 DEF Guarded, Erased
  <2>2. Guarded(b, t) \in Rows /\ Guarded(b, t) # "none"
    BY <2>1, MarkerIs DEF Rows
  <2> QED BY <1>2, <2>1, <2>2, MarkerIs DEF Erased
<1> QED BY <1>1, <1>2

(* commit_send carries a move on: it writes the rows of messages that memory  *)
(* has, saves no text under a tombstone and keeps no attempt over an erased  *)
(* row.                                                                      *)
LEMMA AheadWrite ==
  ASSUME NEW q, NEW w, NEW m, FairBook(q, disk[m]), NEW s, Ahead(q, w, m, s),
         NEW due, \A t \in Text : t \in due => s.mem.row[t] # "none",
         NEW e, e = WriteSends(s, due)
  PROVE  Ahead(q, w, m, e) /\ e.mem = s.mem
<1>1. /\ Local(q, s) /\ s = [mem |-> s.mem, disk |-> s.disk]
      /\ FairBook(q, s.mem) /\ FairBook(q, s.disk) /\ Behind(s.mem, s.disk)
      /\ s.mem \in Book /\ s.disk \in Book
  BY DEF Ahead, Whole, Local, FairBook
<1>2. PICK row : row = [t \in Text |-> IF t \in due THEN Guarded(s.disk, t) ELSE s.disk.row[t]]
  OBVIOUS
<1>3. PICK att : att = {t \in Text : IF t \in due THEN t \in s.mem.attempt /\ Guarded(s.disk, t) = "text"
                                     ELSE t \in s.disk.attempt}
  OBVIOUS
<1>4. PICK d : d = [s.disk EXCEPT !.row = row, !.attempt = att]
  OBVIOUS
<1>5. row \in [Text -> Rows] /\ att \in SUBSET Text
  <2>1. \A t \in Text : Guarded(s.disk, t) \in Rows /\ s.disk.row[t] \in Rows
    BY <1>1, GuardedIs, BookFields
  <2> QED BY <1>2, <1>3, <2>1
<1>6. /\ d \in Book /\ d.rec = s.disk.rec /\ d.me = s.disk.me /\ d.accepted = s.disk.accepted
      /\ d.row = row /\ d.attempt = att
  BY <1>1, <1>4, <1>5 DEF Book
<1>7. e = [mem |-> s.mem, disk |-> d]
  <2>1. e = [s EXCEPT !.disk = d]
    BY <1>1, <1>2, <1>3, <1>4 DEF WriteSends, Book
  <2> QED BY <1>1, <2>1
<1>8. e.mem = s.mem /\ e.disk = d
  BY <1>7
<1>9. ASSUME NEW t \in Text
      PROVE  /\ s.mem.row[t] = "none" <=> d.row[t] = "none"
             /\ d.row[t] = "text" => s.mem.row[t] = "text"
             /\ t \in s.mem.attempt => s.mem.row[t] = "text"
             /\ t \in d.attempt => d.row[t] = "text"
             /\ Erased(s.disk, t) => Erased(d, t)
             /\ Buried(s.disk, t) /\ d.row[t] = "text" => s.disk.row[t] = "text"
  <2>1. /\ s.mem.row[t] = "none" <=> s.disk.row[t] = "none"
        /\ s.disk.row[t] = "text" => s.mem.row[t] = "text"
        /\ t \in s.mem.attempt => s.mem.row[t] = "text"
        /\ t \in s.disk.attempt => s.disk.row[t] = "text"
    BY <1>1 DEF Local
  <2>2. CASE t \in due
    <3>1. d.row[t] = Guarded(s.disk, t) /\ (t \in d.attempt => Guarded(s.disk, t) = "text")
      BY <1>2, <1>3, <1>6, <2>2
    <3>2. /\ Guarded(s.disk, t) # "none"
          /\ Erased(s.disk, t) => Guarded(s.disk, t) = s.disk.row[t]
          /\ Guarded(s.disk, t) = "text" => s.disk.row[t] \in {"none", "text"} /\ ~Buried(s.disk, t)
      BY <1>1, GuardedIs
    <3>3. s.mem.row[t] # "none"
      BY <2>2
    <3> QED BY <2>1, <3>1, <3>2, <3>3 DEF Erased
  <2>3. CASE t \notin due
    <3>1. d.row[t] = s.disk.row[t] /\ (t \in d.attempt => t \in s.disk.attempt)
      BY <1>2, <1>3, <1>6, <2>3
    <3> QED BY <2>1, <3>1 DEF Erased
  <2> QED BY <2>2, <2>3
<1>10. Behind(s.disk, d) /\ Behind(s.mem, d) /\ FairBook(q, d)
  BY <1>1, <1>6 DEF Behind, FairBook
<1>11. Local(q, e) /\ Grows(s.disk, e.disk) /\ Shows(s.mem, e.mem)
  <2>1. Local(q, e)
    BY <1>1, <1>7, <1>8, <1>9, <1>10 DEF Local
  <2>2. Grows(s.disk, e.disk)
    BY <1>8, <1>9, <1>10 DEF Grows
  <2> QED BY <1>8, <2>1, <2>2, GrowsSelf
<1>12. e.mem.attempt \cup e.disk.attempt \subseteq s.mem.attempt \cup s.disk.attempt
  BY <1>3, <1>6, <1>8
<1>13. \A op \in Op : e.mem.rec[op] = s.mem.rec[op] /\ e.disk.rec[op] = s.disk.rec[op]
  BY <1>6, <1>8
<1> QED BY <1>8, <1>11, <1>12, <1>13, AheadThen

(* The attempt of t is forgotten in memory.                                  *)
Forgets(s, t) == [s EXCEPT !.mem.attempt = @ \ {t}]

(* Forgetting an attempt in memory carries a move on.                        *)
LEMMA AheadForget ==
  ASSUME NEW q, NEW w, NEW m, FairBook(q, disk[m]), NEW s, Ahead(q, w, m, s), NEW t,
         NEW e, e = Forgets(s, t)
  PROVE  Ahead(q, w, m, e) /\ e.mem.row = s.mem.row
<1>1. /\ Local(q, s) /\ s = [mem |-> s.mem, disk |-> s.disk] /\ s.mem \in Book
  BY DEF Ahead, Whole, Local, FairBook
<1>2. PICK b : b = [s.mem EXCEPT !.attempt = s.mem.attempt \ {t}]
  OBVIOUS
<1>3. /\ b \in Book /\ b.rec = s.mem.rec /\ b.me = s.mem.me /\ b.accepted = s.mem.accepted
      /\ b.row = s.mem.row /\ b.attempt = s.mem.attempt \ {t}
  BY <1>1, <1>2 DEF Book
<1>4. e = [mem |-> b, disk |-> s.disk]
  <2>1. e = [s EXCEPT !.mem = b]
    BY <1>1, <1>2 DEF Book, Forgets
  <2> QED BY <1>1, <2>1
<1>5. e.mem = b /\ e.disk = s.disk
  BY <1>4
<1>6. Local(q, e)
  <2>1. FairBook(q, b) /\ Behind(b, s.disk) /\ FairBook(q, s.disk)
    BY <1>1, <1>3 DEF Local, FairBook, Behind
  <2>2. \A u \in Text :
          /\ b.row[u] = "none" <=> s.disk.row[u] = "none"
          /\ s.disk.row[u] = "text" => b.row[u] = "text"
          /\ u \in b.attempt => b.row[u] = "text"
          /\ u \in s.disk.attempt => s.disk.row[u] = "text"
    BY <1>1, <1>3 DEF Local
  <2> QED BY <1>4, <1>5, <2>1, <2>2 DEF Local
<1>7. Grows(s.disk, e.disk) /\ Shows(s.mem, e.mem)
  BY <1>3, <1>5, GrowsSelf DEF Shows, Erased
<1>8. e.mem.attempt \cup e.disk.attempt \subseteq s.mem.attempt \cup s.disk.attempt
  BY <1>3, <1>5
<1>9. \A op \in Op : e.mem.rec[op] = s.mem.rec[op] /\ e.disk.rec[op] = s.disk.rec[op]
  BY <1>3, <1>5
<1> QED BY <1>3, <1>5, <1>6, <1>7, <1>8, <1>9, AheadThen

(* save_account_deletions carries a move on.                                 *)
LEMMA AheadCopy ==
  ASSUME NEW q, Consistent(q), NEW m \in Member, NEW n \in Member,
         NEW s, Ahead(q, World(q, m, made), m, s),
         NEW e, e = [s EXCEPT !.disk = Copied(@, disk[n])]
  PROVE  /\ Ahead(q, World(q, m, made), m, e) /\ e.mem = s.mem
         /\ e.disk = Copied(s.disk, disk[n])
<1>0. PICK w : w = World(q, m, made)
  OBVIOUS
<1>1. /\ Local(q, s) /\ s = [mem |-> s.mem, disk |-> s.disk]
      /\ FairBook(q, s.mem) /\ FairBook(q, s.disk) /\ Behind(s.mem, s.disk)
  BY DEF Ahead, Whole, Local
<1>2. FairBook(q, disk[m]) /\ FairBook(q, disk[n]) /\ GoodBook(q, disk[n]) /\ disk[n].me \in SUBSET Text
  BY DeviceFacts, BookFields
<1>3. PICK recs : recs = [op \in Known(disk[n]) |-> disk[n].rec[op]]
  OBVIOUS
<1>4. \A op \in DOMAIN recs : op \in Op /\ recs[op] = disk[n].rec[op] /\ recs[op] # None
  BY <1>3 DEF Known
<1>5. FairRecs(q, recs)
  BY <1>2, <1>4 DEF FairRecs, FairBook
<1>6. PICK d : d = Merge(s.disk, recs, disk[n].me)
  OBVIOUS
<1>7. /\ FairBook(q, d) /\ d.row = s.disk.row /\ d.attempt = s.disk.attempt
      /\ \A op \in Op : d.rec[op] = IF op \in DOMAIN recs
                                    THEN Merged(s.disk.rec[op], recs[op]) ELSE s.disk.rec[op]
  BY <1>1, <1>2, <1>5, <1>6, MergeFields
<1>8. Behind(s.disk, d)
  BY <1>1, <1>2, <1>5, <1>6, MergeBehind
<1>9. e = [mem |-> s.mem, disk |-> d] /\ d = Copied(s.disk, disk[n])
  BY <1>1, <1>3, <1>6 DEF Copied
<1>10. e.mem = s.mem /\ e.disk = d
  BY <1>9
<1>11. Local(q, e)
  <2>1. Behind(s.mem, d)
    BY <1>1, <1>8, BehindTrans
  <2> QED BY <1>1, <1>7, <1>9, <1>10, <2>1 DEF Local
<1>12. Grows(s.disk, e.disk) /\ Shows(s.mem, e.mem)
  BY <1>7, <1>8, <1>10, GrowsSelf DEF Grows, Erased
<1>13. ASSUME NEW op \in Op
       PROVE  \/ e.disk.rec[op] \in {None, s.disk.rec[op]}
              \/ Proper(q, w, m, e.disk, op, e.disk.rec[op])
  <2>1. CASE op \in DOMAIN recs
    <3>1. d.rec[op] = s.disk.rec[op] \/ d.rec[op] = disk[n].rec[op]
      BY <1>4, <1>7, <2>1 DEF Merged
    <3>2. disk[n].rec[op] # None /\ Fair(q, op, disk[n].rec[op]) /\ Good(q, op, disk[n].rec[op])
      BY <1>2, <1>4, <2>1 DEF FairBook, GoodBook
    <3>3. Proper(q, w, m, e.disk, op, disk[n].rec[op])
      BY <1>0, <3>2, GoodIsProper
    <3> QED BY <1>10, <3>1, <3>3
  <2>2. CASE op \notin DOMAIN recs
    BY <1>7, <1>10, <2>2
  <2> QED BY <2>1, <2>2
<1>14. e.mem.attempt \cup e.disk.attempt \subseteq s.mem.attempt \cup s.disk.attempt
  BY <1>7, <1>10
<1>15. \A op \in Op : e.mem.rec[op] = s.mem.rec[op]
  BY <1>10
<1>16. Ahead(q, w, m, e)
  BY <1>0, <1>2, <1>11, <1>12, <1>13, <1>14, <1>15, AheadThen
<1> QED BY <1>0, <1>9, <1>10, <1>16

(* drain_inbound moves one device; it owes only writes of its own sends, and  *)
(* when nothing was refused memory shows no text the disk had a tombstone    *)
(* for.                                                                      *)
LEMMA DrainEffect ==
  ASSUME NEW q, Consistent(q), NEW m \in Member, NEW d, NEW x, x = Drain(m, d)
  PROVE  /\ Ahead(q, World(q, m, made), m, x.s) /\ Owes(m, x.owed)
         /\ x = [s |-> x.s, owed |-> x.owed, ok |-> x.ok]
         /\ x.ok => \A t \in Text : Buried(disk[m], t) => x.s.mem.row[t] # "text"
<1>0. FairBook(q, disk[m]) /\ Sends(m)
  BY DeviceFacts DEF Consistent
<1>1. PICK w : w = World(q, m, made)
  OBVIOUS
<1>2. PICK turn : turn = Turn(m, d.apply, d.reconcile)
  OBVIOUS
<1>3. PICK due : due = Due(m, turn.s.mem)
  OBVIOUS
<1>4. PICK e : e = WriteSends(turn.s, due)
  OBVIOUS
<1>5. /\ Ahead(q, w, m, turn.s)
      /\ turn.ok => /\ Hidden(turn.s.mem)
                    /\ \A t \in Text : Buried(disk[m], t) => Buried(turn.s.mem, t)
  BY <1>1, <1>2, TurnEffect
<1>6. \A t \in Text : t \in due => turn.s.mem.row[t] # "none"
  <2> SUFFICES ASSUME NEW t \in Text, t \in due PROVE turn.s.mem.row[t] # "none"
    OBVIOUS
  <2>1. owed[m][t] # "nothing"
    BY <1>3 DEF Due
  <2>2. mem[m].row[t] # "none"
    BY <1>0, <2>1 DEF Sends, Owes
  <2> QED BY <1>5, <2>2 DEF Ahead, Shows
<1>7. Ahead(q, w, m, e) /\ e.mem = turn.s.mem
  BY <1>0, <1>4, <1>5, <1>6, AheadWrite
<1>8. /\ x.s = (IF d.tail = "refused" THEN turn.s ELSE e)
      /\ x.owed = [t \in Text |-> IF d.tail = "saved" /\ t \in due THEN "nothing" ELSE owed[m][t]]
      /\ x.ok => turn.ok
      /\ x = [s |-> x.s, owed |-> x.owed, ok |-> x.ok]
  BY <1>2, <1>3, <1>4 DEF Drain, PersistTail
<1>9. Owes(m, x.owed)
  BY <1>0, <1>8 DEF Sends, Owes
<1>10. x.s.mem = turn.s.mem /\ Ahead(q, w, m, x.s)
  BY <1>5, <1>7, <1>8
<1>11. x.ok => \A t \in Text : Buried(disk[m], t) => x.s.mem.row[t] # "text"
  BY <1>5, <1>8, <1>10 DEF Hidden
<1> QED BY <1>1, <1>8, <1>9, <1>10, <1>11

(* The service moves one device.                                            *)
LEMMA ServiceMoves ==
  ASSUME NEW q, Consistent(q), NEW m \in Member, NEW d, Service(m, d)
  PROVE  Moves(q, m)
<1>1. PICK x : x = Drain(m, d)
  OBVIOUS
<1>2. Ahead(q, World(q, m, made), m, x.s) /\ Owes(m, x.owed)
  BY <1>1, DrainEffect
<1>3. Set(m, x.s) /\ Owe(m, x.owed) /\ Spend(Refusal(~x.ok))
  BY <1>1 DEF Service
<1>4. Alone
  BY <1>3, SpendEffect DEF Service, Alone, frames
<1> QED BY <1>2, <1>3, <1>4, AloneMoves

(* delete_for_me moves one device.                                          *)
LEMMA DeleteForMeMoves ==
  ASSUME NEW q, Consistent(q), NEW m \in Member, NEW t \in Text, NEW d, NEW o,
         DeleteForMe(m, t, d, o)
  PROVE  Moves(q, m)
<1>0. FairBook(q, disk[m])
  BY DeviceFacts
<1>1. PICK w : w = World(q, m, made)
  OBVIOUS
<1>2. PICK x : x = Drain(m, d)
  OBVIOUS
<1>3. PICK s : s = Reload(x.s)
  OBVIOUS
<1>4. PICK i : i = Install(s, NoRecords, {t}, FALSE, o)
  OBVIOUS
<1>5. Ahead(q, w, m, x.s) /\ Owes(m, x.owed)
  BY <1>1, <1>2, DrainEffect
<1>6. Ahead(q, w, m, s)
  BY <1>0, <1>3, <1>5, AheadReload
<1>7. ProperRecs(q, w, m, i.s.disk, NoRecords)
  BY NoRecordsFair DEF ProperRecs
<1>8. Ahead(q, w, m, i.s)
  <2>1. FairRecs(q, NoRecords) /\ {t} \in SUBSET Text
    BY NoRecordsFair
  <2> QED BY <1>0, <1>4, <1>6, <1>7, <2>1, AheadInstall
<1>9. /\ Set(m, i.s) /\ Owe(m, x.owed)
      /\ Spend(Refusal(~(x.ok /\ i.ok)) \cup {"personal"})
      /\ made' = made /\ view' = view /\ pages' = pages /\ acks' = acks /\ mail' = mail
  BY <1>2, <1>3, <1>4 DEF DeleteForMe, frames
<1>10. Alone
  BY <1>9, SpendEffect DEF Alone
<1> QED BY <1>1, <1>5, <1>8, <1>9, <1>10, AloneMoves

(* retry_message up to its first save: the message is in memory, and its     *)
(* tombstone on disk from before only if the store refused something.        *)
LEMMA ReopenedEffect ==
  ASSUME NEW q, Consistent(q), NEW t \in Text, NEW m \in Member, m = Author[t],
         NEW d, NEW n \in Member, NEW x, x = Reopened(t, d, n), t \in x.s.mem.attempt
  PROVE  /\ Ahead(q, World(q, m, made), m, x.s) /\ Owes(m, x.owed)
         /\ x.s.mem.row[t] = "text" /\ ~Erased(mem[m], t)
         /\ x.ok => ~Buried(disk[m], t)
<1>1. PICK y : y = Drain(m, d)
  OBVIOUS
<1>2. /\ Ahead(q, World(q, m, made), m, y.s) /\ Owes(m, y.owed)
      /\ y = [s |-> y.s, owed |-> y.owed, ok |-> y.ok]
      /\ y.ok => \A u \in Text : Buried(disk[m], u) => y.s.mem.row[u] # "text"
  BY <1>1, DrainEffect
<1>3. PICK e : e = [y.s EXCEPT !.disk = Copied(@, disk[n])]
  OBVIOUS
<1>4. Ahead(q, World(q, m, made), m, e) /\ e.mem = y.s.mem
  BY <1>2, <1>3, AheadCopy
<1>5. x = [y EXCEPT !.s = e]
  BY <1>1, <1>3 DEF Reopened
<1>6. x.s = e /\ x.owed = y.owed /\ x.ok = y.ok
  BY <1>2, <1>5
<1>7. e.mem.row[t] = "text"
  BY <1>4, <1>6 DEF Ahead, Whole, Local
<1>8. ~Erased(mem[m], t)
  BY <1>4, <1>7 DEF Ahead, Shows, Erased
<1> QED BY <1>2, <1>4, <1>6, <1>7, <1>8

(* A retry whose first save is refused moves the author.                     *)
LEMMA RetryRefusedMoves ==
  ASSUME NEW q, Consistent(q), NEW t \in Text, NEW d, NEW n \in Member, NEW z,
         RetryRefused(t, d, n, z)
  PROVE  Moves(q, Author[t])
<1>1. PICK m \in Member : m = Author[t]
  BY Constants
<1>2. PICK x : x = Reopened(t, d, n)
  OBVIOUS
<1>3. PICK s : s = IF z = "refused" THEN x.s ELSE WriteSends(x.s, {t})
  OBVIOUS
<1>4. PICK e : e = [x.owed EXCEPT ![t] = IF z = "saved" THEN "nothing" ELSE "send"]
  OBVIOUS
<1>5. /\ t \in x.s.mem.attempt /\ Set(m, s) /\ Owe(m, e) /\ Spend({"refused"})
      /\ made' = made /\ view' = view /\ pages' = pages /\ acks' = acks /\ mail' = mail
  BY <1>1, <1>2, <1>3, <1>4 DEF RetryRefused, frames
<1>6. Ahead(q, World(q, m, made), m, x.s) /\ Owes(m, x.owed) /\ x.s.mem.row[t] = "text"
  BY <1>1, <1>2, <1>5, ReopenedEffect
<1>7. Ahead(q, World(q, m, made), m, s)
  <2>1. FairBook(q, disk[m]) /\ \A u \in Text : u \in {t} => x.s.mem.row[u] # "none"
    BY <1>6, DeviceFacts
  <2>2. Ahead(q, World(q, m, made), m, WriteSends(x.s, {t}))
    BY <1>6, <2>1, AheadWrite
  <2> QED BY <1>3, <1>6, <2>2
<1>8. Owes(m, e)
  BY <1>1, <1>4, <1>6 DEF Owes
<1>9. Alone
  BY <1>5, SpendEffect DEF Alone
<1>10. Moves(q, m)
  BY <1>5, <1>7, <1>8, <1>9, AloneMoves
<1> QED BY <1>1, <1>10

(* retry_message moves the author, and mails what memory has not erased.     *)
LEMMA RetryMessageMoves ==
  ASSUME NEW q, Consistent(q), NEW t \in Text, NEW d, NEW n \in Member, NEW sent \in BOOLEAN,
         NEW z, RetryMessage(t, d, n, sent, z)
  PROVE  Moves(q, Author[t])
<1>1. PICK m \in Member : m = Author[t]
  BY Constants
<1>2. PICK x : x = Reopened(t, d, n)
  OBVIOUS
<1>3. PICK y : y = WriteSends(x.s, {t})
  OBVIOUS
<1>4. PICK v : v = IF sent THEN [y EXCEPT !.mem.attempt = @ \ {t}] ELSE y
  OBVIOUS
<1>5. PICK s : s = IF z = "refused" THEN v ELSE WriteSends(v, {t})
  OBVIOUS
<1>6. PICK e : e = [x.owed EXCEPT ![t] = IF z = "saved" THEN "nothing"
                                         ELSE IF sent THEN "publication" ELSE "send"]
  OBVIOUS
<1>7. /\ t \in x.s.mem.attempt /\ Set(m, s) /\ Owe(m, e) /\ Spend(Refusal(~x.ok \/ z # "saved"))
      /\ mail' = IF sent THEN [k \in Member |-> IF k = m THEN mail[k] ELSE mail[k] \cup {t}]
                 ELSE mail
      /\ made' = made /\ view' = view /\ pages' = pages /\ acks' = acks
  BY <1>1, <1>2, <1>3, <1>4, <1>5, <1>6 DEF RetryMessage, frames
<1>8. /\ Ahead(q, World(q, m, made), m, x.s) /\ Owes(m, x.owed)
      /\ x.s.mem.row[t] = "text" /\ ~Erased(mem[m], t)
      /\ x.ok => ~Buried(disk[m], t)
  BY <1>1, <1>2, <1>7, ReopenedEffect
<1>9. FairBook(q, disk[m])
  BY DeviceFacts
<1>10. Ahead(q, World(q, m, made), m, y) /\ y.mem = x.s.mem
  <2>1. \A u \in Text : u \in {t} => x.s.mem.row[u] # "none"
    BY <1>8
  <2> QED BY <1>3, <1>8, <1>9, <2>1, AheadWrite
<1>11. Ahead(q, World(q, m, made), m, v) /\ v.mem.row = x.s.mem.row
  <2>1. PICK f : f = Forgets(y, t)
    OBVIOUS
  <2>2. Ahead(q, World(q, m, made), m, f) /\ f.mem.row = y.mem.row
    BY <1>9, <1>10, <2>1, AheadForget
  <2> QED BY <1>4, <1>10, <2>1, <2>2 DEF Forgets
<1>12. Ahead(q, World(q, m, made), m, s)
  <2>1. \A u \in Text : u \in {t} => v.mem.row[u] # "none"
    BY <1>8, <1>11
  <2>2. Ahead(q, World(q, m, made), m, WriteSends(v, {t}))
    BY <1>9, <1>11, <2>1, AheadWrite
  <2> QED BY <1>5, <1>11, <2>2
<1>13. Owes(m, e)
  BY <1>1, <1>6, <1>8 DEF Owes
<1>14. faults' \in [Faults -> Nat] /\ MaySend(m, t)
  <2>1. "refused" \in Refusal(~x.ok \/ z # "saved") => faults'["refused"] < faults["refused"]
    BY <1>7, SpendEffect
  <2>2. ~x.ok => "refused" \in Refusal(~x.ok \/ z # "saved")
    BY DEF Refusal
  <2>3. faults' \in [Faults -> Nat]
    BY <1>7, SpendEffect
  <2> QED BY <1>1, <1>8, <2>1, <2>2, <2>3 DEF MaySend
<1>15. /\ mail' \in [Member -> SUBSET Text]
       /\ \A k \in Member, u \in Text : u \in mail'[k] => u \in mail[k] \/ (k # m /\ u = t)
  <2>1. mail \in [Member -> SUBSET Text]
    BY DEF Consistent, Types
  <2>2. CASE sent
    BY <1>7, <2>1, <2>2
  <2>3. CASE ~sent
    BY <1>7, <2>1, <2>3
  <2> QED BY <2>2, <2>3
<1>16. \A k \in Member, u \in Text : u \in mail'[k] => u \in mail[k] \/ (k # m /\ MaySend(m, u))
  BY <1>14, <1>15
<1>17. made \subseteq Op /\ \A op \in made : Rightful(q[op])
  BY DEF Consistent, Types
<1>18. Set(m, s) /\ Ahead(q, World(q, m, made'), m, s)
  BY <1>7, <1>12
<1>19. Moves(q, m)
  BY <1>7, <1>13, <1>14, <1>15, <1>16, <1>17, <1>18 DEF Moves
<1> QED BY <1>1, <1>19

(* The journal of a linked device moves one device.                          *)
LEMMA CopyJournalMoves ==
  ASSUME NEW q, Consistent(q), NEW m \in Member, NEW n \in Member, CopyJournal(m, n)
  PROVE  Moves(q, m)
<1>1. Ahead(q, World(q, m, made), m, Here(m))
  BY WholeHere
<1>2. PICK s : s = [Here(m) EXCEPT !.disk = Copied(@, disk[n])]
  OBVIOUS
<1>3. /\ Ahead(q, World(q, m, made), m, s) /\ s.mem = mem[m]
      /\ s.disk = Copied(disk[m], disk[n])
  BY <1>1, <1>2, AheadCopy DEF Here
<1>4. Set(m, s)
  BY <1>3 DEF CopyJournal, Set, Consistent, Types
<1>5. Alone
  BY DEF CopyJournal, Alone, frames, Consistent, Types
<1>6. Owe(m, owed[m]) /\ Owes(m, owed[m])
  BY OwesAsBefore DEF CopyJournal
<1> QED BY <1>3, <1>4, <1>5, <1>6, AloneMoves

(* A restart moves one device.                                              *)
LEMMA CrashMoves ==
  ASSUME NEW q, Consistent(q), NEW m \in Member, Crash(m)
  PROVE  Moves(q, m)
<1>0. /\ Local(q, Here(m)) /\ FairBook(q, disk[m]) /\ mem[m] \in Book /\ disk[m] \in Book
      /\ Ahead(q, World(q, m, made), m, Here(m))
  BY DeviceFacts, WholeHere
<1>1. PICK b : b = [Empty EXCEPT !.row = disk[m].row, !.attempt = disk[m].attempt]
  OBVIOUS
<1>2. /\ b \in Book /\ (\A op \in Op : b.rec[op] = None) /\ b.me = {} /\ b.accepted = {}
      /\ b.row = disk[m].row /\ b.attempt = disk[m].attempt
  BY <1>0, <1>1 DEF Book, Empty
<1>3. PICK s : s = [mem |-> b, disk |-> disk[m]]
  OBVIOUS
<1>4. Local(q, s)
  BY <1>0, <1>2, <1>3 DEF Local, Here, FairBook, Behind
<1>5. Grows(disk[m], s.disk)
  BY <1>3, GrowsSelf
<1>6. Shows(mem[m], s.mem)
  <2>1. \A t \in Text : /\ mem[m].row[t] = "none" <=> disk[m].row[t] = "none"
                        /\ disk[m].row[t] = "text" => mem[m].row[t] = "text"
    BY <1>0 DEF Local, Here
  <2> QED BY <1>2, <1>3, <2>1 DEF Shows, Erased
<1>7. Ahead(q, World(q, m, made), m, s)
  BY <1>0, <1>2, <1>3, <1>4, <1>5, <1>6, AheadThen DEF Here
<1>8. Set(m, s)
  BY <1>1, <1>3 DEF Crash, Set, Consistent, Types
<1>9. Alone
  BY SpendEffect DEF Crash, Alone, frames
<1>10. Owe(m, Nothing) /\ Owes(m, Nothing)
  BY DEF Crash, Owes, Nothing
<1> QED BY <1>7, <1>8, <1>9, <1>10, AloneMoves

(* handle_data moves one device.                                            *)
LEMMA ReceiveTextMoves ==
  ASSUME NEW q, Consistent(q), NEW m \in Member, NEW t \in Text, NEW o, ReceiveText(m, t, o)
  PROVE  Moves(q, m)
<1>0. /\ Local(q, Here(m)) /\ FairBook(q, mem[m]) /\ FairBook(q, disk[m])
      /\ mem[m] \in Book /\ disk[m] \in Book /\ Ahead(q, World(q, m, made), m, Here(m))
  BY DeviceFacts, WholeHere
<1>1. /\ mem \in [Member -> Book] /\ disk \in [Member -> Book] /\ mail \in [Member -> SUBSET Text]
      /\ made \subseteq Op /\ \A op \in made : Rightful(q[op])
  BY DEF Consistent, Types
<1>2. /\ made' = made /\ view' = view /\ pages' = pages /\ acks' = acks
      /\ faults' \in [Faults -> Nat]
  BY SpendEffect DEF ReceiveText, frames
<1>3. Owe(m, owed[m]) /\ Owes(m, owed[m])
  BY OwesAsBefore DEF ReceiveText
<1>4. /\ mail' \in [Member -> SUBSET Text]
      /\ \A n \in Member, u \in Text : u \in mail'[n] => u \in mail[n]
  BY <1>1 DEF ReceiveText
<1>5. ASSUME NEW s, Set(m, s), Ahead(q, World(q, m, made), m, s) PROVE Moves(q, m)
  <2>1. Set(m, s) /\ Ahead(q, World(q, m, made'), m, s)
    BY <1>2, <1>5
  <2> QED BY <1>1, <1>2, <1>3, <1>4, <2>1 DEF Moves
<1>6. CASE o = "refused" \/ mem[m].row[t] # "none"
  <2>1. mem' = mem /\ disk' = disk
    BY <1>6 DEF ReceiveText
  <2>2. Set(m, Here(m))
    BY <1>1, <2>1 DEF Set, Here
  <2> QED BY <1>0, <1>5, <2>2
<1>7. CASE o # "refused" /\ mem[m].row[t] = "none"
  <2>1. /\ disk' = [disk EXCEPT ![m].row[t] = Guarded(disk[m], t)]
        /\ mem' = [mem EXCEPT ![m].row[t] = "text"]
    BY <1>7 DEF ReceiveText
  <2>2. PICK rb : rb = [mem[m].row EXCEPT ![t] = "text"]
    OBVIOUS
  <2>3. PICK rd : rd = [disk[m].row EXCEPT ![t] = Guarded(disk[m], t)]
    OBVIOUS
  <2>4. /\ rb \in [Text -> Rows] /\ rd \in [Text -> Rows] /\ rd[t] = Guarded(disk[m], t)
        /\ rb[t] = "text"
        /\ \A u \in Text \ {t} : rb[u] = mem[m].row[u] /\ rd[u] = disk[m].row[u]
    <3>1. /\ disk[m].row \in [Text -> Rows] /\ Guarded(disk[m], t) \in Rows
          /\ mem[m].row \in [Text -> Rows] /\ "text" \in Rows
      BY <1>0, BookFields, GuardedIs DEF Rows
    <3> QED BY <2>2, <2>3, <3>1
  <2>5. PICK b : b = [mem[m] EXCEPT !.row = rb]
    OBVIOUS
  <2>6. PICK d : d = [disk[m] EXCEPT !.row = rd]
    OBVIOUS
  <2>7. /\ b \in Book /\ b.rec = mem[m].rec /\ b.me = mem[m].me /\ b.accepted = mem[m].accepted
        /\ b.row = rb /\ b.attempt = mem[m].attempt
    BY <1>0, <2>4, <2>5 DEF Book
  <2>8. /\ d \in Book /\ d.rec = disk[m].rec /\ d.me = disk[m].me /\ d.accepted = disk[m].accepted
        /\ d.row = rd /\ d.attempt = disk[m].attempt
    BY <1>0, <2>4, <2>6 DEF Book
  <2>9. disk[m].row[t] = "none"
    BY <1>0, <1>7 DEF Local, Here
  <2>10. PICK s : s = [mem |-> b, disk |-> d]
    OBVIOUS
  <2>11. s.mem = b /\ s.disk = d
    BY <2>10
  <2>12. ASSUME NEW u \in Text
         PROVE  /\ b.row[u] = "none" <=> d.row[u] = "none"
                /\ d.row[u] = "text" => b.row[u] = "text"
                /\ u \in b.attempt => b.row[u] = "text"
                /\ u \in d.attempt => d.row[u] = "text"
                /\ Erased(disk[m], u) => Erased(d, u)
                /\ Buried(disk[m], u) /\ d.row[u] = "text" => disk[m].row[u] = "text"
                /\ Erased(mem[m], u) => Erased(b, u)
                /\ mem[m].row[u] # "none" => b.row[u] # "none"
    <3>1. /\ mem[m].row[u] = "none" <=> disk[m].row[u] = "none"
          /\ disk[m].row[u] = "text" => mem[m].row[u] = "text"
          /\ u \in mem[m].attempt => mem[m].row[u] = "text"
          /\ u \in disk[m].attempt => disk[m].row[u] = "text"
      BY <1>0 DEF Local, Here
    <3>2. CASE u = t
      <4>1. Guarded(disk[m], t) # "none" /\ (Guarded(disk[m], t) = "text" => ~Buried(disk[m], t))
        BY <1>0, GuardedIs
      <4> QED BY <1>7, <2>4, <2>7, <2>8, <2>9, <3>1, <3>2, <4>1 DEF Erased
    <3>3. CASE u # t
      BY <2>4, <2>7, <2>8, <3>1, <3>3 DEF Erased
    <3> QED BY <3>2, <3>3
  <2>13. FairBook(q, b) /\ FairBook(q, d) /\ Behind(b, d) /\ Behind(disk[m], d)
    BY <1>0, <2>7, <2>8 DEF FairBook, Behind, Local, Here
  <2>14. Local(q, s) /\ Grows(disk[m], d) /\ Shows(mem[m], b)
    BY <2>10, <2>11, <2>12, <2>13 DEF Local, Grows, Shows
  <2>15. Ahead(q, World(q, m, made), m, s)
    BY <1>0, <2>7, <2>8, <2>11, <2>14, AheadThen DEF Here
  <2>16. Set(m, s)
    <3>1. mem' = [mem EXCEPT ![m] = b]
      BY <1>0, <1>1, <2>1, <2>2, <2>5 DEF Book
    <3>2. disk' = [disk EXCEPT ![m] = d]
      BY <1>0, <1>1, <2>1, <2>3, <2>6 DEF Book
    <3> QED BY <2>10, <3>1, <3>2 DEF Set
  <2> QED BY <1>5, <2>15, <2>16
<1> QED BY <1>6, <1>7

(* receive_request moves one device: it publishes a page.                   *)
LEMMA ServeMoves ==
  ASSUME NEW q, Consistent(q), NEW m \in Member, Serve(m)
  PROVE  Moves(q, m)
<1>1. /\ mem \in [Member -> Book] /\ disk \in [Member -> Book] /\ mail \in [Member -> SUBSET Text]
      /\ made \subseteq Op /\ \A op \in made : Rightful(q[op])
  BY DEF Consistent, Types
<1>2. /\ mem' = mem /\ disk' = disk /\ made' = made /\ view' = view /\ acks' = acks /\ mail' = mail
      /\ pages' = [pages EXCEPT ![m] = Page(m, mem[m])] /\ faults' \in [Faults -> Nat]
  BY DEF Serve, Consistent, Types
<1>3. Set(m, Here(m))
  BY <1>1, <1>2 DEF Set, Here
<1>4. Ahead(q, World(q, m, made'), m, Here(m))
  BY <1>2, WholeHere
<1>5. Owe(m, owed[m]) /\ Owes(m, owed[m])
  BY OwesAsBefore DEF Serve
<1> QED BY <1>1, <1>2, <1>3, <1>4, <1>5 DEF Moves

(* receive_state moves one device, and its receipts are durable.            *)
LEMMA ReceiveStateMoves ==
  ASSUME NEW q, Consistent(q), NEW m \in Member, NEW n \in Member, NEW at, ReceiveState(m, n, at)
  PROVE  Moves(q, m)
<1>1. /\ mail \in [Member -> SUBSET Text]
      /\ made \subseteq Op /\ \A op \in made : Rightful(q[op])
  BY DEF Consistent, Types
<1>2. PICK w : w = World(q, m, made)
  OBVIOUS
<1>3. PICK page : page = pages[n]
  OBVIOUS
<1>4. PICK x : x = Accepted(m, n, page, at)
  OBVIOUS
<1>5. /\ pages[n] # None /\ Set(m, x.s)
      /\ acks' = (IF x.ok THEN acks \cup {Receipt(m, op) : op \in x.signed} ELSE acks)
      /\ made' = made /\ view' = view /\ pages' = pages /\ mail' = mail
      /\ faults' \in [Faults -> Nat]
  BY <1>3, <1>4, SpendEffect DEF ReceiveState
<1>6. GoodPage(q, page)
  BY <1>3, <1>5 DEF Consistent
<1>7. Whole(q, w, m, Here(m)) /\ w.may = MayGive(q, m)
  BY <1>2, WholeHere DEF Ahead, World
<1>8. DOMAIN page.records \subseteq Op
      /\ \A op \in DOMAIN page.records :
            /\ Circulates(q, w, op, page.records[op])
            /\ <<op, m>> \in w.seen => Durable(q, disk[m], op, m)
  BY <1>2, <1>6 DEF GoodPage, Good, Circulates, World, Seen
<1>9. Running(q, w, m, x)
  BY <1>4, <1>7, <1>8, AcceptedEffect
<1>10. Ahead(q, World(q, m, made'), m, x.s)
  BY <1>2, <1>5, <1>9 DEF Running, Ahead
<1>11. \A ack \in acks' :
          ack \in acks \/ (ack.signer = m /\ ack.op \in Op /\ Durable(q, disk'[m], ack.op, m))
  <2>1. disk'[m] = x.s.disk
    BY <1>5 DEF Set, Consistent, Types
  <2>2. x.ok => \A op \in x.signed : op \in Op /\ Durable(q, disk'[m], op, m)
    BY <1>9, <2>1 DEF Running
  <2>3. \A op : Receipt(m, op).op = op /\ Receipt(m, op).signer = m
    BY DEF Receipt
  <2> QED BY <1>5, <2>2, <2>3
<1>12. Owe(m, owed[m]) /\ Owes(m, owed[m])
  BY OwesAsBefore DEF ReceiveState
<1>13. Set(m, x.s) /\ Ahead(q, World(q, m, made'), m, x.s)
  BY <1>5, <1>10
<1> QED BY <1>1, <1>5, <1>11, <1>12, <1>13 DEF Moves

(* acknowledge moves one device: the receipt was durable already.           *)
LEMMA ReceiveAckMoves ==
  ASSUME NEW q, Consistent(q), NEW m \in Member, NEW ack, NEW o, ReceiveAck(m, ack, o)
  PROVE  Moves(q, m)
<1> DEFINE n == ack.signer
           op == ack.op
<1>0. FairBook(q, disk[m]) /\ FairBook(q, mem[m]) /\ GoodBook(q, mem[m])
  BY DeviceFacts
<1>00. op \in Op /\ n \in Member /\ <<op, n>> \in Seen(q)
  <2>1. <<op, n>> \in Seen(q)
    BY DEF ReceiveAck, Consistent
  <2> QED BY <2>1 DEF Seen
<1>1. PICK w : w = World(q, m, made)
  OBVIOUS
<1>2. mem[m].rec[op] # None
  BY DEF ReceiveAck
<1>3. Fair(q, op, mem[m].rec[op]) /\ mem[m].rec[op].request = q[op] /\ q[op] \in Request /\ op \in made
  BY <1>0, <1>00, <1>2, RecordFields DEF FairBook, GoodBook, Good, Fair
<1>4. PICK rec : rec = Confirmed(q[op], n)
  OBVIOUS
<1>5. PICK recs : recs = Only(op, rec)
  OBVIOUS
<1>6. PICK i : i = Install(Here(m), recs, {}, TRUE, o)
  OBVIOUS
<1>7. Fair(q, op, rec)
  BY <1>00, <1>3, <1>4, FairRecord
<1>8. FairRecs(q, recs) /\ DOMAIN recs = {op} /\ recs[op] = rec
  <2>1. DOMAIN recs = {op} /\ recs[op] = rec
    BY <1>5 DEF Only
  <2> QED BY <1>00, <1>7, <2>1 DEF FairRecs
<1>9. ProperRecs(q, w, m, i.s.disk, recs)
  <2>1. <<op, n>> \in w.seen /\ op \in w.made
    BY <1>00, <1>1, <1>3 DEF World
  <2>2. rec.ack = n /\ rec.status = "confirmed"
    BY <1>4 DEF Confirmed
  <2>3. Proper(q, w, m, i.s.disk, op, rec)
    BY <2>1, <2>2 DEF Proper
  <2> QED BY <1>8, <2>3 DEF ProperRecs
<1>10. Ahead(q, w, m, Here(m))
  BY <1>1, WholeHere
<1>11. Ahead(q, w, m, i.s)
  BY <1>0, <1>6, <1>8, <1>9, <1>10, AheadInstall
<1>12. Set(m, i.s) /\ Alone
  BY <1>3, <1>4, <1>5, <1>6, SpendEffect DEF ReceiveAck, Alone, frames
<1>13. Owe(m, owed[m]) /\ Owes(m, owed[m])
  BY OwesAsBefore DEF ReceiveAck
<1> QED BY <1>1, <1>11, <1>12, <1>13, AloneMoves

(* Nothing depends on the requests that were not made yet.                  *)
LEMMA Unmade ==
  ASSUME NEW q, Consistent(q), NEW p, \A op \in made : p[op] = q[op]
  PROVE  Consistent(p)
<1>1. ASSUME NEW m \in Member, NEW op \in Op, disk[m].rec[op] # None PROVE op \in made
  BY <1>1, DeviceFacts DEF GoodBook, Good
<1>2. Seen(p) = Seen(q)
  <2>1. ASSUME NEW op \in Op, NEW k \in Member
        PROVE  Durable(p, disk[k], op, k) <=> Durable(q, disk[k], op, k)
    <3>1. CASE disk[k].rec[op] = None
      BY <3>1 DEF Durable
    <3>2. CASE disk[k].rec[op] # None
      <4>1. p[op] = q[op]
        BY <1>1, <3>2
      <4> QED BY <4>1 DEF Durable
    <3> QED BY <3>1, <3>2
  <2> QED BY <2>1 DEF Seen
<1>3. ASSUME NEW op, NEW rec, Good(q, op, rec)
      PROVE  Good(p, op, rec) /\ (Fair(q, op, rec) => Fair(p, op, rec))
  BY <1>2, <1>3 DEF Good, Fair
<1>4. ASSUME NEW b, FairBook(q, b), GoodBook(q, b) PROVE FairBook(p, b) /\ GoodBook(p, b)
  BY <1>3, <1>4 DEF FairBook, GoodBook
<1>5. ASSUME NEW m \in Member
      PROVE  /\ Local(p, Here(m)) /\ GoodBook(p, mem[m]) /\ GoodBook(p, disk[m])
             /\ pages[m] # None => GoodPage(p, pages[m])
             /\ Sends(m)
  <2>1. /\ Local(q, Here(m)) /\ FairBook(q, mem[m]) /\ FairBook(q, disk[m])
        /\ GoodBook(q, mem[m]) /\ GoodBook(q, disk[m])
    BY DeviceFacts
  <2>2. FairBook(p, mem[m]) /\ FairBook(p, disk[m]) /\ GoodBook(p, mem[m]) /\ GoodBook(p, disk[m])
    BY <1>4, <2>1
  <2>3. Local(p, Here(m))
    BY <2>1, <2>2 DEF Local, Here
  <2>4. pages[m] # None => GoodPage(p, pages[m])
    <3> SUFFICES ASSUME pages[m] # None PROVE GoodPage(p, pages[m])
      OBVIOUS
    <3>1. GoodPage(q, pages[m])
      BY DEF Consistent
    <3> QED BY <1>3, <3>1 DEF GoodPage
  <2> QED BY <2>2, <2>3, <2>4 DEF Consistent
<1> QED BY <1>2, <1>5 DEF Consistent

(* admit moves one device: its actor has the right to the request.          *)
LEMMA DeleteForEveryoneMoves ==
  ASSUME NEW q, Consistent(q), NEW m \in Member, NEW t \in Text, NEW op \in Op,
         NEW d, NEW o, DeleteForEveryone(m, t, op, d, o),
         q[op] = [target |-> t, actor |-> m, moderated |-> ~IsAuthor(m, t),
                  epoch |-> Roster(m).epoch]
  PROVE  Moves(q, m)
<1>0. FairBook(q, disk[m])
  BY DeviceFacts
<1>1. /\ mail \in [Member -> SUBSET Text] /\ made \subseteq Op
      /\ view \in [Member -> 1 .. Len(Rosters)] /\ \A o1 \in made : Rightful(q[o1])
  BY DEF Consistent, Types
<1>2. PICK known : known = made \cup {op}
  OBVIOUS
<1>3. PICK w : w = World(q, m, known)
  OBVIOUS
<1>4. PICK rec : rec = Pending(q[op])
  OBVIOUS
<1>5. PICK recs : recs = Only(op, rec)
  OBVIOUS
<1>60. PICK x : x = Drain(m, d)
  OBVIOUS
<1>6. PICK i : i = Install(x.s, recs, {}, FALSE, o)
  OBVIOUS
<1>7. /\ Permitted(m, t) /\ Set(m, i.s) /\ Owe(m, x.owed) /\ made' = known
      /\ view' = view /\ acks' = acks /\ mail' = mail
      /\ Spend(Refusal(~(x.ok /\ i.ok)))
      /\ pages' = pages \/ pages' = [pages EXCEPT ![m] = Page(m, i.s.mem)]
  BY <1>2, <1>4, <1>5, <1>60, <1>6 DEF DeleteForEveryone
<1>8. q[op] \in Request /\ q[op].actor = m /\ q[op].target = t /\ q[op].epoch = Roster(m).epoch
      /\ q[op].moderated = ~IsAuthor(m, t)
  <2>1. Roster(m).epoch \in Nat
    BY <1>1, Constants DEF Roster
  <2>2. (~IsAuthor(m, t)) \in BOOLEAN
    OBVIOUS
  <2> QED BY <2>1, <2>2 DEF Request
<1>9. Rightful(q[op])
  <2>1. view[m] \in 1 .. view[m] /\ view[m] \in 1 .. Len(Rosters)
    BY <1>1
  <2>2. m \in Rosters[view[m]].members
        /\ (IsAuthor(m, t) \/ m \in Rosters[view[m]].admins)
    BY <1>7 DEF Permitted, Roster
  <2>3. IF q[op].moderated THEN m \in Rosters[view[m]].admins
        ELSE Account[m] = Account[Author[q[op].target]]
    BY <1>8, <2>2 DEF IsAuthor
  <2>4. q[op].epoch = Rosters[view[m]].epoch
    BY <1>8 DEF Roster
  <2> QED BY <1>8, <2>1, <2>2, <2>3, <2>4 DEF Rightful
<1>10. Fair(q, op, rec)
  BY <1>4, <1>8, FairRecord
<1>11. FairRecs(q, recs) /\ DOMAIN recs = {op} /\ recs[op] = rec
  <2>1. DOMAIN recs = {op} /\ recs[op] = rec
    BY <1>5 DEF Only
  <2> QED BY <1>10, <2>1 DEF FairRecs
<1>12. ProperRecs(q, w, m, i.s.disk, recs)
  <2>1. op \in w.made
    BY <1>2, <1>3 DEF World
  <2>2. rec.ack = None /\ rec.status = "pending"
    BY <1>4 DEF Pending
  <2>3. Proper(q, w, m, i.s.disk, op, rec)
    BY <2>1, <2>2 DEF Proper
  <2> QED BY <1>11, <2>3 DEF ProperRecs
<1>13. Ahead(q, w, m, x.s) /\ Owes(m, x.owed)
  <2>1. Ahead(q, World(q, m, made), m, x.s) /\ Owes(m, x.owed)
    BY <1>60, DrainEffect
  <2> QED BY <1>2, <1>3, <2>1, AheadWider
<1>14. Ahead(q, w, m, i.s)
  BY <1>0, <1>6, <1>11, <1>12, <1>13, AheadInstall
<1>15. mem'[m] = i.s.mem
  BY <1>7 DEF Set, Consistent, Types
<1>16. Set(m, i.s) /\ Ahead(q, World(q, m, made'), m, i.s)
  BY <1>3, <1>7, <1>14
<1>17. made \subseteq made' /\ made' \subseteq Op /\ \A o1 \in made' : Rightful(q[o1])
  BY <1>1, <1>2, <1>7, <1>9
<1>18. pages' = pages \/ pages' = [pages EXCEPT ![m] = Page(m, mem'[m])]
  BY <1>7, <1>15
<1>19. faults' \in [Faults -> Nat]
  BY <1>7, SpendEffect
<1> QED BY <1>1, <1>7, <1>13, <1>16, <1>17, <1>18, <1>19 DEF Moves

Learns == /\ mem' = mem /\ disk' = disk /\ made' = made /\ pages' = pages /\ acks' = acks
          /\ mail' = mail /\ owed' = owed /\ faults' \in [Faults -> Nat]
          /\ view' \in [Member -> 1 .. Len(Rosters)]
          /\ \A m \in Member : view[m] <= view'[m]

(* A step is the move of one device, or somebody learns of a roster.        *)
LEMMA NextMoves ==
  ASSUME NEW q, Consistent(q), Next
  PROVE  \E p : Consistent(p) /\ (Learns \/ \E m \in Member : Moves(p, m))
<1> DEFINE Goal == \E p : Consistent(p) /\ (Learns \/ \E m \in Member : Moves(p, m))
<1>1. ASSUME NEW m \in Member, Moves(q, m) PROVE Goal
  BY <1>1
<1> HIDE DEF Goal
<1>2. ASSUME User PROVE Goal
  <2>1. ASSUME NEW m \in Member, NEW t \in Text, NEW d, NEW o,
               DeleteForMe(m, t, d, o)
        PROVE  Goal
    BY <1>1, <2>1, DeleteForMeMoves
  <2>2. ASSUME NEW m \in Member, NEW t \in Text, NEW d, NEW o, NEW op \in Op,
               DeleteForEveryone(m, t, op, d, o)
        PROVE  Goal
    <3>1. PICK r : r = [target |-> t, actor |-> m, moderated |-> ~IsAuthor(m, t),
                        epoch |-> Roster(m).epoch]
      OBVIOUS
    <3>2. PICK p : p = [o1 \in Op |-> IF o1 = op THEN r ELSE q[o1]]
      OBVIOUS
    <3>3. op \notin made /\ made \subseteq Op
      BY <2>2 DEF DeleteForEveryone, Consistent, Types
    <3>4. p[op] = r /\ \A o1 \in made : p[o1] = q[o1]
      BY <3>2, <3>3
    <3>5. Consistent(p)
      BY <3>4, Unmade
    <3>6. Moves(p, m)
      BY <2>2, <3>1, <3>4, <3>5, DeleteForEveryoneMoves
    <3> QED BY <3>5, <3>6 DEF Goal
  <2>3. ASSUME NEW t \in Text, NEW d, NEW n \in Member, NEW z, RetryRefused(t, d, n, z)
        PROVE  Goal
    <3>1. Author[t] \in Member
      BY Constants
    <3> QED BY <1>1, <2>3, <3>1, RetryRefusedMoves
  <2>4. ASSUME NEW t \in Text, NEW d, NEW n \in Member, NEW sent \in BOOLEAN, NEW z,
               RetryMessage(t, d, n, sent, z)
        PROVE  Goal
    <3>1. Author[t] \in Member
      BY Constants
    <3> QED BY <1>1, <2>4, <3>1, RetryMessageMoves
  <2> QED BY <1>2, <2>1, <2>2, <2>3, <2>4 DEF User
<1>3. ASSUME Environment PROVE Goal
  <2>1. ASSUME NEW m \in Member, NEW n \in Member, CopyJournal(m, n) PROVE Goal
    BY <1>1, <2>1, CopyJournalMoves
  <2>2. ASSUME NEW m \in Member, LearnRoster(m) PROVE Goal
    <3>1. view \in [Member -> 1 .. Len(Rosters)] /\ view[m] < Len(Rosters)
          /\ view' = [view EXCEPT ![m] = @ + 1]
      BY <2>2 DEF Consistent, Types, LearnRoster
    <3>2. view' \in [Member -> 1 .. Len(Rosters)] /\ \A k \in Member : view[k] <= view'[k]
      BY <3>1
    <3>3. Learns
      BY <2>2, <3>2, SpendEffect DEF LearnRoster, Learns, frames
    <3> QED BY <3>3 DEF Goal
  <2>3. ASSUME NEW m \in Member, Crash(m) PROVE Goal
    BY <1>1, <2>3, CrashMoves
  <2> QED BY <1>3, <2>1, <2>2, <2>3 DEF Environment
<1>4. ASSUME NEW m \in Member,
             \/ Run(m) \/ Acknowledge(m)
             \/ \E t \in Text, o \in Outcomes : ReceiveText(m, t, o)
             \/ Serve(m)
             \/ \E n \in Member : Take(m, n)
      PROVE  Goal
  <2>1. ASSUME NEW d, Service(m, d) PROVE Goal
    BY <1>1, <2>1, ServiceMoves
  <2>3. ASSUME NEW ack, NEW o, ReceiveAck(m, ack, o) PROVE Goal
    BY <1>1, <2>3, ReceiveAckMoves
  <2>4. ASSUME NEW t \in Text, NEW o, ReceiveText(m, t, o) PROVE Goal
    BY <1>1, <2>4, ReceiveTextMoves
  <2>5. ASSUME Serve(m) PROVE Goal
    BY <1>1, <2>5, ServeMoves
  <2>6. ASSUME NEW n \in Member, NEW at, ReceiveState(m, n, at) PROVE Goal
    BY <1>1, <2>6, ReceiveStateMoves
  <2> QED BY <1>4, <2>1, <2>3, <2>4, <2>5, <2>6 DEF Run, Acknowledge, Take
<1>5. Goal
  BY <1>2, <1>3, <1>4 DEF Next
<1> QED BY <1>5 DEF Goal

(* A move keeps the invariant.                                              *)
LEMMA MovesKeep ==
  ASSUME NEW q, Consistent(q), NEW m \in Member, Moves(q, m)
  PROVE  Consistent(q)'
<1>1. Types
  BY DEF Consistent
<1>2. PICK s : Set(m, s) /\ Ahead(q, World(q, m, made'), m, s)
  BY DEF Moves
<1>3. /\ Whole(q, World(q, m, made'), m, s) /\ Grows(disk[m], s.disk) /\ Shows(mem[m], s.mem)
      /\ s.mem.attempt \cup s.disk.attempt \subseteq mem[m].attempt \cup disk[m].attempt
  BY <1>2 DEF Ahead
<1>4. Local(q, s) /\ s.mem \in Book /\ s.disk \in Book /\ s = [mem |-> s.mem, disk |-> s.disk]
  BY <1>3 DEF Whole, Local, FairBook
<1>5. mem' = [mem EXCEPT ![m] = s.mem] /\ disk' = [disk EXCEPT ![m] = s.disk]
  BY <1>2 DEF Set
<1>6. /\ mem'[m] = s.mem /\ disk'[m] = s.disk /\ Here(m)' = s
      /\ mem' \in [Member -> Book] /\ disk' \in [Member -> Book]
      /\ \A k \in Member \ {m} : mem'[k] = mem[k] /\ disk'[k] = disk[k] /\ Here(k)' = Here(k)
  BY <1>1, <1>4, <1>5 DEF Types, Here
<1>7. /\ made \subseteq made' /\ made' \subseteq Op /\ view' = view
      /\ \A op \in made' : Rightful(q[op])
      /\ pages' = pages \/ pages' = [pages EXCEPT ![m] = Page(m, mem'[m])]
      /\ \A ack \in acks' :
            ack \in acks \/ (ack.signer = m /\ ack.op \in Op /\ Durable(q, disk'[m], ack.op, m))
      /\ mail' \in [Member -> SUBSET Text] /\ faults' \in [Faults -> Nat]
      /\ \A n \in Member, t \in Text :
            t \in mail'[n] => t \in mail[n] \/ (n # m /\ Author[t] = m)
  BY DEF Moves, MaySend
<1>70. PICK e : Owe(m, e) /\ Owes(m, e)
  BY DEF Moves
<1>71. /\ owed' = [k \in Member |-> owed'[k]] /\ owed'[m] = e
       /\ \A k \in Member \ {m} : owed'[k] = owed[k]
  BY <1>1, <1>70 DEF Owe, Types
<1>8. ASSUME NEW op \in Op, NEW k \in Member, <<op, k>> \in Seen(q) PROVE <<op, k>> \in Seen(q)'
  <2>1. Durable(q, disk[k], op, k) /\ FairBook(q, disk[k])
    BY <1>8, DeviceFacts DEF Seen
  <2>2. Durable(q, disk'[k], op, k)
    <3>1. CASE k = m
      BY <1>3, <1>6, <2>1, <3>1, DurableGrows
    <3>2. CASE k # m
      BY <1>6, <2>1, <3>2
    <3> QED BY <3>1, <3>2
  <2> QED BY <2>2 DEF Seen
<1>9. ASSUME NEW op \in Op, Durable(q, disk'[m], op, m) PROVE <<op, m>> \in Seen(q)'
  BY <1>9 DEF Seen
<1>10. ASSUME NEW op \in Op, NEW rec, Fair(q, op, rec), Good(q, op, rec) PROVE Good(q, op, rec)'
  <2>1. rec.ack # None => rec.ack \in Member
    BY <1>10, RecordFields DEF Fair
  <2>2. rec.ack # None => <<op, rec.ack>> \in Seen(q)'
    BY <1>8, <1>10, <2>1 DEF Good
  <2> QED BY <1>7, <1>10, <2>2 DEF Good
<1>11. ASSUME NEW op \in Op, NEW rec, Fair(q, op, rec),
              Proper(q, World(q, m, made'), m, s.disk, op, rec)
       PROVE  Good(q, op, rec)'
  <2>1. rec.ack # None => rec.ack \in Member
    BY <1>11, RecordFields DEF Fair
  <2>2. /\ op \in made'
        /\ rec.ack # None => <<op, rec.ack>> \in Seen(q)
                             \/ (rec.ack = m /\ Durable(q, disk'[m], op, m))
        /\ rec.status = "rejected" => view[q[op].actor] > 1
    BY <1>6, <1>11 DEF Proper, World
  <2>3. rec.ack # None => <<op, rec.ack>> \in Seen(q)'
    BY <1>8, <1>9, <2>1, <2>2
  <2> QED BY <1>7, <2>2, <2>3 DEF Good
<1>12. GoodBook(q, mem[m])' /\ GoodBook(q, disk[m])'
  <2>1. /\ FairBook(q, s.mem) /\ FairBook(q, s.disk)
        /\ ProperBook(q, World(q, m, made'), m, s.disk, s.mem)
        /\ ProperBook(q, World(q, m, made'), m, s.disk, s.disk)
    BY <1>3, <1>4 DEF Whole, Local
  <2>2. ASSUME NEW op \in Op, s.mem.rec[op] # None PROVE Good(q, op, s.mem.rec[op])'
    <3>1. PICK rec : rec = s.mem.rec[op]
      OBVIOUS
    <3>2. Fair(q, op, rec) /\ Proper(q, World(q, m, made'), m, s.disk, op, rec)
      BY <2>1, <2>2, <3>1 DEF FairBook, ProperBook
    <3>3. mem'[m].rec[op] = rec
      BY <1>6, <3>1
    <3>4. Good(q, op, rec)'
      BY <1>11, <3>2
    <3> QED BY <1>6, <3>1, <3>4 DEF Good
  <2>3. ASSUME NEW op \in Op, s.disk.rec[op] # None PROVE Good(q, op, s.disk.rec[op])'
    <3>1. PICK rec : rec = s.disk.rec[op]
      OBVIOUS
    <3>2. Fair(q, op, rec) /\ Proper(q, World(q, m, made'), m, s.disk, op, rec)
      BY <2>1, <2>3, <3>1 DEF FairBook, ProperBook
    <3>4. Good(q, op, rec)'
      BY <1>11, <3>2
    <3> QED BY <3>1, <3>4 DEF Good
  <2> QED BY <1>6, <2>2, <2>3 DEF GoodBook
<1>13. ASSUME NEW k \in Member \ {m} PROVE GoodBook(q, mem[k])' /\ GoodBook(q, disk[k])'
  <2>1. GoodBook(q, mem[k]) /\ GoodBook(q, disk[k]) /\ FairBook(q, mem[k]) /\ FairBook(q, disk[k])
    BY DeviceFacts
  <2> QED BY <1>6, <1>10, <2>1 DEF GoodBook, FairBook
<1>14. ASSUME NEW k \in Member, pages'[k] # None PROVE GoodPage(q, pages[k])'
  <2>1. CASE pages'[k] = pages[k]
    <3>1. GoodPage(q, pages[k])
      BY <1>14, <2>1 DEF Consistent
    <3>2. PICK p : p = pages[k]
      OBVIOUS
    <3>3. GoodPage(q, p)'
      BY <1>10, <3>1, <3>2 DEF GoodPage
    <3>4. pages'[k] = p
      BY <2>1, <3>2
    <3> QED BY <3>3, <3>4
  <2>2. CASE k = m /\ pages'[k] = Page(m, mem'[m])
    <3>1. PICK p : p = Page(m, mem'[m])
      OBVIOUS
    <3>2. \A op \in DOMAIN p.records :
             op \in Op /\ p.records[op] = mem'[m].rec[op] /\ mem'[m].rec[op] # None
             /\ mem'[m].rec[op].status # "rejected"
      BY <3>1 DEF Page, Shared, Known
    <3>3. FairBook(q, mem'[m])
      BY <1>4, <1>6 DEF Local
    <3>4. GoodPage(q, p)'
      BY <1>12, <3>2, <3>3 DEF GoodPage, GoodBook, FairBook
    <3>5. pages'[k] = p
      BY <2>2, <3>1
    <3> QED BY <3>4, <3>5
  <2> QED BY <1>1, <1>7, <2>1, <2>2 DEF Types
<1>15. ASSUME NEW ack \in acks' PROVE <<ack.op, ack.signer>> \in Seen(q)'
  <2>1. CASE ack \in acks
    <3>1. <<ack.op, ack.signer>> \in Seen(q)
      BY <2>1 DEF Consistent
    <3>2. ack.op \in Op /\ ack.signer \in Member
      BY <3>1 DEF Seen
    <3> QED BY <1>8, <3>1, <3>2
  <2>2. CASE ack.signer = m /\ ack.op \in Op /\ Durable(q, disk'[m], ack.op, m)
    BY <1>9, <2>2
  <2> QED BY <1>7, <2>1, <2>2
<1>16. Types'
  <2>2. pages' = [k \in Member |-> pages'[k]]
    BY <1>1, <1>7 DEF Types
  <2> QED BY <1>1, <1>6, <1>7, <1>71, <2>2 DEF Types
<1>17. ASSUME NEW k \in Member PROVE Sends(k)'
  <2>1. /\ \A t \in mem[k].attempt \cup disk[k].attempt : Author[t] = k
        /\ \A t \in mail[k] : Author[t] # k
        /\ Owes(k, owed[k]) /\ \A t \in Text : Author[t] = k => mem[k].row[t] # "none"
    BY DEF Consistent, Sends
  <2>2. mem'[k].attempt \cup disk'[k].attempt \subseteq mem[k].attempt \cup disk[k].attempt
    <3>1. CASE k = m
      BY <1>3, <1>6, <3>1
    <3>2. CASE k # m
      BY <1>6, <3>2
    <3> QED BY <3>1, <3>2
  <2>3. \A t \in mail'[k] : t \in Text
    BY <1>7
  <2>4. Owes(k, owed[k])'
    <3>1. CASE k = m
      BY <1>70, <1>71, <3>1 DEF Owes
    <3>2. CASE k # m
      BY <1>71, <2>1, <3>2 DEF Owes
    <3> QED BY <3>1, <3>2
  <2>5. \A t \in Text : Author[t] = k => mem'[k].row[t] # "none"
    <3>1. Shows(mem[k], mem'[k])
      BY <1>3, <1>6, GrowsSelf
    <3> QED BY <2>1, <3>1 DEF Shows
  <2>6. \A t \in mail'[k] : Author[t] # k
    BY <1>7, <2>1, <2>3
  <2> QED BY <2>1, <2>2, <2>4, <2>5, <2>6 DEF Sends
<1>18. \A op \in made' : Rightful(q[op])'
  BY <1>7 DEF Rightful
<1>19. ASSUME NEW k \in Member PROVE Local(q, Here(k))'
  <2>1. CASE k = m
    BY <1>4, <1>6, <2>1
  <2>2. CASE k # m
    <3>1. Local(q, Here(k))
      BY DEF Consistent
    <3> QED BY <1>6, <2>2, <3>1
  <2> QED BY <2>1, <2>2
<1> QED BY <1>12, <1>13, <1>14, <1>15, <1>16, <1>17, <1>18, <1>19 DEF Consistent

(* A new roster keeps the invariant.                                        *)
LEMMA LearnsKeep ==
  ASSUME NEW q, Consistent(q), Learns
  PROVE  Consistent(q)'
<1>1. /\ mem' = mem /\ disk' = disk /\ made' = made /\ pages' = pages /\ acks' = acks
      /\ mail' = mail /\ owed' = owed /\ faults' \in [Faults -> Nat]
      /\ view' \in [Member -> 1 .. Len(Rosters)]
      /\ \A m \in Member : view[m] <= view'[m]
  BY DEF Learns
<1>2. Types /\ view \in [Member -> 1 .. Len(Rosters)] /\ made \subseteq Op
  BY DEF Consistent, Types
<1>3. Types'
  BY <1>1, <1>2 DEF Types
<1>4. Seen(q)' = Seen(q)
  BY <1>1 DEF Seen
<1>5. ASSUME NEW r, Rightful(r) PROVE Rightful(r)'
  <2>1. r \in Request /\ r.actor \in Member
    BY <1>5 DEF Rightful, Request
  <2>2. PICK i \in 1 .. view[r.actor] :
          /\ i \in 1 .. Len(Rosters) /\ r.epoch = Rosters[i].epoch
          /\ r.actor \in Rosters[i].members
          /\ IF r.moderated THEN r.actor \in Rosters[i].admins
             ELSE Account[r.actor] = Account[Author[r.target]]
    BY <1>5 DEF Rightful
  <2>3. i \in 1 .. view'[r.actor]
    <3>1. view[r.actor] <= view'[r.actor] /\ view[r.actor] \in Int /\ view'[r.actor] \in Int
      BY <1>1, <1>2, <2>1
    <3> QED BY <3>1
  <2> QED BY <2>1, <2>2, <2>3 DEF Rightful
<1>6. ASSUME NEW op \in made, NEW rec, Good(q, op, rec) PROVE Good(q, op, rec)'
  <2>1. q[op].actor \in Member
    BY DEF Consistent, Rightful, Request
  <2>2. view[q[op].actor] > 1 => view'[q[op].actor] > 1
    <3>1. view[q[op].actor] <= view'[q[op].actor] /\ view[q[op].actor] \in Int /\ view'[q[op].actor] \in Int
      BY <1>1, <1>2, <2>1
    <3> QED BY <3>1
  <2> QED BY <1>1, <1>4, <1>6, <2>2 DEF Good
<1>7. ASSUME NEW b, GoodBook(q, b) PROVE GoodBook(q, b)'
  BY <1>6, <1>7 DEF GoodBook, Good
<1>8. ASSUME NEW p, GoodPage(q, p) PROVE GoodPage(q, p)'
  BY <1>6, <1>8 DEF GoodPage, Good
<1>9. ASSUME NEW m \in Member
      PROVE  /\ Local(q, Here(m))' /\ GoodBook(q, mem[m])' /\ GoodBook(q, disk[m])'
             /\ (pages[m] # None => GoodPage(q, pages[m]))'
             /\ Sends(m)'
  <2>1. GoodBook(q, mem[m]) /\ GoodBook(q, disk[m]) /\ Local(q, Here(m)) /\ Sends(m)
        /\ (pages[m] # None => GoodPage(q, pages[m]))
    BY DEF Consistent
  <2>2. PICK b : b = mem[m]
    OBVIOUS
  <2>3. PICK d : d = disk[m]
    OBVIOUS
  <2>4. PICK p : p = pages[m]
    OBVIOUS
  <2>5. GoodBook(q, b)' /\ GoodBook(q, d)' /\ (p # None => GoodPage(q, p)')
    BY <1>7, <1>8, <2>1, <2>2, <2>3, <2>4
  <2>6. mem'[m] = b /\ disk'[m] = d /\ pages'[m] = p
    BY <1>1, <2>2, <2>3, <2>4
  <2>7. Local(q, Here(m))' /\ Sends(m)'
    BY <1>1, <2>1 DEF Here, Sends, Owes
  <2>8. GoodBook(q, mem[m])' /\ GoodBook(q, disk[m])'
    BY <2>5, <2>6
  <2>9. (pages[m] # None => GoodPage(q, pages[m]))'
    BY <2>5, <2>6
  <2> QED BY <2>7, <2>8, <2>9
<1>10. \A op \in made' : Rightful(q[op])'
  BY <1>1, <1>5 DEF Consistent
<1>11. \A ack \in acks' : <<ack.op, ack.signer>> \in Seen(q)'
  BY <1>1, <1>4 DEF Consistent
<1> QED BY <1>3, <1>9, <1>10, <1>11 DEF Consistent

(* The invariant holds at first, whatever requests will be made.            *)
LEMMA InitConsistent ==
  ASSUME Init, NEW q
  PROVE  Consistent(q)
<1>1. ASSUME NEW m \in Member
      PROVE  /\ Fresh(m) \in Book /\ Fresh(m).me = {} /\ Fresh(m).accepted = {}
             /\ \A op \in Op : Fresh(m).rec[op] = None
             /\ \A t \in Text : Fresh(m).row[t] = IF m = Author[t] THEN "text" ELSE "none"
             /\ Fresh(m).attempt = {t \in Text : m = Author[t]}
  BY DEF Fresh, Empty, Book, Rows
<1>2. mem = [m \in Member |-> Fresh(m)] /\ disk = mem
  BY DEF Init
<1>3. Types
  <2>1. 1 \in 1 .. Len(Rosters)
    <3>1. Rosters # << >>
      BY DeletionAssumption
    <3> QED BY <3>1
  <2>2. faults \in [Faults -> Nat]
    BY DeletionAssumption DEF Init
  <2> QED BY <1>1, <1>2, <2>1, <2>2 DEF Init, Types
<1>4. ASSUME NEW m \in Member
      PROVE  /\ Local(q, Here(m)) /\ GoodBook(q, mem[m]) /\ GoodBook(q, disk[m])
             /\ pages[m] # None => GoodPage(q, pages[m])
             /\ Sends(m)
  <2>1. mem[m] = Fresh(m) /\ disk[m] = Fresh(m) /\ pages[m] = None /\ mail[m] = {}
    BY <1>2 DEF Init
  <2>2. Local(q, Here(m))
    BY <1>1, <2>1 DEF Local, Here, FairBook, Behind
  <2>3. Owes(m, owed[m])
    BY DEF Init, Owes, Nothing
  <2>4. Sends(m)
    BY <1>1, <2>1, <2>3 DEF Sends
  <2> QED BY <1>1, <2>1, <2>2, <2>4 DEF GoodBook
<1> QED BY <1>3, <1>4 DEF Init, Consistent

(* The same for a step or none.                                             *)
LEMMA StepMoves ==
  ASSUME DeletionInv, [Next]_vars
  PROVE  \E p : Consistent(p) /\ (Learns \/ \E m \in Member : Moves(p, m))
<1>1. PICK q : Consistent(q)
  BY DEF DeletionInv
<1>2. CASE Next
  BY <1>1, <1>2, NextMoves
<1>3. CASE UNCHANGED vars
  <2>1. Learns
    BY <1>1, <1>3 DEF Learns, vars, Consistent, Types
  <2> QED BY <1>1, <2>1
<1> QED BY <1>2, <1>3

(* Memory and disk of every device hold copies of requests whose actors had *)
(* the right to make them, memory never knows more than the disk, and every *)
(* receipt in a journal, a page or on its own is backed by the disk of its  *)
(* signer, through refused writes, crashes and new rosters.                 *)
THEOREM DeletionInvariant == Spec => []DeletionInv
<1>1. Init => DeletionInv
  <2> SUFFICES ASSUME Init PROVE DeletionInv
    OBVIOUS
  <2>1. PICK q : q = {}
    OBVIOUS
  <2>2. Consistent(q)
    BY InitConsistent
  <2> QED BY <2>2 DEF DeletionInv
<1>2. DeletionInv /\ [Next]_vars => DeletionInv'
  <2> SUFFICES ASSUME DeletionInv, [Next]_vars PROVE DeletionInv'
    OBVIOUS
  <2>1. PICK p : Consistent(p) /\ (Learns \/ \E m \in Member : Moves(p, m))
    BY StepMoves
  <2>2. Consistent(p)'
    BY <2>1, MovesKeep, LearnsKeep
  <2> QED BY <2>2 DEF DeletionInv
<1> QED BY <1>1, <1>2, PTL DEF Spec

(* Every receipt anywhere is one its signer stands behind.                  *)
LEMMA ReceiptsAreSeen ==
  ASSUME NEW q, Consistent(q)
  PROVE  ReceiptsSeen \subseteq Seen(q)
<1>1. \A ack \in acks : <<ack.op, ack.signer>> \in Seen(q)
  BY DEF Consistent
<1>2. ASSUME NEW r \in Op \X Member, NEW m \in Member, NEW b \in {mem[m], disk[m]},
             b.rec[r[1]] # None, b.rec[r[1]].ack = r[2]
      PROVE  r \in Seen(q)
  <2>1. GoodBook(q, b) /\ r[1] \in Op /\ r[2] \in Member /\ r = <<r[1], r[2]>>
    BY DeviceFacts
  <2>2. Good(q, r[1], b.rec[r[1]])
    BY <1>2, <2>1 DEF GoodBook
  <2>3. <<r[1], r[2]>> \in Seen(q)
    BY <1>2, <2>1, <2>2, Constants DEF Good
  <2> QED BY <2>1, <2>3
<1>3. ASSUME NEW r \in Op \X Member, NEW m \in Member, pages[m] # None,
             r[1] \in DOMAIN pages[m].records, pages[m].records[r[1]].ack = r[2]
      PROVE  r \in Seen(q)
  <2>1. GoodPage(q, pages[m]) /\ r[1] \in Op /\ r[2] \in Member /\ r = <<r[1], r[2]>>
    BY <1>3 DEF Consistent
  <2>2. Good(q, r[1], pages[m].records[r[1]])
    BY <1>3, <2>1 DEF GoodPage
  <2>3. <<r[1], r[2]>> \in Seen(q)
    BY <1>3, <2>1, <2>2, Constants DEF Good
  <2> QED BY <2>1, <2>3
<1> QED BY <1>1, <1>2, <1>3 DEF ReceiptsSeen

(* accept saves a record as confirmed and accepted before its receipt is    *)
(* sent, and install erases the row in the transaction that saves it: a     *)
(* receipt means that its signer, of another account, has the deletion on   *)
(* disk and the text no more.                                               *)
THEOREM ReceiptsAreDurable == Spec => []ReceiptIsDurable
<1>1. DeletionInv => ReceiptIsDurable
  <2> SUFFICES ASSUME NEW q, Consistent(q) PROVE ReceiptIsDurable
    BY DEF DeletionInv
  <2> SUFFICES ASSUME NEW r \in ReceiptsSeen
      PROVE /\ disk[r[2]].rec[r[1]] # None /\ disk[r[2]].rec[r[1]].status = "confirmed"
            /\ r[1] \in disk[r[2]].accepted
            /\ disk[r[2]].row[disk[r[2]].rec[r[1]].request.target] # "text"
            /\ OtherAccount(disk[r[2]].rec[r[1]].request, r[2])
    BY DEF ReceiptIsDurable
  <2>1. r \in Op \X Member /\ Durable(q, disk[r[2]], r[1], r[2])
    BY ReceiptsAreSeen DEF Seen
  <2>2. r[1] \in Op /\ r[2] \in Member
    BY <2>1
  <2>3. FairBook(q, disk[r[2]])
    BY <2>2, DeviceFacts
  <2>4. disk[r[2]].rec[r[1]].request = q[r[1]]
    BY <2>1, <2>2, <2>3 DEF FairBook, Fair, Durable
  <2> QED BY <2>1, <2>4 DEF Durable
<1> QED BY <1>1, DeletionInvariant, PTL

(* write_history_row, commit_message_deletions and retry_message: an erased  *)
(* row stays erased, in memory over restarts too, and no text is saved under *)
(* a tombstone on disk.  A failed send is published only while memory shows  *)
(* its text, and over a tombstone on disk only in a call in which the store  *)
(* refuses something, whatever publications and saves failed before.         *)
THEOREM DeletedStaysDeleted == Spec => ErasedForGood
<1> DEFINE Safe(m, t) ==
         /\ (Marker(disk[m], t) # "none" /\ disk'[m].row[t] = "text")
                => disk[m].row[t] = "text"
         /\ Gone(disk[m], t) => Gone(disk'[m], t)
         /\ Gone(mem[m], t) => Gone(mem'[m], t)
         /\ (m = Author[t] /\ Publishes(t))
                => /\ ~Gone(mem[m], t)
                   /\ (Marker(disk[m], t) # "none"
                         => faults'["refused"] < faults["refused"])
<1>1. ASSUME DeletionInv, [Next]_vars, NEW m \in Member, NEW t \in Text PROVE Safe(m, t)
  <2>1. PICK q : Consistent(q) /\ (Learns \/ \E k \in Member : Moves(q, k))
    BY <1>1, StepMoves
  <2>2. CASE Learns
    BY <2>2 DEF Learns, Publishes
  <2>3. ASSUME NEW k \in Member, Moves(q, k) PROVE Safe(m, t)
    <3>1. PICK s : Set(k, s) /\ Ahead(q, World(q, k, made'), k, s)
      BY <2>3 DEF Moves
    <3>2. /\ disk'[m] = IF m = k THEN s.disk ELSE disk[m]
          /\ mem'[m] = IF m = k THEN s.mem ELSE mem[m]
      BY <2>1, <3>1 DEF Set, Consistent, Types
    <3>3. Grows(disk[m], disk'[m]) /\ Shows(mem[m], mem'[m])
      BY <3>1, <3>2, GrowsSelf DEF Ahead
    <3>4. Marker(disk[m], t) # "none" /\ disk'[m].row[t] = "text" => disk[m].row[t] = "text"
      BY <3>3, MarkerIs DEF Grows
    <3>5. (Gone(disk[m], t) => Gone(disk'[m], t)) /\ (Gone(mem[m], t) => Gone(mem'[m], t))
      BY <3>3 DEF Grows, Shows, Gone, Erased
    <3>6. ASSUME m = Author[t], Publishes(t)
          PROVE  /\ ~Gone(mem[m], t)
                 /\ Marker(disk[m], t) # "none" => faults'["refused"] < faults["refused"]
      <4>1. PICK n \in Member : t \in mail'[n] \ mail[n]
        BY <3>6 DEF Publishes
      <4>2. MaySend(k, t)
        BY <2>3, <4>1 DEF Moves
      <4> QED BY <3>6, <4>2, MarkerIs DEF MaySend, Gone, Erased
    <3> QED BY <3>4, <3>5, <3>6
  <2> QED BY <2>1, <2>2, <2>3
<1>2. DeletionInv /\ [Next]_vars => [\A m \in Member, t \in Text : Safe(m, t)]_vars
  BY <1>1
<1> QED BY <1>2, DeletionInvariant, PTL DEF Spec, ErasedForGood

(* validate and accept: once nobody takes the author of a moderation for an *)
(* admin, and nobody has confirmed it, no journal ever confirms it, from    *)
(* whatever page or receipt.                                                *)
THEOREM RevokedStaysUnconfirmed == Spec => RevokedNotConfirmed
<1> DEFINE Safe(op) == (Revoked(op) /\ ~ConfirmedSomewhere(op)) => ~ConfirmedSomewhere(op)'
<1>1. ASSUME DeletionInv, [Next]_vars, NEW op \in made, Revoked(op), ConfirmedSomewhere(op)'
      PROVE  ConfirmedSomewhere(op)
  <2>1. PICK q : Consistent(q) /\ (Learns \/ \E k \in Member : Moves(q, k))
    BY <1>1, StepMoves
  <2>2. op \in Op
    BY <2>1 DEF Consistent, Types
  <2>3. PICK m \in Member : disk'[m].rec[op] # None /\ disk'[m].rec[op].status = "confirmed"
    BY <1>1 DEF ConfirmedSomewhere
  <2>4. CASE Learns
    BY <2>3, <2>4 DEF Learns, ConfirmedSomewhere
  <2>5. ASSUME NEW k \in Member, Moves(q, k) PROVE ConfirmedSomewhere(op)
    <3>1. PICK s : Set(k, s) /\ Ahead(q, World(q, k, made'), k, s)
      BY <2>5 DEF Moves
    <3>2. disk'[m] = IF m = k THEN s.disk ELSE disk[m]
      BY <2>1, <3>1 DEF Set, Consistent, Types
    <3>3. CASE m # k
      BY <2>3, <3>2, <3>3 DEF ConfirmedSomewhere
    <3>4. CASE m = k
      <4>1. PICK rec : rec = s.disk.rec[op]
        OBVIOUS
      <4>2. rec # None /\ rec.status = "confirmed"
        BY <2>3, <3>2, <3>4, <4>1
      <4>3. Fair(q, op, rec) /\ Proper(q, World(q, k, made'), k, s.disk, op, rec)
        BY <2>2, <3>1, <4>1, <4>2 DEF Ahead, Whole, Local, FairBook, ProperBook
      <4>4. rec.ack # None
        BY <4>2, <4>3 DEF Fair
      <4>5. <<op, rec.ack>> \in Seen(q) \/ op \in MayGive(q, k)
        BY <4>3, <4>4 DEF Proper, World
      <4>6. CASE <<op, rec.ack>> \in Seen(q)
        <5>1. rec.ack \in Member /\ Durable(q, disk[rec.ack], op, rec.ack)
          BY <4>6 DEF Seen
        <5> QED BY <5>1 DEF Durable, ConfirmedSomewhere
      <4>7. CASE op \in MayGive(q, k)
        <5>1. PICK n \in Member :
                 /\ disk[n].rec[op] # None /\ disk[n].rec[op].request.moderated
                 /\ \A j \in Member : disk[n].rec[op].request.actor \notin Roster(j).admins
          BY <1>1 DEF Revoked
        <5>2. disk[n].rec[op].request = q[op]
          BY <2>1, <2>2, <5>1, DeviceFacts DEF FairBook, Fair
        <5> QED BY <4>7, <5>1, <5>2 DEF MayGive
      <4> QED BY <4>5, <4>6, <4>7
    <3> QED BY <3>3, <3>4
  <2> QED BY <2>1, <2>4, <2>5
<1>2. DeletionInv /\ [Next]_vars => [\A op \in made : Safe(op)]_vars
  BY <1>1
<1> QED BY <1>2, DeletionInvariant, PTL DEF Spec, RevokedNotConfirmed

-----------------------------------------------------------------------------
(* Rest. *)

(* Record r of operation op is saved, and makes y of x.                     *)
TakesIn(m, op, r, x, y) ==
    /\ y.ok = TRUE /\ y.s.mem.rec[op] = Merged(x.s.mem.rec[op], Receipted(m, r))
    /\ \A o \in Op \ {op} : y.s.mem.rec[o] = x.s.mem.rec[o]

(* A record that is admitted as it is, and saved.                           *)
LEMMA AcceptMerges ==
  ASSUME NEW q, NEW w, NEW m \in Member, NEW n \in Member, NEW at, NEW x, Running(q, w, m, x), x.ok = TRUE,
         NEW op \in Op, op # at, NEW r, Fair(q, op, r), r.status # "rejected",
         Admissible(m, op, r, n) = r,
         NEW y, y = Accept(m, n, at, x, op, r)
  PROVE  TakesIn(m, op, r, x, y)
<1>1. r # None
  BY RecordFields DEF Fair
<1>2. PICK rec : rec = Receipted(m, r)
  OBVIOUS
<1>3. PICK recs : recs = Only(op, rec)
  OBVIOUS
<1>4. PICK i : i = Install(x.s, recs, {}, TRUE, "saved")
  OBVIOUS
<1>5. y.s = i.s /\ y.ok = i.ok
  BY <1>1, <1>2, <1>3, <1>4 DEF Accept
<1>6. Fair(q, op, rec)
  BY <1>1, <1>2, AdmittedIs
<1>7. FairRecs(q, recs) /\ DOMAIN recs = {op} /\ recs[op] = rec
  <2>1. DOMAIN recs = {op} /\ recs[op] = rec
    BY <1>3 DEF Only
  <2> QED BY <1>6, <2>1 DEF FairRecs
<1>8. Local(q, x.s)
  BY DEF Running, Whole
<1>9. Installed(q, x.s, recs, {}, TRUE, "saved", i)
  BY <1>4, <1>7, <1>8, InstallEffect
<1> QED BY <1>2, <1>5, <1>7, <1>9 DEF Installed, TakesIn

(* As long as the first roster is in force every record may be shown and    *)
(* is admitted as it is.                                                    *)
LEMMA AllValid ==
  ASSUME NEW q, Consistent(q), \A k \in Member : view[k] = 1,
         NEW m \in Member, NEW n \in Member, NEW op \in Op, NEW rec,
         Fair(q, op, rec), Good(q, op, rec), NEW acc
  PROVE  Validate(m, acc, op, rec, n) /\ rec.status # "rejected"
<1>1. /\ rec.request = q[op] /\ q[op] \in Request /\ q[op].actor \in Member /\ q[op].epoch \in Nat
      /\ rec.ack # None => rec.ack \in Member
  BY RecordFields DEF Fair
<1>2. rec.status = "confirmed" => rec.ack # None
  BY DEF Fair
<1>3. Rightful(q[op])
  BY DEF Good, Consistent
<1>4. /\ q[op].epoch = Rosters[1].epoch /\ q[op].actor \in Rosters[1].members
      /\ IF q[op].moderated THEN q[op].actor \in Rosters[1].admins
         ELSE Account[q[op].actor] = Account[Author[q[op].target]]
  <2>1. PICK i \in 1 .. view[q[op].actor] :
          /\ i \in 1 .. Len(Rosters) /\ q[op].epoch = Rosters[i].epoch
          /\ q[op].actor \in Rosters[i].members
          /\ IF q[op].moderated THEN q[op].actor \in Rosters[i].admins
             ELSE Account[q[op].actor] = Account[Author[q[op].target]]
    BY <1>3 DEF Rightful
  <2>2. i = 1
    BY <1>1
  <2> QED BY <2>1, <2>2
<1>5. rec.ack # None => OtherAccount(q[op], rec.ack)
  <2>1. rec.ack # None => Durable(q, disk[rec.ack], op, rec.ack)
    BY <1>1 DEF Good, Seen
  <2> QED BY <2>1 DEF Durable
<1>6. rec.status # "rejected"
  <2>1. ~(view[q[op].actor] > 1)
    BY <1>1
  <2> QED BY <2>1 DEF Good
<1>7. Roster(m) = Rosters[1] /\ Rosters[1].members = Member
  BY FirstRosterAssumption DEF Roster
<1>8. q[op].epoch <= Rosters[1].epoch
  BY <1>1, <1>4
<1> QED BY <1>1, <1>2, <1>4, <1>5, <1>6, <1>7, <1>8 DEF Validate

(* A page is the whole journal then.                                        *)
LEMMA WholePage ==
  ASSUME NEW q, Consistent(q), \A k \in Member : view[k] = 1, NEW n \in Member
  PROVE  /\ DOMAIN Page(n, mem[n]).records = {op \in Op : mem[n].rec[op] # None}
         /\ Shared(n, mem[n]) = {op \in Op : mem[n].rec[op] # None}
         /\ \A op \in Op : mem[n].rec[op] # None =>
               /\ Page(n, mem[n]).records[op] = mem[n].rec[op]
               /\ Fair(q, op, mem[n].rec[op]) /\ Good(q, op, mem[n].rec[op])
               /\ mem[n].rec[op].status # "rejected"
<1>1. ASSUME NEW op \in Op, mem[n].rec[op] # None
      PROVE  /\ Fair(q, op, mem[n].rec[op]) /\ Good(q, op, mem[n].rec[op])
             /\ mem[n].rec[op].status # "rejected"
             /\ Validate(n, mem[n].accepted, op, mem[n].rec[op], n)
  <2>1. Fair(q, op, mem[n].rec[op]) /\ Good(q, op, mem[n].rec[op])
    BY <1>1, DeviceFacts DEF FairBook, GoodBook
  <2> QED BY <2>1, AllValid
<1>2. Shared(n, mem[n]) = {op \in Op : mem[n].rec[op] # None}
  BY <1>1 DEF Shared, Known
<1> QED BY <1>1, <1>2 DEF Page

(* currently_admissible keeps a record that is valid.                       *)
LEMMA AdmissibleAsIs ==
  ASSUME NEW m, NEW op, NEW r, NEW n, Validate(m, mem[m].accepted, op, r, n)
  PROVE  Admissible(m, op, r, n) = r
BY Zenon DEF Admissible

(* The journal of m after the whole page of n.                              *)
LEMMA PageMerges ==
  ASSUME NEW q, Consistent(q), \A k \in Member : view[k] = 1,
         NEW m \in Member, NEW n \in Member, NEW page, page = Page(n, mem[n]),
         NEW op \in Op, mem[n].rec[op] # None
  PROVE  Accepted(m, n, page, 0).s.mem.rec[op] = Merged(mem[m].rec[op], Receipted(m, mem[n].rec[op]))
<1>0. PICK w : w = World(q, m, made)
  OBVIOUS
<1>1. /\ DOMAIN page.records = {o \in Op : mem[n].rec[o] # None}
      /\ \A o \in DOMAIN page.records :
               /\ page.records[o] = mem[n].rec[o]
               /\ Fair(q, o, page.records[o]) /\ Good(q, o, page.records[o])
               /\ page.records[o].status # "rejected"
  BY WholePage
<1>2. FairBook(q, disk[m]) /\ w.may = MayGive(q, m) /\ Whole(q, w, m, Here(m))
  BY <1>0, DeviceFacts, WholeHere DEF World, Ahead
<1>3. ASSUME NEW o \in DOMAIN page.records
      PROVE  /\ Circulates(q, w, o, page.records[o])
             /\ <<o, m>> \in w.seen => Durable(q, disk[m], o, m)
             /\ Admissible(m, o, page.records[o], n) = page.records[o]
  <2>1. Circulates(q, w, o, page.records[o])
    BY <1>0, <1>1 DEF Circulates, World, Good
  <2>2. <<o, m>> \in w.seen => Durable(q, disk[m], o, m)
    BY <1>0 DEF World, Seen
  <2>3. Validate(m, mem[m].accepted, o, page.records[o], n)
    BY <1>1, AllValid
  <2> QED BY <2>1, <2>2, <2>3, AdmissibleAsIs
<1>4. PICK f : /\ Accepted(m, n, page, 0) = f[Ops]
               /\ f[0] = [s |-> Here(m), ok |-> TRUE, signed |-> {}]
               /\ \A o \in Op : f[o] = StepOf(m, n, page, 0, o, f[o - 1])
  BY AcceptedRun
<1> DEFINE Upto(k) ==
        /\ Running(q, w, m, f[k]) /\ f[k].ok
        /\ \A o \in Op : f[k].s.mem.rec[o] =
              IF o <= k /\ o \in DOMAIN page.records
              THEN Merged(mem[m].rec[o], Receipted(m, page.records[o])) ELSE mem[m].rec[o]
<1>5. PICK S : S = {k \in Nat : k <= Ops => Upto(k)}
  OBVIOUS
<1>6. 0 \in S
  <2>1. Running(q, w, m, f[0]) /\ f[0].ok
    BY <1>2, <1>4, GrowsSelf DEF Running, Here
  <2>2. \A o \in Op : ~(o <= 0) /\ f[0].s.mem.rec[o] = mem[m].rec[o]
    BY <1>4, Constants DEF Here, Op
  <2>3. Upto(0)
    BY <2>1, <2>2
  <2> QED BY <1>5, <2>3
<1>7. ASSUME NEW k \in Nat \ {0}, k - 1 \in S PROVE k \in S
  <2> SUFFICES ASSUME k <= Ops PROVE Upto(k)
    BY <1>5
  <2>1. k \in Op /\ Upto(k - 1)
    BY <1>5, <1>7, Constants DEF Op
  <2>2. \A o \in Op : o \in Int /\ (o <= k <=> o <= k - 1 \/ o = k)
    BY Constants DEF Op
  <2>3. CASE k \in DOMAIN page.records
    <3>1. f[k] = Accept(m, n, 0, f[k - 1], k, page.records[k])
      BY <1>4, <2>1, <2>3 DEF StepOf
    <3>2. /\ Circulates(q, w, k, page.records[k])
          /\ <<k, m>> \in w.seen => Durable(q, disk[m], k, m)
          /\ Admissible(m, k, page.records[k], n) = page.records[k]
          /\ Fair(q, k, page.records[k]) /\ page.records[k].status # "rejected"
      BY <1>1, <1>3, <2>3
    <3>3. Running(q, w, m, f[k - 1]) /\ f[k - 1].ok
      BY <2>1
    <3>4. Running(q, w, m, f[k])
      BY <1>2, <2>1, <3>1, <3>2, <3>3, AcceptStep
    <3>5. /\ f[k].ok
          /\ f[k].s.mem.rec[k] = Merged(f[k - 1].s.mem.rec[k], Receipted(m, page.records[k]))
          /\ \A o \in Op \ {k} : f[k].s.mem.rec[o] = f[k - 1].s.mem.rec[o]
      <4>1. k # 0 /\ k \in Op
        BY <2>1
      <4>2. PICK r : r = page.records[k]
        OBVIOUS
      <4>3. PICK x : x = f[k - 1]
        OBVIOUS
      <4>4. PICK y : y = f[k]
        OBVIOUS
      <4>5. /\ Running(q, w, m, x) /\ x.ok = TRUE /\ y = Accept(m, n, 0, x, k, r)
            /\ Fair(q, k, r) /\ r.status # "rejected" /\ Admissible(m, k, r, n) = r
        BY <3>1, <3>2, <3>3, <4>2, <4>3, <4>4 DEF Running
      <4>6. TakesIn(m, k, r, x, y)
        BY <4>1, <4>5, AcceptMerges
      <4> QED BY <4>2, <4>3, <4>4, <4>6 DEF TakesIn
    <3>6. f[k - 1].s.mem.rec[k] = mem[m].rec[k]
      <4>1. ~(k <= k - 1)
        OBVIOUS
      <4> QED BY <2>1, <4>1
    <3>7. ASSUME NEW o \in Op
          PROVE  f[k].s.mem.rec[o] = IF o <= k /\ o \in DOMAIN page.records
                   THEN Merged(mem[m].rec[o], Receipted(m, page.records[o])) ELSE mem[m].rec[o]
      <4>1. CASE o = k
        BY <2>2, <2>3, <3>5, <3>6, <4>1
      <4>2. CASE o # k
        BY <2>1, <2>2, <3>5, <4>2
      <4> QED BY <4>1, <4>2
    <3> QED BY <3>4, <3>5, <3>7
  <2>4. CASE k \notin DOMAIN page.records
    <3>1. f[k] = f[k - 1]
      BY <1>4, <2>1, <2>4 DEF StepOf
    <3> QED BY <2>1, <2>2, <2>4, <3>1
  <2> QED BY <2>3, <2>4
<1>8. S = Nat
  BY <1>5, <1>6, <1>7, Induction
<1>9. Upto(Ops)
  BY <1>5, <1>8, Constants
<1>10. op <= Ops /\ op \in DOMAIN page.records /\ page.records[op] = mem[n].rec[op]
  BY <1>1, Constants DEF Op
<1> QED BY <1>4, <1>9, <1>10

(* Two journals that learn nothing from each other are the same.            *)
LEMMA FixedPoint ==
  ASSUME NEW q, NEW op, NEW m \in Member, NEW n \in Member, NEW a, NEW b,
         Fair(q, op, a), Fair(q, op, b), a.status # "rejected", b.status # "rejected",
         a = Merged(a, Receipted(m, b)), b = Merged(b, Receipted(n, a))
  PROVE  a = b
<1>1. /\ a \in Record /\ b \in Record /\ a.request = b.request /\ a # None /\ b # None
      /\ (a.status = "confirmed" <=> a.ack # None) /\ (b.status = "confirmed" <=> b.ack # None)
  BY RecordFields DEF Fair
<1>2. /\ a.status \in {"pending", "confirmed"} /\ b.status \in {"pending", "confirmed"}
      /\ (a.ack # None => a.ack \in Member) /\ (b.ack # None => b.ack \in Member)
  BY <1>1, RecordFields
<1>3. a.status = b.status /\ a.ack = b.ack => a = b
  BY <1>1 DEF Record
<1>4. CASE a.status = "pending" /\ b.status = "pending"
  BY <1>1, <1>3, <1>4
<1>5. CASE a.status = "confirmed" /\ b.status = "pending"
  <2>1. Receipted(n, a) = a
    BY <1>1, <1>5 DEF Receipted
  <2> QED BY <1>5, <2>1 DEF Merged
<1>6. CASE a.status = "pending" /\ b.status = "confirmed"
  <2>1. Receipted(m, b) = b
    BY <1>1, <1>6 DEF Receipted
  <2> QED BY <1>6, <2>1 DEF Merged
<1>7. CASE a.status = "confirmed" /\ b.status = "confirmed"
  <2>1. Receipted(n, a) = a /\ Receipted(m, b) = b
    BY <1>1, <1>7 DEF Receipted
  <2>2. a = Merged(a, b) /\ b = Merged(b, a)
    BY <2>1
  <2>3. a = b \/ (Key[a.ack] <= Key[b.ack] /\ Key[b.ack] <= Key[a.ack])
    BY <1>1, <1>7, <2>2 DEF Merged
  <2>4. a.ack \in Member /\ b.ack \in Member
    BY <1>1, <1>2, <1>7
  <2>5. Key[a.ack] \in Nat /\ Key[b.ack] \in Nat
    BY <2>4, Constants
  <2>6. a = b \/ Key[a.ack] = Key[b.ack]
    BY <2>3, <2>5
  <2>7. a = b \/ a.ack = b.ack
    BY <2>4, <2>6, Constants
  <2> QED BY <1>3, <1>7, <2>7
<1> QED BY <1>2, <1>4, <1>5, <1>6, <1>7

(* receive_state, merged and apply: when the pages of all others and the    *)
(* service leave every device as it is, all journals are the same and no    *)
(* device keeps the text of a deleted message.                              *)
THEOREM PagesAgreeAtRest == Spec => []RestIsAgreement
<1>1. DeletionInv => RestIsAgreement
  <2> SUFFICES ASSUME NEW q, Consistent(q), \A m \in Member : Quiet(m) /\ view[m] = 1,
                      NEW m \in Member, NEW n \in Member
      PROVE  /\ Digest(m, mem[m]) = Digest(n, mem[n])
             /\ \A op \in Known(mem[n]) :
                  "text" \notin {mem[m].row[mem[n].rec[op].request.target],
                                disk[m].row[mem[n].rec[op].request.target]}
    BY DEF DeletionInv, RestIsAgreement
  <2>1. ASSUME NEW k \in Member, NEW j \in Member, k # j, NEW op \in Op, mem[j].rec[op] # None
        PROVE  mem[k].rec[op] = Merged(mem[k].rec[op], Receipted(k, mem[j].rec[op]))
    <3>1. PICK page : page = Page(j, mem[j])
      OBVIOUS
    <3>2. Opens(k, j, Roster(j).epoch)
      BY FirstRosterAssumption DEF Opens, Roster
    <3>3. Accepted(k, j, page, 0).s = Here(k)
      BY <2>1, <3>1, <3>2 DEF Quiet
    <3>4. Accepted(k, j, page, 0).s.mem.rec[op] = Merged(mem[k].rec[op], Receipted(k, mem[j].rec[op]))
      BY <2>1, <3>1, PageMerges
    <3> QED BY <3>3, <3>4 DEF Here
  <2>2. ASSUME NEW k \in Member, NEW op \in Op, mem[k].rec[op] # None
        PROVE  Fair(q, op, mem[k].rec[op]) /\ mem[k].rec[op].status # "rejected"
    BY <2>2, WholePage
  <2>3. ASSUME NEW k \in Member, NEW j \in Member, k # j, NEW op \in Op, mem[j].rec[op] # None
        PROVE  mem[k].rec[op] # None
    <3>1. Fair(q, op, mem[j].rec[op]) /\ mem[j].rec[op] # None
      BY <2>2, <2>3
    <3>2. Fair(q, op, Receipted(k, mem[j].rec[op]))
      <4>1. mem[j].rec[op].request \in Request /\ mem[j].rec[op].request = q[op]
        BY <3>1, RecordFields DEF Fair
      <4>2. Fair(q, op, Confirmed(mem[j].rec[op].request, k))
        BY <4>1, FairRecord
      <4> QED BY <3>1, <4>2 DEF Receipted
    <3>3. Receipted(k, mem[j].rec[op]) # None
      BY <3>2, RecordFields DEF Fair
    <3>4. mem[k].rec[op] = Merged(mem[k].rec[op], Receipted(k, mem[j].rec[op]))
      BY <2>1, <2>3
    <3> QED BY <3>3, <3>4 DEF Merged
  <2>4. ASSUME NEW op \in Op PROVE mem[m].rec[op] = mem[n].rec[op]
    <3>1. CASE m = n
      BY <3>1
    <3>2. CASE m # n /\ mem[m].rec[op] = None
      BY <2>3, <3>2
    <3>3. CASE m # n /\ mem[m].rec[op] # None
      <4>1. mem[n].rec[op] # None
        BY <2>3, <3>3
      <4>2. /\ Fair(q, op, mem[m].rec[op]) /\ mem[m].rec[op].status # "rejected"
            /\ Fair(q, op, mem[n].rec[op]) /\ mem[n].rec[op].status # "rejected"
        BY <2>2, <3>3, <4>1
      <4>3. /\ mem[m].rec[op] = Merged(mem[m].rec[op], Receipted(m, mem[n].rec[op]))
            /\ mem[n].rec[op] = Merged(mem[n].rec[op], Receipted(n, mem[m].rec[op]))
        BY <2>1, <3>3, <4>1
      <4> QED BY <4>2, <4>3, FixedPoint
    <3> QED BY <3>1, <3>2, <3>3
  <2>5. Digest(m, mem[m]) = Digest(n, mem[n])
    <3>1. /\ Shared(m, mem[m]) = {op \in Op : mem[m].rec[op] # None}
          /\ Shared(n, mem[n]) = {op \in Op : mem[n].rec[op] # None}
      BY WholePage
    <3>2. Shared(m, mem[m]) = Shared(n, mem[n])
      BY <2>4, <3>1
    <3> QED BY <2>4, <3>1, <3>2 DEF Digest
  <2>6. ASSUME NEW op \in Known(mem[n]), NEW t, t = mem[n].rec[op].request.target
        PROVE  mem[m].row[t] # "text" /\ disk[m].row[t] # "text"
    <3>1. op \in Op /\ mem[n].rec[op] # None
      BY DEF Known
    <3>2. t \in Text
      BY <2>2, <2>6, <3>1, RecordFields DEF Fair
    <3>3. Buried(mem[m], t)
      BY <2>4, <2>6, <3>1 DEF Buried
    <3>4. Hidden(mem[m])
      <4>1. Hidden(Turn(m, "saved", "saved").s.mem)
        <5>1. Turn(m, "saved", "saved").ok
          BY TurnEffect
        <5> QED BY <5>1, TurnEffect
      <4>2. Turn(m, "saved", "saved").s = Here(m)
        BY DEF Quiet
      <4> QED BY <4>1, <4>2 DEF Here
    <3>5. mem[m].row[t] # "text"
      BY <3>2, <3>3, <3>4 DEF Hidden
    <3>6. Local(q, Here(m))
      BY DEF Consistent
    <3> QED BY <3>2, <3>5, <3>6 DEF Local, Here
  <2> QED BY <2>5, <2>6
<1> QED BY <1>1, DeletionInvariant, PTL
=============================================================================
