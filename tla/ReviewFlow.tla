------------------------------ MODULE ReviewFlow ------------------------------
(***************************************************************************)
(* The review of one task (app/reviews/router.py): revisions are submitted *)
(* and deleted, notes are raised on them, moved between open, fixed and    *)
(* verified with a history row for each move, and a reviewer decides.      *)
(*                                                                         *)
(* Each request has its own connection and transaction (READ COMMITTED): a *)
(* statement reads what is committed, waits for rows that open             *)
(* transactions have locked, and then looks at the row again.  A foreign   *)
(* key needs the referenced row to stay until the transaction ends.        *)
(* update_note reads the note before its transaction begins.               *)
(*                                                                         *)
(* Events and notifications are written in the same transactions; what a   *)
(* failure of theirs does is the subject of TaskWrites.                    *)
(***************************************************************************)
EXTENDS Naturals, Sequences, TaskGraph

CONSTANTS
  Items,             \* submissions: each becomes one revision
  Linked,            \* the items submitted with a version
  NoItem,
  Notes,             \* top-level notes with a status
  Authors, Reviewer, \* users who are not management; management
  Guest,             \* the client behind a share link, who has no account
  Requests,          \* concurrent requests
  Mixes              \* what the requests may be: per request, a set of operations

ASSUME ItemsAssumption == NoItem \notin Items /\ Linked \subseteq Items
Operations == {"decide", "change", "delete", "reply", "guest"}
ASSUME MixesAssumption == Mixes \subseteq [Requests -> SUBSET Operations]
ASSUME ReviewerAssumption == Reviewer \notin Authors /\ Guest \notin Authors \union {Reviewer}

VARIABLES
  item,     \* per item: its revision (0: no row) and its review status
  version,  \* per item: the status of the version it is linked to
  task,     \* status of the task
  note,     \* per note: the item it was raised on (NoItem: no row), ...
  submit,   \* per item: the submission's next statement and the revision it picked
  req,      \* per request: what it asks for, its next statement, what it read
  raced     \* notes that changed while another request had read them, or whose
            \* history lost a row with the revision it referred to

vars == <<item, version, task, note, submit, req, raced>>

NoteStatuses == {"open", "fixed", "verified"}
Decisions == {"approved", "changes_requested"}
Users == Authors \union {Reviewer}
Idle(ops) == [op |-> "none", phase |-> "new", item |-> NoItem, may |-> ops]
Unborn == [item |-> NoItem]
Gone == [item |-> NoItem, deleted |-> TRUE]

(* A top-level note with its child rows: the history and the replies.      *)
Visibilities == {"internal", "client"}
Move == [from : NoteStatuses, to : NoteStatuses, item : Items, vis : Visibilities]
Deleted == [item |-> NoItem]  \* the place of a history row that is gone
NoteRow == [item : Items, author : Users \union {Guest}, vis : Visibilities,
            status : NoteStatuses, fixedIn : Items \union {NoItem},
            log : Seq(Move \union {Deleted}),
            replies : SUBSET [item : Items, vis : Visibilities]]

(* What a request asks for, its next statement and what it has read.       *)
Calls ==
  {Idle(ops) : ops \in SUBSET Operations}
  \union [op : {"decide"}, phase : {"item", "task", "notes", "verify", "commit", "done"},
          item : Items, decision : Decisions, notes : SUBSET Notes]
  \union [op : {"change"}, phase : {"find", "update", "log", "done"}, note : Notes, item : Items,
          old : NoteStatuses, new : NoteStatuses]
  \union [op : {"delete"}, phase : {"item", "cascade", "done"}, item : Items]
  \union [op : {"guest"}, phase : {"insert", "done"}, item : Items,
          kind : {"note", "reply", "decision"}, note : Notes]
  \union [op : {"reply"}, phase : {"done"}, item : Items]

TypeOK ==
  /\ item \in [Items -> [rev : Nat, decision : Decisions \union {"pending"}]]
  /\ version \in [Items -> {"pending", "in_review", "approved", "rejected"}]
  /\ task \in {"in_progress", "review", "done"}
  /\ note \in [Notes -> {Unborn, Gone} \union NoteRow]
  /\ submit \in [Items -> [phase : {"new", "task", "commit", "done", "failed"},
                           rev : Nat, locks : BOOLEAN]]
  /\ req \in [Requests -> Calls]
  /\ raced \subseteq Notes

Init ==
  /\ item = [i \in Items |-> [rev |-> 0, decision |-> "pending"]]
  /\ version = [i \in Items |-> "pending"]
  /\ task = "in_progress"
  /\ note = [n \in Notes |-> Unborn]
  /\ submit = [i \in Items |-> [phase |-> "new", rev |-> 0, locks |-> FALSE]]
  /\ \E mix \in Mixes : req = [r \in Requests |-> Idle(mix[r])]
  /\ raced = {}

Rows == {i \in Items : item[i].rev > 0}
NoteRows == {n \in Notes : note[n] \notin {Unborn, Gone}}
Is(r, op, phases) == req[r].op = op /\ req[r].phase \in phases
May(r, op) == req[r].op = "none" /\ op \in req[r].may

-----------------------------------------------------------------------------
(* What an open transaction keeps others from doing.                       *)
HoldsItem(q, i) ==
  /\ req[q].item = i
  /\ Is(q, "decide", {"task", "notes", "verify", "commit"}) \/ Is(q, "delete", {"cascade"})

HoldsNote(q, n) ==
  \/ Is(q, "change", {"log"}) /\ req[q].note = n
  \/ Is(q, "decide", {"commit"}) /\ n \in req[q].notes

(* An UPDATE of an item does not shut out those who refer to it, only its  *)
(* deletion does.                                                          *)
ShutsOutForUpdate(q, i) == HoldsItem(q, i)
ShutsOut(q, i) == Is(q, "delete", {"cascade"}) /\ req[q].item = i

HoldsTask(q) == Is(q, "decide", {"notes", "verify", "commit"})
SubmitHoldsTask == \E i \in Items : submit[i].phase = "commit" /\ submit[i].locks

(* Notes that go, or forget the revision they were fixed in, with item i.  *)
NotesOf(i) == {n \in NoteRows : note[n].item = i \/ note[n].fixedIn = i}

WaitsFor(r, q) ==
  /\ q # r
  /\ \/ Is(r, "decide", {"item"}) /\ HoldsItem(q, req[r].item)
     \/ Is(r, "decide", {"task"}) /\ HoldsTask(q)
     \/ Is(r, "decide", {"verify"}) /\ \E n \in req[r].notes : HoldsNote(q, n)
     \/ Is(r, "delete", {"item"}) /\ HoldsItem(q, req[r].item)
     \/ Is(r, "delete", {"cascade"}) /\ \E n \in NotesOf(req[r].item) : HoldsNote(q, n)
     \/ Is(r, "change", {"update"}) /\ HoldsNote(q, req[r].note)
     \/ Is(r, "change", {"log"}) /\ ShutsOut(q, req[r].item)

Blocked(r) == \E q \in Requests : WaitsFor(r, q)

Goto(r, phase) == req' = [req EXCEPT ![r].phase = phase]
KeepReview == UNCHANGED <<item, version, task, submit>>

-----------------------------------------------------------------------------
(* _create_item: the advisory lock, then the next revision number ...      *)
Submitting == {i \in Items : submit[i].phase \in {"task", "commit"}}

PickRevision(i, rev) ==
  /\ submit[i].phase = "new"
  /\ rev \in Nat
  /\ \A j \in Rows : item[j].rev < rev
  /\ rev = 1 \/ \E j \in Rows : rev = item[j].rev + 1
  /\ submit' = [submit EXCEPT ![i] = [phase |-> "task", rev |-> rev, locks |-> FALSE]]
  /\ UNCHANGED <<item, version, task, note, req, raced>>

Revisions == {1} \union {item[j].rev + 1 : j \in Rows}

SubmitStartUnlocked(i) == \E rev \in Revisions : PickRevision(i, rev)

SubmitStart(i) ==
  /\ Submitting = {}
  /\ \E rev \in Revisions : PickRevision(i, rev)

(* ... the INSERT and UPDATE tasks ... WHERE status <> 'review', which     *)
(* locks the task's row only when it matches.  The key (task, revision) is *)
(* unique: a duplicate raises.                                             *)
SubmitTask(i) ==
  /\ submit[i].phase = "task"
  /\ \A j \in Submitting \ {i} : submit[j].rev # submit[i].rev
  /\ IF \E j \in Rows : item[j].rev = submit[i].rev
       THEN submit' = [submit EXCEPT ![i].phase = "failed"]
       ELSE /\ task # "review" => ~SubmitHoldsTask /\ \A q \in Requests : ~HoldsTask(q)
            /\ submit' = [submit EXCEPT ![i].phase = "commit", ![i].locks = (task # "review")]
  /\ UNCHANGED <<item, version, task, note, req, raced>>

(* ... and the pending version moves to in_review with the commit.         *)
SubmitCommit(i) ==
  /\ submit[i].phase = "commit"
  /\ item' = [item EXCEPT ![i].rev = submit[i].rev]
  /\ task' = IF submit[i].locks THEN "review" ELSE task
  /\ version' = IF i \in Linked THEN [version EXCEPT ![i] = "in_review"] ELSE version
  /\ submit' = [submit EXCEPT ![i].phase = "done"]
  /\ UNCHANGED <<note, req, raced>>

-----------------------------------------------------------------------------
(* POST /items/{id}/notes                                                  *)
NewNote(i, user, vis) ==
  [item |-> i, author |-> user, vis |-> vis, status |-> "open", fixedIn |-> NoItem,
   log |-> <<>>, replies |-> {}]

DeletingItem(i) == \E q \in Requests : ShutsOut(q, i)

(* The row a guest is about to add is not taken by another request.        *)
Free(n) == note[n] = Unborn /\ \A q \in Requests : Is(q, "guest", {"insert"}) => req[q].note # n

AddNote(n, i, user) ==
  /\ Free(n)
  /\ i \in Rows /\ ~DeletingItem(i)
  /\ note' = [note EXCEPT ![n] = NewNote(i, user, "internal")]
  /\ KeepReview
  /\ UNCHANGED <<req, raced>>

(* update_note reads the note and checks the move: only management or the  *)
(* note's author verify or reopen it.                                      *)
MayMove(user, n, new) == new = "fixed" \/ user \in {Reviewer, note[n].author}

ReadNote(r, n, user, new) ==
  /\ May(r, "change")
  /\ n \in NoteRows /\ new # note[n].status
  /\ MayMove(user, n, new)
  /\ req' = [req EXCEPT ![r] = [op |-> "change", phase |-> IF new = "fixed" THEN "find" ELSE "update",
                                note |-> n, item |-> note[n].item, old |-> note[n].status, new |-> new]]
  /\ KeepReview
  /\ UNCHANGED <<note, raced>>

(* A note marked fixed is fixed in the revision the request names, which   *)
(* must be one of the task's (400), or in the latest one; the history row  *)
(* refers to that revision or to the note's own.                           *)
FindRevision(r) ==
  /\ Is(r, "change", {"find"})
  /\ \/ \E i \in Rows : req' = [req EXCEPT ![r].phase = "update", ![r].item = i]
     \/ Goto(r, "done")
  /\ KeepReview
  /\ UNCHANGED <<note, raced>>

(* UPDATE of the note, which locks it; the history row cannot refer to a   *)
(* note that is gone.                                                      *)
UpdateNote(r) ==
  /\ Is(r, "change", {"update"})
  /\ ~Blocked(r)
  /\ Goto(r, IF req[r].note \in NoteRows THEN "log" ELSE "done")
  /\ KeepReview
  /\ UNCHANGED <<note, raced>>

(* The history row and the commit, once nobody deletes the revision it and *)
(* the note refer to; if that is gone, ROLLBACK.                           *)
Readers(n, r) == {q \in Requests \ {r} : Is(q, "change", {"find", "update"}) /\ req[q].note = n}

HistoryRowInternal(n, old, new, i) == [from |-> old, to |-> new, item |-> i, vis |-> "internal"]
HistoryRow(n, old, new, i) == [from |-> old, to |-> new, item |-> i, vis |-> note[n].vis]

Moved(n, old, new, fixedIn, i) ==
  [note[n] EXCEPT !.status = new, !.fixedIn = fixedIn,
                  !.log = Append(@, HistoryRow(n, old, new, i))]

FixedIn(r) == IF req[r].new = "open" THEN NoItem
              ELSE IF req[r].new = "fixed" THEN req[r].item ELSE note[req[r].note].fixedIn

LogMove(r) ==
  /\ Is(r, "change", {"log"})
  /\ ~Blocked(r)
  /\ LET n == req[r].note IN
       \/ /\ req[r].item \in Rows
          /\ note' = [note EXCEPT ![n] = Moved(n, req[r].old, req[r].new, FixedIn(r), req[r].item)]
          /\ raced' = IF Readers(n, r) # {} THEN raced \union {n} ELSE raced
       \/ req[r].item \notin Rows /\ UNCHANGED <<note, raced>>
  /\ Goto(r, "done")
  /\ KeepReview

(* DELETE /notes/{id}, by its author or management; replies and history go *)
(* with it.                                                                *)
DeleteNote(n) ==
  /\ n \in NoteRows
  /\ \A q \in Requests : ~HoldsNote(q, n)
  /\ note' = [note EXCEPT ![n] = Gone]
  /\ KeepReview
  /\ UNCHANGED <<req, raced>>

-----------------------------------------------------------------------------
(* decide, by management: one transaction that writes the item, the task,  *)
(* the fixed notes and the version.  A deleted item breaks the foreign key *)
(* of the decision row.                                                    *)
StartDecide(r, i, decision) ==
  /\ May(r, "decide")
  /\ i \in Rows
  /\ req' = [req EXCEPT ![r] = [op |-> "decide", phase |-> "item", item |-> i,
                                decision |-> decision, notes |-> {}]]
  /\ KeepReview
  /\ UNCHANGED <<note, raced>>

DecideItem(r) ==
  /\ Is(r, "decide", {"item"})
  /\ ~Blocked(r)
  /\ Goto(r, IF req[r].item \in Rows THEN "task" ELSE "done")
  /\ KeepReview
  /\ UNCHANGED <<note, raced>>

DecideTask(r) ==
  /\ Is(r, "decide", {"task"})
  /\ ~Blocked(r) /\ ~SubmitHoldsTask
  /\ Goto(r, "notes")
  /\ KeepReview
  /\ UNCHANGED <<note, raced>>

(* UPDATE review_notes SET status = 'verified' WHERE ... status = 'fixed': *)
(* the notes it finds, then those still fixed when it has their locks.     *)
FixedNotes == {n \in NoteRows : note[n].status = "fixed"}

FindFixed(r) ==
  /\ Is(r, "decide", {"notes"})
  /\ req' = [req EXCEPT ![r].phase = "verify",
                        ![r].notes = IF req[r].decision = "approved" THEN FixedNotes ELSE {}]
  /\ KeepReview
  /\ UNCHANGED <<note, raced>>

LockFixedUnchecked(r) ==
  /\ Is(r, "decide", {"verify"})
  /\ ~Blocked(r)
  /\ req' = [req EXCEPT ![r].phase = "commit", ![r].notes = @ \intersect NoteRows]
  /\ KeepReview
  /\ UNCHANGED <<note, raced>>

LockFixed(r) ==
  /\ Is(r, "decide", {"verify"})
  /\ ~Blocked(r)
  /\ req' = [req EXCEPT ![r].phase = "commit", ![r].notes = @ \intersect FixedNotes]
  /\ KeepReview
  /\ UNCHANGED <<note, raced>>

DecideCommit(r) ==
  /\ Is(r, "decide", {"commit"})
  /\ LET i == req[r].item
         approved == req[r].decision = "approved" IN
       /\ item' = [item EXCEPT ![i].decision = req[r].decision]
       /\ task' = IF approved THEN "done" ELSE "in_progress"
       /\ version' = IF i \in Linked
                       THEN [version EXCEPT ![i] = IF approved THEN "approved" ELSE "rejected"]
                       ELSE version
  /\ note' = [n \in Notes |-> IF n \in req[r].notes
                                THEN Moved(n, "fixed", "verified", note[n].fixedIn, req[r].item)
                                ELSE note[n]]
  /\ raced' = raced \union {n \in req[r].notes : Readers(n, r) # {}}
  /\ Goto(r, "done")
  /\ UNCHANGED submit

-----------------------------------------------------------------------------
(* DELETE /items/{id}: one statement that locks the item and cascades.     *)
StartDelete(r, i) ==
  /\ May(r, "delete")
  /\ i \in Rows
  /\ req' = [req EXCEPT ![r] = [op |-> "delete", phase |-> "item", item |-> i]]
  /\ KeepReview
  /\ UNCHANGED <<note, raced>>

DeleteLock(r) ==
  /\ Is(r, "delete", {"item"})
  /\ ~Blocked(r)
  /\ Goto(r, IF req[r].item \in Rows THEN "cascade" ELSE "done")
  /\ KeepReview
  /\ UNCHANGED <<note, raced>>

(* item_id of notes and of their child rows is ON DELETE CASCADE,          *)
(* fixed_in_item_id SET NULL: a note whose own revision stays loses the    *)
(* replies and the history rows that refer to i.                           *)
RowsWithout(log, i) == [k \in DOMAIN log |-> IF log[k].item = i THEN Deleted ELSE log[k]]

WithoutItem(n, i) ==
  IF note[n].item = i THEN Gone
  ELSE [note[n] EXCEPT !.fixedIn = IF @ = i THEN NoItem ELSE @,
                       !.log = RowsWithout(@, i),
                       !.replies = {p \in @ : p.item # i}]

DeleteCascade(r) ==
  /\ Is(r, "delete", {"cascade"})
  /\ ~Blocked(r)
  /\ LET i == req[r].item IN
       /\ item' = [item EXCEPT ![i] = [rev |-> 0, decision |-> "pending"]]
       /\ note' = [n \in Notes |-> IF n \in NoteRows THEN WithoutItem(n, i) ELSE note[n]]
       /\ raced' = raced \union {n \in NoteRows : \E k \in DOMAIN note[n].log : note[n].log[k].item = i}
  /\ Goto(r, "done")
  /\ UNCHANGED <<version, task, submit>>

(* The database fails one transaction of a circle of waiting ones.         *)
Waits == {w \in Requests \X Requests : WaitsFor(w[1], w[2])}

DeadlockVictim(r) ==
  /\ \E q \in Requests : WaitsFor(r, q) /\ Reachable(r, q, Waits, Requests)
  /\ Goto(r, "done")
  /\ KeepReview
  /\ UNCHANGED <<note, raced>>

Step(r) ==
  \/ FindRevision(r) \/ UpdateNote(r) \/ LogMove(r)
  \/ DecideItem(r) \/ DecideTask(r) \/ FindFixed(r) \/ LockFixed(r) \/ DecideCommit(r)
  \/ DeleteLock(r) \/ DeleteCascade(r) \/ DeadlockVictim(r)
SubmitStep(i) == SubmitTask(i) \/ SubmitCommit(i)

Next ==
  \/ \E i \in Items : SubmitStart(i) \/ SubmitStep(i)
  \/ \E n \in Notes : DeleteNote(n) \/ \E i \in Items, user \in Users : AddNote(n, i, user)
  \/ \E r \in Requests :
       \/ Step(r)
       \/ \E n \in Notes, user \in Users, new \in NoteStatuses : ReadNote(r, n, user, new)
       \/ \E i \in Items, decision \in Decisions : StartDecide(r, i, decision)
       \/ \E i \in Items : StartDelete(r, i)

Spec == Init /\ [][Next]_vars

-----------------------------------------------------------------------------
(* The advisory lock orders submissions: none fails on the unique key, and *)
(* no two revisions of the task have one number.                           *)
RevisionsNumbered ==
  /\ \A i \in Items : submit[i].phase # "failed"
  /\ \A i, j \in Rows : i # j => item[i].rev # item[j].rev

(* Each move in the history starts where the last one ended, and the last  *)
(* one ends in the note's status, unless two requests had read the note at *)
(* the same time (update_note reads it before it locks it) or a revision   *)
(* that the history refers to was deleted.                                 *)
HistoryChains ==
  \A n \in NoteRows \ raced :
    LET log == note[n].log
        Ends(k) == IF k = 0 THEN "open" ELSE log[k].to IN
    /\ \A k \in DOMAIN log : log[k].from = Ends(k - 1)
    /\ note[n].status = Ends(Len(log))

(* An approval verifies no note that was reopened before it commits.       *)
ApprovalVerifiesFixed ==
  [][\A r \in Requests : DecideCommit(r) =>
       \A n \in Notes : note'[n] # note[n] => note[n].status = "fixed"]_vars

(* Decisions, notes and submissions never fail because of each other: the  *)
(* requests that wait for one another in a circle are never without one    *)
(* that deletes a revision.  A decision takes its item, the task and then  *)
(* the notes, while a note's move holds the note and refers to the item.   *)
CirclesNeedDeletion ==
  Acyclic({w \in Waits : "delete" \notin {req[w[1]].op, req[w[2]].op}}, Requests)
=============================================================================
