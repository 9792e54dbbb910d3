--------------------------- MODULE Review_proofs ----------------------------
(***************************************************************************)
(* Theorems about the review: ReviewFlow and ClientReview (how revisions   *)
(* are numbered, how the history of a note hangs together, what an         *)
(* approval verifies and what a client sees) and ReviewProcessing (no      *)
(* unfinished conversion is forgotten, no slot of a semaphore is lost),    *)
(* for any submissions, notes, users, requests, processes and crashes.     *)
(***************************************************************************)
EXTENDS ClientReview, ReviewProcessing, FiniteSetTheorems, TLAPS

-----------------------------------------------------------------------------
(* A note that has a row has one of the type, and the others have none.    *)
LEMMA RowsTyped ==
  ASSUME TypeOK, NEW n \in Notes
  PROVE  (n \in NoteRows) <=> (note[n] \in NoteRow)
<1>1. \A x \in NoteRow : x.item # NoItem
  BY ItemsAssumption DEF NoteRow
<1>2. Unborn \notin NoteRow /\ Gone \notin NoteRow
  BY <1>1 DEF Unborn, Gone
<1>3. QED  BY <1>2 DEF TypeOK, NoteRows

LEMMA NewNoteTyped ==
  ASSUME NEW i \in Items, NEW user \in Users \union {Guest}, NEW vis \in Visibilities
  PROVE  NewNote(i, user, vis) \in NoteRow
BY DEF NewNote, NoteRow, NoteStatuses

LEMMA MovedTyped ==
  ASSUME NEW n \in Notes, note[n] \in NoteRow, NEW old \in NoteStatuses, NEW new \in NoteStatuses,
         NEW fixedIn \in Items \union {NoItem}, NEW i \in Items
  PROVE  Moved(n, old, new, fixedIn, i) \in NoteRow
<1>1. HistoryRow(n, old, new, i) \in Move
  BY DEF HistoryRow, Move, NoteRow
<1>2. Append(note[n].log, HistoryRow(n, old, new, i)) \in Seq(Move \union {Deleted})
  BY <1>1 DEF NoteRow
<1>3. QED  BY <1>2 DEF Moved, NoteRow

LEMMA WithoutItemTyped ==
  ASSUME NEW n \in Notes, note[n] \in NoteRow, NEW i \in Items, note[n].item # i
  PROVE  WithoutItem(n, i) \in NoteRow
<1>1. RowsWithout(note[n].log, i) \in Seq(Move \union {Deleted})
  BY DEF RowsWithout, NoteRow
<1>2. QED  BY <1>1 DEF WithoutItem, NoteRow

LEMMA ReplyTyped ==
  ASSUME NEW n \in Notes, note[n] \in NoteRow, NEW i \in Items, NEW vis \in Visibilities
  PROVE  [note[n] EXCEPT !.replies = @ \union {[item |-> i, vis |-> vis]}] \in NoteRow
BY DEF NoteRow

(* What is known of a request from what it asks for.                       *)
LEMMA CallTyped ==
  ASSUME TypeOK, NEW r \in Requests
  PROVE  /\ req[r].op = "decide" =>
              req[r] \in [op : {"decide"}, phase : {"item", "task", "notes", "verify", "commit", "done"},
                          item : Items, decision : Decisions, notes : SUBSET Notes]
         /\ req[r].op = "change" =>
              req[r] \in [op : {"change"}, phase : {"find", "update", "log", "done"}, note : Notes, item : Items,
                          old : NoteStatuses, new : NoteStatuses]
         /\ req[r].op = "delete" =>
              req[r] \in [op : {"delete"}, phase : {"item", "cascade", "done"}, item : Items]
         /\ req[r].op = "guest" =>
              req[r] \in [op : {"guest"}, phase : {"insert", "done"}, item : Items,
                          kind : {"note", "reply", "decision"}, note : Notes]
BY DEF TypeOK, Calls, Idle

-----------------------------------------------------------------------------
(* Types.                                                                  *)
LEMMA InitType == Init => TypeOK
<1> SUFFICES ASSUME Init PROVE TypeOK
  OBVIOUS
<1>1. req \in [Requests -> Calls]
  BY MixesAssumption DEF Init, Calls, Idle
<1>2. QED  BY <1>1 DEF Init, TypeOK, Decisions

LEMMA SubmitType ==
  ASSUME TypeOK, NEW i \in Items, SubmitStart(i) \/ SubmitTask(i) \/ SubmitCommit(i)
  PROVE  TypeOK'
<1>1. CASE SubmitStart(i)
  BY <1>1 DEF SubmitStart, PickRevision, TypeOK
<1>2. CASE SubmitTask(i)
  BY <1>2 DEF SubmitTask, TypeOK
<1>3. CASE SubmitCommit(i)
  BY <1>3 DEF SubmitCommit, TypeOK
<1>4. QED  BY <1>1, <1>2, <1>3

(* A step that rewrites notes, with well-typed rows, and nothing else.     *)
LEMMA NotesType ==
  ASSUME TypeOK, KeepReview, note' \in [Notes -> {Unborn, Gone} \union NoteRow],
         req' \in [Requests -> Calls], raced' \subseteq Notes
  PROVE  TypeOK'
BY DEF TypeOK, KeepReview

LEMMA GotoType ==
  ASSUME TypeOK, NEW r \in Requests, NEW phase,
         \/ req[r].op = "decide" /\ phase \in {"item", "task", "notes", "verify", "commit", "done"}
         \/ req[r].op = "change" /\ phase \in {"find", "update", "log", "done"}
         \/ req[r].op = "delete" /\ phase \in {"item", "cascade", "done"}
         \/ req[r].op = "guest" /\ phase \in {"insert", "done"},
         Goto(r, phase)
  PROVE  req' \in [Requests -> Calls]
<1>1. [req[r] EXCEPT !.phase = phase] \in Calls
  BY CallTyped DEF Calls
<1>2. QED  BY <1>1 DEF Goto, TypeOK

LEMMA ReviewNext ==
  ASSUME Next
  PROVE  \/ \E i \in Items : SubmitStart(i) \/ SubmitTask(i) \/ SubmitCommit(i)
         \/ \E n \in Notes : DeleteNote(n)
         \/ \E n \in Notes, i \in Items, user \in Users : AddNote(n, i, user)
         \/ \E r \in Requests :
              \/ FindRevision(r) \/ UpdateNote(r) \/ LogMove(r) \/ DecideItem(r) \/ DecideTask(r) \/ FindFixed(r)
              \/ LockFixed(r) \/ DecideCommit(r) \/ DeleteLock(r) \/ DeleteCascade(r)
              \/ DeadlockVictim(r)
              \/ \E n \in Notes, user \in Users, new \in NoteStatuses : ReadNote(r, n, user, new)
              \/ \E i \in Items, decision \in Decisions : StartDecide(r, i, decision)
              \/ \E i \in Items : StartDelete(r, i)
BY DEF Next, Step, SubmitStep

LEMMA NoteStepType ==
  ASSUME TypeOK, NEW n \in Notes,
         DeleteNote(n) \/ \E i \in Items, user \in Users : AddNote(n, i, user)
  PROVE  TypeOK'
<1>1. CASE DeleteNote(n)
  BY <1>1, NotesType DEF DeleteNote, TypeOK
<1>2. ASSUME NEW i \in Items, NEW user \in Users, AddNote(n, i, user)
      PROVE  TypeOK'
  <2>1. NewNote(i, user, "internal") \in NoteRow
    BY NewNoteTyped DEF Visibilities
  <2>2. QED  BY <1>2, <2>1, NotesType DEF AddNote, TypeOK
<1>3. QED  BY <1>1, <1>2

(* Steps that only change what is known of one request.                    *)
Thinks(r) ==
  \/ FindRevision(r) \/ UpdateNote(r) \/ DecideItem(r) \/ DecideTask(r) \/ FindFixed(r) \/ LockFixed(r)
  \/ DeleteLock(r) \/ DeadlockVictim(r)
  \/ \E n \in Notes, user \in Users, new \in NoteStatuses : ReadNote(r, n, user, new)
  \/ \E i \in Items, decision \in Decisions : StartDecide(r, i, decision)
  \/ \E i \in Items : StartDelete(r, i)

LEMMA ThinksFrame ==
  ASSUME NEW r \in Requests, Thinks(r)
  PROVE  UNCHANGED <<item, version, task, submit, note, raced>>
BY DEF Thinks, FindRevision, UpdateNote, DecideItem, DecideTask, FindFixed, LockFixed, DeleteLock, DeadlockVictim,
       ReadNote, StartDecide, StartDelete, KeepReview

LEMMA ThinksType ==
  ASSUME TypeOK, NEW r \in Requests, Thinks(r)
  PROVE  TypeOK'
<1>1. CASE \/ UpdateNote(r) \/ DecideItem(r) \/ DecideTask(r) \/ DeleteLock(r) \/ DeadlockVictim(r)
  <2>1. PICK phase : Goto(r, phase) /\
          (\/ req[r].op = "decide" /\ phase \in {"item", "task", "notes", "verify", "commit", "done"}
           \/ req[r].op = "change" /\ phase \in {"find", "update", "log", "done"}
           \/ req[r].op = "delete" /\ phase \in {"item", "cascade", "done"}
           \/ req[r].op = "guest" /\ phase \in {"insert", "done"})
    BY <1>1 DEF UpdateNote, DecideItem, DecideTask, DeleteLock, DeadlockVictim, Is, WaitsFor
  <2>2. QED  BY <2>1, GotoType, ThinksFrame DEF TypeOK
<1>2. CASE FindFixed(r) \/ LockFixed(r)
  <2>1. PICK found \in SUBSET Notes, phase \in {"verify", "commit"} :
          /\ req[r].op = "decide"
          /\ req' = [req EXCEPT ![r].phase = phase, ![r].notes = found]
    BY <1>2, CallTyped DEF FindFixed, LockFixed, Is, FixedNotes, NoteRows
  <2>2. [req[r] EXCEPT !.phase = phase, !.notes = found] \in Calls
    BY <2>1, CallTyped DEF Calls
  <2>3. req' \in [Requests -> Calls]
    BY <2>1, <2>2 DEF TypeOK
  <2>4. QED  BY <2>3, ThinksFrame DEF TypeOK
<1>3. ASSUME NEW n \in Notes, NEW user \in Users, NEW new \in NoteStatuses, ReadNote(r, n, user, new)
      PROVE  TypeOK'
  <2>1. note[n] \in NoteRow
    BY <1>3, RowsTyped DEF ReadNote
  <2>2. PICK p \in {"find", "update"} :
          req' = [req EXCEPT ![r] = [op |-> "change", phase |-> p, note |-> n, item |-> note[n].item,
                                     old |-> note[n].status, new |-> new]]
    BY <1>3, <2>1 DEF ReadNote
  <2>3. req' \in [Requests -> Calls]
    BY <2>1, <2>2 DEF TypeOK, Calls, NoteRow
  <2>4. QED  BY <2>3, ThinksFrame DEF TypeOK
<1>4. ASSUME NEW i \in Items, NEW decision \in Decisions, StartDecide(r, i, decision)
      PROVE  TypeOK'
  <2>1. req' \in [Requests -> Calls]
    BY <1>4 DEF StartDecide, TypeOK, Calls
  <2>2. QED  BY <2>1, ThinksFrame DEF TypeOK
<1>5. ASSUME NEW i \in Items, StartDelete(r, i)
      PROVE  TypeOK'
  <2>1. req' \in [Requests -> Calls]
    BY <1>5 DEF StartDelete, TypeOK, Calls
  <2>2. QED  BY <2>1, ThinksFrame DEF TypeOK
<1>6. CASE FindRevision(r)
  <2>1. CASE Goto(r, "done")
    BY <1>6, <2>1, GotoType, ThinksFrame DEF FindRevision, Is, TypeOK, Thinks
  <2>2. CASE ~Goto(r, "done")
    <3>1. PICK i \in Items : req' = [req EXCEPT ![r].phase = "update", ![r].item = i]
      BY <1>6, <2>2 DEF FindRevision, Rows
    <3>2. [req[r] EXCEPT !.phase = "update", !.item = i] \in Calls
      BY <1>6, CallTyped DEF FindRevision, Is, Calls
    <3>3. req' \in [Requests -> Calls]
      BY <3>1, <3>2 DEF TypeOK
    <3>4. QED  BY <1>6, <3>3, ThinksFrame DEF TypeOK, Thinks
  <2>3. QED  BY <2>1, <2>2
<1>7. QED  BY <1>1, <1>2, <1>3, <1>4, <1>5, <1>6 DEF Thinks

-----------------------------------------------------------------------------
(* The row locks: who is about to write a note holds it alone, the note is *)
(* there, and an approval has found it fixed.                              *)
Held ==
  /\ \A r \in Requests : Is(r, "change", {"log"}) => req[r].note \in NoteRows
  /\ \A r \in Requests : Is(r, "decide", {"commit"}) => req[r].notes \subseteq FixedNotes
  /\ \A r, q \in Requests, n \in Notes : HoldsNote(r, n) /\ HoldsNote(q, n) => r = q

LEMMA LogMoveType ==
  ASSUME TypeOK, Held, NEW r \in Requests, LogMove(r)
  PROVE  TypeOK'
<1> DEFINE n == req[r].note
<1>1. /\ req[r] \in [op : {"change"}, phase : {"find", "update", "log", "done"}, note : Notes, item : Items,
                     old : NoteStatuses, new : NoteStatuses]
      /\ n \in Notes /\ note[n] \in NoteRow
  BY CallTyped, RowsTyped DEF LogMove, Is, Held
<1>2. FixedIn(r) \in Items \union {NoItem}
  BY <1>1 DEF FixedIn, NoteRow
<1>3. Moved(n, req[r].old, req[r].new, FixedIn(r), req[r].item) \in NoteRow
  BY <1>1, <1>2, MovedTyped
<1>4. req' \in [Requests -> Calls]
  BY <1>1, GotoType DEF LogMove
<1>5. note' \in [Notes -> {Unborn, Gone} \union NoteRow] /\ raced' \subseteq Notes
  BY <1>1, <1>3 DEF LogMove, TypeOK
<1>6. QED  BY <1>4, <1>5, NotesType DEF LogMove

LEMMA DecideCommitType ==
  ASSUME TypeOK, Held, NEW r \in Requests, DecideCommit(r)
  PROVE  TypeOK'
<1>1. req[r] \in [op : {"decide"}, phase : {"item", "task", "notes", "verify", "commit", "done"},
                  item : Items, decision : Decisions, notes : SUBSET Notes]
  BY CallTyped DEF DecideCommit, Is
<1>2. ASSUME NEW n \in req[r].notes
      PROVE  Moved(n, "fixed", "verified", note[n].fixedIn, req[r].item) \in NoteRow
  <2>1. n \in Notes /\ note[n] \in NoteRow
    BY <1>1, RowsTyped DEF DecideCommit, Held, FixedNotes
  <2>2. note[n].fixedIn \in Items \union {NoItem}
    BY <2>1 DEF NoteRow
  <2>3. QED  BY <1>1, <2>1, <2>2, MovedTyped DEF NoteStatuses
<1>3. note' \in [Notes -> {Unborn, Gone} \union NoteRow]
  BY <1>2 DEF DecideCommit, TypeOK
<1>4. req' \in [Requests -> Calls]
  BY <1>1, GotoType DEF DecideCommit
<1>5. /\ item' \in [Items -> [rev : Nat, decision : Decisions \union {"pending"}]]
      /\ version' \in [Items -> {"pending", "in_review", "approved", "rejected"}]
      /\ task' \in {"in_progress", "review", "done"} /\ raced' \subseteq Notes
  BY <1>1 DEF DecideCommit, TypeOK
<1>6. QED  BY <1>3, <1>4, <1>5 DEF DecideCommit, TypeOK

LEMMA DeleteCascadeType ==
  ASSUME TypeOK, NEW r \in Requests, DeleteCascade(r)
  PROVE  TypeOK'
<1>1. req[r] \in [op : {"delete"}, phase : {"item", "cascade", "done"}, item : Items]
  BY CallTyped DEF DeleteCascade, Is
<1>2. ASSUME NEW n \in NoteRows
      PROVE  WithoutItem(n, req[r].item) \in {Gone} \union NoteRow
  <2>1. n \in Notes /\ note[n] \in NoteRow
    BY RowsTyped DEF NoteRows
  <2>2. QED  BY <1>1, <2>1, WithoutItemTyped DEF WithoutItem
<1>3. note' \in [Notes -> {Unborn, Gone} \union NoteRow]
  BY <1>2 DEF DeleteCascade, TypeOK
<1>4. req' \in [Requests -> Calls]
  BY <1>1, GotoType DEF DeleteCascade
<1>5. item' \in [Items -> [rev : Nat, decision : Decisions \union {"pending"}]] /\ raced' \subseteq Notes
  BY <1>1 DEF DeleteCascade, TypeOK, NoteRows
<1>6. QED  BY <1>3, <1>4, <1>5 DEF DeleteCascade, TypeOK

LEMMA ReviewType == TypeOK /\ Held /\ Next => TypeOK'
<1> SUFFICES ASSUME TypeOK, Held, Next PROVE TypeOK'
  OBVIOUS
<1>1. ASSUME NEW i \in Items, SubmitStart(i) \/ SubmitTask(i) \/ SubmitCommit(i)
      PROVE  TypeOK'
  BY <1>1, SubmitType
<1>2. ASSUME NEW n \in Notes, DeleteNote(n) \/ \E i \in Items, user \in Users : AddNote(n, i, user)
      PROVE  TypeOK'
  BY <1>2, NoteStepType
<1>3. ASSUME NEW r \in Requests, Thinks(r) \/ LogMove(r) \/ DecideCommit(r) \/ DeleteCascade(r)
      PROVE  TypeOK'
  BY <1>3, ThinksType, LogMoveType, DecideCommitType, DeleteCascadeType
<1>4. QED  BY <1>1, <1>2, <1>3, ReviewNext DEF Thinks

(* What guests, shares and replies do.                                     *)
LEMMA ReplyType ==
  ASSUME TypeOK, NEW r \in Requests, NEW n \in Notes, NEW i \in Items, Reply(r, n, i)
  PROVE  TypeOK'
<1>1. note[n] \in NoteRow
  BY RowsTyped DEF Reply, Insertable
<1>2. PICK vis \in Visibilities :
        note' = [note EXCEPT ![n].replies = @ \union {[item |-> i, vis |-> vis]}]
  BY DEF Reply, AddReply, Inherited, Visibilities
<1>3. note' = [note EXCEPT ![n] = [note[n] EXCEPT !.replies = @ \union {[item |-> i, vis |-> vis]}]]
  BY <1>2
<1>4. note' \in [Notes -> {Unborn, Gone} \union NoteRow]
  BY <1>1, <1>3, ReplyTyped DEF TypeOK
<1>5. req' \in [Requests -> Calls]
  BY DEF Reply, TypeOK, Calls
<1>6. QED  BY <1>4, <1>5, NotesType DEF Reply, TypeOK

LEMMA GuestInsertType ==
  ASSUME TypeOK, NEW r \in Requests, GuestInsert(r)
  PROVE  TypeOK'
<1>1. req[r] \in [op : {"guest"}, phase : {"insert", "done"}, item : Items,
                  kind : {"note", "reply", "decision"}, note : Notes]
  BY CallTyped DEF GuestInsert, Is
<1> DEFINE i == req[r].item
           n == req[r].note
<1>2. CASE note' = note
  BY <1>1, <1>2, NotesType, GotoType DEF GuestInsert, TypeOK
<1>3. CASE note' = [note EXCEPT ![n] = NewNote(i, Guest, "client")]
  <2>1. note' \in [Notes -> {Unborn, Gone} \union NoteRow]
    BY <1>1, <1>3, NewNoteTyped DEF TypeOK, Visibilities
  <2>2. QED  BY <1>1, <2>1, NotesType, GotoType DEF GuestInsert, TypeOK
<1>4. CASE Insertable(n, i) /\ \E parent \in Parents(n) : AddReply(n, i, "client", parent)
  <2>1. note[n] \in NoteRow
    BY <1>1, <1>4, RowsTyped DEF Insertable
  <2>2. note' = [note EXCEPT ![n] = [note[n] EXCEPT !.replies = @ \union {[item |-> i, vis |-> "client"]}]]
    BY <1>4 DEF AddReply, Inherited
  <2>3. note' \in [Notes -> {Unborn, Gone} \union NoteRow]
    BY <1>1, <2>1, <2>2, ReplyTyped DEF TypeOK, Visibilities
  <2>4. QED  BY <1>1, <2>3, NotesType, GotoType DEF GuestInsert, TypeOK
<1>5. QED  BY <1>2, <1>3, <1>4 DEF GuestInsert

LEMMA GuestStartType ==
  ASSUME TypeOK, NEW r \in Requests, NEW n \in Notes, NEW i \in Items,
         NEW kind \in {"note", "reply", "decision"}, GuestStart(r, i, n, kind)
  PROVE  TypeOK'
<1>1. req' \in [Requests -> Calls]
  BY DEF GuestStart, TypeOK, Calls
<1>2. QED  BY <1>1, NotesType DEF GuestStart, TypeOK

LEMMA ClientTypes == ClientTypeOK /\ Held /\ [ClientNext]_clientVars => ClientTypeOK'
<1> SUFFICES ASSUME ClientTypeOK, Held, [ClientNext]_clientVars PROVE ClientTypeOK'
  OBVIOUS
<1>1. CASE Next /\ TeamFrame
  <2>1. TypeOK'
    BY <1>1, ReviewType DEF ClientTypeOK
  <2>2. QED  BY <1>1, <2>1 DEF TeamFrame, ClientTypeOK
<1>2. CASE CloseShare
  <2>1. TypeOK'
    BY <1>2 DEF CloseShare, ClientTypeOK, TypeOK, vars
  <2>2. QED  BY <1>2, <2>1 DEF CloseShare, ClientTypeOK
<1>3. ASSUME NEW items \in SUBSET Items, CreateShare(items)
      PROVE  ClientTypeOK'
  <2>1. TypeOK'
    BY <1>3 DEF CreateShare, ClientTypeOK, TypeOK, vars
  <2>2. QED  BY <1>3, <2>1 DEF CreateShare, ClientTypeOK
<1>4. ASSUME NEW r \in Requests, GuestInsert(r)
      PROVE  ClientTypeOK'
  <2>1. TypeOK'
    BY <1>4, GuestInsertType DEF ClientTypeOK
  <2>2. req[r].item \in Items
    BY <1>4, CallTyped DEF ClientTypeOK, GuestInsert, Is
  <2>3. QED  BY <1>4, <2>1, <2>2 DEF GuestInsert, ClientTypeOK
<1>5. ASSUME NEW r \in Requests, NEW n \in Notes, NEW i \in Items,
             Reply(r, n, i) \/ \E kind \in {"note", "reply", "decision"} : GuestStart(r, i, n, kind)
      PROVE  ClientTypeOK'
  <2>1. TypeOK'
    BY <1>5, ReplyType, GuestStartType DEF ClientTypeOK
  <2>2. QED  BY <1>5, <2>1 DEF Reply, GuestStart, ClientTypeOK
<1>6. CASE UNCHANGED clientVars
  BY <1>6 DEF clientVars, vars, ClientTypeOK, TypeOK
<1>7. QED  BY <1>1, <1>2, <1>3, <1>4, <1>5, <1>6 DEF ClientNext

-----------------------------------------------------------------------------
(* What a request relies on from the time it read the note: a move that is *)
(* under way starts from the note's status, unless the note is raced; a    *)
(* guest's new note is nobody else's, a guest's reply goes to a note of    *)
(* the client.                                                             *)
Fresh ==
  \A r \in Requests : Is(r, "change", {"find", "update", "log"}) =>
    LET n == req[r].note IN
    note[n] # Unborn /\ (n \in NoteRows \ raced => req[r].old = note[n].status)

Promised ==
  \A r \in Requests : Is(r, "guest", {"insert"}) =>
    LET n == req[r].note IN
    /\ req[r].kind = "note" =>
         /\ note[n] = Unborn
         /\ \A q \in Requests \ {r} :
              Is(q, "guest", {"insert"}) /\ req[q].kind = "note" => req[q].note # n
    /\ req[r].kind = "reply" => note[n] # Unborn /\ (n \in NoteRows => note[n].vis = "client")

(* A thread has one visibility.                                            *)
OneVisibility == \A n \in NoteRows : \A child \in Children(n) : child.vis = note[n].vis

(* Submissions do one after the other, above all revisions there are.      *)
InTurn ==
  /\ \A i, j \in Submitting : i = j
  /\ \A i \in Submitting, j \in Rows : item[j].rev < submit[i].rev

IInv ==
  /\ ClientTypeOK /\ Held /\ Fresh /\ Promised /\ OneVisibility
  /\ InTurn /\ RevisionsNumbered /\ HistoryChains


-----------------------------------------------------------------------------
(* What becomes of a note.                                                 *)
Stays(n) == /\ n \in NoteRows /\ note'[n] \in NoteRow
            /\ note'[n].vis = note[n].vis
Born(n) == /\ note[n] = Unborn /\ note'[n].log = <<>> /\ note'[n].replies = {}
           /\ note'[n].status = "open" /\ note'[n] \in NoteRow
Dies(n) == n \in NoteRows /\ note'[n] = Gone

LEMMA UnbornDiffers == Gone # Unborn /\ Gone \notin NoteRow /\ Unborn \notin NoteRow
<1>1. "deleted" \in DOMAIN Gone /\ "deleted" \notin DOMAIN Unborn
  BY DEF Gone, Unborn
<1>2. \A x \in NoteRow : x.item # NoItem
  BY ItemsAssumption DEF NoteRow
<1>3. QED  BY <1>1, <1>2 DEF Gone, Unborn

LEMMA MoveStays ==
  ASSUME TypeOK, NEW n \in NoteRows, NEW old \in NoteStatuses, NEW new \in NoteStatuses,
         NEW fixedIn \in Items \union {NoItem}, NEW i \in Items,
         note'[n] = Moved(n, old, new, fixedIn, i)
  PROVE  /\ Stays(n) /\ note'[n].status = new /\ note'[n].replies = note[n].replies
         /\ note'[n].log = Append(note[n].log, HistoryRow(n, old, new, i))
<1>1. n \in Notes /\ note[n] \in NoteRow
  BY RowsTyped DEF NoteRows
<1>2. note'[n] \in NoteRow
  BY <1>1, MovedTyped
<1>3. /\ note'[n].vis = note[n].vis /\ note'[n].status = new /\ note'[n].replies = note[n].replies
      /\ note'[n].log = Append(note[n].log, HistoryRow(n, old, new, i))
  BY <1>1 DEF Moved, NoteRow
<1>4. QED  BY <1>1, <1>2, <1>3 DEF Stays, NoteRows

LEMMA ReplyStays ==
  ASSUME TypeOK, NEW n \in NoteRows, NEW i \in Items, NEW asked \in Visibilities,
         NEW parent \in Parents(n), AddReply(n, i, asked, parent)
  PROVE  /\ Stays(n) /\ note'[n].status = note[n].status /\ note'[n].log = note[n].log
         /\ note'[n].replies = note[n].replies \union {[item |-> i, vis |-> Inherited(parent, asked)]}
         /\ \A m \in Notes \ {n} : note'[m] = note[m]
<1>1. n \in Notes /\ note[n] \in NoteRow
  BY RowsTyped DEF NoteRows
<1>2. Inherited(parent, asked) \in Visibilities
  BY DEF Inherited, Visibilities
<1> DEFINE reply == [item |-> i, vis |-> Inherited(parent, asked)]
<1>3. note'[n] = [note[n] EXCEPT !.replies = @ \union {reply}] /\ \A m \in Notes \ {n} : note'[m] = note[m]
  BY <1>1 DEF AddReply, TypeOK
<1>4. note'[n] \in NoteRow
  BY <1>1, <1>2, <1>3, ReplyTyped
<1>5. /\ note'[n].vis = note[n].vis /\ note'[n].status = note[n].status /\ note'[n].log = note[n].log
      /\ note'[n].replies = note[n].replies \union {reply}
  BY <1>1, <1>3 DEF NoteRow
<1>6. QED  BY <1>1, <1>3, <1>4, <1>5 DEF Stays, NoteRows

LEMMA CascadeStays ==
  ASSUME TypeOK, NEW n \in NoteRows, NEW i \in Items, note[n].item # i,
         note'[n] = WithoutItem(n, i)
  PROVE  /\ Stays(n) /\ note'[n].status = note[n].status /\ note'[n].replies \subseteq note[n].replies
         /\ note'[n].log = RowsWithout(note[n].log, i)
<1>1. n \in Notes /\ note[n] \in NoteRow
  BY RowsTyped DEF NoteRows
<1>2. note'[n] \in NoteRow
  BY <1>1, WithoutItemTyped
<1>3. /\ note'[n].vis = note[n].vis /\ note'[n].status = note[n].status
      /\ note'[n].replies \subseteq note[n].replies
      /\ note'[n].log = RowsWithout(note[n].log, i)
  BY <1>1 DEF WithoutItem, NoteRow
<1>4. QED  BY <1>1, <1>2, <1>3 DEF Stays, NoteRows

-----------------------------------------------------------------------------
(* The statements that write notes, one by one.                            *)
LEMMA AddNoteWrites ==
  ASSUME TypeOK, NEW n \in Notes, NEW i \in Items, NEW user \in Users, AddNote(n, i, user)
  PROVE  /\ Born(n) /\ \A m \in Notes \ {n} : note'[m] = note[m]
         /\ \A q \in Requests : Is(q, "guest", {"insert"}) => req[q].note # n
         /\ req' = req /\ raced' = raced
<1>1. note'[n] = NewNote(i, user, "internal")
  BY DEF AddNote, TypeOK
<1>2. Born(n)
  <2>1. note'[n] \in NoteRow
    BY <1>1, NewNoteTyped DEF Visibilities
  <2>2. note'[n].log = <<>> /\ note'[n].replies = {} /\ note'[n].status = "open"
    BY <1>1 DEF NewNote
  <2>3. QED  BY <2>1, <2>2 DEF AddNote, Free, Born
<1>3. QED  BY <1>2 DEF AddNote, Free, TypeOK

LEMMA LogMoveWrites ==
  ASSUME TypeOK, Held, NEW r \in Requests, LogMove(r), note' # note
  PROVE  \E n \in Notes :
           /\ n = req[r].note /\ n \in NoteRows /\ HoldsNote(r, n)
           /\ Stays(n) /\ note'[n].status = req[r].new /\ note'[n].replies = note[n].replies
           /\ note'[n].log = Append(note[n].log, HistoryRow(n, req[r].old, req[r].new, req[r].item))
           /\ raced' = IF Readers(n, r) # {} THEN raced \union {n} ELSE raced
           /\ \A m \in Notes \ {n} : note'[m] = note[m]
<1>1. /\ req[r].old \in NoteStatuses /\ req[r].new \in NoteStatuses /\ req[r].item \in Items
      /\ req[r].note \in NoteRows /\ note[req[r].note] \in NoteRow
  BY CallTyped, RowsTyped DEF LogMove, Is, Held
<1>2. PICK n \in NoteRows : n = req[r].note
  BY <1>1
<1>3. n \in Notes /\ HoldsNote(r, n)
  BY <1>2 DEF LogMove, HoldsNote, NoteRows
<1>4. FixedIn(r) \in Items \union {NoItem}
  BY <1>1 DEF FixedIn, NoteRow
<1>5. PICK old \in NoteStatuses, new \in NoteStatuses, i \in Items, fixedIn \in Items \union {NoItem} :
        old = req[r].old /\ new = req[r].new /\ i = req[r].item /\ fixedIn = FixedIn(r)
  BY <1>1, <1>4
<1>6. note' = [note EXCEPT ![n] = Moved(n, old, new, fixedIn, i)]
  BY <1>2, <1>5 DEF LogMove
<1>7. note'[n] = Moved(n, old, new, fixedIn, i) /\ \A m \in Notes \ {n} : note'[m] = note[m]
  BY <1>3, <1>6 DEF TypeOK
<1>8. /\ Stays(n) /\ note'[n].status = new /\ note'[n].replies = note[n].replies
      /\ note'[n].log = Append(note[n].log, HistoryRow(n, old, new, i))
  BY <1>7, MoveStays
<1>9. raced' = IF Readers(n, r) # {} THEN raced \union {n} ELSE raced
  BY <1>2 DEF LogMove, Readers
<1>10. QED  BY <1>2, <1>3, <1>5, <1>7, <1>8, <1>9

LEMMA DecideCommitWrites ==
  ASSUME TypeOK, Held, NEW r \in Requests, DecideCommit(r), NEW n \in Notes
  PROVE  /\ n \in req[r].notes =>
              /\ HoldsNote(r, n) /\ note[n].status = "fixed" /\ n \in NoteRows
              /\ Stays(n) /\ note'[n].status = "verified" /\ note'[n].replies = note[n].replies
              /\ note'[n].log = Append(note[n].log, HistoryRow(n, "fixed", "verified", req[r].item))
              /\ Readers(n, r) # {} => n \in raced'
         /\ n \notin req[r].notes => note'[n] = note[n]
         /\ raced \subseteq raced'
<1>1. req[r] \in [op : {"decide"}, phase : {"item", "task", "notes", "verify", "commit", "done"},
                  item : Items, decision : Decisions, notes : SUBSET Notes]
  BY CallTyped DEF DecideCommit, Is
<1>2. ASSUME n \in req[r].notes
      PROVE  /\ HoldsNote(r, n) /\ note[n].status = "fixed" /\ n \in NoteRows
             /\ Stays(n) /\ note'[n].status = "verified" /\ note'[n].replies = note[n].replies
             /\ note'[n].log = Append(note[n].log, HistoryRow(n, "fixed", "verified", req[r].item))
  <2>1. n \in NoteRows /\ note[n].status = "fixed" /\ HoldsNote(r, n)
    BY <1>2 DEF DecideCommit, Held, FixedNotes, HoldsNote
  <2>2. note[n].fixedIn \in Items \union {NoItem}
    BY <2>1, RowsTyped DEF NoteRow
  <2>3. note'[n] = Moved(n, "fixed", "verified", note[n].fixedIn, req[r].item)
    BY <1>2 DEF DecideCommit
  <2>4. QED  BY <1>1, <2>1, <2>2, <2>3, MoveStays DEF NoteStatuses
<1>3. QED  BY <1>2 DEF DecideCommit

LEMMA CascadeWrites ==
  ASSUME TypeOK, NEW r \in Requests, DeleteCascade(r), NEW n \in Notes
  PROVE  /\ n \notin NoteRows => note'[n] = note[n]
         /\ n \in NoteRows =>
              \/ Dies(n) /\ \A q \in Requests : ~HoldsNote(q, n)
              \/ /\ Stays(n) /\ note'[n].status = note[n].status
                 /\ note'[n].replies \subseteq note[n].replies
                 /\ \E i \in Items : note'[n].log = RowsWithout(note[n].log, i)
                 /\ n \notin raced' => note'[n].log = note[n].log
         /\ raced \subseteq raced'
<1>1. PICK i \in Items : i = req[r].item
  BY CallTyped DEF DeleteCascade, Is
<1>2. ASSUME n \in NoteRows, note[n].item = i
      PROVE  Dies(n) /\ \A q \in Requests : ~HoldsNote(q, n)
  <2>1. n \in NotesOf(i) /\ note'[n] = Gone
    BY <1>1, <1>2 DEF NotesOf, DeleteCascade, WithoutItem
  <2>2. \A q \in Requests : ~HoldsNote(q, n)
    BY <2>1, <1>1 DEF DeleteCascade, Blocked, WaitsFor, HoldsNote, Is
  <2>3. QED  BY <1>2, <2>1, <2>2 DEF Dies
<1>3. ASSUME n \in NoteRows, note[n].item # i
      PROVE  /\ Stays(n) /\ note'[n].status = note[n].status /\ note'[n].replies \subseteq note[n].replies
             /\ note'[n].log = RowsWithout(note[n].log, i)
  <2>1. note'[n] = WithoutItem(n, i)
    BY <1>1, <1>3 DEF DeleteCascade
  <2>2. QED  BY <1>3, <2>1, CascadeStays
<1>4. ASSUME n \in NoteRows, n \notin raced'
      PROVE  RowsWithout(note[n].log, i) = note[n].log
  <2>1. \A k \in DOMAIN note[n].log : note[n].log[k].item # i
    BY <1>1, <1>4 DEF DeleteCascade
  <2>2. note[n].log \in Seq(Move \union {Deleted})
    BY <1>4, RowsTyped DEF NoteRow
  <2>3. QED  BY <2>1, <2>2 DEF RowsWithout
<1>5. (n \notin NoteRows => note'[n] = note[n]) /\ raced \subseteq raced'
  BY DEF DeleteCascade
<1>6. QED  BY <1>2, <1>3, <1>4, <1>5

LEMMA ReplyWrites ==
  ASSUME TypeOK, NEW r \in Requests, NEW n \in Notes, NEW i \in Items, Reply(r, n, i)
  PROVE  /\ Stays(n) /\ note'[n].status = note[n].status /\ note'[n].log = note[n].log
         /\ \E parent \in Parents(n) : note'[n].replies =
              note[n].replies \union {[item |-> i, vis |-> Inherited(parent, "internal")]}
         /\ \A m \in Notes \ {n} : note'[m] = note[m]
<1>1. n \in NoteRows
  BY DEF Reply, Insertable
<1>2. PICK parent \in Parents(n) : AddReply(n, i, "internal", parent)
  BY DEF Reply
<1>3. QED  BY <1>1, <1>2, ReplyStays DEF Visibilities

LEMMA GuestInsertWrites ==
  ASSUME TypeOK, Promised, NEW r \in Requests, GuestInsert(r)
  PROVE  \E n \in Notes :
           /\ n = req[r].note
           /\ \/ note' = note
              \/ /\ req[r].kind = "note" /\ Born(n)
              \/ /\ Stays(n) /\ note'[n].status = note[n].status /\ note'[n].log = note[n].log
                 /\ note[n].vis = "client"
                 /\ \E i \in Items, parent \in Parents(n) : note'[n].replies =
                      note[n].replies \union {[item |-> i, vis |-> Inherited(parent, "client")]}
           /\ \A m \in Notes \ {n} : note'[m] = note[m]
<1>1. req[r] \in [op : {"guest"}, phase : {"insert", "done"}, item : Items,
                  kind : {"note", "reply", "decision"}, note : Notes]
  BY CallTyped DEF GuestInsert, Is
<1>2. PICK n \in Notes, i \in Items : n = req[r].note /\ i = req[r].item
  BY <1>1
<1>3. CASE note' = note
  BY <1>2, <1>3
<1>4. CASE req[r].kind = "note" /\ note' = [note EXCEPT ![n] = NewNote(i, Guest, "client")]
  <2>1. note[n] = Unborn
    BY <1>2, <1>4 DEF GuestInsert, Promised
  <2>2. note'[n] = NewNote(i, Guest, "client") /\ \A m \in Notes \ {n} : note'[m] = note[m]
    BY <1>4 DEF TypeOK
  <2>3. note'[n] \in NoteRow
    BY <2>2, NewNoteTyped DEF Visibilities
  <2>4. Born(n)
    BY <2>1, <2>2, <2>3 DEF Born, NewNote
  <2>5. QED  BY <1>2, <1>4, <2>2, <2>4
<1>5. CASE req[r].kind = "reply" /\ Insertable(n, i) /\ \E parent \in Parents(n) : AddReply(n, i, "client", parent)
  <2>1. n \in NoteRows
    BY <1>5 DEF Insertable
  <2>2. note[n].vis = "client"
    BY <1>2, <1>5, <2>1 DEF GuestInsert, Promised
  <2>3. PICK parent \in Parents(n) : AddReply(n, i, "client", parent)
    BY <1>5
  <2>4. /\ Stays(n) /\ note'[n].status = note[n].status /\ note'[n].log = note[n].log
        /\ note'[n].replies = note[n].replies \union {[item |-> i, vis |-> Inherited(parent, "client")]}
        /\ \A m \in Notes \ {n} : note'[m] = note[m]
    BY <2>1, <2>3, ReplyStays DEF Visibilities
  <2>5. QED  BY <1>2, <2>2, <2>4
<1>6. QED  BY <1>2, <1>3, <1>4, <1>5 DEF GuestInsert

(* The steps, those that write notes apart from those that do not.         *)
Submits(i) == SubmitStart(i) \/ SubmitTask(i) \/ SubmitCommit(i)
Shares == CloseShare \/ \E items \in SUBSET Items : CreateShare(items)
GuestStarts(r) ==
  \E n \in Notes, i \in Items, kind \in {"note", "reply", "decision"} : GuestStart(r, i, n, kind)

LEMMA Steps ==
  ASSUME [ClientNext]_clientVars
  PROVE  \/ \E i \in Items : Submits(i)
         \/ Shares \/ UNCHANGED clientVars
         \/ \E n \in Notes : DeleteNote(n)
         \/ \E n \in Notes, i \in Items, user \in Users : AddNote(n, i, user)
         \/ \E r \in Requests :
              \/ Thinks(r) \/ LogMove(r) \/ DecideCommit(r) \/ DeleteCascade(r)
              \/ GuestInsert(r) \/ GuestStarts(r)
              \/ \E n \in Notes, i \in Items : Reply(r, n, i)
BY ReviewNext DEF ClientNext, Submits, Shares, GuestStarts, Thinks

LEMMA QuietFrame ==
  ASSUME \/ \E i \in Items : Submits(i)
         \/ Shares \/ UNCHANGED clientVars
         \/ \E r \in Requests : Thinks(r) \/ GuestStarts(r)
  PROVE  UNCHANGED <<note, raced>>
<1>1. ASSUME NEW i \in Items, Submits(i)
      PROVE  UNCHANGED <<note, raced>>
  BY <1>1 DEF Submits, SubmitStart, PickRevision, SubmitTask, SubmitCommit
<1>2. CASE Shares \/ UNCHANGED clientVars
  BY <1>2 DEF Shares, CloseShare, CreateShare, clientVars, vars
<1>3. ASSUME NEW r \in Requests, Thinks(r) \/ GuestStarts(r)
      PROVE  UNCHANGED <<note, raced>>
  BY <1>3, ThinksFrame DEF GuestStarts, GuestStart
<1>4. QED  BY <1>1, <1>2, <1>3

(* Of the requests, a step changes one at most, the one it belongs to.     *)
LEMMA OneRequest ==
  ASSUME TypeOK, NEW r \in Requests, NEW q \in Requests \ {r},
         \/ Thinks(r) \/ LogMove(r) \/ DecideCommit(r) \/ DeleteCascade(r)
         \/ GuestInsert(r) \/ GuestStarts(r)
         \/ \E n \in Notes, i \in Items : Reply(r, n, i)
  PROVE  req'[q] = req[q]
<1>1. CASE Thinks(r)
  BY <1>1 DEF Thinks, FindRevision, UpdateNote, DecideItem, DecideTask, FindFixed, LockFixed, DeleteLock, DeadlockVictim,
              ReadNote, StartDecide, StartDelete, Goto, TypeOK
<1>2. CASE LogMove(r) \/ DecideCommit(r) \/ DeleteCascade(r) \/ GuestInsert(r)
  BY <1>2 DEF LogMove, DecideCommit, DeleteCascade, GuestInsert, Goto, TypeOK
<1>3. CASE GuestStarts(r) \/ \E n \in Notes, i \in Items : Reply(r, n, i)
  BY <1>3 DEF GuestStarts, GuestStart, Reply, TypeOK
<1>4. QED  BY <1>1, <1>2, <1>3

LEMMA NoRequest ==
  ASSUME \/ \E i \in Items : Submits(i)
         \/ Shares \/ UNCHANGED clientVars
         \/ \E n \in Notes : DeleteNote(n)
         \/ \E n \in Notes, i \in Items, user \in Users : AddNote(n, i, user)
  PROVE  req' = req
BY DEF Submits, SubmitStart, PickRevision, SubmitTask, SubmitCommit, Shares, CloseShare, CreateShare,
       clientVars, vars, DeleteNote, AddNote

(* A request that has written is done.                                     *)
LEMMA WritersEnd ==
  ASSUME TypeOK, NEW r \in Requests,
         \/ LogMove(r) \/ DecideCommit(r) \/ DeleteCascade(r) \/ GuestInsert(r)
         \/ \E n \in Notes, i \in Items : Reply(r, n, i)
  PROVE  req'[r].phase = "done"
<1>1. CASE \E n \in Notes, i \in Items : Reply(r, n, i)
  BY <1>1 DEF Reply, TypeOK
<1>2. CASE LogMove(r) \/ DecideCommit(r) \/ DeleteCascade(r) \/ GuestInsert(r)
  <2>1. Goto(r, "done")
    BY <1>2 DEF LogMove, DecideCommit, DeleteCascade, GuestInsert
  <2>2. "phase" \in DOMAIN req[r]
    BY <1>2, CallTyped DEF LogMove, DecideCommit, DeleteCascade, GuestInsert, Is
  <2>3. QED  BY <2>1, <2>2 DEF Goto, TypeOK
<1>3. QED  BY <1>1, <1>2

(* A note is added, written to, or deleted; raced notes stay raced.        *)
LEMMA Lives ==
  ASSUME TypeOK, Held, Promised, [ClientNext]_clientVars, NEW n \in Notes
  PROVE  /\ note'[n] = note[n] \/ Born(n) \/ Dies(n) \/ Stays(n)
         /\ raced \subseteq raced'
<1>1. CASE \/ \E i \in Items : Submits(i)
           \/ Shares \/ UNCHANGED clientVars
           \/ \E r \in Requests : Thinks(r) \/ GuestStarts(r)
  BY <1>1, QuietFrame
<1>2. ASSUME NEW m \in Notes, DeleteNote(m)
      PROVE  (note'[n] = note[n] \/ Dies(n)) /\ raced \subseteq raced'
  BY <1>2 DEF DeleteNote, Dies, TypeOK
<1>3. ASSUME NEW m \in Notes, NEW i \in Items, NEW user \in Users, AddNote(m, i, user)
      PROVE  (note'[n] = note[n] \/ Born(n)) /\ raced \subseteq raced'
  BY <1>3, AddNoteWrites
<1>4. ASSUME NEW r \in Requests, LogMove(r)
      PROVE  (note'[n] = note[n] \/ Stays(n)) /\ raced \subseteq raced'
  <2>1. note'[n] = note[n] \/ Stays(n)
    BY <1>4, LogMoveWrites
  <2>2. QED  BY <1>4, <2>1 DEF LogMove
<1>5. ASSUME NEW r \in Requests, DecideCommit(r)
      PROVE  (note'[n] = note[n] \/ Stays(n)) /\ raced \subseteq raced'
  BY <1>5, DecideCommitWrites
<1>6. ASSUME NEW r \in Requests, DeleteCascade(r)
      PROVE  (note'[n] = note[n] \/ Dies(n) \/ Stays(n)) /\ raced \subseteq raced'
  BY <1>6, CascadeWrites
<1>7. ASSUME NEW r \in Requests, GuestInsert(r)
      PROVE  (note'[n] = note[n] \/ Born(n) \/ Stays(n)) /\ raced \subseteq raced'
  <2>1. note'[n] = note[n] \/ Born(n) \/ Stays(n)
    BY <1>7, GuestInsertWrites
  <2>2. QED  BY <1>7, <2>1 DEF GuestInsert
<1>8. ASSUME NEW r \in Requests, NEW m \in Notes, NEW i \in Items, Reply(r, m, i)
      PROVE  (note'[n] = note[n] \/ Stays(n)) /\ raced \subseteq raced'
  <2>1. note'[n] = note[n] \/ Stays(n)
    BY <1>8, ReplyWrites
  <2>2. QED  BY <1>8, <2>1 DEF Reply
<1>9. QED  BY <1>1, <1>2, <1>3, <1>4, <1>5, <1>6, <1>7, <1>8, Steps

-----------------------------------------------------------------------------
(* The locks stay with one request, whatever the step.                     *)
Holding(r) == Is(r, "change", {"log"}) \/ Is(r, "decide", {"commit"})

LEMMA HeldFrame ==
  ASSUME TypeOK, Held,
         \A r \in Requests : Holding(r)' => req'[r] = req[r],
         \A r \in Requests, n \in Notes :
           HoldsNote(r, n) /\ HoldsNote(r, n)' => n \in NoteRows' /\ note'[n].status = note[n].status
  PROVE  Held'
<1>1. ASSUME NEW r \in Requests, Is(r, "change", {"log"})'
      PROVE  req'[r].note \in NoteRows'
  <2>1. req'[r] = req[r]
    BY <1>1 DEF Holding
  <2>2. PICK n \in Notes : n = req[r].note
    BY <1>1, <2>1, CallTyped DEF Is
  <2>3. HoldsNote(r, n) /\ HoldsNote(r, n)'
    BY <1>1, <2>1, <2>2 DEF HoldsNote, Is
  <2>4. QED  BY <2>1, <2>2, <2>3
<1>2. ASSUME NEW r \in Requests, Is(r, "decide", {"commit"})'
      PROVE  req'[r].notes \subseteq FixedNotes'
  <2>1. req'[r] = req[r]
    BY <1>2 DEF Holding
  <2>2. Is(r, "decide", {"commit"})
    BY <1>2, <2>1 DEF Is
  <2>3. ASSUME NEW n \in req[r].notes
        PROVE  n \in FixedNotes'
    <3>1. n \in Notes /\ note[n].status = "fixed"
      BY <2>2, <2>3 DEF Held, FixedNotes, NoteRows
    <3>2. HoldsNote(r, n) /\ HoldsNote(r, n)'
      BY <1>2, <2>1, <2>2, <2>3 DEF HoldsNote
    <3>3. QED  BY <3>1, <3>2 DEF FixedNotes
  <2>4. QED  BY <2>1, <2>3
<1>3. ASSUME NEW r \in Requests, NEW q \in Requests, NEW n \in Notes, HoldsNote(r, n)', HoldsNote(q, n)'
      PROVE  r = q
  <2>1. req'[r] = req[r] /\ req'[q] = req[q]
    BY <1>3 DEF HoldsNote, Holding
  <2>2. HoldsNote(r, n) /\ HoldsNote(q, n)
    BY <1>3, <2>1 DEF HoldsNote, Is
  <2>3. QED  BY <2>2 DEF Held
<1>4. QED  BY <1>1, <1>2, <1>3 DEF Held

(* A request takes the locks of notes that no other request holds.         *)
LEMMA UpdateNoteHeld ==
  ASSUME TypeOK, Held, NEW r \in Requests, UpdateNote(r)
  PROVE  Held'
<1>1. /\ Is(r, "change", {"update"})
      /\ req[r] \in [op : {"change"}, phase : {"find", "update", "log", "done"}, note : Notes, item : Items,
                     old : NoteStatuses, new : NoteStatuses]
  BY CallTyped DEF UpdateNote, Is
<1>2. PICK n \in Notes : n = req[r].note
  BY <1>1
<1>3. /\ note' = note /\ \A q \in Requests \ {r} : req'[q] = req[q]
      /\ req'[r].op = "change" /\ req'[r].note = n
      /\ req'[r].phase = "log" => n \in NoteRows
  BY <1>1, <1>2 DEF UpdateNote, Goto, TypeOK
<1>4. \A q \in Requests \ {r} : ~HoldsNote(q, n)
  BY <1>1, <1>2 DEF UpdateNote, Blocked, WaitsFor
<1>5. NoteRows' = NoteRows /\ FixedNotes' = FixedNotes
  BY <1>3 DEF NoteRows, FixedNotes
<1>6. \A m \in Notes : HoldsNote(r, m)' => m = n
  BY <1>3 DEF HoldsNote, Is
<1>7. \A q \in Requests \ {r}, m \in Notes : HoldsNote(q, m)' <=> HoldsNote(q, m)
  BY <1>3 DEF HoldsNote, Is
<1>8. \A p, q \in Requests, m \in Notes : HoldsNote(p, m)' /\ HoldsNote(q, m)' => p = q
  BY <1>4, <1>6, <1>7 DEF Held
<1>9. \A q \in Requests : Is(q, "change", {"log"})' => req'[q].note \in NoteRows'
  BY <1>3, <1>5 DEF Held, Is
<1>10. \A q \in Requests : Is(q, "decide", {"commit"})' => req'[q].notes \subseteq FixedNotes'
  BY <1>3, <1>5 DEF Held, Is
<1>11. QED  BY <1>8, <1>9, <1>10 DEF Held

LEMMA LockFixedHeld ==
  ASSUME TypeOK, Held, NEW r \in Requests, LockFixed(r)
  PROVE  Held'
<1>1. /\ Is(r, "decide", {"verify"})
      /\ req[r] \in [op : {"decide"}, phase : {"item", "task", "notes", "verify", "commit", "done"},
                     item : Items, decision : Decisions, notes : SUBSET Notes]
  BY CallTyped DEF LockFixed, Is
<1>2. /\ note' = note /\ \A q \in Requests \ {r} : req'[q] = req[q]
      /\ req'[r].op = "decide" /\ req'[r].notes = req[r].notes \intersect FixedNotes
  BY <1>1 DEF LockFixed, KeepReview, TypeOK
<1>3. \A q \in Requests \ {r} : \A n \in req[r].notes : ~HoldsNote(q, n)
  BY <1>1 DEF LockFixed, Blocked, WaitsFor
<1>4. NoteRows' = NoteRows /\ FixedNotes' = FixedNotes
  BY <1>2 DEF NoteRows, FixedNotes
<1>5. \A m \in Notes : HoldsNote(r, m)' => m \in req[r].notes
  BY <1>2 DEF HoldsNote, Is
<1>6. \A q \in Requests \ {r}, m \in Notes : HoldsNote(q, m)' <=> HoldsNote(q, m)
  BY <1>2 DEF HoldsNote, Is
<1>7. \A p, q \in Requests, m \in Notes : HoldsNote(p, m)' /\ HoldsNote(q, m)' => p = q
  BY <1>3, <1>5, <1>6 DEF Held
<1>8. \A q \in Requests : Is(q, "change", {"log"})' => req'[q].note \in NoteRows'
  BY <1>2, <1>4 DEF Held, Is
<1>9. \A q \in Requests : Is(q, "decide", {"commit"})' => req'[q].notes \subseteq FixedNotes'
  BY <1>2, <1>4 DEF Held, Is
<1>10. QED  BY <1>7, <1>8, <1>9 DEF Held

LEMMA ThinksHeld ==
  ASSUME TypeOK, Held, NEW r \in Requests, Thinks(r) \/ GuestStarts(r)
  PROVE  Held'
<1>1. CASE UpdateNote(r) \/ LockFixed(r)
  BY <1>1, UpdateNoteHeld, LockFixedHeld
<1>2. CASE ~(UpdateNote(r) \/ LockFixed(r))
  <2>1. note' = note /\ \A q \in Requests \ {r} : req'[q] = req[q]
    BY QuietFrame, OneRequest
  <2>2. ~Holding(r)'
    <3>1. CASE DecideItem(r) \/ DecideTask(r) \/ DeleteLock(r) \/ DeadlockVictim(r)
      <4>1. PICK phase \in {"task", "notes", "cascade", "done"} : Goto(r, phase)
        BY <3>1 DEF DecideItem, DecideTask, DeleteLock, DeadlockVictim
      <4>2. "phase" \in DOMAIN req[r]
        BY <3>1, CallTyped DEF DecideItem, DecideTask, DeleteLock, DeadlockVictim, WaitsFor, Is
      <4>3. req'[r].phase = phase
        BY <4>1, <4>2 DEF Goto, TypeOK
      <4>4. QED  BY <4>3 DEF Holding, Is
    <3>2. CASE FindFixed(r)
      <4>1. req'[r].phase = "verify"
        BY <3>2, CallTyped DEF FindFixed, Is, TypeOK
      <4>2. QED  BY <4>1 DEF Holding, Is
    <3>3. CASE \/ \E n \in Notes, user \in Users, new \in NoteStatuses : ReadNote(r, n, user, new)
               \/ \E i \in Items, decision \in Decisions : StartDecide(r, i, decision)
               \/ \E i \in Items : StartDelete(r, i)
      <4>1. req'[r].phase \in {"find", "update", "item"}
        BY <3>3 DEF ReadNote, StartDecide, StartDelete, TypeOK
      <4>2. QED  BY <4>1 DEF Holding, Is
    <3>4. CASE GuestStarts(r)
      <4>1. req'[r].phase = "insert"
        BY <3>4 DEF GuestStarts, GuestStart, TypeOK
      <4>2. QED  BY <4>1 DEF Holding, Is
    <3>5. CASE FindRevision(r)
      <4>1. req'[r].phase \in {"update", "done"}
        BY <3>5, CallTyped DEF FindRevision, Is, Goto, TypeOK
      <4>2. QED  BY <4>1 DEF Holding, Is
    <3>6. QED  BY <1>2, <3>1, <3>2, <3>3, <3>4, <3>5 DEF Thinks
  <2>3. \A q \in Requests : Holding(q)' => req'[q] = req[q]
    BY <2>1, <2>2
  <2>4. \A q \in Requests, n \in Notes : HoldsNote(q, n) => n \in NoteRows'
    BY <2>1, CallTyped DEF HoldsNote, Held, Is, FixedNotes, NoteRows
  <2>5. QED  BY <2>1, <2>3, <2>4, HeldFrame
<1>3. QED  BY <1>1, <1>2

(* A note that is held has a row.                                          *)
LEMMA HeldHasRow ==
  ASSUME TypeOK, Held, NEW r \in Requests, NEW n \in Notes, HoldsNote(r, n)
  PROVE  n \in NoteRows /\ note[n] \in NoteRow /\ note[n] # Unborn
<1>1. n \in NoteRows
  BY DEF HoldsNote, Held, Is, FixedNotes
<1>2. QED  BY <1>1, RowsTyped DEF NoteRows

LEMMA StaysRow ==
  ASSUME NEW n \in Notes, Stays(n) \/ Born(n)
  PROVE  n \in NoteRows'
BY UnbornDiffers DEF Stays, Born, NoteRows

LEMMA StepHeld ==
  ASSUME TypeOK, Held, Promised, [ClientNext]_clientVars
  PROVE  Held'
<1>1. CASE \E r \in Requests : Thinks(r) \/ GuestStarts(r)
  BY <1>1, ThinksHeld
<1> DEFINE Kept(n) == n \in NoteRows' /\ note'[n].status = note[n].status
<1>2. CASE (\E i \in Items : Submits(i)) \/ Shares \/ UNCHANGED clientVars
  <2>1. note' = note /\ req' = req
    BY <1>2, QuietFrame, NoRequest
  <2>2. \A q \in Requests, n \in Notes : HoldsNote(q, n) => Kept(n)
    BY <2>1, HeldHasRow DEF NoteRows
  <2>3. QED  BY <2>1, <2>2, HeldFrame
<1>3. ASSUME NEW m \in Notes, DeleteNote(m)
      PROVE  Held'
  <2>1. req' = req /\ \A n \in Notes \ {m} : note'[n] = note[n]
    BY <1>3 DEF DeleteNote, TypeOK
  <2>2. \A q \in Requests, n \in Notes : HoldsNote(q, n) => Kept(n)
    BY <1>3, <2>1, HeldHasRow DEF NoteRows, DeleteNote
  <2>3. QED  BY <2>1, <2>2, HeldFrame
<1>4. ASSUME NEW m \in Notes, NEW i \in Items, NEW user \in Users, AddNote(m, i, user)
      PROVE  Held'
  <2>1. req' = req /\ (\A n \in Notes \ {m} : note'[n] = note[n]) /\ note[m] = Unborn
    BY <1>4, AddNoteWrites DEF Born
  <2>2. \A q \in Requests, n \in Notes : HoldsNote(q, n) => Kept(n)
    BY <2>1, HeldHasRow DEF NoteRows
  <2>3. QED  BY <2>1, <2>2, HeldFrame
<1>5. ASSUME NEW r \in Requests,
             \/ LogMove(r) \/ DecideCommit(r) \/ DeleteCascade(r) \/ GuestInsert(r)
             \/ \E n \in Notes, i \in Items : Reply(r, n, i)
      PROVE  Held'
  <2>1. ~Holding(r)' /\ \A q \in Requests \ {r} : req'[q] = req[q]
    BY <1>5, WritersEnd, OneRequest DEF Holding, Is
  <2>2. \A q \in Requests : Holding(q)' => req'[q] = req[q]
    BY <2>1
  <2>3. ASSUME NEW q \in Requests \ {r}, NEW n \in Notes, HoldsNote(q, n)
        PROVE  Kept(n)
    <3>1. n \in NoteRows /\ note[n] \in NoteRow /\ note[n] # Unborn
      BY <2>3, HeldHasRow
    <3>2. ~HoldsNote(r, n)
      BY <2>3 DEF Held
    <3>3. note'[n] = note[n] \/ (Stays(n) /\ note'[n].status = note[n].status)
      <4>1. CASE LogMove(r)
        BY <4>1, <3>2, LogMoveWrites
      <4>2. CASE DecideCommit(r)
        BY <4>2, <3>2, DecideCommitWrites
      <4>3. CASE DeleteCascade(r)
        BY <2>3, <3>1, <4>3, CascadeWrites
      <4>4. CASE GuestInsert(r)
        BY <3>1, <4>4, GuestInsertWrites DEF Born
      <4>5. CASE \E m \in Notes, i \in Items : Reply(r, m, i)
        BY <4>5, ReplyWrites
      <4>6. QED  BY <1>5, <4>1, <4>2, <4>3, <4>4, <4>5
    <3>4. QED  BY <3>1, <3>3, StaysRow DEF NoteRows
  <2>4. \A q \in Requests, n \in Notes : HoldsNote(q, n) /\ HoldsNote(q, n)' => Kept(n)
    BY <2>1, <2>3 DEF HoldsNote, Holding
  <2>5. QED  BY <2>2, <2>4, HeldFrame
<1>6. QED  BY <1>1, <1>2, <1>3, <1>4, <1>5, Steps

-----------------------------------------------------------------------------
(* What a request has read of its note stays true until it writes, unless  *)
(* the note is raced.                                                      *)
Moves(r) == Is(r, "change", {"find", "update", "log"})

LEMMA FreshFrame ==
  ASSUME TypeOK, Held, Promised, Fresh, [ClientNext]_clientVars,
         NEW r \in Requests, Moves(r), req'[r].note = req[r].note, req'[r].old = req[r].old,
         \A n \in NoteRows : n = req[r].note /\ n \in NoteRows' \ raced' => note'[n].status = note[n].status
  PROVE  LET n == req'[r].note IN
         note'[n] # Unborn /\ (n \in NoteRows' \ raced' => req'[r].old = note'[n].status)
<1>1. PICK n \in Notes : n = req[r].note
  BY CallTyped DEF Moves, Is
<1>2. note[n] # Unborn /\ (n \in NoteRows \ raced => req[r].old = note[n].status)
  BY <1>1 DEF Fresh, Moves
<1>3. (note'[n] = note[n] \/ Dies(n) \/ Stays(n)) /\ raced \subseteq raced'
  BY <1>2, Lives DEF Born
<1>4. note'[n] # Unborn
  BY <1>2, <1>3, UnbornDiffers DEF Dies, Stays
<1>5. ASSUME n \in NoteRows' \ raced'
      PROVE  req[r].old = note'[n].status
  <2>1. n \in NoteRows \ raced
    BY <1>2, <1>3, <1>5 DEF Dies, Stays, NoteRows
  <2>2. QED  BY <1>1, <1>2, <1>5, <2>1
<1>6. QED  BY <1>1, <1>4, <1>5

LEMMA ReadNoteFresh ==
  ASSUME TypeOK, NEW r \in Requests, NEW n \in Notes, NEW user \in Users, NEW new \in NoteStatuses,
         ReadNote(r, n, user, new)
  PROVE  req'[r].note = n /\ req'[r].old = note[n].status /\ n \in NoteRows /\ note' = note /\ raced' = raced
BY DEF ReadNote, TypeOK

(* Whoever else has read the note that is written has raced it.            *)
LEMMA WritersRace ==
  ASSUME TypeOK, Held, Promised, [ClientNext]_clientVars,
         NEW r \in Requests, NEW q \in Requests \ {r}, Moves(q),
         \/ LogMove(r) \/ DecideCommit(r) \/ DeleteCascade(r) \/ GuestInsert(r)
         \/ \E n \in Notes, i \in Items : Reply(r, n, i),
         NEW n \in NoteRows, n = req[q].note, n \in NoteRows' \ raced'
  PROVE  note'[n].status = note[n].status
<1>1. n \in Notes
  BY DEF NoteRows
<1>2. q \in Readers(n, r) \/ HoldsNote(q, n)
  BY DEF Moves, Readers, HoldsNote, Is
<1>3. CASE LogMove(r)
  <2>1. CASE note' = note
    BY <2>1
  <2>2. CASE note' # note
    <3>1. PICK m \in Notes : /\ m = req[r].note /\ HoldsNote(r, m)
                             /\ raced' = IF Readers(m, r) # {} THEN raced \union {m} ELSE raced
                             /\ \A p \in Notes \ {m} : note'[p] = note[p]
      BY <1>3, <2>2, LogMoveWrites
    <3>2. n # m
      BY <1>1, <1>2, <3>1 DEF Held
    <3>3. QED  BY <1>1, <3>1, <3>2
  <2>3. QED  BY <2>1, <2>2
<1>4. CASE DecideCommit(r)
  BY <1>1, <1>2, <1>4, DecideCommitWrites DEF Held
<1>5. CASE DeleteCascade(r)
  BY <1>1, <1>5, CascadeWrites, UnbornDiffers DEF Dies, NoteRows
<1>6. CASE GuestInsert(r)
  BY <1>1, <1>6, GuestInsertWrites DEF Born, NoteRows
<1>7. CASE \E m \in Notes, i \in Items : Reply(r, m, i)
  BY <1>1, <1>7, ReplyWrites
<1>8. QED  BY <1>3, <1>4, <1>5, <1>6, <1>7

LEMMA ThinksMoves ==
  ASSUME TypeOK, NEW r \in Requests, Thinks(r) \/ GuestStarts(r), Moves(r)',
         ~\E n \in Notes, user \in Users, new \in NoteStatuses : ReadNote(r, n, user, new)
  PROVE  Moves(r) /\ req'[r].note = req[r].note /\ req'[r].old = req[r].old
<1>1. req'[r].op = "change"
  BY DEF Moves, Is
<1>2. CASE UpdateNote(r) \/ DeadlockVictim(r)
  <2>1. PICK phase : Goto(r, phase)
    BY <1>2 DEF UpdateNote, DeadlockVictim
  <2>2. req'[r] = [req[r] EXCEPT !.phase = phase]
    BY <2>1 DEF Goto, TypeOK
  <2>3. req[r].op # "none"
    BY <1>2 DEF UpdateNote, DeadlockVictim, WaitsFor, Is
  <2>4. req[r].op = "change"
    BY <1>1, <2>2, <2>3 DEF TypeOK, Calls, Idle
  <2>5. req'[r].note = req[r].note /\ req'[r].old = req[r].old
    BY <2>2, <2>4, CallTyped
  <2>6. Moves(r)
    BY <1>2, <2>4 DEF UpdateNote, DeadlockVictim, WaitsFor, Is, Moves
  <2>7. QED  BY <2>5, <2>6
<1>3. CASE DecideItem(r) \/ DecideTask(r) \/ DeleteLock(r) \/ FindFixed(r) \/ LockFixed(r)
  <2>1. req[r].op \in {"decide", "delete"}
    BY <1>3 DEF DecideItem, DecideTask, DeleteLock, FindFixed, LockFixed, Is
  <2>2. req'[r].op = req[r].op
    BY <1>3, <2>1, CallTyped DEF DecideItem, DecideTask, DeleteLock, FindFixed, LockFixed, Goto, TypeOK
  <2>3. QED  BY <1>1, <2>1, <2>2
<1>4. CASE \/ \E i \in Items, decision \in Decisions : StartDecide(r, i, decision)
           \/ \E i \in Items : StartDelete(r, i)
           \/ GuestStarts(r)
  <2>1. req'[r].op \in {"decide", "delete", "guest"}
    BY <1>4 DEF StartDecide, StartDelete, GuestStarts, GuestStart, TypeOK
  <2>2. QED  BY <1>1, <2>1
<1>5. CASE FindRevision(r)
  <2>1. Is(r, "change", {"find"})
    BY <1>5 DEF FindRevision
  <2>2. req'[r].note = req[r].note /\ req'[r].old = req[r].old
    BY <1>5, <2>1, CallTyped DEF FindRevision, Is, Goto, TypeOK
  <2>3. QED  BY <2>1, <2>2 DEF Moves, Is
<1>6. QED  BY <1>2, <1>3, <1>4, <1>5 DEF Thinks

LEMMA StepFresh ==
  ASSUME TypeOK, Held, Promised, Fresh, [ClientNext]_clientVars
  PROVE  Fresh'
<1> SUFFICES ASSUME NEW q \in Requests, Moves(q)'
             PROVE  LET n == req'[q].note IN
                    note'[n] # Unborn /\ (n \in NoteRows' \ raced' => req'[q].old = note'[n].status)
  BY DEF Fresh, Moves
<1>1. CASE \E n \in Notes, user \in Users, new \in NoteStatuses : ReadNote(q, n, user, new)
  <2>1. PICK n \in NoteRows : req'[q].note = n /\ req'[q].old = note[n].status /\ note' = note
    BY <1>1, ReadNoteFresh
  <2>2. QED  BY <2>1 DEF NoteRows
<1>2. CASE \/ (\E i \in Items : Submits(i)) \/ Shares \/ UNCHANGED clientVars
           \/ \E r \in Requests : Thinks(r) \/ GuestStarts(r)
  <2>1. CASE \E n \in Notes, user \in Users, new \in NoteStatuses : ReadNote(q, n, user, new)
    BY <1>1, <2>1
  <2>2. CASE ~\E n \in Notes, user \in Users, new \in NoteStatuses : ReadNote(q, n, user, new)
    <3>1. Moves(q) /\ req'[q].note = req[q].note /\ req'[q].old = req[q].old
      <4>1. CASE req'[q] = req[q]
        BY <4>1 DEF Moves, Is
      <4>2. CASE Thinks(q) \/ GuestStarts(q)
        BY <2>2, <4>2, ThinksMoves
      <4>3. QED  BY <1>2, <4>1, <4>2, NoRequest, OneRequest
    <3>2. note' = note
      BY <1>2, QuietFrame
    <3>3. QED  BY <3>1, <3>2, FreshFrame
  <2>3. QED  BY <2>1, <2>2
<1>3. ASSUME NEW m \in Notes, DeleteNote(m) \/ \E i \in Items, user \in Users : AddNote(m, i, user)
      PROVE  LET n == req'[q].note IN
             note'[n] # Unborn /\ (n \in NoteRows' \ raced' => req'[q].old = note'[n].status)
  <2>1. req' = req
    BY <1>3, NoRequest
  <2>2. Moves(q)
    BY <2>1 DEF Moves, Is
  <2>3. \A n \in NoteRows : n \in NoteRows' => note'[n] = note[n]
    BY <1>3, AddNoteWrites DEF Born, DeleteNote, NoteRows, TypeOK
  <2>4. QED  BY <2>1, <2>2, <2>3, FreshFrame
<1>4. ASSUME NEW r \in Requests,
             \/ LogMove(r) \/ DecideCommit(r) \/ DeleteCascade(r) \/ GuestInsert(r)
             \/ \E n \in Notes, i \in Items : Reply(r, n, i)
      PROVE  LET n == req'[q].note IN
             note'[n] # Unborn /\ (n \in NoteRows' \ raced' => req'[q].old = note'[n].status)
  <2>1. q # r /\ req'[q] = req[q]
    BY <1>4, WritersEnd, OneRequest DEF Moves, Is
  <2>2. Moves(q)
    BY <2>1 DEF Moves, Is
  <2>3. \A n \in NoteRows : n = req[q].note /\ n \in NoteRows' \ raced' => note'[n].status = note[n].status
    BY <1>4, <2>1, <2>2, WritersRace
  <2>4. QED  BY <2>1, <2>2, <2>3, FreshFrame
<1>5. QED  BY <1>2, <1>3, <1>4, Steps

-----------------------------------------------------------------------------
(* What a guest was promised when the request was read holds until the     *)
(* insert.                                                                 *)
Inserts(r) == Is(r, "guest", {"insert"})

LEMMA GuestStartPromised ==
  ASSUME TypeOK, OneVisibility, NEW r \in Requests, GuestStarts(r)
  PROVE  LET n == req'[r].note IN
         /\ req'[r].kind = "note" =>
              note[n] = Unborn /\ \A q \in Requests : Inserts(q) => req[q].note # n
         /\ req'[r].kind = "reply" => n \in NoteRows /\ note[n].vis = "client"
<1>1. PICK n \in Notes, i \in Items, kind \in {"note", "reply", "decision"} : GuestStart(r, i, n, kind)
  BY DEF GuestStarts
<1>2. req'[r].note = n /\ req'[r].kind = kind
  BY <1>1 DEF GuestStart, TypeOK
<1>3. CASE kind = "note"
  BY <1>1, <1>2, <1>3 DEF GuestStart, Free, Inserts
<1>4. CASE kind = "reply"
  <2>1. n \in NoteRows /\ "client" \in Parents(n)
    BY <1>1, <1>4 DEF GuestStart
  <2>2. note[n].vis = "client"
    BY <2>1 DEF OneVisibility, Children, Parents
  <2>3. QED  BY <1>2, <1>4, <2>1, <2>2
<1>5. CASE kind = "decision"
  BY <1>2, <1>5
<1>6. QED  BY <1>3, <1>4, <1>5

(* A note that a guest is about to add is not born otherwise.              *)
LEMMA UnbornStays ==
  ASSUME TypeOK, Held, Promised, [ClientNext]_clientVars,
         NEW r \in Requests, Inserts(r), req[r].kind = "note", ~GuestInsert(r)
  PROVE  note'[req[r].note] = Unborn
<1>1. PICK n \in Notes : n = req[r].note /\ note[n] = Unborn
  BY CallTyped DEF Inserts, Promised, Is
<1>2. ASSUME Born(n)
      PROVE  FALSE
  <2>1. note'[n] # note[n] /\ n \notin NoteRows
    BY <1>1, <1>2, UnbornDiffers DEF Born, NoteRows
  <2>2. CASE \/ \E i \in Items : Submits(i)
             \/ Shares \/ UNCHANGED clientVars
             \/ \E q \in Requests : Thinks(q) \/ GuestStarts(q)
    BY <2>1, <2>2, QuietFrame
  <2>3. ASSUME NEW m \in Notes, DeleteNote(m)
        PROVE  FALSE
    BY <2>1, <2>3 DEF DeleteNote, TypeOK
  <2>4. ASSUME NEW m \in Notes, NEW i \in Items, NEW user \in Users, AddNote(m, i, user)
        PROVE  FALSE
    BY <1>1, <2>1, <2>4, AddNoteWrites DEF Inserts
  <2>5. ASSUME NEW q \in Requests, LogMove(q)
        PROVE  FALSE
    BY <2>1, <2>5, LogMoveWrites
  <2>6. ASSUME NEW q \in Requests, DecideCommit(q)
        PROVE  FALSE
    BY <2>1, <2>6, DecideCommitWrites
  <2>7. ASSUME NEW q \in Requests, DeleteCascade(q)
        PROVE  FALSE
    BY <2>1, <2>7, CascadeWrites
  <2>8. ASSUME NEW q \in Requests, GuestInsert(q)
        PROVE  FALSE
    <3>1. PICK m \in Notes : /\ m = req[q].note
                             /\ note' = note \/ req[q].kind = "note" \/ Stays(m)
                             /\ \A p \in Notes \ {m} : note'[p] = note[p]
      BY <2>8, GuestInsertWrites
    <3>2. m = n /\ req[q].kind = "note"
      BY <2>1, <3>1 DEF Stays
    <3>3. q # r /\ Inserts(q)
      BY <2>8 DEF GuestInsert, Inserts
    <3>4. QED  BY ZenonT(60), <1>1, <3>1, <3>2, <3>3 DEF Promised, Inserts
  <2>9. ASSUME NEW q \in Requests, NEW m \in Notes, NEW i \in Items, Reply(q, m, i)
        PROVE  FALSE
    BY <2>1, <2>9, ReplyWrites DEF Stays
  <2>10. QED  BY <2>2, <2>3, <2>4, <2>5, <2>6, <2>7, <2>8, <2>9, Steps
<1>3. QED  BY <1>1, <1>2, Lives DEF Dies, Stays, NoteRows

LEMMA RequestSteps ==
  ASSUME TypeOK, [ClientNext]_clientVars, NEW r \in Requests, Inserts(r)'
  PROVE  (Inserts(r) /\ req'[r] = req[r] /\ ~GuestInsert(r)) \/ GuestStarts(r)
<1>1. ~GuestInsert(r)
  BY WritersEnd DEF Inserts, Is
<1>2. req'[r] = req[r] \/ GuestStarts(r)
  <2>1. CASE Thinks(r)
    <3>1. req'[r].op # "guest" \/ req'[r].phase = "done"
      <4>1. CASE \/ FindRevision(r) \/ UpdateNote(r) \/ DecideItem(r) \/ DecideTask(r)
                 \/ DeleteLock(r) \/ FindFixed(r) \/ LockFixed(r)
        <5>1. req[r].op \in {"change", "decide", "delete"}
          BY <4>1 DEF FindRevision, UpdateNote, DecideItem, DecideTask, DeleteLock, FindFixed, LockFixed, Is
        <5>2. req'[r].op = req[r].op
          BY <4>1, <5>1, CallTyped
             DEF FindRevision, UpdateNote, DecideItem, DecideTask, DeleteLock, FindFixed, LockFixed, Goto, TypeOK
        <5>3. QED  BY <5>1, <5>2
      <4>2. CASE DeadlockVictim(r)
        <5>1. req[r].op \in {"change", "decide", "delete"} /\ Goto(r, "done")
          BY <4>2 DEF DeadlockVictim, WaitsFor, Is
        <5>2. QED  BY <5>1, CallTyped DEF Goto, TypeOK
      <4>3. CASE \/ \E n \in Notes, user \in Users, new \in NoteStatuses : ReadNote(r, n, user, new)
                 \/ \E i \in Items, decision \in Decisions : StartDecide(r, i, decision)
                 \/ \E i \in Items : StartDelete(r, i)
        BY <4>3 DEF ReadNote, StartDecide, StartDelete, TypeOK
      <4>4. QED  BY <2>1, <4>1, <4>2, <4>3 DEF Thinks
    <3>2. QED  BY <3>1 DEF Inserts, Is
  <2>2. CASE \/ LogMove(r) \/ DecideCommit(r) \/ DeleteCascade(r)
             \/ \E n \in Notes, i \in Items : Reply(r, n, i)
    BY <2>2, WritersEnd DEF Inserts, Is
  <2>3. QED  BY <1>1, <2>1, <2>2, Steps, OneRequest, NoRequest
<1>3. QED  BY <1>1, <1>2 DEF Inserts, Is

LEMMA StepPromised ==
  ASSUME TypeOK, Held, Promised, OneVisibility, [ClientNext]_clientVars
  PROVE  Promised'
<1> SUFFICES ASSUME NEW r \in Requests, Inserts(r)'
             PROVE  LET n == req'[r].note IN
                    /\ req'[r].kind = "note" =>
                         /\ note'[n] = Unborn
                         /\ \A q \in Requests \ {r} :
                              Inserts(q)' /\ req'[q].kind = "note" => req'[q].note # n
                    /\ req'[r].kind = "reply" =>
                         note'[n] # Unborn /\ (n \in NoteRows' => note'[n].vis = "client")
  BY DEF Promised, Inserts
<1>1. CASE GuestStarts(r)
  <2>1. note' = note /\ \A q \in Requests \ {r} : req'[q] = req[q]
    BY <1>1, QuietFrame, OneRequest
  <2>2. QED  BY <1>1, <2>1, GuestStartPromised DEF NoteRows, Inserts, Is
<1>2. CASE Inserts(r) /\ req'[r] = req[r] /\ ~GuestInsert(r)
  <2>1. PICK n \in Notes : n = req[r].note
    BY <1>2, CallTyped DEF Inserts, Is
  <2>2. ASSUME req[r].kind = "note"
        PROVE  /\ note'[n] = Unborn
               /\ \A q \in Requests \ {r} : Inserts(q)' /\ req'[q].kind = "note" => req'[q].note # n
    <3>1. note'[n] = Unborn
      BY <1>2, <2>1, <2>2, UnbornStays
    <3>2. ASSUME NEW q \in Requests \ {r}, Inserts(q)', req'[q].kind = "note"
          PROVE  req'[q].note # n
      <4>1. CASE GuestStarts(q)
        <5>1. \A p \in Requests : Inserts(p) => req[p].note # req'[q].note
          BY <3>2, <4>1, GuestStartPromised
        <5>2. QED  BY <1>2, <2>1, <5>1
      <4>2. CASE Inserts(q) /\ req'[q] = req[q]
        BY <1>2, <2>1, <2>2, <3>2, <4>2 DEF Promised, Inserts
      <4>3. QED  BY <3>2, <4>1, <4>2, RequestSteps
    <3>3. QED  BY <3>1, <3>2
  <2>3. ASSUME req[r].kind = "reply"
        PROVE  note'[n] # Unborn /\ (n \in NoteRows' => note'[n].vis = "client")
    <3>1. note[n] # Unborn /\ (n \in NoteRows => note[n].vis = "client")
      BY <1>2, <2>1, <2>3 DEF Promised, Inserts
    <3>2. note'[n] = note[n] \/ Dies(n) \/ Stays(n)
      BY <3>1, Lives DEF Born
    <3>3. QED  BY <3>1, <3>2, UnbornDiffers DEF Dies, Stays, NoteRows
  <2>4. QED  BY <1>2, <2>1, <2>2, <2>3
<1>3. QED  BY <1>1, <1>2, RequestSteps

-----------------------------------------------------------------------------
(* A thread and the history in it: what each way to write does to them.    *)
Chains(log, status) ==
  LET Ends(k) == IF k = 0 THEN "open" ELSE log[k].to IN
  /\ \A k \in DOMAIN log : log[k].from = Ends(k - 1)
  /\ status = Ends(Len(log))

LEMMA AppendChains ==
  ASSUME NEW log \in Seq(Move \union {Deleted}), NEW status, Chains(log, status),
         NEW entry, entry.from = status
  PROVE  Chains(Append(log, entry), entry.to)
<1> DEFINE longer == Append(log, entry)
           Ends(l, k) == IF k = 0 THEN "open" ELSE l[k].to
<1>1. /\ Len(log) \in Nat /\ Len(longer) = Len(log) + 1
      /\ DOMAIN log = 1..Len(log) /\ DOMAIN longer = 1..(Len(log) + 1)
      /\ longer[Len(log) + 1] = entry /\ (\A k \in 1..Len(log) : longer[k] = log[k])
  OBVIOUS
<1>2. /\ \A k \in DOMAIN log : log[k].from = Ends(log, k - 1)
      /\ status = Ends(log, Len(log))
  BY DEF Chains
<1>3. ASSUME NEW k \in DOMAIN longer
      PROVE  longer[k].from = Ends(longer, k - 1)
  <2>1. CASE k \in DOMAIN log
    BY <1>1, <1>2, <2>1
  <2>2. CASE k = Len(log) + 1
    <3>1. longer[k].from = Ends(log, Len(log)) /\ k - 1 = Len(log)
      BY <1>1, <1>2, <2>2
    <3>2. Ends(longer, Len(log)) = Ends(log, Len(log))
      <4> HIDE DEF longer
      <4>1. Len(log) # 0 => Len(log) \in 1..Len(log)
        BY <1>1
      <4>2. QED  BY <1>1, <4>1
    <3>3. QED  BY <3>1, <3>2
  <2>3. QED  BY <1>1, <2>1, <2>2
<1>4. entry.to = Ends(longer, Len(longer))
  BY <1>1
<1>5. QED  BY <1>3, <1>4 DEF Chains

LEMMA ChainsWhole == HistoryChains <=> \A n \in NoteRows \ raced : Chains(note[n].log, note[n].status)
BY DEF HistoryChains, Chains

(* The children of a note, by what becomes of its rows.                    *)
LEMMA AppendChildren ==
  ASSUME NEW n \in NoteRows, TypeOK, NEW entry, note'[n].log = Append(note[n].log, entry),
         note'[n].replies = note[n].replies
  PROVE  Children(n)' \subseteq Children(n) \union {entry}
<1>1. note[n].log \in Seq(Move \union {Deleted})
  BY RowsTyped DEF NoteRow, NoteRows
<1>2. \A k \in DOMAIN note'[n].log : note'[n].log[k] = entry \/ \E l \in DOMAIN note[n].log : note'[n].log[k] = note[n].log[l]
  BY <1>1
<1>3. QED  BY <1>2 DEF Children

LEMMA WithoutChildren ==
  ASSUME NEW n \in NoteRows, NEW i, note'[n].log = RowsWithout(note[n].log, i),
         note'[n].replies \subseteq note[n].replies
  PROVE  Children(n)' \subseteq Children(n)
BY DEF Children, RowsWithout

(* The visibility and the history of a note through a step.                *)
LEMMA ThreadStep ==
  ASSUME TypeOK, Held, Fresh, Promised, OneVisibility, HistoryChains, [ClientNext]_clientVars,
         NEW n \in NoteRows, Stays(n)
  PROVE  /\ \A child \in Children(n)' : child.vis = note[n].vis
         /\ n \notin raced' => Chains(note'[n].log, note'[n].status)
<1> DEFINE Whole == /\ \A child \in Children(n)' : child.vis = note[n].vis
                    /\ n \notin raced' => Chains(note'[n].log, note'[n].status)
<1>1. /\ n \in Notes /\ note[n] \in NoteRow
      /\ \A child \in Children(n) : child.vis = note[n].vis
      /\ n \notin raced' => n \notin raced /\ Chains(note[n].log, note[n].status)
  BY RowsTyped, Lives, ChainsWhole DEF OneVisibility, NoteRows
<1>2. ASSUME NEW old, NEW new, NEW i, note'[n].log = Append(note[n].log, HistoryRow(n, old, new, i)),
             note'[n].replies = note[n].replies, note'[n].status = new,
             n \notin raced => old = note[n].status
      PROVE  Whole
  <2>1. LET entry == HistoryRow(n, old, new, i) IN entry.vis = note[n].vis /\ entry.from = old /\ entry.to = new
    BY DEF HistoryRow
  <2>2. \A child \in Children(n)' : child.vis = note[n].vis
    BY <1>1, <1>2, <2>1, AppendChildren
  <2>3. note[n].log \in Seq(Move \union {Deleted})
    BY <1>1 DEF NoteRow
  <2>4. n \notin raced' => Chains(note'[n].log, note'[n].status)
    BY <1>1, <1>2, <2>1, <2>3, AppendChains
  <2>5. QED  BY <2>2, <2>4
<1>3. CASE note'[n] = note[n]
  BY <1>1, <1>3 DEF Children
<1>4. ASSUME NEW r \in Requests, LogMove(r), note'[n] # note[n]
      PROVE  Whole
  <2>1. PICK m \in Notes :
          /\ m = req[r].note /\ note'[m].status = req[r].new /\ note'[m].replies = note[m].replies
          /\ note'[m].log = Append(note[m].log, HistoryRow(m, req[r].old, req[r].new, req[r].item))
          /\ \A p \in Notes \ {m} : note'[p] = note[p]
    BY <1>1, <1>4, LogMoveWrites
  <2>2. n = m
    BY <1>1, <1>4, <2>1
  <2>3. n \notin raced => req[r].old = note[n].status
    BY <1>4, <2>1, <2>2 DEF Fresh, LogMove, Is
  <2>4. PICK old, new, i : old = req[r].old /\ new = req[r].new /\ i = req[r].item
    OBVIOUS
  <2>5. /\ note'[n].log = Append(note[n].log, HistoryRow(n, old, new, i))
        /\ note'[n].replies = note[n].replies /\ note'[n].status = new
        /\ n \notin raced => old = note[n].status
    BY <2>1, <2>2, <2>3, <2>4
  <2>6. QED  BY <1>2, <2>5
<1>5. ASSUME NEW r \in Requests, DecideCommit(r), note'[n] # note[n]
      PROVE  Whole
  <2>1. PICK i : i = req[r].item
    OBVIOUS
  <2>2. /\ note'[n].log = Append(note[n].log, HistoryRow(n, "fixed", "verified", i))
        /\ note'[n].replies = note[n].replies /\ note'[n].status = "verified" /\ note[n].status = "fixed"
    BY <1>1, <1>5, <2>1, DecideCommitWrites
  <2>3. QED  BY <1>2, <2>2
<1>6. ASSUME NEW r \in Requests, DeleteCascade(r)
      PROVE  Whole
  <2>1. /\ note'[n].status = note[n].status /\ note'[n].replies \subseteq note[n].replies
        /\ \E i \in Items : note'[n].log = RowsWithout(note[n].log, i)
        /\ n \notin raced' => note'[n].log = note[n].log
    BY <1>1, <1>6, CascadeWrites, UnbornDiffers DEF Dies, Stays
  <2>2. Children(n)' \subseteq Children(n)
    BY <2>1, WithoutChildren
  <2>3. QED  BY <1>1, <2>1, <2>2
<1>7. ASSUME NEW r \in Requests, GuestInsert(r) \/ \E m \in Notes, i \in Items : Reply(r, m, i),
             note'[n] # note[n]
      PROVE  Whole
  <2>1. PICK i \in Items, parent \in Parents(n), asked \in Visibilities :
          /\ note'[n].status = note[n].status /\ note'[n].log = note[n].log
          /\ note'[n].replies = note[n].replies \union {[item |-> i, vis |-> Inherited(parent, asked)]}
          /\ asked = "internal" \/ note[n].vis = "client"
    <3>1. CASE GuestInsert(r)
      <4>1. PICK m \in Notes : /\ \/ note' = note \/ Born(m)
                                  \/ /\ note'[m].status = note[m].status /\ note'[m].log = note[m].log
                                     /\ note[m].vis = "client"
                                     /\ \E i \in Items, parent \in Parents(m) : note'[m].replies =
                                          note[m].replies \union {[item |-> i, vis |-> Inherited(parent, "client")]}
                               /\ \A p \in Notes \ {m} : note'[p] = note[p]
        BY <3>1, GuestInsertWrites
      <4>2. n = m /\ ~Born(m) /\ note' # note
        BY <1>1, <1>7, <4>1 DEF Born, NoteRows
      <4>3. QED  BY <4>1, <4>2 DEF Visibilities
    <3>2. ASSUME NEW m \in Notes, NEW i \in Items, Reply(r, m, i)
          PROVE  /\ note'[n].status = note[n].status /\ note'[n].log = note[n].log
                 /\ \E parent \in Parents(n) : note'[n].replies =
                      note[n].replies \union {[item |-> i, vis |-> Inherited(parent, "internal")]}
      <4>1. n = m
        BY <1>1, <1>7, <3>2, ReplyWrites
      <4>2. QED  BY <3>2, <4>1, ReplyWrites
    <3>3. QED  BY <1>7, <3>1, <3>2 DEF Visibilities
  <2>2. parent = note[n].vis
    BY <1>1, <2>1 DEF Parents, Children, OneVisibility, NoteRow, Deleted
  <2>3. Inherited(parent, asked) = note[n].vis
    BY <1>1, <2>1, <2>2 DEF Inherited, NoteRow, Visibilities
  <2>4. Children(n)' \subseteq Children(n) \union {[item |-> i, vis |-> Inherited(parent, asked)]}
    BY <2>1 DEF Children
  <2>5. QED  BY <1>1, <2>1, <2>3, <2>4
<1>8. ASSUME NEW m \in Notes, DeleteNote(m) \/ \E i \in Items, user \in Users : AddNote(m, i, user)
      PROVE  note'[n] = note[n]
  BY <1>1, <1>8, UnbornDiffers, AddNoteWrites DEF DeleteNote, TypeOK, Stays, Born, NoteRows
<1>9. QED  BY <1>3, <1>4, <1>5, <1>6, <1>7, <1>8, Steps, QuietFrame

LEMMA StepThreads ==
  ASSUME TypeOK, Held, Fresh, Promised, OneVisibility, HistoryChains, [ClientNext]_clientVars
  PROVE  OneVisibility' /\ HistoryChains'
<1>1. ASSUME NEW n \in NoteRows'
      PROVE  /\ \A child \in Children(n)' : child.vis = note'[n].vis
             /\ n \notin raced' => Chains(note'[n].log, note'[n].status)
  <2>1. n \in Notes /\ note'[n] # Unborn /\ note'[n] # Gone
    BY <1>1 DEF NoteRows
  <2>2. CASE note'[n] = note[n]
    <3>1. n \in NoteRows /\ raced \subseteq raced'
      BY <2>1, <2>2, Lives DEF NoteRows
    <3>2. \A child \in Children(n)' : child.vis = note'[n].vis
      BY <2>2, <3>1 DEF OneVisibility, Children
    <3>3. n \notin raced' => Chains(note[n].log, note[n].status)
      BY <3>1, ChainsWhole
    <3>4. QED  BY <2>2, <3>2, <3>3
  <2>3. CASE Born(n)
    BY <2>3 DEF Born, Children, Chains
  <2>4. CASE Stays(n)
    BY <2>4, ThreadStep DEF Stays
  <2>5. QED  BY <2>1, <2>2, <2>3, <2>4, Lives DEF Dies
<1>2. OneVisibility'
  BY <1>1 DEF OneVisibility
<1>3. HistoryChains'
  BY <1>1 DEF HistoryChains, Chains
<1>4. QED  BY <1>2, <1>3

-----------------------------------------------------------------------------
(* Submissions.                                                            *)
LEMMA SubmitNumbers ==
  ASSUME TypeOK, InTurn, RevisionsNumbered, NEW i \in Items, Submits(i)
  PROVE  InTurn' /\ RevisionsNumbered'
<1>1. CASE SubmitStart(i)
  <2>1. PICK rev \in Nat : /\ \A j \in Rows : item[j].rev < rev
                           /\ submit' = [submit EXCEPT ![i] = [phase |-> "task", rev |-> rev, locks |-> FALSE]]
                           /\ item' = item /\ Submitting = {}
    BY <1>1 DEF SubmitStart, PickRevision
  <2>2. Submitting' = {i} /\ submit'[i].rev = rev /\ Rows' = Rows
    BY <2>1 DEF Submitting, Rows, TypeOK
  <2>3. \A j \in Items : submit'[j].phase # "failed"
    BY <2>1 DEF RevisionsNumbered, TypeOK
  <2>4. QED  BY <2>1, <2>2, <2>3 DEF InTurn, RevisionsNumbered
<1>2. CASE SubmitTask(i)
  <2>1. i \in Submitting
    BY <1>2 DEF SubmitTask, Submitting
  <2>2. \A j \in Rows : item[j].rev # submit[i].rev
    BY <2>1 DEF InTurn, TypeOK, Rows
  <2>3. item' = item /\ submit' = [submit EXCEPT ![i].phase = "commit", ![i].locks = (task # "review")]
    BY <1>2, <2>2 DEF SubmitTask
  <2>4. /\ \A j \in Items : submit'[j].rev = submit[j].rev /\ (j # i => submit'[j] = submit[j])
        /\ submit'[i].phase = "commit"
    BY <2>3 DEF TypeOK
  <2>5. Submitting' = Submitting /\ Rows' = Rows
    <3>1. \A j \in Items : submit'[j].phase \in {"task", "commit"} <=> submit[j].phase \in {"task", "commit"}
      BY <1>2, <2>4 DEF SubmitTask
    <3>2. QED  BY <2>3, <3>1 DEF Submitting, Rows
  <2>6. InTurn'
    BY <2>3, <2>4, <2>5 DEF InTurn, Submitting
  <2>7. \A j \in Items : submit'[j].phase # "failed"
    BY <2>4 DEF RevisionsNumbered
  <2>8. QED  BY <2>3, <2>5, <2>6, <2>7 DEF RevisionsNumbered
<1>3. CASE SubmitCommit(i)
  <2>1. i \in Submitting
    BY <1>3 DEF SubmitCommit, Submitting
  <2>2. /\ item' = [item EXCEPT ![i].rev = submit[i].rev]
        /\ submit' = [submit EXCEPT ![i].phase = "done"]
    BY <1>3 DEF SubmitCommit
  <2>3. Submitting' = {}
    BY <2>1, <2>2 DEF InTurn, Submitting, TypeOK
  <2>4. /\ \A j \in Items \ {i} : item'[j] = item[j]
        /\ item'[i].rev = submit[i].rev
        /\ \A j \in Items : submit'[j].phase # "failed"
    BY <2>2 DEF TypeOK, RevisionsNumbered
  <2>5. \A j \in Rows' \ {i} : j \in Rows /\ item'[j].rev = item[j].rev /\ item[j].rev < submit[i].rev
    BY <2>1, <2>4 DEF Rows, InTurn
  <2>6. \A j, k \in Rows' : j # k => item'[j].rev # item'[k].rev
    <3>1. submit[i].rev \in Nat /\ \A j \in Items : item[j].rev \in Nat
      BY DEF TypeOK
    <3>2. QED  BY <2>4, <2>5, <3>1 DEF RevisionsNumbered, Rows
  <2>7. QED  BY <2>3, <2>4, <2>6 DEF InTurn, RevisionsNumbered
<1>4. QED  BY <1>1, <1>2, <1>3 DEF Submits

(* Other steps keep the numbers of the revisions they leave.               *)
LEMMA NumbersFrame ==
  ASSUME TypeOK, InTurn, RevisionsNumbered, submit' = submit,
         \A j \in Items : item'[j].rev = item[j].rev \/ item'[j].rev = 0
  PROVE  InTurn' /\ RevisionsNumbered'
<1>1. Submitting' = Submitting /\ \A j \in Rows' : j \in Rows /\ item'[j].rev = item[j].rev
  BY DEF Submitting, Rows
<1>2. QED  BY <1>1 DEF InTurn, RevisionsNumbered

LEMMA StepNumbers ==
  ASSUME TypeOK, InTurn, RevisionsNumbered, [ClientNext]_clientVars
  PROVE  InTurn' /\ RevisionsNumbered'
<1>1. CASE \E i \in Items : Submits(i)
  BY <1>1, SubmitNumbers
<1>2. CASE \/ Shares \/ UNCHANGED clientVars
           \/ \E n \in Notes : DeleteNote(n)
           \/ \E n \in Notes, i \in Items, user \in Users : AddNote(n, i, user)
           \/ \E r \in Requests : \/ Thinks(r) \/ LogMove(r) \/ GuestInsert(r) \/ GuestStarts(r)
                                  \/ \E n \in Notes, i \in Items : Reply(r, n, i)
  <2>1. item' = item /\ submit' = submit
    BY <1>2, ThinksFrame
       DEF Shares, CloseShare, CreateShare, clientVars, vars, DeleteNote, AddNote, LogMove, GuestInsert,
           GuestStarts, GuestStart, Reply, KeepReview
  <2>2. QED  BY <2>1, NumbersFrame
<1>3. ASSUME NEW r \in Requests, DecideCommit(r) \/ DeleteCascade(r)
      PROVE  InTurn' /\ RevisionsNumbered'
  <2>1. submit' = submit /\ \A j \in Items : item'[j].rev = item[j].rev \/ item'[j].rev = 0
    BY <1>3 DEF DecideCommit, DeleteCascade, TypeOK
  <2>2. QED  BY <2>1, NumbersFrame
<1>4. QED  BY <1>1, <1>2, <1>3, Steps

-----------------------------------------------------------------------------
(* The inductive invariant.                                                *)
LEMMA InitIInv == ClientInit => IInv
<1> SUFFICES ASSUME ClientInit PROVE IInv
  OBVIOUS
<1>1. TypeOK
  BY InitType DEF ClientInit
<1>2. NoteRows = {} /\ Rows = {} /\ Submitting = {} /\ \A r \in Requests : req[r].op = "none"
  BY DEF ClientInit, Init, NoteRows, Rows, Submitting, Idle
<1>3. ClientTypeOK
  BY <1>1 DEF ClientInit, ClientTypeOK
<1>4. Held /\ Fresh /\ Promised
  BY <1>2 DEF Held, Fresh, Promised, HoldsNote, Is
<1>5. OneVisibility /\ HistoryChains /\ InTurn /\ RevisionsNumbered
  BY <1>2 DEF OneVisibility, HistoryChains, InTurn, RevisionsNumbered, ClientInit, Init
<1>6. QED  BY <1>3, <1>4, <1>5 DEF IInv

LEMMA StepIInv == IInv /\ [ClientNext]_clientVars => IInv'
<1> SUFFICES ASSUME IInv, [ClientNext]_clientVars PROVE IInv'
  OBVIOUS
<1>1. /\ TypeOK /\ ClientTypeOK /\ Held /\ Fresh /\ Promised /\ OneVisibility
      /\ InTurn /\ RevisionsNumbered /\ HistoryChains
  BY DEF IInv, ClientTypeOK
<1>2. ClientTypeOK'
  BY <1>1, ClientTypes
<1>3. Held' /\ Fresh' /\ Promised'
  BY <1>1, StepHeld, StepFresh, StepPromised
<1>4. OneVisibility' /\ HistoryChains'
  BY <1>1, StepThreads
<1>5. InTurn' /\ RevisionsNumbered'
  BY <1>1, StepNumbers
<1>6. QED  BY <1>2, <1>3, <1>4, <1>5 DEF IInv

(* The invariant holds of the review, its guests and its shares, whatever  *)
(* their number and the order of their requests.                           *)
THEOREM ReviewInvariant == ClientSpec => []IInv
BY InitIInv, StepIInv, PTL DEF ClientSpec

(* The state of a review is well typed: what a request has read is of the  *)
(* kind it asked for, and a note's rows are moves and replies.             *)
THEOREM ClientTypesHold == ClientSpec => []ClientTypeOK
<1>1. IInv => ClientTypeOK
  BY DEF IInv
<1>2. QED  BY <1>1, ReviewInvariant, PTL

(* _create_item under the advisory lock: no submission fails on the unique *)
(* key, and revisions of one task have different numbers, also after some  *)
(* are deleted.                                                            *)
THEOREM RevisionsAreNumbered == ClientSpec => []RevisionsNumbered
<1>1. IInv => RevisionsNumbered
  BY DEF IInv
<1>2. QED  BY <1>1, ReviewInvariant, PTL

(* review_note_status_history: each move starts where the last one ended,  *)
(* except on notes that two requests had read before either wrote or whose *)
(* rows went with a revision.                                              *)
THEOREM HistoriesChain == ClientSpec => []HistoryChains
<1>1. IInv => HistoryChains
  BY DEF IInv
<1>2. QED  BY <1>1, ReviewInvariant, PTL

(* load_threads(client_only): a client sees all of a thread or nothing.    *)
THEOREM ClientsSeeWholeThreads == ClientSpec => []ThreadsWhole
<1>1. ASSUME IInv
      PROVE  ThreadsWhole
  <2>1. OneVisibility
    BY <1>1 DEF IInv
  <2>2. ASSUME NEW n \in NoteRows
        PROVE  ClientView(n) = IF note[n].vis = "client" THEN Children(n) ELSE {}
    BY <2>1 DEF OneVisibility, ClientView
  <2>3. QED  BY <2>2 DEF ThreadsWhole
<1>2. QED  BY <1>1, ReviewInvariant, PTL

(* decide: an approval verifies the notes it finds fixed when it has their *)
(* locks, and none that was reopened while it waited for them.             *)
THEOREM ApprovalsVerifyFixed == ClientSpec => ApprovalVerifiesFixed
<1> DEFINE A == \A r \in Requests : DecideCommit(r) =>
                  \A n \in Notes : note'[n] # note[n] => note[n].status = "fixed"
<1>1. IInv => A
  <2> SUFFICES ASSUME IInv, NEW r \in Requests, DecideCommit(r), NEW n \in Notes, note'[n] # note[n]
               PROVE  note[n].status = "fixed"
    OBVIOUS
  <2>1. TypeOK /\ Held
    BY DEF IInv, ClientTypeOK
  <2>2. QED  BY <2>1, DecideCommitWrites
<1>2. [][A]_vars <=> ApprovalVerifiesFixed
  BY DEF ApprovalVerifiesFixed
<1>3. QED  BY <1>1, <1>2, ReviewInvariant, PTL

-----------------------------------------------------------------------------
(* Circles of waiting requests.  Of requests that delete no revision, some *)
(* wait for nobody; those that wait for a note wait for one of them, those *)
(* that wait for the task or an item for one further down.                 *)
Kept(r, q) == WaitsFor(r, q) /\ req[r].op # "delete" /\ req[q].op # "delete"

LEMMA WhoWaits ==
  ASSUME NEW r \in Requests, NEW q \in Requests, Kept(r, q)
  PROVE  \/ /\ Is(r, "change", {"update"}) \/ Is(r, "decide", {"verify"})
            /\ Is(q, "change", {"log"}) \/ Is(q, "decide", {"commit"})
         \/ Is(r, "decide", {"task"}) /\ Is(q, "decide", {"notes", "verify", "commit"})
         \/ Is(r, "decide", {"item"}) /\ Is(q, "decide", {"task", "notes", "verify", "commit"})
<1>1. CASE Is(r, "decide", {"item"}) /\ HoldsItem(q, req[r].item)
  BY <1>1 DEF Kept, HoldsItem, Is
<1>2. CASE Is(r, "decide", {"task"}) /\ HoldsTask(q)
  BY <1>2 DEF HoldsTask
<1>3. CASE \/ Is(r, "decide", {"verify"}) /\ \E n \in req[r].notes : HoldsNote(q, n)
           \/ Is(r, "change", {"update"}) /\ HoldsNote(q, req[r].note)
  BY <1>3 DEF HoldsNote
<1>4. CASE Is(r, "delete", {"item", "cascade"}) \/ \E i \in Items : ShutsOut(q, i)
  BY <1>4 DEF Kept, ShutsOut, Is
<1>5. CASE Is(r, "change", {"log"}) /\ ShutsOut(q, req[r].item)
  BY <1>5 DEF Kept, ShutsOut, Is
<1>6. QED  BY <1>1, <1>2, <1>3, <1>4, <1>5 DEF Kept, WaitsFor, Is

LEMMA SomeoneGoesOn ==
  ASSUME NEW S \in (SUBSET Requests) \ {{}}
  PROVE  \E t \in S : \A d \in S : ~Kept(t, d)
<1>1. CASE \E t \in S : ~Is(t, "change", {"update"}) /\ ~Is(t, "decide", {"verify", "task", "item"})
  BY <1>1, WhoWaits DEF Is
<1>2. CASE \A t \in S : Is(t, "change", {"update"}) \/ Is(t, "decide", {"verify", "task", "item"})
  <2>1. CASE \E t \in S : Is(t, "change", {"update"}) \/ Is(t, "decide", {"verify"})
    BY <1>2, <2>1, WhoWaits DEF Is
  <2>2. CASE \A t \in S : Is(t, "decide", {"task", "item"})
    <3>1. CASE \E t \in S : Is(t, "decide", {"task"})
      BY <2>2, <3>1, WhoWaits DEF Is
    <3>2. CASE \A t \in S : Is(t, "decide", {"item"})
      BY <3>2, WhoWaits DEF Is
    <3>3. QED  BY <2>2, <3>1, <3>2 DEF Is
  <2>3. QED  BY <1>2, <2>1, <2>2 DEF Is
<1>3. QED  BY <1>1, <1>2

(* Decisions, moves of notes and submissions never fail because of each    *)
(* other: every circle the database has to break has a deletion in it.     *)
THEOREM OnlyDeletionsCircle == ClientSpec => []CirclesNeedDeletion
<1>1. CirclesNeedDeletion
  BY SomeoneGoesOn DEF CirclesNeedDeletion, Acyclic, Waits, Kept
<1>2. QED  BY <1>1, PTL

-----------------------------------------------------------------------------
(* The conversions.  The semaphore is never taken when it is empty, so     *)
(* ProcessingTypeOK is inductive.                                          *)
ProcessingIInv == ProcessingTypeOK /\ UnfinishedPickedUp

(* One item has a job in some stage.                                       *)
Job(r, i) == <<r, i>> \in pending \/ waiting[<<r, i>>] > 0 \/ claiming[<<r, i>>] > 0 \/ working[<<r, i>>] > 0

LEMMA InitProcessing == ProcessingInit => ProcessingIInv
BY WorkersAssumption, BoundsAssumption
   DEF ProcessingInit, ProcessingIInv, ProcessingTypeOK, UnfinishedPickedUp, Stages, NoJobs, Unfinished

LEMMA GrowShrink ==
  ASSUME NEW f \in Stages, NEW r \in Replicas, NEW i \in Media
  PROVE  /\ Grow(f, <<r, i>>) \in Stages
         /\ f[<<r, i>>] > 0 => Shrink(f, <<r, i>>) \in Stages
         /\ Grow(f, <<r, i>>)[<<r, i>>] > 0
<1>1. <<r, i>> \in Replicas \X Media /\ f[<<r, i>>] \in Nat
  BY DEF Stages
<1>2. Grow(f, <<r, i>>) \in Stages
  BY <1>1 DEF Stages, Grow
<1>3. f[<<r, i>>] > 0 => Shrink(f, <<r, i>>) \in Stages
  BY <1>1 DEF Stages, Shrink
<1>4. Grow(f, <<r, i>>)[<<r, i>>] = f[<<r, i>>] + 1
  BY <1>1 DEF Stages, Grow
<1>5. QED  BY <1>1, <1>2, <1>3, <1>4

LEMMA OthersCount ==
  ASSUME NEW f \in Stages, NEW r \in Replicas, NEW i \in Media,
         NEW s \in Replicas, NEW j \in Media, j # i
  PROVE  Grow(f, <<r, i>>)[<<s, j>>] = f[<<s, j>>] /\ Shrink(f, <<r, i>>)[<<s, j>>] = f[<<s, j>>]
<1>1. <<s, j>> \in Replicas \X Media /\ <<s, j>> # <<r, i>>
  OBVIOUS
<1>2. QED  BY <1>1 DEF Stages, Grow, Shrink

LEMMA ClearStages ==
  ASSUME NEW f \in Stages, NEW r \in Replicas
  PROVE  Clear(f, r) \in Stages
BY DEF Stages, Clear

(* What one item's job moving on leaves of the others.                     *)
LEMMA OthersKeepJobs ==
  ASSUME ProcessingIInv, NEW r \in Replicas, NEW i \in Media, up' = up,
         \A j \in Media \ {i} : row'[j] = row[j],
         \A s \in Replicas, j \in Media : j # i /\ Job(s, j) => Job(s, j)',
         lost' \union {i} = lost \union {i},
         row'[i] \in Unfinished /\ i \notin lost' => HasJob(i)' \/ up # Replicas
  PROVE  UnfinishedPickedUp'
BY DEF ProcessingIInv, UnfinishedPickedUp, HasJob, Job

LEMMA SubmitIInv ==
  ASSUME ProcessingIInv, NEW r \in Replicas, NEW i \in Media,
         Submit(r, i) \/ Reprocess(r, i)
  PROVE  ProcessingIInv'
<1> USE DEF Keep, KeepJobs, KeepCounts
<1>1. ProcessingTypeOK'
  BY BoundsAssumption DEF ProcessingIInv, ProcessingTypeOK, Submit, Reprocess, Unfinished
<1>2. i \notin lost' => HasJob(i)'
  BY DEF Submit, Reprocess, HasJob
<1>3. \A j \in Media \ {i} : row'[j] = row[j]
  BY DEF ProcessingIInv, ProcessingTypeOK, Submit, Reprocess
<1>4. \A s \in Replicas, j \in Media : j # i /\ Job(s, j) => Job(s, j)'
  BY DEF Job, Submit, Reprocess
<1>5. up' = up /\ lost' \union {i} = lost \union {i}
  BY DEF Submit, Reprocess
<1>6. QED  BY <1>1, <1>2, <1>3, <1>4, <1>5, OthersKeepJobs DEF ProcessingIInv

LEMMA EnqueueIInv ==
  ASSUME ProcessingIInv, NEW r \in Replicas, NEW i \in Media, Enqueue(r, i)
  PROVE  ProcessingIInv'
<1> USE DEF Keep, KeepCounts
<1>1. waiting \in Stages
  BY DEF ProcessingIInv, ProcessingTypeOK
<1>2. ProcessingTypeOK'
  BY <1>1, GrowShrink DEF ProcessingIInv, ProcessingTypeOK, Enqueue
<1>3. HasJob(i)'
  BY <1>1, GrowShrink DEF Enqueue, HasJob
<1>4. \A s \in Replicas, j \in Media : j # i /\ Job(s, j) => Job(s, j)'
  BY ZenonT(60), <1>1, OthersCount DEF Job, Enqueue
<1>5. up' = up /\ row' = row /\ lost' = lost
  BY DEF Enqueue
<1>6. QED  BY <1>2, <1>3, <1>4, <1>5, OthersKeepJobs DEF ProcessingIInv

LEMMA AcquireIInv ==
  ASSUME ProcessingIInv, NEW r \in Replicas, NEW i \in Media, Acquire(r, i)
  PROVE  ProcessingIInv'
<1> USE DEF Keep, KeepCounts
<1>1. waiting \in Stages /\ claiming \in Stages
  BY DEF ProcessingIInv, ProcessingTypeOK
<1>2. waiting' = Shrink(waiting, <<r, i>>) /\ claiming' = Grow(claiming, <<r, i>>)
  BY DEF Acquire
<1>3. ProcessingTypeOK'
  <2>1. waiting' \in Stages /\ claiming' \in Stages
    BY <1>1, <1>2, GrowShrink DEF Acquire
  <2>2. QED  BY <2>1 DEF ProcessingIInv, ProcessingTypeOK, Acquire
<1>4. HasJob(i)'
  BY <1>1, <1>2, GrowShrink DEF HasJob
<1>5. \A s \in Replicas, j \in Media : j # i /\ Job(s, j) => Job(s, j)'
  <2>1. \A s \in Replicas, j \in Media :
          j # i => waiting'[<<s, j>>] = waiting[<<s, j>>] /\ claiming'[<<s, j>>] = claiming[<<s, j>>]
    <3> SUFFICES ASSUME NEW s \in Replicas, NEW j \in Media, j # i
                 PROVE  waiting'[<<s, j>>] = waiting[<<s, j>>] /\ claiming'[<<s, j>>] = claiming[<<s, j>>]
      OBVIOUS
    <3>1. QED  BY <1>1, <1>2, OthersCount
  <2>2. QED  BY <2>1 DEF Job, Acquire
<1>6. up' = up /\ row' = row /\ lost' = lost
  BY DEF Acquire
<1>7. QED  BY <1>3, <1>4, <1>5, <1>6, OthersKeepJobs DEF ProcessingIInv

LEMMA ClaimIInv ==
  ASSUME ProcessingIInv, NEW r \in Replicas, NEW i \in Media, Claim(r, i)
  PROVE  ProcessingIInv'
<1> USE DEF Keep, KeepCounts
<1>1. claiming \in Stages /\ working \in Stages
  BY DEF ProcessingIInv, ProcessingTypeOK
<1>2. claiming' = Shrink(claiming, <<r, i>>) /\ claiming' \in Stages
  BY <1>1, GrowShrink DEF Claim
<1>3. \/ Exists(i) /\ row' = [row EXCEPT ![i] = "processing"] /\ free' = free
         /\ working' = Grow(working, <<r, i>>)
      \/ ~Exists(i) /\ row' = row /\ working' = working /\ Release(r)
  BY DEF Claim, GiveUp
<1>4. ProcessingTypeOK'
  <2>1. working' \in Stages
    BY <1>1, <1>3, GrowShrink
  <2>2. free' \in [Replicas -> Nat]
    <3>1. free \in [Replicas -> Nat]
      BY DEF ProcessingIInv, ProcessingTypeOK
    <3>2. QED  BY <1>3, <3>1 DEF Release
  <2>3. row' \in [Media -> Unfinished \union {"none", "ready", "failed", "deleted"}]
    BY <1>3 DEF ProcessingIInv, ProcessingTypeOK, Unfinished
  <2>4. QED  BY <1>2, <2>1, <2>2, <2>3 DEF ProcessingIInv, ProcessingTypeOK, Claim
<1>5. row'[i] \in Unfinished => HasJob(i)'
  <2>1. CASE Exists(i)
    BY <1>1, <1>3, <2>1, GrowShrink DEF HasJob
  <2>2. CASE ~Exists(i)
    BY <1>3, <2>2 DEF Exists, Unfinished
  <2>3. QED  BY <2>1, <2>2
<1>6. \A s \in Replicas, j \in Media : j # i /\ Job(s, j) => Job(s, j)'
  <2>1. \A s \in Replicas, j \in Media :
          j # i => claiming'[<<s, j>>] = claiming[<<s, j>>] /\ working'[<<s, j>>] = working[<<s, j>>]
    <3> SUFFICES ASSUME NEW s \in Replicas, NEW j \in Media, j # i
                 PROVE  claiming'[<<s, j>>] = claiming[<<s, j>>] /\ working'[<<s, j>>] = working[<<s, j>>]
      OBVIOUS
    <3>1. QED  BY <1>1, <1>2, <1>3, OthersCount
  <2>2. QED  BY <2>1 DEF Job, Claim
<1>7. up' = up /\ lost' = lost /\ \A j \in Media \ {i} : row'[j] = row[j]
  BY <1>3 DEF Claim, ProcessingIInv, ProcessingTypeOK
<1>8. QED  BY <1>4, <1>5, <1>6, <1>7, OthersKeepJobs DEF ProcessingIInv

LEMMA VerdictIInv ==
  ASSUME ProcessingIInv, NEW r \in Replicas, NEW i \in Media, Finish(r, i) \/ ClaimFails(r, i)
  PROVE  ProcessingIInv'
<1> USE DEF Keep, KeepCounts
<1>1. claiming \in Stages /\ working \in Stages /\ waiting' = waiting /\ pending' = pending /\ up' = up
  BY DEF ProcessingIInv, ProcessingTypeOK, Finish, ClaimFails
<1>2. \/ working' = Shrink(working, <<r, i>>) /\ working[<<r, i>>] > 0 /\ claiming' = claiming
      \/ claiming' = Shrink(claiming, <<r, i>>) /\ claiming[<<r, i>>] > 0 /\ working' = working
  BY DEF Finish, ClaimFails
<1>3. \/ Verdict(i, "ready") \/ Verdict(i, "failed")
      \/ row' = row /\ i \in lost'
  BY DEF Finish, ClaimFails
<1>4. ProcessingTypeOK'
  <2>1. working' \in Stages /\ claiming' \in Stages
    BY <1>1, <1>2, GrowShrink
  <2>2. row' \in [Media -> Unfinished \union {"none", "ready", "failed", "deleted"}]
    BY <1>3 DEF ProcessingIInv, ProcessingTypeOK, Verdict
  <2>3. free' \in [Replicas -> Nat]
    <3>1. Release(r)
      BY DEF Finish, ClaimFails
    <3>2. free \in [Replicas -> Nat]
      BY DEF ProcessingIInv, ProcessingTypeOK
    <3>3. QED  BY <3>1, <3>2 DEF Release
  <2>4. QED  BY <1>1, <2>1, <2>2, <2>3 DEF ProcessingIInv, ProcessingTypeOK, Finish, ClaimFails
<1>5. i \notin lost' => row'[i] \notin Unfinished
  BY <1>3 DEF ProcessingIInv, ProcessingTypeOK, Verdict, Exists, Unfinished
<1>6. \A s \in Replicas, j \in Media : j # i /\ Job(s, j) => Job(s, j)'
  <2>1. \A s \in Replicas, j \in Media :
          j # i => claiming'[<<s, j>>] = claiming[<<s, j>>] /\ working'[<<s, j>>] = working[<<s, j>>]
    <3> SUFFICES ASSUME NEW s \in Replicas, NEW j \in Media, j # i
                 PROVE  claiming'[<<s, j>>] = claiming[<<s, j>>] /\ working'[<<s, j>>] = working[<<s, j>>]
      OBVIOUS
    <3>1. QED  BY <1>1, <1>2, OthersCount
  <2>2. QED  BY <1>1, <2>1 DEF Job
<1>7. lost' \union {i} = lost \union {i} /\ \A j \in Media \ {i} : row'[j] = row[j]
  BY <1>3 DEF Verdict, ProcessingIInv, ProcessingTypeOK, Finish, ClaimFails
<1>8. QED  BY <1>1, <1>4, <1>5, <1>6, <1>7, OthersKeepJobs DEF ProcessingIInv

LEMMA DeleteIInv ==
  ASSUME ProcessingIInv, NEW i \in Media, Delete(i)
  PROVE  ProcessingIInv'
<1> USE DEF Keep, KeepCounts, KeepJobs
<1>1. ProcessingTypeOK'
  BY DEF ProcessingIInv, ProcessingTypeOK, Delete
<1>2. UnfinishedPickedUp'
  BY DEF ProcessingIInv, ProcessingTypeOK, UnfinishedPickedUp, HasJob, Delete, Unfinished
<1>3. QED  BY <1>1, <1>2 DEF ProcessingIInv

LEMMA CrashIInv ==
  ASSUME ProcessingIInv, NEW r \in Replicas, Crash(r)
  PROVE  ProcessingIInv'
<1>1. waiting' \in Stages /\ claiming' \in Stages /\ working' \in Stages
  BY ClearStages DEF ProcessingIInv, ProcessingTypeOK, Crash
<1>2. ProcessingTypeOK'
  BY <1>1, WorkersAssumption, BoundsAssumption DEF ProcessingIInv, ProcessingTypeOK, Crash
<1>3. UnfinishedPickedUp'
  BY DEF UnfinishedPickedUp, Crash
<1>4. QED  BY <1>2, <1>3 DEF ProcessingIInv

(* Whoever starts last finds every unfinished row; until then one process  *)
(* is down.                                                                *)
LEMMA StartIInv ==
  ASSUME ProcessingIInv, NEW r \in Replicas, Start(r)
  PROVE  ProcessingIInv'
<1> USE DEF Keep, KeepCounts
<1>1. waiting' \in Stages
  BY DEF ProcessingIInv, ProcessingTypeOK, Start, Stages
<1>2. ProcessingTypeOK'
  BY <1>1 DEF ProcessingIInv, ProcessingTypeOK, Start
<1>3. UnfinishedPickedUp'
  <2> SUFFICES ASSUME NEW i \in Media, i \notin lost', row'[i] \in Unfinished
               PROVE  HasJob(i)'
    BY DEF UnfinishedPickedUp
  <2>1. waiting'[<<r, i>>] > 0
    <3>1. row[i] \in Unfinished
      BY DEF Start
    <3>2. waiting' = [p \in Replicas \X Media |->
                        IF p[1] = r /\ Resumed(p[2]) THEN 1 ELSE waiting[p]]
      BY DEF Start
    <3>3. <<r, i>> \in Replicas \X Media /\ <<r, i>>[1] = r /\ <<r, i>>[2] = i
      OBVIOUS
    <3>4. waiting'[<<r, i>>] = 1
      BY <3>1, <3>2, <3>3 DEF Resumed
    <3>5. QED  BY <3>4
  <2>2. QED  BY <2>1 DEF HasJob
<1>4. QED  BY <1>2, <1>3 DEF ProcessingIInv

LEMMA StepProcessing == ProcessingIInv /\ [ProcessingNext]_processingVars => ProcessingIInv'
<1> SUFFICES ASSUME ProcessingIInv, [ProcessingNext]_processingVars PROVE ProcessingIInv'
  OBVIOUS
<1>1. CASE \E i \in Media : Delete(i)
  BY <1>1, DeleteIInv
<1>2. CASE \E r \in Replicas : Crash(r) \/ Start(r)
  BY <1>2, CrashIInv, StartIInv
<1>3. CASE \E r \in Replicas, i \in Media : Submit(r, i) \/ Reprocess(r, i)
  BY <1>3, SubmitIInv
<1>4. CASE \E r \in Replicas, i \in Media : JobStep(r, i)
  BY <1>4, EnqueueIInv, AcquireIInv, ClaimIInv, VerdictIInv DEF JobStep
<1>5. CASE UNCHANGED processingVars
  BY <1>5 DEF processingVars, ProcessingIInv, ProcessingTypeOK, UnfinishedPickedUp, HasJob
<1>6. QED  BY <1>1, <1>2, <1>3, <1>4, <1>5 DEF ProcessingNext

(* The inductive invariant holds in every reachable state.                 *)
THEOREM ProcessingInvariant == ProcessingSpec => []ProcessingIInv
BY InitProcessing, StepProcessing, PTL DEF ProcessingSpec

(* Rows, jobs and semaphores keep their types: no semaphore goes below     *)
(* zero.                                                                   *)
THEOREM ProcessingTypes == ProcessingSpec => []ProcessingTypeOK
<1>1. ProcessingIInv => ProcessingTypeOK  BY DEF ProcessingIInv
<1>2. QED  BY ProcessingInvariant, <1>1, PTL

(* An unfinished conversion always has a job or a process that will create *)
(* one when it starts.                                                     *)
THEOREM NothingForgotten == ProcessingSpec => []UnfinishedPickedUp
<1>1. ProcessingIInv => UnfinishedPickedUp  BY DEF ProcessingIInv
<1>2. QED  BY ProcessingInvariant, <1>1, PTL

-----------------------------------------------------------------------------
(* The semaphore.  Its slots that jobs hold, as a set with one element for *)
(* each: the k-th job of item i that has it.                               *)
HoldingOf(r, i) == claiming[<<r, i>>] + working[<<r, i>>]
SlotsHeld(r) == {s \in Media \X (Nat \ {0}) : s[2] <= HoldingOf(r, s[1])}

Balanced(r) == IsFiniteSet(SlotsHeld(r)) /\ Cardinality(SlotsHeld(r)) + free[r] = Workers

SlotInv == ProcessingTypeOK /\ \A r \in Replicas : Balanced(r)

LEMMA HoldingTyped ==
  ASSUME ProcessingTypeOK, NEW r \in Replicas, NEW i \in Media
  PROVE  /\ claiming[<<r, i>>] \in Nat /\ working[<<r, i>>] \in Nat
         /\ HoldingOf(r, i) \in Nat /\ free[r] \in Nat
BY DEF ProcessingTypeOK, Stages, HoldingOf

LEMMA HoldsTheSame ==
  ASSUME NEW r \in Replicas, Balanced(r), free'[r] = free[r],
         \A i \in Media : HoldingOf(r, i)' = HoldingOf(r, i)
  PROVE  Balanced(r)'
<1>1. SlotsHeld(r)' = SlotsHeld(r)
  BY DEF SlotsHeld
<1>2. QED  BY <1>1 DEF Balanced

LEMMA TakesSlot ==
  ASSUME ProcessingTypeOK, NEW r \in Replicas, NEW i \in Media, Balanced(r),
         free[r] > 0, free'[r] = free[r] - 1, HoldingOf(r, i)' = HoldingOf(r, i) + 1,
         \A j \in Media \ {i} : HoldingOf(r, j)' = HoldingOf(r, j)
  PROVE  Balanced(r)'
<1>1. PICK n \in Nat : n = HoldingOf(r, i)
  BY HoldingTyped
<1>2. <<i, n + 1>> \notin SlotsHeld(r)
  BY <1>1 DEF SlotsHeld
<1>3. SlotsHeld(r)' = SlotsHeld(r) \union {<<i, n + 1>>}
  BY <1>1 DEF SlotsHeld
<1>4. PICK c \in Nat, w \in Nat :
        c = Cardinality(SlotsHeld(r)) /\ w = free[r] /\ c + w = Workers /\ w > 0
  BY HoldingTyped, FS_CardinalityType DEF Balanced
<1>5. IsFiniteSet(SlotsHeld(r)')
  <2>1. IsFiniteSet(SlotsHeld(r))
    BY DEF Balanced
  <2>2. QED  BY <1>3, <2>1, FS_AddElement
<1>6. Cardinality(SlotsHeld(r)') = c + 1
  <2>1. IsFiniteSet(SlotsHeld(r))
    BY DEF Balanced
  <2>2. Cardinality(SlotsHeld(r) \union {<<i, n + 1>>}) = Cardinality(SlotsHeld(r)) + 1
    BY <1>2, <2>1, FS_AddElement
  <2>3. QED  BY <1>3, <1>4, <2>2
<1>7. free'[r] = w - 1
  BY <1>4
<1>8. (c + 1) + (w - 1) = Workers
  BY <1>4, WorkersAssumption
<1>9. QED  BY <1>5, <1>6, <1>7, <1>8 DEF Balanced

LEMMA FreesSlot ==
  ASSUME ProcessingTypeOK, NEW r \in Replicas, NEW i \in Media, Balanced(r), HoldingOf(r, i) > 0,
         free'[r] = free[r] + 1, HoldingOf(r, i)' = HoldingOf(r, i) - 1,
         \A j \in Media \ {i} : HoldingOf(r, j)' = HoldingOf(r, j)
  PROVE  Balanced(r)'
<1>1. PICK n \in Nat : n = HoldingOf(r, i)
  BY HoldingTyped
<1>2. <<i, n>> \in SlotsHeld(r)
  BY <1>1 DEF SlotsHeld
<1>3. SlotsHeld(r)' = SlotsHeld(r) \ {<<i, n>>}
  BY <1>1 DEF SlotsHeld
<1>4. PICK c \in Nat, w \in Nat :
        c = Cardinality(SlotsHeld(r)) /\ w = free[r] /\ c + w = Workers
  BY HoldingTyped, FS_CardinalityType DEF Balanced
<1>5. IsFiniteSet(SlotsHeld(r)')
  <2>1. IsFiniteSet(SlotsHeld(r))
    BY DEF Balanced
  <2>2. IsFiniteSet(SlotsHeld(r) \ {<<i, n>>})
    BY <2>1, FS_RemoveElement
  <2>3. QED  BY <1>3, <2>2
<1>6. Cardinality(SlotsHeld(r)') = c - 1
  <2>1. IsFiniteSet(SlotsHeld(r))
    BY DEF Balanced
  <2>2. Cardinality(SlotsHeld(r) \ {<<i, n>>}) = Cardinality(SlotsHeld(r)) - 1
    BY <1>2, <2>1, FS_RemoveElement
  <2>3. QED  BY <1>3, <1>4, <2>2
<1>7. free'[r] = w + 1
  BY <1>4
<1>8. (c - 1) + (w + 1) = Workers
  BY <1>4, WorkersAssumption
<1>9. QED  BY <1>5, <1>6, <1>7, <1>8 DEF Balanced

(* A job moves on: the counts of its replica and item change by one.       *)
LEMMA OneMore ==
  ASSUME NEW f \in Stages, NEW r \in Replicas, NEW i \in Media, NEW g, g = Grow(f, <<r, i>>)
  PROVE  /\ g[<<r, i>>] = f[<<r, i>>] + 1
         /\ \A s \in Replicas, j \in Media : s # r \/ j # i => g[<<s, j>>] = f[<<s, j>>]
<1>1. \A s \in Replicas, j \in Media : <<s, j>> \in Replicas \X Media
  OBVIOUS
<1>2. QED  BY <1>1 DEF Stages, Grow

LEMMA OneLess ==
  ASSUME NEW f \in Stages, NEW r \in Replicas, NEW i \in Media, NEW g, g = Shrink(f, <<r, i>>)
  PROVE  /\ g[<<r, i>>] = f[<<r, i>>] - 1
         /\ \A s \in Replicas, j \in Media : s # r \/ j # i => g[<<s, j>>] = f[<<s, j>>]
<1>1. \A s \in Replicas, j \in Media : <<s, j>> \in Replicas \X Media
  OBVIOUS
<1>2. QED  BY <1>1 DEF Stages, Shrink

LEMMA JobSlots ==
  ASSUME SlotInv, NEW r \in Replicas, NEW i \in Media, JobStep(r, i), NEW s \in Replicas
  PROVE  Balanced(s)'
<1>1. /\ ProcessingTypeOK /\ Balanced(s) /\ claiming \in Stages /\ working \in Stages
      /\ free \in [Replicas -> Nat]
      /\ claiming[<<r, i>>] \in Nat /\ working[<<r, i>>] \in Nat
  BY HoldingTyped DEF SlotInv, ProcessingTypeOK
<1>2. CASE Enqueue(r, i)
  BY <1>1, <1>2, HoldsTheSame DEF Enqueue, HoldingOf
<1>3. CASE Acquire(r, i)
  <2>1. /\ claiming' = Grow(claiming, <<r, i>>) /\ working' = working
        /\ free[r] > 0 /\ free'[r] = free[r] - 1 /\ \A t \in Replicas \ {r} : free'[t] = free[t]
    BY <1>1, <1>3 DEF Acquire
  <2>2. /\ HoldingOf(r, i)' = HoldingOf(r, i) + 1
        /\ \A t \in Replicas, j \in Media : t # r \/ j # i => HoldingOf(t, j)' = HoldingOf(t, j)
    <3>1. /\ claiming'[<<r, i>>] = claiming[<<r, i>>] + 1
          /\ \A t \in Replicas, j \in Media :
               t # r \/ j # i => claiming'[<<t, j>>] = claiming[<<t, j>>]
      BY <1>1, <2>1, OneMore
    <3>2. QED  BY <1>1, <2>1, <3>1 DEF HoldingOf
  <2>3. CASE s = r
    BY <1>1, <2>1, <2>2, <2>3, TakesSlot
  <2>4. CASE s # r
    BY <1>1, <2>1, <2>2, <2>4, HoldsTheSame
  <2>5. QED  BY <2>3, <2>4
<1>4. CASE /\ claiming[<<r, i>>] > 0 /\ claiming' = Shrink(claiming, <<r, i>>)
           /\ working' = Grow(working, <<r, i>>) /\ free' = free
  <2>1. \A t \in Replicas, j \in Media : HoldingOf(t, j)' = HoldingOf(t, j)
    <3>1. /\ claiming'[<<r, i>>] = claiming[<<r, i>>] - 1
          /\ \A t \in Replicas, j \in Media :
               t # r \/ j # i => claiming'[<<t, j>>] = claiming[<<t, j>>]
      BY <1>1, <1>4, OneLess
    <3>2. /\ working'[<<r, i>>] = working[<<r, i>>] + 1
          /\ \A t \in Replicas, j \in Media :
               t # r \/ j # i => working'[<<t, j>>] = working[<<t, j>>]
      BY <1>1, <1>4, OneMore
    <3>3. HoldingOf(r, i)' = HoldingOf(r, i)
      BY <1>1, <3>1, <3>2 DEF HoldingOf
    <3>4. \A t \in Replicas, j \in Media : t # r \/ j # i => HoldingOf(t, j)' = HoldingOf(t, j)
      BY <3>1, <3>2 DEF HoldingOf
    <3>5. QED  BY <3>3, <3>4
  <2>2. QED  BY <1>1, <1>4, <2>1, HoldsTheSame
<1>5. CASE /\ Release(r)
           /\ \/ claiming[<<r, i>>] > 0 /\ claiming' = Shrink(claiming, <<r, i>>) /\ working' = working
              \/ working[<<r, i>>] > 0 /\ working' = Shrink(working, <<r, i>>) /\ claiming' = claiming
  <2>1. free'[r] = free[r] + 1 /\ \A t \in Replicas \ {r} : free'[t] = free[t]
    BY <1>1, <1>5 DEF Release
  <2>2. /\ HoldingOf(r, i) > 0 /\ HoldingOf(r, i)' = HoldingOf(r, i) - 1
        /\ \A t \in Replicas, j \in Media : t # r \/ j # i => HoldingOf(t, j)' = HoldingOf(t, j)
    <3>1. CASE claiming[<<r, i>>] > 0 /\ claiming' = Shrink(claiming, <<r, i>>) /\ working' = working
      <4>1. /\ claiming'[<<r, i>>] = claiming[<<r, i>>] - 1
            /\ \A t \in Replicas, j \in Media :
                 t # r \/ j # i => claiming'[<<t, j>>] = claiming[<<t, j>>]
        BY <1>1, <3>1, OneLess
      <4>2. QED  BY <1>1, <3>1, <4>1 DEF HoldingOf
    <3>2. CASE working[<<r, i>>] > 0 /\ working' = Shrink(working, <<r, i>>) /\ claiming' = claiming
      <4>1. /\ working'[<<r, i>>] = working[<<r, i>>] - 1
            /\ \A t \in Replicas, j \in Media :
                 t # r \/ j # i => working'[<<t, j>>] = working[<<t, j>>]
        BY <1>1, <3>2, OneLess
      <4>2. QED  BY <1>1, <3>2, <4>1 DEF HoldingOf
    <3>3. QED  BY <1>5, <3>1, <3>2
  <2>3. CASE s = r
    BY <1>1, <2>1, <2>2, <2>3, FreesSlot
  <2>4. CASE s # r
    BY <1>1, <2>1, <2>2, <2>4, HoldsTheSame
  <2>5. QED  BY <2>3, <2>4
<1>6. QED  BY <1>2, <1>3, <1>4, <1>5 DEF JobStep, Claim, GiveUp, Finish, ClaimFails

LEMMA StepSlotInv == SlotInv /\ ProcessingTypeOK' /\ [ProcessingNext]_processingVars => SlotInv'
<1> SUFFICES ASSUME SlotInv, ProcessingTypeOK', [ProcessingNext]_processingVars PROVE \A s \in Replicas : Balanced(s)'
  BY DEF SlotInv
<1>1. CASE \E r \in Replicas, i \in Media : JobStep(r, i)
  BY <1>1, JobSlots
<1>2. CASE \/ \E i \in Media : Delete(i)
           \/ \E r \in Replicas : Start(r)
           \/ \E r \in Replicas, i \in Media : Submit(r, i) \/ Reprocess(r, i)
           \/ UNCHANGED processingVars
  <2>1. UNCHANGED <<claiming, working, free>>
    BY <1>2 DEF Delete, Start, Submit, Reprocess, KeepJobs, processingVars
  <2>2. QED  BY <2>1, HoldsTheSame DEF SlotInv, HoldingOf
<1>3. ASSUME NEW r \in Replicas, Crash(r), NEW s \in Replicas PROVE Balanced(s)'
  <2>1. \A j \in Media : <<s, j>> \in Replicas \X Media /\ <<s, j>>[1] = s
    OBVIOUS
  <2>2. free \in [Replicas -> Nat]
    BY DEF SlotInv, ProcessingTypeOK
  <2>3. CASE s = r
    <3>1. \A j \in Media : claiming'[<<s, j>>] = 0 /\ working'[<<s, j>>] = 0
      BY <1>3, <2>1, <2>3 DEF Crash, Clear
    <3>2. SlotsHeld(s)' = {}
      BY <3>1 DEF SlotsHeld, HoldingOf
    <3>3. free'[s] = Workers
      BY <1>3, <2>2, <2>3 DEF Crash
    <3>4. QED  BY <3>2, <3>3, FS_EmptySet, WorkersAssumption DEF Balanced
  <2>4. CASE s # r
    <3>1. \A j \in Media : claiming'[<<s, j>>] = claiming[<<s, j>>] /\ working'[<<s, j>>] = working[<<s, j>>]
      BY <1>3, <2>1, <2>4 DEF Crash, Clear
    <3>2. free'[s] = free[s]
      BY <1>3, <2>2, <2>4 DEF Crash
    <3>3. QED  BY <3>1, <3>2, HoldsTheSame DEF SlotInv, HoldingOf
  <2>5. QED  BY <2>3, <2>4
<1>4. QED  BY <1>1, <1>2, <1>3 DEF ProcessingNext

(* However jobs end, and whatever fails, a semaphore has as many slots     *)
(* left as no job holds: an error between taking and giving back a slot    *)
(* leaks none, and a crash takes all of its jobs with it.                  *)
THEOREM SlotsAreAccounted == ProcessingSpec => []SlotsAccounted
<1>1. ProcessingInit => SlotInv
  <2> SUFFICES ASSUME ProcessingInit, NEW r \in Replicas PROVE Balanced(r)
    BY InitProcessing DEF SlotInv, ProcessingIInv
  <2>1. \A i \in Media : <<r, i>> \in Replicas \X Media
    OBVIOUS
  <2>2. \A i \in Media : HoldingOf(r, i) = 0
    BY <2>1 DEF ProcessingInit, NoJobs, HoldingOf
  <2>3. SlotsHeld(r) = {} /\ free[r] = Workers
    BY <2>2 DEF SlotsHeld, ProcessingInit
  <2>4. QED  BY <2>3, FS_EmptySet, WorkersAssumption DEF Balanced
<1>2. SlotInv => SlotsAccounted
  <2> SUFFICES ASSUME SlotInv, NEW r \in Replicas
               PROVE  /\ free[r] <= Workers
                      /\ free[r] = Workers <=> \A i \in Media : claiming[<<r, i>>] + working[<<r, i>>] = 0
    BY DEF SlotsAccounted
  <2>1. ProcessingTypeOK /\ Balanced(r) /\ free[r] \in Nat /\ Cardinality(SlotsHeld(r)) \in Nat
    BY FS_CardinalityType DEF SlotInv, Balanced, ProcessingTypeOK
  <2>2. free[r] <= Workers /\ (free[r] = Workers <=> Cardinality(SlotsHeld(r)) = 0)
    BY <2>1, WorkersAssumption DEF Balanced
  <2>3. Cardinality(SlotsHeld(r)) = 0 <=> SlotsHeld(r) = {}
    BY <2>1, FS_EmptySet DEF Balanced
  <2>4. \A i \in Media : <<i, 1>> \in SlotsHeld(r) <=> HoldingOf(r, i) # 0
    <3> SUFFICES ASSUME NEW i \in Media PROVE <<i, 1>> \in SlotsHeld(r) <=> HoldingOf(r, i) # 0
      OBVIOUS
    <3>1. PICK n \in Nat : n = HoldingOf(r, i)
      BY <2>1, HoldingTyped
    <3>2. <<i, 1>> \in SlotsHeld(r) <=> 1 <= n
      BY <3>1 DEF SlotsHeld
    <3>3. QED  BY <3>1, <3>2
  <2>5. (\A i \in Media : HoldingOf(r, i) = 0) => SlotsHeld(r) = {}
    BY DEF SlotsHeld
  <2>6. QED  BY <2>2, <2>3, <2>4, <2>5 DEF HoldingOf
<1>3. QED  BY <1>1, <1>2, StepSlotInv, ProcessingTypes, PTL DEF ProcessingSpec
=============================================================================
