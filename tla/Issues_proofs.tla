----------------------------- MODULE Issues_proofs -----------------------------
(***************************************************************************)
(* Theorems about TaskWrites and Issues: what the activity feed and the    *)
(* notifications tell of tasks and of issues, and the assignees a request  *)
(* leaves, for any requests, tasks, users and issues.                      *)
(***************************************************************************)
EXTENDS Issues, TLAPS

-----------------------------------------------------------------------------
(* Task writes.  What a request's transaction has written of the feed, by  *)
(* the statement it has come to.                                           *)
Told(r) ==
  /\ ValidBody(body[r])
  /\ phase[r] \in {"delete", "deleting", "assign"} => body[r].assignees # Keep
  /\ phase[r] = "event" => body[r].status # NoStatus
  /\ phase[r] = "notify" => body[r].create
  /\ phase[r] \in {"new", "delete", "deleting", "assign", "event"} =>
       ~tx[r].logged /\ ~tx[r].rung /\ ~tx[r].aborted
  /\ phase[r] = "notify" => ~tx[r].rung /\ (~tx[r].aborted => tx[r].logged)
  /\ phase[r] = "commit" /\ ~tx[r].aborted =>
       /\ tx[r].logged <=> body[r].status # NoStatus
       /\ tx[r].rung <=> body[r].create
  /\ phase[r] = "commit" /\ tx[r].aborted => Untold(r)
  /\ phase[r] # "done" => answer[r] = "none"

TaskInv == TypeOK /\ (\A r \in Requests : Told(r)) /\ FeedAloneLoses

Transactions == [dels : SUBSET Rows, ins : SUBSET Rows, rest : Seq(Users),
                 logged : BOOLEAN, rung : BOOLEAN, aborted : BOOLEAN]

LEMMA InitTaskInv == Init => TaskInv
<1> SUFFICES ASSUME Init PROVE TaskInv
  OBVIOUS
<1>1. EmptyTx \in Transactions
  BY DEF EmptyTx, Transactions
<1>2. TypeOK
  BY <1>1 DEF Init, TypeOK, Transactions
<1>3. \A r \in Requests : Told(r)
  BY DEF Init, Told, EmptyTx
<1>4. QED  BY <1>2, <1>3 DEF TaskInv, FeedAloneLoses, Init

(* The steps of a request that touch neither tables nor other requests.    *)
Works(r) == InsertTask(r) \/ UpdateTask(r) \/ StartDelete(r) \/ EndDelete(r) \/ Assign(r)
            \/ AssignedAll(r) \/ EmitEvent(r) \/ EmitNotification(r)

LEMMA StepCases ==
  ASSUME NEW r \in Requests, Step(r)
  PROVE  Works(r) \/ Commit(r) \/ NotFound(r) \/ Refuse(r) \/ DeadlockVictim(r)
BY DEF Step, Works

LEMMA WorkFrame ==
  ASSUME TypeOK, NEW r \in Requests, Works(r)
  PROVE  /\ UNCHANGED <<body, status, assigned, committed, feed, bell, answer>>
         /\ \A q \in Requests \ {r} : phase'[q] = phase[q] /\ tx'[q] = tx[q]
BY DEF Works, InsertTask, UpdateTask, StartDelete, EndDelete, Assign, AssignedAll, EmitEvent,
       EmitNotification, Begin, KeepTables, TypeOK

LEMMA EndFrame ==
  ASSUME TypeOK, NEW r \in Requests, Commit(r) \/ NotFound(r) \/ Refuse(r) \/ DeadlockVictim(r)
  PROVE  /\ UNCHANGED <<body, tx, overlap>> /\ phase'[r] = "done"
         /\ \A q \in Requests \ {r} : phase'[q] = phase[q]
         /\ phase' \in [Requests -> OpenPhases \union {"new", "done"}]
BY DEF Commit, NotFound, Refuse, DeadlockVictim, GiveUp, TypeOK

(* A request asks for a list of users unless it leaves the assignees.      *)
LEMMA BodyTyped ==
  ASSUME TypeOK, NEW r \in Requests
  PROVE  /\ body[r] \in Bodies
         /\ body[r].assignees # Keep => body[r].assignees \in Seq(Users)
         /\ tx[r] \in Transactions
BY AssignmentsAssumption DEF TypeOK, Bodies, Transactions

LEMMA WorkTyped ==
  ASSUME TypeOK, NEW r \in Requests, Told(r), Works(r)
  PROVE  /\ phase'[r] \in OpenPhases /\ tx'[r] \in Transactions
         /\ TypeOK'
<1>1. phase' \in [Requests -> OpenPhases \union {"new", "done"}] /\ phase'[r] \in OpenPhases
  BY DEF Works, InsertTask, UpdateTask, StartDelete, EndDelete, Assign, AssignedAll, EmitEvent,
         EmitNotification, Begin, TypeOK, OpenPhases, AfterTask, AfterEvent
<1>2. overlap' \in [Requests -> SUBSET Requests]
  <2>1. overlap' = overlap \/ \E p \in OpenPhases : Begin(r, p)
    BY DEF Works, InsertTask, UpdateTask, StartDelete, EndDelete, Assign, AssignedAll, EmitEvent,
           EmitNotification, OpenPhases, AfterTask
  <2>2. Open \subseteq Requests
    BY DEF Open
  <2>3. CASE \E p \in OpenPhases : Begin(r, p)
    <3>1. \A q \in Requests : (IF q = r THEN Open
                               ELSE IF q \in Open THEN overlap[q] \union {r} ELSE overlap[q]) \subseteq Requests
      BY <2>2 DEF TypeOK
    <3>2. QED  BY <2>3, <3>1 DEF Begin
  <2>4. QED  BY <2>1, <2>3 DEF TypeOK
<1>3. tx' = [tx EXCEPT ![r] = tx'[r]]
  BY DEF Works, InsertTask, UpdateTask, StartDelete, EndDelete, Assign, AssignedAll, EmitEvent,
         EmitNotification, TypeOK
<1>4. tx'[r] \in Transactions
  <2>1. CASE InsertTask(r)
    <3>1. body[r].assignees \in Seq(Users)
      BY <2>1, BodyTyped DEF InsertTask, Told, ValidBody
    <3>2. tx'[r] = [tx[r] EXCEPT !.rest = body[r].assignees]
      BY <2>1 DEF InsertTask, TypeOK
    <3>3. QED  BY <3>1, <3>2, BodyTyped DEF Transactions
  <2>2. CASE UpdateTask(r) \/ AssignedAll(r)
    BY <2>2, BodyTyped DEF UpdateTask, AssignedAll
  <2>3. CASE StartDelete(r)
    <3>1. tx'[r] = [tx[r] EXCEPT !.dels = TaskRows(body[r].task)] /\ TaskRows(body[r].task) \subseteq Rows
      BY <2>3 DEF StartDelete, TypeOK, TaskRows
    <3>2. QED  BY <3>1, BodyTyped DEF Transactions
  <2>4. CASE EndDelete(r)
    <3>1. body[r].assignees \in Seq(Users)
      BY <2>4, BodyTyped DEF EndDelete, Told
    <3>2. tx'[r] = [tx[r] EXCEPT !.dels = tx[r].dels \intersect assigned, !.rest = body[r].assignees]
      BY <2>4 DEF EndDelete, TypeOK
    <3>3. QED  BY <3>1, <3>2, BodyTyped DEF Transactions
  <2>5. CASE Assign(r)
    <3>1. tx[r].rest \in Seq(Users) /\ tx[r].rest # <<>> /\ tx[r].ins \subseteq Rows /\ body[r].task \in Tasks
      BY <2>5, BodyTyped DEF Assign, Transactions, Bodies
    <3>2. Head(tx[r].rest) \in Users /\ Tail(tx[r].rest) \in Seq(Users)
      BY <3>1
    <3>3. NextRow(r) \in Rows
      BY <3>1, <3>2 DEF NextRow, Rows
    <3>4. PICK ins \in SUBSET Rows : tx'[r] = [tx[r] EXCEPT !.rest = Tail(tx[r].rest), !.ins = ins]
      BY <2>5, <3>1, <3>3 DEF Assign, TypeOK
    <3>5. QED  BY <3>2, <3>4, BodyTyped DEF Transactions
  <2>6. CASE EmitEvent(r) \/ EmitNotification(r)
    <3>1. \/ tx'[r] = [tx[r] EXCEPT !.logged = TRUE] \/ tx'[r] = [tx[r] EXCEPT !.rung = TRUE]
          \/ tx'[r] = [tx[r] EXCEPT !.aborted = TRUE]
      BY <2>6 DEF EmitEvent, EmitNotification, TypeOK
    <3>2. QED  BY <3>1, BodyTyped DEF Transactions
  <2>7. QED  BY <2>1, <2>2, <2>3, <2>4, <2>5, <2>6 DEF Works
<1>5. tx' \in [Requests -> Transactions]
  BY <1>3, <1>4 DEF TypeOK, Transactions
<1>6. QED  BY <1>1, <1>2, <1>4, <1>5, WorkFrame DEF TypeOK, Transactions

LEMMA WorkTold ==
  ASSUME TypeOK, NEW r \in Requests, Told(r), Works(r)
  PROVE  Told(r)'
<1>1. body' = body /\ answer' = answer
  BY WorkFrame
<1>2. CASE InsertTask(r)
  <2>1. phase'[r] = "assign" /\ phase[r] = "new" /\ tx'[r] = [tx[r] EXCEPT !.rest = body[r].assignees]
    BY <1>2 DEF InsertTask, Begin, TypeOK
  <2>2. /\ tx'[r].logged = tx[r].logged /\ tx'[r].rung = tx[r].rung
        /\ tx'[r].aborted = tx[r].aborted
    BY <2>1, BodyTyped DEF Transactions
  <2>3. QED  BY <1>1, <1>2, <2>1, <2>2 DEF Told, ValidBody, InsertTask
<1>3. CASE UpdateTask(r)
  <2>1. phase'[r] = AfterTask(r) /\ phase[r] = "new" /\ tx' = tx /\ ~body[r].create
    BY <1>3 DEF UpdateTask, Begin, TypeOK
  <2>2. QED  BY <1>1, <2>1 DEF Told, ValidBody, AfterTask
<1>4. CASE StartDelete(r)
  <2>1. phase'[r] = "deleting" /\ phase[r] = "delete" /\ tx'[r] = [tx[r] EXCEPT !.dels = TaskRows(body[r].task)]
    BY <1>4 DEF StartDelete, TypeOK
  <2>2. /\ tx'[r].logged = tx[r].logged /\ tx'[r].rung = tx[r].rung
        /\ tx'[r].aborted = tx[r].aborted
    BY <2>1, BodyTyped DEF Transactions
  <2>3. QED  BY <1>1, <2>1, <2>2 DEF Told
<1>5. CASE EndDelete(r)
  <2>1. /\ phase'[r] = "assign" /\ phase[r] = "deleting"
        /\ tx'[r] = [tx[r] EXCEPT !.dels = tx[r].dels \intersect assigned, !.rest = body[r].assignees]
    BY <1>5 DEF EndDelete, TypeOK
  <2>2. /\ tx'[r].logged = tx[r].logged /\ tx'[r].rung = tx[r].rung
        /\ tx'[r].aborted = tx[r].aborted
    BY <2>1, BodyTyped DEF Transactions
  <2>3. QED  BY <1>1, <2>1, <2>2 DEF Told
<1>6. CASE Assign(r)
  <2>1. phase'[r] = "assign" /\ phase[r] = "assign"
    BY <1>6 DEF Assign, TypeOK
  <2>2. PICK rest, ins : tx'[r] = [tx[r] EXCEPT !.rest = rest, !.ins = ins]
    BY <1>6 DEF Assign, TypeOK
  <2>3. /\ tx'[r].logged = tx[r].logged /\ tx'[r].rung = tx[r].rung
        /\ tx'[r].aborted = tx[r].aborted
    BY <2>2, BodyTyped DEF Transactions
  <2>4. QED  BY <1>1, <2>1, <2>3 DEF Told
<1>7. CASE AssignedAll(r)
  <2>1. /\ phase'[r] = IF body[r].status # NoStatus THEN "event" ELSE "commit"
        /\ phase[r] = "assign" /\ tx' = tx
    BY <1>7 DEF AssignedAll, TypeOK
  <2>2. QED  BY <1>1, <2>1 DEF Told, ValidBody
<1>8. CASE EmitEvent(r)
  <2>1. /\ phase'[r] = AfterEvent(r) /\ phase[r] = "event"
        /\ tx'[r] = [tx[r] EXCEPT !.logged = TRUE] \/ tx'[r] = [tx[r] EXCEPT !.aborted = TRUE]
    BY <1>8 DEF EmitEvent, TypeOK
  <2>2. /\ tx'[r].rung = tx[r].rung
        /\ (tx'[r].logged /\ tx'[r].aborted = tx[r].aborted) \/ (tx'[r].aborted /\ tx'[r].logged = tx[r].logged)
    BY <2>1, BodyTyped DEF Transactions
  <2>3. QED  BY <1>1, <2>1, <2>2 DEF Told, Untold, AfterEvent
<1>9. CASE EmitNotification(r)
  <2>1. /\ phase'[r] = "commit" /\ phase[r] = "notify"
        /\ (tx'[r] = [tx[r] EXCEPT !.rung = TRUE] /\ ~tx[r].aborted) \/ tx'[r] = [tx[r] EXCEPT !.aborted = TRUE]
    BY <1>9 DEF EmitNotification, TypeOK
  <2>2. \/ tx'[r].aborted /\ tx'[r].rung = tx[r].rung
        \/ tx'[r].rung /\ tx'[r].logged = tx[r].logged /\ tx'[r].aborted = tx[r].aborted /\ ~tx[r].aborted
    BY <2>1, BodyTyped DEF Transactions
  <2>3. QED  BY <1>1, <2>1, <2>2 DEF Told, Untold, ValidBody
<1>10. QED  BY <1>2, <1>3, <1>4, <1>5, <1>6, <1>7, <1>8, <1>9 DEF Works

LEMMA CommitWrites ==
  ASSUME TypeOK, NEW r \in Requests, Told(r), FeedAloneLoses, Commit(r)
  PROVE  /\ FeedAloneLoses'
         /\ status' \in [Tasks -> Statuses \union {NoStatus}] /\ assigned' \subseteq Rows
         /\ committed' \subseteq Requests /\ feed' \subseteq Requests /\ bell' \subseteq Requests
         /\ answer' \in [Requests -> {"none", "ok", "error"}]
<1>1. body' = body /\ phase[r] = "commit"
  BY DEF Commit
<1>2. /\ committed' = (IF ~tx[r].aborted THEN committed \union {r} ELSE committed)
      /\ feed' = (IF tx[r].logged /\ ~tx[r].aborted THEN feed \union {r} ELSE feed)
      /\ bell' = (IF tx[r].rung /\ ~tx[r].aborted THEN bell \union {r} ELSE bell)
  BY DEF Commit, Kept
<1>3. ~tx[r].aborted => (tx[r].logged <=> body[r].status # NoStatus) /\ (tx[r].rung <=> body[r].create)
  BY <1>1 DEF Told
<1>4. FeedAloneLoses'
  <2>1. \A q \in Requests : Untold(q)' <=> Untold(q)
    BY DEF Commit, Untold
  <2>2. answer' = [answer EXCEPT ![r] = "ok"]
    BY DEF Commit
  <2>3. r \in committed' \/ Untold(r)
    BY <1>1, <1>2 DEF Told
  <2>4. \A q \in Requests : answer'[q] = "ok" => q \in committed' \/ Untold(q)'
    BY <1>2, <2>1, <2>2, <2>3 DEF FeedAloneLoses, TypeOK
  <2>5. /\ feed' = {q \in committed' : body'[q].status # NoStatus}
        /\ bell' = {q \in committed' : body'[q].create}
    BY <1>1, <1>2, <1>3 DEF FeedAloneLoses
  <2>6. QED  BY <2>4, <2>5 DEF FeedAloneLoses
<1>5. status' \in [Tasks -> Statuses \union {NoStatus}] /\ assigned' \subseteq Rows
  BY BodyTyped DEF Commit, TypeOK, Bodies, Transactions
<1>6. QED  BY <1>2, <1>4, <1>5 DEF Commit, TypeOK

LEMMA EndTyped ==
  ASSUME TypeOK, NEW r \in Requests, Told(r), FeedAloneLoses,
         Commit(r) \/ NotFound(r) \/ Refuse(r) \/ DeadlockVictim(r)
  PROVE  TypeOK' /\ FeedAloneLoses'
<1>1. CASE Commit(r)
  BY <1>1, CommitWrites, EndFrame DEF TypeOK
<1>2. CASE NotFound(r) \/ Refuse(r) \/ DeadlockVictim(r)
  <2>1. /\ UNCHANGED <<body, tx, overlap, status, assigned, committed, feed, bell>>
        /\ answer' \in [Requests -> {"none", "ok", "error"}]
    BY <1>2 DEF NotFound, Refuse, DeadlockVictim, GiveUp, TypeOK
  <2>2. TypeOK'
    BY <2>1, EndFrame DEF TypeOK
  <2>3. FeedAloneLoses'
    <3>1. answer' = [answer EXCEPT ![r] = "error"]
      BY <1>2 DEF NotFound, Refuse, DeadlockVictim, GiveUp
    <3>2. QED  BY <2>1, <3>1 DEF FeedAloneLoses, Untold, TypeOK
  <2>4. QED  BY <2>2, <2>3
<1>3. QED  BY <1>1, <1>2

LEMMA StepTaskInv ==
  ASSUME TaskInv, NEW r \in Requests, Step(r)
  PROVE  TaskInv'
<1>1. TypeOK /\ FeedAloneLoses /\ \A q \in Requests : Told(q)
  BY DEF TaskInv
<1>2. CASE Works(r)
  <2>1. TypeOK' /\ Told(r)'
    BY <1>1, <1>2, WorkTyped, WorkTold
  <2>2. /\ UNCHANGED <<body, status, assigned, committed, feed, bell, answer>>
        /\ \A q \in Requests \ {r} : phase'[q] = phase[q] /\ tx'[q] = tx[q]
    BY <1>1, <1>2, WorkFrame
  <2>3. \A q \in Requests \ {r} : Told(q)'
    BY <1>1, <2>2 DEF Told, Untold
  <2>4. FeedAloneLoses'
    <3>1. phase[r] # "done"
      BY <1>2 DEF Works, InsertTask, UpdateTask, StartDelete, EndDelete, Assign, AssignedAll, EmitEvent,
         EmitNotification, Begin
    <3>2. answer[r] # "ok"
      BY <1>1, <3>1 DEF Told
    <3>3. \A q \in Requests \ {r} : Untold(q)' <=> Untold(q)
      BY <2>2 DEF Untold
    <3>4. QED  BY <1>1, <2>2, <3>2, <3>3 DEF FeedAloneLoses
  <2>5. QED  BY <2>1, <2>3, <2>4 DEF TaskInv
<1>3. CASE Commit(r) \/ NotFound(r) \/ Refuse(r) \/ DeadlockVictim(r)
  <2>1. /\ UNCHANGED <<body, tx>> /\ phase'[r] = "done"
        /\ \A q \in Requests \ {r} : phase'[q] = phase[q]
    BY <1>1, <1>3, EndFrame
  <2>2. \A q \in Requests : Told(q)'
    <3>1. \A q \in Requests \ {r} : answer'[q] = answer[q]
      BY <1>1, <1>3 DEF Commit, NotFound, Refuse, DeadlockVictim, GiveUp, TypeOK
    <3>2. QED  BY <1>1, <2>1, <3>1 DEF Told, Untold
  <2>3. TypeOK' /\ FeedAloneLoses'
    BY <1>1, <1>3, EndTyped
  <2>4. QED  BY <2>2, <2>3 DEF TaskInv
<1>4. QED  BY <1>2, <1>3, StepCases

-----------------------------------------------------------------------------
(* A behaviour is about tasks or about issues; requests on issues leave    *)
(* the state of the task handlers as it was.                               *)
FeedInv ==
  /\ about \in {"tasks", "issues"}
  /\ about = "tasks" => TaskInv
  /\ about = "issues" => committed = {} /\ feed = {} /\ bell = {} /\ \A r \in Requests : answer[r] = "none"

LEMMA TaskInvStays == TaskInv /\ UNCHANGED vars => TaskInv'
BY DEF TaskInv, TypeOK, Told, Untold, FeedAloneLoses, vars

LEMMA StepFeedInv == FeedInv /\ [FeedNext]_feedVars => FeedInv'
<1> SUFFICES ASSUME FeedInv, [FeedNext]_feedVars PROVE FeedInv'
  OBVIOUS
<1>1. CASE \E r \in Requests : TaskStep(r)
  <2>1. PICK r \in Requests : TaskStep(r)
    BY <1>1
  <2>2. about = "tasks" /\ about' = about /\ Step(r)
    BY <2>1 DEF TaskStep
  <2>3. TaskInv'
    BY <2>2, StepTaskInv DEF FeedInv
  <2>4. QED  BY <2>2, <2>3 DEF FeedInv
<1>2. CASE (\E r \in IssueRequests : IssueStep(r)) \/ UNCHANGED feedVars
  <2>1. UNCHANGED <<vars, about>>
    BY <1>2 DEF IssueStep, feedVars
  <2>2. TaskInv => TaskInv'
    BY <2>1, TaskInvStays
  <2>3. QED  BY <2>1, <2>2 DEF FeedInv, vars
<1>3. QED  BY <1>1, <1>2 DEF FeedNext

(* A request answered 200 whose changes are not there failed to tell of    *)
(* them, and the feed and the notifications tell of committed changes, and *)
(* of all of them, although emit catches every error.                      *)
THEOREM FeedTellsOfCommits == FeedSpec => []FeedAloneLoses
<1>1. FeedInit => FeedInv
  BY InitTaskInv DEF FeedInit, FeedInv, NoTasks
<1>2. FeedInv => FeedAloneLoses
  BY DEF FeedInv, TaskInv, FeedAloneLoses
<1>3. QED  BY <1>1, <1>2, StepFeedInv, PTL DEF FeedSpec

(* The types of the task handlers' state, in a behaviour about tasks: a    *)
(* transaction's lists of rows and of users to assign stay what they are.  *)
THEOREM TaskWritesTyped == FeedSpec => [](about = "tasks" => TypeOK)
<1>1. FeedInit => FeedInv
  BY InitTaskInv DEF FeedInit, FeedInv, NoTasks
<1>2. FeedInv => (about = "tasks" => TypeOK)
  BY DEF FeedInv, TaskInv
<1>3. QED  BY <1>1, <1>2, StepFeedInv, PTL DEF FeedSpec

-----------------------------------------------------------------------------
(* Who leaves exactly the assignees it names.  Requests that are open at   *)
(* the same time know of each other; of those that change fields of one    *)
(* task only one is open.                                                  *)
SameTask(r, q) == body[r].task = body[q].task

Together ==
  \A r, q \in Requests : r # q =>
    /\ body[r].create /\ body[q].create => ~SameTask(r, q)
    /\ r \in Open /\ q \in Open => q \in overlap[r]
    /\ r \in Open /\ q \in Open /\ SameTask(r, q) => ~(body[r].fields /\ body[q].fields)

(* A task that is still to be created has no row and no assignee; the task *)
(* of an open PATCH is there; a transaction deletes and inserts rows of    *)
(* its own task, once it has come to do so.                                *)
Own(r) ==
  /\ body[r].create /\ phase[r] # "done" => status[body[r].task] = NoStatus /\ TaskRows(body[r].task) = {}
  /\ r \in Open /\ ~body[r].create => status[body[r].task] # NoStatus
  /\ \A row \in tx[r].dels \union tx[r].ins : row[1] = body[r].task
  /\ phase[r] \in {"new", "delete"} => tx[r].dels = {}
  /\ phase[r] \in {"new", "delete", "deleting"} => tx[r].ins = {}
  /\ body[r].assignees = Keep => tx[r].dels = {} /\ tx[r].ins = {}

(* Nobody that runs with r changes the rows r is to replace: it deletes    *)
(* all there are and inserts all it names.                                 *)
Undisturbed(r) ==
  /\ body[r].fields /\ body[r].assignees # Keep
  /\ \A q \in overlap[r] : Locking(q) \/ ~SameTask(q, r)

Inserts(r) == {u \in Users : <<body[r].task, u>> \in Keys(tx[r].ins)}

Replacing(r) ==
  Undisturbed(r) =>
    /\ phase[r] \in {"deleting", "assign", "event", "notify", "commit"} =>
         tx[r].dels = TaskRows(body[r].task)
    /\ phase[r] = "assign" =>
         UsersOf(body[r].assignees) = Inserts(r) \union UsersOf(tx[r].rest)
    /\ phase[r] \in {"event", "notify", "commit"} =>
         UsersOf(body[r].assignees) = Inserts(r)

AssignInv == TaskInv /\ Together /\ \A r \in Requests : Own(r) /\ Replacing(r)

LEMMA InitAssignInv == Init => AssignInv
<1> SUFFICES ASSUME Init PROVE AssignInv
  OBVIOUS
<1>1. TypeOK
  BY InitTaskInv DEF TaskInv
<1>2. Open = {}
  BY DEF Init, Open, OpenPhases
<1>3. Together
  BY <1>2 DEF Init, Together, SameTask
<1>4. ASSUME NEW r \in Requests PROVE Own(r)
  <2>1. tx[r].dels = {} /\ tx[r].ins = {}
    BY DEF Init, EmptyTx
  <2>2. body[r].create => body[r].task \in Created
    BY DEF Created
  <2>3. body[r].create => status[body[r].task] = NoStatus /\ TaskRows(body[r].task) = {}
    BY <1>1, <2>2, BodyTyped DEF Init, TaskRows, Bodies
  <2>4. QED  BY <1>2, <2>1, <2>3 DEF Own
<1>5. ASSUME NEW r \in Requests PROVE Replacing(r)
  BY DEF Init, Replacing
<1>6. QED  BY <1>3, <1>4, <1>5, InitTaskInv DEF AssignInv

(* A request at work on its transaction knows of whoever is open.          *)
LEMMA WorkOpens ==
  ASSUME TypeOK, NEW r \in Requests, Told(r), Works(r)
  PROVE  /\ Open' = Open \union {r}
         /\ r \in Open => overlap' = overlap
         /\ r \notin Open =>
              /\ overlap'[r] = Open
              /\ \A q \in Requests \ {r} :
                   overlap'[q] = IF q \in Open THEN overlap[q] \union {r} ELSE overlap[q]
<1>1. phase' = [phase EXCEPT ![r] = phase'[r]] /\ phase'[r] \in OpenPhases
  BY WorkTyped DEF Works, InsertTask, UpdateTask, StartDelete, EndDelete, Assign, AssignedAll, EmitEvent,
     EmitNotification, Begin, TypeOK
<1>2. Open' = Open \union {r}
  BY <1>1 DEF Open, TypeOK
<1>3. \/ r \in Open /\ overlap' = overlap
      \/ \E p \in OpenPhases : Begin(r, p)
  BY DEF Works, InsertTask, UpdateTask, StartDelete, EndDelete, Assign, AssignedAll, EmitEvent,
         EmitNotification, OpenPhases, AfterTask, Open
<1>4. CASE \E p \in OpenPhases : Begin(r, p)
  <2>1. r \notin Open
    BY <1>4 DEF Begin, Open, OpenPhases
  <2>2. QED  BY <1>2, <1>4, <2>1 DEF Begin
<1>5. QED  BY <1>2, <1>3, <1>4

LEMMA WorkTogether ==
  ASSUME AssignInv, NEW r \in Requests, Works(r)
  PROVE  Together'
<1>1. TypeOK /\ Told(r) /\ Together /\ \A q \in Requests : Own(q)
  BY DEF AssignInv, TaskInv
<1>2. UNCHANGED <<body, status>> /\ \A p, q \in Requests : SameTask(p, q)' <=> SameTask(p, q)
  BY <1>1, WorkFrame DEF SameTask
<1>3. Open' = Open \union {r}
  BY <1>1, WorkOpens
<1>4. CASE r \in Open
  BY <1>1, <1>2, <1>3, <1>4, WorkOpens DEF Together
<1>5. CASE r \notin Open
  <2>1. ASSUME NEW q \in Open, q # r, SameTask(r, q) PROVE ~(body[r].fields /\ body[q].fields)
    <3>1. InsertTask(r) \/ UpdateTask(r)
      BY <1>5 DEF Works, StartDelete, EndDelete, Assign, AssignedAll, EmitEvent, EmitNotification,
             Open, OpenPhases
    <3>2. phase[r] = "new"
      BY <3>1 DEF InsertTask, UpdateTask, Begin
    <3>3. q \in Requests
      BY DEF Open
    <3>4. CASE InsertTask(r)
      <4>1. body[r].create /\ status[body[q].task] = NoStatus
        BY <1>1, <2>1, <3>2, <3>4 DEF InsertTask, Own, SameTask
      <4>2. ~body[q].create
        BY <1>1, <2>1, <3>3, <4>1 DEF Together
      <4>3. QED  BY <1>1, <3>3, <4>1, <4>2 DEF Own
    <3>5. CASE UpdateTask(r)
      <4>1. ~WaitsFor(r, q) /\ ~body[r].create
        BY <3>3, <3>5 DEF UpdateTask, Blocked
      <4>2. QED  BY <2>1, <3>2, <4>1 DEF WaitsFor, SameTask
    <3>6. QED  BY <3>1, <3>4, <3>5
  <2>2. \A q \in Requests \ {r} : q \in Open => q \in overlap'[r] /\ r \in overlap'[q]
    BY <1>1, <1>5, WorkOpens
  <2>3. \A q \in Requests \ {r} : overlap[q] \subseteq overlap'[q]
    BY <1>1, <1>5, WorkOpens
  <2>4. ASSUME NEW p \in Requests, NEW q \in Requests, p # q
        PROVE  /\ body'[p].create /\ body'[q].create => ~SameTask(p, q)'
               /\ p \in Open' /\ q \in Open' => q \in overlap'[p]
               /\ p \in Open' /\ q \in Open' /\ SameTask(p, q)' => ~(body'[p].fields /\ body'[q].fields)
    <3>1. body'[p].create /\ body'[q].create => ~SameTask(p, q)'
      BY <1>1, <1>2, <2>4 DEF Together
    <3>2. p \in Open' /\ q \in Open' => q \in overlap'[p]
      BY <1>1, <1>3, <2>2, <2>3, <2>4 DEF Together
    <3>3. p \in Open' /\ q \in Open' /\ SameTask(p, q)' => ~(body'[p].fields /\ body'[q].fields)
      BY <1>1, <1>2, <1>3, <2>1, <2>4 DEF Together, SameTask
    <3>4. QED  BY <3>1, <3>2, <3>3
  <2>5. QED  BY <2>4 DEF Together
<1>6. QED  BY <1>4, <1>5

(* The users of a list are its first and those of the rest.                *)
LEMMA UsersOfList ==
  ASSUME NEW list \in Seq(Users)
  PROVE  /\ list = <<>> => UsersOf(list) = {}
         /\ list # <<>> => UsersOf(list) = {Head(list)} \union UsersOf(Tail(list))
<1>1. list = <<>> => UsersOf(list) = {}
  BY DEF UsersOf
<1>2. ASSUME list # <<>> PROVE UsersOf(list) = {Head(list)} \union UsersOf(Tail(list))
  <2>1. /\ Len(list) \in Nat /\ Len(list) >= 1 /\ DOMAIN list = 1..Len(list) /\ Head(list) = list[1]
        /\ DOMAIN Tail(list) = 1..(Len(list) - 1)
        /\ \A i \in 1..(Len(list) - 1) : Tail(list)[i] = list[i + 1]
    BY <1>2
  <2>2. ASSUME NEW i \in DOMAIN list PROVE list[i] \in {Head(list)} \union UsersOf(Tail(list))
    <3>1. CASE i = 1
      BY <2>1, <3>1
    <3>2. CASE i # 1
      <4>1. i - 1 \in DOMAIN Tail(list) /\ Tail(list)[i - 1] = list[i]
        BY <2>1, <3>2
      <4>2. QED  BY <4>1 DEF UsersOf
    <3>3. QED  BY <3>1, <3>2
  <2>3. ASSUME NEW i \in DOMAIN Tail(list) PROVE Tail(list)[i] \in UsersOf(list)
    <3>1. i + 1 \in DOMAIN list /\ list[i + 1] = Tail(list)[i]
      BY <2>1
    <3>2. QED  BY <3>1 DEF UsersOf
  <2>4. Head(list) \in UsersOf(list)
    BY <2>1 DEF UsersOf
  <2>5. UsersOf(list) \subseteq {Head(list)} \union UsersOf(Tail(list))
    BY <2>2 DEF UsersOf
  <2>6. UsersOf(Tail(list)) \subseteq UsersOf(list)
    BY <2>3 DEF UsersOf
  <2>7. QED  BY <2>4, <2>5, <2>6
<1>3. QED  BY <1>1, <1>2

(* What the tasks and the assignees are depends on the tables only; what   *)
(* is undisturbed now was so before, when only more requests were opened.  *)
LEMMA OthersKeep ==
  ASSUME AssignInv, NEW r \in Requests, Works(r), NEW q \in Requests \ {r}
  PROVE  Own(q)' /\ Replacing(q)'
<1>1. TypeOK /\ Told(r) /\ Own(q) /\ Replacing(q)
  BY DEF AssignInv, TaskInv
<1>2. /\ UNCHANGED <<body, status, assigned>> /\ phase'[q] = phase[q] /\ tx'[q] = tx[q]
  BY <1>1, WorkFrame
<1>3. overlap[q] \subseteq overlap'[q] /\ (q \in Open' <=> q \in Open)
  BY <1>1, WorkOpens
<1>4. TaskRows(body[q].task)' = TaskRows(body[q].task) /\ Inserts(q)' = Inserts(q)
  BY <1>2 DEF TaskRows, Inserts
<1>5. Own(q)'
  BY <1>1, <1>2, <1>3, <1>4 DEF Own
<1>6. Undisturbed(q)' => Undisturbed(q)
  BY <1>2, <1>3 DEF Undisturbed, Locking, SameTask
<1>7. QED  BY <1>1, <1>2, <1>4, <1>5, <1>6 DEF Replacing

LEMMA WorkOwn ==
  ASSUME AssignInv, NEW r \in Requests, Works(r)
  PROVE  Own(r)'
<1>1. TypeOK /\ Told(r) /\ Own(r) /\ body[r] \in Bodies /\ tx[r] \in Transactions
  BY BodyTyped DEF AssignInv, TaskInv
<1>2. UNCHANGED <<body, status, assigned>> /\ phase'[r] \in OpenPhases /\ r \in Open'
  BY <1>1, WorkFrame, WorkTyped, WorkOpens
<1>3. TaskRows(body[r].task)' = TaskRows(body[r].task)
  BY <1>2 DEF TaskRows
<1>4. phase[r] # "done"
  BY DEF Works, InsertTask, UpdateTask, StartDelete, EndDelete, Assign, AssignedAll, EmitEvent,
         EmitNotification, Begin
<1>5. ~body[r].create => status[body[r].task] # NoStatus
  <2>1. CASE UpdateTask(r)
    BY <2>1 DEF UpdateTask
  <2>2. CASE InsertTask(r)
    BY <2>2 DEF InsertTask
  <2>3. CASE ~UpdateTask(r) /\ ~InsertTask(r)
    <3>1. r \in Open
      BY <2>3 DEF Works, StartDelete, EndDelete, Assign, AssignedAll, EmitEvent,
             EmitNotification, Open, OpenPhases
    <3>2. QED  BY <1>1, <3>1 DEF Own
  <2>4. QED  BY <2>1, <2>2, <2>3
<1>6. /\ \A row \in tx'[r].dels \union tx'[r].ins : row[1] = body[r].task
      /\ phase'[r] \in {"new", "delete"} => tx'[r].dels = {}
      /\ phase'[r] \in {"new", "delete", "deleting"} => tx'[r].ins = {}
      /\ body[r].assignees = Keep => tx'[r].dels = {} /\ tx'[r].ins = {}
  <2>1. CASE InsertTask(r)
    <3>1. tx'[r] = [tx[r] EXCEPT !.rest = body[r].assignees] /\ phase'[r] = "assign"
      BY <1>1, <2>1 DEF InsertTask, Begin, TypeOK
    <3>2. tx'[r].dels = tx[r].dels /\ tx'[r].ins = tx[r].ins
      BY <1>1, <3>1 DEF Transactions
    <3>3. QED  BY <1>1, <3>1, <3>2 DEF Own
  <2>2. CASE UpdateTask(r)
    <3>1. tx' = tx /\ phase[r] = "new"
      BY <2>2 DEF UpdateTask, Begin
    <3>2. QED  BY <1>1, <3>1 DEF Own
  <2>3. CASE AssignedAll(r)
    <3>1. tx' = tx /\ phase'[r] \notin {"new", "delete", "deleting"}
      BY <1>1, <2>3 DEF AssignedAll, TypeOK
    <3>2. QED  BY <1>1, <3>1 DEF Own
  <2>4. CASE StartDelete(r)
    <3>1. /\ tx'[r] = [tx[r] EXCEPT !.dels = TaskRows(body[r].task)]
          /\ phase[r] = "delete" /\ phase'[r] = "deleting"
      BY <1>1, <2>4 DEF StartDelete, TypeOK
    <3>2. tx'[r].dels = TaskRows(body[r].task) /\ tx'[r].ins = tx[r].ins
      BY <1>1, <3>1 DEF Transactions
    <3>3. body[r].assignees # Keep
      BY <1>1, <3>1 DEF Told
    <3>4. QED  BY <1>1, <3>1, <3>2, <3>3 DEF Own, TaskRows
  <2>5. CASE EndDelete(r)
    <3>1. /\ tx'[r] = [tx[r] EXCEPT !.dels = tx[r].dels \intersect assigned, !.rest = body[r].assignees]
          /\ phase'[r] = "assign"
      BY <1>1, <2>5 DEF EndDelete, TypeOK
    <3>2. tx'[r].dels = tx[r].dels \intersect assigned /\ tx'[r].ins = tx[r].ins
      BY <1>1, <3>1 DEF Transactions
    <3>3. QED  BY <1>1, <3>1, <3>2 DEF Own
  <2>6. CASE Assign(r)
    <3>1. PICK ins : /\ tx'[r] = [tx[r] EXCEPT !.rest = Tail(tx[r].rest), !.ins = ins]
                     /\ ins \in {tx[r].ins, tx[r].ins \union {NextRow(r)}}
      BY <1>1, <2>6 DEF Assign, TypeOK
    <3>2. phase[r] = "assign" /\ phase'[r] = "assign" /\ body[r].assignees # Keep
      BY <1>1, <2>6 DEF Assign, TypeOK, Told
    <3>3. tx'[r].dels = tx[r].dels /\ tx'[r].ins = ins
      BY <1>1, <3>1 DEF Transactions
    <3>4. NextRow(r)[1] = body[r].task
      BY DEF NextRow
    <3>5. QED  BY <1>1, <3>1, <3>2, <3>3, <3>4 DEF Own
  <2>7. CASE EmitEvent(r) \/ EmitNotification(r)
    <3>1. \/ tx'[r] = [tx[r] EXCEPT !.logged = TRUE] \/ tx'[r] = [tx[r] EXCEPT !.rung = TRUE]
          \/ tx'[r] = [tx[r] EXCEPT !.aborted = TRUE]
      BY <1>1, <2>7 DEF EmitEvent, EmitNotification, TypeOK
    <3>2. phase'[r] \notin {"new", "delete", "deleting"}
      BY <1>1, <2>7 DEF EmitEvent, EmitNotification, TypeOK, AfterEvent
    <3>3. tx'[r].dels = tx[r].dels /\ tx'[r].ins = tx[r].ins
      BY <1>1, <3>1 DEF Transactions
    <3>4. QED  BY <1>1, <3>2, <3>3 DEF Own
  <2>8. QED  BY <2>1, <2>2, <2>3, <2>4, <2>5, <2>6, <2>7 DEF Works
<1>7. QED  BY <1>1, <1>2, <1>3, <1>4, <1>5, <1>6 DEF Own

LEMMA WorkReplacing ==
  ASSUME AssignInv, NEW r \in Requests, Works(r)
  PROVE  Replacing(r)'
<1>1. TypeOK /\ Told(r) /\ Own(r) /\ Replacing(r) /\ body[r] \in Bodies /\ tx[r] \in Transactions
  BY BodyTyped DEF AssignInv, TaskInv
<1>2. UNCHANGED <<body, status, assigned>>
  BY <1>1, WorkFrame
<1>3. TaskRows(body[r].task)' = TaskRows(body[r].task)
  BY <1>2 DEF TaskRows
<1>4. SUFFICES ASSUME Undisturbed(r)'
               PROVE  /\ phase'[r] \in {"deleting", "assign", "event", "notify", "commit"} =>
                           tx'[r].dels = TaskRows(body[r].task)
                      /\ phase'[r] = "assign" =>
                           UsersOf(body[r].assignees) = Inserts(r)' \union UsersOf(tx'[r].rest)
                      /\ phase'[r] \in {"event", "notify", "commit"} =>
                           UsersOf(body[r].assignees) = Inserts(r)'
  BY <1>2, <1>3 DEF Replacing
<1>5. r \in Open => Undisturbed(r)
  BY <1>1, <1>2, <1>4, WorkOpens DEF Undisturbed, Locking, SameTask
<1>6. body[r].assignees # Keep /\ body[r].assignees \in Seq(Users)
  BY <1>1, <1>2, <1>4, BodyTyped DEF Undisturbed
<1>7. CASE InsertTask(r)
  <2>1. /\ tx'[r] = [tx[r] EXCEPT !.rest = body[r].assignees]
        /\ phase[r] = "new" /\ phase'[r] = "assign" /\ body[r].create
    BY <1>1, <1>7 DEF InsertTask, Begin, TypeOK
  <2>2. tx'[r].dels = tx[r].dels /\ tx'[r].ins = tx[r].ins /\ tx'[r].rest = body[r].assignees
    BY <1>1, <2>1 DEF Transactions
  <2>3. tx[r].dels = {} /\ tx[r].ins = {} /\ TaskRows(body[r].task) = {}
    BY <1>1, <2>1 DEF Own
  <2>4. Inserts(r)' = {}
    BY <2>2, <2>3 DEF Inserts, Keys
  <2>5. QED  BY <2>1, <2>2, <2>3, <2>4
<1>8. CASE UpdateTask(r)
  <2>1. phase'[r] = "delete"
    BY <1>1, <1>6, <1>8 DEF UpdateTask, Begin, AfterTask, TypeOK
  <2>2. QED  BY <2>1
<1>9. CASE StartDelete(r)
  <2>1. /\ tx'[r] = [tx[r] EXCEPT !.dels = TaskRows(body[r].task)] /\ phase'[r] = "deleting"
    BY <1>1, <1>9 DEF StartDelete, TypeOK
  <2>2. tx'[r].dels = TaskRows(body[r].task)
    BY <1>1, <2>1 DEF Transactions
  <2>3. QED  BY <2>1, <2>2
<1>10. CASE EndDelete(r)
  <2>1. /\ tx'[r] = [tx[r] EXCEPT !.dels = tx[r].dels \intersect assigned, !.rest = body[r].assignees]
        /\ phase[r] = "deleting" /\ phase'[r] = "assign"
    BY <1>1, <1>10 DEF EndDelete, TypeOK
  <2>2. /\ tx'[r].dels = tx[r].dels \intersect assigned /\ tx'[r].ins = tx[r].ins
        /\ tx'[r].rest = body[r].assignees
    BY <1>1, <2>1 DEF Transactions
  <2>3. tx[r].dels = TaskRows(body[r].task) /\ tx[r].ins = {}
    BY <1>1, <1>5, <2>1 DEF Own, Replacing, Open, OpenPhases
  <2>4. tx'[r].dels = TaskRows(body[r].task)
    BY <2>2, <2>3 DEF TaskRows
  <2>5. Inserts(r)' = {}
    BY <2>2, <2>3 DEF Inserts, Keys
  <2>6. QED  BY <2>1, <2>2, <2>4, <2>5
<1>11. CASE Assign(r)
  <2>1. /\ phase[r] = "assign" /\ phase'[r] = "assign" /\ tx[r].rest # <<>>
    BY <1>1, <1>11 DEF Assign, TypeOK
  <2>2. /\ tx[r].dels = TaskRows(body[r].task)
        /\ UsersOf(body[r].assignees) = Inserts(r) \union UsersOf(tx[r].rest)
    BY <1>1, <1>5, <2>1 DEF Replacing, Open, OpenPhases
  <2>3. Key(NextRow(r)) = <<body[r].task, Head(tx[r].rest)>> /\ Key(NextRow(r)) \notin Keys(assigned \ tx[r].dels)
    BY <2>2 DEF TaskRows, NextRow, Key, Keys
  <2>4. tx'[r] = [tx[r] EXCEPT !.rest = Tail(tx[r].rest), !.ins = tx[r].ins \union {NextRow(r)}]
    BY <1>1, <1>11, <2>3 DEF Assign, TypeOK
  <2>5. /\ tx'[r].dels = tx[r].dels /\ tx'[r].rest = Tail(tx[r].rest)
        /\ tx'[r].ins = tx[r].ins \union {NextRow(r)}
    BY <1>1, <2>4 DEF Transactions
  <2>6. tx[r].rest \in Seq(Users) /\ Head(tx[r].rest) \in Users
    BY <1>1, <2>1 DEF Transactions
  <2>7. Inserts(r)' = Inserts(r) \union {Head(tx[r].rest)}
    <3>1. Keys(tx'[r].ins) = Keys(tx[r].ins) \union {Key(NextRow(r))}
      BY <2>5 DEF Keys
    <3>2. QED  BY <1>2, <2>3, <2>6, <3>1 DEF Inserts
  <2>8. UsersOf(tx[r].rest) = {Head(tx[r].rest)} \union UsersOf(tx'[r].rest)
    BY <2>1, <2>5, <2>6, UsersOfList
  <2>9. QED  BY <2>1, <2>2, <2>5, <2>7, <2>8
<1>12. CASE AssignedAll(r)
  <2>1. /\ phase[r] = "assign" /\ phase'[r] \in {"event", "commit"} /\ tx[r].rest = <<>> /\ tx' = tx
    BY <1>1, <1>12 DEF AssignedAll, TypeOK
  <2>2. /\ tx[r].dels = TaskRows(body[r].task)
        /\ UsersOf(body[r].assignees) = Inserts(r) \union UsersOf(tx[r].rest)
    BY <1>1, <1>5, <2>1 DEF Replacing, Open, OpenPhases
  <2>3. UsersOf(tx[r].rest) = {}
    BY <2>1 DEF UsersOf
  <2>4. Inserts(r)' = Inserts(r)
    BY <1>2, <2>1 DEF Inserts
  <2>5. QED  BY <2>1, <2>2, <2>3, <2>4
<1>13. CASE EmitEvent(r) \/ EmitNotification(r)
  <2>1. \/ tx'[r] = [tx[r] EXCEPT !.logged = TRUE] \/ tx'[r] = [tx[r] EXCEPT !.rung = TRUE]
        \/ tx'[r] = [tx[r] EXCEPT !.aborted = TRUE]
    BY <1>1, <1>13 DEF EmitEvent, EmitNotification, TypeOK
  <2>2. phase[r] \in {"event", "notify"} /\ phase'[r] \in {"notify", "commit"}
    BY <1>1, <1>13 DEF EmitEvent, EmitNotification, TypeOK, AfterEvent
  <2>3. tx'[r].dels = tx[r].dels /\ tx'[r].ins = tx[r].ins
    BY <1>1, <2>1 DEF Transactions
  <2>4. tx[r].dels = TaskRows(body[r].task) /\ UsersOf(body[r].assignees) = Inserts(r)
    BY <1>1, <1>5, <2>2 DEF Replacing, Open, OpenPhases
  <2>5. Inserts(r)' = Inserts(r)
    BY <1>2, <2>3 DEF Inserts
  <2>6. QED  BY <2>2, <2>3, <2>4, <2>5
<1>14. QED  BY <1>7, <1>8, <1>9, <1>10, <1>11, <1>12, <1>13 DEF Works

(* A request that ends without a commit leaves the tables alone.           *)
LEMMA EndTogether ==
  ASSUME AssignInv, NEW r \in Requests, Commit(r) \/ NotFound(r) \/ Refuse(r) \/ DeadlockVictim(r)
  PROVE  Together' /\ Open' = Open \ {r}
<1>1. TypeOK /\ Together
  BY DEF AssignInv, TaskInv
<1>2. /\ UNCHANGED <<body, overlap>> /\ phase'[r] = "done"
      /\ \A q \in Requests \ {r} : phase'[q] = phase[q]
  BY <1>1, EndFrame
<1>3. Open' = Open \ {r}
  BY <1>2 DEF Open, OpenPhases
<1>4. \A p, q \in Requests : SameTask(p, q)' <=> SameTask(p, q)
  BY <1>2 DEF SameTask
<1>5. QED  BY <1>1, <1>2, <1>3, <1>4 DEF Together

LEMMA GiveUpAssigns ==
  ASSUME AssignInv, NEW r \in Requests, NotFound(r) \/ Refuse(r) \/ DeadlockVictim(r), NEW q \in Requests
  PROVE  Own(q)' /\ Replacing(q)'
<1>1. TypeOK /\ Own(q) /\ Replacing(q)
  BY DEF AssignInv, TaskInv
<1>2. /\ UNCHANGED <<body, tx, overlap, status, assigned>> /\ phase'[r] = "done"
      /\ \A p \in Requests \ {r} : phase'[p] = phase[p]
      /\ Open' = Open \ {r}
  BY <1>1, EndFrame, EndTogether DEF NotFound, Refuse, DeadlockVictim, GiveUp
<1>3. TaskRows(body[q].task)' = TaskRows(body[q].task) /\ Inserts(q)' = Inserts(q)
  BY <1>2 DEF TaskRows, Inserts
<1>4. Own(q)'
  BY <1>1, <1>2, <1>3 DEF Own
<1>5. Undisturbed(q)' <=> Undisturbed(q)
  BY <1>2 DEF Undisturbed, Locking, SameTask
<1>6. QED  BY <1>1, <1>2, <1>3, <1>4, <1>5 DEF Replacing

(* A commit changes the rows of its own task only.  Nobody who is to       *)
(* create that task is there, and who replaces its assignees and changes a *)
(* field knows of the request and waits unless that one leaves them.       *)
LEMMA CommitAssigns ==
  ASSUME AssignInv, NEW r \in Requests, Commit(r), NEW q \in Requests
  PROVE  Own(q)' /\ Replacing(q)'
<1>1. TypeOK /\ Together /\ Own(r) /\ Own(q) /\ Replacing(q) /\ Told(r)
  BY DEF AssignInv, TaskInv
<1>2. /\ UNCHANGED <<body, tx, overlap>> /\ phase'[r] = "done" /\ phase[r] = "commit"
      /\ \A p \in Requests \ {r} : phase'[p] = phase[p]
      /\ Open' = Open \ {r} /\ r \in Open
  BY <1>1, EndFrame, EndTogether DEF Commit, Open, OpenPhases
<1>3. /\ status' = status \/ status' = [status EXCEPT ![body[r].task] = body[r].status]
      /\ status' # status => body[r].status # NoStatus
      /\ assigned' = assigned \/ assigned' = (assigned \ tx[r].dels) \union tx[r].ins
  BY DEF Commit
<1>4. Inserts(q)' = Inserts(q) /\ (Undisturbed(q)' <=> Undisturbed(q))
  BY <1>2 DEF Inserts, Undisturbed, Locking, SameTask
<1>5. body[q].task \in Tasks /\ body[r].task \in Tasks
  BY <1>1, BodyTyped DEF Bodies
<1>6. CASE q = r
  <2>1. Own(q)'
    BY <1>1, <1>2, <1>6 DEF Own, Open, OpenPhases
  <2>2. Replacing(q)'
    BY <1>2, <1>6 DEF Replacing
  <2>3. QED  BY <2>1, <2>2
<1>7. CASE q # r /\ ~SameTask(r, q)
  <2>1. TaskRows(body[q].task)' = TaskRows(body[q].task)
    BY <1>1, <1>2, <1>3, <1>7 DEF Own, TaskRows, SameTask
  <2>2. status'[body[q].task] = status[body[q].task]
    BY <1>1, <1>3, <1>5, <1>7 DEF SameTask, TypeOK
  <2>3. Own(q)'
    BY <1>1, <1>2, <1>7, <2>1, <2>2 DEF Own
  <2>4. QED  BY <1>1, <1>2, <1>4, <1>7, <2>1, <2>3 DEF Replacing
<1>8. CASE q # r /\ SameTask(r, q)
  <2>1. ~(body[q].create /\ phase[q] # "done")
    BY <1>1, <1>2, <1>8 DEF Own, Together, SameTask
  <2>2. status[body[q].task] # NoStatus => status'[body[q].task] # NoStatus
    BY <1>1, <1>3, <1>5, <1>8 DEF TypeOK, SameTask
  <2>3. Own(q)'
    BY <1>1, <1>2, <1>8, <2>1, <2>2 DEF Own
  <2>4. ASSUME Undisturbed(q), q \in Open PROVE assigned' = assigned
    <3>1. r \in overlap[q] /\ ~(body[r].fields /\ body[q].fields)
      BY <1>1, <1>2, <1>8, <2>4 DEF Together, SameTask
    <3>2. body[r].assignees = Keep
      BY <1>8, <2>4, <3>1 DEF Undisturbed, Locking, SameTask
    <3>3. QED  BY <1>1, <1>3, <3>2 DEF Own
  <2>5. QED  BY <1>1, <1>2, <1>4, <1>8, <2>3, <2>4 DEF Replacing, Open, OpenPhases, TaskRows
<1>9. QED  BY <1>6, <1>7, <1>8

LEMMA StepAssignInv ==
  ASSUME AssignInv, NEW r \in Requests, Step(r)
  PROVE  AssignInv'
<1>1. TaskInv'
  BY StepTaskInv DEF AssignInv
<1>2. CASE Works(r)
  BY <1>1, <1>2, WorkTogether, OthersKeep, WorkOwn, WorkReplacing DEF AssignInv
<1>3. CASE NotFound(r) \/ Refuse(r) \/ DeadlockVictim(r)
  BY <1>1, <1>3, EndTogether, GiveUpAssigns DEF AssignInv
<1>4. CASE Commit(r)
  BY <1>1, <1>4, EndTogether, CommitAssigns DEF AssignInv
<1>5. QED  BY <1>2, <1>3, <1>4, StepCases

(* In a behaviour about issues no request on a task is ever sent.          *)
AssignFeedInv == about = "tasks" => AssignInv

LEMMA StepAssignFeedInv == AssignFeedInv /\ [FeedNext]_feedVars => AssignFeedInv'
<1> SUFFICES ASSUME AssignFeedInv, [FeedNext]_feedVars PROVE AssignFeedInv'
  OBVIOUS
<1>1. CASE \E r \in Requests : TaskStep(r)
  BY <1>1, StepAssignInv DEF AssignFeedInv, TaskStep
<1>2. CASE (\E r \in IssueRequests : IssueStep(r)) \/ UNCHANGED feedVars
  <2>1. UNCHANGED <<vars, about>>
    BY <1>2 DEF IssueStep, feedVars
  <2>2. TaskInv => TaskInv'
    BY <2>1, TaskInvStays
  <2>3. Together => Together'
    BY <2>1 DEF vars, Together, Open, SameTask
  <2>4. \A r \in Requests : Own(r) /\ Replacing(r) => Own(r)' /\ Replacing(r)'
    BY <2>1 DEF vars, Own, Replacing, Undisturbed, Inserts, TaskRows, Open, SameTask, Locking
  <2>5. QED  BY <2>1, <2>2, <2>3, <2>4 DEF AssignFeedInv, AssignInv
<1>3. QED  BY <1>1, <1>2 DEF FeedNext

(* What a commit leaves when nobody disturbed it.                          *)
LEMMA CommitReplaces ==
  ASSUME AssignInv, NEW r \in Requests, Commit(r), ~tx[r].aborted, Undisturbed(r)
  PROVE  {u \in Users : <<body[r].task, u>> \in Keys(assigned')} = UsersOf(body[r].assignees)
<1>1. phase[r] = "commit" /\ assigned' = (assigned \ tx[r].dels) \union tx[r].ins
  BY DEF Commit
<1>2. tx[r].dels = TaskRows(body[r].task) /\ UsersOf(body[r].assignees) = Inserts(r)
  BY <1>1 DEF AssignInv, Replacing
<1>3. \A u \in Users : <<body[r].task, u>> \in Keys(assigned') <=> <<body[r].task, u>> \in Keys(tx[r].ins)
  BY <1>1, <1>2 DEF TaskRows, Keys, Key
<1>4. QED  BY <1>2, <1>3 DEF Inserts

(* A request that names assignees and changes a field leaves exactly the   *)
(* assignees it names, unless one without fields ran with it: the lock on  *)
(* the task's row orders the others, whatever else is going on.            *)
THEOREM AssigneesAreReplaced == FeedSpec => AssigneesReplaced
<1>1. FeedInit => AssignFeedInv
  BY InitAssignInv DEF FeedInit, AssignFeedInv
<1>2. AssignFeedInv /\ [FeedNext]_feedVars =>
        [\A r \in Requests :
           /\ Commit(r) /\ ~tx[r].aborted /\ body[r].assignees # Keep /\ body[r].fields
           /\ \A q \in overlap[r] : Locking(q) \/ body[q].task # body[r].task
           => {u \in Users : <<body[r].task, u>> \in Keys(assigned')} = UsersOf(body[r].assignees)]_vars
  <2> SUFFICES ASSUME AssignFeedInv, [FeedNext]_feedVars, ~UNCHANGED vars, NEW r \in Requests,
                      Commit(r), ~tx[r].aborted, body[r].assignees # Keep, body[r].fields,
                      \A q \in overlap[r] : Locking(q) \/ body[q].task # body[r].task
               PROVE  {u \in Users : <<body[r].task, u>> \in Keys(assigned')} = UsersOf(body[r].assignees)
    OBVIOUS
  <2>1. about = "tasks"
    BY DEF FeedNext, TaskStep, IssueStep, feedVars
  <2>2. AssignInv
    BY <2>1 DEF AssignFeedInv
  <2>3. Undisturbed(r)
    BY DEF Undisturbed, SameTask
  <2>4. QED  BY <2>2, <2>3, CommitReplaces
<1>3. QED  BY <1>1, <1>2, StepAssignFeedInv, PTL DEF FeedSpec, AssigneesReplaced

(* Who is waited for is open and writes the same task.                     *)
LEMMA WaitsWithinTask ==
  ASSUME AssignInv, NEW r \in Requests, NEW q \in Requests, WaitsFor(r, q)
  PROVE  q \in Open /\ SameTask(q, r)
<1>1. Own(r) /\ Own(q) /\ q \in Open
  BY DEF AssignInv, WaitsFor
<1>2. CASE body[q].task = body[r].task
  BY <1>1, <1>2 DEF SameTask
<1>3. CASE tx[r].dels \intersect tx[q].dels # {}
  BY <1>1, <1>3 DEF Own, SameTask
<1>4. CASE Key(NextRow(r)) \in Keys(tx[q].dels \union tx[q].ins)
  <2>1. PICK row \in tx[q].dels \union tx[q].ins : Key(NextRow(r)) = Key(row)
    BY <1>4 DEF Keys
  <2>2. row[1] = body[r].task
    BY <2>1 DEF Key, NextRow
  <2>3. QED  BY <1>1, <2>1, <2>2 DEF Own, SameTask
<1>5. QED  BY <1>2, <1>3, <1>4 DEF WaitsFor, Keys

LEMMA CircleWithinTask ==
  ASSUME AssignInv, NEW r \in Requests, NEW q \in Requests, r # q, InCircle(r, q)
  PROVE  r \in Open /\ q \in Open /\ SameTask(q, r)
<1>1. \A e \in Waits : e[1] \in Requests /\ e[2] \in Requests /\ e[2] \in Open /\ SameTask(e[2], e[1])
  BY WaitsWithinTask DEF Waits
<1>2. Open \subseteq Requests
  BY DEF Open
<1>3. Closed(Open \union {q}, Waits)
  BY <1>1 DEF Closed
<1>4. r \in Open
  BY <1>2, <1>3 DEF InCircle, Reachable
<1>5. Closed({x \in Open : SameTask(x, r)}, Waits)
  BY <1>1 DEF Closed, SameTask
<1>6. q \in {x \in Open : SameTask(x, r)}
  <2>1. r \in {x \in Open : SameTask(x, r)} /\ {x \in Open : SameTask(x, r)} \in SUBSET Requests
    BY <1>2, <1>4 DEF SameTask
  <2>2. QED  BY <1>5, <2>1 DEF InCircle, Reachable
<1>7. QED  BY <1>4, <1>6

(* A behaviour about issues opens no transaction on a task.                *)
QuietInv == AssignFeedInv /\ about \in {"tasks", "issues"} /\ (about = "issues" => Open = {})

LEMMA StepQuietInv == QuietInv /\ [FeedNext]_feedVars => QuietInv'
<1> SUFFICES ASSUME QuietInv, [FeedNext]_feedVars PROVE QuietInv'
  OBVIOUS
<1>1. AssignFeedInv' /\ about' = about
  BY StepAssignFeedInv DEF QuietInv, FeedNext, TaskStep, IssueStep, feedVars
<1>2. about = "issues" => Open' = Open
  BY DEF FeedNext, TaskStep, IssueStep, feedVars, vars, Open
<1>3. QED  BY <1>1, <1>2 DEF QuietInv

(* Requests that change fields of a task never fail because of each other: *)
(* whatever circle the database has to break, at most one of those in it   *)
(* changes a field.                                                        *)
THEOREM FieldChangesNeverCircle == FeedSpec => []CirclesNeedUnlocked
<1>1. FeedInit => QuietInv
  BY InitAssignInv DEF FeedInit, QuietInv, AssignFeedInv, NoTasks, Open, OpenPhases
<1>2. ASSUME QuietInv PROVE CirclesNeedUnlocked
  <2>1. CASE about = "tasks"
    BY <1>2, <2>1, CircleWithinTask DEF QuietInv, AssignFeedInv, AssignInv, Together, CirclesNeedUnlocked, SameTask
  <2>2. CASE Open = {}
    <3>1. Waits = {}
      BY <2>2 DEF Waits, WaitsFor
    <3>2. \A q \in Requests : Closed({q}, Waits)
      BY <3>1 DEF Closed
    <3>3. QED  BY <3>2 DEF CirclesNeedUnlocked, InCircle, Reachable
  <2>3. QED  BY <1>2, <2>1, <2>2 DEF QuietInv
<1>3. QED  BY <1>1, <1>2, StepQuietInv, PTL DEF FeedSpec

-----------------------------------------------------------------------------
(* Issues.  A request that has written or read its issue finds a row; what *)
(* it has read and not told yet is the status there is, unless it is       *)
(* stale; nobody creates an issue that is there, or one with another.      *)
Sent(r) ==
  LET b == call[r].body IN
  /\ call[r] \in Calls /\ WellFormed(b)
  /\ At(r, "new") /\ b.op = "create" => issue[b.issue] = NoStatus
  /\ call[r].phase \in {"read", "event", "notify"} => b.op # "attach" /\ issue[b.issue] # NoStatus
  /\ At(r, "event") => call[r].read \in IssueStatuses /\ (r \notin stale => call[r].read = issue[b.issue])

OneCreates ==
  \A r, q \in IssueRequests :
    r # q /\ call[r].body.op = "create" /\ call[q].body.op = "create"
      => call[r].body.issue # call[q].body.issue

(* The last event tells the status there is, or somebody is still to tell. *)
LastTold(i) ==
  /\ issue[i] = NoStatus => updates[i] = <<>>
  /\ i \notin lost /\ updates[i] # <<>> /\ updates[i][Len(updates[i])].by \notin stale =>
       \/ updates[i][Len(updates[i])].status = issue[i]
       \/ \E q \in IssueRequests : /\ call[q].body.op = "update" /\ call[q].body.issue = i
                                   /\ call[q].phase \in {"read", "event"}

(* Who closed an issue announces it or is on the way: its second read can  *)
(* only find it closed while nobody has written since.                     *)
Announces(w) ==
  At(w, "read") \/ (At(w, "event") /\ call[w].read = "closed") \/ At(w, "notify") \/ w \in closings

CloserAnnounces(i) ==
  writer[i] # NoCall =>
    /\ call[writer[i]].body.issue = i
    /\ i \notin lost /\ issue[i] = "closed" /\ call[writer[i]].body.op = "update" => Announces(writer[i])

IssueInv ==
  /\ IssuesTypeOK /\ (\A r \in IssueRequests : Sent(r)) /\ OneCreates
  /\ \A i \in IssueSet : LastTold(i) /\ CloserAnnounces(i)

LEMMA CallTyped ==
  ASSUME IssueInv, NEW r \in IssueRequests
  PROVE  /\ call[r] \in Calls /\ Sent(r)
         /\ call[r].body \in IssueBodies /\ call[r].body.issue \in IssueSet
         /\ call[r].read \in IssueStatuses \union {NoStatus}
         /\ call[r].body.status \in IssueStatuses \union {NoStatus}
<1>1. call[r] \in Calls /\ Sent(r)
  BY DEF IssueInv, Sent
<1>2. call[r].body \in IssueBodies /\ call[r].read \in IssueStatuses \union {NoStatus}
  BY <1>1 DEF Calls
<1>3. QED  BY <1>1, <1>2 DEF IssueBodies

LEMMA InitIssueInv == FeedInit /\ about = "issues" => IssueInv
<1> SUFFICES ASSUME FeedInit, about = "issues" PROVE IssueInv
  OBVIOUS
<1>1. IssuesInit
  BY DEF FeedInit
<1>2. ASSUME NEW r \in IssueRequests
      PROVE  /\ call[r] \in Calls /\ WellFormed(call[r].body) /\ call[r].phase = "new"
             /\ call[r].body.op = "create" => issue[call[r].body.issue] = NoStatus
  <2>1. PICK b \in IssueBodies : WellFormed(b) /\ call[r] = [body |-> b, phase |-> "new", read |-> NoStatus]
    BY <1>1 DEF IssuesInit
  <2>2. call[r] \in Calls /\ call[r].body = b /\ call[r].phase = "new"
    BY <2>1 DEF Calls
  <2>3. QED  BY <1>1, <2>1, <2>2 DEF IssuesInit
<1>3. call \in [IssueRequests -> Calls \union {NoCall}]
  BY <1>1, <1>2 DEF IssuesInit
<1>4. IssuesTypeOK
  BY <1>1, <1>3 DEF FeedInit, IssuesInit, IssuesTypeOK
<1>5. \A r \in IssueRequests : Sent(r)
  BY <1>2 DEF Sent, At
<1>6. OneCreates
  BY <1>1 DEF IssuesInit, OneCreates
<1>7. \A i \in IssueSet : LastTold(i) /\ CloserAnnounces(i)
  BY DEF FeedInit, LastTold, CloserAnnounces
<1>8. QED  BY <1>4, <1>5, <1>6, <1>7 DEF IssueInv

(* A request moves on to its next statement and asks for the same; others  *)
(* stay where they are.                                                    *)
LEMMA StepCall ==
  ASSUME IssueInv, NEW r \in IssueRequests, IssueStep(r)
  PROVE  /\ call' = [call EXCEPT ![r] = call'[r]]
         /\ call'[r] \in Calls /\ call'[r].body = call[r].body
         /\ call' \in [IssueRequests -> Calls \union {NoCall}]
         /\ \A q \in IssueRequests : call'[q].body = call[q].body
<1>1. call \in [IssueRequests -> Calls \union {NoCall}] /\ call[r] \in Calls
      /\ issue \in [IssueSet -> IssueStatuses \union {NoStatus}]
  BY CallTyped DEF IssueInv, IssuesTypeOK
<1>2. /\ call' = [call EXCEPT ![r] = call'[r]]
      /\ \/ \E p \in {"read", "notify", "done"} : call'[r] = [call[r] EXCEPT !.phase = p]
         \/ call'[r] = [call[r] EXCEPT !.phase = "event", !.read = issue[call[r].body.issue]]
  BY <1>1 DEF IssueStep, Reject, CreateIssue, UpdateIssue, ReadIssue, TellEvent, Announce, Attach, Become
<1>3. call'[r] \in Calls /\ call'[r].body = call[r].body
  <2>1. issue[call[r].body.issue] \in IssueStatuses \union {NoStatus}
    BY <1>1, CallTyped
  <2>2. QED  BY <1>1, <1>2, <2>1 DEF Calls
<1>4. QED  BY <1>1, <1>2, <1>3

(* The INSERT or UPDATE of a request.                                      *)
Writes(r) == CreateIssue(r) \/ UpdateIssue(r)

LEMMA WritesDo ==
  ASSUME IssueInv, NEW r \in IssueRequests, Writes(r)
  PROVE  LET b == call[r].body IN
         /\ At(r, "new") /\ call' = [call EXCEPT ![r].phase = "read"]
         /\ call'[r].phase = "read" /\ call'[r].read = call[r].read
         /\ UNCHANGED <<updates, closings, attached, lost>>
         /\ b.op = "create" \/ (b.op = "update" /\ issue[b.issue] # NoStatus)
         /\ \/ b.op = "update" /\ b.status = NoStatus /\ UNCHANGED <<issue, writer, stale>>
            \/ /\ b.status \in IssueStatuses
               /\ issue' = [issue EXCEPT ![b.issue] = b.status]
               /\ writer' = [writer EXCEPT ![b.issue] = r]
               /\ stale' = stale \union {q \in Of(b.issue) : At(q, "event") /\ call[q].read # b.status}
<1>1. /\ call[r] \in Calls /\ call[r].body.status \in IssueStatuses \union {NoStatus}
      /\ WellFormed(call[r].body)
      /\ call \in [IssueRequests -> Calls \union {NoCall}]
  BY CallTyped DEF Sent, IssueInv, IssuesTypeOK
<1>2. /\ WriteIssue(r) /\ At(r, "new") /\ call' = [call EXCEPT ![r].phase = "read"]
      /\ call[r].body.op = "create" \/ (call[r].body.op = "update" /\ issue[call[r].body.issue] # NoStatus)
  BY DEF Writes, CreateIssue, UpdateIssue, Asks, At, Become
<1>3. call'[r] = [call[r] EXCEPT !.phase = "read"]
  BY <1>1 DEF Writes, CreateIssue, UpdateIssue, Become
<1>4. call'[r].phase = "read" /\ call'[r].read = call[r].read
  BY <1>1, <1>3 DEF Calls
<1>5. UNCHANGED <<updates, closings, attached, lost>>
  BY <1>2 DEF WriteIssue
<1>6. CASE call[r].body.status = NoStatus
  <2>1. UNCHANGED <<issue, writer, stale>>
    BY <1>2, <1>6 DEF WriteIssue
  <2>2. call[r].body.op = "update"
    BY <1>1, <1>2, <1>6 DEF WellFormed
  <2>3. QED  BY <1>2, <1>4, <1>5, <1>6, <2>1, <2>2
<1>7. CASE call[r].body.status # NoStatus
  BY <1>1, <1>2, <1>4, <1>5, <1>7 DEF WriteIssue
<1>8. QED  BY <1>6, <1>7

(* Every other step leaves the issues: a refusal or an attachment, the     *)
(* second read, the event, the notification.                               *)
Refuses(r) == At(r, "new") /\ call'[r].phase = "done" /\ UNCHANGED <<updates, closings, lost>>

Rereads(r) ==
  /\ At(r, "read") /\ call'[r].phase = "event" /\ call'[r].read = issue[call[r].body.issue]
  /\ UNCHANGED <<updates, closings, lost>>

Tells(r) ==
  LET b == call[r].body IN
  /\ At(r, "event") /\ call'[r].read = call[r].read
  /\ call'[r].phase = IF b.op = "create" \/ call[r].read = "closed" THEN "notify" ELSE "done"
  /\ UNCHANGED closings
  /\ \/ /\ updates' = IF b.op = "create" THEN updates
                      ELSE [updates EXCEPT ![b.issue] = Append(@, [by |-> r, status |-> call[r].read])]
        /\ UNCHANGED lost
     \/ lost' = lost \union {b.issue} /\ UNCHANGED updates

Rings(r) ==
  /\ At(r, "notify") /\ call'[r].phase = "done" /\ UNCHANGED updates
  /\ \/ closings' = (IF call[r].body.op = "create" THEN closings ELSE closings \union {r}) /\ UNCHANGED lost
     \/ lost' = lost \union {call[r].body.issue} /\ UNCHANGED closings

LEMMA OthersDo ==
  ASSUME IssueInv, NEW r \in IssueRequests, IssueStep(r), ~Writes(r)
  PROVE  /\ UNCHANGED <<issue, writer, stale>> /\ attached' \subseteq IssueRequests
         /\ Refuses(r) \/ Rereads(r) \/ Tells(r) \/ Rings(r)
<1>1. /\ call[r] \in Calls /\ call \in [IssueRequests -> Calls \union {NoCall}]
      /\ attached \subseteq IssueRequests
      /\ issue[call[r].body.issue] \in IssueStatuses \union {NoStatus}
  BY CallTyped DEF IssueInv, IssuesTypeOK
<1>2. \A p \in {"notify", "done"} : Become(r, p) => call'[r].phase = p /\ call'[r].read = call[r].read
  BY <1>1 DEF Become, Calls
<1>3. CASE Reject(r) \/ Attach(r)
  BY <1>1, <1>2, <1>3 DEF Reject, Attach, Refuses, Asks, At
<1>4. CASE ReadIssue(r)
  <2>1. call'[r] = [call[r] EXCEPT !.phase = "event", !.read = issue[call[r].body.issue]]
    BY <1>1, <1>4 DEF ReadIssue
  <2>2. call'[r].phase = "event" /\ call'[r].read = issue[call[r].body.issue]
    BY <1>1, <2>1 DEF Calls
  <2>3. QED  BY <1>1, <1>4, <2>2 DEF ReadIssue, Rereads
<1>5. CASE TellEvent(r)
  BY <1>1, <1>2, <1>5 DEF TellEvent, Tells
<1>6. CASE Announce(r)
  BY <1>1, <1>2, <1>6 DEF Announce, Rings
<1>7. QED  BY <1>3, <1>4, <1>5, <1>6 DEF IssueStep, Writes

LEMMA StepIssueTyped ==
  ASSUME IssueInv, NEW r \in IssueRequests, IssueStep(r)
  PROVE  IssuesTypeOK'
<1>1. IssuesTypeOK /\ call[r].body.issue \in IssueSet
  BY CallTyped DEF IssueInv
<1>2. call' \in [IssueRequests -> Calls \union {NoCall}] /\ about' \in {"tasks", "issues"}
  BY <1>1, StepCall DEF IssueStep, IssuesTypeOK
<1>3. CASE Writes(r)
  <2>1. /\ UNCHANGED <<updates, closings, attached, lost>>
        /\ \/ UNCHANGED <<issue, writer, stale>>
           \/ /\ call[r].body.status \in IssueStatuses
              /\ issue' = [issue EXCEPT ![call[r].body.issue] = call[r].body.status]
              /\ writer' = [writer EXCEPT ![call[r].body.issue] = r]
              /\ stale' \subseteq stale \union Of(call[r].body.issue)
    BY <1>3, WritesDo
  <2>2. Of(call[r].body.issue) \subseteq IssueRequests
    BY DEF Of
  <2>3. /\ issue' \in [IssueSet -> IssueStatuses \union {NoStatus}] /\ stale' \subseteq IssueRequests
        /\ writer' \in [IssueSet -> IssueRequests \union {NoCall}]
    BY <1>1, <2>1, <2>2 DEF IssuesTypeOK
  <2>4. QED  BY <1>1, <1>2, <2>1, <2>3 DEF IssuesTypeOK
<1>4. CASE ~Writes(r)
  <2>1. /\ UNCHANGED <<issue, writer, stale>> /\ attached' \subseteq IssueRequests
        /\ Refuses(r) \/ Rereads(r) \/ Tells(r) \/ Rings(r)
    BY <1>4, OthersDo
  <2>2. closings' \subseteq IssueRequests /\ lost' \subseteq IssueSet
    BY <1>1, <2>1 DEF IssuesTypeOK, Refuses, Rereads, Tells, Rings
  <2>3. updates' \in [IssueSet -> Seq([by : IssueRequests, status : IssueStatuses])]
    <3>1. CASE Tells(r)
      <4>1. call[r].read \in IssueStatuses
        BY <3>1, CallTyped DEF Tells, Sent
      <4>2. [by |-> r, status |-> call[r].read] \in [by : IssueRequests, status : IssueStatuses]
        BY <4>1
      <4>3. /\ updates \in [IssueSet -> Seq([by : IssueRequests, status : IssueStatuses])]
            /\ updates[call[r].body.issue] \in Seq([by : IssueRequests, status : IssueStatuses])
        BY <1>1 DEF IssuesTypeOK
      <4>4. Append(updates[call[r].body.issue], [by |-> r, status |-> call[r].read])
              \in Seq([by : IssueRequests, status : IssueStatuses])
        BY <4>2, <4>3
      <4>5. QED  BY <1>1, <3>1, <4>3, <4>4 DEF Tells
    <3>2. QED  BY <1>1, <2>1, <3>1 DEF IssuesTypeOK, Refuses, Rereads, Rings
  <2>4. QED  BY <1>1, <1>2, <2>1, <2>2, <2>3 DEF IssuesTypeOK
<1>5. QED  BY <1>3, <1>4

LEMMA StepSent ==
  ASSUME IssueInv, NEW r \in IssueRequests, IssueStep(r), NEW q \in IssueRequests
  PROVE  Sent(q)'
<1>1. /\ Sent(q) /\ Sent(r) /\ OneCreates
      /\ call[q].body.issue \in IssueSet /\ call[r].body.issue \in IssueSet
      /\ issue \in [IssueSet -> IssueStatuses \union {NoStatus}]
      /\ call \in [IssueRequests -> Calls \union {NoCall}]
  BY CallTyped DEF IssueInv, IssuesTypeOK
<1>2. /\ call'[q] \in Calls /\ call'[q].body = call[q].body
      /\ q # r => call'[q] = call[q]
  BY <1>1, StepCall DEF Sent
<1>3. WellFormed(call'[q].body) /\ (At(q, "new")' => q # r \/ call'[r].phase = "new")
  BY <1>1, <1>2 DEF Sent, At
<1>4. CASE Writes(r)
  <2>1. /\ At(r, "new") /\ call'[r].phase = "read"
        /\ call[r].body.op = "create" \/ (call[r].body.op = "update" /\ issue[call[r].body.issue] # NoStatus)
        /\ \/ call[r].body.op = "update" /\ UNCHANGED <<issue, stale>>
           \/ /\ call[r].body.status \in IssueStatuses
              /\ issue' = [issue EXCEPT ![call[r].body.issue] = call[r].body.status]
              /\ stale' = stale \union {p \in Of(call[r].body.issue) :
                                          At(p, "event") /\ call[p].read # call[r].body.status}
    BY <1>4, WritesDo
  <2>2. CASE q = r
    <3>1. issue'[call[r].body.issue] # NoStatus /\ call[r].body.op # "attach"
      BY <1>1, <2>1, IssueStatusAssumption
    <3>2. QED  BY <1>2, <1>3, <2>1, <2>2, <3>1 DEF Sent, At
  <2>3. CASE q # r
    <3>1. At(q, "new") /\ call[q].body.op = "create" => issue'[call[q].body.issue] = NoStatus
      BY <1>1, <2>1, <2>3 DEF Sent, OneCreates
    <3>2. issue[call[q].body.issue] # NoStatus => issue'[call[q].body.issue] # NoStatus
      BY <1>1, <2>1, IssueStatusAssumption
    <3>3. At(q, "event") /\ q \notin stale' => call[q].read = issue'[call[q].body.issue]
      BY <1>1, <2>1 DEF Sent, Of
    <3>4. QED  BY <1>1, <1>2, <1>3, <2>3, <3>1, <3>2, <3>3 DEF Sent, At
  <2>4. QED  BY <2>2, <2>3
<1>5. CASE ~Writes(r)
  <2>1. /\ UNCHANGED <<issue, stale>>
        /\ Refuses(r) \/ Rereads(r) \/ Tells(r) \/ Rings(r)
    BY <1>5, OthersDo
  <2>2. CASE q = r
    <3>1. issue[call[r].body.issue] \in IssueStatuses \union {NoStatus}
      BY <1>1
    <3>2. QED  BY <1>1, <1>2, <1>3, <2>1, <2>2, <3>1 DEF Sent, At, Refuses, Rereads, Tells, Rings
  <2>3. CASE q # r
    BY <1>1, <1>2, <2>1, <2>3 DEF Sent, At
  <2>4. QED  BY <2>2, <2>3
<1>6. QED  BY <1>4, <1>5

Teller(q, i) ==
  /\ call[q].body.op = "update" /\ call[q].body.issue = i
  /\ call[q].phase \in {"read", "event"}

(* Who is still to tell of an issue is so until it has told.               *)
LEMMA TellersStay ==
  ASSUME IssueInv, NEW r \in IssueRequests, IssueStep(r), NEW i \in IssueSet, NEW q \in IssueRequests,
         Teller(q, i), q # r \/ ~Tells(r) \/ Writes(r)
  PROVE  Teller(q, i)'
<1>1. /\ call'[q].body = call[q].body /\ (q # r => call'[q] = call[q])
      /\ call \in [IssueRequests -> Calls \union {NoCall}]
  BY StepCall DEF IssueInv, IssuesTypeOK
<1>2. CASE q = r
  <2>1. ~At(r, "new") /\ ~At(r, "notify")
    BY <1>2 DEF Teller, At
  <2>2. ~Writes(r)
    BY <2>1, WritesDo
  <2>3. Rereads(r)
    BY <1>2, <2>1, <2>2, OthersDo DEF Refuses, Rings
  <2>4. QED  BY <1>1, <1>2, <2>3 DEF Teller, Rereads
<1>3. QED  BY <1>1, <1>2 DEF Teller

LEMMA StepLastTold ==
  ASSUME IssueInv, NEW r \in IssueRequests, IssueStep(r), NEW i \in IssueSet
  PROVE  LastTold(i)'
<1> DEFINE b == call[r].body
<1>1. /\ LastTold(i) /\ Sent(r) /\ b.issue \in IssueSet
      /\ issue \in [IssueSet -> IssueStatuses \union {NoStatus}]
      /\ updates \in [IssueSet -> Seq([by : IssueRequests, status : IssueStatuses])]
      /\ call'[r].body = b
  BY CallTyped, StepCall DEF IssueInv, IssuesTypeOK
<1>2. CASE Writes(r)
  <2>1. /\ At(r, "new") /\ call'[r].phase = "read" /\ UNCHANGED <<updates, lost>>
        /\ b.op = "create" \/ (b.op = "update" /\ issue[b.issue] # NoStatus)
        /\ \/ UNCHANGED <<issue, stale>>
           \/ /\ b.status \in IssueStatuses /\ issue' = [issue EXCEPT ![b.issue] = b.status]
              /\ stale \subseteq stale'
    BY <1>2, WritesDo
  <2>2. issue'[i] = NoStatus => updates[i] = <<>>
    BY <1>1, <2>1, IssueStatusAssumption DEF LastTold
  <2>3. \A q \in IssueRequests : Teller(q, i) => Teller(q, i)'
    BY <1>2, TellersStay
  <2>4. CASE issue'[i] = issue[i]
    BY <1>1, <2>1, <2>2, <2>3, <2>4 DEF LastTold, Teller
  <2>5. CASE issue'[i] # issue[i]
    <3>1. i = b.issue
      BY <1>1, <2>1, <2>5
    <3>2. b.op = "create" => updates[i] = <<>>
      BY <1>1, <2>1, <3>1 DEF Sent, LastTold
    <3>3. b.op = "update" => Teller(r, i)'
      BY <1>1, <2>1, <3>1 DEF Teller
    <3>4. QED  BY <2>1, <2>2, <3>2, <3>3 DEF LastTold, Teller
  <2>6. QED  BY <2>4, <2>5
<1>3. CASE ~Writes(r) /\ ~Tells(r)
  <2>1. /\ UNCHANGED <<issue, writer, stale>>
        /\ Refuses(r) \/ Rereads(r) \/ Rings(r)
    BY <1>3, OthersDo
  <2>2. updates' = updates /\ lost \subseteq lost'
    BY <2>1 DEF Refuses, Rereads, Rings
  <2>3. \A q \in IssueRequests : Teller(q, i) => Teller(q, i)'
    BY <1>3, TellersStay
  <2>4. QED  BY <1>1, <2>1, <2>2, <2>3 DEF LastTold, Teller
<1>4. CASE ~Writes(r) /\ Tells(r)
  <2>1. UNCHANGED <<issue, writer, stale>>
    BY <1>4, OthersDo
  <2>2. \A q \in IssueRequests \ {r} : Teller(q, i) => Teller(q, i)'
    BY TellersStay
  <2>3. At(r, "event") /\ lost \subseteq lost'
    BY <1>4 DEF Tells
  <2>4. CASE updates'[i] = updates[i]
    <3>1. CASE Teller(r, i) /\ i \notin lost'
      <4>1. updates' = [updates EXCEPT ![i] = Append(@, [by |-> r, status |-> call[r].read])]
        BY <1>4, <3>1 DEF Tells, Teller
      <4>2. updates'[i] = Append(updates[i], [by |-> r, status |-> call[r].read])
        BY <1>1, <4>1
      <4>3. Len(updates'[i]) = Len(updates[i]) + 1 /\ Len(updates[i]) \in Nat
        BY <1>1, <4>2
      <4>4. QED  BY <2>4, <4>3
    <3>2. CASE ~Teller(r, i) \/ i \in lost'
      BY <1>1, <2>1, <2>2, <2>3, <2>4, <3>2 DEF LastTold, Teller
    <3>3. QED  BY <3>1, <3>2
  <2>5. CASE updates'[i] # updates[i]
    <3>1. /\ i = b.issue /\ b.op # "create"
          /\ updates' = [updates EXCEPT ![i] = Append(@, [by |-> r, status |-> call[r].read])]
      BY <1>1, <1>4, <2>5 DEF Tells
    <3>2. updates'[i] = Append(updates[i], [by |-> r, status |-> call[r].read])
      BY <1>1, <3>1
    <3>3. /\ Len(updates'[i]) = Len(updates[i]) + 1 /\ Len(updates[i]) \in Nat
          /\ updates'[i][Len(updates[i]) + 1] = [by |-> r, status |-> call[r].read]
      BY <1>1, <3>2
    <3>4. r \notin stale => call[r].read = issue[i]
      BY <1>1, <2>3, <3>1 DEF Sent
    <3>5. issue[i] # NoStatus
      BY <1>1, <2>3, <3>1 DEF Sent, At
    <3>6. QED  BY <2>1, <3>3, <3>4, <3>5 DEF LastTold
  <2>6. QED  BY <2>4, <2>5
<1>5. QED  BY <1>2, <1>3, <1>4

LEMMA StepCloserAnnounces ==
  ASSUME IssueInv, NEW r \in IssueRequests, IssueStep(r), NEW i \in IssueSet
  PROVE  CloserAnnounces(i)'
<1> DEFINE b == call[r].body
<1>1. /\ CloserAnnounces(i) /\ Sent(r) /\ b.issue \in IssueSet
      /\ issue \in [IssueSet -> IssueStatuses \union {NoStatus}]
      /\ writer \in [IssueSet -> IssueRequests \union {NoCall}]
      /\ \A q \in IssueRequests : call'[q].body = call[q].body
      /\ \A q \in IssueRequests \ {r} : call'[q] = call[q]
  BY CallTyped, StepCall DEF IssueInv, IssuesTypeOK
<1>2. CASE Writes(r) /\ writer'[i] # writer[i]
  <2>1. /\ call'[r].phase = "read" /\ writer' = [writer EXCEPT ![b.issue] = r]
    BY <1>2, WritesDo
  <2>2. writer'[i] = r /\ b.issue = i
    BY <1>1, <1>2, <2>1
  <2>3. Announces(r)'
    BY <2>1 DEF Announces, At
  <2>4. QED  BY <1>1, <2>2, <2>3 DEF CloserAnnounces
<1>3. CASE Writes(r) /\ writer'[i] = writer[i] /\ writer[i] # NoCall
  <2>1. /\ At(r, "new") /\ call'[r].phase = "read" /\ UNCHANGED <<closings, lost>>
        /\ \/ UNCHANGED issue
           \/ /\ issue' = [issue EXCEPT ![b.issue] = b.status]
              /\ writer' = [writer EXCEPT ![b.issue] = r]
    BY <1>3, WritesDo
  <2>2. CASE writer[i] = r
    <3>1. Announces(r)'
      BY <2>1 DEF Announces, At
    <3>2. QED  BY <1>1, <1>3, <2>2, <3>1 DEF CloserAnnounces
  <2>3. CASE writer[i] # r
    <3>1. issue'[i] = issue[i]
      BY <1>1, <1>3, <2>1, <2>3
    <3>2. writer[i] \in IssueRequests \ {r}
      BY <1>1, <1>3, <2>3
    <3>3. Announces(writer[i]) => Announces(writer[i])'
      BY <1>1, <1>3, <2>1, <3>2 DEF Announces, At
    <3>4. QED  BY <1>1, <1>3, <2>1, <3>1, <3>2, <3>3 DEF CloserAnnounces
  <2>4. QED  BY <2>2, <2>3
<1>4. CASE ~Writes(r) /\ writer[i] # NoCall
  <2>1. /\ UNCHANGED <<issue, writer, stale>>
        /\ Refuses(r) \/ Rereads(r) \/ Tells(r) \/ Rings(r)
    BY <1>4, OthersDo
  <2>2. closings \subseteq closings' /\ lost \subseteq lost'
    BY <2>1 DEF Refuses, Rereads, Tells, Rings
  <2>3. writer[i] \in IssueRequests
    BY <1>1, <1>4
  <2>4. CASE writer[i] # r
    <3>1. Announces(writer[i]) => Announces(writer[i])'
      BY <1>1, <2>1, <2>2, <2>3, <2>4 DEF Announces, At
    <3>2. QED  BY <1>1, <1>4, <2>1, <2>2, <2>3, <3>1 DEF CloserAnnounces
  <2>5. CASE writer[i] = r
    <3>1. SUFFICES ASSUME i \notin lost', issue[i] = "closed", b.op = "update"
                   PROVE  Announces(r)'
      BY <1>1, <1>4, <2>1, <2>3, <2>5 DEF CloserAnnounces
    <3>2. Announces(r) /\ b.issue = i
      BY <1>1, <1>4, <2>2, <2>5, <3>1 DEF CloserAnnounces
    <3>3. CASE r \in closings
      BY <2>2, <3>3 DEF Announces
    <3>4. CASE At(r, "read")
      BY <2>1, <3>1, <3>2, <3>4 DEF Announces, At, Refuses, Rereads, Tells, Rings
    <3>5. CASE At(r, "event") /\ call[r].read = "closed"
      BY <2>1, <3>1, <3>2, <3>5 DEF Announces, At, Refuses, Rereads, Tells, Rings
    <3>6. CASE At(r, "notify")
      BY <2>1, <3>1, <3>2, <3>6 DEF Announces, At, Refuses, Rereads, Tells, Rings
    <3>7. QED  BY <3>2, <3>3, <3>4, <3>5, <3>6 DEF Announces
  <2>6. QED  BY <2>4, <2>5
<1>5. CASE ~Writes(r) /\ writer[i] = NoCall
  <2>1. UNCHANGED writer
    BY <1>5, OthersDo
  <2>2. QED  BY <1>5, <2>1 DEF CloserAnnounces
<1>6. CASE Writes(r) /\ writer'[i] = writer[i] /\ writer[i] = NoCall
  BY <1>6 DEF CloserAnnounces
<1>7. QED  BY <1>2, <1>3, <1>4, <1>5, <1>6

LEMMA StepIssueInv ==
  ASSUME IssueInv, NEW r \in IssueRequests, IssueStep(r)
  PROVE  IssueInv'
<1>1. OneCreates'
  BY StepCall DEF IssueInv, OneCreates
<1>2. QED  BY <1>1, StepIssueTyped, StepSent, StepLastTold, StepCloserAnnounces DEF IssueInv

IssueFeedInv == about = "issues" => IssueInv

LEMMA StepIssueFeedInv == IssueFeedInv /\ [FeedNext]_feedVars => IssueFeedInv'
<1> SUFFICES ASSUME IssueFeedInv, [FeedNext]_feedVars PROVE IssueFeedInv'
  OBVIOUS
<1>1. CASE \E r \in IssueRequests : IssueStep(r)
  BY <1>1, StepIssueInv DEF IssueFeedInv, IssueStep
<1>2. CASE (\E r \in Requests : TaskStep(r)) \/ UNCHANGED feedVars
  <2>1. UNCHANGED <<about, issueVars>>
    BY <1>2 DEF TaskStep, feedVars
  <2>2. IssuesTypeOK /\ OneCreates => IssuesTypeOK' /\ OneCreates'
    BY <2>1 DEF issueVars, IssuesTypeOK, OneCreates
  <2>3. \A r \in IssueRequests : Sent(r) => Sent(r)'
    BY <2>1 DEF issueVars, Sent, At
  <2>4. \A i \in IssueSet : LastTold(i) /\ CloserAnnounces(i) => LastTold(i)' /\ CloserAnnounces(i)'
    BY <2>1 DEF issueVars, LastTold, CloserAnnounces, Announces, At
  <2>5. QED  BY <2>1, <2>2, <2>3, <2>4 DEF IssueFeedInv, IssueInv
<1>3. QED  BY <1>1, <1>2 DEF FeedNext

(* Once the requests on an issue are done, what is still owed was told.    *)
LEMMA SettledTells ==
  ASSUME IssueInv, NEW i \in IssueSet, Settled(i)
  PROVE  /\ \A k \in {Len(updates[i])} \ {0} :
              updates[i][k].by \notin stale => updates[i][k].status = issue[i]
         /\ writer[i] # NoCall /\ issue[i] = "closed" /\ call[writer[i]].body.op = "update"
              => writer[i] \in closings
<1>1. /\ LastTold(i) /\ CloserAnnounces(i) /\ i \notin lost
      /\ \A r \in IssueRequests : call[r].body.issue = i => call[r].phase \in {"done", "new"}
  BY DEF IssueInv, Settled, Of, At
<1>2. /\ updates[i] \in Seq([by : IssueRequests, status : IssueStatuses])
      /\ writer[i] \in IssueRequests \union {NoCall}
  BY DEF IssueInv, IssuesTypeOK
<1>3. ASSUME NEW k \in {Len(updates[i])} \ {0}, updates[i][k].by \notin stale
      PROVE  updates[i][k].status = issue[i]
  <2>1. updates[i] # <<>>
    BY <1>2, <1>3
  <2>2. QED  BY <1>1, <1>3, <2>1 DEF LastTold
<1>4. ASSUME writer[i] # NoCall, issue[i] = "closed", call[writer[i]].body.op = "update"
      PROVE  writer[i] \in closings
  BY <1>1, <1>2, <1>4 DEF CloserAnnounces, Announces, At
<1>5. QED  BY <1>3, <1>4

(* The latest event of an issue tells the status it has once its requests  *)
(* are done, unless it was stale when it was written; whoever closed the   *)
(* issue last has announced it, whatever ran between its two reads.        *)
THEOREM FeedTellsOfIssues == FeedSpec => []FeedTellsIssue
<1>1. FeedInit => IssueFeedInv
  BY InitIssueInv DEF IssueFeedInv
<1>2. IssueFeedInv => FeedTellsIssue
  BY SettledTells DEF IssueFeedInv, FeedTellsIssue
<1>3. QED  BY <1>1, <1>2, StepIssueFeedInv, PTL DEF FeedSpec

(* The types of the issues' state, in a behaviour about issues: events     *)
(* name a status an issue can have, although it is read back from the row. *)
THEOREM IssuesTyped == FeedSpec => [](about = "issues" => IssuesTypeOK)
<1>1. FeedInit => IssueFeedInv
  BY InitIssueInv DEF IssueFeedInv
<1>2. IssueFeedInv => (about = "issues" => IssuesTypeOK)
  BY DEF IssueFeedInv, IssueInv
<1>3. QED  BY <1>1, <1>2, StepIssueFeedInv, PTL DEF FeedSpec
=============================================================================
