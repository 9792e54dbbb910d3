------------------------------ MODULE TaskWrites ------------------------------
(***************************************************************************)
(* POST /tasks and PATCH /tasks/{id} of app/tasks/router.py with the       *)
(* activity feed (app/events/log.py) and the notifications                 *)
(* (app/notifications/service.py) they write inside their transactions.    *)
(*                                                                         *)
(* Transactions are READ COMMITTED: every statement takes its snapshot     *)
(* when it starts and then waits for the row locks of open transactions.   *)
(* Both emit functions catch every error, but a statement that failed has  *)
(* aborted the transaction: later statements fail too, and the COMMIT that *)
(* the handler sends at the end rolls back without raising.                *)
(*                                                                         *)
(* Collaborators are replaced the way assignees are and are left out.      *)
(***************************************************************************)
EXTENDS Naturals, Sequences, TaskGraph

CONSTANTS
  Requests, Nobody,    \* who has inserted a row; rows there from the start
  Tasks,
  Users,
  Statuses, NoStatus,  \* task statuses; a request that names none
  Assignments, Keep,   \* lists of assignees asked for; a body without the key
  AuthOff,             \* ENABLE_AUTH is off: a request may be anonymous
  FeedFails            \* whether INSERTs into events and notifications may fail

ASSUME AssignmentsAssumption == Assignments \subseteq Seq(Users) /\ Keep \notin Assignments
ASSUME NobodyAssumption == Nobody \notin Requests
ASSUME StatusAssumption == NoStatus \notin Statuses
ASSUME SwitchAssumption == AuthOff \in BOOLEAN /\ FeedFails \in BOOLEAN

VARIABLES
  body,       \* per request: what it asks for
  phase,      \* per request: its next statement
  tx,         \* per request: what its transaction did so far
  status,     \* per task: its committed status, NoStatus while there is no row
  assigned,   \* committed rows of task_assignees, with who inserted them
  committed,  \* requests whose changes were committed
  feed,       \* requests with a row in events
  bell,       \* requests with rows in notifications
  answer,     \* per request
  overlap     \* per request: requests open at the same time

vars == <<body, phase, tx, status, assigned, committed, feed, bell, answer, overlap>>

(* A row that was deleted and inserted again is another row of the same    *)
(* key.                                                                    *)
Rows == Tasks \X Users \X (Requests \union {Nobody})
Key(row) == <<row[1], row[2]>>
Keys(rows) == {Key(row) : row \in rows}

OpenPhases == {"delete", "deleting", "assign", "event", "notify", "commit"}
EmptyTx == [dels |-> {}, ins |-> {}, rest |-> <<>>, logged |-> FALSE, rung |-> FALSE,
            aborted |-> FALSE]

Bodies == [create : BOOLEAN, task : Tasks, fields : BOOLEAN, status : Statuses \union {NoStatus},
           assignees : Assignments \union {Keep}, anonymous : BOOLEAN, project : BOOLEAN]

(* A new task has a status; a status is a field; something is to be done.  *)
(* Only POST /tasks passes the anonymous stand-in on: PATCH has no user    *)
(* then.                                                                   *)
ValidBody(b) ==
  /\ b.create => b.fields /\ b.status # NoStatus /\ b.assignees # Keep
  /\ b.status # NoStatus => b.fields
  /\ b.fields \/ b.assignees # Keep
  /\ b.anonymous => AuthOff /\ b.create

TypeOK ==
  /\ body \in [Requests -> Bodies]
  /\ phase \in [Requests -> OpenPhases \union {"new", "done"}]
  /\ tx \in [Requests -> [dels : SUBSET Rows, ins : SUBSET Rows, rest : Seq(Users),
                          logged : BOOLEAN, rung : BOOLEAN, aborted : BOOLEAN]]
  /\ status \in [Tasks -> Statuses \union {NoStatus}]
  /\ assigned \subseteq Rows
  /\ committed \subseteq Requests
  /\ feed \subseteq Requests
  /\ bell \subseteq Requests
  /\ answer \in [Requests -> {"none", "ok", "error"}]
  /\ overlap \in [Requests -> SUBSET Requests]

(* Every request that creates a task creates one of its own.               *)
Created == {body[r].task : r \in {q \in Requests : body[q].create}}

Init ==
  /\ body \in [Requests -> {b \in Bodies : ValidBody(b)}]
  /\ \A r, q \in Requests : r # q /\ body[r].create /\ body[q].create => body[r].task # body[q].task
  /\ phase = [r \in Requests |-> "new"]
  /\ tx = [r \in Requests |-> EmptyTx]
  /\ status \in [Tasks -> Statuses \union {NoStatus}]
  /\ \A t \in Tasks : status[t] = NoStatus <=> t \in Created
  /\ assigned \in SUBSET {row \in Rows : row[1] \notin Created /\ row[3] = Nobody}
  /\ committed = {}
  /\ feed = {}
  /\ bell = {}
  /\ answer = [r \in Requests |-> "none"]
  /\ overlap = [r \in Requests |-> {}]

Open == {r \in Requests : phase[r] \in OpenPhases}
KeepTables == UNCHANGED <<body, status, assigned, committed, feed, bell, answer>>

TaskRows(t) == {row \in assigned : row[1] = t}
NextRow(r) == <<body[r].task, Head(tx[r].rest), r>>

(* r's statement needs a row that the open transaction of q has locked:    *)
(* the task's row, an assignee row q deletes, a key q inserts.             *)
WaitsFor(r, q) ==
  /\ q \in Open \ {r}
  /\ \/ /\ phase[r] = "new" /\ ~body[r].create /\ body[r].fields
        /\ body[q].fields /\ body[q].task = body[r].task
     \/ phase[r] = "deleting" /\ tx[r].dels \intersect tx[q].dels # {} /\ phase[q] # "deleting"
     \/ phase[r] = "assign" /\ tx[r].rest # <<>> /\ Key(NextRow(r)) \in Keys(tx[q].ins)
     \/ phase[r] = "assign" /\ tx[r].rest # <<>> /\ Key(NextRow(r)) \in Keys(tx[q].dels)
        /\ phase[q] # "deleting"

Blocked(r) == \E q \in Requests : WaitsFor(r, q)

-----------------------------------------------------------------------------
(* The transaction begins.                                                 *)
Begin(r, p) ==
  /\ phase[r] = "new"
  /\ phase' = [phase EXCEPT ![r] = p]
  /\ overlap' = [q \in Requests |-> IF q = r THEN Open
                                    ELSE IF q \in Open THEN overlap[q] \union {r} ELSE overlap[q]]

(* POST: the INSERT of the task.                                           *)
InsertTask(r) ==
  /\ body[r].create
  /\ Begin(r, "assign")
  /\ tx' = [tx EXCEPT ![r].rest = body[r].assignees]
  /\ KeepTables

(* PATCH: UPDATE of the task's row, which stays locked until the end, or   *)
(* without fields a SELECT, which locks nothing.                           *)
AfterTask(r) == IF body[r].assignees # Keep THEN "delete"
                ELSE IF body[r].status # NoStatus THEN "event" ELSE "commit"

UpdateTaskUnlocked(r) ==
  /\ ~body[r].create /\ status[body[r].task] # NoStatus
  /\ Begin(r, AfterTask(r))
  /\ UNCHANGED tx
  /\ KeepTables

UpdateTask(r) ==
  /\ ~body[r].create /\ status[body[r].task] # NoStatus
  /\ ~Blocked(r)
  /\ Begin(r, AfterTask(r))
  /\ UNCHANGED tx
  /\ KeepTables

(* DELETE FROM task_assignees WHERE task_id: the rows it finds when it     *)
(* starts, once no other transaction is deleting them, as far as they are  *)
(* still there.  It does not see rows inserted meanwhile, not even in      *)
(* their place.                                                            *)
StartDelete(r) ==
  /\ phase[r] = "delete"
  /\ phase' = [phase EXCEPT ![r] = "deleting"]
  /\ tx' = [tx EXCEPT ![r].dels = TaskRows(body[r].task)]
  /\ UNCHANGED overlap
  /\ KeepTables

EndDelete(r) ==
  /\ phase[r] = "deleting"
  /\ ~Blocked(r)
  /\ phase' = [phase EXCEPT ![r] = "assign"]
  /\ tx' = [tx EXCEPT ![r].dels = @ \intersect assigned, ![r].rest = body[r].assignees]
  /\ UNCHANGED overlap
  /\ KeepTables

(* INSERT of one assignee, ON CONFLICT DO NOTHING.                         *)
Assign(r) ==
  /\ phase[r] = "assign" /\ tx[r].rest # <<>>
  /\ ~Blocked(r)
  /\ tx' = [tx EXCEPT ![r].rest = Tail(@),
                      ![r].ins = IF Key(NextRow(r)) \in Keys(assigned \ tx[r].dels) THEN @
                                 ELSE @ \union {NextRow(r)}]
  /\ UNCHANGED <<phase, overlap>>
  /\ KeepTables

AssignedAll(r) ==
  /\ phase[r] = "assign" /\ tx[r].rest = <<>>
  /\ phase' = [phase EXCEPT ![r] = IF body[r].status # NoStatus THEN "event" ELSE "commit"]
  /\ UNCHANGED <<tx, overlap>>
  /\ KeepTables

(* events_log.emit.  The stand-in user has no users row: its id breaks the *)
(* foreign key of actor_id.                                                *)
AfterEvent(r) == IF body[r].create THEN "notify" ELSE "commit"

EmitEvent(r) ==
  /\ phase[r] = "event"
  /\ phase' = [phase EXCEPT ![r] = AfterEvent(r)]
  /\ \/ ~tx[r].aborted /\ ~body[r].anonymous /\ tx' = [tx EXCEPT ![r].logged = TRUE]
     \/ (tx[r].aborted \/ body[r].anonymous \/ FeedFails) /\ tx' = [tx EXCEPT ![r].aborted = TRUE]
  /\ UNCHANGED overlap
  /\ KeepTables

(* notifications emit, for a new task only.  A task of a shot or an asset  *)
(* need not name its project, which notifications.project_id requires.     *)
EmitNotification(r) ==
  /\ phase[r] = "notify"
  /\ phase' = [phase EXCEPT ![r] = "commit"]
  /\ \/ ~tx[r].aborted /\ body[r].project /\ tx' = [tx EXCEPT ![r].rung = TRUE]
     \/ (tx[r].aborted \/ ~body[r].project \/ FeedFails) /\ tx' = [tx EXCEPT ![r].aborted = TRUE]
  /\ UNCHANGED overlap
  /\ KeepTables

(* COMMIT, which rolls an aborted transaction back; 200 in either case.    *)
Kept(r, set, flag) == IF flag /\ ~tx[r].aborted THEN set \union {r} ELSE set

Commit(r) ==
  /\ phase[r] = "commit"
  /\ phase' = [phase EXCEPT ![r] = "done"]
  /\ answer' = [answer EXCEPT ![r] = "ok"]
  /\ committed' = Kept(r, committed, TRUE)
  /\ feed' = Kept(r, feed, tx[r].logged)
  /\ bell' = Kept(r, bell, tx[r].rung)
  /\ status' = IF body[r].status # NoStatus /\ ~tx[r].aborted
                 THEN [status EXCEPT ![body[r].task] = body[r].status] ELSE status
  /\ assigned' = IF tx[r].aborted THEN assigned ELSE (assigned \ tx[r].dels) \union tx[r].ins
  /\ UNCHANGED <<body, tx, overlap>>

(* A request that ends without its changes.                                *)
GiveUp(r) ==
  /\ phase' = [phase EXCEPT ![r] = "done"]
  /\ answer' = [answer EXCEPT ![r] = "error"]
  /\ UNCHANGED <<body, tx, status, assigned, committed, feed, bell, overlap>>

(* PATCH of a task that is not there (yet): 404.                           *)
NotFound(r) ==
  /\ phase[r] = "new" /\ ~body[r].create /\ status[body[r].task] = NoStatus
  /\ GiveUp(r)

(* A foreign key or a CHECK fails the INSERT or UPDATE of the task, or the  *)
(* INSERT of an assignee who is no user: the error leaves the transaction, *)
(* ROLLBACK, 400 or 500.                                                   *)
RefuseSwallowed(r) ==
  /\ phase[r] = "assign" /\ tx[r].rest # <<>>
  /\ tx' = [tx EXCEPT ![r].rest = Tail(@), ![r].aborted = TRUE]
  /\ UNCHANGED <<phase, overlap>>
  /\ KeepTables

Refuse(r) ==
  /\ \/ phase[r] = "new" /\ body[r].fields
     \/ phase[r] = "assign" /\ tx[r].rest # <<>>
  /\ GiveUp(r)

(* The database ends a circle of waiting transactions by failing one of    *)
(* them; its statement raises, ROLLBACK, 500.                              *)
Waits == {w \in Requests \X Requests : WaitsFor(w[1], w[2])}

DeadlockVictim(r) ==
  /\ \E q \in Requests : WaitsFor(r, q) /\ Reachable(r, q, Waits, Requests)
  /\ GiveUp(r)

Step(r) ==
  \/ UpdateTask(r) \/ InsertTask(r) \/ NotFound(r)
  \/ StartDelete(r) \/ EndDelete(r) \/ Assign(r) \/ AssignedAll(r)
  \/ EmitEvent(r) \/ EmitNotification(r) \/ Commit(r)
  \/ Refuse(r) \/ DeadlockVictim(r)

Next == \E r \in Requests : Step(r)

Spec == Init /\ [][Next]_vars

-----------------------------------------------------------------------------
(* A write that is answered 200 and yet not there lost it to its own row   *)
(* of the feed or the bell, and to nothing else that can fail; and feed    *)
(* and bell tell of what is there, and of all of it: a status change and   *)
(* its event, a new task and its notification.                             *)
Untold(r) == (body[r].status # NoStatus /\ ~tx[r].logged) \/ (body[r].create /\ ~tx[r].rung)

FeedAloneLoses ==
  /\ \A r \in Requests : answer[r] = "ok" => r \in committed \/ Untold(r)
  /\ feed = {r \in committed : body[r].status # NoStatus}
  /\ bell = {r \in committed : body[r].create}

(* What app/events/log.py says of a new task: its INSERT does not roll     *)
(* back because events is down or missing.                                 *)
TaskOutlivesFeed ==
  \A r \in Requests : body[r].create /\ answer[r] = "ok" => r \in committed

(* A request that names assignees and changes a field leaves exactly the   *)
(* assignees it names, whatever runs with it: the lock on the task's row   *)
(* orders such requests.  One without fields takes no lock: its DELETE     *)
(* misses the rows of a request that commits meanwhile.                    *)
Locking(r) == body[r].fields \/ body[r].assignees = Keep
UsersOf(list) == {list[i] : i \in DOMAIN list}

AssigneesReplaced ==
  [][\A r \in Requests :
       /\ Commit(r) /\ ~tx[r].aborted /\ body[r].assignees # Keep /\ body[r].fields
       /\ \A q \in overlap[r] : Locking(q) \/ body[q].task # body[r].task
       => {u \in Users : <<body[r].task, u>> \in Keys(assigned')} = UsersOf(body[r].assignees)]_vars

(* Requests that change fields of a task never fail because of each other: *)
(* each has the task's row before it touches the assignees, and so of the  *)
(* requests that wait for each other in a circle at most one changes a     *)
(* field.  The others replace assignees only, and have taken no row.       *)
InCircle(r, q) == Reachable(r, q, Waits, Requests) /\ Reachable(q, r, Waits, Requests)

CirclesNeedUnlocked ==
  \A r, q \in Requests : r # q /\ InCircle(r, q) => ~(body[r].fields /\ body[q].fields)
=============================================================================
