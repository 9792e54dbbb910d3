---------------------------- MODULE PublishVersion ----------------------------
(***************************************************************************)
(* Publishing versions of one asset in one pipeline stage and reviewing    *)
(* them: POST /versions and PATCH /versions/{id} of app/versions/router.py *)
(* over register_version of app/versions/service.py.                       *)
(*                                                                         *)
(* Each request runs on its own connection.  Transactions are READ         *)
(* COMMITTED: a SELECT sees what is committed when it runs, not what other *)
(* open transactions inserted; an INSERT that collides on the unique key   *)
(* with an open transaction waits for it.  Nothing locks the asset, so the *)
(* statements of concurrent requests interleave in every order.  What a    *)
(* request does outside the transaction is committed at once, statement by *)
(* statement.                                                              *)
(*                                                                         *)
(* After the commit the endpoint sets the task's status and then fails on  *)
(* `result.version_id` (result is a dict), which its `except Exception:    *)
(* pass` hides: no version.published event or notification is ever written,*)
(* so none is modelled.                                                    *)
(***************************************************************************)
EXTENDS Naturals, FiniteSets

CONSTANTS
  Publishes,        \* POST /versions requests, and the rows they insert
  Patches,          \* PATCH /versions/{id} requests
  Reps,             \* representations (fbx, abc, ...)
  Batches, NoBatch, \* publish_batch_id values, and its absence
  Explicit,         \* explicit version numbers asked for
  Contents,         \* CAS hashes
  DbFails,          \* whether a database call may raise
  Workloads         \* the requests of a run: see WorkloadsAssumption

ASSUME PublishesAssumption == IsFiniteSet(Publishes)
ASSUME ExplicitAssumption == Explicit \subseteq Nat \ {0}
ASSUME BatchAssumption == NoBatch \notin Batches
ASSUME DbFailsAssumption == DbFails \in BOOLEAN

VARIABLES
  pub,          \* per publish: the request, its next statement, the number picked
  committed,    \* publishes whose row is committed
  created,      \* per publish: when its transaction began (created_at), 0 before
  status,       \* per publish: the review status of its row, from the one it asks for
  patch,        \* per patch: the request, its next statement, what it read
  task,         \* status of the task the versions are published for
  cas,          \* contents stored
  concurrent,   \* per publish: publishes whose transaction was open with its own
  disturbed     \* patches during which another request wrote versions or the task

vars == <<pub, committed, created, status, patch, task, cas, concurrent, disturbed>>

NextNumber == 0     \* version "next"; explicit numbers are positive
Statuses == {"pending", "in_review", "approved", "rejected"}
TaskStatuses == {"in_progress", "review", "done"}
TxPhases == {"pickBatch", "pickMax", "checkExplicit", "checkCas", "insert", "commit"}
PubPhases == TxPhases \union {"new", "setTask", "done"}
PatchPhases == {"new", "readLatest", "writeTask", "done"}
Answers == {"none", "created", "conflict", "casMissing", "unavailable"}

PublishRequest(phases, numbers, answers) ==
  [phase : phases, rep : Reps, version : Explicit \union {NextNumber},
   batch : Batches \union {NoBatch}, content : Contents, forTask : BOOLEAN,
   status : Statuses, number : numbers, answer : answers]
PatchRequest(phases, latest) ==
  [phase : phases, row : Publishes, to : Statuses, latest : latest]

(* A workload says what every request asks for; one whose phase is "done"  *)
(* from the start is never sent.                                           *)
ASSUME WorkloadsAssumption ==
  Workloads \subseteq
    [pub : [Publishes -> PublishRequest({"new", "done"}, {0}, {"none"})],
     patch : [Patches -> PatchRequest({"new", "done"}, {"pending"})]]

TypeOK ==
  /\ pub \in [Publishes -> PublishRequest(PubPhases, Nat, Answers)]
  /\ committed \subseteq Publishes
  /\ created \in [Publishes -> Nat]
  /\ status \in [Publishes -> Statuses]
  /\ patch \in [Patches -> PatchRequest(PatchPhases, Statuses)]
  /\ task \in TaskStatuses
  /\ cas \subseteq Contents
  /\ concurrent \in [Publishes -> SUBSET Publishes]
  /\ disturbed \subseteq Patches

Init ==
  /\ \E w \in Workloads : pub = w.pub /\ patch = w.patch
  /\ committed = {}
  /\ created = [p \in Publishes |-> 0]
  /\ status = [p \in Publishes |-> pub[p].status]
  /\ task = "in_progress"
  /\ cas = {}
  /\ concurrent = [p \in Publishes |-> {}]
  /\ disturbed = {}

InTx == {p \in Publishes : pub[p].phase \in TxPhases}
Running == {q \in Patches : patch[q].phase \in {"readLatest", "writeTask"}}

(* Rows other requests can see.                                            *)
BatchRows(b) == {p \in committed : pub[p].batch = b}
RepRows(r) == {p \in committed : pub[p].rep = r}
TaskRows == {p \in committed : pub[p].forTask}
Numbers(rows) == {pub[p].number : p \in rows}

(* ORDER BY created_at ASC LIMIT 1                                         *)
Oldest(p, rows) == p \in rows /\ \A q \in rows : created[p] <= created[q]

(* max(version_number), 0 when there is no row                             *)
MaxNumber(n, rows) == n \in {0} \union Numbers(rows) /\ \A m \in Numbers(rows) : m <= n

(* ORDER BY version_number DESC, created_at DESC LIMIT 1                   *)
LatestIgnoringNumber(p, rows) == p \in rows /\ \A q \in rows : created[q] <= created[p]

Latest(p, rows) ==
  /\ p \in rows
  /\ \A q \in rows : \/ pub[q].number < pub[p].number
                     \/ pub[q].number = pub[p].number /\ created[q] <= created[p]

(* _sync_task_status_from_latest_version: what the task becomes.           *)
TaskStatusFor(versionStatus) == IF versionStatus = "approved" THEN "done" ELSE "in_progress"

Goto(p, phase) == pub' = [pub EXCEPT ![p].phase = phase]
Picked(p, n) == pub' = [pub EXCEPT ![p].phase = "checkCas", ![p].number = n]
Answer(p, a) == pub' = [pub EXCEPT ![p].phase = "done", ![p].answer = a]
KeepTask == UNCHANGED <<status, patch, task, disturbed>>
KeepTx == UNCHANGED <<committed, created, cas, concurrent>> /\ KeepTask

-----------------------------------------------------------------------------
(* A blob reaches the store (PUT /cas/blobs); publishes refer to it.       *)
Upload(c) ==
  /\ c \notin cas
  /\ cas' = cas \union {c}
  /\ UNCHANGED <<pub, committed, created, concurrent>>
  /\ KeepTask

(* The transaction of register_version begins: project, asset and request  *)
(* were found valid.                                                       *)
Begin(p) ==
  /\ pub[p].phase = "new"
  /\ Goto(p, IF pub[p].version # NextNumber THEN "checkExplicit"
             ELSE IF pub[p].batch # NoBatch THEN "pickBatch" ELSE "pickMax")
  /\ created' = [created EXCEPT ![p] = 1 + Cardinality({q \in Publishes : created[q] > 0})]
  /\ concurrent' = [q \in Publishes |-> IF q = p THEN InTx
                                        ELSE IF q \in InTx THEN concurrent[q] \union {p}
                                        ELSE concurrent[q]]
  /\ UNCHANGED <<committed, cas>>
  /\ KeepTask

(* The number of the batch's first row, if the batch has a row already.    *)
PickBatchOfSameRep(p) ==
  /\ pub[p].phase = "pickBatch"
  /\ LET rows == BatchRows(pub[p].batch) \intersect RepRows(pub[p].rep) IN
       \/ rows = {} /\ Goto(p, "pickMax")
       \/ \E o \in rows : Oldest(o, rows) /\ Picked(p, pub[o].number)
  /\ KeepTx

PickBatch(p) ==
  /\ pub[p].phase = "pickBatch"
  /\ LET rows == BatchRows(pub[p].batch) IN
       \/ rows = {} /\ Goto(p, "pickMax")
       \/ \E o \in rows : Oldest(o, rows) /\ Picked(p, pub[o].number)
  /\ KeepTx

(* One more than the largest number: of the asset for a batch, of the      *)
(* representation otherwise.                                               *)
Numbered(p) == IF pub[p].batch # NoBatch THEN committed ELSE RepRows(pub[p].rep)

PickMaxByCount(p) ==
  /\ pub[p].phase = "pickMax"
  /\ Picked(p, Cardinality(Numbered(p)) + 1)
  /\ KeepTx

PickMax(p) ==
  /\ pub[p].phase = "pickMax"
  /\ \E n \in {0} \union Numbers(Numbered(p)) :
       MaxNumber(n, Numbered(p)) /\ Picked(p, n + 1)
  /\ KeepTx

(* An explicit number that is taken is refused with VersionConflict.       *)
CheckExplicit(p) ==
  /\ pub[p].phase = "checkExplicit"
  /\ IF pub[p].version \in Numbers(RepRows(pub[p].rep))
       THEN Answer(p, "conflict")
       ELSE Picked(p, pub[p].version)
  /\ KeepTx

(* The delivery blob (and the dedup manifest) must be in the store.        *)
CheckCas(p) ==
  /\ pub[p].phase = "checkCas"
  /\ IF pub[p].content \in cas THEN Goto(p, "insert") ELSE Answer(p, "casMissing")
  /\ KeepTx

(* INSERT under UNIQUE (asset_id, representation, pipeline_stage,          *)
(* version_number): it waits for an open transaction that inserted the     *)
(* same key; a committed duplicate raises a PostgresError.                 *)
SameKey(p, q) == pub[p].rep = pub[q].rep /\ pub[p].number = pub[q].number

InsertWithoutKey(p) ==
  /\ pub[p].phase = "insert"
  /\ Goto(p, "commit")
  /\ KeepTx

InsertWaitsForAll(p) ==
  /\ pub[p].phase = "insert"
  /\ InTx = {p}
  /\ IF \E q \in committed : SameKey(p, q) THEN Answer(p, "unavailable") ELSE Goto(p, "commit")
  /\ KeepTx

Insert(p) ==
  /\ pub[p].phase = "insert"
  /\ \A q \in Publishes \ {p} : pub[q].phase = "commit" => ~SameKey(p, q)
  /\ IF \E q \in committed : SameKey(p, q) THEN Answer(p, "unavailable") ELSE Goto(p, "commit")
  /\ KeepTx

(* COMMIT; its reply can be lost with the connection.                      *)
Commit(p) ==
  /\ pub[p].phase = "commit"
  /\ committed' = committed \union {p}
  /\ \/ Goto(p, "setTask")
     \/ DbFails /\ Answer(p, "unavailable")
  /\ disturbed' = disturbed \union Running
  /\ UNCHANGED <<created, status, patch, task, cas, concurrent>>

(* A statement of the transaction raises: ROLLBACK and 503.                *)
TxFails(p) ==
  /\ DbFails
  /\ pub[p].phase \in TxPhases
  /\ Answer(p, "unavailable")
  /\ KeepTx

(* _set_task_status_for_publish: one UPDATE, committed at once.            *)
SetForReview == task' = "review" /\ disturbed' = disturbed \union Running

(* After the commit, then 201.  A failure here is swallowed.               *)
SetTask(p) ==
  /\ pub[p].phase = "setTask"
  /\ Answer(p, "created")
  /\ \/ pub[p].forTask /\ SetForReview
     \/ /\ ~pub[p].forTask \/ DbFails
        /\ UNCHANGED <<task, disturbed>>
  /\ UNCHANGED <<committed, created, status, patch, cas, concurrent>>

-----------------------------------------------------------------------------
(* PATCH /versions/{id}: the row's status is written and committed.        *)
PatchVersion(q) ==
  /\ patch[q].phase = "new"
  /\ patch[q].row \in committed
  /\ status' = [status EXCEPT ![patch[q].row] = patch[q].to]
  /\ patch' = [patch EXCEPT ![q].phase = IF pub[patch[q].row].forTask THEN "readLatest" ELSE "done"]
  /\ disturbed' = disturbed \union Running
  /\ UNCHANGED <<pub, committed, created, task, cas, concurrent>>

(* _sync_task_status_from_latest_version: SELECT the latest version ...    *)
Read(q, p) == patch' = [patch EXCEPT ![q].phase = "writeTask", ![q].latest = status[p]]

ReadLatestCreated(q) ==
  /\ patch[q].phase = "readLatest"
  /\ \E p \in TaskRows : LatestIgnoringNumber(p, TaskRows) /\ Read(q, p)
  /\ UNCHANGED <<pub, committed, created, status, task, cas, concurrent, disturbed>>

ReadLatest(q) ==
  /\ patch[q].phase = "readLatest"
  /\ \E p \in TaskRows : Latest(p, TaskRows) /\ Read(q, p)
  /\ UNCHANGED <<pub, committed, created, status, task, cas, concurrent, disturbed>>

(* ... then UPDATE the task with what that version's status calls for.     *)
WriteTask(q) ==
  /\ patch[q].phase = "writeTask"
  /\ task' = TaskStatusFor(patch[q].latest)
  /\ patch' = [patch EXCEPT ![q].phase = "done"]
  /\ disturbed' = disturbed \union (Running \ {q})
  /\ UNCHANGED <<pub, committed, created, status, cas, concurrent>>

(* A statement after the version's UPDATE raises: the UPDATE stays.        *)
PatchFails(q) ==
  /\ DbFails
  /\ q \in Running
  /\ patch' = [patch EXCEPT ![q].phase = "done"]
  /\ UNCHANGED <<pub, committed, created, status, task, cas, concurrent, disturbed>>

PublishStep(p) ==
  \/ PickBatch(p) \/ PickMax(p) \/ CheckExplicit(p) \/ CheckCas(p)
  \/ Insert(p) \/ Commit(p) \/ SetTask(p)
PatchStep(q) == ReadLatest(q) \/ WriteTask(q)

Next ==
  \/ \E c \in Contents : Upload(c)
  \/ \E p \in Publishes : Begin(p) \/ PublishStep(p) \/ TxFails(p)
  \/ \E q \in Patches : PatchVersion(q) \/ PatchStep(q) \/ PatchFails(q)

Spec == Init /\ [][Next]_vars

(* The event loop and the database go on with every open request.          *)
FairSpec == /\ Spec
            /\ \A p \in Publishes : WF_vars(PublishStep(p))
            /\ \A q \in Patches : WF_vars(PatchStep(q))

-----------------------------------------------------------------------------
(* No two rows share a representation and a number, open ones included:    *)
(* what keeps racing "next" publishes from both taking the same number.    *)
Placed == committed \union {p \in Publishes : pub[p].phase = "commit"}
NumbersUnique == \A p, q \in Placed : p # q => ~SameKey(p, q)

(* Readers see a catalogue in which a representation and a number name one *)
(* row, with a content that is stored, for good, whatever publishes        *)
(* interleave: two that picked the same number never both get their row.   *)
Catalog == INSTANCE VersionCatalog WITH
  Rows <- Publishes,
  catalog <- {[row |-> p, rep |-> pub[p].rep, number |-> pub[p].number,
               content |-> pub[p].content] : p \in committed},
  stored <- cas
CatalogSpec == Catalog!Spec

NextRow(p) == p \in committed /\ pub[p].version = NextNumber

(* A batch comes apart only when two of its publishes had their            *)
(* transactions open at the same time: a client that publishes a batch's   *)
(* representations one after the other gets one number for all of them.    *)
SequentialBatchSharesNumber ==
  \A b \in Batches :
    (\A p, q \in Publishes : pub[p].batch = b /\ pub[q].batch = b => q \notin concurrent[p])
      => \A p, q \in BatchRows(b) :
           NextRow(p) /\ NextRow(q) => pub[p].number = pub[q].number

(* "next" outside a batch yields the representation's latest version,      *)
(* unless another publish of the representation was open meanwhile.        *)
Commits(p) == p \notin committed /\ p \in committed'
NextIsLatest ==
  [][\A p \in Publishes :
       /\ Commits(p) /\ pub[p].version = NextNumber /\ pub[p].batch = NoBatch
       /\ \A q \in concurrent[p] : pub[q].rep # pub[p].rep
       => \A q \in RepRows(pub[p].rep) : pub[q].number < pub[p].number]_vars

(* When a PATCH ends, the task's status is the one its latest version      *)
(* calls for, unless another request wrote versions or the task while it   *)
(* ran (the read and the write are two statements, outside a transaction). *)
UndisturbedPatchSyncsTask ==
  [][\A q \in Patches \ disturbed' :
       WriteTask(q) => \A p \in Publishes :
                         Latest(p, TaskRows) => task' = TaskStatusFor(status[p])]_vars

(* Every publish that began is answered: waiting for the transaction that  *)
(* holds the same key ends.                                                *)
PublishAnswered ==
  \A p \in Publishes : pub[p].phase \in TxPhases ~> pub[p].phase = "done"
=============================================================================
