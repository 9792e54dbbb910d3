----------------------------- MODULE TaskTemplates -----------------------------
(***************************************************************************)
(* Task templates of one studio (app/task_templates): the built-in ones    *)
(* that appear when they are first needed, their management, the default   *)
(* of each kind, and the tasks they create: for a new asset or shot, for a *)
(* new project with all it contains, for existing assets and shots.        *)
(*                                                                         *)
(* Transactions are READ COMMITTED.  The partial unique index lets one row *)
(* per kind be the default: a statement that would make another one waits  *)
(* for open transactions that may decide it and then fails.                *)
(* The links between the tasks are the subject of TaskLinks.               *)
(***************************************************************************)
EXTENDS Naturals, Sequences, TaskGraph

CONSTANTS
  Requests,
  Sends,      \* per request: which operations it may be
  MaxRows,    \* bound: templates ever inserted
  Kinds,      \* an asset type, or shot
  EntityKind, \* per kind: asset or shot
  Types,      \* task types; the steps of a template are a set of them
  BuiltIns,   \* DEFAULT_TEMPLATES, in order: a default for some of the kinds
  Custom,     \* steps a manager may choose
  Entities, Projects,  \* assets, shots and, as some of them, projects to create
  Tree        \* per entity: the kinds of the things it consists of, in order

Ops == {"list", "create", "patch", "delete", "new", "apply"}
Ids == 1..MaxRows
Row == [kind : Kinds, steps : SUBSET Types, default : BOOLEAN]
Things == UNION {{e} \X DOMAIN Tree[e] : e \in Entities}

ASSUME SendsAssumption == Sends \in [Requests -> SUBSET Ops]
ASSUME BuiltInsAssumption ==
  /\ BuiltIns \in Seq(Row) \ {<<>>} /\ \A i \in DOMAIN BuiltIns : BuiltIns[i].default
  /\ Custom \subseteq SUBSET Types
ASSUME TreeAssumption == Tree \in [Entities -> Seq(Kinds) \ {<<>>}] /\ DOMAIN EntityKind = Kinds
ASSUME RowsAssumption == MaxRows \in Nat
ASSUME ProjectsAssumption == Projects \subseteq Entities

VARIABLES
  template,  \* task_templates: per id its row
  made,      \* entities in the database
  tasks,     \* tasks: the thing, the type, the request that created it
  req,       \* per request: what it asks for, its next statement, what it read
  mine,      \* per request: rows its open transaction has written
  met        \* per request: requests that committed while it was open

vars == <<template, made, tasks, req, mine, met>>

Unborn == [row |-> "unborn"]
Gone == [row |-> "gone"]
Untouched == [row |-> "untouched"]
None == "none"
NoId == 0
Nothing == [i \in Ids |-> Untouched]
NoReq == [op |-> None, phase |-> "new", id |-> NoId, seen |-> Unborn, names |-> {}, row |-> Unborn, snap |-> {},
          seeds |-> <<>>, entity |-> None, rest |-> <<>>, adds |-> {}, aborted |-> FALSE]

TypeOK ==
  /\ template \in [Ids -> Row \union {Unborn, Gone}]
  /\ made \subseteq Entities
  /\ \A t \in tasks : t[1] \in Things /\ t[2] \in Types /\ t[3] \in Requests
  /\ \A r \in Requests :
       /\ req[r].op \in Ops \union {None}
       /\ req[r].phase \in {"new", "check", "seed", "clear", "clearing", "write", "insert",
                            "pick", "fill", "event", "commit", "done"}
       /\ req[r].snap \subseteq Ids /\ req[r].adds \subseteq Things \X Types
  /\ mine \in [Requests -> [Ids -> Row \union {Untouched}]]
  /\ met \in [Requests -> SUBSET Requests]

(* A new studio, or one that has its built-in templates; things made       *)
(* without tasks.                                                          *)
Init ==
  /\ template \in {[i \in Ids |-> Unborn],
                   [i \in Ids |-> IF i \in DOMAIN BuiltIns THEN BuiltIns[i] ELSE Unborn]}
  /\ made \in SUBSET Entities
  /\ tasks = {}
  /\ req = [r \in Requests |-> NoReq]
  /\ mine = [r \in Requests |-> Nothing]
  /\ met = [r \in Requests |-> {}]

(* What r's statements see, and what they would make of the table.         *)
View(r) == [i \in Ids |-> IF mine[r][i] = Untouched THEN template[i] ELSE mine[r][i]]
RowIds(view) == {i \in Ids : view[i] \in Row}
Defaults(view, kind) == {i \in RowIds(view) : view[i].kind = kind /\ view[i].default}
Locked(q) == {i \in Ids : mine[q][i] # Untouched}
Free == {i \in Ids : template[i] = Unborn /\ \A q \in Requests : i \notin Locked(q)}
NewId == CHOOSE i \in Free : \A j \in Free : i <= j

Goto(r, phase) == req' = [req EXCEPT ![r].phase = phase]
KeepTables == UNCHANGED <<template, made, tasks, met>>
At(r, phase) == req[r].phase = phase

(* The row that r's INSERT or UPDATE makes: a PATCH sets the columns that  *)
(* its body names.                                                         *)
Becomes(r) ==
  IF req[r].op = "create" THEN req[r].row
  ELSE LET now == View(r)[req[r].id] IN
       IF now = Gone THEN Gone
       ELSE [f \in DOMAIN now |-> IF f \in req[r].names THEN req[r].row[f] ELSE now[f]]

(* Another open transaction decides whether the kind has a default other   *)
(* than row i.                                                             *)
Contends(q, i, kind) ==
  \E j \in Locked(q) \ {i} : j \in Defaults(View(q), kind) \union Defaults(template, kind)

WaitsFor(r, q) ==
  /\ q # r
  /\ \/ At(r, "clearing") /\ req[r].snap \intersect Locked(q) # {}
     \/ At(r, "write") /\ req[r].id \in Locked(q)
     \/ At(r, "write") /\ Becomes(r) # Gone /\ Becomes(r).default
        /\ Contends(q, req[r].id, Becomes(r).kind)
     \/ At(r, "seed") /\ Contends(q, 0, Head(req[r].seeds).kind)
     \/ /\ At(r, "insert") /\ req[q].entity = req[r].entity
        /\ req[q].phase \notin {"new", "insert", "done"}

Blocked(r) == \E q \in Requests : WaitsFor(r, q)

-----------------------------------------------------------------------------
(* The end of a transaction.                                               *)
Commit(r) ==
  /\ At(r, "commit")
  /\ template' = IF req[r].aborted THEN template ELSE View(r)
  /\ made' = IF req[r].op = "new" /\ ~req[r].aborted THEN made \union {req[r].entity} ELSE made
  /\ tasks' = IF req[r].aborted THEN tasks ELSE tasks \union {<<a[1], a[2], r>> : a \in req[r].adds}
  /\ met' = [q \in Requests |-> IF q # r /\ req[q].phase \notin {"new", "done"}
                                  THEN met[q] \union {r} ELSE met[q]]
  /\ mine' = [mine EXCEPT ![r] = Nothing]
  /\ Goto(r, "done")

Rollback(r) ==
  /\ Goto(r, "done")
  /\ mine' = [mine EXCEPT ![r] = Nothing]
  /\ KeepTables

-----------------------------------------------------------------------------
(* ensure_defaults: a studio without templates gets the built-in ones, in  *)
(* the caller's transaction if there is one.                               *)
Autocommit(r) == req[r].op \in {"list", "create"}
AfterEnsure(r) == CASE req[r].op = "list" -> "done"
                    [] req[r].op = "create" -> IF req[r].row.default THEN "clear" ELSE "write"
                    [] req[r].op = "new" -> "pick"

Ensure(r) ==
  /\ At(r, "check")
  /\ req' = IF RowIds(View(r)) = {}
              THEN [req EXCEPT ![r].phase = "seed", ![r].seeds = BuiltIns]
              ELSE [req EXCEPT ![r].phase = AfterEnsure(r)]
  /\ UNCHANGED mine
  /\ KeepTables

(* INSERT ... ON CONFLICT DO NOTHING of the next one.                      *)
Seed(r) ==
  /\ At(r, "seed") /\ Free # {}
  /\ ~Blocked(r)
  /\ req' = [req EXCEPT ![r].seeds = Tail(@),
                        ![r].phase = IF Len(req[r].seeds) = 1 THEN AfterEnsure(r) ELSE @]
  /\ LET row == Head(req[r].seeds) IN
       IF Defaults(View(r), row.kind) # {} THEN UNCHANGED <<template, mine>>
       ELSE IF Autocommit(r) THEN template' = [template EXCEPT ![NewId] = row] /\ UNCHANGED mine
       ELSE mine' = [mine EXCEPT ![r][NewId] = row] /\ UNCHANGED template
  /\ UNCHANGED <<made, tasks, met>>

-----------------------------------------------------------------------------
(* GET, POST and PATCH of templates.                                       *)
List(r) ==
  /\ req[r] = NoReq /\ "list" \in Sends[r]
  /\ req' = [req EXCEPT ![r].op = "list", ![r].phase = "check"]
  /\ UNCHANGED mine /\ KeepTables

Create(r, row) ==
  /\ req[r] = NoReq /\ "create" \in Sends[r]
  /\ req' = [req EXCEPT ![r].op = "create", ![r].phase = "check", ![r].row = row]
  /\ UNCHANGED mine /\ KeepTables

(* update_template reads the row before its transaction; what the body     *)
(* does not name is taken from there for the choice whether to clear.      *)
Patch(r, i, names, row) ==
  /\ req[r] = NoReq /\ "patch" \in Sends[r]
  /\ i \in RowIds(template)
  /\ \A f \in DOMAIN row \ names : row[f] = template[i][f]
  /\ req' = [req EXCEPT ![r].op = "patch", ![r].id = i, ![r].seen = template[i],
                        ![r].names = names, ![r].row = row,
                        ![r].phase = IF row.default THEN "clear" ELSE "write"]
  /\ UNCHANGED mine /\ KeepTables

(* _clear_other_defaults: the rows it finds, then those of them that are   *)
(* still defaults of the kind once nobody else has them locked.            *)
OthersAndSelf(r) == Defaults(template, req[r].row.kind)
Others(r) == Defaults(template, req[r].row.kind) \ {req[r].id}

Clear(r) ==
  /\ At(r, "clear")
  /\ req' = [req EXCEPT ![r].phase = "clearing", ![r].snap = Others(r)]
  /\ UNCHANGED mine /\ KeepTables

Cleared(r) ==
  /\ At(r, "clearing")
  /\ ~Blocked(r)
  /\ mine' = [mine EXCEPT ![r] = [i \in Ids |->
                IF i \in req[r].snap \intersect Defaults(template, req[r].row.kind)
                  THEN [template[i] EXCEPT !.default = FALSE] ELSE @[i]]]
  /\ Goto(r, "write")
  /\ KeepTables

(* The INSERT, or the UPDATE of the columns that the body names; the row   *)
(* may be gone, which is noticed after the commit.                         *)
Write(r) ==
  /\ At(r, "write") /\ Free # {}
  /\ ~Blocked(r)
  /\ LET i == IF req[r].op = "create" THEN NewId ELSE req[r].id
         row == Becomes(r) IN
       IF row = Gone THEN Goto(r, "commit") /\ UNCHANGED mine /\ KeepTables
       ELSE IF row.default /\ Defaults(View(r), row.kind) \ {i} # {} THEN Rollback(r)
       ELSE Goto(r, "commit") /\ mine' = [mine EXCEPT ![r][i] = row] /\ KeepTables

(* DELETE: one statement, which waits for the row.                         *)
DeleteTemplate(r, i) ==
  /\ req[r] = NoReq /\ "delete" \in Sends[r]
  /\ i \in RowIds(template) /\ \A q \in Requests : i \notin Locked(q)
  /\ template' = [template EXCEPT ![i] = Gone]
  /\ req' = [req EXCEPT ![r].op = "delete", ![r].phase = "done"]
  /\ UNCHANGED <<made, tasks, mine, met>>

-----------------------------------------------------------------------------
(* POST of an asset or a shot, or of a project from a project template:    *)
(* the row itself, whose code is taken (409) or not; ...                   *)
ThingsOf(e) == [n \in DOMAIN Tree[e] |-> <<e, n>>]
KindOf(thing) == Tree[thing[1]][thing[2]]

New(r, e) ==
  /\ req[r] = NoReq /\ "new" \in Sends[r]
  /\ req' = [req EXCEPT ![r].op = "new", ![r].entity = e, ![r].phase = "insert"]
  /\ UNCHANGED mine /\ KeepTables

(* ... then per thing the default template of its kind, unless the body    *)
(* asks for no tasks.                                                      *)
Insert(r) ==
  /\ At(r, "insert")
  /\ ~Blocked(r)
  /\ IF req[r].entity \in made THEN Goto(r, "done")
     ELSE \/ req' = [req EXCEPT ![r].rest = ThingsOf(req[r].entity), ![r].phase = "check"]
          \/ Goto(r, "commit")
  /\ UNCHANGED mine /\ KeepTables

Pick(r) ==
  /\ At(r, "pick")
  /\ LET thing == Head(req[r].rest)
         types == UNION {View(r)[i].steps : i \in Defaults(View(r), KindOf(thing))} IN
       req' = [req EXCEPT ![r].rest = Tail(@),
                          ![r].adds = @ \union ({thing} \X types),
                          ![r].phase = IF Len(req[r].rest) = 1 THEN "event" ELSE "check"]
  /\ UNCHANGED mine /\ KeepTables

(* A project ends with an event; a failed INSERT into the feed is          *)
(* swallowed and leaves the transaction aborted.                           *)
Event(r) ==
  /\ At(r, "event")
  /\ \/ Goto(r, "commit")
     \/ req[r].entity \in Projects /\ req' = [req EXCEPT ![r].phase = "commit", ![r].aborted = TRUE]
  /\ UNCHANGED mine /\ KeepTables

(* POST /{id}/apply names assets and shots: the assets come first, and the *)
(* template must be one for assets if there are any, whatever else is      *)
(* named.  It is read before the transaction ...                           *)
IsAsset(thing) == EntityKind[KindOf(thing)] = "asset"

Named(e, n) ==
  {things \in [1..n -> {e} \X DOMAIN Tree[e]] :
     \A k, l \in 1..n :
       k < l => things[k] # things[l] /\ (IsAsset(things[l]) => IsAsset(things[k]))}

Apply(r, i, things) ==
  /\ req[r] = NoReq /\ "apply" \in Sends[r]
  /\ i \in RowIds(template)
  /\ EntityKind[template[i].kind] = IF \E k \in DOMAIN things : IsAsset(things[k])
                                      THEN "asset" ELSE "shot"
  /\ req' = [req EXCEPT ![r].op = "apply", ![r].seen = template[i], ![r].rest = things,
                        ![r].phase = "fill"]
  /\ UNCHANGED mine /\ KeepTables

(* ... and each thing gets the tasks of types it has none of.              *)
Has(thing) == {t[2] : t \in {s \in tasks : s[1] = thing}}

FillAll(r) ==
  /\ At(r, "fill")
  /\ LET thing == Head(req[r].rest) IN
       req' = [req EXCEPT ![r].rest = Tail(@),
                          ![r].adds = @ \union ({thing} \X req[r].seen.steps),
                          ![r].phase = IF Len(req[r].rest) = 1 THEN "commit" ELSE @]
  /\ UNCHANGED mine /\ KeepTables

Fill(r) ==
  /\ At(r, "fill")
  /\ LET thing == Head(req[r].rest) IN
       req' = [req EXCEPT ![r].rest = Tail(@),
                          ![r].adds = @ \union ({thing} \X (req[r].seen.steps \ Has(thing))),
                          ![r].phase = IF Len(req[r].rest) = 1 THEN "commit" ELSE @]
  /\ UNCHANGED mine /\ KeepTables

-----------------------------------------------------------------------------
Waits == {w \in Requests \X Requests : WaitsFor(w[1], w[2])}

(* The database fails one transaction of a circle of waiting ones.         *)
DeadlockVictim(r) ==
  /\ \E q \in Requests : WaitsFor(r, q) /\ Reachable(r, q, Waits, Requests)
  /\ Rollback(r)

Step(r) ==
  \/ Ensure(r) \/ Seed(r) \/ Clear(r) \/ Cleared(r) \/ Write(r)
  \/ Insert(r) \/ Pick(r) \/ Event(r) \/ Fill(r)
  \/ Commit(r) \/ DeadlockVictim(r)

Begin(r) ==
  \/ List(r)
  \/ \E row \in {x \in Row : x.steps \in Custom} :
       \/ Create(r, row)
       \/ \E i \in Ids, names \in SUBSET DOMAIN row : Patch(r, i, names, row)
  \/ \E e \in Entities : New(r, e)
  \/ \E i \in Ids : \/ DeleteTemplate(r, i)
                   \/ \E e \in made : \E n \in DOMAIN Tree[e] : \E things \in Named(e, n) : Apply(r, i, things)

TemplatesNext == \E r \in Requests : Begin(r) \/ Step(r)

Spec == Init /\ [][TemplatesNext]_vars

-----------------------------------------------------------------------------
(* What a PATCH takes away from kind k on purpose: the mark of the kind's   *)
(* default, or its kind, named in the body.                                *)
Withdraws(r, k) ==
  /\ req[r].id \in Defaults(template, k)
  /\ \/ "default" \in req[r].names /\ ~req[r].row.default
     \/ "kind" \in req[r].names /\ req[r].row.kind # k

(* What it did not name was changed after it had read the row: it cleared  *)
(* the default that others had set, and does not become it.                *)
Stale(r) ==
  LET now == template[req[r].id] IN
  \/ now = Gone
  \/ \E f \in {"kind", "default"} \ req[r].names : now[f] # req[r].seen[f]

(* A kind that has a default keeps one, until the default is deleted or    *)
(* withdrawn, or a PATCH of a row that has changed meanwhile takes it.     *)
(* Who makes a template the default leaves one, at every commit.           *)
DefaultKept ==
  [][\A k \in Kinds :
       Defaults(template, k) # {} /\ Defaults(template', k) = {} =>
         \/ \E r \in Requests, i \in Ids : DeleteTemplate(r, i)
         \/ \E r \in Requests : Commit(r) /\ req[r].op = "patch" /\ (Withdraws(r, k) \/ Stale(r))]_vars

(* "applying twice is harmless": a thing has two tasks of one type from    *)
(* templates only if one of the two applications committed while the other *)
(* was open.                                                               *)
DuplicatesOverlap ==
  \A t, u \in tasks :
    t[1] = u[1] /\ t[2] = u[2] /\ t[3] # u[3] => t[3] \in met[u[3]] \/ u[3] \in met[t[3]]
=============================================================================
