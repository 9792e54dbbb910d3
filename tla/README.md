# Zeno API: a TLA+ model

Zeno API is the server of an animation-production tracker: projects, assets and
shots, their tasks and schedule, published versions of files in a
content-addressed store, review of submitted media, edit locks and presence of
DCC sessions. It is a FastAPI application (`app/`, `main.py`) on one asyncio
loop per process; several processes may share PostgreSQL (`schema/init.sql`),
Redis, MongoDB and the blob store.

Nothing in the program serialises requests. Between two `await`s of a handler
any other request runs, in this process or in another replica, so every handler
is a little concurrent algorithm on shared tables and keys. This project models
the handlers at that grain: one action per statement or command that other
requests can observe or be blocked by, checked with TLC on small instances, and,
for the central properties, proved with TLAPS for all instances.

## 1. Inventory

| Part | State | Operations | What is hard | What makes it correct |
|---|---|---|---|---|
| Edit locks `workflow/lock_service.py`, `locks_router.py` | one Redis key with a TTL per asset representation | acquire (SET NX, GET, EXPIRE), release (GET, DELETE) | two commands where one is needed, expiry in between, lost replies | a lock told to a session is held for its TTL; released only by its owner or by time |
| Version publishing `versions/` | `versions`, the task's status | POST (number, CAS check, insert, task to review), PATCH (status, task synchronised), search | numbers read without a lock, batches, unique key as the last resort, status read and written in two statements | one entry per representation and number, batches share a number, the task follows its latest version |
| Schedule `schedule/` | `task_dependencies`, dates of tasks, milestones | add and remove links, set dates, auto-schedule | check-then-insert, plans computed from rows that change | links form no loop, dates follow links |
| Schedule engine `schedule/engine.py` | local variables of three functions | loop search, topological order, layout on workdays | loops already present, foreign tasks, weekends | reachability answered exactly, order respects links, each task at its earliest workday |
| Tasks `tasks/router.py` | `tasks`, assignees, collaborators | POST, PATCH, DELETE, lists | assignee lists replaced concurrently, lock waits | a task answered with exists; named assignees are the assignees; requests fail each other only where the task's row is not locked |
| Feed and notifications `events/log.py`, `notifications/service.py` | `events`, `notifications` | `emit`, on the caller's connection | swallowed errors abort the caller's transaction | the feed tells what the rows say; a failing feed costs nothing else |
| Issues `issues/router.py` | `issues`, `issue_attachments` | create, update, attach, upload | no transaction: each statement commits, the row is read again before it is told | the last event tells the status; whoever closes an issue announces it |
| Review `reviews/router.py` | `review_items`, `review_notes`, task and version status | submit, decide, add, answer, move and delete notes, delete revisions | four tables in one transaction, cascades, stale reads, lock cycles | revisions numbered, history chains, approvals verify only fixed notes |
| Review shares `reviews/shares.py` | `review_shares`, guest rows | create, revoke, guest notes, replies and decisions | guests write while the team moves and deletes; checks before the transaction | the client sees whole threads of its own and nothing else |
| Review processing `reviews/processing.py`, `main.py` | `processing_status`; per process: jobs and a semaphore | enqueue, convert, resume at start | crash in any stage, replicas, failures inside failure handling | every item asked for is converted; slots are not lost |
| Presence `workflow/presence_*` | Redis keys with TTL and an index set | heartbeat, list (prunes the index) | pruning against heartbeats, commands that fail half-way | a live session is listed |
| CAS `cas/` | blobs, temporary files, an existence cache | upload, exists, read | the backend is chosen anew by each request; uploads that break off; crashes | what exists is whole and named by its hash; files are accounted for |
| Settings `settings/` | MongoDB documents, a per-process cache | get, put | the cache is filled during a write, by a worker thread or another process | a setting served is at most its TTL old |
| Manifests `manifests/` | MongoDB documents, a cache | put, get | cache | as for CAS |
| Storage check `storage_check/` | none | scan for missing and orphaned blobs | the scan runs while publishes go on; one content, several roles | no referenced blob is called an orphan, previews that are offered included; the severity is right |
| Task templates `task_templates/` | templates; tasks and links they create | seed, create, change, delete, apply | two applications at once; defaults cleared from a stale read | every kind keeps its default; tasks double only under overlap |
| Project templates `project_templates/` | a project tree | instantiate | a long transaction with an event that may abort it | all or nothing |
| Casting `casting/` | `shot_assets` | cast, replace a shot's cast, breakdown grid, links from it | DELETE and INSERTs of two requests interleave | the cast is what the last request said |
| Invites `invites/` | `invites`, `users` | create, regenerate, revoke, accept | accept against revoke and regenerate | one account per invite, none after revocation |
| Organizations, users `organizations/`, `users/` | `organizations`, `users` | sign-up, add a user, delete the studio | addresses and names taken meanwhile, deletion under an acceptance, a sign-up that fails half-way | no account without a studio, no studio without an owner |
| Authentication, tokens, tenancy | tokens | sign-in, scoping | - | every row reached belongs to the caller's organization |
| Projects, episodes, sequences, shots, assets | rows | create, read, update, delete | the default template applied to what is created | - |
| Resolver, launch, scene facts, storage policy | none of their own | read and assemble | - | - |

How the parts interact: publishing and review both write the status of a task
and of its versions; templates, casting and people write the links that the
scheduler reads; task, issue, review, template and publishing handlers call the
feed and the notifications on their own connection, in their own transaction if
they have one; review submits to the processing jobs of its own process, which
resume from the table after a restart; publishing, the attachments of issues, review
media and the processing jobs store and look up contents in the CAS, whose backend
a saved setting names; the storage check reads the rows of all of them; a guest's
share link reaches the notes of the review.

`PROJECT.json` lists each part with its status, each hazard with its line, and
the lines each definition stands for.

## 2. Modules

| Module | Models | State and its counterpart |
|---|---|---|
| `LeaseLock` | the promise of a lock: indivisible take, renew, give, refuse, age | holder and time left; who has asked for what |
| `AssetLocks` | `acquire_lock`, `release_lock`, command by command | `lock` is the Redis key, `req[h]` the next command of handler `h`, `lease[s]` how long the last 200 still promises the lock to `s` |
| `VersionCatalog` | the promise of the registry: permanent entries whose content is stored, no two of them with one representation and number | entries, each the row of one publish, and contents |
| `PublishVersion` | `register_version` and its endpoint, `update_version`, task synchronisation | `pub[p]` a publish with the body of its request and its next statement, `committed` the visible rows, `task` the status of their task |
| `TaskGraph` | links as a graph, reachability and loops by sets | no state |
| `TaskLinks` | handlers of `schedule/router.py`, links of `apply_template` | `links` is `task_dependencies`, `day` the dates, `req` and `sched` what open requests have read |
| `ScheduleEngine` | `creates_cycle`, one pop per step; `topo_order` and `schedule`, with the working week | `seen`, `stack` of the search; `indeg`, `ready`, `rank` (the order), `plan` of the layout |
| `TaskWrites` | POST and PATCH of tasks, both `emit`s | `tx[r]` the uncommitted work of request `r`, `status`, `assigned` (each row with the request that inserted it), `feed`, `bell` the tables |
| `Issues` | extends `TaskWrites` by POST and PATCH of issues and attachments | `call[r]` the next statement of request `r` and what it read, `issue` the rows, `updates` and `closings` what the feed was told |
| `ReviewFlow` | submissions, decisions, notes and deletion for one task | `item`, `note` (with its history and replies), `version`, `task` the rows, `req[r]` the next statement of a request |
| `ClientReview` | extends `ReviewFlow` by share links, replies and what guests do | `share` the link, `decided` the decision rows of the client |
| `ReviewProcessing` | jobs of all replicas | `row` is `processing_status`, `waiting`, `claiming`, `working` count jobs by stage, `free` the semaphore |
| `Accounts` | `accept_invite`, `regenerate_invite`, `revoke_invite`, `signup`, POST `/users`, DELETE `/organization` | `phase[r]` the next statement of request `r`, `invite`, `orgs`, `accounts` the committed rows; what open transactions hold follows from `phase` |
| `SettingsCache` | `get_global_settings`, `upsert_global_settings` | `doc` the document, `cache` the entry of each process with the time it has left, `look[r]` a call that reads (the CAS API makes two, for `is_cas_configured` and `get_cas_backend`), `writing[p]` a save under way, `age` how long ago each value was the saved one |
| `BlobStore` | extends `SettingsCache` by the CAS API and the uploads of other parts | `store` the blobs of each backend, `temp` temporary files, `known` the keys of the existence cache, `rows` the contents that rows name, `req[r]` the next step of a request |
| `StorageCheck` | `run_check`, `find_orphans`, one lookup or one chunk list per step, while rows are published and previews converted anew | `shape` what the blobs contain, `holds` what each backend has, `records` the rows of the entities, `media` the preview columns of review items and whether they are ready, `scan` the local variables |
| `TaskTemplates` | templates and their defaults, `apply_template` for things and projects | `template` the rows, `tasks` with the request that made them, `mine[r]` what an open transaction has written, `req[r]` its next statement |
| `Casting` | extends `TaskTemplates` by the cast of shots | `cast` the rows of `shot_assets`, `creq[r]` a request's next statement and rows |
| `Presence` | `heartbeat`, `list_sessions`, command by command | `left` the time each key has, `index` the user's set, `beat`, `listing` the next command of each |

Where one module extends another, the two parts share tables or transactions
(`ClientReview`, `BlobStore`), or only the way they are written about and one run
(`Issues` tells the feed of `TaskWrites`; `Casting` belongs to the same studio as
`TaskTemplates` and shares no row with it). In the second case a behaviour of
`Issues`, and a request of `Casting`, is about one of the two, so that the run does
not multiply independent states.

`MC...` modules give constants small values for TLC; `..._proofs` modules hold
the theorems. `MCWorkflow` puts the locks and the presence of `app/workflow` into one
run, `MCReviews` the notes and the conversion of `app/reviews`: the halves share no
row and no key, so each moves while the other is in its initial state, and the
states add up instead of multiplying. `TaskGraph` is shared by the schedule models
and, for circles of lock waits, by `TaskWrites`, `ReviewFlow`, `Accounts`, `TaskTemplates` and `Casting`.
Operators that sit next to an action and differ from it in one respect
(`AcquireSetWithoutNX`, `UpdateTaskUnlocked`, `KeepFromNow`, ...) are not used by
`Next`: they are the plausible mistakes against which the properties were tried,
paired in `PROJECT.json` with the property each one breaks.

Conventions. Transactions are READ COMMITTED, the default of PostgreSQL, which
the program never changes: a statement sees what is committed when it starts,
waits for the locks of open transactions, and a failed statement aborts its
transaction, so that COMMIT rolls back. Variables that record the past
(`lease`, `overtaken`, `tainted`, `concurrent`, `disturbed`, `blind`, `raced`,
`overlap`, `lost`, `stale`, `writer`, `met`, `age`, `active`, `steady`) appear in no
guard of the program's actions; they let properties say "unless another request
...". What a run's requests ask for is a constant where the choice matters:
`Workloads` of `PublishVersion` (sets of publishes and patches), `Sends` and
`Mixes` (the operations a request may be). A module that owns two functions of one
file, such as `ScheduleEngine`, starts in a call of either.

## 3. Runs

All bounds are constants of the `.cfg` files. Actors of one kind are
interchangeable, so two or three of each are enough for the pairs and triples of
handlers the properties speak of. Sizes are distinct states.

| Run | Instance | States |
|---|---|---|
| `workflow` | 2 sessions, 3 handlers, TTL of 2 ticks, Redis may raise before or after it applied a command; 2 sessions of a user, one with an asset, 2 listings that repeat, keys of 2 ticks | 640 906 |
| `publish` | 3 publishes, 2 representations, 1 batch, explicit 1 and 3, 1 content; or 2 publishes of a task, one of which may be approved from the start, and 2 status changes; failing database | 659 438 |
| `links` | 3 tasks, 2 `add_dependency` at once, 1 scheduler, casting, a template of one link, days 1 to 4 | 642 988 |
| `engine` | every graph of 3 tasks and one of another project; 4 kinds of task; starts on a Monday and on a Saturday | 517 304 |
| `writes` | 2 task requests, 2 users, refused references; or 3 requests on an issue that is there or not; feed that may fail, anonymous requests | 1 325 808 |
| `reviews` | 1 task, 2 revisions (1 with a version), 1 note; a decision, a move of the note and a third request of either kind or a deletion, or 2 of the team with a guest and a share; 2 replicas of 1 worker, 2 items, 2 crashes, 1 reprocess, failing media and database | 498 277 |
| `accounts` | 1 invite, 2 requests that accept it or sign up, 2 that change it, delete the studio or add an account, 2 addresses, 1 username, failing statements | 113 491 |
| `storage` | 2 processes, 3 requests of which one a worker thread, 1 hash and 1 content that has another, 2 backends that may fail, 1 change of the setting, 1 crash, a cache lifetime of one tick | 1 670 408 |
| `scan` | 2 versions and a review item, 4 blobs that are plain or lists with up to two parents, 1 loss, 1 upload, 1 change of backend, any number of conversions | 2 194 786 |
| `studio` | new or seeded studio, 2 kinds, 2 managers and a third who deletes, an asset and a project of two things; 1 shot, 2 assets, 2 instance names, 2 casting requests | 572 376 |
| `task_feed`, `offered_stills` | the instances of `writes` (with signed-in users) and of `scan` | violated |

* `workflow`: a TTL of one would let no command run between grant and expiry. A
  granted lease is honoured as long as no handler wrote to a key that was removed
  after it had read it (`LeaseHonoured`), and every command is one operation of
  the indivisible `LeaseLock`, or none, under the same condition
  (`OnlyOvertakenDeviate`). A key of presence that lives one tick would leave no time
  between a beat and a listing. `ActiveListed` speaks of sessions that were put in the
  index, with a key, while no listing held them for gone; what it leaves out is the
  heartbeat that comes between a listing's GET and its SREM, and only until the next
  one. Presence is checked with two listings, one of which removes what the other has
  just found.
* `publish`: three publishes are what a batch needs to come apart: two of it and
  one that takes a number between them. Two status changes and two publishes are
  what is needed to overtake a synchronisation by a write of either kind. Entries of
  the catalogue are rows, so two publishes of one content that take one number would
  be two entries (`CatalogSpec`).
* `links`: a loop closes with two links on two tasks, and with two on top of a
  third on three. The constraint `MCFocus` keeps two questions apart in one run:
  either the scheduler is idle and no task has dates, and links are added on all
  three tasks, or the third task takes no part and dates and schedules are.
  Managers are symmetric; the run checks safety only.
* `engine`: three tasks make loops of two and three links, and chains over a
  weekend; a fourth, foreign, task is what links must be filtered for. Durations
  of one and four days, dates that end on a Saturday, dates in the wrong order.
* `writes`: a write that is answered 200 and is not there lost it to its own event
  or notification, never to another request's or to a refused reference, and what
  the feed tells is committed (`FeedAloneLoses`); section 4 says what that leaves.
  Two requests are a deadlock's worth, three or more wait in the same circles, and of
  two in a circle one does not lock the task's row (`CirclesNeedUnlocked`). For
  issues, two updates make an event stale and the third shows that the last event
  still tells the status (`FeedTellsIssue`): its two exceptions, an event that failed
  and one overtaken between its read and its INSERT, are recorded exactly by `lost`
  and `stale`.
* `reviews`: a stale read needs one request between two steps of another; the
  third moves or deletes under both, and submissions go on. With a share, a guest writes or answers
  while a revision goes, a note moves, or an approval verifies it. `ThreadsWhole`
  rests on every row of a thread having its note's visibility, the rows of the
  history and the answers of the team included. Circles of lock waits have a
  deletion in them (`CirclesNeedDeletion`). For the conversion, one replica crashes
  while the other works, and again after it restarted; with one worker each a single
  lost slot stops a replica.
* `accounts`: two acceptances are what the lock on the invite is for; a third
  request changes the invite or deletes the studio between their steps, and a
  fourth lets a change follow a change, or takes the address or the username that
  the others want. One acceptance carries the token that only a regeneration
  makes valid. Circles of lock waits have a deletion of the studio in them
  (`CirclesNeedRemoval`). The theorems cover any number of invites.
* `storage`: a request that starts before the setting changes, one after, and one
  in a thread that fills the cache while the change is being saved. A yes to
  "does it exist" is worth a stored blob somewhere, and a readable one as long as
  all requests use one backend (`ExistsHolds`, `RowsReadable`). A temporary file that
  stays is a crash's, or that of a successful CAS upload to S3 or of a blob another
  upload had placed (`TempsAccounted`). The theorems cover every size.
* `scan`: the delivered file and the dedup list of a version may share a list,
  or one be a parent of the other, and a second version may patch against both:
  every way in which the order of the walk can matter. A review item is ready or is
  not, when it is fetched and again when the blobs are listed; its still may be a
  chunk of a list. `OrphansUnneeded` names its exceptions: rows written after the
  collection, lists the check could not read or took for plain files, previews of
  items that were not ready (section 4). Attachments refer to one blob, as review
  items without frames do, and none is in the instance; the theorems cover them.
* `studio`: three rows beyond the built-in templates are not needed for two
  managers. A kind loses its default to a deletion, to a PATCH that takes the mark or
  the kind from the very template that was the default (`Withdraws`), or to one whose
  row changed after it was read (`Stale`); a PATCH or POST that makes a template the
  default leaves one at every commit (`DefaultKept`). Doubled tasks need applications
  that overlap (`DuplicatesOverlap`).

Fairness. A handler that is ready is resumed by the event loop and a statement
that waits for no lock is executed, so weak fairness of a request's steps; the
Redis clock does not stop; a stopped process is started again by its supervisor.
`asyncio.Semaphore` serves waiters in order, which the model replaces by strong
fairness of `Acquire`. Clients are never obliged to
send anything. `Processed` is claimed of items whose conversion meets no failing
database call: an item whose failure cannot be recorded stays as it is until the
next start. Fairness is assumed in `workflow` (of the locks), `publish`, `engine` and
`reviews` (of the conversion) only; the other runs state safety. That requests which
wait for each other in a circle get an answer is PostgreSQL's doing, whose detector
fails one of them (`DeadlockVictim`); what the code's own order of locks decides is
between whom there can be circles, and that is what the three `Circles...` properties
say.

`CHECK_DEADLOCK FALSE` is given where requests are finite in number, or functions
return, and everything may be done. The models of locks, presence and links never
stop and are checked for deadlock.

## 4. Where code and documentation disagree

Two sentences of the repository have a run of their own, which TLC refutes:

* `task_feed`. `events/log.py:3`: "Failures are swallowed (logged): we never want a
  ``tasks`` INSERT to roll back because events is down/missing." The failed INSERT into
  `events` aborts the transaction it is in, its error is swallowed, COMMIT rolls back,
  and POST `/tasks` answers 200 with a task that is gone (`tasks/router.py:536`). The
  property is `TaskOutlivesFeed`; `FeedAloneLoses` is what the code keeps. The same
  holds of project templates, whose 201 names a project that was rolled back
  (`project_templates/router.py:225`).
* `offered_stills`. `storage_check/service.py:18`: "``find_orphans`` lists stored blobs
  nothing references". Previews are references only while an item is ready (line
  95), but a reprocess leaves their columns (`reviews/router.py:672`) and
  `serialize_item` goes on to sign thumbnail and filmstrip (line 144): blobs that
  viewers are offered are listed, and are not missed when they are gone. The property
  is `OfferedIsReferenced`; `OrphansUnneeded` is what the code keeps.

Three more are counterexamples to a quoted sentence, whose strongest form that the
code keeps is a property of a run:

* `release_lock` (`lock_service.py:107`: "Release a lock if owned by the caller."):
  the lock expires between GET and DELETE and another session's lock is deleted
  (line 123).
* A batch (`versions/service.py:95`: "ensure all representations in the same batch
  share the same version_number"): two publishes of the batch read before either
  commits, with another publish between them (line 112).
* A link that closes a loop answers 409 (`tests/test_schedule_api.py:86`): two
  requests check before either inserts (`schedule/router.py:296`).

Others are faces of the same steps, or need no interleaving:

* a repeated acquire whose lock expires between GET and EXPIRE prolongs another
  session's lock and answers 200 (`lock_service.py:88`; "hard-fail if held by
  another session"); one whose rival releases between its SET and its GET answers
  503 while Redis works (line 81; "Raised when Redis is unavailable");
* the second of two publishes of one explicit number answers 503, where
  `docs/API_AND_SCHEMA.md:105` says 409 (`versions/service.py:260`);
* `auto_schedule` moves a task that becomes done after it was read
  (`schedule/router.py:215`; `engine.py:76`: "Done tasks ... keep their dates");
* without `ENABLE_AUTH`, POST `/tasks` passes the stand-in user to the feed,
  which breaks a foreign key, and loses the task with a 200
  (`tasks/router.py:539`; `auth/deps.py:24`);
* a note may go from open to verified at once, or from verified to fixed
  (`reviews/router.py:920`; `init.sql:787`);
* a replica that starts converts items another one is converting
  (`processing.py:116`);
* deleting a revision deletes the task's notes that were raised on it, although
  "notes belong to the task ... so they stay visible on every later revision"
  (`reviews/router.py:664`, line 9), and takes from other notes the history rows
  and replies posted on it, so that a history may lack its middle
  (`DeleteCascade`; such notes are in `raced`);
* history rows carry the start of their transaction and are shown in that order,
  which need not be the order of the moves (`reviews/router.py:763`);
* a share that is revoked between a guest's check and its INSERT still takes the
  guest's row (`reviews/shares.py:215`), and a share shows the client threads of
  the whole task, not only those of the items it names (line 161);
* an acceptance that read its invite just before a revocation or regeneration
  makes an account all the same (`invites/router.py:243`; the variable `raced` of
  `Accounts` marks exactly these);
* POST `/users` stores an address as it comes while `create_user` stores and
  looks for lower case, so that a POST `/users` that comes second, or at the same
  time, makes an account whose address differs from another's in capitals only
  (`users/router.py:100`; `organizations/service.py:80`);
* `version.published` is never emitted: `versions/router.py:293` reads an
  attribute of a dict and the error is swallowed;
* an upload through the CAS API leaves its temporary file when the blob is
  there already, and always with S3 (`cas/router.py:61`, `cas/backend.py:124`,
  `cas/s3_backend.py:136`; `TempsAccounted` names these files);
* the existence cache does not name the backend, and a failing MongoDB makes a
  request use the backend of the environment (`cas/cache.py:18`,
  `cas/factory.py:36`), so that a yes may be about the other backend. The choice
  is read from the document of `APP_ENV`, while the settings of an organization are
  saved under `env@org`. Nothing deletes blobs, and `forget_exists` has no caller;
* a list that both the delivered file and the dedup list need is followed from the
  dedup list first, as something optional: what it lacks is reported as degraded
  (`storage_check/service.py:178`; `RequiredFirst`);
* `find_orphans` asks for the backend twice and compares the references of one
  with the blobs of the other if the setting changes (line 270);
* an issue that is closed is announced again by every later edit
  (`issues/router.py:427`), and "asset or shot, not both" is checked of the ids
  a POST names, not of codes, nor by PATCH (line 288);
* `update_template` judges `is_default` by the row it read before its transaction:
  it clears the default of a kind for a template that is one no longer, or is gone
  (`task_templates/router.py:123`);
* applying a template twice is harmless unless the two overlap: then each task is
  made twice (`task_templates/service.py:145`); an application that names assets and
  shots applies an asset's template to shots;
* `replace_shot_casting` takes no lock, so that rows cast at the same time stay
  beside the new cast, or make it fail (`casting/router.py:125`);
* a listing takes out of the index whoever had no key when it looked, also a
  session that has beaten since; it is missing until its next heartbeat
  (`presence_service.py:98`);
* `asset_presence` is only added to: a session once listed for an asset is listed
  for ever (`presence_service.py:66`, `:113`), although the listing says "currently
  associated".

## 5. Theorems

The proofs hold for every value of the constants that satisfies the assumptions
stated in the modules (`TTLAssumption`, `PublishesAssumption`, ...): any number of
sessions, handlers, publishes, tasks, replicas. Each `..._proofs` module defines
inductive invariants, shows that the initial states satisfy them, that one step per
action preserves them, and that they imply the properties. Every invariant and
every action property of the passing runs is proved in this way; each was checked on the
instance of its run first.

`Workflow_proofs` (`AssetLocks`, `Presence`)

* `TypeCorrect`, `WindowsOwned`, `LeasesHonoured`, `Exclusive`,
  `DeviationsAreOvertaken`, `Implements`. `LeaseHonoured` alone is not
  inductive: a handler about to EXPIRE or DELETE must be known to face its own
  session's lock, which is `WindowOwned`, or be overtaken. The lemma `StepRefines`
  maps each Redis command to one step, or none, of `LeaseLock`, unless an overtaken
  handler moves; `DeviationsAreOvertaken` says so of all behaviours, `Implements` of
  those in which nobody is overtaken.
* `PresenceTypes`, `IndexComplete`, `ActiveSessionsListed`. A session that was
  active when a listing began has been found by it or is still to be asked for
  (`SteadyAhead`). An active session is in the index, has a key, and no running listing
  holds it for gone (`NotGone`): so what a listing removes, which is what it holds for
  gone, is nobody active (`IndexComplete`).

`PublishVersion_proofs`

* `TypeCorrect`, `UniqueNumbers`, `ImplementsCatalog`. Uniqueness has to speak of
  rows about to be committed too, since the unique key is decided when the row is
  inserted; that the content of a row is stored is carried from the CAS check to
  the commit.
* `NextYieldsLatest`, `SequentialBatches`, `PatchesSyncTask`. Requests that are open
  together know of each other (`Together`), and what was committed before a request
  began is older than it (`After`). Hence the number a publish picked outside a
  batch stays above those of its representation until another publish of it
  commits (`Above`), and the oldest row of a batch, from which the others take
  their number, stays the oldest (`Shared`, `First`). An undisturbed patch keeps
  the latest status it read (`Synced`).

`Schedule_proofs` (`TaskLinks`, `ScheduleEngine`)

* `TypeCorrect`, `LoopsNeedBlindLinks`, `PlansFollowLinks`. The lemma
  `LinkKeepsAcyclic` (a link whose ends were not connected the other way closes no
  loop) is where the check is used, `FewerAcyclic` and `FewerReach` say that
  removing links makes neither loops nor paths. Reachability is defined by closed
  sets instead of paths so that no induction is needed.
* `SearchAnswersReachability`: everything on the stack is reachable, and what was
  seen leads only to what was seen or is on the stack.
* `OrderIsTopological`, `CycleErrorIffLoop`, together `TopoOrderCorrect`: `indeg`
  counts the links to tasks without rank; a set of tasks that never becomes free is
  a set in which everybody waits for somebody.
* `LaysOutEarliest`: tasks are laid out along the order, so that what a task waits
  for has its dates already, and dates once given stay (`LaidOut`, `OthersStay`).
  About the calendar: no weekend is longer than two days (`WeekGoesOn`), the
  function by which `AddWorkdays` counts exists for every number of days
  (`RunExists`), and the day it reaches has that many workdays before it
  (`RunReaches`). Both are shown by looking at the least day where they would fail.

`Issues_proofs` (`TaskWrites`, `Issues`)

* `FeedTellsOfCommits`, `TaskWritesTyped`: what a transaction has written of the
  feed is fixed by the statement it has come to (`Told`); with an aborted one all
  of it goes, and only its own feed row aborts it.
* `FieldChangesNeverCircle`: who is waited for is an open request on the same task
  (`WaitsWithinTask`), and of those at most one has locked its row. Its companions
  `OnlyDeletionsCircle` (`Review_proofs`) and `OnlyRemovalsCircle` (`Accounts_proofs`)
  show that in every set of requests without deletions somebody waits for none of
  the others (`SomeoneGoesOn`), which is what `Acyclic` asks.
* `AssigneesAreReplaced`: of the open requests that lock a task's row there is one
  (`Together`); an undisturbed one has deleted exactly the rows that are there and
  inserted the names it is past (`Replacing`).
* `FeedTellsOfIssues`, `IssuesTyped`: what a request has read and not told yet is
  the status there is, or it is `stale`; whoever wrote last announces, or is on the
  way to (`CloserAnnounces`).

`Review_proofs` (`ReviewFlow`, `ClientReview`, `ReviewProcessing`)

* `ClientTypesHold`, `RevisionsAreNumbered`, `HistoriesChain`,
  `ClientsSeeWholeThreads`, `ApprovalsVerifyFixed`, all from one invariant, because
  the requests of the team and of guests meet in the same rows: who is about to
  write a note holds its row alone (`Held`), has read its status or the note is
  `raced` (`Fresh`); a guest's row goes to a note of the client (`Promised`); a
  thread has one visibility (`OneVisibility`); submissions take turns and number
  above what is there (`InTurn`).
* `ProcessingTypes`, `NothingForgotten`. The status is written before the job is
  created, so the invariant speaks of requests about to enqueue as well as of jobs.
* `SlotsAreAccounted`: the slots held are counted as a finite set with one element
  for each job that has one, since a sum over jobs would need an induction.

`Accounts_proofs`

* `TypeCorrect`, `OneAccount`, `LinksSpent`, `StudiosMatch`. The invariant carries
  what an acceptance knows from step to step: it alone holds the lock
  (`Exclusive`), the invite it looked at is unused (`Fresh`), its link is the
  current one or was raced (`Current`), and once its account is inserted nobody
  deletes the studio (`Sharing`). The lemma `Moves` says what a step that only
  advances one request must respect; most actions are instances of it.

`Storage_proofs` (`BlobStore`, `StorageCheck`)

* `TypeCorrect`, `StalenessBounded`, `ExistsMeansStored`, `TempFilesAccounted`,
  `RowsAreReadable`. The settings' half carries that a document that was read was
  the saved one since the clock was looked at (`FetchedRecently`); the blobs' half
  says of each request what it may rely on (`Fine`: its backend is chosen, what it
  stores has the right hash, what it has stored is there) and of each remembered
  or referenced hash that it is `Held`. Blobs and choices stay (`Kept`), so a step
  of one request leaves the others fine (`OneMoves`).
* `ScanTypes`, `OrphansAreUnneeded`, `SeverityIsExact`. What an entity needs is
  defined as the least set of lists that holds its roots and the parents of its
  members (`Closed`). The traversal's own set is such a set but for what is queued
  (`Traced`), what it has taken from the queue is noted (`Noted`), and nothing else
  is (`Sound`); when the queue is empty this is the definition (`Finished`).

`Casting_proofs` (`TaskTemplates`, `Casting`)

* `CastTypesHold`, `CastsAreReplaced`: a PUT that nobody disturbed has read, and
  then deleted, all rows of its shot, and its own rows are the list as far as it has
  come, each cell at the place where it occurs first and in the list's order
  (`Replaces`). The next order number is above all it sees (`NextOrderIsAfter`).
* `TemplateTypes`, `DuplicatesAreOverlaps`, `DefaultsAreKept`: no two transactions
  hold one row (`Separate`); the rows an open transaction has written are one
  template and former defaults of the kind that gets a new one (`Written`); a task
  about to be added is missing, or whoever added it was open at the same time
  (`Told`); who makes an entity is alone with it (`Alone`).

Assumptions that the proofs use beyond what sets and bounds are: `DEFAULT_TEMPLATES`
is not empty (`BuiltInsAssumption`); what a template is applied to has things, as an
application without any is refused and a project template without contents adds
no tasks (`TreeAssumption`); tables are finite, so that a highest number exists
(`InitialAssumption`, `PublishesAssumption`, `ProjectTasksAssumption`); a task takes
a day at least, `max(1, duration)` in the code (`InputsAssumption`); statuses and
other values are not the model values that stand for their absence.

Only model-checked: liveness (`SilentSessionLosesLock`, `PublishAnswered`,
`Terminates`, `Processed`), since the prover has no rules for fairness
and ENABLED. Uniqueness of numbers, the window of `AssetLocks` and the type
invariants are proved and not part of a run.

## 6. Not modelled, and why

* Wording, formats and parsing of requests and answers, ffmpeg, mail, signed
  URLs, range requests: input and output around the state changes.
* Authorisation and tenancy checks: conditions on queries, the same in every
  state; requests in the models have passed them.
* Plain CRUD over single rows (projects, episodes, sequences, milestones, issue
  deletions, renaming), and reads that change nothing (resolver, launch, storage
  policy, listings).
* In the modelled parts: collaborators (replaced exactly as assignees are), notes
  without a status, image sequences, comparisons and drawings, the password and
  the switch of a share, `pipeline_stage` of versions (part of what a
  representation is), DELETE of tasks, `create_invite`, and the row that
  `accept_invite` and `signup` read back after they commit. Failures of the feed
  are modelled in `TaskWrites`, `Issues` and `TaskTemplates`; in `ReviewFlow` and
  `ClientReview` the feed is available.
* The MongoDB copies of manifests: one upsert per content, never read by a
  modelled part.

## 7. Plan

Done, in this order: locks, publishing, links, engine, task writes, review,
processing, accounts; settings and blobs, the storage check, templates and
casting, presence, issues, client review; their runs and the theorems above.

Next: what the two refinements leave to the abstract modules themselves (that
`LeaseLock` and `VersionCatalog` keep their own promises for all sizes); promises of
other components stated as abstract modules, first the issue feed and the review's
threads, and shown to be implemented; DELETE of tasks with what it cascades to; the
feed's failures inside review transactions.
