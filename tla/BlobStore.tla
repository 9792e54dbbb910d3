------------------------------- MODULE BlobStore -------------------------------
(***************************************************************************)
(* The content-addressed store (app/cas): uploads through the CAS API, the *)
(* uploads of issues and reviews, the files stored by review processing,   *)
(* existence questions and downloads, over two places for blobs, the file  *)
(* system and S3, between which a saved setting chooses.                   *)
(*                                                                         *)
(* A blob is named by the hash of its content: contents are identified     *)
(* with their hashes.  Nothing in the program deletes a blob.              *)
(***************************************************************************)
EXTENDS SettingsCache

CONSTANTS
  Requests,
  Contents,     \* what clients stream, each named by its hash
  Hashes,       \* those whose hash somebody names
  Sends,        \* per request: which operations it may be
  EnvBackend,   \* CAS_STORAGE_BACKEND: the choice when settings cannot be read
  None,
  MaxCrashes    \* bound

Backends == Values
Puts == {"put", "upload", "job"}
Ops == Puts \union {"ask", "read"}

ASSUME RequestsAssumption == Readers = Requests /\ Sends \in [Requests -> SUBSET Ops]
ASSUME ThreadsAssumption == \A r \in Requests : "job" \in Sends[r] <=> r \in Threads
ASSUME BackendsAssumption == Backends = {"nas", "s3"} /\ EnvBackend \in Backends
ASSUME CrashesAssumption == MaxCrashes \in Nat
ASSUME HashesAssumption == Hashes \subseteq Contents /\ None \notin Contents

VARIABLES
  store,    \* per backend and hash: the content stored under it
  temp,     \* requests whose temporary file exists
  known,    \* hashes that Redis remembers to exist
  rows,     \* contents that attachments and review items refer to
  req,      \* per request: what it asks for, its next step, its answer
  crashes

blobs == <<store, temp, known, rows, req, crashes>>
vars == <<settings, blobs>>

NoReq == [op |-> "none", phase |-> "new", hash |-> None, content |-> None, answer |-> "none"]
Phases == {"configured", "select", "stream", "place", "remember", "row", "probe", "note", "done"}

TypeOK ==
  /\ SettingsTypeOK
  /\ store \in [Backends -> [Hashes -> Contents \union {None}]]
  /\ temp \subseteq Requests
  /\ known \subseteq Hashes
  /\ rows \subseteq Hashes
  /\ req \in [Requests -> {NoReq} \union
       [op : Ops, phase : Phases, hash : Hashes, content : Contents,
        answer : {"none", "yes", "no", "error", "lost"}]]
  /\ crashes \in 0..MaxCrashes

Init ==
  /\ SettingsInit
  /\ store = [b \in Backends |-> [h \in Hashes |-> None]]
  /\ temp = {}
  /\ known = {}
  /\ rows = {}
  /\ req = [r \in Requests |-> NoReq]
  /\ crashes = 0

Is(r, ops, phase) == req[r].op \in ops /\ req[r].phase = phase
Goto(r, phase) == req' = [req EXCEPT ![r].phase = phase]
Answer(r, answer) == req' = [req EXCEPT ![r].phase = "done", ![r].answer = answer]

(* The backend a request works with is the one get_cas_backend gave it; it  *)
(* keeps that one.                                                         *)
Chosen(r) == look[r].stage = "back" /\ req[r].phase # "configured"
Stored(b, h) == store[b][h] # None

-----------------------------------------------------------------------------
(* A CAS upload claims a hash and streams whatever it streams; the other   *)
(* uploads compute the hash of what they received.  Handlers ask first     *)
(* whether there is a store at all; processing does not.                   *)
Start(r, op, h, c) ==
  /\ req[r] = NoReq /\ op \in Sends[r]
  /\ op = "put" \/ c = h
  /\ req' = [req EXCEPT ![r] = [op |-> op, phase |-> IF op = "job" THEN "select" ELSE "configured",
                                hash |-> h, content |-> c, answer |-> "none"]]
  /\ UNCHANGED <<settings, store, temp, known, rows, crashes>>

(* is_cas_configured, then get_cas_backend: each looks the settings up for  *)
(* itself, and what the first one found is not what the second one gives.  *)
(* Both stores are configured here: the question is answered yes.          *)
Select(r) ==
  /\ req[r].phase \in {"configured", "select"}
  /\ Hit(r) \/ Fetch(r) \/ KeepEntry(r) \/ FetchFails(r, EnvBackend)
  /\ UNCHANGED blobs

Configured(r) ==
  /\ req[r].phase = "configured" /\ look[r].stage = "back"
  /\ look' = [look EXCEPT ![r] = Idle]
  /\ Goto(r, "select")
  /\ UNCHANGED <<doc, age, cache, writing, writes, store, temp, known, rows, crashes>>

(* The body goes to a temporary file and is hashed on the way ...          *)
OpenTemp(r) ==
  /\ Is(r, Puts, "select") /\ Chosen(r)
  /\ temp' = temp \union {r}
  /\ Goto(r, "stream")
  /\ UNCHANGED <<settings, store, known, rows, crashes>>

(* ... which must give the claimed one.                                    *)
Mismatch(r) == req[r].hash # req[r].content

CheckHashKeepFile(r) ==
  /\ Is(r, Puts, "stream")
  /\ IF Mismatch(r) THEN Answer(r, "error") ELSE Goto(r, "place")
  /\ UNCHANGED <<settings, store, temp, known, rows, crashes>>

CheckHash(r) ==
  /\ Is(r, Puts, "stream")
  /\ IF Mismatch(r) THEN Answer(r, "error") /\ temp' = temp \ {r}
                    ELSE Goto(r, "place") /\ UNCHANGED temp
  /\ UNCHANGED <<settings, store, known, rows, crashes>>

(* The client goes away, the file is too large, the disk or S3 fails.      *)
BreakOffSwallowed(r) ==
  /\ Is(r, Puts, "stream") \/ Is(r, Puts, "place")
  /\ temp' = temp \ {r}
  /\ IF req[r].op = "upload" THEN Goto(r, "row") ELSE Answer(r, "error")
  /\ UNCHANGED <<settings, store, known, rows, crashes>>

BreakOff(r) ==
  /\ Is(r, Puts, "stream") \/ Is(r, Puts, "place")
  /\ temp' = temp \ {r}
  /\ Answer(r, "error")
  /\ UNCHANGED <<settings, store, known, rows, crashes>>

(* put_from_path.  The file system moves the file unless the blob is       *)
(* there; S3 is sent a copy.  Only the CAS API leaves what remains; the    *)
(* other callers remove it.                                                *)
Moves(r) == look[r].value = "nas" /\ ~Stored("nas", req[r].hash)
AfterPlace(r) == [put |-> "remember", upload |-> "row", job |-> "done"][req[r].op]

Place(r) ==
  /\ Is(r, Puts, "place")
  /\ store' = [store EXCEPT ![look[r].value][req[r].hash] = IF @ = None THEN req[r].content ELSE @]
  /\ temp' = IF req[r].op # "put" \/ Moves(r) THEN temp \ {r} ELSE temp
  /\ Goto(r, AfterPlace(r))
  /\ UNCHANGED <<settings, known, rows, crashes>>

(* _remember; Redis may be down.                                           *)
Remember(r) ==
  /\ Is(r, {"put"}, "remember")
  /\ known' \in {known, known \union {req[r].hash}}
  /\ Answer(r, "yes")
  /\ UNCHANGED <<settings, store, temp, rows, crashes>>

(* The row that refers to the upload, unless the database refuses it.      *)
InsertRow(r) ==
  /\ Is(r, {"upload"}, "row")
  /\ \/ rows' = rows \union {req[r].hash} /\ Answer(r, "yes")
     \/ UNCHANGED rows /\ Answer(r, "error")
  /\ UNCHANGED <<settings, store, temp, known, crashes>>

-----------------------------------------------------------------------------
(* GET /blobs/{hash}/exists: Redis, which may be down, then the store; a   *)
(* yes is remembered, a no removes what is remembered.                     *)
AskCache(r) ==
  /\ Is(r, {"ask"}, "select") /\ Chosen(r)
  /\ \/ req[r].hash \in known /\ Answer(r, "yes")
     \/ Goto(r, "probe")
  /\ UNCHANGED <<settings, store, temp, known, rows, crashes>>

Probe(r) ==
  /\ Is(r, {"ask"}, "probe")
  /\ req' = [req EXCEPT ![r].phase = "note",
                        ![r].answer = IF Stored(look[r].value, req[r].hash) THEN "yes" ELSE "no"]
  /\ UNCHANGED <<settings, store, temp, known, rows, crashes>>

NoteAlways(r) ==
  /\ Is(r, {"ask"}, "note")
  /\ known' \in {known, known \union {req[r].hash}}
  /\ Goto(r, "done")
  /\ UNCHANGED <<settings, store, temp, rows, crashes>>

Note(r) ==
  /\ Is(r, {"ask"}, "note")
  /\ known' \in {known, IF req[r].answer = "yes" THEN known \union {req[r].hash}
                                               ELSE known \ {req[r].hash}}
  /\ Goto(r, "done")
  /\ UNCHANGED <<settings, store, temp, rows, crashes>>

Expire(h) ==
  /\ h \in known
  /\ known' = known \ {h}
  /\ UNCHANGED <<settings, store, temp, rows, req, crashes>>

(* GET and HEAD of a blob, downloads of attachments and media.             *)
Read(r) ==
  /\ Is(r, {"read"}, "select") /\ Chosen(r)
  /\ Answer(r, IF Stored(look[r].value, req[r].hash) THEN "yes" ELSE "no")
  /\ UNCHANGED <<settings, store, temp, known, rows, crashes>>

(* S3 answers exists with anything but yes or 404: the handler fails, and   *)
(* nothing is remembered.                                                  *)
StoreFails(r) ==
  /\ Is(r, {"ask"}, "probe") \/ (Is(r, {"read"}, "select") /\ Chosen(r))
  /\ look[r].value = "s3"
  /\ Answer(r, "error")
  /\ UNCHANGED <<settings, store, temp, known, rows, crashes>>

-----------------------------------------------------------------------------
(* A process dies with its open requests; files and Redis stay.            *)
OpenOn(p) == {r \in Requests : ProcOf[r] = p /\ req[r].phase \notin {"new", "done"}}

Crash(p) ==
  /\ crashes < MaxCrashes /\ OpenOn(p) # {}
  /\ crashes' = crashes + 1
  /\ req' = [r \in Requests |-> IF r \in OpenOn(p)
                                  THEN [req[r] EXCEPT !.phase = "done", !.answer = "lost"] ELSE req[r]]
  /\ Restarted(p)
  /\ look' = [r \in Requests |-> IF r \in OpenOn(p) /\ ~Chosen(r) THEN Idle ELSE look[r]]
  /\ UNCHANGED <<doc, age, writes, store, temp, known, rows>>

SaveSetting(p) ==
  /\ SaveDocument(p) \/ \E b \in Backends : b # doc /\ DropEntry(p, b)
  /\ UNCHANGED blobs

Time == Tick /\ UNCHANGED blobs

Step(r) ==
  \/ Select(r) \/ Configured(r) \/ OpenTemp(r) \/ CheckHash(r) \/ BreakOff(r) \/ Place(r) \/ Remember(r)
  \/ InsertRow(r) \/ AskCache(r) \/ Probe(r) \/ Note(r) \/ Read(r) \/ StoreFails(r)

Next ==
  \/ \E r \in Requests : Step(r) \/ \E op \in Ops, h \in Hashes, c \in Contents : Start(r, op, h, c)
  \/ \E h \in Hashes : Expire(h)
  \/ \E p \in Procs : SaveSetting(p) \/ Crash(p)
  \/ Time

Spec == Init /\ [][Next]_vars

-----------------------------------------------------------------------------
(* Requests that have chosen agree on b: the setting was not changed       *)
(* between them, and no lookup fell back to another choice.                *)
AllChose(b) == \A q \in Requests : Chosen(q) => look[q].value = b

(* "Blob exists" is true: the content is stored, whole and under its own   *)
(* name, in one of the backends, and in the one requests work with as long *)
(* as they agree on it.  (Redis is asked without naming a backend.)        *)
ExistsHolds ==
  /\ \A b \in Backends, h \in Hashes : store[b][h] \in {h, None}
  /\ \A r \in Requests :
       req[r].op = "ask" /\ req[r].answer = "yes" =>
         /\ \E b \in Backends : Stored(b, req[r].hash)
         /\ \A b \in Backends : AllChose(b) => Stored(b, req[r].hash)

(* A row refers to a stored content, and whoever reads it finds it where   *)
(* all requests so far looked.                                             *)
RowsReadable ==
  [][\A r \in Requests :
       Read(r) /\ req[r].hash \in rows /\ AllChose(look[r].value) => req'[r].answer = "yes"]_vars

(* An upload that got its blob into the file system and left no file of its *)
(* own behind.                                                             *)
Delivered(q) ==
  /\ req[q].op \in Puts /\ req[q].phase \in {"remember", "row", "done"}
  /\ Chosen(q) /\ look[q].value = "nas" /\ q \notin temp

(* Temporary files: every file belongs to an upload under way, except that *)
(* a crash leaves those of its process, and a CAS upload that succeeds     *)
(* leaves its own if it went to S3 or if the blob was there already, put   *)
(* by another upload.  One that fails leaves none.                         *)
TempsAccounted ==
  \A r \in temp :
    \/ req[r].phase \in {"stream", "place"}
    \/ req[r].answer = "lost"
    \/ /\ req[r].op = "put" /\ (req[r].phase = "remember" \/ req[r].answer = "yes")
       /\ look[r].value = "nas" =>
            \E q \in Requests : Delivered(q) /\ req[q].hash = req[r].hash
=============================================================================
