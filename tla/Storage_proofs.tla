--------------------------- MODULE Storage_proofs ---------------------------
(***************************************************************************)
(* Theorems about the blobs: BlobStore (how old a cached setting may be,   *)
(* what a blob that is said to exist or that a row names is worth, which   *)
(* temporary files remain) and StorageCheck (what is reported missing and  *)
(* what is reported as unneeded), for any processes, requests, contents    *)
(* and bounds.                                                             *)
(***************************************************************************)
EXTENDS BlobStore, StorageCheck, SequenceTheorems, TLAPS

-----------------------------------------------------------------------------
(* The settings and their copies.                                          *)

(* A document that was read has been the saved one since the clock was     *)
(* looked at.                                                              *)
FetchedRecently ==
  \A r \in Readers : look[r].stage = "fetched" => age[look[r].value] <= look[r].spent

SettingsIInv == SettingsTypeOK /\ age[doc] = 0 /\ BoundedStaleness /\ FetchedRecently

Looks == {Idle} \union [stage : {"fetched", "back"}, value : Values, spent : 0..TTL]

LEMMA InitSettings == SettingsInit => SettingsIInv
BY TTLAssumption, WritesAssumption, ReadersAssumption
   DEF SettingsInit, SettingsIInv, SettingsTypeOK, BoundedStaleness, FetchedRecently, Idle

LEMMA UpToBound ==
  ASSUME NEW n \in 0..TTL
  PROVE  UpTo(n) \in 0..TTL /\ UpTo(n) <= n + 1
BY TTLAssumption DEF UpTo

LEMMA UpToMonotone ==
  ASSUME NEW m \in 0..TTL, NEW n \in 0..TTL, m <= n
  PROVE  UpTo(m) <= UpTo(n)
BY TTLAssumption DEF UpTo

(* What a call has read, once it has read it.                              *)
LEMMA LookRead ==
  ASSUME SettingsTypeOK, NEW r \in Readers, look[r].stage # "idle"
  PROVE  /\ look[r] \in [stage : {"fetched", "back"}, value : Values, spent : 0..TTL]
         /\ look[r].value \in Values /\ look[r].spent \in 0..TTL
<1>1. look[r] \in Looks
  BY DEF SettingsTypeOK, Looks
<1>2. look[r] # Idle
  BY DEF Idle
<1>3. QED  BY <1>1, <1>2 DEF Looks

LEMMA LooksChange ==
  ASSUME SettingsTypeOK, NEW r \in Readers,
         NEW new \in [stage : {"fetched", "back"}, value : Values, spent : 0..TTL],
         look' = [look EXCEPT ![r] = new]
  PROVE  /\ look' \in [Readers -> Looks]
         /\ look'[r] = new
         /\ \A q \in Readers : q # r => look'[q] = look[q]
BY DEF SettingsTypeOK, Looks

LEMMA HitIInv ==
  ASSUME SettingsIInv, NEW r \in Readers, Hit(r)
  PROVE  SettingsIInv'
<1> USE DEF SettingsIInv
<1>1. ProcOf[r] \in Procs
  BY ReadersAssumption
<1>2. cache[ProcOf[r]].value \in Values
  BY <1>1 DEF SettingsTypeOK
<1> DEFINE new == [stage |-> "back", value |-> cache[ProcOf[r]].value, spent |-> 0]
<1>3. new \in [stage : {"fetched", "back"}, value : Values, spent : 0..TTL]
  BY <1>2, TTLAssumption
<1>4. look' = [look EXCEPT ![r] = new]
  BY DEF Hit, Returned
<1> HIDE DEF new
<1>5. /\ look' \in [Readers -> Looks]
      /\ look'[r] = new
      /\ \A q \in Readers : q # r => look'[q] = look[q]
  BY <1>3, <1>4, LooksChange
<1>6. look'[r].stage = "back"
  BY <1>5 DEF new
<1>7. QED  BY <1>5, <1>6 DEF Hit, SettingsTypeOK, Looks, BoundedStaleness, FetchedRecently

LEMMA FallbackIInv ==
  ASSUME SettingsIInv, NEW r \in Readers, NEW v \in Values, FetchFails(r, v)
  PROVE  SettingsIInv'
<1> USE DEF SettingsIInv
<1> DEFINE new == [stage |-> "back", value |-> v, spent |-> 0]
<1>3. new \in [stage : {"fetched", "back"}, value : Values, spent : 0..TTL]
  BY TTLAssumption
<1>4. look' = [look EXCEPT ![r] = new]
  BY DEF FetchFails, Returned
<1> HIDE DEF new
<1>5. /\ look' \in [Readers -> Looks]
      /\ look'[r] = new
      /\ \A q \in Readers : q # r => look'[q] = look[q]
  BY <1>3, <1>4, LooksChange
<1>6. look'[r].stage = "back"
  BY <1>5 DEF new
<1>7. QED  BY <1>5, <1>6 DEF FetchFails, SettingsTypeOK, Looks, BoundedStaleness, FetchedRecently

LEMMA FetchIInv ==
  ASSUME SettingsIInv, NEW r \in Readers, Fetch(r)
  PROVE  SettingsIInv'
<1> USE DEF SettingsIInv
<1> DEFINE new == [stage |-> "fetched", value |-> doc, spent |-> 0]
<1>3. new \in [stage : {"fetched", "back"}, value : Values, spent : 0..TTL]
  BY TTLAssumption DEF SettingsTypeOK
<1>4. look' = [look EXCEPT ![r] = new]
  BY DEF Fetch
<1> HIDE DEF new
<1>5. /\ look' \in [Readers -> Looks]
      /\ look'[r] = new
      /\ \A q \in Readers : q # r => look'[q] = look[q]
  BY <1>3, <1>4, LooksChange
<1>6. look'[r].value = doc /\ look'[r].spent = 0
  BY <1>5 DEF new
<1>7. FetchedRecently'
  BY <1>5, <1>6 DEF Fetch, FetchedRecently
<1>8. QED  BY <1>5, <1>7 DEF Fetch, SettingsTypeOK, Looks, BoundedStaleness

LEMMA KeepIInv ==
  ASSUME SettingsIInv, NEW r \in Readers, KeepEntry(r)
  PROVE  SettingsIInv'
<1> USE DEF SettingsIInv
<1>1. ProcOf[r] \in Procs
  BY ReadersAssumption
<1>2. look[r].value \in Values /\ look[r].spent \in 0..TTL
  BY LookRead DEF KeepEntry
<1> DEFINE new == [stage |-> "back", value |-> look[r].value, spent |-> 0]
           entry == [value |-> look[r].value, left |-> TTL - look[r].spent]
<1>3. new \in [stage : {"fetched", "back"}, value : Values, spent : 0..TTL]
  BY <1>2, TTLAssumption
<1>4. look' = [look EXCEPT ![r] = new]
  BY DEF KeepEntry, Returned
<1>5. cache' = [cache EXCEPT ![ProcOf[r]] = entry]
  BY DEF KeepEntry
<1>6. entry \in [value : Values, left : 0..TTL]
  BY <1>2, TTLAssumption
<1>7. new.stage = "back" /\ entry.value = look[r].value /\ entry.left = TTL - look[r].spent
  OBVIOUS
<1> HIDE DEF new, entry
<1>8. /\ look' \in [Readers -> Looks]
      /\ look'[r] = new
      /\ \A q \in Readers : q # r => look'[q] = look[q]
  BY <1>3, <1>4, LooksChange
<1>9. cache' \in [Procs -> [value : Values, left : 0..TTL]]
  BY <1>1, <1>5, <1>6 DEF SettingsTypeOK
<1>10. age[look[r].value] + entry.left <= TTL
  <2>1. age[look[r].value] <= look[r].spent
    BY DEF KeepEntry, FetchedRecently
  <2>2. age[look[r].value] \in 0..TTL
    BY <1>2 DEF SettingsTypeOK
  <2>3. QED  BY <2>1, <2>2, <1>2, <1>7, TTLAssumption
<1>11. BoundedStaleness'
  <2>1. age' = age
    BY DEF KeepEntry
  <2>2. cache'[ProcOf[r]] = entry /\ \A p \in Procs : p # ProcOf[r] => cache'[p] = cache[p]
    BY <1>1, <1>5 DEF SettingsTypeOK
  <2>3. QED  BY <1>7, <1>10, <2>1, <2>2 DEF BoundedStaleness
<1>12. FetchedRecently'
  BY <1>7, <1>8 DEF KeepEntry, FetchedRecently
<1>13. QED  BY <1>8, <1>9, <1>11, <1>12 DEF KeepEntry, SettingsTypeOK, Looks

LEMMA DropIInv ==
  ASSUME SettingsIInv, NEW p \in Procs, NEW v \in Values, DropEntry(p, v)
  PROVE  SettingsIInv'
<1> USE DEF SettingsIInv
<1>1. cache' \in [Procs -> [value : Values, left : 0..TTL]]
  BY TTLAssumption DEF DropEntry, SettingsTypeOK
<1>2. \A q \in Procs : cache'[q].left > 0 => cache'[q] = cache[q]
  BY TTLAssumption DEF DropEntry, SettingsTypeOK
<1>3. BoundedStaleness'
  BY <1>2 DEF DropEntry, BoundedStaleness
<1>4. QED  BY <1>1, <1>3, WritesAssumption DEF DropEntry, SettingsTypeOK, FetchedRecently

LEMMA SaveIInv ==
  ASSUME SettingsIInv, NEW p \in Procs, SaveDocument(p)
  PROVE  SettingsIInv'
<1> USE DEF SettingsIInv
<1>1. writing[p] \in Values
  BY DEF SaveDocument, SettingsTypeOK
<1>2. age' \in [Values -> 0..TTL] /\ \A v \in Values : age'[v] <= age[v]
  BY <1>1, TTLAssumption DEF SaveDocument, SettingsTypeOK
<1>3. age'[doc'] = 0 /\ doc' \in Values
  BY <1>1 DEF SaveDocument, SettingsTypeOK
<1>4. BoundedStaleness'
  BY <1>2, TTLAssumption DEF SaveDocument, BoundedStaleness, SettingsTypeOK
<1>5. FetchedRecently'
  <2> SUFFICES ASSUME NEW r \in Readers, look[r].stage = "fetched"
               PROVE  age'[look[r].value] <= look[r].spent
    BY DEF SaveDocument, FetchedRecently
  <2>1. look[r].value \in Values /\ look[r].spent \in 0..TTL
    BY LookRead
  <2>2. age[look[r].value] <= look[r].spent
    BY DEF FetchedRecently
  <2>3. QED  BY <1>2, <2>1, <2>2 DEF SettingsTypeOK
<1>6. writing' \in [Procs -> Values \union {NoValue}]
  BY DEF SaveDocument, SettingsTypeOK
<1>7. QED  BY <1>2, <1>3, <1>4, <1>5, <1>6 DEF SaveDocument, SettingsTypeOK

LEMMA TickIInv == SettingsIInv /\ Tick => SettingsIInv'
<1> SUFFICES ASSUME SettingsIInv, Tick PROVE SettingsIInv'
  OBVIOUS
<1> USE DEF SettingsIInv
<1>1. /\ age' \in [Values -> 0..TTL]
      /\ \A v \in Values : age'[v] <= UpTo(age[v])
  BY UpToBound, TTLAssumption DEF Tick, SettingsTypeOK
<1>2. age'[doc'] = 0
  BY DEF Tick, SettingsTypeOK
<1>3. /\ cache' \in [Procs -> [value : Values, left : 0..TTL]]
      /\ \A p \in Procs : cache'[p].left > 0 =>
           /\ cache'[p].value = cache[p].value
           /\ cache[p].left > 0 /\ cache'[p].left = cache[p].left - 1
  BY TTLAssumption DEF Tick, SettingsTypeOK
<1>4. ASSUME NEW r \in Readers, look[r].stage = "fetched"
      PROVE  /\ look'[r] \in [stage : {"fetched", "back"}, value : Values, spent : 0..TTL]
             /\ look'[r].value = look[r].value
             /\ look'[r].spent = UpTo(look[r].spent)
  <2>1. /\ look[r] \in [stage : {"fetched", "back"}, value : Values, spent : 0..TTL]
        /\ look[r].spent \in 0..TTL
    BY <1>4, LookRead
  <2>2. look'[r] = [look[r] EXCEPT !.spent = UpTo(@)]
    BY <1>4 DEF Tick
  <2>3. UpTo(look[r].spent) \in 0..TTL
    BY <2>1, UpToBound
  <2>4. QED  BY <2>1, <2>2, <2>3
<1>5. \A r \in Readers : look[r].stage # "fetched" => look'[r] = look[r]
  BY DEF Tick
<1>6. look' \in [Readers -> Looks]
  <2>1. \A r \in Readers : look'[r] \in Looks
    BY <1>4, <1>5 DEF SettingsTypeOK, Looks
  <2>2. QED  BY <2>1 DEF Tick
<1>7. BoundedStaleness'
  <2> SUFFICES ASSUME NEW p \in Procs, cache'[p].left > 0
               PROVE  age'[cache'[p].value] + cache'[p].left <= TTL
    BY DEF BoundedStaleness
  <2>1. age[cache[p].value] + cache[p].left <= TTL
    BY <1>3 DEF BoundedStaleness
  <2>2. age[cache[p].value] \in 0..TTL /\ cache[p].left \in 0..TTL /\ cache[p].value \in Values
    BY DEF SettingsTypeOK
  <2>3. UpTo(age[cache[p].value]) <= age[cache[p].value] + 1 /\ UpTo(age[cache[p].value]) \in 0..TTL
    BY <2>2, UpToBound
  <2>4. age'[cache[p].value] <= UpTo(age[cache[p].value]) /\ age'[cache[p].value] \in 0..TTL
    BY <1>1, <2>2
  <2>5. cache'[p].value = cache[p].value /\ cache'[p].left = cache[p].left - 1
    BY <1>3
  <2>6. QED  BY <2>1, <2>2, <2>3, <2>4, <2>5, TTLAssumption
<1>8. FetchedRecently'
  <2> SUFFICES ASSUME NEW r \in Readers, look'[r].stage = "fetched"
               PROVE  age'[look'[r].value] <= look'[r].spent
    BY DEF FetchedRecently
  <2>1. look[r].stage = "fetched"
    BY <1>5
  <2>2. look[r].value \in Values /\ look[r].spent \in 0..TTL
    BY <2>1, LookRead
  <2>3. age[look[r].value] <= look[r].spent /\ age[look[r].value] \in 0..TTL
    BY <2>1, <2>2 DEF FetchedRecently, SettingsTypeOK
  <2>4. UpTo(age[look[r].value]) <= UpTo(look[r].spent)
    BY <2>2, <2>3, UpToMonotone
  <2>5. age'[look[r].value] <= UpTo(age[look[r].value])
    BY <1>1, <2>2
  <2>6. UpTo(age[look[r].value]) \in 0..TTL /\ UpTo(look[r].spent) \in 0..TTL /\ age'[look[r].value] \in 0..TTL
    BY <1>1, <2>2, <2>3, UpToBound
  <2>7. QED  BY <1>4, <2>1, <2>4, <2>5, <2>6, TTLAssumption
<1>9. QED  BY <1>1, <1>2, <1>3, <1>6, <1>7, <1>8 DEF Tick, SettingsTypeOK, Looks

-----------------------------------------------------------------------------
(* Requests.                                                               *)

Records == [op : Ops, phase : Phases, hash : Hashes, content : Contents,
            answer : {"none", "yes", "no", "error", "lost"}]

(* A blob that exists for everybody who is asked: stored somewhere, and    *)
(* where the requests so far looked if they looked in one place.           *)
Held(h) ==
  /\ \E b \in Backends : Stored(b, h)
  /\ \A b \in Backends : AllChose(b) => Stored(b, h)

(* A file that a successful CAS upload leaves.                             *)
Left(r) ==
  /\ req[r].op = "put" /\ (req[r].phase = "remember" \/ req[r].answer = "yes")
  /\ req[r].hash \in Hashes /\ Chosen(r)
  /\ look[r].value = "nas" => Stored("nas", req[r].hash)

(* What is true of each request: it works with a backend it has chosen,    *)
(* what it stores has the right hash, and what it has stored is there.     *)
Fine(r) ==
  /\ req[r].phase \in {"stream", "place", "remember", "row", "probe", "note"} => Chosen(r)
  /\ req[r].op \in {"upload", "job"} \/ req[r].phase \in {"place", "remember"}
       => req[r].content = req[r].hash
  /\ req[r].phase \in {"remember", "row"} => Stored(look[r].value, req[r].hash)
  /\ req[r].answer = "lost" => req[r].phase = "done"
  /\ req[r].phase \in {"new", "configured", "select", "stream", "place"} => req[r].answer = "none"
  /\ req[r].phase = "new" => look[r] = Idle
  /\ r \in temp => \/ req[r].phase \in {"stream", "place"}
                   \/ req[r].answer = "lost"
                   \/ Left(r)
  /\ req[r].op = "ask" /\ req[r].answer = "yes" => Held(req[r].hash)

(* What the file system has was moved there.                               *)
Put(h) == \E q \in Requests : Delivered(q) /\ req[q].hash = h

Whole == \A b \in Backends, h \in Hashes : store[b][h] \in {h, None}

IInv ==
  /\ SettingsIInv /\ TypeOK /\ Whole
  /\ \A r \in Requests : Fine(r)
  /\ \A h \in known \union rows : Held(h)
  /\ \A h \in Hashes : Stored("nas", h) => Put(h)

(* Blobs stay, and so does a choice.                                       *)
Kept ==
  /\ \A b \in Backends, h \in Hashes : Stored(b, h) => Stored(b, h)'
  /\ \A r \in Requests : Chosen(r) => look'[r] = look[r] /\ Chosen(r)'
  /\ \A r \in Requests : req[r].phase = "new" => look'[r] = look[r]

(* So does what a request has delivered.                                   *)
StillDelivered(r) ==
  /\ Delivered(r) => Delivered(r)' /\ req'[r].hash = req[r].hash
  /\ \A h \in Hashes : Stored("nas", h)' =>
       Stored("nas", h) \/ (Delivered(r)' /\ req'[r].hash = h)

LEMMA HeldKept ==
  ASSUME Kept, NEW h \in Hashes, Held(h)
  PROVE  Held(h)'
BY DEF Kept, Held, AllChose

LEMMA HeldWhereChosen ==
  ASSUME NEW h \in Hashes, NEW r \in Requests, Chosen(r), look[r].value \in Backends,
         Stored(look[r].value, h)
  PROVE  Held(h)
BY DEF Held, AllChose

LEMMA Live ==
  ASSUME TypeOK, NEW r \in Requests, req[r].phase # "new"
  PROVE  /\ req[r] \in Records
         /\ req[r].hash \in Hashes /\ req[r].content \in Contents /\ req[r].op \in Ops
BY DEF TypeOK, Records, NoReq

LEMMA ChosenBackend ==
  ASSUME SettingsIInv, NEW r \in Requests, Chosen(r)
  PROVE  look[r].value \in Backends
BY LookRead, RequestsAssumption DEF SettingsIInv, Chosen, Backends

(* The other requests, and a request that a step leaves alone.             *)
LEMMA FineKept ==
  ASSUME SettingsIInv, TypeOK, Kept, NEW q \in Requests, Fine(q), req'[q] = req[q],
         q \in temp' => q \in temp
  PROVE  Fine(q)'
<1>1. req[q].phase = "new" \/ req[q].hash \in Hashes
  BY Live
<1>2. req[q].op = "ask" /\ req[q].answer = "yes" => Held(req[q].hash)'
  BY <1>1, HeldKept DEF Fine
<1>3. Chosen(q) => Chosen(q)' /\ look'[q] = look[q]
  BY DEF Kept
<1>4. req[q].phase \in {"remember", "row"} => Stored(look[q].value, req[q].hash)'
  <2> SUFFICES ASSUME req[q].phase \in {"remember", "row"}
               PROVE  Stored(look[q].value, req[q].hash)'
    OBVIOUS
  <2>1. look[q].value \in Backends
    BY ChosenBackend DEF Fine
  <2>2. look'[q] = look[q] /\ req[q].hash \in Hashes
    BY <1>1, <1>3 DEF Fine
  <2>3. QED  BY <2>1, <2>2 DEF Fine, Kept
<1>5. Left(q) /\ q \in temp => Left(q)'
  <2> SUFFICES ASSUME Left(q), q \in temp PROVE Left(q)'
    OBVIOUS
  <2>1. look'[q].value = look[q].value
    BY <1>3 DEF Left
  <2>2. "nas" \in Backends
    BY BackendsAssumption
  <2>3. Chosen(q)'
    BY <1>3 DEF Left
  <2>4. QED  BY <2>1, <2>2, <2>3 DEF Left, Kept
<1>6. req[q].phase = "new" => look'[q] = Idle
  BY DEF Fine, Kept
<1>7. QED  BY <1>1, <1>2, <1>3, <1>4, <1>5, <1>6 DEF Fine

(* A step of one request.                                                  *)
LEMMA OneMoves ==
  ASSUME IInv, SettingsIInv', TypeOK', Whole', Kept, NEW r \in Requests, Fine(r)',
         \A q \in Requests \ {r} : req'[q] = req[q], temp' \subseteq temp \union {r},
         \A h \in (known' \union rows') \ (known \union rows) : Held(h)',
         StillDelivered(r)
  PROVE  IInv'
<1>1. \A q \in Requests : Fine(q)'
  BY FineKept DEF IInv
<1>2. \A h \in known \union rows : Held(h)'
  BY HeldKept DEF IInv, TypeOK
<1>3. \A q \in Requests : Delivered(q) => Delivered(q)' /\ req'[q].hash = req[q].hash
  <2>1. ASSUME NEW q \in Requests \ {r}, Delivered(q)
        PROVE  Delivered(q)' /\ req'[q].hash = req[q].hash
    BY <2>1 DEF Delivered, Kept
  <2>2. QED  BY <2>1 DEF StillDelivered
<1>4. \A h \in Hashes : Stored("nas", h)' => Put(h)'
  BY <1>3 DEF StillDelivered, IInv, Put
<1>5. QED  BY <1>1, <1>2, <1>4 DEF IInv

LEMMA Gone ==
  ASSUME TypeOK, NEW r \in Requests, req[r].phase # "new", NEW phase \in Phases, Goto(r, phase)
  PROVE  /\ req' \in [Requests -> {NoReq} \union Records]
         /\ \A q \in Requests \ {r} : req'[q] = req[q]
         /\ req'[r].phase = phase
         /\ req'[r].op = req[r].op /\ req'[r].hash = req[r].hash
         /\ req'[r].content = req[r].content /\ req'[r].answer = req[r].answer
<1> DEFINE new == [req[r] EXCEPT !.phase = phase]
<1>1. req[r] \in Records
  BY Live
<1>2. /\ new \in Records
      /\ new.phase = phase
      /\ new.op = req[r].op /\ new.hash = req[r].hash
      /\ new.content = req[r].content /\ new.answer = req[r].answer
  BY <1>1 DEF Records
<1>3. req' = [req EXCEPT ![r] = new]
  BY DEF Goto
<1> HIDE DEF new
<1>4. /\ req' \in [Requests -> {NoReq} \union Records] /\ req'[r] = new
      /\ \A q \in Requests \ {r} : req'[q] = req[q]
  BY <1>2, <1>3 DEF TypeOK, Records
<1>5. QED  BY <1>2, <1>4

LEMMA Answered ==
  ASSUME TypeOK, NEW r \in Requests, req[r].phase # "new",
         NEW a \in {"none", "yes", "no", "error", "lost"}, Answer(r, a)
  PROVE  /\ req' \in [Requests -> {NoReq} \union Records]
         /\ \A q \in Requests \ {r} : req'[q] = req[q]
         /\ req'[r].phase = "done"
         /\ req'[r].op = req[r].op /\ req'[r].hash = req[r].hash
         /\ req'[r].content = req[r].content /\ req'[r].answer = a
<1> DEFINE new == [req[r] EXCEPT !.phase = "done", !.answer = a]
<1>1. req[r] \in Records
  BY Live
<1>2. /\ new \in Records
      /\ new.phase = "done"
      /\ new.op = req[r].op /\ new.hash = req[r].hash
      /\ new.content = req[r].content /\ new.answer = a
  BY <1>1 DEF Records, Phases
<1>3. req' = [req EXCEPT ![r] = new]
  BY DEF Answer
<1> HIDE DEF new
<1>4. /\ req' \in [Requests -> {NoReq} \union Records] /\ req'[r] = new
      /\ \A q \in Requests \ {r} : req'[q] = req[q]
  BY <1>2, <1>3 DEF TypeOK, Records
<1>5. QED  BY <1>2, <1>4

(* Steps that leave the settings alone.                                    *)
LEMMA SettingsKept == SettingsIInv /\ UNCHANGED settings => SettingsIInv'
BY DEF settings, SettingsIInv, SettingsTypeOK, BoundedStaleness, FetchedRecently

LEMMA StartIInv ==
  ASSUME IInv, NEW r \in Requests, NEW op \in Ops, NEW h \in Hashes, NEW c \in Contents,
         Start(r, op, h, c)
  PROVE  IInv'
<1> DEFINE new == [op |-> op, phase |-> IF op = "job" THEN "select" ELSE "configured",
                   hash |-> h, content |-> c, answer |-> "none"]
<1>1. new \in Records
  BY DEF Records, Phases
<1>2. req' = [req EXCEPT ![r] = new]
  BY DEF Start
<1>3. /\ req' \in [Requests -> {NoReq} \union Records] /\ req'[r] = new
      /\ \A q \in Requests \ {r} : req'[q] = req[q]
  BY <1>1, <1>2 DEF IInv, TypeOK, Records
<1>4. look[r] = Idle /\ ~Chosen(r) /\ r \notin temp /\ ~Delivered(r)
  BY DEF Start, NoReq, IInv, Fine, Left, Chosen, Idle, Delivered
<1>5. SettingsIInv' /\ Kept /\ StillDelivered(r)
  BY <1>3, <1>4, SettingsKept DEF IInv, Start, Kept, StillDelivered, Stored, Chosen, settings
<1>6. TypeOK' /\ Whole'
  BY <1>3, <1>5 DEF IInv, Start, TypeOK, Whole, Records, SettingsIInv
<1>7. Fine(r)'
  BY <1>3, <1>4 DEF Start, Fine, Puts
<1>8. QED  BY <1>3, <1>4, <1>5, <1>6, <1>7, OneMoves DEF Start, IInv

LEMMA OpenIInv ==
  ASSUME IInv, NEW r \in Requests, OpenTemp(r)
  PROVE  IInv'
<1> USE DEF IInv
<1>1. /\ req' \in [Requests -> {NoReq} \union Records]
      /\ \A q \in Requests \ {r} : req'[q] = req[q]
      /\ req'[r].phase = "stream"
      /\ req'[r].op = req[r].op /\ req'[r].hash = req[r].hash
      /\ req'[r].content = req[r].content /\ req'[r].answer = req[r].answer
  BY Gone DEF OpenTemp, Is, Phases
<1>2. SettingsIInv' /\ Kept /\ StillDelivered(r)
  BY <1>1, SettingsKept DEF OpenTemp, Is, Puts, Kept, StillDelivered, Delivered, Chosen, Stored, settings
<1>3. TypeOK' /\ Whole'
  BY <1>1, <1>2 DEF OpenTemp, TypeOK, Whole, Records, SettingsIInv
<1>4. Fine(r)'
  BY <1>1 DEF OpenTemp, Is, Puts, Fine, Chosen, settings
<1>5. QED  BY <1>1, <1>2, <1>3, <1>4, OneMoves DEF OpenTemp

LEMMA CheckIInv ==
  ASSUME IInv, NEW r \in Requests, CheckHash(r)
  PROVE  IInv'
<1> USE DEF IInv
<1>1. /\ req' \in [Requests -> {NoReq} \union Records]
      /\ \A q \in Requests \ {r} : req'[q] = req[q]
      /\ req'[r].op = req[r].op /\ req'[r].hash = req[r].hash /\ req'[r].content = req[r].content
      /\ Mismatch(r) => req'[r].phase = "done" /\ req'[r].answer = "error"
      /\ ~Mismatch(r) => req'[r].phase = "place" /\ req'[r].answer = req[r].answer
  <2>1. CASE Mismatch(r)
    BY <2>1, Answered DEF CheckHash, Is
  <2>2. CASE ~Mismatch(r)
    BY <2>2, Gone DEF CheckHash, Is, Phases
  <2>3. QED  BY <2>1, <2>2
<1>2. SettingsIInv' /\ Kept /\ StillDelivered(r)
  BY <1>1, SettingsKept DEF CheckHash, Is, Puts, Kept, StillDelivered, Delivered, Chosen, Stored, settings
<1>3. TypeOK' /\ Whole'
  BY <1>1, <1>2 DEF CheckHash, TypeOK, Whole, Records, SettingsIInv
<1>4. Fine(r)'
  <2>1. CASE Mismatch(r)
    BY <2>1, <1>1 DEF CheckHash, Is, Puts, Fine, Mismatch
  <2>2. CASE ~Mismatch(r)
    BY <2>2, <1>1 DEF CheckHash, Is, Puts, Fine, Mismatch, Chosen, settings
  <2>3. QED  BY <2>1, <2>2
<1>5. QED  BY <1>1, <1>2, <1>3, <1>4, OneMoves DEF CheckHash

LEMMA BreakIInv ==
  ASSUME IInv, NEW r \in Requests, BreakOff(r)
  PROVE  IInv'
<1> USE DEF IInv
<1>1. /\ req' \in [Requests -> {NoReq} \union Records]
      /\ \A q \in Requests \ {r} : req'[q] = req[q]
      /\ req'[r].phase = "done"
      /\ req'[r].op = req[r].op /\ req'[r].hash = req[r].hash
      /\ req'[r].content = req[r].content /\ req'[r].answer = "error"
  BY Answered DEF BreakOff, Is
<1>2. SettingsIInv' /\ Kept /\ StillDelivered(r)
  BY <1>1, SettingsKept DEF BreakOff, Is, Puts, Kept, StillDelivered, Delivered, Chosen, Stored, settings
<1>3. TypeOK' /\ Whole'
  BY <1>1, <1>2 DEF BreakOff, TypeOK, Whole, Records, SettingsIInv
<1>4. Fine(r)'
  BY <1>1 DEF BreakOff, Is, Puts, Fine
<1>5. QED  BY <1>1, <1>2, <1>3, <1>4, OneMoves DEF BreakOff

LEMMA PlaceIInv ==
  ASSUME IInv, NEW r \in Requests, Place(r)
  PROVE  IInv'
<1> USE DEF IInv
<1>1. AfterPlace(r) \in Phases
  BY Live DEF Place, Is, Puts, AfterPlace, Phases
<1>2. /\ req' \in [Requests -> {NoReq} \union Records]
      /\ \A q \in Requests \ {r} : req'[q] = req[q]
      /\ req'[r].phase = AfterPlace(r)
      /\ req'[r].op = req[r].op /\ req'[r].hash = req[r].hash
      /\ req'[r].content = req[r].content /\ req'[r].answer = req[r].answer
  BY <1>1, Gone DEF Place, Is
<1>3. req[r].hash \in Hashes /\ req[r].content = req[r].hash /\ Chosen(r) /\ look[r].value \in Backends
  BY Live, ChosenBackend DEF Place, Is, Fine
<1> DEFINE place == look[r].value
           h == req[r].hash
<1>4. store' = [store EXCEPT ![place][h] = IF store[place][h] = None THEN h ELSE store[place][h]]
  BY <1>3 DEF Place
<1>5. store' \in [Backends -> [Hashes -> Contents \union {None}]]
  BY <1>3, <1>4, HashesAssumption DEF TypeOK
<1>6. /\ store'[place][h] = IF store[place][h] = None THEN h ELSE store[place][h]
      /\ \A b \in Backends, g \in Hashes : b # place \/ g # h => store'[b][g] = store[b][g]
  BY <1>3, <1>4 DEF TypeOK
<1>7. Whole'
  BY <1>6 DEF Whole
<1>8. h # None
  BY <1>3, HashesAssumption
<1>9. Kept
  <2>1. look' = look
    BY DEF Place, settings
  <2>2. AfterPlace(r) # "configured"
    BY DEF Place, Is, Puts, AfterPlace
  <2>3. \A b \in Backends, g \in Hashes : Stored(b, g) => Stored(b, g)'
    BY <1>6, <1>8 DEF Stored
  <2>4. \A q \in Requests : Chosen(q) => Chosen(q)'
    BY <1>2, <2>1, <2>2 DEF Chosen
  <2>5. QED  BY <2>1, <2>3, <2>4 DEF Kept
<1>10. store'[place][h] # None
  BY <1>3, <1>6, <1>8
<1>11. SettingsIInv' /\ TypeOK'
  BY <1>2, <1>5, SettingsKept DEF Place, TypeOK, Records, SettingsIInv
<1>12. look' = look
  BY DEF Place, settings
<1>13. r \in temp' => req[r].op = "put" /\ ~Moves(r)
  BY DEF Place
<1>14. AfterPlace(r) \in {"remember", "row", "done"} /\ req[r].op # "ask"
  BY DEF Place, Is, Puts, AfterPlace
<1>15. Stored(look[r].value, req[r].hash)'
  BY <1>2, <1>10, <1>12 DEF Stored
<1>16. Chosen(r)'
  BY <1>2, <1>3, <1>12, <1>14 DEF Chosen
<1>17. req[r].answer # "lost"
  BY DEF Fine, Place, Is
<1>18. req[r].op = "put" => AfterPlace(r) = "remember"
  BY DEF AfterPlace
<1>19. Fine(r)'
  BY <1>2, <1>3, <1>10, <1>12, <1>13, <1>14, <1>15, <1>16, <1>17, <1>18 DEF Fine, Left, Stored
<1>20. StillDelivered(r)
  <2>1. ~Delivered(r)
    BY DEF Delivered, Place, Is
  <2>2. ASSUME NEW g \in Hashes, Stored("nas", g)', ~Stored("nas", g)
        PROVE  Delivered(r)' /\ req'[r].hash = g
    <3>1. place = "nas" /\ g = h
      BY <1>6, <2>2, BackendsAssumption DEF Stored
    <3>2. Moves(r)
      BY <2>2, <3>1 DEF Moves
    <3>3. r \notin temp'
      BY <1>13, <3>2
    <3>4. req'[r].op \in Puts /\ look'[r].value = "nas"
      BY <1>2, <1>12, <3>1 DEF Place, Is
    <3>5. QED  BY <1>2, <1>14, <1>16, <3>1, <3>3, <3>4 DEF Delivered
  <2>3. QED  BY <2>1, <2>2 DEF StillDelivered
<1>21. QED  BY <1>2, <1>7, <1>9, <1>11, <1>19, <1>20, OneMoves DEF Place

LEMMA RememberIInv ==
  ASSUME IInv, NEW r \in Requests, Remember(r)
  PROVE  IInv'
<1> USE DEF IInv
<1>1. /\ req' \in [Requests -> {NoReq} \union Records]
      /\ \A q \in Requests \ {r} : req'[q] = req[q]
      /\ req'[r].phase = "done"
      /\ req'[r].op = req[r].op /\ req'[r].hash = req[r].hash
      /\ req'[r].content = req[r].content /\ req'[r].answer = "yes"
  BY Answered DEF Remember, Is
<1>2. SettingsIInv' /\ Kept /\ StillDelivered(r)
  BY <1>1, SettingsKept DEF Remember, Is, Puts, Kept, StillDelivered, Delivered, Chosen, Stored, settings
<1>3. req[r].hash \in Hashes
  BY Live DEF Remember, Is
<1>4. TypeOK' /\ Whole'
  BY <1>1, <1>2, <1>3 DEF Remember, TypeOK, Whole, Records, SettingsIInv
<1>5. Held(req[r].hash)
  BY <1>3, ChosenBackend, HeldWhereChosen DEF Remember, Is, Fine
<1>7. Fine(r)'
  BY <1>1 DEF Remember, Is, Fine, Left, Chosen, Stored, settings
<1>8. \A g \in known' \ known : g = req[r].hash
  BY DEF Remember
<1>9. \A g \in (known' \union rows') \ (known \union rows) : Held(g)'
  BY <1>1, <1>2, <1>3, <1>5, <1>8, HeldKept DEF Remember
<1>10. QED  BY <1>1, <1>2, <1>4, <1>7, <1>9, OneMoves DEF Remember

LEMMA InsertIInv ==
  ASSUME IInv, NEW r \in Requests, InsertRow(r)
  PROVE  IInv'
<1> USE DEF IInv
<1>1. /\ req' \in [Requests -> {NoReq} \union Records]
      /\ \A q \in Requests \ {r} : req'[q] = req[q]
      /\ req'[r].phase = "done" /\ req'[r].answer \in {"yes", "error"}
      /\ req'[r].op = req[r].op /\ req'[r].hash = req[r].hash
      /\ req'[r].content = req[r].content
  <2>1. PICK a \in {"yes", "error"} : Answer(r, a)
    BY DEF InsertRow
  <2>2. QED  BY <2>1, Answered DEF InsertRow, Is
<1>2. SettingsIInv' /\ Kept /\ StillDelivered(r)
  BY <1>1, SettingsKept DEF InsertRow, Is, Puts, Kept, StillDelivered, Delivered, Chosen, Stored, settings
<1>3. req[r].hash \in Hashes
  BY Live DEF InsertRow, Is
<1>4. TypeOK' /\ Whole'
  BY <1>1, <1>2, <1>3 DEF InsertRow, TypeOK, Whole, Records, SettingsIInv
<1>5. Held(req[r].hash)
  BY <1>3, ChosenBackend, HeldWhereChosen DEF InsertRow, Is, Fine
<1>6. Fine(r)'
  BY <1>1 DEF InsertRow, Is, Fine, Left, Chosen, Stored, settings
<1>7. \A g \in rows' \ rows : g = req[r].hash
  BY DEF InsertRow
<1>8. \A g \in (known' \union rows') \ (known \union rows) : Held(g)'
  BY <1>2, <1>3, <1>5, <1>7, HeldKept DEF InsertRow
<1>9. QED  BY <1>1, <1>2, <1>4, <1>6, <1>8, OneMoves DEF InsertRow

LEMMA AskIInv ==
  ASSUME IInv, NEW r \in Requests, AskCache(r)
  PROVE  IInv'
<1> USE DEF IInv
<1>1. /\ req' \in [Requests -> {NoReq} \union Records]
      /\ \A q \in Requests \ {r} : req'[q] = req[q]
      /\ req'[r].op = req[r].op /\ req'[r].hash = req[r].hash /\ req'[r].content = req[r].content
      /\ \/ req[r].hash \in known /\ req'[r].phase = "done" /\ req'[r].answer = "yes"
         \/ req'[r].phase = "probe" /\ req'[r].answer = req[r].answer
  <2>1. CASE req[r].hash \in known /\ Answer(r, "yes")
    BY <2>1, Answered DEF AskCache, Is
  <2>2. CASE Goto(r, "probe")
    BY <2>2, Gone DEF AskCache, Is, Phases
  <2>3. QED  BY <2>1, <2>2 DEF AskCache
<1>2. SettingsIInv' /\ Kept /\ StillDelivered(r)
  BY <1>1, SettingsKept DEF AskCache, Is, Puts, Kept, StillDelivered, Delivered, Chosen, Stored, settings
<1>3. TypeOK' /\ Whole'
  BY <1>1, <1>2 DEF AskCache, TypeOK, Whole, Records, SettingsIInv
<1>4. req[r].op = "ask" /\ Chosen(r)' /\ r \in temp' => FALSE
  BY DEF AskCache, Is, Fine, Left, Chosen, Stored, settings
<1>5. req[r].hash \in known => Held(req[r].hash)'
  BY <1>1, <1>2, HeldKept DEF TypeOK
<1>6. Fine(r)'
  BY <1>1, <1>4, <1>5 DEF AskCache, Is, Fine, Chosen, settings
<1>7. QED  BY <1>1, <1>2, <1>3, <1>6, OneMoves DEF AskCache

LEMMA ProbeIInv ==
  ASSUME IInv, NEW r \in Requests, Probe(r)
  PROVE  IInv'
<1> USE DEF IInv
<1> DEFINE a == IF Stored(look[r].value, req[r].hash) THEN "yes" ELSE "no"
           new == [req[r] EXCEPT !.phase = "note", !.answer = a]
<1>1. req[r] \in Records /\ req[r].hash \in Hashes
  BY Live DEF Probe, Is
<1>2. a \in {"yes", "no"}
  OBVIOUS
<1>3. /\ new \in Records
      /\ new.phase = "note" /\ new.answer = a
      /\ new.op = req[r].op /\ new.hash = req[r].hash /\ new.content = req[r].content
  BY <1>1, <1>2 DEF Records, Phases
<1>4. req' = [req EXCEPT ![r] = new]
  BY DEF Probe
<1> HIDE DEF new
<1>5. /\ req' \in [Requests -> {NoReq} \union Records] /\ req'[r] = new
      /\ \A q \in Requests \ {r} : req'[q] = req[q]
  BY <1>3, <1>4 DEF TypeOK, Records
<1>6. SettingsIInv' /\ Kept /\ StillDelivered(r)
  BY <1>3, <1>5, SettingsKept
     DEF Probe, Is, Puts, Kept, StillDelivered, Delivered, Chosen, Stored, settings
<1>7. TypeOK' /\ Whole'
  BY <1>5, <1>6 DEF Probe, TypeOK, Whole, Records, SettingsIInv
<1>8. Chosen(r) /\ look[r].value \in Backends /\ req[r].op = "ask"
  BY ChosenBackend DEF Probe, Is, Fine
<1>9. a = "yes" => Held(req[r].hash)'
  <2>1. a = "yes" => Held(req[r].hash)
    BY <1>1, <1>8, HeldWhereChosen
  <2>2. req'[r].hash = req[r].hash
    BY <1>3, <1>5
  <2>3. QED  BY <1>1, <1>6, <2>1, <2>2, HeldKept
<1>10. r \notin temp'
  BY DEF Probe, Is, Fine, Left, Chosen, Stored, settings
<1>11. Chosen(r)'
  BY <1>3, <1>5, <1>8 DEF Probe, Chosen, settings
<1> HIDE DEF a
<1>12. Fine(r)'
  BY <1>2, <1>3, <1>5, <1>8, <1>9, <1>10, <1>11 DEF Fine
<1>13. QED  BY <1>5, <1>6, <1>7, <1>12, OneMoves DEF Probe

LEMMA NoteIInv ==
  ASSUME IInv, NEW r \in Requests, Note(r)
  PROVE  IInv'
<1> USE DEF IInv
<1>1. /\ req' \in [Requests -> {NoReq} \union Records]
      /\ \A q \in Requests \ {r} : req'[q] = req[q]
      /\ req'[r].phase = "done"
      /\ req'[r].op = req[r].op /\ req'[r].hash = req[r].hash
      /\ req'[r].content = req[r].content /\ req'[r].answer = req[r].answer
  BY Gone DEF Note, Is, Phases
<1>2. SettingsIInv' /\ Kept /\ StillDelivered(r)
  BY <1>1, SettingsKept DEF Note, Is, Puts, Kept, StillDelivered, Delivered, Chosen, Stored, settings
<1>3. req[r].hash \in Hashes
  BY Live DEF Note, Is
<1>4. TypeOK' /\ Whole'
  BY <1>1, <1>2, <1>3 DEF Note, TypeOK, Whole, Records, SettingsIInv
<1>5. req[r].answer = "yes" => Held(req[r].hash) /\ Held(req[r].hash)'
  <2>1. req[r].answer = "yes" => Held(req[r].hash)
    BY DEF Note, Is, Fine
  <2>2. QED  BY <1>1, <1>2, <1>3, <2>1, HeldKept
<1>6. Fine(r)'
  BY <1>1, <1>5 DEF Note, Is, Fine, Left, Chosen, settings
<1>7. \A g \in known' \ known : g = req[r].hash /\ req[r].answer = "yes"
  BY DEF Note
<1>8. \A g \in (known' \union rows') \ (known \union rows) : Held(g)'
  BY <1>1, <1>5, <1>7 DEF Note
<1>9. QED  BY <1>1, <1>2, <1>4, <1>6, <1>8, OneMoves DEF Note

LEMMA ReadIInv ==
  ASSUME IInv, NEW r \in Requests, Read(r)
  PROVE  IInv'
<1> USE DEF IInv
<1>1. /\ req' \in [Requests -> {NoReq} \union Records]
      /\ \A q \in Requests \ {r} : req'[q] = req[q]
      /\ req'[r].phase = "done" /\ req'[r].answer \in {"yes", "no"}
      /\ req'[r].op = req[r].op /\ req'[r].hash = req[r].hash /\ req'[r].content = req[r].content
  BY Answered DEF Read, Is
<1>2. SettingsIInv' /\ Kept /\ StillDelivered(r)
  BY <1>1, SettingsKept DEF Read, Is, Puts, Kept, StillDelivered, Delivered, Chosen, Stored, settings
<1>3. TypeOK' /\ Whole'
  BY <1>1, <1>2 DEF Read, TypeOK, Whole, Records, SettingsIInv
<1>4. Fine(r)'
  BY <1>1 DEF Read, Is, Fine, Left, Chosen, Stored, settings
<1>5. QED  BY <1>1, <1>2, <1>3, <1>4, OneMoves DEF Read

(* The steps that leave all requests where they are.                       *)
LEMMA RequestsStay ==
  ASSUME IInv, SettingsIInv', Kept,
         UNCHANGED <<store, temp, rows, req, crashes>>, known' \subseteq known
  PROVE  IInv'
<1>1. TypeOK' /\ Whole'
  BY DEF IInv, TypeOK, Whole, SettingsIInv
<1>2. \A q \in Requests : Fine(q)'
  BY FineKept DEF IInv
<1>3. \A h \in known \union rows : Held(h)'
  BY HeldKept DEF IInv, TypeOK
<1>4. \A q \in Requests : Delivered(q) => Delivered(q)' /\ req'[q].hash = req[q].hash
  BY DEF Delivered, Kept
<1>5. \A h \in Hashes : Stored("nas", h)' => Put(h)'
  BY <1>4 DEF IInv, Put, Stored
<1>6. QED  BY <1>1, <1>2, <1>3, <1>5 DEF IInv

LEMMA ExpireIInv ==
  ASSUME IInv, NEW h \in Hashes, Expire(h)
  PROVE  IInv'
<1>1. SettingsIInv' /\ Kept
  BY SettingsKept DEF IInv, Expire, Kept, Chosen, Stored, settings
<1>2. QED  BY <1>1, RequestsStay DEF Expire

LEMMA SelectIInv ==
  ASSUME IInv, NEW r \in Requests, Select(r)
  PROVE  IInv'
<1>0. r \in Readers
  BY RequestsAssumption
<1>1. SettingsIInv'
  <2>1. EnvBackend \in Values
    BY BackendsAssumption DEF Backends
  <2>2. QED  BY <1>0, <2>1, HitIInv, FetchIInv, KeepIInv, FallbackIInv DEF Select, IInv
<1>2. look[r].stage # "back" /\ req[r].phase # "new" /\ \A q \in Requests \ {r} : look'[q] = look[q]
  BY <1>0, RequestsAssumption
     DEF Select, Hit, Fetch, KeepEntry, FetchFails, Returned, Idle, IInv, SettingsIInv, SettingsTypeOK
<1>3. Kept
  BY <1>2 DEF Select, Kept, Stored, Chosen, blobs
<1>4. QED  BY <1>1, <1>3, RequestsStay DEF Select, blobs

LEMMA ConfiguredIInv ==
  ASSUME IInv, NEW r \in Requests, Configured(r)
  PROVE  IInv'
<1> USE DEF IInv
<1>0. r \in Readers
  BY RequestsAssumption
<1>1. /\ req' \in [Requests -> {NoReq} \union Records]
      /\ \A q \in Requests \ {r} : req'[q] = req[q]
      /\ req'[r].phase = "select"
      /\ req'[r].op = req[r].op /\ req'[r].hash = req[r].hash
      /\ req'[r].content = req[r].content /\ req'[r].answer = req[r].answer
  BY Gone DEF Configured, Phases
<1>2. /\ look' \in [Readers -> Looks] /\ look'[r] = Idle
      /\ \A q \in Readers \ {r} : look'[q] = look[q]
  BY <1>0 DEF Configured, Looks, SettingsIInv, SettingsTypeOK
<1>3. SettingsIInv'
  <2>1. SettingsTypeOK'
    BY <1>2 DEF Configured, SettingsIInv, SettingsTypeOK, Looks
  <2>2. BoundedStaleness'
    BY DEF Configured, SettingsIInv, BoundedStaleness
  <2>3. FetchedRecently'
    <3>1. Idle.stage # "fetched" /\ age' = age
      BY DEF Idle, Configured
    <3>2. QED  BY <1>2, <3>1 DEF SettingsIInv, FetchedRecently
  <2>4. QED  BY <2>1, <2>2, <2>3 DEF Configured, SettingsIInv
<1>4. r \notin temp /\ ~Chosen(r) /\ ~Delivered(r)
  BY DEF Configured, Fine, Left, Chosen, Delivered
<1>5. Kept /\ StillDelivered(r)
  BY <1>1, <1>2, <1>4, RequestsAssumption DEF Configured, Kept, StillDelivered, Chosen, Stored
<1>6. TypeOK' /\ Whole'
  BY <1>1, <1>3 DEF Configured, TypeOK, Whole, Records, SettingsIInv
<1>7. Fine(r)'
  BY <1>1, <1>4 DEF Configured, Fine
<1>8. QED  BY <1>1, <1>3, <1>4, <1>5, <1>6, <1>7, OneMoves DEF Configured

LEMMA StoreFailsIInv ==
  ASSUME IInv, NEW r \in Requests, StoreFails(r)
  PROVE  IInv'
<1> USE DEF IInv
<1>1. /\ req' \in [Requests -> {NoReq} \union Records]
      /\ \A q \in Requests \ {r} : req'[q] = req[q]
      /\ req'[r].phase = "done" /\ req'[r].answer = "error"
      /\ req'[r].op = req[r].op /\ req'[r].hash = req[r].hash /\ req'[r].content = req[r].content
  BY Answered DEF StoreFails, Is
<1>2. SettingsIInv' /\ Kept /\ StillDelivered(r)
  BY <1>1, SettingsKept DEF StoreFails, Is, Puts, Kept, StillDelivered, Delivered, Chosen, Stored, settings
<1>3. TypeOK' /\ Whole'
  BY <1>1, <1>2 DEF StoreFails, TypeOK, Whole, Records, SettingsIInv
<1>4. r \notin temp
  BY DEF StoreFails, Is, Fine, Left
<1>5. Fine(r)'
  BY <1>1, <1>4 DEF StoreFails, Is, Fine
<1>6. QED  BY <1>1, <1>2, <1>3, <1>5, OneMoves DEF StoreFails

LEMMA SaveSettingIInv ==
  ASSUME IInv, NEW p \in Procs, SaveSetting(p)
  PROVE  IInv'
<1>1. SettingsIInv' /\ look' = look
  BY SaveIInv, DropIInv DEF SaveSetting, IInv, SaveDocument, DropEntry, Backends
<1>2. Kept
  BY <1>1 DEF SaveSetting, Kept, Chosen, Stored, blobs
<1>3. QED  BY <1>1, <1>2, RequestsStay DEF SaveSetting, blobs

LEMMA TimeIInv == IInv /\ Time => IInv'
<1> SUFFICES ASSUME IInv, Time PROVE IInv'
  OBVIOUS
<1>1. SettingsIInv'
  BY TickIInv DEF IInv, Time
<1>2. \A q \in Requests : Chosen(q) \/ req[q].phase = "new" => look'[q] = look[q]
  BY RequestsAssumption DEF IInv, Fine, Time, Tick, Chosen, Idle
<1>3. Kept
  BY <1>2 DEF Time, Kept, Chosen, Stored, blobs
<1>4. QED  BY <1>1, <1>3, RequestsStay DEF Time, blobs

LEMMA CrashIInv ==
  ASSUME IInv, NEW p \in Procs, Crash(p)
  PROVE  IInv'
<1> USE DEF IInv
<1>1. look' \in [Readers -> Looks] /\ \A q \in Requests : Chosen(q) => look'[q] = look[q]
  BY RequestsAssumption DEF Crash, Looks, SettingsIInv, SettingsTypeOK
<1>2. \A q \in Readers : look'[q] = look[q] \/ look'[q] = Idle
  BY RequestsAssumption DEF Crash
<1>3. /\ cache' \in [Procs -> [value : Values, left : 0..TTL]]
      /\ \A q \in Procs : cache'[q].left > 0 => cache'[q] = cache[q]
  <2>1. cache' = [cache EXCEPT ![p].left = 0]
    BY DEF Crash, Restarted
  <2>2. cache' \in [Procs -> [value : Values, left : 0..TTL]]
    BY <2>1, TTLAssumption DEF SettingsIInv, SettingsTypeOK
  <2>3. \A q \in Procs : cache'[q].left > 0 => cache'[q] = cache[q]
    BY <2>1, TTLAssumption DEF SettingsIInv, SettingsTypeOK
  <2>4. QED  BY <2>2, <2>3
<1>4. SettingsIInv'
  <2>1. SettingsTypeOK'
    BY <1>1, <1>3 DEF Crash, Restarted, SettingsIInv, SettingsTypeOK, Looks
  <2>2. BoundedStaleness'
    BY <1>3 DEF Crash, SettingsIInv, BoundedStaleness
  <2>3. FetchedRecently'
    <3>1. age' = age
      BY DEF Crash
    <3>2. Idle.stage # "fetched"
      BY DEF Idle
    <3>3. QED  BY <1>2, <3>1, <3>2 DEF SettingsIInv, FetchedRecently
  <2>4. QED  BY <2>1, <2>2, <2>3 DEF Crash, SettingsIInv
<1>5. Kept
  <2>1. ASSUME NEW q \in Requests, req'[q].phase = "configured"
        PROVE  req[q].phase = "configured"
    <3>1. CASE q \in OpenOn(p)
      <4>1. req'[q] = [req[q] EXCEPT !.phase = "done", !.answer = "lost"]
        BY <3>1 DEF Crash
      <4>2. req'[q].phase = "done"
        BY <3>1, <4>1, Live DEF OpenOn, Records
      <4>3. QED  BY <2>1, <4>2
    <3>2. CASE q \notin OpenOn(p)
      BY <2>1, <3>2 DEF Crash
    <3>3. QED  BY <3>1, <3>2
  <2>2. \A q \in Requests : req[q].phase = "new" => look'[q] = look[q]
    BY RequestsAssumption DEF Crash, OpenOn
  <2>3. QED  BY <1>1, <2>1, <2>2 DEF Crash, Kept, Chosen, Stored
<1>6. ASSUME NEW q \in Requests, q \in OpenOn(p)
      PROVE  /\ req'[q] \in Records /\ req'[q].phase = "done" /\ req'[q].answer = "lost"
             /\ req'[q].op = req[q].op /\ req'[q].hash = req[q].hash /\ req'[q].content = req[q].content
  <2>1. req[q] \in Records
    BY <1>6, Live DEF OpenOn
  <2>2. req'[q] = [req[q] EXCEPT !.phase = "done", !.answer = "lost"]
    BY <1>6 DEF Crash
  <2>3. [req[q] EXCEPT !.phase = "done", !.answer = "lost"] \in Records
    BY <2>1 DEF Records, Phases
  <2>4. QED  BY <2>1, <2>2, <2>3 DEF Records
<1>7. \A q \in Requests : q \notin OpenOn(p) => req'[q] = req[q]
  BY DEF Crash
<1>8. TypeOK' /\ Whole'
  <2>1. req' \in [Requests -> {NoReq} \union Records]
    <3>1. \A q \in Requests : req'[q] \in {NoReq} \union Records
      BY <1>6, <1>7 DEF TypeOK, Records
    <3>2. QED  BY <3>1 DEF Crash
  <2>2. crashes' \in 0..MaxCrashes
    <3>1. crashes \in 0..MaxCrashes /\ crashes < MaxCrashes /\ crashes' = crashes + 1
      BY DEF Crash, TypeOK
    <3>2. QED  BY <3>1, CrashesAssumption
  <2>3. SettingsTypeOK'
    BY <1>4 DEF SettingsIInv
  <2>4. store' = store /\ temp' = temp /\ known' = known /\ rows' = rows
    BY DEF Crash
  <2>5. TypeOK'
    BY <2>1, <2>2, <2>3, <2>4 DEF TypeOK, Records
  <2>6. QED  BY <2>4, <2>5 DEF Whole
<1>9. ASSUME NEW q \in Requests
      PROVE  Fine(q)'
  <2>1. CASE q \in OpenOn(p)
    BY <1>6, <2>1 DEF Fine
  <2>2. CASE q \notin OpenOn(p)
    BY <1>5, <1>7, <2>2, FineKept DEF Crash
  <2>3. QED  BY <2>1, <2>2
<1>10. \A h \in known' \union rows' : Held(h)'
  BY <1>5, HeldKept DEF Crash, TypeOK
<1>11. ASSUME NEW q \in Requests, Delivered(q)
       PROVE  Delivered(q)' /\ req'[q].hash = req[q].hash
  <2>1. req'[q].phase \in {"remember", "row", "done"} /\ req'[q].op = req[q].op /\ req'[q].hash = req[q].hash
    BY <1>6, <1>7, <1>11 DEF Delivered
  <2>2. QED  BY <1>5, <1>11, <2>1 DEF Delivered, Kept, Crash
<1>12. \A h \in Hashes : Stored("nas", h)' => Put(h)'
  BY ZenonT(60), <1>11 DEF Put, Crash, Stored
<1>13. QED  BY <1>4, <1>8, <1>9, <1>10, <1>12

-----------------------------------------------------------------------------
LEMMA InitIInv == Init => IInv
<1> SUFFICES ASSUME Init PROVE IInv
  OBVIOUS
<1>1. SettingsIInv
  BY InitSettings DEF Init
<1>2. TypeOK
  BY <1>1, CrashesAssumption DEF Init, TypeOK, SettingsIInv
<1>3. \A r \in Requests : req[r] = NoReq
  BY DEF Init
<1>4. \A r \in Requests : Fine(r)
  BY <1>3, RequestsAssumption DEF Init, SettingsInit, Fine, NoReq, Idle
<1>5. Whole /\ \A h \in Hashes : ~Stored("nas", h)
  BY BackendsAssumption DEF Init, Whole, Stored
<1>6. QED  BY <1>1, <1>2, <1>4, <1>5 DEF Init, IInv

LEMMA StepIInv == IInv /\ [Next]_vars => IInv'
<1> SUFFICES ASSUME IInv, [Next]_vars PROVE IInv'
  OBVIOUS
<1>1. ASSUME NEW r \in Requests, Step(r)
      PROVE  IInv'
  BY <1>1, SelectIInv, OpenIInv, CheckIInv, BreakIInv, PlaceIInv, RememberIInv, InsertIInv,
     AskIInv, ProbeIInv, NoteIInv, ReadIInv, ConfiguredIInv, StoreFailsIInv DEF Step
<1>2. ASSUME NEW r \in Requests, NEW op \in Ops, NEW h \in Hashes, NEW c \in Contents,
             Start(r, op, h, c)
      PROVE  IInv'
  BY <1>2, StartIInv
<1>3. ASSUME NEW h \in Hashes, Expire(h)
      PROVE  IInv'
  BY <1>3, ExpireIInv
<1>4. ASSUME NEW p \in Procs, SaveSetting(p) \/ Crash(p)
      PROVE  IInv'
  BY <1>4, SaveSettingIInv, CrashIInv
<1>5. CASE Time
  BY <1>5, TimeIInv
<1>6. CASE UNCHANGED vars
  <2>1. SettingsIInv' /\ Kept
    BY <1>6, SettingsKept DEF IInv, vars, Kept, Chosen, Stored, settings, blobs
  <2>2. QED  BY <1>6, <2>1, RequestsStay DEF vars, blobs
<1>7. QED  BY <1>1, <1>2, <1>3, <1>4, <1>5, <1>6 DEF Next

LEMMA FineAnswers == IInv => ExistsHolds
<1> SUFFICES ASSUME IInv PROVE ExistsHolds
  OBVIOUS
<1>1. \A r \in Requests : req[r].op = "ask" /\ req[r].answer = "yes" => Held(req[r].hash)
  BY DEF IInv, Fine
<1>2. QED  BY <1>1 DEF IInv, Whole, Held, ExistsHolds

(* Types, for any constants.                                               *)
THEOREM TypeCorrect == Spec => []TypeOK
<1>1. IInv => TypeOK
  BY DEF IInv
<1>2. QED  BY <1>1, InitIInv, StepIInv, PTL DEF Spec

(* get_global_settings serves a document that was the saved one less than  *)
(* TTL ago, whoever saves, fetches, fails and restarts.                    *)
THEOREM StalenessBounded == Spec => []BoundedStaleness
<1>1. IInv => BoundedStaleness
  BY DEF IInv, SettingsIInv
<1>2. QED  BY <1>1, InitIInv, StepIInv, PTL DEF Spec

(* blob_exists says yes of stored blobs only, whole ones.                  *)
THEOREM ExistsMeansStored == Spec => []ExistsHolds
<1>1. QED  BY FineAnswers, InitIInv, StepIInv, PTL DEF Spec

(* post_blob, put_blob and stream_upload_to_cas leave no temporary file    *)
(* but those of a crash and of blobs already stored or sent to S3.         *)
THEOREM TempFilesAccounted == Spec => []TempsAccounted
<1>1. IInv => TempsAccounted
  <2> SUFFICES ASSUME IInv, NEW r \in temp
               PROVE  \/ req[r].phase \in {"stream", "place"}
                      \/ req[r].answer = "lost"
                      \/ /\ req[r].op = "put" /\ (req[r].phase = "remember" \/ req[r].answer = "yes")
                         /\ look[r].value = "nas" =>
                              \E q \in Requests : Delivered(q) /\ req[q].hash = req[r].hash
    BY DEF TempsAccounted
  <2>1. r \in Requests
    BY DEF IInv, TypeOK
  <2>2. QED  BY <2>1 DEF IInv, Fine, Left, Put
<1>2. QED  BY <1>1, InitIInv, StepIInv, PTL DEF Spec

(* upload_attachment: what its row names can be read where it was stored.  *)
THEOREM RowsAreReadable == Spec => RowsReadable
<1>1. IInv /\ [Next]_vars =>
        [\A r \in Requests :
           Read(r) /\ req[r].hash \in rows /\ AllChose(look[r].value) => req'[r].answer = "yes"]_vars
  <2> SUFFICES ASSUME IInv, NEW r \in Requests,
                      Read(r), req[r].hash \in rows, AllChose(look[r].value)
               PROVE  req'[r].answer = "yes"
    OBVIOUS
  <2>1. look[r].value \in Backends /\ req[r].phase # "new"
    BY ChosenBackend DEF Read, Is, IInv
  <2>2. Stored(look[r].value, req[r].hash)
    BY <2>1 DEF IInv, Held
  <2>3. Answer(r, "yes")
    BY <2>2 DEF Read
  <2>4. QED  BY <2>1, <2>3, Answered DEF IInv
<1>2. QED  BY <1>1, InitIInv, StepIInv, PTL DEF Spec, RowsReadable

-----------------------------------------------------------------------------
(* The storage check: what its traversal has read and noted.              *)

(* A set that holds a root and, with each list in it, the list's parents.  *)
Closed(root, lists, set) == root \in set /\ ParentsIn(set, lists) \subseteq set

(* The lists that have been read, and what is reached through them.        *)
ReadLists == {b \in AllLists : scan.read[b] = "list"}

Elements(queue) == {queue[k] : k \in 1..Len(queue)}
Queue == Elements(scan.queue)
Visited == scan.rows \ scan.todo
DirectOf(e) == Direct(e, scan.media[e])

(* Why a blob is in the queue of e.                                        *)
Queued(e, item, lists) ==
  /\ e \in Versions
  /\ IF item[2] THEN item[1] \in Reached(Opens[e], lists)
                ELSE Optional[e] # NoBlob /\ item[1] \in Reached(Optional[e], lists)

(* The lists in a set are read, and what they name is noted.               *)
Noted(e, set) ==
  \A b \in set :
    /\ scan.read[b] # "?"
    /\ scan.read[b] = "list" =>
         \E required \in BOOLEAN :
           Queued(e, <<b, required>>, ReadLists) /\ Deps(b) \X {required} \subseteq scan.refs[e]

(* A set holds the roots of e; its lists' parents are there or queued.     *)
Traced(e, set, queued) ==
  /\ RootsOf(e) \subseteq set \union queued
  /\ \A b \in set : scan.read[b] = "list" => ParentsOf(b) \subseteq set \union queued

Finished(e) == \E set \in SUBSET Blobs : Noted(e, set) /\ Traced(e, set, {})

Current(e) ==
  /\ Noted(e, scan.seen)
  /\ Traced(e, scan.seen, BlobsOf(Queue))
  /\ \A item \in Queue : Queued(e, item, ReadLists)

(* Nothing is noted that e does not need.                                  *)
NeededBy(e, lists) == BlobsOf(DirectOf(e)) \union Chained(e, lists)

Sound(e) ==
  \A ref \in scan.refs[e] :
    ref[1] \in NeededBy(e, AllLists) /\ (ref[2] => ref[1] \in Required(e, AllLists))

Collecting == scan.phase \in {"new", "versions", "reviews", "attachments"}

Walk ==
  /\ scan.todo \subseteq scan.rows
  /\ Collecting => scan.todo = scan.rows /\ scan.queue = <<>> /\ scan.refs = [e \in Entities |-> {}]
  /\ scan.phase \in {"list", "done"} => scan.todo = {} /\ scan.queue = <<>>
  /\ scan.queue # <<>> => scan.entity \in Visited
  /\ \A e \in Visited : DirectOf(e) \subseteq scan.refs[e] /\ (IF e = scan.entity THEN Current(e) ELSE Finished(e))
  /\ \A e \in Entities : Sound(e)
  /\ \A b \in Blobs : scan.read[b] = "list" => shape[b].list
  /\ scan.phase # "done" => scan.orphans = {}
  /\ scan.orphans \intersect Referenced = {}

ScanInv == ScanTypeOK /\ Walk

-----------------------------------------------------------------------------
LEMMA BlobsTyped ==
  ASSUME ScanTypeOK, NEW b \in Blobs
  PROVE  /\ shape[b].list \in BOOLEAN /\ shape[b].chunks \subseteq Blobs
         /\ shape[b].parents \in Seq(Blobs)
         /\ ParentsOf(b) \subseteq Blobs /\ Deps(b) \subseteq Blobs
         /\ Readings(b) \subseteq {"list", "plain"}
<1>1. shape[b] \in [list : BOOLEAN, chunks : SUBSET Blobs, parents : Seq(Blobs)]
  BY ShapesAssumption DEF ScanTypeOK
<1>2. scan.read[b] \in {"?", "list", "plain"}
  BY DEF ScanTypeOK
<1>3. ParentsOf(b) \subseteq Blobs
  BY <1>1 DEF ParentsOf
<1>4. QED  BY <1>1, <1>2, <1>3 DEF Deps, Readings

LEMMA MediaTyped ==
  ASSUME NEW m \in Media
  PROVE  /\ Previews(m) \subseteq Blobs
         /\ m.ready => Offered(m) \subseteq Previews(m)
BY DEF Media, Previews, Offered

LEMMA EntitiesTyped ==
  ASSUME NEW e \in Entities
  PROVE  /\ Opens[e] \in Blobs /\ Optional[e] \in Blobs \union {NoBlob}
         /\ Own(e) \subseteq Blobs \X BOOLEAN
         /\ \A m \in Media : Direct(e, m) \subseteq Blobs \X BOOLEAN
         /\ RootsOf(e) \subseteq Blobs /\ RootsOf(e) \subseteq BlobsOf(Own(e))
         /\ \A b \in Vital(e) : <<b, TRUE>> \in Own(e)
<1>1. /\ Opens[e] \in Blobs /\ Optional[e] \in Blobs \union {NoBlob}
      /\ Frames[e] \subseteq Blobs
  BY EntitiesAssumption
<1>2. \A b \in Blobs : <<b, TRUE>> \in Blobs \X BOOLEAN /\ <<b, FALSE>> \in Blobs \X BOOLEAN
  BY Zenon
<1>3. Own(e) \subseteq Blobs \X BOOLEAN
  BY <1>1, <1>2 DEF Own
<1>4. ASSUME NEW m \in Media PROVE Direct(e, m) \subseteq Blobs \X BOOLEAN
  BY <1>2, <1>3, MediaTyped DEF Direct
<1>5. \A b \in Vital(e) : <<b, TRUE>> \in Own(e)
  BY DEF Own, Vital
<1>6. Optional[e] # NoBlob => <<Optional[e], FALSE>> \in Own(e)
  BY DEF Own
<1>7. Opens[e] \in BlobsOf(Own(e))
  <2>1. <<Opens[e], TRUE>> \in Own(e) /\ <<Opens[e], TRUE>>[1] = Opens[e]
    BY <1>5 DEF Vital
  <2>2. QED  BY <2>1 DEF BlobsOf
<1>8. Optional[e] # NoBlob => Optional[e] \in BlobsOf(Own(e))
  <2> SUFFICES ASSUME Optional[e] # NoBlob PROVE Optional[e] \in BlobsOf(Own(e))
    OBVIOUS
  <2>1. <<Optional[e], FALSE>> \in Own(e) /\ <<Optional[e], FALSE>>[1] = Optional[e]
    BY <1>6
  <2>2. QED  BY <2>1 DEF BlobsOf
<1>9. RootsOf(e) \subseteq Blobs /\ RootsOf(e) \subseteq BlobsOf(Own(e))
  <2>1. \A b \in RootsOf(e) : b = Opens[e] \/ (b = Optional[e] /\ Optional[e] # NoBlob)
    BY DEF RootsOf
  <2>2. QED  BY <1>1, <1>7, <1>8, <2>1
<1>10. QED  BY <1>1, <1>3, <1>4, <1>5, <1>9

(* Following the parents of lists from a root has a least result.          *)
LEMMA ReachedLeast ==
  ASSUME ScanTypeOK, NEW root \in Blobs, NEW lists \in SUBSET Blobs
  PROVE  /\ Reached(root, lists) \in SUBSET Blobs /\ Closed(root, lists, Reached(root, lists))
         /\ \A set \in SUBSET Blobs : Closed(root, lists, set) => Reached(root, lists) \subseteq set
<1> DEFINE Least == {b \in Blobs : \A set \in SUBSET Blobs : Closed(root, lists, set) => b \in set}
<1>1. Closed(root, lists, Least)
  <2>1. root \in Least
    BY DEF Closed
  <2>2. ASSUME NEW b \in Least, b \in lists, NEW p \in ParentsOf(b) PROVE p \in Least
    <3>1. p \in Blobs
      BY BlobsTyped
    <3>2. ASSUME NEW set \in SUBSET Blobs, Closed(root, lists, set) PROVE p \in set
      <4>1. b \in set
        BY <3>2
      <4>2. p \in ParentsIn(set, lists)
        BY <2>2, <4>1 DEF ParentsIn
      <4>3. QED  BY <3>2, <4>2 DEF Closed
    <3>3. QED  BY <3>1, <3>2
  <2>3. ParentsIn(Least, lists) \subseteq Least
    BY <2>2 DEF ParentsIn
  <2>4. QED  BY <2>1, <2>3 DEF Closed
<1>2. \A set \in SUBSET Blobs : Closed(root, lists, set) => Least \subseteq set
  OBVIOUS
<1>3. Least \in SUBSET Blobs
  OBVIOUS
<1> HIDE DEF Least
<1>4. \E set \in SUBSET Blobs :
        /\ root \in set /\ ParentsIn(set, lists) \subseteq set
        /\ \A s \in SUBSET Blobs : root \in s /\ ParentsIn(s, lists) \subseteq s => set \subseteq s
  BY <1>1, <1>2, <1>3 DEF Closed
<1>5. QED  BY <1>4 DEF Reached, Closed

LEMMA ParentsReached ==
  ASSUME ScanTypeOK, NEW root \in Blobs, NEW lists \in SUBSET Blobs,
         NEW b \in Reached(root, lists), b \in lists
  PROVE  ParentsOf(b) \subseteq Reached(root, lists)
<1>1. Closed(root, lists, Reached(root, lists))
  BY ReachedLeast
<1>2. ParentsOf(b) \subseteq ParentsIn(Reached(root, lists), lists)
  BY DEF ParentsIn
<1>3. QED  BY <1>1, <1>2 DEF Closed

(* More lists lead to more.                                                *)
LEMMA ReachedGrows ==
  ASSUME ScanTypeOK, NEW root \in Blobs, NEW few \in SUBSET Blobs, NEW more \in SUBSET Blobs,
         few \subseteq more
  PROVE  Reached(root, few) \subseteq Reached(root, more)
<1>1. /\ Reached(root, more) \in SUBSET Blobs /\ Closed(root, more, Reached(root, more))
      /\ \A set \in SUBSET Blobs : Closed(root, few, set) => Reached(root, few) \subseteq set
  BY ReachedLeast
<1>2. Closed(root, few, Reached(root, more))
  BY <1>1 DEF Closed, ParentsIn
<1>3. QED  BY <1>1, <1>2

LEMMA QueuedGrows ==
  ASSUME ScanTypeOK, NEW few \in SUBSET Blobs, NEW more \in SUBSET Blobs, few \subseteq more,
         NEW e \in Entities
  PROVE  \A item : Queued(e, item, few) => Queued(e, item, more)
<1>1. Opens[e] \in Blobs /\ (Optional[e] # NoBlob => Optional[e] \in Blobs)
  BY EntitiesTyped
<1>2. Reached(Opens[e], few) \subseteq Reached(Opens[e], more)
  BY <1>1, ReachedGrows
<1>3. Optional[e] # NoBlob => Reached(Optional[e], few) \subseteq Reached(Optional[e], more)
  BY <1>1, ReachedGrows
<1>4. QED  BY <1>2, <1>3 DEF Queued

LEMMA ListSets ==
  /\ AllLists \in SUBSET Blobs /\ Legible \in SUBSET Blobs /\ ReadLists \in SUBSET Blobs
  /\ Legible \subseteq AllLists /\ ReadLists \subseteq AllLists /\ ReadLists \subseteq Legible
BY DEF AllLists, Legible, ReadLists

(* What needs what depends on the contents only, and they do not change.   *)
LEMMA ShapeKept ==
  ASSUME shape' = shape
  PROVE  /\ \A b : Deps(b)' = Deps(b) /\ ParentsOf(b)' = ParentsOf(b)
         /\ AllLists' = AllLists
         /\ \A e : Required(e, AllLists)' = Required(e, AllLists)
         /\ \A e : Chained(e, AllLists)' = Chained(e, AllLists)
         /\ \A e, item, lists : Queued(e, item, lists)' = Queued(e, item, lists)
<1>1. /\ \A b : Deps(b)' = Deps(b) /\ ParentsOf(b)' = ParentsOf(b)
      /\ AllLists' = AllLists
  BY DEF Deps, ParentsOf, AllLists
<1>2. \A set, lists : /\ ParentsIn(set, lists)' = ParentsIn(set, lists)
                      /\ Named(set, lists)' = Named(set, lists)
  BY <1>1 DEF ParentsIn, Named
<1>3. \A b, lists : Reached(b, lists)' = Reached(b, lists)
  BY <1>2 DEF Reached
<1>4. \A b : Reached(b, AllLists)' = Reached(b, AllLists)
  BY <1>1, <1>2 DEF Reached
<1>5. \A b : Named(Reached(b, AllLists), AllLists)' = Named(Reached(b, AllLists), AllLists)
  BY <1>1, <1>2, <1>4 DEF Named
<1>6. \A e : Required(e, AllLists)' = Required(e, AllLists)
  BY <1>5 DEF Required, Vital
<1>7. \A e : Chained(e, AllLists)' = Chained(e, AllLists)
  BY <1>5 DEF Chained, RootsOf
<1>8. \A e, item, lists : Queued(e, item, lists)' = Queued(e, item, lists)
  BY <1>3 DEF Queued
<1>9. QED  BY <1>1, <1>6, <1>7, <1>8

(* Steps that do not take back what was read keep what it led to.          *)
Reads == \A b \in Blobs : scan.read[b] # "?" => scan'.read[b] = scan.read[b]

LEMMA QueuedStays ==
  ASSUME ScanTypeOK, ScanTypeOK', shape' = shape, Reads, NEW e \in Entities
  PROVE  \A item : Queued(e, item, ReadLists) => Queued(e, item, ReadLists)'
<1>1. PICK few \in SUBSET Blobs, more \in SUBSET Blobs :
        few = ReadLists /\ more = ReadLists' /\ few \subseteq more
  <2>1. ReadLists \subseteq ReadLists' /\ ReadLists' \subseteq Blobs
    BY ShapeKept DEF ReadLists, AllLists, Reads
  <2>2. QED  BY <2>1, ListSets
<1>2. \A item : Queued(e, item, few) => Queued(e, item, more)
  BY <1>1, QueuedGrows
<1>3. \A item : Queued(e, item, more)' = Queued(e, item, more)
  BY <1>1, ShapeKept
<1>4. \A item : Queued(e, item, more)' = Queued(e, item, ReadLists)'
  BY <1>1 DEF Queued, Reached, ParentsIn
<1>5. QED  BY <1>1, <1>2, <1>3, <1>4

(* What has been noted stays: no list is read twice.                       *)
LEMMA NotesStay ==
  ASSUME ScanTypeOK, ScanTypeOK', shape' = shape, Reads,
         NEW e \in Entities, NEW set \in SUBSET Blobs, Noted(e, set),
         scan.refs[e] \subseteq scan'.refs[e]
  PROVE  /\ Noted(e, set)'
         /\ \A queued \in SUBSET Blobs : Traced(e, set, queued) => Traced(e, set, queued)'
<1>1. \A b \in set : scan.read[b] # "?" /\ scan'.read[b] = scan.read[b]
  BY DEF Noted, Reads
<1>2. Noted(e, set)'
  <2> SUFFICES ASSUME NEW b \in set, scan'.read[b] = "list"
               PROVE  \E required \in BOOLEAN :
                        Queued(e, <<b, required>>, ReadLists)' /\ Deps(b)' \X {required} \subseteq scan'.refs[e]
    BY <1>1 DEF Noted
  <2>1. PICK required \in BOOLEAN :
          Queued(e, <<b, required>>, ReadLists) /\ Deps(b) \X {required} \subseteq scan.refs[e]
    BY <1>1 DEF Noted
  <2>2. Queued(e, <<b, required>>, ReadLists)' /\ Deps(b)' = Deps(b)
    BY <2>1, ShapeKept, QueuedStays
  <2>3. Deps(b)' \X {required} \subseteq scan'.refs[e]
    BY <2>1, <2>2
  <2>4. QED  BY <2>2, <2>3
<1>3. \A queued \in SUBSET Blobs : Traced(e, set, queued) => Traced(e, set, queued)'
  BY <1>1, ShapeKept DEF Traced, RootsOf
<1>4. QED  BY <1>2, <1>3

LEMMA FinishedStays ==
  ASSUME ScanTypeOK, ScanTypeOK', shape' = shape, Reads, NEW e \in Entities, Finished(e),
         scan.refs[e] \subseteq scan'.refs[e]
  PROVE  Finished(e)'
<1>1. PICK set \in SUBSET Blobs : Noted(e, set) /\ Traced(e, set, {})
  BY DEF Finished
<1>2. Noted(e, set)' /\ Traced(e, set, {})'
  BY <1>1, NotesStay
<1>3. QED  BY <1>2 DEF Finished

LEMMA CurrentStays ==
  ASSUME ScanTypeOK, ScanTypeOK', shape' = shape, NEW e \in Entities, Current(e),
         scan'.read = scan.read, scan'.refs = scan.refs, scan'.seen = scan.seen,
         scan'.queue = scan.queue
  PROVE  Current(e)'
<1>1. PICK set \in SUBSET Blobs : set = scan.seen
  BY DEF ScanTypeOK
<1>2. Reads
  BY DEF Reads
<1>3. Noted(e, set)'
  BY <1>1, <1>2, NotesStay DEF Current
<1>4. Noted(e, scan.seen)'
  BY <1>1, <1>3 DEF Noted
<1>5. Traced(e, scan.seen, BlobsOf(Queue))'
  BY ShapeKept DEF Current, Traced, Queue, Elements, BlobsOf, RootsOf
<1>6. \A item \in Queue' : Queued(e, item, ReadLists)'
  BY <1>2, QueuedStays DEF Current, Queue, Elements
<1>7. QED  BY <1>4, <1>5, <1>6 DEF Current

LEMMA SoundStays ==
  ASSUME shape' = shape, NEW e \in Entities, Sound(e), scan'.refs[e] = scan.refs[e],
         scan'.media[e] = scan.media[e]
  PROVE  Sound(e)'
<1>1. BlobsOf(DirectOf(e))' = BlobsOf(DirectOf(e))
  BY DEF BlobsOf, DirectOf, Direct, Own
<1>2. NeededBy(e, AllLists)' = NeededBy(e, AllLists)
  BY <1>1, ShapeKept DEF NeededBy
<1>3. QED  BY <1>2, ShapeKept DEF Sound

(* Steps that neither read nor note anything.                              *)
LEMMA QuietStep ==
  ASSUME ScanInv, ScanTypeOK', shape' = shape,
         scan'.read = scan.read, scan'.refs = scan.refs, scan'.seen = scan.seen,
         scan'.queue = scan.queue, scan'.todo = scan.todo, scan'.rows = scan.rows,
         scan'.entity = scan.entity, scan'.orphans = scan.orphans, scan'.media = scan.media,
         Collecting' => Collecting,
         scan'.phase \in {"list", "done"} => scan.todo = {} /\ scan.queue = <<>>,
         scan.phase = "done" => scan'.phase = "done"
  PROVE  Walk'
<1> USE DEF ScanInv
<1>1. Visited' = Visited /\ Visited \subseteq Entities
  BY DEF Visited, ScanTypeOK
<1>2. \A e : DirectOf(e)' = DirectOf(e)
  BY DEF DirectOf, Direct, Own
<1>3. \A e \in Visited' :
        DirectOf(e)' \subseteq scan'.refs[e] /\ (IF e = scan'.entity THEN Current(e)' ELSE Finished(e)')
  <2>1. Reads
    BY DEF Reads
  <2>2. QED  BY <1>1, <1>2, <2>1, FinishedStays, CurrentStays DEF Walk
<1>4. \A e \in Entities : Sound(e)'
  BY SoundStays DEF Walk
<1>5. Referenced' = Referenced
  BY DEF Referenced
<1>6. QED  BY <1>1, <1>3, <1>4, <1>5 DEF Walk

-----------------------------------------------------------------------------
(* The queue as a set.                                                     *)
LEMMA QueueTaken ==
  ASSUME ScanTypeOK, scan.queue # <<>>
  PROVE  /\ Last \in Queue /\ Last \in Blobs \X BOOLEAN
         /\ Front \in Seq(Blobs \X BOOLEAN)
         /\ Queue = Elements(Front) \union {Last}
<1> DEFINE Item == Blobs \X BOOLEAN
<1>1. PICK q \in Seq(Item) : q = scan.queue
  BY DEF ScanTypeOK
<1> HIDE DEF Item
<1>2. Len(q) \in Nat \ {0} /\ \A k \in 1..Len(q) : q[k] \in Item
  BY <1>1
<1>3. Front = SubSeq(q, 1, Len(q) - 1) /\ Last = q[Len(q)] /\ Queue = Elements(q)
  BY <1>1 DEF Front, Last, Queue
<1>4. /\ SubSeq(q, 1, Len(q) - 1) \in Seq(Item)
      /\ Len(SubSeq(q, 1, Len(q) - 1)) = Len(q) - 1
      /\ \A k \in 1..(Len(q) - 1) : SubSeq(q, 1, Len(q) - 1)[k] = q[k]
  <2>1. PICK n \in Nat : n = Len(q) - 1
    BY <1>2
  <2>2. \A k \in 1..n : q[k] \in Item
    BY <1>2, <2>1
  <2>3. /\ SubSeq(q, 1, n) \in Seq(Item)
        /\ Len(SubSeq(q, 1, n)) = (IF 1 <= n THEN n - 1 + 1 ELSE 0)
        /\ \A k \in 1..(n - 1 + 1) : SubSeq(q, 1, n)[k] = q[1 + k - 1]
    BY <2>2, SubSeqProperties
  <2>4. n - 1 + 1 = n /\ \A k \in 1..n : 1 + k - 1 = k
    BY <2>1
  <2>5. QED  BY <2>1, <2>3, <2>4
<1> DEFINE front == SubSeq(q, 1, Len(q) - 1)
<1>5. /\ front \in Seq(Item) /\ Len(front) = Len(q) - 1
      /\ \A k \in 1..(Len(q) - 1) : front[k] = q[k]
  BY <1>4
<1> HIDE DEF front
<1>6. Elements(q) = Elements(front) \union {q[Len(q)]}
  <2>1. 1..Len(q) = 1..Len(front) \union {Len(q)}
    BY <1>2, <1>5
  <2>2. QED  BY <2>1, <1>5 DEF Elements
<1>7. Last \in Queue
  BY <1>2, <1>3, <1>6
<1>8. Last \in Blobs \X BOOLEAN
  BY <1>2, <1>3 DEF Item
<1>9. QED  BY <1>3, <1>5, <1>6, <1>7, <1>8 DEF Item, front

LEMMA QueueLonger ==
  ASSUME NEW q \in Seq(Blobs \X BOOLEAN), NEW p \in Seq(Blobs \X BOOLEAN)
  PROVE  /\ q \o p \in Seq(Blobs \X BOOLEAN)
         /\ Elements(q \o p) = Elements(q) \union Elements(p)
<1> DEFINE Item == Blobs \X BOOLEAN
           r == q \o p
<1>1. q \in Seq(Item) /\ p \in Seq(Item)
  OBVIOUS
<1> HIDE DEF Item
<1>2. PICK m \in Nat, n \in Nat : m = Len(q) /\ n = Len(p)
  BY <1>1
<1>3. /\ r \in Seq(Item) /\ Len(r) = m + n
      /\ \A k \in 1..(m + n) : r[k] = IF k <= m THEN q[k] ELSE p[k - m]
  BY <1>1, <1>2, ConcatProperties
<1> HIDE DEF r
<1>4. \A k \in 1..m : k \in 1..(m + n) /\ r[k] = q[k]
  BY <1>3
<1>5. \A k \in 1..n : m + k \in 1..(m + n) /\ r[m + k] = p[k]
  <2> SUFFICES ASSUME NEW k \in 1..n PROVE m + k \in 1..(m + n) /\ r[m + k] = p[k]
    OBVIOUS
  <2>1. m + k \in 1..(m + n) /\ ~(m + k <= m) /\ (m + k) - m = k
    OBVIOUS
  <2>2. QED  BY <1>3, <2>1
<1>6. \A k \in 1..(m + n) : k \in 1..m \/ (k - m \in 1..n /\ r[k] = p[k - m])
  BY <1>3
<1>7. Elements(r) = Elements(q) \union Elements(p)
  <2>1. Elements(q) \subseteq Elements(r)
    BY <1>2, <1>3, <1>4 DEF Elements
  <2>2. Elements(p) \subseteq Elements(r)
    <3> SUFFICES ASSUME NEW k \in 1..n PROVE p[k] \in Elements(r)
      BY <1>2 DEF Elements
    <3>1. m + k \in 1..Len(r) /\ r[m + k] = p[k]
      BY <1>3, <1>5
    <3>2. QED  BY <3>1 DEF Elements
  <2>3. Elements(r) \subseteq Elements(q) \union Elements(p)
    <3> SUFFICES ASSUME NEW k \in 1..(m + n) PROVE r[k] \in Elements(q) \union Elements(p)
      BY <1>3 DEF Elements
    <3>1. CASE k \in 1..m
      BY <1>2, <1>4, <3>1 DEF Elements
    <3>2. CASE k - m \in 1..n /\ r[k] = p[k - m]
      BY <1>2, <3>2 DEF Elements
    <3>3. QED  BY <1>6, <3>1, <3>2
  <2>4. QED  BY <2>1, <2>2, <2>3
<1>8. QED  BY <1>3, <1>7 DEF Item, r

LEMMA RootsQueue ==
  ASSUME ScanTypeOK, NEW e \in Entities
  PROVE  /\ Roots(e) \in Seq(Blobs \X BOOLEAN)
         /\ BlobsOf(Elements(Roots(e))) = RootsOf(e)
         /\ \A item \in Elements(Roots(e)) : Queued(e, item, ReadLists)
<1>1. Opens[e] \in Blobs /\ Optional[e] \in Blobs \union {NoBlob}
  BY EntitiesTyped
<1>2. /\ Opens[e] \in Reached(Opens[e], ReadLists)
      /\ Optional[e] # NoBlob => Optional[e] \in Reached(Optional[e], ReadLists)
  BY <1>1, ReachedLeast, ListSets DEF Closed
<1>3. CASE e \notin Versions
  <2>1. Roots(e) = <<>> /\ Elements(<<>>) = {} /\ RootsOf(e) = {}
    BY <1>3 DEF Roots, Elements, RootsOf
  <2>2. QED  BY <2>1 DEF BlobsOf
<1>4. CASE e \in Versions /\ Optional[e] = NoBlob
  <2> DEFINE item == <<Opens[e], TRUE>>
  <2>1. Roots(e) = <<item>> /\ RootsOf(e) = {Opens[e]}
    BY <1>1, <1>4, BlobsAssumption DEF Roots, RootsOf
  <2>2. item \in Blobs \X BOOLEAN
    BY <1>1, Zenon
  <2>3. item[1] = Opens[e] /\ item[2] = TRUE
    OBVIOUS
  <2> HIDE DEF item
  <2>4. Elements(<<item>>) = {item}
    BY DEF Elements
  <2>5. BlobsOf({item}) = {item[1]}
    BY DEF BlobsOf
  <2>6. Queued(e, item, ReadLists)
    BY <1>2, <1>4, <2>3 DEF Queued
  <2>7. <<item>> \in Seq(Blobs \X BOOLEAN)
    BY <2>2
  <2>8. QED  BY <2>1, <2>3, <2>4, <2>5, <2>6, <2>7
<1>5. CASE e \in Versions /\ Optional[e] # NoBlob
  <2> DEFINE first == <<Opens[e], TRUE>>
             second == <<Optional[e], FALSE>>
  <2>1. Roots(e) = <<first, second>> /\ RootsOf(e) = {Opens[e], Optional[e]}
    BY <1>1, <1>5, BlobsAssumption DEF Roots, RootsOf
  <2>2. first \in Blobs \X BOOLEAN /\ second \in Blobs \X BOOLEAN
    BY <1>1, <1>5, Zenon
  <2>3. first[1] = Opens[e] /\ first[2] = TRUE /\ second[1] = Optional[e] /\ second[2] = FALSE
    OBVIOUS
  <2> HIDE DEF first, second
  <2>4. Elements(<<first, second>>) = {first, second}
    BY DEF Elements
  <2>5. BlobsOf({first, second}) = {first[1], second[1]}
    BY DEF BlobsOf
  <2>6. Queued(e, first, ReadLists) /\ Queued(e, second, ReadLists)
    BY <1>2, <1>5, <2>3 DEF Queued
  <2>7. QED  BY <2>1, <2>2, <2>3, <2>4, <2>5, <2>6
<1>6. QED  BY <1>3, <1>4, <1>5

-----------------------------------------------------------------------------
-----------------------------------------------------------------------------
LEMMA FieldsTyped ==
  ASSUME ScanTypeOK
  PROVE  /\ scan.todo \subseteq Entities /\ scan.seen \subseteq Blobs /\ scan.want \subseteq Blobs
         /\ scan.queue \in Seq(Blobs \X BOOLEAN) /\ scan.rows \subseteq Entities
         /\ scan.read \in [Blobs -> {"?", "list", "plain"}]
         /\ scan.found \in [Blobs -> {"?", "yes", "no"}]
         /\ scan.refs \in [Entities -> SUBSET (Blobs \X BOOLEAN)]
         /\ scan.media \in [Entities -> Media]
         /\ scan.orphans \subseteq Blobs /\ Visited \subseteq Entities
BY DEF ScanTypeOK, Visited

LEMMA StartScanInv ==
  ASSUME ScanInv, NEW mode \in {"check", "orphans"}, StartScan(mode)
  PROVE  ScanInv'
<1> USE DEF ScanInv
<1>1. scan' = [NoScan EXCEPT !.phase = "versions", !.mode = mode, !.backend = chosen]
  BY DEF StartScan
<1>2. /\ scan'.phase = "versions" /\ scan'.rows = {} /\ scan'.todo = {} /\ scan'.queue = <<>>
      /\ scan'.refs = [e \in Entities |-> {}] /\ scan'.read = [b \in Blobs |-> "?"]
      /\ scan'.orphans = {}
  BY <1>1 DEF NoScan
<1>3. ScanTypeOK'
  <2>1. <<>> \in Seq(Blobs \X BOOLEAN) /\ NoMedia \in Media
    BY DEF NoMedia, Media
  <2> DEFINE Scans == [phase : {"new", "versions", "reviews", "attachments", "walk", "list", "done", "failed"},
               mode : {"check", "orphans"},
               backend : Places \union {NoBlob}, todo : SUBSET Entities, entity : Entities \union {NoBlob},
               queue : Seq(Blobs \X BOOLEAN), seen : SUBSET Blobs, want : SUBSET Blobs,
               found : [Blobs -> {"?", "yes", "no"}], read : [Blobs -> {"?", "list", "plain"}],
               refs : [Entities -> SUBSET (Blobs \X BOOLEAN)], rows : SUBSET Entities,
               media : [Entities -> Media], orphans : SUBSET Blobs]
  <2>2. NoScan \in Scans
    BY <2>1 DEF NoScan
  <2>3. scan' \in Scans
    <3>1. PICK none \in Scans : none = NoScan
      BY <2>2
    <3>2. chosen \in Places
      BY DEF ScanTypeOK
    <3>3. [none EXCEPT !.phase = "versions", !.mode = mode, !.backend = chosen] \in Scans
      BY <3>2
    <3>4. QED  BY <1>1, <3>1, <3>3
  <2>4. QED  BY <2>3 DEF ScanTypeOK, StartScan, world
<1>4. Walk'
  BY <1>2 DEF Walk, Visited, Sound, Collecting
<1>5. QED  BY <1>3, <1>4

(* A SELECT adds rows of which nothing is noted.                           *)
LEMMA FetchedTyped ==
  ASSUME ScanTypeOK, NEW kind \in SUBSET Entities
  PROVE  /\ Fetched(kind).rows \subseteq Entities /\ Fetched(kind).media \in [Entities -> Media]
         /\ Fetched(kind).todo \subseteq Entities
         /\ Fetched(kind).rows = scan.rows \union (records \intersect kind)
         /\ Fetched(kind).todo = scan.todo \union (records \intersect kind)
         /\ Fetched(kind).queue = scan.queue /\ Fetched(kind).refs = scan.refs
         /\ Fetched(kind).read = scan.read /\ Fetched(kind).orphans = scan.orphans
<1>1. records \subseteq Entities /\ media \in [Entities -> Media] /\ scan.media \in [Entities -> Media]
  BY FieldsTyped DEF ScanTypeOK
<1>2. [e \in Entities |-> IF e \in kind THEN media[e] ELSE scan.media[e]] \in [Entities -> Media]
  BY <1>1
<1>3. QED  BY <1>1, <1>2 DEF Fetched, ScanTypeOK

LEMMA CollectStepInv ==
  ASSUME ScanInv, Collecting, shape' = shape, ScanTypeOK',
         scan'.rows \ scan'.todo = scan.rows \ scan.todo,
         scan'.todo = scan'.rows, scan'.queue = scan.queue, scan'.refs = scan.refs,
         scan'.read = scan.read, scan'.orphans = scan.orphans,
         scan'.phase \in {"reviews", "attachments", "walk"}
  PROVE  ScanInv'
<1> USE DEF ScanInv
<1>1. /\ scan.queue = <<>> /\ scan.refs = [e \in Entities |-> {}] /\ scan.orphans = {}
      /\ \A b \in Blobs : scan.read[b] = "list" => shape[b].list
  BY DEF Walk, Collecting
<1>2. Visited' = {}
  BY DEF Visited
<1>3. \A e \in Entities : Sound(e)'
  BY <1>1 DEF Sound
<1>4. Walk'
  BY <1>1, <1>2, <1>3 DEF Walk
<1>5. QED  BY <1>4

LEMMA CollectInv ==
  ASSUME ScanInv, CollectVersions \/ CollectReviews \/ CollectAttachments
  PROVE  ScanInv'
<1> USE DEF ScanInv
<1> DEFINE Selects(kind, phase, want) ==
             scan' = [Fetched(kind) EXCEPT !.phase = phase, !.want = want]
<1>1. /\ Collecting /\ shape' = shape /\ scan.todo = scan.rows
      /\ UNCHANGED <<shape, holds, chosen, records, media, losses, uploads, switches>>
  BY DEF CollectVersions, CollectReviews, CollectAttachments, Collecting, Walk, world
<1>2. PICK kind \in SUBSET Entities, phase \in {"reviews", "attachments", "walk"},
           want \in SUBSET Blobs : Selects(kind, phase, want)
  <2>1. CASE CollectVersions
    <3>1. Fetched(Versions).want = scan.want /\ scan.want \in SUBSET Blobs
      BY FieldsTyped DEF Fetched, ScanTypeOK
    <3>2. Selects(Versions, "reviews", scan.want)
      BY <2>1, <3>1 DEF CollectVersions, Fetched, ScanTypeOK
    <3>3. Versions \in SUBSET Entities
      BY DEF Entities
    <3>4. QED  BY <3>1, <3>2, <3>3
  <2>2. CASE CollectReviews
    <3>1. Fetched(Reviews).want = scan.want /\ scan.want \in SUBSET Blobs
      BY FieldsTyped DEF Fetched, ScanTypeOK
    <3>2. Selects(Reviews, "attachments", scan.want)
      BY <2>2, <3>1 DEF CollectReviews, Fetched, ScanTypeOK
    <3>3. Reviews \in SUBSET Entities
      BY DEF Entities
    <3>4. QED  BY <3>1, <3>2, <3>3
  <2>3. CASE CollectAttachments
    <3>1. PICK s : s = Fetched(Attachments)
      OBVIOUS
    <3>2. s.rows \subseteq Entities /\ s.media \in [Entities -> Media]
      BY <3>1, FetchedTyped DEF Entities
    <3>3. ASSUME NEW e \in s.rows PROVE BlobsOf(Direct(e, s.media[e])) \subseteq Blobs
      <4>1. PICK m \in Media : m = s.media[e]
        BY <3>2
      <4>2. Direct(e, m) \subseteq Blobs \X BOOLEAN
        BY <3>2, EntitiesTyped
      <4>3. QED  BY <4>1, <4>2 DEF BlobsOf
    <3>4. DirectBlobs(s) \in SUBSET Blobs
      BY <3>3 DEF DirectBlobs
    <3>5. Selects(Attachments, "walk", DirectBlobs(s))
      BY <2>3, <3>1 DEF CollectAttachments
    <3>6. Attachments \in SUBSET Entities
      BY DEF Entities
    <3>7. QED  BY <3>4, <3>5, <3>6
  <2>4. QED  BY <2>1, <2>2, <2>3
<1>3. /\ scan'.rows = scan.rows \union (records \intersect kind)
      /\ scan'.todo = scan.todo \union (records \intersect kind)
      /\ scan'.queue = scan.queue /\ scan'.refs = scan.refs
      /\ scan'.read = scan.read /\ scan'.orphans = scan.orphans /\ scan'.phase = phase
  BY <1>2, FetchedTyped DEF Fetched, ScanTypeOK
<1>4. ScanTypeOK'
  <2>1. PICK s : s = Fetched(kind)
    OBVIOUS
  <2>2. /\ s = [scan EXCEPT !.rows = s.rows, !.todo = s.todo, !.media = s.media]
        /\ s.rows \subseteq Entities /\ s.todo \subseteq Entities /\ s.media \in [Entities -> Media]
    BY <2>1, FetchedTyped DEF Fetched, ScanTypeOK
  <2>3. PICK found \in SUBSET Entities, todo \in SUBSET Entities, columns \in [Entities -> Media] :
          scan' = [scan EXCEPT !.rows = found, !.todo = todo, !.media = columns, !.phase = phase, !.want = want]
    <3>1. PICK found \in SUBSET Entities, todo \in SUBSET Entities, columns \in [Entities -> Media] :
            found = s.rows /\ todo = s.todo /\ columns = s.media
      BY <2>2
    <3>2. scan' = [scan EXCEPT !.rows = found, !.todo = todo, !.media = columns, !.phase = phase, !.want = want]
      BY <1>2, <2>1, <2>2, <3>1 DEF ScanTypeOK
    <3>3. QED  BY <3>2
  <2>4. QED  BY <1>1, <2>3 DEF ScanTypeOK
<1>5. QED  BY <1>1, <1>3, <1>4, CollectStepInv

LEMMA LookInv ==
  ASSUME ScanInv, NEW b \in Blobs, Look(b)
  PROVE  ScanInv'
<1> USE DEF ScanInv
<1>1. ScanTypeOK'
  BY SMTT(60) DEF ScanTypeOK, Look, world
<1>2. Walk'
  BY <1>1, QuietStep DEF Look, ScanTypeOK, world, Collecting
<1>3. QED  BY <1>1, <1>2

LEMMA WalkedInv == ScanInv /\ Walked => ScanInv'
<1> SUFFICES ASSUME ScanInv, Walked PROVE ScanInv'
  OBVIOUS
<1> USE DEF ScanInv
<1>1. ScanTypeOK'
  BY SMTT(60) DEF ScanTypeOK, Walked, world
<1>2. Walk'
  BY ZenonT(60), <1>1, QuietStep DEF Walked, ScanTypeOK, world, Collecting
<1>3. QED  BY <1>1, <1>2

LEMMA ScanFailsInv == ScanInv /\ ScanFails => ScanInv'
<1> SUFFICES ASSUME ScanInv, ScanFails PROVE ScanInv'
  OBVIOUS
<1> USE DEF ScanInv
<1>1. ScanTypeOK'
  BY DEF ScanTypeOK, ScanFails, world
<1>2. Walk'
  BY <1>1, QuietStep DEF ScanFails, ScanTypeOK, world, Collecting
<1>3. QED  BY <1>1, <1>2

LEMMA WorldInv ==
  ASSUME ScanInv,
         \/ \E b \in Blobs : Lose(b) \/ Upload(b)
         \/ \E e \in Entities : Publish(e) \/ Unready(e) \/ \E r \in Renders : Save(e, r)
         \/ \E k \in Places : Switch(k)
         \/ UNCHANGED scanVars
  PROVE  ScanInv'
<1> USE DEF ScanInv
<1>1. scan' = scan /\ shape' = shape
  BY DEF Lose, Upload, Publish, Switch, Save, Unready, scanVars, world
<1>2. ScanTypeOK'
  <2>1. CASE \E b \in Blobs : Lose(b)
    BY <2>1, <1>1, ScanBoundsAssumption DEF Lose, ScanTypeOK
  <2>2. CASE \E b \in Blobs : Upload(b)
    BY <2>2, <1>1, ScanBoundsAssumption DEF Upload, ScanTypeOK
  <2>3. CASE \E e \in Entities : Publish(e)
    BY <2>3, <1>1 DEF Publish, ScanTypeOK
  <2>4. CASE \E k \in Places : Switch(k)
    BY <2>4, <1>1, ScanBoundsAssumption DEF Switch, ScanTypeOK
  <2>5. CASE UNCHANGED scanVars
    BY <2>5 DEF scanVars, world, ScanTypeOK
  <2>6. ASSUME NEW e \in Entities, Unready(e) PROVE ScanTypeOK'
    <3>1. [media[e] EXCEPT !.ready = FALSE] \in Media
      <4>1. PICK m \in Media : m = media[e]
        BY DEF ScanTypeOK
      <4>2. [m EXCEPT !.ready = FALSE] \in Media
        BY DEF Media
      <4>3. QED  BY <4>1, <4>2
    <3>2. PICK new \in Media : new = [media[e] EXCEPT !.ready = FALSE]
      BY <3>1
    <3>3. media' = [media EXCEPT ![e] = new]
      BY <2>6, <3>2 DEF Unready
    <3>4. QED  BY ZenonT(60), <2>6, <1>1, <3>3 DEF Unready, ScanTypeOK
  <2>7. ASSUME NEW e \in Entities, NEW r \in Renders, Save(e, r) PROVE ScanTypeOK'
    <3>1. Rendered(r) \in Media
      BY EntitiesAssumption DEF Rendered, Media
    <3>2. QED  BY <2>7, <1>1, <3>1 DEF Save, ScanTypeOK
  <2>8. QED  BY <2>1, <2>2, <2>3, <2>4, <2>5, <2>6, <2>7
<1>3. Walk'
  BY <1>1, <1>2, QuietStep DEF Walk, Collecting
<1>4. QED  BY <1>2, <1>3

LEMMA ListInv == ScanInv /\ List => ScanInv'
<1> SUFFICES ASSUME ScanInv, List PROVE ScanInv'
  OBVIOUS
<1> USE DEF ScanInv
<1>1. /\ scan'.read = scan.read /\ scan'.refs = scan.refs /\ scan'.seen = scan.seen
      /\ scan'.queue = scan.queue /\ scan'.todo = scan.todo /\ scan'.rows = scan.rows
      /\ scan'.entity = scan.entity /\ scan'.phase = "done" /\ shape' = shape
      /\ scan'.media = scan.media
      /\ scan'.orphans = holds[chosen] \ Referenced
  BY DEF List, ScanTypeOK, world
<1>2. ScanTypeOK'
  <2>1. holds[chosen] \subseteq Blobs
    BY DEF ScanTypeOK
  <2>2. QED  BY <2>1 DEF List, ScanTypeOK, world
<1>3. Visited' = Visited /\ Visited \subseteq Entities /\ Referenced' = Referenced /\ Reads
  BY <1>1, FieldsTyped DEF Visited, Referenced, Reads
<1>4. \A e : DirectOf(e)' = DirectOf(e)
  BY <1>1 DEF DirectOf, Direct, Own
<1>5. \A e \in Visited' :
        DirectOf(e)' \subseteq scan'.refs[e] /\ (IF e = scan'.entity THEN Current(e)' ELSE Finished(e)')
  BY <1>1, <1>2, <1>3, <1>4, FinishedStays, CurrentStays DEF Walk
<1>6. \A e \in Entities : Sound(e)'
  BY <1>1, SoundStays DEF Walk
<1>7. /\ scan'.todo = {} /\ scan'.queue = <<>> /\ scan'.todo \subseteq scan'.rows
      /\ scan'.orphans \intersect Referenced' = {}
      /\ \A b \in Blobs : scan'.read[b] = "list" => shape'[b].list
  BY <1>1, <1>3 DEF Walk, List
<1>8. Walk'
  BY <1>1, <1>5, <1>6, <1>7 DEF Walk, Collecting
<1>9. QED  BY <1>2, <1>8

LEMMA SkipInv == ScanInv /\ Skip => ScanInv'
<1> SUFFICES ASSUME ScanInv, Skip PROVE ScanInv'
  OBVIOUS
<1> USE DEF ScanInv
<1>1. /\ scan'.read = scan.read /\ scan'.refs = scan.refs /\ scan'.seen = scan.seen
      /\ scan'.queue = Front /\ scan'.todo = scan.todo /\ scan'.rows = scan.rows
      /\ scan'.entity = scan.entity /\ scan'.phase = scan.phase /\ shape' = shape
      /\ scan'.orphans = scan.orphans /\ scan'.media = scan.media
  BY DEF Skip, ScanTypeOK, world
<1>2. Queue = Queue' \union {Last} /\ Last[1] \in scan.seen /\ scan.phase = "walk"
  <2>1. Queue = Elements(Front) \union {Last}
    BY QueueTaken DEF Skip
  <2>2. Queue' = Elements(Front)
    BY <1>1 DEF Queue, Elements
  <2>3. QED  BY <2>1, <2>2 DEF Skip
<1>3. ScanTypeOK'
  <2>1. Front \in Seq(Blobs \X BOOLEAN)
    BY QueueTaken DEF Skip
  <2>2. QED  BY <2>1 DEF Skip, ScanTypeOK, world
<1>4. Visited' = Visited /\ Visited \subseteq Entities /\ Referenced' = Referenced /\ Reads
  BY <1>1, FieldsTyped DEF Visited, Referenced, Reads
<1>5. ASSUME NEW e \in Entities, Current(e) PROVE Current(e)'
  <2>1. PICK set \in SUBSET Blobs : set = scan.seen
    BY FieldsTyped
  <2>2. Noted(e, set)'
    BY <1>1, <1>3, <1>4, <1>5, <2>1, NotesStay DEF Current
  <2>3. Noted(e, scan.seen)'
    BY <1>1, <2>1, <2>2 DEF Noted
  <2>4. Traced(e, scan.seen, BlobsOf(Queue))'
    <3>1. BlobsOf(Queue) \subseteq scan.seen \union BlobsOf(Queue')
      BY <1>2 DEF BlobsOf
    <3>2. BlobsOf(Queue)' = BlobsOf(Queue')
      BY DEF BlobsOf
    <3>3. RootsOf(e)' = RootsOf(e) /\ \A b : ParentsOf(b)' = ParentsOf(b)
      BY <1>1, ShapeKept DEF RootsOf
    <3>4. QED  BY <1>1, <1>5, <3>1, <3>2, <3>3 DEF Current, Traced
  <2>5. \A item \in Queue' : Queued(e, item, ReadLists)'
    BY <1>1, <1>2, <1>3, <1>4, <1>5, QueuedStays DEF Current
  <2>6. QED  BY <2>3, <2>4, <2>5 DEF Current
<1>6. \A e : DirectOf(e)' = DirectOf(e)
  BY <1>1 DEF DirectOf, Direct, Own
<1>7. \A e \in Visited' :
        DirectOf(e)' \subseteq scan'.refs[e] /\ (IF e = scan'.entity THEN Current(e)' ELSE Finished(e)')
  BY <1>1, <1>3, <1>4, <1>5, <1>6, FinishedStays DEF Walk
<1>8. \A e \in Entities : Sound(e)'
  BY <1>1, SoundStays DEF Walk
<1>9. /\ scan.entity \in Visited /\ scan.todo \subseteq scan.rows /\ scan.orphans = {}
      /\ \A b \in Blobs : scan'.read[b] = "list" => shape'[b].list
  BY <1>1, <1>2 DEF Walk, Skip
<1>10. Walk'
  BY <1>1, <1>2, <1>4, <1>7, <1>8, <1>9 DEF Walk, Collecting
<1>11. QED  BY <1>3, <1>10

LEMMA NextEntityInv ==
  ASSUME ScanInv, NEW e \in Entities, NextEntity(e)
  PROVE  ScanInv'
<1> USE DEF ScanInv
<1>1. /\ scan'.read = scan.read /\ scan'.seen = {}
      /\ scan'.refs = [scan.refs EXCEPT ![e] = DirectOf(e)]
      /\ scan'.queue = Roots(e) /\ scan'.todo = scan.todo \ {e} /\ scan'.rows = scan.rows
      /\ scan'.entity = e /\ scan'.phase = "walk" /\ shape' = shape
      /\ scan'.orphans = scan.orphans /\ scan'.media = scan.media
      /\ scan.phase = "walk" /\ scan.queue = <<>> /\ e \in scan.todo
  BY DEF NextEntity, ScanTypeOK, world, DirectOf
<1>2. /\ Roots(e) \in Seq(Blobs \X BOOLEAN) /\ DirectOf(e) \subseteq Blobs \X BOOLEAN
      /\ BlobsOf(Elements(Roots(e))) = RootsOf(e)
      /\ \A item \in Elements(Roots(e)) : Queued(e, item, ReadLists)
  <2>1. PICK m \in Media : m = scan.media[e]
    BY FieldsTyped
  <2>2. QED  BY <2>1, RootsQueue, EntitiesTyped DEF DirectOf
<1>3. ScanTypeOK'
  BY <1>2 DEF NextEntity, ScanTypeOK, world, DirectOf
<1>4. /\ Visited' = Visited \union {e} /\ Visited \subseteq Entities /\ e \notin Visited
      /\ e \in scan.rows /\ scan.orphans = {} /\ scan.todo \subseteq scan.rows /\ Reads
  BY <1>1, FieldsTyped DEF Visited, Walk, Reads
<1>5. /\ scan'.refs[e] = DirectOf(e)
      /\ \A f \in Entities : f # e => scan'.refs[f] = scan.refs[f]
  BY <1>1, FieldsTyped
<1>6. ASSUME NEW f \in Visited PROVE Finished(f)'
  <2>1. Finished(f)
    <3>1. CASE f # scan.entity
      BY <3>1 DEF Walk
    <3>2. CASE f = scan.entity
      <4>1. BlobsOf(Queue) = {}
        BY <1>1 DEF Queue, Elements, BlobsOf
      <4>2. scan.seen \in SUBSET Blobs
        BY FieldsTyped
      <4>3. Current(f)
        BY <3>2 DEF Walk
      <4>4. QED  BY <4>1, <4>2, <4>3 DEF Current, Finished
    <3>3. QED  BY <3>1, <3>2
  <2>2. QED  BY <1>1, <1>3, <1>4, <1>5, <2>1, FinishedStays
<1>7. Current(e)'
  <2>1. Noted(e, {})'
    BY DEF Noted
  <2>2. BlobsOf(Queue)' = RootsOf(e) /\ RootsOf(e)' = RootsOf(e)
    <3>1. Queue' = Elements(Roots(e))
      BY <1>1 DEF Queue, Elements
    <3>2. BlobsOf(Queue)' = BlobsOf(Queue')
      BY DEF BlobsOf
    <3>3. RootsOf(e)' = RootsOf(e)
      BY DEF RootsOf
    <3>4. QED  BY <1>2, <3>1, <3>2, <3>3
  <2>3. \A item \in Queue' : Queued(e, item, ReadLists)'
    BY <1>1, <1>2, <1>3, <1>4, QueuedStays DEF Queue, Elements
  <2>4. Noted(e, scan.seen)' /\ Traced(e, scan.seen, BlobsOf(Queue))'
    BY <1>1, <2>1, <2>2 DEF Noted, Traced
  <2>5. QED  BY <2>3, <2>4 DEF Current
<1>8. \A f : DirectOf(f)' = DirectOf(f)
  BY <1>1 DEF DirectOf, Direct, Own
<1>9. Sound(e)'
  <2>1. ASSUME NEW ref \in DirectOf(e)
        PROVE  ref[1] \in NeededBy(e, AllLists) /\ (ref[2] => ref[1] \in Required(e, AllLists))
    <3>1. ref[1] \in BlobsOf(DirectOf(e))
      BY DEF BlobsOf
    <3>2. ref[2] => ref[1] \in Vital(e)
      <4>1. \/ \E b \in Vital(e) : ref = <<b, TRUE>>
            \/ \E b : ref = <<b, FALSE>>
        BY DEF DirectOf, Direct, Own, Vital
      <4>2. ASSUME NEW b \in Vital(e), ref = <<b, TRUE>> PROVE ref[1] \in Vital(e)
        BY <4>2
      <4>3. ASSUME NEW b, ref = <<b, FALSE>> PROVE ~ref[2]
        BY <4>3
      <4>4. QED  BY <4>1, <4>2, <4>3
    <3>3. QED  BY <3>1, <3>2 DEF NeededBy, Required
  <2>2. NeededBy(e, AllLists)' = NeededBy(e, AllLists)
    <3>1. BlobsOf(DirectOf(e))' = BlobsOf(DirectOf(e))
      BY <1>8 DEF BlobsOf
    <3>2. QED  BY <1>1, <3>1, ShapeKept DEF NeededBy
  <2>3. QED  BY <1>1, <1>5, <2>1, <2>2, ShapeKept DEF Sound
<1>10. \A f \in Entities : Sound(f)'
  BY <1>1, <1>5, <1>9, SoundStays DEF Walk
<1>11. Referenced' \intersect scan'.orphans = {}
  BY <1>1, <1>4
<1>12. /\ \A f \in Visited' :
           DirectOf(f)' \subseteq scan'.refs[f] /\ (IF f = scan'.entity THEN Current(f)' ELSE Finished(f)')
       /\ scan'.todo \subseteq scan'.rows /\ scan'.entity \in Visited'
       /\ \A b \in Blobs : scan'.read[b] = "list" => shape'[b].list
  BY <1>1, <1>4, <1>5, <1>6, <1>7, <1>8 DEF Walk
<1>13. Walk'
  BY <1>1, <1>4, <1>10, <1>11, <1>12 DEF Walk, Collecting
<1>14. QED  BY <1>3, <1>13

(* What a list of e names is needed by e.                                  *)
LEMMA DepsNeeded ==
  ASSUME ScanTypeOK, NEW e \in Entities, NEW b \in Blobs, NEW required \in BOOLEAN,
         Queued(e, <<b, required>>, ReadLists), shape[b].list, NEW d \in Deps(b)
  PROVE  d \in NeededBy(e, AllLists) /\ (required => d \in Required(e, AllLists))
<1>1. e \in Versions /\ Opens[e] \in Blobs /\ b \in AllLists
  BY EntitiesTyped DEF Queued, AllLists
<1>2. Queued(e, <<b, required>>, AllLists)
  BY ListSets, QueuedGrows
<1>3. CASE required
  <2>1. d \in Named(Reached(Opens[e], AllLists), AllLists)
    BY <1>1, <1>2, <1>3 DEF Named, Queued
  <2>2. Opens[e] \in RootsOf(e)
    BY <1>1, BlobsAssumption DEF RootsOf
  <2>3. QED  BY <1>1, <2>1, <2>2 DEF NeededBy, Chained, Required
<1>4. CASE ~required
  <2>1. Optional[e] # NoBlob /\ d \in Named(Reached(Optional[e], AllLists), AllLists)
    BY <1>1, <1>2, <1>4 DEF Named, Queued
  <2>2. Optional[e] \in RootsOf(e)
    BY <1>1, <2>1 DEF RootsOf
  <2>3. QED  BY <1>4, <2>1, <2>2 DEF NeededBy, Chained
<1>5. QED  BY <1>3, <1>4

LEMMA FollowInv ==
  ASSUME ScanInv, NEW b \in Blobs, NEW required \in BOOLEAN, Follow(b, required)
  PROVE  ScanInv'
<1> USE DEF ScanInv
<1>0. PICK as \in Readings(b) :
        scan' = [scan EXCEPT
                   !.seen = @ \union {b},
                   !.read[b] = as,
                   !.want = IF as = "list" THEN Deps(b) ELSE @,
                   !.refs[scan.entity] = IF as = "list" THEN @ \union (Deps(b) \X {required}) ELSE @,
                   !.queue = IF as = "list" THEN WithParents(b, required) ELSE Front]
  BY DEF Follow, FollowInto
<1> DEFINE c == scan.entity
           listed == as = "list"
<1>1. /\ scan.phase = "walk" /\ scan.queue # <<>> /\ Last = <<b, required>> /\ b \notin scan.seen
      /\ UNCHANGED world
  BY DEF Follow, FollowInto
<1>2. /\ c \in Visited /\ c \in Entities /\ Current(c) /\ scan.todo \subseteq scan.rows
      /\ scan.orphans = {} /\ Visited \subseteq Entities
  BY <1>1, FieldsTyped DEF Walk
<1>3. /\ shape[b].list \in BOOLEAN /\ shape[b].parents \in Seq(Blobs) /\ ParentsOf(b) \subseteq Blobs
      /\ Deps(b) \subseteq Blobs /\ as \in {"list", "plain"}
      /\ scan.read[b] \in {"?", "list", "plain"} /\ (scan.read[b] # "?" => as = scan.read[b])
  BY BlobsTyped, FieldsTyped DEF Readings
<1>4. listed => shape[b].list
  BY DEF Walk, Readings
<1>5. /\ Last \in Queue /\ Front \in Seq(Blobs \X BOOLEAN)
      /\ Queue = Elements(Front) \union {<<b, required>>}
  BY <1>1, QueueTaken
<1>6. Queued(c, <<b, required>>, ReadLists)
  BY <1>1, <1>2, <1>5 DEF Current
<1> DEFINE noted == Deps(b) \X {required}
           longer == WithParents(b, required)
           added == [k \in 1..Len(shape[b].parents) |-> <<shape[b].parents[k], required>>]
<1>7. /\ noted \subseteq Blobs \X BOOLEAN
      /\ \A ref \in noted : ref[1] \in Deps(b) /\ ref[2] = required
  BY <1>3
<1>8. /\ longer \in Seq(Blobs \X BOOLEAN)
      /\ Elements(longer) = Elements(Front) \union Elements(added)
      /\ \A item \in Elements(added) : item[1] \in ParentsOf(b) /\ item[2] = required
                                        /\ item = <<item[1], required>>
      /\ \A p \in ParentsOf(b) : <<p, required>> \in Elements(added)
  <2>1. PICK n \in Nat : n = Len(shape[b].parents)
    BY <1>3
  <2>2. \A k \in 1..n : shape[b].parents[k] \in Blobs
    BY <1>3, <2>1
  <2>3. \A k \in 1..n : <<shape[b].parents[k], required>> \in Blobs \X BOOLEAN
    BY <2>2
  <2>4. added \in Seq(Blobs \X BOOLEAN) /\ Len(added) = n
        /\ \A k \in 1..n : added[k] = <<shape[b].parents[k], required>>
    BY <2>1, <2>3
  <2> HIDE DEF added
  <2>5. Elements(added) = {<<shape[b].parents[k], required>> : k \in 1..n}
    BY <2>4 DEF Elements
  <2>6. ParentsOf(b) = {shape[b].parents[k] : k \in 1..n}
    BY <2>1 DEF ParentsOf
  <2>7. longer = Front \o added
    BY DEF WithParents, added
  <2>8. /\ longer \in Seq(Blobs \X BOOLEAN)
        /\ Elements(longer) = Elements(Front) \union Elements(added)
    BY SMTT(60), <1>5, <2>4, <2>7, QueueLonger
  <2>9. QED  BY <2>5, <2>6, <2>8
<1> HIDE DEF c, listed, noted, longer, added
<1>9. /\ scan'.seen = scan.seen \union {b}
      /\ scan'.read = [scan.read EXCEPT ![b] = as]
      /\ scan'.refs = [scan.refs EXCEPT ![c] = IF listed THEN @ \union noted ELSE @]
      /\ scan'.queue = (IF listed THEN longer ELSE Front)
      /\ scan'.want = (IF listed THEN Deps(b) ELSE scan.want)
      /\ scan'.todo = scan.todo /\ scan'.rows = scan.rows /\ scan'.entity = c
      /\ scan'.phase = "walk" /\ scan'.orphans = {} /\ shape' = shape /\ scan'.media = scan.media
  BY <1>0, <1>1, <1>2 DEF ScanTypeOK, world, c, listed, noted, longer
<1>10. ScanTypeOK'
  <2>1. scan.want \subseteq Blobs /\ scan.refs[c] \subseteq Blobs \X BOOLEAN
    BY <1>2, FieldsTyped
  <2>2. PICK seen, read, want, refs, queue :
          /\ scan' = [scan EXCEPT !.seen = seen, !.read = read, !.want = want, !.refs = refs,
                                  !.queue = queue]
          /\ seen = scan'.seen /\ read = scan'.read /\ want = scan'.want /\ refs = scan'.refs
          /\ queue = scan'.queue
    <3> DEFINE s == scan.seen \union {b}
               r == [scan.read EXCEPT ![b] = as]
               w == IF listed THEN Deps(b) ELSE scan.want
               f == [scan.refs EXCEPT ![c] = IF listed THEN @ \union noted ELSE @]
               q == IF listed THEN longer ELSE Front
    <3>1. scan' = [scan EXCEPT !.seen = s, !.read = r, !.want = w, !.refs = f, !.queue = q]
      BY <1>0 DEF c, listed, noted, longer
    <3>2. s = scan'.seen /\ r = scan'.read /\ w = scan'.want /\ f = scan'.refs /\ q = scan'.queue
      BY <1>9
    <3> HIDE DEF s, r, w, f, q
    <3>3. QED  BY <3>1, <3>2
  <2>3. scan'.seen \in SUBSET Blobs /\ scan'.want \in SUBSET Blobs
    BY <1>3, <1>9, <2>1, FieldsTyped
  <2>4. scan'.read \in [Blobs -> {"?", "list", "plain"}]
    BY ZenonT(60), <1>3, <1>9, FieldsTyped
  <2>5. scan'.refs \in [Entities -> SUBSET (Blobs \X BOOLEAN)]
    <3> DEFINE new == IF listed THEN scan.refs[c] \union noted ELSE scan.refs[c]
    <3>1. new \in SUBSET (Blobs \X BOOLEAN)
      BY <1>7, <2>1
    <3>2. scan'.refs = [scan.refs EXCEPT ![c] = new]
      BY <1>9
    <3> HIDE DEF new
    <3>3. QED  BY <3>1, <3>2, FieldsTyped
  <2>6. scan'.queue \in Seq(Blobs \X BOOLEAN)
    BY <1>5, <1>8, <1>9
  <2>7. QED  BY <1>1, <2>2, <2>3, <2>4, <2>5, <2>6 DEF ScanTypeOK, world
<1>11. /\ Reads /\ scan'.read[b] = as
       /\ \A x \in Blobs : x # b => scan'.read[x] = scan.read[x]
  BY <1>3, <1>9, FieldsTyped DEF Reads
<1>12. /\ \A e \in Entities : scan.refs[e] \subseteq scan'.refs[e]
       /\ \A e \in Entities : e # c => scan'.refs[e] = scan.refs[e]
       /\ listed => scan'.refs[c] = scan.refs[c] \union noted
       /\ ~listed => scan'.refs[c] = scan.refs[c]
  BY <1>2, <1>9, FieldsTyped
<1>13. \A e \in Visited : e # c => Finished(e)'
  <2> SUFFICES ASSUME NEW e \in Visited, e # c PROVE Finished(e)'
    OBVIOUS
  <2>1. Finished(e) /\ e \in Entities
    BY <1>2 DEF Walk, c
  <2>2. QED  BY <1>9, <1>10, <1>11, <1>12, <2>1, FinishedStays
<1>14. PICK e \in Entities : e = c
  BY <1>2
<1>15. Queued(e, <<b, required>>, ReadLists)'
  BY <1>6, <1>9, <1>10, <1>11, <1>14, QueuedStays
<1>16. Noted(e, scan.seen)'
  <2>1. PICK seen \in SUBSET Blobs : seen = scan.seen
    BY FieldsTyped
  <2>2. Noted(e, seen)
    BY <1>2, <1>14, <2>1 DEF Current
  <2>3. Noted(e, seen)'
    BY <1>9, <1>10, <1>11, <1>12, <2>2, NotesStay
  <2>4. listed => Deps(b)' \X {required} \subseteq scan'.refs[e]
    BY <1>9, <1>12, <1>14, ShapeKept DEF noted
  <2>5. scan'.read[b] # "?" /\ (scan'.read[b] = "list" => listed)
    BY <1>3, <1>11 DEF listed
  <2>6. Noted(e, seen \union {b})'
    BY <1>15, <2>3, <2>4, <2>5 DEF Noted
  <2>7. scan'.seen = seen \union {b}
    BY <1>9, <2>1
  <2>8. QED  BY <2>6, <2>7 DEF Noted
<1>17. Elements(scan'.queue) = Queue' /\ Elements(Front) \subseteq Queue'
       /\ \A item \in Queue' : item \in Elements(Front) \/ (listed /\ item \in Elements(added))
  <2>1. Elements(scan'.queue) = Queue'
    BY DEF Queue, Elements
  <2>2. CASE listed
    <3>1. Elements(scan'.queue) = Elements(Front) \union Elements(added)
      BY <1>8, <1>9, <2>2
    <3>2. QED  BY <2>1, <2>2, <3>1
  <2>3. CASE ~listed
    <3>1. Elements(scan'.queue) = Elements(Front)
      BY <1>9, <2>3
    <3>2. QED  BY <2>1, <2>3, <3>1
  <2>4. QED  BY <2>2, <2>3
<1>18. Traced(e, scan.seen, BlobsOf(Queue))'
  <2>1. BlobsOf(Queue) \subseteq {b} \union BlobsOf(Queue')
    BY <1>5, <1>17 DEF BlobsOf
  <2>2. listed => ParentsOf(b) \subseteq BlobsOf(Queue')
    <3> SUFFICES ASSUME listed, NEW p \in ParentsOf(b) PROVE p \in BlobsOf(Queue')
      OBVIOUS
    <3>1. <<p, required>> \in Queue' /\ <<p, required>>[1] = p
      BY <1>8, <1>9, <1>17
    <3>2. QED  BY <3>1 DEF BlobsOf
  <2>3. Traced(e, scan.seen, BlobsOf(Queue))
    BY <1>2, <1>14 DEF Current
  <2>4. BlobsOf(Queue)' = BlobsOf(Queue') /\ \A x : ParentsOf(x)' = ParentsOf(x)
    BY <1>9, ShapeKept DEF BlobsOf
  <2>5. RootsOf(e)' \subseteq scan'.seen \union BlobsOf(Queue)'
    BY <1>9, <2>1, <2>3, <2>4 DEF Traced, RootsOf
  <2>6. ASSUME NEW x \in scan.seen, scan'.read[x] = "list"
        PROVE  ParentsOf(x) \subseteq scan'.seen \union BlobsOf(Queue)'
    <3>1. x \in Blobs /\ x # b
      BY <1>1, FieldsTyped
    <3>2. scan.read[x] = "list"
      BY <1>11, <2>6, <3>1
    <3>3. QED  BY <1>9, <2>1, <2>3, <2>4, <3>2 DEF Traced
  <2>7. scan'.read[b] = "list" => listed
    BY <1>11 DEF listed
  <2>8. QED  BY <1>9, <2>2, <2>4, <2>5, <2>6, <2>7 DEF Traced
<1>19. ASSUME NEW item \in Queue' PROVE Queued(e, item, ReadLists)'
  <2>1. CASE item \in Elements(Front)
    <3>1. Queued(e, item, ReadLists)
      BY <1>2, <1>5, <1>14, <2>1 DEF Current
    <3>2. QED  BY <1>9, <1>10, <1>11, <3>1, QueuedStays
  <2>2. CASE listed /\ item \in Elements(added)
    <3>1. item[1] \in ParentsOf(b) /\ item[2] = required
      BY <1>8, <2>2
    <3>2. PICK lists \in SUBSET Blobs : lists = ReadLists' /\ b \in lists
      <4>1. ReadLists' \subseteq Blobs /\ b \in ReadLists'
        BY <1>4, <1>9, <1>11, <2>2, ShapeKept DEF ReadLists, AllLists, listed
      <4>2. QED  BY <4>1
    <3>3. Queued(e, <<b, required>>, lists)
      <4>1. Queued(e, <<b, required>>, lists)' = Queued(e, <<b, required>>, ReadLists)'
        BY <3>2 DEF Queued, Reached, ParentsIn
      <4>2. QED  BY ZenonT(60), <1>9, <1>15, <4>1, ShapeKept
    <3>4. Opens[e] \in Blobs /\ (Optional[e] # NoBlob => Optional[e] \in Blobs)
      BY EntitiesTyped
    <3>5. Queued(e, item, lists)
      <4>1. CASE required
        BY <3>1, <3>2, <3>3, <3>4, <4>1, ParentsReached DEF Queued
      <4>2. CASE ~required
        BY <3>1, <3>2, <3>3, <3>4, <4>2, ParentsReached DEF Queued
      <4>3. QED  BY <4>1, <4>2
    <3>6. Queued(e, item, lists)' = Queued(e, item, ReadLists)'
      BY <3>2 DEF Queued, Reached, ParentsIn
    <3>7. QED  BY <1>9, <3>5, <3>6, ShapeKept
  <2>3. QED  BY <1>17, <2>1, <2>2
<1>20. Current(e)'
  BY <1>16, <1>18, <1>19 DEF Current
<1>21. \A f : DirectOf(f)' = DirectOf(f)
  BY <1>9 DEF DirectOf, Direct, Own
<1>22. ASSUME NEW f \in Entities PROVE Sound(f)'
  <2>1. Sound(f)
    BY DEF Walk
  <2>2. CASE f # c \/ ~listed
    BY <1>9, <1>12, <2>1, <2>2, SoundStays
  <2>3. CASE f = c /\ listed
    <3>1. ASSUME NEW ref \in noted
          PROVE  ref[1] \in NeededBy(f, AllLists) /\ (ref[2] => ref[1] \in Required(f, AllLists))
      BY <1>4, <1>6, <1>7, <2>3, <3>1, DepsNeeded
    <3>2. \A ref \in scan'.refs[f] : ref \in scan.refs[f] \/ ref \in noted
      BY <1>12, <2>3
    <3>3. \A ref \in scan'.refs[f] :
            ref[1] \in NeededBy(f, AllLists) /\ (ref[2] => ref[1] \in Required(f, AllLists))
      BY <2>1, <3>1, <3>2 DEF Sound
    <3>4. NeededBy(f, AllLists)' = NeededBy(f, AllLists)
      <4>1. BlobsOf(DirectOf(f))' = BlobsOf(DirectOf(f))
        BY <1>21 DEF BlobsOf
      <4>2. QED  BY <1>9, <4>1, ShapeKept DEF NeededBy
    <3>5. QED  BY <1>9, <3>3, <3>4, ShapeKept DEF Sound
  <2>4. QED  BY <2>2, <2>3
<1>23. Visited' = Visited
  BY <1>9 DEF Visited
<1>24. ASSUME NEW f \in Visited'
       PROVE  DirectOf(f)' \subseteq scan'.refs[f] /\ (IF f = scan'.entity THEN Current(f)' ELSE Finished(f)')
  <2>1. DirectOf(f) \subseteq scan.refs[f] /\ f \in Entities /\ f \in Visited
    BY <1>2, <1>23 DEF Walk
  <2>2. DirectOf(f)' \subseteq scan'.refs[f]
    BY <1>12, <1>21, <2>1
  <2>3. CASE f # c
    BY <1>9, <1>13, <2>1, <2>2, <2>3
  <2>4. CASE f = c
    BY <1>9, <1>14, <1>20, <2>2, <2>4
  <2>5. QED  BY <2>3, <2>4
<1>25. \A x \in Blobs : scan'.read[x] = "list" => shape'[x].list
  BY <1>4, <1>9, <1>11 DEF Walk, listed
<1>26. Walk'
  <2>1. /\ scan'.todo \subseteq scan'.rows /\ scan'.entity \in Visited'
        /\ scan'.orphans \intersect Referenced' = {}
    BY <1>2, <1>9, <1>23
  <2>2. QED  BY <1>9, <1>22, <1>24, <1>25, <2>1 DEF Walk, Collecting
<1>27. QED  BY <1>10, <1>26

-----------------------------------------------------------------------------
LEMMA ScanInitInv == ScanInit => ScanInv
<1> SUFFICES ASSUME ScanInit PROVE ScanInv
  OBVIOUS
<1>1. /\ scan.phase = "new" /\ scan.rows = {} /\ scan.todo = {} /\ scan.queue = <<>>
      /\ scan.refs = [e \in Entities |-> {}] /\ scan.read = [b \in Blobs |-> "?"]
      /\ scan.orphans = {}
  BY DEF ScanInit, NoScan
<1>2. <<>> \in Seq(Blobs \X BOOLEAN) /\ NoMedia \in Media
  BY DEF NoMedia, Media
<1>3. media \in [Entities -> Media]
  <2>1. \A r \in Renders : Rendered(r) \in Media
    BY EntitiesAssumption DEF Rendered, Media
  <2>2. QED  BY <1>2, <2>1 DEF ScanInit
<1>4. ScanTypeOK
  BY <1>2, <1>3, ScanBoundsAssumption DEF ScanTypeOK, ScanInit, NoScan
<1>5. Walk
  BY <1>1 DEF Walk, Visited, Sound, Collecting
<1>6. QED  BY <1>4, <1>5 DEF ScanInv

LEMMA ScanStepInv == ScanInv /\ [ScanNext]_scanVars => ScanInv'
<1> SUFFICES ASSUME ScanInv, [ScanNext]_scanVars PROVE ScanInv'
  OBVIOUS
<1>1. CASE \E mode \in {"check", "orphans"} : StartScan(mode)
  BY <1>1, StartScanInv
<1>2. CASE CollectVersions \/ CollectReviews \/ CollectAttachments
  BY <1>2, CollectInv
<1>3. CASE ScanStep
  BY <1>3, LookInv, FollowInv, NextEntityInv, SkipInv, WalkedInv, ListInv, ScanFailsInv DEF ScanStep
<1>4. CASE \/ \E b \in Blobs : Lose(b) \/ Upload(b)
           \/ \E e \in Entities : Publish(e) \/ Unready(e) \/ \E r \in Renders : Save(e, r)
           \/ \E k \in Places : Switch(k)
           \/ UNCHANGED scanVars
  BY <1>4, WorldInv
<1>5. QED  BY <1>1, <1>2, <1>3, <1>4 DEF ScanNext

(* The invariant of the traversal holds in every reachable state.          *)
THEOREM ScanInvariant == ScanSpec => []ScanInv
BY ScanInitInv, ScanStepInv, PTL DEF ScanSpec

(* What the scan collects and the stores hold keep their types.            *)
THEOREM ScanTypes == ScanSpec => []ScanTypeOK
<1>1. ScanInv => ScanTypeOK  BY DEF ScanInv
<1>2. QED  BY ScanInvariant, <1>1, PTL

-----------------------------------------------------------------------------
(* When the scan is over.                                                  *)
LEMMA AllFinished ==
  ASSUME ScanInv, scan.phase = "done", NEW e \in scan.rows
  PROVE  /\ e \in Entities /\ Finished(e)
         /\ DirectOf(e) \subseteq scan.refs[e] /\ Sound(e)
<1>1. e \in Visited /\ e \in Entities /\ scan.queue = <<>>
  BY FieldsTyped DEF ScanInv, Walk, Visited
<1>2. CASE e # scan.entity
  BY <1>1, <1>2 DEF ScanInv, Walk
<1>3. CASE e = scan.entity
  <2>1. BlobsOf(Queue) = {}
    BY <1>1 DEF Queue, Elements, BlobsOf
  <2>2. scan.seen \in SUBSET Blobs
    BY FieldsTyped DEF ScanInv
  <2>3. Current(e)
    BY <1>1, <1>3 DEF ScanInv, Walk
  <2>4. QED  BY <1>1, <2>1, <2>2, <2>3 DEF Current, Finished, ScanInv, Walk
<1>4. QED  BY <1>2, <1>3

(* The traversal came to every list that it did not take for a file.       *)
LEMMA ListsNoted ==
  ASSUME ScanInv, scan.phase = "done", NEW e \in scan.rows,
         NEW root \in RootsOf(e), NEW b \in Reached(root, Legible), b \in Legible
  PROVE  \E required \in BOOLEAN :
           Queued(e, <<b, required>>, Legible) /\ Deps(b) \X {required} \subseteq scan.refs[e]
<1>1. /\ ScanTypeOK /\ e \in Entities /\ root \in Blobs /\ Legible \in SUBSET Blobs
      /\ Reached(root, Legible) \in SUBSET Blobs /\ Closed(root, Legible, Reached(root, Legible))
  BY AllFinished, EntitiesTyped, ReachedLeast, ListSets DEF ScanInv
<1>2. PICK set \in SUBSET Blobs : Noted(e, set) /\ Traced(e, set, {})
  BY AllFinished DEF Finished
<1>3. \A x \in set \intersect Legible : scan.read[x] = "list"
  <2>1. \A x \in set : scan.read[x] \in {"?", "list", "plain"} /\ scan.read[x] # "?"
    BY <1>1, <1>2, FieldsTyped DEF Noted
  <2>2. QED  BY <2>1 DEF Legible
<1>4. Closed(root, Legible, set \intersect Reached(root, Legible))
  <2>1. root \in set \intersect Reached(root, Legible)
    BY <1>1, <1>2 DEF Traced, Closed
  <2>2. ASSUME NEW x \in set \intersect Reached(root, Legible), x \in Legible
        PROVE  ParentsOf(x) \subseteq set \intersect Reached(root, Legible)
    <3>1. ParentsOf(x) \subseteq Reached(root, Legible)
      BY <1>1, <2>2, ParentsReached
    <3>2. QED  BY <1>2, <1>3, <2>2, <3>1 DEF Traced
  <2>3. QED  BY <2>1, <2>2 DEF Closed, ParentsIn
<1>5. Reached(root, Legible) \subseteq set
  BY <1>1, <1>4, ReachedLeast
<1>6. b \in set /\ b \in Blobs /\ scan.read[b] = "list"
  BY <1>1, <1>3, <1>5
<1>7. PICK required \in BOOLEAN :
        Queued(e, <<b, required>>, ReadLists) /\ Deps(b) \X {required} \subseteq scan.refs[e]
  BY <1>2, <1>6 DEF Noted
<1>8. Queued(e, <<b, required>>, Legible)
  BY <1>1, <1>7, ListSets, QueuedGrows
<1>9. QED  BY <1>7, <1>8

LEMMA ChainedNoted ==
  ASSUME ScanInv, scan.phase = "done", NEW e \in scan.rows
  PROVE  NeededBy(e, Legible) \subseteq BlobsOf(scan.refs[e])
<1>1. e \in Entities /\ DirectOf(e) \subseteq scan.refs[e]
  BY AllFinished
<1>2. BlobsOf(DirectOf(e)) \subseteq BlobsOf(scan.refs[e])
  BY <1>1 DEF BlobsOf
<1>3. ASSUME NEW root \in RootsOf(e), NEW l \in Reached(root, Legible), l \in Legible, NEW b \in Deps(l)
      PROVE  b \in BlobsOf(scan.refs[e])
  <2>1. PICK required \in BOOLEAN : Deps(l) \X {required} \subseteq scan.refs[e]
    BY <1>3, ListsNoted
  <2>2. <<b, required>> \in scan.refs[e] /\ <<b, required>>[1] = b
    BY <2>1
  <2>3. QED  BY <2>2 DEF BlobsOf
<1>4. Chained(e, Legible) \subseteq BlobsOf(scan.refs[e])
  BY <1>3 DEF Chained, Named
<1>5. QED  BY <1>2, <1>4 DEF NeededBy

(* A blob that is reported as an orphan is neither among what a row that   *)
(* was there when its kind was fetched refers to, nor among what the lists *)
(* from there need, nor a preview that the row offered as ready then and   *)
(* still offers, whatever is uploaded, published, converted, lost or       *)
(* switched meanwhile.                                                     *)
THEOREM OrphansAreUnneeded == ScanSpec => []OrphansUnneeded
<1>1. ScanInv => OrphansUnneeded
  <2> SUFFICES ASSUME ScanInv, scan.phase = "done", NEW e \in records \intersect scan.rows
               PROVE  /\ scan.orphans \intersect (BlobsOf(Own(e)) \union Chained(e, Legible)) = {}
                      /\ scan.media[e].ready =>
                           scan.orphans \intersect Offered(media[e]) \intersect Offered(scan.media[e]) = {}
    BY DEF OrphansUnneeded
  <2>1. BlobsOf(scan.refs[e]) \subseteq Referenced /\ e \in Entities
    BY AllFinished DEF Referenced
  <2>2. scan.orphans \intersect NeededBy(e, Legible) = {}
    BY <2>1, ChainedNoted DEF ScanInv, Walk
  <2>3. BlobsOf(Own(e)) \subseteq BlobsOf(DirectOf(e))
    BY DEF BlobsOf, DirectOf, Direct
  <2>4. Previews(scan.media[e]) \subseteq BlobsOf(DirectOf(e))
    <3> SUFFICES ASSUME NEW b \in Previews(scan.media[e]) PROVE b \in BlobsOf(DirectOf(e))
      OBVIOUS
    <3>1. <<b, FALSE>> \in DirectOf(e) /\ <<b, FALSE>>[1] = b
      BY DEF DirectOf, Direct
    <3>2. QED  BY <3>1 DEF BlobsOf
  <2>5. scan.media[e].ready => Offered(scan.media[e]) \subseteq Previews(scan.media[e])
    BY <2>1, FieldsTyped, MediaTyped DEF ScanInv
  <2>6. QED  BY <2>2, <2>3, <2>4, <2>5 DEF NeededBy
<1>2. QED  BY ScanInvariant, <1>1, PTL

(* How broken a row is said to be is exact on every set of contents:       *)
(* nothing is reported that the row does not need, and nothing that it     *)
(* needs is overlooked as far as the lists could be read; a blob that the  *)
(* delivered file needs makes it broken unless only lists that the dedup   *)
(* list had already led to name it.                                        *)
THEOREM SeverityIsExact == ScanSpec => []SeverityExact
<1>1. ASSUME ScanInv, scan.phase = "done", NEW e \in scan.rows
      PROVE  /\ Broken(e) => \E b \in Required(e, AllLists) : scan.found[b] = "no"
             /\ Problem(e) => \E b \in NeededBy(e, AllLists) : scan.found[b] = "no"
             /\ (\E b \in NeededBy(e, Legible) : scan.found[b] = "no") => Problem(e)
             /\ (\E b \in RequiredFirst(e, Legible) : scan.found[b] = "no") => Broken(e)
  <2>1. e \in Entities /\ Sound(e) /\ DirectOf(e) \subseteq scan.refs[e]
    BY <1>1, AllFinished
  <2>2. Broken(e) => \E b \in Required(e, AllLists) : scan.found[b] = "no"
    BY <2>1 DEF Broken, Missing, Sound
  <2>3. Problem(e) => \E b \in NeededBy(e, AllLists) : scan.found[b] = "no"
    BY <2>1 DEF Problem, Missing, Sound
  <2>4. ASSUME NEW b \in NeededBy(e, Legible), scan.found[b] = "no" PROVE Problem(e)
    <3>1. b \in BlobsOf(scan.refs[e])
      BY <1>1, <2>4, ChainedNoted
    <3>2. QED  BY <2>4, <3>1 DEF BlobsOf, Problem, Missing
  <2>5. ASSUME NEW b \in RequiredFirst(e, Legible), scan.found[b] = "no" PROVE Broken(e)
    <3>1. <<b, TRUE>> \in scan.refs[e]
      <4>1. CASE b \in Vital(e)
        <5>1. <<b, TRUE>> \in DirectOf(e)
          BY <2>1, <4>1, EntitiesTyped DEF DirectOf, Direct
        <5>2. QED  BY <2>1, <5>1
      <4>2. ASSUME e \in Versions,
                   NEW l \in Reached(Opens[e], Legible) \ Before(e, Legible), l \in Legible, b \in Deps(l)
            PROVE  <<b, TRUE>> \in scan.refs[e]
        <5>1. Opens[e] \in RootsOf(e)
          BY <2>1, <4>2, EntitiesTyped, BlobsAssumption DEF RootsOf
        <5>2. PICK required \in BOOLEAN :
                Queued(e, <<l, required>>, Legible) /\ Deps(l) \X {required} \subseteq scan.refs[e]
          BY <1>1, <4>2, <5>1, ListsNoted
        <5>3. required = TRUE
          BY <4>2, <5>2 DEF Queued, Before
        <5>4. QED  BY <4>2, <5>2, <5>3
      <4>3. QED  BY <4>1, <4>2 DEF RequiredFirst, Named
    <3>2. <<b, TRUE>>[1] = b /\ <<b, TRUE>>[2] = TRUE
      OBVIOUS
    <3>3. QED  BY <2>5, <3>1, <3>2 DEF Broken, Missing
  <2>6. QED  BY <2>2, <2>3, <2>4, <2>5
<1>2. ScanInv => SeverityExact
  BY <1>1 DEF SeverityExact, NeededBy, DirectOf
<1>3. QED  BY ScanInvariant, <1>2, PTL
=============================================================================
