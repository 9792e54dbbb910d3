----------------------------- MODULE SettingsCache -----------------------------
(***************************************************************************)
(* The settings documents in MongoDB and the copy that each process keeps  *)
(* of them for a while (app/settings/store.py).  One document; project     *)
(* settings are kept in the same way.                                      *)
(*                                                                         *)
(* The store is synchronous: on the event loop a call runs to its end      *)
(* before any other handler of the process moves.  Only worker threads     *)
(* (review processing stores its files from them) run between the steps of *)
(* a call on the loop, and processes of course between those of another.   *)
(* Time passes during a call.                                              *)
(***************************************************************************)
EXTENDS Naturals

CONSTANTS
  Procs,
  Readers, ProcOf,   \* calls of get_global_settings and where they run
  Threads,           \* those in a worker thread
  Values, NoValue,
  TTL,               \* ttl_seconds, in ticks
  MaxWrites          \* bound: settings saved in a behaviour

ASSUME TTLAssumption == TTL \in Nat \ {0}
ASSUME ReadersAssumption == ProcOf \in [Readers -> Procs] /\ Threads \subseteq Readers
ASSUME ValuesAssumption == NoValue \notin Values
ASSUME WritesAssumption == MaxWrites \in Nat

VARIABLES
  doc,      \* the saved document
  age,      \* per value: ticks since it was the saved one, up to TTL
  cache,    \* per process: _cache_global, ticks until it expires (0: no entry)
  writing,  \* per process: what its upsert is about to save
  look,     \* per call: what it read, how long ago, whether it has returned
  writes

settings == <<doc, age, cache, writing, look, writes>>

Idle == [stage |-> "idle", value |-> NoValue, spent |-> 0]

SettingsTypeOK ==
  /\ doc \in Values
  /\ age \in [Values -> 0..TTL]
  /\ cache \in [Procs -> [value : Values, left : 0..TTL]]
  /\ writing \in [Procs -> Values \union {NoValue}]
  /\ look \in [Readers -> {Idle} \union [stage : {"fetched", "back"}, value : Values, spent : 0..TTL]]
  /\ writes \in 0..MaxWrites

SettingsInit ==
  /\ doc \in Values
  /\ age = [v \in Values |-> IF v = doc THEN 0 ELSE TTL]
  /\ cache = [p \in Procs |-> [value |-> doc, left |-> 0]]
  /\ writing = [p \in Procs |-> NoValue]
  /\ look = [r \in Readers |-> Idle]
  /\ writes = 0

(* What runs on the loop of a process finds no other call there half done. *)
LoopFree(p) ==
  /\ writing[p] = NoValue
  /\ \A q \in Readers \ Threads : ProcOf[q] = p => look[q].stage # "fetched"
MayRun(r) == r \in Threads \/ LoopFree(ProcOf[r])

Returned(r, value) == [look EXCEPT ![r] = [stage |-> "back", value |-> value, spent |-> 0]]

-----------------------------------------------------------------------------
(* get_global_settings: an entry that has not expired is the answer.       *)
Hit(r) ==
  /\ look[r] = Idle /\ MayRun(r)
  /\ cache[ProcOf[r]].left > 0
  /\ look' = Returned(r, cache[ProcOf[r]].value)
  /\ UNCHANGED <<doc, age, cache, writing, writes>>

(* Otherwise the document is read, the clock having been looked at before. *)
Fetch(r) ==
  /\ look[r] = Idle /\ MayRun(r)
  /\ cache[ProcOf[r]].left = 0
  /\ look' = [look EXCEPT ![r] = [stage |-> "fetched", value |-> doc, spent |-> 0]]
  /\ UNCHANGED <<doc, age, cache, writing, writes>>

(* expires_at counts from that look at the clock.                          *)
KeepFromNow(r) ==
  /\ look[r].stage = "fetched"
  /\ cache' = [cache EXCEPT ![ProcOf[r]] = [value |-> look[r].value, left |-> TTL]]
  /\ look' = Returned(r, look[r].value)
  /\ UNCHANGED <<doc, age, writing, writes>>

KeepEntry(r) ==
  /\ look[r].stage = "fetched"
  /\ cache' = [cache EXCEPT ![ProcOf[r]] = [value |-> look[r].value, left |-> TTL - look[r].spent]]
  /\ look' = Returned(r, look[r].value)
  /\ UNCHANGED <<doc, age, writing, writes>>

(* MongoDB cannot be reached: the caller of a lookup falls back to the     *)
(* environment's value.                                                    *)
FetchFails(r, fallback) ==
  /\ look[r] = Idle /\ MayRun(r)
  /\ cache[ProcOf[r]].left = 0
  /\ look' = Returned(r, fallback)
  /\ UNCHANGED <<doc, age, cache, writing, writes>>

(* upsert_global_settings: the entry is dropped, then the document saved.  *)
DropEntry(p, value) ==
  /\ LoopFree(p)
  /\ writes < MaxWrites
  /\ writes' = writes + 1
  /\ writing' = [writing EXCEPT ![p] = value]
  /\ cache' = [cache EXCEPT ![p].left = 0]
  /\ UNCHANGED <<doc, age, look>>

SaveDocument(p) ==
  /\ writing[p] # NoValue
  /\ writing' = [writing EXCEPT ![p] = NoValue]
  /\ \/ doc' = writing[p] /\ age' = [age EXCEPT ![writing[p]] = 0]
     \/ UNCHANGED <<doc, age>>
  /\ UNCHANGED <<cache, look, writes>>

(* Time passes: entries expire, a document read gets older.                *)
UpTo(n) == IF n < TTL THEN n + 1 ELSE TTL

Tick ==
  /\ age' = [v \in Values |-> IF v = doc THEN 0 ELSE UpTo(age[v])]
  /\ cache' = [p \in Procs |-> [cache[p] EXCEPT !.left = IF @ > 0 THEN @ - 1 ELSE 0]]
  /\ look' = [r \in Readers |-> IF look[r].stage = "fetched"
                                  THEN [look[r] EXCEPT !.spent = UpTo(@)] ELSE look[r]]
  /\ UNCHANGED <<doc, writing, writes>>

(* A process that dies takes its entry with it.                            *)
Restarted(p) ==
  /\ cache' = [cache EXCEPT ![p].left = 0]
  /\ writing' = [writing EXCEPT ![p] = NoValue]

SettingsNext ==
  \/ \E r \in Readers : Hit(r) \/ Fetch(r) \/ KeepEntry(r) \/ \E v \in Values : FetchFails(r, v)
  \/ \E p \in Procs : SaveDocument(p) \/ \E v \in Values : DropEntry(p, v)
  \/ Tick

SettingsSpec == SettingsInit /\ [][SettingsNext]_settings

-----------------------------------------------------------------------------
(* Whatever is saved meanwhile and by whom, an entry that is served was    *)
(* the saved document less than TTL ago, and less ago by what is left of   *)
(* its time.                                                               *)
BoundedStaleness ==
  \A p \in Procs : cache[p].left > 0 => age[cache[p].value] + cache[p].left <= TTL
=============================================================================
