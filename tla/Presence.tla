-------------------------------- MODULE Presence --------------------------------
(***************************************************************************)
(* Who is there (app/workflow/presence_service.py): the sessions of a user *)
(* beat, each with a key that expires and an entry in the user's index; a  *)
(* listing reads the index and the keys and removes from the index what    *)
(* has no key.  Every Redis command is a step, and may fail with or        *)
(* without having taken effect.                                            *)
(***************************************************************************)
EXTENDS Naturals

CONSTANTS
  UserSessions,
  AssetSessions,  \* those whose heartbeats name an asset
  Listings,  \* concurrent GET /presence/sessions
  KeyLife        \* life of a key, in ticks

ASSUME AssetSessionsAssumption == AssetSessions \subseteq UserSessions
ASSUME KeyLifeAssumption == KeyLife \in Nat \ {0}

VARIABLES
  left,     \* per session: ticks until its key expires (0: no key)
  index,    \* presence_index
  onAsset,  \* asset_presence: it is never removed from and does not expire
  beat,     \* per session: the next command of its heartbeat
  listing,  \* per listing: its next command and its local variables
  active,   \* sessions that have had a key since they were put in the index
            \* while no listing held them for gone
  steady    \* per listing that runs: sessions active since it started

presenceVars == <<left, index, onAsset, beat, listing, active, steady>>

NoListing == [phase |-> "new", todo |-> {}, stale |-> {}, results |-> {}]

PresenceTypeOK ==
  /\ left \in [UserSessions -> 0..KeyLife]
  /\ index \subseteq UserSessions /\ onAsset \subseteq UserSessions /\ active \subseteq UserSessions
  /\ beat \in [UserSessions -> {"idle", "set", "index", "asset"}]
  /\ listing \in [Listings -> [phase : {"new", "get", "done"}, todo : SUBSET UserSessions,
                               stale : SUBSET UserSessions, results : SUBSET UserSessions]]
  /\ steady \in [Listings -> SUBSET UserSessions]

PresenceInit ==
  /\ left = [s \in UserSessions |-> 0]
  /\ index = {} /\ onAsset = {} /\ active = {}
  /\ beat = [s \in UserSessions |-> "idle"]
  /\ listing = [l \in Listings |-> NoListing]
  /\ steady = [l \in Listings |-> {}]

-----------------------------------------------------------------------------
(* heartbeat: SET with a time to live, SADD to the index, with an asset    *)
(* SADD to its set.  Any of them may raise, done or not: 503, and the rest *)
(* is left out.                                                            *)
Goto(s, command) == beat' = [beat EXCEPT ![s] = command]

Beat(s) ==
  /\ beat[s] = "idle"
  /\ Goto(s, "set")
  /\ UNCHANGED <<left, index, onAsset, listing, active, steady>>

SetKey(s) ==
  /\ beat[s] = "set"
  /\ left' = [left EXCEPT ![s] = KeyLife]
  /\ Goto(s, "index") \/ Goto(s, "idle")
  /\ UNCHANGED <<index, onAsset, listing, active, steady>>

(* A listing that still runs found no key for the session: it removes the  *)
(* session from the index, also when the session beats before it does.     *)
HeldForGone(s) == \E l \in Listings : s \in listing[l].stale

Index(s) ==
  /\ beat[s] = "index"
  /\ index' = index \union {s}
  /\ active' = IF left[s] > 0 /\ ~HeldForGone(s) THEN active \union {s} ELSE active
  /\ (s \in AssetSessions /\ Goto(s, "asset")) \/ Goto(s, "idle")
  /\ UNCHANGED <<left, onAsset, listing, steady>>

JoinAsset(s) ==
  /\ beat[s] = "asset"
  /\ onAsset' = onAsset \union {s}
  /\ Goto(s, "idle")
  /\ UNCHANGED <<left, index, listing, active, steady>>

BeatFails(s) ==
  /\ beat[s] # "idle"
  /\ Goto(s, "idle")
  /\ UNCHANGED <<left, index, onAsset, listing, active, steady>>

-----------------------------------------------------------------------------
(* list_sessions: SMEMBERS, a GET for each, SREM of those without a key.   *)
(* Any of them may raise, the SREM done or not: 503, and the caller may    *)
(* ask again.                                                              *)
Members(l) ==
  /\ listing[l].phase # "get"
  /\ listing' = [listing EXCEPT ![l] = [NoListing EXCEPT !.phase = "get", !.todo = index]]
  /\ steady' = [steady EXCEPT ![l] = active]
  /\ UNCHANGED <<left, index, onAsset, beat, active>>

Looked(l, s) ==
  IF left[s] = 0 THEN [listing[l] EXCEPT !.todo = @ \ {s}, !.stale = @ \union {s}]
                 ELSE [listing[l] EXCEPT !.todo = @ \ {s}, !.results = @ \union {s}]

Get(l, s) ==
  /\ listing[l].phase = "get" /\ s \in listing[l].todo
  /\ listing' = [listing EXCEPT ![l] = Looked(l, s)]
  /\ UNCHANGED <<left, index, onAsset, beat, active, steady>>

RemovedAll(l) == IF listing[l].stale = {} THEN {} ELSE index
Removed(l) == listing[l].stale

Clean(l) ==
  /\ listing[l].phase = "get" /\ listing[l].todo = {}
  /\ index' = index \ Removed(l)
  /\ \E answer \in {"done", "new"} : listing' = [listing EXCEPT ![l] = [NoListing EXCEPT !.phase = answer]]
  /\ steady' = [steady EXCEPT ![l] = {}]
  /\ UNCHANGED <<left, onAsset, beat, active>>

ListingFails(l) ==
  /\ listing[l].phase = "get"
  /\ listing' = [listing EXCEPT ![l] = NoListing]
  /\ steady' = [steady EXCEPT ![l] = {}]
  /\ UNCHANGED <<left, index, onAsset, beat, active>>

(* Time passes.                                                            *)
KeysAge ==
  /\ left' = [s \in UserSessions |-> IF left[s] > 0 THEN left[s] - 1 ELSE 0]
  /\ active' = {s \in active : left[s] > 1}
  /\ steady' = [l \in Listings |-> {s \in steady[l] : left[s] > 1}]
  /\ UNCHANGED <<index, onAsset, beat, listing>>

PresenceNext ==
  \/ \E s \in UserSessions : Beat(s) \/ SetKey(s) \/ Index(s) \/ JoinAsset(s) \/ BeatFails(s)
  \/ \E l \in Listings :
       (\E s \in UserSessions : Get(l, s)) \/ Members(l) \/ Clean(l) \/ ListingFails(l)
  \/ KeysAge

PresenceSpec == PresenceInit /\ [][PresenceNext]_presenceVars

-----------------------------------------------------------------------------
(* A listing names every session that was active from its start to its     *)
(* end, whatever other listings remove meanwhile: only a heartbeat that    *)
(* comes back while a listing holds the session for gone may be lost, and  *)
(* the first one after that listing counts again.                          *)
ActiveListed ==
  [][\A l \in Listings : listing[l].phase = "get" /\ listing'[l].phase = "done" =>
       steady[l] \subseteq listing[l].results]_presenceVars

(* No listing takes an active session out of the index.                    *)
ActiveIndexed == active \subseteq index
=============================================================================
