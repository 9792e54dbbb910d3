------------------------------ MODULE AssetLocks ------------------------------
(***************************************************************************)
(* The Redis lock on one asset representation: acquire_lock and            *)
(* release_lock of app/workflow/lock_service.py.  A request handler awaits *)
(* one Redis round-trip after another; between two of them every other     *)
(* handler, in this process or in another replica, may run, and the key    *)
(* may expire.  Keys of different representations share nothing, so one    *)
(* key is modelled.                                                        *)
(*                                                                         *)
(*   acquire_lock   SET key NX EX ttl | GET key | EXPIRE key ttl           *)
(*   release_lock   GET key | DELETE key                                   *)
(*                                                                         *)
(* Time is a count of ticks; TTL ticks stand for LOCK_TTL_SECONDS_DEFAULT. *)
(***************************************************************************)
EXTENDS Naturals

CONSTANTS Sessions,     \* editing sessions, a (user_id, session_id) pair each
          NoSession,    \* owner of an absent key
          Handlers,     \* request handlers running at the same time
          TTL,          \* ticks an unrefreshed key lives
          RedisFails    \* whether a Redis call may raise

ASSUME SessionsAssumption == NoSession \notin Sessions
ASSUME TTLAssumption == TTL \in Nat \ {0}
ASSUME RedisFailsAssumption == RedisFails \in BOOLEAN

VARIABLES
  lock,       \* the Redis key: its owner and the ticks left before it expires
  req,        \* per handler: the call it serves and the Redis call it awaits next
  answer,     \* per handler: how its last call ended
  lease,      \* per session: ticks for which its last 200 from acquire still
              \* promises it the lock (reset by its own release)
  overtaken,  \* handlers whose key was removed since they read it as their own
  tainted     \* whether an overtaken handler ever wrote

vars == <<lock, req, answer, lease, overtaken, tainted>>

Free == [owner |-> NoSession, left |-> 0]
Idle == [phase |-> "idle", session |-> NoSession]

Phases == {"idle", "set", "get", "expire", "look", "delete"}
Answers == {"none", "ok", "heldByOther", "unavailable", "notFound", "notOwned"}

TypeOK ==
  /\ lock \in [owner : Sessions \union {NoSession}, left : 0..TTL]
  /\ req \in [Handlers -> [phase : Phases, session : Sessions \union {NoSession}]]
  /\ answer \in [Handlers -> Answers]
  /\ lease \in [Sessions -> 0..TTL]
  /\ overtaken \subseteq Handlers
  /\ tainted \in BOOLEAN

Init ==
  /\ lock = Free
  /\ req = [h \in Handlers |-> Idle]
  /\ answer = [h \in Handlers |-> "none"]
  /\ lease = [s \in Sessions |-> 0]
  /\ overtaken = {}
  /\ tainted = FALSE

Held == lock.owner # NoSession

(* Handlers that read their own session as the owner and have not yet      *)
(* acted on it.                                                            *)
Window == {h \in Handlers : req[h].phase \in {"expire", "delete"}}

(* Handler h answers its client.                                           *)
Finish(h, a) ==
  /\ req' = [req EXCEPT ![h] = Idle]
  /\ answer' = [answer EXCEPT ![h] = a]

(* Handler h goes on to its next Redis call.                               *)
Await(h, phase) ==
  /\ req' = [req EXCEPT ![h].phase = phase]
  /\ UNCHANGED answer

-----------------------------------------------------------------------------
(* POST /locks/acquire and POST /locks/release reach the service.  From    *)
(* its release request on, a session no longer counts on the lock.         *)
StartAcquire(h, s) ==
  /\ req[h].phase = "idle"
  /\ req' = [req EXCEPT ![h] = [phase |-> "set", session |-> s]]
  /\ answer' = [answer EXCEPT ![h] = "none"]
  /\ UNCHANGED <<lock, lease, overtaken, tainted>>

StartRelease(h, s) ==
  /\ req[h].phase = "idle"
  /\ req' = [req EXCEPT ![h] = [phase |-> "look", session |-> s]]
  /\ answer' = [answer EXCEPT ![h] = "none"]
  /\ lease' = [lease EXCEPT ![s] = 0]
  /\ UNCHANGED <<lock, overtaken, tainted>>

(* Redis applied the last command of the call: 200 with the lock promised  *)
(* as in leases, or 503 when the reply was lost on its way back.           *)
Replied(h, leases) ==
  \/ lease' = leases /\ Finish(h, "ok")
  \/ RedisFails /\ UNCHANGED lease /\ Finish(h, "unavailable")

Promise(h) == [lease EXCEPT ![req[h].session] = TTL]

(* Handler h wrote to the key on the strength of its earlier GET.          *)
Acted(h) == tainted' = (tainted \/ h \in overtaken)

(* SET key NX EX ttl.  On an absent key it creates the lock and the call   *)
(* is over; on a key that exists the owner is looked up next.              *)
AcquireSetWithoutNX(h) ==
  /\ req[h].phase = "set"
  /\ lock' = [owner |-> req[h].session, left |-> TTL]
  /\ Replied(h, Promise(h))
  /\ UNCHANGED <<overtaken, tainted>>

AcquireSet(h) ==
  /\ req[h].phase = "set"
  /\ \/ /\ ~Held
        /\ lock' = [owner |-> req[h].session, left |-> TTL]
        /\ Replied(h, Promise(h))
     \/ /\ Held
        /\ Await(h, "get")
        /\ UNCHANGED <<lock, lease>>
  /\ UNCHANGED <<overtaken, tainted>>

(* GET key of acquire_lock.  An absent key (it expired or was released     *)
(* since the SET) is reported as LockUnavailable.                          *)
AcquireGet(h) ==
  /\ req[h].phase = "get"
  /\ \/ /\ ~Held
        /\ Finish(h, "unavailable")
     \/ /\ Held
        /\ lock.owner = req[h].session
        /\ Await(h, "expire")
     \/ /\ Held
        /\ lock.owner # req[h].session
        /\ Finish(h, "heldByOther")
  /\ UNCHANGED <<lock, lease, overtaken, tainted>>

(* EXPIRE key ttl: whatever lock is under the key now lives TTL ticks more *)
(* (an absent key stays absent; the reply is not looked at), and the       *)
(* caller is told that it holds the lock.                                  *)

AcquireExpire(h) ==
  /\ req[h].phase = "expire"
  /\ lock' = IF Held THEN [lock EXCEPT !.left = TTL] ELSE lock
  /\ Replied(h, Promise(h))
  /\ Acted(h)
  /\ overtaken' = overtaken \ {h}

(* GET key of release_lock, with the owner check.                          *)
ReleaseGetAnyOwner(h) ==
  /\ req[h].phase = "look"
  /\ IF Held THEN Await(h, "delete") ELSE Finish(h, "notFound")
  /\ UNCHANGED <<lock, lease, overtaken, tainted>>

ReleaseGet(h) ==
  /\ req[h].phase = "look"
  /\ \/ /\ ~Held
        /\ Finish(h, "notFound")
     \/ /\ Held
        /\ lock.owner # req[h].session
        /\ Finish(h, "notOwned")
     \/ /\ Held
        /\ lock.owner = req[h].session
        /\ Await(h, "delete")
  /\ UNCHANGED <<lock, lease, overtaken, tainted>>

(* DELETE key: whatever lock is under the key now is gone.                 *)
ReleaseDelete(h) ==
  /\ req[h].phase = "delete"
  /\ lock' = Free
  /\ lease' = [lease EXCEPT ![req[h].session] = 0]
  /\ \/ Finish(h, "ok")
     \/ RedisFails /\ Finish(h, "unavailable")
  /\ Acted(h)
  /\ overtaken' = (IF Held THEN overtaken \union Window ELSE overtaken) \ {h}

(* A Redis call raises before it took effect: 503, nothing changed.        *)
RedisError(h) ==
  /\ RedisFails
  /\ req[h].phase # "idle"
  /\ Finish(h, "unavailable")
  /\ overtaken' = overtaken \ {h}
  /\ UNCHANGED <<lock, lease, tainted>>

(* A tick of the clock.  Redis drops the key when its time is up.          *)
TickWithoutExpiry ==
  /\ Held
  /\ lock' = lock
  /\ lease' = [s \in Sessions |-> IF lease[s] = 0 THEN 0 ELSE lease[s] - 1]
  /\ UNCHANGED <<req, answer, overtaken, tainted>>

Tick ==
  /\ Held \/ \E s \in Sessions : lease[s] > 0
  /\ lock' = IF lock.left <= 1 THEN Free ELSE [lock EXCEPT !.left = @ - 1]
  /\ lease' = [s \in Sessions |-> IF lease[s] = 0 THEN 0 ELSE lease[s] - 1]
  /\ overtaken' = IF Held /\ lock.left = 1 THEN overtaken \union Window ELSE overtaken
  /\ UNCHANGED <<req, answer, tainted>>

HandlerStep(h) ==
  \/ AcquireSet(h) \/ AcquireGet(h) \/ AcquireExpire(h)
  \/ ReleaseGet(h) \/ ReleaseDelete(h)

Next ==
  \/ \E h \in Handlers, s \in Sessions : StartAcquire(h, s) \/ StartRelease(h, s)
  \/ \E h \in Handlers : HandlerStep(h) \/ RedisError(h)
  \/ Tick

Spec == Init /\ [][Next]_vars

(* The event loop resumes every handler whose round-trip completed, and    *)
(* the Redis clock does not stop; nothing obliges clients to send.         *)
FairSpec ==
  /\ Spec
  /\ \A h \in Handlers : WF_vars(HandlerStep(h))
  /\ WF_vars(Tick)

-----------------------------------------------------------------------------
(* A handler about to refresh or delete still works on its own session's   *)
(* lock, unless the key was removed after it read it.                      *)
WindowOwned ==
  \A h \in Window \ overtaken : req[h].session = lock.owner

(* A session told by acquire that it holds the lock does hold it for TTL   *)
(* ticks, so no two sessions hold it at once.  Only a write of a handler   *)
(* whose key went away between its GET and that write takes this away: the *)
(* check and the write in lock_service.py are two commands.                *)
LeaseHonoured ==
  ~tainted => \A s \in Sessions :
                lease[s] > 0 => lock.owner = s /\ lease[s] <= lock.left

(* The lock of a session that went silent is eventually free for others.   *)
Silent(s) == \A h \in Handlers : req[h].session # s
SilentSessionLosesLock ==
  \A s \in Sessions : <>[]Silent(s) => []<>(lock.owner # s)

-----------------------------------------------------------------------------
AcquirePhases == {"set", "get", "expire"}
ReleasePhases == {"look", "delete"}
InPhase(phases) == {s \in Sessions : \E h \in Handlers : req[h].phase \in phases
                                                         /\ req[h].session = s}

Lease == INSTANCE LeaseLock WITH
           holder <- lock.owner, left <- lock.left,
           acquiring <- InPhase(AcquirePhases), releasing <- InPhase(ReleasePhases)

(* Every step is an indivisible operation of LeaseLock, or none, except    *)
(* the write of a handler whose key was removed after it read it: that     *)
(* interleaving is the only way in which the check-then-act of             *)
(* lock_service.py differs from an atomic lock.                            *)
OvertakenWait == \A h \in overtaken : req'[h] = req[h]
OnlyOvertakenDeviate ==
  /\ Lease!Init
  /\ [][OvertakenWait => [Lease!Next]_(Lease!leaseVars)]_vars

(* The runs of the system in which nobody is ever overtaken.               *)
UndisturbedNext == Next /\ overtaken' = {}
UndisturbedSpec == Init /\ [][UndisturbedNext]_vars
LeaseLockSpec == Lease!Spec
=============================================================================
