-------------------------- MODULE Workflow_proofs ---------------------------
(***************************************************************************)
(* Theorems about AssetLocks and Presence, for any sessions, handlers,     *)
(* listings and lifetimes.                                                 *)
(*                                                                         *)
(* AssetLocks: what the two-command handlers keep of the lock's promise    *)
(* when they interleave in any order, and that they implement LeaseLock    *)
(* as long as no handler is overtaken.  Presence: no listing misses a      *)
(* session that stays active.                                              *)
(***************************************************************************)
EXTENDS AssetLocks, Presence, TLAPS

(* A free key has no time left, and a handler that works has a session.    *)
Shape ==
  /\ lock.owner = NoSession <=> lock.left = 0
  /\ \A h \in Handlers : req[h].phase # "idle" => req[h].session \in Sessions

Inv == TypeOK /\ Shape /\ WindowOwned /\ LeaseHonoured

LEMMA InitInv == Init => Inv
<1> SUFFICES ASSUME Init PROVE Inv
  OBVIOUS
<1> USE TTLAssumption, SessionsAssumption DEF Init, Free, Idle
<1>1. TypeOK
  <2>1. tainted \in BOOLEAN
    OBVIOUS
  <2>2. lock \in [owner : Sessions \union {NoSession}, left : 0..TTL]
    OBVIOUS
  <2> QED
    BY <2>1, <2>2 DEF TypeOK, Phases, Answers
<1>2. Shape /\ WindowOwned /\ LeaseHonoured
  BY DEF Shape, WindowOwned, LeaseHonoured, Window
<1> QED
  BY <1>1, <1>2 DEF Inv

(* One lemma for each action that writes.                                  *)
LEMMA StartInv ==
  ASSUME Inv, NEW h \in Handlers, NEW s \in Sessions,
         StartAcquire(h, s) \/ StartRelease(h, s)
  PROVE  Inv'
<1> USE TTLAssumption, SessionsAssumption DEF Inv, TypeOK, Phases, Answers
<1>1. TypeOK'
  BY DEF StartAcquire, StartRelease
<1>2. Shape'
  BY DEF StartAcquire, StartRelease, Shape
<1>3. WindowOwned'
  BY DEF StartAcquire, StartRelease, WindowOwned, Window
<1>4. LeaseHonoured'
  BY DEF StartAcquire, StartRelease, LeaseHonoured
<1> QED
  BY <1>1, <1>2, <1>3, <1>4

LEMMA AcquireSetInv ==
  ASSUME Inv, NEW h \in Handlers, AcquireSet(h)
  PROVE  Inv'
<1> USE TTLAssumption, SessionsAssumption, RedisFailsAssumption DEF Inv, TypeOK, Phases, Answers
<1> USE DEF AcquireSet, Finish, Await, Replied, Promise, Held, Idle
<1>0. req[h].session \in Sessions
  BY DEF Shape
<1>1. TypeOK'
  BY <1>0, SMTT(30)
<1>2. Shape'
  BY <1>0 DEF Shape
<1>3. WindowOwned'
  <2>1. CASE ~Held
    <3>1. Window \subseteq overtaken
      BY <2>1 DEF WindowOwned, Window, Shape
    <3>2. Window' \subseteq Window /\ overtaken' = overtaken
      BY <1>0, <2>1 DEF Window
    <3> QED
      BY <3>1, <3>2 DEF WindowOwned
  <2>2. CASE Held
    BY <1>0, <2>2 DEF WindowOwned, Window
  <2> QED
    BY <2>1, <2>2
<1>4. LeaseHonoured'
  BY <1>0 DEF LeaseHonoured
<1> QED
  BY <1>1, <1>2, <1>3, <1>4

LEMMA ReadInv ==
  ASSUME Inv, NEW h \in Handlers, AcquireGet(h) \/ ReleaseGet(h)
  PROVE  Inv'
<1> USE TTLAssumption, SessionsAssumption DEF Inv, TypeOK, Phases, Answers
<1> USE DEF AcquireGet, ReleaseGet, Finish, Await, Held, Idle
<1>1. TypeOK'
  OBVIOUS
<1>2. Shape'
  BY DEF Shape
<1>3. WindowOwned'
  BY DEF WindowOwned, Window
<1>4. LeaseHonoured'
  BY DEF LeaseHonoured
<1> QED
  BY <1>1, <1>2, <1>3, <1>4

LEMMA AcquireExpireInv ==
  ASSUME Inv, NEW h \in Handlers, AcquireExpire(h)
  PROVE  Inv'
<1> USE TTLAssumption, SessionsAssumption, RedisFailsAssumption DEF Inv, TypeOK, Phases, Answers
<1> USE DEF AcquireExpire, Finish, Replied, Promise, Acted, Held, Idle
<1>0. req[h].session \in Sessions
  BY DEF Shape
<1>1. TypeOK'
  <2>1. lock' \in [owner : Sessions \union {NoSession}, left : 0..TTL]
    OBVIOUS
  <2>2. req' \in [Handlers -> [phase : Phases, session : Sessions \union {NoSession}]]
    BY <1>0
  <2>3. answer' \in [Handlers -> Answers]
    OBVIOUS
  <2>4. lease' \in [Sessions -> 0..TTL]
    <3>1. Promise(h) \in [Sessions -> 0..TTL]
      BY <1>0
    <3>2. lease' = Promise(h) \/ lease' = lease
      BY Zenon
    <3> QED
      BY <3>1, <3>2
  <2>5. tainted' \in BOOLEAN
    BY Zenon
  <2> QED
    BY <2>1, <2>2, <2>3, <2>4, <2>5
<1>2. Shape'
  BY <1>0 DEF Shape
<1>3. WindowOwned'
  BY <1>0 DEF WindowOwned, Window
<1>4. LeaseHonoured'
  <2>1. CASE h \in overtaken
    BY <2>1 DEF LeaseHonoured
  <2>2. CASE h \notin overtaken
    <3>1. lock.owner = req[h].session
      BY <2>2 DEF WindowOwned, Window
    <3> QED
      BY <1>0, <2>2, <3>1 DEF LeaseHonoured
  <2> QED
    BY <2>1, <2>2
<1> QED
  BY <1>1, <1>2, <1>3, <1>4

LEMMA ReleaseDeleteInv ==
  ASSUME Inv, NEW h \in Handlers, ReleaseDelete(h)
  PROVE  Inv'
<1> USE TTLAssumption, SessionsAssumption, RedisFailsAssumption DEF Inv, TypeOK, Phases, Answers
<1> USE DEF ReleaseDelete, Finish, Acted, Held, Idle, Free
<1>0. req[h].session \in Sessions
  BY DEF Shape
<1>1. TypeOK'
  <2>1. lock' \in [owner : Sessions \union {NoSession}, left : 0..TTL]
    OBVIOUS
  <2>2. req' \in [Handlers -> [phase : Phases, session : Sessions \union {NoSession}]]
    BY <1>0
  <2>3. answer' \in [Handlers -> Answers] /\ lease' \in [Sessions -> 0..TTL]
    BY <1>0
  <2>4. tainted' \in BOOLEAN
    BY Zenon
  <2>5. overtaken' \subseteq Handlers
    BY DEF Window
  <2> QED
    BY <2>1, <2>2, <2>3, <2>4, <2>5
<1>2. Shape'
  BY <1>0 DEF Shape
<1>3. WindowOwned'
  BY <1>0 DEF WindowOwned, Window, Shape
<1>4. LeaseHonoured'
  <2>1. CASE h \in overtaken
    BY <2>1 DEF LeaseHonoured
  <2>2. CASE h \notin overtaken
    <3>1. lock.owner = req[h].session
      BY <2>2 DEF WindowOwned, Window
    <3> QED
      BY <1>0, <2>2, <3>1 DEF LeaseHonoured
  <2> QED
    BY <2>1, <2>2
<1> QED
  BY <1>1, <1>2, <1>3, <1>4

LEMMA RedisErrorInv ==
  ASSUME Inv, NEW h \in Handlers, RedisError(h)
  PROVE  Inv'
<1> USE TTLAssumption, SessionsAssumption DEF Inv, TypeOK, Phases, Answers
<1> USE DEF RedisError, Finish, Idle
<1>1. TypeOK'
  OBVIOUS
<1>2. Shape' /\ WindowOwned' /\ LeaseHonoured'
  BY DEF Shape, WindowOwned, Window, LeaseHonoured
<1> QED
  BY <1>1, <1>2

LEMMA TickKeepsOwner ==
  ASSUME Inv, Tick, Held, lock.left # 1
  PROVE  lock'.owner = lock.owner
<1>1. lock.left > 1
  <2>1. lock.left \in Nat /\ lock.left > 0
    BY TTLAssumption DEF Inv, TypeOK, Shape, Held
  <2> QED
    BY <2>1
<1>2. lock \in [owner : Sessions \union {NoSession}, left : 0..TTL]
  BY DEF Inv, TypeOK
<1>3. lock' = [lock EXCEPT !.left = lock.left - 1]
  BY <1>1, <1>2 DEF Tick
<1> QED
  BY <1>2, <1>3

LEMMA TickInv ==
  ASSUME Inv, Tick
  PROVE  Inv'
<1> USE TTLAssumption, SessionsAssumption DEF Inv, TypeOK, Phases, Answers
<1> USE DEF Tick, Held, Free
<1>1. TypeOK'
  BY DEF Window
<1>2. Shape'
  BY DEF Shape
<1>3. WindowOwned'
  <2>1. CASE Held /\ lock.left = 1
    BY <2>1 DEF WindowOwned, Window
  <2>2. CASE Held /\ lock.left # 1
    <3>1. lock'.owner = lock.owner
      BY <2>2, TickKeepsOwner
    <3> QED
      BY <2>2, <3>1 DEF WindowOwned, Window
  <2>3. CASE ~Held
    <3>1. lock'.owner = lock.owner
      BY <2>3 DEF Shape
    <3> QED
      BY <2>3, <3>1 DEF WindowOwned, Window
  <2> QED
    BY <2>1, <2>2, <2>3
<1>4. LeaseHonoured'
  BY DEF LeaseHonoured, Shape
<1> QED
  BY <1>1, <1>2, <1>3, <1>4

LEMMA NextInv == Inv /\ [Next]_vars => Inv'
<1> SUFFICES ASSUME Inv, [Next]_vars PROVE Inv'
  OBVIOUS
<1>1. CASE \E h \in Handlers, s \in Sessions : StartAcquire(h, s) \/ StartRelease(h, s)
  BY <1>1, StartInv
<1>2. CASE \E h \in Handlers : HandlerStep(h)
  BY <1>2, AcquireSetInv, ReadInv, AcquireExpireInv, ReleaseDeleteInv DEF HandlerStep
<1>3. CASE \E h \in Handlers : RedisError(h)
  BY <1>3, RedisErrorInv
<1>4. CASE Tick
  BY <1>4, TickInv
<1>5. CASE UNCHANGED vars
  BY <1>5 DEF vars, Inv, TypeOK, Shape, WindowOwned, Window, LeaseHonoured
<1> QED
  BY <1>1, <1>2, <1>3, <1>4, <1>5 DEF Next

(* The invariant holds in every reachable state.                           *)
THEOREM Invariance == Spec => []Inv
BY InitInv, NextInv, PTL DEF Spec

(* Every reachable state has the declared types.                           *)
THEOREM TypeCorrect == Spec => []TypeOK
<1>1. Inv => TypeOK
  BY DEF Inv
<1> QED
  BY <1>1, Invariance, PTL

(* A session that was promised the lock holds it until the promise runs    *)
(* out, whatever the interleaving, unless an overtaken handler wrote.      *)
THEOREM LeasesHonoured == Spec => []LeaseHonoured
<1>1. Inv => LeaseHonoured
  BY DEF Inv
<1> QED
  BY <1>1, Invariance, PTL

(* The owner a handler read is still the owner when it writes, unless the  *)
(* key was removed in between.                                             *)
THEOREM WindowsOwned == Spec => []WindowOwned
<1>1. Inv => WindowOwned
  BY DEF Inv
<1> QED
  BY <1>1, Invariance, PTL

(* Mutual exclusion of editing sessions, the reason for the lock.          *)
MutualExclusion ==
  ~tainted => \A s, t \in Sessions : lease[s] > 0 /\ lease[t] > 0 => s = t

(* At most one session works under a promise of the lock.                  *)
THEOREM Exclusive == Spec => []MutualExclusion
<1>1. Inv => MutualExclusion
  BY DEF Inv, LeaseHonoured, MutualExclusion
<1> QED
  BY <1>1, Invariance, PTL
-----------------------------------------------------------------------------
(* Refinement.  How the sets of asking sessions change when only handler h *)
(* moves: a session leaves a set at most when its own handler leaves it.   *)
LEMMA InPhaseStep ==
  ASSUME TypeOK, NEW h \in Handlers, NEW P, NEW r,
         req' = [req EXCEPT ![h] = r],
         req[h].session \in Sessions,
         r.phase \in P => req[h].phase \in P /\ r.session = req[h].session
  PROVE  /\ InPhase(P)' \in Lease!Answered(req[h].session, InPhase(P))
         /\ req[h].phase \notin P => InPhase(P)' = InPhase(P)
         /\ r.phase \in P => InPhase(P)' = InPhase(P)
<1> DEFINE s == req[h].session
<1>0. /\ req'[h] = r
      /\ \A g \in Handlers \ {h} : req'[g] = req[g]
  BY DEF TypeOK
<1>1. \A t \in Sessions \ {s} : t \in InPhase(P)' <=> t \in InPhase(P)
  BY <1>0 DEF InPhase
<1>2. s \in InPhase(P)' => s \in InPhase(P)
  BY <1>0 DEF InPhase
<1>3. req[h].phase \notin P => (s \in InPhase(P) => s \in InPhase(P)')
  BY <1>0 DEF InPhase
<1>4. r.phase \in P => s \in InPhase(P)'
  BY <1>0 DEF InPhase
<1>5. InPhase(P) \subseteq Sessions /\ InPhase(P)' \subseteq Sessions
  BY DEF InPhase
<1> QED
  BY <1>1, <1>2, <1>3, <1>4, <1>5 DEF Lease!Answered

LEMMA StartRefines ==
  ASSUME TypeOK, NEW h \in Handlers, NEW s \in Sessions
  PROVE  /\ StartAcquire(h, s) => Lease!AskAcquire(s)
         /\ StartRelease(h, s) => Lease!AskRelease(s)
<1>1. ASSUME StartAcquire(h, s) PROVE Lease!AskAcquire(s)
  <2>1. /\ req'[h] = [phase |-> "set", session |-> s]
        /\ \A g \in Handlers \ {h} : req'[g] = req[g]
        /\ req[h].phase = "idle" /\ lock' = lock
    BY <1>1 DEF TypeOK, StartAcquire
  <2>2. InPhase(AcquirePhases)' = InPhase(AcquirePhases) \union {s}
    BY <2>1 DEF InPhase, AcquirePhases
  <2>3. InPhase(ReleasePhases)' = InPhase(ReleasePhases)
    BY <2>1 DEF InPhase, ReleasePhases
  <2> QED
    BY <2>1, <2>2, <2>3 DEF Lease!AskAcquire
<1>2. ASSUME StartRelease(h, s) PROVE Lease!AskRelease(s)
  <2>1. /\ req'[h] = [phase |-> "look", session |-> s]
        /\ \A g \in Handlers \ {h} : req'[g] = req[g]
        /\ req[h].phase = "idle" /\ lock' = lock
    BY <1>2 DEF TypeOK, StartRelease
  <2>2. InPhase(ReleasePhases)' = InPhase(ReleasePhases) \union {s}
    BY <2>1 DEF InPhase, ReleasePhases
  <2>3. InPhase(AcquirePhases)' = InPhase(AcquirePhases)
    BY <2>1 DEF InPhase, AcquirePhases
  <2> QED
    BY <2>1, <2>2, <2>3 DEF Lease!AskRelease
<1> QED
  BY <1>1, <1>2

(* Every step of a working handler is one indivisible operation of the     *)
(* abstract lock, or none.                                                 *)
LEMMA HandlerRefines ==
  ASSUME Inv, NEW h \in Handlers, h \notin overtaken,
         HandlerStep(h) \/ RedisError(h)
  PROVE  [Lease!Next]_(Lease!leaseVars)
<1> DEFINE s == req[h].session
           Ends == req' = [req EXCEPT ![h] = Idle]
<1>s. s \in Sessions
  BY DEF Inv, Shape, HandlerStep, AcquireSet, AcquireGet, AcquireExpire,
         ReleaseGet, ReleaseDelete, RedisError
<1>t. TypeOK
  BY DEF Inv
<1>a. ASSUME Ends, req[h].phase \in AcquirePhases
      PROVE  /\ InPhase(AcquirePhases)' \in Lease!Answered(s, InPhase(AcquirePhases))
             /\ InPhase(ReleasePhases)' = InPhase(ReleasePhases)
             /\ s \in InPhase(AcquirePhases)
  <2>1. InPhase(AcquirePhases)' \in Lease!Answered(s, InPhase(AcquirePhases))
    BY <1>a, <1>s, <1>t, InPhaseStep DEF AcquirePhases, Idle
  <2>2. InPhase(ReleasePhases)' = InPhase(ReleasePhases)
    BY <1>a, <1>s, <1>t, InPhaseStep DEF AcquirePhases, ReleasePhases, Idle
  <2>3. s \in InPhase(AcquirePhases)
    BY <1>a, <1>s DEF InPhase
  <2> QED
    BY <2>1, <2>2, <2>3
<1>r. ASSUME Ends, req[h].phase \in ReleasePhases
      PROVE  /\ InPhase(ReleasePhases)' \in Lease!Answered(s, InPhase(ReleasePhases))
             /\ InPhase(AcquirePhases)' = InPhase(AcquirePhases)
             /\ s \in InPhase(ReleasePhases)
  <2>1. InPhase(ReleasePhases)' \in Lease!Answered(s, InPhase(ReleasePhases))
    BY <1>r, <1>s, <1>t, InPhaseStep DEF ReleasePhases, Idle
  <2>2. InPhase(AcquirePhases)' = InPhase(AcquirePhases)
    BY <1>r, <1>s, <1>t, InPhaseStep DEF AcquirePhases, ReleasePhases, Idle
  <2>3. s \in InPhase(ReleasePhases)
    BY <1>r, <1>s DEF InPhase
  <2> QED
    BY <2>1, <2>2, <2>3
<1>m. ASSUME NEW p, req' = [req EXCEPT ![h].phase = p],
             \/ p \in AcquirePhases /\ req[h].phase \in AcquirePhases
             \/ p \in ReleasePhases /\ req[h].phase \in ReleasePhases
      PROVE  /\ InPhase(AcquirePhases)' = InPhase(AcquirePhases)
             /\ InPhase(ReleasePhases)' = InPhase(ReleasePhases)
  <2> DEFINE r == [phase |-> p, session |-> s]
  <2>1. req' = [req EXCEPT ![h] = r]
    <3>1. req[h] \in [phase : Phases, session : Sessions \union {NoSession}]
      BY <1>t DEF TypeOK
    <3>2. [req[h] EXCEPT !.phase = p] = r
      BY <3>1
    <3>3. req' = [req EXCEPT ![h] = [req[h] EXCEPT !.phase = p]]
      BY <1>m
    <3> QED
      BY <3>2, <3>3
  <2>2. r.phase = p /\ r.session = s
    OBVIOUS
  <2> HIDE DEF r
  <2>3. CASE p \in AcquirePhases /\ req[h].phase \in AcquirePhases
    BY <2>1, <2>2, <2>3, <1>s, <1>t, InPhaseStep DEF AcquirePhases, ReleasePhases
  <2>4. CASE p \in ReleasePhases /\ req[h].phase \in ReleasePhases
    BY <2>1, <2>2, <2>4, <1>s, <1>t, InPhaseStep DEF AcquirePhases, ReleasePhases
  <2> QED
    BY <1>m, <2>3, <2>4
<1>o. h \in Window => lock.owner = s
  BY DEF Inv, WindowOwned, Window
<1>refuse. ASSUME Ends, lock' = lock, req[h].phase \in AcquirePhases \union ReleasePhases
           PROVE  Lease!Refuse(s)
  BY <1>refuse, <1>a, <1>r DEF Lease!Refuse
<1>move. ASSUME NEW p, lock' = lock, req' = [req EXCEPT ![h].phase = p],
                \/ p \in AcquirePhases /\ req[h].phase \in AcquirePhases
                \/ p \in ReleasePhases /\ req[h].phase \in ReleasePhases
         PROVE  UNCHANGED Lease!leaseVars
  BY <1>move, <1>m DEF Lease!leaseVars
<1> HIDE DEF Ends
<1>1. CASE AcquireSet(h)
  <2>1. CASE ~Held
    <3>1. Ends /\ lock' = [owner |-> s, left |-> TTL] /\ lock.owner = NoSession
      BY <1>1, <2>1 DEF AcquireSet, Replied, Finish, Held, Ends
    <3>2. Lease!Take(s)
      BY <1>1, <3>1, <1>a DEF AcquireSet, AcquirePhases, Lease!Take
    <3> QED
      BY <3>2, <1>s DEF Lease!Next
  <2>2. CASE Held
    BY <1>1, <2>2, <1>move DEF AcquireSet, Await, AcquirePhases
  <2> QED
    BY <2>1, <2>2
<1>2. CASE AcquireGet(h)
  <2>1. CASE Ends
    BY <1>2, <2>1, <1>refuse, <1>s DEF AcquireGet, AcquirePhases, Lease!Next
  <2>2. CASE ~Ends
    BY <1>2, <2>2, <1>move DEF AcquireGet, Finish, Await, AcquirePhases, Ends
  <2> QED
    BY <2>1, <2>2
<1>3. CASE AcquireExpire(h)
  <2>1. lock.owner = s /\ Held
    BY <1>3, <1>o, <1>s, SessionsAssumption DEF AcquireExpire, Window, Held
  <2>2. Ends /\ lock' = [lock EXCEPT !.left = TTL]
    BY <1>3, <2>1 DEF AcquireExpire, Replied, Finish, Ends
  <2>3. lock'.owner = lock.owner /\ lock'.left = TTL
    BY <2>2, <1>t DEF TypeOK
  <2>4. Lease!Renew(s)
    BY <1>3, <2>1, <2>2, <2>3, <1>a DEF AcquireExpire, AcquirePhases, Lease!Renew
  <2> QED
    BY <2>4, <1>s DEF Lease!Next
<1>4. CASE ReleaseGet(h)
  <2>1. CASE Ends
    BY <1>4, <2>1, <1>refuse, <1>s DEF ReleaseGet, ReleasePhases, Lease!Next
  <2>2. CASE ~Ends
    BY <1>4, <2>2, <1>move DEF ReleaseGet, Finish, Await, ReleasePhases, Ends
  <2> QED
    BY <2>1, <2>2
<1>5. CASE ReleaseDelete(h)
  <2>1. lock.owner = s
    BY <1>5, <1>o DEF ReleaseDelete, Window
  <2>2. Ends /\ lock' = Free
    BY <1>5 DEF ReleaseDelete, Finish, Ends
  <2>3. lock'.owner = NoSession /\ lock'.left = 0
    BY <2>2 DEF Free
  <2>4. Lease!Give(s)
    BY <1>5, <2>1, <2>2, <2>3, <1>r DEF ReleaseDelete, ReleasePhases, Lease!Give
  <2> QED
    BY <2>4, <1>s DEF Lease!Next
<1>6. CASE RedisError(h)
  <2>1. Ends /\ lock' = lock
    BY <1>6 DEF RedisError, Finish, Ends
  <2>2. req[h].phase \in AcquirePhases \union ReleasePhases
    BY <1>6, <1>t DEF RedisError, TypeOK, Phases, AcquirePhases, ReleasePhases
  <2> QED
    BY <2>1, <2>2, <1>refuse, <1>s DEF Lease!Next
<1> QED
  BY <1>1, <1>2, <1>3, <1>4, <1>5, <1>6 DEF HandlerStep

LEMMA TickRefines ==
  ASSUME Inv, Tick
  PROVE  [Lease!Next]_(Lease!leaseVars)
<1>1. /\ InPhase(AcquirePhases)' = InPhase(AcquirePhases)
      /\ InPhase(ReleasePhases)' = InPhase(ReleasePhases)
  BY DEF Tick, InPhase
<1>2. CASE Held
  <2>1. lock.left \in Nat \ {0}
    BY <1>2, TTLAssumption DEF Inv, Shape, TypeOK, Held
  <2>2. /\ lock'.left = lock.left - 1
        /\ lock'.owner = IF lock.left = 1 THEN NoSession ELSE lock.owner
    BY <2>1 DEF Tick, Inv, TypeOK, Free
  <2>3. Lease!Age
    BY <1>1, <1>2, <2>2 DEF Held, Lease!Age
  <2> QED
    BY <2>3 DEF Lease!Next
<1>3. CASE ~Held
  <2>1. lock'.left = lock.left /\ lock'.owner = lock.owner
    BY <1>3 DEF Tick, Inv, Shape, Held, Free
  <2> QED
    BY <1>1, <2>1 DEF Lease!leaseVars
<1> QED
  BY <1>2, <1>3

(* A handler's step changes its own request.                               *)
LEMMA HandlerMoves ==
  ASSUME TypeOK, NEW h \in Handlers, HandlerStep(h) \/ RedisError(h)
  PROVE  req'[h] # req[h]
<1> USE DEF TypeOK, Finish, Await, Idle, Replied
<1>1. req[h].phase # req'[h].phase
  BY DEF HandlerStep, AcquireSet, AcquireGet, AcquireExpire, ReleaseGet,
         ReleaseDelete, RedisError
<1> QED
  BY <1>1

LEMMA StepRefines ==
  ASSUME Inv, [Next]_vars, OvertakenWait
  PROVE  [Lease!Next]_(Lease!leaseVars)
<1>1. CASE \E h \in Handlers, s \in Sessions : StartAcquire(h, s) \/ StartRelease(h, s)
  BY <1>1, StartRefines DEF Inv, Lease!Next
<1>2. CASE \E h \in Handlers : HandlerStep(h) \/ RedisError(h)
  <2>1. PICK h \in Handlers : HandlerStep(h) \/ RedisError(h)
    BY <1>2
  <2>2. h \notin overtaken
    BY <2>1, HandlerMoves DEF Inv, OvertakenWait
  <2> QED
    BY <2>1, <2>2, HandlerRefines
<1>3. CASE Tick
  BY <1>3, TickRefines
<1>4. CASE UNCHANGED vars
  BY <1>4 DEF vars, Lease!leaseVars, InPhase
<1> QED
  BY <1>1, <1>2, <1>3, <1>4 DEF Next

LEMMA InitRefines == Init => Lease!Init
<1>1. Init => lock.owner = NoSession /\ lock.left = 0
  BY DEF Init, Free
<1>2. Init => InPhase(AcquirePhases) = {} /\ InPhase(ReleasePhases) = {}
  BY DEF Init, InPhase, AcquirePhases, ReleasePhases, Idle
<1> QED
  BY <1>1, <1>2 DEF Lease!Init

(* Whatever the interleaving, only the write of an overtaken handler is    *)
(* not an operation of the indivisible lock.                               *)
THEOREM DeviationsAreOvertaken == Spec => OnlyOvertakenDeviate
<1>1. Inv /\ [Next]_vars
      => [OvertakenWait => [Lease!Next]_(Lease!leaseVars)]_vars
  BY StepRefines
<1> QED
  BY <1>1, InitRefines, Invariance, PTL DEF Spec, OnlyOvertakenDeviate

(* As long as no handler is overtaken between its GET and its write, the   *)
(* service is the indivisible lock of LeaseLock: a hold ends only at the   *)
(* request of the session that has it or by running out.                   *)
THEOREM Implements == UndisturbedSpec => LeaseLockSpec
<1> DEFINE UInv == Inv /\ overtaken = {}
<1>1. Init => Lease!Init /\ UInv
  BY InitRefines, InitInv DEF Init
<1>2. UInv /\ [UndisturbedNext]_vars => UInv'
  BY NextInv DEF UndisturbedNext, vars
<1>3. UInv /\ [UndisturbedNext]_vars => [Lease!Next]_(Lease!leaseVars)
  BY StepRefines DEF UndisturbedNext, OvertakenWait
<1> QED
  BY <1>1, <1>2, <1>3, PTL DEF UndisturbedSpec, LeaseLockSpec, Lease!Spec

-----------------------------------------------------------------------------
(* An active session has a key ...                                         *)
ActiveAlive == \A s \in active : left[s] > 0

(* ... no listing holds it for gone ...                                    *)
NotGone == \A l \in Listings : active \intersect listing[l].stale = {}

(* ... and whoever is active since a listing began has been found by it,   *)
(* or is still to be asked for.                                            *)
SteadyAhead ==
  \A l \in Listings :
    /\ \A s \in steady[l] : left[s] > 0
    /\ listing[l].phase = "get" => steady[l] \subseteq listing[l].todo \union listing[l].results

PresenceInv == PresenceTypeOK /\ ActiveIndexed /\ ActiveAlive /\ NotGone /\ SteadyAhead

LEMMA InitPresence == PresenceInit => PresenceInv
BY KeyLifeAssumption
   DEF PresenceInit, PresenceInv, PresenceTypeOK, ActiveIndexed, ActiveAlive, NotGone, SteadyAhead, NoListing

LEMMA StepPresenceType == PresenceTypeOK /\ [PresenceNext]_presenceVars => PresenceTypeOK'
<1> SUFFICES ASSUME PresenceTypeOK, [PresenceNext]_presenceVars PROVE PresenceTypeOK'
  OBVIOUS
<1> USE KeyLifeAssumption DEF PresenceTypeOK
<1>1. ASSUME NEW s \in UserSessions,
             Beat(s) \/ SetKey(s) \/ Index(s) \/ JoinAsset(s) \/ BeatFails(s)
      PROVE  PresenceTypeOK'
  BY <1>1 DEF Beat, SetKey, Index, JoinAsset, BeatFails, Goto
<1>2. ASSUME NEW l \in Listings, NEW s \in UserSessions, Get(l, s)
      PROVE  PresenceTypeOK'
  <2> DEFINE Local == [phase : {"new", "get", "done"}, todo : SUBSET UserSessions,
                       stale : SUBSET UserSessions, results : SUBSET UserSessions]
  <2>1. [listing[l] EXCEPT !.todo = @ \ {s}, !.stale = @ \union {s}] \in Local
    OBVIOUS
  <2>2. [listing[l] EXCEPT !.todo = @ \ {s}, !.results = @ \union {s}] \in Local
    OBVIOUS
  <2>3. Looked(l, s) \in Local
    BY <2>1, <2>2 DEF Looked
  <2>4. listing' \in [Listings -> Local]
    BY <1>2, <2>3 DEF Get
  <2>5. QED  BY <1>2, <2>4 DEF Get
<1>3. ASSUME NEW l \in Listings, Members(l)
      PROVE  PresenceTypeOK'
  BY <1>3 DEF Members, NoListing
<1>4. ASSUME NEW l \in Listings, Clean(l)
      PROVE  PresenceTypeOK'
  BY <1>4 DEF Clean, Removed, NoListing
<1>5. ASSUME NEW l \in Listings, ListingFails(l)
      PROVE  PresenceTypeOK'
  BY <1>5 DEF ListingFails, NoListing
<1>6. CASE KeysAge
  BY <1>6 DEF KeysAge
<1>7. CASE UNCHANGED presenceVars
  BY <1>7 DEF presenceVars
<1>8. QED  BY <1>1, <1>2, <1>3, <1>4, <1>5, <1>6, <1>7 DEF PresenceNext

LEMMA StepPresence == PresenceInv /\ [PresenceNext]_presenceVars => PresenceInv'
<1> SUFFICES ASSUME PresenceInv, [PresenceNext]_presenceVars PROVE PresenceInv'
  OBVIOUS
<1>0. PresenceTypeOK /\ PresenceTypeOK'
  BY StepPresenceType DEF PresenceInv
<1> USE <1>0 DEF PresenceInv
<1>1. ASSUME NEW s \in UserSessions,
             Beat(s) \/ SetKey(s) \/ Index(s) \/ JoinAsset(s) \/ BeatFails(s)
      PROVE  PresenceInv'
  <2>1. CASE SetKey(s)
    BY <2>1, KeyLifeAssumption DEF SetKey, ActiveIndexed, ActiveAlive, NotGone, SteadyAhead, PresenceTypeOK
  <2>2. CASE Index(s)
    BY <2>2 DEF Index, HeldForGone, ActiveIndexed, ActiveAlive, NotGone, SteadyAhead, PresenceTypeOK
  <2>3. CASE Beat(s) \/ JoinAsset(s) \/ BeatFails(s)
    BY <2>3 DEF Beat, JoinAsset, BeatFails, ActiveIndexed, ActiveAlive, NotGone, SteadyAhead
  <2>4. QED  BY <1>1, <2>1, <2>2, <2>3
<1>2. ASSUME NEW l \in Listings, NEW s \in UserSessions, Get(l, s)
      PROVE  PresenceInv'
  <2>1. \A k \in Listings : k # l => listing'[k] = listing[k]
    BY <1>2 DEF Get, PresenceTypeOK
  <2>2. left[s] = 0 => s \notin steady[l]
    BY DEF SteadyAhead
  <2>3. steady[l] \subseteq listing'[l].todo \union listing'[l].results
    <3>1. Looked(l, s).todo = listing[l].todo \ {s}
      BY DEF Looked, PresenceTypeOK
    <3>2. Looked(l, s).results = IF left[s] = 0 THEN listing[l].results
                                                ELSE listing[l].results \union {s}
      BY DEF Looked, PresenceTypeOK
    <3>3. steady[l] \subseteq listing[l].todo \union listing[l].results
      BY <1>2 DEF Get, SteadyAhead
    <3>4. listing'[l] = Looked(l, s)
      BY <1>2 DEF Get, PresenceTypeOK
    <3>5. QED  BY <2>2, <3>1, <3>2, <3>3, <3>4
  <2>4. active \intersect listing'[l].stale = {}
    <3>1. left[s] > 0 => Looked(l, s).stale = listing[l].stale
      BY DEF Looked, PresenceTypeOK
    <3>2. left[s] = 0 => Looked(l, s).stale = listing[l].stale \union {s}
      BY DEF Looked, PresenceTypeOK
    <3>3. left[s] \in Nat
      BY DEF PresenceTypeOK
    <3>4. left[s] = 0 => s \notin active
      BY DEF ActiveAlive
    <3>5. listing'[l] = Looked(l, s)
      BY <1>2 DEF Get, PresenceTypeOK
    <3>6. active \intersect listing[l].stale = {}
      BY DEF NotGone
    <3>7. QED  BY <3>1, <3>2, <3>3, <3>4, <3>5, <3>6
  <2>5. NotGone'
    BY <1>2, <2>1, <2>4 DEF Get, NotGone
  <2>6. ActiveIndexed' /\ ActiveAlive' /\ SteadyAhead'
    BY <1>2, <2>1, <2>3 DEF Get, ActiveIndexed, ActiveAlive, SteadyAhead
  <2>7. QED  BY <2>5, <2>6
<1>3. ASSUME NEW l \in Listings, Members(l)
      PROVE  PresenceInv'
  <2>1. \A k \in Listings : k # l => listing'[k] = listing[k] /\ steady'[k] = steady[k]
    BY <1>3 DEF Members, PresenceTypeOK
  <2>2. listing'[l].todo = index /\ listing'[l].stale = {} /\ steady'[l] = active
    BY <1>3 DEF Members, NoListing, PresenceTypeOK
  <2>3. QED  BY <1>3, <2>1, <2>2 DEF Members, ActiveIndexed, ActiveAlive, NotGone, SteadyAhead
<1>4. ASSUME NEW l \in Listings, Clean(l)
      PROVE  PresenceInv'
  <2>1. \A k \in Listings : k # l => listing'[k] = listing[k]
    BY <1>4 DEF Clean, PresenceTypeOK
  <2>2. listing'[l].phase # "get" /\ listing'[l].stale = {}
    BY <1>4 DEF Clean, NoListing, PresenceTypeOK
  <2>3. QED  BY <1>4, <2>1, <2>2 DEF Clean, Removed, ActiveIndexed, ActiveAlive, NotGone, SteadyAhead
<1>5. ASSUME NEW l \in Listings, ListingFails(l)
      PROVE  PresenceInv'
  <2>1. \A k \in Listings : k # l => listing'[k] = listing[k]
    BY <1>5 DEF ListingFails, PresenceTypeOK
  <2>2. listing'[l].phase # "get" /\ listing'[l].stale = {}
    BY <1>5 DEF ListingFails, NoListing, PresenceTypeOK
  <2>3. QED  BY <1>5, <2>1, <2>2 DEF ListingFails, ActiveIndexed, ActiveAlive, NotGone, SteadyAhead
<1>6. CASE KeysAge
  <2>1. \A s \in UserSessions : left[s] > 1 => left'[s] > 0
    BY <1>6 DEF KeysAge, PresenceTypeOK
  <2>2. QED  BY <1>6, <2>1 DEF KeysAge, PresenceTypeOK, ActiveIndexed, ActiveAlive, NotGone, SteadyAhead
<1>7. CASE UNCHANGED presenceVars
  BY <1>7 DEF presenceVars, ActiveIndexed, ActiveAlive, NotGone, SteadyAhead
<1>8. QED  BY <1>1, <1>2, <1>3, <1>4, <1>5, <1>6, <1>7 DEF PresenceNext

(* A listing ends where it has asked for everybody.                        *)
LEMMA StepListed ==
  ASSUME PresenceInv, [PresenceNext]_presenceVars, NEW l \in Listings,
         listing[l].phase = "get", listing'[l].phase = "done"
  PROVE  steady[l] \subseteq listing[l].results
<1>1. ASSUME NEW k \in Listings, Clean(k)
      PROVE  k = l
  BY <1>1 DEF Clean, PresenceInv, PresenceTypeOK
<1>2. ASSUME NEW k \in Listings, Members(k) \/ ListingFails(k) \/ \E s \in UserSessions : Get(k, s)
      PROVE  FALSE
  <2>1. k # l => listing'[l] = listing[l]
    BY <1>2 DEF Members, ListingFails, Get, PresenceInv, PresenceTypeOK
  <2>2. CASE Members(k)
    BY <2>1, <2>2 DEF Members, PresenceInv, PresenceTypeOK
  <2>3. CASE ListingFails(k)
    <3>1. listing'[k].phase = "new"
      BY <2>3 DEF ListingFails, NoListing, PresenceInv, PresenceTypeOK
    <3>2. QED  BY <2>1, <3>1
  <2>4. ASSUME NEW s \in UserSessions, Get(k, s)
        PROVE  FALSE
    <3>1. listing'[k].phase = listing[k].phase
      BY <2>4 DEF Get, Looked, PresenceInv, PresenceTypeOK
    <3>2. QED  BY <2>1, <3>1
  <2>5. QED  BY <1>2, <2>2, <2>3, <2>4
<1>3. ASSUME listing' = listing
      PROVE  FALSE
  BY <1>3
<1>4. Clean(l)
  <2>1. CASE KeysAge
    BY <2>1, <1>3 DEF KeysAge
  <2>2. ASSUME NEW s \in UserSessions,
               Beat(s) \/ SetKey(s) \/ Index(s) \/ JoinAsset(s) \/ BeatFails(s)
        PROVE  FALSE
    BY <2>2, <1>3 DEF Beat, SetKey, Index, JoinAsset, BeatFails
  <2>3. QED  BY <1>1, <1>2, <1>3, <2>1, <2>2 DEF PresenceNext, presenceVars
<1>5. QED  BY <1>4 DEF Clean, PresenceInv, SteadyAhead

(* Types, for any sessions and listings.                                   *)
THEOREM PresenceTypes == PresenceSpec => []PresenceTypeOK
<1>1. PresenceInit => PresenceTypeOK
  BY InitPresence DEF PresenceInv
<1>2. QED  BY <1>1, StepPresenceType, PTL DEF PresenceSpec

(* list_sessions takes a session with a key out of the index only if it    *)
(* had found the key missing and the session was indexed again before it   *)
(* ended.                                                                  *)
THEOREM IndexComplete == PresenceSpec => []ActiveIndexed
<1>1. PresenceInv => ActiveIndexed
  BY DEF PresenceInv
<1>2. QED  BY <1>1, InitPresence, StepPresence, PTL DEF PresenceSpec

(* Whatever listings run at the same time, list_sessions returns every     *)
(* session that was put in the index before it began, while no listing     *)
(* held it for gone, and whose key lived from then until its end.          *)
THEOREM ActiveSessionsListed == PresenceSpec => ActiveListed
<1>1. PresenceInv /\ [PresenceNext]_presenceVars =>
        [\A l \in Listings : listing[l].phase = "get" /\ listing'[l].phase = "done" =>
           steady[l] \subseteq listing[l].results]_presenceVars
  BY StepListed
<1>2. QED  BY <1>1, InitPresence, StepPresence, PTL DEF PresenceSpec, ActiveListed
=============================================================================
