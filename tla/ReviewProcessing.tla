--------------------------- MODULE ReviewProcessing ---------------------------
(***************************************************************************)
(* Background conversion of review media (app/reviews/processing.py).  The *)
(* row of an item is in the database; its jobs are tasks on the event loop *)
(* of the API process that created them and die with it.  At most Workers  *)
(* jobs of a process hold its semaphore.  A process that starts runs       *)
(* resume_pending before it serves requests.                               *)
(***************************************************************************)
EXTENDS Naturals, FiniteSets

CONSTANTS
  Media,
  Replicas,       \* API processes on one database
  Workers,        \* ZENO_REVIEW_WORKERS
  MediaFails,     \* whether a conversion may fail
  DbFails,        \* whether a database call may fail
  MaxCrashes, MaxReprocess   \* bounds on crashes and on reprocess requests

ASSUME WorkersAssumption == Workers \in Nat \ {0}
ASSUME BoundsAssumption == MaxCrashes \in Nat /\ MaxReprocess \in Nat
ASSUME SwitchAssumption == MediaFails \in BOOLEAN /\ DbFails \in BOOLEAN

VARIABLES
  row,        \* per item: processing_status, or whether there is no row
  up,         \* replicas that run
  pending,    \* <<replica, item>>: requests that committed and enqueue next
  waiting,    \* per replica and item: jobs waiting for the semaphore
  claiming,   \* ... jobs that got it
  working,    \* ... jobs that marked the row and convert
  free,       \* per replica: what is left of the semaphore
  lost,       \* items whose last request, job or resumption met a failing
              \* database call
  crashes, reprocessed

processingVars == <<row, up, pending, waiting, claiming, working, free, lost, crashes, reprocessed>>

Stages == [Replicas \X Media -> Nat]
Unfinished == {"queued", "processing"}

ProcessingTypeOK ==
  /\ row \in [Media -> Unfinished \union {"none", "ready", "failed", "deleted"}]
  /\ up \subseteq Replicas
  /\ pending \subseteq Replicas \X Media
  /\ waiting \in Stages /\ claiming \in Stages /\ working \in Stages
  /\ free \in [Replicas -> Nat]
  /\ lost \subseteq Media
  /\ crashes \in 0..MaxCrashes /\ reprocessed \in 0..MaxReprocess

NoJobs == [p \in Replicas \X Media |-> 0]

ProcessingInit ==
  /\ row = [i \in Media |-> "none"]
  /\ up = Replicas
  /\ pending = {}
  /\ waiting = NoJobs /\ claiming = NoJobs /\ working = NoJobs
  /\ free = [r \in Replicas |-> Workers]
  /\ lost = {}
  /\ crashes = 0 /\ reprocessed = 0

Exists(i) == row[i] \notin {"none", "deleted"}
Grow(f, p) == [f EXCEPT ![p] = @ + 1]
Shrink(f, p) == [f EXCEPT ![p] = @ - 1]
KeepCounts == UNCHANGED <<crashes, reprocessed>>
Keep == KeepCounts /\ UNCHANGED lost
KeepJobs == UNCHANGED <<waiting, claiming, working, free>>

-----------------------------------------------------------------------------
(* _create_item: the row is committed; reading it back can fail, and then  *)
(* no job is created.                                                      *)
Submit(r, i) ==
  /\ r \in up /\ row[i] = "none"
  /\ row' = [row EXCEPT ![i] = "queued"]
  /\ \/ pending' = pending \union {<<r, i>>} /\ UNCHANGED lost
     \/ DbFails /\ UNCHANGED pending /\ lost' = lost \union {i}
  /\ UNCHANGED up /\ KeepJobs /\ KeepCounts

(* POST /items/{id}/reprocess, whatever the status is: an UPDATE, and a    *)
(* job unless the reply to the UPDATE is lost.                             *)
Reprocess(r, i) ==
  /\ r \in up /\ Exists(i) /\ <<r, i>> \notin pending
  /\ reprocessed < MaxReprocess
  /\ reprocessed' = reprocessed + 1
  /\ row' = [row EXCEPT ![i] = "queued"]
  /\ \/ pending' = pending \union {<<r, i>>} /\ lost' = lost \ {i}
     \/ DbFails /\ UNCHANGED pending /\ lost' = lost \union {i}
  /\ UNCHANGED <<up, crashes>> /\ KeepJobs

Enqueue(r, i) ==
  /\ <<r, i>> \in pending
  /\ pending' = pending \ {<<r, i>>}
  /\ waiting' = Grow(waiting, <<r, i>>)
  /\ UNCHANGED <<row, up, claiming, working, free>> /\ Keep

Delete(i) ==
  /\ Exists(i)
  /\ row' = [row EXCEPT ![i] = "deleted"]
  /\ UNCHANGED <<up, pending>> /\ KeepJobs /\ Keep

-----------------------------------------------------------------------------
(* _guarded: a job takes the semaphore ...                                 *)

Acquire(r, i) ==
  /\ waiting[<<r, i>>] > 0 /\ free[r] > 0
  /\ waiting' = Shrink(waiting, <<r, i>>)
  /\ claiming' = Grow(claiming, <<r, i>>)
  /\ free' = [free EXCEPT ![r] = @ - 1]
  /\ UNCHANGED <<row, up, pending, working>> /\ Keep

Release(r) == free' = [free EXCEPT ![r] = @ + 1]

GiveUpHolding(r) == UNCHANGED <<row, working, free>>
GiveUp(r) == Release(r) /\ UNCHANGED <<row, working>>

(* ... marks the row (process_item), or returns when the item is deleted.  *)
Claim(r, i) ==
  /\ claiming[<<r, i>>] > 0
  /\ claiming' = Shrink(claiming, <<r, i>>)
  /\ \/ /\ Exists(i)
        /\ row' = [row EXCEPT ![i] = "processing"]
        /\ working' = Grow(working, <<r, i>>)
        /\ UNCHANGED free
     \/ ~Exists(i) /\ GiveUp(r)
  /\ UNCHANGED <<up, pending, waiting>> /\ Keep

(* _save, or the UPDATE to failed; neither brings a deleted row back.      *)
Verdict(i, status) == row' = IF Exists(i) THEN [row EXCEPT ![i] = status] ELSE row

Finish(r, i) ==
  /\ working[<<r, i>>] > 0
  /\ working' = Shrink(working, <<r, i>>)
  /\ Release(r)
  /\ \/ Verdict(i, "ready") /\ UNCHANGED lost
     \/ (MediaFails \/ DbFails) /\ Verdict(i, "failed") /\ UNCHANGED lost
     \/ DbFails /\ UNCHANGED row /\ lost' = lost \union {i}
  /\ UNCHANGED <<up, pending, waiting, claiming>> /\ KeepCounts

(* Marking the row raises: the row is marked failed, if that works.        *)
ClaimFails(r, i) ==
  /\ DbFails /\ claiming[<<r, i>>] > 0
  /\ claiming' = Shrink(claiming, <<r, i>>)
  /\ Release(r)
  /\ \/ Verdict(i, "failed") /\ UNCHANGED lost
     \/ UNCHANGED row /\ lost' = lost \union {i}
  /\ UNCHANGED <<up, pending, waiting, working>> /\ KeepCounts

-----------------------------------------------------------------------------
(* The process ends with its jobs, in any stage.                           *)
Clear(f, r) == [p \in Replicas \X Media |-> IF p[1] = r THEN 0 ELSE f[p]]

Crash(r) ==
  /\ r \in up /\ crashes < MaxCrashes
  /\ crashes' = crashes + 1
  /\ up' = up \ {r}
  /\ pending' = {p \in pending : p[1] # r}
  /\ waiting' = Clear(waiting, r) /\ claiming' = Clear(claiming, r) /\ working' = Clear(working, r)
  /\ free' = [free EXCEPT ![r] = Workers]
  /\ UNCHANGED <<row, lost, reprocessed>>

(* resume_pending: one job for every unfinished row.  An error is          *)
(* swallowed (main.py).                                                    *)
ResumedQueuedOnly(i) == row[i] = "queued"
Resumed(i) == row[i] \in Unfinished

Start(r) ==
  /\ r \notin up
  /\ up' = up \union {r}
  /\ \/ /\ waiting' = [p \in Replicas \X Media |->
                         IF p[1] = r /\ Resumed(p[2]) THEN 1 ELSE waiting[p]]
        /\ lost' = {i \in lost : ~Resumed(i)}
     \/ /\ DbFails
        /\ lost' = lost \union {i \in Media : row[i] \in Unfinished}
        /\ UNCHANGED waiting
  /\ UNCHANGED <<row, pending, claiming, working, free>> /\ KeepCounts

JobStep(r, i) == Enqueue(r, i) \/ Acquire(r, i) \/ Claim(r, i) \/ Finish(r, i) \/ ClaimFails(r, i)

ProcessingNext ==
  \/ \E i \in Media : Delete(i)
  \/ \E r \in Replicas : Crash(r) \/ Start(r)
  \/ \E r \in Replicas, i \in Media : Submit(r, i) \/ Reprocess(r, i) \/ JobStep(r, i)

ProcessingSpec == ProcessingInit /\ [][ProcessingNext]_processingVars

(* The event loop runs every job on; the semaphore serves its waiters in   *)
(* order, so each item's jobs get it; a stopped process is started again.  *)
ProcessingFairness ==
  /\ \A r \in Replicas : WF_processingVars(Start(r))
  /\ \A r \in Replicas, i \in Media :
       /\ WF_processingVars(Enqueue(r, i)) /\ SF_processingVars(Acquire(r, i))
       /\ WF_processingVars(Claim(r, i)) /\ WF_processingVars(Finish(r, i))

-----------------------------------------------------------------------------
HasJob(i) ==
  \E r \in Replicas :
    <<r, i>> \in pending \/ waiting[<<r, i>>] > 0 \/ claiming[<<r, i>>] > 0 \/ working[<<r, i>>] > 0

(* "Jobs left queued/processing by a restart are picked up again": an      *)
(* unfinished row has a job somewhere, or a stopped process that will      *)
(* create one when it starts, unless the database failed its last job or   *)
(* the last restart.                                                       *)
UnfinishedPickedUp ==
  \A i \in Media \ lost : row[i] \in Unfinished => HasJob(i) \/ up # Replicas

(* However jobs end, and whatever fails, no slot of the semaphore leaks    *)
(* and none is returned twice: all are free exactly when no job of the     *)
(* process holds one, so that conversions never stop.                      *)
SlotsAccounted ==
  \A r \in Replicas :
    /\ free[r] <= Workers
    /\ free[r] = Workers <=> \A i \in Media : claiming[<<r, i>>] + working[<<r, i>>] = 0

(* Every conversion asked for ends, whatever crashes in between, if the    *)
(* database does not fail it.                                              *)
Processed ==
  \A i \in Media : [](i \notin lost) => (row[i] = "queued" ~> row[i] \notin Unfinished)
=============================================================================
