------------------------------ MODULE LeaseLock ------------------------------
(***************************************************************************)
(* What a lease on one asset representation promises, without saying how   *)
(* it is stored.  A session asks to take the lease or to give it back; the *)
(* service takes, renews, ends or refuses in one indivisible step.  A hold *)
(* ends in two ways only: its own session asked for that, or TTL ticks     *)
(* went by without a renewal by its own session.                           *)
(*                                                                         *)
(* AssetLocks describes the Redis implementation (app/workflow/            *)
(* lock_service.py) and is compared with this module there.                *)
(***************************************************************************)
EXTENDS Naturals

CONSTANTS Sessions,     \* editing sessions, a (user_id, session_id) pair each
          NoSession,    \* "nobody holds the lease"
          TTL           \* ticks a hold lasts unless renewed

VARIABLES holder,       \* the session that holds the lease, or NoSession
          left,         \* ticks until the hold ends by itself
          acquiring,    \* sessions with an unanswered acquire request
          releasing     \* sessions with an unanswered release request

leaseVars == <<holder, left, acquiring, releasing>>

Init == /\ holder = NoSession
        /\ left = 0
        /\ acquiring = {}
        /\ releasing = {}

(* A session may have asked more than once: an answer to one request       *)
(* either empties the session's place in the set or leaves it there.       *)
Answered(s, set) == {set, set \ {s}}

AskAcquire(s) == /\ acquiring' = acquiring \union {s}
                 /\ UNCHANGED <<holder, left, releasing>>

AskRelease(s) == /\ releasing' = releasing \union {s}
                 /\ UNCHANGED <<holder, left, acquiring>>

(* The free lease goes to a session that asked for it.                     *)
Take(s) == /\ s \in acquiring
           /\ holder = NoSession
           /\ holder' = s
           /\ left' = TTL
           /\ acquiring' \in Answered(s, acquiring)
           /\ UNCHANGED releasing

(* The holder asked again: its hold starts afresh.                         *)
Renew(s) == /\ s \in acquiring
            /\ holder = s
            /\ left' = TTL
            /\ acquiring' \in Answered(s, acquiring)
            /\ UNCHANGED <<holder, releasing>>

(* The holder asked for the end of its hold.                               *)
Give(s) == /\ s \in releasing
           /\ holder = s
           /\ holder' = NoSession
           /\ left' = 0
           /\ releasing' \in Answered(s, releasing)
           /\ UNCHANGED acquiring

(* A request that changes nothing: refused, or the store did not answer.   *)
Refuse(s) == \/ /\ s \in acquiring
                /\ acquiring' \in Answered(s, acquiring)
                /\ UNCHANGED <<holder, left, releasing>>
             \/ /\ s \in releasing
                /\ releasing' \in Answered(s, releasing)
                /\ UNCHANGED <<holder, left, acquiring>>

(* Time goes by; the last tick of a hold ends it.                          *)
Age == /\ holder # NoSession
       /\ left' = left - 1
       /\ holder' = IF left = 1 THEN NoSession ELSE holder
       /\ UNCHANGED <<acquiring, releasing>>

Next == \/ \E s \in Sessions : \/ AskAcquire(s) \/ AskRelease(s)
                               \/ Take(s) \/ Renew(s) \/ Give(s) \/ Refuse(s)
        \/ Age

Spec == Init /\ [][Next]_leaseVars
=============================================================================
