------------------------------- MODULE TaskLinks -------------------------------
(***************************************************************************)
(* The dependency links of a project's tasks and the dates laid out along  *)
(* them, as the handlers of app/schedule/router.py and apply_template of   *)
(* app/task_templates/service.py change them.  add_dependency reads the    *)
(* links, looks for a loop and inserts in separate committed statements;   *)
(* auto_schedule reads tasks and links with one SELECT each and writes all *)
(* dates at the end of its READ COMMITTED transaction; nothing is locked   *)
(* in between.  The layout algorithm itself is ScheduleEngine: here a plan   *)
(* is any plan it may return, with days instead of dates, tasks of one day *)
(* and no weekends.                                                        *)
(***************************************************************************)
EXTENDS Naturals, TaskGraph

CONSTANTS
  Tasks,
  Managers,         \* concurrent add_dependency requests
  Schedulers,       \* concurrent auto_schedule requests
  CastingLinks,     \* links _link_from_casting derives from the cast
  TemplateLinks,    \* sets of links that applying a template inserts
  LastDay,          \* days are 1..LastDay; 0 is an undated task
  DateChoices       \* days set by hand

ASSUME LinkAssumption ==
  /\ CastingLinks \subseteq Tasks \X Tasks
  /\ \A set \in TemplateLinks : set \subseteq Tasks \X Tasks
ASSUME DayAssumption == LastDay \in Nat /\ DateChoices \subseteq 0..LastDay

VARIABLES
  links,    \* rows of task_dependencies
  blind,    \* rows inserted without a loop check that had seen all other rows
  day,      \* per task: the day it is scheduled on, 0 when it has no dates
  done,     \* tasks with status done
  req,      \* per manager: the link to insert and the links its check saw
  sched     \* per scheduler: what its transaction has read

vars == <<links, blind, day, done, req, sched>>

Links == Tasks \X Tasks
NoReq == [phase |-> "idle"]
NoSched == [phase |-> "idle"]

TypeOK ==
  /\ links \subseteq Links
  /\ blind \subseteq links
  /\ day \in [Tasks -> 0..LastDay]
  /\ done \subseteq Tasks
  /\ req \in [Managers -> {NoReq} \union [phase : {"insert"}, link : Links, seen : SUBSET Links]]
  /\ sched \in [Schedulers ->
       {NoSched}
       \union [phase : {"readLinks"}, keep : BOOLEAN, casting : SUBSET Links,
               day : [Tasks -> 0..LastDay], done : SUBSET Tasks]
       \union [phase : {"write"}, keep : BOOLEAN, casting : SUBSET Links, seen : SUBSET Links,
               day : [Tasks -> 0..LastDay], done : SUBSET Tasks]]

Init ==
  /\ links = {}
  /\ blind = {}
  /\ day = [t \in Tasks |-> 0]
  /\ done = {}
  /\ req = [m \in Managers |-> NoReq]
  /\ sched = [m \in Schedulers |-> NoSched]

KeepDates == UNCHANGED <<day, done, sched>>
KeepLinks == UNCHANGED <<links, blind, req>>

-----------------------------------------------------------------------------
(* add_dependency up to the loop check: the link to itself is refused with *)
(* 400, one that would close a loop among the links read with 409.         *)
CheckLinkOneStep(m, t, d) ==
  /\ req[m] = NoReq
  /\ t # d
  /\ <<d, t>> \notin links
  /\ req' = [req EXCEPT ![m] = [phase |-> "insert", link |-> <<t, d>>, seen |-> links]]
  /\ UNCHANGED <<links, blind>>
  /\ KeepDates

CheckLink(m, t, d) ==
  /\ req[m] = NoReq
  /\ t # d
  /\ ~Reachable(t, d, links, Tasks)
  /\ req' = [req EXCEPT ![m] = [phase |-> "insert", link |-> <<t, d>>, seen |-> links]]
  /\ UNCHANGED <<links, blind>>
  /\ KeepDates

(* INSERT ... ON CONFLICT DO NOTHING: a row that is there already stays.   *)
InsertLink(m) ==
  /\ req[m] # NoReq
  /\ links' = links \union {req[m].link}
  /\ blind' = IF req[m].link \in links \/ links \subseteq req[m].seen
                THEN blind ELSE blind \union {req[m].link}
  /\ req' = [req EXCEPT ![m] = NoReq]
  /\ KeepDates

RemoveLink(e) ==
  /\ e \in links
  /\ links' = links \ {e}
  /\ blind' = blind \ {e}
  /\ UNCHANGED req
  /\ KeepDates

(* apply_template links existing tasks without a check, committed at once. *)
ApplyTemplate(set) ==
  /\ links' = links \union set
  /\ blind' = blind \union (set \ links)
  /\ UNCHANGED req
  /\ KeepDates

-----------------------------------------------------------------------------
(* auto_schedule: its transaction inserts the casting links that are not   *)
(* there, visible to itself only until it commits, and reads the tasks ... *)
StartAuto(m, keep, casting) ==
  /\ sched[m] = NoSched
  /\ sched' = [sched EXCEPT ![m] =
       [phase |-> "readLinks", keep |-> keep, casting |-> casting \ links,
        day |-> day, done |-> done]]
  /\ KeepLinks
  /\ UNCHANGED <<day, done>>

(* ... then the links, its own ones included.  On a loop it answers 409    *)
(* and rolls the casting links back.                                       *)
ReadLinksSeeing(m, seen) ==
  /\ sched[m].phase = "readLinks"
  /\ sched' = [sched EXCEPT ![m] =
       IF Acyclic(seen, Tasks)
         THEN [phase |-> "write", keep |-> sched[m].keep, casting |-> sched[m].casting,
               seen |-> seen, day |-> sched[m].day, done |-> sched[m].done]
         ELSE NoSched]
  /\ KeepLinks
  /\ UNCHANGED <<day, done>>

ReadLinksBeforeCasting(m) == ReadLinksSeeing(m, links)
ReadLinks(m) == ReadLinksSeeing(m, links \union sched[m].casting)

(* Done tasks and, with keep_existing, dated tasks are pinned to their     *)
(* dates; any other task starts right after the last task it waits for.    *)
Pinned(m, t) == sched[m].day[t] # 0 /\ (sched[m].keep \/ t \in sched[m].done)

IsPlan(m, plan) ==
  \A t \in Tasks :
    IF Pinned(m, t) THEN plan[t] = sched[m].day[t]
    ELSE /\ \A d \in Tasks : <<t, d>> \in sched[m].seen => plan[d] < plan[t]
         /\ plan[t] = 1 \/ \E d \in Tasks : <<t, d>> \in sched[m].seen /\ plan[t] = plan[d] + 1

WritePlan(m) ==
  /\ sched[m].phase = "write"
  /\ \E plan \in [Tasks -> 1..LastDay] : IsPlan(m, plan) /\ day' = plan
  /\ links' = links \union sched[m].casting
  /\ blind' = blind \union (sched[m].casting \ links)
  /\ sched' = [sched EXCEPT ![m] = NoSched]
  /\ UNCHANGED <<done, req>>

(* PATCH /tasks/{id}/dates, and a task that becomes done or is reopened.   *)
SetDates(t, n) ==
  /\ day' = [day EXCEPT ![t] = n]
  /\ KeepLinks
  /\ UNCHANGED <<done, sched>>

ToggleDone(t) ==
  /\ DateChoices # {}
  /\ done' = IF t \in done THEN done \ {t} ELSE done \union {t}
  /\ KeepLinks
  /\ UNCHANGED <<day, sched>>

Next ==
  \/ \E m \in Managers, t, d \in Tasks : CheckLink(m, t, d)
  \/ \E m \in Managers : InsertLink(m)
  \/ \E e \in links : RemoveLink(e)
  \/ \E set \in TemplateLinks : ApplyTemplate(set)
  \/ \E m \in Schedulers, keep \in BOOLEAN, casting \in {{}, CastingLinks} :
       StartAuto(m, keep, casting)
  \/ \E m \in Schedulers : ReadLinks(m) \/ WritePlan(m)
  \/ \E t \in Tasks, n \in DateChoices : SetDates(t, n)
  \/ \E t \in Tasks : ToggleDone(t)

Spec == Init /\ [][Next]_vars

-----------------------------------------------------------------------------

(* Every loop has a link in it that was inserted unseen: by the casting or *)
(* a template, or by an add_dependency whose check missed a link.          *)
CheckedLinksAcyclic == Acyclic(links \ blind, Tasks)

(* The dates written follow the links, the casting links included, for     *)
(* every task that is not pinned, unless links were added meanwhile.       *)
PlanFollowsLinks ==
  [][\A m \in Schedulers :
       WritePlan(m) /\ links \subseteq sched[m].seen =>
         \A e \in links' : ~Pinned(m, e[1]) => day'[e[2]] < day'[e[1]]]_vars
=============================================================================
