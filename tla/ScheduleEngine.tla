----------------------------- MODULE ScheduleEngine -----------------------------
(***************************************************************************)
(* app/schedule/engine.py.  A call is either creates_cycle, asked whether  *)
(* a link would close a loop (a depth-first search along the links that    *)
(* add_dependency read), or schedule: order the project's tasks so that    *)
(* each comes after the tasks it waits for (topo_order, Kahn's algorithm), *)
(* then lay them out on working days in that order.  Days are numbers      *)
(* counted from a Monday.                                                  *)
(*                                                                         *)
(* The stack and the deque are kept as sets: any entry may be next, so     *)
(* every order that the rows of the database can come in is considered; an *)
(* entry that is on the stack twice is skipped the second time.  The order *)
(* built is kept as the rank of each task in it.                           *)
(***************************************************************************)
EXTENDS Naturals, FiniteSets, TaskGraph

CONSTANTS
  ProjectTasks,
  Outside,     \* tasks of other projects that links lead to
  Inputs,      \* what is known of a task: [duration, dates, done]
  NoDates,     \* a task without both dates
  Starts,      \* project start days
  None         \* arguments that the call does not have, or has not read yet

ASSUME ProjectTasksAssumption == IsFiniteSet(ProjectTasks) /\ ProjectTasks \intersect Outside = {}

(* A task takes a day at least: max(1, duration).                          *)
ASSUME InputsAssumption ==
  /\ NoDates \notin Nat \X Nat
  /\ Inputs \subseteq [duration : Nat \ {0}, dates : {NoDates} \union (Nat \X Nat), done : BOOLEAN]
  /\ Starts \subseteq Nat

VARIABLES
  edges,      \* argument of both: the links read
  phase,      \* "search" or "order" at the call, then how far it is
  link,       \* of creates_cycle: <<task, dependsOn>>
  seen, stack,
  layout,     \* of schedule: [input, keep, base], read when tasks are laid out
  indeg,      \* per task: links to tasks not ordered yet
  ready,      \* the queue
  rank,       \* per task: its place in the order, 0 before it has one
  length,     \* tasks ordered
  plan        \* per task: <<start, end>>, or NoDates before it is laid out

searchVars == <<link, seen, stack>>
orderVars == <<indeg, ready, rank, length>>
engineVars == <<edges, phase, searchVars, layout, orderVars, plan>>

AllTasks == ProjectTasks \union Outside
Edges == {e \in ProjectTasks \X AllTasks : e[1] # e[2]}
Layouts == [input : [ProjectTasks -> Inputs], keep : BOOLEAN, base : Nat]

EngineTypeOK ==
  /\ edges \subseteq Edges
  /\ phase \in {"search", "loop", "noLoop", "order", "place", "cycle", "planned"}
  /\ link \in Edges \union {None}
  /\ seen \subseteq AllTasks /\ stack \subseteq AllTasks
  /\ layout \in Layouts \union {None}
  /\ indeg \in [ProjectTasks -> Nat]
  /\ ready \subseteq ProjectTasks
  /\ rank \in [ProjectTasks -> 0..length]
  /\ length \in 0..Cardinality(ProjectTasks)
  /\ plan \in [ProjectTasks -> {NoDates} \union (Nat \X Nat)]

-----------------------------------------------------------------------------
(* The working week.                                                       *)
IsWorkday(d) == d % 7 < 5

NextWorkday(d) ==
  CHOOSE w \in d..(d + 2) : IsWorkday(w) /\ \A x \in d..(w - 1) : ~IsWorkday(x)

AddWorkdays(start, n) ==
  LET day[k \in 0..n] == IF k = 0 THEN start ELSE NextWorkday(day[k - 1] + 1)
  IN  day[n]

(* Edges to tasks that are not in the project are left out.                *)
AllEdges == edges
Known == {e \in edges : e[2] \in ProjectTasks}
Deps(t) == {d \in AllTasks : <<t, d>> \in Known}
Children(d) == {t \in ProjectTasks : <<t, d>> \in Known}

(* The two calls.  Callers never ask for a link from a task to itself.     *)
EngineInit ==
  /\ edges \in SUBSET Edges
  /\ \/ phase = "search" /\ link \in Edges /\ stack = {link[2]}
     \/ phase = "order" /\ link = None /\ stack = {}
  /\ seen = {}
  /\ layout = None
  /\ indeg = [t \in ProjectTasks |-> Cardinality(Deps(t))]
  /\ ready = {t \in ProjectTasks : indeg[t] = 0}
  /\ rank = [t \in ProjectTasks |-> 0]
  /\ length = 0
  /\ plan = [t \in ProjectTasks |-> NoDates]

-----------------------------------------------------------------------------
(* creates_cycle: the task itself is popped, a node is visited, or nothing *)
(* is left to visit.                                                       *)
Successors(node) == {d \in AllTasks : <<node, d>> \in edges}

Found ==
  /\ phase = "search" /\ link[1] \in stack
  /\ phase' = "loop"
  /\ UNCHANGED <<edges, searchVars, layout, orderVars, plan>>

VisitThen(node, next) ==
  /\ phase = "search" /\ node \in stack /\ node # link[1]
  /\ seen' = seen \union {node}
  /\ stack' = (stack \ {node}) \union next
  /\ UNCHANGED <<edges, phase, link, layout, orderVars, plan>>

VisitNoSkip(node) == VisitThen(node, Successors(node))
VisitFirstOnly(node) == VisitThen(node, IF seen = {} THEN Successors(node) ELSE {})
Visit(node) == VisitThen(node, IF node \in seen THEN {} ELSE Successors(node))

Exhausted ==
  /\ phase = "search" /\ stack = {}
  /\ phase' = "noLoop"
  /\ UNCHANGED <<edges, searchVars, layout, orderVars, plan>>

-----------------------------------------------------------------------------
(* topo_order: the next task is ordered and no longer waited for.          *)
Order(t, freed) ==
  /\ phase = "order" /\ t \in ready
  /\ length' = length + 1
  /\ rank' = [rank EXCEPT ![t] = length + 1]
  /\ indeg' = [c \in ProjectTasks |-> IF c \in Children(t) THEN indeg[c] - 1 ELSE indeg[c]]
  /\ ready' = (ready \ {t}) \union freed
  /\ UNCHANGED <<edges, phase, searchVars, layout, plan>>

PopFreesAllChildren(t) == Order(t, Children(t))
Pop(t) == Order(t, {c \in Children(t) : indeg[c] = 1})

Unordered == {t \in ProjectTasks : rank[t] = 0}

(* CycleError when some task was never free.                               *)
EndOrder ==
  /\ phase = "order" /\ ready = {}
  /\ \/ /\ Unordered = {}
        /\ phase' = "place"
        /\ \E input \in [ProjectTasks -> Inputs], keep \in BOOLEAN, d \in Starts :
             layout' = [input |-> input, keep |-> keep, base |-> NextWorkday(d)]
     \/ /\ Unordered # {}
        /\ phase' = "cycle"
        /\ UNCHANGED layout
  /\ UNCHANGED <<edges, searchVars, orderVars, plan>>

-----------------------------------------------------------------------------
(* Done tasks and, with keep_existing, dated ones keep their dates.        *)
KeepsDates(t) ==
  /\ layout.input[t].dates # NoDates
  /\ layout.keep \/ layout.input[t].done

(* The first workday from base on that comes after the end of every task   *)
(* waited for.                                                             *)
FreeFromNextDay(t) == {layout.base} \union {plan[d][2] + 1 : d \in Deps(t)}
FreeFrom(t) == {layout.base} \union {NextWorkday(plan[d][2] + 1) : d \in Deps(t)}

Place(t) ==
  /\ phase = "place" /\ plan[t] = NoDates
  /\ \A u \in ProjectTasks : plan[u] = NoDates => rank[t] <= rank[u]
  /\ \/ KeepsDates(t) /\ plan' = [plan EXCEPT ![t] = layout.input[t].dates]
     \/ /\ ~KeepsDates(t)
        /\ \E start \in FreeFrom(t) :
             /\ \A s \in FreeFrom(t) : s <= start
             /\ plan' = [plan EXCEPT ![t] = <<start, AddWorkdays(start, layout.input[t].duration - 1)>>]
  /\ UNCHANGED <<edges, phase, searchVars, layout, orderVars>>

Return ==
  /\ phase = "place" /\ \A t \in ProjectTasks : plan[t] # NoDates
  /\ phase' = "planned"
  /\ UNCHANGED <<edges, searchVars, layout, orderVars, plan>>

EngineNext ==
  \/ Found \/ Exhausted \/ \E node \in AllTasks : Visit(node)
  \/ \E t \in ProjectTasks : Pop(t) \/ Place(t)
  \/ EndOrder \/ Return

EngineSpec == EngineInit /\ [][EngineNext]_engineVars

(* A call is run to its end.                                               *)
EngineFairSpec == EngineSpec /\ WF_engineVars(EngineNext)

-----------------------------------------------------------------------------
(* "Is task_id reachable from depends_on?": the search answers exactly     *)
(* this, whatever the links are, links that form loops already included.   *)
AnswerExact ==
  /\ phase = "loop" => Reachable(link[1], link[2], edges, AllTasks)
  /\ phase = "noLoop" => ~Reachable(link[1], link[2], edges, AllTasks)

(* Every task comes after the tasks it waits for.                          *)
OrderFollowsLinks ==
  \A t \in ProjectTasks : rank[t] > 0 => \A d \in Deps(t) : rank[d] > 0 /\ rank[d] < rank[t]

(* CycleError is raised when the links form a loop and only then.          *)
CycleErrorExact ==
  /\ phase = "cycle" => ~Acyclic(edges, ProjectTasks)
  /\ phase \in {"place", "planned"} => Acyclic(edges, ProjectTasks)

(* topo_order: an order that follows the links, or an error about a loop.  *)
TopoOrderExact == OrderFollowsLinks /\ CycleErrorExact

(* "everything else starts as soon as all its dependencies have finished": *)
(* on the first workday, not before the project starts, that comes after   *)
(* the end of every dependency, and lasts its duration in workdays.        *)
Workdays(first, last) == {d \in first..last : IsWorkday(d)}
MayStart(t, d) == IsWorkday(d) /\ d >= layout.base /\ \A u \in Deps(t) : plan[u][2] < d

EarliestLayout ==
  phase = "planned" =>
    \A t \in ProjectTasks : ~KeepsDates(t) =>
      /\ MayStart(t, plan[t][1])
      /\ \A d \in layout.base..(plan[t][1] - 1) : ~MayStart(t, d)
      /\ IsWorkday(plan[t][2])
      /\ Cardinality(Workdays(plan[t][1], plan[t][2])) = layout.input[t].duration

(* Both functions return or raise, on links with loops too.                *)
Terminates == <>(phase \in {"loop", "noLoop", "cycle", "planned"})
=============================================================================
