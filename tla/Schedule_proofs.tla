-------------------------- MODULE Schedule_proofs ---------------------------
(***************************************************************************)
(* Theorems about TaskLinks and ScheduleEngine.                            *)
(*                                                                         *)
(* TaskLinks, for any tasks and requests: loops need links inserted after  *)
(* a check that had not seen all others, and plans follow the links they   *)
(* were made from.                                                         *)
(*                                                                         *)
(* ScheduleEngine, for any finite set of tasks and any links.              *)
(* creates_cycle answers reachability: reachability is a statement about   *)
(* closed sets, and what the search has seen or stacked lies in every      *)
(* closed set that holds dependsOn; once the stack is empty, what it has   *)
(* seen is itself such a set.  topo_order follows the links and raises     *)
(* CycleError exactly when they form a loop: what makes it right is that   *)
(* indeg counts the tasks a task still waits for.  The layout puts each    *)
(* task on the first workday after all it waits for: those are laid out    *)
(* before it and stay where they are.                                      *)
(***************************************************************************)
EXTENDS TaskLinks, ScheduleEngine, FiniteSetTheorems, NaturalsInduction, WellFoundedInduction, TLAPS

SeenNoLoop ==
  \A m \in Managers :
    req[m] # NoReq => ~Reachable(req[m].link[1], req[m].link[2], req[m].seen, Tasks)

SeenCasting == \A m \in Schedulers : sched[m].phase = "write" => sched[m].casting \subseteq sched[m].seen

IInv == TypeOK /\ CheckedLinksAcyclic /\ SeenNoLoop /\ SeenCasting

-----------------------------------------------------------------------------
(* Fewer links reach fewer tasks and close fewer loops.                    *)
LEMMA FewerReach ==
  ASSUME NEW T, NEW E, NEW F, F \subseteq E, NEW t, NEW d, Reachable(t, d, F, T)
  PROVE  Reachable(t, d, E, T)
BY DEF Reachable, Closed

LEMMA FewerAcyclic ==
  ASSUME NEW T, NEW E, NEW F, F \subseteq E, Acyclic(E, T)
  PROVE  Acyclic(F, T)
BY DEF Acyclic

(* The check of add_dependency suffices: a link to a task from which its   *)
(* own task cannot be reached closes no loop.                              *)
LEMMA LinkKeepsAcyclic ==
  ASSUME NEW T, NEW E, NEW t, NEW d, Acyclic(E, T), ~Reachable(t, d, E, T)
  PROVE  Acyclic(E \union {<<t, d>>}, T)
<1>1. PICK C \in SUBSET T : d \in C /\ Closed(C, E) /\ t \notin C
  BY DEF Reachable
<1>2. SUFFICES ASSUME NEW S \in SUBSET T, S # {}
               PROVE  \E x \in S : \A y \in S : <<x, y>> \notin E \union {<<t, d>>}
  BY DEF Acyclic
<1>3. CASE S \intersect C # {}
  <2>1. PICK x \in S \intersect C : \A y \in S \intersect C : <<x, y>> \notin E
    BY <1>3 DEF Acyclic
  <2>2. ASSUME NEW y \in S, <<x, y>> \in E  PROVE FALSE
    <3>1. y \in C
      BY <1>1, <2>1, <2>2 DEF Closed
    <3>2. QED  BY <2>1, <2>2, <3>1
  <2>3. x # t
    BY <1>1, <2>1
  <2>4. QED  BY <2>1, <2>2, <2>3
<1>4. CASE S \intersect C = {}
  <2>1. PICK x \in S : \A y \in S : <<x, y>> \notin E
    BY <1>2 DEF Acyclic
  <2>2. d \notin S
    BY <1>1, <1>4
  <2>3. QED  BY <2>1, <2>2
<1>5. QED  BY <1>3, <1>4

-----------------------------------------------------------------------------
LEMMA InitIInv == Init => IInv
<1> SUFFICES ASSUME Init PROVE IInv
  OBVIOUS
<1>1. TypeOK
  BY DayAssumption DEF Init, TypeOK, NoReq, NoSched
<1>2. CheckedLinksAcyclic
  BY DEF Init, CheckedLinksAcyclic, Acyclic
<1>3. SeenNoLoop /\ SeenCasting
  BY DEF Init, SeenNoLoop, SeenCasting, NoSched
<1>4. QED  BY <1>1, <1>2, <1>3 DEF IInv

LEMMA CheckLinkIInv ==
  ASSUME IInv, NEW m \in Managers, NEW t \in Tasks, NEW d \in Tasks, CheckLink(m, t, d)
  PROVE  IInv'
<1> DEFINE r == [phase |-> "insert", link |-> <<t, d>>, seen |-> links]
<1>1. r \in [phase : {"insert"}, link : Links, seen : SUBSET Links]
  BY DEF IInv, TypeOK, Links
<1>2. req' = [req EXCEPT ![m] = r]
  BY DEF CheckLink
<1>3. ~Reachable(r.link[1], r.link[2], r.seen, Tasks)
  BY DEF CheckLink
<1> HIDE DEF r
<1>4. TypeOK'
  BY <1>1, <1>2 DEF IInv, TypeOK, CheckLink, KeepDates
<1>5. CheckedLinksAcyclic'
  BY DEF IInv, CheckedLinksAcyclic, CheckLink
<1>6. SeenNoLoop'
  BY <1>2, <1>3 DEF IInv, TypeOK, SeenNoLoop
<1>7. SeenCasting'
  BY DEF IInv, SeenCasting, CheckLink, KeepDates
<1>8. QED  BY <1>4, <1>5, <1>6, <1>7 DEF IInv

LEMMA InsertLinkIInv ==
  ASSUME IInv, NEW m \in Managers, InsertLink(m)
  PROVE  IInv'
<1> DEFINE e == req[m].link
<1>1. req[m] \in [phase : {"insert"}, link : Links, seen : SUBSET Links]
  BY DEF IInv, TypeOK, InsertLink
<1>2. e \in Links /\ e = <<e[1], e[2]>>
  BY <1>1 DEF Links
<1>3. links' = links \union {e}
  BY DEF InsertLink
<1>4. TypeOK'
  BY <1>1, <1>2, <1>3 DEF IInv, TypeOK, InsertLink, KeepDates
<1>5. CheckedLinksAcyclic'
  <2>1. CASE e \in links \/ ~(links \subseteq req[m].seen)
    <3>1. links' \ blind' \subseteq links \ blind
      BY <1>3, <2>1 DEF InsertLink
    <3>2. QED  BY <3>1, FewerAcyclic DEF IInv, CheckedLinksAcyclic
  <2>2. CASE links \subseteq req[m].seen
    <3>1. ~Reachable(e[1], e[2], links \ blind, Tasks)
      <4>1. links \ blind \subseteq req[m].seen
        BY <2>2
      <4>2. ~Reachable(e[1], e[2], req[m].seen, Tasks)
        BY DEF IInv, SeenNoLoop, InsertLink
      <4>3. QED  BY <4>1, <4>2, FewerReach
    <3>2. Acyclic((links \ blind) \union {<<e[1], e[2]>>}, Tasks)
      BY <3>1, LinkKeepsAcyclic DEF IInv, CheckedLinksAcyclic
    <3>3. links' \ blind' \subseteq (links \ blind) \union {<<e[1], e[2]>>}
      BY <1>2, <1>3, <2>2 DEF InsertLink
    <3>4. QED  BY <3>2, <3>3, FewerAcyclic DEF CheckedLinksAcyclic
  <2>3. QED  BY <2>1, <2>2
<1>6. SeenNoLoop'
  BY DEF IInv, TypeOK, SeenNoLoop, InsertLink
<1>7. SeenCasting'
  BY DEF IInv, SeenCasting, InsertLink, KeepDates
<1>8. QED  BY <1>4, <1>5, <1>6, <1>7 DEF IInv

LEMMA RemoveLinkIInv ==
  ASSUME IInv, NEW e \in links, RemoveLink(e)
  PROVE  IInv'
<1>1. TypeOK'
  BY DEF IInv, TypeOK, RemoveLink, KeepDates
<1>2. CheckedLinksAcyclic'
  <2>1. links' \ blind' \subseteq links \ blind
    BY DEF RemoveLink
  <2>2. QED  BY <2>1, FewerAcyclic DEF IInv, CheckedLinksAcyclic
<1>3. SeenNoLoop' /\ SeenCasting'
  BY DEF IInv, SeenNoLoop, SeenCasting, RemoveLink, KeepDates
<1>4. QED  BY <1>1, <1>2, <1>3 DEF IInv

LEMMA ApplyTemplateIInv ==
  ASSUME IInv, NEW set \in TemplateLinks, ApplyTemplate(set)
  PROVE  IInv'
<1>1. TypeOK'
  BY LinkAssumption DEF IInv, TypeOK, ApplyTemplate, KeepDates, Links
<1>2. CheckedLinksAcyclic'
  <2>1. links' \ blind' \subseteq links \ blind
    BY DEF ApplyTemplate
  <2>2. QED  BY <2>1, FewerAcyclic DEF IInv, CheckedLinksAcyclic
<1>3. SeenNoLoop' /\ SeenCasting'
  BY DEF IInv, SeenNoLoop, SeenCasting, ApplyTemplate, KeepDates
<1>4. QED  BY <1>1, <1>2, <1>3 DEF IInv

LEMMA StartAutoIInv ==
  ASSUME IInv, NEW m \in Schedulers, NEW keep \in BOOLEAN,
         NEW casting \in {{}, CastingLinks}, StartAuto(m, keep, casting)
  PROVE  IInv'
<1> DEFINE r == [phase |-> "readLinks", keep |-> keep, casting |-> casting \ links,
                 day |-> day, done |-> done]
           R == [phase : {"readLinks"}, keep : BOOLEAN, casting : SUBSET Links,
                 day : [Tasks -> 0..LastDay], done : SUBSET Tasks]
<1>1. r \in R
  <2>1. casting \ links \in SUBSET Links
    BY LinkAssumption DEF Links
  <2>2. QED  BY <2>1 DEF IInv, TypeOK
<1>2. sched' = [sched EXCEPT ![m] = r] /\ r.phase = "readLinks"
  BY DEF StartAuto
<1> HIDE DEF r
<1>3. TypeOK'
  BY <1>1, <1>2 DEF IInv, TypeOK, StartAuto, KeepLinks
<1>4. CheckedLinksAcyclic' /\ SeenNoLoop'
  BY DEF IInv, CheckedLinksAcyclic, SeenNoLoop, StartAuto, KeepLinks
<1>5. SeenCasting'
  BY <1>2 DEF IInv, TypeOK, SeenCasting
<1>6. QED  BY <1>3, <1>4, <1>5 DEF IInv

LEMMA ReadLinksIInv ==
  ASSUME IInv, NEW m \in Schedulers, ReadLinks(m)
  PROVE  IInv'
<1> DEFINE read == links \union sched[m].casting
           w == [phase |-> "write", keep |-> sched[m].keep, casting |-> sched[m].casting,
                 seen |-> read, day |-> sched[m].day, done |-> sched[m].done]
           W == [phase : {"write"}, keep : BOOLEAN, casting : SUBSET Links, seen : SUBSET Links,
                 day : [Tasks -> 0..LastDay], done : SUBSET Tasks]
           r == IF Acyclic(read, Tasks) THEN w ELSE NoSched
<1>1. sched[m] \in [phase : {"readLinks"}, keep : BOOLEAN, casting : SUBSET Links,
                    day : [Tasks -> 0..LastDay], done : SUBSET Tasks]
  BY DEF IInv, TypeOK, ReadLinks, ReadLinksSeeing, NoSched
<1>2. w \in W /\ w.phase = "write" /\ w.casting \subseteq w.seen
  <2>1. sched[m].keep \in BOOLEAN
    BY <1>1, Zenon
  <2>2. sched[m].casting \in SUBSET Links /\ read \in SUBSET Links
        /\ sched[m].day \in [Tasks -> 0..LastDay] /\ sched[m].done \in SUBSET Tasks
    BY <1>1 DEF IInv, TypeOK
  <2>3. QED  BY <2>1, <2>2
<1> HIDE DEF w
<1>3. r \in {NoSched} \union W /\ (r.phase = "write" => r.casting \subseteq r.seen)
  BY <1>2 DEF NoSched
<1>4. sched' = [sched EXCEPT ![m] = r]
  BY DEF ReadLinks, ReadLinksSeeing, w
<1> HIDE DEF r
<1>5. TypeOK'
  BY <1>3, <1>4 DEF IInv, TypeOK, ReadLinks, ReadLinksSeeing, KeepLinks
<1>6. CheckedLinksAcyclic' /\ SeenNoLoop'
  BY DEF IInv, CheckedLinksAcyclic, SeenNoLoop, ReadLinks, ReadLinksSeeing, KeepLinks
<1>7. SeenCasting'
  BY <1>3, <1>4 DEF IInv, TypeOK, SeenCasting
<1>8. QED  BY <1>5, <1>6, <1>7 DEF IInv

LEMMA WritePlanIInv ==
  ASSUME IInv, NEW m \in Schedulers, WritePlan(m)
  PROVE  IInv'
<1>1. sched[m] \in [phase : {"write"}, keep : BOOLEAN, casting : SUBSET Links, seen : SUBSET Links,
                    day : [Tasks -> 0..LastDay], done : SUBSET Tasks]
  BY DEF IInv, TypeOK, WritePlan, NoSched
<1>2. day' \in [Tasks -> 0..LastDay]
  <2>1. day' \in [Tasks -> 1..LastDay]
    BY DEF WritePlan
  <2>2. 1..LastDay \subseteq 0..LastDay
    BY DayAssumption
  <2>3. QED  BY <2>1, <2>2
<1>3. TypeOK'
  BY <1>1, <1>2 DEF IInv, TypeOK, WritePlan
<1>4. CheckedLinksAcyclic'
  <2>1. links' \ blind' \subseteq links \ blind
    BY DEF WritePlan
  <2>2. QED  BY <2>1, FewerAcyclic DEF IInv, CheckedLinksAcyclic
<1>5. SeenNoLoop'
  BY DEF IInv, SeenNoLoop, WritePlan
<1>6. SeenCasting'
  BY DEF IInv, TypeOK, SeenCasting, WritePlan, NoSched
<1>7. QED  BY <1>3, <1>4, <1>5, <1>6 DEF IInv

LEMMA DatesIInv ==
  ASSUME IInv, NEW t \in Tasks,
         ToggleDone(t) \/ \E n \in DateChoices : SetDates(t, n)
  PROVE  IInv'
<1>1. TypeOK'
  BY DayAssumption DEF IInv, TypeOK, SetDates, ToggleDone, KeepLinks
<1>2. CheckedLinksAcyclic' /\ SeenNoLoop' /\ SeenCasting'
  BY DEF IInv, CheckedLinksAcyclic, SeenNoLoop, SeenCasting, SetDates, ToggleDone, KeepLinks
<1>3. QED  BY <1>1, <1>2 DEF IInv

LEMMA StepIInv == IInv /\ [Next]_vars => IInv'
<1> SUFFICES ASSUME IInv, [Next]_vars PROVE IInv'
  OBVIOUS
<1>1. CASE \E m \in Managers, t, d \in Tasks : CheckLink(m, t, d)
  BY <1>1, CheckLinkIInv
<1>2. CASE \E m \in Managers : InsertLink(m)
  BY <1>2, InsertLinkIInv
<1>3. CASE \E e \in links : RemoveLink(e)
  BY <1>3, RemoveLinkIInv
<1>4. CASE \E set \in TemplateLinks : ApplyTemplate(set)
  BY <1>4, ApplyTemplateIInv
<1>5. CASE \E m \in Schedulers, keep \in BOOLEAN, casting \in {{}, CastingLinks} :
             StartAuto(m, keep, casting)
  BY <1>5, StartAutoIInv
<1>6. CASE \E m \in Schedulers : ReadLinks(m) \/ WritePlan(m)
  BY <1>6, ReadLinksIInv, WritePlanIInv
<1>7. CASE \/ \E t \in Tasks, n \in DateChoices : SetDates(t, n)
           \/ \E t \in Tasks : ToggleDone(t)
  BY <1>7, DatesIInv
<1>8. CASE UNCHANGED vars
  BY <1>8 DEF vars, IInv, TypeOK, CheckedLinksAcyclic, SeenNoLoop, SeenCasting
<1>9. QED  BY <1>1, <1>2, <1>3, <1>4, <1>5, <1>6, <1>7, <1>8 DEF Next

(* The inductive invariant holds for any tasks, links and requests.        *)
THEOREM Invariance == Spec => []IInv
BY InitIInv, StepIInv, PTL DEF Spec

(* Every row and every request keeps its type.                             *)
THEOREM TypeCorrect == Spec => []TypeOK
<1>1. IInv => TypeOK  BY DEF IInv
<1>2. QED  BY Invariance, <1>1, PTL

(* Only links inserted unseen can close a loop, whatever managers,         *)
(* templates and schedulers do concurrently.                               *)
THEOREM LoopsNeedBlindLinks == Spec => []CheckedLinksAcyclic
<1>1. IInv => CheckedLinksAcyclic  BY DEF IInv
<1>2. QED  BY Invariance, <1>1, PTL

(* A plan is written along the links, those it creates included, unless    *)
(* links were added after it read them.                                    *)
THEOREM PlansFollowLinks == Spec => PlanFollowsLinks
<1>1. IInv /\ [Next]_vars =>
        [\A m \in Schedulers :
           WritePlan(m) /\ links \subseteq sched[m].seen =>
             \A e \in links' : ~Pinned(m, e[1]) => day'[e[2]] < day'[e[1]]]_vars
  <2> SUFFICES ASSUME IInv, NEW m \in Schedulers, WritePlan(m), links \subseteq sched[m].seen,
                      NEW e \in links', ~Pinned(m, e[1])
               PROVE  day'[e[2]] < day'[e[1]]
    OBVIOUS
  <2>1. e \in sched[m].seen
    BY DEF WritePlan, IInv, SeenCasting
  <2>2. e[1] \in Tasks /\ e[2] \in Tasks /\ e = <<e[1], e[2]>>
    <3>1. TypeOK'
      BY WritePlanIInv DEF IInv
    <3>2. QED  BY <3>1 DEF TypeOK, Links
  <2>3. IsPlan(m, day')
    BY DEF WritePlan
  <2>4. QED  BY <2>1, <2>2, <2>3 DEF IsPlan
<1>2. QED  BY Invariance, <1>1, PTL DEF Spec, PlanFollowsLinks

-----------------------------------------------------------------------------
Searching == phase \in {"search", "loop", "noLoop"}

SearchTypes ==
  /\ edges \subseteq Edges
  /\ Searching => link \in Edges
  /\ seen \subseteq AllTasks /\ stack \subseteq AllTasks

InClosedSets ==
  Searching => \A S \in SUBSET AllTasks :
                 link[2] \in S /\ Closed(S, edges) => seen \union stack \subseteq S

Explored ==
  Searching => /\ link[2] \in seen \union stack
               /\ link[1] \notin seen
               /\ \A n \in seen : Successors(n) \subseteq seen \union stack

SInv == SearchTypes /\ InClosedSets /\ Explored /\ AnswerExact

LEMMA InitSInv == EngineInit => SInv
BY DEF EngineInit, SInv, SearchTypes, InClosedSets, Explored, AnswerExact, Searching, Edges, AllTasks

LEMMA FoundSInv ==
  ASSUME SInv, Found
  PROVE  SInv'
<1> USE DEF Found, searchVars, Searching
<1>1. SearchTypes' /\ InClosedSets'
  BY DEF SInv, SearchTypes, InClosedSets, Closed
<1>2. Explored'
  BY DEF SInv, Explored, Successors
<1>3. Reachable(link[1], link[2], edges, AllTasks)
  BY DEF SInv, InClosedSets, Reachable
<1>4. AnswerExact'
  BY <1>3 DEF AnswerExact, Reachable, Closed
<1>5. QED  BY <1>1, <1>2, <1>4 DEF SInv

(* What was seen has been left along every link, so it is closed.          *)
LEMMA ExhaustedSInv ==
  ASSUME SInv, Exhausted
  PROVE  SInv'
<1> USE DEF Exhausted, searchVars, Searching
<1>1. SearchTypes' /\ InClosedSets'
  BY DEF SInv, SearchTypes, InClosedSets, Closed
<1>2. Explored'
  BY DEF SInv, Explored, Successors
<1>3. ~Reachable(link[1], link[2], edges, AllTasks)
  <2>1. seen \in SUBSET AllTasks /\ link[2] \in seen /\ link[1] \notin seen
    BY DEF SInv, SearchTypes, Explored
  <2>2. Closed(seen, edges)
    <3> SUFFICES ASSUME NEW e \in edges, e[1] \in seen PROVE e[2] \in seen
      BY DEF Closed
    <3>1. e \in ProjectTasks \X AllTasks
      BY DEF SInv, SearchTypes, Edges
    <3>2. e[2] \in Successors(e[1])
      BY <3>1 DEF Successors
    <3>3. QED  BY <3>2 DEF SInv, Explored
  <2>3. QED  BY <2>1, <2>2 DEF Reachable
<1>4. AnswerExact'
  BY <1>3 DEF AnswerExact, Reachable, Closed
<1>5. QED  BY <1>1, <1>2, <1>4 DEF SInv

LEMMA VisitSInv ==
  ASSUME SInv, NEW node \in AllTasks, Visit(node)
  PROVE  SInv'
<1> USE DEF Visit, VisitThen, Searching
<1>1. SearchTypes'
  BY DEF SInv, SearchTypes, Successors
<1>2. InClosedSets'
  <2> SUFFICES ASSUME NEW S \in SUBSET AllTasks, link[2] \in S, Closed(S, edges)
               PROVE  seen' \union stack' \subseteq S
    BY DEF InClosedSets, Closed
  <2>1. seen \union stack \subseteq S
    BY DEF SInv, InClosedSets
  <2>2. Successors(node) \subseteq S
    <3> SUFFICES ASSUME NEW d \in AllTasks, <<node, d>> \in edges PROVE d \in S
      BY DEF Successors
    <3>1. node \in S
      BY <2>1
    <3>2. QED  BY <3>1 DEF Closed
  <2>3. QED  BY <2>1, <2>2
<1>3. Explored'
  <2>1. seen \union stack \subseteq seen' \union stack'
    OBVIOUS
  <2>2. Successors(node) \subseteq seen' \union stack'
    BY <2>1 DEF SInv, Explored
  <2>3. \A n \in seen' : Successors(n) \subseteq seen' \union stack'
    BY <2>1, <2>2 DEF SInv, Explored
  <2>4. \A n : Successors(n)' = Successors(n)
    BY DEF Successors
  <2>5. link[2] \in seen' \union stack' /\ link[1] \notin seen'
    BY <2>1 DEF SInv, Explored
  <2>6. QED  BY <2>3, <2>4, <2>5 DEF Explored
<1>4. AnswerExact'
  BY DEF AnswerExact
<1>5. QED  BY <1>1, <1>2, <1>3, <1>4 DEF SInv

(* schedule leaves the search alone.                                       *)
LEMMA FrameSInv ==
  ASSUME SInv, UNCHANGED <<edges, searchVars>>,
         phase' = phase \/ (~Searching /\ ~Searching')
  PROVE  SInv'
<1> USE DEF searchVars, Searching
<1>1. SearchTypes' /\ InClosedSets'
  BY DEF SInv, SearchTypes, InClosedSets, Closed
<1>2. Explored' /\ AnswerExact'
  BY DEF SInv, Explored, AnswerExact, Successors, Reachable, Closed
<1>3. QED  BY <1>1, <1>2 DEF SInv

LEMMA StepSInv == SInv /\ [EngineNext]_engineVars => SInv'
<1> SUFFICES ASSUME SInv, [EngineNext]_engineVars PROVE SInv'
  OBVIOUS
<1>1. ASSUME NEW t \in ProjectTasks, Pop(t) \/ Place(t) PROVE SInv'
  BY <1>1, FrameSInv DEF Pop, Order, Place
<1>2. CASE EndOrder \/ Return
  BY <1>2, FrameSInv DEF EndOrder, Return, Searching
<1>3. CASE UNCHANGED engineVars
  BY <1>3, FrameSInv DEF engineVars
<1>4. QED  BY <1>1, <1>2, <1>3, FoundSInv, ExhaustedSInv, VisitSInv DEF EngineNext

(* creates_cycle answers whether the task can be reached from dependsOn.   *)
THEOREM SearchAnswersReachability == EngineSpec => []AnswerExact
<1>1. SInv => AnswerExact  BY DEF SInv
<1>2. QED  BY InitSInv, StepSInv, <1>1, PTL DEF EngineSpec

-----------------------------------------------------------------------------
Waits(t) == {d \in ProjectTasks : <<t, d>> \in edges /\ rank[d] = 0}
Ordered == {t \in ProjectTasks : rank[t] > 0}

Types ==
  /\ edges \subseteq ProjectTasks \X AllTasks
  /\ length \in Nat
  /\ rank \in [ProjectTasks -> Nat]
  /\ \A t \in ProjectTasks : rank[t] <= length
  /\ indeg \in [ProjectTasks -> Nat]
  /\ ready \subseteq ProjectTasks

Counts == \A t \in ProjectTasks : indeg[t] = Cardinality(Waits(t))

Queue ==
  /\ \A t \in ProjectTasks : t \in ready <=> rank[t] = 0 /\ Waits(t) = {}
  /\ \A t \in ProjectTasks : rank[t] > 0 => Waits(t) = {}

Outcome ==
  /\ phase \in {"place", "planned"} => Unordered = {}
  /\ phase = "cycle" => ~Acyclic(edges, ProjectTasks)

OrderInv == Types /\ Counts /\ Queue /\ OrderFollowsLinks /\ Acyclic(edges, Ordered) /\ Outcome

LEMMA WaitsFinite == \A t \in ProjectTasks : IsFiniteSet(Waits(t)) /\ Cardinality(Waits(t)) \in Nat
<1> TAKE t \in ProjectTasks
<1>1. Waits(t) \in SUBSET ProjectTasks
  BY DEF Waits
<1>2. IsFiniteSet(Waits(t))
  BY <1>1, FS_Subset, ProjectTasksAssumption
<1>3. QED  BY <1>2, FS_CardinalityType

LEMMA DepsInTasks ==
  ASSUME Types, NEW t \in ProjectTasks
  PROVE  Deps(t) = {d \in ProjectTasks : <<t, d>> \in edges}
BY DEF Types, Deps, Known, AllTasks

LEMMA ChildrenByEdge ==
  ASSUME NEW t \in ProjectTasks
  PROVE  Children(t) = {c \in ProjectTasks : <<c, t>> \in edges}
BY DEF Children, Known

LEMMA InitOrderInv == EngineInit => OrderInv
<1> SUFFICES ASSUME EngineInit PROVE OrderInv
  OBVIOUS
<1>1. \A t \in ProjectTasks : Deps(t) = Waits(t)
  BY DEF EngineInit, Deps, Known, Waits, AllTasks
<1>2. Counts
  BY <1>1 DEF EngineInit, Counts
<1>3. Types
  <2>1. indeg \in [ProjectTasks -> Nat]
    BY <1>1, WaitsFinite DEF EngineInit
  <2>2. QED  BY <2>1 DEF EngineInit, Types, Edges
<1>4. Queue
  BY <1>1, WaitsFinite, FS_EmptySet DEF EngineInit, Queue
<1>5. OrderFollowsLinks
  BY DEF EngineInit, OrderFollowsLinks
<1>6. Acyclic(edges, Ordered)
  BY DEF EngineInit, Acyclic, Ordered
<1>7. Outcome
  BY DEF EngineInit, Outcome
<1>8. QED  BY <1>2, <1>3, <1>4, <1>5, <1>6, <1>7 DEF OrderInv

(* The set of tasks a task waits for loses the popped one.                 *)
LEMMA WaitsAfterPop ==
  ASSUME Types, NEW t \in ProjectTasks, Pop(t), NEW c \in ProjectTasks
  PROVE  Waits(c)' = Waits(c) \ {t}
BY DEF Types, Pop, Order, Waits

LEMMA PopTypes ==
  ASSUME OrderInv, NEW t \in ProjectTasks, Pop(t)
  PROVE  Types' /\ Counts' /\ rank[t] = 0 /\ Waits(t) = {}
<1> USE DEF Pop, Order
<1>1. Types
  BY DEF OrderInv
<1>2. rank[t] = 0 /\ Waits(t) = {}
  BY DEF OrderInv, Queue
<1>3. \A c \in ProjectTasks : indeg'[c] = Cardinality(Waits(c)') /\ indeg'[c] \in Nat
  <2> TAKE c \in ProjectTasks
  <2>1. IsFiniteSet(Waits(c)) /\ Cardinality(Waits(c)) \in Nat
    BY WaitsFinite
  <2>2. Waits(c)' = Waits(c) \ {t}
    BY <1>1, WaitsAfterPop
  <2>3. t \in Waits(c) <=> c \in Children(t)
    BY <1>2, ChildrenByEdge DEF Waits
  <2>4. indeg[c] = Cardinality(Waits(c))
    BY DEF OrderInv, Counts
  <2>5. indeg'[c] = IF c \in Children(t) THEN indeg[c] - 1 ELSE indeg[c]
    OBVIOUS
  <2>6. IsFiniteSet(Waits(c) \ {t})
        /\ Cardinality(Waits(c) \ {t}) = IF t \in Waits(c) THEN Cardinality(Waits(c)) - 1
                                                            ELSE Cardinality(Waits(c))
    BY <2>1, FS_RemoveElement
  <2>7. Cardinality(Waits(c) \ {t}) \in Nat
    BY <2>6, FS_CardinalityType
  <2>8. QED  BY <2>2, <2>3, <2>4, <2>5, <2>6, <2>7
<1>4. Counts'
  BY <1>3 DEF Counts
<1>5. indeg' \in [ProjectTasks -> Nat]
  BY <1>3
<1>6. Types'
  BY <1>1, <1>5 DEF Types, Children
<1>7. QED  BY <1>2, <1>4, <1>6

LEMMA PopQueue ==
  ASSUME OrderInv, NEW t \in ProjectTasks, Pop(t)
  PROVE  Queue'
<1> USE DEF Pop, Order
<1>1. Types /\ rank[t] = 0 /\ Waits(t) = {}
  BY PopTypes DEF OrderInv
<1>2. \A c \in ProjectTasks : rank'[c] = 0 <=> rank[c] = 0 /\ c # t
  BY <1>1 DEF Types
<1>3. \A c \in ProjectTasks : Waits(c)' = Waits(c) \ {t}
  BY <1>1, WaitsAfterPop
<1>4. \A c \in ProjectTasks : rank'[c] > 0 => Waits(c)' = {}
  <2> TAKE c \in ProjectTasks
  <2>1. rank[c] > 0 \/ c = t => Waits(c) = {}
    BY <1>1 DEF OrderInv, Queue
  <2>2. rank[c] \in Nat /\ rank'[c] \in Nat
    BY PopTypes DEF Types, OrderInv
  <2>3. QED  BY <1>2, <1>3, <2>1, <2>2
<1>5. \A c \in ProjectTasks : c \in ready' <=> rank'[c] = 0 /\ Waits(c)' = {}
  <2> TAKE c \in ProjectTasks
  <2>1. c \in Children(t) <=> t \in Waits(c)
    BY <1>1, ChildrenByEdge DEF Waits
  <2>2. t \in Waits(c) => (indeg[c] = 1 <=> Waits(c) = {t})
    <3>1. IsFiniteSet(Waits(c)) /\ Cardinality(Waits(c)) \in Nat /\ indeg[c] = Cardinality(Waits(c))
      BY WaitsFinite DEF OrderInv, Counts
    <3>2. IsFiniteSet(Waits(c) \ {t})
          /\ (t \in Waits(c) => Cardinality(Waits(c) \ {t}) = Cardinality(Waits(c)) - 1)
      BY <3>1, FS_RemoveElement
    <3>3. Cardinality(Waits(c) \ {t}) = 0 <=> Waits(c) \ {t} = {}
      BY <3>2, FS_EmptySet
    <3>4. QED  BY <3>1, <3>2, <3>3
  <2>3. c \in ready' <=> (c \in ready /\ c # t) \/ (c \in Children(t) /\ indeg[c] = 1)
    OBVIOUS
  <2>4. c \in ready <=> rank[c] = 0 /\ Waits(c) = {}
    BY DEF OrderInv, Queue
  <2>5. t \in Waits(c) => rank[c] = 0 /\ c # t
    <3>1. rank[c] \in Nat /\ (rank[c] > 0 => Waits(c) = {})
      BY DEF OrderInv, Types, Queue
    <3>2. QED  BY <1>1, <3>1
  <2>6. QED  BY <1>2, <1>3, <2>1, <2>2, <2>3, <2>4, <2>5
<1>6. QED  BY <1>4, <1>5 DEF Queue

LEMMA PopOrder ==
  ASSUME OrderInv, NEW t \in ProjectTasks, Pop(t)
  PROVE  OrderFollowsLinks'
<1> USE DEF Pop, Order
<1>1. Types /\ Types' /\ rank[t] = 0 /\ Waits(t) = {}
  BY PopTypes DEF OrderInv
<1>2. \A c \in ProjectTasks : Deps(c)' = Deps(c) /\ Deps(c) = {d \in ProjectTasks : <<c, d>> \in edges}
  BY <1>1, DepsInTasks DEF Deps, Known
<1>3. SUFFICES ASSUME NEW c \in ProjectTasks, rank'[c] > 0, NEW d \in Deps(c)
               PROVE  rank'[d] > 0 /\ rank'[d] < rank'[c]
  BY <1>2 DEF OrderFollowsLinks
<1>4. d \in ProjectTasks /\ <<c, d>> \in edges
  BY <1>2
<1>5. CASE c = t
  <2>1. rank[d] > 0 /\ d # t /\ rank[d] <= length
    BY <1>1, <1>4, <1>5 DEF Waits, Types
  <2>2. rank'[d] = rank[d] /\ rank'[c] = length + 1
    BY <1>1, <1>4, <1>5, <2>1 DEF Types
  <2>3. QED  BY <1>1, <1>4, <2>1, <2>2 DEF Types
<1>6. CASE c # t
  <2>1. rank[c] > 0 /\ rank'[c] = rank[c]
    BY <1>1, <1>3, <1>6 DEF Types
  <2>2. rank[d] > 0 /\ rank[d] < rank[c]
    BY <1>4, <2>1 DEF OrderInv, OrderFollowsLinks
  <2>3. d # t
    BY <1>1, <2>2
  <2>4. QED  BY <1>1, <1>4, <2>1, <2>2, <2>3 DEF Types
<1>7. QED  BY <1>5, <1>6

(* No ordered task waits for the popped one, and it waits for no task that *)
(* is not ordered: it closes no loop among the ordered tasks.              *)
LEMMA PopAcyclic ==
  ASSUME OrderInv, NEW t \in ProjectTasks, Pop(t)
  PROVE  Acyclic(edges, Ordered)'
<1> USE DEF Pop, Order
<1>1. Types /\ rank[t] = 0 /\ Waits(t) = {}
  BY PopTypes DEF OrderInv
<1>2. Ordered' = Ordered \union {t} /\ edges' = edges
  BY <1>1 DEF Ordered, Types
<1>3. SUFFICES ASSUME NEW S \in (SUBSET (Ordered \union {t})) \ {{}}
               PROVE  \E u \in S : \A d \in S : <<u, d>> \notin edges
  BY <1>2 DEF Acyclic
<1>4. <<t, t>> \notin edges
  BY <1>1 DEF Waits
<1>5. \A u \in Ordered : <<u, t>> \notin edges
  BY <1>1 DEF OrderInv, Queue, Ordered, Waits
<1>6. CASE S \ {t} = {}
  <2>1. S = {t}
    BY <1>3, <1>6
  <2>2. QED  BY <1>4, <2>1
<1>7. CASE S \ {t} # {}
  <2>1. S \ {t} \in (SUBSET Ordered) \ {{}}
    BY <1>3, <1>7
  <2>2. PICK u \in S \ {t} : \A d \in S \ {t} : <<u, d>> \notin edges
    BY <2>1 DEF OrderInv, Acyclic
  <2>3. u \in Ordered
    BY <2>1
  <2>4. QED  BY <1>5, <2>2, <2>3
<1>8. QED  BY <1>6, <1>7

LEMMA PopIInv ==
  ASSUME OrderInv, NEW t \in ProjectTasks, Pop(t)
  PROVE  OrderInv'
<1>1. Outcome'
  BY DEF Outcome, Pop, Order
<1>2. QED  BY <1>1, PopTypes, PopQueue, PopOrder, PopAcyclic DEF OrderInv

(* When nothing is free, the tasks left wait for each other.               *)
LEMMA EndOrderIInv ==
  ASSUME OrderInv, EndOrder
  PROVE  OrderInv'
<1> USE DEF EndOrder, orderVars
<1>1. Types' /\ Counts'
  BY DEF OrderInv, Types, Counts, Waits
<1>2. Queue' /\ OrderFollowsLinks'
  BY DEF OrderInv, Queue, Waits, OrderFollowsLinks, Deps, Known
<1>3. Acyclic(edges, Ordered)'
  BY DEF OrderInv, Acyclic, Ordered
<1>4. Unordered # {} => ~Acyclic(edges, ProjectTasks)
  <2> SUFFICES ASSUME Unordered # {} PROVE ~Acyclic(edges, ProjectTasks)
    OBVIOUS
  <2>1. Unordered \in (SUBSET ProjectTasks) \ {{}}
    BY DEF Unordered
  <2>2. \A u \in Unordered : \E d \in Unordered : <<u, d>> \in edges
    BY DEF OrderInv, Queue, Unordered, Waits
  <2>3. QED  BY <2>1, <2>2 DEF Acyclic
<1>5. Outcome'
  BY <1>4 DEF Outcome, Unordered, Acyclic
<1>6. QED  BY <1>1, <1>2, <1>3, <1>5 DEF OrderInv

(* Neither the search nor the layout changes anything of the order.        *)
LEMMA FrameIInv ==
  ASSUME OrderInv, UNCHANGED <<edges, orderVars>>,
         \/ phase' = phase \/ phase' \in {"loop", "noLoop"}
         \/ phase = "place" /\ phase' = "planned"
  PROVE  OrderInv'
<1> USE DEF orderVars
<1>1. Types' /\ Counts'
  BY DEF OrderInv, Types, Counts, Waits
<1>2. Queue' /\ OrderFollowsLinks'
  BY DEF OrderInv, Queue, Waits, OrderFollowsLinks, Deps, Known
<1>3. Acyclic(edges, Ordered)'
  BY DEF OrderInv, Acyclic, Ordered
<1>4. Outcome'
  BY DEF OrderInv, Outcome, Unordered, Acyclic
<1>5. QED  BY <1>1, <1>2, <1>3, <1>4 DEF OrderInv

LEMMA StepOrderInv == OrderInv /\ [EngineNext]_engineVars => OrderInv'
<1> SUFFICES ASSUME OrderInv, [EngineNext]_engineVars PROVE OrderInv'
  OBVIOUS
<1>1. ASSUME NEW t \in ProjectTasks, Place(t) PROVE OrderInv'
  BY <1>1, FrameIInv DEF Place
<1>2. ASSUME NEW n \in AllTasks, Visit(n) PROVE OrderInv'
  BY <1>2, FrameIInv DEF Visit, VisitThen
<1>3. CASE Found \/ Exhausted \/ Return \/ UNCHANGED engineVars
  BY <1>3, FrameIInv DEF Found, Exhausted, Return, engineVars
<1>4. QED  BY <1>1, <1>2, <1>3, PopIInv, EndOrderIInv DEF EngineNext

(* The inductive invariant holds in every reachable state.                 *)
THEOREM OrderInvariance == EngineSpec => []OrderInv
BY InitOrderInv, StepOrderInv, PTL DEF EngineSpec

(* topo_order puts every task after the tasks it waits for.                *)
THEOREM OrderIsTopological == EngineSpec => []OrderFollowsLinks
<1>1. OrderInv => OrderFollowsLinks  BY DEF OrderInv
<1>2. QED  BY OrderInvariance, <1>1, PTL

(* topo_order raises CycleError exactly when the links form a loop.        *)
THEOREM CycleErrorIffLoop == EngineSpec => []CycleErrorExact
<1>1. OrderInv => CycleErrorExact
  <2> SUFFICES ASSUME OrderInv PROVE CycleErrorExact
    OBVIOUS
  <2>1. Unordered = {} => Ordered = ProjectTasks
    BY DEF OrderInv, Types, Unordered, Ordered
  <2>2. QED  BY <2>1 DEF OrderInv, Outcome, CycleErrorExact
<1>2. QED  BY OrderInvariance, <1>1, PTL

(* topo_order orders every graph without a loop along its links, and only  *)
(* those.                                                                  *)
THEOREM TopoOrderCorrect == EngineSpec => []TopoOrderExact
BY OrderIsTopological, CycleErrorIffLoop, PTL DEF TopoOrderExact

-----------------------------------------------------------------------------
(* The working week.                                                       *)
LEMMA LeastNat ==
  ASSUME NEW T \in SUBSET Nat, T # {}
  PROVE  \E n \in T : \A m \in T : n <= m
<1>1. PICK n \in T : \A m \in T : ~(<<m, n>> \in OpToRel(<, Nat))
  <2>1. \E n \in T : \A m \in T : ~(<<m, n>> \in OpToRel(<, Nat))
    BY NatLessThanWellFounded, WFMin
  <2> QED
    BY <2>1
<1>2. ASSUME NEW m \in T PROVE n <= m
  <2>1. ~(m < n)
    <3> SUFFICES ASSUME m < n PROVE <<m, n>> \in OpToRel(<, Nat)
      BY <1>1
    <3> QED
      BY DEF OpToRel
  <2> QED
    BY <2>1
<1> QED
  BY <1>2

(* A weekend has two days.                                                 *)
LEMMA WeekGoesOn ==
  ASSUME NEW d \in Nat
  PROVE  /\ NextWorkday(d) \in Nat /\ d <= NextWorkday(d)
         /\ IsWorkday(NextWorkday(d))
         /\ \A x \in d..(NextWorkday(d) - 1) : ~IsWorkday(x)
<1> DEFINE W == {w \in d..(d + 2) : IsWorkday(w) /\ \A x \in d..(w - 1) : ~IsWorkday(x)}
<1>1. W # {}
  <2>1. CASE d % 7 < 5
    <3>1. d \in W
      BY <2>1 DEF IsWorkday
    <3> QED
      BY <3>1
  <2>2. CASE d % 7 = 5
    <3>1. (d + 1) % 7 = 6 /\ (d + 2) % 7 = 0
      BY <2>2
    <3>2. \A x \in d..(d + 2 - 1) : x = d \/ x = d + 1
      OBVIOUS
    <3>3. d + 2 \in W
      BY <2>2, <3>1, <3>2 DEF IsWorkday
    <3> QED
      BY <3>3
  <2>3. CASE d % 7 = 6
    <3>1. (d + 1) % 7 = 0
      BY <2>3
    <3>2. \A x \in d..(d + 1 - 1) : x = d
      OBVIOUS
    <3>3. d + 1 \in W
      BY <2>3, <3>1, <3>2 DEF IsWorkday
    <3> QED
      BY <3>3
  <2>4. d % 7 \in 0..6
    OBVIOUS
  <2> QED
    BY <2>1, <2>2, <2>3, <2>4
<1>2. NextWorkday(d) \in W
  <2>1. NextWorkday(d) = CHOOSE w \in d..(d + 2) : IsWorkday(w) /\ \A x \in d..(w - 1) : ~IsWorkday(x)
    BY DEF NextWorkday
  <2>2. \E w \in d..(d + 2) : IsWorkday(w) /\ \A x \in d..(w - 1) : ~IsWorkday(x)
    BY <1>1
  <2> QED
    BY <2>1, <2>2, Zenon
<1> QED
  BY <1>2

(* add_workdays steps from workday to workday; Run(f, start, n) says that  *)
(* f is the days it passes.                                                *)
Run(f, start, n) ==
  f = [k \in 0..n |-> IF k = 0 THEN start ELSE NextWorkday(f[k - 1] + 1)]

LEMMA RunExists ==
  ASSUME NEW start \in Nat, NEW n \in Nat
  PROVE  \E f : Run(f, start, n)
<1> DEFINE Bad == {m \in Nat : ~\E f \in [0..m -> Nat] : Run(f, start, m)}
<1>1. SUFFICES Bad = {}
  <2>1. \E f \in [0..n -> Nat] : Run(f, start, n)
    BY <1>1
  <2> QED
    BY <2>1
<1>2. SUFFICES ASSUME Bad # {} PROVE FALSE
  OBVIOUS
<1>3. PICK m \in Bad : \A l \in Bad : m <= l
  <2> HIDE DEF Bad
  <2>1. Bad \in SUBSET Nat
    BY DEF Bad
  <2> QED
    BY <2>1, <1>2, LeastNat
<1>4. CASE m = 0
  <2> DEFINE g == [k \in 0..0 |-> start]
  <2>1. g \in [0..m -> Nat]
    BY <1>4
  <2>2. g = [k \in 0..m |-> IF k = 0 THEN start ELSE NextWorkday(g[k - 1] + 1)]
    BY <1>4
  <2> QED
    BY <2>1, <2>2 DEF Run
<1>5. CASE m # 0
  <2>1. m - 1 \in Nat /\ m - 1 \notin Bad
    <3>1. m \in Nat /\ m - 1 \in Nat /\ ~(m <= m - 1)
      BY <1>3, <1>5
    <3> HIDE DEF Bad
    <3> QED
      BY <3>1, <1>3
  <2>2. PICK f \in [0..(m - 1) -> Nat] : Run(f, start, m - 1)
    BY <2>1
  <2> DEFINE g == [k \in 0..m |-> IF k = m THEN NextWorkday(f[m - 1] + 1) ELSE f[k]]
  <2>3. NextWorkday(f[m - 1] + 1) \in Nat
    <3>1. f[m - 1] + 1 \in Nat
      BY <2>1
    <3> QED
      BY <3>1, WeekGoesOn
  <2>4. g \in [0..m -> Nat]
    BY <2>3
  <2>5. ASSUME NEW k \in 0..m PROVE g[k] = IF k = 0 THEN start ELSE NextWorkday(g[k - 1] + 1)
    <3>1. CASE k = m
      BY <3>1, <1>5
    <3>2. CASE k # m
      <4>1. k \in 0..(m - 1) /\ g[k] = f[k]
        BY <3>2
      <4>2. f[k] = IF k = 0 THEN start ELSE NextWorkday(f[k - 1] + 1)
        BY <2>2, <4>1 DEF Run
      <4>3. k # 0 => g[k - 1] = f[k - 1]
        BY <4>1
      <4> QED
        BY <4>1, <4>2, <4>3
    <3> QED
      BY <3>1, <3>2
  <2>6. g = [k \in 0..m |-> IF k = 0 THEN start ELSE NextWorkday(g[k - 1] + 1)]
    BY <2>5
  <2> QED
    BY <2>4, <2>6 DEF Run
<1> QED
  BY <1>4, <1>5

(* What the day reached after n steps is: a workday, with n workdays and   *)
(* the first one up to it.                                                 *)
Reached(start, d, n) ==
  /\ d \in Nat /\ start <= d /\ IsWorkday(d)
  /\ Cardinality(Workdays(start, d)) = n + 1

LEMMA OneDay ==
  ASSUME NEW start \in Nat, IsWorkday(start)
  PROVE  Reached(start, start, 0)
<1>1. Workdays(start, start) = {start}
  BY DEF Workdays
<1>2. Cardinality({start}) = 1
  BY FS_Singleton
<1> QED
  BY <1>1, <1>2 DEF Reached

LEMMA OneDayMore ==
  ASSUME NEW start \in Nat, NEW d, NEW n \in Nat, Reached(start, d, n)
  PROVE  Reached(start, NextWorkday(d + 1), n + 1)
<1> DEFINE w == NextWorkday(d + 1)
<1>1. d \in Nat /\ start <= d /\ Cardinality(Workdays(start, d)) = n + 1
  BY DEF Reached
<1>2. w \in Nat /\ d + 1 <= w /\ IsWorkday(w) /\ \A x \in (d + 1)..(w - 1) : ~IsWorkday(x)
  BY <1>1, WeekGoesOn
<1> HIDE DEF w
<1>3. Workdays(start, w) = Workdays(start, d) \union {w}
  <2>1. ASSUME NEW x \in Workdays(start, w) PROVE x \in Workdays(start, d) \union {w}
    BY <1>1, <1>2, <2>1 DEF Workdays
  <2>2. ASSUME NEW x \in Workdays(start, d) \union {w} PROVE x \in Workdays(start, w)
    BY <1>1, <1>2, <2>2 DEF Workdays
  <2> QED
    BY <2>1, <2>2
<1>4. w \notin Workdays(start, d)
  BY <1>1, <1>2 DEF Workdays
<1>5. IsFiniteSet(Workdays(start, d))
  <2>1. IsFiniteSet(start..d)
    BY <1>1, FS_Interval
  <2>2. Workdays(start, d) \in SUBSET (start..d)
    BY DEF Workdays
  <2> QED
    BY <2>1, <2>2, FS_Subset
<1>6. Cardinality(Workdays(start, d) \union {w}) = Cardinality(Workdays(start, d)) + 1
  BY <1>4, <1>5, FS_AddElement
<1>7. Reached(start, w, n + 1)
  BY <1>1, <1>2, <1>3, <1>6 DEF Reached
<1> QED
  BY <1>7 DEF w

LEMMA RunReaches ==
  ASSUME NEW start \in Nat, IsWorkday(start), NEW n \in Nat, NEW f, Run(f, start, n)
  PROVE  Reached(start, f[n], n)
<1> DEFINE Bad == {k \in 0..n : ~Reached(start, f[k], k)}
<1>1. SUFFICES ASSUME Bad # {} PROVE FALSE
  OBVIOUS
<1>2. PICK k \in Bad : \A l \in Bad : k <= l
  <2> HIDE DEF Bad
  <2>1. Bad \in SUBSET Nat
    BY DEF Bad
  <2> QED
    BY <2>1, <1>1, LeastNat
<1>3. \A l \in 0..n : f[l] = IF l = 0 THEN start ELSE NextWorkday(f[l - 1] + 1)
  BY DEF Run
<1>4. CASE k = 0
  BY <1>3, <1>4, OneDay
<1>5. CASE k # 0
  <2>1. k - 1 \in 0..n /\ k - 1 \notin Bad /\ k - 1 \in Nat /\ (k - 1) + 1 = k
    BY <1>2, <1>5
  <2>2. Reached(start, f[k - 1], k - 1)
    BY <2>1
  <2>3. Reached(start, NextWorkday(f[k - 1] + 1), k)
    BY <2>1, <2>2, OneDayMore
  <2> QED
    BY <1>3, <1>5, <2>3
<1> QED
  BY <1>4, <1>5

LEMMA AddWorkdaysReaches ==
  ASSUME NEW start \in Nat, IsWorkday(start), NEW n \in Nat
  PROVE  Reached(start, AddWorkdays(start, n), n)
<1> DEFINE f == CHOOSE g : Run(g, start, n)
<1>1. AddWorkdays(start, n) = f[n]
  BY DEF AddWorkdays, Run
<1>2. Run(f, start, n)
  BY RunExists, Zenon
<1> HIDE DEF f
<1> QED
  BY <1>1, <1>2, RunReaches

-----------------------------------------------------------------------------
(* The layout.  A task that is laid out lies where EarliestLayout says,    *)
(* and so do all tasks it waits for: their dates will not change any more. *)
Placed(t) == plan[t] # NoDates

LiesEarliest(t) ==
  /\ MayStart(t, plan[t][1])
  /\ \A d \in layout.base..(plan[t][1] - 1) : ~MayStart(t, d)
  /\ IsWorkday(plan[t][2])
  /\ Cardinality(Workdays(plan[t][1], plan[t][2])) = layout.input[t].duration

LayoutTypes ==
  /\ plan \in [ProjectTasks -> {NoDates} \union (Nat \X Nat)]
  /\ phase \in {"place", "planned"} =>
       /\ layout \in [input : [ProjectTasks -> Inputs], keep : BOOLEAN, base : Nat]
       /\ IsWorkday(layout.base)

LaidOut ==
  /\ phase \notin {"place", "planned"} => \A t \in ProjectTasks : ~Placed(t)
  /\ phase = "planned" => \A t \in ProjectTasks : Placed(t)
  /\ phase \in {"place", "planned"} =>
       \A t \in ProjectTasks : Placed(t) /\ ~KeepsDates(t) =>
         LiesEarliest(t) /\ \A u \in Deps(t) : Placed(u)

LayoutInv == OrderInv /\ LayoutTypes /\ LaidOut

LEMMA InitLayoutInv == EngineInit => LayoutInv
<1> SUFFICES ASSUME EngineInit PROVE LayoutInv
  OBVIOUS
<1>1. OrderInv
  BY InitOrderInv
<1>2. LayoutTypes /\ LaidOut
  BY DEF EngineInit, LayoutTypes, LaidOut, Placed
<1> QED
  BY <1>1, <1>2 DEF LayoutInv

(* Where a task is put that does not keep its dates.                       *)
LEMMA PlaceIsEarliest ==
  ASSUME LayoutInv, NEW t \in ProjectTasks, phase = "place", ~KeepsDates(t),
         \A u \in Deps(t) : u \in ProjectTasks /\ Placed(u),
         NEW start \in FreeFrom(t), \A s \in FreeFrom(t) : s <= start,
         NEW last, last = AddWorkdays(start, layout.input[t].duration - 1)
  PROVE  /\ start \in Nat /\ last \in Nat
         /\ MayStart(t, start) /\ \A d \in layout.base..(start - 1) : ~MayStart(t, d)
         /\ IsWorkday(last)
         /\ Cardinality(Workdays(start, last)) = layout.input[t].duration
<1>1. layout.base \in Nat /\ IsWorkday(layout.base) /\ layout.input[t] \in Inputs
  BY DEF LayoutInv, LayoutTypes
<1>2. layout.input[t].duration \in Nat \ {0}
  BY <1>1, InputsAssumption
<1>3. ASSUME NEW u \in Deps(t) PROVE plan[u][2] \in Nat /\ plan[u][2] + 1 \in Nat
  <2>1. plan[u] \in Nat \X Nat
    BY <1>3 DEF LayoutInv, LayoutTypes, Placed
  <2> QED
    BY <2>1
<1>4. ASSUME NEW u \in Deps(t)
      PROVE  /\ NextWorkday(plan[u][2] + 1) \in Nat
             /\ plan[u][2] + 1 <= NextWorkday(plan[u][2] + 1)
             /\ IsWorkday(NextWorkday(plan[u][2] + 1))
             /\ \A x \in (plan[u][2] + 1)..(NextWorkday(plan[u][2] + 1) - 1) : ~IsWorkday(x)
  BY <1>3, WeekGoesOn
<1>5. start = layout.base \/ \E u \in Deps(t) : start = NextWorkday(plan[u][2] + 1)
  BY DEF FreeFrom
<1>6. start \in Nat /\ IsWorkday(start)
  BY <1>1, <1>4, <1>5
<1>7. layout.base <= start /\ \A u \in Deps(t) : NextWorkday(plan[u][2] + 1) <= start
  BY DEF FreeFrom
<1>8. MayStart(t, start)
  <2>1. ASSUME NEW u \in Deps(t) PROVE plan[u][2] < start
    BY <1>3, <1>4, <1>6, <1>7
  <2> QED
    BY <1>1, <1>6, <1>7, <2>1 DEF MayStart
<1>9. ASSUME NEW d \in layout.base..(start - 1), MayStart(t, d) PROVE FALSE
  <2>1. d \in Nat /\ layout.base <= d /\ d <= start - 1
    BY <1>1, <1>6
  <2>2. PICK u \in Deps(t) : start = NextWorkday(plan[u][2] + 1)
    BY <1>1, <1>5, <1>6, <2>1
  <2>3. plan[u][2] < d /\ IsWorkday(d)
    BY <1>9 DEF MayStart
  <2>4. d \in (plan[u][2] + 1)..(start - 1)
    BY <1>3, <1>6, <2>1, <2>3
  <2> QED
    BY <1>4, <2>2, <2>3, <2>4
<1>10. layout.input[t].duration - 1 \in Nat
  BY <1>2
<1>11. Reached(start, last, layout.input[t].duration - 1)
  BY <1>6, <1>10, AddWorkdaysReaches
<1>12. (layout.input[t].duration - 1) + 1 = layout.input[t].duration
  BY <1>2
<1> QED
  BY <1>6, <1>8, <1>9, <1>11, <1>12 DEF Reached

(* A task that lies right, and what it waits for, are left as they are.    *)
LEMMA OthersStay ==
  ASSUME LayoutInv, NEW t \in ProjectTasks, Place(t), NEW u \in ProjectTasks,
         Placed(u), ~KeepsDates(u)
  PROVE  LiesEarliest(u)' /\ \A d \in Deps(u)' : Placed(d)'
<1>1. PICK dates : plan' = [plan EXCEPT ![t] = dates]
  BY DEF Place
<1>2. ~Placed(t) /\ phase = "place" /\ layout' = layout /\ edges' = edges
  BY DEF Place, Placed
<1>3. LiesEarliest(u) /\ \A d \in Deps(u) : Placed(d)
  BY <1>2 DEF LayoutInv, LaidOut
<1>4. Deps(u)' = Deps(u) /\ Deps(u) \subseteq ProjectTasks
  BY <1>2 DEF Deps, Known
<1>5. \A d \in Deps(u) \union {u} : plan'[d] = plan[d]
  BY <1>1, <1>2, <1>3, <1>4 DEF LayoutInv, LayoutTypes, Placed
<1>6. \A d : MayStart(u, d)' <=> MayStart(u, d)
  BY <1>2, <1>4, <1>5 DEF MayStart
<1>7. LiesEarliest(u)'
  BY <1>2, <1>3, <1>5, <1>6 DEF LiesEarliest
<1>8. \A d \in Deps(u)' : Placed(d)'
  BY <1>3, <1>4, <1>5 DEF Placed
<1> QED
  BY <1>7, <1>8

LEMMA PlaceLayoutInv ==
  ASSUME LayoutInv, NEW t \in ProjectTasks, Place(t)
  PROVE  LayoutTypes' /\ LaidOut'
<1>1. phase = "place" /\ phase' = "place" /\ layout' = layout /\ edges' = edges /\ plan[t] = NoDates
  BY DEF Place
<1>2. layout.input[t] \in Inputs /\ plan \in [ProjectTasks -> {NoDates} \union (Nat \X Nat)]
  BY <1>1 DEF LayoutInv, LayoutTypes
<1>3. \A u \in ProjectTasks : KeepsDates(u)' <=> KeepsDates(u)
  BY <1>1 DEF KeepsDates
<1>4. \A u \in Deps(t) : u \in ProjectTasks
  BY DEF Deps, Known
<1>5. ASSUME NEW u \in Deps(t) PROVE Placed(u)
  <2>1. rank \in [ProjectTasks -> Nat] /\ rank[t] > 0
    BY <1>1 DEF LayoutInv, OrderInv, Types, Outcome, Unordered
  <2>2. rank[u] < rank[t]
    BY <2>1 DEF LayoutInv, OrderInv, OrderFollowsLinks
  <2>3. plan[u] = NoDates => rank[t] <= rank[u]
    BY <1>4 DEF Place
  <2> QED
    BY <1>4, <2>1, <2>2, <2>3 DEF Placed
<1>6. CASE KeepsDates(t)
  <2>1. plan' = [plan EXCEPT ![t] = layout.input[t].dates]
    BY <1>6 DEF Place
  <2>2. layout.input[t].dates \in Nat \X Nat
    BY <1>2, <1>6, InputsAssumption DEF KeepsDates
  <2>3. LayoutTypes'
    BY <1>1, <1>2, <2>1, <2>2 DEF LayoutInv, LayoutTypes
  <2>4. \A u \in ProjectTasks : Placed(u)' /\ u # t => Placed(u)
    BY <1>2, <2>1 DEF Placed
  <2>5. ASSUME NEW u \in ProjectTasks, Placed(u)', ~KeepsDates(u)'
        PROVE  LiesEarliest(u)' /\ \A d \in Deps(u)' : Placed(d)'
    <3>1. u # t /\ ~KeepsDates(u)
      BY <1>3, <1>6, <2>5
    <3> QED
      BY <2>4, <2>5, <3>1, OthersStay
  <2>6. LaidOut'
    BY <1>1, <2>5 DEF LaidOut
  <2> QED
    BY <2>3, <2>6
<1>7. CASE ~KeepsDates(t)
  <2>1. PICK start \in FreeFrom(t) :
          /\ \A s \in FreeFrom(t) : s <= start
          /\ plan' = [plan EXCEPT ![t] = <<start, AddWorkdays(start, layout.input[t].duration - 1)>>]
    BY <1>7 DEF Place
  <2>2. PICK last : last = AddWorkdays(start, layout.input[t].duration - 1)
    OBVIOUS
  <2>3. /\ start \in Nat /\ last \in Nat
        /\ MayStart(t, start) /\ \A d \in layout.base..(start - 1) : ~MayStart(t, d)
        /\ IsWorkday(last)
        /\ Cardinality(Workdays(start, last)) = layout.input[t].duration
    BY <1>1, <1>4, <1>5, <1>7, <2>1, <2>2, PlaceIsEarliest
  <2>4. plan' = [plan EXCEPT ![t] = <<start, last>>]
    BY <2>1, <2>2
  <2>5. LayoutTypes'
    BY <1>1, <1>2, <2>3, <2>4 DEF LayoutInv, LayoutTypes
  <2>6. \A u \in ProjectTasks : Placed(u)' /\ u # t => Placed(u)
    BY <1>2, <2>4 DEF Placed
  <2>7. Deps(t)' = Deps(t) /\ plan'[t] = <<start, last>>
    BY <1>1, <1>2, <2>4 DEF Deps, Known
  <2>8. \A d \in Deps(t) : d # t /\ plan'[d] = plan[d]
    BY <1>1, <1>2, <1>4, <1>5, <2>4 DEF Placed
  <2>9. \A d : MayStart(t, d)' <=> MayStart(t, d)
    BY <1>1, <2>7, <2>8 DEF MayStart
  <2>10. plan'[t][1] = start /\ plan'[t][2] = last
    BY <2>7
  <2>11. LiesEarliest(t)'
    BY <1>1, <2>3, <2>9, <2>10 DEF LiesEarliest
  <2>12. \A d \in Deps(t)' : Placed(d)'
    BY <1>5, <2>7, <2>8 DEF Placed
  <2>13. ASSUME NEW u \in ProjectTasks, Placed(u)', ~KeepsDates(u)'
        PROVE  LiesEarliest(u)' /\ \A d \in Deps(u)' : Placed(d)'
    <3>1. CASE u = t
      BY <2>11, <2>12, <3>1
    <3>2. CASE u # t
      BY <1>3, <2>6, <2>13, <3>2, OthersStay
    <3> QED
      BY <3>1, <3>2
  <2>14. LaidOut'
    BY <1>1, <2>13 DEF LaidOut
  <2> QED
    BY <2>5, <2>14
<1> QED
  BY <1>6, <1>7

LEMMA EndOrderLayoutInv ==
  ASSUME LayoutInv, EndOrder
  PROVE  LayoutTypes' /\ LaidOut'
<1>1. plan' = plan /\ phase = "order" /\ phase' \in {"place", "cycle"}
  BY DEF EndOrder
<1>2. \A t \in ProjectTasks : ~Placed(t) /\ ~Placed(t)'
  BY <1>1 DEF LayoutInv, LaidOut, Placed
<1>3. LaidOut'
  BY <1>1, <1>2 DEF LaidOut
<1>4. CASE phase' = "place"
  <2>1. PICK input \in [ProjectTasks -> Inputs], keep \in BOOLEAN, d \in Starts :
          layout' = [input |-> input, keep |-> keep, base |-> NextWorkday(d)]
    BY <1>4 DEF EndOrder
  <2>2. d \in Nat
    BY InputsAssumption
  <2>3. NextWorkday(d) \in Nat /\ IsWorkday(NextWorkday(d))
    BY <2>2, WeekGoesOn
  <2> QED
    BY <1>1, <1>3, <2>1, <2>3 DEF LayoutInv, LayoutTypes
<1>5. CASE phase' = "cycle"
  BY <1>1, <1>3, <1>5 DEF LayoutInv, LayoutTypes
<1> QED
  BY <1>1, <1>4, <1>5

(* Steps that change neither dates nor what is laid out.                   *)
LEMMA FrameLayoutInv ==
  ASSUME LayoutInv, UNCHANGED <<edges, layout, plan>>,
         \/ phase' = phase
         \/ phase = "search" /\ phase' \in {"loop", "noLoop"}
         \/ phase = "place" /\ phase' = "planned" /\ \A t \in ProjectTasks : Placed(t)
  PROVE  LayoutTypes' /\ LaidOut'
<1>1. LayoutTypes'
  BY DEF LayoutInv, LayoutTypes
<1>2. \A t \in ProjectTasks :
        /\ Placed(t)' <=> Placed(t)
        /\ KeepsDates(t)' <=> KeepsDates(t)
        /\ Deps(t)' = Deps(t)
        /\ \A d : MayStart(t, d)' <=> MayStart(t, d)
  BY DEF Placed, KeepsDates, Deps, Known, MayStart
<1>3. \A t \in ProjectTasks : LiesEarliest(t)' <=> LiesEarliest(t)
  BY <1>2 DEF LiesEarliest
<1>4. \A u : Placed(u)' <=> Placed(u)
  BY DEF Placed
<1>5. LaidOut'
  BY <1>2, <1>3, <1>4 DEF LayoutInv, LaidOut
<1> QED
  BY <1>1, <1>5

LEMMA StepLayoutInv == LayoutInv /\ [EngineNext]_engineVars => LayoutInv'
<1> SUFFICES ASSUME LayoutInv, [EngineNext]_engineVars PROVE LayoutInv'
  OBVIOUS
<1>1. OrderInv'
  BY StepOrderInv DEF LayoutInv
<1> SUFFICES LayoutTypes' /\ LaidOut'
  BY <1>1 DEF LayoutInv
<1>2. CASE Found \/ Exhausted \/ UNCHANGED engineVars
  BY <1>2, FrameLayoutInv DEF Found, Exhausted, engineVars
<1>3. ASSUME NEW n \in AllTasks, Visit(n) PROVE LayoutTypes' /\ LaidOut'
  BY <1>3, FrameLayoutInv DEF Visit, VisitThen
<1>4. ASSUME NEW t \in ProjectTasks, Pop(t) PROVE LayoutTypes' /\ LaidOut'
  BY <1>4, FrameLayoutInv DEF Pop, Order
<1>5. CASE Return
  BY <1>5, FrameLayoutInv DEF Return, Placed
<1> QED
  BY <1>2, <1>3, <1>4, <1>5, PlaceLayoutInv, EndOrderLayoutInv DEF EngineNext

(* Every task that does not keep its dates starts on the first workday     *)
(* after everything it waits for and lasts its duration in workdays.       *)
THEOREM LaysOutEarliest == EngineSpec => []EarliestLayout
<1>1. LayoutInv => EarliestLayout
  BY DEF LayoutInv, LaidOut, EarliestLayout, LiesEarliest
<1>2. EngineSpec => []LayoutInv
  BY InitLayoutInv, StepLayoutInv, PTL DEF EngineSpec
<1> QED
  BY <1>1, <1>2, PTL
=============================================================================
