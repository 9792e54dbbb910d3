------------------------------- MODULE TaskGraph -------------------------------
(***************************************************************************)
(* Task dependencies as a graph.  A link <<t, d>> says that task t waits   *)
(* for task d (task_dependencies.task_id, .depends_on_task_id).            *)
(* Reachability and cycles are defined by sets of tasks rather than paths, *)
(* so that they can be reasoned about without induction.                   *)
(***************************************************************************)

(* A set that the links never lead out of.                                 *)
Closed(S, links) == \A e \in links : e[1] \in S => e[2] \in S

(* t can be reached from d along the links.                                *)
Reachable(t, d, links, Tasks) ==
  \A S \in SUBSET Tasks : d \in S /\ Closed(S, links) => t \in S

(* Some task of every group waits for nobody in the group.                 *)
Acyclic(links, Tasks) ==
  \A S \in (SUBSET Tasks) \ {{}} : \E t \in S : \A d \in S : <<t, d>> \notin links
=============================================================================
