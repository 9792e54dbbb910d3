------------------------------ MODULE MCTaskLinks ------------------------------
(* Three tasks let a loop go through a third one; two managers overlap.    *)
(* Dates are read and written per task: for them two linked tasks and an   *)
(* unlinked one are enough, and managers at rest, which MCFocus keeps to.  *)
EXTENDS TaskLinks, TLC

CONSTANTS ta, tb, tc, m1, m2, a1

MCTasks == {ta, tb, tc}
MCManagers == {m1, m2}
MCSchedulers == {a1}
MCCasting == {<<ta, tb>>}
MCTemplates == {{<<tb, ta>>}}
MCDates == {0, 2}
MCSymmetry == Permutations(MCManagers)

Undated == sched = [a \in Schedulers |-> NoSched] /\ done = {} /\ day = [t \in Tasks |-> 0]
ThirdApart == /\ req = [m \in Managers |-> NoReq]
              /\ \A e \in links : tc \notin {e[1], e[2]}
              /\ tc \notin done /\ day[tc] \in {0, 1}
MCFocus == Undated \/ ThirdApart
=============================================================================
