------------------------------- MODULE MCIssues -------------------------------
(* Two requests on one task, or one creating a task; two users, so that    *)
(* assignee lists can be taken in opposite orders.  Or three requests on   *)
(* an issue that is closed, open or not there yet.                         *)
EXTENDS Issues

CONSTANTS r1, r2, r3, t1, u1, u2, issue1

MCRequests == {r1, r2}
MCTasks == {t1}
MCUsers == {u1, u2}
MCStatuses == {"todo", "done"}
MCAssignments == {<<>>, <<u1>>, <<u1, u2>>, <<u2, u1>>}
MCIssueRequests == {r1, r2, r3}
MCIssueSet == {issue1}
MCIssueStatuses == {"in_progress", "closed"}
=============================================================================
