---------------------------- MODULE MCScheduleEngine ----------------------------
(* Three tasks, so that a loop can be two or three links long, one task    *)
(* elsewhere; tasks of one and of four days with no dates, with dates that end on a   *)
(* Saturday, and due before they start.                                    *)
EXTENDS ScheduleEngine

CONSTANTS ta, tb, tc, tx

MCTasks == {ta, tb, tc}
MCOutside == {tx}
MCInputs ==
  {[duration |-> 1, dates |-> NoDates, done |-> FALSE],
   [duration |-> 4, dates |-> NoDates, done |-> FALSE],
   [duration |-> 1, dates |-> <<3, 5>>, done |-> TRUE],
   [duration |-> 1, dates |-> <<8, 2>>, done |-> FALSE]}
MCStarts == {0, 5}
=============================================================================
