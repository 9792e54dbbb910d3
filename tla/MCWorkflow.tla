------------------------------ MODULE MCWorkflow ------------------------------
(* The two services of app/workflow.  They share Redis but no key, so a    *)
(* step of one neither enables nor disables a step of the other: it is     *)
(* enough to let each run while the other one is in its initial state.     *)
(* Locks: two sessions, so that one can overtake the other; three          *)
(* handlers, so that calls run between the two commands of another one.    *)
(* Presence: two sessions of a user, one with an asset, two listings at a  *)
(* time.                                                                   *)
EXTENDS AssetLocks, Presence

CONSTANTS s1, s2, h1, h2, h3, l1, l2

MCSessions == {s1, s2}
MCAssetSessions == {s1}
MCHandlers == {h1, h2, h3}
MCListings == {l1, l2}

WorkflowInit == Init /\ PresenceInit

WorkflowNext ==
  \/ PresenceInit /\ Next /\ UNCHANGED presenceVars
  \/ Init /\ PresenceNext /\ UNCHANGED vars

WorkflowSpec ==
  /\ WorkflowInit /\ [][WorkflowNext]_<<vars, presenceVars>>
  /\ \A h \in Handlers : WF_vars(HandlerStep(h))
  /\ WF_vars(Tick)
=============================================================================
