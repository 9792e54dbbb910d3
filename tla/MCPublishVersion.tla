--------------------------- MODULE MCPublishVersion ---------------------------
(* Two kinds of workload.  Numbering: three publishes of two               *)
(* representations, the first one in the batch, the second one in the      *)
(* batch, on its own or with an explicit number, the third one outside the *)
(* batch.  Reviewing: two publishes for the task and two patches, the      *)
(* second publish approved from the start when no patch is its row's.      *)
EXTENDS PublishVersion

CONSTANTS p1, p2, p3, q1, q2, fbx, abc, b1, c1

MCPublishes == {p1, p2, p3}
MCPatches == {q1, q2}
MCReps == {fbx, abc}
MCBatches == {b1}
MCContents == {c1}
MCExplicit == {1, 3}

Asked(rep, version, batch, forTask, as) ==
  [phase |-> "new", rep |-> rep, version |-> version, batch |-> batch, content |-> c1,
   forTask |-> forTask, status |-> as, number |-> 0, answer |-> "none"]
Publish(rep, version, batch, forTask) == Asked(rep, version, batch, forTask, "pending")
Patch(row, to) == [phase |-> "new", row |-> row, to |-> to, latest |-> "pending"]
NotSent(request) == [request EXCEPT !.phase = "done"]

Numbering ==
  {[pub |-> [p \in MCPublishes |->
               CASE p = p1 -> Publish(fbx, NextNumber, b1, FALSE)
                 [] p = p2 -> second
                 [] p = p3 -> third],
    patch |-> [q \in MCPatches |-> NotSent(Patch(p1, "pending"))]] :
   second \in {Publish(rep, NextNumber, batch, FALSE) : rep \in MCReps, batch \in {b1, NoBatch}}
              \union {Publish(rep, version, NoBatch, FALSE) : rep \in MCReps, version \in MCExplicit},
   third \in {Publish(rep, NextNumber, NoBatch, FALSE) : rep \in MCReps}}

Reviewing ==
  {[pub |-> [p \in MCPublishes |->
               CASE p = p1 -> Publish(fbx, NextNumber, NoBatch, TRUE)
                 [] p = p2 -> Asked(fbx, version, NoBatch, TRUE,
                                  IF row = p1 THEN "approved" ELSE "pending")
                 [] p = p3 -> NotSent(Publish(fbx, NextNumber, NoBatch, TRUE))],
    patch |-> [q \in MCPatches |->
                 IF q = q1 THEN Patch(p1, "approved") ELSE Patch(row, to)]] :
   version \in {3, NextNumber}, row \in {p1, p2}, to \in {"approved", "rejected"}}

MCWorkloads == Numbering \union Reviewing
=============================================================================
