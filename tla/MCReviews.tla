------------------------------- MODULE MCReviews -------------------------------
(* The two halves of app/reviews.  The tables the notes and decisions are  *)
(* kept in are not those of the conversion, which only writes the media    *)
(* columns of its item, so each half runs while the other one is in its    *)
(* initial state (one initial state of the reviewing, for the conversion). *)
(*                                                                         *)
(* Reviewing: two revisions, one of them with a version, and one note.     *)
(* Either one request of any kind of the team, a decision and a move of    *)
(* the note between its steps; or a share and three                        *)
(* requests, of which one is the guest's.  Conversion: two items compete   *)
(* for one worker of each of two processes.                                *)
EXTENDS ClientReview, ReviewProcessing

CONSTANTS i1, i2, n1, artist, r1, r2, r3, a1, a2

MCItems == {i1, i2}
MCLinked == {i1}
MCNotes == {n1}
MCAuthors == {artist}
MCRequests == {r1, r2, r3}
Mix(a, b, c) == [r \in MCRequests |-> CASE r = r1 -> a [] r = r2 -> b [] r = r3 -> c]
MCMixes == {Mix({"change", "decide", "delete"}, {"decide"}, {"change"}),
            Mix({"guest"}, {"change", "reply"}, {"decide", "delete", "guest"})}
MCReplicas == {a1, a2}

ReviewsInit == ClientInit /\ ProcessingInit

ReviewsNext ==
  \/ ProcessingInit /\ ClientNext /\ UNCHANGED processingVars
  \/ ClientInit /\ May(r3, "change") /\ ProcessingNext /\ UNCHANGED clientVars

ReviewsSpec ==
  /\ ReviewsInit /\ [][ReviewsNext]_<<clientVars, processingVars>>
  /\ ProcessingFairness
=============================================================================
