---------------------------- MODULE VersionCatalog ----------------------------
(***************************************************************************)
(* What the version registry of one asset promises its readers: an entry,  *)
(* which is the row of one publish, names one representation and one       *)
(* positive number, no two entries have both in common, even when they     *)
(* point to the same content, an entry never changes or goes away, and its *)
(* content was stored before it appeared.  PublishVersion shows that the   *)
(* transactions of app/versions implement it.                              *)
(***************************************************************************)
EXTENDS Naturals

CONSTANTS Rows, Reps, Contents

VARIABLES catalog,      \* entries [row, rep, number, content]
          stored        \* contents in the content-addressed store

catalogVars == <<catalog, stored>>

Init == catalog = {} /\ stored = {}

Store(c) == stored' = stored \union {c} /\ UNCHANGED catalog

Publish ==
  \E e \in catalog' \ catalog :
    /\ e.row \in Rows /\ e.rep \in Reps /\ e.number \in Nat \ {0} /\ e.content \in stored
    /\ \A f \in catalog : <<f.rep, f.number>> # <<e.rep, e.number>>
    /\ catalog' = catalog \union {e}
    /\ UNCHANGED stored

Next == Publish \/ \E c \in Contents : Store(c)

Spec == Init /\ [][Next]_catalogVars
=============================================================================
