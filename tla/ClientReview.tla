----------------------------- MODULE ClientReview -----------------------------
(***************************************************************************)
(* Review share links (app/reviews/shares.py): management shares revisions *)
(* with a client, who has no account and adds notes, replies and decisions *)
(* through the link, next to the requests of ReviewFlow.                   *)
(*                                                                         *)
(* A guest's request reads the share, the item and the visibility of the   *)
(* note it replies to before its transaction begins: the share may be      *)
(* revoked, and the rows deleted, before it inserts.                       *)
(*                                                                         *)
(* There is one share.  Its expiry closes it the way a revocation does;    *)
(* its password and the switch that forbids decisions are left out.        *)
(***************************************************************************)
EXTENDS ReviewFlow

CONSTANT NoShare

VARIABLES
  share,   \* the share: its items, and whether it is still open
  decided  \* items with a decision row of the client

clientVars == <<vars, share, decided>>

ClientTypeOK ==
  /\ TypeOK
  /\ share \in {NoShare} \union [items : SUBSET Items, open : BOOLEAN]
  /\ decided \subseteq Items

ClientInit ==
  /\ Init
  /\ share = NoShare
  /\ decided = {}

-----------------------------------------------------------------------------
(* POST and DELETE /review/shares, by management.  A share is made only if *)
(* a guest is to use it.                                                   *)
CreateShare(items) ==
  /\ share = NoShare
  /\ \E r \in Requests : May(r, "guest")
  /\ items \subseteq Rows /\ items # {}
  /\ share' = [items |-> items, open |-> TRUE]
  /\ UNCHANGED <<vars, decided>>

CloseShare ==
  /\ share # NoShare /\ share.open
  /\ share' = [share EXCEPT !.open = FALSE]
  /\ UNCHANGED <<vars, decided>>

-----------------------------------------------------------------------------
(* insert_note of a reply: it goes to the top-level note of the thread,    *)
(* and what is said to the client stays visible to the client.             *)
Parents(n) == {note[n].vis} \union {p.vis : p \in note[n].replies}

InheritedNot(parent, asked) == asked
Inherited(parent, asked) == IF parent = "client" THEN "client" ELSE asked

AddReply(n, i, asked, parent) ==
  note' = [note EXCEPT ![n].replies = @ \union {[item |-> i, vis |-> Inherited(parent, asked)]}]

Insertable(n, i) == n \in NoteRows /\ ~DeletingItem(note[n].item) /\ i \in Rows /\ ~DeletingItem(i)

(* A reply of the team, posted on any revision.                            *)
Reply(r, n, i) ==
  /\ May(r, "reply")
  /\ Insertable(n, i)
  /\ \E parent \in Parents(n) : AddReply(n, i, "internal", parent)
  /\ req' = [req EXCEPT ![r] = [op |-> "reply", phase |-> "done", item |-> i]]
  /\ KeepReview
  /\ UNCHANGED <<raced, share, decided>>

(* The guest's link is open and names the item; a note it replies to is    *)
(* one the client sees.                                                    *)
GuestStart(r, i, n, kind) ==
  /\ May(r, "guest")
  /\ share # NoShare /\ share.open /\ i \in share.items \intersect Rows
  /\ CASE kind = "note" -> Free(n)
       [] kind = "reply" -> n \in NoteRows /\ "client" \in Parents(n)
       [] kind = "decision" -> TRUE
  /\ req' = [req EXCEPT ![r] = [op |-> "guest", phase |-> "insert", item |-> i, kind |-> kind,
                                note |-> n]]
  /\ KeepReview
  /\ UNCHANGED <<note, raced, share, decided>>

(* The transaction: rows that are gone by now break a foreign key or are   *)
(* not found again, and everything rolls back.  A decision of the client   *)
(* is a row and a message to the team: it changes no status.               *)
GuestInsert(r) ==
  /\ Is(r, "guest", {"insert"})
  /\ LET i == req[r].item
         n == req[r].note
         gone == i \notin Rows \/ (req[r].kind = "reply" /\ n \notin NoteRows) IN
       \/ /\ gone
          /\ UNCHANGED <<note, decided>>
       \/ /\ ~gone /\ req[r].kind = "note" /\ ~DeletingItem(i)
          /\ note' = [note EXCEPT ![n] = NewNote(i, Guest, "client")]
          /\ UNCHANGED decided
       \/ /\ ~gone /\ req[r].kind = "reply" /\ Insertable(n, i)
          /\ \E parent \in Parents(n) : AddReply(n, i, "client", parent)
          /\ UNCHANGED decided
       \/ /\ ~gone /\ req[r].kind = "decision" /\ ~DeletingItem(i)
          /\ decided' = decided \union {i}
          /\ UNCHANGED note
  /\ Goto(r, "done")
  /\ KeepReview
  /\ UNCHANGED <<raced, share>>

(* The team's requests leave the share alone; a revision that is deleted   *)
(* takes the client's decision with it.                                    *)
TeamFrame ==
  /\ UNCHANGED share
  /\ decided' = decided \intersect {i \in Items : item'[i].rev > 0}

ClientNext ==
  \/ Next /\ TeamFrame
  \/ CloseShare \/ \E items \in SUBSET Items : CreateShare(items)
  \/ \E r \in Requests :
       \/ GuestInsert(r)
       \/ \E n \in Notes, i \in Items :
            \/ Reply(r, n, i)
            \/ \E kind \in {"note", "reply", "decision"} : GuestStart(r, i, n, kind)

ClientSpec == ClientInit /\ [][ClientNext]_clientVars

-----------------------------------------------------------------------------
(* load_threads with client_only returns the rows whose visibility is      *)
(* 'client' and hangs each child under its note.                           *)
Children(n) == ({note[n].log[k] : k \in DOMAIN note[n].log} \ {Deleted}) \union note[n].replies
ClientView(n) == {child \in Children(n) : child.vis = "client"}

(* Whoever moves a note or replies to it, on whichever revision, and       *)
(* whether an approval verifies it: the client reads the whole thread of a *)
(* note that it sees, and nothing of the others.                           *)
ThreadsWhole ==
  \A n \in NoteRows : ClientView(n) = IF note[n].vis = "client" THEN Children(n) ELSE {}
=============================================================================
