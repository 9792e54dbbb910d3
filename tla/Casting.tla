-------------------------------- MODULE Casting --------------------------------
(***************************************************************************)
(* Which assets appear in which shots (app/casting/router.py): assets are  *)
(* cast one by one, a shot's cast is replaced, the grid removes and adds   *)
(* many, a row is removed.                                                 *)
(*                                                                         *)
(* Transactions are READ COMMITTED: DELETE finds the rows it sees when it  *)
(* starts and then waits for those that open transactions are deleting;    *)
(* INSERT ... ON CONFLICT DO NOTHING waits for an open transaction that    *)
(* inserted or deletes the same key.  No handler locks the shot.           *)
(***************************************************************************)
EXTENDS TaskTemplates

CONSTANTS
  Casters,    \* requests that may be about the cast
  Shots, Assets, Names, Plain,  \* names of an asset's copies in a shot; the empty one
  Casts,      \* lists of cast members that a PUT may name
  Grids,      \* what the grid may send: lists of cells to clear and to add
  Initial     \* the cast there is at the start

Cells == Shots \X Assets \X Names
CastRow == [cell : Cells, by : Requests \union {None}, order : Nat]

ASSUME NamesAssumption == Plain \in Names /\ Casts \subseteq Seq(Assets \X Names)
ASSUME GridsAssumption == Grids \subseteq [off : Seq(Shots \X Assets), on : Seq(Shots \X Assets)]
ASSUME InitialAssumption ==
  Initial \subseteq CastRow /\ \E n \in {0} \union {row.order : row \in Initial} : \A row \in Initial : row.order <= n

VARIABLES
  cast,  \* shot_assets; a row is known by the request that made it
  creq   \* per request: what it asks for, its next statement, what it did

castVars == <<cast, creq>>

NoCast == [op |-> "none", phase |-> "new", shot |-> None, offs |-> <<>>, adds |-> <<>>, asked |-> <<>>,
           snap |-> {}, dels |-> {}, ins |-> {}, disturbed |-> FALSE]

CastTypeOK ==
  /\ cast \subseteq CastRow
  /\ \A r \in Requests :
       /\ creq[r].op \in {"none", "add", "replace", "grid", "remove"}
       /\ creq[r].phase \in {"new", "delete", "deleting", "insert", "done"}
       /\ creq[r].snap \subseteq CastRow /\ creq[r].dels \subseteq CastRow /\ creq[r].ins \subseteq CastRow

CastInit == cast = Initial /\ creq = [r \in Requests |-> NoCast]

Visible(r) == (cast \ creq[r].dels) \union creq[r].ins
CellsOf(rows) == {row.cell : row \in rows}
OfShot(rows, s) == {row \in rows : row.cell[1] = s}
CastOpen(q) == creq[q].phase \notin {"new", "done"}

CastWaitsFor(r, q) ==
  /\ q # r /\ CastOpen(q)
  /\ \/ creq[r].phase = "deleting" /\ creq[r].snap \intersect creq[q].dels # {}
     \/ /\ creq[r].phase = "insert" /\ creq[r].adds # <<>>
        /\ Head(creq[r].adds) \in CellsOf(creq[q].ins \union creq[q].dels)

CastBlocked(r) == \E q \in Requests : CastWaitsFor(r, q)

-----------------------------------------------------------------------------
BeginCast(r, op, s, offs, adds) ==
  /\ creq[r] = NoCast
  /\ creq' = [creq EXCEPT ![r] = [NoCast EXCEPT !.op = op, !.shot = s, !.offs = offs, !.adds = adds,
                !.asked = adds, !.phase = IF offs = <<>> THEN "insert" ELSE "delete"]]
  /\ UNCHANGED cast

(* POST casts one asset; PUT replaces a shot's cast; the grid clears cells, *)
(* whatever the names in them, and adds plain members.                     *)
AddCast(r, cell) == BeginCast(r, "add", None, <<>>, <<cell>>)

Replace(r, s, members) ==
  BeginCast(r, "replace", s, <<{s} \X Assets \X Names>>,
        [i \in DOMAIN members |-> <<s, members[i][1], members[i][2]>>])

Grid(r, grid) ==
  BeginCast(r, "grid", None, [i \in DOMAIN grid.off |-> {grid.off[i][1]} \X {grid.off[i][2]} \X Names],
        [i \in DOMAIN grid.on |-> <<grid.on[i][1], grid.on[i][2], Plain>>])

(* DELETE FROM shot_assets, one statement after the other.                 *)
FoundPlain(r) == {row \in Visible(r) : row.cell \in Head(creq[r].offs) /\ row.cell[3] = Plain}
Found(r) == {row \in Visible(r) : row.cell \in Head(creq[r].offs)}

StartDelete(r) ==
  /\ creq[r].phase = "delete"
  /\ creq' = [creq EXCEPT ![r].phase = "deleting", ![r].snap = Found(r), ![r].offs = Tail(@)]
  /\ UNCHANGED cast

EndDelete(r) ==
  /\ creq[r].phase = "deleting"
  /\ ~CastBlocked(r)
  /\ creq' = [creq EXCEPT ![r].dels = @ \union (creq[r].snap \intersect cast), ![r].snap = {},
                          ![r].phase = IF creq[r].offs = <<>> THEN "insert" ELSE "delete"]
  /\ UNCHANGED cast

(* _insert: after the last of the shot's rows that it sees.                *)
NextOrder(r, s) ==
  LET orders == {0} \union {row.order : row \in OfShot(Visible(r), s)} IN
  1 + CHOOSE n \in orders : \A m \in orders : m <= n

InsertCast(r) ==
  /\ creq[r].phase = "insert" /\ creq[r].adds # <<>>
  /\ ~CastBlocked(r)
  /\ LET cell == Head(creq[r].adds)
         row == [cell |-> cell, by |-> r, order |-> NextOrder(r, cell[1])] IN
       creq' = [creq EXCEPT ![r].adds = Tail(@),
                            ![r].ins = IF cell \in CellsOf(Visible(r)) THEN @ ELSE @ \union {row}]
  /\ UNCHANGED cast

(* COMMIT.  Whoever has started to delete does not see the new rows.       *)
Meets(q, r) == /\ creq[q].op = "replace" /\ creq[q].phase \in {"deleting", "insert"}
               /\ \E row \in creq[r].ins : row.cell[1] = creq[q].shot

CommitCast(r) ==
  /\ creq[r].phase = "insert" /\ creq[r].adds = <<>>
  /\ cast' = Visible(r)
  /\ creq' = [q \in Requests |-> IF q = r THEN [creq[q] EXCEPT !.phase = "done"]
                                 ELSE [creq[q] EXCEPT !.disturbed = @ \/ Meets(q, r)]]

(* DELETE of one row by its id.                                            *)
RemoveRow(r, row) ==
  /\ creq[r] = NoCast
  /\ row \in cast /\ \A q \in Requests : CastOpen(q) => row \notin creq[q].dels
  /\ cast' = cast \ {row}
  /\ creq' = [creq EXCEPT ![r].op = "remove", ![r].phase = "done"]

(* The database fails one transaction of a circle of waiting ones.         *)
CastWaits == {w \in Requests \X Requests : CastWaitsFor(w[1], w[2])}

CastVictim(r) ==
  /\ \E q \in Requests : CastWaitsFor(r, q) /\ Reachable(r, q, CastWaits, Requests)
  /\ creq' = [creq EXCEPT ![r].phase = "done"]
  /\ UNCHANGED cast

CastStep(r) ==
  \/ StartDelete(r) \/ EndDelete(r) \/ InsertCast(r) \/ CommitCast(r) \/ CastVictim(r)
  \/ /\ req[r] = NoReq /\ r \in Casters
     /\ \/ \E cell \in Cells : AddCast(r, cell)
        \/ \E s \in Shots, members \in Casts : Replace(r, s, members)
        \/ \E grid \in Grids : Grid(r, grid)
        \/ \E row \in cast : RemoveRow(r, row)

(* A request is about templates or about the cast.                         *)
StudioNext ==
  \E r \in Requests :
    \/ creq[r] = NoCast /\ Begin(r) /\ UNCHANGED castVars
    \/ Step(r) /\ UNCHANGED castVars
    \/ CastStep(r) /\ UNCHANGED vars

StudioInit == Init /\ CastInit

StudioSpec == StudioInit /\ [][StudioNext]_<<vars, castVars>>

-----------------------------------------------------------------------------
(* A replaced cast is what the PUT names, in its order, whatever else runs *)
(* with it, unless somebody committed a member of the shot after the PUT   *)
(* had begun to delete.                                                    *)
FirstIn(list, cell) == CHOOSE i \in DOMAIN list :
  list[i] = cell /\ \A j \in 1..(i-1) : list[j] # cell

CastReplaced ==
  [][\A r \in Requests :
       CommitCast(r) /\ creq[r].op = "replace" /\ ~creq[r].disturbed =>
         LET list == creq[r].asked
             rows == OfShot(cast', creq[r].shot) IN
         /\ CellsOf(rows) = {list[i] : i \in DOMAIN list}
         /\ \A a, b \in rows : a # b =>
              (a.order < b.order <=> FirstIn(list, a.cell) < FirstIn(list, b.cell))]_castVars
=============================================================================
