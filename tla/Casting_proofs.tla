---------------------------- MODULE Casting_proofs ----------------------------
(***************************************************************************)
(* Theorems about the studio of Casting: what a replaced cast is, which    *)
(* tasks of templates are duplicates, and how a kind keeps its default,    *)
(* for any requests, kinds, templates and things.                          *)
(***************************************************************************)
EXTENDS Casting, SequenceTheorems, WellFoundedInduction, TLAPS

-----------------------------------------------------------------------------
(* The cast.                                                               *)
CastReq == [op : {"none", "add", "replace", "grid", "remove"},
            phase : {"new", "delete", "deleting", "insert", "done"},
            shot : Shots \union {None}, offs : Seq(SUBSET Cells), adds : Seq(Cells), asked : Seq(Cells),
            snap : SUBSET CastRow, dels : SUBSET CastRow, ins : SUBSET CastRow, disturbed : BOOLEAN]

Bounded(rows) == \E n \in Nat : \A row \in rows : row.order <= n

CastTyped ==
  /\ cast \subseteq CastRow /\ Bounded(cast)
  /\ creq \in [Requests -> CastReq]
  /\ \A r \in Requests : Bounded(creq[r].ins) /\ (creq[r].phase = "delete" => creq[r].offs # <<>>)

(* The place of a cell in the list: where it occurs first.                 *)
First(list, cell, i) == list[i] = cell /\ \A j \in 1..(i-1) : list[j] # cell
Done(r) == Len(creq[r].asked) - Len(creq[r].adds)

(* A PUT that nobody disturbed: what it has read and not deleted, and what *)
(* it has inserted so far, in the order of its list.                       *)
Deleting(r) ==
  /\ creq[r].offs = <<>> /\ creq[r].adds = creq[r].asked
  /\ creq[r].dels = {} /\ creq[r].ins = {}
  /\ ~creq[r].disturbed => OfShot(cast, creq[r].shot) \subseteq creq[r].snap

InOrder(r, done) ==
  /\ \A i \in 1..done : creq[r].asked[i] \in CellsOf(creq[r].ins)
  /\ \A row \in creq[r].ins : \E i \in 1..done : First(creq[r].asked, row.cell, i)
  /\ \A a, b \in creq[r].ins : \A i, j \in 1..done :
       a # b /\ First(creq[r].asked, a.cell, i) /\ First(creq[r].asked, b.cell, j) =>
         (a.order < b.order <=> i < j)

Inserting(r) ==
  /\ OfShot(cast, creq[r].shot) \subseteq creq[r].dels
  /\ Done(r) \in 0..Len(creq[r].asked)
  /\ \A i \in 1..Len(creq[r].adds) : creq[r].adds[i] = creq[r].asked[Done(r) + i]
  /\ InOrder(r, Done(r))

Replaces(r) ==
  /\ creq[r].shot \in Shots
  /\ \A i \in 1..Len(creq[r].asked) : creq[r].asked[i][1] = creq[r].shot
  /\ creq[r].phase # "new"
  /\ creq[r].phase = "delete" =>
       /\ creq[r].offs = <<{creq[r].shot} \X Assets \X Names>> /\ creq[r].adds = creq[r].asked
       /\ creq[r].dels = {} /\ creq[r].ins = {}
  /\ creq[r].phase = "deleting" => Deleting(r)
  /\ creq[r].phase = "insert" /\ ~creq[r].disturbed => Inserting(r)

CastIInv == CastTyped /\ (\A r \in Requests : creq[r].op = "replace" => Replaces(r))

LEMMA InitCasting == CastInit => CastIInv
<1> SUFFICES ASSUME CastInit PROVE CastIInv
  OBVIOUS
<1>1. NoCast \in CastReq
  BY EmptySeq DEF NoCast, CastReq
<1>2. Bounded({}) /\ NoCast.ins = {} /\ NoCast.op # "replace" /\ NoCast.phase # "delete"
  BY DEF Bounded, NoCast
<1>3. Initial \subseteq CastRow /\ Bounded(Initial)
  BY InitialAssumption DEF Bounded, CastRow
<1> QED
  BY <1>1, <1>2, <1>3 DEF CastInit, CastIInv, CastTyped

-----------------------------------------------------------------------------
LEMMA LeastNat ==
  ASSUME NEW T \in SUBSET Nat, T # {}
  PROVE  \E n \in T : \A m \in T : n <= m
<1>1. PICK n \in T : \A m \in T : ~(<<m, n>> \in OpToRel(<, Nat))
  <2>1. \E n \in T : \A m \in T : ~(<<m, n>> \in OpToRel(<, Nat))
    BY NatLessThanWellFounded, WFMin
  <2> QED
    BY <2>1
<1>2. ASSUME NEW m \in T PROVE n <= m
  <2>1. ~(m < n)
    <3> SUFFICES ASSUME m < n PROVE <<m, n>> \in OpToRel(<, Nat)
      BY <1>1
    <3> QED
      BY DEF OpToRel
  <2> QED
    BY <2>1
<1> QED
  BY <1>2

LEMMA GreatestNat ==
  ASSUME NEW T \in SUBSET Nat, T # {}, NEW b \in Nat, \A m \in T : m <= b
  PROVE  \E n \in T : \A m \in T : m <= n
<1> DEFINE B == {n \in Nat : \A m \in T : m <= n}
<1>1. PICK n \in B : \A m \in B : n <= m
  BY LeastNat
<1>2. CASE n \in T
  BY <1>2
<1>3. CASE n \notin T
  <2>1. PICK t \in T : TRUE
    OBVIOUS
  <2>2. \A m \in T : m <= n - 1
    BY <1>3
  <2>3. n - 1 \in Nat /\ n - 1 \in B
    BY <2>1, <2>2
  <2> QED
    BY <1>1, <2>3
<1> QED
  BY <1>2, <1>3

LEMMA NextOrderIsAfter ==
  ASSUME CastTyped, NEW r \in Requests, NEW s
  PROVE  /\ NextOrder(r, s) \in Nat
         /\ \A row \in OfShot(Visible(r), s) : row.order < NextOrder(r, s)
<1> DEFINE T == {0} \union {row.order : row \in OfShot(Visible(r), s)}
<1>1. creq[r] \in CastReq
  BY DEF CastTyped
<1>2. creq[r].ins \subseteq CastRow
  BY <1>1 DEF CastReq
<1>3. Visible(r) \subseteq CastRow
  BY <1>2 DEF CastTyped, Visible
<1>4. T \in SUBSET Nat /\ T # {}
  BY <1>3 DEF OfShot, CastRow
<1>5. PICK m \in Nat : \A row \in cast : row.order <= m
  BY DEF CastTyped, Bounded
<1>6. PICK n \in Nat : \A row \in creq[r].ins : row.order <= n
  BY DEF CastTyped, Bounded
<1>7. \A k \in T : k <= m + n
  <2> SUFFICES ASSUME NEW row \in OfShot(Visible(r), s) PROVE row.order <= m + n
    OBVIOUS
  <2>1. row.order \in Nat /\ (row \in cast \/ row \in creq[r].ins)
    BY <1>3 DEF OfShot, CastRow, Visible
  <2> QED
    BY <2>1, <1>5, <1>6
<1>8. \E k \in T : \A l \in T : l <= k
  <2>1. m + n \in Nat
    OBVIOUS
  <2> HIDE DEF T
  <2> QED
    BY <1>4, <1>7, <2>1, GreatestNat
<1>9. PICK k \in T : NextOrder(r, s) = 1 + k /\ \A l \in T : l <= k
  <2>1. NextOrder(r, s) = 1 + CHOOSE k \in T : \A l \in T : l <= k
    BY DEF NextOrder
  <2> HIDE DEF T
  <2> QED
    BY <1>8, <2>1
<1>10. \A row \in OfShot(Visible(r), s) : row.order <= k /\ row.order \in Nat
  BY <1>9, <1>4
<1>11. k \in Nat
  BY <1>4
<1> QED
  BY <1>9, <1>10, <1>11

-----------------------------------------------------------------------------
(* The steps about the cast keep its types.                                *)
LEMMA BoundedUnion ==
  ASSUME NEW S \in SUBSET CastRow, NEW T \in SUBSET CastRow, Bounded(S), Bounded(T)
  PROVE  Bounded(S \union T)
<1>1. PICK m \in Nat : \A row \in S : row.order <= m
  BY DEF Bounded
<1>2. PICK n \in Nat : \A row \in T : row.order <= n
  BY DEF Bounded
<1>3. \A row \in S \union T : row.order <= m + n
  <2> SUFFICES ASSUME NEW row \in S \union T PROVE row.order <= m + n
    OBVIOUS
  <2>1. row.order \in Nat
    BY DEF CastRow
  <2> QED
    BY <1>1, <1>2, <2>1
<1>4. m + n \in Nat
  OBVIOUS
<1> QED
  BY <1>3, <1>4 DEF Bounded

LEMMA BoundedOne ==
  ASSUME NEW row \in CastRow
  PROVE  Bounded({row})
BY DEF Bounded, CastRow

LEMMA BoundedPart ==
  ASSUME NEW S, Bounded(S), NEW T \in SUBSET S
  PROVE  Bounded(T)
BY DEF Bounded

LEMMA CommitTyped ==
  ASSUME CastTyped, NEW r \in Requests
  PROVE  Visible(r) \subseteq CastRow /\ Bounded(Visible(r))
<1>1. creq[r].ins \subseteq CastRow /\ Bounded(creq[r].ins)
  BY DEF CastTyped, CastReq
<1>2. cast \ creq[r].dels \subseteq CastRow /\ Bounded(cast \ creq[r].dels)
  <2>1. cast \ creq[r].dels \in SUBSET cast
    OBVIOUS
  <2> QED
    BY <2>1, BoundedPart DEF CastTyped
<1> QED
  BY <1>1, <1>2, BoundedUnion DEF Visible

LEMMA BeginTyped ==
  ASSUME CastTyped, NEW r \in Requests, NEW op \in {"add", "replace", "grid"}, NEW s \in Shots \union {None},
         NEW offs \in Seq(SUBSET Cells), NEW adds \in Seq(Cells), BeginCast(r, op, s, offs, adds)
  PROVE  CastTyped'
<1>1. PICK phase \in {"insert", "delete"} : (phase = "delete" => offs # <<>>) /\
        creq' = [creq EXCEPT ![r] = [NoCast EXCEPT !.op = op, !.shot = s, !.offs = offs, !.adds = adds,
                                                   !.asked = adds, !.phase = phase]]
  BY DEF BeginCast
<1> DEFINE new == [NoCast EXCEPT !.op = op, !.shot = s, !.offs = offs, !.adds = adds,
                                 !.asked = adds, !.phase = phase]
<1>2. new \in CastReq /\ new.ins = {} /\ (new.phase = "delete" => new.offs # <<>>)
  BY <1>1 DEF NoCast, CastReq
<1>3. Bounded({})
  BY DEF Bounded
<1> HIDE DEF new
<1>4. creq' = [creq EXCEPT ![r] = new] /\ cast' = cast
  BY <1>1 DEF BeginCast, new
<1> QED
  BY <1>2, <1>3, <1>4 DEF CastTyped

LEMMA AddTyped ==
  ASSUME CastTyped, NEW r \in Requests, NEW cell \in Cells, AddCast(r, cell)
  PROVE  CastTyped'
<1>1. <<cell>> \in Seq(Cells) /\ <<>> \in Seq(SUBSET Cells)
  BY EmptySeq
<1> QED
  BY <1>1, BeginTyped DEF AddCast

(* The list of a PUT, as cells.                                            *)
LEMMA MembersTyped ==
  ASSUME NEW s \in Shots, NEW members \in Casts
  PROVE  LET cells == [i \in DOMAIN members |-> <<s, members[i][1], members[i][2]>>] IN
           /\ cells \in Seq(Cells)
           /\ \A i \in 1..Len(cells) : cells[i][1] = s
<1> DEFINE cells == [i \in DOMAIN members |-> <<s, members[i][1], members[i][2]>>]
<1>1. members \in Seq(Assets \X Names)
  BY NamesAssumption
<1>2. PICK n \in Nat : n = Len(members)
  BY <1>1, LenProperties
<1>3. DOMAIN members = 1..n /\ \A i \in 1..n : members[i] \in Assets \X Names
  BY <1>1, <1>2, LenProperties
<1>4. \A i \in 1..n : cells[i] \in Cells /\ cells[i][1] = s
  BY <1>3 DEF Cells
<1>5. cells \in Seq(Cells) /\ Len(cells) = n
  <2>1. cells \in [1..n -> Cells]
    BY <1>3, <1>4
  <2> HIDE DEF cells
  <2> QED
    BY <2>1, <1>2
<1> QED
  BY <1>4, <1>5

LEMMA ReplaceTyped ==
  ASSUME CastTyped, NEW r \in Requests, NEW s \in Shots, NEW members \in Casts, Replace(r, s, members)
  PROVE  CastTyped'
<1>1. <<{s} \X Assets \X Names>> \in Seq(SUBSET Cells)
  BY DEF Cells
<1> QED
  BY <1>1, MembersTyped, BeginTyped DEF Replace

LEMMA GridTyped ==
  ASSUME CastTyped, NEW r \in Requests, NEW grid \in Grids, Grid(r, grid)
  PROVE  CastTyped'
<1> DEFINE offs == [i \in DOMAIN grid.off |-> {grid.off[i][1]} \X {grid.off[i][2]} \X Names]
           adds == [i \in DOMAIN grid.on |-> <<grid.on[i][1], grid.on[i][2], Plain>>]
<1>1. grid.off \in Seq(Shots \X Assets) /\ grid.on \in Seq(Shots \X Assets)
  BY GridsAssumption
<1>2. offs \in Seq(SUBSET Cells)
  <2>1. PICK n \in Nat : n = Len(grid.off)
    BY <1>1, LenProperties
  <2>2. DOMAIN grid.off = 1..n /\ \A i \in 1..n : grid.off[i] \in Shots \X Assets
    BY <1>1, <2>1, LenProperties
  <2>3. offs \in [1..n -> SUBSET Cells]
    BY <2>2 DEF Cells
  <2> HIDE DEF offs
  <2> QED
    BY <2>1, <2>3
<1>3. adds \in Seq(Cells)
  <2>1. PICK n \in Nat : n = Len(grid.on)
    BY <1>1, LenProperties
  <2>2. DOMAIN grid.on = 1..n /\ \A i \in 1..n : grid.on[i] \in Shots \X Assets
    BY <1>1, <2>1, LenProperties
  <2>3. adds \in [1..n -> Cells]
    BY <2>2, NamesAssumption DEF Cells
  <2> HIDE DEF adds
  <2> QED
    BY <2>1, <2>3
<1>4. BeginCast(r, "grid", None, offs, adds)
  BY DEF Grid
<1> HIDE DEF offs, adds
<1> QED
  BY <1>2, <1>3, <1>4, BeginTyped

LEMMA StartDeleteTyped ==
  ASSUME CastTyped, NEW r \in Requests, StartDelete(r)
  PROVE  CastTyped'
<1>1. creq[r] \in CastReq /\ creq[r].offs \in Seq(SUBSET Cells) /\ creq[r].offs # <<>>
  BY DEF CastTyped, CastReq, StartDelete
<1>2. PICK snap \in SUBSET CastRow : creq' = [creq EXCEPT ![r] =
        [creq[r] EXCEPT !.phase = "deleting", !.snap = snap, !.offs = Tail(creq[r].offs)]]
  <2>1. Found(r) \in SUBSET CastRow
    BY CommitTyped DEF Found
  <2>2. creq' = [creq EXCEPT ![r] =
        [creq[r] EXCEPT !.phase = "deleting", !.snap = Found(r), !.offs = Tail(creq[r].offs)]]
    BY DEF StartDelete
  <2> QED
    BY <2>1, <2>2
<1>3. Tail(creq[r].offs) \in Seq(SUBSET Cells)
  BY <1>1, HeadTailProperties
<1> DEFINE new == [creq[r] EXCEPT !.phase = "deleting", !.snap = snap, !.offs = Tail(creq[r].offs)]
<1>4. new \in CastReq /\ new.ins = creq[r].ins /\ new.phase # "delete"
  BY <1>1, <1>3 DEF CastReq
<1> HIDE DEF new
<1>5. creq' = [creq EXCEPT ![r] = new] /\ cast' = cast
  BY <1>2 DEF StartDelete, new
<1> QED
  BY <1>4, <1>5 DEF CastTyped

LEMMA EndDeleteTyped ==
  ASSUME CastTyped, NEW r \in Requests, EndDelete(r)
  PROVE  CastTyped'
<1>1. creq[r] \in CastReq
  BY DEF CastTyped
<1>2. PICK phase \in {"insert", "delete"}, dels \in SUBSET CastRow :
        (phase = "delete" => creq[r].offs # <<>>) /\ creq' = [creq EXCEPT ![r] =
        [creq[r] EXCEPT !.dels = dels, !.snap = {}, !.phase = phase]]
  <2>1. creq[r].dels \union (creq[r].snap \intersect cast) \in SUBSET CastRow
    BY <1>1 DEF CastReq, CastTyped
  <2> QED
    BY <2>1 DEF EndDelete
<1> DEFINE new == [creq[r] EXCEPT !.dels = dels, !.snap = {}, !.phase = phase]
<1>4. new \in CastReq /\ new.ins = creq[r].ins /\ (new.phase = "delete" => new.offs # <<>>)
  BY <1>1, <1>2 DEF CastReq
<1> HIDE DEF new
<1>5. creq' = [creq EXCEPT ![r] = new] /\ cast' = cast
  BY <1>2 DEF EndDelete, new
<1> QED
  BY <1>4, <1>5 DEF CastTyped

LEMMA InsertTyped ==
  ASSUME CastTyped, NEW r \in Requests, InsertCast(r)
  PROVE  CastTyped'
<1>1. creq[r] \in CastReq /\ creq[r].adds \in Seq(Cells) /\ creq[r].adds # <<>>
      /\ creq[r].ins \in SUBSET CastRow /\ Bounded(creq[r].ins)
  BY DEF CastTyped, CastReq, InsertCast
<1>2. Tail(creq[r].adds) \in Seq(Cells) /\ Head(creq[r].adds) \in Cells
  BY <1>1, HeadTailProperties
<1> DEFINE cell == Head(creq[r].adds)
           row == [cell |-> cell, by |-> r, order |-> NextOrder(r, cell[1])]
<1>3. row \in CastRow
  BY <1>2, NextOrderIsAfter DEF CastRow
<1>4. PICK ins \in SUBSET CastRow : Bounded(ins) /\
        creq' = [creq EXCEPT ![r] = [creq[r] EXCEPT !.adds = Tail(creq[r].adds), !.ins = ins]]
  <2>1. CASE cell \in CellsOf(Visible(r))
    BY <1>1, <2>1 DEF InsertCast
  <2>2. CASE cell \notin CellsOf(Visible(r))
    <3>1. Bounded(creq[r].ins \union {row})
      BY <1>1, <1>3, BoundedOne, BoundedUnion
    <3>2. creq' = [creq EXCEPT ![r] = [creq[r] EXCEPT !.adds = Tail(creq[r].adds),
                                                      !.ins = creq[r].ins \union {row}]]
      BY <2>2 DEF InsertCast
    <3> QED
      BY <1>1, <1>3, <3>1, <3>2
  <2> QED
    BY <2>1, <2>2
<1> DEFINE new == [creq[r] EXCEPT !.adds = Tail(creq[r].adds), !.ins = ins]
<1>5. new \in CastReq /\ new.ins = ins /\ new.phase = creq[r].phase /\ new.offs = creq[r].offs
  BY <1>1, <1>2 DEF CastReq
<1> HIDE DEF new
<1>6. creq' = [creq EXCEPT ![r] = new] /\ cast' = cast
  BY <1>4 DEF InsertCast, new
<1> QED
  BY <1>4, <1>5, <1>6 DEF CastTyped

LEMMA CommitCastTyped ==
  ASSUME CastTyped, NEW r \in Requests, CommitCast(r)
  PROVE  CastTyped'
<1>1. cast' \subseteq CastRow /\ Bounded(cast)'
  BY CommitTyped DEF CommitCast, Bounded
<1>2. \A q \in Requests : creq'[q] \in CastReq /\ creq'[q].ins = creq[q].ins
      /\ (creq'[q].phase = "delete" => creq[q].phase = "delete" /\ creq'[q].offs = creq[q].offs)
  <2> TAKE q \in Requests
  <2>1. creq[q] \in CastReq
    BY DEF CastTyped
  <2>2. CASE q = r
    BY <2>1, <2>2 DEF CommitCast, CastReq
  <2>3. CASE q # r
    <3>1. PICK b \in BOOLEAN : creq'[q] = [creq[q] EXCEPT !.disturbed = b]
      <4>1. (creq[q].disturbed \/ Meets(q, r)) \in BOOLEAN
        OBVIOUS
      <4> QED
        BY <2>3, <4>1 DEF CommitCast
    <3> QED
      BY <2>1, <3>1 DEF CastReq
  <2> QED
    BY <2>2, <2>3
<1>3. \E f : creq' = [q \in Requests |-> f[q]]
  <2>1. creq' = [q \in Requests |-> creq'[q]]
    BY DEF CommitCast
  <2> QED
    BY <2>1
<1> QED
  BY <1>1, <1>2, <1>3 DEF CastTyped, Bounded

LEMMA RemoveRowTyped ==
  ASSUME CastTyped, NEW r \in Requests, NEW row \in cast, RemoveRow(r, row)
  PROVE  CastTyped'
<1>1. creq[r] \in CastReq
  BY DEF CastTyped
<1>2. cast' \subseteq CastRow /\ Bounded(cast)'
  BY DEF CastTyped, RemoveRow, Bounded
<1> DEFINE new == [creq[r] EXCEPT !.op = "remove", !.phase = "done"]
<1>4. new \in CastReq /\ new.ins = creq[r].ins /\ new.phase = "done"
  BY <1>1 DEF CastReq
<1> HIDE DEF new
<1>5. creq' = [creq EXCEPT ![r] = new]
  BY DEF RemoveRow, new
<1> QED
  BY <1>2, <1>4, <1>5 DEF CastTyped

LEMMA CastVictimTyped ==
  ASSUME CastTyped, NEW r \in Requests, CastVictim(r)
  PROVE  CastTyped'
<1>1. creq[r] \in CastReq
  BY DEF CastTyped
<1> DEFINE new == [creq[r] EXCEPT !.phase = "done"]
<1>4. new \in CastReq /\ new.ins = creq[r].ins /\ new.phase = "done"
  BY <1>1 DEF CastReq
<1> HIDE DEF new
<1>5. creq' = [creq EXCEPT ![r] = new] /\ cast' = cast
  BY DEF CastVictim, new
<1> QED
  BY <1>4, <1>5 DEF CastTyped

-----------------------------------------------------------------------------
(* What a PUT does, and what the others do to it.                          *)

(* Others leave its record, or mark it disturbed, and do not bring rows of *)
(* its shot unless they mark it.                                           *)
LEMMA ReplacesKept ==
  ASSUME CastIInv, NEW q \in Requests, creq[q].op = "replace",
         NEW d \in BOOLEAN, creq'[q] = [creq[q] EXCEPT !.disturbed = d], creq[q].disturbed => d,
         ~d /\ creq[q].phase \in {"deleting", "insert"} =>
           OfShot(cast', creq[q].shot) \subseteq OfShot(cast, creq[q].shot)
  PROVE  Replaces(q)'
<1>1. creq[q] \in CastReq /\ Replaces(q)
  BY DEF CastIInv, CastTyped
<1>2. /\ creq'[q].op = creq[q].op /\ creq'[q].phase = creq[q].phase /\ creq'[q].shot = creq[q].shot
      /\ creq'[q].offs = creq[q].offs /\ creq'[q].adds = creq[q].adds /\ creq'[q].asked = creq[q].asked
      /\ creq'[q].snap = creq[q].snap /\ creq'[q].dels = creq[q].dels /\ creq'[q].ins = creq[q].ins
      /\ creq'[q].disturbed = d
  BY <1>1 DEF CastReq
<1>3. creq[q].phase = "deleting" => Deleting(q)'
  <2> SUFFICES ASSUME creq[q].phase = "deleting" PROVE Deleting(q)'
    OBVIOUS
  <2>1. Deleting(q)
    BY <1>1 DEF Replaces
  <2>2. ~d => OfShot(cast', creq'[q].shot) \subseteq creq'[q].snap
    BY <1>2, <2>1 DEF Deleting
  <2> QED
    BY <1>2, <2>1, <2>2 DEF Deleting
<1>4. creq[q].phase = "insert" /\ ~d => Inserting(q)'
  <2> SUFFICES ASSUME creq[q].phase = "insert", ~d PROVE Inserting(q)'
    OBVIOUS
  <2>1. Inserting(q)
    BY <1>1 DEF Replaces
  <2>2. Done(q)' = Done(q)
    BY <1>2 DEF Done
  <2>3. InOrder(q, Done(q))' <=> InOrder(q, Done(q))
    BY <1>2, <2>2 DEF InOrder, CellsOf, First
  <2>4. OfShot(cast', creq'[q].shot) \subseteq creq'[q].dels
    BY <1>2, <2>1 DEF Inserting
  <2> QED
    BY <1>2, <2>1, <2>2, <2>3, <2>4 DEF Inserting
<1> QED
  BY <1>1, <1>2, <1>3, <1>4 DEF Replaces

LEMMA BeginReplaces ==
  ASSUME CastIInv, NEW r \in Requests, NEW s \in Shots, NEW members \in Casts, Replace(r, s, members)
  PROVE  Replaces(r)'
<1> DEFINE cells == [i \in DOMAIN members |-> <<s, members[i][1], members[i][2]>>]
<1>1. cells \in Seq(Cells) /\ \A i \in 1..Len(cells) : cells[i][1] = s
  BY MembersTyped
<1> HIDE DEF cells
<1>2. BeginCast(r, "replace", s, <<{s} \X Assets \X Names>>, cells)
  BY DEF Replace, cells
<1>3. r \in DOMAIN creq
  BY DEF CastIInv, CastTyped
<1>4. creq'[r] = [NoCast EXCEPT !.op = "replace", !.shot = s, !.offs = <<{s} \X Assets \X Names>>,
                                !.adds = cells, !.asked = cells, !.phase = "delete"]
  BY <1>2, <1>3 DEF BeginCast
<1>5. /\ creq'[r].phase = "delete" /\ creq'[r].shot = s /\ creq'[r].asked = cells /\ creq'[r].adds = cells
      /\ creq'[r].offs = <<{s} \X Assets \X Names>> /\ creq'[r].dels = {} /\ creq'[r].ins = {}
  BY <1>4 DEF NoCast
<1> QED
  BY <1>1, <1>5 DEF Replaces

LEMMA StartReplaces ==
  ASSUME CastIInv, NEW r \in Requests, creq[r].op = "replace", StartDelete(r)
  PROVE  Replaces(r)'
<1>1. creq[r] \in CastReq /\ Replaces(r) /\ r \in DOMAIN creq
  BY DEF CastIInv, CastTyped
<1> DEFINE s == creq[r].shot
<1>2. /\ s \in Shots /\ creq[r].offs = <<{s} \X Assets \X Names>> /\ creq[r].adds = creq[r].asked
      /\ creq[r].dels = {} /\ creq[r].ins = {}
  BY <1>1 DEF Replaces, StartDelete
<1>3. /\ creq'[r].phase = "deleting" /\ creq'[r].snap = Found(r) /\ creq'[r].offs = Tail(creq[r].offs)
      /\ creq'[r].shot = s /\ creq'[r].adds = creq[r].adds /\ creq'[r].asked = creq[r].asked
      /\ creq'[r].dels = {} /\ creq'[r].ins = {}
  BY <1>1, <1>2 DEF StartDelete, CastReq
<1>4. OfShot(cast, s) \subseteq Found(r)
  <2> SUFFICES ASSUME NEW row \in cast, row.cell[1] = s PROVE row \in Found(r)
    BY DEF OfShot
  <2>1. row.cell \in Shots \X Assets \X Names
    BY DEF CastIInv, CastTyped, CastRow, Cells
  <2>2. row.cell \in {s} \X Assets \X Names
    BY <2>1
  <2>3. Head(creq[r].offs) = {s} \X Assets \X Names
    BY <1>2
  <2> QED
    BY <1>2, <2>2, <2>3 DEF Found, Visible
<1>5. Tail(creq[r].offs) = <<>>
  BY <1>2
<1>6. cast' = cast
  BY DEF StartDelete
<1>7. Deleting(r)'
  BY <1>2, <1>3, <1>4, <1>5, <1>6 DEF Deleting
<1> QED
  BY <1>1, <1>2, <1>3, <1>7 DEF Replaces

LEMMA EndReplaces ==
  ASSUME CastIInv, NEW r \in Requests, creq[r].op = "replace", EndDelete(r)
  PROVE  Replaces(r)'
<1>1. creq[r] \in CastReq /\ Replaces(r) /\ Deleting(r) /\ r \in DOMAIN creq
  BY DEF CastIInv, CastTyped, Replaces, EndDelete
<1>2. /\ creq'[r].phase = "insert" /\ creq'[r].dels = creq[r].snap \intersect cast
      /\ creq'[r].shot = creq[r].shot /\ creq'[r].adds = creq[r].asked /\ creq'[r].asked = creq[r].asked
      /\ creq'[r].ins = {} /\ creq'[r].disturbed = creq[r].disturbed
  BY <1>1 DEF EndDelete, Deleting, CastReq
<1>3. cast' = cast
  BY DEF EndDelete
<1>4. ~creq[r].disturbed => Inserting(r)'
  <2> SUFFICES ASSUME ~creq[r].disturbed PROVE Inserting(r)'
    OBVIOUS
  <2>1. OfShot(cast', creq'[r].shot) \subseteq creq'[r].dels
    BY <1>1, <1>2, <1>3 DEF Deleting, OfShot
  <2>2. PICK n \in Nat : n = Len(creq[r].asked)
    BY <1>1, LenProperties DEF CastReq
  <2>3. Done(r)' = 0
    BY <1>2, <2>2 DEF Done
  <2>4. InOrder(r, Done(r))'
    BY <1>2, <2>3 DEF InOrder
  <2> QED
    BY <1>2, <2>1, <2>2, <2>3, <2>4 DEF Inserting
<1> QED
  BY <1>1, <1>2, <1>4 DEF Replaces

LEMMA VictimReplaces ==
  ASSUME CastIInv, NEW r \in Requests, creq[r].op = "replace", CastVictim(r) \/ CommitCast(r)
  PROVE  Replaces(r)'
<1>1. creq[r] \in CastReq /\ Replaces(r) /\ r \in DOMAIN creq
  BY DEF CastIInv, CastTyped
<1>2. /\ creq'[r].phase = "done" /\ creq'[r].shot = creq[r].shot /\ creq'[r].asked = creq[r].asked
  BY <1>1 DEF CastVictim, CommitCast, CastReq
<1> QED
  BY <1>1, <1>2 DEF Replaces

(* A cell occurs first in one place.                                       *)
LEMMA FirstIsUnique ==
  ASSUME NEW list, NEW cell, NEW i \in Nat \ {0}, NEW j \in Nat \ {0}, First(list, cell, i), First(list, cell, j)
  PROVE  i = j
<1>1. ~(i < j)
  BY DEF First
<1>2. ~(j < i)
  BY DEF First
<1> QED
  BY <1>1, <1>2

(* The rows that an undisturbed PUT sees in its shot are its own.          *)
LEMMA SeesItsOwn ==
  ASSUME CastIInv, NEW r \in Requests, creq[r].op = "replace", Inserting(r)
  PROVE  /\ \A row \in creq[r].ins : row.cell[1] = creq[r].shot
         /\ OfShot(Visible(r), creq[r].shot) = creq[r].ins
<1>1. creq[r] \in CastReq /\ Replaces(r)
  BY DEF CastIInv, CastTyped
<1>2. PICK n \in Nat : n = Len(creq[r].asked)
  BY <1>1, LenProperties DEF CastReq
<1>3. \A row \in creq[r].ins : row.cell[1] = creq[r].shot
  <2> TAKE row \in creq[r].ins
  <2>1. PICK i \in 1..Done(r) : creq[r].asked[i] = row.cell
    BY DEF Inserting, InOrder, First
  <2>2. i \in 1..n
    BY <1>2, <2>1 DEF Inserting
  <2> QED
    BY <1>1, <1>2, <2>1, <2>2 DEF Replaces
<1> QED
  BY <1>3 DEF OfShot, Visible, Inserting

LEMMA InsertKeepsOrder ==
  ASSUME CastIInv, NEW r \in Requests, creq[r].op = "replace", InsertCast(r), Inserting(r),
         NEW d \in Nat, d = Done(r)
  PROVE  InOrder(r, d + 1)'
<1>1. creq[r] \in CastReq /\ Replaces(r) /\ r \in DOMAIN creq
  BY DEF CastIInv, CastTyped
<1> DEFINE asked == creq[r].asked
           ins == creq[r].ins
           cell == Head(creq[r].adds)
           row == [cell |-> cell, by |-> r, order |-> NextOrder(r, cell[1])]
<1>2. InOrder(r, d)
  BY DEF Inserting
<1>3. /\ cell = asked[d + 1] /\ cell[1] = creq[r].shot
      /\ creq'[r].asked = asked
      /\ creq'[r].ins = IF cell \in CellsOf(Visible(r)) THEN ins ELSE ins \union {row}
  <2>1. creq[r].adds \in Seq(Cells) /\ creq[r].adds # <<>>
    BY <1>1 DEF CastReq, InsertCast
  <2>2. PICK k \in Nat \ {0} : k = Len(creq[r].adds)
    BY <2>1, EmptySeq
  <2>3. PICK n \in Nat : n = Len(asked)
    BY <1>1, LenProperties DEF CastReq
  <2>4. d + k = n
    BY <2>2, <2>3 DEF Done
  <2>5. cell = creq[r].adds[1]
    BY <2>1
  <2>6. cell = asked[d + 1]
    BY <2>2, <2>5 DEF Inserting
  <2>7. asked[d + 1][1] = creq[r].shot
    <3>1. d + 1 \in 1..n
      BY <2>4
    <3>2. \A i \in 1..n : asked[i][1] = creq[r].shot
      BY <1>1, <2>3 DEF Replaces
    <3> QED
      BY <3>1, <3>2
  <2>8. /\ creq'[r].asked = asked
        /\ creq'[r].ins = IF cell \in CellsOf(Visible(r)) THEN ins ELSE ins \union {row}
    BY <1>1 DEF InsertCast, CastReq
  <2> QED
    BY <2>6, <2>7, <2>8
<1>4. OfShot(Visible(r), creq[r].shot) = ins
  BY SeesItsOwn
<1>5. \A a \in ins : \A i \in 1..(d + 1) : First(asked, a.cell, i) => i \in 1..d
  <2> TAKE a \in ins
  <2> TAKE i \in 1..(d + 1)
  <2> HAVE First(asked, a.cell, i)
  <2>1. PICK j \in 1..d : First(asked, a.cell, j)
    BY <1>2 DEF InOrder
  <2>2. i = j
    BY <2>1, FirstIsUnique
  <2> QED
    BY <2>1, <2>2
<1>6. CASE cell \in CellsOf(Visible(r))
  <2>1. PICK b \in Visible(r) : b.cell = cell
    BY <1>6 DEF CellsOf
  <2>2. b \in ins
    BY <1>3, <1>4, <2>1 DEF OfShot
  <2>3. creq'[r].ins = ins /\ creq'[r].asked = asked
    BY <1>3, <1>6
  <2>4. \A i \in 1..(d + 1) : asked[i] \in CellsOf(ins)
    <3> TAKE i \in 1..(d + 1)
    <3>1. CASE i = d + 1
      BY <1>3, <2>1, <2>2, <3>1 DEF CellsOf
    <3>2. CASE i \in 1..d
      BY <1>2, <3>2 DEF InOrder
    <3> QED
      BY <3>1, <3>2
  <2>5. \A a \in ins : \E i \in 1..(d + 1) : First(asked, a.cell, i)
    BY <1>2 DEF InOrder
  <2>6. \A a, c \in ins : \A i, j \in 1..(d + 1) :
          a # c /\ First(asked, a.cell, i) /\ First(asked, c.cell, j) => (a.order < c.order <=> i < j)
    BY <1>2, <1>5 DEF InOrder
  <2> HIDE DEF asked, ins
  <2> QED
    BY <2>3, <2>4, <2>5, <2>6 DEF InOrder, CellsOf
<1>7. CASE cell \notin CellsOf(Visible(r))
  <2>1. creq'[r].ins = ins \union {row} /\ creq'[r].asked = asked
    BY <1>3, <1>7
  <2>2. First(asked, cell, d + 1)
    <3>1. \A j \in 1..d : asked[j] # cell
      <4> TAKE j \in 1..d
      <4>1. PICK a \in ins : a.cell = asked[j]
        BY <1>2 DEF InOrder, CellsOf
      <4>2. a \in Visible(r)
        BY DEF Visible
      <4> QED
        BY <1>7, <4>1, <4>2 DEF CellsOf
    <3> QED
      BY <1>3, <3>1 DEF First
  <2>3. row.cell = cell /\ row.order = NextOrder(r, creq[r].shot)
    BY <1>3
  <2>4. \A a \in ins : a.order \in Nat /\ a.order < row.order /\ row.order \in Nat
    <3>1. \A a \in ins : a.order \in Nat
      BY <1>1 DEF CastReq, CastRow
    <3>2. CastTyped
      BY DEF CastIInv
    <3> QED
      BY <1>4, <2>3, <3>1, <3>2, NextOrderIsAfter
  <2>5. \A i \in 1..(d + 1) : First(asked, cell, i) => i = d + 1
    BY <2>2, FirstIsUnique
  <2> HIDE DEF asked, ins, cell, row
  <2>6. \A i \in 1..(d + 1) : asked[i] \in CellsOf(ins \union {row})
    <3> TAKE i \in 1..(d + 1)
    <3>1. CASE i = d + 1
      BY <1>3, <2>3, <3>1 DEF CellsOf
    <3>2. CASE i \in 1..d
      BY <1>2, <3>2 DEF InOrder, CellsOf, asked, ins
    <3> QED
      BY <3>1, <3>2
  <2>7. \A a \in ins \union {row} : \E i \in 1..(d + 1) : First(asked, a.cell, i)
    <3> TAKE a \in ins \union {row}
    <3>1. CASE a = row
      BY <2>2, <2>3, <3>1
    <3>2. CASE a \in ins
      <4>1. PICK i \in 1..d : First(asked, a.cell, i)
        BY <1>2, <3>2 DEF InOrder, asked, ins
      <4> QED
        BY <4>1
    <3> QED
      BY <3>1, <3>2
  <2>8. \A a, c \in ins \union {row} : \A i, j \in 1..(d + 1) :
          a # c /\ First(asked, a.cell, i) /\ First(asked, c.cell, j) => (a.order < c.order <=> i < j)
    <3> SUFFICES ASSUME NEW a \in ins \union {row}, NEW c \in ins \union {row},
                        NEW i \in 1..(d + 1), NEW j \in 1..(d + 1),
                        a # c, First(asked, a.cell, i), First(asked, c.cell, j)
                 PROVE  a.order < c.order <=> i < j
      OBVIOUS
    <3>1. CASE a \in ins /\ c \in ins
      BY <1>2, <1>5, <3>1 DEF InOrder, asked, ins
    <3>2. CASE a \in ins /\ c = row
      <4>1. i \in 1..d /\ j = d + 1
        BY <1>5, <2>3, <2>5, <3>2
      <4> QED
        BY <2>4, <3>2, <4>1
    <3>3. CASE a = row /\ c \in ins
      <4>1. j \in 1..d /\ i = d + 1
        BY <1>5, <2>3, <2>5, <3>3
      <4> QED
        BY <2>4, <3>3, <4>1
    <3> QED
      BY <3>1, <3>2, <3>3
  <2> QED
    BY <2>1, <2>6, <2>7, <2>8 DEF InOrder, CellsOf
<1> QED
  BY <1>6, <1>7

LEMMA InsertReplaces ==
  ASSUME CastIInv, NEW r \in Requests, creq[r].op = "replace", InsertCast(r)
  PROVE  Replaces(r)'
<1>1. creq[r] \in CastReq /\ Replaces(r) /\ r \in DOMAIN creq
  BY DEF CastIInv, CastTyped
<1>2. /\ creq'[r].phase = "insert" /\ creq'[r].dels = creq[r].dels
      /\ creq'[r].shot = creq[r].shot /\ creq'[r].adds = Tail(creq[r].adds) /\ creq'[r].asked = creq[r].asked
      /\ creq'[r].disturbed = creq[r].disturbed
  BY <1>1 DEF InsertCast, CastReq
<1>3. cast' = cast
  BY DEF InsertCast
<1>4. ~creq[r].disturbed => Inserting(r)'
  <2> SUFFICES ASSUME ~creq[r].disturbed PROVE Inserting(r)'
    OBVIOUS
  <2>1. Inserting(r)
    BY <1>1 DEF Replaces, InsertCast
  <2>2. PICK n \in Nat : n = Len(creq[r].asked)
    BY <1>1, LenProperties DEF CastReq
  <2>3. creq[r].adds \in Seq(Cells) /\ creq[r].adds # <<>>
    BY <1>1 DEF CastReq, InsertCast
  <2>4. PICK k \in Nat \ {0} : k = Len(creq[r].adds)
    BY <2>3, EmptySeq
  <2>5. PICK d \in Nat : d = Done(r) /\ d + k = n
    <3>1. Done(r) = n - k
      BY <2>2, <2>4 DEF Done
    <3>2. Done(r) \in 0..n
      BY <2>1, <2>2 DEF Inserting
    <3>3. n - k \in Nat /\ (n - k) + k = n
      BY <3>1, <3>2
    <3> QED
      BY <3>1, <3>3
  <2>6. /\ Len(Tail(creq[r].adds)) = k - 1
        /\ \A i \in 1..(k - 1) : Tail(creq[r].adds)[i] = creq[r].asked[d + 1 + i]
    <3>1. Len(Tail(creq[r].adds)) = k - 1
      BY <2>3, <2>4, HeadTailProperties
    <3>2. \A i \in 1..(k - 1) : Tail(creq[r].adds)[i] = creq[r].adds[i + 1]
      BY <2>3, <2>4, HeadTailProperties
    <3>3. \A i \in 1..(k - 1) : creq[r].adds[i + 1] = creq[r].asked[d + (i + 1)]
      BY <2>1, <2>4, <2>5 DEF Inserting
    <3> QED
      BY <3>1, <3>2, <3>3
  <2>7. Done(r)' = d + 1
    <3>1. Done(r)' = n - (k - 1)
      BY <1>2, <2>2, <2>6 DEF Done
    <3>2. n - (k - 1) = d + 1
      BY <2>5
    <3> QED
      BY <3>1, <3>2
  <2>8. InOrder(r, d + 1)'
    BY <2>1, <2>5, InsertKeepsOrder
  <2>9. InOrder(r, Done(r))'
    BY <2>5, <2>7, <2>8 DEF InOrder
  <2>10. OfShot(cast', creq'[r].shot) \subseteq creq'[r].dels
    BY <1>2, <1>3, <2>1 DEF Inserting
  <2>11. \A i \in 1..Len(creq'[r].adds) : creq'[r].adds[i] = creq'[r].asked[d + 1 + i]
    BY <1>2, <2>6
  <2> QED
    BY <1>2, <2>2, <2>4, <2>5, <2>7, <2>9, <2>10, <2>11 DEF Inserting
<1> QED
  BY <1>1, <1>2, <1>4 DEF Replaces

-----------------------------------------------------------------------------
(* A step leaves the other records alone, but for the mark.                *)
LEMMA StepOfOneTyped ==
  ASSUME CastTyped, NEW r \in Requests, CastStep(r)
  PROVE  CastTyped'
<1>1. CASE StartDelete(r)
  BY <1>1, StartDeleteTyped
<1>2. CASE EndDelete(r)
  BY <1>2, EndDeleteTyped
<1>3. CASE InsertCast(r)
  BY <1>3, InsertTyped
<1>4. CASE CommitCast(r)
  BY <1>4, CommitCastTyped
<1>5. CASE CastVictim(r)
  BY <1>5, CastVictimTyped
<1>6. CASE \E cell \in Cells : AddCast(r, cell)
  BY <1>6, AddTyped
<1>7. CASE \E s \in Shots, members \in Casts : Replace(r, s, members)
  BY <1>7, ReplaceTyped
<1>8. CASE \E grid \in Grids : Grid(r, grid)
  BY <1>8, GridTyped
<1>9. CASE \E row \in cast : RemoveRow(r, row)
  BY <1>9, RemoveRowTyped
<1> QED
  BY <1>1, <1>2, <1>3, <1>4, <1>5, <1>6, <1>7, <1>8, <1>9 DEF CastStep

(* A step that only the record of r shows, or that removes a row.          *)
LEMMA OthersUntouched ==
  ASSUME CastIInv, NEW q \in Requests, creq[q].op = "replace",
         creq'[q] = creq[q], cast' \subseteq cast
  PROVE  Replaces(q)'
<1>1. creq[q] \in CastReq
  BY DEF CastIInv, CastTyped
<1>2. PICK d \in BOOLEAN : d = creq[q].disturbed
  BY <1>1 DEF CastReq
<1>3. creq'[q] = [creq[q] EXCEPT !.disturbed = d]
  BY <1>1, <1>2 DEF CastReq
<1>4. OfShot(cast', creq[q].shot) \subseteq OfShot(cast, creq[q].shot)
  BY DEF OfShot
<1> QED
  BY <1>2, <1>3, <1>4, ReplacesKept

LEMMA OthersCommitted ==
  ASSUME CastIInv, NEW r \in Requests, NEW q \in Requests, q # r, creq[q].op = "replace", CommitCast(r)
  PROVE  Replaces(q)'
<1>1. PICK d \in BOOLEAN : d = (creq[q].disturbed \/ Meets(q, r))
  OBVIOUS
<1>2. creq'[q] = [creq[q] EXCEPT !.disturbed = d]
  BY <1>1 DEF CommitCast
<1>3. ~d /\ creq[q].phase \in {"deleting", "insert"} =>
        OfShot(cast', creq[q].shot) \subseteq OfShot(cast, creq[q].shot)
  BY <1>1 DEF CommitCast, Visible, OfShot, Meets
<1> QED
  BY <1>1, <1>2, <1>3, ReplacesKept

LEMMA StepOfOneReplaces ==
  ASSUME CastIInv, NEW r \in Requests, CastStep(r), NEW q \in Requests, creq'[q].op = "replace"
  PROVE  Replaces(q)'
<1>1. creq \in [Requests -> CastReq]
  BY DEF CastIInv, CastTyped
<1>2. CASE CommitCast(r)
  <2>1. creq[q].op = "replace"
    <3>1. creq[q] \in CastReq
      BY <1>1
    <3> QED
      BY <1>2, <3>1 DEF CommitCast, CastReq
  <2> QED
    BY <1>2, <2>1, VictimReplaces, OthersCommitted
<1>3. CASE StartDelete(r) \/ EndDelete(r) \/ InsertCast(r) \/ CastVictim(r)
  <2>1. cast' = cast /\ (q # r => creq'[q] = creq[q])
    BY <1>1, <1>3 DEF StartDelete, EndDelete, InsertCast, CastVictim
  <2>2. creq[q].op = "replace"
    <3>1. creq[q] \in CastReq
      BY <1>1
    <3> QED
      BY <1>1, <1>3, <2>1, <3>1 DEF StartDelete, EndDelete, InsertCast, CastVictim, CastReq
  <2> QED
    BY <1>3, <2>1, <2>2, OthersUntouched, StartReplaces, EndReplaces, InsertReplaces, VictimReplaces
<1>4. CASE \E row \in cast : RemoveRow(r, row)
  <2>1. cast' \subseteq cast /\ (q # r => creq'[q] = creq[q])
    BY <1>1, <1>4 DEF RemoveRow
  <2>2. q # r
    BY <1>1, <1>4 DEF RemoveRow, NoCast
  <2> QED
    BY <2>1, <2>2, OthersUntouched
<1>5. CASE \E s \in Shots, members \in Casts : Replace(r, s, members)
  <2>1. cast' = cast /\ (q # r => creq'[q] = creq[q])
    BY <1>1, <1>5 DEF Replace, BeginCast
  <2> QED
    BY <1>5, <2>1, OthersUntouched, BeginReplaces
<1>6. CASE (\E cell \in Cells : AddCast(r, cell)) \/ (\E grid \in Grids : Grid(r, grid))
  <2>1. cast' = cast /\ (q # r => creq'[q] = creq[q])
    BY <1>1, <1>6 DEF AddCast, Grid, BeginCast
  <2>2. q # r
    <3>1. PICK op \in {"add", "grid"} : \E offs, adds : BeginCast(r, op, None, offs, adds)
      BY <1>6 DEF AddCast, Grid
    <3>2. creq'[r].op = op
      BY <1>1, <3>1 DEF BeginCast, NoCast
    <3> QED
      BY <3>2
  <2> QED
    BY <2>1, <2>2, OthersUntouched
<1> QED
  BY <1>2, <1>3, <1>4, <1>5, <1>6 DEF CastStep

(* What each request about the cast has seen and done.                     *)
THEOREM CastingInvariant == StudioSpec => []CastIInv
<1>1. StudioInit => CastIInv
  BY InitCasting DEF StudioInit
<1>2. CastIInv /\ [StudioNext]_<<vars, castVars>> => CastIInv'
  <2> SUFFICES ASSUME CastIInv, [StudioNext]_<<vars, castVars>> PROVE CastIInv'
    OBVIOUS
  <2>1. CASE UNCHANGED castVars
    <3>1. cast' = cast /\ creq' = creq
      BY <2>1 DEF castVars
    <3>2. CastTyped'
      BY <3>1 DEF CastIInv, CastTyped, Bounded
    <3>3. \A q \in Requests : creq[q].op = "replace" => Replaces(q)'
      BY <3>1, OthersUntouched
    <3> QED
      BY <3>1, <3>2, <3>3 DEF CastIInv
  <2>2. ASSUME NEW r \in Requests, CastStep(r) PROVE CastIInv'
    <3>1. CastTyped'
      BY <2>2, StepOfOneTyped DEF CastIInv
    <3>2. \A q \in Requests : creq'[q].op = "replace" => Replaces(q)'
      BY <2>2, StepOfOneReplaces
    <3> QED
      BY <3>1, <3>2 DEF CastIInv
  <2> QED
    BY <2>1, <2>2 DEF StudioNext, castVars
<1> QED
  BY <1>1, <1>2, PTL DEF StudioSpec

(* The types of the cast and of the requests about it.                     *)
THEOREM CastTypesHold == StudioSpec => []CastTypeOK
<1>1. CastIInv => CastTypeOK
  <2> SUFFICES ASSUME CastIInv PROVE CastTypeOK
    OBVIOUS
  <2>1. cast \subseteq CastRow /\ \A r \in Requests : creq[r] \in CastReq
    BY DEF CastIInv, CastTyped
  <2> QED
    BY <2>1 DEF CastTypeOK, CastReq
<1> QED
  BY <1>1, CastingInvariant, PTL

(* When a PUT commits that nobody disturbed, the shot's cast is the list   *)
(* of the PUT, each cell once, ordered as the list names it first: what it *)
(* saw in the shot it has deleted, and each insertion went after the last. *)
THEOREM CastsAreReplaced == StudioSpec => CastReplaced
<1>1. ASSUME CastIInv, NEW r \in Requests, CommitCast(r), creq[r].op = "replace", ~creq[r].disturbed
      PROVE  LET list == creq[r].asked
                 rows == OfShot(cast', creq[r].shot) IN
             /\ CellsOf(rows) = {list[i] : i \in DOMAIN list}
             /\ \A a, b \in rows : a # b =>
                  (a.order < b.order <=> FirstIn(list, a.cell) < FirstIn(list, b.cell))
  <2> DEFINE list == creq[r].asked
             rows == OfShot(cast', creq[r].shot)
  <2>1. creq[r] \in CastReq /\ Replaces(r)
    BY <1>1 DEF CastIInv, CastTyped
  <2>2. Inserting(r) /\ creq[r].adds = <<>>
    BY <1>1, <2>1 DEF Replaces, CommitCast
  <2>3. rows = creq[r].ins
    BY <1>1, <2>2, SeesItsOwn DEF CommitCast
  <2>4. PICK n \in Nat : n = Len(list) /\ DOMAIN list = 1..n
    BY <2>1, LenProperties DEF CastReq
  <2>5. Done(r) = n
    BY <2>2, <2>4 DEF Done
  <2>6. InOrder(r, n)
    BY <2>2, <2>5 DEF Inserting
  <2>7. CellsOf(rows) = {list[i] : i \in DOMAIN list}
    BY SMTT(60), <2>3, <2>4, <2>6 DEF InOrder, CellsOf, First
  <2>8. \A a \in rows : \E i \in 1..n : First(list, a.cell, i) /\ FirstIn(list, a.cell) = i
    <3> SUFFICES ASSUME NEW a \in rows
                 PROVE  \E i \in 1..n : First(list, a.cell, i) /\ FirstIn(list, a.cell) = i
      OBVIOUS
    <3>1. PICK i \in 1..n : First(list, a.cell, i)
      BY <2>3, <2>6 DEF InOrder
    <3>2. \A j \in 1..n : First(list, a.cell, j) => j = i
      BY <3>1, FirstIsUnique
    <3>3. FirstIn(list, a.cell) = CHOOSE j \in 1..n : First(list, a.cell, j)
      BY <2>4 DEF FirstIn, First
    <3> HIDE DEF list, rows
    <3> QED
      BY <3>1, <3>2, <3>3
  <2>9. \A a, b \in rows : a # b =>
          (a.order < b.order <=> FirstIn(list, a.cell) < FirstIn(list, b.cell))
    BY <2>3, <2>6, <2>8 DEF InOrder
  <2> QED
    BY <2>7, <2>9
<1>2. CastIInv /\ [StudioNext]_<<vars, castVars>> =>
        [\A r \in Requests :
           CommitCast(r) /\ creq[r].op = "replace" /\ ~creq[r].disturbed =>
             LET list == creq[r].asked
                 rows == OfShot(cast', creq[r].shot) IN
             /\ CellsOf(rows) = {list[i] : i \in DOMAIN list}
             /\ \A a, b \in rows : a # b =>
                  (a.order < b.order <=> FirstIn(list, a.cell) < FirstIn(list, b.cell))]_castVars
  BY <1>1
<1> QED
  BY <1>2, CastingInvariant, PTL DEF StudioSpec, CastReplaced

-----------------------------------------------------------------------------
(* The templates.                                                          *)
Fields == {"kind", "steps", "default"}

Request == [op : Ops \union {None},
            phase : {"new", "check", "seed", "clear", "clearing", "write", "insert",
                     "pick", "fill", "event", "commit", "done"},
            id : Nat, seen : Row \union {Unborn}, names : SUBSET Fields, row : Row \union {Unborn},
            snap : SUBSET Ids, seeds : Seq(Row), entity : Entities \union {None}, rest : Seq(Things),
            adds : SUBSET (Things \X Types), aborted : BOOLEAN]

Typed ==
  /\ template \in [Ids -> Row \union {Unborn, Gone}] /\ made \subseteq Entities
  /\ tasks \subseteq Things \X Types \X Requests
  /\ req \in [Requests -> Request]
  /\ mine \in [Requests -> [Ids -> Row \union {Untouched}]] /\ met \in [Requests -> SUBSET Requests]

(* The phases of each kind of request.                                     *)
Course == {<<None, "new">>}
          \union ({"list", "create", "new"} \X {"check", "seed", "done"})
          \union ({"create", "patch"} \X {"clear", "clearing", "write", "commit", "done"})
          \union ({"new"} \X {"insert", "pick", "event", "commit"})
          \union ({"apply"} \X {"fill", "commit", "done"}) \union {<<"delete", "done">>}

Open(r) == req[r].phase \notin {"new", "done"}
Writes(r) == req[r].op \in {"create", "patch"}
Makes(r) == req[r].op = "new" /\ req[r].phase \notin {"insert", "done"}

(* What a request works with, and where its things are.                    *)
AboutTemplate(r) ==
  /\ Writes(r) => req[r].row \in Row
  /\ req[r].phase \in {"clear", "clearing"} => req[r].row.default
  /\ req[r].phase = "clearing" => req[r].id \notin req[r].snap
  /\ req[r].op = "patch" =>
       /\ req[r].id \in Ids /\ req[r].seen \in Row /\ template[req[r].id] \in Row \union {Gone}
       /\ \A f \in Fields \ req[r].names : req[r].row[f] = req[r].seen[f]

AboutThings(r) ==
  /\ req[r].op \notin {"new", "apply"} => req[r].adds = {}
  /\ req[r].phase \in {"pick", "fill"} \/ (Makes(r) /\ req[r].phase \in {"check", "seed"}) => req[r].rest # <<>>
  /\ req[r].op = "new" =>
       /\ req[r].entity \in Entities
       /\ \A n \in 1..Len(req[r].rest) : req[r].rest[n][1] = req[r].entity
       /\ \A a \in req[r].adds : a[1][1] = req[r].entity
  /\ req[r].op = "apply" =>
       /\ req[r].seen \in Row
       /\ \A n \in 1..Len(req[r].rest) : req[r].rest[n][1] \in made
       /\ \A a \in req[r].adds : a[1][1] \in made

Shape(r) ==
  /\ <<req[r].op, req[r].phase>> \in Course
  /\ req[r].phase = "seed" => req[r].seeds # <<>>
  /\ AboutTemplate(r) /\ AboutThings(r)

(* Row i was the default of the kind that r is about to give a default.    *)
Clears(r, i) ==
  /\ req[r].row.default /\ template[i] \in Row
  /\ template[i].kind = req[r].row.kind /\ template[i].default
  /\ i # req[r].id

Merged(now, names, row) == [f \in DOMAIN now |-> IF f \in names THEN row[f] ELSE now[f]]

(* What r's open transaction has written.                                  *)
CreateWrote(r) ==
  \E j \in Ids : /\ mine[r][j] = req[r].row /\ template[j] = Unborn
                 /\ \A i \in Locked(r) \ {j} : Clears(r, i)

PatchWrote(r, j) ==
  /\ \A i \in Locked(r) \ {j} : Clears(r, i)
  /\ IF template[j] = Gone THEN j \notin Locked(r)
     ELSE mine[r][j] = Merged(template[j], req[r].names, req[r].row)

Written(r) ==
  /\ req[r].phase \in {"new", "done", "clear", "clearing", "insert", "fill"} => Locked(r) = {}
  /\ req[r].op \in {None, "list", "delete", "apply"} => Locked(r) = {}
  /\ req[r].op = "create" /\ req[r].phase \in {"check", "seed"} => Locked(r) = {}
  /\ req[r].op = "new" => \A i \in Locked(r) : template[i] = Unborn
  /\ req[r].phase = "write" => \A i \in Locked(r) : Clears(r, i)
  /\ req[r].op = "create" /\ req[r].phase = "commit" => CreateWrote(r)
  /\ req[r].op = "patch" /\ req[r].phase = "commit" => PatchWrote(r, req[r].id)

Separate == \A q, r \in Requests : q # r => Locked(q) \intersect Locked(r) = {}

(* Who makes an entity is alone with it, and nothing has tasks there yet.  *)
Alone(r) ==
  Makes(r) => /\ req[r].entity \notin made
              /\ \A q \in Requests : q # r /\ Makes(q) => req[q].entity # req[r].entity

(* A task that r is about to add is missing, or was committed while r was  *)
(* open.                                                                   *)
Told(r) ==
  Open(r) => \A a \in req[r].adds, t \in tasks : t[1] = a[1] /\ t[2] = a[2] => t[3] \in met[r]

Good(r) == Shape(r) /\ Written(r) /\ Alone(r) /\ Told(r)

TemplatesIInv ==
  /\ Typed /\ Separate /\ (\A r \in Requests : Good(r))
  /\ (\A t \in tasks : t[1][1] \in made) /\ DuplicatesOverlap

LEMMA RowsApart == Unborn \notin Row /\ Gone \notin Row /\ Untouched \notin Row /\ Unborn # Gone
BY DEF Unborn, Gone, Untouched, Row

LEMMA RowFields ==
  ASSUME NEW row \in Row
  PROVE  DOMAIN row = Fields /\ row.kind \in Kinds /\ row.steps \in SUBSET Types /\ row.default \in BOOLEAN
BY DEF Row, Fields

LEMMA MergedIsRow ==
  ASSUME NEW now \in Row, NEW names, NEW row \in Row
  PROVE  Merged(now, names, row) \in Row
<1>1. Merged(now, names, row) = [f \in Fields |-> IF f \in names THEN row[f] ELSE now[f]]
  BY RowFields DEF Merged
<1>2. PICK k \in Kinds : k = IF "kind" \in names THEN row.kind ELSE now.kind
  BY RowFields
<1>3. PICK s \in SUBSET Types : s = IF "steps" \in names THEN row.steps ELSE now.steps
  BY RowFields
<1>4. PICK d \in BOOLEAN : d = IF "default" \in names THEN row.default ELSE now.default
  BY RowFields
<1>5. Merged(now, names, row) = [kind |-> k, steps |-> s, default |-> d]
  BY <1>1, <1>2, <1>3, <1>4 DEF Fields
<1> QED
  BY <1>5 DEF Row

LEMMA NewIdIsFree ==
  ASSUME Typed, Free # {}
  PROVE  NewId \in Ids /\ template[NewId] = Unborn /\ \A q \in Requests : NewId \notin Locked(q)
<1>1. Free \in SUBSET Nat
  BY DEF Free, Ids
<1>2. \E i \in Free : \A j \in Free : i <= j
  BY <1>1, LeastNat
<1>3. NewId \in Free
  BY <1>2 DEF NewId
<1> QED
  BY <1>3 DEF Free

LEMMA ThingsTyped ==
  ASSUME NEW e \in Entities
  PROVE  /\ ThingsOf(e) \in Seq(Things) /\ ThingsOf(e) # <<>>
         /\ \A n \in 1..Len(ThingsOf(e)) : ThingsOf(e)[n][1] = e
<1>1. Tree[e] \in Seq(Kinds) /\ Tree[e] # <<>>
  BY TreeAssumption
<1>2. PICK n \in Nat \ {0} : n = Len(Tree[e])
  BY <1>1, EmptySeq
<1>3. DOMAIN Tree[e] = 1..n
  BY <1>1, <1>2, LenProperties
<1>4. ThingsOf(e) = [i \in 1..n |-> <<e, i>>]
  BY <1>3 DEF ThingsOf
<1>5. \A i \in 1..n : <<e, i>> \in Things
  BY <1>3 DEF Things
<1>6. ThingsOf(e) \in [1..n -> Things]
  BY <1>4, <1>5
<1>7. ThingsOf(e) \in Seq(Things) /\ Len(ThingsOf(e)) = n
  BY <1>2, <1>6
<1> QED
  BY <1>2, <1>4, <1>7, EmptySeq

LEMMA NamedTyped ==
  ASSUME NEW e \in Entities, NEW n \in DOMAIN Tree[e], NEW things \in Named(e, n)
  PROVE  /\ things \in Seq(Things) /\ things # <<>>
         /\ \A k \in 1..Len(things) : things[k][1] = e
<1>1. Tree[e] \in Seq(Kinds)
  BY TreeAssumption
<1>2. n \in Nat \ {0}
  BY <1>1
<1>3. things \in [1..n -> {e} \X DOMAIN Tree[e]]
  BY DEF Named
<1>4. \A k \in 1..n : things[k] \in Things /\ things[k][1] = e
  BY <1>3 DEF Things
<1>5. things \in [1..n -> Things]
  BY <1>3, <1>4
<1>6. things \in Seq(Things) /\ Len(things) = n
  BY <1>2, <1>5
<1> QED
  BY <1>2, <1>4, <1>6, EmptySeq

LEMMA InitTemplates == Init => TemplatesIInv
<1> SUFFICES ASSUME Init PROVE TemplatesIInv
  OBVIOUS
<1>1. NoReq \in Request
  BY EmptySeq DEF NoReq, Request, Ids, NoId
<1>2. Typed
  <2>1. template \in [Ids -> Row \union {Unborn, Gone}]
    <3>1. \A i \in DOMAIN BuiltIns : BuiltIns[i] \in Row
      BY BuiltInsAssumption
    <3> QED
      BY <3>1 DEF Init
  <2>2. mine \in [Requests -> [Ids -> Row \union {Untouched}]]
    BY DEF Init, Nothing
  <2> QED
    BY <1>1, <2>1, <2>2 DEF Init, Typed
<1>3. \A r \in Requests : Locked(r) = {}
  BY DEF Init, Locked, Nothing
<1>4. \A r \in Requests : /\ req[r].op = None /\ req[r].phase = "new" /\ req[r].adds = {}
  BY DEF Init, NoReq
<1>5. ASSUME NEW r \in Requests PROVE Good(r)
  <2>1. Shape(r)
    BY <1>4 DEF Shape, AboutTemplate, AboutThings, Course, Writes, Makes, None
  <2>2. Written(r)
    BY <1>3, <1>4 DEF Written, None
  <2>3. Alone(r) /\ Told(r)
    BY <1>4 DEF Alone, Told, Makes, None
  <2> QED
    BY <2>1, <2>2, <2>3 DEF Good
<1>6. tasks = {}
  BY DEF Init
<1> QED
  BY <1>2, <1>3, <1>5, <1>6 DEF TemplatesIInv, Separate, DuplicatesOverlap

-----------------------------------------------------------------------------
(* What a step of another request leaves true of q.                        *)
LEMMA OthersGood ==
  ASSUME TemplatesIInv, NEW q \in Requests, req'[q] = req[q], mine'[q] = mine[q], made \subseteq made',
         \A i \in Ids : /\ (i \in Locked(q) => template'[i] = template[i])
                        /\ (template[i] = Gone => template'[i] = Gone)
                        /\ (template[i] \in Row => template'[i] \in Row \union {Gone})
  PROVE  Shape(q)' /\ Written(q)'
<1>1. Shape(q) /\ Written(q)
  BY DEF TemplatesIInv, Good
<1>2. AboutTemplate(q)'
  BY <1>1 DEF Shape, AboutTemplate, Writes
<1>3. AboutThings(q)'
  BY <1>1 DEF Shape, AboutThings, Makes
<1>4. Shape(q)'
  BY <1>1, <1>2, <1>3 DEF Shape
<1>5. Locked(q)' = Locked(q)
  BY DEF Locked
<1>6. Locked(q) \subseteq Ids
  BY DEF Locked
<1>7. \A i \in Locked(q) : Clears(q, i) => Clears(q, i)'
  BY <1>6 DEF Clears
<1>8. CreateWrote(q) /\ req[q].op = "create" => CreateWrote(q)'
  <2> SUFFICES ASSUME CreateWrote(q), req[q].op = "create" PROVE CreateWrote(q)'
    OBVIOUS
  <2>1. PICK j \in Ids : /\ mine[q][j] = req[q].row /\ template[j] = Unborn
                         /\ \A i \in Locked(q) \ {j} : Clears(q, i)
    BY DEF CreateWrote
  <2>2. j \in Locked(q)
    BY <1>1, <2>1, RowsApart DEF Locked, Shape, AboutTemplate, Writes
  <2> QED
    BY <1>5, <1>7, <2>1, <2>2 DEF CreateWrote
<1>9. PatchWrote(q, req[q].id) /\ req[q].op = "patch" => PatchWrote(q, req[q].id)'
  <2> SUFFICES ASSUME NEW j, j = req[q].id, PatchWrote(q, j), req[q].op = "patch" PROVE PatchWrote(q, j)'
    OBVIOUS
  <2>1. j \in Ids /\ template[j] \in Row \union {Gone} /\ req[q].row \in Row
    BY <1>1 DEF Shape, AboutTemplate, Writes
  <2>2. CASE template[j] = Gone
    BY <1>5, <1>7, <2>1, <2>2 DEF PatchWrote
  <2>3. CASE template[j] # Gone
    <3>1. mine[q][j] = Merged(template[j], req[q].names, req[q].row)
      BY <2>3 DEF PatchWrote
    <3>2. j \in Locked(q)
      BY <2>1, <2>3, <3>1, MergedIsRow, RowsApart DEF Locked
    <3> QED
      BY <1>5, <1>7, <2>1, <2>3, <3>1, <3>2 DEF PatchWrote, Merged
  <2> QED
    BY <2>2, <2>3
<1>10. Written(q)'
  BY <1>1, <1>5, <1>6, <1>7, <1>8, <1>9 DEF Written
<1> QED
  BY <1>4, <1>10

(* A step that only r's record shows.                                      *)
LEMMA QuietStep ==
  ASSUME TemplatesIInv, NEW r \in Requests, NEW new \in Request, req' = [req EXCEPT ![r] = new],
         UNCHANGED <<template, made, tasks, mine, met>>, Good(r)'
  PROVE  TemplatesIInv'
<1>1. req'[r] = new /\ \A q \in Requests : q # r => req'[q] = req[q]
  BY DEF TemplatesIInv, Typed
<1>2. Typed'
  BY DEF TemplatesIInv, Typed
<1>3. Separate' /\ DuplicatesOverlap' /\ \A t \in tasks' : t[1][1] \in made'
  BY DEF TemplatesIInv, Separate, DuplicatesOverlap, Locked
<1>4. ASSUME NEW q \in Requests, q # r PROVE Good(q)'
  <2>1. Shape(q)' /\ Written(q)'
    <3>1. req'[q] = req[q]
      BY <1>1, <1>4
    <3> QED
      BY <3>1, OthersGood
  <2>2. Good(q)
    BY DEF TemplatesIInv
  <2>3. Told(q)'
    BY <1>1, <1>4, <2>2 DEF Good, Told, Open
  <2>4. Alone(q)'
    <3>1. Alone(q)
      BY <2>2 DEF Good
    <3>2. Alone(r)'
      BY DEF Good
    <3>3. \A p \in Requests : p # r => (Makes(p)' <=> Makes(p)) /\ req'[p].entity = req[p].entity
      BY <1>1 DEF Makes
    <3>4. Makes(q)' /\ Makes(r)' => req'[q].entity # req'[r].entity
      BY <1>4, <3>2 DEF Alone
    <3> QED
      BY <1>4, <3>1, <3>3, <3>4 DEF Alone
  <2> QED
    BY <2>1, <2>3, <2>4 DEF Good
<1> QED
  BY <1>2, <1>3, <1>4 DEF TemplatesIInv

-----------------------------------------------------------------------------
(* A request begins.                                                       *)
LEMMA BeginStep ==
  ASSUME TemplatesIInv, NEW r \in Requests, NEW new \in Request, req' = [req EXCEPT ![r] = new],
         req[r] = NoReq, UNCHANGED <<template, made, tasks, mine, met>>,
         new.op # "new" \/ new.phase = "insert", new.phase # "commit", new.adds = {}, Shape(r)'
  PROVE  TemplatesIInv'
<1>1. req'[r] = new
  BY DEF TemplatesIInv, Typed
<1>2. Locked(r)' = {}
  <2>1. req[r].phase = "new"
    BY DEF NoReq
  <2>2. Written(r)
    BY DEF TemplatesIInv, Good
  <2> QED
    BY <2>1, <2>2 DEF Written, Locked
<1>3. Written(r)'
  BY <1>1, <1>2 DEF Written
<1>4. Alone(r)' /\ Told(r)'
  BY <1>1 DEF Alone, Told, Makes
<1> QED
  BY <1>3, <1>4, QuietStep DEF Good

LEMMA NoReqTyped ==
  /\ NoReq \in Request /\ NoReq.adds = {} /\ NoReq.rest = <<>>
BY EmptySeq DEF NoReq, Request, Ids, NoId

LEMMA ListStep ==
  ASSUME TemplatesIInv, NEW r \in Requests, List(r)
  PROVE  TemplatesIInv'
<1> DEFINE new == [NoReq EXCEPT !.op = "list", !.phase = "check"]
<1>1. new \in Request /\ new.op = "list" /\ new.phase = "check" /\ new.adds = {}
  BY NoReqTyped DEF Request, Ops
<1> HIDE DEF new
<1>2. req' = [req EXCEPT ![r] = new] /\ req[r] = NoReq /\ UNCHANGED <<template, made, tasks, mine, met>>
  BY DEF List, new, KeepTables
<1>3. req'[r] = new
  BY <1>2 DEF TemplatesIInv, Typed
<1>4. Shape(r)'
  BY <1>1, <1>3 DEF Shape, AboutTemplate, AboutThings, Course, Writes, Makes
<1> QED
  BY <1>1, <1>2, <1>4, BeginStep

LEMMA CreateStep ==
  ASSUME TemplatesIInv, NEW r \in Requests, NEW row \in Row, Create(r, row)
  PROVE  TemplatesIInv'
<1> DEFINE new == [NoReq EXCEPT !.op = "create", !.phase = "check", !.row = row]
<1>1. new \in Request /\ new.op = "create" /\ new.phase = "check" /\ new.adds = {} /\ new.row = row
  BY NoReqTyped DEF Request, Ops
<1> HIDE DEF new
<1>2. req' = [req EXCEPT ![r] = new] /\ req[r] = NoReq /\ UNCHANGED <<template, made, tasks, mine, met>>
  BY DEF Create, new, KeepTables
<1>3. req'[r] = new
  BY <1>2 DEF TemplatesIInv, Typed
<1>4. Shape(r)'
  BY <1>1, <1>3 DEF Shape, AboutTemplate, AboutThings, Course, Writes, Makes
<1> QED
  BY <1>1, <1>2, <1>4, BeginStep

LEMMA PatchStep ==
  ASSUME TemplatesIInv, NEW r \in Requests, NEW i \in Ids, NEW row \in Row, NEW names \in SUBSET Fields,
         Patch(r, i, names, row)
  PROVE  TemplatesIInv'
<1> DEFINE phase == IF row.default THEN "clear" ELSE "write"
           new == [NoReq EXCEPT !.op = "patch", !.phase = phase, !.id = i, !.seen = template[i],
                                !.names = names, !.row = row]
<1>1. template[i] \in Row
  BY DEF Patch, RowIds
<1>2. phase \in {"clear", "write"} /\ (phase = "clear" => row.default)
  OBVIOUS
<1>3. new \in Request
  <2>1. i \in Nat
    BY DEF Ids
  <2> HIDE DEF phase
  <2> QED
    BY NoReqTyped, <1>1, <1>2, <2>1 DEF Request, Ops
<1>4. /\ new.op = "patch" /\ new.phase = phase /\ new.adds = {} /\ new.row = row /\ new.id = i
      /\ new.seen = template[i] /\ new.names = names
  BY NoReqTyped DEF Request
<1>5. req' = [req EXCEPT ![r] = new] /\ req[r] = NoReq /\ UNCHANGED <<template, made, tasks, mine, met>>
  BY ZenonT(60) DEF Patch, KeepTables
<1> HIDE DEF new, phase
<1>6. req'[r] = new
  BY <1>5 DEF TemplatesIInv, Typed
<1>7. \A f \in Fields \ names : row[f] = template[i][f]
  BY RowFields DEF Patch
<1>8. AboutTemplate(r)'
  BY <1>1, <1>2, <1>4, <1>5, <1>6, <1>7 DEF AboutTemplate, Writes
<1>9. AboutThings(r)'
  BY <1>2, <1>4, <1>6 DEF AboutThings, Makes
<1>10. Shape(r)'
  BY <1>2, <1>4, <1>6, <1>8, <1>9 DEF Shape, Course
<1> QED
  BY <1>2, <1>3, <1>4, <1>5, <1>10, BeginStep

LEMMA NewStep ==
  ASSUME TemplatesIInv, NEW r \in Requests, NEW e \in Entities, New(r, e)
  PROVE  TemplatesIInv'
<1> DEFINE new == [NoReq EXCEPT !.op = "new", !.phase = "insert", !.entity = e]
<1>1. /\ new \in Request /\ new.op = "new" /\ new.phase = "insert" /\ new.adds = {} /\ new.entity = e
      /\ new.rest = <<>>
  BY NoReqTyped DEF Request, Ops
<1> HIDE DEF new
<1>2. req' = [req EXCEPT ![r] = new] /\ req[r] = NoReq /\ UNCHANGED <<template, made, tasks, mine, met>>
  BY DEF New, new, KeepTables
<1>3. req'[r] = new
  BY <1>2 DEF TemplatesIInv, Typed
<1>4. Shape(r)'
  <2>1. AboutThings(r)'
    BY <1>1, <1>3, EmptySeq DEF AboutThings, Makes
  <2> QED
    BY <1>1, <1>3, <2>1 DEF Shape, AboutTemplate, Course, Writes
<1> QED
  BY <1>1, <1>2, <1>4, BeginStep

LEMMA ApplyStep ==
  ASSUME TemplatesIInv, NEW r \in Requests, NEW i \in Ids, NEW e \in made, NEW n \in DOMAIN Tree[e],
         NEW things \in Named(e, n), Apply(r, i, things)
  PROVE  TemplatesIInv'
<1> DEFINE new == [NoReq EXCEPT !.op = "apply", !.phase = "fill", !.seen = template[i], !.rest = things]
<1>1. template[i] \in Row
  BY DEF Apply, RowIds
<1>2. e \in Entities
  BY DEF TemplatesIInv, Typed
<1>3. /\ new \in Request /\ new.op = "apply" /\ new.phase = "fill" /\ new.adds = {}
      /\ new.seen = template[i] /\ new.rest = things
  BY NoReqTyped, <1>1, <1>2, NamedTyped DEF Request, Ops
<1> HIDE DEF new
<1>4. req' = [req EXCEPT ![r] = new] /\ req[r] = NoReq /\ UNCHANGED <<template, made, tasks, mine, met>>
  BY DEF Apply, new, KeepTables
<1>5. req'[r] = new
  BY <1>4 DEF TemplatesIInv, Typed
<1>6. AboutThings(r)'
  BY <1>1, <1>2, <1>3, <1>4, <1>5, NamedTyped DEF AboutThings, Makes
<1>7. Shape(r)'
  BY <1>3, <1>5, <1>6 DEF Shape, AboutTemplate, Course, Writes
<1> QED
  BY <1>3, <1>4, <1>7, BeginStep

-----------------------------------------------------------------------------
(* Steps that read.                                                        *)
LEMMA EnsureStep ==
  ASSUME TemplatesIInv, NEW r \in Requests, Ensure(r)
  PROVE  TemplatesIInv'
<1>1. Typed /\ Good(r) /\ req[r] \in Request /\ req[r].phase = "check"
  BY DEF TemplatesIInv, Typed, Ensure, At
<1>2. req[r].op \in {"list", "create", "new"}
  BY <1>1 DEF Good, Shape, Course, None
<1>3. PICK phase \in {"seed", "done", "clear", "write", "pick"}, seeds \in Seq(Row) :
        /\ req' = [req EXCEPT ![r] = [req[r] EXCEPT !.phase = phase, !.seeds = seeds]]
        /\ phase = "seed" => seeds # <<>>
        /\ phase # "seed" => phase = AfterEnsure(r)
  <2>1. CASE RowIds(View(r)) = {}
    <3>1. BuiltIns \in Seq(Row) /\ BuiltIns # <<>>
      BY BuiltInsAssumption
    <3> QED
      BY <2>1, <3>1 DEF Ensure
  <2>2. CASE RowIds(View(r)) # {}
    <3>1. AfterEnsure(r) \in {"done", "clear", "write", "pick"}
      BY <1>2 DEF AfterEnsure
    <3>2. req' = [req EXCEPT ![r] = [req[r] EXCEPT !.phase = AfterEnsure(r)]]
      BY <2>2 DEF Ensure
    <3>3. [req[r] EXCEPT !.phase = AfterEnsure(r)]
           = [req[r] EXCEPT !.phase = AfterEnsure(r), !.seeds = req[r].seeds]
      BY <1>1 DEF Request
    <3>4. req[r].seeds \in Seq(Row)
      BY <1>1 DEF Request
    <3> QED
      BY <3>1, <3>2, <3>3, <3>4
  <2> QED
    BY <2>1, <2>2
<1> DEFINE new == [req[r] EXCEPT !.phase = phase, !.seeds = seeds]
<1>4. new \in Request
  BY <1>1 DEF Request
<1>5. /\ new.op = req[r].op /\ new.phase = phase /\ new.seeds = seeds /\ new.row = req[r].row
      /\ new.adds = req[r].adds /\ new.rest = req[r].rest /\ new.entity = req[r].entity
  BY <1>1 DEF Request
<1>6. req'[r] = new /\ UNCHANGED <<template, made, tasks, mine, met>>
  BY <1>1, <1>3 DEF Typed, Ensure, KeepTables
<1>7. /\ phase = "done" => req[r].op = "list"
      /\ phase = "clear" => req[r].op = "create" /\ req[r].row.default
      /\ phase = "write" => req[r].op = "create"
      /\ phase = "pick" => req[r].op = "new"
  BY <1>2, <1>3 DEF AfterEnsure
<1> HIDE DEF new
<1>8. Shape(r)'
  <2>1. AboutTemplate(r)'
    BY <1>1, <1>2, <1>3, <1>5, <1>6, <1>7 DEF Good, Shape, AboutTemplate, Writes
  <2>2. AboutThings(r)'
    BY <1>1, <1>2, <1>5, <1>6, <1>7 DEF Good, Shape, AboutThings, Makes
  <2> QED
    BY <1>2, <1>3, <1>5, <1>6, <1>7, <2>1, <2>2 DEF Shape, Course
<1>9. Written(r)'
  <2>1. Written(r) /\ Locked(r)' = Locked(r)
    BY <1>1, <1>6 DEF Good, Locked
  <2> QED
    BY <1>1, <1>2, <1>5, <1>6, <1>7, <2>1 DEF Written, None
<1>10. Alone(r)' /\ Told(r)'
  BY <1>1, <1>2, <1>3, <1>4, <1>5, <1>6, <1>7 DEF Good, Alone, Told, Makes, Open, TemplatesIInv, Typed
<1> QED
  BY <1>3, <1>4, <1>6, <1>8, <1>9, <1>10, QuietStep DEF new, Good

(* A step that moves r on without touching the tables: what has to be said *)
(* of the new phase.                                                       *)
LEMMA MoveStep ==
  ASSUME TemplatesIInv, NEW r \in Requests, NEW new \in Request, req' = [req EXCEPT ![r] = new],
         UNCHANGED <<template, made, tasks, mine, met>>, Shape(r)', Written(r)',
         Open(r), new.op = req[r].op, new.entity = req[r].entity,
         req[r].phase # "insert" \/ new.phase = "done" \/
           (/\ req[r].entity \notin made
            /\ \A q \in Requests : q # r /\ Makes(q) => req[q].entity # req[r].entity),
         \A a \in new.adds, t \in tasks : t[1] = a[1] /\ t[2] = a[2] => a \in req[r].adds
  PROVE  TemplatesIInv'
<1>1. Typed /\ Good(r) /\ req[r] \in Request
  BY DEF TemplatesIInv, Typed
<1>2. req'[r] = new /\ \A q \in Requests : q # r => req'[q] = req[q]
  BY <1>1 DEF Typed
<1>3. \A q \in Requests : q # r => (Makes(q)' <=> Makes(q)) /\ req'[q].entity = req[q].entity
  BY <1>2 DEF Makes
<1>4. Alone(r)'
  <2> SUFFICES ASSUME Makes(r)' PROVE Alone(r)'
    BY DEF Alone
  <2>1. new.op = "new" /\ new.phase # "done" /\ req[r].op = "new"
    BY <1>2 DEF Makes
  <2>2. /\ req[r].entity \notin made
        /\ \A q \in Requests : q # r /\ Makes(q) => req[q].entity # req[r].entity
    <3>1. CASE req[r].phase = "insert"
      BY <2>1, <3>1
    <3>2. CASE req[r].phase # "insert"
      BY <1>1, <2>1, <3>2 DEF Good, Alone, Makes, Open
    <3> QED
      BY <3>1, <3>2
  <2> QED
    BY <1>2, <1>3, <2>2 DEF Alone
<1>5. Told(r)'
  BY <1>1, <1>2 DEF Good, Told
<1> QED
  BY <1>4, <1>5, QuietStep DEF Good

LEMMA ClearStep ==
  ASSUME TemplatesIInv, NEW r \in Requests, Clear(r)
  PROVE  TemplatesIInv'
<1>1. Typed /\ Good(r) /\ req[r] \in Request /\ req[r].phase = "clear"
  BY DEF TemplatesIInv, Typed, Clear, At
<1>2. req[r].op \in {"create", "patch"}
  BY <1>1 DEF Good, Shape, Course, None
<1> DEFINE new == [req[r] EXCEPT !.phase = "clearing", !.snap = Others(r)]
<1>3. Others(r) \in SUBSET Ids /\ req[r].id \notin Others(r)
  BY DEF Others, Defaults, RowIds
<1>4. /\ new \in Request /\ new.op = req[r].op /\ new.phase = "clearing" /\ new.snap = Others(r)
      /\ new.row = req[r].row /\ new.adds = req[r].adds /\ new.rest = req[r].rest
      /\ new.entity = req[r].entity /\ new.id = req[r].id /\ new.seen = req[r].seen
      /\ new.names = req[r].names
  BY <1>1, <1>3 DEF Request
<1> HIDE DEF new
<1>5. req' = [req EXCEPT ![r] = new] /\ UNCHANGED <<template, made, tasks, mine, met>>
  BY DEF Clear, KeepTables, new
<1>6. req'[r] = new
  BY <1>1, <1>5 DEF Typed
<1>7. Shape(r)'
  <2>1. AboutTemplate(r)'
    BY <1>1, <1>3, <1>4, <1>5, <1>6 DEF Good, Shape, AboutTemplate, Writes
  <2>2. AboutThings(r)'
    BY <1>1, <1>2, <1>4, <1>5, <1>6 DEF Good, Shape, AboutThings, Makes
  <2> QED
    BY <1>2, <1>4, <1>6, <2>1, <2>2 DEF Shape, Course
<1>8. Written(r)'
  <2>1. Locked(r)' = {}
    BY <1>1, <1>5 DEF Good, Written, Locked
  <2> QED
    BY <1>4, <1>6, <2>1 DEF Written
<1>9. Open(r)
  BY <1>1 DEF Open
<1> QED
  BY <1>1, <1>4, <1>5, <1>7, <1>8, <1>9, MoveStep

LEMMA InsertThings ==
  ASSUME TemplatesIInv, NEW r \in Requests, Insert(r)
  PROVE  TemplatesIInv'
<1>1. Typed /\ Good(r) /\ req[r] \in Request /\ req[r].phase = "insert"
  BY DEF TemplatesIInv, Typed, Insert, At
<1>2. req[r].op = "new" /\ req[r].entity \in Entities
  BY <1>1 DEF Good, Shape, Course, AboutThings, None
<1>3. Locked(r) = {} /\ Open(r)
  BY <1>1 DEF Good, Written, Open
<1>4. PICK phase \in {"done", "check", "commit"}, rest \in Seq(Things) :
        /\ req' = [req EXCEPT ![r] = [req[r] EXCEPT !.phase = phase, !.rest = rest]]
        /\ phase # "done" => req[r].entity \notin made
        /\ phase = "check" => rest # <<>>
        /\ \A n \in 1..Len(rest) : rest[n][1] = req[r].entity
  <2>1. \A phase : [req[r] EXCEPT !.phase = phase] = [req[r] EXCEPT !.phase = phase, !.rest = req[r].rest]
    BY <1>1 DEF Request
  <2>2. req[r].rest \in Seq(Things) /\ \A n \in 1..Len(req[r].rest) : req[r].rest[n][1] = req[r].entity
    BY <1>1, <1>2 DEF Request, Good, Shape, AboutThings
  <2>3. CASE req[r].entity \in made
    <3>1. req' = [req EXCEPT ![r] = [req[r] EXCEPT !.phase = "done", !.rest = req[r].rest]]
      BY <2>1, <2>3 DEF Insert, Goto
    <3> QED
      BY <2>2, <3>1
  <2>4. CASE req[r].entity \notin made
    <3>1. CASE Goto(r, "commit")
      <4>1. req' = [req EXCEPT ![r] = [req[r] EXCEPT !.phase = "commit", !.rest = req[r].rest]]
        BY <2>1, <3>1 DEF Goto
      <4> QED
        BY <2>2, <2>4, <4>1
    <3>2. CASE req' = [req EXCEPT ![r].rest = ThingsOf(req[r].entity), ![r].phase = "check"]
      <4>1. req' = [req EXCEPT ![r] = [req[r] EXCEPT !.phase = "check", !.rest = ThingsOf(req[r].entity)]]
        BY <1>1, <3>2 DEF Typed, Request
      <4> QED
        BY <1>2, <2>4, <4>1, ThingsTyped
    <3> QED
      BY <2>4, <3>1, <3>2 DEF Insert
  <2> QED
    BY <2>3, <2>4
<1> DEFINE new == [req[r] EXCEPT !.phase = phase, !.rest = rest]
<1>5. /\ new \in Request /\ new.op = "new" /\ new.phase = phase /\ new.adds = req[r].adds
      /\ new.rest = rest /\ new.entity = req[r].entity
  BY <1>1, <1>2 DEF Request
<1> HIDE DEF new
<1>6. req' = [req EXCEPT ![r] = new] /\ UNCHANGED <<template, made, tasks, mine, met>>
  BY <1>4 DEF Insert, KeepTables, new
<1>7. req'[r] = new
  BY <1>1, <1>6 DEF Typed
<1>8. Shape(r)'
  <2>1. AboutTemplate(r)'
    BY <1>5, <1>7 DEF AboutTemplate, Writes
  <2>2. AboutThings(r)'
    BY <1>1, <1>2, <1>4, <1>5, <1>6, <1>7 DEF Good, Shape, AboutThings, Makes
  <2> QED
    BY <1>5, <1>7, <2>1, <2>2 DEF Shape, Course
<1>9. Written(r)'
  <2>1. Locked(r)' = {}
    BY <1>3, <1>6 DEF Locked
  <2> QED
    BY <1>5, <1>7, <2>1 DEF Written
<1>10. \A q \in Requests : q # r /\ Makes(q) => req[q].entity # req[r].entity
  <2> SUFFICES ASSUME NEW q \in Requests, q # r, Makes(q), req[q].entity = req[r].entity PROVE FALSE
    OBVIOUS
  <2>1. req[q].phase # "new"
    BY DEF Makes, TemplatesIInv, Good, Shape, Course, None
  <2>2. WaitsFor(r, q)
    BY <1>1, <2>1 DEF WaitsFor, At, Makes
  <2> QED
    BY <2>2 DEF Insert, Blocked
<1> QED
  BY <1>2, <1>3, <1>4, <1>5, <1>6, <1>8, <1>9, <1>10, MoveStep

LEMMA EventStep ==
  ASSUME TemplatesIInv, NEW r \in Requests, Event(r)
  PROVE  TemplatesIInv'
<1>1. Typed /\ Good(r) /\ req[r] \in Request /\ req[r].phase = "event"
  BY DEF TemplatesIInv, Typed, Event, At
<1>2. req[r].op = "new"
  BY <1>1 DEF Good, Shape, Course, None
<1>3. PICK aborted \in BOOLEAN :
        req' = [req EXCEPT ![r] = [req[r] EXCEPT !.phase = "commit", !.aborted = aborted]]
  <2>1. [req[r] EXCEPT !.phase = "commit"] = [req[r] EXCEPT !.phase = "commit", !.aborted = req[r].aborted]
    BY <1>1 DEF Request
  <2>2. req[r].aborted \in BOOLEAN
    BY <1>1 DEF Request
  <2>3. CASE Goto(r, "commit")
    BY <2>1, <2>2, <2>3 DEF Goto
  <2>4. CASE req' = [req EXCEPT ![r].phase = "commit", ![r].aborted = TRUE]
    <3>1. req' = [req EXCEPT ![r] = [req[r] EXCEPT !.phase = "commit", !.aborted = TRUE]]
      BY <1>1, <2>4 DEF Typed, Request
    <3> QED
      BY <3>1
  <2> QED
    BY <2>3, <2>4 DEF Event
<1> DEFINE new == [req[r] EXCEPT !.phase = "commit", !.aborted = aborted]
<1>5. /\ new \in Request /\ new.op = "new" /\ new.phase = "commit" /\ new.adds = req[r].adds
      /\ new.rest = req[r].rest /\ new.entity = req[r].entity
  BY <1>1, <1>2 DEF Request
<1> HIDE DEF new
<1>6. req' = [req EXCEPT ![r] = new] /\ UNCHANGED <<template, made, tasks, mine, met>>
  BY <1>3 DEF Event, KeepTables, new
<1>7. req'[r] = new
  BY <1>1, <1>6 DEF Typed
<1>8. Shape(r)'
  <2>1. AboutTemplate(r)'
    BY <1>5, <1>7 DEF AboutTemplate, Writes
  <2>2. AboutThings(r)'
    BY <1>1, <1>2, <1>5, <1>6, <1>7 DEF Good, Shape, AboutThings, Makes
  <2> QED
    BY <1>5, <1>7, <2>1, <2>2 DEF Shape, Course
<1>9. Written(r)'
  <2>1. Written(r) /\ Locked(r)' = Locked(r) /\ Locked(r) \subseteq Ids
    BY <1>1, <1>6 DEF Good, Locked
  <2> QED
    BY <1>2, <1>5, <1>6, <1>7, <2>1 DEF Written, None
<1>10. Open(r)
  BY <1>1 DEF Open
<1> QED
  BY <1>1, <1>2, <1>5, <1>6, <1>8, <1>9, <1>10, MoveStep

LEMMA TakeFirst ==
  ASSUME NEW S, NEW rest \in Seq(S), rest # <<>>
  PROVE  /\ Head(rest) \in S /\ Tail(rest) \in Seq(S)
         /\ 1 \in 1..Len(rest) /\ Head(rest) = rest[1]
         /\ \A n \in 1..Len(Tail(rest)) : n + 1 \in 1..Len(rest) /\ Tail(rest)[n] = rest[n + 1]
         /\ Len(rest) # 1 => Tail(rest) # <<>>
<1>1. PICK n \in Nat \ {0} : n = Len(rest)
  BY EmptySeq
<1>2. Head(rest) \in S /\ Tail(rest) \in Seq(S) /\ Len(Tail(rest)) = n - 1
  BY <1>1, HeadTailProperties
<1>3. \A i \in 1..(n - 1) : Tail(rest)[i] = rest[i + 1]
  BY <1>1, <1>2, HeadTailProperties
<1>4. Head(rest) = rest[1]
  OBVIOUS
<1>5. n # 1 => Tail(rest) # <<>>
  <2>1. Len(<<>>) = 0
    OBVIOUS
  <2>2. n # 1 => n - 1 # 0
    OBVIOUS
  <2> QED
    BY <1>2, <2>1, <2>2
<1> QED
  BY <1>1, <1>2, <1>3, <1>4, <1>5

LEMMA PickStep ==
  ASSUME TemplatesIInv, NEW r \in Requests, Pick(r)
  PROVE  TemplatesIInv'
<1>1. Typed /\ Good(r) /\ req[r] \in Request /\ req[r].phase = "pick"
  BY DEF TemplatesIInv, Typed, Pick, At
<1>2. req[r].op = "new" /\ Makes(r) /\ req[r].entity \notin made /\ req[r].rest # <<>>
  BY <1>1 DEF Good, Shape, Course, AboutThings, None, Alone, Makes
<1>3. req[r].rest \in Seq(Things) /\ req[r].adds \in SUBSET (Things \X Types)
  BY <1>1 DEF Request
<1> DEFINE thing == Head(req[r].rest)
<1>4. /\ thing \in Things /\ thing[1] = req[r].entity /\ Tail(req[r].rest) \in Seq(Things)
      /\ \A n \in 1..Len(Tail(req[r].rest)) : Tail(req[r].rest)[n][1] = req[r].entity
      /\ Len(req[r].rest) # 1 => Tail(req[r].rest) # <<>>
  <2>1. \A n \in 1..Len(req[r].rest) : req[r].rest[n][1] = req[r].entity
    BY <1>1, <1>2 DEF Good, Shape, AboutThings
  <2> QED
    BY <1>2, <1>3, <2>1, TakeFirst
<1>5. PICK types \in SUBSET Types, phase \in {"event", "check"} :
        /\ phase = "check" => Len(req[r].rest) # 1
        /\ req' = [req EXCEPT ![r] = [req[r] EXCEPT !.rest = Tail(req[r].rest),
                     !.adds = req[r].adds \union ({thing} \X types), !.phase = phase]]
  <2>1. UNION {View(r)[i].steps : i \in Defaults(View(r), KindOf(thing))} \in SUBSET Types
    BY RowFields DEF Defaults, RowIds
  <2> HIDE DEF thing
  <2> QED
    BY <2>1 DEF Pick, thing
<1> DEFINE adds == req[r].adds \union ({thing} \X types)
           new == [req[r] EXCEPT !.rest = Tail(req[r].rest), !.adds = adds, !.phase = phase]
<1>6. adds \in SUBSET (Things \X Types) /\ \A a \in adds : a \in req[r].adds \/ a[1] = thing
  BY <1>3, <1>4
<1> HIDE DEF thing
<1>7. new = [req[r] EXCEPT !.rest = Tail(req[r].rest), !.adds = adds, !.phase = phase]
  OBVIOUS
<1> HIDE DEF adds
<1>8. /\ new \in Request /\ new.op = "new" /\ new.phase = phase /\ new.adds = adds
      /\ new.rest = Tail(req[r].rest) /\ new.entity = req[r].entity
  BY <1>1, <1>2, <1>4, <1>6 DEF Request
<1> HIDE DEF new
<1>9. req' = [req EXCEPT ![r] = new] /\ UNCHANGED <<template, made, tasks, mine, met>>
  BY <1>5 DEF Pick, KeepTables, new, adds
<1>10. req'[r] = new
  BY <1>1, <1>9 DEF Typed
<1>11. Shape(r)'
  <2>1. AboutTemplate(r)'
    BY <1>8, <1>10 DEF AboutTemplate, Writes
  <2>2. req[r].entity \in Entities /\ \A a \in adds : a[1][1] = req[r].entity
    BY <1>1, <1>2, <1>4, <1>6 DEF Good, Shape, AboutThings
  <2>3. AboutThings(r)'
    BY ZenonT(60), <1>4, <1>5, <1>8, <1>9, <1>10, <2>2 DEF AboutThings, Makes
  <2> QED
    BY <1>8, <1>10, <2>1, <2>3 DEF Shape, Course
<1>12. Written(r)'
  <2>1. Written(r) /\ Locked(r)' = Locked(r) /\ Locked(r) \subseteq Ids
    BY <1>1, <1>9 DEF Good, Locked
  <2> QED
    BY <1>2, <1>8, <1>9, <1>10, <2>1 DEF Written, None
<1>13. \A a \in adds, t \in tasks : t[1] = a[1] /\ t[2] = a[2] => a \in req[r].adds
  <2> SUFFICES ASSUME NEW a \in adds, NEW t \in tasks, t[1] = a[1], a[1] = thing PROVE FALSE
    BY <1>6
  <2>1. t[1][1] \in made
    BY DEF TemplatesIInv
  <2> QED
    BY <1>2, <1>4, <2>1
<1>14. Open(r)
  BY <1>1 DEF Open
<1> QED
  BY <1>1, <1>2, <1>8, <1>9, <1>11, <1>12, <1>13, <1>14, MoveStep

LEMMA FillStep ==
  ASSUME TemplatesIInv, NEW r \in Requests, Fill(r)
  PROVE  TemplatesIInv'
<1>1. Typed /\ Good(r) /\ req[r] \in Request /\ req[r].phase = "fill"
  BY DEF TemplatesIInv, Typed, Fill, At
<1>2. req[r].op = "apply" /\ req[r].rest # <<>> /\ req[r].seen \in Row
  BY <1>1 DEF Good, Shape, Course, AboutThings, None
<1>3. req[r].rest \in Seq(Things) /\ req[r].adds \in SUBSET (Things \X Types)
  BY <1>1 DEF Request
<1> DEFINE thing == Head(req[r].rest)
<1>4. /\ thing \in Things /\ thing[1] \in made /\ Tail(req[r].rest) \in Seq(Things)
      /\ \A n \in 1..Len(Tail(req[r].rest)) : Tail(req[r].rest)[n][1] \in made
      /\ Len(req[r].rest) # 1 => Tail(req[r].rest) # <<>>
  <2>1. \A n \in 1..Len(req[r].rest) : req[r].rest[n][1] \in made
    BY <1>1, <1>2 DEF Good, Shape, AboutThings
  <2> QED
    BY <1>2, <1>3, <2>1, TakeFirst
<1>5. PICK types \in SUBSET Types, phase \in {"commit", "fill"} :
        /\ phase = "fill" => Len(req[r].rest) # 1
        /\ types \intersect Has(thing) = {}
        /\ req' = [req EXCEPT ![r] = [req[r] EXCEPT !.rest = Tail(req[r].rest),
                     !.adds = req[r].adds \union ({thing} \X types), !.phase = phase]]
  <2>1. /\ req[r].seen.steps \ Has(thing) \in SUBSET Types
        /\ (req[r].seen.steps \ Has(thing)) \intersect Has(thing) = {}
    BY <1>2, RowFields
  <2>2. PICK phase \in {"commit", "fill"} : phase = IF Len(req[r].rest) = 1 THEN "commit" ELSE req[r].phase
    BY <1>1
  <2> HIDE DEF thing
  <2>3. req' = [req EXCEPT ![r] = [req[r] EXCEPT !.rest = Tail(req[r].rest),
                  !.adds = req[r].adds \union ({thing} \X (req[r].seen.steps \ Has(thing))), !.phase = phase]]
    BY <2>2 DEF Fill, thing
  <2>4. phase = "fill" => Len(req[r].rest) # 1
    BY <2>2
  <2> QED
    BY <2>1, <2>3, <2>4
<1> DEFINE adds == req[r].adds \union ({thing} \X types)
           new == [req[r] EXCEPT !.rest = Tail(req[r].rest), !.adds = adds, !.phase = phase]
<1>6. /\ adds \in SUBSET (Things \X Types)
      /\ \A a \in adds : a \in req[r].adds \/ (a[1] = thing /\ a[2] \in types)
  BY <1>3, <1>4
<1> HIDE DEF thing
<1>7. new = [req[r] EXCEPT !.rest = Tail(req[r].rest), !.adds = adds, !.phase = phase]
  OBVIOUS
<1> HIDE DEF adds
<1>8. /\ new \in Request /\ new.op = "apply" /\ new.phase = phase /\ new.adds = adds
      /\ new.rest = Tail(req[r].rest) /\ new.entity = req[r].entity /\ new.seen = req[r].seen
  BY <1>1, <1>2, <1>4, <1>6 DEF Request
<1> HIDE DEF new
<1>9. req' = [req EXCEPT ![r] = new] /\ UNCHANGED <<template, made, tasks, mine, met>>
  BY <1>5 DEF Fill, KeepTables, new, adds
<1>10. req'[r] = new
  BY <1>1, <1>9 DEF Typed
<1>11. Shape(r)'
  <2>1. AboutTemplate(r)'
    BY <1>8, <1>10 DEF AboutTemplate, Writes
  <2>2. \A a \in adds : a[1][1] \in made
    BY <1>1, <1>2, <1>4, <1>6 DEF Good, Shape, AboutThings
  <2>3. AboutThings(r)'
    BY <1>2, <1>4, <1>5, <1>8, <1>9, <1>10, <2>2 DEF AboutThings, Makes
  <2> QED
    BY <1>8, <1>10, <2>1, <2>3 DEF Shape, Course
<1>12. Written(r)'
  <2>1. Locked(r)' = {}
    BY <1>1, <1>9 DEF Good, Written, Locked
  <2> QED
    BY <1>8, <1>10, <2>1 DEF Written
<1>13. \A a \in adds, t \in tasks : t[1] = a[1] /\ t[2] = a[2] => a \in req[r].adds
  <2> SUFFICES ASSUME NEW a \in adds, NEW t \in tasks, t[1] = a[1], t[2] = a[2], a[1] = thing, a[2] \in types
               PROVE  FALSE
    BY <1>6
  <2>1. t[2] \in Has(thing)
    BY DEF Has
  <2> QED
    BY <1>5, <2>1
<1>14. Open(r)
  BY <1>1 DEF Open
<1> QED
  BY <1>1, <1>2, <1>8, <1>9, <1>11, <1>12, <1>13, <1>14, MoveStep

-----------------------------------------------------------------------------
(* Steps that write rows.                                                  *)

(* r writes rows, in its transaction or at once, that nobody else has      *)
(* locked; a row that is gone stays so.                                    *)
Apart(r) == \A q \in Requests : q # r => Locked(r)' \intersect Locked(q) = {}

LeavesRows(r) ==
  \A i \in Ids :
    /\ (\E q \in Requests : q # r /\ i \in Locked(q)) => template'[i] = template[i]
    /\ (template[i] = Gone => template'[i] = Gone)
    /\ (template[i] \in Row => template'[i] \in Row \union {Gone})

LEMMA WriteStep ==
  ASSUME TemplatesIInv, NEW r \in Requests, NEW new \in Request, req' = [req EXCEPT ![r] = new],
         NEW rows \in [Ids -> Row \union {Untouched}], mine' = [mine EXCEPT ![r] = rows],
         template' \in [Ids -> Row \union {Unborn, Gone}], UNCHANGED <<made, tasks, met>>,
         Apart(r), LeavesRows(r), (Open(r) /\ new.op = req[r].op) \/ (new.op = "delete" /\ new.adds = {}),
         new.phase # "done" => req[r].phase # "insert",
         new.entity = req[r].entity, new.adds = req[r].adds, Shape(r)', Written(r)'
  PROVE  TemplatesIInv'
<1>1. Typed /\ Good(r) /\ req[r] \in Request
  BY DEF TemplatesIInv, Typed
<1>2. req'[r] = new /\ \A q \in Requests : q # r => req'[q] = req[q]
  BY <1>1 DEF Typed
<1>3. mine'[r] = rows /\ \A q \in Requests : q # r => mine'[q] = mine[q]
  BY <1>1 DEF Typed
<1>4. Typed'
  BY DEF TemplatesIInv, Typed
<1>5. Separate'
  <2>1. \A q \in Requests : q # r => Locked(q)' = Locked(q)
    BY <1>3 DEF Locked
  <2> QED
    BY <2>1 DEF TemplatesIInv, Separate, Apart
<1>6. DuplicatesOverlap' /\ \A t \in tasks' : t[1][1] \in made'
  BY DEF TemplatesIInv, DuplicatesOverlap
<1>7. \A q \in Requests : q # r => (Makes(q)' <=> Makes(q)) /\ req'[q].entity = req[q].entity
  BY <1>2 DEF Makes
<1>8. Makes(r)' => Makes(r)
  <2> SUFFICES ASSUME Makes(r)' PROVE Makes(r)
    OBVIOUS
  <2>1. new.op = "new" /\ new.phase # "done"
    BY <1>2 DEF Makes
  <2> QED
    BY <2>1 DEF Makes, Open
<1>9. ASSUME NEW q \in Requests PROVE Good(q)'
  <2>1. Alone(q)'
    <3>1. Alone(q)
      BY DEF TemplatesIInv, Good
    <3>2. \A p \in Requests : (Makes(p)' => Makes(p)) /\ req'[p].entity = req[p].entity
      BY <1>2, <1>7, <1>8
    <3> QED
      BY <3>1, <3>2 DEF Alone
  <2>2. CASE q = r
    <3>1. Told(r)'
      BY <1>1, <1>2 DEF Good, Told
    <3> QED
      BY <2>1, <2>2, <3>1 DEF Good
  <2>3. CASE q # r
    <3>1. req'[q] = req[q] /\ mine'[q] = mine[q]
      BY <1>2, <1>3, <2>3
    <3>2. \A i \in Ids : /\ (i \in Locked(q) => template'[i] = template[i])
                         /\ (template[i] = Gone => template'[i] = Gone)
                         /\ (template[i] \in Row => template'[i] \in Row \union {Gone})
      BY <2>3 DEF LeavesRows
    <3>3. Shape(q)' /\ Written(q)'
      BY <3>1, <3>2, OthersGood
    <3>4. Told(q)'
      BY <3>1 DEF TemplatesIInv, Good, Told, Open
    <3> QED
      BY <2>1, <3>3, <3>4 DEF Good
  <2> QED
    BY <2>2, <2>3
<1> QED
  BY <1>4, <1>5, <1>6, <1>9 DEF TemplatesIInv

LEMMA RollbackStep ==
  ASSUME TemplatesIInv, NEW r \in Requests, Open(r), Rollback(r)
  PROVE  TemplatesIInv'
<1>1. Typed /\ Good(r) /\ req[r] \in Request
  BY DEF TemplatesIInv, Typed
<1> DEFINE new == [req[r] EXCEPT !.phase = "done"]
<1>2. /\ new \in Request /\ new.phase = "done" /\ new.op = req[r].op /\ new.adds = req[r].adds
      /\ new.rest = req[r].rest /\ new.entity = req[r].entity /\ new.seen = req[r].seen
      /\ new.row = req[r].row /\ new.id = req[r].id /\ new.names = req[r].names
  BY <1>1 DEF Request
<1> HIDE DEF new
<1>3. /\ req' = [req EXCEPT ![r] = new] /\ mine' = [mine EXCEPT ![r] = Nothing]
      /\ UNCHANGED <<template, made, tasks, met>>
  BY DEF Rollback, Goto, KeepTables, new
<1>4. req'[r] = new
  BY <1>1, <1>3 DEF Typed
<1>5. Nothing \in [Ids -> Row \union {Untouched}] /\ Locked(r)' = {}
  BY <1>1, <1>3 DEF Nothing, Locked, Typed
<1>6. Shape(r)'
  <2>1. AboutTemplate(r)'
    BY <1>1, <1>2, <1>3, <1>4 DEF Good, Shape, AboutTemplate, Writes
  <2>2. AboutThings(r)'
    BY <1>1, <1>2, <1>3, <1>4 DEF Good, Shape, AboutThings, Makes
  <2>3. <<new.op, "done">> \in Course
    BY <1>1, <1>2 DEF Good, Shape, Course, Open
  <2> QED
    BY <1>2, <1>4, <2>1, <2>2, <2>3 DEF Shape
<1>7. Written(r)'
  BY <1>2, <1>4, <1>5 DEF Written
<1>8. template' \in [Ids -> Row \union {Unborn, Gone}]
  BY <1>1, <1>3 DEF Typed
<1>9. Apart(r) /\ LeavesRows(r)
  BY <1>3, <1>5 DEF Apart, LeavesRows
<1> QED
  BY <1>2, <1>3, <1>5, <1>6, <1>7, <1>8, <1>9, WriteStep

(* DELETE waits for nobody's row.                                          *)
LEMMA DeleteStep ==
  ASSUME TemplatesIInv, NEW r \in Requests, NEW i \in Ids, DeleteTemplate(r, i)
  PROVE  TemplatesIInv'
<1>1. Typed /\ Good(r) /\ req[r] = NoReq
  BY DEF TemplatesIInv, DeleteTemplate
<1> DEFINE new == [NoReq EXCEPT !.op = "delete", !.phase = "done"]
<1>2. /\ new \in Request /\ new.phase = "done" /\ new.op = "delete" /\ new.adds = {}
      /\ new.entity = NoReq.entity
  BY NoReqTyped DEF Request, Ops
<1> HIDE DEF new
<1>3. /\ req' = [req EXCEPT ![r] = new] /\ mine' = mine /\ UNCHANGED <<made, tasks, met>>
      /\ template' = [template EXCEPT ![i] = Gone]
  BY <1>1 DEF DeleteTemplate, new
<1>4. req'[r] = new
  BY <1>1, <1>3 DEF Typed
<1>5. Locked(r)' = {} /\ Locked(r) = {}
  <2>1. req[r].phase = "new"
    BY <1>1 DEF NoReq
  <2> QED
    BY <1>1, <1>3, <2>1 DEF Good, Written, Locked
<1>6. mine[r] \in [Ids -> Row \union {Untouched}] /\ mine' = [mine EXCEPT ![r] = mine[r]]
  BY <1>1, <1>3 DEF Typed
<1>7. Shape(r)'
  BY <1>2, <1>4 DEF Shape, AboutTemplate, AboutThings, Course, Writes, Makes
<1>8. Written(r)'
  BY <1>2, <1>4, <1>5 DEF Written
<1>9. template' \in [Ids -> Row \union {Unborn, Gone}]
  BY <1>1, <1>3 DEF Typed
<1>10. LeavesRows(r)
  BY <1>1, <1>3 DEF DeleteTemplate, Typed, LeavesRows
<1>11. Apart(r)
  BY <1>5 DEF Apart
<1>12. new.entity = req[r].entity /\ new.adds = req[r].adds
  BY <1>1, <1>2, NoReqTyped
<1> QED
  BY <1>2, <1>3, <1>6, <1>7, <1>8, <1>9, <1>10, <1>11, <1>12, WriteStep

LEMMA SeedStep ==
  ASSUME TemplatesIInv, NEW r \in Requests, Seed(r)
  PROVE  TemplatesIInv'
<1>1. Typed /\ Good(r) /\ req[r] \in Request /\ req[r].phase = "seed" /\ Open(r)
  BY DEF TemplatesIInv, Typed, Seed, At, Open
<1>2. /\ req[r].op \in {"list", "create", "new"}
      /\ req[r].seeds \in Seq(Row) /\ req[r].seeds # <<>>
  BY <1>1 DEF Good, Shape, Course, None, Request
<1>3. /\ Head(req[r].seeds) \in Row /\ Tail(req[r].seeds) \in Seq(Row)
      /\ Len(req[r].seeds) # 1 => Tail(req[r].seeds) # <<>>
  BY <1>2, TakeFirst
<1> DEFINE row == Head(req[r].seeds)
<1>4. PICK phase \in {"seed", "done", "clear", "write", "pick"} :
        /\ req' = [req EXCEPT ![r] = [req[r] EXCEPT !.seeds = Tail(req[r].seeds), !.phase = phase]]
        /\ phase = "seed" => Len(req[r].seeds) # 1
        /\ phase # "seed" => phase = AfterEnsure(r)
  <2>1. AfterEnsure(r) \in {"done", "clear", "write", "pick"}
    BY <1>2 DEF AfterEnsure
  <2> QED
    BY <1>1, <2>1 DEF Seed
<1>5. /\ phase = "done" => req[r].op = "list"
      /\ phase = "clear" => req[r].op = "create" /\ req[r].row.default
      /\ phase = "write" => req[r].op = "create"
      /\ phase = "pick" => req[r].op = "new"
  BY <1>2, <1>4 DEF AfterEnsure
<1> DEFINE new == [req[r] EXCEPT !.seeds = Tail(req[r].seeds), !.phase = phase]
<1>6. /\ new \in Request /\ new.op = req[r].op /\ new.phase = phase /\ new.seeds = Tail(req[r].seeds)
      /\ new.row = req[r].row /\ new.adds = req[r].adds /\ new.rest = req[r].rest /\ new.entity = req[r].entity
  BY <1>1, <1>3 DEF Request
<1> HIDE DEF new
<1>7. req' = [req EXCEPT ![r] = new] /\ UNCHANGED <<made, tasks, met>>
  BY <1>4 DEF Seed, new
<1>8. req'[r] = new
  BY <1>1, <1>7 DEF Typed
<1>9. NewId \in Ids /\ template[NewId] = Unborn /\ \A q \in Requests : NewId \notin Locked(q)
  BY <1>1, NewIdIsFree DEF Seed
<1>10. /\ req[r].op \in {"list", "create"} => mine' = mine
       /\ mine' = mine \/ mine' = [mine EXCEPT ![r] = [mine[r] EXCEPT ![NewId] = row]]
       /\ template' = template \/ template' = [template EXCEPT ![NewId] = row]
       /\ req[r].op = "new" => template' = template
  BY <1>1, <1>2 DEF Seed, Autocommit, Typed
<1>11. PICK rows \in [Ids -> Row \union {Untouched}] :
         mine' = [mine EXCEPT ![r] = rows] /\ (rows = mine[r] \/ rows = [mine[r] EXCEPT ![NewId] = row])
  <2>1. mine[r] \in [Ids -> Row \union {Untouched}]
    BY <1>1 DEF Typed
  <2>2. [mine[r] EXCEPT ![NewId] = row] \in [Ids -> Row \union {Untouched}]
    BY <1>3, <2>1
  <2>3. mine = [mine EXCEPT ![r] = mine[r]]
    BY <1>1 DEF Typed
  <2> HIDE DEF row
  <2> QED
    BY <1>10, <2>1, <2>2, <2>3
<1>12. Locked(r)' \subseteq Locked(r) \union {NewId} /\ (mine' = mine => Locked(r)' = Locked(r))
  BY <1>1, <1>11 DEF Locked, Typed
<1>13. template' \in [Ids -> Row \union {Unborn, Gone}]
  BY <1>1, <1>3, <1>10 DEF Typed
<1>14. \A j \in Ids : j # NewId => template'[j] = template[j]
  BY <1>1, <1>10 DEF Typed
<1> HIDE DEF row
<1>15. LeavesRows(r)
  BY <1>9, <1>14, RowsApart DEF LeavesRows
<1>16. Apart(r)
  BY <1>9, <1>12 DEF TemplatesIInv, Separate, Apart
<1>17. Shape(r)'
  <2>1. AboutTemplate(r)'
    BY <1>1, <1>2, <1>4, <1>5, <1>6, <1>8 DEF Good, Shape, AboutTemplate, Writes
  <2>2. AboutThings(r)'
    BY <1>1, <1>2, <1>5, <1>6, <1>7, <1>8 DEF Good, Shape, AboutThings, Makes
  <2> QED
    BY <1>2, <1>3, <1>4, <1>5, <1>6, <1>8, <2>1, <2>2 DEF Shape, Course
<1>18. Written(r)'
  <2>1. CASE req[r].op \in {"list", "create"}
    <3>1. Locked(r)' = {}
      BY <1>1, <1>10, <1>12, <2>1 DEF Good, Written
    <3> QED
      BY <1>2, <1>4, <1>5, <1>6, <1>8, <2>1, <3>1 DEF Written
  <2>2. CASE req[r].op = "new"
    <3>1. \A i \in Locked(r)' : template'[i] = Unborn
      BY <1>1, <1>9, <1>10, <1>12, <2>2 DEF Good, Written
    <3>2. phase \in {"seed", "pick"}
      BY <1>4, <1>5, <2>2
    <3> QED
      BY <1>6, <1>8, <2>2, <3>1, <3>2 DEF Written, None
  <2> QED
    BY <1>2, <2>1, <2>2
<1> QED
  BY <1>1, <1>6, <1>7, <1>11, <1>13, <1>15, <1>16, <1>17, <1>18, WriteStep

LEMMA ClearedStep ==
  ASSUME TemplatesIInv, NEW r \in Requests, Cleared(r)
  PROVE  TemplatesIInv'
<1>1. Typed /\ Good(r) /\ req[r] \in Request /\ req[r].phase = "clearing" /\ Open(r)
  BY DEF TemplatesIInv, Typed, Cleared, At, Open
<1>2. /\ req[r].op \in {"create", "patch"} /\ req[r].row \in Row /\ req[r].row.default
      /\ req[r].id \notin req[r].snap /\ Locked(r) = {}
  BY <1>1 DEF Good, Shape, Course, AboutTemplate, Writes, Written, None
<1> DEFINE found == req[r].snap \intersect Defaults(template, req[r].row.kind)
           new == [req[r] EXCEPT !.phase = "write"]
           rows == [i \in Ids |-> IF i \in found THEN [template[i] EXCEPT !.default = FALSE] ELSE mine[r][i]]
<1>3. /\ new \in Request /\ new.op = req[r].op /\ new.phase = "write" /\ new.id = req[r].id
      /\ new.seen = req[r].seen /\ new.names = req[r].names
      /\ new.row = req[r].row /\ new.adds = req[r].adds /\ new.rest = req[r].rest /\ new.entity = req[r].entity
  BY <1>1 DEF Request
<1>4. \A i \in found : /\ i \in Ids /\ template[i] \in Row /\ template[i].default
                       /\ template[i].kind = req[r].row.kind /\ i # req[r].id
  BY <1>2 DEF Defaults, RowIds
<1>5. \A i \in found : [template[i] EXCEPT !.default = FALSE] \in Row
  BY <1>4 DEF Row
<1> HIDE DEF new, found
<1>6. rows \in [Ids -> Row \union {Untouched}]
  <2>1. \A i \in Ids : mine[r][i] \in Row \union {Untouched}
    BY <1>1 DEF Typed
  <2> QED
    BY <1>5, <2>1
<1>7. /\ req' = [req EXCEPT ![r] = new] /\ mine' = [mine EXCEPT ![r] = rows]
      /\ UNCHANGED <<template, made, tasks, met>>
  BY <1>1 DEF Cleared, Goto, KeepTables, new, found, Typed
<1>8. req'[r] = new /\ mine'[r] = rows
  BY <1>1, <1>7 DEF Typed
<1>9. Locked(r)' = found
  <2>1. \A i \in Ids : mine[r][i] = Untouched
    BY <1>2 DEF Locked
  <2>2. \A i \in Ids : rows[i] # Untouched <=> i \in found
    BY <1>5, <2>1, RowsApart
  <2> HIDE DEF rows
  <2>3. Locked(r)' = {i \in Ids : rows[i] # Untouched}
    BY <1>8 DEF Locked
  <2> QED
    BY <1>4, <2>2, <2>3
<1>10. Shape(r)'
  <2>1. AboutTemplate(r)'
    BY <1>1, <1>3, <1>7, <1>8 DEF Good, Shape, AboutTemplate, Writes
  <2>2. AboutThings(r)'
    BY <1>1, <1>2, <1>3, <1>7, <1>8 DEF Good, Shape, AboutThings, Makes
  <2> QED
    BY <1>2, <1>3, <1>8, <2>1, <2>2 DEF Shape, Course
<1>11. Written(r)'
  <2>1. \A i \in Locked(r)' : Clears(r, i)'
    BY <1>2, <1>3, <1>4, <1>7, <1>8, <1>9 DEF Clears
  <2> QED
    BY <1>2, <1>3, <1>8, <2>1 DEF Written, None
<1>12. Apart(r)
  <2> SUFFICES ASSUME NEW q \in Requests, q # r PROVE found \intersect Locked(q) = {}
    BY <1>9 DEF Apart
  <2>1. req[r].snap \intersect Locked(q) = {}
    BY <1>1 DEF Cleared, Blocked, WaitsFor, At
  <2> QED
    BY <2>1 DEF found
<1>13. LeavesRows(r) /\ template' \in [Ids -> Row \union {Unborn, Gone}]
  BY <1>1, <1>7 DEF LeavesRows, Typed
<1> HIDE DEF rows
<1> QED
  BY <1>1, <1>3, <1>6, <1>7, <1>10, <1>11, <1>12, <1>13, WriteStep

(* The row that a PATCH makes is made of the row that is there.            *)
LEMMA BecomesMerged ==
  ASSUME TemplatesIInv, NEW r \in Requests, req[r].op = "patch", req[r].phase = "write"
  PROVE  LET i == req[r].id IN
         /\ i \in Ids /\ i \notin Locked(r) /\ template[i] \in Row \union {Gone}
         /\ Becomes(r) = IF template[i] = Gone THEN Gone ELSE Merged(template[i], req[r].names, req[r].row)
         /\ template[i] # Gone => Becomes(r) \in Row
<1> DEFINE i == req[r].id
<1>1. Typed /\ Good(r)
  BY DEF TemplatesIInv
<1>2. i \in Ids /\ template[i] \in Row \union {Gone} /\ req[r].row \in Row
  BY <1>1 DEF Good, Shape, AboutTemplate, Writes
<1>3. i \notin Locked(r)
  BY <1>1 DEF Good, Written, Clears
<1>4. View(r)[i] = template[i]
  BY <1>2, <1>3 DEF View, Locked
<1>5. Becomes(r) = IF template[i] = Gone THEN Gone ELSE Merged(template[i], req[r].names, req[r].row)
  BY <1>4 DEF Becomes, Merged
<1> QED
  BY <1>2, <1>3, <1>5, MergedIsRow

LEMMA OwnRowStep ==
  ASSUME TemplatesIInv, NEW r \in Requests, Write(r)
  PROVE  TemplatesIInv'
<1>1. Typed /\ Good(r) /\ req[r] \in Request /\ req[r].phase = "write" /\ Open(r)
  BY DEF TemplatesIInv, Typed, Write, At, Open
<1>2. /\ req[r].op \in {"create", "patch"} /\ req[r].row \in Row
      /\ \A i \in Locked(r) : Clears(r, i)
  BY <1>1 DEF Good, Shape, Course, AboutTemplate, Writes, Written, None
<1> DEFINE new == [req[r] EXCEPT !.phase = "commit"]
           i == IF req[r].op = "create" THEN NewId ELSE req[r].id
<1>3. /\ new \in Request /\ new.op = req[r].op /\ new.phase = "commit" /\ new.id = req[r].id
      /\ new.seen = req[r].seen /\ new.names = req[r].names
      /\ new.row = req[r].row /\ new.adds = req[r].adds /\ new.rest = req[r].rest /\ new.entity = req[r].entity
  BY <1>1 DEF Request
<1> HIDE DEF new
<1>4. mine[r] \in [Ids -> Row \union {Untouched}] /\ mine = [mine EXCEPT ![r] = mine[r]]
  BY <1>1 DEF Typed
<1>5. /\ i \in Ids
      /\ \A q \in Requests : q # r => i \notin Locked(q)
      /\ req[r].op = "create" => template[i] = Unborn /\ i \notin Locked(r) /\ Becomes(r) = req[r].row
      /\ Becomes(r) \in Row \union {Gone}
      /\ Becomes(r) = Gone => req[r].op = "patch"
  <2>1. CASE req[r].op = "create"
    <3>1. NewId \in Ids /\ template[NewId] = Unborn /\ \A q \in Requests : NewId \notin Locked(q)
      BY <1>1, NewIdIsFree DEF Write
    <3> QED
      BY <1>2, <2>1, <3>1, RowsApart DEF Becomes
  <2>2. CASE req[r].op = "patch"
    <3>1. \A q \in Requests : q # r => req[r].id \notin Locked(q)
      BY <1>1 DEF Write, Blocked, WaitsFor, At
    <3> QED
      BY <1>1, <2>2, <3>1, BecomesMerged
  <2> QED
    BY <1>2, <2>1, <2>2
<1>6. CASE Rollback(r)
  BY <1>1, <1>6, RollbackStep
<1>7. ASSUME NEW rows \in [Ids -> Row \union {Untouched}], Goto(r, "commit"), mine' = [mine EXCEPT ![r] = rows],
             KeepTables, Apart(r), Written(r)'
      PROVE  TemplatesIInv'
  <2>1. req' = [req EXCEPT ![r] = new] /\ UNCHANGED <<template, made, tasks, met>>
    BY <1>7 DEF Goto, KeepTables, new
  <2>2. req'[r] = new
    BY <1>1, <2>1 DEF Typed
  <2>3. AboutTemplate(r)'
    BY <1>1, <1>3, <2>1, <2>2 DEF Good, Shape, AboutTemplate, Writes
  <2>4. AboutThings(r)'
    BY <1>1, <1>2, <1>3, <2>1, <2>2 DEF Good, Shape, AboutThings, Makes
  <2>5. Shape(r)'
    BY <1>2, <1>3, <2>2, <2>3, <2>4 DEF Shape, Course
  <2>6. LeavesRows(r) /\ template' \in [Ids -> Row \union {Unborn, Gone}]
    BY <1>1, <2>1 DEF LeavesRows, Typed
  <2> QED
    BY <1>1, <1>3, <1>7, <2>1, <2>5, <2>6, WriteStep
<1>8. CASE Becomes(r) = Gone /\ Goto(r, "commit") /\ UNCHANGED mine /\ KeepTables
  <2>1. req[r].op = "patch" /\ req[r].id \notin Locked(r) /\ template[req[r].id] = Gone
    <3>1. req[r].op = "patch"
      BY <1>5, <1>8
    <3> QED
      BY <1>1, <1>8, <3>1, BecomesMerged, RowsApart
  <2>2. req'[r] = new
    BY <1>1, <1>8 DEF Goto, Typed, new
  <2>3. Locked(r)' = Locked(r)
    BY <1>8 DEF Locked
  <2>4. template' = template
    BY <1>8 DEF KeepTables
  <2>5. \A j \in Locked(r) : Clears(r, j)'
    BY <1>2, <1>3, <2>2, <2>4 DEF Clears
  <2>6. PatchWrote(r, req[r].id)'
    BY <1>3, <2>1, <2>2, <2>3, <2>4, <2>5 DEF PatchWrote
  <2>7. Written(r)'
    BY <1>3, <2>1, <2>2, <2>6 DEF Written, None
  <2>8. Apart(r)
    BY <2>3 DEF Apart, TemplatesIInv, Separate
  <2> QED
    BY <1>4, <1>7, <1>8, <2>7, <2>8
<1>9. CASE Becomes(r) # Gone /\ Goto(r, "commit") /\ mine' = [mine EXCEPT ![r][i] = Becomes(r)] /\ KeepTables
  <2> DEFINE rows == [mine[r] EXCEPT ![i] = Becomes(r)]
  <2>1. rows \in [Ids -> Row \union {Untouched}] /\ rows[i] = Becomes(r) /\ \A j \in Ids : j # i => rows[j] = mine[r][j]
    BY <1>4, <1>5, <1>9
  <2>2. mine' = [mine EXCEPT ![r] = rows]
    BY <1>1, <1>9 DEF Typed
  <2> HIDE DEF rows
  <2>3. req'[r] = new /\ mine'[r] = rows
    BY <1>1, <1>9, <2>2 DEF Goto, Typed, new
  <2>4. template' = template
    BY <1>9 DEF KeepTables
  <2>5. Locked(r)' = Locked(r) \union {i}
    <3>1. rows[i] # Untouched
      BY <1>5, <1>9, <2>1, RowsApart
    <3> QED
      BY <1>5, <2>1, <2>3, <3>1 DEF Locked
  <2>6. \A j \in Locked(r) : Clears(r, j)'
    BY <1>2, <1>3, <2>3, <2>4 DEF Clears
  <2>7. Written(r)'
    <3>1. CASE req[r].op = "create"
      <4>1. mine'[r][i] = req'[r].row /\ template'[i] = Unborn /\ \A j \in Locked(r)' \ {i} : Clears(r, j)'
        BY <1>3, <1>5, <2>1, <2>3, <2>4, <2>5, <2>6, <3>1
      <4>2. CreateWrote(r)'
        BY <1>5, <4>1 DEF CreateWrote
      <4> QED
        BY <1>3, <2>3, <3>1, <4>2 DEF Written, None
    <3>2. CASE req[r].op = "patch"
      <4>1. i = req[r].id /\ template[i] # Gone
        BY <1>1, <1>9, <3>2, BecomesMerged
      <4>2. rows[i] = Merged(template[i], req[r].names, req[r].row)
        BY <1>1, <2>1, <3>2, <4>1, BecomesMerged
      <4>3. PatchWrote(r, req[r].id)'
        BY <1>3, <2>3, <2>4, <2>5, <2>6, <4>1, <4>2 DEF PatchWrote, Merged
      <4> QED
        BY <1>3, <2>3, <3>2, <4>3 DEF Written, None
    <3> QED
      BY <1>2, <3>1, <3>2
  <2>8. Apart(r)
    BY <1>5, <2>5 DEF Apart, TemplatesIInv, Separate
  <2> QED
    BY <1>7, <1>9, <2>1, <2>2, <2>7, <2>8
<1> QED
  BY <1>6, <1>8, <1>9 DEF Write

-----------------------------------------------------------------------------
(* The end of a transaction.                                               *)
LEMMA CommitWrites ==
  ASSUME TemplatesIInv, NEW r \in Requests, Commit(r)
  PROVE  template' \in [Ids -> Row \union {Unborn, Gone}] /\ LeavesRows(r)
<1>1. Typed /\ Good(r) /\ req[r].phase = "commit"
  BY DEF TemplatesIInv, Commit, At
<1>2. mine[r] \in [Ids -> Row \union {Untouched}] /\ template \in [Ids -> Row \union {Unborn, Gone}]
  BY <1>1 DEF Typed
<1>3. \A i \in Locked(r) : i \in Ids /\ mine[r][i] \in Row /\ template[i] # Gone
  <2> SUFFICES ASSUME NEW i \in Locked(r) PROVE template[i] # Gone
    BY <1>2 DEF Locked
  <2>1. req[r].op \in {"create", "patch", "new", "apply"}
    BY <1>1 DEF Good, Shape, Course, None
  <2>2. Clears(r, i) \/ template[i] = Unborn => template[i] # Gone
    BY RowsApart DEF Clears
  <2>3. CASE req[r].op = "create"
    BY <1>1, <2>2, <2>3 DEF Good, Written, CreateWrote
  <2>4. CASE req[r].op = "patch"
    <3>1. PatchWrote(r, req[r].id)
      BY <1>1, <2>4 DEF Good, Written
    <3>2. CASE i = req[r].id
      BY <3>1, <3>2 DEF PatchWrote
    <3>3. CASE i # req[r].id
      BY <2>2, <3>1, <3>3 DEF PatchWrote
    <3> QED
      BY <3>2, <3>3
  <2>5. CASE req[r].op = "new"
    BY <1>1, <2>2, <2>5 DEF Good, Written
  <2>6. CASE req[r].op = "apply"
    BY <1>1, <2>6 DEF Good, Written
  <2> QED
    BY <2>1, <2>3, <2>4, <2>5, <2>6
<1>4. \A i \in Ids : View(r)[i] = IF i \in Locked(r) THEN mine[r][i] ELSE template[i]
  BY DEF View, Locked
<1>5. View(r) \in [Ids -> Row \union {Unborn, Gone}]
  <2>1. \A i \in Ids : View(r)[i] \in Row \union {Unborn, Gone}
    BY <1>2, <1>3, <1>4
  <2>2. DOMAIN View(r) = Ids /\ View(r) = [i \in Ids |-> View(r)[i]]
    BY DEF View
  <2> QED
    BY <2>1, <2>2
<1>6. template' = template \/ template' = View(r)
  BY DEF Commit
<1>7. \A q \in Requests, i \in Ids : q # r /\ i \in Locked(q) => i \notin Locked(r)
  BY DEF TemplatesIInv, Separate
<1> QED
  BY <1>2, <1>3, <1>4, <1>5, <1>6, <1>7 DEF LeavesRows

LEMMA CommitStep ==
  ASSUME TemplatesIInv, NEW r \in Requests, Commit(r)
  PROVE  TemplatesIInv'
<1>1. Typed /\ Good(r) /\ req[r] \in Request /\ req[r].phase = "commit" /\ Open(r)
  BY DEF TemplatesIInv, Typed, Commit, At, Open
<1> DEFINE new == [req[r] EXCEPT !.phase = "done"]
           told == {<<a[1], a[2], r>> : a \in req[r].adds}
<1>2. /\ new \in Request /\ new.phase = "done" /\ new.op = req[r].op /\ new.adds = req[r].adds
      /\ new.rest = req[r].rest /\ new.entity = req[r].entity /\ new.seen = req[r].seen
      /\ new.row = req[r].row /\ new.id = req[r].id /\ new.names = req[r].names
  BY <1>1 DEF Request
<1> HIDE DEF new
<1>3. req' = [req EXCEPT ![r] = new] /\ mine' = [mine EXCEPT ![r] = Nothing]
  BY DEF Commit, Goto, new
<1>4. req'[r] = new /\ \A q \in Requests : q # r => req'[q] = req[q] /\ mine'[q] = mine[q]
  BY <1>1, <1>3 DEF Typed
<1>5. Nothing \in [Ids -> Row \union {Untouched}] /\ Locked(r)' = {}
  BY <1>1, <1>3 DEF Nothing, Locked, Typed
<1>6. /\ made \subseteq made' /\ made' \subseteq made \union {req[r].entity}
      /\ (made' # made => Makes(r) /\ req[r].entity \in Entities)
      /\ (req[r].op = "new" /\ ~req[r].aborted => req[r].entity \in made')
  BY <1>1 DEF Commit, Makes, Good, Shape, AboutThings
<1>7. tasks' \in {tasks, tasks \union told} /\ (tasks' # tasks => ~req[r].aborted)
  BY DEF Commit
<1>8. \A q \in Requests : /\ met'[q] \in SUBSET Requests /\ met[q] \subseteq met'[q]
                          /\ (q # r /\ Open(q) => r \in met'[q])
  BY <1>1 DEF Commit, Typed, Open
<1>9. \A t \in told : /\ t \in Things \X Types \X Requests /\ t[3] = r
                      /\ \E a \in req[r].adds : a[1] = t[1] /\ a[2] = t[2]
  <2> SUFFICES ASSUME NEW a \in req[r].adds
               PROVE  /\ <<a[1], a[2], r>> \in Things \X Types \X Requests
                      /\ \E b \in req[r].adds : b[1] = a[1] /\ b[2] = a[2]
    OBVIOUS
  <2>1. a \in Things \X Types
    BY <1>1 DEF Request
  <2> QED
    BY <2>1
<1> HIDE DEF told
<1>10. LeavesRows(r) /\ template' \in [Ids -> Row \union {Unborn, Gone}]
  BY CommitWrites
<1>11. Typed'
  <2>1. met' \in [Requests -> SUBSET Requests]
    <3>1. DOMAIN met' = Requests /\ met' = [q \in Requests |-> met'[q]]
      BY DEF Commit
    <3> QED
      BY <1>8, <3>1
  <2> QED
    BY <1>1, <1>2, <1>3, <1>5, <1>6, <1>7, <1>9, <1>10, <2>1 DEF Typed
<1>12. Separate'
  <2>1. \A q \in Requests : q # r => Locked(q)' = Locked(q)
    BY <1>4 DEF Locked
  <2> QED
    BY <1>5, <2>1 DEF TemplatesIInv, Separate
<1>13. \A t \in tasks' : t[1][1] \in made'
  <2>1. \A t \in tasks : t[1][1] \in made'
    BY <1>6 DEF TemplatesIInv
  <2>2. ~req[r].aborted => \A a \in req[r].adds : a[1][1] \in made'
    BY <1>1, <1>6 DEF Good, Shape, AboutThings
  <2> QED
    BY <1>7, <1>9, <2>1, <2>2
<1>14. DuplicatesOverlap'
  <2> SUFFICES ASSUME NEW t \in tasks', NEW u \in tasks', t[1] = u[1], t[2] = u[2], t[3] # u[3]
               PROVE  t[3] \in met'[u[3]] \/ u[3] \in met'[t[3]]
    BY DEF DuplicatesOverlap
  <2>1. \A v \in tasks : v[3] \in Requests
    BY <1>1 DEF Typed
  <2>2. \A v \in told, w \in tasks : v[1] = w[1] /\ v[2] = w[2] => w[3] \in met'[v[3]]
    <3> SUFFICES ASSUME NEW v \in told, NEW w \in tasks, v[1] = w[1], v[2] = w[2] PROVE w[3] \in met'[v[3]]
      OBVIOUS
    <3>1. PICK a \in req[r].adds : a[1] = v[1] /\ a[2] = v[2]
      BY <1>9
    <3>2. w[3] \in met[r]
      BY <1>1, <3>1 DEF Good, Told
    <3> QED
      BY <1>8, <1>9, <3>2
  <2>3. CASE t \in tasks /\ u \in tasks
    BY <1>8, <2>1, <2>3 DEF TemplatesIInv, DuplicatesOverlap
  <2>4. CASE t \in told /\ u \in told
    BY <1>9, <2>4
  <2> QED
    BY <1>7, <2>2, <2>3, <2>4
<1>15. Good(r)'
  <2>1. AboutTemplate(r)'
    BY <1>1, <1>2, <1>4, <1>10 DEF Good, Shape, AboutTemplate, Writes, LeavesRows
  <2>2. AboutThings(r)'
    BY <1>1, <1>2, <1>4, <1>6 DEF Good, Shape, AboutThings, Makes
  <2>3. <<new.op, "done">> \in Course
    BY <1>1, <1>2 DEF Good, Shape, Course, None
  <2>4. Written(r)' /\ Alone(r)' /\ Told(r)'
    BY <1>2, <1>4, <1>5 DEF Written, Alone, Told, Makes, Open
  <2> QED
    BY <1>2, <1>4, <2>1, <2>2, <2>3, <2>4 DEF Good, Shape
<1>16. ASSUME NEW q \in Requests, q # r PROVE Good(q)'
  <2>1. Good(q)
    BY DEF TemplatesIInv
  <2>2. Shape(q)' /\ Written(q)'
    <3>1. \A i \in Ids : /\ (i \in Locked(q) => template'[i] = template[i])
                         /\ (template[i] = Gone => template'[i] = Gone)
                         /\ (template[i] \in Row => template'[i] \in Row \union {Gone})
      BY <1>10, <1>16 DEF LeavesRows
    <3> QED
      BY <1>4, <1>6, <1>16, <3>1, OthersGood
  <2>3. Alone(q)'
    <3>1. \A p \in Requests : (Makes(p)' => Makes(p)) /\ req'[p].entity = req[p].entity
      BY <1>2, <1>4 DEF Makes
    <3>2. Makes(q) => req[q].entity \notin made'
      BY <1>6, <1>16, <2>1 DEF Good, Alone
    <3> QED
      BY <2>1, <3>1, <3>2 DEF Good, Alone
  <2>4. Told(q)'
    <3> SUFFICES ASSUME Open(q)', NEW a \in req'[q].adds, NEW t \in tasks', t[1] = a[1], t[2] = a[2]
                 PROVE  t[3] \in met'[q]
      BY DEF Told
    <3>1. Open(q) /\ a \in req[q].adds
      BY <1>4, <1>16 DEF Open
    <3>2. CASE t \in tasks
      BY <1>8, <2>1, <3>1, <3>2 DEF Good, Told
    <3>3. CASE t \in told
      BY <1>8, <1>9, <1>16, <3>1, <3>3
    <3> QED
      BY <1>7, <3>2, <3>3
  <2> QED
    BY <2>2, <2>3, <2>4 DEF Good
<1> QED
  BY <1>11, <1>12, <1>13, <1>14, <1>15, <1>16 DEF TemplatesIInv

-----------------------------------------------------------------------------
(* What each request about templates has read, written and added.          *)
LEMMA VictimIsOpen ==
  ASSUME NEW r \in Requests, DeadlockVictim(r)
  PROVE  Open(r)
BY DEF DeadlockVictim, WaitsFor, At, Open

LEMMA TemplatesStep ==
  ASSUME TemplatesIInv, NEW r \in Requests, Begin(r) \/ Step(r)
  PROVE  TemplatesIInv'
<1>1. CASE Begin(r)
  <2>1. CASE List(r)
    BY <2>1, ListStep
  <2>2. ASSUME NEW row \in Row, Create(r, row) \/ \E i \in Ids, names \in SUBSET DOMAIN row : Patch(r, i, names, row)
        PROVE  TemplatesIInv'
    <3>1. DOMAIN row = Fields
      BY RowFields
    <3> QED
      BY <2>2, <3>1, CreateStep, PatchStep
  <2>3. CASE \E e \in Entities : New(r, e)
    BY <2>3, NewStep
  <2>4. CASE \E i \in Ids : \/ DeleteTemplate(r, i)
                            \/ \E e \in made : \E n \in DOMAIN Tree[e] : \E things \in Named(e, n) : Apply(r, i, things)
    BY <2>4, DeleteStep, ApplyStep
  <2> QED
    BY <1>1, <2>1, <2>2, <2>3, <2>4 DEF Begin
<1>2. CASE Step(r)
  <2>1. DeadlockVictim(r) => TemplatesIInv'
    BY VictimIsOpen, RollbackStep DEF DeadlockVictim
  <2> QED
    BY <1>2, <2>1, EnsureStep, SeedStep, ClearStep, ClearedStep, OwnRowStep, InsertThings, PickStep, EventStep,
       FillStep, CommitStep DEF Step
<1> QED
  BY <1>1, <1>2

LEMMA TemplatesUnchanged ==
  ASSUME TemplatesIInv, UNCHANGED vars
  PROVE  TemplatesIInv'
<1>1. /\ template' = template /\ made' = made /\ tasks' = tasks /\ req' = req /\ mine' = mine /\ met' = met
  BY DEF vars
<1>2. \A q \in Requests : Shape(q)' /\ Written(q)'
  BY <1>1, OthersGood
<1>3. \A q \in Requests : Good(q)'
  BY <1>1, <1>2 DEF TemplatesIInv, Good, Alone, Told, Makes, Open
<1> QED
  BY <1>1, <1>3 DEF TemplatesIInv, Typed, Separate, Locked, DuplicatesOverlap

THEOREM TemplatesInvariant == StudioSpec => []TemplatesIInv
<1>1. StudioInit => TemplatesIInv
  BY InitTemplates DEF StudioInit
<1>2. TemplatesIInv /\ [StudioNext]_<<vars, castVars>> => TemplatesIInv'
  <2> SUFFICES ASSUME TemplatesIInv, [StudioNext]_<<vars, castVars>> PROVE TemplatesIInv'
    OBVIOUS
  <2>1. CASE UNCHANGED vars
    BY <2>1, TemplatesUnchanged
  <2>2. CASE \E r \in Requests : Begin(r) \/ Step(r)
    BY <2>2, TemplatesStep
  <2> QED
    BY <2>1, <2>2 DEF StudioNext
<1> QED
  BY <1>1, <1>2, PTL DEF StudioSpec

(* The types of the templates, the tasks and the requests about them.      *)
THEOREM TemplateTypes == StudioSpec => []TypeOK
<1>1. TemplatesIInv => TypeOK
  <2> SUFFICES ASSUME TemplatesIInv PROVE TypeOK
    OBVIOUS
  <2>1. Typed
    BY DEF TemplatesIInv
  <2>2. \A r \in Requests : req[r] \in Request
    BY <2>1 DEF Typed
  <2>3. \A t \in tasks : t[1] \in Things /\ t[2] \in Types /\ t[3] \in Requests
    BY <2>1 DEF Typed
  <2> QED
    BY <2>1, <2>2, <2>3 DEF Typed, TypeOK, Request
<1> QED
  BY <1>1, TemplatesInvariant, PTL

(* A thing gets a second task of a type only from two requests of which    *)
(* one committed while the other was open: who makes an entity is alone    *)
(* with it, and who applies a template skips what it finds.                *)
THEOREM DuplicatesAreOverlaps == StudioSpec => []DuplicatesOverlap
<1>1. TemplatesIInv => DuplicatesOverlap
  BY DEF TemplatesIInv
<1> QED
  BY <1>1, TemplatesInvariant, PTL

-----------------------------------------------------------------------------
(* What a commit makes of a kind's defaults.                               *)
LEMMA CommitKeepsDefault ==
  ASSUME TemplatesIInv, NEW r \in Requests, Commit(r), NEW k \in Kinds,
         Defaults(template, k) # {}, Defaults(template', k) = {}
  PROVE  req[r].op = "patch" /\ (Withdraws(r, k) \/ Stale(r))
<1>1. Typed /\ Good(r) /\ req[r].phase = "commit"
  BY DEF TemplatesIInv, Commit, At
<1>2. template' = View(r)
  BY DEF Commit
<1>3. PICK i \in Ids : template[i] \in Row /\ template[i].kind = k /\ template[i].default
  BY DEF Defaults, RowIds
<1>4. \A j \in Ids : ~(View(r)[j] \in Row /\ View(r)[j].kind = k /\ View(r)[j].default)
  BY <1>2 DEF Defaults, RowIds
<1>5. \A j \in Ids : View(r)[j] = IF j \in Locked(r) THEN mine[r][j] ELSE template[j]
  BY DEF View, Locked
<1>6. i \in Locked(r) /\ template[i] # Unborn
  BY <1>3, <1>4, <1>5, RowsApart
<1>7. req[r].op \in {"create", "patch"}
  BY <1>1, <1>6 DEF Good, Shape, Course, Written, None
<1>8. req[r].row \in Row
  BY <1>1, <1>7 DEF Good, Shape, AboutTemplate, Writes
<1>9. req[r].op # "create"
  <2> SUFFICES ASSUME req[r].op = "create" PROVE FALSE
    OBVIOUS
  <2>1. PICK j \in Ids : /\ mine[r][j] = req[r].row /\ template[j] = Unborn
                         /\ \A l \in Locked(r) \ {j} : Clears(r, l)
    BY <1>1 DEF Good, Written, CreateWrote
  <2>2. Clears(r, i)
    BY <1>6, <2>1
  <2>3. j \in Locked(r)
    BY <1>8, <2>1, RowsApart DEF Locked
  <2> QED
    BY <1>3, <1>4, <1>5, <1>8, <2>1, <2>2, <2>3 DEF Clears
<1>10. Withdraws(r, k) \/ Stale(r)
  <2> SUFFICES ASSUME ~Withdraws(r, k), ~Stale(r) PROVE FALSE
    OBVIOUS
  <2> DEFINE j == req[r].id
             row == req[r].row
             now == template[j]
             names == req[r].names
  <2>1. req[r].op = "patch" /\ PatchWrote(r, j)
    BY <1>1, <1>7, <1>9 DEF Good, Written
  <2>2. j \in Ids /\ now \in Row /\ \A f \in Fields \ names : row[f] = req[r].seen[f]
    BY <1>1, <2>1 DEF Good, Shape, AboutTemplate, Stale
  <2>3. mine[r][j] = Merged(now, names, row)
    BY <2>1, <2>2, RowsApart DEF PatchWrote
  <2>4. mine[r][j] \in Row /\ j \in Locked(r) /\ View(r)[j] = mine[r][j]
    <3>1. mine[r][j] \in Row
      BY <1>8, <2>2, <2>3, MergedIsRow
    <3>2. j \in Locked(r)
      BY <2>2, <3>1, RowsApart DEF Locked
    <3> QED
      BY <1>5, <2>2, <3>1, <3>2
  <2>5. DOMAIN now = Fields
    BY <2>2, RowFields
  <2>6. /\ "kind" \notin names => now.kind = row.kind
        /\ "default" \notin names => now.default = row.default
    BY <2>2 DEF Stale, Fields
  <2>7. mine[r][j].kind = row.kind /\ mine[r][j].default = row.default
    BY <2>3, <2>5, <2>6 DEF Merged, Fields
  <2>8. CASE i = j
    <3>1. j \in Defaults(template, k) /\ row.kind \in Kinds /\ row.default \in BOOLEAN
      BY <1>3, <1>8, <2>8, RowFields DEF Defaults, RowIds
    <3>2. row.kind = k /\ row.default
      BY <1>3, <2>6, <2>8, <3>1 DEF Withdraws
    <3> QED
      BY <1>4, <2>2, <2>4, <2>7, <3>2
  <2>9. CASE i # j
    <3>1. Clears(r, i)
      BY <1>6, <2>1, <2>9 DEF PatchWrote
    <3> QED
      BY <1>3, <1>4, <2>2, <2>4, <2>7, <3>1 DEF Clears
  <2> QED
    BY <2>8, <2>9
<1> QED
  BY <1>7, <1>9, <1>10

(* A kind that has a default keeps one.  The rows that a transaction has   *)
(* cleared stay locked and are of the kind of its new default, which is    *)
(* written with the same commit: a PATCH either names the kind and the mark *)
(* that it decided by, or has read them and, unless they changed since,    *)
(* finds them in its row.  What remains is the withdrawal of the default.  *)
THEOREM DefaultsAreKept == StudioSpec => DefaultKept
<1>1. ASSUME TemplatesIInv, NEW r \in Requests, Begin(r) \/ Step(r), NEW k \in Kinds,
             Defaults(template, k) # {}, Defaults(template', k) = {}
      PROVE  \/ \E q \in Requests, i \in Ids : DeleteTemplate(q, i)
             \/ \E q \in Requests : Commit(q) /\ req[q].op = "patch" /\ (Withdraws(q, k) \/ Stale(q))
  <2>1. template' # template
    BY <1>1
  <2>2. CASE \E i \in Ids : DeleteTemplate(r, i)
    BY <2>2
  <2>3. CASE Commit(r)
    BY <1>1, <2>3, CommitKeepsDefault
  <2>4. CASE Seed(r)
    <3>1. template \in [Ids -> Row \union {Unborn, Gone}]
      BY <1>1 DEF TemplatesIInv, Typed
    <3>2. NewId \in Ids /\ template[NewId] = Unborn
      BY <1>1, <2>4, NewIdIsFree DEF TemplatesIInv, Seed
    <3>3. \A j \in Ids : j # NewId => template'[j] = template[j]
      BY <2>1, <2>4, <3>1, <3>2 DEF Seed
    <3>4. Defaults(template, k) \subseteq Defaults(template', k)
      BY <3>2, <3>3, RowsApart DEF Defaults, RowIds
    <3> QED
      BY <1>1, <3>4
  <2>5. \/ \E i \in Ids : DeleteTemplate(r, i)
        \/ Commit(r) \/ Seed(r)
    BY <1>1, <2>1 DEF Begin, Step, List, Create, Patch, New, Apply, Ensure, Clear, Cleared, Write, Insert, Pick,
       Event, Fill, DeadlockVictim, Rollback, KeepTables
  <2> QED
    BY <2>2, <2>3, <2>4, <2>5
<1>2. TemplatesIInv /\ [StudioNext]_<<vars, castVars>> =>
        [\A k \in Kinds :
           Defaults(template, k) # {} /\ Defaults(template', k) = {} =>
             \/ \E r \in Requests, i \in Ids : DeleteTemplate(r, i)
             \/ \E r \in Requests : Commit(r) /\ req[r].op = "patch" /\ (Withdraws(r, k) \/ Stale(r))]_vars
  <2> SUFFICES ASSUME TemplatesIInv, StudioNext, ~UNCHANGED vars
               PROVE  \A k \in Kinds :
                        Defaults(template, k) # {} /\ Defaults(template', k) = {} =>
                          \/ \E q \in Requests, i \in Ids : DeleteTemplate(q, i)
                          \/ \E q \in Requests : Commit(q) /\ req[q].op = "patch" /\ (Withdraws(q, k) \/ Stale(q))
    BY DEF castVars
  <2>1. \E r \in Requests : Begin(r) \/ Step(r)
    BY DEF StudioNext
  <2> QED
    BY <1>1, <2>1
<1>3. StudioSpec =>
        [][\A k \in Kinds :
           Defaults(template, k) # {} /\ Defaults(template', k) = {} =>
             \/ \E r \in Requests, i \in Ids : DeleteTemplate(r, i)
             \/ \E r \in Requests : Commit(r) /\ req[r].op = "patch" /\ (Withdraws(r, k) \/ Stale(r))]_vars
  BY <1>2, TemplatesInvariant, PTL DEF StudioSpec
<1> QED
  BY <1>3, Zenon DEF DefaultKept
=============================================================================
