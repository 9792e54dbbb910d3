------------------------- MODULE PublishVersion_proofs -------------------------
(***************************************************************************)
(* Proofs about PublishVersion for every set of requests, representations, *)
(* batches and contents: the numbers stay unique and the rows form a       *)
(* VersionCatalog, whatever transactions interleave and whichever fail.    *)
(***************************************************************************)
EXTENDS PublishVersion, FiniteSetTheorems, WellFoundedInduction, TLAPS

USE DEF PublishRequest, PatchRequest

Request == PublishRequest(PubPhases, Nat, Answers)

(* What the phase of a publish says of its number, its content, its row.   *)
Progress ==
  /\ \A p \in committed : pub[p].phase \in {"setTask", "done"}
  /\ \A p \in Publishes : pub[p].phase \in {"checkCas", "insert", "commit"} => pub[p].number > 0
  /\ \A p \in committed : pub[p].number > 0
  /\ \A p \in Publishes : pub[p].phase \in {"insert", "commit"} => pub[p].content \in cas
  /\ \A p \in committed : pub[p].content \in cas
  /\ \A p \in Publishes : pub[p].phase = "checkExplicit" => pub[p].version # NextNumber

Inv == TypeOK /\ Progress /\ NumbersUnique

(* A request never changes; a step of publish p changes p's record only.   *)
Moves(p, phase, number) ==
  /\ pub' \in [Publishes -> Request]
  /\ \A q \in Publishes \ {p} : pub'[q] = pub[q]
  /\ pub'[p].phase = phase
  /\ pub'[p].number = number
  /\ pub'[p].rep = pub[p].rep
  /\ pub'[p].version = pub[p].version
  /\ pub'[p].content = pub[p].content
  /\ pub'[p].batch = pub[p].batch /\ pub'[p].forTask = pub[p].forTask

LEMMA GotoMoves ==
  ASSUME TypeOK, NEW p \in Publishes, NEW phase \in PubPhases, Goto(p, phase)
  PROVE  Moves(p, phase, pub[p].number)
<1>1. pub[p] \in Request
  BY DEF TypeOK, Request
<1>2. [pub[p] EXCEPT !.phase = phase] \in Request
  BY <1>1 DEF Request
<1>3. pub' = [pub EXCEPT ![p] = [pub[p] EXCEPT !.phase = phase]]
  BY DEF Goto
<1>4. pub \in [Publishes -> Request]
  BY DEF TypeOK, Request
<1>5. pub' \in [Publishes -> Request]
  BY <1>2, <1>3, <1>4
<1> QED
  BY <1>1, <1>3, <1>4, <1>5 DEF Moves, Request

LEMMA PickedMoves ==
  ASSUME TypeOK, NEW p \in Publishes, NEW n \in Nat, Picked(p, n)
  PROVE  Moves(p, "checkCas", n)
<1> DEFINE r == [pub[p] EXCEPT !.phase = "checkCas", !.number = n]
<1>1. pub[p] \in Request
  BY DEF TypeOK, Request
<1>2. r \in Request /\ r.phase = "checkCas" /\ r.number = n
      /\ r.rep = pub[p].rep /\ r.version = pub[p].version /\ r.content = pub[p].content
      /\ r.batch = pub[p].batch /\ r.forTask = pub[p].forTask
  BY <1>1 DEF Request, PubPhases, TxPhases
<1>3. pub' = [pub EXCEPT ![p] = r]
  BY DEF Picked
<1>4. pub \in [Publishes -> Request]
  BY DEF TypeOK, Request
<1> HIDE DEF r
<1>5. pub' \in [Publishes -> Request]
  BY <1>2, <1>3, <1>4
<1> QED
  BY <1>2, <1>3, <1>4, <1>5 DEF Moves

LEMMA AnswerMoves ==
  ASSUME TypeOK, NEW p \in Publishes, NEW a \in Answers, Answer(p, a)
  PROVE  Moves(p, "done", pub[p].number)
<1> DEFINE r == [pub[p] EXCEPT !.phase = "done", !.answer = a]
<1>1. pub[p] \in Request
  BY DEF TypeOK, Request
<1>2. r \in Request /\ r.phase = "done" /\ r.number = pub[p].number
      /\ r.rep = pub[p].rep /\ r.version = pub[p].version /\ r.content = pub[p].content
      /\ r.batch = pub[p].batch /\ r.forTask = pub[p].forTask
  BY <1>1 DEF Request, PubPhases, TxPhases
<1>3. pub' = [pub EXCEPT ![p] = r]
  BY DEF Answer
<1>4. pub \in [Publishes -> Request]
  BY DEF TypeOK, Request
<1> HIDE DEF r
<1>5. pub' \in [Publishes -> Request]
  BY <1>2, <1>3, <1>4
<1> QED
  BY <1>2, <1>3, <1>4, <1>5 DEF Moves

(* The four shapes a step of publish p has: it moves inside the open       *)
(* transaction or out of it; it inserts its row; it commits; it ends.      *)
Before == {"new", "pickBatch", "pickMax", "checkExplicit", "checkCas", "insert"}
Quiet(p) ==
  /\ pub[p].phase \in TxPhases \union {"new", "setTask"}
  /\ committed' = committed /\ cas' = cas
  /\ \E phase \in PubPhases, n \in Nat :
       /\ Moves(p, phase, n)
       /\ phase # "commit"
       /\ pub[p].phase = "setTask" => phase = "done" /\ n = pub[p].number
       /\ phase \in {"checkCas", "insert"} => n > 0
       /\ phase = "insert" => pub[p].content \in cas
       /\ phase = "checkExplicit" => pub[p].version # NextNumber

Inserts(p) ==
  /\ pub[p].phase = "insert"
  /\ committed' = committed /\ cas' = cas
  /\ Moves(p, "commit", pub[p].number)
  /\ \A q \in Publishes \ {p} : pub[q].phase = "commit" => ~SameKey(p, q)
  /\ \A q \in committed : ~SameKey(p, q)

CommitsRow(p) ==
  /\ pub[p].phase = "commit"
  /\ committed' = committed \union {p} /\ cas' = cas
  /\ \E phase \in {"setTask", "done"} : Moves(p, phase, pub[p].number)

Core == Progress /\ NumbersUnique

LEMMA QuietCore ==
  ASSUME Inv, NEW p \in Publishes, Quiet(p)
  PROVE  Core'
<1> PICK phase \in PubPhases, n \in Nat :
           /\ Moves(p, phase, n)
           /\ phase # "commit"
           /\ pub[p].phase = "setTask" => phase = "done" /\ n = pub[p].number
           /\ phase \in {"checkCas", "insert"} => n > 0
           /\ phase = "insert" => pub[p].content \in cas
           /\ phase = "checkExplicit" => pub[p].version # NextNumber
  BY DEF Quiet
<1>1. \A q \in committed : q # p \/ (pub[p].phase = "setTask" /\ phase = "done")
  BY DEF Inv, Progress, Quiet, TxPhases
<1>2. \A q \in Publishes : q # p => pub'[q] = pub[q]
  BY DEF Moves
<1>3. committed \subseteq Publishes
  BY DEF Inv, TypeOK
<1>4. Progress'
  BY <1>1, <1>2, <1>3 DEF Inv, Progress, Quiet, Moves
<1>5. Placed' \subseteq Placed
  BY <1>2, <1>3 DEF Placed, Quiet, Moves
<1>6. \A q \in Placed' : pub'[q].number = pub[q].number /\ pub'[q].rep = pub[q].rep
  BY <1>1, <1>2, <1>3 DEF Placed, Quiet, Moves
<1>7. NumbersUnique'
  BY <1>5, <1>6 DEF Inv, NumbersUnique, SameKey
<1> QED
  BY <1>4, <1>7 DEF Core

LEMMA InsertsCore ==
  ASSUME Inv, NEW p \in Publishes, Inserts(p)
  PROVE  Core'
<1>1. p \notin committed
  BY DEF Inv, Progress, Inserts
<1>2. \A q \in Publishes : q # p => pub'[q] = pub[q]
  BY DEF Moves, Inserts
<1>3. committed \subseteq Publishes
  BY DEF Inv, TypeOK
<1>4. Progress'
  BY <1>1, <1>2, <1>3 DEF Inv, Progress, Inserts, Moves
<1>5. Placed' = Placed \union {p}
  BY <1>2, <1>3 DEF Placed, Inserts, Moves
<1>6. \A q \in Publishes : pub'[q].number = pub[q].number /\ pub'[q].rep = pub[q].rep
  BY <1>2 DEF Inserts, Moves
<1>7. \A q \in Placed : q # p => ~SameKey(p, q)
  BY <1>3 DEF Placed, Inserts
<1>8. NumbersUnique'
  BY <1>3, <1>5, <1>6, <1>7 DEF Inv, NumbersUnique, SameKey, Placed
<1> QED
  BY <1>4, <1>8 DEF Core

LEMMA CommitsCore ==
  ASSUME Inv, NEW p \in Publishes, CommitsRow(p)
  PROVE  Core'
<1> PICK phase \in {"setTask", "done"} : Moves(p, phase, pub[p].number)
  BY DEF CommitsRow
<1>2. \A q \in Publishes : q # p => pub'[q] = pub[q]
  BY DEF Moves
<1>3. committed \subseteq Publishes
  BY DEF Inv, TypeOK
<1>4. Progress'
  BY <1>2, <1>3 DEF Inv, Progress, CommitsRow, Moves
<1>5. Placed' = Placed
  BY <1>2, <1>3 DEF Placed, CommitsRow, Moves
<1>6. \A q \in Publishes : pub'[q].number = pub[q].number /\ pub'[q].rep = pub[q].rep
  BY <1>2 DEF Moves
<1>7. NumbersUnique'
  BY <1>3, <1>5, <1>6 DEF Inv, NumbersUnique, SameKey, Placed
<1> QED
  BY <1>4, <1>7 DEF Core

-----------------------------------------------------------------------------
(* Every action of a publish has one of the three shapes.                  *)
LEMMA BeginQuiet ==
  ASSUME Inv, NEW p \in Publishes, Begin(p)
  PROVE  Quiet(p) /\ TypeOK'
<1> DEFINE phase == IF pub[p].version # NextNumber THEN "checkExplicit"
                    ELSE IF pub[p].batch # NoBatch THEN "pickBatch" ELSE "pickMax"
<1>t. TypeOK
  BY DEF Inv
<1>1. /\ phase \in {"checkExplicit", "pickBatch", "pickMax"} /\ phase \in PubPhases
      /\ phase = "checkExplicit" => pub[p].version # NextNumber
  BY DEF PubPhases, TxPhases
<1>2. Goto(p, phase)
  BY DEF Begin
<1> HIDE DEF phase
<1>3. Moves(p, phase, pub[p].number) /\ pub[p].number \in Nat
  BY <1>1, <1>2, <1>t, GotoMoves DEF TypeOK
<1>4. Quiet(p)
  BY <1>1, <1>3 DEF Quiet, Begin, KeepTask
<1>5. created' \in [Publishes -> Nat]
  <2>1. IsFiniteSet({q \in Publishes : created[q] > 0})
    BY PublishesAssumption, FS_Subset
  <2>2. Cardinality({q \in Publishes : created[q] > 0}) \in Nat
    BY <2>1, FS_CardinalityType
  <2> QED
    BY <2>2, <1>t DEF Begin, TypeOK
<1>6. concurrent' \in [Publishes -> SUBSET Publishes]
  BY <1>t DEF Begin, TypeOK, InTx
<1> QED
  BY <1>3, <1>4, <1>5, <1>6, <1>t DEF Begin, KeepTask, Moves, TypeOK, Request

LEMMA KeepTxTypes ==
  ASSUME TypeOK, KeepTx, pub' \in [Publishes -> Request]
  PROVE  TypeOK'
BY DEF TypeOK, KeepTx, KeepTask, Request

LEMMA PickBatchQuiet ==
  ASSUME Inv, NEW p \in Publishes, PickBatch(p)
  PROVE  Quiet(p) /\ TypeOK'
<1>t. TypeOK
  BY DEF Inv
<1>1. CASE Goto(p, "pickMax")
  <2>1. Moves(p, "pickMax", pub[p].number) /\ pub[p].number \in Nat /\ "pickMax" \in PubPhases
    BY <1>1, <1>t, GotoMoves DEF TypeOK, PubPhases, TxPhases
  <2> QED
    BY <2>1, <1>t, KeepTxTypes DEF Quiet, PickBatch, KeepTx, TxPhases, Moves
<1>2. CASE \E o \in BatchRows(pub[p].batch) : Picked(p, pub[o].number)
  <2> PICK o \in BatchRows(pub[p].batch) : Picked(p, pub[o].number)
    BY <1>2
  <2>1. o \in committed /\ pub[o].number \in Nat /\ pub[o].number > 0
    BY <1>t DEF BatchRows, Inv, Progress, TypeOK
  <2>2. Moves(p, "checkCas", pub[o].number) /\ "checkCas" \in PubPhases
    BY <2>1, <1>t, PickedMoves DEF PubPhases, TxPhases
  <2> QED
    BY <2>1, <2>2, <1>t, KeepTxTypes DEF Quiet, PickBatch, KeepTx, TxPhases, Moves
<1> QED
  BY <1>1, <1>2 DEF PickBatch

LEMMA PickMaxQuiet ==
  ASSUME Inv, NEW p \in Publishes, PickMax(p)
  PROVE  Quiet(p) /\ TypeOK'
<1>t. TypeOK
  BY DEF Inv
<1> PICK n \in {0} \union Numbers(Numbered(p)) : Picked(p, n + 1)
  BY DEF PickMax
<1>1. n \in Nat
  BY <1>t DEF Numbers, Numbered, RepRows, TypeOK
<1>2. Moves(p, "checkCas", n + 1) /\ "checkCas" \in PubPhases /\ n + 1 \in Nat /\ n + 1 > 0
  BY <1>1, <1>t, PickedMoves DEF PubPhases, TxPhases
<1> QED
  BY <1>2, <1>t, KeepTxTypes DEF Quiet, PickMax, KeepTx, TxPhases, Moves

LEMMA CheckExplicitQuiet ==
  ASSUME Inv, NEW p \in Publishes, CheckExplicit(p)
  PROVE  Quiet(p) /\ TypeOK'
<1>t. TypeOK
  BY DEF Inv
<1>1. CASE Answer(p, "conflict")
  <2>1. Moves(p, "done", pub[p].number) /\ pub[p].number \in Nat /\ "done" \in PubPhases
    BY <1>1, <1>t, AnswerMoves DEF TypeOK, PubPhases, Answers
  <2> QED
    BY <2>1, <1>t, KeepTxTypes DEF Quiet, CheckExplicit, KeepTx, TxPhases, Moves
<1>2. CASE Picked(p, pub[p].version)
  <2>1. pub[p].version \in Nat /\ pub[p].version > 0
    <3>1. pub[p].version \in Explicit \union {NextNumber}
      BY <1>t DEF TypeOK
    <3>2. pub[p].version # NextNumber
      BY DEF Inv, Progress, CheckExplicit
    <3>3. pub[p].version \in Explicit
      BY <3>1, <3>2 DEF NextNumber
    <3>4. pub[p].version \in Nat \ {0}
      BY <3>3, ExplicitAssumption
    <3> QED
      BY <3>4
  <2>2. Moves(p, "checkCas", pub[p].version) /\ "checkCas" \in PubPhases
    BY <1>2, <2>1, <1>t, PickedMoves DEF PubPhases, TxPhases
  <2> QED
    BY <2>1, <2>2, <1>t, KeepTxTypes DEF Quiet, CheckExplicit, KeepTx, TxPhases, Moves
<1> QED
  BY <1>1, <1>2 DEF CheckExplicit

LEMMA CheckCasQuiet ==
  ASSUME Inv, NEW p \in Publishes, CheckCas(p)
  PROVE  Quiet(p) /\ TypeOK'
<1>t. TypeOK
  BY DEF Inv
<1>n. pub[p].number \in Nat /\ pub[p].number > 0
  BY <1>t DEF CheckCas, Inv, Progress, TypeOK
<1>1. CASE pub[p].content \in cas
  <2>1. Moves(p, "insert", pub[p].number) /\ "insert" \in PubPhases
    BY <1>1, <1>t, GotoMoves DEF CheckCas, PubPhases, TxPhases
  <2> QED
    BY <2>1, <1>1, <1>n, <1>t, KeepTxTypes DEF Quiet, CheckCas, KeepTx, TxPhases, Moves
<1>2. CASE pub[p].content \notin cas
  <2>1. Moves(p, "done", pub[p].number) /\ "done" \in PubPhases
    BY <1>2, <1>t, AnswerMoves DEF CheckCas, PubPhases, Answers
  <2> QED
    BY <2>1, <1>n, <1>t, KeepTxTypes DEF Quiet, CheckCas, KeepTx, TxPhases, Moves
<1> QED
  BY <1>1, <1>2

LEMMA InsertShape ==
  ASSUME Inv, NEW p \in Publishes, Insert(p)
  PROVE  (Quiet(p) \/ Inserts(p)) /\ TypeOK'
<1>t. TypeOK
  BY DEF Inv
<1>1. CASE \E q \in committed : SameKey(p, q)
  <2>1. Moves(p, "done", pub[p].number) /\ pub[p].number \in Nat /\ "done" \in PubPhases
    BY <1>1, <1>t, AnswerMoves DEF Insert, PubPhases, Answers, TypeOK
  <2> QED
    BY <2>1, <1>t, KeepTxTypes DEF Quiet, Insert, KeepTx, TxPhases, Moves
<1>2. CASE ~\E q \in committed : SameKey(p, q)
  <2>1. Moves(p, "commit", pub[p].number)
    BY <1>2, <1>t, GotoMoves DEF Insert, PubPhases, TxPhases
  <2> QED
    BY <2>1, <1>2, <1>t, KeepTxTypes DEF Inserts, Insert, KeepTx, Moves
<1> QED
  BY <1>1, <1>2

LEMMA CommitShape ==
  ASSUME Inv, NEW p \in Publishes, Commit(p)
  PROVE  CommitsRow(p) /\ TypeOK'
<1>t. TypeOK
  BY DEF Inv
<1>1. \E phase \in {"setTask", "done"} : Moves(p, phase, pub[p].number)
  BY <1>t, GotoMoves, AnswerMoves DEF Commit, PubPhases, Answers
<1>2. CommitsRow(p)
  BY <1>1 DEF CommitsRow, Commit
<1>3. pub' \in [Publishes -> Request]
  BY <1>1 DEF Moves
<1>4. committed' \subseteq Publishes /\ disturbed' \subseteq Patches
  BY <1>t DEF Commit, TypeOK, Running
<1> QED
  BY <1>2, <1>3, <1>4, <1>t DEF Commit, TypeOK, Request

LEMMA EndsQuiet ==
  ASSUME Inv, NEW p \in Publishes, SetTask(p) \/ TxFails(p)
  PROVE  Quiet(p) /\ TypeOK'
<1>t. TypeOK
  BY DEF Inv
<1>1. Moves(p, "done", pub[p].number) /\ pub[p].number \in Nat /\ "done" \in PubPhases
  BY <1>t, AnswerMoves DEF SetTask, TxFails, Answers, PubPhases, TypeOK
<1>2. Quiet(p)
  BY <1>1 DEF Quiet, SetTask, TxFails, KeepTx
<1>3. pub' \in [Publishes -> Request]
  BY <1>1 DEF Moves
<1>4. CASE TxFails(p)
  BY <1>2, <1>3, <1>4, <1>t, KeepTxTypes DEF TxFails
<1>5. CASE SetTask(p)
  <2>1. task' \in TaskStatuses /\ disturbed' \subseteq Patches
    BY <1>5, <1>t DEF SetTask, SetForReview, TypeOK, TaskStatuses, Running
  <2> QED
    BY <1>2, <1>3, <1>5, <2>1, <1>t DEF SetTask, TypeOK, Request
<1> QED
  BY <1>4, <1>5

LEMMA PatchGoto ==
  ASSUME TypeOK, NEW q \in Patches, NEW phase \in PatchPhases,
         patch' = [patch EXCEPT ![q].phase = phase]
  PROVE  patch' \in [Patches -> PatchRequest(PatchPhases, Statuses)]
<1> DEFINE r == [patch[q] EXCEPT !.phase = phase]
<1>1. patch \in [Patches -> PatchRequest(PatchPhases, Statuses)] /\ patch[q] \in PatchRequest(PatchPhases, Statuses)
  BY DEF TypeOK
<1>2. r \in PatchRequest(PatchPhases, Statuses)
  BY <1>1
<1>3. patch' = [patch EXCEPT ![q] = r]
  OBVIOUS
<1> QED
  BY <1>1, <1>2, <1>3

(* What is not a step of a publish leaves rows and requests alone.         *)
LEMMA OthersInv ==
  ASSUME Inv,
         \/ \E c \in Contents : Upload(c)
         \/ \E q \in Patches : PatchVersion(q) \/ PatchStep(q) \/ PatchFails(q)
  PROVE  Inv'
<1>t. TypeOK
  BY DEF Inv
<1>1. pub' = pub /\ committed' = committed /\ cas \subseteq cas'
  BY DEF Upload, PatchVersion, PatchStep, ReadLatest, WriteTask, PatchFails
<1>2. Core'
  BY <1>1 DEF Core, Inv, Progress, NumbersUnique, Placed, SameKey
<1>3. TypeOK'
  <2>1. CASE \E c \in Contents : Upload(c)
    BY <2>1, <1>t DEF Upload, KeepTask, TypeOK
  <2>2. ASSUME NEW q \in Patches, PatchVersion(q) PROVE TypeOK'
    <3>1. patch' \in [Patches -> PatchRequest(PatchPhases, Statuses)]
      BY <2>2, <1>t, PatchGoto DEF PatchVersion, PatchPhases
    <3>2. status' \in [Publishes -> Statuses] /\ disturbed' \subseteq Patches
      BY <2>2, <1>t DEF PatchVersion, TypeOK, Running
    <3> QED
      BY <2>2, <3>1, <3>2, <1>t DEF PatchVersion, TypeOK
  <2>3. ASSUME NEW q \in Patches, ReadLatest(q) PROVE TypeOK'
    <3>1. PICK p \in TaskRows : Read(q, p)
      BY <2>3 DEF ReadLatest
    <3>2. status[p] \in Statuses
      BY <1>t DEF TaskRows, TypeOK
    <3> DEFINE r == [patch[q] EXCEPT !.phase = "writeTask", !.latest = status[p]]
    <3>3. patch[q] \in PatchRequest(PatchPhases, Statuses)
      BY <1>t DEF TypeOK
    <3>4. r \in PatchRequest(PatchPhases, Statuses)
      BY <3>2, <3>3 DEF PatchPhases
    <3>5. patch' = [patch EXCEPT ![q] = r]
      BY <3>1 DEF Read
    <3>6. patch' \in [Patches -> PatchRequest(PatchPhases, Statuses)]
      BY <3>4, <3>5, <1>t DEF TypeOK
    <3> QED
      BY <2>3, <3>6, <1>t DEF ReadLatest, TypeOK
  <2>4. ASSUME NEW q \in Patches, WriteTask(q) \/ PatchFails(q) PROVE TypeOK'
    <3>1. patch' \in [Patches -> PatchRequest(PatchPhases, Statuses)]
      BY <2>4, <1>t, PatchGoto DEF WriteTask, PatchFails, PatchPhases
    <3>2. task' \in TaskStatuses /\ disturbed' \subseteq Patches
      BY <2>4, <1>t DEF WriteTask, PatchFails, TypeOK, TaskStatuses, TaskStatusFor, Running
    <3> QED
      BY <2>4, <3>1, <3>2, <1>t DEF WriteTask, PatchFails, TypeOK
  <2> QED
    BY <2>1, <2>2, <2>3, <2>4 DEF PatchStep
<1> QED
  BY <1>2, <1>3 DEF Core, Inv

(* A step of publish p, whichever it is.                                   *)
LEMMA PublishShape ==
  ASSUME Inv, NEW p \in Publishes, Begin(p) \/ PublishStep(p) \/ TxFails(p)
  PROVE  (Quiet(p) \/ Inserts(p) \/ CommitsRow(p)) /\ TypeOK'
BY BeginQuiet, PickBatchQuiet, PickMaxQuiet, CheckExplicitQuiet, CheckCasQuiet,
   InsertShape, CommitShape, EndsQuiet DEF PublishStep

LEMMA InitInv == Init => Inv
<1> SUFFICES ASSUME Init PROVE Inv
  OBVIOUS
<1> PICK w \in Workloads : pub = w.pub /\ patch = w.patch
  BY DEF Init
<1>1. /\ pub \in [Publishes -> PublishRequest({"new", "done"}, {0}, {"none"})]
      /\ patch \in [Patches -> PatchRequest({"new", "done"}, {"pending"})]
  BY WorkloadsAssumption
<1>2. TypeOK
  <2>1. pub \in [Publishes -> PublishRequest(PubPhases, Nat, Answers)]
    <3>1. PublishRequest({"new", "done"}, {0}, {"none"})
            \subseteq PublishRequest(PubPhases, Nat, Answers)
      BY DEF PubPhases, Answers
    <3> QED
      BY <1>1, <3>1
  <2>2. patch \in [Patches -> PatchRequest(PatchPhases, Statuses)]
    <3>1. PatchRequest({"new", "done"}, {"pending"}) \subseteq PatchRequest(PatchPhases, Statuses)
      BY DEF PatchPhases, Statuses
    <3> QED
      BY <1>1, <3>1
  <2> QED
    BY <2>1, <2>2 DEF Init, TypeOK, Statuses, TaskStatuses
<1>3. \A p \in Publishes : pub[p].phase \in {"new", "done"}
  BY <1>1
<1>4. Core
  BY <1>3 DEF Init, Core, Progress, NumbersUnique, Placed
<1> QED
  BY <1>2, <1>4 DEF Core, Inv

LEMMA NextInv == Inv /\ [Next]_vars => Inv'
<1> SUFFICES ASSUME Inv, [Next]_vars PROVE Inv'
  OBVIOUS
<1>1. ASSUME NEW p \in Publishes, Begin(p) \/ PublishStep(p) \/ TxFails(p) PROVE Inv'
  BY <1>1, PublishShape, QuietCore, InsertsCore, CommitsCore DEF Core, Inv
<1>2. CASE UNCHANGED vars
  BY <1>2 DEF vars, Inv, TypeOK, Progress, NumbersUnique, Placed, SameKey
<1> QED
  BY <1>1, <1>2, OthersInv DEF Next

(* The invariant holds in every reachable state.                           *)
THEOREM Invariance == Spec => []Inv
BY InitInv, NextInv, PTL DEF Spec

(* Every reachable state has the declared types.                           *)
THEOREM TypeCorrect == Spec => []TypeOK
<1>1. Inv => TypeOK
  BY DEF Inv
<1> QED
  BY <1>1, Invariance, PTL

(* Racing publishes never give two rows of a representation one number.    *)
THEOREM UniqueNumbers == Spec => []NumbersUnique
<1>1. Inv => NumbersUnique
  BY DEF Inv
<1> QED
  BY <1>1, Invariance, PTL

-----------------------------------------------------------------------------
(* Refinement: only a commit changes the catalogue, and it adds one entry. *)
Entry(p) == [row |-> p, rep |-> pub[p].rep, number |-> pub[p].number,
             content |-> pub[p].content]
Entries == {Entry(p) : p \in committed}

LEMMA EntriesKept ==
  ASSUME Inv, NEW p \in Publishes, NEW phase, Moves(p, phase, pub[p].number)
  PROVE  \A q \in committed : Entry(q)' = Entry(q)
BY DEF Moves, Entry, Inv, TypeOK

LEMMA CommitRefines ==
  ASSUME Inv, NEW p \in Publishes, CommitsRow(p)
  PROVE  [Catalog!Next]_(Catalog!catalogVars)
<1> PICK phase \in {"setTask", "done"} : Moves(p, phase, pub[p].number)
  BY DEF CommitsRow
<1>1. Entry(p)' = Entry(p) /\ \A q \in committed : Entry(q)' = Entry(q)
  BY EntriesKept DEF Moves, Entry
<1>2. Entries' = Entries \union {Entry(p)}
  BY <1>1 DEF CommitsRow, Entries
<1>3. p \notin committed
  BY DEF CommitsRow, Inv, Progress
<1>4. \A q \in committed : <<Entry(q).rep, Entry(q).number>> # <<Entry(p).rep, Entry(p).number>>
  BY <1>3 DEF Inv, NumbersUnique, Placed, SameKey, Entry, CommitsRow
<1>5. Entry(p) \notin Entries /\ \A f \in Entries : <<f.rep, f.number>> # <<Entry(p).rep, Entry(p).number>>
  BY <1>4 DEF Entries
<1>6. Entry(p).row \in Publishes /\ Entry(p).rep \in Reps /\ Entry(p).number \in Nat \ {0} /\ Entry(p).content \in cas
  BY DEF Inv, TypeOK, Progress, CommitsRow, Entry
<1>7. Entry(p) \in Entries' \ Entries
  BY <1>2, <1>5
<1>8. cas' = cas
  BY DEF CommitsRow
<1> QED
  BY <1>2, <1>5, <1>6, <1>7, <1>8
     DEF Catalog!Next, Catalog!Publish, Entries, Entry

LEMMA StepRefines == Inv /\ [Next]_vars => [Catalog!Next]_(Catalog!catalogVars)
<1> SUFFICES ASSUME Inv, [Next]_vars PROVE [Catalog!Next]_(Catalog!catalogVars)
  OBVIOUS
<1>1. ASSUME NEW c \in Contents, Upload(c) PROVE Catalog!Next
  BY <1>1 DEF Upload, Catalog!Next, Catalog!Store
<1>2. ASSUME NEW q \in Patches, PatchVersion(q) \/ PatchStep(q) \/ PatchFails(q)
      PROVE  UNCHANGED Catalog!catalogVars
  BY <1>2 DEF PatchVersion, PatchStep, ReadLatest, WriteTask, PatchFails, Catalog!catalogVars
<1>3. ASSUME NEW p \in Publishes, Quiet(p) \/ Inserts(p)
      PROVE  UNCHANGED Catalog!catalogVars
  <2>1. committed' = committed /\ cas' = cas
    BY <1>3 DEF Quiet, Inserts
  <2>2. \A q \in committed : Entry(q)' = Entry(q)
    <3>1. CASE Inserts(p)
      BY <3>1, EntriesKept DEF Inserts
    <3>2. CASE Quiet(p)
      BY <3>2 DEF Quiet, Moves, Entry, Inv, TypeOK, Progress, TxPhases
    <3> QED
      BY <1>3, <3>1, <3>2
  <2>3. Entries' = Entries
    BY <2>1, <2>2 DEF Entries
  <2> QED
    BY <2>1, <2>3 DEF Catalog!catalogVars, Entries, Entry
<1>4. CASE UNCHANGED vars
  BY <1>4 DEF vars, Catalog!catalogVars
<1> QED
  BY <1>1, <1>2, <1>3, <1>4, PublishShape, CommitRefines DEF Next

(* What readers see of the rows is a VersionCatalog: entries appear one at *)
(* a time, with stored content, under a fresh key, and stay for good.      *)
THEOREM ImplementsCatalog == Spec => CatalogSpec
<1>1. Init => Catalog!Init
  BY DEF Init, Catalog!Init
<1> QED
  BY <1>1, Invariance, StepRefines, PTL DEF Spec, CatalogSpec, Catalog!Spec

-----------------------------------------------------------------------------
(* What a publish that ran alone picks.  Every transaction begins at a     *)
(* time of its own, after those that are over; requests that are open      *)
(* together know of each other.                                            *)
Begun == {p \in Publishes : created[p] > 0}

Times ==
  /\ \A p \in Publishes : created[p] <= Cardinality(Begun)
  /\ \A p, q \in Begun : created[p] = created[q] => p = q
  /\ InTx \union committed \subseteq Begun
  /\ \A p \in Publishes : pub[p].phase = "new" => created[p] = 0 /\ concurrent[p] = {}

Together == \A p, q \in InTx : p # q => q \in concurrent[p]

After == \A p \in InTx, o \in committed : o \notin concurrent[p] => created[o] < created[p]

(* Outside a batch: the number is above those of the representation, until *)
(* another publish of the representation commits.                          *)
Alone(p) ==
  /\ pub[p].version = NextNumber /\ pub[p].batch = NoBatch
  /\ \A q \in concurrent[p] : pub[q].rep # pub[p].rep

PickedPhases == {"checkCas", "insert", "commit"}

Above(p, n) == Alone(p) => \A q \in RepRows(pub[p].rep) : pub[q].number < n

(* In a batch: it is that of the batch's first row, which stays the first  *)
(* as those that come after it began later.                                *)
Sequential(b) == \A p, q \in Publishes : pub[p].batch = b /\ pub[q].batch = b => q \notin concurrent[p]

Shared(p, n) ==
  \A b \in Batches :
    pub[p].batch = b /\ pub[p].version = NextNumber /\ Sequential(b) =>
      \A o \in BatchRows(b) : Oldest(o, BatchRows(b)) => n = pub[o].number

First(p) == \A b \in Batches : pub[p].batch = b /\ Sequential(b) => BatchRows(b) = {}

GoodNumbers ==
  /\ \A p \in Publishes : pub[p].phase \in PickedPhases => Above(p, pub[p].number)
  /\ \A p \in Publishes : pub[p].phase \in PickedPhases \/ p \in committed => Shared(p, pub[p].number)
  /\ \A p \in Publishes : pub[p].phase = "pickMax" => First(p)
  /\ \A p \in Publishes : pub[p].phase = "pickBatch" => pub[p].batch \in Batches

(* What an undisturbed patch has read is still the latest version's status.*)
Synced ==
  \A q \in Patches \ disturbed :
    patch[q].phase = "writeTask" => \A p \in Publishes : Latest(p, TaskRows) => patch[q].latest = status[p]

NumberInv == Inv /\ Times /\ Together /\ After /\ GoodNumbers /\ Synced

LEMMA InitNumberInv == Init => NumberInv
<1> SUFFICES ASSUME Init PROVE NumberInv
  OBVIOUS
<1> PICK w \in Workloads : pub = w.pub /\ patch = w.patch
  BY DEF Init
<1>1. /\ \A p \in Publishes : pub[p].phase \in {"new", "done"}
      /\ \A q \in Patches : patch[q].phase \in {"new", "done"}
  BY WorkloadsAssumption
<1>2. InTx = {} /\ Begun = {} /\ committed = {}
  BY <1>1 DEF InTx, TxPhases, Begun, Init
<1>3. Times
  BY <1>2, FS_EmptySet DEF Times, Init
<1>4. Together /\ After
  BY <1>2 DEF Together, After
<1>5. GoodNumbers
  BY <1>1, <1>2 DEF GoodNumbers, PickedPhases
<1>6. Synced
  BY <1>1 DEF Synced
<1> QED
  BY <1>3, <1>4, <1>5, <1>6, InitInv DEF NumberInv

LEMMA PublishTyped ==
  ASSUME TypeOK, NEW p \in Publishes
  PROVE  /\ pub[p].number \in Nat /\ created[p] \in Nat /\ pub[p].phase \in PubPhases
         /\ pub[p].batch \in Batches \union {NoBatch}
         /\ concurrent[p] \subseteq Publishes
BY DEF TypeOK

(* A row is written by a transaction that is over.                         *)
LEMMA RowsAreDone ==
  ASSUME Inv
  PROVE  /\ committed \subseteq Publishes /\ InTx \subseteq Publishes
         /\ \A p \in committed : /\ pub[p].phase \notin PickedPhases \union {"pickMax", "new"}
                                 /\ p \notin InTx
BY DEF Inv, TypeOK, Progress, InTx, TxPhases, PickedPhases

(* Steps that leave the rows, and what publishes ask for, as they are.     *)
SameRows ==
  /\ UNCHANGED <<committed, created, concurrent>>
  /\ \A q \in Publishes : /\ pub'[q].rep = pub[q].rep /\ pub'[q].version = pub[q].version
                          /\ pub'[q].batch = pub[q].batch /\ pub'[q].forTask = pub[q].forTask
  /\ \A q \in committed : pub'[q].number = pub[q].number

LEMMA SameRowsKeep ==
  ASSUME Inv, SameRows
  PROVE  /\ \A q \in Publishes, m \in Nat : Above(q, m) => Above(q, m)'
         /\ \A q \in Publishes, m \in Nat : Shared(q, m) => Shared(q, m)'
         /\ \A q \in Publishes : First(q) => First(q)'
         /\ \A q \in Publishes : Latest(q, TaskRows)' => Latest(q, TaskRows)
<1>1. committed \subseteq Publishes
  BY RowsAreDone
<1>2. /\ \A b \in Batches : BatchRows(b)' = BatchRows(b)
      /\ \A q \in Publishes : RepRows(pub[q].rep)' = RepRows(pub[q].rep)
      /\ TaskRows' = TaskRows
  BY <1>1 DEF SameRows, BatchRows, RepRows, TaskRows
<1>3. \A b \in Batches : Sequential(b)' => Sequential(b)
  BY DEF SameRows, Sequential
<1>4. \A b \in Batches : \A o \in BatchRows(b) :
        /\ Oldest(o, BatchRows(b))' => Oldest(o, BatchRows(b))
        /\ pub'[o].number = pub[o].number
  BY <1>2 DEF SameRows, Oldest, BatchRows
<1>5. \A q \in Publishes, m \in Nat : Above(q, m) => Above(q, m)'
  <2> SUFFICES ASSUME NEW q \in Publishes, NEW m \in Nat, Above(q, m), Alone(q)',
                      NEW o \in RepRows(pub[q].rep)'
               PROVE  pub'[o].number < m
    BY DEF Above
  <2>1. TypeOK
    BY DEF Inv
  <2>2. Alone(q)
    BY <2>1, PublishTyped DEF Alone, SameRows
  <2>3. o \in RepRows(pub[q].rep) /\ pub'[o].number = pub[o].number
    BY <1>2 DEF RepRows, SameRows
  <2> QED
    BY <2>2, <2>3 DEF Above
<1>6. \A q \in Publishes, m \in Nat : Shared(q, m) => Shared(q, m)'
  BY <1>2, <1>3, <1>4 DEF Shared, SameRows
<1>7. \A q \in Publishes : First(q) => First(q)'
  BY <1>2, <1>3 DEF First, SameRows
<1>8. \A q \in Publishes : Latest(q, TaskRows)' => Latest(q, TaskRows)
  BY <1>1, <1>2 DEF Latest, SameRows, TaskRows
<1> QED
  BY <1>5, <1>6, <1>7, <1>8

(* A step inside the transaction, or one that ends it without a row.       *)
Inner(p, phase, n) ==
  /\ Moves(p, phase, n)
  /\ pub[p].phase \in TxPhases \union {"setTask"} /\ phase \in (TxPhases \ {"pickBatch"}) \union {"done"}
  /\ phase \in TxPhases => pub[p].phase \in TxPhases
  /\ p \in committed => n = pub[p].number
  /\ phase \in PickedPhases => Above(p, n) /\ Shared(p, n)
  /\ phase = "pickMax" => First(p)
  /\ UNCHANGED <<committed, created, concurrent, status, patch>>
  /\ disturbed \subseteq disturbed'

LEMMA InnerKeeps ==
  ASSUME NumberInv, NEW p \in Publishes, NEW phase \in PubPhases, NEW n \in Nat, Inner(p, phase, n)
  PROVE  Times' /\ Together' /\ After' /\ GoodNumbers' /\ Synced'
<1>1. /\ Inv /\ TypeOK /\ Times /\ Together /\ After /\ GoodNumbers /\ Synced
      /\ committed \subseteq Publishes
  BY RowsAreDone DEF NumberInv, Inv
<1>2. /\ \A q \in Publishes \ {p} : pub'[q] = pub[q]
      /\ pub'[p].phase = phase /\ pub'[p].number = n
      /\ pub'[p].rep = pub[p].rep /\ pub'[p].version = pub[p].version /\ pub'[p].batch = pub[p].batch
      /\ pub'[p].forTask = pub[p].forTask
      /\ UNCHANGED <<committed, created, concurrent, status, patch>>
  BY DEF Inner, Moves
<1>3. SameRows
  BY <1>1, <1>2 DEF SameRows, Inner
<1>4. InTx' \subseteq InTx /\ Begun' = Begun
  BY <1>2 DEF InTx, Inner, Begun
<1>5. Times' /\ Together' /\ After'
  BY <1>1, <1>2, <1>4 DEF Times, Together, After, Inner, TxPhases
<1>6. GoodNumbers'
  <2>1. ASSUME NEW q \in Publishes, pub'[q].phase \in PickedPhases PROVE Above(q, pub[q].number)'
    <3>1. pub'[q].number \in Nat /\ Above(q, pub'[q].number)
      BY <1>1, <1>2, <2>1, PublishTyped DEF Inner, GoodNumbers
    <3>2. PICK m \in Nat : m = pub'[q].number
      BY <3>1
    <3>3. Above(q, m)'
      BY <1>1, <1>3, <3>1, <3>2, SameRowsKeep
    <3> QED
      BY <3>2, <3>3 DEF Above
  <2>2. ASSUME NEW q \in Publishes, pub'[q].phase \in PickedPhases \/ q \in committed'
        PROVE  Shared(q, pub[q].number)'
    <3>1. pub'[q].number \in Nat /\ Shared(q, pub'[q].number)
      <4>1. CASE q # p
        BY <1>1, <1>2, <2>2, <4>1, PublishTyped DEF GoodNumbers
      <4>2. CASE q = p /\ pub'[q].phase \in PickedPhases
        BY <1>2, <4>2 DEF Inner
      <4>3. CASE q = p /\ q \in committed
        BY <1>1, <1>2, <4>3 DEF Inner, GoodNumbers
      <4> QED
        BY <1>2, <2>2, <4>1, <4>2, <4>3
    <3>2. PICK m \in Nat : m = pub'[q].number
      BY <3>1
    <3>3. Shared(q, m)'
      BY <1>1, <1>3, <3>1, <3>2, SameRowsKeep
    <3> QED
      BY <3>2, <3>3 DEF Shared
  <2>3. ASSUME NEW q \in Publishes, pub'[q].phase = "pickMax" PROVE First(q)'
    BY <1>1, <1>2, <1>3, <2>3, SameRowsKeep DEF Inner, GoodNumbers
  <2>4. \A q \in Publishes : pub'[q].phase = "pickBatch" => pub'[q].batch \in Batches
    BY <1>1, <1>2 DEF Inner, GoodNumbers
  <2> QED
    BY <2>1, <2>2, <2>3, <2>4 DEF GoodNumbers
<1>7. Synced'
  BY <1>1, <1>2, <1>3, SameRowsKeep DEF Synced, Inner
<1> QED
  BY <1>5, <1>6, <1>7

(* Numbers are only picked where they are good.                            *)
LEMMA PicksAreInner ==
  ASSUME NumberInv, NEW p \in Publishes, PickBatch(p) \/ PickMax(p) \/ CheckExplicit(p)
  PROVE  \E phase \in PubPhases, n \in Nat : Inner(p, phase, n)
<1>1. Inv /\ TypeOK /\ Times /\ GoodNumbers /\ pub[p].number \in Nat /\ committed \subseteq Publishes
  BY RowsAreDone DEF NumberInv, Inv, TypeOK
<1>2. pub[p].phase \in {"pickBatch", "pickMax", "checkExplicit"} /\ p \notin committed
  BY <1>1, RowsAreDone DEF PickBatch, PickMax, CheckExplicit, InTx, TxPhases
<1>3. UNCHANGED <<committed, created, concurrent, status, patch, disturbed>>
  BY DEF PickBatch, PickMax, CheckExplicit, KeepTx, KeepTask
<1>4. ASSUME NEW n \in Nat, Picked(p, n), Above(p, n), Shared(p, n)
      PROVE  Inner(p, "checkCas", n) /\ "checkCas" \in PubPhases
  BY <1>1, <1>2, <1>3, <1>4, PickedMoves DEF Inner, TxPhases, PubPhases
<1>5. CASE PickBatch(p)
  <2>1. pub[p].batch \in Batches /\ pub[p].batch # NoBatch
    BY <1>1, <1>5, BatchAssumption DEF PickBatch, GoodNumbers
  <2>2. CASE BatchRows(pub[p].batch) = {} /\ Goto(p, "pickMax")
    <3>1. First(p) /\ "pickMax" \in PubPhases
      BY <2>2 DEF First, PubPhases, TxPhases
    <3>2. Moves(p, "pickMax", pub[p].number)
      BY <1>1, <2>2, <3>1, GotoMoves
    <3>3. Inner(p, "pickMax", pub[p].number)
      BY <1>2, <1>3, <3>1, <3>2 DEF Inner, TxPhases, PickedPhases
    <3> QED
      BY <1>1, <3>1, <3>3
  <2>3. CASE \E o \in BatchRows(pub[p].batch) :
               Oldest(o, BatchRows(pub[p].batch)) /\ Picked(p, pub[o].number)
    <3>1. PICK o \in BatchRows(pub[p].batch) :
            Oldest(o, BatchRows(pub[p].batch)) /\ Picked(p, pub[o].number)
      BY <2>3
    <3>2. pub[o].number \in Nat /\ o \in Publishes /\ created[o] \in Nat
      BY <1>1, PublishTyped DEF BatchRows
    <3>3. \A q \in BatchRows(pub[p].batch) : Oldest(q, BatchRows(pub[p].batch)) => q = o
      <4> SUFFICES ASSUME NEW q \in BatchRows(pub[p].batch), Oldest(q, BatchRows(pub[p].batch))
                   PROVE  q = o
        OBVIOUS
      <4>1. q \in Publishes /\ q \in Begun /\ o \in Begun /\ created[q] \in Nat
        BY <1>1, PublishTyped DEF BatchRows, Times
      <4>2. created[q] <= created[o] /\ created[o] <= created[q]
        BY <3>1 DEF Oldest
      <4> QED
        BY <1>1, <3>2, <4>1, <4>2 DEF Times
    <3>4. Above(p, pub[o].number) /\ Shared(p, pub[o].number)
      BY <2>1, <3>3 DEF Above, Alone, Shared
    <3> QED
      BY <1>4, <3>1, <3>2, <3>4
  <2> QED
    BY <1>5, <2>2, <2>3 DEF PickBatch
<1>6. CASE PickMax(p)
  <2>1. PICK n \in {0} \union Numbers(Numbered(p)) : MaxNumber(n, Numbered(p)) /\ Picked(p, n + 1)
    BY <1>6 DEF PickMax
  <2>2. n \in Nat /\ \A q \in Numbered(p) : pub[q].number \in Nat /\ pub[q].number <= n
    <3>1. \A q \in Numbered(p) : q \in Publishes /\ pub[q].number \in Nat
      BY <1>1, PublishTyped DEF Numbered, RepRows
    <3> QED
      BY <2>1, <3>1 DEF MaxNumber, Numbers
  <2>3. Above(p, n + 1)
    BY <2>2 DEF Above, Alone, Numbered
  <2>4. Shared(p, n + 1)
    BY <1>1, <1>6 DEF PickMax, GoodNumbers, First, Shared
  <2> QED
    BY <1>4, <2>1, <2>2, <2>3, <2>4
<1>7. CASE CheckExplicit(p)
  <2>1. pub[p].version # NextNumber
    BY <1>1, <1>7 DEF CheckExplicit, Inv, Progress
  <2>2. CASE Picked(p, pub[p].version)
    <3>1. pub[p].version \in Nat
      <4>1. pub[p].version \in Explicit \union {NextNumber}
        BY <1>1 DEF TypeOK
      <4>2. NextNumber \in Nat
        BY DEF NextNumber
      <4> QED
        BY <4>1, <4>2, ExplicitAssumption
    <3>2. Above(p, pub[p].version) /\ Shared(p, pub[p].version)
      BY <2>1 DEF Above, Alone, Shared
    <3> QED
      BY <1>4, <2>2, <3>1, <3>2
  <2>3. CASE Answer(p, "conflict")
    <3>1. Moves(p, "done", pub[p].number) /\ "done" \in PubPhases
      BY <1>1, <2>3, AnswerMoves DEF Answers, PubPhases
    <3>2. Inner(p, "done", pub[p].number)
      BY <1>2, <1>3, <3>1 DEF Inner, TxPhases, PickedPhases
    <3> QED
      BY <1>1, <3>1, <3>2
  <2> QED
    BY <1>7, <2>2, <2>3 DEF CheckExplicit
<1> QED
  BY <1>5, <1>6, <1>7

(* The rest of the transaction keeps the number that was picked.           *)
LEMMA RestIsInner ==
  ASSUME NumberInv, NEW p \in Publishes, CheckCas(p) \/ Insert(p) \/ SetTask(p) \/ TxFails(p)
  PROVE  \E phase \in PubPhases, n \in Nat : Inner(p, phase, n)
<1>1. Inv /\ TypeOK /\ GoodNumbers /\ pub[p].number \in Nat
  BY DEF NumberInv, Inv, TypeOK
<1>2. /\ UNCHANGED <<committed, created, concurrent, status, patch>> /\ disturbed \subseteq disturbed'
      /\ pub[p].phase \in TxPhases \union {"setTask"}
  BY DEF CheckCas, Insert, SetTask, SetForReview, TxFails, KeepTx, KeepTask, TxPhases
<1>3. CASE \E a \in Answers : Answer(p, a)
  <2>1. Moves(p, "done", pub[p].number) /\ "done" \in PubPhases
    BY <1>1, <1>3, AnswerMoves DEF PubPhases
  <2>2. Inner(p, "done", pub[p].number)
    BY <1>2, <2>1 DEF Inner, TxPhases, PickedPhases
  <2> QED
    BY <1>1, <2>1, <2>2
<1>4. CASE \E phase \in {"insert", "commit"} : Goto(p, phase) /\ pub[p].phase \in {"checkCas", "insert"}
  <2>1. PICK phase \in {"insert", "commit"} : Goto(p, phase) /\ pub[p].phase \in {"checkCas", "insert"}
    BY <1>4
  <2>2. phase \in PubPhases /\ phase \in PickedPhases /\ phase \in TxPhases \ {"pickBatch"}
        /\ phase # "pickMax" /\ pub[p].phase \in TxPhases
    BY <2>1 DEF PubPhases, TxPhases, PickedPhases
  <2>3. Moves(p, phase, pub[p].number)
    BY <1>1, <2>1, <2>2, GotoMoves
  <2>4. Above(p, pub[p].number) /\ Shared(p, pub[p].number)
    BY <1>1, <2>1 DEF GoodNumbers, PickedPhases
  <2>5. Inner(p, phase, pub[p].number)
    BY <1>2, <2>2, <2>3, <2>4 DEF Inner
  <2> QED
    BY <1>1, <2>2, <2>5
<1> QED
  BY <1>3, <1>4 DEF CheckCas, Insert, SetTask, TxFails, Answers

(* A commit adds a row.  A publish of the representation that is open has  *)
(* met it; in a sequential batch nobody else is open, and the row comes    *)
(* after the batch's others.                                               *)
LEMMA CommitKeeps ==
  ASSUME NumberInv, NEW p \in Publishes, Commit(p)
  PROVE  Times' /\ Together' /\ After' /\ GoodNumbers' /\ Synced'
<1>1. /\ Inv /\ TypeOK /\ Times /\ Together /\ After /\ GoodNumbers /\ Synced
      /\ committed \subseteq Publishes
  BY RowsAreDone DEF NumberInv, Inv
<1>2. PICK phase \in {"setTask", "done"} : Moves(p, phase, pub[p].number)
  BY <1>1, CommitShape DEF CommitsRow
<1>3. /\ \A q \in Publishes \ {p} : pub'[q] = pub[q]
      /\ \A q \in Publishes : /\ pub'[q].number = pub[q].number /\ pub'[q].rep = pub[q].rep
                              /\ pub'[q].version = pub[q].version /\ pub'[q].batch = pub[q].batch
      /\ pub'[p].phase = phase /\ pub[p].phase = "commit"
      /\ committed' = committed \union {p}
      /\ UNCHANGED <<created, concurrent, status, patch>> /\ disturbed' = disturbed \union Running
  BY <1>2 DEF Commit, Moves
<1>4. InTx' = InTx \ {p} /\ p \in InTx /\ Begun' = Begun
  BY <1>3 DEF InTx, TxPhases, Begun
<1>5. Times' /\ Together' /\ After'
  BY <1>1, <1>3, <1>4 DEF Times, Together, After
<1>6. \A q \in Publishes \ {p} : q \in InTx => p \in concurrent[q] /\ q \in concurrent[p]
  BY <1>1, <1>4 DEF Together
<1>7. \A b \in Batches : (Sequential(b)' <=> Sequential(b))
        /\ BatchRows(b)' = IF pub[p].batch = b THEN BatchRows(b) \union {p} ELSE BatchRows(b)
  BY <1>1, <1>3 DEF Sequential, BatchRows
<1>8. ASSUME NEW q \in Publishes, pub'[q].phase \in PickedPhases PROVE Above(q, pub[q].number)'
  <2>1. q # p /\ q \in InTx
    BY <1>3, <1>8 DEF PickedPhases, InTx, TxPhases
  <2>2. SUFFICES ASSUME Alone(q)', NEW o \in RepRows(pub[q].rep)' PROVE pub'[o].number < pub'[q].number
    BY DEF Above
  <2>3. concurrent[q] \subseteq Publishes
    BY <1>1, PublishTyped
  <2>4. Alone(q) /\ pub[p].rep # pub[q].rep
    BY <1>3, <1>6, <2>1, <2>2, <2>3 DEF Alone
  <2>5. o \in RepRows(pub[q].rep)
    BY <1>1, <1>3, <2>2, <2>4 DEF RepRows
  <2>6. Above(q, pub[q].number) /\ o \in Publishes
    BY <1>1, <1>3, <1>8, <2>1, <2>5 DEF GoodNumbers, RepRows
  <2> QED
    BY <1>3, <2>4, <2>5, <2>6 DEF Above
<1>9. ASSUME NEW q \in Publishes, pub'[q].phase \in PickedPhases \/ q \in committed'
      PROVE  Shared(q, pub[q].number)'
  <2> SUFFICES ASSUME NEW b \in Batches, pub[q].batch = b, pub[q].version = NextNumber, Sequential(b),
                      NEW o \in BatchRows(b)', Oldest(o, BatchRows(b))'
               PROVE  pub[q].number = pub[o].number
    <3>1. \A o \in committed' : pub'[o].number = pub[o].number
      BY <1>1, <1>3
    <3>2. \A b \in Batches : BatchRows(b)' \subseteq committed'
      BY DEF BatchRows
    <3> QED
      BY <1>3, <1>7, <3>1, <3>2 DEF Shared
  <2>1. Shared(q, pub[q].number)
    BY <1>1, <1>3, <1>9 DEF GoodNumbers, PickedPhases
  <2>2. CASE pub[p].batch # b
    <3>1. BatchRows(b)' = BatchRows(b) /\ Oldest(o, BatchRows(b))
      BY <1>3, <1>7, <2>2 DEF Oldest
    <3> QED
      BY <2>1, <3>1 DEF Shared
  <2>3. CASE pub[p].batch = b
    <3>1. BatchRows(b)' = BatchRows(b) \union {p}
      BY <1>7, <2>3
    <3>2. \A r \in BatchRows(b) : created[r] < created[p]
      BY <1>1, <1>4, <2>3 DEF BatchRows, Sequential, After
    <3>3. CASE o # p
      <4>1. o \in BatchRows(b) /\ Oldest(o, BatchRows(b))
        BY <1>3, <3>1, <3>3 DEF Oldest
      <4> QED
        BY <2>1, <4>1 DEF Shared
    <3>4. CASE o = p
      <4>1. BatchRows(b) = {}
        <5> SUFFICES ASSUME NEW r \in BatchRows(b) PROVE FALSE
          OBVIOUS
        <5>1. created[p] <= created[r]
          BY <1>3, <3>1, <3>4 DEF Oldest
        <5>2. created[r] \in Nat /\ created[p] \in Nat
          BY <1>1, PublishTyped DEF BatchRows
        <5> QED
          BY <3>2, <5>1, <5>2
      <4>2. q \notin committed
        BY <4>1 DEF BatchRows
      <4>3. q \in InTx
        BY <1>3, <1>4, <1>9, <4>2 DEF InTx, TxPhases, PickedPhases
      <4>4. q = p
        BY <1>6, <2>3, <4>3 DEF Sequential
      <4> QED
        BY <3>4, <4>4
    <3> QED
      BY <3>3, <3>4
  <2> QED
    BY <2>2, <2>3
<1>10. ASSUME NEW q \in Publishes, pub'[q].phase = "pickMax" PROVE First(q)'
  <2>1. q # p /\ q \in InTx /\ First(q)
    BY <1>1, <1>3, <1>10 DEF InTx, TxPhases, GoodNumbers
  <2>2. \A b \in Batches : pub[q].batch = b /\ Sequential(b) => pub[p].batch # b
    BY <1>6, <2>1 DEF Sequential
  <2> QED
    BY <1>3, <1>7, <2>1, <2>2 DEF First
<1>11. \A q \in Publishes : pub'[q].phase = "pickBatch" => pub'[q].batch \in Batches
  BY <1>1, <1>3 DEF GoodNumbers
<1>12. Synced'
  BY <1>1, <1>3 DEF Synced, Running
<1> QED
  BY <1>5, <1>8, <1>9, <1>10, <1>11, <1>12 DEF GoodNumbers

(* A transaction begins later than all that began.                         *)
LEMMA BeginTimes ==
  ASSUME NumberInv, NEW p \in Publishes, Begin(p)
  PROVE  Times'
<1>1. Inv /\ TypeOK /\ Times /\ created \in [Publishes -> Nat]
  BY DEF NumberInv, Inv, TypeOK
<1>2. PICK phase \in PubPhases, n \in Nat : Moves(p, phase, n) /\ phase # "new"
  <2>1. PICK phase \in {"checkExplicit", "pickBatch", "pickMax"} : Goto(p, phase)
    BY DEF Begin
  <2>2. Moves(p, phase, pub[p].number) /\ phase \in PubPhases /\ pub[p].number \in Nat
    BY <1>1, <2>1, GotoMoves, PublishTyped DEF PubPhases, TxPhases
  <2> QED
    BY <2>1, <2>2
<1>3. /\ created[p] = 0 /\ p \notin Begun
      /\ created' = [created EXCEPT ![p] = 1 + Cardinality(Begun)] /\ committed' = committed
  BY <1>1 DEF Begin, Times, Begun
<1>4. IsFiniteSet(Begun) /\ Cardinality(Begun) \in Nat
  BY PublishesAssumption, FS_Subset, FS_CardinalityType DEF Begun
<1>5. Begun' = Begun \union {p} /\ created'[p] = 1 + Cardinality(Begun)
  BY <1>1, <1>3, <1>4 DEF Begun
<1>6. Cardinality(Begun') = Cardinality(Begun) + 1
  BY <1>3, <1>4, <1>5, FS_AddElement
<1>7. \A q \in Publishes : created'[q] <= Cardinality(Begun')
  BY <1>1, <1>3, <1>4, <1>5, <1>6 DEF Times
<1>8. \A q, r \in Begun' : created'[q] = created'[r] => q = r
  <2>1. \A q \in Begun : created'[q] = created[q] /\ created[q] < created'[p]
    BY <1>1, <1>3, <1>4, <1>5 DEF Times, Begun
  <2>2. \A q \in Begun : created[q] \in Nat
    BY <1>1 DEF Begun
  <2> QED
    BY <1>1, <1>4, <1>5, <2>1, <2>2 DEF Times
<1>9. InTx' \subseteq InTx \union {p}
  BY <1>2 DEF InTx, Moves
<1>10. \A q \in Publishes : pub'[q].phase = "new" => created'[q] = 0 /\ concurrent'[q] = {}
  <2>1. ASSUME NEW q \in Publishes, pub'[q].phase = "new" PROVE created'[q] = 0 /\ concurrent'[q] = {}
    <3>1. q # p /\ pub[q].phase = "new"
      BY <1>2, <2>1 DEF Moves
    <3>2. q \notin InTx
      BY <3>1 DEF InTx, TxPhases
    <3>3. concurrent'[q] = concurrent[q] /\ created'[q] = created[q]
      BY <1>1, <1>3, <3>1, <3>2 DEF Begin
    <3> QED
      BY <1>1, <3>1, <3>3 DEF Times
  <2> QED
    BY <2>1
<1> QED
  BY <1>1, <1>3, <1>5, <1>7, <1>8, <1>9, <1>10 DEF Times

LEMMA BeginKeeps ==
  ASSUME NumberInv, NEW p \in Publishes, Begin(p)
  PROVE  Together' /\ After' /\ GoodNumbers' /\ Synced'
<1>1. /\ Inv /\ TypeOK /\ Times /\ Together /\ After /\ GoodNumbers /\ Synced
      /\ committed \subseteq Publishes /\ pub[p].phase = "new"
      /\ \A q \in Publishes : created[q] \in Nat
  BY RowsAreDone, PublishTyped DEF NumberInv, Inv, Begin
<1>2. PICK phase \in {"checkExplicit", "pickBatch", "pickMax"} :
             /\ Goto(p, phase)
             /\ phase = "pickBatch" => pub[p].batch # NoBatch
             /\ phase = "pickMax" => pub[p].batch = NoBatch
  BY DEF Begin
<1>3. /\ \A q \in Publishes \ {p} : pub'[q] = pub[q]
      /\ \A q \in Publishes : /\ pub'[q].number = pub[q].number /\ pub'[q].rep = pub[q].rep
                              /\ pub'[q].version = pub[q].version /\ pub'[q].batch = pub[q].batch
                              /\ pub'[q].forTask = pub[q].forTask
      /\ pub'[p].phase = phase
  <2>1. Moves(p, phase, pub[p].number)
    BY <1>1, <1>2, GotoMoves DEF PubPhases, TxPhases
  <2> QED
    BY <2>1 DEF Moves
<1>4. /\ p \notin InTx /\ InTx' = InTx \union {p} /\ p \notin committed
      /\ UNCHANGED <<committed, status, patch, disturbed>>
  BY <1>1, <1>3, RowsAreDone DEF InTx, TxPhases, Begin, KeepTask
<1>5. /\ \A q \in Publishes \ {p} : created'[q] = created[q] /\ created[q] < created'[p]
      /\ created'[p] \in Nat
  <2>1. IsFiniteSet(Begun) /\ Cardinality(Begun) \in Nat
    BY PublishesAssumption, FS_Subset, FS_CardinalityType DEF Begun
  <2>2. created' = [created EXCEPT ![p] = 1 + Cardinality(Begun)]
    BY DEF Begin, Begun
  <2>3. created \in [Publishes -> Nat]
    BY <1>1 DEF TypeOK
  <2>4. created'[p] = 1 + Cardinality(Begun) /\ \A q \in Publishes \ {p} : created'[q] = created[q]
    BY <2>2, <2>3
  <2> QED
    BY <1>1, <2>1, <2>4 DEF Times
<1>6. /\ concurrent'[p] = InTx /\ concurrent[p] = {}
      /\ \A q \in Publishes \ {p} :
           concurrent'[q] = IF q \in InTx THEN concurrent[q] \union {p} ELSE concurrent[q]
  BY <1>1 DEF Begin, Times
<1>7. \A q \in Publishes : concurrent[q] \subseteq concurrent'[q]
  BY <1>6
<1>8. Together'
  BY ZenonT(60), <1>1, <1>4, <1>6, <1>7 DEF Together, InTx
<1>9. After'
  <2> SUFFICES ASSUME NEW q \in InTx', NEW o \in committed', o \notin concurrent'[q]
               PROVE  created'[o] < created'[q]
    BY DEF After
  <2>1. o \in committed /\ o \in Publishes \ {p} /\ q \in Publishes
    BY <1>1, <1>4 DEF InTx
  <2> QED
    BY <1>1, <1>4, <1>5, <1>7, <2>1 DEF After
<1>10. /\ \A b \in Batches : (Sequential(b)' => Sequential(b)) /\ BatchRows(b)' = BatchRows(b)
       /\ \A b \in Batches : \A o \in BatchRows(b) : Oldest(o, BatchRows(b))' => Oldest(o, BatchRows(b))
       /\ \A q \in Publishes : RepRows(pub[q].rep)' = RepRows(pub[q].rep)
       /\ TaskRows' = TaskRows
  <2>1. \A b \in Batches : (Sequential(b)' => Sequential(b)) /\ BatchRows(b)' = BatchRows(b)
    BY <1>1, <1>3, <1>4, <1>7 DEF Sequential, BatchRows
  <2>2. \A b \in Batches : \A o \in BatchRows(b) : Oldest(o, BatchRows(b))' => Oldest(o, BatchRows(b))
    <3>1. \A o \in committed : created'[o] = created[o]
      BY <1>1, <1>4, <1>5
    <3> QED
      BY <2>1, <3>1 DEF Oldest, BatchRows
  <2> QED
    BY <1>1, <1>3, <1>4, <2>1, <2>2 DEF RepRows, TaskRows
<1>11. ASSUME NEW q \in Publishes, pub'[q].phase \in PickedPhases PROVE Above(q, pub[q].number)'
  <2>1. q # p
    BY <1>3, <1>11 DEF PickedPhases
  <2>2. Above(q, pub[q].number) /\ concurrent[q] \subseteq Publishes
    BY <1>1, <1>3, <1>11, <2>1, PublishTyped DEF GoodNumbers
  <2>3. Alone(q)' => Alone(q)
    BY <1>1, <1>3, <1>7, <2>2, PublishTyped DEF Alone
  <2>4. \A o \in RepRows(pub[q].rep) : pub'[o].number = pub[o].number
    BY <1>1, <1>3 DEF RepRows
  <2> QED
    BY <1>3, <1>10, <2>2, <2>3, <2>4 DEF Above
<1>12. ASSUME NEW q \in Publishes, pub'[q].phase \in PickedPhases \/ q \in committed'
       PROVE  Shared(q, pub[q].number)'
  <2>1. Shared(q, pub[q].number)
    BY <1>1, <1>3, <1>4, <1>12 DEF GoodNumbers, PickedPhases
  <2>2. \A b \in Batches : \A o \in BatchRows(b) : pub'[o].number = pub[o].number
    BY <1>1, <1>3 DEF BatchRows
  <2> QED
    BY <1>3, <1>10, <2>1, <2>2 DEF Shared
<1>13. ASSUME NEW q \in Publishes, pub'[q].phase = "pickMax" PROVE First(q)'
  <2>1. CASE q = p
    BY <1>2, <1>3, <1>13, <2>1, BatchAssumption DEF First
  <2>2. CASE q # p
    BY <1>1, <1>3, <1>10, <1>13, <2>2 DEF First, GoodNumbers
  <2> QED
    BY <2>1, <2>2
<1>14. ASSUME NEW q \in Publishes, pub'[q].phase = "pickBatch" PROVE pub'[q].batch \in Batches
  BY <1>1, <1>2, <1>3, <1>14, PublishTyped DEF GoodNumbers
<1>15. Synced'
  <2>1. \A q \in Publishes : Latest(q, TaskRows)' => Latest(q, TaskRows)
    <3>1. \A o \in committed : created'[o] = created[o] /\ pub'[o].number = pub[o].number
      BY <1>1, <1>3, <1>4, <1>5
    <3> QED
      BY <1>10, <3>1 DEF Latest, TaskRows
  <2> QED
    BY <1>1, <1>4, <2>1 DEF Synced
<1> QED
  BY <1>8, <1>9, <1>11, <1>12, <1>13, <1>14, <1>15 DEF GoodNumbers

(* Rows begun at times of their own have one latest among them.            *)
LEMMA OneLatest ==
  ASSUME Inv, Times, NEW p \in TaskRows, NEW q \in TaskRows, Latest(p, TaskRows), Latest(q, TaskRows)
  PROVE  p = q
<1>1. /\ p \in Publishes /\ q \in Publishes /\ p \in Begun /\ q \in Begun
      /\ pub[p].number \in Nat /\ pub[q].number \in Nat /\ created[p] \in Nat /\ created[q] \in Nat
  BY RowsAreDone, PublishTyped DEF Inv, Times, TaskRows
<1>2. created[p] = created[q]
  BY <1>1 DEF Latest
<1> QED
  BY <1>1, <1>2 DEF Times

(* Uploads and patches write no numbers.                                   *)
LEMMA OthersKeepNumbers ==
  ASSUME NumberInv,
         \/ \E c \in Contents : Upload(c)
         \/ \E q \in Patches : PatchVersion(q) \/ PatchStep(q) \/ PatchFails(q)
         \/ UNCHANGED vars
  PROVE  Times' /\ Together' /\ After' /\ GoodNumbers' /\ Synced'
<1>1. /\ Inv /\ TypeOK /\ Times /\ Together /\ After /\ GoodNumbers /\ Synced
      /\ patch \in [Patches -> PatchRequest(PatchPhases, Statuses)]
  BY DEF NumberInv, Inv, TypeOK
<1>2. UNCHANGED <<pub, committed, created, concurrent>>
  BY DEF Upload, PatchVersion, PatchStep, ReadLatest, WriteTask, PatchFails, vars
<1>3. Times' /\ Together' /\ After' /\ GoodNumbers'
  BY SMTT(60), <1>1, <1>2 DEF Times, Together, After, GoodNumbers, Above, Shared, First, Alone, Sequential, InTx, Begun,
     BatchRows, RepRows, Oldest
<1>4. \A p \in Publishes : Latest(p, TaskRows)' <=> Latest(p, TaskRows)
  BY <1>2 DEF Latest, TaskRows
<1>5. Synced'
  <2>1. CASE (\E c \in Contents : Upload(c)) \/ UNCHANGED vars
    <3>1. UNCHANGED <<patch, status, disturbed>>
      BY <2>1 DEF Upload, KeepTask, vars
    <3> QED
      BY <1>1, <1>4, <3>1 DEF Synced
  <2>2. ASSUME NEW q \in Patches, PatchVersion(q) PROVE Synced'
    <3>1. /\ disturbed' = disturbed \union Running
          /\ \A r \in Patches : patch'[r].phase = "writeTask" => r \in Running
      BY <1>1, <2>2 DEF PatchVersion, Running
    <3> QED
      BY <3>1 DEF Synced
  <2>3. ASSUME NEW q \in Patches, ReadLatest(q) PROVE Synced'
    <3>1. PICK p \in TaskRows : Latest(p, TaskRows) /\ Read(q, p)
      BY <2>3 DEF ReadLatest
    <3>2. /\ \A r \in Patches \ {q} : patch'[r] = patch[r]
          /\ patch'[q].latest = status[p]
          /\ UNCHANGED <<status, disturbed>>
      BY <1>1, <2>3, <3>1 DEF Read, ReadLatest
    <3>3. \A r \in Publishes : Latest(r, TaskRows) => status[r] = status[p]
      BY <1>1, <3>1, OneLatest DEF Latest
    <3> QED
      BY <1>1, <1>4, <3>2, <3>3 DEF Synced
  <2>4. ASSUME NEW q \in Patches, WriteTask(q) \/ PatchFails(q) PROVE Synced'
    <3>1. /\ \A r \in Patches \ {q} : patch'[r] = patch[r]
          /\ patch'[q].phase = "done" /\ disturbed \subseteq disturbed' /\ UNCHANGED status
      BY <1>1, <2>4 DEF WriteTask, PatchFails
    <3> QED
      BY <1>1, <1>4, <3>1 DEF Synced
  <2> QED
    BY <2>1, <2>2, <2>3, <2>4 DEF PatchStep
<1> QED
  BY <1>3, <1>5

LEMMA NextNumberInv == NumberInv /\ [Next]_vars => NumberInv'
<1> SUFFICES ASSUME NumberInv, [Next]_vars PROVE NumberInv'
  OBVIOUS
<1>1. Inv'
  BY NextInv DEF NumberInv
<1>2. ASSUME NEW p \in Publishes, Begin(p) PROVE NumberInv'
  BY <1>1, <1>2, BeginTimes, BeginKeeps DEF NumberInv
<1>3. ASSUME NEW p \in Publishes, PublishStep(p) \/ TxFails(p) PROVE NumberInv'
  BY <1>1, <1>3, PicksAreInner, RestIsInner, InnerKeeps, CommitKeeps DEF NumberInv, PublishStep
<1>4. CASE \/ \E c \in Contents : Upload(c)
           \/ \E q \in Patches : PatchVersion(q) \/ PatchStep(q) \/ PatchFails(q)
           \/ UNCHANGED vars
  BY <1>1, <1>4, OthersKeepNumbers DEF NumberInv
<1> QED
  BY <1>2, <1>3, <1>4 DEF Next

(* What a step sees of the numbers, and leaves.                            *)
THEOREM NumberInvariance == Spec => []NumberInv
BY InitNumberInv, NextNumberInv, PTL DEF Spec

LEMMA LeastNat ==
  ASSUME NEW T \in SUBSET Nat, T # {}
  PROVE  \E n \in T : \A m \in T : n <= m
<1>1. PICK n \in T : \A m \in T : ~(<<m, n>> \in OpToRel(<, Nat))
  <2>1. \E n \in T : \A m \in T : ~(<<m, n>> \in OpToRel(<, Nat))
    BY NatLessThanWellFounded, WFMin
  <2> QED
    BY <2>1
<1>2. ASSUME NEW m \in T PROVE n <= m
  <2>1. ~(m < n)
    <3> SUFFICES ASSUME m < n PROVE <<m, n>> \in OpToRel(<, Nat)
      BY <1>1
    <3> QED
      BY DEF OpToRel
  <2> QED
    BY <2>1
<1> QED
  BY <1>2

LEMMA BatchHasOldest ==
  ASSUME TypeOK, NEW b \in Batches, BatchRows(b) # {}
  PROVE  \E o \in BatchRows(b) : Oldest(o, BatchRows(b))
<1> DEFINE T == {created[o] : o \in BatchRows(b)}
<1>1. T \in SUBSET Nat /\ T # {}
  <2>1. \A o \in BatchRows(b) : created[o] \in Nat
    BY DEF TypeOK, BatchRows
  <2> QED
    BY <2>1
<1>2. PICK n \in T : \A m \in T : n <= m
  BY <1>1, LeastNat
<1>3. PICK o \in BatchRows(b) : created[o] = n
  BY <1>2
<1>4. \A q \in BatchRows(b) : created[o] <= created[q]
  BY <1>2, <1>3
<1> QED
  BY <1>4 DEF Oldest

(* A batch comes apart only when two of its publishes had their            *)
(* transactions open at the same time: published one after the other, its  *)
(* "next" rows share one number, whatever other requests do meanwhile.     *)
THEOREM SequentialBatches == Spec => []SequentialBatchSharesNumber
<1>1. NumberInv => SequentialBatchSharesNumber
  <2> SUFFICES ASSUME NumberInv, NEW b \in Batches, Sequential(b),
                      NEW p \in BatchRows(b), NEW q \in BatchRows(b), NextRow(p), NextRow(q)
               PROVE  pub[p].number = pub[q].number
    BY DEF SequentialBatchSharesNumber, Sequential
  <2>1. PICK o \in BatchRows(b) : Oldest(o, BatchRows(b))
    BY BatchHasOldest DEF NumberInv, Inv
  <2>2. p \in Publishes /\ q \in Publishes /\ pub[p].batch = b /\ pub[q].batch = b
    BY RowsAreDone DEF NumberInv, BatchRows
  <2>3. Shared(p, pub[p].number) /\ Shared(q, pub[q].number)
    BY <2>2 DEF NumberInv, GoodNumbers, BatchRows
  <2> QED
    BY <2>1, <2>2, <2>3 DEF Shared, NextRow
<1> QED
  BY <1>1, NumberInvariance, PTL

(* "next" outside a batch yields the representation's latest version,      *)
(* unless another publish of the representation was open meanwhile:        *)
(* between the reading of the largest number and the commit nothing else   *)
(* places a row of it.                                                     *)
THEOREM NextYieldsLatest == Spec => NextIsLatest
<1>1. NumberInv /\ [Next]_vars =>
        [\A p \in Publishes :
           /\ Commits(p) /\ pub[p].version = NextNumber /\ pub[p].batch = NoBatch
           /\ \A q \in concurrent[p] : pub[q].rep # pub[p].rep
           => \A q \in RepRows(pub[p].rep) : pub[q].number < pub[p].number]_vars
  <2> SUFFICES ASSUME NumberInv, Next, NEW p \in Publishes, Commits(p), Alone(p)
               PROVE  \A q \in RepRows(pub[p].rep) : pub[q].number < pub[p].number
    BY DEF Alone
  <2>1. PICK r \in Publishes : Commit(r)
    BY DEF Commits, Next, Upload, Begin, PublishStep, PickBatch, PickMax, CheckExplicit, CheckCas, Insert,
       SetTask, TxFails, PatchVersion, PatchStep, ReadLatest, WriteTask, PatchFails, KeepTx
  <2>2. p = r
    BY <2>1 DEF Commit, Commits
  <2>3. pub[p].phase \in PickedPhases
    BY <2>1, <2>2 DEF Commit, PickedPhases
  <2> QED
    BY <2>3 DEF NumberInv, GoodNumbers, Above
<1> QED
  BY <1>1, NumberInvariance, PTL DEF Spec, NextIsLatest

(* When a PATCH ends, the task's status is the one its latest version      *)
(* calls for, unless another request wrote versions or the task while it   *)
(* ran, although its read and its write are two statements.                *)
THEOREM PatchesSyncTask == Spec => UndisturbedPatchSyncsTask
<1>1. NumberInv =>
        [\A q \in Patches \ disturbed' :
           WriteTask(q) => \A p \in Publishes :
                             Latest(p, TaskRows) => task' = TaskStatusFor(status[p])]_vars
  <2> SUFFICES ASSUME NumberInv, NEW q \in Patches \ disturbed', WriteTask(q),
                      NEW p \in Publishes, Latest(p, TaskRows)
               PROVE  task' = TaskStatusFor(status[p])
    OBVIOUS
  <2>1. q \notin disturbed /\ patch[q].phase = "writeTask" /\ task' = TaskStatusFor(patch[q].latest)
    BY DEF WriteTask
  <2>2. patch[q].latest = status[p]
    BY <2>1 DEF NumberInv, Synced
  <2> QED
    BY <2>1, <2>2
<1> QED
  BY <1>1, NumberInvariance, PTL DEF UndisturbedPatchSyncsTask
=============================================================================
