--------------------------- MODULE Accounts_proofs ---------------------------
(***************************************************************************)
(* Theorems about Accounts for any requests, invites, addresses and names: *)
(* one account per invite, no account from a withdrawn invite, and no      *)
(* account without its studio.                                             *)
(***************************************************************************)
EXTENDS Accounts, TLAPS

(* Where in its handler a request can be.                                  *)
PhasesOf(kind) ==
  {p \in Phases :
     /\ p \in {"load", "lock", "recheck"} => kind = "accept"
     /\ p \in {"slug", "org"} => kind = "signup"
     /\ p \in {"email", "name"} => kind \in {"accept", "signup"}
     /\ p = "mark" => kind = "accept"
     /\ p = "insert" => kind \in {"accept", "signup", "add"}
     /\ p = "write" => kind \in {"revoke", "regenerate"}
     /\ p \in {"find", "delete", "cascade"} => kind = "remove"
     /\ p = "commit" => kind \in {"accept", "signup", "remove"}}
Shape == \A r \in Requests : phase[r] \in PhasesOf(Kind(r))

Inserted == {"mark", "commit"}
Checked == {"email", "name", "insert"} \union Inserted
Locked == {"recheck"} \union Checked
Loaded == {"lock"} \union Locked
Accepting(r, phases) == Kind(r) = "accept" /\ phase[r] \in phases

(* The lock on an invite has one holder; a holder that looked at the       *)
(* invite knows that no account came from it.                              *)
Exclusive ==
  \A r, q \in Requests :
    Accepting(r, Locked) /\ Accepting(q, Locked) /\ send[r].invite = send[q].invite /\ Home \in orgs
      => r = q
Fresh ==
  \A r \in Requests : Accepting(r, Checked) /\ Home \in orgs => ~invite[send[r].invite].accepted
Marked ==
  \A r \in joined : Kind(r) = "accept" /\ (Home \in orgs => invite[send[r].invite].accepted)

(* The account that an acceptance inserted keeps its studio from going.    *)
Sharing ==
  \A r \in Requests : Accepting(r, Inserted) => Home \in orgs /\ \A q \in Requests : ~DeletesHome(q)
Founders == \A o \in orgs \ {Home} : Kind(o) = "signup"

(* An acceptance works with the link it read.                              *)
Good(r) == \/ send[r].invite \in raced
           \/ ~invite[send[r].invite].revoked /\ invite[send[r].invite].token = send[r].token
Current == \A r \in Requests : Accepting(r, Loaded) => Good(r)

IInv == /\ TypeOK /\ Shape /\ Exclusive /\ Fresh /\ Marked /\ Sharing /\ Founders /\ Current
        /\ OneAccountPerInvite /\ SpentOrWithdrawn /\ StudiosAndAccountsMatch

LEMMA Kinds ==
  ASSUME TypeOK, NEW r \in Requests
  PROVE  /\ Kind(r) \in {"accept", "signup", "add", "revoke", "regenerate", "remove"}
         /\ Kind(r) \in {"accept", "revoke", "regenerate"} => send[r].invite \in Invites
<1>1. send[r] \in Acceptances \union Signups \union Additions \union Changes \union Removals
  BY SendsAssumption DEF TypeOK
<1> QED
  BY <1>1 DEF Kind, Acceptances, Signups, Additions, Changes, Removals

LEMMA InitIInv == Init => IInv
<1> SUFFICES ASSUME Init PROVE IInv
  OBVIOUS
<1>1. \A r \in Requests : Kind(r) \in {"accept", "signup", "add", "revoke", "regenerate", "remove"}
  <2> SUFFICES ASSUME NEW r \in Requests
               PROVE  Kind(r) \in {"accept", "signup", "add", "revoke", "regenerate", "remove"}
    OBVIOUS
  <2>1. send[r] \in Acceptances \union Signups \union Additions \union Changes \union Removals
    BY SendsAssumption DEF Init
  <2> QED
    BY <2>1 DEF Kind, Acceptances, Signups, Additions, Changes, Removals
<1>2. \A r \in Requests : phase[r] = FirstPhase(Kind(r))
  BY DEF Init, Kind
<1>3. \A r \in Requests : phase[r] \in {"load", "slug", "insert", "write", "find"}
                          /\ (Kind(r) \in {"accept", "remove"} => phase[r] \in {"load", "find"})
  BY <1>1, <1>2 DEF FirstPhase
<1>4. phase \in [Requests -> Phases]
  <2>1. phase = [r \in Requests |-> FirstPhase(send[r].kind)]
    BY DEF Init
  <2> QED
    BY <2>1, <1>3 DEF Phases
<1>5. TypeOK
  BY <1>4 DEF Init, TypeOK, Answers
<1>6. Shape
  BY <1>1, <1>2 DEF Shape, PhasesOf, Phases, FirstPhase
<1>7. Exclusive /\ Fresh /\ Sharing /\ Current
  BY <1>3 DEF Exclusive, Fresh, Sharing, Current, Accepting, Checked, Inserted, Locked, Loaded
<1>8. Marked /\ Founders /\ OneAccountPerInvite /\ SpentOrWithdrawn /\ StudiosAndAccountsMatch
  BY DEF Init, Marked, Founders, OneAccountPerInvite, SpentOrWithdrawn, StudiosAndAccountsMatch
<1> QED
  BY <1>5, <1>6, <1>7, <1>8 DEF IInv

(* Most steps only move one request on.  What such a move has to respect.  *)
LEMMA Moves ==
  ASSUME IInv, NEW r \in Requests, NEW p \in PhasesOf(Kind(r)),
         phase' = [phase EXCEPT ![r] = p], send' = send, KeepTables,
         Kind(r) = "accept" /\ p \in Loaded => Good(r),
         Kind(r) = "accept" /\ p \in Locked =>
           phase[r] \in Locked \/ \A q \in Requests \ {r} : ~HoldsInvite(q, send[r].invite),
         Kind(r) = "accept" /\ p \in Checked /\ Home \in orgs => ~invite[send[r].invite].accepted,
         Kind(r) = "accept" /\ p \in Inserted => Home \in orgs /\ \A q \in Requests : ~DeletesHome(q),
         Kind(r) = "remove" /\ p \in {"cascade", "commit"} =>
           \A q \in Requests : ~Accepting(q, Inserted)
  PROVE  /\ Shape' /\ Exclusive' /\ Fresh' /\ Marked' /\ Sharing' /\ Founders' /\ Current'
         /\ OneAccountPerInvite' /\ SpentOrWithdrawn' /\ StudiosAndAccountsMatch'
<1>1. /\ phase'[r] = p
      /\ \A q \in Requests \ {r} : phase'[q] = phase[q]
  BY DEF IInv, TypeOK
<1>2. \A q : Kind(q)' = Kind(q) /\ StudioOf(q)' = StudioOf(q)
  BY DEF Kind, StudioOf
<1>3. Shape'
  BY <1>1, <1>2 DEF IInv, Shape
<1>4. Exclusive'
  <2> SUFFICES ASSUME NEW a \in Requests, NEW b \in Requests,
                      Accepting(a, Locked)', Accepting(b, Locked)',
                      send[a].invite = send[b].invite, Home \in orgs
               PROVE  a = b
    BY DEF Exclusive, KeepTables
  <2>1. CASE a # r /\ b # r
    BY <1>1, <1>2, <2>1 DEF IInv, Exclusive, Accepting
  <2>2. CASE a = r /\ b # r
    BY <1>1, <1>2, <2>2 DEF IInv, Exclusive, Accepting, HoldsInvite, Locked, Checked, Inserted
  <2>3. CASE b = r /\ a # r
    BY <1>1, <1>2, <2>3 DEF IInv, Exclusive, Accepting, HoldsInvite, Locked, Checked, Inserted
  <2> QED
    BY <2>1, <2>2, <2>3
<1>5. Fresh'
  BY <1>1, <1>2 DEF IInv, Fresh, Accepting, KeepTables
<1>6. Sharing'
  BY <1>1, <1>2 DEF IInv, Sharing, Accepting, DeletesHome, KeepTables
<1>7. Current'
  BY <1>1, <1>2 DEF IInv, Current, Accepting, Good, KeepTables
<1>8. Marked' /\ Founders' /\ OneAccountPerInvite' /\ SpentOrWithdrawn' /\ StudiosAndAccountsMatch'
  BY <1>2 DEF IInv, Marked, Founders, OneAccountPerInvite, SpentOrWithdrawn, StudiosAndAccountsMatch,
              KeepTables
<1> QED
  BY <1>3, <1>4, <1>5, <1>6, <1>7, <1>8

(* Moves of acceptances, and every request that ends without a change.     *)
LEMMA EndsIInv ==
  ASSUME IInv, NEW r \in Requests, NEW a \in Answers, Answer(r, a), KeepPicks, KeepTables
  PROVE  IInv'
<1>1. TypeOK'
  BY DEF IInv, TypeOK, Answer, KeepPicks, KeepTables, Phases
<1>2. "done" \in PhasesOf(Kind(r))
  BY Kinds DEF IInv, PhasesOf, Phases
<1> QED
  BY <1>1, <1>2, Moves DEF IInv, Answer, KeepPicks, Loaded, Locked, Checked, Inserted

LEMMA LoadIInv ==
  ASSUME IInv, NEW r \in Requests, Load(r)
  PROVE  IInv'
<1>1. Kind(r) = "accept"
  BY Kinds DEF IInv, Shape, PhasesOf, Load
<1>2. CASE Goto(r, "lock")
  <2>1. TypeOK'
    BY <1>2 DEF IInv, TypeOK, Load, Goto, KeepPicks, KeepTables, Phases
  <2>2. "lock" \in PhasesOf(Kind(r))
    BY <1>1 DEF PhasesOf, Phases
  <2>3. "lock" \notin Locked /\ "lock" \notin Checked
    BY DEF Locked, Checked, Inserted
  <2>4. Good(r)
    BY <1>2 DEF Load, Good, Goto, Answer, IInv, TypeOK
  <2> QED
    BY <1>1, <1>2, <2>1, <2>2, <2>3, <2>4, Moves DEF IInv, Goto, Load, KeepPicks, Inserted
<1>3. CASE Answer(r, "notFound") \/ Answer(r, "gone")
  BY <1>3, EndsIInv DEF Load, Answers
<1> QED
  BY <1>2, <1>3 DEF Load

LEMMA LockIInv ==
  ASSUME IInv, NEW r \in Requests, Lock(r)
  PROVE  IInv'
<1>1. Kind(r) = "accept"
  BY Kinds DEF IInv, Shape, PhasesOf, Lock
<1>2. TypeOK'
  BY DEF IInv, TypeOK, Lock, Goto, KeepPicks, KeepTables, Phases
<1>3. "recheck" \in PhasesOf(Kind(r)) /\ "recheck" \notin Checked
  BY <1>1 DEF PhasesOf, Phases, Checked, Inserted
<1>4. Good(r)
  BY <1>1 DEF IInv, Current, Accepting, Loaded, Lock
<1>5. \A q \in Requests \ {r} : ~HoldsInvite(q, send[r].invite)
  BY DEF Lock, Blocked, WaitsFor
<1> QED
  BY <1>1, <1>2, <1>3, <1>4, <1>5, Moves DEF IInv, Goto, Lock, KeepPicks, Inserted

LEMMA RecheckIInv ==
  ASSUME IInv, NEW r \in Requests, Recheck(r)
  PROVE  IInv'
<1>1. Kind(r) = "accept"
  BY Kinds DEF IInv, Shape, PhasesOf, Recheck
<1>2. CASE Goto(r, "email") /\ ~(Home \in orgs /\ invite[send[r].invite].accepted)
  <2>1. TypeOK'
    BY <1>2 DEF IInv, TypeOK, Recheck, Goto, KeepPicks, KeepTables, Phases
  <2>2. "email" \in PhasesOf(Kind(r))
    BY <1>1 DEF PhasesOf, Phases
  <2>3. Good(r) /\ phase[r] \in Locked
    BY <1>1 DEF IInv, Current, Accepting, Loaded, Locked, Recheck
  <2> QED
    BY <1>1, <1>2, <2>1, <2>2, <2>3, Moves DEF IInv, Goto, Recheck, KeepPicks, Inserted
<1>3. CASE Answer(r, "gone")
  BY <1>3, EndsIInv DEF Recheck, Answers
<1> QED
  BY <1>2, <1>3 DEF Recheck

(* Moves of signups, and of create_user for both its callers.              *)
LEMMA PickSlugIInv ==
  ASSUME IInv, NEW r \in Requests, PickSlug(r)
  PROVE  IInv'
<1>1. Kind(r) = "signup"
  BY Kinds DEF IInv, Shape, PhasesOf, PickSlug
<1>2. PICK p \in {"slug", "org"} : phase' = [phase EXCEPT ![r] = p]
  <2>1. phase = [phase EXCEPT ![r] = "slug"]
    BY DEF IInv, TypeOK, PickSlug
  <2> QED
    BY <2>1 DEF PickSlug, Goto
<1>3. TypeOK'
  BY <1>2 DEF IInv, TypeOK, PickSlug, Goto, KeepTables, Phases
<1>4. p \in PhasesOf(Kind(r))
  BY <1>1 DEF PhasesOf, Phases
<1> QED
  BY <1>1, <1>2, <1>3, <1>4, Moves DEF IInv, PickSlug

LEMMA InsertOrgIInv ==
  ASSUME IInv, NEW r \in Requests, InsertOrg(r)
  PROVE  IInv'
<1>1. Kind(r) = "signup"
  BY Kinds DEF IInv, Shape, PhasesOf, InsertOrg
<1>2. CASE Goto(r, "email")
  <2>1. TypeOK'
    BY <1>2 DEF IInv, TypeOK, InsertOrg, Goto, KeepPicks, KeepTables, Phases
  <2>2. "email" \in PhasesOf(Kind(r))
    BY <1>1 DEF PhasesOf, Phases
  <2> QED
    BY <1>1, <1>2, <2>1, <2>2, Moves DEF IInv, Goto, InsertOrg, KeepPicks
<1>3. CASE Answer(r, "error")
  BY <1>3, EndsIInv DEF InsertOrg, Answers
<1> QED
  BY <1>2, <1>3 DEF InsertOrg

(* A request in create_user goes on to p without losing what it knows.     *)
LEMMA GoesOn ==
  ASSUME IInv, NEW r \in Requests, phase[r] \in {"email", "name"}, NEW p \in {"name", "insert"},
         phase' = [phase EXCEPT ![r] = p], send' = send, KeepTables, TypeOK'
  PROVE  IInv'
<1>1. Kind(r) \in {"accept", "signup"}
  BY Kinds DEF IInv, Shape, PhasesOf
<1>2. p \in PhasesOf(Kind(r))
  BY <1>1 DEF PhasesOf, Phases
<1>3. Kind(r) = "accept" => /\ Good(r) /\ phase[r] \in Locked
                            /\ Home \in orgs => ~invite[send[r].invite].accepted
  BY DEF IInv, Current, Fresh, Accepting, Loaded, Locked, Checked, Inserted
<1> QED
  BY <1>1, <1>2, <1>3, Moves DEF IInv, Inserted

LEMMA CheckEmailIInv ==
  ASSUME IInv, NEW r \in Requests, CheckEmail(r)
  PROVE  IInv'
<1>1. CASE Goto(r, "name")
  <2>1. TypeOK'
    BY <1>1 DEF IInv, TypeOK, CheckEmail, Goto, KeepPicks, KeepTables, Phases
  <2> QED
    BY <1>1, <2>1, GoesOn DEF CheckEmail, Goto, KeepPicks
<1>2. CASE Answer(r, "conflict")
  BY <1>2, EndsIInv DEF CheckEmail, Answers
<1> QED
  BY <1>1, <1>2 DEF CheckEmail

LEMMA CheckNameIInv ==
  ASSUME IInv, NEW r \in Requests, CheckName(r)
  PROVE  IInv'
<1>1. phase[r] = "name" /\ send' = send /\ KeepTables
  BY DEF CheckName
<1>2. CASE Goto(r, "insert") /\ UNCHANGED number
  <2>1. TypeOK'
    BY <1>2 DEF IInv, TypeOK, CheckName, Goto, KeepTables, Phases
  <2> QED
    BY <1>1, <1>2, <2>1, GoesOn DEF Goto
<1>3. CASE Answer(r, "conflict") /\ UNCHANGED number
  BY <1>3, EndsIInv DEF CheckName, Answers, KeepPicks
<1>4. CASE number' = [number EXCEPT ![r] = @ + 1] /\ UNCHANGED <<phase, answer>>
  <2>1. TypeOK'
    BY <1>4 DEF IInv, TypeOK, CheckName, KeepTables
  <2>2. phase' = [phase EXCEPT ![r] = "name"]
    BY <1>1, <1>4 DEF IInv, TypeOK
  <2> QED
    BY <1>1, <2>1, <2>2, GoesOn
<1> QED
  BY <1>2, <1>3, <1>4 DEF CheckName

(* The INSERT finds the studio there and no deletion of it under way.      *)
LEMMA Welcome ==
  ASSUME NEW r \in Requests, phase[r] = "insert", ~Blocked(r), ~Violates(r), StudioOf(r) = Home
  PROVE  Home \in orgs /\ \A q \in Requests : ~DeletesHome(q)
<1> SUFFICES ASSUME NEW q \in Requests, DeletesHome(q) PROVE FALSE
  BY DEF Violates
<1> QED
  BY DEF Blocked, WaitsFor, DeletesHome

LEMMA InsertUserIInv ==
  ASSUME IInv, NEW r \in Requests, InsertUser(r)
  PROVE  IInv'
<1>1. Kind(r) \in {"accept", "signup"}
  BY Kinds DEF IInv, Shape, PhasesOf, InsertUser
<1>2. CASE ~Violates(r) /\ \E p \in Inserted : Goto(r, p)
  <2> PICK p \in Inserted : Goto(r, p) /\ (p = "mark" => Kind(r) = "accept")
    BY <1>2 DEF InsertUser, Inserted, Goto, IInv, TypeOK
  <2>1. TypeOK'
    BY <1>2 DEF IInv, TypeOK, InsertUser, Goto, KeepPicks, KeepTables, Phases, Inserted
  <2>2. p \in PhasesOf(Kind(r))
    BY <1>1 DEF PhasesOf, Phases, Inserted
  <2>3. Kind(r) = "accept" => /\ Good(r) /\ phase[r] \in Locked
                              /\ Home \in orgs => ~invite[send[r].invite].accepted
    BY DEF IInv, Current, Fresh, Accepting, Loaded, Locked, Checked, Inserted, InsertUser
  <2>4. Kind(r) = "accept" => Home \in orgs /\ \A q \in Requests : ~DeletesHome(q)
    BY <1>2, Welcome DEF InsertUser, StudioOf
  <2> QED
    BY <1>1, <1>2, <2>1, <2>2, <2>3, <2>4, Moves DEF IInv, Goto, InsertUser, KeepPicks
<1>3. CASE Answer(r, "error")
  BY <1>3, EndsIInv DEF InsertUser, Answers
<1> QED
  BY <1>2, <1>3 DEF InsertUser, Inserted

LEMMA MarkIInv ==
  ASSUME IInv, NEW r \in Requests, Mark(r)
  PROVE  IInv'
<1>1. Kind(r) = "accept"
  BY Kinds DEF IInv, Shape, PhasesOf, Mark
<1>2. TypeOK'
  BY DEF IInv, TypeOK, Mark, Goto, KeepPicks, KeepTables, Phases
<1>3. "commit" \in PhasesOf(Kind(r))
  BY <1>1 DEF PhasesOf, Phases
<1>4. Accepting(r, Inserted) /\ Accepting(r, Checked) /\ Accepting(r, Locked) /\ Accepting(r, Loaded)
  BY <1>1 DEF Mark, Accepting, Checked, Inserted, Locked, Loaded
<1>5. /\ Good(r) /\ phase[r] \in Locked /\ ~invite[send[r].invite].accepted
      /\ Home \in orgs /\ \A q \in Requests : ~DeletesHome(q)
  BY <1>4 DEF IInv, Current, Fresh, Sharing, Accepting
<1> QED
  BY <1>1, <1>2, <1>3, <1>5, Moves DEF IInv, Goto, Mark, KeepPicks

(* Moves of a deletion.                                                    *)
LEMMA FindIInv ==
  ASSUME IInv, NEW r \in Requests, Find(r)
  PROVE  IInv'
<1>1. Kind(r) = "remove"
  BY Kinds DEF IInv, Shape, PhasesOf, Find
<1>2. CASE Goto(r, "delete")
  <2>1. TypeOK'
    BY <1>2 DEF IInv, TypeOK, Find, Goto, KeepPicks, KeepTables, Phases
  <2>2. "delete" \in PhasesOf(Kind(r))
    BY <1>1 DEF PhasesOf, Phases
  <2> QED
    BY <1>1, <1>2, <2>1, <2>2, Moves DEF IInv, Goto, Find, KeepPicks
<1>3. CASE Answer(r, "notFound")
  BY <1>3, EndsIInv DEF Find, Answers
<1> QED
  BY <1>2, <1>3 DEF Find

LEMMA DeleteOrgIInv ==
  ASSUME IInv, NEW r \in Requests, DeleteOrg(r)
  PROVE  IInv'
<1>1. Kind(r) = "remove"
  BY Kinds DEF IInv, Shape, PhasesOf, DeleteOrg
<1>2. CASE Goto(r, "cascade")
  <2>1. TypeOK'
    BY <1>2 DEF IInv, TypeOK, DeleteOrg, Goto, KeepPicks, KeepTables, Phases
  <2>2. "cascade" \in PhasesOf(Kind(r))
    BY <1>1 DEF PhasesOf, Phases
  <2>3. \A q \in Requests : ~Accepting(q, Inserted)
    <3> SUFFICES ASSUME NEW q \in Requests, Accepting(q, Inserted) PROVE FALSE
      OBVIOUS
    <3>1. q # r
      BY <1>1 DEF Accepting
    <3> QED
      BY <3>1 DEF DeleteOrg, Blocked, WaitsFor, Created, StudioOf, Accepting, Inserted
  <2> QED
    BY <1>1, <1>2, <2>1, <2>2, <2>3, Moves DEF IInv, Goto, DeleteOrg, KeepPicks
<1>3. CASE Answer(r, "ok")
  BY <1>3, EndsIInv DEF DeleteOrg, Answers
<1> QED
  BY <1>2, <1>3 DEF DeleteOrg

LEMMA CascadeIInv ==
  ASSUME IInv, NEW r \in Requests, Cascade(r)
  PROVE  IInv'
<1>1. Kind(r) = "remove"
  BY Kinds DEF IInv, Shape, PhasesOf, Cascade
<1>2. TypeOK'
  BY DEF IInv, TypeOK, Cascade, Goto, KeepPicks, KeepTables, Phases
<1>3. "commit" \in PhasesOf(Kind(r))
  BY <1>1 DEF PhasesOf, Phases
<1>4. \A q \in Requests : ~Accepting(q, Inserted)
  BY <1>1 DEF IInv, Sharing, Accepting, DeletesHome, Cascade
<1> QED
  BY <1>1, <1>2, <1>3, <1>4, Moves DEF IInv, Goto, Cascade, KeepPicks

(* Steps that change a table.                                              *)
LEMMA AddUserIInv ==
  ASSUME IInv, NEW r \in Requests, AddUser(r)
  PROVE  IInv'
<1>1. "done" \in PhasesOf(Kind(r))
  BY DEF PhasesOf, Phases
<1>2. CASE Answer(r, "ok") /\ accounts' = accounts \union {r} /\ ~Violates(r)
  <2>1. TypeOK'
    BY <1>2 DEF IInv, TypeOK, AddUser, Answer, KeepPicks, Phases, Answers
  <2>2. /\ phase'[r] = "done"
        /\ \A q \in Requests \ {r} : phase'[q] = phase[q]
        /\ \A q : Kind(q)' = Kind(q) /\ StudioOf(q)' = StudioOf(q)
    BY <1>2 DEF IInv, TypeOK, AddUser, Answer, KeepPicks, Kind, StudioOf
  <2>3. Shape' /\ Exclusive' /\ Fresh' /\ Sharing' /\ Current'
    BY <1>1, <2>2 DEF IInv, Shape, Exclusive, Fresh, Sharing, Current, Accepting, Good, DeletesHome,
                      Checked, Inserted, Locked, Loaded, AddUser, KeepPicks
  <2>4. Marked' /\ Founders' /\ OneAccountPerInvite' /\ SpentOrWithdrawn'
    BY <2>2 DEF IInv, Marked, Founders, OneAccountPerInvite, SpentOrWithdrawn, AddUser, KeepPicks
  <2>5. StudioOf(r) \in orgs
    BY <1>2 DEF AddUser, Violates, StudioOf
  <2>6. StudiosAndAccountsMatch'
    BY <1>2, <2>2, <2>5 DEF IInv, StudiosAndAccountsMatch, AddUser
  <2> QED
    BY <2>1, <2>3, <2>4, <2>6 DEF IInv
<1>3. CASE UNCHANGED accounts /\ (Answer(r, "conflict") \/ Answer(r, "error"))
  BY <1>3, EndsIInv DEF AddUser, Answers, KeepTables
<1> QED
  BY <1>2, <1>3 DEF AddUser

LEMMA CommitAcceptanceIInv ==
  ASSUME IInv, NEW r \in Requests, CommitAcceptance(r)
  PROVE  IInv'
<1> DEFINE i == send[r].invite
<1>1. Accepting(r, Inserted) /\ Accepting(r, Checked) /\ Accepting(r, Locked) /\ Accepting(r, Loaded)
  BY DEF CommitAcceptance, Accepting, Checked, Inserted, Locked, Loaded
<1>2. /\ Home \in orgs /\ ~invite[i].accepted /\ Good(r)
      /\ i \in Invites /\ \A q \in Requests : Accepting(q, Locked) /\ send[q].invite = i => q = r
  BY <1>1, Kinds DEF IInv, Sharing, Fresh, Current, Exclusive, Accepting
<1>3. /\ phase'[r] = "done"
      /\ \A q \in Requests \ {r} : phase'[q] = phase[q]
      /\ \A q : Kind(q)' = Kind(q) /\ StudioOf(q)' = StudioOf(q)
      /\ UNCHANGED <<send, orgs, raced>>
  BY DEF IInv, TypeOK, CommitAcceptance, Answer, KeepPicks, Kind, StudioOf
<1>4. /\ invite'[i].accepted
      /\ \A k \in Invites : /\ invite'[k].revoked = invite[k].revoked
                            /\ invite'[k].token = invite[k].token
                            /\ k # i => invite'[k] = invite[k]
  BY <1>2 DEF IInv, TypeOK, CommitAcceptance
<1>5. TypeOK'
  BY <1>2 DEF IInv, TypeOK, CommitAcceptance, Answer, KeepPicks, Phases, Answers
<1>6. Shape'
  BY <1>3 DEF IInv, Shape, PhasesOf, Phases
<1>7. Exclusive' /\ Sharing'
  BY <1>3 DEF IInv, Exclusive, Sharing, Accepting, DeletesHome, Checked, Inserted, Locked
<1>8. Fresh'
  <2> SUFFICES ASSUME NEW q \in Requests, Accepting(q, Checked)', Home \in orgs
               PROVE  ~invite'[send[q].invite].accepted
    BY <1>3 DEF Fresh
  <2>1. q # r /\ Accepting(q, Checked) /\ Accepting(q, Locked)
    BY <1>3 DEF Accepting, Checked, Inserted, Locked
  <2>2. send[q].invite \in Invites /\ send[q].invite # i
    BY <1>2, <2>1, Kinds DEF IInv, Accepting
  <2> QED
    BY <1>4, <2>1, <2>2 DEF IInv, Fresh
<1>9. Current'
  <2> SUFFICES ASSUME NEW q \in Requests, Accepting(q, Loaded)' PROVE Good(q)'
    BY DEF Current
  <2>1. Accepting(q, Loaded) /\ send[q].invite \in Invites
    BY <1>3, Kinds DEF IInv, Accepting, Loaded, Locked, Checked, Inserted
  <2> QED
    BY <1>3, <1>4, <2>1 DEF IInv, Current, Good
<1>10. \A q \in joined \union {r} : Kind(q) = "accept" /\ send[q].invite \in Invites
  BY <1>1, Kinds DEF IInv, TypeOK, Marked, Accepting
<1>11. joined' = joined \union {r} /\ accounts' = accounts \union {r}
  BY DEF CommitAcceptance
<1>12. Marked'
  BY <1>3, <1>4, <1>10, <1>11 DEF IInv, Marked
<1>13. Founders' /\ StudiosAndAccountsMatch'
  BY <1>1, <1>2, <1>3, <1>11 DEF IInv, Founders, StudiosAndAccountsMatch, StudioOf, Accepting
<1>14. OneAccountPerInvite'
  BY <1>2, <1>3, <1>11 DEF IInv, Marked, OneAccountPerInvite
<1>15. SpentOrWithdrawn'
  BY <1>2, <1>3, <1>4, <1>10, <1>11 DEF IInv, SpentOrWithdrawn, Good
<1> QED
  BY <1>5, <1>6, <1>7, <1>8, <1>9, <1>12, <1>13, <1>14, <1>15 DEF IInv

LEMMA CommitSignupIInv ==
  ASSUME IInv, NEW r \in Requests, CommitSignup(r)
  PROVE  IInv'
<1>1. /\ phase'[r] = "done"
      /\ \A q \in Requests \ {r} : phase'[q] = phase[q]
      /\ \A q : Kind(q)' = Kind(q) /\ StudioOf(q)' = StudioOf(q)
      /\ UNCHANGED <<send, invite, joined, raced>>
      /\ Kind(r) = "signup" /\ StudioOf(r) = r /\ r # Home
      /\ accounts' = accounts \union {r} /\ orgs' = orgs \union {r}
  BY HomeAssumption DEF IInv, TypeOK, CommitSignup, Answer, KeepPicks, Kind, StudioOf
<1>2. TypeOK'
  BY DEF IInv, TypeOK, CommitSignup, Answer, KeepPicks, Phases, Answers
<1>3. Shape'
  BY <1>1 DEF IInv, Shape, PhasesOf, Phases
<1>4. Exclusive' /\ Fresh' /\ Sharing' /\ Current'
  BY <1>1 DEF IInv, Exclusive, Fresh, Sharing, Current, Accepting, DeletesHome, Good,
              Checked, Inserted, Locked, Loaded
<1>5. Marked' /\ Founders' /\ OneAccountPerInvite' /\ SpentOrWithdrawn' /\ StudiosAndAccountsMatch'
  BY <1>1 DEF IInv, Marked, Founders, OneAccountPerInvite, SpentOrWithdrawn, StudiosAndAccountsMatch
<1> QED
  BY <1>2, <1>3, <1>4, <1>5 DEF IInv

(* The UPDATE waits for the holder of the invite and spares what made an   *)
(* account; the acceptances it outdates have only read the invite.         *)
LEMMA WriteIInv ==
  ASSUME IInv, NEW r \in Requests, Write(r)
  PROVE  IInv'
<1> DEFINE i == send[r].invite
<1>1. Kind(r) \in {"revoke", "regenerate"} /\ i \in Invites
  BY Kinds DEF IInv, Shape, PhasesOf, Write
<1>2. CASE Home \in orgs /\ ~invite[i].accepted /\ Change(r)
  <2>1. /\ phase'[r] = "done"
        /\ \A q \in Requests \ {r} : phase'[q] = phase[q]
        /\ \A q : Kind(q)' = Kind(q) /\ StudioOf(q)' = StudioOf(q)
        /\ UNCHANGED <<send, orgs, accounts, joined>>
    BY <1>2 DEF IInv, TypeOK, Write, Change, Answer, KeepPicks, Kind, StudioOf
  <2>2. \A k \in Invites : /\ invite'[k].accepted = invite[k].accepted
                           /\ k # i => invite'[k] = invite[k]
    BY <1>1, <1>2 DEF IInv, TypeOK, Change, Changed
  <2>3. raced \subseteq raced' /\ (LoadedBy(i) # {} => i \in raced')
    BY <1>2 DEF Change
  <2>4. TypeOK'
    <3>1. Changed(r, invite[i]) \in [token : Nat, expired : BOOLEAN, revoked : BOOLEAN, accepted : BOOLEAN]
      <4> DEFINE Row == [token : Nat, expired : BOOLEAN, revoked : BOOLEAN, accepted : BOOLEAN]
      <4>1. invite[i] \in Row
        BY <1>1 DEF IInv, TypeOK
      <4>2. CASE Kind(r) = "revoke"
        <5>1. Changed(r, invite[i]) = [invite[i] EXCEPT !.revoked = TRUE]
          BY <4>2 DEF Changed
        <5> QED
          BY <4>1, <5>1
      <4>3. CASE Kind(r) # "revoke"
        <5> DEFINE Renewed == [invite[i] EXCEPT !.token = @ + 1]
                   Extended == [Renewed EXCEPT !.expired = FALSE]
        <5>1. Renewed \in Row
          BY <4>1
        <5>2. Extended \in Row
          <6> HIDE DEF Renewed
          <6> QED BY <5>1
        <5>3. Changed(r, invite[i]) = [Extended EXCEPT !.revoked = FALSE]
          BY <4>1, <4>3 DEF Changed
        <5> QED
          <6> HIDE DEF Extended
          <6> QED BY <5>2, <5>3
      <4> QED
        BY <4>2, <4>3
    <3> QED
      BY <1>1, <1>2, <3>1 DEF IInv, TypeOK, Write, Change, Answer, KeepPicks, Phases, Answers
  <2>5. Shape'
    BY <2>1 DEF IInv, Shape, PhasesOf, Phases
  <2>6. Exclusive' /\ Sharing'
    BY <1>1, <2>1 DEF IInv, Exclusive, Sharing, Accepting, DeletesHome
  <2>7. \A q \in Requests : Kind(q) = "accept" => send[q].invite \in Invites
    BY Kinds DEF IInv
  <2>8. \A q \in joined : q \in Requests /\ Kind(q) = "accept" /\ send[q].invite # i
    BY <1>2 DEF IInv, TypeOK, Marked
  <2>9. Fresh' /\ Marked'
    BY <1>1, <2>1, <2>2, <2>7, <2>8 DEF IInv, Fresh, Marked, Accepting
  <2>10. Founders' /\ OneAccountPerInvite' /\ StudiosAndAccountsMatch'
    BY <2>1 DEF IInv, Founders, OneAccountPerInvite, StudiosAndAccountsMatch
  <2>11. SpentOrWithdrawn'
    BY <2>1, <2>2, <2>3, <2>7, <2>8 DEF IInv, SpentOrWithdrawn
  <2>12. Current'
    <3> SUFFICES ASSUME NEW q \in Requests, Accepting(q, Loaded)' PROVE Good(q)'
      BY DEF Current
    <3>1. q # r /\ Accepting(q, Loaded) /\ Good(q) /\ send[q].invite \in Invites
      BY <1>1, <2>1, <2>7 DEF IInv, Current, Accepting
    <3>2. CASE send[q].invite # i
      BY <2>1, <2>2, <2>3, <3>1, <3>2 DEF Good
    <3>3. CASE send[q].invite = i
      <4>1. ~HoldsInvite(q, i)
        BY <3>1 DEF Write, Blocked, WaitsFor
      <4>2. q \in LoadedBy(i)
        BY <1>2, <3>1, <3>3, <4>1 DEF HoldsInvite, LoadedBy, Accepting, Loaded, Locked, Checked, Inserted
      <4> QED
        BY <2>1, <2>3, <3>3, <4>2 DEF Good
    <3> QED
      BY <3>2, <3>3
  <2> QED
    BY <2>4, <2>5, <2>6, <2>9, <2>10, <2>11, <2>12 DEF IInv
<1>3. CASE Answer(r, "notFound") /\ UNCHANGED <<invite, raced>>
  BY <1>3, EndsIInv DEF Write, Answers, KeepTables
<1> QED
  BY <1>2, <1>3 DEF Write

LEMMA ExpireIInv ==
  ASSUME IInv, NEW i \in Invites, Expire(i)
  PROVE  IInv'
<1>1. /\ UNCHANGED <<send, phase, orgs, accounts, joined, raced>>
      /\ \A q : Kind(q)' = Kind(q) /\ StudioOf(q)' = StudioOf(q)
  BY DEF Expire, KeepPicks, Kind, StudioOf
<1>2. \A k \in Invites : /\ invite'[k].accepted = invite[k].accepted
                         /\ invite'[k].revoked = invite[k].revoked
                         /\ invite'[k].token = invite[k].token
  BY DEF IInv, TypeOK, Expire
<1>3. TypeOK'
  BY DEF IInv, TypeOK, Expire, KeepPicks
<1>4. /\ \A q \in Requests : Kind(q) = "accept" => send[q].invite \in Invites
      /\ \A q \in joined : q \in Requests /\ Kind(q) = "accept"
  BY Kinds DEF IInv, TypeOK, Marked
<1>5. Shape' /\ Exclusive' /\ Sharing' /\ Founders' /\ OneAccountPerInvite' /\ StudiosAndAccountsMatch'
  BY <1>1 DEF IInv, Shape, Exclusive, Sharing, Founders, OneAccountPerInvite, StudiosAndAccountsMatch,
              Accepting, DeletesHome
<1>6. Fresh' /\ Marked' /\ Current' /\ SpentOrWithdrawn'
  BY <1>1, <1>2, <1>4 DEF IInv, Fresh, Marked, Current, SpentOrWithdrawn, Accepting, Good
<1> QED
  BY <1>3, <1>5, <1>6 DEF IInv

LEMMA CommitRemovalIInv ==
  ASSUME IInv, NEW r \in Requests, CommitRemoval(r)
  PROVE  IInv'
<1>1. /\ phase'[r] = "done"
      /\ \A q \in Requests \ {r} : phase'[q] = phase[q]
      /\ \A q : Kind(q)' = Kind(q) /\ StudioOf(q)' = StudioOf(q)
      /\ UNCHANGED <<send, invite, joined, raced>>
      /\ orgs' = orgs \ {Home} /\ accounts' = {a \in accounts : StudioOf(a) # Home}
  BY DEF IInv, TypeOK, CommitRemoval, Answer, KeepPicks, Kind, StudioOf
<1>2. TypeOK'
  BY DEF IInv, TypeOK, CommitRemoval, Answer, KeepPicks, Phases, Answers
<1>3. Shape'
  BY <1>1 DEF IInv, Shape, PhasesOf, Phases
<1>4. DeletesHome(r) /\ \A q \in Requests : ~Accepting(q, Inserted)
  BY DEF IInv, Sharing, DeletesHome, CommitRemoval
<1>5. Exclusive' /\ Fresh' /\ Sharing' /\ Current'
  BY <1>1, <1>4 DEF IInv, Exclusive, Fresh, Sharing, Current, Accepting, Good, CommitRemoval,
                    Checked, Inserted, Locked, Loaded
<1>6. Marked' /\ Founders' /\ OneAccountPerInvite' /\ SpentOrWithdrawn'
  BY <1>1 DEF IInv, Marked, Founders, OneAccountPerInvite, SpentOrWithdrawn
<1>7. \A o \in orgs' : o # Home /\ Kind(o) = "signup" /\ StudioOf(o) = o /\ o \in accounts
  BY <1>1 DEF IInv, Founders, StudiosAndAccountsMatch, StudioOf
<1>8. StudiosAndAccountsMatch'
  BY <1>1, <1>7 DEF IInv, StudiosAndAccountsMatch
<1> QED
  BY <1>2, <1>3, <1>5, <1>6, <1>8 DEF IInv

LEMMA NextIInv == IInv /\ [Next]_vars => IInv'
<1> SUFFICES ASSUME IInv, [Next]_vars PROVE IInv'
  OBVIOUS
<1>1. ASSUME NEW r \in Requests, Step(r) PROVE IInv'
  <2>1. CASE DeadlockVictim(r)
    BY <2>1, EndsIInv DEF DeadlockVictim, Answers
  <2>2. CASE ~DeadlockVictim(r)
    BY <1>1, <2>2, LoadIInv, LockIInv, RecheckIInv, PickSlugIInv, InsertOrgIInv, CheckEmailIInv,
       CheckNameIInv, InsertUserIInv, MarkIInv, AddUserIInv, CommitAcceptanceIInv, CommitSignupIInv, WriteIInv,
       FindIInv, DeleteOrgIInv, CascadeIInv, CommitRemovalIInv DEF Step
  <2> QED
    BY <2>1, <2>2
<1>2. ASSUME NEW r \in Requests, Fails(r) PROVE IInv'
  BY <1>2, EndsIInv DEF Fails, Answers
<1>3. CASE UNCHANGED vars
  BY <1>3 DEF vars, IInv, TypeOK, Shape, Exclusive, Fresh, Marked, Sharing, Founders, Current, Accepting,
              Good, DeletesHome, Kind, StudioOf, OneAccountPerInvite, SpentOrWithdrawn,
              StudiosAndAccountsMatch
<1> QED
  BY <1>1, <1>2, <1>3, ExpireIInv DEF Next

LEMMA AlwaysIInv == Spec => []IInv
BY InitIInv, NextIInv, PTL DEF Spec

(* Type correctness.                                                       *)
THEOREM TypeCorrect == Spec => []TypeOK
BY AlwaysIInv, PTL DEF IInv

(* One invite makes one account: accept_invite's FOR UPDATE and its second *)
(* look at accepted_at are enough.                                         *)
THEOREM OneAccount == Spec => []OneAccountPerInvite
BY AlwaysIInv, PTL DEF IInv

(* A withdrawn link makes no account, and one that made one stays as it    *)
(* is, but for a change between an acceptance's first read and its lock.   *)
THEOREM LinksSpent == Spec => []SpentOrWithdrawn
BY AlwaysIInv, PTL DEF IInv

(* Accounts have studios and studios founders, whatever is deleted, and    *)
(* wherever a signup fails.                                                *)
THEOREM StudiosMatch == Spec => []StudiosAndAccountsMatch
BY AlwaysIInv, PTL DEF IInv

(* Of requests that do not delete the studio, some wait for nobody: one    *)
(* that waits for the invite or the slug waits for one further down, one   *)
(* that waits for the keys of its account for one that has its own; and    *)
(* one that has them has its invite to itself.                             *)
Stays(r, q) == WaitsFor(r, q) /\ Kind(r) # "remove" /\ Kind(q) # "remove"

LEMMA WhoWaits ==
  ASSUME IInv, NEW r \in Requests, NEW q \in Requests, Stays(r, q)
  PROVE  \/ phase[r] \in {"lock", "write", "org"} /\ phase[q] \notin {"lock", "write", "org"}
         \/ phase[r] = "insert" /\ phase[q] \notin {"lock", "write", "org", "insert"}
<1>1. ~DeletesHome(q) /\ ~Cascaded(q) /\ phase[r] \notin {"delete", "cascade"}
  BY DEF Stays, DeletesHome, Cascaded, IInv, Shape, PhasesOf
<1>2. ASSUME phase[r] = "mark" PROVE ~HoldsInvite(q, send[r].invite)
  <2>1. Accepting(r, Locked)
    BY <1>2 DEF IInv, Shape, PhasesOf, Accepting, Locked, Checked, Inserted
  <2>2. HoldsInvite(q, send[r].invite) => Accepting(q, Locked) /\ Home \in orgs
    BY DEF HoldsInvite, Accepting, Locked, Checked, Inserted
  <2>3. QED  BY <2>1, <2>2 DEF IInv, Exclusive, HoldsInvite, Stays, WaitsFor
<1>3. HoldsInvite(q, send[r].invite) \/ NamedStudio(q) => phase[q] \notin {"lock", "write", "org"}
  BY DEF HoldsInvite, NamedStudio
<1>4. Created(q) => phase[q] \notin {"lock", "write", "org", "insert"}
  BY DEF Created
<1>5. QED  BY <1>1, <1>2, <1>3, <1>4 DEF Stays, WaitsFor

LEMMA SomeoneGoesOn ==
  ASSUME IInv, NEW S \in (SUBSET Requests) \ {{}}
  PROVE  \E t \in S : \A d \in S : ~Stays(t, d)
<1>1. CASE \E t \in S : phase[t] \notin {"lock", "write", "org", "insert"}
  BY <1>1, WhoWaits
<1>2. CASE \A t \in S : phase[t] \in {"lock", "write", "org", "insert"}
  <2>1. CASE \E t \in S : phase[t] = "insert"
    BY <1>2, <2>1, WhoWaits
  <2>2. CASE \A t \in S : phase[t] # "insert"
    BY <1>2, <2>2, WhoWaits
  <2>3. QED  BY <2>1, <2>2
<1>3. QED  BY <1>1, <1>2

(* Acceptances, signups and what management writes never fail because of   *)
(* each other: every circle the database has to break has a deletion of    *)
(* the studio in it, since FOR UPDATE excludes other acceptances from the  *)
(* start.                                                                  *)
THEOREM OnlyRemovalsCircle == Spec => []CirclesNeedRemoval
<1>1. IInv => CirclesNeedRemoval
  BY SomeoneGoesOn DEF CirclesNeedRemoval, Acyclic, Waits, Stays
<1>2. QED  BY <1>1, AlwaysIInv, PTL
=============================================================================
