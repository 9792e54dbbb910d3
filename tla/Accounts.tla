------------------------------- MODULE Accounts -------------------------------
(***************************************************************************)
(* How accounts and studios come and go: accept_invite, regenerate_invite  *)
(* and revoke_invite (app/invites/router.py), signup (app/auth/router.py)  *)
(* over app/organizations/service.py, POST /users (app/users/router.py)    *)
(* and DELETE /organization (app/organizations/router.py).                 *)
(*                                                                         *)
(* Transactions are READ COMMITTED.  An INSERT waits for the open          *)
(* transaction that inserted, or deletes, a row with the same unique key;  *)
(* an account's INSERT share-locks its studio, so that it waits for a      *)
(* deletion of the studio and the deletion waits for it; accept_invite     *)
(* locks its invite to the end.  The account and the studio that a request *)
(* creates are named by the request.  The invites belong to the studio     *)
(* Home and go with it.                                                    *)
(***************************************************************************)
EXTENDS Naturals, FiniteSets, TaskGraph

CONSTANTS
  Requests,
  Invites,
  Home,              \* the studio that is there from the start
  Emails, Handles,
  Sends,             \* per request: what it may ask for
  DbFails            \* whether a statement of a transaction may raise

Acceptances == [kind : {"accept"}, invite : Invites, token : Nat,
                email : Emails, handle : Handles, asked : BOOLEAN]
Signups == [kind : {"signup"}, email : Emails, handle : Handles, asked : BOOLEAN]
Additions == [kind : {"add"}, email : Emails, handle : Handles, capitals : BOOLEAN]
Changes == [kind : {"revoke", "regenerate"}, invite : Invites]
Removals == [kind : {"remove"}]

ASSUME HomeAssumption == Home \notin Requests
ASSUME SendsAssumption ==
  \A r \in Requests : Sends[r] \subseteq Acceptances \union Signups \union Additions
                                        \union Changes \union Removals
ASSUME DbFailsAssumption == DbFails \in BOOLEAN

VARIABLES
  send,      \* per request: what it asks for
  phase,     \* per request: its next statement
  slug,      \* per signup: the suffix of the studio's slug it tries
  number,    \* per request: the suffix of the username it tries, 1 for none
  invite,    \* per invite of Home: [token, expired, revoked, accepted]
  orgs,      \* studios committed
  accounts,  \* accounts committed
  joined,    \* acceptances committed
  answer,    \* per request
  raced      \* invites changed while an acceptance had read but not locked them

vars == <<send, phase, slug, number, invite, orgs, accounts, joined, answer, raced>>

Phases == {"load", "lock", "recheck", "slug", "org", "email", "name", "insert",
           "mark", "write", "find", "delete", "cascade", "commit", "done"}
Answers == {"none", "created", "ok", "notFound", "gone", "conflict", "error"}

FirstPhase(kind) ==
  IF kind = "accept" THEN "load"
  ELSE IF kind = "signup" THEN "slug"
  ELSE IF kind = "add" THEN "insert"
  ELSE IF kind = "remove" THEN "find"
  ELSE "write"

TypeOK ==
  /\ send \in [Requests -> UNION {Sends[r] : r \in Requests}]
  /\ \A r \in Requests : send[r] \in Sends[r]
  /\ phase \in [Requests -> Phases]
  /\ slug \in [Requests -> Nat] /\ number \in [Requests -> Nat]
  /\ invite \in [Invites -> [token : Nat, expired : BOOLEAN, revoked : BOOLEAN, accepted : BOOLEAN]]
  /\ orgs \subseteq Requests \union {Home}
  /\ accounts \subseteq Requests /\ joined \subseteq Requests
  /\ answer \in [Requests -> Answers]
  /\ raced \subseteq Invites

Init ==
  /\ send \in [Requests -> UNION {Sends[r] : r \in Requests}]
  /\ \A r \in Requests : send[r] \in Sends[r]
  /\ phase = [r \in Requests |-> FirstPhase(send[r].kind)]
  /\ slug = [r \in Requests |-> 1] /\ number = [r \in Requests |-> 1]
  /\ invite = [i \in Invites |-> [token |-> 0, expired |-> FALSE, revoked |-> FALSE, accepted |-> FALSE]]
  /\ orgs = {Home}
  /\ accounts = {} /\ joined = {}
  /\ answer = [r \in Requests |-> "none"]
  /\ raced = {}

Kind(r) == send[r].kind
StudioOf(a) == IF Kind(a) = "signup" THEN a ELSE Home

(* create_user writes addresses in lower case, POST /users as they come;   *)
(* create_user looks for lower(email), the unique key compares as stored.  *)
SameAddress(r, a) == send[a].email = send[r].email
Capitals(r) == Kind(r) = "add" /\ send[r].capitals
SameUsername(r, a) == send[a].handle = send[r].handle /\ number[a] = number[r]
SameKey(r, a) ==
  \/ SameAddress(r, a) /\ (Capitals(a) = Capitals(r))
  \/ SameUsername(r, a)

(* What open transactions hold.                                            *)
Created(q) == Kind(q) \in {"accept", "signup"} /\ phase[q] \in {"mark", "commit"}
NamedStudio(q) == Kind(q) = "signup" /\ phase[q] \in {"email", "name", "insert", "commit"}
HoldsInvite(q, i) ==
  /\ Kind(q) = "accept" /\ send[q].invite = i /\ Home \in orgs
  /\ phase[q] \in {"recheck", "email", "name", "insert", "mark", "commit"}
DeletesHome(q) == Kind(q) = "remove" /\ phase[q] \in {"cascade", "commit"}
Cascaded(q) == Kind(q) = "remove" /\ phase[q] = "commit"

(* r's statement has to wait for the transaction of q.                     *)
WaitsFor(r, q) ==
  /\ r # q
  /\ \/ /\ phase[r] \in {"lock", "mark", "write"}
        /\ (HoldsInvite(q, send[r].invite) \/ Cascaded(q))
     \/ phase[r] = "org" /\ NamedStudio(q) /\ slug[q] = slug[r]
     \/ phase[r] = "insert" /\ Created(q) /\ SameKey(r, q)
     \/ phase[r] = "insert" /\ (StudioOf(r) = Home) /\ DeletesHome(q)
     \/ phase[r] = "insert" /\ Cascaded(q) /\ \E a \in accounts : StudioOf(a) = Home /\ SameKey(r, a)
     \/ phase[r] = "delete" /\ (DeletesHome(q) \/ (Created(q) /\ StudioOf(q) = Home))
     \/ phase[r] = "cascade" /\ \E i \in Invites : HoldsInvite(q, i)

Blocked(r) == \E q \in Requests : WaitsFor(r, q)

Goto(r, p) == phase' = [phase EXCEPT ![r] = p] /\ UNCHANGED answer
Answer(r, a) == phase' = [phase EXCEPT ![r] = "done"] /\ answer' = [answer EXCEPT ![r] = a]
KeepPicks == UNCHANGED <<send, slug, number>>
KeepTables == UNCHANGED <<invite, orgs, accounts, joined, raced>>

-----------------------------------------------------------------------------
(* accept_invite: the invite is read by its token and must be pending, is  *)
(* locked, and is looked at again, for accepted_at only.                   *)
Load(r) ==
  /\ phase[r] = "load"
  /\ LET row == invite[send[r].invite] IN
       \/ (Home \notin orgs \/ row.token # send[r].token) /\ Answer(r, "notFound")
       \/ /\ Home \in orgs /\ row.token = send[r].token
          /\ IF row.revoked \/ row.accepted \/ row.expired THEN Answer(r, "gone") ELSE Goto(r, "lock")
  /\ KeepPicks /\ KeepTables

LockShared(r) ==
  /\ phase[r] = "lock"
  /\ Goto(r, "recheck")
  /\ KeepPicks /\ KeepTables

Lock(r) ==
  /\ phase[r] = "lock" /\ ~Blocked(r)
  /\ Goto(r, "recheck")
  /\ KeepPicks /\ KeepTables

(* No row is found when the studio was deleted meanwhile.                  *)
RecheckNothing(r) ==
  /\ phase[r] = "recheck"
  /\ Goto(r, "email")
  /\ KeepPicks /\ KeepTables

Recheck(r) ==
  /\ phase[r] = "recheck"
  /\ IF Home \in orgs /\ invite[send[r].invite].accepted THEN Answer(r, "gone") ELSE Goto(r, "email")
  /\ KeepPicks /\ KeepTables

-----------------------------------------------------------------------------
(* signup: the first free slug, and the INSERT of the studio.              *)
Slugs == {slug[o] : o \in orgs \ {Home}}

PickSlug(r) ==
  /\ phase[r] = "slug"
  /\ IF slug[r] \in Slugs
       THEN slug' = [slug EXCEPT ![r] = @ + 1] /\ UNCHANGED <<phase, answer>>
       ELSE Goto(r, "org") /\ UNCHANGED slug
  /\ UNCHANGED <<send, number>> /\ KeepTables

InsertOrgAtOnce(r) ==
  /\ phase[r] = "org" /\ ~Blocked(r)
  /\ IF slug[r] \in Slugs
       THEN Answer(r, "error") /\ UNCHANGED orgs
       ELSE Goto(r, "email") /\ orgs' = orgs \union {r}
  /\ KeepPicks /\ UNCHANGED <<invite, accounts, joined, raced>>

InsertOrg(r) ==
  /\ phase[r] = "org" /\ ~Blocked(r)
  /\ IF slug[r] \in Slugs THEN Answer(r, "error") ELSE Goto(r, "email")
  /\ KeepPicks /\ KeepTables

-----------------------------------------------------------------------------
(* create_user, in the transaction of its caller: the address must be      *)
(* free, a username asked for too; otherwise the first free one is taken.  *)
CheckEmail(r) ==
  /\ phase[r] = "email"
  /\ IF \E a \in accounts : SameAddress(r, a) THEN Answer(r, "conflict") ELSE Goto(r, "name")
  /\ KeepPicks /\ KeepTables

CheckName(r) ==
  /\ phase[r] = "name"
  /\ \/ /\ \A a \in accounts : ~SameUsername(r, a)
        /\ Goto(r, "insert") /\ UNCHANGED number
     \/ /\ \E a \in accounts : SameUsername(r, a)
        /\ IF send[r].asked
             THEN Answer(r, "conflict") /\ UNCHANGED number
             ELSE number' = [number EXCEPT ![r] = @ + 1] /\ UNCHANGED <<phase, answer>>
  /\ UNCHANGED <<send, slug>> /\ KeepTables

(* INSERT INTO users: UniqueViolation or ForeignKeyViolation, or the row   *)
(* is there until the transaction ends.                                    *)
Violates(r) ==
  \/ \E a \in accounts : SameKey(r, a)
  \/ StudioOf(r) = Home /\ Home \notin orgs

InsertUser(r) ==
  /\ phase[r] = "insert" /\ Kind(r) # "add" /\ ~Blocked(r)
  /\ IF Violates(r) THEN Answer(r, "error")
     ELSE Goto(r, IF Kind(r) = "accept" THEN "mark" ELSE "commit")
  /\ KeepPicks /\ KeepTables

(* POST /users: one statement; a duplicate is 409.                         *)
AddUser(r) ==
  /\ phase[r] = "insert" /\ Kind(r) = "add" /\ ~Blocked(r)
  /\ IF Violates(r)
       THEN /\ Answer(r, IF \E a \in accounts : SameKey(r, a) THEN "conflict" ELSE "error")
            /\ UNCHANGED accounts
       ELSE Answer(r, "ok") /\ accounts' = accounts \union {r}
  /\ KeepPicks /\ UNCHANGED <<invite, orgs, joined, raced>>

(* UPDATE of the invite, accepted by the new account.                      *)
Mark(r) ==
  /\ phase[r] = "mark" /\ ~Blocked(r)
  /\ Goto(r, "commit")
  /\ KeepPicks /\ KeepTables

(* COMMIT: the invite is accepted, or the studio there with its owner.     *)
CommitAcceptance(r) ==
  /\ phase[r] = "commit" /\ Kind(r) = "accept"
  /\ Answer(r, "created")
  /\ accounts' = accounts \union {r}
  /\ joined' = joined \union {r}
  /\ invite' = [invite EXCEPT ![send[r].invite].accepted = TRUE]
  /\ KeepPicks /\ UNCHANGED <<orgs, raced>>

CommitSignup(r) ==
  /\ phase[r] = "commit" /\ Kind(r) = "signup"
  /\ Answer(r, "created")
  /\ accounts' = accounts \union {r}
  /\ orgs' = orgs \union {r}
  /\ KeepPicks /\ UNCHANGED <<invite, joined, raced>>

-----------------------------------------------------------------------------
(* regenerate_invite and revoke_invite: one UPDATE ... WHERE accepted_at   *)
(* IS NULL, which waits for an acceptance that locked the row and looks at *)
(* the row again then.                                                     *)
Changed(r, row) ==
  IF Kind(r) = "revoke" THEN [row EXCEPT !.revoked = TRUE]
  ELSE [row EXCEPT !.token = @ + 1, !.expired = FALSE, !.revoked = FALSE]

LoadedBy(i) == {q \in Requests : Kind(q) = "accept" /\ send[q].invite = i /\ phase[q] = "lock"}

Change(r) ==
  /\ invite' = [invite EXCEPT ![send[r].invite] = Changed(r, @)]
  /\ raced' = IF LoadedBy(send[r].invite) # {} THEN raced \union {send[r].invite} ELSE raced
  /\ Answer(r, "ok")

WriteAccepted(r) ==
  /\ phase[r] = "write" /\ ~Blocked(r)
  /\ IF Home \in orgs THEN Change(r)
       ELSE Answer(r, "notFound") /\ UNCHANGED <<invite, raced>>
  /\ KeepPicks /\ UNCHANGED <<orgs, accounts, joined>>

Write(r) ==
  /\ phase[r] = "write" /\ ~Blocked(r)
  /\ IF Home \in orgs /\ ~invite[send[r].invite].accepted
       THEN Change(r)
       ELSE Answer(r, "notFound") /\ UNCHANGED <<invite, raced>>
  /\ KeepPicks /\ UNCHANGED <<orgs, accounts, joined>>

Expire(i) ==
  /\ ~invite[i].expired
  /\ invite' = [invite EXCEPT ![i].expired = TRUE]
  /\ KeepPicks /\ UNCHANGED <<phase, orgs, accounts, joined, answer, raced>>

-----------------------------------------------------------------------------
(* DELETE /organization finds the studio and then deletes it, if it is     *)
(* still there: its row, and, by cascade, its accounts and its invites,    *)
(* which may be locked.                                                    *)
Find(r) ==
  /\ phase[r] = "find"
  /\ IF Home \in orgs THEN Goto(r, "delete") ELSE Answer(r, "notFound")
  /\ KeepPicks /\ KeepTables

DeleteOrg(r) ==
  /\ phase[r] = "delete" /\ ~Blocked(r)
  /\ IF Home \in orgs THEN Goto(r, "cascade") ELSE Answer(r, "ok")
  /\ KeepPicks /\ KeepTables

Cascade(r) ==
  /\ phase[r] = "cascade" /\ ~Blocked(r)
  /\ Goto(r, "commit")
  /\ KeepPicks /\ KeepTables

CommitRemoval(r) ==
  /\ phase[r] = "commit" /\ Kind(r) = "remove"
  /\ Answer(r, "ok")
  /\ orgs' = orgs \ {Home}
  /\ accounts' = {a \in accounts : StudioOf(a) # Home}
  /\ KeepPicks /\ UNCHANGED <<invite, joined, raced>>

-----------------------------------------------------------------------------
(* A statement raises (a project that the invite names was deleted, or the *)
(* database fails) or create_user refuses the address or the password:     *)
(* ROLLBACK, 500 or 400.                                                   *)
Fails(r) ==
  /\ DbFails /\ phase[r] # "done"
  /\ Answer(r, "error")
  /\ KeepPicks /\ KeepTables

(* The database ends a circle of waiting transactions by failing one.      *)
Waits == {w \in Requests \X Requests : WaitsFor(w[1], w[2])}

DeadlockVictim(r) ==
  /\ \E q \in Requests : WaitsFor(r, q) /\ Reachable(r, q, Waits, Requests)
  /\ Answer(r, "error")
  /\ KeepPicks /\ KeepTables

Step(r) ==
  \/ Load(r) \/ Lock(r) \/ Recheck(r) \/ PickSlug(r) \/ InsertOrg(r)
  \/ CheckEmail(r) \/ CheckName(r) \/ InsertUser(r) \/ AddUser(r)
  \/ Mark(r) \/ CommitAcceptance(r) \/ CommitSignup(r) \/ Write(r)
  \/ Find(r) \/ DeleteOrg(r) \/ Cascade(r) \/ CommitRemoval(r) \/ DeadlockVictim(r)

Next == \/ \E r \in Requests : Step(r) \/ Fails(r)
        \/ \E i \in Invites : Expire(i)

Spec == Init /\ [][Next]_vars

-----------------------------------------------------------------------------
(* "Lock the invite so two tabs cannot accept it twice": one invite makes  *)
(* one account, whatever is regenerated or revoked in between.             *)
OneAccountPerInvite ==
  \A r, q \in joined : send[r].invite = send[q].invite => r = q

(* A link that was revoked or replaced makes no account, and an invite     *)
(* that made one is neither revoked nor replaced afterwards, unless the    *)
(* change came between an acceptance's first read and its lock, after      *)
(* which accept_invite looks at accepted_at only.                          *)
SpentOrWithdrawn ==
  \A r \in joined : LET i == send[r].invite IN
    i \in raced \/ (~invite[i].revoked /\ invite[i].token = send[r].token)

(* No account outlives its studio, and no studio is without the account    *)
(* that created it, however acceptances, signups and the deletion of the   *)
(* studio interleave and wherever a signup fails.                          *)
StudiosAndAccountsMatch ==
  /\ \A a \in accounts : StudioOf(a) \in orgs
  /\ orgs \ {Home} \subseteq accounts

(* Acceptances, signups, POST /users and changes of invites never fail     *)
(* because of each other: the requests that wait for one another in a      *)
(* circle are never without one that deletes the studio.  An acceptance    *)
(* takes its invite, to the exclusion of others from the start, and then   *)
(* the keys of its account; a signup takes its slug and then those.        *)
CirclesNeedRemoval ==
  Acyclic({w \in Waits : "remove" \notin {Kind(w[1]), Kind(w[2])}}, Requests)
=============================================================================
