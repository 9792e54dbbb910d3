-------------------------------- MODULE Issues --------------------------------
(***************************************************************************)
(* Issues (app/issues/router.py): POST /issues, PATCH /issues/{id} and     *)
(* POST /issues/{id}/attachments, with the rows they add to the activity   *)
(* feed and the notifications.                                             *)
(*                                                                         *)
(* Unlike the handlers of TaskWrites these open no transaction: each       *)
(* statement commits when it ends, and an INSERT into events or            *)
(* notifications that fails takes nothing with it.  After its write a      *)
(* request reads the row again and tells what it finds.                    *)
(*                                                                         *)
(* Tasks and issues have no row in common: a behaviour is about one or the *)
(* other.                                                                  *)
(***************************************************************************)
EXTENDS TaskWrites

CONSTANTS
  IssueSet,
  IssueStatuses,
  IssueRequests,
  NoCall        \* a request that is not sent

ASSUME IssueStatusAssumption == "closed" \in IssueStatuses /\ NoStatus \notin IssueStatuses

VARIABLES
  about,     \* "tasks" or "issues"
  call,      \* per request: what it asks for, its next statement, what it read
  issue,     \* per issue: its status, NoStatus while there is no row
  updates,   \* per issue: its issue.updated events in order
  closings,  \* requests with an issue.closed notification
  attached,  \* requests with a row in issue_attachments
  writer,    \* per issue: the last request that wrote its status
  stale,     \* requests whose event tells a status that had changed already
  lost       \* issues of which an event or a notification failed

issueVars == <<call, issue, updates, closings, attached, writer, stale, lost>>
feedVars == <<vars, about, issueVars>>

(* valid: there is a title and a project, the role may create from where   *)
(* it does, and asset and shot ids are not both given.                     *)
IssueBodies == [op : {"create", "update", "attach"}, issue : IssueSet,
                status : IssueStatuses \union {NoStatus}, valid : BOOLEAN]
WellFormed(b) ==
  /\ b.op = "create" => b.status # NoStatus
  /\ b.op = "attach" => b.status = NoStatus

Calls == [body : IssueBodies, phase : {"new", "read", "event", "notify", "done"},
          read : IssueStatuses \union {NoStatus}]

IssuesTypeOK ==
  /\ about \in {"tasks", "issues"}
  /\ call \in [IssueRequests -> Calls \union {NoCall}]
  /\ issue \in [IssueSet -> IssueStatuses \union {NoStatus}]
  /\ updates \in [IssueSet -> Seq([by : IssueRequests, status : IssueStatuses])]
  /\ closings \subseteq IssueRequests /\ attached \subseteq IssueRequests
  /\ writer \in [IssueSet -> IssueRequests \union {NoCall}]
  /\ stale \subseteq IssueRequests
  /\ lost \subseteq IssueSet

NoTasks ==
  /\ body = [r \in Requests |-> CHOOSE b \in Bodies : ValidBody(b) /\ ~b.create]
  /\ phase = [r \in Requests |-> "new"] /\ tx = [r \in Requests |-> EmptyTx]
  /\ status = [t \in Tasks |-> NoStatus] /\ assigned = {}
  /\ committed = {} /\ feed = {} /\ bell = {}
  /\ answer = [r \in Requests |-> "none"] /\ overlap = [r \in Requests |-> {}]

IssuesInit ==
  /\ call \in [IssueRequests -> {[body |-> b, phase |-> "new", read |-> NoStatus]
                                   : b \in {c \in IssueBodies : WellFormed(c)}}]
  /\ \A r, q \in IssueRequests :
       r # q /\ call[r].body.op = "create" /\ call[q].body.op = "create"
         => call[r].body.issue # call[q].body.issue
  /\ issue \in [IssueSet -> IssueStatuses \union {NoStatus}]
  /\ \A r \in IssueRequests : call[r].body.op = "create" => issue[call[r].body.issue] = NoStatus

FeedInit ==
  /\ \/ about = "tasks" /\ Init
        /\ call = [r \in IssueRequests |-> NoCall] /\ issue = [i \in IssueSet |-> NoStatus]
     \/ about = "issues" /\ NoTasks /\ IssuesInit
  /\ updates = [i \in IssueSet |-> <<>>]
  /\ closings = {} /\ attached = {} /\ stale = {} /\ lost = {}
  /\ writer = [i \in IssueSet |-> NoCall]

Asks(r, op) == call[r].phase = "new" /\ call[r].body.op = op
At(r, p) == call[r].phase = p
Become(r, p) == call' = [call EXCEPT ![r].phase = p]
Of(i) == {r \in IssueRequests : call[r].body.issue = i}

-----------------------------------------------------------------------------
(* A request that is not valid, or whose issue is not there, is answered   *)
(* 400, 403 or 404.                                                        *)
Reject(r) ==
  /\ At(r, "new")
  /\ ~call[r].body.valid \/ (call[r].body.op # "create" /\ issue[call[r].body.issue] = NoStatus)
  /\ Become(r, "done")
  /\ UNCHANGED <<issue, updates, closings, attached, writer, stale, lost>>

(* The INSERT or the UPDATE.  Whoever has read the status and not yet told *)
(* it will tell an old one.                                                *)
WriteIssue(r) ==
  LET b == call[r].body IN
  /\ b.valid
  /\ IF b.status = NoStatus THEN UNCHANGED <<issue, writer, stale>>
     ELSE /\ issue' = [issue EXCEPT ![b.issue] = b.status]
          /\ writer' = [writer EXCEPT ![b.issue] = r]
          /\ stale' = stale \union {q \in Of(b.issue) : At(q, "event") /\ call[q].read # b.status}
  /\ UNCHANGED <<updates, closings, attached, lost>>

CreateIssue(r) ==
  /\ Asks(r, "create")
  /\ WriteIssue(r)
  /\ Become(r, "read")

UpdateIssueReadFirst(r) ==
  /\ Asks(r, "update") /\ issue[call[r].body.issue] # NoStatus
  /\ WriteIssue(r)
  /\ call' = [call EXCEPT ![r].phase = "event", ![r].read = issue[call[r].body.issue]]

UpdateIssue(r) ==
  /\ Asks(r, "update") /\ issue[call[r].body.issue] # NoStatus
  /\ WriteIssue(r)
  /\ Become(r, "read")

ReadIssue(r) ==
  /\ At(r, "read")
  /\ call' = [call EXCEPT ![r].phase = "event", ![r].read = issue[call[r].body.issue]]
  /\ UNCHANGED <<issue, updates, closings, attached, writer, stale, lost>>

(* issue.created, which names no status, or issue.updated with the status  *)
(* that was read; a closed issue is announced too, and so is a new one.    *)
TellEvent(r) ==
  LET b == call[r].body IN
  /\ At(r, "event")
  /\ Become(r, IF b.op = "create" \/ call[r].read = "closed" THEN "notify" ELSE "done")
  /\ \/ /\ updates' = IF b.op = "create" THEN updates
                      ELSE [updates EXCEPT ![b.issue] = Append(@, [by |-> r, status |-> call[r].read])]
        /\ UNCHANGED lost
     \/ FeedFails /\ lost' = lost \union {b.issue} /\ UNCHANGED updates
  /\ UNCHANGED <<issue, closings, attached, writer, stale>>

Announce(r) ==
  LET b == call[r].body IN
  /\ At(r, "notify")
  /\ Become(r, "done")
  /\ \/ closings' = (IF b.op = "create" THEN closings ELSE closings \union {r}) /\ UNCHANGED lost
     \/ FeedFails /\ lost' = lost \union {b.issue} /\ UNCHANGED closings
  /\ UNCHANGED <<issue, updates, attached, writer, stale>>

(* The row names content by its hash; nobody looks whether a backend has   *)
(* it.                                                                     *)
Attach(r) ==
  /\ Asks(r, "attach") /\ call[r].body.valid /\ issue[call[r].body.issue] # NoStatus
  /\ attached' = attached \union {r}
  /\ Become(r, "done")
  /\ UNCHANGED <<issue, updates, closings, writer, stale, lost>>

IssueStep(r) ==
  /\ about = "issues"
  /\ \/ Reject(r) \/ CreateIssue(r) \/ UpdateIssue(r) \/ ReadIssue(r)
     \/ TellEvent(r) \/ Announce(r) \/ Attach(r)
  /\ UNCHANGED <<vars, about>>

TaskStep(r) == about = "tasks" /\ Step(r) /\ UNCHANGED <<about, issueVars>>

FeedNext == (\E r \in Requests : TaskStep(r)) \/ (\E r \in IssueRequests : IssueStep(r))

FeedSpec == FeedInit /\ [][FeedNext]_feedVars

-----------------------------------------------------------------------------
(* Once the requests on an issue are done, its latest issue.updated event  *)
(* tells the status it has, unless that event was stale when it was        *)
(* written; and a closed issue was announced by whoever closed it last,    *)
(* whatever ran between its UPDATE and its second read.                    *)
Settled(i) == i \notin lost /\ \A r \in Of(i) : At(r, "done") \/ At(r, "new")

FeedTellsIssue ==
  about = "issues" =>
    \A i \in {j \in IssueSet : Settled(j)} :
      /\ \A k \in {Len(updates[i])} \ {0} :
           updates[i][k].by \notin stale => updates[i][k].status = issue[i]
      /\ writer[i] # NoCall /\ issue[i] = "closed" /\ call[writer[i]].body.op = "update"
           => writer[i] \in closings
=============================================================================
