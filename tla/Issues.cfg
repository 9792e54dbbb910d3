SPECIFICATION FeedSpec
CONSTANTS
  r1 = r1
  r2 = r2
  r3 = r3
  issue1 = issue1
  NoCall = NoCall
  IssueRequests <- MCIssueRequests
  IssueSet <- MCIssueSet
  IssueStatuses <- MCIssueStatuses
  t1 = t1
  u1 = u1
  u2 = u2
  NoStatus = NoStatus
  Nobody = Nobody
  Keep = Keep
  Tasks <- MCTasks
  Users <- MCUsers
  Requests <- MCRequests
  Statuses <- MCStatuses
  Assignments <- MCAssignments
  AuthOff = TRUE
  FeedFails = TRUE
CHECK_DEADLOCK FALSE
INVARIANTS FeedAloneLoses CirclesNeedUnlocked FeedTellsIssue
PROPERTIES AssigneesReplaced
