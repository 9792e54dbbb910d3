SPECIFICATION Spec
CONSTANTS
  r1 = r1
  r2 = r2
  r3 = r3
  r4 = r4
  i1 = i1
  e1 = e1
  e2 = e2
  h1 = h1
  Home = Home
  Requests <- MCRequests
  Invites <- MCInvites
  Emails <- MCEmails
  Handles <- MCHandles
  Sends <- MCSends
  DbFails = TRUE
CHECK_DEADLOCK FALSE
INVARIANTS OneAccountPerInvite SpentOrWithdrawn StudiosAndAccountsMatch CirclesNeedRemoval
