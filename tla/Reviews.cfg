SPECIFICATION ReviewsSpec
CONSTANTS
  i1 = i1
  i2 = i2
  n1 = n1
  artist = artist
  r1 = r1
  r2 = r2
  r3 = r3
  a1 = a1
  a2 = a2
  NoItem = NoItem
  Linked <- MCLinked
  Authors <- MCAuthors
  Reviewer = reviewer
  Items <- MCItems
  Notes <- MCNotes
  Requests <- MCRequests
  Mixes <- MCMixes
  Guest = guest
  NoShare = NoShare
  Media <- MCItems
  Replicas <- MCReplicas
  Workers = 1
  MediaFails = TRUE
  DbFails = TRUE
  MaxCrashes = 2
  MaxReprocess = 1
CHECK_DEADLOCK FALSE
INVARIANTS RevisionsNumbered HistoryChains ThreadsWhole CirclesNeedDeletion UnfinishedPickedUp SlotsAccounted
PROPERTIES ApprovalVerifiesFixed Processed
