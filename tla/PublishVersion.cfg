SPECIFICATION FairSpec
CONSTANTS
  p1 = p1
  p2 = p2
  p3 = p3
  q1 = q1
  q2 = q2
  fbx = fbx
  abc = abc
  b1 = b1
  c1 = c1
  NoBatch = NoBatch
  Publishes <- MCPublishes
  Patches <- MCPatches
  Reps <- MCReps
  Batches <- MCBatches
  Explicit <- MCExplicit
  Contents <- MCContents
  DbFails = TRUE
  Workloads <- MCWorkloads
CHECK_DEADLOCK FALSE
INVARIANTS SequentialBatchSharesNumber
PROPERTIES NextIsLatest CatalogSpec UndisturbedPatchSyncsTask PublishAnswered
