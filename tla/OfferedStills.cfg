SPECIFICATION ScanSpec
CONSTANTS
  v1 = v1
  v2 = v2
  r1 = r1
  file = file
  dedup = dedup
  next = next
  chunk = chunk
  NoBlob = NoBlob
  nas = nas
  s3 = s3
  Places <- MCPlaces
  MaxUploads = 1
  Blobs <- MCBlobs
  Versions <- MCVersions
  Reviews <- MCReviews
  Attachments = {}
  Opens <- MCOpens
  Optional <- MCOptional
  Frames <- MCFrames
  Renders <- MCRenders
  Shapes <- MCShapes
  MaxLosses = 1
  MaxSwitches = 1
CHECK_DEADLOCK FALSE
INVARIANTS OfferedIsReferenced
