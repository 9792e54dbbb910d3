SPECIFICATION StudioSpec
CONSTANTS
  r1 = r1
  r2 = r2
  r3 = r3
  char = char
  shot = shot
  model = model
  rig = rig
  hero = hero
  film = film
  s1 = s1
  mug = mug
  Requests <- MCRequests
  Casters <- MCCasters
  Sends <- MCSends
  MaxRows = 4
  Kinds <- MCKinds
  EntityKind <- MCEntityKind
  Types <- MCTypes
  BuiltIns <- MCBuiltIns
  Custom <- MCCustom
  Entities <- MCEntities
  Projects <- MCProjects
  Tree <- MCTree
  Shots <- MCShots
  Assets <- MCAssets
  Names <- MCNames
  Plain = ""
  Casts <- MCCasts
  Grids <- MCGrids
  Initial <- MCInitial
CHECK_DEADLOCK FALSE
INVARIANTS DuplicatesOverlap
PROPERTIES DefaultKept CastReplaced
