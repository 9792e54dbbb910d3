SPECIFICATION EngineFairSpec
CONSTANTS
  ta = ta
  tb = tb
  tc = tc
  tx = tx
  NoDates = NoDates
  None = None
  ProjectTasks <- MCTasks
  Outside <- MCOutside
  Inputs <- MCInputs
  Starts <- MCStarts
CHECK_DEADLOCK FALSE
INVARIANTS AnswerExact TopoOrderExact EarliestLayout
PROPERTIES Terminates
