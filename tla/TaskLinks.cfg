SPECIFICATION Spec
CONSTANTS
  ta = ta
  tb = tb
  tc = tc
  m1 = m1
  m2 = m2
  a1 = a1
  Tasks <- MCTasks
  Managers <- MCManagers
  Schedulers <- MCSchedulers
  CastingLinks <- MCCasting
  TemplateLinks <- MCTemplates
  LastDay = 4
  DateChoices <- MCDates
SYMMETRY MCSymmetry
CONSTRAINT MCFocus
INVARIANTS CheckedLinksAcyclic
PROPERTIES PlanFollowsLinks
