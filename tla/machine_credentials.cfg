CONSTANTS
  s1 = s1
  s2 = s2
  NoServer = NoServer
  Servers <- TwoServers
  LabelSets <- MCLabelSets
  InitialLabels <- MCInitialLabels
  MaxFaults = 2
  StaleReads = FALSE
  OutOfBandDeletes = FALSE
  LabelEdits = FALSE
  LateCreates = FALSE
SPECIFICATION Spec
CHECK_DEADLOCK FALSE
INVARIANTS DeletionKeepsRetrying
