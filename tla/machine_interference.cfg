CONSTANTS
  s1 = s1
  s2 = s2
  NoServer = NoServer
  Servers <- TwoServers
  LabelSets <- MCLabelSets
  InitialLabels <- MCInitialLabels
  MaxFaults = 2
  StaleReads = FALSE
  OutOfBandDeletes = TRUE
  LabelEdits = TRUE
  LateCreates = TRUE
SPECIFICATION Spec
CHECK_DEADLOCK FALSE
SYMMETRY Symmetry2
INVARIANTS DeletionNeverForgotten RestIsPublished
