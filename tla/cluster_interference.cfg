SPECIFICATION Spec

CONSTANTS
  MaxIDs = 3
  BastionAtStart = TRUE
  StaleReads = FALSE
  WithMachines = FALSE
  Modes <- MCInterference
  LabelSets <- MCLabelSets
  InitialLabels <- MCInitialLabels
  Contents <- MCTwoContents
  InitialContent = "c1"

INVARIANTS
  DeletionNeverForgotten
  BastionFollowsSpec
  HashDescribesServer

CHECK_DEADLOCK FALSE
