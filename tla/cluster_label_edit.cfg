SPECIFICATION Spec

CONSTANTS
  MaxIDs = 3
  BastionAtStart = TRUE
  StaleReads = FALSE
  WithMachines = FALSE
  Modes <- MCLabelEdit
  LabelSets <- MCLabelSets
  InitialLabels <- MCInitialLabels
  Contents <- MCOneContent
  InitialContent = "c1"

INVARIANTS
  FinalizerGuardsResources

CHECK_DEADLOCK FALSE
