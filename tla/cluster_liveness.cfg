SPECIFICATION FairSpec

CONSTANTS
  MaxIDs = 2
  BastionAtStart = TRUE
  StaleReads = TRUE
  WithMachines = FALSE
  Modes <- MCLiveness
  LabelSets <- MCLabelSets
  InitialLabels <- MCInitialLabels
  Contents <- MCOneContent
  InitialContent = "c1"

INVARIANTS
  FinalizerGuardsResources
  AtMostOneOfAKind
PROPERTIES
  DeletionCompletes
  ProvisioningCompletes

CHECK_DEADLOCK FALSE
