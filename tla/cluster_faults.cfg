SPECIFICATION Spec

CONSTANTS
  MaxIDs = 2
  BastionAtStart = TRUE
  StaleReads = FALSE
  WithMachines = TRUE
  Modes <- MCFaults
  LabelSets <- MCLabelSets
  InitialLabels <- MCInitialLabels
  Contents <- MCOneContent
  InitialContent = "c1"

INVARIANTS
  TypeOK
  ByoNetworkKept
  RestIsPublished
PROPERTIES
  MachinesKeepCluster
  OwnershipSpec

CHECK_DEADLOCK FALSE
