CONSTANTS
  s1 = s1
  s2 = s2
  NoServer = NoServer
  Servers <- TwoServers
  LabelSets <- MCLabelSets
  InitialLabels <- MCInitialLabels
  MaxFaults = 1
  StaleReads = TRUE
  OutOfBandDeletes = FALSE
  LabelEdits = FALSE
  LateCreates = FALSE
SPECIFICATION FairSpec
CHECK_DEADLOCK FALSE
INVARIANTS TypeOK FinalizerGuardsServer AtMostOneServer NeverRecreated IdentityAgrees DeletionNeverForgotten RestIsPublished IndInv
PROPERTIES OwnershipSpec DeletionCompletes ProvisioningCompletes
