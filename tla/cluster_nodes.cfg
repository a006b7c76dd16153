SPECIFICATION FairSpec
CONSTANTS
  Machines = {1, 2}
  ControlPlane = {1, 2}
  IPs <- MCIPs
  Modes <- MCAll
  SameName = TRUE
  MaxIDs = 4
  MaxFaults = 2
  MaxEdits = 2
INVARIANTS
  TypeOK
  PoolAddressesDistinct
  PoolServesControlPlane
  NodesReachable
  ServersPlaced
  PlaceholderInNetwork
PROPERTIES
  PoolNeverEmptied
  DisabledBastionRemoved
  Settles
CHECK_DEADLOCK FALSE
