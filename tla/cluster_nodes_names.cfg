SPECIFICATION FairSpec
CONSTANTS
  Machines = {1}
  ControlPlane = {}
  IPs <- MCIPs
  Modes <- MCSwitched
  SameName = FALSE
  MaxIDs = 4
  MaxFaults = 0
  MaxEdits = 1
PROPERTY DisabledBastionRemoved
CHECK_DEADLOCK FALSE
