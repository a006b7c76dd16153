CONSTANTS
  Identities = {p1, p2}
  Values = {a, b}
  Volumes <- MCVolumes
  LabelSets = {none, team}
  Families <- MCFamilies
SPECIFICATION Spec
CHECK_DEADLOCK FALSE
INVARIANTS RootVolumeOptional
